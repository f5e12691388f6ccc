------------------------------ MODULE EntryRules ------------------------------
(***************************************************************************)
(* The weekly entry decision of one account: the entry-loss switches that  *)
(* the mobile application sets in strategy-controls.php, the outcome of    *)
(* each week that the executor records there, and the executors (a node    *)
(* and its stand-in) that decide from a context they read at most once in  *)
(* a refresh interval.                                                     *)
(*                                                                         *)
(* A request of an executor may fail before or after the backend has       *)
(* processed it, or be processed after the executor has given it up.  A    *)
(* setting the application sends may arrive any number of times, in any    *)
(* order with others.                                                      *)
(* What the market says is the set of rules it speaks against; inputs that *)
(* are missing make the executor wait and are no step.  Weeks have two     *)
(* entry windows, Monday's (even instants) and Tuesday's.                  *)
(***************************************************************************)
EXTENDS Integers, Sequences, FiniteSets

CONSTANTS Node,      \* machines that may run the executor
          Market,    \* bound: what the market says, sets of rules
          Switch,    \* bound: the rules the operator switches
          MaxClock,  \* bound: the last entry window
          MaxTaps,   \* bound: settings the operator changes
          MaxToken,  \* bound: acquisitions of the executor's lease
          MaxFaults  \* bound: failed or late requests, restarts

Rule == {"ARITHMETIC_LAST_TWO", "GAP_MOMENTUM", "TUESDAY_NORMALIZATION", "PREMARKET_LOW"}

ASSUME BoundsAssumption ==
  /\ Market \subseteq SUBSET Rule /\ Switch \subseteq Rule
  /\ MaxClock \in Nat /\ MaxTaps \in Nat /\ MaxToken \in Nat \ {0} /\ MaxFaults \in Nat

VARIABLES
  clock,
  taps,      \* strategy_entry_rule_control_events, in the order of their rows
  on,        \* the enabled rules
  revision,  \* revision of the controls
  outcome,   \* strategy_entry_rule_week_state
  recorded,  \* strategy_entry_rule_week_events
  lease,     \* the executor's lease: owner and fencing token
  hold,      \* the token each node believes it holds, 0 for none
  cache,     \* the context each node has: {} or the last answer
  fresh,     \* whether a refresh interval began in this window: it may still run
  pc,        \* what its executor does
  call,      \* the outcome it decided: {} or the request it sends
  late,      \* requests that were given up and may still be processed
  bought,    \* entries: the week, and the week of the answer they go back to
  entered,   \* last_entry_week in each state file, -1 for none
  faults

mobile == <<taps, on, revision>>
weekly == <<outcome, recorded>>
executor == <<hold, cache, fresh, pc, call, entered>>
vars == <<clock, taps, on, revision, outcome, recorded, lease,
          hold, cache, fresh, pc, call, late, bought, entered, faults>>

Weeks == 0..(MaxClock \div 2)
Week == clock \div 2
Monday == clock % 2 = 0

Approved == {"ENTRY_APPROVED", "TUESDAY_REENTRY"}
Skipped == {"SKIP_ARITHMETIC", "SKIP_GAP_MOMENTUM", "SKIP_PREMARKET_LOW", "SKIP_TUESDAY_NOT_NORMALIZED"}
Status == Approved \cup Skipped \cup {"DEFER_TUESDAY"}

\* The application gives every change a request id of its own.
Tap == [id : 1..MaxTaps, rule : Rule, enabled : BOOLEAN]

\* What is recorded of a week: market says what the decision was made from.
Outcome == [status : Status \cup {""}, market : SUBSET Rule]

Context == [week : Weeks, status : Status \cup {""}, on : SUBSET Rule, revision : Nat]

Request == [week : Weeks, told : Weeks, monday : BOOLEAN, status : Status, market : SUBSET Rule,
            revision : Nat, node : Node, token : Nat]

Init ==
  /\ clock = 0
  /\ taps = <<>> /\ on = Rule /\ revision = 1
  /\ outcome = [w \in Weeks |-> [status |-> "", market |-> {}]]
  /\ recorded = {}
  /\ lease \in [node : Node, token : {1}]
  /\ hold = [n \in Node |-> IF n = lease.node THEN 1 ELSE 0]
  /\ cache = [n \in Node |-> {}] /\ fresh = [n \in Node |-> FALSE]
  /\ pc = [n \in Node |-> "idle"] /\ call = [n \in Node |-> {}]
  /\ late = {} /\ bought = {}
  /\ entered = [n \in Node |-> -1]
  /\ faults = 0

Fault == faults < MaxFaults /\ faults' = faults + 1

-----------------------------------------------------------------------------
\* The switches

\* A request the application sends for the first time, or one it repeats or the
\* network duplicates.  A request that never arrives changes nothing, and the
\* order of arrival is any, so a new id is the next one.
Sent == {taps[i] : i \in 1..Len(taps)} \cup
        {q \in [id : {Len(taps) + 1}, rule : Switch, enabled : BOOLEAN] : Len(taps) < MaxTaps}

Known(q) == \E i \in 1..Len(taps) : taps[i].id = q.id

Apply(q) == /\ on' = IF q.enabled THEN on \cup {q.rule} ELSE on \ {q.rule}
            /\ revision' = revision + 1

\* A repetition is not recorded again, but applied.
MutSetRule(q) ==
  /\ Apply(q)
  /\ taps' = IF Known(q) THEN taps ELSE Append(taps, q)
  /\ UNCHANGED <<clock, weekly, lease, executor, late, bought, faults>>

\* Only a request id that is new changes the setting.
SetRule(q) ==
  /\ IF Known(q) THEN UNCHANGED <<taps, on, revision>>
     ELSE taps' = Append(taps, q) /\ Apply(q)
  /\ UNCHANGED <<clock, weekly, lease, executor, late, bought, faults>>

-----------------------------------------------------------------------------
\* The backend's record of the week

\* loss_control_entry_decision, with Tuesday's normalization of a deferred entry.
Decision(enabled, market, monday, deferred) ==
  LET against == enabled \cap market
  IN  CASE deferred -> IF "TUESDAY_NORMALIZATION" \in against
                       THEN "SKIP_TUESDAY_NOT_NORMALIZED" ELSE "TUESDAY_REENTRY"
        [] ~deferred /\ "ARITHMETIC_LAST_TWO" \in against -> "SKIP_ARITHMETIC"
        [] ~deferred /\ against \cap {"ARITHMETIC_LAST_TWO", "PREMARKET_LOW"} = {"PREMARKET_LOW"}
             -> "SKIP_PREMARKET_LOW"
        [] ~deferred /\ against \cap {"ARITHMETIC_LAST_TWO", "PREMARKET_LOW", "GAP_MOMENTUM"} = {"GAP_MOMENTUM"}
             -> IF monday THEN "DEFER_TUESDAY" ELSE "SKIP_GAP_MOMENTUM"
        [] OTHER -> "ENTRY_APPROVED"

\* require_coordination_actor
LeaseValid(node, token) == lease.node = node /\ lease.token = token

\* uuid5 of the week, the status, the owner and the fencing token.
SameId(r, s) == r.week = s.week /\ r.status = s.status /\ r.node = s.node /\ r.token = s.token

NewRequest(r) == ~\E s \in recorded : SameId(r, s)

\* An approval may still be replaced.
MutTransitionAllowed(r) ==
  outcome[r.week].status \in {"", r.status, "DEFER_TUESDAY"} \cup Approved

TransitionAllowed(r) ==
  LET current == outcome[r.week].status
  IN  \/ current \in {"", r.status}
      \/ current = "DEFER_TUESDAY" /\ r.status \in {"TUESDAY_REENTRY", "SKIP_TUESDAY_NOT_NORMALIZED"}

\* The revision the decision was made under is not compared.
MutAccepted(r) ==
  /\ LeaseValid(r.node, r.token)
  /\ NewRequest(r) \/ r \in recorded
  /\ TransitionAllowed(r)

\* recordWeekState commits the request r; otherwise it is rolled back.
Accepted(r) ==
  /\ LeaseValid(r.node, r.token)
  /\ IF NewRequest(r) THEN r.revision = revision ELSE r \in recorded
  /\ TransitionAllowed(r)

RecordWeekState(r) ==
  IF Accepted(r)
  THEN /\ recorded' = recorded \cup {r}
       /\ outcome' = IF outcome[r.week].status = r.status THEN outcome
                     ELSE [outcome EXCEPT ![r.week] = [status |-> r.status, market |-> r.market]]
  ELSE UNCHANGED weekly

-----------------------------------------------------------------------------
\* The executor

ContextNow(w) == [week |-> w, status |-> outcome'[w].status, on |-> on, revision |-> revision]

\* maybe_open_new_week from the context c on: nothing to do, an approval to act
\* on, or an outcome to record first.
Decide(n, c) ==
  LET decide(market, deferred) ==
        /\ pc' = [pc EXCEPT ![n] = "wait"]
        /\ call' = [call EXCEPT ![n] =
             {[week |-> Week, told |-> c.week, monday |-> Monday, market |-> market,
               status |-> Decision(c.on, market, Monday, deferred),
               revision |-> c.revision, node |-> n, token |-> hold[n]]}]
  IN \/ UNCHANGED <<pc, call>>
     \/ /\ c.status = "ENTRY_APPROVED" \/ (c.status = "TUESDAY_REENTRY" /\ ~Monday)
        /\ pc' = [pc EXCEPT ![n] = "buy"] /\ UNCHANGED call
     \/ \E market \in Market :
          \/ c.status = "DEFER_TUESDAY" /\ ~Monday /\ decide(market, TRUE)
          \/ c.status = "" /\ entered[n] # Week /\ decide(market, FALSE)

\* refresh_entry_rule_context, and what follows: within an interval the context
\* is the one it has, even if the refresh that began the interval failed; the
\* interval ends at any time.
Consider(n) ==
  /\ pc[n] = "idle" /\ hold[n] # 0
  /\ \/ /\ fresh[n]
        /\ \E c \in cache[n] : Decide(n, c)
        /\ UNCHANGED <<cache, fresh, faults>>
     \/ /\ LeaseValid(n, hold[n])
        /\ LET c == [week |-> Week, status |-> outcome[Week].status, on |-> on, revision |-> revision]
           IN  cache' = [cache EXCEPT ![n] = {c}] /\ Decide(n, c)
        /\ fresh' = [fresh EXCEPT ![n] = TRUE]
        /\ UNCHANGED faults
     \/ /\ ~fresh[n]
        /\ IF LeaseValid(n, hold[n]) THEN Fault ELSE UNCHANGED faults
        /\ fresh' = [fresh EXCEPT ![n] = TRUE]
        /\ UNCHANGED <<cache, pc, call>>
  /\ UNCHANGED <<clock, mobile, weekly, lease, hold, late, bought, entered>>

\* The answer to recordWeekState is the context from then on.
Answered(n) ==
  /\ pc[n] = "wait"
  /\ \E r \in call[n] :
       /\ RecordWeekState(r)
       /\ IF Accepted(r)
          THEN /\ cache' = [cache EXCEPT ![n] = {ContextNow(r.week)}]
               /\ fresh' = [fresh EXCEPT ![n] = TRUE]
               /\ pc' = [pc EXCEPT ![n] = IF r.status \in Approved THEN "buy" ELSE "idle"]
          ELSE pc' = [pc EXCEPT ![n] = "idle"] /\ UNCHANGED <<cache, fresh>>
  /\ call' = [call EXCEPT ![n] = {}]
  /\ UNCHANGED <<clock, mobile, lease, hold, late, bought, entered, faults>>

\* The executor gives the request up; it is lost, or processed sooner or later.
GiveUp(n) ==
  /\ pc[n] = "wait" /\ Fault
  /\ late' = late \cup call[n]
  /\ pc' = [pc EXCEPT ![n] = "idle"]
  /\ call' = [call EXCEPT ![n] = {}]
  /\ UNCHANGED <<clock, mobile, weekly, lease, hold, cache, fresh, bought, entered>>

ProcessedLate(r) ==
  /\ RecordWeekState(r)
  /\ late' = late \ {r}
  /\ UNCHANGED <<clock, mobile, lease, executor, bought, faults>>

\* send_buy: the trade gate and the weekly claim, which TradeExecution models,
\* let one entry of the week through, under the current lease.
SendBuy(n) ==
  /\ pc[n] = "buy"
  /\ pc' = [pc EXCEPT ![n] = "idle"]
  /\ \/ UNCHANGED <<bought, entered>>
     \/ /\ LeaseValid(n, hold[n]) /\ ~\E b \in bought : b.week = Week
        /\ \E c \in cache[n] : bought' = bought \cup {[week |-> Week, told |-> c.week]}
        /\ entered' = [entered EXCEPT ![n] = Week]
  /\ UNCHANGED <<clock, mobile, weekly, lease, hold, cache, fresh, call, late, faults>>

-----------------------------------------------------------------------------
\* Leases, restarts and time

LeaseMoves(n) ==
  /\ lease.token < MaxToken
  /\ lease' = [node |-> n, token |-> lease.token + 1]
  /\ hold' = [hold EXCEPT ![n] = lease.token + 1]
  /\ pc[n] = "idle"
  /\ UNCHANGED <<clock, mobile, weekly, cache, fresh, pc, call, late, bought, entered, faults>>

\* A node notices that its lease is gone, between two cycles.
LeaseLost(n) ==
  /\ pc[n] = "idle" /\ hold[n] # 0 /\ ~LeaseValid(n, hold[n])
  /\ hold' = [hold EXCEPT ![n] = 0]
  /\ UNCHANGED <<clock, mobile, weekly, lease, cache, fresh, pc, call, late, bought, entered, faults>>

\* What was under way survives a restart.
MutRestart(n) ==
  /\ Fault
  /\ hold' = [hold EXCEPT ![n] = 0]
  /\ cache' = [cache EXCEPT ![n] = {}] /\ fresh' = [fresh EXCEPT ![n] = FALSE]
  /\ pc' = [pc EXCEPT ![n] = "idle"]
  /\ UNCHANGED <<clock, mobile, weekly, lease, call, late, bought, entered>>

Restart(n) ==
  /\ Fault
  /\ hold' = [hold EXCEPT ![n] = 0]
  /\ cache' = [cache EXCEPT ![n] = {}] /\ fresh' = [fresh EXCEPT ![n] = FALSE]
  /\ pc' = [pc EXCEPT ![n] = "idle"]
  /\ call' = [call EXCEPT ![n] = {}] /\ late' = late \cup call[n]
  /\ UNCHANGED <<clock, mobile, weekly, lease, bought, entered>>

\* The next entry window; a cycle lasts seconds.
NextWindow ==
  /\ clock < MaxClock /\ \A n \in Node : pc[n] = "idle"
  /\ clock' = clock + 1
  /\ fresh' = [n \in Node |-> FALSE]
  /\ UNCHANGED <<mobile, weekly, lease, hold, cache, pc, call, late, bought, entered, faults>>

Next ==
  \/ \E q \in Sent : SetRule(q)
  \/ \E n \in Node : \/ Consider(n) \/ Answered(n) \/ GiveUp(n)
                     \/ SendBuy(n) \/ LeaseMoves(n) \/ LeaseLost(n) \/ Restart(n)
  \/ \E r \in late : ProcessedLate(r)
  \/ NextWindow

Spec == Init /\ [][Next]_vars

-----------------------------------------------------------------------------
\* Every variable stays within the values the code can give it; an executor
\* waits for an answer exactly while it has a request under way.
TypeOK ==
  /\ clock \in 0..MaxClock /\ faults \in 0..MaxFaults
  /\ taps \in Seq(Tap) /\ on \subseteq Rule /\ revision \in Nat
  /\ outcome \in [Weeks -> Outcome] /\ recorded \subseteq Request
  /\ lease \in [node : Node, token : Nat] /\ hold \in [Node -> Nat]
  /\ cache \in [Node -> SUBSET Context] /\ fresh \in [Node -> BOOLEAN]
  /\ pc \in [Node -> {"idle", "wait", "buy"}]
  /\ call \in [Node -> SUBSET Request] /\ late \subseteq Request
  /\ bought \subseteq [week : Weeks, told : Weeks] /\ entered \in [Node -> Weeks \cup {-1}]
  /\ \A n \in Node : (pc[n] = "wait") <=> (call[n] # {})

\* However often and in whatever order the settings arrive, each rule is as the
\* last change of it that was recorded for the first time left it, and the
\* revision counts those changes: a repetition brings nothing back.
ControlsMatchAudit ==
  /\ revision = 1 + Len(taps)
  /\ \A r \in Rule :
       LET of == {i \in 1..Len(taps) : taps[i].rule = r}
       IN  /\ of = {} => r \in on
           /\ \A i \in of : (\A j \in of : j <= i) => ((r \in on) <=> taps[i].enabled)

\* An outcome is recorded only if the rules that are enabled at that moment,
\* not those the executor has read, lead to it from what the market said, as
\* long as the context it was decided from is that week's.
OutcomeFollowsControls ==
  [][\A r \in late \cup UNION {call[n] : n \in Node} :
       outcome'[r.week] = [status |-> r.status, market |-> r.market] /\ outcome[r.week].status # r.status
         /\ r.told = r.week => r.status = Decision(on, r.market, r.monday, outcome[r.week].status = "DEFER_TUESDAY")]_vars

\* Every entry goes back to an approval that was recorded, and no delay,
\* failover or restart lets a week be entered whose outcome is or becomes
\* another, as long as the context it was decided from is that week's.
EntryWasApproved ==
  \A b \in bought : b.told = b.week => outcome[b.week].status \in Approved
===============================================================================
