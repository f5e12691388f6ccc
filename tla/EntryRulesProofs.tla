--------------------------- MODULE EntryRulesProofs ---------------------------
(***************************************************************************)
(* Proofs about EntryRules, for any machines, any market, any switches and *)
(* any bounds.                                                             *)
(***************************************************************************)
EXTENDS EntryRules, TLAPS

\* A decision is one of the outcomes.
LEMMA DecisionIsStatus ==
  ASSUME NEW enabled, NEW market, NEW monday, NEW deferred
  PROVE  Decision(enabled, market, monday, deferred) \in Status
BY DEF Decision, Status, Approved, Skipped

LEMMA TypeInit == Init => TypeOK
<1> SUFFICES ASSUME Init PROVE TypeOK
  OBVIOUS
<1> USE BoundsAssumption DEF BoundsAssumption
<1>1. 0 \in Weeks
  BY DEF Weeks
<1>2. outcome \in [Weeks -> Outcome]
  BY DEF Init, Outcome
<1>3. on \subseteq Rule
  BY Zenon DEF Init
<1>10. revision \in Nat /\ clock \in 0..MaxClock /\ faults \in 0..MaxFaults
  <2>1. revision = 1 /\ clock = 0 /\ faults = 0
    BY Zenon DEF Init
  <2>2. MaxClock \in Nat /\ MaxFaults \in Nat
    OBVIOUS
  <2> QED
    BY <2>1, <2>2
<1>4. taps \in Seq(Tap)
  <2>1. taps = <<>>
    BY DEF Init
  <2> QED
    BY <2>1
<1>7. hold \in [Node -> Nat]
  BY DEF Init
<1>8. lease \in [node : Node, token : Nat]
  <2>1. lease \in [node : Node, token : {1}]
    BY DEF Init
  <2> QED
    BY <2>1
<1>9. recorded \subseteq Request /\ late \subseteq Request /\ bought \subseteq [week : Weeks, told : Weeks]
  BY DEF Init
<1>5. fresh \in [Node -> BOOLEAN]
  BY Zenon DEF Init
<1>6. /\ cache \in [Node -> SUBSET Context] /\ pc \in [Node -> {"idle", "wait", "buy"}]
      /\ call \in [Node -> SUBSET Request] /\ entered \in [Node -> Weeks \cup {-1}]
      /\ \A n \in Node : (pc[n] = "wait") <=> (call[n] # {})
  BY DEF Init
<1> QED
  BY <1>2, <1>3, <1>4, <1>5, <1>6, <1>7, <1>8, <1>9, <1>10 DEF TypeOK

LEMMA WeekIsWeek == TypeOK => Week \in Weeks
BY BoundsAssumption DEF BoundsAssumption, TypeOK, Week, Weeks

LEMMA SentIsTap ==
  ASSUME TypeOK, NEW q \in Sent
  PROVE  q \in Tap
<1> USE BoundsAssumption DEF BoundsAssumption
<1>1. CASE q \in {taps[i] : i \in 1..Len(taps)}
  BY <1>1 DEF TypeOK
<1>2. CASE q \in [id : {Len(taps) + 1}, rule : Switch, enabled : BOOLEAN] /\ Len(taps) < MaxTaps
  <2>1. Len(taps) \in Nat
    BY DEF TypeOK
  <2>2. {Len(taps) + 1} \subseteq 1..MaxTaps
    BY <2>1, <1>2
  <2> QED
    BY <2>2, <1>2, Zenon DEF Tap
<1> QED
  BY <1>1, <1>2 DEF Sent

LEMMA SetRuleType ==
  ASSUME TypeOK, NEW q \in Sent, SetRule(q)
  PROVE  TypeOK'
<1> USE BoundsAssumption DEF BoundsAssumption
<1>1. q \in Tap
  BY SentIsTap
<1>2. q.rule \in Rule
  BY <1>1 DEF Tap
<1>3. taps' \in Seq(Tap)
  <2>1. taps \in Seq(Tap)
    BY DEF TypeOK
  <2>2. taps' = taps \/ taps' = Append(taps, q)
    BY DEF SetRule
  <2> QED
    BY <1>1, <2>1, <2>2
<1>4. on' \subseteq Rule /\ revision' \in Nat
  <2>1. CASE UNCHANGED <<on, revision>>
    BY <2>1 DEF TypeOK
  <2>2. CASE Apply(q)
    BY <2>2, <1>2 DEF Apply, TypeOK
  <2> QED
    BY <2>1, <2>2 DEF SetRule
<1> QED
  BY <1>3, <1>4 DEF SetRule, TypeOK, weekly, executor

LEMMA RecordType ==
  ASSUME TypeOK, NEW r \in Request, RecordWeekState(r)
  PROVE  outcome' \in [Weeks -> Outcome] /\ recorded' \subseteq Request
<1>1. [status |-> r.status, market |-> r.market] \in Outcome
  BY DEF Request, Outcome
<1>2. outcome \in [Weeks -> Outcome] /\ recorded \subseteq Request
  BY DEF TypeOK
<1> HIDE DEF TypeOK
<1> QED
  BY <1>1, <1>2 DEF RecordWeekState, weekly

LEMMA DecideType ==
  ASSUME TypeOK, NEW n \in Node, NEW c \in Context, Decide(n, c), pc[n] = "idle"
  PROVE  /\ pc' \in [Node -> {"idle", "wait", "buy"}]
         /\ call' \in [Node -> SUBSET Request]
         /\ \A m \in Node : (pc'[m] = "wait") <=> (call'[m] # {})
<1> USE BoundsAssumption DEF BoundsAssumption
<1>1. CASE UNCHANGED <<pc, call>>
  BY <1>1 DEF TypeOK
<1>2. CASE pc' = [pc EXCEPT ![n] = "buy"] /\ UNCHANGED call
  BY <1>2 DEF TypeOK
<1>3. ASSUME NEW market \in Market, NEW deferred \in BOOLEAN,
             pc' = [pc EXCEPT ![n] = "wait"],
             call' = [call EXCEPT ![n] =
               {[week |-> Week, told |-> c.week, monday |-> Monday, market |-> market,
                 status |-> Decision(c.on, market, Monday, deferred),
                 revision |-> c.revision, node |-> n, token |-> hold[n]]}]
      PROVE /\ pc' \in [Node -> {"idle", "wait", "buy"}]
            /\ call' \in [Node -> SUBSET Request]
            /\ \A m \in Node : (pc'[m] = "wait") <=> (call'[m] # {})
  <2> DEFINE r == [week |-> Week, told |-> c.week, monday |-> Monday, market |-> market,
                   status |-> Decision(c.on, market, Monday, deferred),
                   revision |-> c.revision, node |-> n, token |-> hold[n]]
  <2>1. Monday \in BOOLEAN
    BY DEF Monday
  <2>2. Week \in Weeks /\ c.week \in Weeks /\ c.revision \in Nat /\ hold[n] \in Nat
        /\ market \subseteq Rule
    BY WeekIsWeek DEF Context, TypeOK
  <2>3. r \in Request
    BY <2>1, <2>2, DecisionIsStatus DEF Request
  <2> HIDE DEF r
  <2>4. call' = [call EXCEPT ![n] = {r}]
    BY <1>3 DEF r
  <2>5. call' \in [Node -> SUBSET Request] /\ pc' \in [Node -> {"idle", "wait", "buy"}]
    BY <1>3, <2>3, <2>4 DEF TypeOK
  <2>6. ASSUME NEW m \in Node PROVE (pc'[m] = "wait") <=> (call'[m] # {})
    <3>1. CASE m = n
      BY <1>3, <2>4, <3>1 DEF TypeOK
    <3>2. CASE m # n
      BY <1>3, <2>4, <3>2 DEF TypeOK
    <3> QED
      BY <3>1, <3>2
  <2> QED
    BY <2>5, <2>6
<1> QED
  BY <1>1, <1>2, <1>3 DEF Decide

LEMMA ConsiderType ==
  ASSUME TypeOK, NEW n \in Node, Consider(n)
  PROVE  TypeOK'
<1> USE BoundsAssumption DEF BoundsAssumption
<1> DEFINE now == [week |-> Week, status |-> outcome[Week].status, on |-> on, revision |-> revision]
<1>1. now \in Context
  BY WeekIsWeek DEF TypeOK, Context, Outcome
<1>2. CASE fresh[n] /\ (\E c \in cache[n] : Decide(n, c)) /\ UNCHANGED <<cache, fresh, faults>>
  <2>1. PICK c \in cache[n] : Decide(n, c)
    BY <1>2
  <2>2. c \in Context
    BY DEF TypeOK
  <2> QED
    BY <1>2, <2>1, <2>2, DecideType DEF Consider, TypeOK, mobile, weekly
<1>3. CASE /\ cache' = [cache EXCEPT ![n] = {now}] /\ Decide(n, now)
           /\ fresh' = [fresh EXCEPT ![n] = TRUE] /\ UNCHANGED faults
  <2> HIDE DEF now
  <2> QED
    BY <1>1, <1>3, DecideType DEF Consider, TypeOK, mobile, weekly
<1>4. CASE /\ IF LeaseValid(n, hold[n]) THEN Fault ELSE UNCHANGED faults
           /\ fresh' = [fresh EXCEPT ![n] = TRUE]
           /\ UNCHANGED <<cache, pc, call>>
  <2>1. faults' \in 0..MaxFaults
    BY <1>4 DEF TypeOK, Fault
  <2> QED
    BY <1>4, <2>1 DEF Consider, TypeOK, mobile, weekly
<1> QED
  BY <1>2, <1>3, <1>4 DEF Consider

LEMMA AnsweredType ==
  ASSUME TypeOK, NEW n \in Node, Answered(n)
  PROVE  TypeOK'
<1> USE BoundsAssumption DEF BoundsAssumption
<1>1. PICK r \in call[n] :
        /\ RecordWeekState(r)
        /\ IF Accepted(r)
           THEN /\ cache' = [cache EXCEPT ![n] = {ContextNow(r.week)}]
                /\ fresh' = [fresh EXCEPT ![n] = TRUE]
                /\ pc' = [pc EXCEPT ![n] = IF r.status \in Approved THEN "buy" ELSE "idle"]
           ELSE pc' = [pc EXCEPT ![n] = "idle"] /\ UNCHANGED <<cache, fresh>>
  BY DEF Answered
<1>2. r \in Request
  BY DEF TypeOK
<1>3. outcome' \in [Weeks -> Outcome] /\ recorded' \subseteq Request
  BY <1>1, <1>2, RecordType
<1>4. ContextNow(r.week) \in Context
  BY <1>2, <1>3 DEF ContextNow, Context, Outcome, Request, TypeOK
<1>5. /\ cache' \in [Node -> SUBSET Context] /\ fresh' \in [Node -> BOOLEAN]
      /\ pc' \in [Node -> {"idle", "wait", "buy"}] /\ pc'[n] # "wait"
      /\ \A m \in Node \ {n} : pc'[m] = pc[m]
  <2>1. CASE Accepted(r)
    <3> DEFINE step == IF r.status \in Approved THEN "buy" ELSE "idle"
    <3>1. step \in {"idle", "buy"}
      OBVIOUS
    <3> HIDE DEF step
    <3>2. pc' = [pc EXCEPT ![n] = step]
      BY <1>1, <2>1 DEF step
    <3>3. fresh' \in [Node -> BOOLEAN]
      BY <1>1, <2>1, Zenon DEF TypeOK
    <3>4. cache' \in [Node -> SUBSET Context]
      <4> DEFINE c == ContextNow(r.week)
      <4> HIDE DEF c
      <4>1. c \in Context /\ cache' = [cache EXCEPT ![n] = {c}]
        BY <1>1, <1>4, <2>1 DEF c
      <4> QED
        BY <4>1 DEF TypeOK
    <3> QED
      BY <3>1, <3>2, <3>3, <3>4 DEF TypeOK
  <2>2. CASE ~Accepted(r)
    BY <1>1, <2>2 DEF TypeOK
  <2> QED
    BY <2>1, <2>2
<1> QED
  BY <1>3, <1>5 DEF Answered, TypeOK, mobile

\* Each step keeps every variable within its type.
LEMMA TypeStep == TypeOK /\ [Next]_vars => TypeOK'
<1> SUFFICES ASSUME TypeOK, [Next]_vars PROVE TypeOK'
  OBVIOUS
<1> USE BoundsAssumption DEF BoundsAssumption
<1>1. ASSUME NEW q \in Sent, SetRule(q) PROVE TypeOK'
  BY <1>1, SetRuleType
<1>2. ASSUME NEW n \in Node, Consider(n) PROVE TypeOK'
  BY <1>2, ConsiderType
<1>3. ASSUME NEW n \in Node, Answered(n) PROVE TypeOK'
  BY <1>3, AnsweredType
<1>4. ASSUME NEW n \in Node, GiveUp(n) PROVE TypeOK'
  BY <1>4 DEF GiveUp, Fault, TypeOK, mobile, weekly
<1>5. ASSUME NEW n \in Node, SendBuy(n) PROVE TypeOK'
  <2>1. CASE UNCHANGED <<bought, entered>>
    BY <1>5, <2>1 DEF SendBuy, TypeOK, mobile, weekly
  <2>2. CASE /\ \E c \in cache[n] : bought' = bought \cup {[week |-> Week, told |-> c.week]}
             /\ entered' = [entered EXCEPT ![n] = Week]
    <3>1. PICK c \in cache[n] : bought' = bought \cup {[week |-> Week, told |-> c.week]}
      BY <2>2
    <3>2. c.week \in Weeks
      <4>1. c \in Context
        BY DEF TypeOK
      <4> QED
        BY <4>1 DEF Context
    <3>3. bought' \subseteq [week : Weeks, told : Weeks] /\ entered' \in [Node -> Weeks \cup {-1}]
      BY <2>2, <3>1, <3>2, WeekIsWeek DEF TypeOK
    <3> QED
      BY <1>5, <3>3 DEF SendBuy, TypeOK, mobile, weekly
  <2> QED
    BY <1>5, <2>1, <2>2 DEF SendBuy
<1>6. ASSUME NEW n \in Node, LeaseMoves(n) PROVE TypeOK'
  BY <1>6 DEF LeaseMoves, TypeOK, mobile, weekly
<1>7. ASSUME NEW n \in Node, LeaseLost(n) PROVE TypeOK'
  BY <1>7 DEF LeaseLost, TypeOK, mobile, weekly
<1>8. ASSUME NEW n \in Node, Restart(n) PROVE TypeOK'
  BY <1>8 DEF Restart, Fault, TypeOK, mobile, weekly
<1>9. ASSUME NEW r \in late, ProcessedLate(r) PROVE TypeOK'
  <2>1. r \in Request
    BY <1>9 DEF TypeOK
  <2> QED
    BY <1>9, <2>1, RecordType DEF ProcessedLate, TypeOK, mobile, executor
<1>10. ASSUME NextWindow PROVE TypeOK'
  <2>1. fresh' \in [Node -> BOOLEAN]
    BY <1>10, Zenon DEF NextWindow
  <2>2. clock' \in 0..MaxClock
    BY <1>10 DEF NextWindow, TypeOK
  <2> QED
    BY <1>10, <2>1, <2>2 DEF NextWindow, TypeOK, mobile, weekly
<1>11. CASE UNCHANGED vars
  BY <1>11 DEF vars, TypeOK
<1> QED
  BY <1>1, <1>2, <1>3, <1>4, <1>5, <1>6, <1>7, <1>8, <1>9, <1>10, <1>11 DEF Next

\* Every variable keeps its type, and an executor waits exactly while it has a
\* request under way.
THEOREM EntryRulesType == Spec => []TypeOK
BY TypeInit, TypeStep, PTL DEF Spec

-----------------------------------------------------------------------------
(* The switches *)

LEMMA AuditStep ==
  ASSUME TypeOK, ControlsMatchAudit, [Next]_vars
  PROVE  ControlsMatchAudit'
<1>1. CASE UNCHANGED mobile
  BY <1>1, Zenon DEF mobile, ControlsMatchAudit
<1>2. ASSUME NEW q \in Sent, SetRule(q), ~Known(q) PROVE ControlsMatchAudit'
  <2> DEFINE k == Len(taps)
  <2>1. q \in Tap
    BY SentIsTap
  <2>2. /\ taps \in Seq(Tap) /\ taps' = Append(taps, q) /\ on \subseteq Rule
        /\ on' = (IF q.enabled THEN on \cup {q.rule} ELSE on \ {q.rule})
        /\ revision' = revision + 1
    BY <1>2 DEF SetRule, Apply, TypeOK
  <2>3. /\ k \in Nat /\ Len(taps') = k + 1 /\ taps'[k + 1] = q
        /\ \A i \in 1..k : taps'[i] = taps[i]
    BY <2>1, <2>2
  <2>4. revision' = 1 + Len(taps')
    BY <2>2, <2>3 DEF ControlsMatchAudit
  <2> HIDE DEF k
  <2>5. ASSUME NEW r \in Rule,
               \A i \in 1..(k + 1) : taps'[i].rule # r
        PROVE  r \in on'
    <3>1. q.rule # r
      BY <2>3, <2>5
    <3>2. \A i \in 1..k : taps[i].rule # r
      BY <2>3, <2>5
    <3>3. {i \in 1..k : taps[i].rule = r} = {}
      BY <3>2
    <3>4. r \in on
      BY <3>3 DEF ControlsMatchAudit, k
    <3> QED
      BY <3>1, <3>4, <2>2
  <2>6. ASSUME NEW r \in Rule, NEW i \in 1..(k + 1), taps'[i].rule = r,
               \A j \in 1..(k + 1) : taps'[j].rule = r => j <= i
        PROVE  (r \in on') <=> taps'[i].enabled
    <3>1. CASE q.rule = r
      <4>1. i = k + 1
        BY <2>3, <2>6, <3>1
      <4> QED
        BY <4>1, <2>2, <2>3, <3>1
    <3>2. CASE q.rule # r
      <4>1. i \in 1..k
        BY <2>3, <2>6, <3>2
      <4>2. taps[i].rule = r /\ \A j \in 1..k : taps[j].rule = r => j <= i
        BY <2>3, <2>6, <4>1
      <4>3. (r \in on) <=> taps[i].enabled
        BY <4>1, <4>2 DEF ControlsMatchAudit, k
      <4> QED
        BY <4>1, <4>3, <2>2, <2>3, <3>2
    <3> QED
      BY <3>1, <3>2
  <2> QED
    BY <2>3, <2>4, <2>5, <2>6 DEF ControlsMatchAudit
<1>3. ASSUME NEW q \in Sent, SetRule(q), Known(q) PROVE ControlsMatchAudit'
  BY <1>1, <1>3 DEF SetRule, mobile
<1>4. ASSUME ~UNCHANGED mobile PROVE \E q \in Sent : SetRule(q)
  BY <1>4, Zenon DEF Next, Consider, Answered, GiveUp, SendBuy, LeaseMoves, LeaseLost, Restart,
             ProcessedLate, NextWindow, vars, mobile
<1> QED
  BY <1>1, <1>2, <1>3, <1>4

\* However often and in whatever order the settings arrive, every rule is as
\* the last change recorded for the first time left it.
THEOREM SwitchesMatchAudit == Spec => []ControlsMatchAudit
<1>1. Init => ControlsMatchAudit
  <2> SUFFICES ASSUME Init PROVE ControlsMatchAudit
    OBVIOUS
  <2>1. taps = <<>> /\ revision = 1
    BY Zenon DEF Init
  <2>2. on = Rule
    BY Zenon DEF Init
  <2> QED
    BY <2>1, <2>2 DEF ControlsMatchAudit
<1>2. TypeOK /\ ControlsMatchAudit /\ [Next]_vars => ControlsMatchAudit'
  BY AuditStep
<1> QED
  BY <1>1, <1>2, EntryRulesType, PTL DEF Spec

-----------------------------------------------------------------------------
(* Entries *)

LEMMA RequestStatus ==
  ASSUME NEW r \in Request
  PROVE  /\ r.week \in Weeks /\ r.told \in Weeks /\ r.status \in Status /\ r.status # ""
         /\ r.monday \in BOOLEAN /\ r.revision \in Nat
BY DEF Request, Status, Approved, Skipped

\* What recordWeekState leaves of a week: an approval is for good, an outcome is
\* only replaced by Tuesday's decision of a deferred entry.
LEMMA RecordKeeps ==
  ASSUME TypeOK, NEW r \in Request, RecordWeekState(r), NEW w \in Weeks
  PROVE  /\ outcome[w].status \in Approved => outcome'[w].status = outcome[w].status
         /\ outcome[w].status # "" => outcome'[w].status # ""
         /\ Accepted(r) => outcome'[r.week].status = r.status
<1>1. r.week \in Weeks /\ r.status # "" /\ outcome \in [Weeks -> Outcome]
  BY RequestStatus DEF TypeOK
<1>2. CASE ~Accepted(r)
  BY <1>2, Zenon DEF RecordWeekState, weekly
<1>3. CASE Accepted(r) /\ outcome[r.week].status = r.status
  <2>1. outcome' = outcome
    BY <1>3, Zenon DEF RecordWeekState
  <2> QED
    BY <2>1, <1>3
<1>4. CASE Accepted(r) /\ outcome[r.week].status # r.status
  <2>1. outcome' = [outcome EXCEPT ![r.week] = [status |-> r.status, market |-> r.market]]
    BY <1>4, Zenon DEF RecordWeekState
  <2>2. outcome'[r.week].status = r.status
    BY <1>1, <2>1
  <2>3. outcome[r.week].status \notin Approved
    BY <1>4, Zenon DEF Accepted, TransitionAllowed, Approved
  <2>4. w # r.week => outcome'[w] = outcome[w]
    BY <1>1, <2>1
  <2> QED
    BY <1>1, <2>2, <2>3, <2>4
<1> QED
  BY <1>2, <1>3, <1>4

\* The approval each node acts on.
Acting ==
  \A n \in Node : /\ \A c, d \in cache[n] : c = d
                  /\ \A c \in cache[n] : /\ pc[n] = "buy" => c.status \in Approved
                                         /\ c.status # "" => outcome[c.week].status # ""
                                         /\ c.status \in Approved => outcome[c.week].status \in Approved

EntryInv == Acting /\ EntryWasApproved

LEMMA EntryKept ==
  ASSUME TypeOK, EntryInv, UNCHANGED <<cache, pc, bought>>,
         UNCHANGED outcome \/ (\E r \in Request : RecordWeekState(r))
  PROVE  EntryInv'
<1>1. ASSUME NEW w \in Weeks
      PROVE /\ outcome[w].status \in Approved => outcome'[w].status \in Approved
            /\ outcome[w].status # "" => outcome'[w].status # ""
  BY RecordKeeps
<1>2. ASSUME NEW n \in Node, NEW c \in cache[n] PROVE c.week \in Weeks
  <2>1. c \in Context
    BY <1>2 DEF TypeOK
  <2> QED
    BY <2>1 DEF Context
<1>3. \A b \in bought : b.week \in Weeks
  BY DEF TypeOK
<1> QED
  BY <1>1, <1>2, <1>3 DEF EntryInv, Acting, EntryWasApproved

LEMMA ConsiderEntry ==
  ASSUME TypeOK, EntryInv, NEW n \in Node, Consider(n)
  PROVE  EntryInv'
<1> DEFINE now == [week |-> Week, status |-> outcome[Week].status, on |-> on, revision |-> revision]
<1>1. /\ UNCHANGED <<outcome, bought>> /\ pc \in [Node -> {"idle", "wait", "buy"}] /\ pc[n] = "idle"
      /\ cache \in [Node -> SUBSET Context]
  BY DEF Consider, TypeOK, weekly
<1>2. ASSUME NEW c, Decide(n, c)
      PROVE  /\ \A m \in Node \ {n} : pc'[m] = pc[m]
             /\ pc'[n] = "buy" => c.status \in Approved
  <2>1. CASE UNCHANGED pc
    BY <1>1, <2>1
  <2>2. CASE c.status \in Approved /\ pc' = [pc EXCEPT ![n] = "buy"]
    BY <1>1, <2>2
  <2>3. CASE pc' = [pc EXCEPT ![n] = "wait"]
    BY <1>1, <2>3
  <2> QED
    BY <1>2, <2>1, <2>2, <2>3 DEF Decide, Approved
<1>3. CASE (\E c \in cache[n] : Decide(n, c)) /\ UNCHANGED cache
  <2>1. PICK c \in cache[n] : Decide(n, c)
    BY <1>3
  <2> QED
    BY <1>1, <1>2, <1>3, <2>1 DEF EntryInv, Acting, EntryWasApproved
<1>4. CASE cache' = [cache EXCEPT ![n] = {now}] /\ Decide(n, now)
  <2>1. now.week = Week /\ now.status = outcome[Week].status
    OBVIOUS
  <2> HIDE DEF now
  <2>2. cache'[n] = {now} /\ \A m \in Node \ {n} : cache'[m] = cache[m]
    BY <1>1, <1>4
  <2>3. /\ \A m \in Node \ {n} : pc'[m] = pc[m]
        /\ pc'[n] = "buy" => now.status \in Approved
    BY <1>2, <1>4
  <2>4. \A x, y \in cache'[n] : x = y
    BY <2>2
  <2>5. \A x \in cache'[n] : /\ pc'[n] = "buy" => x.status \in Approved
                            /\ outcome'[x.week] = outcome[x.week] /\ x.status = outcome[x.week].status
    BY <1>1, <2>1, <2>2, <2>3
  <2>6. Acting'
    BY <1>1, <2>2, <2>3, <2>4, <2>5 DEF EntryInv, Acting
  <2> QED
    BY <1>1, <2>6 DEF EntryInv, EntryWasApproved
<1>5. CASE UNCHANGED <<cache, pc>>
  BY <1>1, <1>5, EntryKept
<1> QED
  BY <1>3, <1>4, <1>5 DEF Consider

LEMMA AnsweredEntry ==
  ASSUME TypeOK, EntryInv, NEW n \in Node, Answered(n)
  PROVE  EntryInv'
<1>1. PICK r \in call[n] :
        /\ RecordWeekState(r)
        /\ IF Accepted(r)
           THEN /\ cache' = [cache EXCEPT ![n] = {ContextNow(r.week)}]
                /\ fresh' = [fresh EXCEPT ![n] = TRUE]
                /\ pc' = [pc EXCEPT ![n] = IF r.status \in Approved THEN "buy" ELSE "idle"]
           ELSE pc' = [pc EXCEPT ![n] = "idle"] /\ UNCHANGED <<cache, fresh>>
  BY DEF Answered
<1>2. r \in Request /\ r.week \in Weeks
  BY RequestStatus DEF TypeOK
<1>3. UNCHANGED bought /\ pc \in [Node -> {"idle", "wait", "buy"}] /\ cache \in [Node -> SUBSET Context]
  BY DEF Answered, TypeOK
<1>4. ASSUME NEW w \in Weeks
      PROVE /\ outcome[w].status \in Approved => outcome'[w].status \in Approved
            /\ outcome[w].status # "" => outcome'[w].status # ""
  BY <1>1, <1>2, RecordKeeps
<1>5. ASSUME NEW m \in Node, NEW c \in cache[m] PROVE c.week \in Weeks
  <2>1. c \in Context
    BY <1>5 DEF TypeOK
  <2> QED
    BY <2>1 DEF Context
<1>6. EntryWasApproved'
  <2>1. \A b \in bought : b.week \in Weeks
    BY DEF TypeOK
  <2> QED
    BY <1>3, <1>4, <2>1 DEF EntryInv, EntryWasApproved
<1>7. CASE Accepted(r)
  <2> DEFINE c == ContextNow(r.week)
  <2>1. c.week = r.week /\ c.status = outcome'[r.week].status
    BY DEF ContextNow
  <2> HIDE DEF c
  <2>2. outcome'[r.week].status = r.status
    BY <1>1, <1>2, <1>7, RecordKeeps
  <2>3. cache'[n] = {c} /\ \A m \in Node \ {n} : cache'[m] = cache[m]
    BY <1>1, <1>3, <1>7 DEF c
  <2>4. /\ pc'[n] = (IF r.status \in Approved THEN "buy" ELSE "idle")
        /\ \A m \in Node \ {n} : pc'[m] = pc[m]
    BY <1>1, <1>3, <1>7
  <2>5. pc'[n] = "buy" => c.status \in Approved
    BY <2>1, <2>2, <2>4
  <2>6. \A x, y \in cache'[n] : x = y
    BY <2>3
  <2>7. \A x \in cache'[n] : /\ pc'[n] = "buy" => x.status \in Approved
                            /\ x.status = outcome'[x.week].status
    BY <2>1, <2>3, <2>5
  <2>8. ASSUME NEW m \in Node \ {n}, NEW x \in cache'[m]
        PROVE  /\ pc'[m] = "buy" => x.status \in Approved
               /\ x.status # "" => outcome'[x.week].status # ""
               /\ x.status \in Approved => outcome'[x.week].status \in Approved
    BY <1>4, <1>5, <2>3, <2>4 DEF EntryInv, Acting
  <2>9. \A m \in Node \ {n} : \A x, y \in cache'[m] : x = y
    BY <2>3 DEF EntryInv, Acting
  <2> QED
    BY <1>6, <2>6, <2>7, <2>8, <2>9 DEF EntryInv, Acting
<1>8. CASE ~Accepted(r)
  <2>1. cache' = cache /\ \A m \in Node : pc'[m] = "buy" => pc[m] = "buy"
    BY <1>1, <1>3, <1>8
  <2> QED
    BY <1>4, <1>5, <1>6, <2>1 DEF EntryInv, Acting
<1> QED
  BY <1>7, <1>8

LEMMA EntryStep ==
  ASSUME TypeOK, EntryInv, [Next]_vars
  PROVE  EntryInv'
<1>1. ASSUME NEW q \in Sent, SetRule(q) PROVE EntryInv'
  BY <1>1, EntryKept DEF SetRule, weekly, executor
<1>2. ASSUME NEW n \in Node, Consider(n) PROVE EntryInv'
  BY <1>2, ConsiderEntry
<1>3. ASSUME NEW n \in Node, Answered(n) PROVE EntryInv'
  BY <1>3, AnsweredEntry
<1>4. ASSUME NEW n \in Node, pc' = [pc EXCEPT ![n] = "idle"],
             cache' = cache \/ cache' = [cache EXCEPT ![n] = {}], UNCHANGED <<outcome, bought>>
      PROVE  EntryInv'
  <2>1. \A m \in Node : cache'[m] \subseteq cache[m] /\ (pc'[m] = "buy" => pc[m] = "buy")
    BY <1>4 DEF TypeOK
  <2> QED
    BY <1>4, <2>1 DEF EntryInv, Acting, EntryWasApproved
<1>5. ASSUME NEW n \in Node, GiveUp(n) \/ Restart(n) PROVE EntryInv'
  BY <1>5, <1>4 DEF GiveUp, Restart, weekly
<1>6. ASSUME NEW n \in Node, SendBuy(n) PROVE EntryInv'
  <2>1. CASE UNCHANGED bought
    BY <1>4, <1>6, <2>1 DEF SendBuy, weekly
  <2>2. CASE \E c \in cache[n] : bought' = bought \cup {[week |-> Week, told |-> c.week]}
    <3>1. PICK c \in cache[n] : bought' = bought \cup {[week |-> Week, told |-> c.week]}
      BY <2>2
    <3>2. c.status \in Approved /\ outcome[c.week].status \in Approved
      BY <1>6 DEF SendBuy, EntryInv, Acting
    <3>3. /\ UNCHANGED <<outcome, cache>>
          /\ \A m \in Node : pc'[m] = "buy" => pc[m] = "buy"
      BY <1>6 DEF SendBuy, TypeOK, weekly
    <3>4. Acting'
      BY <3>3 DEF EntryInv, Acting
    <3>5. EntryWasApproved'
      BY <3>1, <3>2, <3>3 DEF EntryInv, EntryWasApproved
    <3> QED
      BY <3>4, <3>5 DEF EntryInv
  <2> QED
    BY <1>6, <2>1, <2>2 DEF SendBuy
<1>7. ASSUME NEW n \in Node, LeaseMoves(n) \/ LeaseLost(n) PROVE EntryInv'
  BY <1>7, EntryKept DEF LeaseMoves, LeaseLost, weekly
<1>8. ASSUME NEW r \in late, ProcessedLate(r) PROVE EntryInv'
  <2>1. r \in Request
    BY DEF TypeOK
  <2> QED
    BY <1>8, <2>1, EntryKept DEF ProcessedLate, executor
<1>9. CASE NextWindow
  BY <1>9, EntryKept DEF NextWindow, weekly
<1>10. CASE UNCHANGED vars
  BY <1>10, EntryKept DEF vars
<1> QED
  BY <1>1, <1>2, <1>3, <1>5, <1>6, <1>7, <1>8, <1>9, <1>10 DEF Next

LEMMA EntryInit == Init => EntryInv
BY DEF Init, EntryInv, Acting, EntryWasApproved

\* Every entry goes back to an approval on record that stays.
THEOREM EntriesApproved == Spec => []EntryWasApproved
<1>1. TypeOK /\ EntryInv /\ [Next]_vars => EntryInv'
  BY EntryStep
<1>2. EntryInv => EntryWasApproved
  BY DEF EntryInv
<1> QED
  BY <1>1, <1>2, EntryInit, EntryRulesType, PTL DEF Spec

-----------------------------------------------------------------------------
(* Outcomes follow the switches *)

Pending == late \cup UNION {call[n] : n \in Node}

Reentry == {"TUESDAY_REENTRY", "SKIP_TUESDAY_NOT_NORMALIZED"}

\* A request that was decided under the current revision is what the enabled
\* rules decide now; Tuesday's decision found an outcome to replace.
RequestInv(r) ==
  /\ r.revision <= revision
  /\ r.revision = revision => r.status = Decision(on, r.market, r.monday, r.status \in Reentry)
  /\ r.status \in Reentry /\ r.told = r.week => outcome[r.week].status # ""
  /\ r.status = "DEFER_TUESDAY" => r.monday
  /\ r.status = "SKIP_GAP_MOMENTUM" => ~r.monday

ContextInv(c) ==
  /\ c.revision <= revision
  /\ c.revision = revision => c.on = on
  /\ c.status # "" => outcome[c.week].status # ""

\* What was recorded of a week is its outcome, or was Monday's before Tuesday's.
RecordInv(s) ==
  \/ s.status = outcome[s.week].status
  \/ s.status = "DEFER_TUESDAY" /\ outcome[s.week].status \in Reentry

ControlInv ==
  /\ \A r \in Pending : RequestInv(r)
  /\ \A n \in Node : \A c \in cache[n] : ContextInv(c)
  /\ \A s \in recorded : RecordInv(s)

LEMMA PendingIsRequest == TypeOK => Pending \subseteq Request
BY DEF TypeOK, Pending

LEMMA ReentryIsDeferred ==
  ASSUME NEW enabled, NEW market, NEW monday, NEW deferred \in BOOLEAN
  PROVE  LET d == Decision(enabled, market, monday, deferred)
         IN  /\ (d \in Reentry) <=> deferred
             /\ d = "DEFER_TUESDAY" => monday
             /\ monday \in BOOLEAN /\ d = "SKIP_GAP_MOMENTUM" => ~monday
BY DEF Decision, Reentry

\* The day matters only to a gap.
LEMMA DecisionOfDay ==
  ASSUME NEW enabled, NEW market, NEW deferred \in BOOLEAN, NEW m1 \in BOOLEAN, NEW m2 \in BOOLEAN,
         LET d == Decision(enabled, market, m1, deferred)
         IN  /\ d = "DEFER_TUESDAY" => m2
             /\ d = "SKIP_GAP_MOMENTUM" => ~m2
  PROVE  Decision(enabled, market, m2, deferred) = Decision(enabled, market, m1, deferred)
BY DEF Decision

\* What a step of the backend leaves of the records.
LEMMA RecordStep ==
  ASSUME TypeOK, ControlInv, NEW r \in Pending, RecordWeekState(r)
  PROVE  \A s \in recorded' : RecordInv(s)'
<1>1. r \in Request /\ r.week \in Weeks /\ r.status # "" /\ r.status \in Status
  BY PendingIsRequest, RequestStatus
<1>2. outcome \in [Weeks -> Outcome]
  BY DEF TypeOK
<1>3. CASE ~Accepted(r)
  BY <1>3, Zenon DEF RecordWeekState, weekly, ControlInv, RecordInv
<1>4. CASE Accepted(r)
  <2>1. recorded' = recorded \cup {r} /\ outcome'[r.week].status = r.status
    BY <1>1, <1>4, RecordKeeps DEF RecordWeekState
  <2>2. \A w \in Weeks : w # r.week => outcome'[w] = outcome[w]
    BY <1>1, <1>2, <1>4 DEF RecordWeekState
  <2>3. RecordInv(r)'
    BY <2>1 DEF RecordInv
  <2>4. ASSUME NEW s \in recorded PROVE RecordInv(s)'
    <3>1. s \in Request /\ s.week \in Weeks /\ s.status # ""
      BY RequestStatus DEF TypeOK
    <3>2. RecordInv(s)
      BY DEF ControlInv
    <3>3. CASE s.week # r.week
      BY <2>2, <3>1, <3>2, <3>3 DEF RecordInv
    <3>4. CASE s.week = r.week
      <4>1. \/ outcome[r.week].status \in {"", r.status}
            \/ outcome[r.week].status = "DEFER_TUESDAY" /\ r.status \in Reentry
        BY <1>4 DEF Accepted, TransitionAllowed, Reentry
      <4>2. outcome[r.week].status # ""
        BY <3>1, <3>2, <3>4 DEF RecordInv, Reentry
      <4> QED
        BY <4>1, <4>2, <2>1, <3>2, <3>4 DEF RecordInv, Reentry
    <3> QED
      BY <3>3, <3>4
  <2> QED
    BY <2>1, <2>3, <2>4
<1> QED
  BY <1>3, <1>4

\* What a request and a context keep while the switches stay.
LEMMA KeptInv ==
  ASSUME TypeOK, ControlInv, UNCHANGED <<on, revision>>,
         UNCHANGED outcome \/ (\E r \in Request : RecordWeekState(r))
  PROVE  /\ \A r \in Pending : RequestInv(r)'
         /\ \A n \in Node : \A c \in cache[n] : ContextInv(c)'
<1>1. ASSUME NEW w \in Weeks PROVE outcome[w].status # "" => outcome'[w].status # ""
  BY RecordKeeps
<1>2. ASSUME NEW r \in Pending PROVE RequestInv(r)'
  <2>1. r.week \in Weeks
    BY PendingIsRequest, RequestStatus
  <2>2. RequestInv(r)
    BY DEF ControlInv
  <2>3. outcome[r.week].status # "" => outcome'[r.week].status # ""
    BY <1>1, <2>1
  <2>4. r.status \in Reentry /\ r.told = r.week => outcome'[r.week].status # ""
    BY <2>2, <2>3, Zenon DEF RequestInv
  <2>5. Decision(on', r.market, r.monday, r.status \in Reentry)
          = Decision(on, r.market, r.monday, r.status \in Reentry) /\ revision' = revision
    OBVIOUS
  <2> QED
    BY <2>2, <2>4, <2>5, Zenon DEF RequestInv
<1>3. ASSUME NEW n \in Node, NEW c \in cache[n] PROVE ContextInv(c)'
  <2>1. c \in Context
    BY DEF TypeOK
  <2>2. c.week \in Weeks
    BY <2>1 DEF Context
  <2> QED
    BY <1>1, <2>2 DEF ControlInv, ContextInv
<1> QED
  BY <1>2, <1>3

LEMMA ConsiderControl ==
  ASSUME TypeOK, ControlInv, NEW n \in Node, Consider(n)
  PROVE  ControlInv'
<1> DEFINE now == [week |-> Week, status |-> outcome[Week].status, on |-> on, revision |-> revision]
<1>1. /\ UNCHANGED <<on, revision, outcome, recorded, late>> /\ revision \in Nat
      /\ cache \in [Node -> SUBSET Context] /\ call \in [Node -> SUBSET Request]
  BY DEF Consider, TypeOK, weekly, mobile
<1>2. /\ \A r \in Pending : RequestInv(r)'
      /\ \A m \in Node : \A c \in cache[m] : ContextInv(c)'
  BY <1>1, KeptInv
<1>3. \A s \in recorded' : RecordInv(s)'
  BY <1>1 DEF ControlInv, RecordInv
<1>4. ASSUME NEW c, c.revision \in Nat, ContextInv(c), Decide(n, c)
      PROVE  \A r \in Pending' : RequestInv(r)'
  <2>1. CASE UNCHANGED call
    <3>1. Pending' = Pending
      BY <1>1, <2>1 DEF Pending
    <3> QED
      BY <1>2, <3>1
  <2>2. ASSUME NEW market \in Market, NEW deferred \in BOOLEAN,
               deferred => c.status = "DEFER_TUESDAY" /\ ~Monday,
               call' = [call EXCEPT ![n] =
                 {[week |-> Week, told |-> c.week, monday |-> Monday, market |-> market,
                   status |-> Decision(c.on, market, Monday, deferred),
                   revision |-> c.revision, node |-> n, token |-> hold[n]]}]
        PROVE  \A r \in Pending' : RequestInv(r)'
    <3> DEFINE d == Decision(c.on, market, Monday, deferred)
    <3>0. PICK q : q = [week |-> Week, told |-> c.week, monday |-> Monday, market |-> market,
                        status |-> d, revision |-> c.revision, node |-> n, token |-> hold[n]]
      OBVIOUS
    <3>1. /\ q.week = Week /\ q.told = c.week /\ q.monday = Monday /\ q.market = market
          /\ q.status = d /\ q.revision = c.revision
      BY <3>0, Zenon
    <3>2. Monday \in BOOLEAN
      BY DEF Monday
    <3>3. /\ (d \in Reentry) <=> deferred
          /\ d = "DEFER_TUESDAY" => Monday
          /\ d = "SKIP_GAP_MOMENTUM" => ~Monday
      BY <3>2, ReentryIsDeferred
    <3> HIDE DEF d
    <3>4. c.revision = revision => d = Decision(on, market, Monday, d \in Reentry)
      <4>1. CASE deferred = TRUE
        <5>1. (d \in Reentry) = TRUE
          BY <3>3, <4>1
        <5> QED
          BY <1>4, <4>1, <5>1 DEF ContextInv, d
      <4>2. CASE deferred = FALSE
        <5>1. (d \in Reentry) = FALSE
          BY <3>3, <4>2
        <5> QED
          BY <1>4, <4>2, <5>1 DEF ContextInv, d
      <4> QED
        BY <4>1, <4>2
    <3>5. deferred /\ c.week = Week => outcome[Week].status # ""
      BY <1>4, <2>2 DEF ContextInv
    <3>6. RequestInv(q)
      <4>1. q.revision = revision => q.status = Decision(on, q.market, q.monday, q.status \in Reentry)
        BY <3>1, <3>4, Zenon
      <4>2. q.revision <= revision
        BY <1>4, <3>1 DEF ContextInv
      <4>3. q.status \in Reentry /\ q.told = q.week => outcome[q.week].status # ""
        BY <3>1, <3>3, <3>5, Zenon
      <4> QED
        BY <3>1, <3>3, <4>1, <4>2, <4>3, Zenon DEF RequestInv
    <3>7. RequestInv(q)'
      BY <3>6, <1>1, Zenon DEF RequestInv
    <3>8. Pending' \subseteq Pending \cup {q}
      <4>1. call' = [call EXCEPT ![n] = {q}]
        BY <2>2, <3>0 DEF d
      <4> QED
        BY <1>1, <4>1 DEF Pending
    <3> QED
      BY <1>2, <3>7, <3>8
  <2> QED
    BY <1>4, <2>1, <2>2 DEF Decide
<1>5. CASE (\E c \in cache[n] : Decide(n, c)) /\ UNCHANGED cache
  <2>1. PICK c \in cache[n] : Decide(n, c)
    BY <1>5
  <2>2. c \in Context /\ ContextInv(c)
    BY <1>1 DEF ControlInv
  <2>3. c.revision \in Nat
    BY <2>2 DEF Context
  <2> QED
    BY <1>2, <1>3, <1>4, <1>5, <2>1, <2>2, <2>3 DEF ControlInv
<1>6. CASE cache' = [cache EXCEPT ![n] = {now}] /\ Decide(n, now)
  <2>0. PICK c : c = now
    OBVIOUS
  <2>1. /\ c.week = Week /\ c.status = outcome[Week].status
        /\ c.on = on /\ c.revision = revision
    BY <2>0
  <2>2. cache' = [cache EXCEPT ![n] = {c}] /\ Decide(n, c)
    BY <1>6, <2>0
  <2> HIDE DEF now
  <2>6. c.revision \in Nat /\ ContextInv(c)
    <3>1. c.revision \in Nat /\ c.revision <= revision
      BY <1>1, <2>1
    <3> QED
      BY <2>1, <3>1, Zenon DEF ContextInv
  <2>7. ContextInv(c)'
    BY <1>1, <2>6, Zenon DEF ContextInv
  <2>3. cache'[n] = {c} /\ \A m \in Node \ {n} : cache'[m] = cache[m]
    BY <1>1, <2>2
  <2>4. \A m \in Node : \A x \in cache'[m] : ContextInv(x)'
    BY <1>2, <2>7, <2>3
  <2>5. \A r \in Pending' : RequestInv(r)'
    BY <1>4, <2>2, <2>6
  <2> QED
    BY <1>3, <2>4, <2>5 DEF ControlInv
<1>7. CASE UNCHANGED <<cache, call>>
  <2>1. Pending' = Pending
    BY <1>1, <1>7 DEF Pending
  <2> QED
    BY <1>2, <1>3, <1>7, <2>1 DEF ControlInv
<1> QED
  BY <1>5, <1>6, <1>7 DEF Consider

LEMMA AnsweredControl ==
  ASSUME TypeOK, ControlInv, NEW n \in Node, Answered(n)
  PROVE  ControlInv'
<1>1. PICK r \in call[n] :
        /\ RecordWeekState(r)
        /\ \/ cache' = [cache EXCEPT ![n] = {ContextNow(r.week)}]
           \/ UNCHANGED cache
  BY DEF Answered
<1>2. r \in Pending /\ r \in Request
  BY DEF Pending, TypeOK
<1>3. /\ UNCHANGED <<on, revision, late>> /\ revision \in Nat /\ call' = [call EXCEPT ![n] = {}]
      /\ cache \in [Node -> SUBSET Context] /\ call \in [Node -> SUBSET Request]
  BY DEF Answered, TypeOK, mobile
<1>4. /\ \A q \in Pending : RequestInv(q)'
      /\ \A m \in Node : \A c \in cache[m] : ContextInv(c)'
      /\ \A s \in recorded' : RecordInv(s)'
  BY <1>1, <1>2, <1>3, KeptInv, RecordStep
<1>5. Pending' \subseteq Pending
  BY <1>3 DEF Pending
<1>6. \A m \in Node : \A c \in cache'[m] : ContextInv(c)'
  <2>0. PICK c : c = ContextNow(r.week)
    OBVIOUS
  <2>1. /\ c.revision = revision' /\ c.on = on' /\ revision' \in Nat
        /\ c.status = outcome'[c.week].status
    BY <1>3, <2>0 DEF ContextNow
  <2>2. ContextInv(c)'
    <3>1. c.revision <= revision'
      BY <2>1
    <3> QED
      BY <2>1, <3>1, Zenon DEF ContextInv
  <2>3. \A m \in Node : cache'[m] \subseteq cache[m] \cup {c}
    BY <1>1, <1>3, <2>0
  <2> QED
    BY <1>4, <2>2, <2>3
<1> QED
  BY <1>4, <1>5, <1>6 DEF ControlInv

LEMMA ControlStep ==
  ASSUME TypeOK, ControlInv, [Next]_vars
  PROVE  ControlInv'
<1> USE DEF TypeOK
<1>1. ASSUME NEW q \in Sent, SetRule(q) PROVE ControlInv'
  <2>1. UNCHANGED <<outcome, recorded, cache, call, late>>
    BY <1>1 DEF SetRule, weekly, executor
  <2>2. Pending' = Pending
    BY <2>1 DEF Pending
  <2>3. CASE UNCHANGED <<on, revision>>
    BY <2>1, <2>2, <2>3, KeptInv DEF ControlInv, RecordInv
  <2>4. CASE revision' = revision + 1
    <3>1. ASSUME NEW r \in Pending PROVE RequestInv(r)'
      <4>1. r.revision \in Nat /\ r.revision <= revision
        BY PendingIsRequest, RequestStatus DEF ControlInv, RequestInv
      <4>2. r.revision <= revision' /\ r.revision # revision'
        BY <2>4, <4>1
      <4>3. RequestInv(r) /\ outcome' = outcome
        BY <2>1 DEF ControlInv
      <4> QED
        BY <4>2, <4>3, Zenon DEF RequestInv
    <3>2. ASSUME NEW n \in Node, NEW c \in cache[n] PROVE ContextInv(c)'
      <4>1. c \in Context
        OBVIOUS
      <4>2. c.revision \in Nat /\ ContextInv(c)
        BY <4>1 DEF Context, ControlInv
      <4>3. c.revision <= revision' /\ c.revision # revision'
        <5>1. c.revision <= revision
          BY <4>2, Zenon DEF ContextInv
        <5>2. revision \in Nat
          OBVIOUS
        <5> QED
          BY <2>4, <4>2, <5>1, <5>2
      <4> QED
        BY <2>1, <4>2, <4>3, Zenon DEF ContextInv
    <3> QED
      BY <2>1, <2>2, <3>1, <3>2 DEF ControlInv, RecordInv
  <2> QED
    BY <1>1, <2>3, <2>4 DEF SetRule, Apply
<1>2. ASSUME UNCHANGED <<on, revision, outcome, recorded>>, Pending' \subseteq Pending,
             \A n \in Node : cache'[n] \subseteq cache[n]
      PROVE  ControlInv'
  BY <1>2, KeptInv DEF ControlInv, RecordInv
<1>3. ASSUME NEW n \in Node, Consider(n) PROVE ControlInv'
  BY <1>3, ConsiderControl
<1>4. ASSUME NEW n \in Node, Answered(n) PROVE ControlInv'
  BY <1>4, AnsweredControl
<1>5. ASSUME NEW n \in Node, GiveUp(n) \/ Restart(n) PROVE ControlInv'
  <2>1. /\ UNCHANGED <<on, revision, outcome, recorded>>
        /\ call' = [call EXCEPT ![n] = {}] /\ late' = late \cup call[n]
        /\ cache' = cache \/ cache' = [cache EXCEPT ![n] = {}]
    BY <1>5 DEF GiveUp, Restart, weekly, mobile
  <2>2. Pending' \subseteq Pending
    BY <2>1 DEF Pending
  <2>3. \A m \in Node : cache'[m] \subseteq cache[m]
    BY <2>1
  <2> QED
    BY <1>2, <2>1, <2>2, <2>3
<1>6. ASSUME UNCHANGED <<on, revision, outcome, recorded, cache, call, late>> PROVE ControlInv'
  BY <1>2, <1>6 DEF Pending
<1>7. ASSUME NEW n \in Node, SendBuy(n) \/ LeaseMoves(n) \/ LeaseLost(n) PROVE ControlInv'
  BY <1>6, <1>7 DEF SendBuy, LeaseMoves, LeaseLost, weekly, mobile
<1>8. ASSUME NEW r \in late, ProcessedLate(r) PROVE ControlInv'
  <2>1. r \in Pending /\ r \in Request /\ RecordWeekState(r)
        /\ UNCHANGED <<on, revision, cache, call>> /\ late' = late \ {r}
    BY <1>8 DEF ProcessedLate, Pending, mobile, executor
  <2>2. Pending' \subseteq Pending
    BY <2>1 DEF Pending
  <2> QED
    BY <2>1, <2>2, KeptInv, RecordStep DEF ControlInv
<1>9. CASE NextWindow
  BY <1>6, <1>9 DEF NextWindow, weekly, mobile
<1>10. CASE UNCHANGED vars
  BY <1>6, <1>10 DEF vars
<1> QED
  BY <1>1, <1>3, <1>4, <1>5, <1>7, <1>8, <1>9, <1>10 DEF Next

LEMMA ControlInit == Init => ControlInv
<1> SUFFICES ASSUME Init PROVE ControlInv
  OBVIOUS
<1>1. late = {} /\ recorded = {} /\ call = [n \in Node |-> {}] /\ cache = [n \in Node |-> {}]
  BY Zenon DEF Init
<1>2. Pending = {}
  BY <1>1 DEF Pending
<1> QED
  BY <1>1, <1>2 DEF ControlInv

\* The property of the steps, named to prove it of each.
Follows ==
  \A r \in Pending :
    outcome'[r.week] = [status |-> r.status, market |-> r.market] /\ outcome[r.week].status # r.status
      /\ r.told = r.week => r.status = Decision(on, r.market, r.monday, outcome[r.week].status = "DEFER_TUESDAY")

LEMMA RecordFollows ==
  ASSUME TypeOK, ControlInv, NEW a \in Pending, RecordWeekState(a)
  PROVE  Follows
<1>1. /\ a \in Request /\ a.week \in Weeks /\ a.status \in Status /\ a.status # "" /\ a.monday \in BOOLEAN
      /\ outcome \in [Weeks -> Outcome]
  BY PendingIsRequest, RequestStatus DEF TypeOK
<1>2. SUFFICES ASSUME NEW r \in Pending,
                      outcome'[r.week] = [status |-> r.status, market |-> r.market],
                      outcome[r.week].status # r.status, r.told = r.week
               PROVE  r.status = Decision(on, r.market, r.monday, outcome[r.week].status = "DEFER_TUESDAY")
  BY Zenon DEF Follows
<1>3. r \in Request /\ r.week \in Weeks /\ r.monday \in BOOLEAN
  BY PendingIsRequest, RequestStatus
<1>4. outcome' # outcome
  <2>1. outcome'[r.week].status = r.status
    BY <1>2
  <2> QED
    BY <1>2, <2>1
<1>5. Accepted(a) /\ outcome[a.week].status # a.status
      /\ outcome' = [outcome EXCEPT ![a.week] = [status |-> a.status, market |-> a.market]]
  BY <1>4, Zenon DEF RecordWeekState, weekly
<1>6. r.week = a.week
  <2>1. r.week # a.week => outcome'[r.week] = outcome[r.week]
    BY <1>1, <1>3, <1>5
  <2>2. outcome'[r.week].status = r.status
    BY <1>2
  <2> QED
    BY <1>2, <2>1, <2>2
<1>7. a.status = r.status /\ a.market = r.market
  <2>1. outcome'[a.week] = [status |-> a.status, market |-> a.market]
    BY <1>1, <1>5
  <2> QED
    BY <1>2, <1>6, <2>1
<1>8. \/ outcome[r.week].status = ""
      \/ outcome[r.week].status = "DEFER_TUESDAY" /\ r.status \in Reentry
  BY <1>2, <1>5, <1>6, <1>7, Zenon DEF Accepted, TransitionAllowed, Reentry
<1>9. a.revision = revision
  <2>1. a \notin recorded
    <3>1. SUFFICES ASSUME a \in recorded PROVE FALSE
      OBVIOUS
    <3>2. RecordInv(a)
      BY <3>1 DEF ControlInv
    <3> QED
      BY <3>2, <1>1, <1>5, <1>6, <1>7, <1>8 DEF RecordInv, Reentry
  <2> QED
    BY <1>5, <2>1, Zenon DEF Accepted
<1>10. RequestInv(a) /\ RequestInv(r)
  BY DEF ControlInv
<1>11. a.status = Decision(on, a.market, a.monday, a.status \in Reentry)
  BY <1>9, <1>10, Zenon DEF RequestInv
<1>12. (r.status \in Reentry) = (outcome[r.week].status = "DEFER_TUESDAY")
  <2>1. r.status \in Reentry => outcome[r.week].status # ""
    BY <1>2, <1>10, Zenon DEF RequestInv
  <2>2. (r.status \in Reentry) <=> (outcome[r.week].status = "DEFER_TUESDAY")
    BY <2>1, <1>8
  <2> QED
    BY <2>2
<1>13. /\ r.status = "DEFER_TUESDAY" => r.monday
       /\ r.status = "SKIP_GAP_MOMENTUM" => ~r.monday
  BY <1>10, Zenon DEF RequestInv
<1>14. PICK deferred \in BOOLEAN : deferred = (r.status \in Reentry)
  <2>1. CASE r.status \in Reentry
    <3>1. TRUE = (r.status \in Reentry)
      BY <2>1
    <3> QED
      BY <3>1
  <2>2. CASE r.status \notin Reentry
    <3>1. FALSE = (r.status \in Reentry)
      BY <2>2
    <3> QED
      BY <3>1
  <2> QED
    BY <2>1, <2>2
<1>15. Decision(on, r.market, a.monday, deferred) = r.status
  BY <1>7, <1>11, <1>14
<1>16. Decision(on, r.market, r.monday, deferred) = r.status
  BY <1>1, <1>3, <1>13, <1>15, DecisionOfDay
<1> QED
  BY <1>12, <1>14, <1>16

LEMMA NextFollows ==
  ASSUME TypeOK, ControlInv, [Next]_vars
  PROVE  Follows
<1>1. CASE UNCHANGED outcome
  <2>1. ASSUME NEW r \in Pending
        PROVE  ~(outcome'[r.week] = [status |-> r.status, market |-> r.market]
                 /\ outcome[r.week].status # r.status)
    BY <1>1
  <2> QED
    BY <2>1, Zenon DEF Follows
<1>2. ASSUME NEW n \in Node, Answered(n) PROVE Follows
  <2>1. PICK a \in call[n] : RecordWeekState(a)
    BY <1>2 DEF Answered
  <2> QED
    BY <2>1, RecordFollows DEF Pending
<1>3. ASSUME NEW r \in late, ProcessedLate(r) PROVE Follows
  BY <1>3, RecordFollows DEF Pending, ProcessedLate
<1>4. ASSUME ~UNCHANGED outcome PROVE (\E n \in Node : Answered(n)) \/ (\E r \in late : ProcessedLate(r))
  BY <1>4, Zenon DEF Next, SetRule, Consider, GiveUp, SendBuy, LeaseMoves, LeaseLost, Restart,
                     NextWindow, vars, weekly
<1> QED
  BY <1>1, <1>2, <1>3, <1>4

\* Whatever is given up, delayed or decided under switches that have changed
\* since, an outcome is recorded only if the rules enabled then lead to it.
THEOREM OutcomesFollow == Spec => OutcomeFollowsControls
<1>1. TypeOK /\ ControlInv /\ [Next]_vars => ControlInv'
  BY ControlStep
<1>2. Spec => []ControlInv
  BY <1>1, ControlInit, EntryRulesType, PTL DEF Spec
<1>3. TypeOK /\ ControlInv /\ [Next]_vars => Follows
  BY NextFollows
<1> QED
  BY <1>2, <1>3, EntryRulesType, PTL DEF Spec, OutcomeFollowsControls, Follows, Pending
-------------------------------------------------------------------------------
(* What is on record of a week *)

\* What a request changes that recordWeekState commits.
LEMMA RecordExactly ==
  ASSUME TypeOK, NEW r \in Request, Accepted(r), RecordWeekState(r), NEW w \in Weeks
  PROVE  /\ recorded' = recorded \cup {r}
         /\ w = r.week => outcome'[w].status = r.status
         /\ outcome'[w] = IF w = r.week /\ outcome[w].status # r.status
                          THEN [status |-> r.status, market |-> r.market] ELSE outcome[w]
<1>1. r.week \in Weeks /\ outcome \in [Weeks -> Outcome]
  BY RequestStatus DEF TypeOK
<1>2. recorded' = recorded \cup {r} /\ (w = r.week => outcome'[w].status = r.status)
  BY RecordKeeps DEF RecordWeekState
<1>3. CASE outcome[r.week].status = r.status
  <2>1. outcome' = outcome
    BY <1>3, Zenon DEF RecordWeekState
  <2> QED
    BY <1>2, <1>3, <2>1
<1>4. CASE outcome[r.week].status # r.status
  <2>1. outcome' = [outcome EXCEPT ![r.week] = [status |-> r.status, market |-> r.market]]
    BY <1>4, Zenon DEF RecordWeekState
  <2> QED
    BY <1>1, <1>2, <1>4, <2>1
<1> QED
  BY <1>3, <1>4

\* Every other step leaves the records of the weeks alone.
LEMMA WeeklySteps ==
  ASSUME TypeOK, [Next]_vars
  PROVE  UNCHANGED weekly \/ \E r \in Request : Accepted(r) /\ RecordWeekState(r)
<1>1. \A r : RecordWeekState(r) => Accepted(r) \/ UNCHANGED weekly
  BY DEF RecordWeekState
<1>2. ASSUME NEW n \in Node, Answered(n) PROVE \E r \in Request : RecordWeekState(r)
  BY <1>2 DEF Answered, TypeOK
<1>3. ASSUME NEW r \in late, ProcessedLate(r) PROVE r \in Request /\ RecordWeekState(r)
  BY <1>3 DEF ProcessedLate, TypeOK
<1>4. ASSUME NEW n \in Node, \/ Consider(n) \/ GiveUp(n) \/ SendBuy(n)
                             \/ LeaseMoves(n) \/ LeaseLost(n) \/ Restart(n)
      PROVE  UNCHANGED weekly
  BY <1>4, Zenon DEF Consider, GiveUp, SendBuy, LeaseMoves, LeaseLost, Restart
<1>5. (\E q \in Sent : SetRule(q)) \/ NextWindow \/ UNCHANGED vars => UNCHANGED weekly
  BY Zenon DEF SetRule, NextWindow, vars, weekly
<1> QED
  BY <1>1, <1>2, <1>3, <1>4, <1>5 DEF Next

\* A request id stands for one decision, and the outcome of a week is the one
\* recorded decision of it, or the second where Monday's deferred to Tuesday.
HistoryOf(w) ==
  \/ outcome[w].status = "" /\ \A r \in recorded : r.week # w
  \/ \E r \in recorded :
       /\ r.week = w /\ outcome[w] = [status |-> r.status, market |-> r.market]
       /\ \A s \in recorded : s.week = w => \/ s.status = r.status
                                            \/ s.status = "DEFER_TUESDAY" /\ r.status \in Reentry

HistoryInv ==
  /\ \A r, s \in recorded : SameId(r, s) => r = s
  /\ \A w \in Weeks : HistoryOf(w)

LEMMA HistoryStep ==
  ASSUME TypeOK, HistoryInv, [Next]_vars
  PROVE  HistoryInv'
<1>1. CASE UNCHANGED weekly
  BY <1>1 DEF weekly, HistoryInv, HistoryOf, SameId
<1>2. ASSUME NEW r \in Request, Accepted(r), RecordWeekState(r) PROVE HistoryInv'
  <2>1. /\ r.week \in Weeks /\ r.status # "" /\ recorded' = recorded \cup {r}
    BY <1>2, RequestStatus, RecordExactly
  <2>2. \A p, q \in recorded' : SameId(p, q) => p = q
    <3>1. \A s \in recorded : SameId(r, s) => r = s
      BY <1>2 DEF Accepted, NewRequest, HistoryInv
    <3> QED
      BY <2>1, <3>1 DEF HistoryInv, SameId
  <2>3. ASSUME NEW w \in Weeks, w # r.week PROVE HistoryOf(w)'
    <3>1. outcome'[w] = outcome[w]
      BY <1>2, <2>3, RecordExactly
    <3>2. CASE outcome[w].status = "" /\ \A s \in recorded : s.week # w
      BY <2>1, <2>3, <3>1, <3>2 DEF HistoryOf
    <3>3. CASE ~(outcome[w].status = "" /\ \A s \in recorded : s.week # w)
      <4>1. PICK q \in recorded :
              /\ q.week = w /\ outcome[w] = [status |-> q.status, market |-> q.market]
              /\ \A s \in recorded : s.week = w => \/ s.status = q.status
                                                   \/ s.status = "DEFER_TUESDAY" /\ q.status \in Reentry
        BY <3>3 DEF HistoryInv, HistoryOf
      <4> QED
        BY <2>1, <2>3, <3>1, <4>1 DEF HistoryOf
    <3> QED
      BY <3>2, <3>3
  <2>4. ASSUME outcome[r.week].status = r.status PROVE HistoryOf(r.week)'
    <3>1. outcome'[r.week] = outcome[r.week]
      BY <1>2, <2>1, <2>4, RecordExactly
    <3>2. PICK q \in recorded :
            /\ q.week = r.week /\ outcome[r.week] = [status |-> q.status, market |-> q.market]
            /\ \A s \in recorded : s.week = r.week => \/ s.status = q.status
                                                      \/ s.status = "DEFER_TUESDAY" /\ q.status \in Reentry
      BY <2>1, <2>4 DEF HistoryInv, HistoryOf
    <3>3. q.status = r.status
      BY <2>4, <3>2
    <3> QED
      BY <2>1, <3>1, <3>2, <3>3 DEF HistoryOf
  <2>5. ASSUME outcome[r.week].status # r.status PROVE HistoryOf(r.week)'
    <3>1. outcome'[r.week] = [status |-> r.status, market |-> r.market]
      BY <1>2, <2>1, <2>5, RecordExactly
    <3>2. \/ outcome[r.week].status = ""
          \/ outcome[r.week].status = "DEFER_TUESDAY" /\ r.status \in Reentry
      BY <1>2, <2>5 DEF Accepted, TransitionAllowed, Reentry
    <3>3. HistoryOf(r.week)
      BY <2>1 DEF HistoryInv
    <3>4. \A s \in recorded : s.week = r.week => s.status = "DEFER_TUESDAY" /\ r.status \in Reentry
      <4>1. \A q \in recorded : q.status # ""
        BY RequestStatus DEF TypeOK
      <4>2. CASE \A s \in recorded : s.week # r.week
        BY <4>2
      <4>3. CASE ~\A s \in recorded : s.week # r.week
        <5>1. PICK q \in recorded :
                /\ q.week = r.week /\ outcome[r.week] = [status |-> q.status, market |-> q.market]
                /\ \A s \in recorded : s.week = r.week => \/ s.status = q.status
                                                          \/ s.status = "DEFER_TUESDAY" /\ q.status \in Reentry
          BY <3>3, <4>3 DEF HistoryOf
        <5>2. outcome[r.week].status = q.status /\ q.status # ""
          <6>1. outcome[r.week].status = q.status
            BY <5>1
          <6> QED
            BY <4>1, <5>1, <6>1
        <5>3. q.status = "DEFER_TUESDAY" /\ r.status \in Reentry
          BY <3>2, <5>2
        <5> QED
          BY <5>1, <5>3 DEF Reentry
      <4> QED
        BY <4>2, <4>3
    <3> QED
      BY <2>1, <3>1, <3>4 DEF HistoryOf
  <2> QED
    BY <2>1, <2>2, <2>3, <2>4, <2>5 DEF HistoryInv
<1> QED
  BY <1>1, <1>2, WeeklySteps

LEMMA HistoryInit == Init => HistoryInv
<1> SUFFICES ASSUME Init PROVE HistoryInv
  OBVIOUS
<1>1. outcome = [w \in Weeks |-> [status |-> "", market |-> {}]] /\ recorded = {}
  BY Zenon DEF Init
<1> QED
  BY <1>1 DEF HistoryInv, HistoryOf

\* strategy_entry_rule_week_state and strategy_entry_rule_week_events agree: a
\* week without an outcome has no event, the outcome of any other is that of a
\* recorded decision, and no event contradicts it unless it is the Monday
\* deferral that this decision replaced.  No id has two decisions.
THEOREM OutcomesMatchEvents ==
  Spec => []((\A r, s \in recorded : SameId(r, s) => r = s) /\ \A w \in Weeks : HistoryOf(w))
<1>1. TypeOK /\ HistoryInv /\ [Next]_vars => HistoryInv'
  BY HistoryStep
<1>2. HistoryInv => (\A r, s \in recorded : SameId(r, s) => r = s) /\ \A w \in Weeks : HistoryOf(w)
  BY DEF HistoryInv
<1> QED
  BY <1>1, <1>2, HistoryInit, EntryRulesType, PTL DEF Spec

\* The outcome of a week is decided once: whatever is delayed, repeated or sent
\* by a former executor, neither its status nor what it was decided from changes
\* any more, except that Tuesday's decision replaces a deferral.
THEOREM OutcomesAreFinal ==
  Spec => [][\A w \in Weeks : outcome[w].status \notin {"", "DEFER_TUESDAY"} => outcome'[w] = outcome[w]]_vars
<1>1. TypeOK /\ [Next]_vars
        => [\A w \in Weeks : outcome[w].status \notin {"", "DEFER_TUESDAY"} => outcome'[w] = outcome[w]]_vars
  <2> SUFFICES ASSUME TypeOK, [Next]_vars, NEW w \in Weeks, outcome[w].status \notin {"", "DEFER_TUESDAY"}
               PROVE  outcome'[w] = outcome[w]
    OBVIOUS
  <2>1. ASSUME NEW r \in Request, Accepted(r), RecordWeekState(r) PROVE outcome'[w] = outcome[w]
    <3>1. w = r.week => outcome[w].status = r.status
      BY <2>1 DEF Accepted, TransitionAllowed
    <3> QED
      BY <2>1, <3>1, RecordExactly
  <2> QED
    BY <2>1, WeeklySteps DEF weekly
<1> QED
  BY <1>1, EntryRulesType, PTL DEF Spec

\* recordWeekState may be repeated: a request that was committed is accepted
\* again as long as its sender holds the lease, whatever the revision has become
\* since, and changes nothing the second time.
THEOREM RecordingTwice ==
  ASSUME TypeOK, NEW r \in Request, Accepted(r), RecordWeekState(r), UNCHANGED lease
  PROVE  Accepted(r)' /\ recorded' \cup {r} = recorded' /\ outcome'[r.week].status = r.status
<1>1. r.week \in Weeks
  BY RequestStatus
<1>2. recorded' = recorded \cup {r} /\ outcome'[r.week].status = r.status
  BY <1>1, RecordExactly
<1>3. LeaseValid(r.node, r.token)'
  BY DEF Accepted, LeaseValid
<1>4. ~NewRequest(r)' /\ TransitionAllowed(r)'
  BY <1>2 DEF NewRequest, SameId, TransitionAllowed
<1> QED
  BY <1>2, <1>3, <1>4 DEF Accepted
===============================================================================
