----------------------------- MODULE TradeExecution -----------------------------
(***************************************************************************)
(* Orders of one account under the role lease, the trade gate and the      *)
(* weekly-entry claim: send_buy, modify_sltp and close_position_market of  *)
(* broker_execution.py, their BackendLeaseCoordinator calls, and the       *)
(* handlers of coordination.php.                                           *)
(*                                                                         *)
(* The role lease is used through LeaseAuthority, which RoleLease          *)
(* implements.  There is no clock: a lease lapses, a gate expires and a    *)
(* process is slow at any moment.  A call is sent, and later processed and *)
(* answered, or it fails: unprocessed, processed with its answer lost, or  *)
(* still in the network, where it may be processed at any later time.      *)
(***************************************************************************)
EXTENDS LeaseAuthority

CONSTANTS Exec,       \* execution and operation ids (uuid4: each used once)
          Week,       \* ISO week keys
          Kind,       \* operations an executor starts, among BUY, SLTP, SELL
          MaxToken,   \* bound: acquisitions of the role lease
          MaxFaults   \* bound: failed calls, unknown broker results, crashes

ASSUME TradeAssumption ==
  /\ None \notin Exec
  /\ Kind \subseteq {"BUY", "SLTP", "SELL"}
  /\ MaxToken \in Nat
  /\ MaxFaults \in Nat

VARIABLES
  fence,   \* fencing_token of each process, kept after the lease is lost
  gate,    \* the TRADE_EXECUTION row of strategy_runtime_leases
  entry,   \* strategy_weekly_entries
  op,      \* what each execution id was created for, None if it was not
  order,   \* what the broker has made of each execution's order_send
  flow,    \* where each process is in its trade operation
  call,    \* the request each process waits on
  late,    \* requests nobody waits for any more
  faults   \* faults the environment may still inject

tradeVars == <<fence, gate, entry, op, order, flow, call, late, faults>>
vars == <<leaseVars, tradeVars>>

Status == {"NONE", "CLAIMED", "ACCEPTED", "REJECTED", "UNKNOWN"}

Gate == [owner : Proc \cup {None}, token : Nat, exec : Exec \cup {None}, active : BOOLEAN]

Entry == [status : Status, exec : Exec \cup {None}, fence : Nat, gate : Nat]

Op == [kind : Kind, week : Week, proc : Proc]

ASSUME NoneIsNotAnOperation == None \notin Op

OrderState == {"none", "sent", "executed", "refused", "closed"}

Step == {"idle", "acquire", "prevalidate", "claim", "position", "validate",
         "send", "sending", "release", "complete", "dead"}

\* step, execution id, gate token (0: no gate), whether the week is claimed,
\* the status to complete it with, and the step after the first cleanup call.
Flow == [step : Step, exec : Exec \cup {None}, gate : Nat, claimed : BOOLEAN,
         status : Status, then : {"idle", "release", "complete"}]

IdleFlow == [step |-> "idle", exec |-> None, gate |-> 0, claimed |-> FALSE,
             status |-> "NONE", then |-> "idle"]

Request == [op : {"acquire", "validate", "claim", "release", "complete"},
            owner : Proc, fence : Nat, exec : Exec, week : Week, gate : Nat,
            status : Status, checked : BOOLEAN]

Init ==
  /\ LeaseInit
  /\ fence = [p \in Proc |-> 0]
  /\ gate = [owner |-> None, token |-> 0, exec |-> None, active |-> FALSE]
  /\ entry = [w \in Week |-> [status |-> "NONE", exec |-> None, fence |-> 0, gate |-> 0]]
  /\ op = [e \in Exec |-> None]
  /\ order = [e \in Exec |-> "none"]
  /\ flow = [p \in Proc |-> IdleFlow]
  /\ call = [p \in Proc |-> None]
  /\ late = {}
  /\ faults = MaxFaults

-------------------------------------------------------------------------------
(* coordination.php: what one request answers and does to the two tables.    *)

\* requireExecutor: the caller owns the active EXECUTOR row under this token.
RequireExecutor(r) == active /\ owner = r.owner /\ token = r.fence

\* requireGate: the caller's operation holds the active gate under this token.
RequireGate(r) ==
  /\ gate.active
  /\ gate.owner = r.owner
  /\ gate.token = r.gate
  /\ gate.exec = r.exec

\* Mutants stand before the definition they replace.
MutGateSwapsColumns(r) ==
  [owner |-> r.exec, exec |-> r.owner, active |-> TRUE,
   token |-> IF gate.active THEN gate.token ELSE gate.token + 1]

MutGateKeepsToken(r) ==
  [owner |-> r.owner, exec |-> r.exec, active |-> TRUE,
   token |-> IF gate.token > 0 THEN gate.token ELSE 1]

\* The gate as acquireTradeGate leaves it: the same operation keeps its token.
GateFor(r) ==
  [owner |-> r.owner, exec |-> r.exec, active |-> TRUE,
   token |-> IF gate.active THEN gate.token ELSE gate.token + 1]

MutClaimTakesOver(w, r) == entry[w].status \in {"NONE", "REJECTED", "CLAIMED"}

MutClaimRetriesUnknown(w, r) ==
  \/ entry[w].status \in {"NONE", "REJECTED", "UNKNOWN"}
  \/ entry[w].status = "CLAIMED" /\ entry[w].exec = r.exec /\ entry[w].gate = r.gate

\* claimWeeklyEntry: a missing or rejected entry is claimed; the same execution
\* under the same gate is told again that it holds the claim.
ClaimGranted(w, r) ==
  \/ entry[w].status \in {"NONE", "REJECTED"}
  \/ entry[w].status = "CLAIMED" /\ entry[w].exec = r.exec /\ entry[w].gate = r.gate

\* Whether the caller gets what it asked for; a 409 and an answer that denies
\* the request lead to the same cleanup.
Granted(r) ==
  /\ r.checked \/ RequireExecutor(r)
  /\ r.op = "acquire" /\ gate.active => gate.owner = r.owner /\ gate.exec = r.exec
  /\ r.op \in {"validate", "claim"} => RequireGate(r)
  /\ r.op = "claim" => ClaimGranted(r.week, r)

\* Any release of the owner ends its gate, whatever operation it was sent for.
MutGateAfter(r) ==
  CASE r.op = "acquire" /\ Granted(r) -> GateFor(r)
    [] r.op = "release" /\ Granted(r) /\ gate.owner = r.owner -> [gate EXCEPT !.active = FALSE]
    [] OTHER -> gate

\* A release ends the gate of its own operation and no other.
GateAfter(r) ==
  CASE r.op = "acquire" /\ Granted(r) -> GateFor(r)
    [] r.op = "release" /\ Granted(r) /\ gate.owner = r.owner
         /\ gate.token = r.gate /\ gate.exec = r.exec -> [gate EXCEPT !.active = FALSE]
    [] OTHER -> gate

\* A completion resolves the claim of its own execution and no other.
EntryAfter(r) ==
  CASE r.op = "claim" /\ Granted(r) ->
         [entry EXCEPT ![r.week] = [status |-> "CLAIMED", exec |-> r.exec,
                                    fence |-> r.fence, gate |-> r.gate]]
    [] r.op = "complete" /\ Granted(r) /\ entry[r.week].exec = r.exec
         /\ entry[r.week].status = "CLAIMED" -> [entry EXCEPT ![r.week].status = r.status]
    [] OTHER -> entry

Handle(r) ==
  /\ gate' = GateAfter(r)
  /\ entry' = EntryAfter(r)

\* releaseTradeGate and completeWeeklyEntry read the EXECUTOR row without a lock
\* and update in a second statement: the row may change in between.
Checkable(r) == r.op \in {"release", "complete"} /\ ~r.checked /\ RequireExecutor(r)

CheckExecutor(p) ==
  /\ call[p] # None
  /\ Checkable(call[p])
  /\ call' = [call EXCEPT ![p].checked = TRUE]
  /\ UNCHANGED <<leaseVars, fence, gate, entry, op, order, flow, late, faults>>

CheckLate(r) ==
  /\ r \in late
  /\ Checkable(r)
  /\ late' = (late \ {r}) \cup {[r EXCEPT !.checked = TRUE]}
  /\ UNCHANGED <<leaseVars, fence, gate, entry, op, order, flow, call, faults>>

\* A request nobody waits for is processed.
HandleLate(r) ==
  /\ r \in late
  /\ Handle(r)
  /\ late' = late \ {r}
  /\ UNCHANGED <<leaseVars, fence, op, order, flow, call, faults>>

\* expires_at of the gate passes.
GateExpires ==
  /\ gate.active
  /\ gate' = [gate EXCEPT !.active = FALSE]
  /\ UNCHANGED <<leaseVars, fence, entry, op, order, flow, call, late, faults>>

-------------------------------------------------------------------------------
(* The trade operation of a process.                                         *)

At(p, step) == flow[p].step = step

Goto(p, f) == flow' = [flow EXCEPT ![p] = f]

MutRaisedRejects(f) ==
  IF f.claimed
    THEN [f EXCEPT !.step = "complete", !.then = "release", !.status = "REJECTED"]
    ELSE IF f.gate = 0 THEN IdleFlow ELSE [f EXCEPT !.step = "release", !.then = "idle"]

MutRaisedForgetsClaim(f) ==
  IF f.gate = 0 THEN IdleFlow ELSE [f EXCEPT !.step = "release", !.then = "idle"]

\* An exception in the try block: a claimed week is completed, UNKNOWN once
\* order_send has started, then the gate is released.
Raised(f) ==
  IF f.claimed
    THEN [f EXCEPT !.step = "complete", !.then = "release",
                   !.status = IF f.step = "sending" THEN "UNKNOWN" ELSE "REJECTED"]
    ELSE IF f.gate = 0 THEN IdleFlow ELSE [f EXCEPT !.step = "release", !.then = "idle"]

\* The step after a cleanup call, whatever became of it.
Cleaned(f) ==
  IF f.then = "idle" THEN IdleFlow ELSE [f EXCEPT !.step = f.then, !.then = "idle"]

PositionOpen == \E e \in Exec : op[e] # None /\ op[e].kind = "BUY" /\ order[e] = "executed"

\* trade_request_role_allowed, then a fresh execution id.  A BUY is only tried
\* without a managed position, a protection change or a SELL only with one.
Begin(p, e, w, k) ==
  /\ At(p, "idle")
  /\ view[p] # 0
  /\ op[e] = None
  /\ PositionOpen <=> k # "BUY"
  /\ op' = [op EXCEPT ![e] = [kind |-> k, week |-> w, proc |-> p]]
  /\ Goto(p, [IdleFlow EXCEPT !.step = "acquire", !.exec = e])
  /\ UNCHANGED <<leaseVars, fence, gate, entry, order, call, late, faults>>

\* Steps that consist of a coordination call, and those of them that begin with
\* require_role_lease().
Asking == {"acquire", "prevalidate", "claim", "validate", "release", "complete"}
NeedsLease == {"acquire", "prevalidate", "validate"}

CallOf(step) == IF step = "prevalidate" THEN "validate" ELSE step

RequestOf(p) ==
  [op |-> CallOf(flow[p].step), owner |-> p, fence |-> fence[p],
   exec |-> flow[p].exec, week |-> op[flow[p].exec].week, gate |-> flow[p].gate,
   status |-> flow[p].status, checked |-> FALSE]

\* A coordination call is sent.
Ask(p) ==
  /\ call[p] = None
  /\ flow[p].step \in Asking
  /\ flow[p].step \in NeedsLease => view[p] # 0
  /\ call' = [call EXCEPT ![p] = RequestOf(p)]
  /\ UNCHANGED <<leaseVars, fence, gate, entry, op, order, flow, late, faults>>

\* require_role_lease() raises, or the gate was held longer than is safe.
Blocked(p) ==
  /\ call[p] = None
  /\ flow[p].step \in NeedsLease
  /\ view[p] = 0 \/ flow[p].gate # 0
  /\ Goto(p, Raised(flow[p]))
  /\ UNCHANGED <<leaseVars, fence, gate, entry, op, order, call, late, faults>>

MutAdvancedWithoutClaim(f, r) ==
  CASE f.step = "acquire"  -> [f EXCEPT !.gate = GateFor(r).token, !.step = "validate"]
    [] f.step = "validate" -> [f EXCEPT !.step = "send"]

\* The flow after a granted call: a BUY claims its week between two validations.
Advanced(f, r) ==
  CASE f.step = "acquire" ->
         [f EXCEPT !.gate = GateFor(r).token,
                   !.step = IF op[f.exec].kind = "BUY" THEN "prevalidate" ELSE "validate"]
    [] f.step = "prevalidate" -> [f EXCEPT !.step = "claim"]
    [] f.step = "claim"       -> [f EXCEPT !.step = "position", !.claimed = TRUE]
    [] f.step = "validate"    -> [f EXCEPT !.step = "send"]

\* The request is processed and its answer received.  What happens between the
\* two is covered by what may happen before the process takes its next step.
Answer(p) ==
  /\ call[p] # None
  /\ Handle(call[p])
  /\ call' = [call EXCEPT ![p] = None]
  /\ Goto(p, IF flow[p].step \in {"release", "complete"} THEN Cleaned(flow[p])
             ELSE IF Granted(call[p]) THEN Advanced(flow[p], call[p])
             ELSE Raised(flow[p]))
  /\ UNCHANGED <<leaseVars, fence, op, order, late, faults>>

Fault == faults > 0 /\ faults' = faults - 1

\* What may become of a request whose caller is no longer waiting.
Lost(r) ==
  \/ UNCHANGED <<gate, entry, late>>
  \/ Handle(r) /\ UNCHANGED late
  \/ late' = late \cup {r} /\ UNCHANGED <<gate, entry>>

\* The call raises; release and complete swallow the exception.
CallFails(p) ==
  /\ call[p] # None
  /\ Fault
  /\ Lost(call[p])
  /\ call' = [call EXCEPT ![p] = None]
  /\ Goto(p, IF flow[p].step \in {"release", "complete"} THEN Cleaned(flow[p])
             ELSE Raised(flow[p]))
  /\ UNCHANGED <<leaseVars, fence, op, order>>

\* managed_position() between the claim and the second validation: a position
\* that has appeared completes the week as REJECTED.
CheckPosition(p) ==
  /\ At(p, "position")
  /\ Goto(p, IF PositionOpen THEN Raised(flow[p]) ELSE [flow[p] EXCEPT !.step = "validate"])
  /\ UNCHANGED <<leaseVars, fence, gate, entry, op, order, call, late, faults>>

\* mt5.order_send().
SendOrder(p) ==
  /\ At(p, "send")
  /\ order' = [order EXCEPT ![flow[p].exec] = "sent"]
  /\ Goto(p, [flow[p] EXCEPT !.step = "sending"])
  /\ UNCHANGED <<leaseVars, fence, gate, entry, op, call, late, faults>>

\* order_send() has returned: the gate is released, then a BUY is completed.
Returned(f, status) ==
  [f EXCEPT !.step = "release", !.status = status,
            !.then = IF f.claimed THEN "complete" ELSE "idle"]

\* An accepted retcode (DONE, DONE_PARTIAL, or PLACED for an order the broker has
\* still to execute), or any other retcode.
OrderAccepted(p) ==
  /\ At(p, "sending")
  /\ order[flow[p].exec] # "refused"
  /\ Goto(p, Returned(flow[p], "ACCEPTED"))
  /\ UNCHANGED <<leaseVars, fence, gate, entry, op, order, call, late, faults>>

OrderRefused(p) ==
  /\ At(p, "sending")
  /\ order[flow[p].exec] = "refused"
  /\ Goto(p, Returned(flow[p], "REJECTED"))
  /\ UNCHANGED <<leaseVars, fence, gate, entry, op, order, call, late, faults>>

\* managed_position(), execution_stage() or order_send() raises, or order_send()
\* returns None.
BrokerFails(p) ==
  /\ Fault
  /\ \/ /\ At(p, "sending")
        /\ Goto(p, Returned(flow[p], "UNKNOWN"))
     \/ /\ flow[p].step \in {"position", "send", "sending"}
        /\ Goto(p, Raised(flow[p]))
  /\ UNCHANGED <<leaseVars, fence, gate, entry, op, order, call, late>>

\* The process ends in the middle of anything; its successor is another process.
Crash(p) ==
  /\ ~At(p, "dead")
  /\ Fault
  /\ Drop({p})
  /\ Goto(p, [IdleFlow EXCEPT !.step = "dead"])
  /\ IF call[p] = None THEN UNCHANGED <<gate, entry, late>> ELSE Lost(call[p])
  /\ call' = [call EXCEPT ![p] = None]
  /\ UNCHANGED <<fence, op, order>>

-------------------------------------------------------------------------------
(* The broker and the role lease.                                            *)

Live(e) == order[e] \in {"sent", "executed", "closed"}

\* The broker executes or refuses an order it was sent.  A refusal is final.
BrokerDecides(e) ==
  /\ order[e] = "sent"
  /\ \E o \in {"executed", "refused"} : order' = [order EXCEPT ![e] = o]
  /\ UNCHANGED <<leaseVars, fence, gate, entry, op, flow, call, late, faults>>

\* A stop, a take-profit, a SELL or the operator closes the position.
BrokerCloses(e) ==
  /\ order[e] = "executed"
  /\ order' = [order EXCEPT ![e] = "closed"]
  /\ UNCHANGED <<leaseVars, fence, gate, entry, op, flow, call, late, faults>>

\* A process adopts a new token only between trade operations: the same thread
\* runs them and recover_role_lease(); in between, renewals keep the token.
LeaseStep ==
  /\ \/ \E p \in Proc : /\ token < MaxToken
                        /\ Grant(p)
                        /\ UNCHANGED fence
     \/ \E p \in Proc : /\ flow[p].step = "idle" \/ (~At(p, "dead") /\ fence[p] = token)
                        /\ Adopt(p)
                        /\ fence' = [fence EXCEPT ![p] = token]
     \/ \E p \in Proc : Drop({p}) /\ UNCHANGED fence
     \/ Lapse /\ UNCHANGED fence
  /\ UNCHANGED <<gate, entry, op, order, flow, call, late, faults>>

Trade(p) ==
  \/ Ask(p) \/ Blocked(p) \/ Answer(p) \/ CheckPosition(p) \/ SendOrder(p)
  \/ OrderAccepted(p) \/ OrderRefused(p)

Next ==
  \/ \E p \in Proc : Trade(p) \/ CheckExecutor(p) \/ CallFails(p) \/ BrokerFails(p)
                    \/ Crash(p)
  \/ \E p \in Proc, e \in Exec, w \in Week, k \in Kind : Begin(p, e, w, k)
  \/ \E r \in late : HandleLate(r) \/ CheckLate(r)
  \/ \E e \in Exec : BrokerDecides(e) \/ BrokerCloses(e)
  \/ GateExpires
  \/ LeaseStep

Spec == Init /\ [][Next]_vars

\* A process goes on with the operation it has begun.
FairSpec == Spec /\ \A p \in Proc : WF_vars(Trade(p))

-------------------------------------------------------------------------------

TypeOK ==
  /\ LeaseTypeOK
  /\ fence \in [Proc -> Nat]
  /\ gate \in Gate
  /\ entry \in [Week -> Entry]
  /\ op \in [Exec -> Op \cup {None}]
  /\ order \in [Exec -> OrderState]
  /\ flow \in [Proc -> Flow]
  /\ call \in [Proc -> Request \cup {None}]
  /\ late \subseteq Request
  /\ faults \in 0..MaxFaults

Buy(e) == op[e] # None /\ op[e].kind = "BUY"

\* At most one BUY of a week reaches the broker and is not refused, whatever
\* lease was lost, call was late or process died (README.md, weekly-entry claims
\* "remain the final authority preventing duplicate work or trading").
OneOrderPerWeek ==
  \A e, f \in Exec :
    Buy(e) /\ Buy(f) /\ Live(e) /\ Live(f) /\ op[e].week = op[f].week => e = f

\* Every BUY at the broker is on record: its week names its execution and is
\* closed to every other one, even if the process died before it could tell.
EveryOrderIsRecorded ==
  \A e \in Exec : Buy(e) /\ Live(e) =>
    /\ entry[op[e].week].exec = e
    /\ entry[op[e].week].status \in {"CLAIMED", "ACCEPTED", "UNKNOWN"}

\* What the entry says of its execution is true: order_send was called for an
\* accepted or unknown one, a rejected one is not and never will be at the broker.
ResultsAreTrue ==
  \A w \in Week :
    /\ entry[w].status \in {"ACCEPTED", "UNKNOWN"} => order[entry[w].exec] # "none"
    /\ entry[w].status = "REJECTED" => ~Live(entry[w].exec)

\* Two trade operations never hold the same gate token.
GateTokenIsExclusive ==
  \A p, q \in Proc : p # q /\ flow[p].gate = flow[q].gate => flow[p].gate = 0

\* An operation relies on its gate from the answer that grants it until
\* order_send() has returned.
RelyingOnGate == {"prevalidate", "claim", "position", "validate", "send", "sending"}

HoldsGate(p) ==
  /\ flow[p].step \in RelyingOnGate
  /\ gate.active /\ gate.owner = p
  /\ gate.token = flow[p].gate /\ gate.exec = flow[p].exec

\* An operation that relies on its gate loses it to time and to nothing else: no
\* release that was checked before the lease changed hands, or that arrives when
\* its own operation is long over, ends the gate of another operation, and no
\* acquisition takes it away.
HolderKeepsGate ==
  [][\A p \in Proc : HoldsGate(p) /\ gate' # gate => GateExpires]_vars

\* "Fencing tokens protect actions after takeover" (docs/CURRENT_ARCHITECTURE.md:82):
\* no process sends an order once another one has taken the lease over.
OrderSentUnderFence ==
  [][\A p \in Proc : SendOrder(p) => (active => owner = p)]_vars

\* ACCEPTED and UNKNOWN are final, and a claimed week passes to another
\* execution only after its own execution has rejected it.
EntryIsFinal ==
  [][\A w \in Week :
       /\ entry[w].status \in {"ACCEPTED", "UNKNOWN"} => entry'[w] = entry[w]
       /\ entry[w].status = "CLAIMED" => entry'[w].exec = entry[w].exec]_vars

\* The execution that holds a week: none while the entry is missing or rejected.
HolderOf(w) == IF entry[w].status \in {"NONE", "REJECTED"} THEN None ELSE entry[w].exec

\* The BUYs of a week whose order is in one of these states at the broker.
Buys(w, states) == {e \in Exec : Buy(e) /\ op[e].week = w /\ order[e] \in states}

Entries == INSTANCE WeeklyEntry WITH
  holder  <- [w \in Week |-> HolderOf(w)],
  settled <- {w \in Week : entry[w].status \in {"ACCEPTED", "UNKNOWN"}},
  live    <- [w \in Week |-> Buys(w, {"sent", "executed", "closed"})],
  refused <- [w \in Week |-> Buys(w, {"refused"})]

\* The trade operations, coordination calls and handlers together implement the
\* weekly entry: whatever is lost, late, expired or crashed, only the holder of
\* a week places its BUY, and a week passes on only when no BUY of it is left.
ImplementsWeeklyEntry == Entries!Spec

\* Without faults, a claim is resolved as long as the lease it was made under
\* goes on: the week does not stay CLAIMED for ever.
ClaimIsResolved ==
  \A w \in Week, e \in Exec :
    entry[w].status = "CLAIMED" /\ entry[w].exec = e
      ~> \/ entry[w].status # "CLAIMED"
         \/ ~(active /\ token = entry[w].fence)
         \/ faults < MaxFaults
===============================================================================
