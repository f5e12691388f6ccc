-------------------------- MODULE TradeExecutionProofs --------------------------
(***************************************************************************)
(* Theorems about TradeExecution, for every number of processes,           *)
(* executions, weeks, faults and changes of lease owner.                   *)
(*                                                                         *)
(* OneOrderPerWeek rests on EntryInv: a BUY that may be at the broker is   *)
(* the execution its week's entry names.  That is inductive only together  *)
(* with what a process knows between its claim and its order (FlowInv),    *)
(* and with what requests in flight or left in the network may still do    *)
(* to the entry (CallInv, LateInv).                                        *)
(***************************************************************************)
EXTENDS TradeExecution, TLAPS

Final == {"ACCEPTED", "REJECTED", "UNKNOWN"}

\* Steps before order_send, and steps that rely on the claim of the week.
BeforeSend == {"acquire", "prevalidate", "claim", "position", "validate", "send"}
OnClaim == {"position", "validate", "send", "sending"}

\* No process will send an order for e any more.
Retired(e) ==
  \A p \in Proc : flow[p].exec = e => flow[p].step \in {"release", "complete"}

\* A completion of e with this status tells the truth, now and later.
Truthful(e, status) ==
  /\ status \in {"ACCEPTED", "UNKNOWN"} => order[e] # "none"
  /\ status = "REJECTED" => ~Live(e) /\ Retired(e)

\* A process works on an execution of its own; until it sends, the order does not
\* exist; a BUY sends only on a claim that still stands; what it will complete
\* the week with is true.
FlowOK(p) ==
  /\ flow[p].step \in {"idle", "dead"} => flow[p].exec = None
  /\ flow[p].step \notin {"idle", "dead"} =>
       /\ flow[p].exec \in Exec
       /\ op[flow[p].exec] # None
       /\ op[flow[p].exec].proc = p
       /\ flow[p].claimed => op[flow[p].exec].kind = "BUY"
  /\ flow[p].step \in BeforeSend => order[flow[p].exec] = "none"
  /\ flow[p].step = "sending" => order[flow[p].exec] # "none"
  /\ flow[p].step \in {"acquire", "prevalidate", "claim"} => ~flow[p].claimed
  /\ flow[p].step \in {"prevalidate", "claim"} => op[flow[p].exec].kind = "BUY"
  /\ flow[p].step \in OnClaim /\ op[flow[p].exec].kind = "BUY" => flow[p].claimed
  /\ flow[p].step \in OnClaim /\ flow[p].claimed =>
       /\ entry[op[flow[p].exec].week].exec = flow[p].exec
       /\ entry[op[flow[p].exec].week].status = "CLAIMED"
  /\ flow[p].step = "complete" \/ (flow[p].step = "release" /\ flow[p].then = "complete") =>
       /\ flow[p].claimed
       /\ flow[p].status \in Final
       /\ Truthful(flow[p].exec, flow[p].status)

FlowInv == \A p \in Proc : FlowOK(p)

\* A request asks, for a process and its execution, what its present step asks.
Sends(r, p) ==
  /\ r.op = CallOf(flow[p].step)
  /\ r.owner = p
  /\ r.exec = flow[p].exec
  /\ r.week = op[flow[p].exec].week
  /\ r.status = flow[p].status

\* A process waits for the answer to the request of its present step.
CallInv ==
  \A p \in Proc : call[p] # None =>
    /\ flow[p].step \in Asking
    /\ Sends(call[p], p)

\* What a request may still do to the entry of its execution: only a BUY claims and
\* completes its week, and a release or completion comes from an execution that will
\* not send; a completion tells the truth.
Harmless(r) ==
  /\ op[r.exec] # None
  /\ r.week = op[r.exec].week
  /\ r.op \in {"claim", "complete"} => op[r.exec].kind = "BUY"
  /\ r.op \in {"release", "complete"} => Retired(r.exec)
  /\ r.op = "complete" =>
       /\ r.status \in Final
       /\ Truthful(r.exec, r.status)

LateInv == \A r \in late : Harmless(r)

\* The entry of a week names the BUY that may be at the broker, and is true.
EntryInv ==
  /\ EveryOrderIsRecorded
  /\ \A w \in Week : entry[w].status # "NONE" =>
       /\ entry[w].exec \in Exec
       /\ op[entry[w].exec] # None
       /\ Truthful(entry[w].exec, entry[w].status)

\* An execution nobody has begun has no order.
FreshInv == \A e \in Exec : op[e] = None => order[e] = "none"

IInv == TypeOK /\ FlowInv /\ CallInv /\ LateInv /\ EntryInv /\ FreshInv

-------------------------------------------------------------------------------
(* Type correctness of one step.                                             *)

LEMMA RequestType ==
  ASSUME TypeOK, FlowInv, NEW p \in Proc, flow[p].step \in Asking
  PROVE  RequestOf(p) \in Request
<1>1. flow[p].exec \in Exec /\ op[flow[p].exec] # None
  BY DEF FlowInv, FlowOK, Asking
<1>2. op[flow[p].exec].week \in Week
  BY <1>1 DEF TypeOK, Op
<1>3. /\ fence[p] \in Nat
      /\ flow[p].gate \in Nat
      /\ flow[p].status \in Status
  BY DEF TypeOK, Flow
<1>4. CallOf(flow[p].step) \in {"acquire", "validate", "claim", "release", "complete"}
  BY DEF CallOf, Asking
<1>5. \A c \in BOOLEAN :
        [op |-> CallOf(flow[p].step), owner |-> p, fence |-> fence[p],
         exec |-> flow[p].exec, week |-> op[flow[p].exec].week, gate |-> flow[p].gate,
         status |-> flow[p].status, checked |-> c] \in Request
  BY <1>1, <1>2, <1>3, <1>4 DEF Request
<1>6. QED
  BY <1>5, Zenon DEF RequestOf

\* Whatever a request asks for, both tables stay well typed.
LEMMA HandleType ==
  ASSUME TypeOK, NEW r \in Request, Handle(r)
  PROVE  gate' \in Gate /\ entry' \in [Week -> Entry]
<1>1. GateFor(r) \in Gate
  BY DEF GateFor, TypeOK, Gate, Request
<1>2. gate' \in Gate
  BY <1>1 DEF Handle, GateAfter, TypeOK, Gate
<1>3. [status |-> "CLAIMED", exec |-> r.exec, fence |-> r.fence, gate |-> r.gate] \in Entry
  BY DEF Entry, Request, Status
<1>4. r.week \in Week /\ r.status \in Status
  BY DEF Request
<1>5. entry' \in [Week -> Entry]
  BY <1>3, <1>4 DEF Handle, EntryAfter, TypeOK, Entry
<1>6. QED
  BY <1>2, <1>5

LEMMA LostType ==
  ASSUME TypeOK, NEW r \in Request, Lost(r)
  PROVE  gate' \in Gate /\ entry' \in [Week -> Entry] /\ late' \subseteq Request
BY HandleType DEF TypeOK, Lost

LEMMA IdleType == IdleFlow \in Flow
<1>1. \A c \in BOOLEAN :
        [step |-> "idle", exec |-> None, gate |-> 0, claimed |-> c,
         status |-> "NONE", then |-> "idle"] \in Flow
  BY DEF Flow, Step, Status
<1>2. QED
  BY <1>1, Zenon DEF IdleFlow

\* The moves of a trade operation.
LEMMA MoveType ==
  ASSUME TypeOK, NEW p \in Proc
  PROVE  /\ IdleFlow \in Flow
         /\ Raised(flow[p]) \in Flow
         /\ Cleaned(flow[p]) \in Flow
         /\ \A s \in Step : [flow[p] EXCEPT !.step = s] \in Flow
         /\ \A s \in Status : Returned(flow[p], s) \in Flow
<1>1. flow[p] \in Flow
  BY DEF TypeOK
<1>2. IdleFlow \in Flow
  BY IdleType
<1>3. Raised(flow[p]) \in Flow
  <2>1. \A s \in {"UNKNOWN", "REJECTED"} :
          [flow[p] EXCEPT !.step = "complete", !.then = "release", !.status = s] \in Flow
    BY <1>1 DEF Flow, Step, Status
  <2>2. [flow[p] EXCEPT !.step = "release", !.then = "idle"] \in Flow
    BY <1>1 DEF Flow, Step
  <2>3. (IF flow[p].step = "sending" THEN "UNKNOWN" ELSE "REJECTED") \in {"UNKNOWN", "REJECTED"}
    OBVIOUS
  <2>4. QED
    BY <1>2, <2>1, <2>2, <2>3, Zenon DEF Raised
<1>4. Cleaned(flow[p]) \in Flow
  BY <1>1, <1>2 DEF Cleaned, Flow, Step
<1>5. \A s \in Step : [flow[p] EXCEPT !.step = s] \in Flow
  BY <1>1 DEF Flow
<1>6. \A s \in Status : Returned(flow[p], s) \in Flow
  BY <1>1 DEF Returned, Flow, Step
<1>7. QED
  BY <1>2, <1>3, <1>4, <1>5, <1>6

LEMMA AdvancedType ==
  ASSUME TypeOK, NEW p \in Proc, NEW r \in Request,
         flow[p].step \in {"acquire", "prevalidate", "claim", "validate"}
  PROVE  Advanced(flow[p], r) \in Flow
<1>1. flow[p] \in Flow
  BY DEF TypeOK
<1>2. GateFor(r).token \in Nat
  BY DEF GateFor, TypeOK, Gate
<1>3. CASE flow[p].step = "acquire"
  BY <1>1, <1>2, <1>3 DEF Advanced, Flow, Step
<1>4. CASE flow[p].step = "prevalidate"
  BY <1>1, <1>4 DEF Advanced, Flow, Step
<1>5. CASE flow[p].step = "claim"
  BY <1>1, <1>5 DEF Advanced, Flow, Step
<1>6. CASE flow[p].step = "validate"
  BY <1>1, <1>6 DEF Advanced, Flow, Step
<1>7. QED
  BY <1>3, <1>4, <1>5, <1>6

LEMMA GotoType ==
  ASSUME TypeOK, NEW p \in Proc, NEW f \in Flow, Goto(p, f)
  PROVE  flow' \in [Proc -> Flow]
BY DEF TypeOK, Goto

\* The lease part is LeaseAuthority's.
LEMMA LeaseStepType ==
  ASSUME LeaseTypeOK,
         \/ \E p \in Proc : Grant(p) \/ Adopt(p)
         \/ \E D \in SUBSET Proc : Drop(D)
         \/ Lapse
         \/ UNCHANGED leaseVars
  PROVE  LeaseTypeOK'
<1> USE DEF LeaseTypeOK
<1>1. ASSUME NEW p \in Proc, Grant(p) PROVE LeaseTypeOK'
  BY <1>1 DEF Grant
<1>2. ASSUME NEW p \in Proc, Adopt(p) PROVE LeaseTypeOK'
  BY <1>2 DEF Adopt
<1>3. ASSUME NEW D \in SUBSET Proc, Drop(D) PROVE LeaseTypeOK'
  BY <1>3 DEF Drop
<1>4. CASE Lapse
  BY <1>4 DEF Lapse
<1>5. CASE UNCHANGED leaseVars
  BY <1>5 DEF leaseVars
<1>6. QED
  BY <1>1, <1>2, <1>3, <1>4, <1>5

\* A call is only pending at a step that asks.
LEMMA CallFacts ==
  ASSUME TypeOK, FlowInv, CallInv, NEW p \in Proc, call[p] # None
  PROVE  /\ call[p] \in Request
         /\ flow[p].step \in Asking
         /\ Sends(call[p], p)
BY DEF CallInv, TypeOK

\* The flow after a call that was answered.
LEMMA AnswerType ==
  ASSUME TypeOK, FlowInv, CallInv, NEW p \in Proc, call[p] # None, Answer(p)
  PROVE  flow' \in [Proc -> Flow]
<1>1. call[p] \in Request /\ flow[p].step \in Asking
  BY CallFacts
<1>2. Cleaned(flow[p]) \in Flow /\ Raised(flow[p]) \in Flow
  BY MoveType
<1>3. flow[p].step \notin {"release", "complete"} => Advanced(flow[p], call[p]) \in Flow
  BY <1>1, AdvancedType DEF Asking
<1>4. (IF flow[p].step \in {"release", "complete"} THEN Cleaned(flow[p])
       ELSE IF Granted(call[p]) THEN Advanced(flow[p], call[p])
       ELSE Raised(flow[p])) \in Flow
  BY <1>2, <1>3, Zenon
<1>5. QED
  BY <1>4, GotoType DEF Answer

LEMMA TypeStep ==
  ASSUME TypeOK, FlowInv, CallInv, [Next]_vars
  PROVE  TypeOK'
<1>1. LeaseTypeOK
  BY DEF TypeOK
<1>2. UNCHANGED leaseVars => LeaseTypeOK'
  BY <1>1, LeaseStepType
<1>3. ASSUME NEW p \in Proc, Ask(p) PROVE TypeOK'
  <2>1. RequestOf(p) \in Request
    BY <1>3, RequestType DEF Ask
  <2>2. QED
    BY <1>2, <1>3, <2>1 DEF Ask, TypeOK
<1>4. ASSUME NEW p \in Proc, Blocked(p) PROVE TypeOK'
  BY <1>2, <1>4, MoveType, GotoType DEF Blocked, TypeOK
<1>5. ASSUME NEW p \in Proc, Answer(p) PROVE TypeOK'
  <2>1. call[p] # None /\ call[p] \in Request
    BY <1>5, CallFacts DEF Answer
  <2>2. gate' \in Gate /\ entry' \in [Week -> Entry]
    BY <1>5, <2>1, HandleType DEF Answer
  <2>3. flow' \in [Proc -> Flow]
    BY <1>5, <2>1, AnswerType
  <2>4. call' \in [Proc -> Request \cup {None}]
    BY <1>5 DEF Answer, TypeOK
  <2>5. QED
    BY <1>2, <1>5, <2>2, <2>3, <2>4 DEF Answer, TypeOK
<1>6. ASSUME NEW p \in Proc, CheckPosition(p) PROVE TypeOK'
  <2>1. "validate" \in Step
    BY DEF Step
  <2>2. (IF PositionOpen THEN Raised(flow[p]) ELSE [flow[p] EXCEPT !.step = "validate"]) \in Flow
    BY <2>1, MoveType, Zenon
  <2>3. QED
    BY <1>2, <1>6, <2>2, GotoType DEF CheckPosition, TypeOK
<1>7. ASSUME NEW p \in Proc, SendOrder(p) PROVE TypeOK'
  <2>1. "sending" \in Step
    BY DEF Step
  <2>2. flow' \in [Proc -> Flow]
    BY <1>7, <2>1, MoveType, GotoType DEF SendOrder
  <2>3. QED
    BY <1>2, <1>7, <2>2 DEF SendOrder, TypeOK, OrderState
<1>8. ASSUME NEW p \in Proc, OrderAccepted(p) \/ OrderRefused(p) PROVE TypeOK'
  <2>1. "ACCEPTED" \in Status /\ "REJECTED" \in Status
    BY DEF Status
  <2>2. flow' \in [Proc -> Flow]
    BY <1>8, <2>1, MoveType, GotoType DEF OrderAccepted, OrderRefused
  <2>3. QED
    BY <1>2, <1>8, <2>2 DEF OrderAccepted, OrderRefused, TypeOK
<1>9. ASSUME NEW p \in Proc, CallFails(p) PROVE TypeOK'
  <2>1. call[p] # None /\ call[p] \in Request
    BY <1>9, CallFacts DEF CallFails
  <2>2. gate' \in Gate /\ entry' \in [Week -> Entry] /\ late' \subseteq Request
    BY <1>9, <2>1, LostType DEF CallFails
  <2>3. (IF flow[p].step \in {"release", "complete"} THEN Cleaned(flow[p])
         ELSE Raised(flow[p])) \in Flow
    BY MoveType, Zenon
  <2>4. flow' \in [Proc -> Flow]
    BY <1>9, <2>3, GotoType DEF CallFails
  <2>5. call' \in [Proc -> Request \cup {None}]
    BY <1>9 DEF CallFails, TypeOK
  <2>6. faults' \in 0..MaxFaults
    BY <1>9, TradeAssumption DEF CallFails, Fault, TypeOK
  <2>7. QED
    BY <1>2, <1>9, <2>2, <2>4, <2>5, <2>6 DEF CallFails, TypeOK
<1>10. ASSUME NEW p \in Proc, BrokerFails(p) PROVE TypeOK'
  <2>1. "UNKNOWN" \in Status
    BY DEF Status
  <2>2. flow' \in [Proc -> Flow]
    BY <1>10, <2>1, MoveType, GotoType DEF BrokerFails
  <2>3. faults' \in 0..MaxFaults
    BY <1>10, TradeAssumption DEF BrokerFails, Fault, TypeOK
  <2>4. QED
    BY <1>2, <1>10, <2>2, <2>3 DEF BrokerFails, TypeOK
<1>11. ASSUME NEW p \in Proc, Crash(p) PROVE TypeOK'
  <2>1. gate' \in Gate /\ entry' \in [Week -> Entry] /\ late' \subseteq Request
    <3>1. CASE call[p] = None
      BY <1>11, <3>1 DEF Crash, TypeOK
    <3>2. CASE call[p] # None
      BY <1>11, <3>2, CallFacts, LostType DEF Crash
    <3>3. QED
      BY <3>1, <3>2
  <2>2. [IdleFlow EXCEPT !.step = "dead"] \in Flow
    <3>1. IdleFlow \in Flow
      BY MoveType
    <3>2. QED
      BY <3>1 DEF Flow, Step
  <2>3. flow' \in [Proc -> Flow]
    BY <1>11, <2>2, GotoType DEF Crash
  <2>4. call' \in [Proc -> Request \cup {None}]
    BY <1>11 DEF Crash, TypeOK
  <2>5. faults' \in 0..MaxFaults
    BY <1>11, TradeAssumption DEF Crash, Fault, TypeOK
  <2>6. LeaseTypeOK'
    BY <1>1, <1>11, LeaseStepType DEF Crash
  <2>7. QED
    BY <1>11, <2>1, <2>3, <2>4, <2>5, <2>6 DEF Crash, TypeOK
<1>12. ASSUME NEW p \in Proc, NEW e \in Exec, NEW w \in Week, NEW k \in Kind,
              Begin(p, e, w, k)
       PROVE  TypeOK'
  <2>1. [IdleFlow EXCEPT !.step = "acquire", !.exec = e] \in Flow
    <3>1. IdleFlow \in Flow
      BY MoveType
    <3>2. QED
      BY <3>1 DEF Flow, Step
  <2>2. flow' \in [Proc -> Flow]
    BY <1>12, <2>1, GotoType DEF Begin
  <2>3. op' \in [Exec -> Op \cup {None}]
    <3>1. [kind |-> k, week |-> w, proc |-> p] \in Op
      BY DEF Op
    <3>2. QED
      BY <1>12, <3>1 DEF Begin, TypeOK
  <2>4. QED
    BY <1>2, <1>12, <2>2, <2>3 DEF Begin, TypeOK
<1>13. ASSUME NEW p \in Proc, CheckExecutor(p) PROVE TypeOK'
  <2>1. call[p] \in Request
    BY <1>13, CallFacts DEF CheckExecutor
  <2>2. [call[p] EXCEPT !.checked = TRUE] \in Request
    BY <2>1 DEF Request
  <2>3. QED
    BY <1>2, <1>13, <2>2 DEF CheckExecutor, TypeOK
<1>14. ASSUME NEW r \in late, CheckLate(r) PROVE TypeOK'
  <2>1. [r EXCEPT !.checked = TRUE] \in Request
    BY <1>14 DEF CheckLate, TypeOK, Request
  <2>2. QED
    BY <1>2, <1>14, <2>1 DEF CheckLate, TypeOK
<1>15. ASSUME NEW r \in late, HandleLate(r) PROVE TypeOK'
  <2>1. gate' \in Gate /\ entry' \in [Week -> Entry]
    BY <1>15, HandleType DEF HandleLate, TypeOK
  <2>2. QED
    BY <1>2, <1>15, <2>1 DEF HandleLate, TypeOK
<1>16. ASSUME NEW e \in Exec, BrokerDecides(e) \/ BrokerCloses(e) PROVE TypeOK'
  <2>1. order' \in [Exec -> OrderState]
    BY <1>16 DEF BrokerDecides, BrokerCloses, TypeOK, OrderState
  <2>2. QED
    BY <1>2, <1>16, <2>1 DEF BrokerDecides, BrokerCloses, TypeOK
<1>17. CASE GateExpires
  BY <1>2, <1>17 DEF GateExpires, TypeOK, Gate
<1>18. CASE LeaseStep
  <2>1. LeaseTypeOK'
    BY <1>1, <1>18, LeaseStepType DEF LeaseStep
  <2>2. fence' \in [Proc -> Nat]
    BY <1>18 DEF LeaseStep, TypeOK, LeaseTypeOK
  <2>3. QED
    BY <1>18, <2>1, <2>2 DEF LeaseStep, TypeOK
<1>19. CASE UNCHANGED vars
  BY <1>2, <1>19 DEF vars, tradeVars, TypeOK
<1>20. QED
  BY <1>3, <1>4, <1>5, <1>6, <1>7, <1>8, <1>9, <1>10, <1>11, <1>12, <1>15, <1>16,
     <1>17, <1>18, <1>19, <1>13, <1>14 DEF Next, Trade

-------------------------------------------------------------------------------
(* What a step does to the operations, one process at a time.                *)

Cleanup == {"release", "complete"}

\* Where an exception, a cleanup call and a return of order_send lead.
LEMMA MoveFacts ==
  ASSUME NEW f \in Flow
  PROVE  /\ IdleFlow.step = "idle" /\ IdleFlow.exec = None
         /\ Raised(f) = IdleFlow \/ (Raised(f).exec = f.exec /\ Raised(f).step \in Cleanup)
         /\ Cleaned(f) = IdleFlow \/ (Cleaned(f).exec = f.exec /\ Cleaned(f).step \in Cleanup)
         /\ \A s \in Status :
              Returned(f, s).exec = f.exec /\ Returned(f, s).step \in Cleanup
<1>1. IdleFlow.step = "idle" /\ IdleFlow.exec = None
  BY DEF IdleFlow
<1>2. Raised(f) = IdleFlow \/ (Raised(f).exec = f.exec /\ Raised(f).step \in Cleanup)
  BY DEF Raised, Flow, Cleanup
<1>3. Cleaned(f) = IdleFlow \/ (Cleaned(f).exec = f.exec /\ Cleaned(f).step \in Cleanup)
  BY DEF Cleaned, Flow, Cleanup
<1>4. \A s \in Status : Returned(f, s).exec = f.exec /\ Returned(f, s).step \in Cleanup
  BY DEF Returned, Flow, Cleanup
<1>5. QED
  BY <1>1, <1>2, <1>3, <1>4

\* The step of a process that is not starting an operation keeps its execution
\* or drops it, and never leaves the cleanup for an earlier step.
Onward(f, g) ==
  \/ g = f
  \/ g.exec = None
  \/ g.exec = f.exec /\ (f.step \in Cleanup => g.step \in Cleanup)

LEMMA AdvancedOnward ==
  ASSUME NEW f \in Flow, NEW r, f.step \in {"acquire", "prevalidate", "claim", "validate"}
  PROVE  Onward(f, Advanced(f, r))
<1>1. Advanced(f, r).exec = f.exec
  BY DEF Advanced, Flow
<1>2. QED
  BY <1>1 DEF Onward, Cleanup

LEMMA FlowMoves ==
  ASSUME TypeOK, FlowInv, CallInv, [Next]_vars, NEW q \in Proc
  PROVE  \/ Onward(flow[q], flow'[q])
         \/ flow'[q].exec \in Exec /\ op[flow'[q].exec] = None
<1>1. \A p \in Proc : flow[p] \in Flow
  BY DEF TypeOK
<1>2. ASSUME UNCHANGED flow PROVE Onward(flow[q], flow'[q])
  BY <1>2 DEF Onward
<1>3. ASSUME NEW p \in Proc, NEW f, Goto(p, f), Onward(flow[p], f)
      PROVE  Onward(flow[q], flow'[q])
  BY <1>3 DEF Goto, Onward, TypeOK
<1>4. ASSUME NEW p \in Proc PROVE Onward(flow[p], Raised(flow[p]))
  BY <1>1, MoveFacts DEF Onward
<1>5. ASSUME NEW p \in Proc PROVE Onward(flow[p], Cleaned(flow[p]))
  BY <1>1, MoveFacts DEF Onward
<1>6. ASSUME NEW p \in Proc, NEW s \in Status PROVE Onward(flow[p], Returned(flow[p], s))
  BY <1>1, MoveFacts DEF Onward
<1>7. ASSUME NEW p \in Proc, Blocked(p) PROVE Onward(flow[q], flow'[q])
  BY <1>3, <1>4, <1>7 DEF Blocked
<1>8. ASSUME NEW p \in Proc, Answer(p) PROVE Onward(flow[q], flow'[q])
  <2>1. flow[p].step \in Asking
    BY <1>8, CallFacts DEF Answer
  <2>2. CASE flow[p].step \in {"release", "complete"}
    BY <1>3, <1>5, <1>8, <2>2 DEF Answer
  <2>3. CASE flow[p].step \notin {"release", "complete"} /\ Granted(call[p])
    <3>1. Onward(flow[p], Advanced(flow[p], call[p]))
      BY <1>1, <2>1, <2>3, AdvancedOnward DEF Asking
    <3>2. Goto(p, Advanced(flow[p], call[p]))
      BY <1>8, <2>3 DEF Answer
    <3>3. QED
      BY <1>3, <3>1, <3>2
  <2>4. CASE flow[p].step \notin {"release", "complete"} /\ ~Granted(call[p])
    BY <1>3, <1>4, <1>8, <2>4 DEF Answer
  <2>5. QED
    BY <2>2, <2>3, <2>4
<1>9. ASSUME NEW p \in Proc, CheckPosition(p) PROVE Onward(flow[q], flow'[q])
  <2>1. Onward(flow[p], [flow[p] EXCEPT !.step = "validate"])
    BY <1>1, <1>9 DEF CheckPosition, At, Onward, Cleanup, Flow
  <2>2. QED
    BY <1>3, <1>4, <1>9, <2>1 DEF CheckPosition
<1>10. ASSUME NEW p \in Proc, SendOrder(p) PROVE Onward(flow[q], flow'[q])
  <2>1. Onward(flow[p], [flow[p] EXCEPT !.step = "sending"])
    BY <1>1, <1>10 DEF SendOrder, At, Onward, Cleanup, Flow
  <2>2. QED
    BY <1>3, <1>10, <2>1 DEF SendOrder
<1>11. ASSUME NEW p \in Proc, OrderAccepted(p) \/ OrderRefused(p)
       PROVE  Onward(flow[q], flow'[q])
  BY <1>3, <1>6, <1>11 DEF OrderAccepted, OrderRefused, Status
<1>12. ASSUME NEW p \in Proc, CallFails(p) PROVE Onward(flow[q], flow'[q])
  BY <1>3, <1>4, <1>5, <1>12 DEF CallFails
<1>13. ASSUME NEW p \in Proc, BrokerFails(p) PROVE Onward(flow[q], flow'[q])
  BY <1>3, <1>4, <1>6, <1>13 DEF BrokerFails, Status
<1>14. ASSUME NEW p \in Proc, Crash(p) PROVE Onward(flow[q], flow'[q])
  <2>1. Onward(flow[p], [IdleFlow EXCEPT !.step = "dead"])
    BY DEF Onward, IdleFlow
  <2>2. QED
    BY <1>3, <1>14, <2>1 DEF Crash
<1>15. ASSUME NEW p \in Proc, NEW e \in Exec, NEW w \in Week, NEW k \in Kind,
              Begin(p, e, w, k)
       PROVE  \/ Onward(flow[q], flow'[q])
              \/ flow'[q].exec \in Exec /\ op[flow'[q].exec] = None
  <2>1. CASE q = p
    <3>1. flow'[q].exec = e
      BY <1>15, <2>1 DEF Begin, Goto, TypeOK, IdleFlow
    <3>2. QED
      BY <1>15, <3>1 DEF Begin
  <2>2. CASE q # p
    BY <1>15, <2>2 DEF Begin, Goto, TypeOK, Onward
  <2>3. QED
    BY <2>1, <2>2
<1>16. CASE \/ \E p \in Proc : Ask(p) \/ CheckExecutor(p)
            \/ \E r \in late : HandleLate(r) \/ CheckLate(r)
            \/ \E e \in Exec : BrokerDecides(e) \/ BrokerCloses(e)
            \/ GateExpires
            \/ LeaseStep
            \/ UNCHANGED vars
  <2>1. UNCHANGED flow
    BY <1>16 DEF Ask, CheckExecutor, CheckLate, HandleLate, BrokerDecides, BrokerCloses,
                 GateExpires, LeaseStep, vars, tradeVars
  <2>2. QED
    BY <1>2, <2>1
<1>17. QED
  BY <1>7, <1>8, <1>9, <1>10, <1>11, <1>12, <1>13, <1>14, <1>15, <1>16 DEF Next, Trade

-------------------------------------------------------------------------------
(* What a step does to op, order and the facts about one execution.          *)

\* An execution id belongs to the process that created it.
LEMMA OneProcess ==
  ASSUME FlowInv, NEW p \in Proc, NEW q \in Proc,
         flow[p].exec = flow[q].exec, flow[p].exec \in Exec
  PROVE  p = q
<1>1. None \notin Exec
  BY TradeAssumption
<1>2. op[flow[p].exec].proc = p /\ op[flow[q].exec].proc = q
  BY <1>1 DEF FlowInv, FlowOK
<1>3. QED
  BY <1>2

LEMMA OpStep ==
  ASSUME TypeOK, [Next]_vars, NEW e \in Exec, op[e] # None
  PROVE  op'[e] = op[e]
<1>1. ASSUME NEW p \in Proc, NEW d \in Exec, NEW w \in Week, NEW k \in Kind,
             Begin(p, d, w, k)
      PROVE  op'[e] = op[e]
  BY <1>1 DEF Begin, TypeOK
<1>2. CASE ~ \E p \in Proc, d \in Exec, w \in Week, k \in Kind : Begin(p, d, w, k)
  <2>1. UNCHANGED op
    BY <1>2 DEF Next, Trade, Ask, CheckExecutor, CheckLate, Blocked, Answer,
                CheckPosition, SendOrder, OrderAccepted, OrderRefused, CallFails,
                BrokerFails, Crash, HandleLate, BrokerDecides, BrokerCloses,
                GateExpires, LeaseStep, vars, tradeVars
  <2>2. QED
    BY <2>1
<1>3. QED
  BY <1>1, <1>2

\* An order is sent by the process at step "send", and the broker goes on with it.
LEMMA OrderStep ==
  ASSUME TypeOK, [Next]_vars, NEW e \in Exec
  PROVE  \/ order'[e] = order[e]
         \/ \E p \in Proc : flow[p].step = "send" /\ flow[p].exec = e /\ SendOrder(p)
         \/ order[e] = "sent" /\ order'[e] \in {"executed", "refused"} /\ BrokerDecides(e)
         \/ order[e] = "executed" /\ order'[e] = "closed"
<1>1. ASSUME NEW p \in Proc, SendOrder(p)
      PROVE  order'[e] = order[e] \/ (flow[p].step = "send" /\ flow[p].exec = e)
  BY <1>1 DEF SendOrder, At, TypeOK
<1>2. ASSUME NEW d \in Exec, BrokerDecides(d)
      PROVE  \/ order'[e] = order[e]
             \/ d = e /\ order[e] = "sent" /\ order'[e] \in {"executed", "refused"}
  BY <1>2 DEF BrokerDecides, TypeOK
<1>3. ASSUME NEW d \in Exec, BrokerCloses(d)
      PROVE  order'[e] = order[e] \/ (order[e] = "executed" /\ order'[e] = "closed")
  BY <1>3 DEF BrokerCloses, TypeOK
<1>4. CASE /\ ~ \E p \in Proc : SendOrder(p)
           /\ ~ \E d \in Exec : BrokerDecides(d) \/ BrokerCloses(d)
  <2>1. UNCHANGED order
    BY <1>4 DEF Next, Trade, Ask, CheckExecutor, CheckLate, Blocked, Answer,
                CheckPosition, OrderAccepted, Begin, OrderRefused, CallFails,
                BrokerFails, Crash, HandleLate, GateExpires, LeaseStep, vars, tradeVars
  <2>2. QED
    BY <2>1
<1>5. QED
  BY <1>1, <1>2, <1>3, <1>4

\* Once retired, for ever retired: execution ids are used once.
LEMMA RetiredStep ==
  ASSUME TypeOK, FlowInv, CallInv, [Next]_vars, NEW e \in Exec, op[e] # None, Retired(e)
  PROVE  Retired(e)'
<1>1. SUFFICES ASSUME NEW q \in Proc, flow'[q].exec = e
               PROVE  flow'[q].step \in {"release", "complete"}
  BY DEF Retired
<1>2. None \notin Exec
  BY TradeAssumption
<1>3. Onward(flow[q], flow'[q])
  BY <1>1, FlowMoves
<1>4. flow[q].exec = e
  BY <1>1, <1>2, <1>3 DEF Onward
<1>5. flow[q].step \in {"release", "complete"}
  BY <1>4 DEF Retired
<1>6. QED
  BY <1>1, <1>2, <1>3, <1>5 DEF Onward, Cleanup

\* What is true of an execution remains true.
LEMMA TruthfulStep ==
  ASSUME TypeOK, FlowInv, CallInv, [Next]_vars, NEW e \in Exec, op[e] # None,
         NEW s, Truthful(e, s)
  PROVE  Truthful(e, s)'
<1>1. CASE s \in {"ACCEPTED", "UNKNOWN"}
  <2>1. order[e] # "none"
    BY <1>1 DEF Truthful
  <2>2. order'[e] # "none"
    BY <2>1, OrderStep DEF SendOrder, TypeOK
  <2>3. QED
    BY <1>1, <2>2 DEF Truthful
<1>2. CASE s = "REJECTED"
  <2>1. ~Live(e) /\ Retired(e)
    BY <1>2 DEF Truthful
  <2>2. Retired(e)'
    BY <2>1, RetiredStep
  <2>3. ~ \E p \in Proc : flow[p].step = "send" /\ flow[p].exec = e
    BY <2>1 DEF Retired
  <2>4. order'[e] = order[e]
    BY <2>1, <2>3, OrderStep DEF Live
  <2>5. QED
    BY <1>2, <2>1, <2>2, <2>4 DEF Truthful, Live
<1>3. QED
  BY <1>1, <1>2 DEF Truthful

-------------------------------------------------------------------------------
(* What a step does to the weekly entries.                                   *)

LEMMA HarmlessStep ==
  ASSUME TypeOK, FlowInv, CallInv, [Next]_vars, NEW r \in Request, Harmless(r)
  PROVE  Harmless(r)'
<1>1. r.exec \in Exec /\ op[r.exec] # None
  BY DEF Harmless, Request
<1>2. op'[r.exec] = op[r.exec]
  BY <1>1, OpStep
<1>3. /\ r.op \in {"release", "complete"} => Retired(r.exec)'
      /\ r.op = "complete" => Truthful(r.exec, r.status)'
  BY <1>1, RetiredStep, TruthfulStep DEF Harmless
<1>4. QED
  BY <1>1, <1>2, <1>3 DEF Harmless

\* A request a process waits on is harmless: nobody else works on its execution.
LEMMA CallHarmless ==
  ASSUME TypeOK, FlowInv, CallInv, NEW p \in Proc, call[p] # None
  PROVE  call[p] \in Request /\ Harmless(call[p])
<1> DEFINE r == call[p]
<1>1. r \in Request /\ Sends(r, p) /\ flow[p].step \in Asking
  BY CallFacts
<1>2. r.exec = flow[p].exec /\ r.week = op[flow[p].exec].week /\ r.status = flow[p].status
  BY <1>1 DEF Sends
<1>3. flow[p].exec \in Exec /\ op[flow[p].exec] # None
  BY <1>1 DEF FlowInv, FlowOK, Asking
<1>4. ASSUME r.op \in {"release", "complete"}
      PROVE  /\ Retired(r.exec)
             /\ r.op = "complete" => r.status \in Final /\ Truthful(r.exec, r.status)
  <2>1. flow[p].step = r.op
    BY <1>1, <1>4 DEF Sends, CallOf, Asking
  <2>2. Retired(flow[p].exec)
    BY <1>3, <1>4, <2>1, OneProcess DEF Retired
  <2>3. QED
    BY <1>2, <2>1, <2>2 DEF FlowInv, FlowOK
<1>5. r.op \in {"claim", "complete"} => op[r.exec].kind = "BUY"
  BY <1>1, <1>2 DEF Sends, CallOf, FlowInv, FlowOK, Asking
<1>6. QED
  BY <1>1, <1>2, <1>3, <1>4, <1>5 DEF Harmless

\* The entries only change when a harmless request is processed.
LEMMA EntrySource ==
  ASSUME TypeOK, FlowInv, CallInv, LateInv, [Next]_vars
  PROVE  \/ entry' = entry
         \/ \E r \in Request : Harmless(r) /\ entry' = EntryAfter(r)
<1>1. ASSUME NEW p \in Proc, Answer(p) \/ CallFails(p)
      PROVE  \/ entry' = entry
             \/ \E r \in Request : Harmless(r) /\ entry' = EntryAfter(r)
  BY <1>1, CallHarmless DEF Answer, CallFails, Lost, Handle
<1>2. ASSUME NEW p \in Proc, Crash(p)
      PROVE  \/ entry' = entry
             \/ \E r \in Request : Harmless(r) /\ entry' = EntryAfter(r)
  BY <1>2, CallHarmless DEF Crash, Lost, Handle
<1>3. ASSUME NEW r \in late, HandleLate(r)
      PROVE  \E q \in Request : Harmless(q) /\ entry' = EntryAfter(q)
  BY <1>3 DEF HandleLate, Handle, LateInv, TypeOK
<1>4. CASE /\ ~ \E p \in Proc : Answer(p) \/ CallFails(p) \/ Crash(p)
           /\ ~ \E r \in late : HandleLate(r)
  BY <1>4 DEF Next, Trade, Ask, CheckExecutor, CheckLate, Blocked, CheckPosition,
              SendOrder, OrderAccepted, Begin, OrderRefused, BrokerFails,
              BrokerDecides, BrokerCloses, GateExpires, LeaseStep, vars, tradeVars
<1>5. QED
  BY <1>1, <1>2, <1>3, <1>4

\* A week is claimed where ClaimGranted allows it, or its claim is completed by
\* a truthful request of the execution that made it; else it keeps its entry.
Claimed(w, r) ==
  /\ r.op = "claim" /\ r.week = w
  /\ ClaimGranted(w, r)
  /\ entry'[w] = [status |-> "CLAIMED", exec |-> r.exec, fence |-> r.fence, gate |-> r.gate]

Completed(w, r) ==
  /\ r.op = "complete" /\ r.week = w
  /\ entry[w].status = "CLAIMED" /\ entry[w].exec = r.exec
  /\ entry'[w] = [entry[w] EXCEPT !.status = r.status]

LEMMA EntryCases ==
  ASSUME TypeOK, FlowInv, CallInv, LateInv, [Next]_vars, NEW w \in Week
  PROVE  \/ entry'[w] = entry[w]
         \/ \E r \in Request : Harmless(r) /\ (Claimed(w, r) \/ Completed(w, r))
<1>1. CASE entry' = entry
  BY <1>1
<1>2. ASSUME NEW r \in Request, Harmless(r), entry' = EntryAfter(r)
      PROVE  entry'[w] = entry[w] \/ Claimed(w, r) \/ Completed(w, r)
  <2>1. CASE r.op = "claim" /\ Granted(r)
    <3>1. entry' = [entry EXCEPT ![r.week] = [status |-> "CLAIMED", exec |-> r.exec,
                                               fence |-> r.fence, gate |-> r.gate]]
      BY <1>2, <2>1 DEF EntryAfter
    <3>2. ClaimGranted(r.week, r)
      BY <2>1 DEF Granted
    <3>3. QED
      BY <2>1, <3>1, <3>2 DEF Claimed, TypeOK
  <2>2. CASE /\ r.op = "complete" /\ Granted(r)
             /\ entry[r.week].exec = r.exec /\ entry[r.week].status = "CLAIMED"
    <3>1. entry' = [entry EXCEPT ![r.week].status = r.status]
      BY <1>2, <2>2 DEF EntryAfter
    <3>2. QED
      BY <2>2, <3>1 DEF Completed, TypeOK
  <2>3. CASE /\ ~(r.op = "claim" /\ Granted(r))
             /\ ~(/\ r.op = "complete" /\ Granted(r)
                  /\ entry[r.week].exec = r.exec /\ entry[r.week].status = "CLAIMED")
    BY <1>2, <2>3 DEF EntryAfter
  <2>4. QED
    BY <2>1, <2>2, <2>3
<1>3. QED
  BY <1>1, <1>2, EntrySource

\* The claim of an execution that may still send its order stands.
LEMMA ClaimStands ==
  ASSUME TypeOK, FlowInv, CallInv, LateInv, [Next]_vars, NEW w \in Week,
         entry[w].status = "CLAIMED", ~Retired(entry[w].exec)
  PROVE  entry'[w].status = "CLAIMED" /\ entry'[w].exec = entry[w].exec
<1>1. ASSUME NEW r \in Request, Claimed(w, r)
      PROVE  entry'[w].status = "CLAIMED" /\ entry'[w].exec = entry[w].exec
  BY <1>1 DEF Claimed, ClaimGranted
<1>2. ASSUME NEW r \in Request, Harmless(r), Completed(w, r)
      PROVE  FALSE
  BY <1>2 DEF Completed, Harmless
<1>3. QED
  BY <1>1, <1>2, EntryCases

-------------------------------------------------------------------------------
(* The invariants about the tables, the orders and the requests.             *)

\* An order appears for an execution its week's entry already names.
LEMMA RecordedStep ==
  ASSUME IInv, [Next]_vars
  PROVE  EveryOrderIsRecorded'
<1> USE DEF IInv
<1>1. SUFFICES ASSUME NEW e \in Exec, Buy(e)', Live(e)'
               PROVE  /\ entry'[op'[e].week].exec = e
                      /\ entry'[op'[e].week].status \in {"CLAIMED", "ACCEPTED", "UNKNOWN"}
  BY DEF EveryOrderIsRecorded
<1>2. op[e] # None
  <2>1. SUFFICES ASSUME op[e] = None PROVE FALSE
    OBVIOUS
  <2>2. order[e] = "none"
    BY <2>1 DEF FreshInv
  <2>3. \A p \in Proc : flow[p].step = "send" => flow[p].exec # e
    BY <2>1 DEF FlowInv, FlowOK
  <2>4. order'[e] = "none"
    BY <2>2, <2>3, OrderStep
  <2>5. QED
    BY <1>1, <2>4 DEF Live
<1>3. op'[e] = op[e]
  BY <1>2, OpStep
<1>4. op[e].kind = "BUY" /\ op[e].week \in Week
  BY <1>1, <1>2, <1>3 DEF Buy, TypeOK, Op
<1> DEFINE w == op[e].week
<1>5. CASE Live(e)
  <2>1. entry[w].exec = e /\ entry[w].status \in {"CLAIMED", "ACCEPTED", "UNKNOWN"}
    BY <1>2, <1>4, <1>5 DEF EntryInv, EveryOrderIsRecorded, Buy
  <2>2. ASSUME NEW r \in Request, Claimed(w, r)
        PROVE  entry'[w].exec = e /\ entry'[w].status = "CLAIMED"
    BY <2>1, <2>2 DEF Claimed, ClaimGranted
  <2>3. ASSUME NEW r \in Request, Harmless(r), Completed(w, r)
        PROVE  entry'[w].exec = e /\ entry'[w].status \in {"ACCEPTED", "UNKNOWN"}
    <3>1. r.exec = e /\ r.status \in Final /\ Truthful(e, r.status)
      BY <2>1, <2>3 DEF Completed, Harmless
    <3>2. r.status # "REJECTED"
      BY <1>5, <3>1 DEF Truthful
    <3>3. entry'[w].exec = entry[w].exec /\ entry'[w].status = r.status
      BY <1>4, <2>3 DEF Completed, TypeOK, Entry
    <3>4. QED
      BY <2>1, <3>1, <3>2, <3>3 DEF Final
  <2>4. QED
    BY <1>3, <1>4, <2>1, <2>2, <2>3, EntryCases
<1>6. CASE ~Live(e)
  <2>1. PICK p \in Proc : flow[p].step = "send" /\ flow[p].exec = e /\ SendOrder(p)
    BY <1>1, <1>6, OrderStep DEF Live
  <2>2. entry' = entry
    BY <2>1 DEF SendOrder
  <2>3. entry[w].exec = e /\ entry[w].status = "CLAIMED"
    BY <1>4, <2>1 DEF FlowInv, FlowOK, OnClaim
  <2>4. QED
    BY <1>3, <2>2, <2>3
<1>7. QED
  BY <1>5, <1>6

\* What an entry says of its execution stays true.
LEMMA EntryStep ==
  ASSUME IInv, [Next]_vars
  PROVE  EntryInv'
<1> USE DEF IInv
<1>1. SUFFICES ASSUME NEW w \in Week, entry'[w].status # "NONE"
               PROVE  /\ entry'[w].exec \in Exec
                      /\ op'[entry'[w].exec] # None
                      /\ Truthful(entry[w].exec, entry[w].status)'
  BY RecordedStep DEF EntryInv
<1>2. ASSUME NEW e \in Exec, NEW s, op[e] # None, Truthful(e, s)
      PROVE  op'[e] # None /\ Truthful(e, s)'
  BY <1>2, OpStep, TruthfulStep
<1>3. SUFFICES \E e \in Exec, s \in Status :
                 /\ entry'[w].exec = e /\ entry'[w].status = s
                 /\ op[e] # None /\ Truthful(e, s)
  BY <1>2 DEF Truthful, Live, Retired
<1>4. CASE entry'[w] = entry[w]
  <2>1. entry[w].exec \in Exec /\ entry[w].status \in Status
    BY <1>1, <1>4 DEF EntryInv, TypeOK, Entry
  <2>2. op[entry[w].exec] # None /\ Truthful(entry[w].exec, entry[w].status)
    BY <1>1, <1>4 DEF EntryInv
  <2>3. QED
    BY <1>4, <2>1, <2>2
<1>5. ASSUME NEW r \in Request, Harmless(r), Claimed(w, r)
      PROVE  /\ r.exec \in Exec /\ op[r.exec] # None
             /\ entry'[w].exec = r.exec /\ entry'[w].status = "CLAIMED"
             /\ "CLAIMED" \in Status /\ Truthful(r.exec, "CLAIMED")
  BY <1>5 DEF Harmless, Claimed, Truthful, Request, Status
<1>6. ASSUME NEW r \in Request, Harmless(r), Completed(w, r)
      PROVE  /\ r.exec \in Exec /\ op[r.exec] # None
             /\ entry'[w].exec = r.exec /\ entry'[w].status = r.status
             /\ r.status \in Status /\ Truthful(r.exec, r.status)
  BY <1>6 DEF Harmless, Completed, Request, TypeOK, Entry
<1>7. QED
  BY <1>4, <1>5, <1>6, EntryCases

LEMMA LateStep ==
  ASSUME IInv, [Next]_vars
  PROVE  LateInv'
<1> USE DEF IInv
<1>1. \A r \in late' :
        \/ r \in late
        \/ \E p \in Proc : call[p] # None /\ r = call[p]
        \/ \E q \in late : r = [q EXCEPT !.checked = TRUE]
  <2>1. ASSUME NEW p \in Proc, CallFails(p) \/ Crash(p)
        PROVE  late' \subseteq late \/ (call[p] # None /\ late' = late \cup {call[p]})
    BY <2>1 DEF CallFails, Crash, Lost
  <2>2. ASSUME NEW q \in late, CheckLate(q)
        PROVE  late' \subseteq late \cup {[q EXCEPT !.checked = TRUE]}
    BY <2>2 DEF CheckLate
  <2>3. CASE /\ ~ \E p \in Proc : CallFails(p) \/ Crash(p)
             /\ ~ \E q \in late : CheckLate(q)
    BY <2>3 DEF Next, Trade, Ask, CheckExecutor, Blocked, Answer, CheckPosition,
                SendOrder, OrderAccepted, OrderRefused, BrokerFails, Begin, HandleLate,
                BrokerDecides, BrokerCloses, GateExpires, LeaseStep, vars, tradeVars
  <2>4. QED
    BY <2>1, <2>2, <2>3
<1>2. ASSUME NEW q \in late
      PROVE  LET r == [q EXCEPT !.checked = TRUE] IN r \in Request /\ Harmless(r)
  <2> DEFINE r == [q EXCEPT !.checked = TRUE]
  <2>1. q \in Request /\ Harmless(q)
    BY DEF LateInv, TypeOK
  <2>2. /\ r \in Request
        /\ r.op = q.op /\ r.exec = q.exec /\ r.week = q.week /\ r.status = q.status
    BY <2>1 DEF Request
  <2>3. Harmless(r)
    BY <2>1, <2>2 DEF Harmless
  <2>4. QED
    BY <2>2, <2>3
<1>3. \A r \in late' : r \in Request /\ Harmless(r)
  BY <1>1, <1>2, CallHarmless DEF LateInv, TypeOK
<1>4. QED
  BY <1>3, HarmlessStep DEF LateInv

LEMMA CallStep ==
  ASSUME IInv, [Next]_vars
  PROVE  CallInv'
<1> USE DEF IInv
<1>1. SUFFICES ASSUME NEW p \in Proc, call'[p] # None
               PROVE  flow'[p].step \in Asking /\ Sends(call[p], p)'
  BY DEF CallInv
<1>2. CASE Ask(p)
  BY <1>2 DEF Ask, RequestOf, Sends, TypeOK
<1>3. CASE ~Ask(p)
  <2> DEFINE Kept == /\ flow'[p] = flow[p]
                     /\ call[p] # None
                     /\ \/ call'[p] = call[p]
                        \/ call'[p] = [call[p] EXCEPT !.checked = TRUE]
  <2>1. Kept
    <3>1. ASSUME NEW q \in Proc, Ask(q) PROVE Kept
      BY <1>1, <1>3, <3>1 DEF Ask, TypeOK
    <3>2. ASSUME NEW q \in Proc, CheckExecutor(q) PROVE Kept
      BY <1>1, <3>2 DEF CheckExecutor, TypeOK
    <3>3. ASSUME NEW q \in Proc, Answer(q) \/ CallFails(q) \/ Crash(q) PROVE Kept
      BY <1>1, <3>3 DEF Answer, CallFails, Crash, Goto, TypeOK
    <3>4. ASSUME NEW q \in Proc, UNCHANGED call, call[q] = None, NEW f, Goto(q, f)
          PROVE  Kept
      BY <1>1, <3>4 DEF Goto, TypeOK
    <3>5. ASSUME NEW q \in Proc, flow[q].step \notin Asking PROVE call[q] = None
      BY <3>5 DEF CallInv
    <3>6. ASSUME NEW q \in Proc,
                 \/ Blocked(q) \/ CheckPosition(q) \/ SendOrder(q)
                 \/ OrderAccepted(q) \/ OrderRefused(q) \/ BrokerFails(q)
          PROVE  Kept
      BY <3>4, <3>5, <3>6 DEF Blocked, CheckPosition, SendOrder, OrderAccepted,
                              OrderRefused, BrokerFails, At, Asking
    <3>7. ASSUME NEW q \in Proc, NEW e \in Exec, NEW w \in Week, NEW k \in Kind,
                 Begin(q, e, w, k)
          PROVE  Kept
      BY <3>4, <3>5, <3>7 DEF Begin, At, Asking
    <3>8. CASE UNCHANGED <<call, flow>>
      BY <1>1, <3>8
    <3>9. CASE \/ \E r \in late : HandleLate(r) \/ CheckLate(r)
               \/ \E e \in Exec : BrokerDecides(e) \/ BrokerCloses(e)
               \/ GateExpires
               \/ LeaseStep
               \/ UNCHANGED vars
      BY <3>8, <3>9 DEF HandleLate, CheckLate, BrokerDecides, BrokerCloses, GateExpires,
                        LeaseStep, vars, tradeVars
    <3>10. QED
      BY <3>1, <3>2, <3>3, <3>6, <3>7, <3>9 DEF Next, Trade
  <2>2. flow[p].step \in Asking /\ call[p] \in Request /\ Sends(call[p], p)
    BY <2>1, CallFacts
  <2>3. op'[flow[p].exec] = op[flow[p].exec]
    BY <2>2, OpStep DEF FlowInv, FlowOK, Asking
  <2>4. /\ call'[p].op = call[p].op /\ call'[p].owner = call[p].owner
        /\ call'[p].exec = call[p].exec /\ call'[p].week = call[p].week
        /\ call'[p].status = call[p].status
    BY <2>1, <2>2 DEF Request
  <2>5. QED
    BY <2>1, <2>2, <2>3, <2>4 DEF Sends
<1>4. QED
  BY <1>2, <1>3

LEMMA FreshStep ==
  ASSUME IInv, [Next]_vars
  PROVE  FreshInv'
<1> USE DEF IInv
<1>1. SUFFICES ASSUME NEW e \in Exec, op'[e] = None
               PROVE  order'[e] = "none"
  BY DEF FreshInv
<1>2. op[e] = None
  BY <1>1, OpStep
<1>3. order[e] = "none"
  BY <1>2 DEF FreshInv
<1>4. \A p \in Proc : flow[p].step = "send" => flow[p].exec # e
  BY <1>2 DEF FlowInv, FlowOK
<1>5. QED
  BY <1>3, <1>4, OrderStep

-------------------------------------------------------------------------------
(* The invariant about the process: FlowOK after each move.                  *)

\* A process at work has an execution of its own, and a step does not disturb it.
LEMMA WorkFacts ==
  ASSUME IInv, [Next]_vars, NEW p \in Proc, flow[p].step \notin {"idle", "dead"}
  PROVE  /\ flow[p].exec \in Exec
         /\ op[flow[p].exec] # None
         /\ op[flow[p].exec].proc = p
         /\ op[flow[p].exec].week \in Week
         /\ op'[flow[p].exec] = op[flow[p].exec]
<1>1. flow[p].exec \in Exec /\ op[flow[p].exec] # None /\ op[flow[p].exec].proc = p
  BY DEF IInv, FlowInv, FlowOK
<1>2. op[flow[p].exec].week \in Week
  BY <1>1 DEF IInv, TypeOK, Op
<1>3. QED
  BY <1>1, <1>2, OpStep DEF IInv

\* The execution of a process that has gone on to its cleanup is retired.
LEMMA RetiredNow ==
  ASSUME IInv, [Next]_vars, NEW p \in Proc, flow[p].step \notin {"idle", "dead"},
         flow'[p].step \in Cleanup, NEW e, e = flow[p].exec
  PROVE  Retired(e)'
<1>1. e \in Exec /\ op[e] # None
  BY WorkFacts
<1>2. None \notin Exec
  BY TradeAssumption
<1>3. ASSUME NEW q \in Proc, flow'[q].exec = e
      PROVE  q = p
  <2>1. Onward(flow[q], flow'[q])
    BY <1>1, <1>3, FlowMoves DEF IInv
  <2>2. flow[q].exec = e
    BY <1>1, <1>2, <1>3, <2>1 DEF Onward
  <2>3. QED
    BY <1>1, <2>2, OneProcess DEF IInv
<1>4. QED
  BY <1>3 DEF Retired, Cleanup

\* A process that does not move keeps its invariant, whatever the others do.
LEMMA FlowStays ==
  ASSUME IInv, [Next]_vars, NEW p \in Proc, flow'[p] = flow[p]
  PROVE  FlowOK(p)'
<1>1. FlowOK(p)
  BY DEF IInv, FlowInv
<1>2. CASE flow[p].step \in {"idle", "dead"}
  BY <1>1, <1>2 DEF FlowOK, BeforeSend, OnClaim
<1>3. CASE flow[p].step \notin {"idle", "dead"}
  <2> DEFINE e == flow[p].exec
             w == op[e].week
  <2>1. e \in Exec /\ op[e] # None /\ op'[e] = op[e] /\ w \in Week
    BY <1>3, WorkFacts
  <2>2. ASSUME flow[p].step \in BeforeSend
        PROVE  order'[e] = "none"
    <3>1. order[e] = "none"
      BY <1>1, <2>2 DEF FlowOK
    <3>2. ASSUME NEW q \in Proc, flow[q].step = "send", flow[q].exec = e, SendOrder(q)
          PROVE  FALSE
      <4>1. q = p
        BY <2>1, <3>2, OneProcess DEF IInv
      <4>2. flow'[q].step = "sending"
        BY <3>2 DEF SendOrder, Goto, IInv, TypeOK, Flow
      <4>3. QED
        BY <3>2, <4>1, <4>2
    <3>3. QED
      BY <2>1, <3>1, <3>2, OrderStep DEF IInv
  <2>3. ASSUME flow[p].step = "sending"
        PROVE  order'[e] # "none"
    <3>1. order[e] # "none"
      BY <1>1, <2>3 DEF FlowOK
    <3>2. QED
      BY <2>1, <3>1, OrderStep DEF IInv, SendOrder, TypeOK
  <2>4. ASSUME flow[p].step \in OnClaim, flow[p].claimed
        PROVE  entry'[w].exec = e /\ entry'[w].status = "CLAIMED"
    <3>1. entry[w].exec = e /\ entry[w].status = "CLAIMED"
      BY <1>1, <2>4 DEF FlowOK
    <3>2. ~Retired(e)
      BY <2>4 DEF Retired, OnClaim
    <3>3. QED
      BY <2>1, <3>1, <3>2, ClaimStands DEF IInv
  <2>5. ASSUME flow[p].step = "complete" \/ (flow[p].step = "release" /\ flow[p].then = "complete")
        PROVE  /\ flow[p].claimed
               /\ flow[p].status \in Final
               /\ \A s : s = flow[p].status => Truthful(e, s)
    BY <1>1, <2>5 DEF FlowOK
  <2>6. ASSUME NEW s, Truthful(e, s)
        PROVE  \A d : d = e => Truthful(d, s)'
    BY <2>1, <2>6, TruthfulStep DEF IInv
  <2>7. ASSUME flow[p].step = "complete" \/ (flow[p].step = "release" /\ flow[p].then = "complete")
        PROVE  \A d, s : d = e /\ s = flow[p].status => Truthful(d, s)'
    BY <2>5, <2>6, <2>7
  <2>8. ASSUME flow[p].step = "complete" \/ (flow[p].step = "release" /\ flow[p].then = "complete")
        PROVE  Truthful(flow[p].exec, flow[p].status)'
    BY <2>7, <2>8 DEF Truthful, Live, Retired
  <2>9. QED
    BY <1>1, <1>3, <2>1, <2>2, <2>3, <2>4, <2>5, <2>8 DEF FlowOK
<1>4. QED
  BY <1>2, <1>3

\* An exception before or during order_send.
LEMMA RaisedOK ==
  ASSUME IInv, [Next]_vars, NEW p \in Proc,
         flow[p].step \in BeforeSend \cup {"sending"},
         UNCHANGED order, flow'[p] = Raised(flow[p])
  PROVE  FlowOK(p)'
<1> DEFINE e == flow[p].exec
<1>1. flow[p] \in Flow /\ FlowOK(p)
  BY DEF IInv, TypeOK, FlowInv
<1>2. flow[p].step \notin {"idle", "dead"}
  BY DEF BeforeSend
<1>3. e \in Exec /\ op[e] # None /\ op[e].proc = p /\ op'[e] = op[e]
  BY <1>2, WorkFacts
<1>4. CASE flow'[p] = IdleFlow
  BY <1>4 DEF FlowOK, IdleFlow, BeforeSend, OnClaim
<1>5. CASE ~flow[p].claimed /\ flow'[p] # IdleFlow
  <2>1. /\ flow'[p].step = "release" /\ flow'[p].then = "idle"
        /\ flow'[p].exec = e /\ ~flow'[p].claimed
    BY <1>1, <1>5 DEF Raised, Flow
  <2>2. QED
    BY <1>3, <2>1 DEF FlowOK, BeforeSend, OnClaim
<1>6. CASE flow[p].claimed
  <2>1. /\ flow'[p].step = "complete" /\ flow'[p].exec = e /\ flow'[p].claimed
        /\ flow'[p].status = IF flow[p].step = "sending" THEN "UNKNOWN" ELSE "REJECTED"
    BY <1>1, <1>6 DEF Raised, Flow
  <2>2. ASSUME flow'[p].status = "REJECTED"
        PROVE  \A d : d = e => ~Live(d)' /\ Retired(d)'
    <3>1. flow[p].step \in BeforeSend
      BY <2>1, <2>2
    <3>2. order[e] = "none"
      BY <1>1, <3>1 DEF FlowOK
    <3>3. flow'[p].step \in Cleanup
      BY <2>1 DEF Cleanup
    <3>4. QED
      BY <1>2, <3>2, <3>3, RetiredNow DEF Live
  <2>3. Truthful(flow[p].exec, flow[p].status)'
    <3>1. flow'[p].status = "UNKNOWN" => order'[e] # "none"
      BY <1>1, <2>1 DEF FlowOK
    <3>2. QED
      BY <2>1, <2>2, <3>1 DEF Truthful, Live, Retired
  <2>4. flow'[p].status \in Final
    BY <2>1 DEF Final
  <2>5. op[e].kind = "BUY"
    BY <1>1, <1>2, <1>6 DEF FlowOK
  <2>6. QED
    BY <1>3, <2>1, <2>3, <2>4, <2>5 DEF FlowOK, BeforeSend, OnClaim
<1>7. QED
  BY <1>4, <1>5, <1>6

\* After a cleanup call, answered or not.
LEMMA CleanedOK ==
  ASSUME IInv, [Next]_vars, NEW p \in Proc, flow[p].step \in {"release", "complete"},
         flow'[p] = Cleaned(flow[p])
  PROVE  FlowOK(p)'
<1> DEFINE e == flow[p].exec
<1>1. flow[p] \in Flow /\ FlowOK(p)
  BY DEF IInv, TypeOK, FlowInv
<1>2. e \in Exec /\ op[e] # None /\ op[e].proc = p /\ op'[e] = op[e]
  BY WorkFacts
<1>3. CASE flow'[p] = IdleFlow
  BY <1>3 DEF FlowOK, IdleFlow, BeforeSend, OnClaim
<1>4. CASE flow'[p] # IdleFlow
  <2>1. /\ flow'[p].step = flow[p].then /\ flow'[p].then = "idle" /\ flow'[p].exec = e
        /\ flow'[p].claimed = flow[p].claimed /\ flow'[p].status = flow[p].status
        /\ flow[p].then \in {"release", "complete"}
    BY <1>1, <1>4 DEF Cleaned, Flow
  <2>2. ASSUME flow[p].then = "complete"
        PROVE  /\ flow[p].claimed
               /\ flow[p].status \in Final
               /\ \A d, s : d = e /\ s = flow[p].status => Truthful(d, s)
    BY <1>1, <2>2 DEF FlowOK
  <2>3. ASSUME flow[p].then = "complete"
        PROVE  \A d, s : d = e /\ s = flow[p].status => Truthful(d, s)'
    BY <1>2, <2>2, <2>3, TruthfulStep DEF IInv
  <2>4. ASSUME flow[p].then = "complete"
        PROVE  Truthful(flow[p].exec, flow[p].status)'
    BY <2>1, <2>3, <2>4 DEF Truthful, Live, Retired
  <2>5. flow[p].claimed => op[e].kind = "BUY"
    BY <1>1 DEF FlowOK
  <2>6. QED
    BY <1>2, <2>1, <2>2, <2>4, <2>5 DEF FlowOK, BeforeSend, OnClaim
<1>5. QED
  BY <1>3, <1>4

\* After order_send: what a BUY will be completed with is true.
LEMMA ReturnedOK ==
  ASSUME IInv, [Next]_vars, NEW p \in Proc, flow[p].step = "sending",
         NEW s \in Final, s = "REJECTED" => order[flow[p].exec] = "refused",
         UNCHANGED order, flow'[p] = Returned(flow[p], s)
  PROVE  FlowOK(p)'
<1> DEFINE e == flow[p].exec
<1>1. flow[p] \in Flow /\ FlowOK(p)
  BY DEF IInv, TypeOK, FlowInv
<1>2. e \in Exec /\ op[e] # None /\ op[e].proc = p /\ op'[e] = op[e]
  BY WorkFacts
<1>3. /\ flow'[p].step = "release" /\ flow'[p].exec = e /\ flow'[p].status = s
      /\ flow'[p].claimed = flow[p].claimed
      /\ flow'[p].then = IF flow[p].claimed THEN "complete" ELSE "idle"
  BY <1>1 DEF Returned, Flow
<1>4. order[e] # "none"
  BY <1>1 DEF FlowOK
<1>5. ASSUME s = "REJECTED"
      PROVE  \A d : d = e => ~Live(d)' /\ Retired(d)'
  BY <1>3, <1>5, RetiredNow DEF Live, Cleanup
<1>6. Truthful(flow[p].exec, flow[p].status)'
  BY <1>3, <1>4, <1>5 DEF Truthful, Live, Retired
<1>7. flow[p].claimed => op[e].kind = "BUY"
  BY <1>1 DEF FlowOK
<1>8. QED
  BY <1>2, <1>3, <1>6, <1>7 DEF FlowOK, BeforeSend, OnClaim

\* After a call that was granted.
LEMMA AdvancedOK ==
  ASSUME IInv, [Next]_vars, NEW p \in Proc, Answer(p), Granted(call[p]),
         flow[p].step \notin {"release", "complete"}
  PROVE  FlowOK(p)'
<1> DEFINE e == flow[p].exec
           w == op[e].week
<1>1. flow[p] \in Flow /\ FlowOK(p)
  BY DEF IInv, TypeOK, FlowInv
<1>2. /\ flow[p].step \in {"acquire", "prevalidate", "claim", "validate"}
      /\ Sends(call[p], p)
  BY CallFacts DEF IInv, Answer, Asking
<1>3. e \in Exec /\ op[e] # None /\ op[e].proc = p /\ op'[e] = op[e] /\ w \in Week
  BY <1>2, WorkFacts
<1>4. flow'[p] = Advanced(flow[p], call[p])
  BY DEF Answer, Goto, IInv, TypeOK
<1>5. order'[e] = "none"
  BY <1>1, <1>2 DEF FlowOK, BeforeSend, Answer
<1>6. flow[p].claimed => op[e].kind = "BUY"
  BY <1>1, <1>2 DEF FlowOK
<1>7. CASE flow[p].step = "acquire"
  <2>1. /\ flow'[p].step = IF op[e].kind = "BUY" THEN "prevalidate" ELSE "validate"
        /\ flow'[p].exec = e /\ flow'[p].claimed = flow[p].claimed
    BY <1>1, <1>4, <1>7 DEF Advanced, Flow
  <2>2. ~flow[p].claimed
    BY <1>1, <1>7 DEF FlowOK
  <2>3. QED
    BY <1>3, <1>5, <2>1, <2>2 DEF FlowOK, BeforeSend, OnClaim
<1>8. CASE flow[p].step = "prevalidate"
  <2>1. flow'[p].step = "claim" /\ flow'[p].exec = e /\ flow'[p].claimed = flow[p].claimed
    BY <1>1, <1>4, <1>8 DEF Advanced, Flow
  <2>2. ~flow[p].claimed /\ op[e].kind = "BUY"
    BY <1>1, <1>8 DEF FlowOK
  <2>3. QED
    BY <1>3, <1>5, <2>1, <2>2 DEF FlowOK, BeforeSend, OnClaim
<1>9. CASE flow[p].step = "claim"
  <2>1. flow'[p].step = "position" /\ flow'[p].exec = e /\ flow'[p].claimed
    BY <1>1, <1>4, <1>9 DEF Advanced, Flow
  <2>2. op[e].kind = "BUY"
    BY <1>1, <1>9 DEF FlowOK
  <2>3. call[p].op = "claim" /\ call[p].exec = e /\ call[p].week = w
    BY <1>2, <1>9 DEF Sends, CallOf
  <2>4. entry' = EntryAfter(call[p])
    BY DEF Answer, Handle
  <2>5. entry'[w].exec = e /\ entry'[w].status = "CLAIMED"
    BY <1>3, <2>3, <2>4 DEF EntryAfter, IInv, TypeOK
  <2>6. QED
    BY <1>3, <1>5, <2>1, <2>2, <2>5 DEF FlowOK, BeforeSend, OnClaim
<1>10. CASE flow[p].step = "validate"
  <2>1. flow'[p].step = "send" /\ flow'[p].exec = e /\ flow'[p].claimed = flow[p].claimed
    BY <1>1, <1>4, <1>10 DEF Advanced, Flow
  <2>2. op[e].kind = "BUY" => flow[p].claimed
    BY <1>1, <1>10 DEF FlowOK, OnClaim
  <2>3. call[p].op = "validate"
    BY <1>2, <1>10 DEF Sends, CallOf
  <2>4. entry' = entry
    BY <2>3 DEF Answer, Handle, EntryAfter
  <2>5. flow[p].claimed => entry'[w].exec = e /\ entry'[w].status = "CLAIMED"
    BY <1>1, <1>10, <2>4 DEF FlowOK, OnClaim
  <2>6. QED
    BY <1>3, <1>5, <1>6, <2>1, <2>2, <2>5 DEF FlowOK, BeforeSend, OnClaim
<1>11. QED
  BY <1>2, <1>7, <1>8, <1>9, <1>10

LEMMA SentOK ==
  ASSUME IInv, [Next]_vars, NEW p \in Proc, SendOrder(p)
  PROVE  FlowOK(p)'
<1> DEFINE e == flow[p].exec
<1>1. flow[p] \in Flow /\ FlowOK(p) /\ flow[p].step = "send"
  BY DEF IInv, TypeOK, FlowInv, SendOrder, At
<1>2. e \in Exec /\ op[e] # None /\ op[e].proc = p /\ op'[e] = op[e]
  BY <1>1, WorkFacts
<1>3. flow'[p].step = "sending" /\ flow'[p].exec = e /\ flow'[p].claimed = flow[p].claimed
  BY <1>1 DEF SendOrder, Goto, IInv, TypeOK, Flow
<1>4. order'[e] = "sent" /\ entry' = entry
  BY <1>2 DEF SendOrder, IInv, TypeOK
<1>5. QED
  BY <1>1, <1>2, <1>3, <1>4 DEF FlowOK, BeforeSend, OnClaim

LEMMA BegunOK ==
  ASSUME IInv, [Next]_vars, NEW p \in Proc, NEW e \in Exec, NEW w \in Week, NEW k \in Kind,
         Begin(p, e, w, k)
  PROVE  FlowOK(p)'
<1>1. flow'[p].step = "acquire" /\ flow'[p].exec = e /\ ~flow'[p].claimed
  BY DEF Begin, Goto, IdleFlow, IInv, TypeOK
<1>2. order'[e] = "none"
  BY DEF Begin, IInv, FreshInv
<1>3. op'[e] = [kind |-> k, week |-> w, proc |-> p]
  BY DEF Begin, IInv, TypeOK
<1>4. op'[e] # None
  <2>1. op'[e] \in Op
    BY <1>3 DEF Op
  <2>2. QED
    BY <2>1, NoneIsNotAnOperation
<1>5. QED
  BY <1>1, <1>2, <1>3, <1>4 DEF FlowOK, BeforeSend, OnClaim

LEMMA FlowStep ==
  ASSUME IInv, [Next]_vars
  PROVE  FlowInv'
<1> USE DEF IInv
<1>1. SUFFICES ASSUME NEW p \in Proc PROVE FlowOK(p)'
  BY DEF FlowInv
<1>2. ASSUME NEW q \in Proc, NEW f, Goto(q, f)
      PROVE  flow'[q] = f /\ (q # p => flow'[p] = flow[p])
  BY <1>2 DEF Goto, TypeOK
<1>3. ASSUME NEW q \in Proc, NEW f, Goto(q, f), q = p => FlowOK(p)'
      PROVE  FlowOK(p)'
  BY <1>2, <1>3, FlowStays
<1>4. ASSUME NEW q \in Proc, Blocked(q) PROVE FlowOK(p)'
  <2>1. flow[q].step \in BeforeSend /\ UNCHANGED order /\ Goto(q, Raised(flow[q]))
    BY <1>4 DEF Blocked, NeedsLease, BeforeSend
  <2>2. QED
    BY <1>2, <1>3, <2>1, RaisedOK
<1>5. ASSUME NEW q \in Proc, Answer(q) PROVE FlowOK(p)'
  <2>1. flow[q].step \in Asking /\ UNCHANGED order
    BY <1>5, CallFacts DEF Answer
  <2>2. CASE flow[q].step \in {"release", "complete"}
    BY <1>2, <1>3, <1>5, <2>2, CleanedOK DEF Answer
  <2>3. CASE flow[q].step \notin {"release", "complete"} /\ Granted(call[q])
    <3>1. Goto(q, Advanced(flow[q], call[q]))
      BY <1>5, <2>3 DEF Answer
    <3>2. QED
      BY <1>3, <1>5, <2>3, <3>1, AdvancedOK
  <2>4. CASE flow[q].step \notin {"release", "complete"} /\ ~Granted(call[q])
    <3>1. flow[q].step \in BeforeSend /\ Goto(q, Raised(flow[q]))
      BY <1>5, <2>1, <2>4 DEF Answer, Asking, BeforeSend
    <3>2. QED
      BY <1>2, <1>3, <2>1, <3>1, RaisedOK
  <2>5. QED
    BY <2>2, <2>3, <2>4
<1>6. ASSUME NEW q \in Proc, CallFails(q) PROVE FlowOK(p)'
  <2>1. flow[q].step \in Asking /\ UNCHANGED order
    BY <1>6, CallFacts DEF CallFails
  <2>2. CASE flow[q].step \in {"release", "complete"}
    BY <1>2, <1>3, <1>6, <2>2, CleanedOK DEF CallFails
  <2>3. CASE flow[q].step \notin {"release", "complete"}
    <3>1. flow[q].step \in BeforeSend /\ Goto(q, Raised(flow[q]))
      BY <1>6, <2>1, <2>3 DEF CallFails, Asking, BeforeSend
    <3>2. QED
      BY <1>2, <1>3, <2>1, <3>1, RaisedOK
  <2>4. QED
    BY <2>2, <2>3
<1>7. ASSUME NEW q \in Proc, CheckPosition(q) PROVE FlowOK(p)'
  <2>1. flow[q].step = "position" /\ UNCHANGED <<order, entry>>
    BY <1>7 DEF CheckPosition, At
  <2>2. CASE PositionOpen
    <3>1. flow[q].step \in BeforeSend /\ Goto(q, Raised(flow[q]))
      BY <1>7, <2>1, <2>2 DEF CheckPosition, BeforeSend
    <3>2. QED
      BY <1>2, <1>3, <2>1, <3>1, RaisedOK
  <2>3. CASE ~PositionOpen
    <3> DEFINE f == [flow[q] EXCEPT !.step = "validate"]
    <3>1. Goto(q, f)
      BY <1>7, <2>3 DEF CheckPosition
    <3>2. flow[q] \in Flow /\ FlowOK(q)
      BY DEF TypeOK, FlowInv
    <3>3. f.step = "validate" /\ f.exec = flow[q].exec /\ f.claimed = flow[q].claimed
      BY <3>2 DEF Flow
    <3>4. /\ flow[q].exec \in Exec /\ op[flow[q].exec] # None
          /\ op[flow[q].exec].proc = q /\ op'[flow[q].exec] = op[flow[q].exec]
      BY <2>1, WorkFacts
    <3>5. flow'[q] = f
      BY <1>2, <3>1
    <3>6. FlowOK(q)'
      BY <2>1, <3>2, <3>3, <3>4, <3>5 DEF FlowOK, BeforeSend, OnClaim
    <3>7. QED
      BY <1>3, <3>1, <3>6
  <2>4. QED
    BY <2>2, <2>3
<1>8. ASSUME NEW q \in Proc, SendOrder(q) PROVE FlowOK(p)'
  BY <1>3, <1>8, SentOK DEF SendOrder
<1>9. ASSUME NEW q \in Proc, OrderAccepted(q) PROVE FlowOK(p)'
  BY <1>2, <1>3, <1>9, ReturnedOK DEF OrderAccepted, At, Final
<1>10. ASSUME NEW q \in Proc, OrderRefused(q) PROVE FlowOK(p)'
  BY <1>2, <1>3, <1>10, ReturnedOK DEF OrderRefused, At, Final
<1>11. ASSUME NEW q \in Proc, BrokerFails(q) PROVE FlowOK(p)'
  <2>1. UNCHANGED order
    BY <1>11 DEF BrokerFails
  <2>2. CASE flow[q].step = "sending" /\ Goto(q, Returned(flow[q], "UNKNOWN"))
    BY <1>2, <1>3, <2>1, <2>2, ReturnedOK DEF Final
  <2>3. CASE /\ flow[q].step \in BeforeSend \cup {"sending"}
             /\ Goto(q, Raised(flow[q]))
    BY <1>2, <1>3, <2>1, <2>3, RaisedOK
  <2>4. QED
    BY <1>11, <2>2, <2>3 DEF BrokerFails, At, BeforeSend
<1>12. ASSUME NEW q \in Proc, Crash(q) PROVE FlowOK(p)'
  <2>1. Goto(q, [IdleFlow EXCEPT !.step = "dead"])
    BY <1>12 DEF Crash
  <2>2. flow'[q].step = "dead" /\ flow'[q].exec = None
    BY <1>2, <2>1 DEF IdleFlow
  <2>3. FlowOK(q)'
    BY <2>2 DEF FlowOK, BeforeSend, OnClaim
  <2>4. QED
    BY <1>3, <2>1, <2>3
<1>13. ASSUME NEW q \in Proc, NEW e \in Exec, NEW w \in Week, NEW k \in Kind,
              Begin(q, e, w, k)
       PROVE  FlowOK(p)'
  BY <1>3, <1>13, BegunOK DEF Begin
<1>14. CASE \/ \E q \in Proc : Ask(q) \/ CheckExecutor(q)
            \/ \E r \in late : HandleLate(r) \/ CheckLate(r)
            \/ \E e \in Exec : BrokerDecides(e) \/ BrokerCloses(e)
            \/ GateExpires
            \/ LeaseStep
            \/ UNCHANGED vars
  <2>1. UNCHANGED flow
    BY <1>14 DEF Ask, CheckExecutor, CheckLate, HandleLate, BrokerDecides, BrokerCloses,
                 GateExpires, LeaseStep, vars, tradeVars
  <2>2. QED
    BY <2>1, FlowStays
<1>15. QED
  BY <1>4, <1>5, <1>6, <1>7, <1>8, <1>9, <1>10, <1>11, <1>12, <1>13, <1>14 DEF Next, Trade

-------------------------------------------------------------------------------
(* The theorems.                                                             *)

LEMMA InitIInv == Init => IInv
<1> SUFFICES ASSUME Init PROVE IInv
  OBVIOUS
<1>1. TypeOK
  <2>1. LeaseTypeOK
    BY DEF Init, LeaseInit, LeaseTypeOK
  <2>2. gate \in Gate
    BY DEF Init, Gate
  <2>3. [status |-> "NONE", exec |-> None, fence |-> 0, gate |-> 0] \in Entry
    BY DEF Entry, Status
  <2>4. IdleFlow \in Flow
    BY IdleType
  <2>5. QED
    BY <2>1, <2>2, <2>3, <2>4, TradeAssumption DEF Init, TypeOK, OrderState
<1>2. FlowInv
  BY DEF Init, FlowInv, FlowOK, IdleFlow, BeforeSend, OnClaim
<1>3. CallInv
  BY DEF Init, CallInv
<1>4. LateInv
  BY DEF Init, LateInv
<1>5. EntryInv
  BY DEF Init, EntryInv, EveryOrderIsRecorded, Buy
<1>6. FreshInv
  BY DEF Init, FreshInv
<1>7. QED
  BY <1>1, <1>2, <1>3, <1>4, <1>5, <1>6 DEF IInv

LEMMA StepIInv ==
  ASSUME IInv, [Next]_vars
  PROVE  IInv'
<1>1. TypeOK'
  BY TypeStep DEF IInv
<1>2. QED
  BY <1>1, FlowStep, CallStep, LateStep, EntryStep, FreshStep DEF IInv

\* The inductive invariant holds in every behaviour.
THEOREM TradeInvariant == Spec => []IInv
<1>1. Init => IInv
  BY InitIInv
<1>2. IInv /\ [Next]_vars => IInv'
  BY StepIInv
<1>3. QED
  BY <1>1, <1>2, PTL DEF Spec

\* Tables, orders, operations and requests in flight stay well typed.
THEOREM TradeType == Spec => []TypeOK
<1>1. IInv => TypeOK
  BY DEF IInv
<1>2. QED
  BY <1>1, TradeInvariant, PTL

\* Every BUY at the broker is on record, in an entry no other execution can take:
\* the order of claim and order_send in send_buy, and what coordination.php
\* refuses, leave no window in which a crash or a lost call forgets an order.
THEOREM OrdersAreRecorded == Spec => []EveryOrderIsRecorded
<1>1. IInv => EveryOrderIsRecorded
  BY DEF IInv, EntryInv
<1>2. QED
  BY <1>1, TradeInvariant, PTL

\* At most one BUY of a week reaches the broker and is not refused, however many
\* executors, takeovers, lost or late calls and crashes there are.
THEOREM AtMostOneOrder == Spec => []OneOrderPerWeek
<1>1. EveryOrderIsRecorded => OneOrderPerWeek
  BY DEF EveryOrderIsRecorded, OneOrderPerWeek
<1>2. QED
  BY <1>1, OrdersAreRecorded, PTL

\* What completeWeeklyEntry has recorded is true of the order and stays true.
THEOREM RecordedResultsAreTrue == Spec => []ResultsAreTrue
<1>1. IInv => ResultsAreTrue
  BY DEF IInv, EntryInv, ResultsAreTrue, Truthful
<1>2. QED
  BY <1>1, TradeInvariant, PTL

\* ACCEPTED and UNKNOWN close the week for ever, and a claim is passed on only by
\* the execution that holds it.
THEOREM EntriesAreFinal == Spec => EntryIsFinal
<1>1. ASSUME IInv, [Next]_vars, NEW w \in Week
      PROVE  /\ entry[w].status \in {"ACCEPTED", "UNKNOWN"} => entry'[w] = entry[w]
             /\ entry[w].status = "CLAIMED" => entry'[w].exec = entry[w].exec
  <2>1. entry[w] \in Entry
    BY <1>1 DEF IInv, TypeOK
  <2>2. ASSUME NEW r \in Request, Claimed(w, r)
        PROVE  /\ entry[w].status \notin {"ACCEPTED", "UNKNOWN"}
               /\ entry[w].status = "CLAIMED" => entry'[w].exec = entry[w].exec
    BY <2>2 DEF Claimed, ClaimGranted
  <2>3. ASSUME NEW r \in Request, Completed(w, r)
        PROVE  entry[w].status = "CLAIMED" /\ entry'[w].exec = entry[w].exec
    BY <2>1, <2>3 DEF Completed, Entry
  <2>4. QED
    BY <1>1, <2>2, <2>3, EntryCases DEF IInv
<1>2. IInv /\ [Next]_vars =>
        [\A w \in Week :
           /\ entry[w].status \in {"ACCEPTED", "UNKNOWN"} => entry'[w] = entry[w]
           /\ entry[w].status = "CLAIMED" => entry'[w].exec = entry[w].exec]_vars
  BY <1>1
<1>3. QED
  BY <1>2, TradeInvariant, PTL DEF Spec, EntryIsFinal

-------------------------------------------------------------------------------
(* The trade gate: a token is never above the row's, and the operation that  *)
(* holds the row's token belongs to the row's owner.                         *)

GateInv ==
  \A p \in Proc :
    /\ flow[p].gate <= gate.token
    /\ flow[p].gate # 0 /\ flow[p].gate = gate.token => gate.owner = p

LEMMA GateGrows ==
  ASSUME TypeOK, FlowInv, CallInv, [Next]_vars
  PROVE  gate'.token >= gate.token /\ (gate'.token = gate.token => gate'.owner = gate.owner)
<1>1. gate \in Gate
  BY DEF TypeOK
<1>2. ASSUME NEW r \in Request, gate' = GateAfter(r)
      PROVE  gate'.token >= gate.token /\ (gate'.token = gate.token => gate'.owner = gate.owner)
  BY <1>1, <1>2 DEF GateAfter, GateFor, Granted, Gate
<1>3. CASE gate' = gate
  BY <1>1, <1>3 DEF Gate
<1>4. ASSUME NEW p \in Proc, Answer(p) \/ CallFails(p) \/ Crash(p)
      PROVE  gate' = gate \/ \E r \in Request : gate' = GateAfter(r)
  BY <1>4, CallFacts DEF Answer, CallFails, Crash, Lost, Handle
<1>5. ASSUME NEW r \in late, HandleLate(r)
      PROVE  \E q \in Request : gate' = GateAfter(q)
  BY <1>5 DEF HandleLate, Handle, TypeOK
<1>6. CASE GateExpires
  BY <1>1, <1>6 DEF GateExpires, Gate
<1>7. CASE /\ ~ \E p \in Proc : Answer(p) \/ CallFails(p) \/ Crash(p)
           /\ ~ \E r \in late : HandleLate(r)
           /\ ~GateExpires
  <2>1. gate' = gate
    BY <1>7 DEF Next, Trade, Ask, CheckExecutor, CheckLate, Blocked, CheckPosition,
                SendOrder, OrderAccepted, Begin, OrderRefused, BrokerFails,
                BrokerDecides, BrokerCloses, LeaseStep, vars, tradeVars
  <2>2. QED
    BY <1>3, <2>1
<1>8. QED
  BY <1>2, <1>3, <1>4, <1>5, <1>6, <1>7

\* A process keeps its gate token, drops it, or is answered the row's token.
GateMove(q) ==
  \/ flow'[q].gate \in {0, flow[q].gate}
  \/ flow'[q].gate = gate'.token /\ gate'.owner = q

LEMMA GateMoves ==
  ASSUME TypeOK, FlowInv, CallInv, [Next]_vars, NEW q \in Proc
  PROVE  GateMove(q)
<1>1. \A p \in Proc : flow[p] \in Flow
  BY DEF TypeOK
<1>2. IdleFlow.gate = 0
  BY DEF IdleFlow
<1>3. ASSUME NEW p \in Proc, NEW f, Goto(p, f), f.gate \in {0, flow[p].gate}
      PROVE  GateMove(q)
  BY <1>3 DEF Goto, TypeOK, GateMove
<1>4. ASSUME NEW f \in Flow
      PROVE  /\ Raised(f).gate \in {0, f.gate}
             /\ Cleaned(f).gate \in {0, f.gate}
             /\ \A s \in Status : Returned(f, s).gate = f.gate
             /\ \A s : [f EXCEPT !.step = s].gate = f.gate
  <2>1. Raised(f).gate \in {0, f.gate}
    BY <1>2 DEF Raised, Flow
  <2>2. Cleaned(f).gate \in {0, f.gate}
    BY <1>2 DEF Cleaned, Flow
  <2>3. \A s \in Status : Returned(f, s).gate = f.gate
    BY DEF Returned, Flow
  <2>4. \A s : [f EXCEPT !.step = s].gate = f.gate
    BY DEF Flow
  <2>5. QED
    BY <2>1, <2>2, <2>3, <2>4
<1>5. ASSUME NEW p \in Proc, Blocked(p) \/ CallFails(p) PROVE GateMove(q)
  BY <1>1, <1>3, <1>4, <1>5 DEF Blocked, CallFails
<1>6. ASSUME NEW p \in Proc, CheckPosition(p) \/ SendOrder(p) PROVE GateMove(q)
  BY <1>1, <1>3, <1>4, <1>6 DEF CheckPosition, SendOrder
<1>7. ASSUME NEW p \in Proc, OrderAccepted(p) \/ OrderRefused(p) \/ BrokerFails(p)
      PROVE  GateMove(q)
  BY <1>1, <1>3, <1>4, <1>7 DEF OrderAccepted, OrderRefused, BrokerFails, Status
<1>8. ASSUME NEW p \in Proc, Answer(p) PROVE GateMove(q)
  <2>1. call[p] \in Request /\ Sends(call[p], p) /\ flow[p].step \in Asking
    BY <1>8, CallFacts DEF Answer
  <2>2. CASE ~(Granted(call[p]) /\ flow[p].step \notin {"release", "complete"})
    BY <1>1, <1>3, <1>4, <1>8, <2>2 DEF Answer
  <2>3. CASE Granted(call[p]) /\ flow[p].step \notin {"release", "complete"}
    <3>1. Goto(p, Advanced(flow[p], call[p]))
      BY <1>8, <2>3 DEF Answer
    <3>2. CASE flow[p].step = "acquire"
      <4>1. call[p].op = "acquire" /\ call[p].owner = p
        BY <2>1, <3>2 DEF Sends, CallOf
      <4>2. gate' = GateFor(call[p])
        BY <1>8, <2>3, <4>1 DEF Answer, Handle, GateAfter
      <4>3. gate'.owner = p
        BY <4>1, <4>2 DEF GateFor
      <4>4. Advanced(flow[p], call[p]).gate = gate'.token
        BY <1>1, <3>2, <4>2 DEF Advanced, Flow
      <4>5. QED
        BY <3>1, <4>3, <4>4 DEF Goto, TypeOK, GateMove
    <3>3. CASE flow[p].step # "acquire"
      <4>1. Advanced(flow[p], call[p]).gate = flow[p].gate
        BY <1>1, <2>1, <2>3, <3>3 DEF Advanced, Flow, Asking
      <4>2. QED
        BY <1>3, <3>1, <4>1
    <3>4. QED
      BY <3>2, <3>3
  <2>4. QED
    BY <2>2, <2>3
<1>9. ASSUME NEW p \in Proc, Crash(p) PROVE GateMove(q)
  BY <1>2, <1>3, <1>4, <1>9, IdleType DEF Crash
<1>10. ASSUME NEW p \in Proc, NEW e \in Exec, NEW w \in Week, NEW k \in Kind,
              Begin(p, e, w, k)
       PROVE  GateMove(q)
  <2>1. [IdleFlow EXCEPT !.step = "acquire", !.exec = e].gate = 0
    BY DEF IdleFlow
  <2>2. QED
    BY <1>3, <1>10, <2>1 DEF Begin
<1>11. CASE UNCHANGED flow
  BY <1>11 DEF GateMove
<1>12. CASE \/ \E p \in Proc : Ask(p) \/ CheckExecutor(p)
            \/ \E r \in late : HandleLate(r) \/ CheckLate(r)
            \/ \E e \in Exec : BrokerDecides(e) \/ BrokerCloses(e)
            \/ GateExpires
            \/ LeaseStep
            \/ UNCHANGED vars
  BY <1>11, <1>12 DEF Ask, CheckExecutor, CheckLate, HandleLate, BrokerDecides,
                      BrokerCloses, GateExpires, LeaseStep, vars, tradeVars
<1>13. QED
  BY <1>5, <1>6, <1>7, <1>8, <1>9, <1>10, <1>12 DEF Next, Trade

LEMMA GateStep ==
  ASSUME IInv, [Next]_vars, GateInv, GateTokenIsExclusive
  PROVE  GateInv' /\ GateTokenIsExclusive'
<1>1. /\ gate \in Gate /\ gate' \in Gate
      /\ \A p \in Proc : flow[p].gate \in Nat /\ flow'[p].gate \in Nat
  BY StepIInv DEF IInv, TypeOK, Flow
<1>2. gate.token \in Nat /\ gate'.token \in Nat
  BY <1>1 DEF Gate
<1>3. gate'.token >= gate.token /\ (gate'.token = gate.token => gate'.owner = gate.owner)
  BY GateGrows DEF IInv
<1>4. \A p \in Proc : GateMove(p)
  BY GateMoves DEF IInv
<1>5. GateInv'
  BY <1>1, <1>2, <1>3, <1>4 DEF GateInv, GateMove
<1>6. ASSUME NEW p \in Proc, NEW q \in Proc, p # q, flow'[p].gate = flow'[q].gate
      PROVE  flow'[p].gate = 0
  <2>1. CASE flow'[p].gate = gate'.token
    BY <1>5, <1>6, <2>1 DEF GateInv
  <2>2. CASE flow'[p].gate # gate'.token
    BY <1>4, <1>6, <2>2 DEF GateMove, GateTokenIsExclusive
  <2>3. QED
    BY <2>1, <2>2
<1>7. QED
  BY <1>5, <1>6 DEF GateTokenIsExclusive

\* Two trade operations never hold the same gate token, so validate_trade_gate
\* and complete_weekly_entry cannot be answered for somebody else's gate.
THEOREM GateTokensAreExclusive == Spec => []GateTokenIsExclusive
<1>1. Init => GateInv /\ GateTokenIsExclusive
  BY DEF Init, IdleFlow, GateInv, GateTokenIsExclusive
<1>2. IInv /\ GateInv /\ GateTokenIsExclusive /\ [Next]_vars => (GateInv /\ GateTokenIsExclusive)'
  BY GateStep
<1>3. QED
  BY <1>1, <1>2, TradeInvariant, PTL DEF Spec

\* The gate only changes when it expires or a harmless request is processed.
LEMMA GateSource ==
  ASSUME TypeOK, FlowInv, CallInv, LateInv, [Next]_vars
  PROVE  \/ gate' = gate
         \/ GateExpires
         \/ \E r \in Request : Harmless(r) /\ gate' = GateAfter(r)
<1>1. ASSUME NEW p \in Proc, Answer(p) \/ CallFails(p) \/ Crash(p)
      PROVE  gate' = gate \/ \E r \in Request : Harmless(r) /\ gate' = GateAfter(r)
  BY <1>1, CallHarmless DEF Answer, CallFails, Crash, Lost, Handle
<1>2. ASSUME NEW r \in late, HandleLate(r)
      PROVE  \E q \in Request : Harmless(q) /\ gate' = GateAfter(q)
  BY <1>2 DEF HandleLate, Handle, LateInv, TypeOK
<1>3. CASE /\ ~ \E p \in Proc : Answer(p) \/ CallFails(p) \/ Crash(p)
           /\ ~ \E r \in late : HandleLate(r)
           /\ ~GateExpires
  BY <1>3 DEF Next, Trade, Ask, CheckExecutor, CheckLate, Blocked, CheckPosition,
              SendOrder, OrderAccepted, Begin, OrderRefused, BrokerFails,
              BrokerDecides, BrokerCloses, LeaseStep, vars, tradeVars
<1>4. QED
  BY <1>1, <1>2, <1>3

\* An operation that relies on its gate loses it to time only: an acquisition is
\* refused, and a release of its own execution would come from a retired one.
THEOREM HoldersKeepGates == Spec => HolderKeepsGate
<1>1. ASSUME IInv, [Next]_vars, NEW p \in Proc, HoldsGate(p), gate' # gate, ~GateExpires
      PROVE  FALSE
  <2>1. gate \in Gate
    BY <1>1 DEF IInv, TypeOK
  <2>2. PICK r \in Request : Harmless(r) /\ gate' = GateAfter(r)
    BY <1>1, GateSource DEF IInv
  <2>3. CASE r.op = "acquire" /\ Granted(r)
    <3>1. gate.active /\ gate.owner = r.owner /\ gate.exec = r.exec
      BY <1>1, <2>3 DEF HoldsGate, Granted
    <3>2. GateFor(r) = gate
      BY <2>1, <3>1 DEF GateFor, Gate
    <3> QED
      BY <1>1, <2>2, <2>3, <3>2 DEF GateAfter
  <2>4. CASE r.op = "release" /\ gate.exec = r.exec
    <3>1. flow[p].exec = r.exec /\ flow[p].step \notin {"release", "complete"}
      BY <1>1, <2>4 DEF HoldsGate, RelyingOnGate
    <3> QED
      BY <2>2, <2>4, <3>1 DEF Harmless, Retired
  <2> QED
    BY <1>1, <2>2, <2>3, <2>4 DEF GateAfter
<1>2. IInv /\ [Next]_vars => [\A p \in Proc : HoldsGate(p) /\ gate' # gate => GateExpires]_vars
  BY <1>1
<1> QED
  BY <1>2, TradeInvariant, PTL DEF Spec, HolderKeepsGate

-------------------------------------------------------------------------------
(* Refinement: the weekly entry that WeeklyEntry promises.                   *)

LiveStates == {"sent", "executed", "closed"}

\* A step changes the entry of one week at most.
LEMMA OneEntryChanges ==
  ASSUME TypeOK, FlowInv, CallInv, LateInv, [Next]_vars
  PROVE  \/ entry' = entry
         \/ \E w \in Week, r \in Request :
              /\ Harmless(r)
              /\ Claimed(w, r) \/ Completed(w, r)
              /\ \A v \in Week \ {w} : entry'[v] = entry[v]
<1>1. CASE entry' = entry
  BY <1>1
<1>2. ASSUME NEW r \in Request, Harmless(r), entry' = EntryAfter(r), entry' # entry
      PROVE  /\ r.week \in Week
             /\ Claimed(r.week, r) \/ Completed(r.week, r)
             /\ \A v \in Week \ {r.week} : entry'[v] = entry[v]
  <2>1. r.week \in Week
    BY DEF Request
  <2>2. CASE r.op = "claim" /\ Granted(r)
    <3>1. entry' = [entry EXCEPT ![r.week] = [status |-> "CLAIMED", exec |-> r.exec,
                                               fence |-> r.fence, gate |-> r.gate]]
      BY <1>2, <2>2 DEF EntryAfter
    <3>2. ClaimGranted(r.week, r)
      BY <2>2 DEF Granted
    <3>3. QED
      BY <2>1, <2>2, <3>1, <3>2 DEF Claimed, TypeOK
  <2>3. CASE /\ r.op = "complete" /\ Granted(r)
             /\ entry[r.week].exec = r.exec /\ entry[r.week].status = "CLAIMED"
    <3>1. entry' = [entry EXCEPT ![r.week].status = r.status]
      BY <1>2, <2>3 DEF EntryAfter
    <3>2. QED
      BY <2>1, <2>3, <3>1 DEF Completed, TypeOK
  <2>4. QED
    BY <1>2, <2>1, <2>2, <2>3 DEF EntryAfter
<1>3. QED
  BY <1>1, <1>2, EntrySource

\* The BUYs at the broker only change when one is sent or refused.
LEMMA BuysStay ==
  ASSUME IInv, [Next]_vars,
         ~ \E p \in Proc : SendOrder(p) /\ Buy(flow[p].exec),
         ~ \E e \in Exec : BrokerDecides(e) /\ Buy(e) /\ order'[e] = "refused",
         NEW w \in Week
  PROVE  /\ Buys(w, LiveStates)' = Buys(w, LiveStates)
         /\ Buys(w, {"refused"})' = Buys(w, {"refused"})
<1> USE DEF IInv
<1>1. ASSUME NEW e \in Exec, NEW S \in {LiveStates, {"refused"}}
      PROVE  (Buy(e)' /\ op'[e].week = w /\ order'[e] \in S)
               <=> (Buy(e) /\ op[e].week = w /\ order[e] \in S)
  <2>1. CASE op[e] # None
    <3>1. op'[e] = op[e]
      BY <2>1, OpStep
    <3>2. Buy(e)' <=> Buy(e)
      BY <3>1 DEF Buy
    <3>3. Buy(e) => (order'[e] \in S <=> order[e] \in S)
      BY OrderStep DEF LiveStates
    <3>4. QED
      BY <3>1, <3>2, <3>3
  <2>2. CASE op[e] = None
    <3>1. order[e] = "none" /\ ~Buy(e)
      BY <2>2 DEF FreshInv, Buy
    <3>2. \A p \in Proc : flow[p].step = "send" => flow[p].exec # e
      BY <2>2 DEF FlowInv, FlowOK
    <3>3. order'[e] = "none"
      BY <3>1, <3>2, OrderStep
    <3>4. QED
      BY <3>1, <3>3 DEF LiveStates
  <2>3. QED
    BY <2>1, <2>2
<1>2. QED
  BY <1>1 DEF Buys

\* A BUY is placed by the holder of its week, who has placed none.
LEMMA PlaceStep ==
  ASSUME IInv, [Next]_vars, NEW p \in Proc, SendOrder(p), Buy(flow[p].exec)
  PROVE  \E w \in Week : Entries!Place(w, flow[p].exec)
<1> USE DEF IInv
<1> DEFINE e == flow[p].exec
           w == op[e].week
<1>1. e \in Exec /\ op[e] # None /\ op[e].kind = "BUY" /\ order[e] = "none"
  BY DEF SendOrder, At, FlowInv, FlowOK, BeforeSend, Buy
<1>2. w \in Week
  BY <1>1 DEF TypeOK, Op
<1>3. entry[w].exec = e /\ entry[w].status = "CLAIMED"
  BY <1>1 DEF SendOrder, At, FlowInv, FlowOK, OnClaim
<1>4. UNCHANGED <<entry, op>> /\ order' = [order EXCEPT ![e] = "sent"]
  BY DEF SendOrder
<1>5. HolderOf(w) = e
  BY <1>3 DEF HolderOf
<1>6. e \notin Buys(w, LiveStates) \cup Buys(w, {"refused"})
  BY <1>1 DEF Buys, LiveStates
<1>7. \A v \in Week : Buys(v, LiveStates)' = IF v = w THEN Buys(v, LiveStates) \cup {e}
                                                       ELSE Buys(v, LiveStates)
  BY <1>1, <1>4 DEF Buys, Buy, LiveStates, TypeOK
<1>8. \A v \in Week : Buys(v, {"refused"})' = Buys(v, {"refused"})
  BY <1>1, <1>4 DEF Buys, Buy, TypeOK
<1>9. \A v \in Week : HolderOf(v)' = HolderOf(v)
  BY <1>4 DEF HolderOf
<1>10. Entries!Place(w, e)
  BY <1>2, <1>3, <1>4, <1>5, <1>6, <1>7, <1>8, <1>9 DEF Entries!Place, LiveStates
<1>11. QED
  BY <1>2, <1>10

\* The broker refuses a BUY it was sent.
LEMMA RefuseStep ==
  ASSUME IInv, [Next]_vars, NEW e \in Exec, BrokerDecides(e), Buy(e), order'[e] = "refused"
  PROVE  \E w \in Week : Entries!Refuse(w, e)
<1> USE DEF IInv
<1> DEFINE w == op[e].week
<1>1. w \in Week
  BY DEF TypeOK, Op, Buy
<1>2. UNCHANGED <<entry, op>> /\ order[e] = "sent" /\ order' = [order EXCEPT ![e] = "refused"]
  BY DEF BrokerDecides, TypeOK
<1>3. e \in Buys(w, LiveStates)
  BY <1>2 DEF Buys, LiveStates
<1>4. \A v \in Week : Buys(v, LiveStates)' = IF v = w THEN Buys(v, LiveStates) \ {e}
                                                       ELSE Buys(v, LiveStates)
  BY <1>2 DEF Buys, Buy, LiveStates, TypeOK
<1>5. \A v \in Week : Buys(v, {"refused"})' = IF v = w THEN Buys(v, {"refused"}) \cup {e}
                                                        ELSE Buys(v, {"refused"})
  BY <1>2 DEF Buys, Buy, TypeOK
<1>6. \A v \in Week : HolderOf(v)' = HolderOf(v)
  BY <1>2 DEF HolderOf
<1>7. Entries!Refuse(w, e)
  BY <1>1, <1>2, <1>3, <1>4, <1>5, <1>6 DEF Entries!Refuse, LiveStates
<1>8. QED
  BY <1>1, <1>7

\* A claim or a completion of one week, while the BUYs at the broker stay.
LEMMA EntryMoves ==
  ASSUME IInv, [Next]_vars, NEW w \in Week, NEW r \in Request, Harmless(r),
         Claimed(w, r) \/ Completed(w, r),
         \A v \in Week \ {w} : entry'[v] = entry[v],
         \A v \in Week : Buys(v, LiveStates)' = Buys(v, LiveStates),
         \A v \in Week : Buys(v, {"refused"})' = Buys(v, {"refused"})
  PROVE  [Entries!Next]_(Entries!entryVars)
<1> USE DEF IInv
<1> DEFINE e == r.exec
<1>1. /\ \A v \in Week \ {w} : HolderOf(v)' = HolderOf(v)
      /\ \A v \in Week \ {w} : entry'[v].status = entry[v].status
  BY DEF HolderOf
<1>2. e \in Exec /\ e # None
  BY TradeAssumption DEF Request
<1>3. UNCHANGED <<[v \in Week |-> Buys(v, LiveStates)], [v \in Week |-> Buys(v, {"refused"})]>>
  OBVIOUS
<1>4. CASE Claimed(w, r)
  <2>1. entry'[w].status = "CLAIMED" /\ entry'[w].exec = e
    BY <1>4 DEF Claimed
  <2>2. HolderOf(w)' = e
    BY <2>1 DEF HolderOf
  <2>3. entry[w].status \notin {"ACCEPTED", "UNKNOWN"}
    BY <1>4 DEF Claimed, ClaimGranted
  <2>4. UNCHANGED {v \in Week : entry[v].status \in {"ACCEPTED", "UNKNOWN"}}
    BY <1>1, <2>1, <2>3
  <2>5. CASE HolderOf(w) = None
    <3>1. Entries!Claim(w, e)
      BY <1>1, <1>3, <2>2, <2>4, <2>5 DEF Entries!Claim, LiveStates
    <3>2. QED
      BY <1>2, <3>1 DEF Entries!Next
  <2>6. CASE HolderOf(w) # None
    <3>1. HolderOf(w) = e
      BY <1>4, <2>6 DEF Claimed, ClaimGranted, HolderOf
    <3>2. QED
      BY <1>1, <1>3, <2>2, <2>4, <3>1 DEF Entries!entryVars, LiveStates
  <2>7. QED
    BY <2>5, <2>6
<1>5. CASE Completed(w, r)
  <2>1. /\ entry[w].status = "CLAIMED" /\ entry[w].exec = e
        /\ entry'[w].status = r.status /\ entry'[w].exec = e
    BY <1>5 DEF Completed, TypeOK, Entry
  <2>2. /\ r.status \in Final /\ Truthful(e, r.status)
        /\ Buy(e) /\ op[e].week = w
    BY <1>5 DEF Completed, Harmless, Buy
  <2>3. HolderOf(w) = e
    BY <2>1 DEF HolderOf
  <2>4. CASE r.status = "REJECTED"
    <3>1. HolderOf(w)' = None
      BY <2>1, <2>4 DEF HolderOf
    <3>2. e \notin Buys(w, LiveStates)
      BY <2>2, <2>4 DEF Truthful, Live, Buys, LiveStates
    <3>3. UNCHANGED {v \in Week : entry[v].status \in {"ACCEPTED", "UNKNOWN"}}
      BY <1>1, <2>1, <2>4
    <3>4. [v \in Week |-> HolderOf(v)]' = [[v \in Week |-> HolderOf(v)] EXCEPT ![w] = None]
      BY <1>1, <3>1
    <3>5. w \notin {v \in Week : entry[v].status \in {"ACCEPTED", "UNKNOWN"}}
      BY <2>1
    <3>6. Entries!Withdraw(w)
      BY <1>2, <1>3, <2>3, <3>2, <3>3, <3>4, <3>5 DEF Entries!Withdraw, LiveStates
    <3>7. QED
      BY <3>6 DEF Entries!Next
  <2>5. CASE r.status # "REJECTED"
    <3>1. r.status \in {"ACCEPTED", "UNKNOWN"}
      BY <2>2, <2>5 DEF Final
    <3>2. HolderOf(w)' = e
      BY <2>1, <3>1 DEF HolderOf
    <3>3. order[e] # "none" /\ order[e] \in OrderState
      BY <1>2, <2>2, <3>1 DEF Truthful, TypeOK
    <3>4. e \in Buys(w, LiveStates) \cup Buys(w, {"refused"})
      BY <1>2, <2>2, <3>3 DEF Buys, LiveStates, OrderState
    <3>5. {v \in Week : entry[v].status \in {"ACCEPTED", "UNKNOWN"}}'
            = {v \in Week : entry[v].status \in {"ACCEPTED", "UNKNOWN"}} \cup {w}
      BY <1>1, <2>1, <3>1
    <3>6. Entries!Settle(w)
      BY <1>1, <1>3, <2>1, <2>3, <3>2, <3>4, <3>5 DEF Entries!Settle, LiveStates
    <3>7. QED
      BY <3>6 DEF Entries!Next
  <2>6. QED
    BY <2>4, <2>5
<1>6. QED
  BY <1>4, <1>5

\* Every step is a step of WeeklyEntry or changes nothing of it.
LEMMA WeeklyStep ==
  ASSUME IInv, [Next]_vars
  PROVE  [Entries!Next]_(Entries!entryVars)
<1> USE DEF IInv
<1>1. ASSUME NEW p \in Proc, SendOrder(p), Buy(flow[p].exec)
      PROVE  [Entries!Next]_(Entries!entryVars)
  <2>1. flow[p].exec \in Exec
    BY <1>1 DEF SendOrder, At, FlowInv, FlowOK
  <2>2. QED
    BY <1>1, <2>1, PlaceStep DEF Entries!Next
<1>2. ASSUME NEW e \in Exec, BrokerDecides(e), Buy(e), order'[e] = "refused"
      PROVE  [Entries!Next]_(Entries!entryVars)
  BY <1>2, RefuseStep DEF Entries!Next
<1>3. CASE /\ ~ \E p \in Proc : SendOrder(p) /\ Buy(flow[p].exec)
           /\ ~ \E e \in Exec : BrokerDecides(e) /\ Buy(e) /\ order'[e] = "refused"
  <2>1. \A w \in Week : /\ Buys(w, LiveStates)' = Buys(w, LiveStates)
                        /\ Buys(w, {"refused"})' = Buys(w, {"refused"})
    BY <1>3, BuysStay
  <2>2. CASE entry' = entry
    <3>1. \A v \in Week : HolderOf(v)' = HolderOf(v)
      BY <2>2 DEF HolderOf
    <3>2. QED
      BY <2>1, <2>2, <3>1 DEF Entries!entryVars, LiveStates
  <2>3. CASE entry' # entry
    BY <2>1, <2>3, OneEntryChanges, EntryMoves
  <2>4. QED
    BY <2>2, <2>3
<1>4. QED
  BY <1>1, <1>2, <1>3

LEMMA WeeklyInit == Init => Entries!Init
<1> SUFFICES ASSUME Init PROVE Entries!Init
  OBVIOUS
<1>1. \A w \in Week : entry[w].status = "NONE"
  BY DEF Init
<1>2. \A w \in Week : HolderOf(w) = None
  BY <1>1 DEF HolderOf
<1>3. \A w \in Week : Buys(w, LiveStates) = {} /\ Buys(w, {"refused"}) = {}
  BY DEF Init, Buys, LiveStates
<1>4. QED
  BY <1>1, <1>2, <1>3 DEF Entries!Init, LiveStates

\* The trade operations, their coordination calls and the handlers implement the
\* weekly entry: only the holder of a week places its BUY, once, and a week passes
\* on only when no BUY of it is or will be at the broker, however many executors,
\* takeovers, lost or late calls and crashes there are.
THEOREM TradeExecutionImplementsWeeklyEntry == Spec => ImplementsWeeklyEntry
<1>1. IInv /\ [Next]_vars => [Entries!Next]_(Entries!entryVars)
  BY WeeklyStep
<1>2. QED
  BY WeeklyInit, <1>1, TradeInvariant, PTL DEF Spec, Entries!Spec, ImplementsWeeklyEntry

-----------------------------------------------------------------------------
(* Requests that are processed twice. *)

\* A request of the coordination client that is processed again, with nothing in
\* between but what the first processing did, is answered as it was the first
\* time and changes neither the gate nor an entry: a caller that lost its answer
\* may ask again under the same execution id.
THEOREM HandledTwice ==
  ASSUME TypeOK, NEW r \in Request, Handle(r), UNCHANGED leaseVars
  PROVE  /\ Granted(r)' <=> Granted(r)
         /\ GateAfter(r)' = gate'
         /\ EntryAfter(r)' = entry'
<1>1. /\ gate \in Gate /\ entry \in [Week -> Entry]
      /\ r.week \in Week /\ r.op \in {"acquire", "validate", "claim", "release", "complete"}
  BY DEF TypeOK, Request
<1>2. RequireExecutor(r)' <=> RequireExecutor(r)
  BY DEF RequireExecutor, leaseVars
<1>3. CASE ~Granted(r)
  <2>1. gate' = gate /\ entry' = entry
    BY <1>3 DEF Handle, GateAfter, EntryAfter
  <2>2. Granted(r)' <=> Granted(r)
    BY <1>2, <2>1 DEF Granted, RequireGate, ClaimGranted
  <2> QED
    BY <1>3, <2>1, <2>2 DEF GateAfter, EntryAfter
<1>4. CASE Granted(r) /\ r.op = "acquire"
  <2>1. gate' = GateFor(r) /\ entry' = entry
    BY <1>4 DEF Handle, GateAfter, EntryAfter
  <2>2. gate'.active = TRUE /\ gate'.owner = r.owner /\ gate'.exec = r.exec
    BY <2>1 DEF GateFor
  <2>3. Granted(r)'
    BY <1>2, <1>4, <2>2 DEF Granted
  <2>4. GateFor(r)' = gate'
    BY <2>1, <2>2 DEF GateFor
  <2> QED
    BY <1>4, <2>1, <2>3, <2>4 DEF GateAfter, EntryAfter
<1>5. CASE Granted(r) /\ r.op = "validate"
  <2>1. gate' = gate /\ entry' = entry
    BY <1>5 DEF Handle, GateAfter, EntryAfter
  <2>2. Granted(r)' <=> Granted(r)
    BY <1>2, <2>1, <1>5 DEF Granted, RequireGate
  <2> QED
    BY <1>5, <2>1, <2>2 DEF GateAfter, EntryAfter
<1>6. CASE Granted(r) /\ r.op = "claim"
  <2> DEFINE c == [status |-> "CLAIMED", exec |-> r.exec, fence |-> r.fence, gate |-> r.gate]
  <2>1. gate' = gate /\ entry' = [entry EXCEPT ![r.week] = c]
    BY <1>6 DEF Handle, GateAfter, EntryAfter
  <2>2. c.status = "CLAIMED" /\ c.exec = r.exec /\ c.gate = r.gate
    OBVIOUS
  <2> HIDE DEF c
  <2>3. entry'[r.week] = c /\ [entry' EXCEPT ![r.week] = c] = entry'
    BY <1>1, <2>1
  <2>4. ClaimGranted(r.week, r)'
    BY <2>2, <2>3 DEF ClaimGranted
  <2>5. Granted(r)'
    BY <1>2, <1>6, <2>1, <2>4 DEF Granted, RequireGate
  <2> QED
    BY <1>6, <2>1, <2>3, <2>5 DEF GateAfter, EntryAfter, c
<1>7. CASE Granted(r) /\ r.op = "release"
  <2>1. entry' = entry /\ (Granted(r)' <=> Granted(r))
    BY <1>2, <1>7 DEF Handle, EntryAfter, Granted
  <2>2. GateAfter(r)' = gate'
    <3>1. CASE gate.owner = r.owner /\ gate.token = r.gate /\ gate.exec = r.exec
      <4>1. gate' = [gate EXCEPT !.active = FALSE]
        BY <1>7, <3>1 DEF Handle, GateAfter
      <4>2. [gate' EXCEPT !.active = FALSE] = gate'
        BY <1>1, <4>1 DEF Gate
      <4> QED
        BY <1>7, <4>2 DEF GateAfter
    <3>2. CASE ~(gate.owner = r.owner /\ gate.token = r.gate /\ gate.exec = r.exec)
      <4>1. gate' = gate
        BY <1>7, <3>2 DEF Handle, GateAfter
      <4> QED
        BY <1>7, <3>2, <4>1 DEF GateAfter
    <3> QED
      BY <3>1, <3>2
  <2> QED
    BY <1>7, <2>1, <2>2 DEF EntryAfter
<1>8. CASE Granted(r) /\ r.op = "complete"
  <2>1. gate' = gate /\ (Granted(r)' <=> Granted(r))
    BY <1>2, <1>8 DEF Handle, GateAfter, Granted
  <2>2. EntryAfter(r)' = entry'
    <3>1. CASE entry[r.week].exec = r.exec /\ entry[r.week].status = "CLAIMED"
      <4>1. entry' = [entry EXCEPT ![r.week].status = r.status]
        BY <1>8, <3>1 DEF Handle, EntryAfter
      <4>2. [entry' EXCEPT ![r.week].status = r.status] = entry'
        BY <1>1, <4>1 DEF Entry
      <4> QED
        BY <1>8, <4>2 DEF EntryAfter
    <3>2. CASE ~(entry[r.week].exec = r.exec /\ entry[r.week].status = "CLAIMED")
      <4>1. entry' = entry
        BY <1>8, <3>2 DEF Handle, EntryAfter
      <4> QED
        BY <1>8, <3>2, <4>1 DEF EntryAfter
    <3> QED
      BY <3>1, <3>2
  <2> QED
    BY <1>8, <2>1, <2>2 DEF GateAfter
<1> QED
  BY <1>1, <1>3, <1>4, <1>5, <1>6, <1>7, <1>8
===============================================================================
