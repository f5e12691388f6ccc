---------------------------- MODULE RoleLeaseProofs ----------------------------
(***************************************************************************)
(* Theorems about RoleLease, for every number of processes, every timing   *)
(* that satisfies TimingAssumption and every number of faults.             *)
(*                                                                         *)
(* HolderOwnsLease is not inductive: it has to know what an answer on its  *)
(* way to a process still guarantees when it arrives (AnswerInv), which    *)
(* requests of a process can be in flight in which phase (CallInv,         *)
(* PhaseInv, LateInv), and that the local deadline of a holder is never    *)
(* later than the backend's by more than the safety margin (HolderInv).    *)
(*                                                                         *)
(* TransientFaultsTolerated needs an account of the time the faults have   *)
(* cost so far (Working, Steady), and HolderOwnsLease to know that a       *)
(* renewal sent in time is granted.                                        *)
(***************************************************************************)
EXTENDS RoleLease, TLAPS

\* Row l belongs to p under token t for at least n more units of time.
OwnsFor(l, p, t, n) ==
  /\ l.owner = p
  /\ l.token = t
  /\ l.left >= n

\* A request in flight is the caller's own, is no older than its answer allows,
\* carries the token the caller holds, and a release is the last call made.
CallInv ==
  \A p \in Proc : ~Idle(p) =>
    /\ call[p].req.owner = p
    /\ call[p].since <= call[p].age
    /\ call[p].req.op = "renew" =>
         /\ call[p].req.token = fence[p]
         /\ call[p].answered => call[p].answer.token = fence[p]
    /\ call[p].req.op = "release" => phase[p] = "stopping" /\ ~renewer[p]

\* A process that has not started or has ended renews nothing.
PhaseInv ==
  \A p \in Proc :
    /\ phase[p] \in {"new", "starting", "gone"} => ~renewer[p]
    /\ phase[p] = "gone" => Idle(p)

\* A release nobody waits for was sent by a process that has ended.
LateInv ==
  \A s \in Slot :
    late[s] # None /\ late[s].op = "release" => phase[late[s].owner] = "gone"

\* A granted lease outlives the way back of its answer.
AnswerInv ==
  \A p \in Proc :
    /\ ~Idle(p)
    /\ call[p].answered
    /\ call[p].answer.ok
    /\ call[p].req.op # "release"
    /\ call[p].since < Ttl
    => OwnsFor(lease, p, call[p].answer.token, Ttl - call[p].since)

\* The row of a holder expires no earlier than its local deadline, less the margin.
HolderInv ==
  \A p \in Proc : Holder(p) =>
    OwnsFor(lease, p, fence[p], validLeft[p] - SafetyMargin)

IInv ==
  /\ TypeOK
  /\ lease.left > 0 => lease.token > 0
  /\ CallInv
  /\ PhaseInv
  /\ LateInv
  /\ AnswerInv
  /\ HolderInv

-------------------------------------------------------------------------------
(* The operators of coordination.php.                                        *)

Row == [owner : Proc \cup {None}, token : Nat, left : 0..Ttl]

\* Whatever the request, the row stays well typed, its token never decreases and
\* a new owner gets a larger one.
LEMMA RowAfterType ==
  ASSUME NEW l \in Row, NEW r \in Request
  PROVE  /\ RowAfter(l, r) \in Row
         /\ RowAfter(l, r).token >= l.token
         /\ RowAfter(l, r).owner # l.owner => RowAfter(l, r).token > l.token
<1> USE TimingAssumption DEF Row, Request
<1>1. CASE r.op = "acquire"
  BY <1>1 DEF RowAfter, AcquireLease, AcquireGranted
<1>2. CASE r.op = "renew"
  BY <1>2 DEF RowAfter, RenewLease, RenewGranted
<1>3. CASE r.op = "release"
  BY <1>3 DEF RowAfter, ReleaseLease
<1>4. QED
  BY <1>1, <1>2, <1>3

\* While a row is active, only a release of its owner can shorten it; every other
\* request leaves owner and token alone.
LEMMA RowAfterActive ==
  ASSUME NEW l \in Row, NEW r \in Request,
         l.left > 0,
         r.op = "release" => r.owner # l.owner
  PROVE  /\ RowAfter(l, r).owner = l.owner
         /\ RowAfter(l, r).token = l.token
         /\ RowAfter(l, r).left >= l.left
<1> USE TimingAssumption DEF Row, Request
<1>1. CASE r.op = "acquire"
  BY <1>1 DEF RowAfter, AcquireLease, AcquireGranted
<1>2. CASE r.op = "renew"
  BY <1>2 DEF RowAfter, RenewLease, RenewGranted
<1>3. CASE r.op = "release"
  BY <1>3 DEF RowAfter, ReleaseLease
<1>4. QED
  BY <1>1, <1>2, <1>3

\* A granted acquisition or renewal gives its owner a full TTL under the token
\* of the answer.
LEMMA AnswerIsCurrent ==
  ASSUME NEW l \in Row, NEW r \in Request,
         r.op # "release",
         AnswerTo(l, r).ok
  PROVE  /\ RowAfter(l, r).owner = r.owner
         /\ RowAfter(l, r).token = AnswerTo(l, r).token
         /\ RowAfter(l, r).left = Ttl
<1> USE TimingAssumption DEF Row, Request
<1>1. CASE r.op = "acquire"
  BY <1>1 DEF RowAfter, AnswerTo, AcquireLease, AcquireGranted
<1>2. CASE r.op = "renew"
  BY <1>2 DEF RowAfter, AnswerTo, RenewLease, RenewGranted
<1>3. QED
  BY <1>1, <1>2

\* An active row has been handed out, so its token is positive.
LEMMA RowAfterToken ==
  ASSUME NEW l \in Row, NEW r \in Request,
         l.left > 0 => l.token > 0
  PROVE  RowAfter(l, r).left > 0 => RowAfter(l, r).token > 0
<1> USE TimingAssumption DEF Row, Request
<1>1. CASE r.op = "acquire"
  BY <1>1 DEF RowAfter, AcquireLease, AcquireGranted
<1>2. CASE r.op = "renew"
  BY <1>2 DEF RowAfter, RenewLease, RenewGranted
<1>3. CASE r.op = "release"
  BY <1>3 DEF RowAfter, ReleaseLease
<1>4. QED
  BY <1>1, <1>2, <1>3

LEMMA AnswerType ==
  ASSUME NEW l \in Row, NEW r \in Request
  PROVE  /\ AnswerTo(l, r) \in [ok : BOOLEAN, token : Nat]
         /\ r.op = "renew" => AnswerTo(l, r).token = r.token
<1> USE TimingAssumption DEF Row, Request
<1>1. CASE r.op = "acquire"
  <2>1. AcquireLease(l, r.owner).token \in Nat
    BY DEF AcquireLease
  <2>2. AcquireGranted(l, r.owner) \in BOOLEAN
    BY DEF AcquireGranted
  <2>3. QED
    BY <1>1, <2>1, <2>2 DEF AnswerTo
<1>2. CASE r.op = "renew"
  <2>1. RenewGranted(l, r.owner, r.token) \in BOOLEAN
    BY DEF RenewGranted
  <2>2. QED
    BY <1>2, <2>1 DEF AnswerTo
<1>3. CASE r.op = "release"
  BY <1>3 DEF AnswerTo
<1>4. QED
  BY <1>1, <1>2, <1>3

-------------------------------------------------------------------------------
(* Type correctness of one step.                                             *)

LEMMA SendType ==
  ASSUME TypeOK, NEW p \in Proc, NEW t \in Nat,
         NEW op \in {"acquire", "renew", "release"}, Send(p, op, t)
  PROVE  call' \in [Proc -> Call \cup {None}]
<1>1. 0 \in 0..RequestTimeout
  BY TimingAssumption
<1>2. [req |-> [op |-> op, owner |-> p, token |-> t],
       answered |-> FALSE, answer |-> NoAnswer, age |-> 0, since |-> 0] \in Call
  BY <1>1 DEF Call, Request, NoAnswer
<1>3. QED
  BY <1>2 DEF TypeOK, Send

LEMMA HangupType ==
  ASSUME TypeOK, NEW p \in Proc, Hangup(p)
  PROVE  call' \in [Proc -> Call \cup {None}]
BY DEF TypeOK, Hangup

\* However a call fails, only the caller's slot is freed, and a request left in
\* the network is the one the caller had sent.
LEMMA CallFailsType ==
  ASSUME TypeOK, NEW p \in Proc, NEW op, CallFails(p, op)
  PROVE  /\ call' \in [Proc -> Call \cup {None}]
         /\ late' \in [Slot -> Request \cup {None}]
         /\ faults' \in 0..MaxFaults
<1>1. call[p] \in Call
  BY DEF TypeOK, CallFails, Idle
<1>2. call[p].req \in Request
  BY <1>1 DEF Call
<1>3. faults' \in 0..MaxFaults
  BY TimingAssumption DEF TypeOK, CallFails, Fault
<1>4. QED
  BY <1>2, <1>3, HangupType DEF TypeOK, CallFails, Abandon

LEMMA TypeStep ==
  ASSUME TypeOK, CallInv, [Next]_vars
  PROVE  TypeOK'
<1> USE TimingAssumption
<1>1. ASSUME NEW p \in Proc, Start(p) PROVE TypeOK'
  BY <1>1, SendType DEF TypeOK, Start, Phase
<1>2. ASSUME NEW p \in Proc, StartRefused(p) PROVE TypeOK'
  BY <1>2, CallFailsType, HangupType DEF TypeOK, StartRefused, Phase
<1>3. ASSUME NEW p \in Proc, Activate(p) PROVE TypeOK'
  <2>1. call[p] \in Call
    BY <1>3 DEF TypeOK, Activate, Answered, Idle
  <2>2. call[p].answer.token \in Nat
    BY <2>1 DEF Call
  <2>3. QED
    BY <1>3, <2>2, HangupType DEF TypeOK, Activate, Phase
<1>4. ASSUME NEW p \in Proc, Suspend(p) PROVE TypeOK'
  BY <1>4 DEF TypeOK, Suspend, Phase
<1>5. ASSUME NEW p \in Proc, Resume(p) PROVE TypeOK'
  BY <1>5 DEF TypeOK, Resume, Phase
<1>6. ASSUME NEW p \in Proc, Reacquire(p) PROVE TypeOK'
  BY <1>6, SendType DEF TypeOK, Reacquire, procVars
<1>7. ASSUME NEW p \in Proc, ReacquireRefused(p) PROVE TypeOK'
  BY <1>7, CallFailsType, HangupType DEF TypeOK, ReacquireRefused, procVars
<1>8. ASSUME NEW p \in Proc, RequestStop(p) PROVE TypeOK'
  BY <1>8 DEF TypeOK, RequestStop
<1>9. ASSUME NEW p \in Proc, Shutdown(p) PROVE TypeOK'
  BY <1>9 DEF TypeOK, Shutdown, Phase
<1>10. ASSUME NEW p \in Proc, Release(p) PROVE TypeOK'
  <2>1. fence[p] \in Nat
    BY DEF TypeOK
  <2>2. QED
    BY <1>10, <2>1, SendType DEF TypeOK, Release, procVars
<1>11. ASSUME NEW p \in Proc, Exit(p) PROVE TypeOK'
  BY <1>11, CallFailsType, HangupType DEF TypeOK, Exit, Phase
<1>12. ASSUME NEW p \in Proc, Crash(p) PROVE TypeOK'
  <2>1. ~Idle(p) => call[p].req \in Request
    BY DEF TypeOK, Idle, Call
  <2>2. /\ call' \in [Proc -> Call \cup {None}]
        /\ late' \in [Slot -> Request \cup {None}]
    BY <1>12, <2>1, HangupType DEF TypeOK, Crash, Abandon
  <2>3. faults' \in 0..MaxFaults
    BY <1>12 DEF TypeOK, Crash, Fault
  <2>4. QED
    BY <1>12, <2>2, <2>3 DEF TypeOK, Crash, Phase
<1>13. ASSUME NEW p \in Proc, RenewSend(p) PROVE TypeOK'
  <2>1. fence[p] \in Nat
    BY DEF TypeOK
  <2>2. QED
    BY <1>13, <2>1, SendType DEF TypeOK, RenewSend, procVars
<1>14. ASSUME NEW p \in Proc, RenewAccepted(p) PROVE TypeOK'
  BY <1>14, HangupType DEF TypeOK, RenewAccepted
<1>15. ASSUME NEW p \in Proc, RenewRejected(p) PROVE TypeOK'
  BY <1>15, HangupType DEF TypeOK, RenewRejected
<1>16. ASSUME NEW p \in Proc, RenewFailed(p) PROVE TypeOK'
  BY <1>16, CallFailsType DEF TypeOK, RenewFailed
<1>17. ASSUME NEW p \in Proc, RenewerExit(p) PROVE TypeOK'
  BY <1>17 DEF TypeOK, RenewerExit
<1>18. ASSUME NEW p \in Proc, Process(p) PROVE TypeOK'
  <2>1. call[p] \in Call /\ call[p].req \in Request /\ lease \in Row
    BY <1>18 DEF TypeOK, Process, Idle, Call, Row
  <2>2. AnswerTo(lease, call[p].req) \in [ok : BOOLEAN, token : Nat]
    BY <2>1, AnswerType
  <2>3. [call[p] EXCEPT !.answered = TRUE, !.answer = AnswerTo(lease, call[p].req)] \in Call
    BY <2>1, <2>2 DEF Call
  <2>4. call' \in [Proc -> Call \cup {None}]
    BY <1>18, <2>3 DEF TypeOK, Process
  <2>5. lease' \in Row
    BY <1>18, <2>1, RowAfterType DEF Process
  <2>6. QED
    BY <1>18, <2>4, <2>5 DEF TypeOK, Process, procVars, Row
<1>19. ASSUME NEW s \in Slot, ProcessLate(s) PROVE TypeOK'
  <2>1. late[s] \in Request /\ lease \in Row
    BY <1>19 DEF TypeOK, ProcessLate, Row
  <2>2. lease' \in Row
    BY <1>19, <2>1, RowAfterType DEF ProcessLate
  <2>3. QED
    BY <1>19, <2>2 DEF TypeOK, ProcessLate, procVars, Row
<1>20. ASSUME NEW p \in Proc, Pause(p) PROVE TypeOK'
  BY <1>20 DEF TypeOK, Pause, Fault
<1>21. CASE Tick
  <2>1. \A n \in Nat : Less(n) \in Nat /\ Less(n) <= n
    BY DEF Less
  <2>2. lease' \in [owner : Proc \cup {None}, token : Nat, left : 0..Ttl]
    <3>1. lease.left \in 0..Ttl
      BY DEF TypeOK
    <3>2. Less(lease.left) \in 0..Ttl
      BY <3>1, <2>1
    <3>3. QED
      BY <1>21, <3>2 DEF TypeOK, Tick
  <2>3. validLeft' \in [Proc -> 0..Ttl]
    <3>1. \A p \in Proc : validLeft[p] \in 0..Ttl
      BY DEF TypeOK
    <3>2. \A p \in Proc : Less(validLeft[p]) \in 0..Ttl
      BY <3>1, <2>1
    <3>3. QED
      BY <1>21, <3>2 DEF Tick
  <2>4. wait' \in [Proc -> Nat]
    <3>1. \A p \in Proc : wait[p] \in Nat
      BY DEF TypeOK
    <3>2. QED
      BY <1>21, <2>1, <3>1 DEF Tick
  <2>5. ASSUME NEW p \in Proc, ~Idle(p)
        PROVE  [call[p] EXCEPT !.age = @ + 1,
                  !.since = IF call[p].answered THEN @ + 1 ELSE @] \in Call
    <3>1. /\ call[p] \in Call
          /\ call[p].age \in 0..RequestTimeout
          /\ call[p].since \in 0..RequestTimeout
      BY <2>5 DEF TypeOK, Idle, Call
    <3>2. call[p].age < RequestTimeout /\ call[p].since <= call[p].age
      BY <1>21, <2>5 DEF Tick, CallInv
    <3>3. /\ call[p].age + 1 \in 0..RequestTimeout
          /\ (IF call[p].answered THEN call[p].since + 1 ELSE call[p].since)
               \in 0..RequestTimeout
      BY <3>1, <3>2
    <3>4. QED
      BY <3>1, <3>3 DEF Call
  <2>6. call' \in [Proc -> Call \cup {None}]
    BY <1>21, <2>5 DEF Tick
  <2>7. QED
    BY <1>21, <2>2, <2>3, <2>4, <2>6 DEF TypeOK, Tick
<1>22. CASE UNCHANGED vars
  BY <1>22 DEF TypeOK, vars
<1>23. QED
  BY <1>1, <1>2, <1>3, <1>4, <1>5, <1>6, <1>7, <1>8, <1>9, <1>10, <1>11, <1>12,
     <1>13, <1>14, <1>15, <1>16, <1>17, <1>18, <1>19, <1>20, <1>21, <1>22
     DEF Next, Main, Renewal

-------------------------------------------------------------------------------
(* Which calls can be in flight in which phase.                              *)

\* Time only ages a call in flight.
LEMMA TickCall ==
  ASSUME TypeOK, Tick, NEW p \in Proc, ~Idle(p)'
  PROVE  /\ ~Idle(p)
         /\ call'[p].req = call[p].req
         /\ call'[p].answered = call[p].answered
         /\ call'[p].answer = call[p].answer
         /\ call'[p].age = call[p].age + 1
         /\ call'[p].since = IF call[p].answered THEN call[p].since + 1
                                                ELSE call[p].since
<1>1. ~Idle(p)
  BY DEF Tick, Idle
<1>2. call[p] \in Call
  BY <1>1 DEF TypeOK, Idle
<1>3. call'[p] = [call[p] EXCEPT !.age = @ + 1,
                    !.since = IF call[p].answered THEN @ + 1 ELSE @]
  BY <1>1 DEF Tick
<1>4. QED
  BY <1>1, <1>2, <1>3 DEF Call

LEMMA CallStep ==
  ASSUME TypeOK, CallInv, PhaseInv, [Next]_vars
  PROVE  CallInv' /\ PhaseInv'
<1> USE DEF TypeOK, CallInv, PhaseInv, Idle
<1>1. ASSUME NEW p \in Proc, Start(p) PROVE CallInv' /\ PhaseInv'
  BY <1>1 DEF Start, Send
<1>2. ASSUME NEW p \in Proc, StartRefused(p) PROVE CallInv' /\ PhaseInv'
  BY <1>2 DEF StartRefused, Answered, Hangup, CallFails, Abandon
<1>3. ASSUME NEW p \in Proc, Activate(p) PROVE CallInv' /\ PhaseInv'
  BY <1>3 DEF Activate, Answered, Hangup
<1>4. ASSUME NEW p \in Proc, Suspend(p) PROVE CallInv' /\ PhaseInv'
  BY <1>4 DEF Suspend
<1>5. ASSUME NEW p \in Proc, Resume(p) PROVE CallInv' /\ PhaseInv'
  BY <1>5 DEF Resume
<1>6. ASSUME NEW p \in Proc, Reacquire(p) PROVE CallInv' /\ PhaseInv'
  BY <1>6 DEF Reacquire, Send, procVars
<1>7. ASSUME NEW p \in Proc, ReacquireRefused(p) PROVE CallInv' /\ PhaseInv'
  BY <1>7 DEF ReacquireRefused, Answered, Hangup, CallFails, Abandon, procVars
<1>8. ASSUME NEW p \in Proc, RequestStop(p) PROVE CallInv' /\ PhaseInv'
  BY <1>8 DEF RequestStop
<1>9. ASSUME NEW p \in Proc, Shutdown(p) PROVE CallInv' /\ PhaseInv'
  BY <1>9 DEF Shutdown
<1>10. ASSUME NEW p \in Proc, Release(p) PROVE CallInv' /\ PhaseInv'
  BY <1>10 DEF Release, Send, procVars
<1>11. ASSUME NEW p \in Proc, Exit(p) PROVE CallInv' /\ PhaseInv'
  BY <1>11 DEF Exit, Answered, Hangup, CallFails, Abandon
<1>12. ASSUME NEW p \in Proc, Crash(p) PROVE CallInv' /\ PhaseInv'
  BY <1>12 DEF Crash, Abandon, Hangup
<1>13. ASSUME NEW p \in Proc, RenewSend(p) PROVE CallInv' /\ PhaseInv'
  BY <1>13 DEF RenewSend, RenewDue, Send, procVars
<1>14. ASSUME NEW p \in Proc, RenewAccepted(p) PROVE CallInv' /\ PhaseInv'
  BY <1>14 DEF RenewAccepted, Answered, Hangup
<1>15. ASSUME NEW p \in Proc, RenewRejected(p) PROVE CallInv' /\ PhaseInv'
  BY <1>15 DEF RenewRejected, Answered, Hangup
<1>16. ASSUME NEW p \in Proc, RenewFailed(p) PROVE CallInv' /\ PhaseInv'
  BY <1>16 DEF RenewFailed, Answered, Hangup, CallFails, Abandon
<1>17. ASSUME NEW p \in Proc, RenewerExit(p) PROVE CallInv' /\ PhaseInv'
  BY <1>17 DEF RenewerExit
<1>18. ASSUME NEW p \in Proc, Process(p) PROVE CallInv' /\ PhaseInv'
  <2>1. call[p] \in Call /\ call[p].req \in Request /\ lease \in Row
    BY <1>18 DEF Process, Call, Row
  <2>2. call[p].req.op = "renew" => AnswerTo(lease, call[p].req).token = call[p].req.token
    BY <2>1, AnswerType
  <2>3. QED
    BY <1>18, <2>1, <2>2 DEF Process, procVars, Call
<1>19. ASSUME NEW s \in Slot, ProcessLate(s) PROVE CallInv' /\ PhaseInv'
  BY <1>19 DEF ProcessLate, procVars
<1>20. ASSUME NEW p \in Proc, Pause(p) PROVE CallInv' /\ PhaseInv'
  BY <1>20 DEF Pause
<1>21. CASE Tick
  <2>1. PhaseInv'
    BY <1>21 DEF Tick
  <2>2. ASSUME NEW p \in Proc, call'[p] # None
        PROVE  /\ call'[p].req.owner = p
               /\ call'[p].since <= call'[p].age
               /\ call'[p].req.op = "renew" =>
                    /\ call'[p].req.token = fence'[p]
                    /\ call'[p].answered => call'[p].answer.token = fence'[p]
               /\ call'[p].req.op = "release" => phase'[p] = "stopping" /\ ~renewer'[p]
    <3>1. call[p] # None /\ call[p] \in Call
      BY <1>21, <2>2, TickCall
    <3>2. call[p].since \in Nat /\ call[p].age \in Nat
      BY <3>1 DEF Call
    <3>3. call'[p].since <= call'[p].age
      BY <1>21, <2>2, <3>1, <3>2, TickCall
    <3>4. /\ call'[p].req = call[p].req
          /\ call'[p].answered = call[p].answered
          /\ call'[p].answer = call[p].answer
      BY <1>21, <2>2, TickCall
    <3>5. UNCHANGED <<fence, phase, renewer>>
      BY <1>21 DEF Tick
    <3>6. QED
      BY <3>1, <3>3, <3>4, <3>5
  <2>3. CallInv'
    BY <2>2
  <2>4. QED
    BY <2>1, <2>3
<1>22. CASE UNCHANGED vars
  BY <1>22 DEF vars
<1>23. QED
  BY <1>1, <1>2, <1>3, <1>4, <1>5, <1>6, <1>7, <1>8, <1>9, <1>10, <1>11, <1>12,
     <1>13, <1>14, <1>15, <1>16, <1>17, <1>18, <1>19, <1>20, <1>21, <1>22
     DEF Next, Main, Renewal

\* A process that has ended stays ended, so its late release can disturb nobody.
LEMMA LateStep ==
  ASSUME TypeOK, CallInv, LateInv, [Next]_vars
  PROVE  LateInv'
<1>0. \A s \in Slot : late[s] # None => late[s].owner \in Proc
  BY DEF TypeOK, Request
<1> USE <1>0 DEF LateInv, Phase
<1>1. ASSUME NEW p \in Proc, Start(p) PROVE LateInv'
  BY <1>1 DEF Start, Send
<1>2. ASSUME NEW p \in Proc, StartRefused(p) PROVE LateInv'
  BY <1>2 DEF StartRefused, CallFails, Abandon, Hangup, TypeOK
<1>3. ASSUME NEW p \in Proc, Activate(p) PROVE LateInv'
  BY <1>3 DEF Activate
<1>4. ASSUME NEW p \in Proc, Suspend(p) PROVE LateInv'
  BY <1>4 DEF Suspend
<1>5. ASSUME NEW p \in Proc, Resume(p) PROVE LateInv'
  BY <1>5 DEF Resume
<1>6. ASSUME NEW p \in Proc, Reacquire(p) PROVE LateInv'
  BY <1>6 DEF Reacquire, procVars
<1>7. ASSUME NEW p \in Proc, ReacquireRefused(p) PROVE LateInv'
  BY <1>7 DEF ReacquireRefused, CallFails, Abandon, Hangup, TypeOK, procVars
<1>8. ASSUME NEW p \in Proc, RequestStop(p) PROVE LateInv'
  BY <1>8 DEF RequestStop
<1>9. ASSUME NEW p \in Proc, Shutdown(p) PROVE LateInv'
  BY <1>9 DEF Shutdown
<1>10. ASSUME NEW p \in Proc, Release(p) PROVE LateInv'
  BY <1>10 DEF Release, procVars
<1>11. ASSUME NEW p \in Proc, Exit(p) PROVE LateInv'
  BY <1>11 DEF Exit, CallFails, Abandon, Hangup, TypeOK, CallInv
<1>12. ASSUME NEW p \in Proc, Crash(p) PROVE LateInv'
  BY <1>12 DEF Crash, Abandon, Hangup, TypeOK, CallInv
<1>13. ASSUME NEW p \in Proc, RenewSend(p) PROVE LateInv'
  BY <1>13 DEF RenewSend, procVars
<1>14. ASSUME NEW p \in Proc, RenewAccepted(p) PROVE LateInv'
  BY <1>14 DEF RenewAccepted
<1>15. ASSUME NEW p \in Proc, RenewRejected(p) PROVE LateInv'
  BY <1>15 DEF RenewRejected
<1>16. ASSUME NEW p \in Proc, RenewFailed(p) PROVE LateInv'
  BY <1>16 DEF RenewFailed, CallFails, Abandon, Hangup, TypeOK
<1>17. ASSUME NEW p \in Proc, RenewerExit(p) PROVE LateInv'
  BY <1>17 DEF RenewerExit
<1>18. ASSUME NEW p \in Proc, Process(p) PROVE LateInv'
  BY <1>18 DEF Process, procVars
<1>19. ASSUME NEW s \in Slot, ProcessLate(s) PROVE LateInv'
  BY <1>19 DEF ProcessLate, procVars
<1>20. ASSUME NEW p \in Proc, Pause(p) PROVE LateInv'
  BY <1>20 DEF Pause
<1>21. CASE Tick
  BY <1>21 DEF Tick
<1>22. CASE UNCHANGED vars
  BY <1>22 DEF vars
<1>23. QED
  BY <1>1, <1>2, <1>3, <1>4, <1>5, <1>6, <1>7, <1>8, <1>9, <1>10, <1>11, <1>12,
     <1>13, <1>14, <1>15, <1>16, <1>17, <1>18, <1>19, <1>20, <1>21, <1>22
     DEF Next, Main, Renewal

-------------------------------------------------------------------------------
(* What the row still guarantees to a holder and to an answer on its way.    *)

\* No request but a release of its owner takes time off an active row.
LEMMA RowKept ==
  ASSUME TypeOK, NEW r \in Request, lease' = RowAfter(lease, r),
         NEW p \in Proc, NEW t, NEW n \in Int, n > 0, OwnsFor(lease, p, t, n),
         r.op = "release" => r.owner # p
  PROVE  OwnsFor(lease', p, t, n)
<1>1. lease \in Row /\ lease.left > 0
  BY DEF TypeOK, OwnsFor, Row
<1>2. /\ RowAfter(lease, r).owner = lease.owner
      /\ RowAfter(lease, r).token = lease.token
      /\ RowAfter(lease, r).left >= lease.left
  BY <1>1, RowAfterActive DEF OwnsFor
<1>3. RowAfter(lease, r).left \in Int /\ lease.left \in Int
  BY <1>1, RowAfterType DEF Row
<1>4. QED
  BY <1>2, <1>3 DEF OwnsFor

\* A process that waits for the answer to an acquisition or a renewal, or that
\* holds the lease, has no release anywhere.
LEMMA NoReleaseByOwner ==
  ASSUME TypeOK, CallInv, PhaseInv, LateInv, NEW p \in Proc,
         \/ Holder(p)
         \/ ~Idle(p) /\ call[p].req.op # "release"
  PROVE  /\ \A q \in Proc : ~Idle(q) /\ call[q].req.op = "release"
                              => call[q].req.owner # p
         /\ \A s \in Slot : late[s] # None /\ late[s].op = "release"
                              => late[s].owner # p
<1>1. ASSUME NEW q \in Proc, ~Idle(q), call[q].req.op = "release"
      PROVE  call[q].req.owner # p
  BY <1>1 DEF CallInv, Holder
<1>2. ASSUME NEW s \in Slot, late[s] # None, late[s].op = "release"
      PROVE  late[s].owner # p
  BY <1>2 DEF LateInv, PhaseInv, Holder
<1>3. QED
  BY <1>1, <1>2

LEMMA AnswerStep ==
  ASSUME TypeOK, CallInv, PhaseInv, LateInv, AnswerInv, [Next]_vars
  PROVE  AnswerInv'
<1> USE DEF AnswerInv, OwnsFor, Idle
<1>1. ASSUME NEW p \in Proc, Start(p) PROVE AnswerInv'
  BY <1>1 DEF Start, Send, TypeOK
<1>2. ASSUME NEW p \in Proc, StartRefused(p) PROVE AnswerInv'
  BY <1>2 DEF StartRefused, CallFails, Abandon, Hangup, TypeOK
<1>3. ASSUME NEW p \in Proc, Activate(p) PROVE AnswerInv'
  BY <1>3 DEF Activate, Hangup, TypeOK
<1>4. ASSUME NEW p \in Proc, Suspend(p) PROVE AnswerInv'
  BY <1>4 DEF Suspend
<1>5. ASSUME NEW p \in Proc, Resume(p) PROVE AnswerInv'
  BY <1>5 DEF Resume
<1>6. ASSUME NEW p \in Proc, Reacquire(p) PROVE AnswerInv'
  BY <1>6 DEF Reacquire, Send, TypeOK, procVars
<1>7. ASSUME NEW p \in Proc, ReacquireRefused(p) PROVE AnswerInv'
  BY <1>7 DEF ReacquireRefused, CallFails, Abandon, Hangup, TypeOK, procVars
<1>8. ASSUME NEW p \in Proc, RequestStop(p) PROVE AnswerInv'
  BY <1>8 DEF RequestStop
<1>9. ASSUME NEW p \in Proc, Shutdown(p) PROVE AnswerInv'
  BY <1>9 DEF Shutdown
<1>10. ASSUME NEW p \in Proc, Release(p) PROVE AnswerInv'
  BY <1>10 DEF Release, Send, TypeOK, procVars
<1>11. ASSUME NEW p \in Proc, Exit(p) PROVE AnswerInv'
  BY <1>11 DEF Exit, CallFails, Abandon, Hangup, TypeOK
<1>12. ASSUME NEW p \in Proc, Crash(p) PROVE AnswerInv'
  BY <1>12 DEF Crash, Abandon, Hangup, TypeOK
<1>13. ASSUME NEW p \in Proc, RenewSend(p) PROVE AnswerInv'
  BY <1>13 DEF RenewSend, RenewDue, Send, TypeOK, procVars
<1>14. ASSUME NEW p \in Proc, RenewAccepted(p) PROVE AnswerInv'
  BY <1>14 DEF RenewAccepted, Hangup, TypeOK
<1>15. ASSUME NEW p \in Proc, RenewRejected(p) PROVE AnswerInv'
  BY <1>15 DEF RenewRejected, Hangup, TypeOK
<1>16. ASSUME NEW p \in Proc, RenewFailed(p) PROVE AnswerInv'
  BY <1>16 DEF RenewFailed, CallFails, Abandon, Hangup, TypeOK
<1>17. ASSUME NEW p \in Proc, RenewerExit(p) PROVE AnswerInv'
  BY <1>17 DEF RenewerExit
<1>18. ASSUME NEW p \in Proc, Process(p) PROVE AnswerInv'
  <2>1. call[p] \in Call /\ call[p].req \in Request /\ lease \in Row
    BY <1>18 DEF Process, Idle, Call, Row, TypeOK
  <2>2. lease' = RowAfter(lease, call[p].req)
    BY <1>18 DEF Process
  <2> SUFFICES ASSUME NEW q \in Proc, call'[q] # None, call'[q].answered,
                      call'[q].answer.ok, call'[q].req.op # "release",
                      call'[q].since < Ttl
               PROVE  OwnsFor(lease', q, call'[q].answer.token, Ttl - call'[q].since)
    OBVIOUS
  <2>3. CASE q = p
    <3>1. /\ call'[p].req = call[p].req
          /\ call'[p].answer = AnswerTo(lease, call[p].req)
          /\ call'[p].since = call[p].since
      BY <1>18, <2>1 DEF Process, Call, TypeOK
    <3>2. /\ RowAfter(lease, call[p].req).owner = call[p].req.owner
          /\ RowAfter(lease, call[p].req).token = call'[p].answer.token
          /\ RowAfter(lease, call[p].req).left = Ttl
      BY <2>1, <2>3, <3>1, AnswerIsCurrent
    <3>3. call[p].req.owner = p /\ call[p].since >= 0 /\ call[p].since \in Int
      BY <1>18, <2>1 DEF CallInv, Process, Call
    <3>4. QED
      BY <2>2, <2>3, <3>1, <3>2, <3>3, TimingAssumption
  <2>4. CASE q # p
    <3>1. call'[q] = call[q]
      BY <1>18, <2>4 DEF Process, TypeOK
    <3>2. call[q].since \in Int
      BY <3>1 DEF TypeOK, Call
    <3>3. OwnsFor(lease, q, call[q].answer.token, Ttl - call[q].since)
      BY <3>1
    <3>4. call[p].req.op = "release" => call[p].req.owner # q
      BY <1>18, <3>1, NoReleaseByOwner DEF Process
    <3>5. QED
      BY <2>1, <2>2, <3>1, <3>2, <3>3, <3>4, RowKept, TimingAssumption
  <2>5. QED
    BY <2>3, <2>4
<1>19. ASSUME NEW s \in Slot, ProcessLate(s) PROVE AnswerInv'
  <2>1. late[s] \in Request /\ lease' = RowAfter(lease, late[s]) /\ call' = call
    BY <1>19 DEF ProcessLate, TypeOK
  <2> SUFFICES ASSUME NEW q \in Proc, call[q] # None, call[q].answered,
                      call[q].answer.ok, call[q].req.op # "release",
                      call[q].since < Ttl
               PROVE  OwnsFor(lease', q, call[q].answer.token, Ttl - call[q].since)
    BY <2>1
  <2>2. call[q].since \in Int
    BY DEF TypeOK, Call
  <2>3. late[s].op = "release" => late[s].owner # q
    BY <1>19, NoReleaseByOwner DEF ProcessLate
  <2>4. QED
    BY <2>1, <2>2, <2>3, RowKept, TimingAssumption
<1>20. ASSUME NEW p \in Proc, Pause(p) PROVE AnswerInv'
  BY <1>20 DEF Pause
<1>21. CASE Tick
  <2> SUFFICES ASSUME NEW p \in Proc, call'[p] # None, call'[p].answered,
                      call'[p].answer.ok, call'[p].req.op # "release",
                      call'[p].since < Ttl
               PROVE  OwnsFor(lease', p, call'[p].answer.token, Ttl - call'[p].since)
    OBVIOUS
  <2>1. /\ call[p] # None
        /\ call'[p].req = call[p].req
        /\ call'[p].answered = call[p].answered
        /\ call'[p].answer = call[p].answer
        /\ call'[p].since = call[p].since + 1
    BY <1>21, TickCall
  <2>2. call[p].since \in Int
    BY <2>1 DEF TypeOK, Call
  <2>3. OwnsFor(lease, p, call[p].answer.token, Ttl - call[p].since)
    BY <2>1, <2>2, TimingAssumption
  <2>4. /\ lease'.owner = lease.owner
        /\ lease'.token = lease.token
        /\ lease'.left = Less(lease.left)
        /\ lease.left \in Nat
    <3>1. lease \in Row
      BY DEF TypeOK, Row
    <3>2. lease' = [lease EXCEPT !.left = Less(lease.left)]
      BY <1>21 DEF Tick
    <3>3. QED
      BY <3>1, <3>2 DEF Row
  <2>5. QED
    BY <2>1, <2>2, <2>3, <2>4, TimingAssumption DEF Less
<1>22. CASE UNCHANGED vars
  BY <1>22 DEF vars
<1>23. QED
  BY <1>1, <1>2, <1>3, <1>4, <1>5, <1>6, <1>7, <1>8, <1>9, <1>10, <1>11, <1>12,
     <1>13, <1>14, <1>15, <1>16, <1>17, <1>18, <1>19, <1>20, <1>21, <1>22
     DEF Next, Main, Renewal

LEMMA HolderStep ==
  ASSUME TypeOK, CallInv, PhaseInv, LateInv, AnswerInv, HolderInv, [Next]_vars
  PROVE  HolderInv'
<1> USE DEF TypeOK, HolderInv, OwnsFor, Holder, RoleLeaseValid
<1>1. ASSUME NEW p \in Proc, Start(p) PROVE HolderInv'
  BY <1>1 DEF Start
<1>2. ASSUME NEW p \in Proc, StartRefused(p) PROVE HolderInv'
  BY <1>2 DEF StartRefused
<1>3. ASSUME NEW p \in Proc, Activate(p) PROVE HolderInv'
  <2>1. /\ call[p] \in Call
        /\ call[p].since \in 0..RequestTimeout
    BY <1>3 DEF Activate, Answered, Idle, Call
  <2>2. call[p].since < Ttl
          => OwnsFor(lease, p, call[p].answer.token, Ttl - call[p].since)
    BY <1>3 DEF Activate, Answered, AnswerInv
  <2>3. QED
    BY <1>3, <2>1, <2>2, TimingAssumption DEF Activate
<1>4. ASSUME NEW p \in Proc, Suspend(p) PROVE HolderInv'
  BY <1>4 DEF Suspend
<1>5. ASSUME NEW p \in Proc, Resume(p) PROVE HolderInv'
  BY <1>5 DEF Resume
<1>6. ASSUME NEW p \in Proc, Reacquire(p) PROVE HolderInv'
  BY <1>6 DEF Reacquire, procVars
<1>7. ASSUME NEW p \in Proc, ReacquireRefused(p) PROVE HolderInv'
  BY <1>7 DEF ReacquireRefused, procVars
<1>8. ASSUME NEW p \in Proc, RequestStop(p) PROVE HolderInv'
  BY <1>8 DEF RequestStop
<1>9. ASSUME NEW p \in Proc, Shutdown(p) PROVE HolderInv'
  BY <1>9 DEF Shutdown
<1>10. ASSUME NEW p \in Proc, Release(p) PROVE HolderInv'
  BY <1>10 DEF Release, procVars
<1>11. ASSUME NEW p \in Proc, Exit(p) PROVE HolderInv'
  BY <1>11 DEF Exit
<1>12. ASSUME NEW p \in Proc, Crash(p) PROVE HolderInv'
  BY <1>12 DEF Crash
<1>13. ASSUME NEW p \in Proc, RenewSend(p) PROVE HolderInv'
  BY <1>13 DEF RenewSend, procVars
<1>14. ASSUME NEW p \in Proc, RenewAccepted(p) PROVE HolderInv'
  <2>1. /\ call[p] \in Call
        /\ call[p].since \in 0..RequestTimeout
        /\ call[p].answer.token = fence[p]
    BY <1>14 DEF RenewAccepted, Answered, Idle, Call, CallInv
  <2>2. call[p].since < Ttl
          => OwnsFor(lease, p, call[p].answer.token, Ttl - call[p].since)
    BY <1>14 DEF RenewAccepted, Answered, AnswerInv
  <2>3. QED
    BY <1>14, <2>1, <2>2, TimingAssumption DEF RenewAccepted
<1>15. ASSUME NEW p \in Proc, RenewRejected(p) PROVE HolderInv'
  BY <1>15 DEF RenewRejected
<1>16. ASSUME NEW p \in Proc, RenewFailed(p) PROVE HolderInv'
  BY <1>16 DEF RenewFailed
<1>17. ASSUME NEW p \in Proc, RenewerExit(p) PROVE HolderInv'
  BY <1>17 DEF RenewerExit
<1>18. ASSUME NEW p \in Proc, Process(p) PROVE HolderInv'
  <2>1. call[p].req \in Request /\ lease' = RowAfter(lease, call[p].req)
    BY <1>18 DEF Process, Idle, Call
  <2> SUFFICES ASSUME NEW q \in Proc, Holder(q)
               PROVE  OwnsFor(lease', q, fence[q], validLeft[q] - SafetyMargin)
    BY <1>18 DEF Process, procVars
  <2>2. call[p].req.op = "release" => call[p].req.owner # q
    BY <1>18, NoReleaseByOwner DEF Process
  <2>3. QED
    BY <2>1, <2>2, RowKept, TimingAssumption
<1>19. ASSUME NEW s \in Slot, ProcessLate(s) PROVE HolderInv'
  <2>1. late[s] \in Request /\ lease' = RowAfter(lease, late[s])
    BY <1>19 DEF ProcessLate
  <2> SUFFICES ASSUME NEW q \in Proc, Holder(q)
               PROVE  OwnsFor(lease', q, fence[q], validLeft[q] - SafetyMargin)
    BY <1>19 DEF ProcessLate, procVars
  <2>2. late[s].op = "release" => late[s].owner # q
    BY <1>19, NoReleaseByOwner DEF ProcessLate
  <2>3. QED
    BY <2>1, <2>2, RowKept, TimingAssumption
<1>20. ASSUME NEW p \in Proc, Pause(p) PROVE HolderInv'
  BY <1>20 DEF Pause
<1>21. CASE Tick
  <2> SUFFICES ASSUME NEW p \in Proc, Holder(p)'
               PROVE  OwnsFor(lease', p, fence[p], validLeft'[p] - SafetyMargin)
    BY <1>21 DEF Tick
  <2>1. /\ validLeft'[p] = Less(validLeft[p])
        /\ UNCHANGED <<phase, fence, lost>>
        /\ lease' = [lease EXCEPT !.left = Less(lease.left)]
    BY <1>21 DEF Tick
  <2>2. /\ validLeft[p] \in Nat
        /\ Less(validLeft[p]) \in Nat
        /\ Less(validLeft[p]) <= validLeft[p]
    BY DEF Less
  <2>3. Holder(p)
    BY <2>1, <2>2, TimingAssumption
  <2>4. /\ lease'.owner = lease.owner
        /\ lease'.token = lease.token
        /\ lease'.left = Less(lease.left)
        /\ lease.left \in Nat
    <3>1. lease \in Row
      BY DEF Row
    <3>2. QED
      BY <2>1, <3>1 DEF Row
  <2>5. OwnsFor(lease, p, fence[p], validLeft[p] - SafetyMargin)
    BY <2>3
  <2>6. validLeft'[p] > SafetyMargin
    OBVIOUS
  <2>7. QED
    BY <2>1, <2>2, <2>4, <2>5, <2>6, TimingAssumption DEF Less
<1>22. CASE UNCHANGED vars
  BY <1>22 DEF vars
<1>23. QED
  BY <1>1, <1>2, <1>3, <1>4, <1>5, <1>6, <1>7, <1>8, <1>9, <1>10, <1>11, <1>12,
     <1>13, <1>14, <1>15, <1>16, <1>17, <1>18, <1>19, <1>20, <1>21, <1>22
     DEF Next, Main, Renewal

\* Only the backend touches the row's token, and an active row has one.
LEMMA TokenStep ==
  ASSUME TypeOK, lease.left > 0 => lease.token > 0, [Next]_vars
  PROVE  /\ lease'.left > 0 => lease'.token > 0
         /\ lease'.token >= lease.token
         /\ lease'.owner # lease.owner => lease'.token > lease.token
<1> USE DEF TypeOK
<1>0. lease \in Row
  BY DEF Row
<1>1. ASSUME NEW r \in Request, lease' = RowAfter(lease, r)
      PROVE  /\ lease'.left > 0 => lease'.token > 0
             /\ lease'.token >= lease.token
             /\ lease'.owner # lease.owner => lease'.token > lease.token
  BY <1>0, <1>1, RowAfterType, RowAfterToken
<1>2. ASSUME NEW p \in Proc, Process(p)
      PROVE  \E r \in Request : lease' = RowAfter(lease, r)
  BY <1>2 DEF Process, Idle, Call
<1>3. ASSUME NEW s \in Slot, ProcessLate(s)
      PROVE  \E r \in Request : lease' = RowAfter(lease, r)
  BY <1>3 DEF ProcessLate
<1>4. ASSUME NEW p \in Proc, Main(p) \/ Renewal(p) \/ Crash(p) \/ Pause(p)
      PROVE  lease' = lease
  BY <1>4 DEF Main, Start, StartRefused, Activate, Suspend, Resume, Reacquire,
     ReacquireRefused, RequestStop, Shutdown, Release, Exit, Renewal, RenewSend,
     RenewAccepted, RenewRejected, RenewFailed, RenewerExit, Crash, Pause
<1>5. ASSUME Tick
      PROVE  /\ lease'.owner = lease.owner
             /\ lease'.token = lease.token
             /\ lease'.left = Less(lease.left)
  <2>1. lease' = [lease EXCEPT !.left = Less(lease.left)]
    BY <1>5 DEF Tick
  <2>2. QED
    BY <1>0, <2>1 DEF Row
<1>6. UNCHANGED vars => lease' = lease
  BY DEF vars
<1>7. lease.left \in Nat /\ lease.token \in Nat
  BY <1>0 DEF Row
<1>8. CASE \E r \in Request : lease' = RowAfter(lease, r)
  BY <1>1, <1>8
<1>9. CASE lease' = lease
  BY <1>7, <1>9
<1>10. CASE Tick
  BY <1>5, <1>7, <1>10 DEF Less
<1>11. QED
  BY <1>2, <1>3, <1>4, <1>6, <1>8, <1>9, <1>10 DEF Next

-------------------------------------------------------------------------------
(* The theorems.                                                             *)

\* The inductive invariant holds in every reachable state of the coordinators
\* and of coordination.php.
THEOREM RoleLeaseInvariant == Spec => []IInv
<1>1. Init => IInv
  <2> SUFFICES ASSUME Init PROVE IInv
    OBVIOUS
  <2> USE DEF Init
  <2>1. TypeOK
    BY TimingAssumption DEF TypeOK, Phase
  <2>2. lease.left > 0 => lease.token > 0
    OBVIOUS
  <2>3. CallInv /\ PhaseInv /\ LateInv /\ AnswerInv
    BY DEF CallInv, PhaseInv, LateInv, AnswerInv, Idle
  <2>4. HolderInv
    BY DEF HolderInv, Holder
  <2>5. QED
    BY <2>1, <2>2, <2>3, <2>4 DEF IInv
<1>2. IInv /\ [Next]_vars => IInv'
  BY TypeStep, CallStep, LateStep, AnswerStep, HolderStep, TokenStep DEF IInv
<1>3. QED
  BY <1>1, <1>2, PTL DEF Spec

\* Rows, coordinators, calls and requests left in the network keep their types.
THEOREM RoleLeaseType == Spec => []TypeOK
BY RoleLeaseInvariant, PTL DEF IInv

\* A process that may do role work owns the active row and presents its current
\* token, for every number of processes and faults and every admissible timing.
THEOREM HolderOwnsLeaseAlways == Spec => []HolderOwnsLease
<1>1. IInv => HolderOwnsLease
  <2> SUFFICES ASSUME IInv, NEW p \in Proc, Holder(p)
               PROVE  lease.owner = p /\ lease.token = fence[p] /\ lease.left > 0
    BY DEF HolderOwnsLease
  <2>1. OwnsFor(lease, p, fence[p], validLeft[p] - SafetyMargin)
    BY DEF IInv, HolderInv
  <2>2. validLeft[p] > SafetyMargin /\ validLeft[p] \in Nat /\ lease.left \in Nat
    BY DEF IInv, TypeOK, Holder, RoleLeaseValid
  <2>3. QED
    BY <2>1, <2>2, TimingAssumption DEF OwnsFor
<1>2. QED
  BY <1>1, RoleLeaseInvariant, PTL

\* The fencing token of the row never decreases and every change of owner
\* increases it.
THEOREM TokenGrowsAlways == Spec => TokenGrows
<1>1. IInv /\ [Next]_vars
        => [/\ lease'.token >= lease.token
            /\ lease'.owner # lease.owner => lease'.token > lease.token]_vars
  BY TokenStep DEF IInv
<1>2. QED
  BY <1>1, RoleLeaseInvariant, PTL DEF Spec, TokenGrows

-------------------------------------------------------------------------------
(* RoleLease implements LeaseAuthority.                                      *)

Mapped == [Authority!LeaseNext]_(Authority!leaseVars)

\* A step that leaves the row alone and makes nobody a holder is a Drop.
LEMMA MapsToDrop ==
  ASSUME UNCHANGED <<lease.owner, lease.token, lease.left > 0>>,
         \A q \in Proc : Holder(q)' => Holder(q) /\ fence'[q] = fence[q]
  PROVE  Mapped
<1> DEFINE D == {q \in Proc : ~(Holder(q)')}
<1>1. View' = [q \in Proc |-> IF q \in D THEN 0 ELSE View[q]]
  BY DEF View
<1>2. Authority!Drop(D)
  BY <1>1 DEF Authority!Drop
<1>3. D \in SUBSET Proc
  OBVIOUS
<1>4. QED
  BY <1>2, <1>3 DEF Mapped, Authority!LeaseNext

\* A granted acquisition or renewal that reaches its process in time is an Adopt.
LEMMA MapsToAdopt ==
  ASSUME IInv', NEW p \in Proc, Holder(p)', lease' = lease,
         \A q \in Proc \ {p} : Holder(q)' <=> Holder(q),
         \A q \in Proc \ {p} : fence'[q] = fence[q]
  PROVE  Mapped
<1>1. /\ lease'.owner = p
      /\ lease'.token = fence'[p]
      /\ lease'.left >= validLeft'[p] - SafetyMargin
      /\ validLeft'[p] > SafetyMargin
  BY DEF IInv, HolderInv, OwnsFor, Holder, RoleLeaseValid
<1>2. lease.left > 0
  <2>1. validLeft'[p] \in Nat /\ lease'.left \in Nat
    BY DEF IInv, TypeOK
  <2>2. QED
    BY <1>1, <2>1, TimingAssumption
<1>3. View' = [View EXCEPT ![p] = lease.token]
  BY <1>1 DEF View
<1>4. Authority!Adopt(p)
  BY <1>1, <1>2, <1>3 DEF Authority!Adopt
<1>5. QED
  BY <1>4 DEF Mapped, Authority!LeaseNext

\* What the backend does with a request is a Grant, a Lapse, or nothing.
LEMMA MapsRequest ==
  ASSUME IInv, NEW r \in Request, lease' = RowAfter(lease, r),
         UNCHANGED <<phase, fence, validLeft, lost>>,
         \A q \in Proc : Holder(q) => (r.op = "release" => r.owner # q)
  PROVE  Mapped
<1>0. /\ lease \in Row
      /\ lease' \in Row
      /\ lease.left \in Nat
      /\ r.owner \in Proc
  BY RowAfterType DEF IInv, TypeOK, Row, Request
<1>1. View' = View
  BY DEF View, Holder, RoleLeaseValid
<1>2. \A q \in Proc : Holder(q) => lease.owner = q
  BY DEF IInv, HolderInv, OwnsFor
<1>3. CASE r.op = "acquire" /\ lease.left = 0
  <2>1. lease' = [owner |-> r.owner, token |-> lease.token + 1, left |-> Ttl]
    BY <1>3 DEF RowAfter, AcquireLease, AcquireGranted
  <2>2. Authority!Grant(r.owner)
    BY <1>1, <1>3, <2>1, TimingAssumption DEF Authority!Grant
  <2>3. QED
    BY <1>0, <2>2 DEF Mapped, Authority!LeaseNext
<1>4. CASE r.op = "release" /\ lease.left > 0 /\ lease'.left = 0
  <2>1. UNCHANGED <<lease.owner, lease.token>>
    BY <1>0, <1>4 DEF RowAfter, ReleaseLease, Row
  <2>2. lease.owner = r.owner
    BY <1>4 DEF RowAfter, ReleaseLease
  <2>3. View' = [q \in Proc |-> 0]
    BY <1>1, <1>2, <1>4, <2>2 DEF View
  <2>4. Authority!Lapse
    BY <1>4, <2>1, <2>3 DEF Authority!Lapse
  <2>5. QED
    BY <2>4 DEF Mapped, Authority!LeaseNext
<1>5. CASE UNCHANGED <<lease.owner, lease.token, lease.left > 0>>
  BY <1>1, <1>5 DEF Mapped, Authority!leaseVars
<1>6. CASE r.op = "acquire" /\ lease.left > 0
  <2>1. /\ lease'.owner = lease.owner
        /\ lease'.token = lease.token
        /\ lease'.left >= lease.left
    BY <1>0, <1>6, RowAfterActive
  <2>2. lease'.left \in Nat
    BY <1>0 DEF Row
  <2>3. lease'.left > 0
    BY <1>0, <1>6, <2>1, <2>2
  <2>4. QED
    BY <1>5, <1>6, <2>1, <2>3
<1>7. CASE r.op = "renew" /\ lease.left > 0
  <2>1. /\ lease'.owner = lease.owner
        /\ lease'.token = lease.token
        /\ lease'.left >= lease.left
    BY <1>0, <1>7, RowAfterActive
  <2>2. lease'.left \in Nat
    BY <1>0 DEF Row
  <2>3. lease'.left > 0
    BY <1>0, <1>7, <2>1, <2>2
  <2>4. QED
    BY <1>5, <1>7, <2>1, <2>3
<1>8. CASE r.op # "acquire" /\ lease.left = 0
  BY <1>0, <1>5, <1>8 DEF RowAfter, RenewLease, RenewGranted, ReleaseLease, Row, Request
<1>9. CASE r.op = "release" /\ lease.left > 0 /\ lease'.left # 0
  BY <1>0, <1>5, <1>9 DEF RowAfter, ReleaseLease, Row
<1>10. QED
  BY <1>0, <1>3, <1>4, <1>6, <1>7, <1>8, <1>9 DEF Request

\* The row expires after every view of it.
LEMMA MapsTick ==
  ASSUME IInv, IInv', Tick
  PROVE  Mapped
<1>1. /\ validLeft' = [p \in Proc |-> Less(validLeft[p])]
      /\ UNCHANGED <<phase, fence, lost>>
      /\ lease' = [lease EXCEPT !.left = Less(lease.left)]
  BY DEF Tick
<1>2. lease \in Row /\ lease.left \in Nat
  BY DEF IInv, TypeOK, Row
<1>3. UNCHANGED <<lease.owner, lease.token>> /\ lease'.left = Less(lease.left)
  BY <1>1, <1>2 DEF Row
<1>4. ASSUME NEW q \in Proc, Holder(q)' PROVE Holder(q)
  <2>1. /\ validLeft[q] \in Nat
        /\ Less(validLeft[q]) \in Nat
        /\ Less(validLeft[q]) <= validLeft[q]
    BY DEF Less, IInv, TypeOK
  <2>2. QED
    BY <1>1, <1>4, <2>1, TimingAssumption DEF Holder, RoleLeaseValid
<1>5. CASE lease.left = 1
  <2>1. lease'.left = 0
    BY <1>3, <1>5 DEF Less
  <2>2. ASSUME NEW q \in Proc PROVE ~(Holder(q)')
    <3> SUFFICES ASSUME Holder(q)' PROVE FALSE
      OBVIOUS
    <3>1. /\ lease'.left >= validLeft'[q] - SafetyMargin
          /\ validLeft'[q] > SafetyMargin
          /\ validLeft'[q] \in Nat
      BY DEF IInv, TypeOK, HolderInv, OwnsFor, Holder, RoleLeaseValid
    <3>2. QED
      BY <2>1, <3>1, TimingAssumption
  <2>3. View' = [q \in Proc |-> 0]
    BY <2>2 DEF View
  <2>4. Authority!Lapse
    BY <1>3, <1>5, <2>1, <2>3 DEF Authority!Lapse
  <2>5. QED
    BY <2>4 DEF Mapped, Authority!LeaseNext
<1>6. CASE lease.left # 1
  <2>1. lease.left > 0 <=> lease'.left > 0
    BY <1>2, <1>3, <1>6 DEF Less
  <2>2. QED
    BY <1>1, <1>3, <1>4, <2>1, MapsToDrop
<1>7. QED
  BY <1>5, <1>6

\* Every step of the coordinators and of the backend is a step of LeaseAuthority
\* or changes nothing it can see.
LEMMA StepRefines ==
  ASSUME IInv, IInv', [Next]_vars
  PROVE  Mapped
<1> USE DEF Holder, RoleLeaseValid
<1>0. fence \in [Proc -> Nat] /\ phase \in [Proc -> Phase] /\ lost \in [Proc -> BOOLEAN]
      /\ validLeft \in [Proc -> 0..Ttl]
  BY DEF IInv, TypeOK
<1>1. ASSUME NEW p \in Proc, Start(p) PROVE Mapped
  BY <1>0, <1>1, MapsToDrop DEF Start, Phase
<1>2. ASSUME NEW p \in Proc, StartRefused(p) PROVE Mapped
  BY <1>0, <1>2, MapsToDrop DEF StartRefused, Phase
<1>3. ASSUME NEW p \in Proc, Suspend(p) PROVE Mapped
  BY <1>0, <1>3, MapsToDrop DEF Suspend, Phase
<1>4. ASSUME NEW p \in Proc, Resume(p) PROVE Mapped
  BY <1>0, <1>4, MapsToDrop DEF Resume, Phase
<1>5. ASSUME NEW p \in Proc, Reacquire(p) PROVE Mapped
  BY <1>0, <1>5, MapsToDrop DEF Reacquire, Phase, procVars
<1>6. ASSUME NEW p \in Proc, ReacquireRefused(p) PROVE Mapped
  BY <1>0, <1>6, MapsToDrop DEF ReacquireRefused, Phase, procVars
<1>7. ASSUME NEW p \in Proc, RequestStop(p) PROVE Mapped
  BY <1>0, <1>7, MapsToDrop DEF RequestStop, Phase
<1>8. ASSUME NEW p \in Proc, Shutdown(p) PROVE Mapped
  BY <1>0, <1>8, MapsToDrop DEF Shutdown, Phase
<1>9. ASSUME NEW p \in Proc, Release(p) PROVE Mapped
  BY <1>0, <1>9, MapsToDrop DEF Release, Phase, procVars
<1>10. ASSUME NEW p \in Proc, Exit(p) PROVE Mapped
  BY <1>0, <1>10, MapsToDrop DEF Exit, Phase
<1>11. ASSUME NEW p \in Proc, Crash(p) PROVE Mapped
  BY <1>0, <1>11, MapsToDrop DEF Crash, Phase
<1>12. ASSUME NEW p \in Proc, RenewSend(p) PROVE Mapped
  BY <1>0, <1>12, MapsToDrop DEF RenewSend, Phase, procVars
<1>13. ASSUME NEW p \in Proc, RenewRejected(p) PROVE Mapped
  BY <1>0, <1>13, MapsToDrop DEF RenewRejected, Phase
<1>14. ASSUME NEW p \in Proc, RenewFailed(p) PROVE Mapped
  BY <1>0, <1>14, MapsToDrop DEF RenewFailed, Phase
<1>15. ASSUME NEW p \in Proc, RenewerExit(p) PROVE Mapped
  BY <1>0, <1>15, MapsToDrop DEF RenewerExit, Phase
<1>16. ASSUME NEW p \in Proc, Pause(p) PROVE Mapped
  BY <1>0, <1>16, MapsToDrop DEF Pause, Phase
<1>17. ASSUME NEW p \in Proc, Activate(p) PROVE Mapped
  <2>1. CASE Holder(p)'
    BY <1>0, <1>17, <2>1, MapsToAdopt DEF Activate
  <2>2. CASE ~(Holder(p)')
    BY <1>0, <1>17, <2>2, MapsToDrop DEF Activate
  <2>3. QED
    BY <2>1, <2>2
<1>18. ASSUME NEW p \in Proc, RenewAccepted(p) PROVE Mapped
  <2>1. CASE Holder(p)'
    BY <1>0, <1>18, <2>1, MapsToAdopt DEF RenewAccepted
  <2>2. CASE ~(Holder(p)')
    BY <1>0, <1>18, <2>2, MapsToDrop DEF RenewAccepted
  <2>3. QED
    BY <2>1, <2>2
<1>19. ASSUME NEW p \in Proc, Process(p) PROVE Mapped
  <2>1. call[p].req \in Request /\ lease' = RowAfter(lease, call[p].req)
    BY <1>19 DEF Process, Idle, IInv, TypeOK, Call
  <2>2. \A q \in Proc : Holder(q) => (call[p].req.op = "release" => call[p].req.owner # q)
    BY <1>19, NoReleaseByOwner DEF Process, IInv
  <2>3. UNCHANGED <<phase, fence, validLeft, lost>>
    BY <1>19 DEF Process, procVars
  <2>4. QED
    BY <2>1, <2>2, <2>3, MapsRequest
<1>20. ASSUME NEW s \in Slot, ProcessLate(s) PROVE Mapped
  <2>1. late[s] \in Request /\ lease' = RowAfter(lease, late[s])
    BY <1>20 DEF ProcessLate, IInv, TypeOK
  <2>2. \A q \in Proc : Holder(q) => (late[s].op = "release" => late[s].owner # q)
    BY <1>20, NoReleaseByOwner DEF ProcessLate, IInv
  <2>3. UNCHANGED <<phase, fence, validLeft, lost>>
    BY <1>20 DEF ProcessLate, procVars
  <2>4. QED
    BY <2>1, <2>2, <2>3, MapsRequest
<1>21. CASE Tick
  BY <1>21, MapsTick
<1>22. CASE UNCHANGED vars
  BY <1>22, MapsToDrop DEF vars
<1>23. QED
  BY <1>1, <1>2, <1>3, <1>4, <1>5, <1>6, <1>7, <1>8, <1>9, <1>10, <1>11,
     <1>12, <1>13, <1>14, <1>15, <1>16, <1>17, <1>18, <1>19, <1>20, <1>21, <1>22
     DEF Next, Main, Renewal

\* Hidden clocks, threads and messages aside, every behaviour of the coordinators
\* against coordination.php is one LeaseAuthority allows.
THEOREM RoleLeaseImplementsAuthority == Spec => ImplementsAuthority
<1>1. Init => Authority!LeaseInit
  BY DEF Init, Authority!LeaseInit, View, Holder
<1>2. IInv /\ IInv' /\ [Next]_vars => [Authority!LeaseNext]_(Authority!leaseVars)
  BY StepRefines DEF Mapped
<1>3. QED
  BY <1>1, <1>2, RoleLeaseInvariant, PTL DEF Spec, ImplementsAuthority, Authority!LeaseSpec

-------------------------------------------------------------------------------
(* Fencing tokens are exclusive.                                             *)

\* The acquisition of p was granted and its answer is on the way.
GrantPending(p) ==
  /\ ~Idle(p)
  /\ call[p].answered
  /\ call[p].req.op = "acquire"
  /\ call[p].answer.ok

\* p holds token t, or is about to.
Knows(p, t) ==
  /\ t > 0
  /\ t = fence[p] \/ (GrantPending(p) /\ t = call[p].answer.token)

\* Known tokens are no larger than the row's, whose token only its owner knows.
TokenInv ==
  \A p \in Proc : \A t \in Nat : Knows(p, t) =>
    /\ t <= lease.token
    /\ t = lease.token => lease.owner = p
    /\ \A q \in Proc \ {p} : ~Knows(q, t)

LEMMA RowAfterOwner ==
  ASSUME NEW l \in Row, NEW r \in Request
  PROVE  \/ RowAfter(l, r).token = l.token /\ RowAfter(l, r).owner = l.owner
         \/ RowAfter(l, r).token = l.token + 1 /\ RowAfter(l, r).owner = r.owner
<1> USE TimingAssumption DEF Row, Request
<1>1. CASE r.op = "acquire"
  BY <1>1 DEF RowAfter, AcquireLease, AcquireGranted
<1>2. CASE r.op = "renew"
  BY <1>2 DEF RowAfter, RenewLease, RenewGranted
<1>3. CASE r.op = "release"
  BY <1>3 DEF RowAfter, ReleaseLease
<1>4. QED
  BY <1>1, <1>2, <1>3

\* Forgetting a token, or learning one whose grant was pending, is harmless.
LEMMA TokenFrame ==
  ASSUME TokenInv, UNCHANGED <<lease.owner, lease.token>>,
         \A p \in Proc : \A t \in Nat : Knows(p, t)' => Knows(p, t)
  PROVE  TokenInv'
BY DEF TokenInv

LEMMA TokenInvProcess ==
  ASSUME TypeOK, CallInv, TokenInv, NEW p \in Proc, Process(p)
  PROVE  TokenInv'
<1>1. call[p] \in Call /\ call[p].req \in Request /\ lease \in Row
  BY DEF Process, Idle, Call, Row, TypeOK
<1>2. lease' = RowAfter(lease, call[p].req) /\ call[p].req.owner = p
  BY DEF Process, CallInv
<1>3. \/ lease'.token = lease.token /\ lease'.owner = lease.owner
      \/ lease'.token = lease.token + 1 /\ lease'.owner = p
  BY <1>1, <1>2, RowAfterOwner
<1>4. lease.token \in Nat /\ lease'.token \in Nat
  BY <1>1, <1>2, RowAfterType DEF Row
<1>5. ASSUME NEW q \in Proc \ {p}, NEW t \in Nat, Knows(q, t)'
      PROVE  Knows(q, t)
  BY <1>5 DEF Process, procVars, Knows, GrantPending, Idle, TypeOK
<1>6. ASSUME NEW t \in Nat, Knows(p, t)', ~Knows(p, t)
      PROVE  t = lease'.token /\ lease'.owner = p /\ t > 0
  <2>1. /\ call'[p].req = call[p].req
        /\ call'[p].answer = AnswerTo(lease, call[p].req)
    BY <1>1 DEF Process, Call, TypeOK
  <2>2. /\ GrantPending(p)'
        /\ t = call'[p].answer.token
        /\ t > 0
    BY <1>6 DEF Knows, Process, procVars
  <2>3. call[p].req.op = "acquire" /\ AnswerTo(lease, call[p].req).ok
    BY <2>1, <2>2 DEF GrantPending
  <2>4. QED
    BY <1>1, <1>2, <2>1, <2>2, <2>3, AnswerIsCurrent
<1> SUFFICES ASSUME NEW q \in Proc, NEW t \in Nat, Knows(q, t)'
             PROVE  /\ t <= lease'.token
                    /\ t = lease'.token => lease'.owner = q
                    /\ \A o \in Proc \ {q} : ~(Knows(o, t)')
  BY DEF TokenInv
<1>7. CASE Knows(q, t)
  <2>1. /\ t <= lease.token
        /\ t = lease.token => lease.owner = q
        /\ \A o \in Proc \ {q} : ~Knows(o, t)
    BY <1>7 DEF TokenInv
  <2>2. ASSUME NEW o \in Proc \ {q}, Knows(o, t)' PROVE FALSE
    <3>1. o = p /\ ~Knows(p, t)
      BY <1>5, <2>1, <2>2
    <3>2. t = lease'.token /\ lease'.owner = p
      BY <1>6, <2>2, <3>1
    <3>3. QED
      BY <1>3, <1>4, <2>1, <3>1, <3>2
  <2>3. QED
    BY <1>3, <1>4, <2>1, <2>2
<1>8. CASE ~Knows(q, t)
  <2>1. q = p /\ t = lease'.token /\ lease'.owner = p /\ t > 0
    BY <1>5, <1>6, <1>8
  <2>2. ASSUME NEW o \in Proc \ {q}, Knows(o, t)' PROVE FALSE
    <3>1. Knows(o, t)
      BY <1>5, <2>1, <2>2
    <3>2. t <= lease.token /\ (t = lease.token => lease.owner = o)
      BY <3>1 DEF TokenInv
    <3>3. QED
      BY <1>3, <1>4, <2>1, <3>2
  <2>3. QED
    BY <1>4, <2>1, <2>2
<1>9. QED
  BY <1>7, <1>8

LEMMA TokenInvLate ==
  ASSUME TypeOK, TokenInv, NEW s \in Slot, ProcessLate(s)
  PROVE  TokenInv'
<1>1. late[s] \in Request /\ lease \in Row
  BY DEF ProcessLate, Row, TypeOK
<1>2. lease' = RowAfter(lease, late[s])
  BY DEF ProcessLate
<1>3. \/ lease'.token = lease.token /\ lease'.owner = lease.owner
      \/ lease'.token = lease.token + 1
  BY <1>1, <1>2, RowAfterOwner
<1>4. lease.token \in Nat
  BY <1>1 DEF Row
<1>5. \A q \in Proc : \A t \in Nat : Knows(q, t)' => Knows(q, t)
  BY DEF ProcessLate, procVars, Knows, GrantPending, Idle
<1>6. QED
  BY <1>3, <1>4, <1>5 DEF TokenInv

LEMMA TokenInvStep ==
  ASSUME IInv, TokenInv, [Next]_vars
  PROVE  TokenInv'
<1>0. TypeOK /\ CallInv
  BY DEF IInv
<1> USE <1>0 DEF Knows, GrantPending, Idle
<1>1. ASSUME NEW p \in Proc, Start(p) PROVE TokenInv'
  <2>1. \A q \in Proc : \A t \in Nat : Knows(q, t)' => Knows(q, t)
    BY <1>1 DEF Start, Send, TypeOK
  <2>2. QED
    BY <1>1, <2>1, TokenFrame DEF Start
<1>2. ASSUME NEW p \in Proc, StartRefused(p) PROVE TokenInv'
  <2>1. \A q \in Proc : \A t \in Nat : Knows(q, t)' => Knows(q, t)
    BY <1>2 DEF StartRefused, CallFails, Abandon, Hangup, TypeOK
  <2>2. QED
    BY <1>2, <2>1, TokenFrame DEF StartRefused
<1>3. ASSUME NEW p \in Proc, Activate(p) PROVE TokenInv'
  <2>1. \A q \in Proc : \A t \in Nat : Knows(q, t)' => Knows(q, t)
    BY <1>3 DEF Activate, Answered, Hangup, TypeOK
  <2>2. QED
    BY <1>3, <2>1, TokenFrame DEF Activate
<1>4. ASSUME NEW p \in Proc, Suspend(p) PROVE TokenInv'
  <2>1. \A q \in Proc : \A t \in Nat : Knows(q, t)' => Knows(q, t)
    BY <1>4 DEF Suspend
  <2>2. QED
    BY <1>4, <2>1, TokenFrame DEF Suspend
<1>5. ASSUME NEW p \in Proc, Resume(p) PROVE TokenInv'
  <2>1. \A q \in Proc : \A t \in Nat : Knows(q, t)' => Knows(q, t)
    BY <1>5 DEF Resume
  <2>2. QED
    BY <1>5, <2>1, TokenFrame DEF Resume
<1>6. ASSUME NEW p \in Proc, Reacquire(p) PROVE TokenInv'
  <2>1. \A q \in Proc : \A t \in Nat : Knows(q, t)' => Knows(q, t)
    BY <1>6 DEF Reacquire, Send, TypeOK, procVars
  <2>2. QED
    BY <1>6, <2>1, TokenFrame DEF Reacquire
<1>7. ASSUME NEW p \in Proc, ReacquireRefused(p) PROVE TokenInv'
  <2>1. \A q \in Proc : \A t \in Nat : Knows(q, t)' => Knows(q, t)
    BY <1>7 DEF ReacquireRefused, CallFails, Abandon, Hangup, TypeOK, procVars
  <2>2. QED
    BY <1>7, <2>1, TokenFrame DEF ReacquireRefused
<1>8. ASSUME NEW p \in Proc, RequestStop(p) PROVE TokenInv'
  <2>1. \A q \in Proc : \A t \in Nat : Knows(q, t)' => Knows(q, t)
    BY <1>8 DEF RequestStop
  <2>2. QED
    BY <1>8, <2>1, TokenFrame DEF RequestStop
<1>9. ASSUME NEW p \in Proc, Shutdown(p) PROVE TokenInv'
  <2>1. \A q \in Proc : \A t \in Nat : Knows(q, t)' => Knows(q, t)
    BY <1>9 DEF Shutdown
  <2>2. QED
    BY <1>9, <2>1, TokenFrame DEF Shutdown
<1>10. ASSUME NEW p \in Proc, Release(p) PROVE TokenInv'
  <2>1. \A q \in Proc : \A t \in Nat : Knows(q, t)' => Knows(q, t)
    BY <1>10 DEF Release, Send, TypeOK, procVars
  <2>2. QED
    BY <1>10, <2>1, TokenFrame DEF Release
<1>11. ASSUME NEW p \in Proc, Exit(p) PROVE TokenInv'
  <2>1. \A q \in Proc : \A t \in Nat : Knows(q, t)' => Knows(q, t)
    BY <1>11 DEF Exit, CallFails, Abandon, Hangup, TypeOK
  <2>2. QED
    BY <1>11, <2>1, TokenFrame DEF Exit
<1>12. ASSUME NEW p \in Proc, Crash(p) PROVE TokenInv'
  <2>1. \A q \in Proc : \A t \in Nat : Knows(q, t)' => Knows(q, t)
    BY <1>12 DEF Crash, Abandon, Hangup, TypeOK
  <2>2. QED
    BY <1>12, <2>1, TokenFrame DEF Crash
<1>13. ASSUME NEW p \in Proc, RenewSend(p) PROVE TokenInv'
  <2>1. \A q \in Proc : \A t \in Nat : Knows(q, t)' => Knows(q, t)
    BY <1>13 DEF RenewSend, RenewDue, Send, TypeOK, procVars
  <2>2. QED
    BY <1>13, <2>1, TokenFrame DEF RenewSend
<1>14. ASSUME NEW p \in Proc, RenewAccepted(p) PROVE TokenInv'
  <2>1. \A q \in Proc : \A t \in Nat : Knows(q, t)' => Knows(q, t)
    BY <1>14 DEF RenewAccepted, Hangup, TypeOK
  <2>2. QED
    BY <1>14, <2>1, TokenFrame DEF RenewAccepted
<1>15. ASSUME NEW p \in Proc, RenewRejected(p) PROVE TokenInv'
  <2>1. \A q \in Proc : \A t \in Nat : Knows(q, t)' => Knows(q, t)
    BY <1>15 DEF RenewRejected, Hangup, TypeOK
  <2>2. QED
    BY <1>15, <2>1, TokenFrame DEF RenewRejected
<1>16. ASSUME NEW p \in Proc, RenewFailed(p) PROVE TokenInv'
  <2>1. \A q \in Proc : \A t \in Nat : Knows(q, t)' => Knows(q, t)
    BY <1>16 DEF RenewFailed, CallFails, Abandon, Hangup, TypeOK
  <2>2. QED
    BY <1>16, <2>1, TokenFrame DEF RenewFailed
<1>17. ASSUME NEW p \in Proc, RenewerExit(p) PROVE TokenInv'
  <2>1. \A q \in Proc : \A t \in Nat : Knows(q, t)' => Knows(q, t)
    BY <1>17 DEF RenewerExit
  <2>2. QED
    BY <1>17, <2>1, TokenFrame DEF RenewerExit
<1>18. ASSUME NEW p \in Proc, Process(p) PROVE TokenInv'
  BY <1>18, TokenInvProcess
<1>19. ASSUME NEW s \in Slot, ProcessLate(s) PROVE TokenInv'
  BY <1>19, TokenInvLate
<1>20. ASSUME NEW p \in Proc, Pause(p) PROVE TokenInv'
  <2>1. \A q \in Proc : \A t \in Nat : Knows(q, t)' => Knows(q, t)
    BY <1>20 DEF Pause
  <2>2. QED
    BY <1>20, <2>1, TokenFrame DEF Pause
<1>21. CASE Tick
  <2>1. ASSUME NEW q \in Proc, NEW t \in Nat, Knows(q, t)' PROVE Knows(q, t)
    <3>1. fence' = fence
      BY <1>21 DEF Tick
    <3>2. CASE GrantPending(q)'
      BY <1>21, <2>1, <3>1, <3>2, TickCall
    <3>3. CASE ~(GrantPending(q)')
      BY <2>1, <3>1, <3>3
    <3>4. QED
      BY <3>2, <3>3
  <2>2. lease'.owner = lease.owner /\ lease'.token = lease.token
    <3>1. lease \in Row
      BY DEF TypeOK, Row
    <3>2. lease' = [lease EXCEPT !.left = Less(lease.left)]
      BY <1>21 DEF Tick
    <3>3. QED
      BY <3>1, <3>2 DEF Row
  <2>3. QED
    BY <2>1, <2>2, TokenFrame
<1>22. CASE UNCHANGED vars
  <2>1. \A q \in Proc : \A t \in Nat : Knows(q, t)' => Knows(q, t)
    BY <1>22 DEF vars
  <2>2. QED
    BY <1>22, <2>1, TokenFrame DEF vars
<1>23. QED
  BY <1>1, <1>2, <1>3, <1>4, <1>5, <1>6, <1>7, <1>8, <1>9, <1>10, <1>11, <1>12,
     <1>13, <1>14, <1>15, <1>16, <1>17, <1>18, <1>19, <1>20, <1>21, <1>22
     DEF Next, Main, Renewal

\* No two processes ever hold the same fencing token: what a stale executor
\* presents to requireExecutor can not pass for its successor's token.
THEOREM TokenIsExclusiveAlways == Spec => []TokenIsExclusive
<1>1. Init => TokenInv
  BY DEF Init, TokenInv, Knows, GrantPending, Idle
<1>2. IInv /\ TokenInv /\ [Next]_vars => TokenInv'
  BY TokenInvStep
<1>3. IInv /\ TokenInv => TokenIsExclusive
  BY DEF IInv, TypeOK, TokenInv, Knows, TokenIsExclusive
<1>4. QED
  BY <1>1, <1>2, <1>3, RoleLeaseInvariant, PTL DEF Spec

-------------------------------------------------------------------------------
(* Faults and the renewal: k faults cost at most Spent(k).                   *)

Retry == RequestTimeout + RetryDelay

Spent(k) == Heartbeat + k * Retry

Faulted == MaxFaults - faults

\* The renewal thread is on time: what is left until the local deadline and what
\* the faults have cost cover a TTL and the wait ahead, or the TTL less the age of
\* the renewal in flight.  An answered renewal has been granted.
Working(p) ==
  /\ fence[p] > 0 /\ ~lost[p] /\ renewer[p]
  /\ Idle(p) => Ttl + wait[p] <= validLeft[p] + Spent(Faulted)
  /\ ~Idle(p) => /\ call[p].req.op = "renew"
                 /\ call[p].answered => call[p].answer.ok
                 /\ Ttl <= validLeft[p] + Spent(Faulted) + call[p].age

\* As long as the faults are few, role work never stops.
Steady(p) ==
  ~stopEvent[p] /\ Tolerated(Faulted) =>
    /\ phase[p] # "suspended"
    /\ phase[p] = "running" => Working(p)

LEMMA Costs ==
  /\ Retry \in Nat /\ Retry >= 1 /\ Heartbeat \in Nat /\ RequestTimeout \in Nat
  /\ RequestTimeout <= Retry
  /\ \A k \in Nat : Spent(k) \in Nat /\ Spent(k + 1) = Spent(k) + Retry /\ Heartbeat <= Spent(k)
  /\ \A k \in Nat : Tolerated(k) <=> Spent(k) + RequestTimeout < Ttl - SafetyMargin
<1>1. /\ Retry \in Nat /\ Retry >= 1 /\ Heartbeat \in Nat /\ RequestTimeout \in Nat
      /\ RequestTimeout <= Retry
      /\ Retry = RequestTimeout + RetryDelay
  BY TimingAssumption DEF Retry
<1>2. \A r, k \in Nat : k * r \in Nat /\ (k + 1) * r = k * r + r
  OBVIOUS
<1>3. ASSUME NEW k \in Nat PROVE Spent(k) \in Nat /\ Spent(k + 1) = Spent(k) + Retry /\ Heartbeat <= Spent(k)
  <2> DEFINE c == k * Retry
             d == (k + 1) * Retry
  <2>1. c \in Nat /\ d = c + Retry
    BY <1>1, <1>2
  <2>2. Spent(k) = Heartbeat + c /\ Spent(k + 1) = Heartbeat + d
    BY DEF Spent
  <2> QED
    BY <1>1, <2>1, <2>2
<1>4. \A k \in Nat : Tolerated(k) <=> Spent(k) + RequestTimeout < Ttl - SafetyMargin
  BY DEF Tolerated, Spent, Retry
<1> QED
  BY <1>1, <1>3, <1>4

\* A process that is working holds a valid lease.
LEMMA WorkingHolds ==
  ASSUME TypeOK, NEW p \in Proc, Tolerated(Faulted), Working(p)
  PROVE  /\ RoleLeaseValid(p) /\ validLeft[p] > SafetyMargin
         /\ validLeft[p] \in Nat /\ SafetyMargin \in Nat /\ Ttl \in Nat /\ wait[p] \in Nat
         /\ Faulted \in Nat /\ Spent(Faulted) \in Nat
         /\ Spent(Faulted) + RequestTimeout < Ttl - SafetyMargin
         /\ ~Idle(p) => call[p].age \in 0..RequestTimeout
<1>1. /\ validLeft[p] \in Nat /\ SafetyMargin \in Nat /\ Ttl \in Nat /\ wait[p] \in Nat /\ Faulted \in Nat
      /\ RequestTimeout \in Nat
  BY TimingAssumption DEF TypeOK, Faulted
<1>2. Spent(Faulted) \in Nat /\ Spent(Faulted) + RequestTimeout < Ttl - SafetyMargin
  BY <1>1, Costs
<1>3. ~Idle(p) => call[p].age \in 0..RequestTimeout
  BY DEF TypeOK, Idle, Call
<1>4. validLeft[p] > SafetyMargin
  BY <1>1, <1>2, <1>3 DEF Working
<1> QED
  BY <1>1, <1>2, <1>3, <1>4 DEF RoleLeaseValid, Working

\* Fewer faults were tolerated before; a step costs at most one.
LEMMA FaultCosts ==
  ASSUME TypeOK, TypeOK', faults' = faults \/ Fault
  PROVE  /\ Faulted \in Nat /\ Faulted' \in Nat /\ Spent(Faulted) \in Nat
         /\ Spent(Faulted') \in {Spent(Faulted), Spent(Faulted) + Retry}
         /\ Tolerated(Faulted') => Tolerated(Faulted)
         /\ Fault => Spent(Faulted') = Spent(Faulted) + Retry
<1>1. Faulted \in Nat /\ Faulted' \in Nat /\ (Faulted' = Faulted \/ Faulted' = Faulted + 1) /\ (Fault => Faulted' = Faulted + 1)
  <2>1. faults \in 0..MaxFaults /\ faults' \in 0..MaxFaults /\ MaxFaults \in Nat
    BY TimingAssumption DEF TypeOK
  <2>2. Fault => faults' = faults - 1
    BY DEF Fault
  <2>3. faults' \in {faults, faults - 1}
    BY <2>2
  <2>4. Faulted = MaxFaults - faults /\ Faulted' = MaxFaults - faults'
    BY DEF Faulted
  <2>5. Faulted \in Nat /\ Faulted' \in Nat /\ (Faulted' = Faulted \/ Faulted' = Faulted + 1)
    <3>1. \A m \in Nat : \A n \in 0..m : m - n \in Nat /\ m - (n - 1) = (m - n) + 1
      OBVIOUS
    <3>2. CASE faults' = faults
      BY <2>1, <2>4, <3>1, <3>2
    <3>3. CASE faults' = faults - 1
      BY <2>1, <2>4, <3>1, <3>3
    <3> QED
      BY <2>3, <3>2, <3>3
  <2>6. ASSUME Fault PROVE Faulted' = Faulted + 1
    BY <2>1, <2>2, <2>4, <2>6
  <2> QED
    BY <2>5, <2>6
<1>2. /\ Spent(Faulted) \in Nat /\ Spent(Faulted') \in {Spent(Faulted), Spent(Faulted) + Retry}
      /\ Fault => Spent(Faulted') = Spent(Faulted) + Retry
  BY <1>1, Costs
<1>3. Tolerated(Faulted') => Tolerated(Faulted)
  BY <1>1, <1>2, Costs, TimingAssumption
<1> QED
  BY <1>1, <1>2, <1>3

\* What others do, and what the process itself does outside its renewal.
LEMMA SteadyFrame ==
  ASSUME TypeOK, TypeOK', NEW p \in Proc, Steady(p), faults' = faults \/ Fault,
         phase'[p] \in {phase[p]} \cup (Phase \ {"running", "suspended"}),
         stopEvent[p] => stopEvent'[p],
         phase'[p] = "running" /\ ~stopEvent'[p] =>
           /\ fence'[p] = fence[p] /\ lost'[p] = lost[p] /\ renewer'[p] = renewer[p]
           /\ wait'[p] = wait[p] /\ validLeft'[p] = validLeft[p] /\ call'[p] = call[p]
  PROVE  Steady(p)'
<1> SUFFICES ASSUME ~stopEvent'[p], Tolerated(Faulted'), phase'[p] \in {"running", "suspended"}
             PROVE  phase'[p] = "running" /\ Working(p)'
  BY DEF Steady
<1>1. ~stopEvent[p] /\ Tolerated(Faulted) /\ phase'[p] = phase[p]
  BY FaultCosts
<1>2. phase[p] = "running" /\ Working(p)
  BY <1>1 DEF Steady
<1>3. /\ Spent(Faulted) \in Nat /\ Spent(Faulted') >= Spent(Faulted) /\ Spent(Faulted') \in Nat
  BY FaultCosts, Costs
<1>4. /\ validLeft[p] \in Nat /\ wait[p] \in Nat /\ Ttl \in Nat /\ (~Idle(p) => call[p].age \in Nat)
  BY <1>1, <1>2, WorkingHolds, TimingAssumption
<1>5. /\ fence'[p] = fence[p] /\ lost'[p] = lost[p] /\ renewer'[p] = renewer[p]
      /\ wait'[p] = wait[p] /\ validLeft'[p] = validLeft[p] /\ call'[p] = call[p]
  BY <1>1, <1>2
<1>6. Idle(p)' <=> Idle(p)
  BY <1>5 DEF Idle
<1>7. CASE Idle(p)
  BY <1>2, <1>3, <1>4, <1>5, <1>6, <1>7 DEF Working
<1>8. CASE ~Idle(p)
  BY <1>2, <1>3, <1>4, <1>5, <1>6, <1>8 DEF Working
<1> QED
  BY <1>1, <1>2, <1>7, <1>8

Untouched(p) ==
  /\ phase'[p] = phase[p] /\ fence'[p] = fence[p] /\ validLeft'[p] = validLeft[p]
  /\ lost'[p] = lost[p] /\ stopEvent'[p] = stopEvent[p] /\ renewer'[p] = renewer[p]
  /\ wait'[p] = wait[p] /\ call'[p] = call[p]

\* A process acts on its own state only.
LEMMA OthersKeep ==
  ASSUME TypeOK, NEW p \in Proc, NEW q \in Proc, q # p,
         Main(q) \/ Renewal(q) \/ Process(q) \/ Crash(q) \/ Pause(q)
  PROVE  Untouched(p)
<1> USE DEF TypeOK, Untouched, Send, Hangup, procVars
<1>1. CASE Main(q)
  <2>1. CASE Start(q) \/ Activate(q) \/ Suspend(q) \/ Resume(q) \/ Reacquire(q)
    BY <2>1 DEF Start, Activate, Suspend, Resume, Reacquire
  <2>2. CASE StartRefused(q) \/ ReacquireRefused(q) \/ Exit(q)
    BY <2>2 DEF StartRefused, ReacquireRefused, Exit, CallFails, Abandon
  <2>3. CASE RequestStop(q) \/ Shutdown(q) \/ Release(q)
    BY <2>3 DEF RequestStop, Shutdown, Release
  <2> QED
    BY <1>1, <2>1, <2>2, <2>3 DEF Main
<1>2. CASE Renewal(q)
  BY <1>2 DEF Renewal, RenewSend, RenewDue, RenewAccepted, RenewRejected, RenewFailed, RenewerExit,
     CallFails, Abandon
<1>3. CASE Process(q)
  BY <1>3 DEF Process
<1>4. CASE Crash(q)
  BY <1>4 DEF Crash, Abandon
<1>5. CASE Pause(q)
  BY <1>5 DEF Pause
<1> QED
  BY <1>1, <1>2, <1>3, <1>4, <1>5

\* Every step costs at most one fault.
LEMMA FaultsStep ==
  ASSUME [Next]_vars
  PROVE  faults' = faults \/ Fault
<1>1. ASSUME NEW p \in Proc, Main(p) PROVE faults' = faults \/ Fault
  BY <1>1 DEF Main, Start, StartRefused, Activate, Suspend, Resume, Reacquire, ReacquireRefused,
     RequestStop, Shutdown, Release, Exit, CallFails
<1>2. ASSUME NEW p \in Proc, Renewal(p) PROVE faults' = faults \/ Fault
  BY <1>2 DEF Renewal, RenewSend, RenewAccepted, RenewRejected, RenewFailed, RenewerExit, CallFails
<1>3. ASSUME NEW p \in Proc, Process(p) \/ Crash(p) \/ Pause(p) PROVE faults' = faults \/ Fault
  BY <1>3 DEF Process, Crash, Pause
<1>4. ASSUME NEW s \in Slot, ProcessLate(s) PROVE faults' = faults \/ Fault
  BY <1>4 DEF ProcessLate
<1>5. ASSUME Tick \/ UNCHANGED vars PROVE faults' = faults \/ Fault
  BY <1>5 DEF Tick, vars
<1> QED
  BY <1>1, <1>2, <1>3, <1>4, <1>5 DEF Next

\* The main thread of a steady process.
LEMMA SteadyMain ==
  ASSUME IInv, TypeOK', NEW p \in Proc, Steady(p), Main(p)
  PROVE  Steady(p)'
<1>0. /\ TypeOK /\ CallInv /\ PhaseInv /\ AnswerInv /\ (lease.left > 0 => lease.token > 0)
      /\ faults' = faults \/ Fault
  BY FaultsStep DEF IInv, Next
<1> USE <1>0
<1>1. CASE Activate(p)
  <2> SUFFICES ASSUME ~stopEvent'[p], Tolerated(Faulted')
               PROVE  phase'[p] = "running" /\ Working(p)'
    BY DEF Steady
  <2>1. faults' = faults /\ stopEvent' = stopEvent /\ phase'[p] = "running" /\ Idle(p)'
        /\ lost'[p] = FALSE /\ renewer'[p] = TRUE /\ wait'[p] = Heartbeat /\ validLeft'[p] = Ttl
        /\ fence'[p] = call[p].answer.token
    BY <1>1 DEF Activate, Hangup, TypeOK, Idle
  <2>2. Faulted' = Faulted /\ Faulted \in Nat
    BY <2>1, FaultCosts DEF Faulted
  <2>3. /\ Spent(Faulted) \in Nat /\ RequestTimeout < Ttl /\ Heartbeat \in Nat /\ Ttl \in Nat
        /\ Heartbeat <= Spent(Faulted)
    <3>1. Spent(Faulted) \in Nat /\ Heartbeat <= Spent(Faulted)
      BY <2>2, Costs
    <3>2. Spent(Faulted) + RequestTimeout < Ttl - SafetyMargin
      BY <2>2, Costs
    <3> QED
      BY <3>1, <3>2, TimingAssumption
  <2>4. call[p] \in Call /\ call[p].answered /\ call[p].answer.ok /\ call[p].req.op = "acquire"
        /\ ~Idle(p)
    BY <1>1 DEF Activate, Answered, TypeOK, Idle
  <2>5. call[p].since \in 0..RequestTimeout
    BY <2>4 DEF Call
  <2>6. OwnsFor(lease, p, call[p].answer.token, Ttl - call[p].since)
    BY <2>3, <2>4, <2>5, TimingAssumption DEF AnswerInv
  <2>7. call[p].answer.token > 0
    BY <2>3, <2>5, <2>6, TimingAssumption DEF OwnsFor, TypeOK
  <2>8. Ttl + Heartbeat <= Ttl + Spent(Faulted)
    BY <2>3
  <2> QED
    BY <2>1, <2>2, <2>7, <2>8 DEF Working
<1>2. CASE Suspend(p)
  <2> SUFFICES ASSUME ~stopEvent'[p], Tolerated(Faulted') PROVE FALSE
    BY DEF Steady
  <2>1. ~stopEvent[p] /\ Tolerated(Faulted) /\ phase[p] = "running" /\ ~RoleLeaseValid(p)
    BY <1>2, FaultCosts DEF Suspend
  <2> QED
    BY <2>1, WorkingHolds DEF Steady
<1>3. CASE Resume(p)
  <2> SUFFICES ASSUME ~stopEvent'[p], Tolerated(Faulted') PROVE FALSE
    BY DEF Steady
  <2> QED
    BY <1>3, FaultCosts DEF Resume, Steady
<1>4. CASE Start(p) \/ StartRefused(p) \/ Release(p) \/ Exit(p) \/ Shutdown(p)
  <2>1. phase'[p] \in {"starting", "gone", "stopping"} /\ (stopEvent[p] => stopEvent'[p])
    BY <1>4 DEF Start, StartRefused, Release, Exit, Shutdown, TypeOK, procVars
  <2> QED
    BY <2>1 DEF Steady
<1>5. CASE Reacquire(p) \/ ReacquireRefused(p)
  <2>1. phase[p] = "suspended" /\ phase'[p] = phase[p] /\ stopEvent'[p] = stopEvent[p]
    BY <1>5 DEF Reacquire, ReacquireRefused, procVars
  <2> QED
    BY <2>1, FaultCosts DEF Steady
<1>6. CASE RequestStop(p)
  <2>1. stopEvent'[p]
    BY <1>6 DEF RequestStop, TypeOK
  <2> QED
    BY <2>1 DEF Steady
<1> QED
  BY <1>1, <1>2, <1>3, <1>4, <1>5, <1>6 DEF Main

\* What a step finds when the process is to go on working after it.
LEMMA SteadyBefore ==
  ASSUME TypeOK, TypeOK', NEW p \in Proc, Steady(p), [Next]_vars,
         stopEvent'[p] = stopEvent[p], phase'[p] = phase[p],
         ~stopEvent'[p], Tolerated(Faulted'), phase'[p] \in {"running", "suspended"}
  PROVE  /\ phase[p] = "running" /\ Working(p) /\ RoleLeaseValid(p) /\ validLeft[p] > SafetyMargin
         /\ validLeft[p] \in Nat /\ SafetyMargin \in Nat /\ Ttl \in Nat /\ wait[p] \in Nat
         /\ RequestTimeout \in Nat /\ RetryDelay \in Nat /\ Heartbeat \in Nat
         /\ Retry = RequestTimeout + RetryDelay
         /\ Faulted \in Nat /\ Spent(Faulted) \in Nat /\ Spent(Faulted') \in Nat
         /\ Spent(Faulted') \in {Spent(Faulted), Spent(Faulted) + Retry}
         /\ Fault => Spent(Faulted') = Spent(Faulted) + Retry
         /\ faults' = faults => Spent(Faulted') = Spent(Faulted)
         /\ Heartbeat <= Spent(Faulted')
         /\ ~Idle(p) => call[p] \in Call /\ call[p].age \in 0..RequestTimeout
<1>1. /\ Faulted \in Nat /\ Faulted' \in Nat /\ Spent(Faulted) \in Nat
      /\ Spent(Faulted') \in {Spent(Faulted), Spent(Faulted) + Retry}
      /\ Tolerated(Faulted)
      /\ Fault => Spent(Faulted') = Spent(Faulted) + Retry
  BY FaultsStep, FaultCosts
<1>2. phase[p] = "running" /\ Working(p)
  BY <1>1 DEF Steady
<1>3. ~Idle(p) => call[p] \in Call
  BY DEF TypeOK, Idle
<1>4. Spent(Faulted') \in Nat /\ Heartbeat <= Spent(Faulted')
  BY <1>1, Costs
<1>5. faults' = faults => Spent(Faulted') = Spent(Faulted)
  BY DEF Faulted
<1>6. Retry = RequestTimeout + RetryDelay
  BY DEF Retry
<1> QED
  BY <1>1, <1>2, <1>3, <1>4, <1>5, <1>6, WorkingHolds, TimingAssumption

\* The renewals of a steady process.
LEMMA SteadyRenewal ==
  ASSUME IInv, TypeOK', NEW p \in Proc, Steady(p), Renewal(p) \/ Pause(p)
  PROVE  Steady(p)'
<1>0. TypeOK /\ CallInv /\ [Next]_vars
  BY DEF IInv, Next
<1>1. CASE RenewerExit(p)
  <2>1. stopEvent'[p]
    BY <1>1 DEF RenewerExit
  <2> QED
    BY <2>1 DEF Steady
<1>2. CASE ~RenewerExit(p)
  <2> SUFFICES ASSUME ~stopEvent'[p], Tolerated(Faulted'), phase'[p] \in {"running", "suspended"}
               PROVE  phase'[p] = "running" /\ Working(p)'
    BY DEF Steady
  <2>1. /\ phase'[p] = phase[p] /\ stopEvent'[p] = stopEvent[p]
        /\ fence'[p] = fence[p]
    BY <1>2 DEF Renewal, RenewSend, RenewAccepted, RenewRejected, RenewFailed, Pause, procVars
  <2>2. phase[p] = "running" /\ phase'[p] = "running" /\ Working(p)
    BY <1>0, <2>1, SteadyBefore
  <2>3. CASE RenewSend(p)
    <3>1. /\ wait[p] = 0 /\ Idle(p) /\ ~Idle(p)' /\ faults' = faults
          /\ call'[p].req.op = "renew" /\ ~call'[p].answered /\ call'[p].age = 0
          /\ validLeft' = validLeft /\ lost' = lost /\ renewer' = renewer
      <4> DEFINE c == [req |-> [op |-> "renew", owner |-> p, token |-> fence[p]],
                       answered |-> FALSE, answer |-> NoAnswer, age |-> 0, since |-> 0]
      <4>1. wait[p] = 0 /\ Idle(p) /\ faults' = faults /\ call'[p] = c
            /\ validLeft' = validLeft /\ lost' = lost /\ renewer' = renewer
        BY <1>0, <2>3 DEF RenewSend, RenewDue, Send, procVars, TypeOK
      <4>2. c \in Call
        BY <1>0, TimingAssumption DEF Call, Request, NoAnswer, TypeOK
      <4>3. c # None
        BY <4>2, NoneIsNotACall
      <4> QED
        BY <4>1, <4>3 DEF Idle
    <3>2. Ttl <= validLeft'[p] + Spent(Faulted') + call'[p].age
      BY <1>0, <2>1, <2>2, <3>1, SteadyBefore DEF Working
    <3> QED
      BY <2>1, <2>2, <3>1, <3>2 DEF Working
  <2>4. CASE RenewAccepted(p)
    <3>1. /\ Idle(p)' /\ faults' = faults /\ validLeft'[p] = Ttl /\ wait'[p] = Heartbeat
          /\ lost' = lost /\ renewer' = renewer
      BY <1>0, <2>4 DEF RenewAccepted, Hangup, TypeOK, Idle
    <3>2. Ttl + wait'[p] <= validLeft'[p] + Spent(Faulted')
      BY <1>0, <2>1, <2>2, <3>1, SteadyBefore
    <3> QED
      BY <2>1, <2>2, <3>1, <3>2 DEF Working
  <2>5. CASE RenewRejected(p)
    BY <2>2, <2>5 DEF RenewRejected, Answered, Working
  <2>6. CASE RenewFailed(p)
    <3>1. ~(validLeft[p] <= SafetyMargin)
      BY <1>0, <2>1, <2>2, SteadyBefore
    <3>2. /\ ~Idle(p) /\ Idle(p)' /\ Fault /\ wait'[p] = RetryDelay /\ validLeft' = validLeft
          /\ lost' = lost /\ renewer' = renewer
      BY <1>0, <2>6, <3>1 DEF RenewFailed, CallFails, Abandon, Hangup, TypeOK, Idle
    <3>3. Ttl <= validLeft[p] + Spent(Faulted) + call[p].age
      BY <2>2, <3>2 DEF Working
    <3>4. Ttl + wait'[p] <= validLeft'[p] + Spent(Faulted')
      BY <1>0, <2>1, <2>2, <3>2, <3>3, SteadyBefore
    <3> QED
      BY <2>1, <2>2, <3>2, <3>4 DEF Working
  <2>7. CASE Pause(p)
    <3>1. /\ Idle(p) /\ Idle(p)' /\ Fault /\ wait[p] = 0 /\ wait'[p] = 1 /\ validLeft' = validLeft
          /\ lost' = lost /\ renewer' = renewer
      BY <1>0, <2>7 DEF Pause, RenewDue, TypeOK, Idle
    <3>2. Ttl <= validLeft[p] + Spent(Faulted)
      BY <1>0, <2>1, <2>2, <3>1, SteadyBefore DEF Working
    <3>3. Ttl + wait'[p] <= validLeft'[p] + Spent(Faulted')
      BY <1>0, <2>1, <2>2, <3>1, <3>2, SteadyBefore, Costs
    <3> QED
      BY <2>1, <2>2, <3>1, <3>3 DEF Working
  <2> QED
    BY <1>2, <2>3, <2>4, <2>5, <2>6, <2>7 DEF Renewal
<1> QED
  BY <1>1, <1>2

\* The backend grants the renewal of a steady process.
LEMMA SteadyProcess ==
  ASSUME IInv, TypeOK', NEW p \in Proc, Steady(p), Process(p)
  PROVE  Steady(p)'
<1>0. TypeOK /\ CallInv /\ HolderInv /\ [Next]_vars
  BY DEF IInv, Next
<1> SUFFICES ASSUME ~stopEvent'[p], Tolerated(Faulted'), phase'[p] \in {"running", "suspended"}
             PROVE  phase'[p] = "running" /\ Working(p)'
  BY DEF Steady
<1>1. /\ phase' = phase /\ stopEvent' = stopEvent /\ fence' = fence /\ lost' = lost
      /\ renewer' = renewer /\ validLeft' = validLeft /\ faults' = faults /\ ~Idle(p)
  BY DEF Process, procVars
<1>2. /\ phase[p] = "running" /\ Working(p) /\ RoleLeaseValid(p) /\ call[p] \in Call
      /\ Spent(Faulted') = Spent(Faulted) /\ validLeft[p] > SafetyMargin
      /\ validLeft[p] \in Nat /\ SafetyMargin \in Nat
  BY <1>0, <1>1, SteadyBefore
<1>3. lease.owner = p /\ lease.token = fence[p] /\ lease.left > 0
  BY <1>0, <1>2 DEF HolderInv, Holder, OwnsFor, TypeOK
<1>4. call[p].req.op = "renew" /\ call[p].req.owner = p /\ call[p].req.token = fence[p]
  BY <1>0, <1>1, <1>2 DEF CallInv, Working
<1>5. AnswerTo(lease, call[p].req).ok
  BY <1>3, <1>4 DEF AnswerTo, RenewGranted
<1>6. /\ call'[p].req = call[p].req /\ call'[p].age = call[p].age
      /\ call'[p].answer = AnswerTo(lease, call[p].req)
  <2>1. call' = [call EXCEPT ![p].answered = TRUE, ![p].answer = AnswerTo(lease, call[p].req)]
    BY DEF Process
  <2>2. call'[p] = [call[p] EXCEPT !.answered = TRUE, !.answer = AnswerTo(lease, call[p].req)]
    BY <1>0, <2>1 DEF TypeOK
  <2> QED
    BY <1>2, <2>2 DEF Call
<1>7. call'[p] # None
  <2>1. call[p] \in Call /\ AnswerTo(lease, call[p].req) \in [ok : BOOLEAN, token : Nat]
    BY <1>0, <1>2, AnswerType DEF TypeOK, Row, Call
  <2>2. call'[p] = [call[p] EXCEPT !.answered = TRUE, !.answer = AnswerTo(lease, call[p].req)]
    BY <1>0 DEF TypeOK, Process
  <2>3. call'[p] \in Call
    BY <2>1, <2>2 DEF Call
  <2> QED
    BY <2>3, NoneIsNotACall
<1> QED
  BY <1>1, <1>2, <1>4, <1>5, <1>6, <1>7 DEF Working, Idle

\* No renewal of a steady process is late.
LEMMA SteadyTick ==
  ASSUME IInv, TypeOK', NEW p \in Proc, Steady(p), Tick
  PROVE  Steady(p)'
<1>0. TypeOK /\ [Next]_vars
  BY DEF IInv, Next
<1> SUFFICES ASSUME ~stopEvent'[p], Tolerated(Faulted'), phase'[p] \in {"running", "suspended"}
             PROVE  phase'[p] = "running" /\ Working(p)'
  BY DEF Steady
<1>1. /\ phase' = phase /\ stopEvent' = stopEvent /\ fence' = fence /\ lost' = lost
      /\ renewer' = renewer /\ faults' = faults
      /\ validLeft'[p] = Less(validLeft[p]) /\ wait'[p] = Less(wait[p]) /\ ~RenewDue(p)
  BY DEF Tick
<1>2. /\ phase[p] = "running" /\ Working(p)
      /\ Spent(Faulted') = Spent(Faulted) /\ validLeft[p] > SafetyMargin /\ Spent(Faulted) \in Nat
      /\ validLeft[p] \in Nat /\ SafetyMargin \in Nat /\ wait[p] \in Nat /\ Ttl \in Nat
      /\ ~Idle(p) => call[p].age \in 0..RequestTimeout
  BY <1>0, <1>1, SteadyBefore
<1>3. validLeft'[p] = validLeft[p] - 1
  BY <1>1, <1>2 DEF Less
<1>4. CASE Idle(p)
  <2>1. Idle(p)'
    BY <1>4 DEF Tick, Idle
  <2>2. wait[p] > 0
    BY <1>1, <1>2, <1>4 DEF RenewDue, Working
  <2>3. Ttl + wait'[p] <= validLeft'[p] + Spent(Faulted')
    BY <1>1, <1>2, <1>3, <1>4, <2>2 DEF Less, Working
  <2> QED
    BY <1>1, <1>2, <2>1, <2>3 DEF Working
<1>5. CASE ~Idle(p)
  <2>1. ~Idle(p)'
    <3>1. call[p] \in Call /\ call[p].age < RequestTimeout
      BY <1>0, <1>5 DEF TypeOK, Idle, Tick
    <3>2. call'[p] = [call[p] EXCEPT !.age = call[p].age + 1,
                        !.since = IF call[p].answered THEN call[p].since + 1 ELSE call[p].since]
      BY <1>5 DEF Tick
    <3>3. call[p].since <= call[p].age
      BY <1>5 DEF IInv, CallInv
    <3>4. call[p].age + 1 \in 0..RequestTimeout /\ call[p].since + 1 \in 0..RequestTimeout
      BY <3>1, <3>3, TimingAssumption DEF Call
    <3>5. call'[p] \in Call
      BY <3>1, <3>2, <3>4 DEF Call
    <3> QED
      BY <3>5, NoneIsNotACall DEF Idle
  <2>2. /\ call'[p].req = call[p].req /\ call'[p].answered = call[p].answered
        /\ call'[p].answer = call[p].answer /\ call'[p].age = call[p].age + 1
    BY <1>0, <2>1, TickCall
  <2>3. Ttl <= validLeft'[p] + Spent(Faulted') + call'[p].age
    BY <1>1, <1>2, <1>3, <1>5, <2>2, TimingAssumption DEF Working
  <2> QED
    BY <1>1, <1>2, <1>5, <2>1, <2>2, <2>3 DEF Working
<1> QED
  BY <1>4, <1>5

SteadyInv == \A p \in Proc : Steady(p)

LEMMA SteadyStep ==
  ASSUME IInv, IInv', SteadyInv, [Next]_vars
  PROVE  SteadyInv'
<1> SUFFICES ASSUME NEW p \in Proc PROVE Steady(p)'
  BY DEF SteadyInv
<1>0. TypeOK /\ TypeOK' /\ Steady(p) /\ (faults' = faults \/ Fault)
  BY FaultsStep DEF IInv, SteadyInv
<1>1. CASE Untouched(p)
  BY <1>0, <1>1, SteadyFrame DEF Untouched
<1>2. CASE Main(p)
  BY <1>0, <1>2, SteadyMain
<1>3. CASE Renewal(p) \/ Pause(p)
  BY <1>0, <1>3, SteadyRenewal
<1>4. CASE Process(p)
  BY <1>0, <1>4, SteadyProcess
<1>5. CASE Crash(p)
  <2>1. phase'[p] = "gone"
    BY <1>0, <1>5 DEF Crash, TypeOK
  <2> QED
    BY <2>1 DEF Steady
<1>6. CASE Tick
  BY <1>0, <1>6, SteadyTick
<1>7. ASSUME NEW q \in Proc, q # p, Main(q) \/ Renewal(q) \/ Process(q) \/ Crash(q) \/ Pause(q)
      PROVE  Untouched(p)
  BY <1>0, <1>7, OthersKeep
<1>8. ASSUME NEW s \in Slot, ProcessLate(s) PROVE Untouched(p)
  BY <1>8 DEF ProcessLate, procVars, Untouched
<1>9. UNCHANGED vars => Untouched(p)
  BY DEF vars, Untouched
<1> QED
  BY <1>1, <1>2, <1>3, <1>4, <1>5, <1>6, <1>7, <1>8, <1>9 DEF Next

\* As long as faults cost less than the margin between heartbeat and TTL, a process
\* in its main loop keeps a valid lease, whatever else happens: the renewal thread
\* is never too late and coordination.php never rejects it.
THEOREM TransientFaultsAreTolerated == Spec => []TransientFaultsTolerated
<1>1. Init => SteadyInv
  BY DEF Init, SteadyInv, Steady
<1>2. IInv /\ IInv' /\ SteadyInv /\ [Next]_vars => SteadyInv'
  BY SteadyStep
<1>3. IInv /\ SteadyInv => TransientFaultsTolerated
  <2> SUFFICES ASSUME IInv, SteadyInv, NEW p \in Proc, phase[p] = "running", ~stopEvent[p],
                      Tolerated(MaxFaults - faults)
               PROVE  RoleLeaseValid(p)
    BY DEF TransientFaultsTolerated
  <2>1. Tolerated(Faulted) /\ Working(p) /\ TypeOK
    BY DEF SteadyInv, Steady, Faulted, IInv
  <2> QED
    BY <2>1, WorkingHolds
<1> QED
  BY <1>1, <1>2, <1>3, RoleLeaseInvariant, PTL DEF Spec

-------------------------------------------------------------------------------
(* Consequences for the clients of the lease.                                *)

\* Mutual exclusion: no two processes may do role work at the same time, under
\* every admissible timing, crash and delay.
THEOREM OneHolder == Spec => [](\A p, q \in Proc : Holder(p) /\ Holder(q) => p = q)
<1>1. HolderOwnsLease => \A p, q \in Proc : Holder(p) /\ Holder(q) => p = q
  BY DEF HolderOwnsLease
<1>2. QED
  BY <1>1, HolderOwnsLeaseAlways, PTL

\* A request the client sends again after a lost answer: processed a second time
\* it leaves the row as the first left it and is answered as it was the first
\* time, provided that nothing else came in between.
THEOREM RequestsMayBeRepeated ==
  ASSUME NEW l \in Row, NEW r \in Request
  PROVE  /\ RowAfter(RowAfter(l, r), r) = RowAfter(l, r)
         /\ AnswerTo(RowAfter(l, r), r) = AnswerTo(l, r)
<1> USE TimingAssumption DEF Row, Request
<1>1. CASE r.op = "acquire"
  <2>1. CASE AcquireGranted(l, r.owner)
    <3> DEFINE n == AcquireLease(l, r.owner)
    <3>1. n \in Row /\ n.owner = r.owner /\ n.left = Ttl /\ n.left > 0
      BY <2>1 DEF AcquireLease
    <3> HIDE DEF n
    <3>2. AcquireGranted(n, r.owner)
      BY <3>1 DEF AcquireGranted
    <3>3. AcquireLease(n, r.owner) = n
      BY <3>1, <3>2 DEF AcquireLease
    <3>4. QED
      BY <1>1, <2>1, <3>2, <3>3 DEF RowAfter, AnswerTo, n
  <2>2. CASE ~AcquireGranted(l, r.owner)
    BY <1>1, <2>2 DEF RowAfter, AnswerTo, AcquireLease
  <2>3. QED
    BY <2>1, <2>2
<1>2. CASE r.op = "renew"
  <2>1. CASE RenewGranted(l, r.owner, r.token)
    <3> DEFINE n == [l EXCEPT !.left = Ttl]
    <3>1. n \in Row /\ n.owner = l.owner /\ n.token = l.token /\ n.left = Ttl
      <4>1. Ttl \in 0..Ttl /\ l \in Row
        OBVIOUS
      <4>2. QED
        BY <4>1
    <3> HIDE DEF n
    <3>2. [n EXCEPT !.left = Ttl] = n
      BY <3>1
    <3>3. RenewGranted(n, r.owner, r.token)
      BY <2>1, <3>1 DEF RenewGranted
    <3>4. RenewLease(l, r.owner, r.token) = n
      BY <2>1 DEF RenewLease, n
    <3>5. RenewLease(n, r.owner, r.token) = n
      BY <3>2, <3>3 DEF RenewLease
    <3>6. QED
      BY <1>2, <2>1, <3>3, <3>4, <3>5 DEF RowAfter, AnswerTo
  <2>2. CASE ~RenewGranted(l, r.owner, r.token)
    BY <1>2, <2>2 DEF RowAfter, AnswerTo, RenewLease
  <2>3. QED
    BY <2>1, <2>2
<1>3. CASE r.op = "release"
  BY <1>3 DEF RowAfter, AnswerTo, ReleaseLease
<1>4. QED
  BY <1>1, <1>2, <1>3

-------------------------------------------------------------------------------
(* The seam with TradeExecution.                                             *)

\* The lease as TradeExecution composes it with the trades of the runtimes: a
\* process takes up a new token only while its main thread is in start() or
\* recover_role_lease(), where no trade is under way, a renewal keeps the token,
\* and the processes lose their views one at a time.
ClientStep ==
  \/ \E p \in Proc : Authority!Grant(p) /\ UNCHANGED fence
  \/ \E p \in Proc :
       /\ \/ phase[p] \in {"starting", "suspended"}
          \/ phase[p] # "gone" /\ fence[p] = lease.token
       /\ Authority!Adopt(p)
       /\ fence' = [fence EXCEPT ![p] = lease.token]
  \/ \E p \in Proc : Authority!Drop({p}) /\ UNCHANGED fence
  \/ Authority!Lapse /\ UNCHANGED fence
  \/ UNCHANGED <<Authority!leaseVars, fence>>

\* Only _activate_acquired_lease() writes the token.
LEMMA FenceKept ==
  ASSUME [Next]_vars
  PROVE  UNCHANGED fence \/ \E p \in Proc : Activate(p)
<1>1. ASSUME NEW p \in Proc, Main(p) PROVE UNCHANGED fence \/ Activate(p)
  BY <1>1 DEF Main, Start, StartRefused, Suspend, Resume, Reacquire, ReacquireRefused,
     RequestStop, Shutdown, Release, Exit, procVars
<1>2. ASSUME NEW p \in Proc, Renewal(p) PROVE UNCHANGED fence
  BY <1>2 DEF Renewal, RenewSend, RenewAccepted, RenewRejected, RenewFailed, RenewerExit,
     procVars
<1>3. ASSUME NEW p \in Proc, Process(p) \/ Crash(p) \/ Pause(p) PROVE UNCHANGED fence
  BY <1>3 DEF Process, Crash, Pause, procVars
<1>4. ASSUME NEW s \in Slot, ProcessLate(s) PROVE UNCHANGED fence
  BY <1>4 DEF ProcessLate, procVars
<1>5. CASE Tick \/ UNCHANGED vars
  BY <1>5 DEF Tick, vars
<1>6. QED
  BY <1>1, <1>2, <1>3, <1>4, <1>5 DEF Next

\* A process that has ended does not come back.
LEMMA GoneStays ==
  ASSUME TypeOK, [Next]_vars, NEW q \in Proc, phase[q] = "gone"
  PROVE  phase'[q] = "gone"
<1>1. ASSUME NEW p \in Proc, Main(p) PROVE phase'[q] = "gone"
  BY <1>1 DEF TypeOK, Main, Start, StartRefused, Activate, Suspend, Resume, Reacquire,
     ReacquireRefused, RequestStop, Shutdown, Release, Exit, procVars
<1>2. ASSUME NEW p \in Proc, Renewal(p) PROVE UNCHANGED phase
  BY <1>2 DEF Renewal, RenewSend, RenewAccepted, RenewRejected, RenewFailed, RenewerExit,
     procVars
<1>3. ASSUME NEW p \in Proc, Process(p) \/ Crash(p) \/ Pause(p) PROVE phase'[q] = "gone"
  BY <1>3 DEF TypeOK, Process, Crash, Pause, procVars
<1>4. ASSUME NEW s \in Slot, ProcessLate(s) PROVE UNCHANGED phase
  BY <1>4 DEF ProcessLate, procVars
<1>5. CASE Tick \/ UNCHANGED vars
  BY <1>5 DEF Tick, vars
<1>6. QED
  BY <1>1, <1>2, <1>3, <1>4, <1>5 DEF Next

\* An activation makes its process a holder: the answer is not older than the
\* request timeout, which is shorter than the lease.
LEMMA ActivateAdopts ==
  ASSUME SafetyMargin + Heartbeat < Ttl, IInv, IInv', NEW p \in Proc, Activate(p)
  PROVE  ClientStep
<1>1. /\ call[p] \in Call
      /\ call[p].since \in Nat
      /\ call[p].since < Ttl
  <2>1. call[p] \in Call
    BY DEF Activate, Answered, Idle, IInv, TypeOK
  <2>2. call[p].since \in 0..RequestTimeout
    BY <2>1 DEF Call
  <2>3. QED
    BY <2>1, <2>2, TimingAssumption
<1>2. OwnsFor(lease, p, call[p].answer.token, Ttl - call[p].since)
  BY <1>1 DEF Activate, Answered, IInv, AnswerInv
<1>3. lease.left > 0 /\ lease.token > 0 /\ lease.token \in Nat
  <2>1. lease.left \in Nat /\ lease.token \in Nat
    BY DEF IInv, TypeOK
  <2>2. lease.left > 0
    BY <1>1, <1>2, <2>1, TimingAssumption DEF OwnsFor
  <2>3. QED
    BY <2>1, <2>2 DEF IInv
<1>4. /\ fence' = [fence EXCEPT ![p] = lease.token]
      /\ lease' = lease
      /\ lease.owner = p
      /\ phase[p] \in {"starting", "suspended"}
  BY <1>2 DEF Activate, OwnsFor
<1>5. /\ fence'[p] = lease.token
      /\ validLeft'[p] = Ttl
      /\ lost'[p] = FALSE
      /\ phase'[p] = "running"
  BY <1>4 DEF Activate, IInv, TypeOK
<1>6. Holder(p)'
  BY <1>3, <1>5, TimingAssumption DEF Holder, RoleLeaseValid
<1>7. ASSUME NEW q \in Proc \ {p}
      PROVE  (Holder(q)' <=> Holder(q)) /\ fence'[q] = fence[q]
  BY DEF Activate, Holder, RoleLeaseValid, IInv, TypeOK
<1>8. View' = [View EXCEPT ![p] = lease.token]
  BY <1>5, <1>6, <1>7 DEF View
<1>9. Authority!Adopt(p)
  BY <1>3, <1>4, <1>8 DEF Authority!Adopt
<1>10. QED
  BY <1>4, <1>9 DEF ClientStep

\* The composition of TradeExecution with the lease is justified: what the
\* coordinators and coordination.php do is, for the processes that trade, one of
\* the lease steps that module allows.  validate_config demands the hypothesis.
THEOREM LeaseServesTrades ==
  ASSUME SafetyMargin + Heartbeat < Ttl
  PROVE  Spec => [][ClientStep]_vars
<1>1. ASSUME IInv, IInv', [Next]_vars PROVE ClientStep
  <2>1. CASE \E p \in Proc : Activate(p)
    BY <1>1, <2>1, ActivateAdopts
  <2>2. CASE UNCHANGED fence
    <3>1. Mapped
      BY <1>1, StepRefines
    <3>2. CASE \E p \in Proc : Authority!Grant(p)
      BY <2>2, <3>2 DEF ClientStep
    <3>3. ASSUME NEW p \in Proc, Authority!Adopt(p) PROVE ClientStep
      <4>1. lease.token > 0 /\ lease.token \in Nat
        BY <1>1, <3>3 DEF Authority!Adopt, IInv, TypeOK
      <4>2. View'[p] = lease.token
        BY <3>3 DEF Authority!Adopt, View
      <4>3. Holder(p)' /\ fence'[p] = lease.token
        BY <4>1, <4>2 DEF View
      <4>4. phase[p] # "gone"
        BY <1>1, <4>3, GoneStays DEF Holder, IInv
      <4>5. fence' = [fence EXCEPT ![p] = lease.token]
        BY <1>1, <2>2, <4>3 DEF IInv, TypeOK
      <4>6. fence[p] = lease.token
        BY <2>2, <4>3
      <4>7. QED
        BY <3>3, <4>4, <4>5, <4>6 DEF ClientStep
    <3>4. ASSUME NEW D \in SUBSET Proc, Authority!Drop(D) PROVE ClientStep
      <4>1. CASE \A p \in D : ~Holder(p)
        <5>1. View' = View
          BY <3>4, <4>1 DEF Authority!Drop, View
        <5>2. QED
          BY <2>2, <3>4, <5>1 DEF Authority!Drop, Authority!leaseVars, ClientStep
      <4>2. CASE \E p \in D : Holder(p)
        <5>1. PICK p \in D : Holder(p)
          BY <4>2
        <5>2. \A q \in D \ {p} : ~Holder(q)
          BY <1>1, <5>1 DEF IInv, HolderInv, OwnsFor
        <5>3. View' = [q \in Proc |-> IF q \in {p} THEN 0 ELSE View[q]]
          BY <3>4, <5>2 DEF Authority!Drop, View
        <5>4. Authority!Drop({p})
          BY <3>4, <5>3 DEF Authority!Drop
        <5>5. QED
          BY <2>2, <5>1, <5>4 DEF ClientStep
      <4>3. QED
        BY <4>1, <4>2
    <3>5. CASE Authority!Lapse
      BY <2>2, <3>5 DEF ClientStep
    <3>6. CASE UNCHANGED Authority!leaseVars
      BY <2>2, <3>6 DEF ClientStep
    <3>7. QED
      BY <3>1, <3>2, <3>3, <3>4, <3>5, <3>6 DEF Mapped, Authority!LeaseNext
  <2>3. QED
    BY <1>1, <2>1, <2>2, FenceKept
<1>2. QED
  BY <1>1, RoleLeaseInvariant, PTL DEF Spec
===============================================================================
