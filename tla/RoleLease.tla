------------------------------- MODULE RoleLease -------------------------------
(***************************************************************************)
(* The global lease of one role (EXECUTOR or PUBLISHER) of one account:    *)
(* the row kept by coordination.php and the BackendLeaseCoordinator of     *)
(* every runtime process that competes for it.                             *)
(*                                                                         *)
(* Time is discrete.  Deadlines are kept as the time left until them, so   *)
(* expires_at > now is lease.left > 0 and valid_until - now is             *)
(* validLeft[p].  A request is processed by the backend at some instant    *)
(* and its answer received later; a request whose caller has given up may  *)
(* still be processed at any later time.                                   *)
(***************************************************************************)
EXTENDS Integers

CONSTANTS Proc,            \* runtime processes, each with an owner id of its own
          None,            \* no owner, no request
          Slot,            \* abandoned requests the network can hold at once
          Ttl,             \* role_lease_ttl_seconds
          Heartbeat,       \* role_lease_heartbeat_seconds
          RetryDelay,      \* delay of a renewal after a transport error
          SafetyMargin,    \* role_lease_safety_margin_seconds
          RequestTimeout,  \* coordination_timeout_seconds
          MaxFaults        \* bound: lost or abandoned calls, crashes and pauses

\* A caller knows the result of a request at most RequestTimeout after the
\* backend processed it, and the safety margin covers that delay.  A failed
\* attempt and the delay before the next one take at least one unit of time.
ASSUME TimingAssumption ==
  /\ Ttl \in Nat \ {0}
  /\ Heartbeat \in Nat
  /\ RetryDelay \in Nat
  /\ SafetyMargin \in Nat
  /\ RequestTimeout \in Nat
  /\ RequestTimeout <= SafetyMargin
  /\ RequestTimeout + RetryDelay > 0
  /\ MaxFaults \in Nat

ASSUME OwnerAssumption == None \notin Proc

VARIABLES
  lease,      \* the row: owner, fencing token, time left until expires_at
  phase,      \* where the main thread of each process is
  fence,      \* fencing_token
  validLeft,  \* valid_until_monotonic - monotonic(), at least 0
  lost,       \* lease_lost_event
  stopEvent,  \* stop_event
  renewer,    \* the _renew_worker thread is alive
  wait,       \* time left in its stop_event.wait(next_delay)
  call,       \* the outstanding request of each process
  late,       \* abandoned requests the backend may still process
  faults      \* faults the environment may still inject

vars == <<lease, phase, fence, validLeft, lost, stopEvent, renewer, wait,
          call, late, faults>>
procVars == <<phase, fence, validLeft, lost, stopEvent, renewer, wait>>

Phase == {"new", "starting", "running", "suspended", "stopping", "gone"}

Request == [op : {"acquire", "renew", "release"}, owner : Proc, token : Nat]

NoAnswer == [ok |-> FALSE, token |-> 0]

Call == [req : Request, answered : BOOLEAN, answer : [ok : BOOLEAN, token : Nat],
         age : 0..RequestTimeout, since : 0..RequestTimeout]

ASSUME NoneIsNotACall == None \notin Call

Idle(p) == call[p] = None

Init ==
  /\ lease = [owner |-> None, token |-> 0, left |-> 0]
  /\ phase = [p \in Proc |-> "new"]
  /\ fence = [p \in Proc |-> 0]
  /\ validLeft = [p \in Proc |-> 0]
  /\ lost = [p \in Proc |-> FALSE]
  /\ stopEvent = [p \in Proc |-> FALSE]
  /\ renewer = [p \in Proc |-> FALSE]
  /\ wait = [p \in Proc |-> 0]
  /\ call = [p \in Proc |-> None]
  /\ late = [s \in Slot |-> None]
  /\ faults = MaxFaults

-------------------------------------------------------------------------------
(* coordination.php: what one request does to the row.                       *)

\* Mutants stand before the definition they replace.
MutAcquireKeepsToken(l, o) ==
  IF l.left = 0 \/ l.owner = o
    THEN [owner |-> o, token |-> IF l.token > 0 THEN l.token ELSE 1, left |-> Ttl]
    ELSE l

\* acquireLease succeeds unless another owner's lease is active.
AcquireGranted(l, o) == l.left = 0 \/ l.owner = o

\* A live lease of the same owner keeps its token; anything else gets a new one.
AcquireLease(l, o) ==
  IF AcquireGranted(l, o)
    THEN [owner |-> o,
          token |-> IF l.left > 0 THEN l.token ELSE l.token + 1,
          left  |-> Ttl]
    ELSE l

MutRenewIgnoresExpiry(l, o, t) == l.owner = o /\ l.token = t

\* UPDATE ... WHERE owner_id = ? AND fencing_token = ? AND expires_at > now
RenewGranted(l, o, t) == l.owner = o /\ l.token = t /\ l.left > 0

MutRenewExtends(l, o, t) ==
  IF RenewGranted(l, o, t) THEN [l EXCEPT !.left = @ + Ttl] ELSE l

RenewLease(l, o, t) == IF RenewGranted(l, o, t) THEN [l EXCEPT !.left = Ttl] ELSE l

\* UPDATE ... SET expires_at = now WHERE owner_id = ? AND fencing_token = ?
ReleaseLease(l, o, t) ==
  IF l.owner = o /\ l.token = t THEN [l EXCEPT !.left = 0] ELSE l

RowAfter(l, r) ==
  CASE r.op = "acquire" -> AcquireLease(l, r.owner)
    [] r.op = "renew"   -> RenewLease(l, r.owner, r.token)
    [] r.op = "release" -> ReleaseLease(l, r.owner, r.token)

AnswerTo(l, r) ==
  CASE r.op = "acquire" -> [ok |-> AcquireGranted(l, r.owner),
                            token |-> AcquireLease(l, r.owner).token]
    [] r.op = "renew"   -> [ok |-> RenewGranted(l, r.owner, r.token),
                            token |-> r.token]
    [] r.op = "release" -> [ok |-> TRUE, token |-> r.token]

\* The backend processes the request a process is waiting on.
Process(p) ==
  /\ ~Idle(p)
  /\ ~call[p].answered
  /\ lease' = RowAfter(lease, call[p].req)
  /\ call' = [call EXCEPT ![p].answered = TRUE,
                          ![p].answer = AnswerTo(lease, call[p].req)]
  /\ UNCHANGED <<procVars, late, faults>>

\* The backend processes a request nobody waits for any more.
ProcessLate(s) ==
  /\ late[s] # None
  /\ lease' = RowAfter(lease, late[s])
  /\ late' = [late EXCEPT ![s] = None]
  /\ UNCHANGED <<procVars, call, faults>>

-------------------------------------------------------------------------------
(* Calls of a process.                                                       *)

Send(p, op, t) ==
  /\ Idle(p)
  /\ call' = [call EXCEPT ![p] =
       [req |-> [op |-> op, owner |-> p, token |-> t],
        answered |-> FALSE, answer |-> NoAnswer, age |-> 0, since |-> 0]]

Answered(p, op) == ~Idle(p) /\ call[p].answered /\ call[p].req.op = op

Hangup(p) == call' = [call EXCEPT ![p] = None]

\* A fault: the budget of the environment shrinks by one.
Fault == faults > 0 /\ faults' = faults - 1

\* The caller gives up on its call.  The request may already have been
\* processed, be lost, or stay in the network.
Abandon(p) ==
  /\ Hangup(p)
  /\ \/ UNCHANGED late
     \/ /\ ~call[p].answered
        /\ \E s \in Slot : /\ late[s] = None
                           /\ late' = [late EXCEPT ![s] = call[p].req]

\* _request raises: connection error, HTTP error or socket timeout.
CallFails(p, op) ==
  /\ ~Idle(p)
  /\ call[p].req.op = op
  /\ Fault
  /\ Abandon(p)

-------------------------------------------------------------------------------
(* BackendLeaseCoordinator: the main thread.                                 *)

MutValidIgnoresMargin(p) == fence[p] > 0 /\ ~lost[p] /\ validLeft[p] > 0

RoleLeaseValid(p) ==
  /\ fence[p] > 0
  /\ ~lost[p]
  /\ validLeft[p] > SafetyMargin

\* start(): the first acquisition.
Start(p) ==
  /\ phase[p] = "new"
  /\ phase' = [phase EXCEPT ![p] = "starting"]
  /\ Send(p, "acquire", 0)
  /\ UNCHANGED <<lease, fence, validLeft, lost, stopEvent, renewer, wait, late,
                 faults>>

\* start() raises: the process ends without a token, hence without a release.
StartRefused(p) ==
  /\ phase[p] = "starting"
  /\ phase' = [phase EXCEPT ![p] = "gone"]
  /\ \/ /\ Answered(p, "acquire")
        /\ ~call[p].answer.ok
        /\ Hangup(p)
        /\ UNCHANGED <<late, faults>>
     \/ CallFails(p, "acquire")
  /\ UNCHANGED <<lease, fence, validLeft, lost, stopEvent, renewer, wait>>

MutActivateKeepsLost(p) ==
  /\ phase[p] \in {"starting", "suspended"}
  /\ Answered(p, "acquire")
  /\ call[p].answer.ok
  /\ Hangup(p)
  /\ phase' = [phase EXCEPT ![p] = "running"]
  /\ fence' = [fence EXCEPT ![p] = call[p].answer.token]
  /\ validLeft' = [validLeft EXCEPT ![p] = Ttl]
  /\ renewer' = [renewer EXCEPT ![p] = TRUE]
  /\ wait' = [wait EXCEPT ![p] = Heartbeat]
  /\ UNCHANGED <<lease, lost, stopEvent, late, faults>>

\* _activate_acquired_lease(), reached from start() and recover_role_lease():
\* the local deadline counts from the receipt of the answer.
Activate(p) ==
  /\ phase[p] \in {"starting", "suspended"}
  /\ Answered(p, "acquire")
  /\ call[p].answer.ok
  /\ Hangup(p)
  /\ phase' = [phase EXCEPT ![p] = "running"]
  /\ fence' = [fence EXCEPT ![p] = call[p].answer.token]
  /\ validLeft' = [validLeft EXCEPT ![p] = Ttl]
  /\ lost' = [lost EXCEPT ![p] = FALSE]
  /\ renewer' = [renewer EXCEPT ![p] = TRUE]
  /\ wait' = [wait EXCEPT ![p] = Heartbeat]
  /\ UNCHANGED <<lease, stopEvent, late, faults>>

\* require_role_lease() raises LeaseLostError: role work is suspended.
Suspend(p) ==
  /\ phase[p] = "running"
  /\ ~RoleLeaseValid(p)
  /\ phase' = [phase EXCEPT ![p] = "suspended"]
  /\ UNCHANGED <<lease, fence, validLeft, lost, stopEvent, renewer, wait, call,
                 late, faults>>

\* recover_role_lease() finds the lease valid again: a renewal that was in
\* flight at the safety boundary succeeded.
Resume(p) ==
  /\ phase[p] = "suspended"
  /\ ~stopEvent[p]
  /\ RoleLeaseValid(p)
  /\ phase' = [phase EXCEPT ![p] = "running"]
  /\ UNCHANGED <<lease, fence, validLeft, lost, stopEvent, renewer, wait, call,
                 late, faults>>

\* recover_role_lease() asks again, once the renewal thread has ended.
Reacquire(p) ==
  /\ phase[p] = "suspended"
  /\ ~stopEvent[p]
  /\ ~RoleLeaseValid(p)
  /\ ~renewer[p]
  /\ Send(p, "acquire", 0)
  /\ UNCHANGED <<lease, procVars, late, faults>>

\* The lease is held by another owner, or the call failed: wait and retry.
ReacquireRefused(p) ==
  /\ phase[p] = "suspended"
  /\ \/ /\ Answered(p, "acquire")
        /\ ~call[p].answer.ok
        /\ Hangup(p)
        /\ UNCHANGED <<late, faults>>
     \/ CallFails(p, "acquire")
  /\ UNCHANGED <<lease, procVars>>

\* A signal or the service stop file: OPPWContinuousStrategy.stop().
RequestStop(p) ==
  /\ phase[p] \in {"running", "suspended"}
  /\ ~stopEvent[p]
  /\ stopEvent' = [stopEvent EXCEPT ![p] = TRUE]
  /\ UNCHANGED <<lease, phase, fence, validLeft, lost, renewer, wait, call, late,
                 faults>>

\* The main loop has ended, by request or by an exception, and the publisher
\* with it; coordinator.stop() begins.  recover_role_lease() only returns
\* between two requests.
Shutdown(p) ==
  /\ \/ phase[p] = "running"
     \/ phase[p] = "suspended" /\ stopEvent[p] /\ (~Idle(p) => renewer[p])
  /\ phase' = [phase EXCEPT ![p] = "stopping"]
  /\ stopEvent' = [stopEvent EXCEPT ![p] = TRUE]
  /\ UNCHANGED <<lease, fence, validLeft, lost, renewer, wait, call, late, faults>>

\* coordinator.stop() after joining the renewal thread.
Release(p) ==
  /\ phase[p] = "stopping"
  /\ ~renewer[p]
  /\ Send(p, "release", fence[p])
  /\ UNCHANGED <<lease, procVars, late, faults>>

\* The process ends whatever the release returned.
Exit(p) ==
  /\ phase[p] = "stopping"
  /\ phase' = [phase EXCEPT ![p] = "gone"]
  /\ \/ /\ Answered(p, "release")
        /\ Hangup(p)
        /\ UNCHANGED <<late, faults>>
     \/ CallFails(p, "release")
  /\ UNCHANGED <<lease, fence, validLeft, lost, stopEvent, renewer, wait>>

\* The process is killed; a request it had sent may still arrive.
Crash(p) ==
  /\ phase[p] \notin {"new", "gone"}
  /\ Fault
  /\ phase' = [phase EXCEPT ![p] = "gone"]
  /\ renewer' = [renewer EXCEPT ![p] = FALSE]
  /\ IF Idle(p) THEN UNCHANGED <<call, late>> ELSE Abandon(p)
  /\ UNCHANGED <<lease, fence, validLeft, lost, stopEvent, wait>>

-------------------------------------------------------------------------------
(* BackendLeaseCoordinator: the renewal thread.                              *)

RenewDue(p) == renewer[p] /\ ~stopEvent[p] /\ wait[p] = 0 /\ Idle(p)

RenewSend(p) ==
  /\ RenewDue(p)
  /\ Send(p, "renew", fence[p])
  /\ UNCHANGED <<lease, procVars, late, faults>>

RenewAccepted(p) ==
  /\ Answered(p, "renew")
  /\ call[p].answer.ok
  /\ Hangup(p)
  /\ validLeft' = [validLeft EXCEPT ![p] = Ttl]
  /\ wait' = [wait EXCEPT ![p] = Heartbeat]
  /\ UNCHANGED <<lease, phase, fence, lost, stopEvent, renewer, late, faults>>

\* An explicit backend rejection is authoritative.
RenewRejected(p) ==
  /\ Answered(p, "renew")
  /\ ~call[p].answer.ok
  /\ Hangup(p)
  /\ lost' = [lost EXCEPT ![p] = TRUE]
  /\ renewer' = [renewer EXCEPT ![p] = FALSE]
  /\ UNCHANGED <<lease, phase, fence, validLeft, stopEvent, wait, late, faults>>

MutRenewFailedWaitsHeartbeat(p) ==
  /\ CallFails(p, "renew")
  /\ IF validLeft[p] <= SafetyMargin
       THEN /\ lost' = [lost EXCEPT ![p] = TRUE]
            /\ renewer' = [renewer EXCEPT ![p] = FALSE]
            /\ UNCHANGED wait
       ELSE /\ wait' = [wait EXCEPT ![p] = Heartbeat]
            /\ UNCHANGED <<lost, renewer>>
  /\ UNCHANGED <<lease, phase, fence, validLeft, stopEvent>>

\* A transport error is retried until the safety margin is reached.
RenewFailed(p) ==
  /\ CallFails(p, "renew")
  /\ IF validLeft[p] <= SafetyMargin
       THEN /\ lost' = [lost EXCEPT ![p] = TRUE]
            /\ renewer' = [renewer EXCEPT ![p] = FALSE]
            /\ UNCHANGED wait
       ELSE /\ wait' = [wait EXCEPT ![p] = RetryDelay]
            /\ UNCHANGED <<lost, renewer>>
  /\ UNCHANGED <<lease, phase, fence, validLeft, stopEvent>>

\* stop_event ends the thread between two renewals.
RenewerExit(p) ==
  /\ renewer[p]
  /\ stopEvent[p]
  /\ Idle(p)
  /\ renewer' = [renewer EXCEPT ![p] = FALSE]
  /\ UNCHANGED <<lease, phase, fence, validLeft, lost, stopEvent, wait, call,
                 late, faults>>

\* The thread is not scheduled in time.
Pause(p) ==
  /\ RenewDue(p)
  /\ Fault
  /\ wait' = [wait EXCEPT ![p] = 1]
  /\ UNCHANGED <<lease, phase, fence, validLeft, lost, stopEvent, renewer, call,
                 late>>

-------------------------------------------------------------------------------

Less(n) == IF n > 0 THEN n - 1 ELSE 0

\* One unit of time.  No call outlasts the request timeout and, unless it is
\* paused, a renewal thread sends when its wait is over.
Tick ==
  /\ \A p \in Proc : ~RenewDue(p)
  /\ \A p \in Proc : ~Idle(p) => call[p].age < RequestTimeout
  /\ lease' = [lease EXCEPT !.left = Less(@)]
  /\ validLeft' = [p \in Proc |-> Less(validLeft[p])]
  /\ wait' = [p \in Proc |-> Less(wait[p])]
  /\ call' = [p \in Proc |->
       IF Idle(p) THEN None
       ELSE [call[p] EXCEPT !.age = @ + 1,
                            !.since = IF call[p].answered THEN @ + 1 ELSE @]]
  /\ UNCHANGED <<phase, fence, lost, stopEvent, renewer, late, faults>>

Main(p) ==
  \/ Start(p) \/ StartRefused(p) \/ Activate(p)
  \/ Suspend(p) \/ Resume(p) \/ Reacquire(p) \/ ReacquireRefused(p)
  \/ RequestStop(p) \/ Shutdown(p) \/ Release(p) \/ Exit(p)

Renewal(p) ==
  \/ RenewSend(p) \/ RenewAccepted(p) \/ RenewRejected(p) \/ RenewFailed(p)
  \/ RenewerExit(p)

Next ==
  \/ \E p \in Proc : Main(p) \/ Renewal(p) \/ Process(p) \/ Crash(p) \/ Pause(p)
  \/ \E s \in Slot : ProcessLate(s)
  \/ Tick

Spec == Init /\ [][Next]_vars

(***************************************************************************)
(* Fairness.  Time passes; the backend answers a request it has received;  *)
(* threads are scheduled.  Nothing obliges a process to start, to be       *)
(* stopped, or a network to deliver an abandoned request.                  *)
(***************************************************************************)
Ending(p) == (stopEvent[p] /\ Shutdown(p)) \/ Release(p) \/ Exit(p)

Recovery(p) == Suspend(p) \/ Resume(p) \/ Reacquire(p) \/ ReacquireRefused(p)

Fairness ==
  /\ SF_vars(Tick)
  /\ \A p \in Proc :
       /\ WF_vars(Process(p))
       /\ WF_vars(Renewal(p))
       /\ WF_vars(Activate(p) \/ StartRefused(p))
       /\ WF_vars(Recovery(p))
       /\ WF_vars(Ending(p))

FairSpec == Spec /\ Fairness

-------------------------------------------------------------------------------

\* Role work is possible: the main loop runs (or the publisher thread does while
\* the main thread recovers) and the local view of the lease is valid.
Holder(p) == phase[p] \in {"running", "suspended"} /\ RoleLeaseValid(p)

TypeOK ==
  /\ lease \in [owner : Proc \cup {None}, token : Nat, left : 0..Ttl]
  /\ phase \in [Proc -> Phase]
  /\ fence \in [Proc -> Nat]
  /\ validLeft \in [Proc -> 0..Ttl]
  /\ lost \in [Proc -> BOOLEAN]
  /\ stopEvent \in [Proc -> BOOLEAN]
  /\ renewer \in [Proc -> BOOLEAN]
  /\ wait \in [Proc -> Nat]
  /\ call \in [Proc -> Call \cup {None}]
  /\ late \in [Slot -> Request \cup {None}]
  /\ faults \in 0..MaxFaults

\* A process that may do role work owns the active row and presents its current
\* token, whatever calls were lost, delayed or processed after their caller had
\* given up (role_lease_valid against strategy_runtime_leases).
HolderOwnsLease ==
  \A p \in Proc : Holder(p) =>
    /\ lease.owner = p
    /\ lease.token = fence[p]
    /\ lease.left > 0

\* A fencing token is never handed to two processes, so a stale token can not
\* be mistaken for a current one by requireExecutor.
TokenIsExclusive ==
  \A p, q \in Proc : p # q /\ fence[p] = fence[q] => fence[p] = 0

\* Time that k failed renewals in a row can cost before one succeeds.
Tolerated(k) ==
  Heartbeat + k * (RequestTimeout + RetryDelay) + RequestTimeout
    < Ttl - SafetyMargin

\* A few lost calls or pauses do not interrupt role work: unless it is being
\* stopped, a process in its main loop keeps a valid lease until more renewals
\* have failed than the margin between heartbeat and TTL can absorb.
TransientFaultsTolerated ==
  \A p \in Proc :
    phase[p] = "running" /\ ~stopEvent[p] /\ Tolerated(MaxFaults - faults)
      => RoleLeaseValid(p)

\* The token of the row never decreases, and a new owner always gets a larger
\* token than every earlier owner had.
TokenGrows ==
  [][/\ lease'.token >= lease.token
     /\ lease'.owner # lease.owner => lease'.token > lease.token]_vars

\* Once faults and stops have ended, a surviving process holds the lease and
\* keeps it: no lost or late call leaves the account without an owner for ever.
LeadershipSettles ==
  <>[]((\E p \in Proc : phase[p] \in {"running", "suspended"})
         => \E q \in Proc : Holder(q))

-------------------------------------------------------------------------------

\* The lease as its users see it: time, threads and messages are hidden.
View == [p \in Proc |-> IF Holder(p) THEN fence[p] ELSE 0]

Authority == INSTANCE LeaseAuthority
  WITH owner <- lease.owner, token <- lease.token, active <- (lease.left > 0),
       view <- View

ImplementsAuthority == Authority!LeaseSpec
===============================================================================
