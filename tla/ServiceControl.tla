---------------------------- MODULE ServiceControl ----------------------------
(***************************************************************************)
(* Two-node supervision: the supervisors that want to be MASTER or BACKUP, *)
(* the rows service-control.php keeps of them, the desired state the phone *)
(* sets, and whether one (account, role) process runs on each node.        *)
(*                                                                         *)
(* Supervisor models a single node in detail; here a node is its poll, the *)
(* age of its assignment, and its process.  Time is discrete; the age of a *)
(* row is the time since last_seen_at, counted up to Stale.                *)
(***************************************************************************)
EXTENDS Integers

CONSTANTS Master, Backup,  \* supervisors configured as MASTER and as BACKUP
          SameHost,        \* sets of supervisors that run on one machine
          RequestId,       \* ids of the phone's requests
          None,
          Poll,            \* poll_seconds
          RequestTimeout,  \* requestTimeoutSeconds of the heartbeat
          AssignmentTtl,   \* assignment_ttl
          StopTime,        \* the longest the stops of one reconcile take together
          Stale            \* service_supervisor_stale_seconds

Node == Master \cup Backup
NodeRole == {"MASTER", "BACKUP"}
RoleOf(n) == IF n \in Master THEN "MASTER" ELSE "BACKUP"
Other(role) == IF role = "MASTER" THEN "BACKUP" ELSE "MASTER"

ASSUME ServiceAssumption ==
  /\ Master \cap Backup = {}
  /\ None \notin Node
  /\ Poll \in Nat /\ RequestTimeout \in Nat /\ AssignmentTtl \in Nat
  /\ StopTime \in Nat /\ Stale \in Nat \ {0}

\* The longest a node goes on once the backend no longer wants it: an old
\* answer on its way, its time to live, a last reconcile that keeps the process
\* but stops others, a poll that fails, and the stop.
HandBackTime ==
  RequestTimeout + AssignmentTtl + StopTime + Poll + RequestTimeout + StopTime

VARIABLES
  row,         \* strategy_supervisor_nodes: node id and age by role
  desired,     \* desired_running
  events,      \* strategy_service_control_events: content by request id
  pc,          \* where each supervisor is
  timer,       \* time left of what it is blocked in
  answer,      \* what the backend made of its heartbeat
  late,        \* whose heartbeat, given up, may still be processed
  assigned,    \* time for which it may take its process for assigned: what is
               \* left of assignments_fresh, 0 when its last answer said idle
  running,     \* its process runs
  unwanted     \* time for which the node has gone on unwanted by the backend

backendVars == <<row, desired, events>>
vars == <<backendVars, pc, timer, answer, late, assigned, running, unwanted>>

Online(r, role) == r[role].node # None /\ r[role].age < Stale

\* By the rows r and the desired state d, n should run nothing.
Unwanted(r, d, n) ==
  ~d \/ r[RoleOf(n)].node # n \/ (n \in Backup /\ Online(r, "MASTER"))

\* Whoever becomes wanted starts a new count.
Recount ==
  unwanted' = [n \in Node |->
    IF Unwanted(row', desired', n) THEN unwanted[n] ELSE 0]

Init ==
  /\ row = [role \in NodeRole |-> [node |-> None, age |-> Stale]]
  /\ desired = TRUE
  /\ events = [r \in RequestId |-> None]
  /\ pc = [n \in Node |-> "off"]
  /\ timer = [n \in Node |-> 0]
  /\ answer = [n \in Node |-> "none"]
  /\ late = None
  /\ assigned = [n \in Node |-> 0]
  /\ running = [n \in Node |-> FALSE]
  /\ unwanted = [n \in Node |-> 0]

-----------------------------------------------------------------------------
(* service-control.php *)

\* Another node of the role, or one of the other role on the same machine,
\* has been seen lately.
Conflict(n) ==
  LET role == RoleOf(n)
      other == Other(role)
  IN  \/ Online(row, role) /\ row[role].node # n
      \/ /\ Online(row, other)
         /\ \E host \in SameHost : {n, row[other].node} \subseteq host

\* The assignment of the process to n, from the rows r.
Assignment(n, r) == desired /\ (n \in Master \/ ~Online(r, "MASTER"))

\* The heartbeat of n, one transaction over the locked rows.
Heartbeat(n, result) ==
  \/ /\ ~Conflict(n)
     /\ row' = [row EXCEPT ![RoleOf(n)] = [node |-> n, age |-> 0]]
     /\ result = IF Assignment(n, row') THEN "assigned" ELSE "idle"
  \/ /\ Conflict(n)
     /\ result = "refused"
     /\ UNCHANGED row

HandleHeartbeat(n) ==
  /\ pc[n] = "call" /\ answer[n] = "none"
  /\ \E result \in {"assigned", "idle", "refused"} :
       /\ Heartbeat(n, result)
       /\ answer' = [answer EXCEPT ![n] = result]
  /\ UNCHANGED <<desired, events, pc, timer, late, assigned, running>>
  /\ Recount

\* A heartbeat whose sender has given up still marks it as seen.
HandleLate(n) ==
  /\ late = n
  /\ late' = None
  /\ \E result \in {"assigned", "idle", "refused"} : Heartbeat(n, result)
  /\ UNCHANGED <<desired, events, pc, timer, answer, assigned, running>>
  /\ Recount

\* Mutant: the event keeps what was on record before.
MutSetDesiredState(r, value) ==
  /\ events[r] = None
  /\ events' = [events EXCEPT ![r] = [desired |-> @]]
  /\ desired' = value
  /\ row' = row
  /\ Recount
  /\ UNCHANGED <<pc, timer, answer, late, assigned, running>>

\* setDesiredState of a permitted device: a request id that was used before
\* changes nothing, whether its content is the same or not.
SetDesiredState(r, value) ==
  /\ events[r] = None
  /\ events' = [events EXCEPT ![r] = [desired |-> value]]
  /\ desired' = value
  /\ row' = row
  /\ Recount
  /\ UNCHANGED <<pc, timer, answer, late, assigned, running>>

-----------------------------------------------------------------------------
(* A supervisor: run(). *)

SendHeartbeat(n) ==
  /\ pc[n] = "wait" /\ timer[n] = 0
  /\ pc' = [pc EXCEPT ![n] = "call"]
  /\ timer' = [timer EXCEPT ![n] = RequestTimeout]
  /\ UNCHANGED <<backendVars, answer, late, assigned, running, unwanted>>

\* reconcile begins.  It may stop other processes of the node, one after the
\* other, before the process is stopped or started, and so takes time in every
\* case.
Reconcile(n, should) ==
  /\ pc' = [pc EXCEPT ![n] = IF should THEN "start" ELSE "stop"]
  /\ timer' = [timer EXCEPT ![n] = StopTime]
  /\ UNCHANGED running

Receive(n) ==
  /\ pc[n] = "call" /\ answer[n] \in {"assigned", "idle"}
  /\ assigned' = [assigned EXCEPT ![n] =
       IF answer[n] = "assigned" THEN AssignmentTtl ELSE 0]
  /\ answer' = [answer EXCEPT ![n] = "none"]
  /\ Reconcile(n, answer[n] = "assigned")
  /\ UNCHANGED <<backendVars, late, unwanted>>

\* Mutant: assignments that cannot be refreshed stay valid.
MutControlUnavailable(n) ==
  /\ pc[n] = "call"
  /\ Reconcile(n, running[n] \/ assigned[n] > 0)
  /\ \/ UNCHANGED late
     \/ answer[n] = "none" /\ late = None /\ late' = n
  /\ answer' = [answer EXCEPT ![n] = "none"]
  /\ UNCHANGED <<backendVars, assigned, unwanted>>

\* A refusal, an error or no answer within the timeout: the old assignments
\* hold while they are fresh.
ControlUnavailable(n) ==
  /\ pc[n] = "call"
  /\ Reconcile(n, assigned[n] > 0)
  /\ \/ UNCHANGED late
     \/ answer[n] = "none" /\ late = None /\ late' = n
  /\ answer' = [answer EXCEPT ![n] = "none"]
  /\ UNCHANGED <<backendVars, assigned, unwanted>>

\* The process has exited or has been killed.
StopEnds(n) ==
  /\ pc[n] \in {"stop", "ending"} /\ running[n]
  /\ running' = [running EXCEPT ![n] = FALSE]
  /\ UNCHANGED <<backendVars, pc, timer, answer, late, assigned, unwanted>>

\* All stops are over.  The process is started when its turn has come, though
\* the assignment may have expired meanwhile, and the supervisor pauses.
ReconcileEnds(n) ==
  /\ pc[n] = "start" \/ (pc[n] \in {"stop", "ending"} /\ ~running[n])
  /\ pc' = [pc EXCEPT ![n] = IF @ = "ending" THEN "off" ELSE "wait"]
  /\ timer' = [timer EXCEPT ![n] = IF pc[n] = "ending" THEN 0 ELSE Poll]
  /\ \/ UNCHANGED running
     \/ pc[n] = "start" /\ running' = [running EXCEPT ![n] = TRUE]
  /\ UNCHANGED <<backendVars, answer, late, assigned, unwanted>>

\* The service is stopped, and launched again.
Shutdown(n) ==
  /\ pc[n] = "wait"
  /\ pc' = [pc EXCEPT ![n] = "ending"]
  /\ timer' = [timer EXCEPT ![n] = StopTime]
  /\ UNCHANGED <<backendVars, answer, late, assigned, running, unwanted>>

Launch(n) ==
  /\ pc[n] = "off"
  /\ pc' = [pc EXCEPT ![n] = "wait"]
  /\ assigned' = [assigned EXCEPT ![n] = 0]
  /\ UNCHANGED <<backendVars, timer, answer, late, running, unwanted>>

\* The process ends by itself; the supervisor starts it again.
Exit(n) ==
  /\ running[n]
  /\ running' = [running EXCEPT ![n] = FALSE]
  /\ UNCHANGED <<backendVars, pc, timer, answer, late, assigned, unwanted>>

-----------------------------------------------------------------------------
Less(t) == IF t > 0 THEN t - 1 ELSE 0

\* The node runs its process or may still start it without a new answer.  Only an
\* answer that wants it lets any other node run, and that begins a new count.
GoesOn(n) ==
  running[n] \/ assigned[n] > 0 \/ answer[n] = "assigned" \/ pc[n] = "start"

Tick ==
  /\ \A n \in Node : pc[n] # "off" => timer[n] > 0
  /\ timer' = [n \in Node |-> Less(timer[n])]
  /\ assigned' = [n \in Node |-> Less(assigned[n])]
  /\ row' = [role \in NodeRole |->
       [row[role] EXCEPT !.age = IF @ < Stale THEN @ + 1 ELSE @]]
  /\ unwanted' = [n \in Node |->
       IF ~(Unwanted(row', desired, n) /\ GoesOn(n)) THEN 0
       ELSE IF unwanted[n] <= HandBackTime THEN unwanted[n] + 1
       ELSE unwanted[n]]
  /\ UNCHANGED <<desired, events, pc, answer, late, running>>

Work(n) ==
  \/ SendHeartbeat(n) \/ Receive(n) \/ ControlUnavailable(n)
  \/ StopEnds(n) \/ ReconcileEnds(n)

Next ==
  \/ \E n \in Node : \/ Work(n) \/ HandleHeartbeat(n) \/ HandleLate(n)
                     \/ Shutdown(n) \/ Launch(n) \/ Exit(n)
  \/ \E r \in RequestId, value \in BOOLEAN : SetDesiredState(r, value)
  \/ Tick

Spec == Init /\ [][Next]_vars

-----------------------------------------------------------------------------
(* Properties *)

\* Every variable stays within the values the code can give it.
TypeOK ==
  /\ row \in [NodeRole -> [node : Node \cup {None}, age : 0..Stale]]
  /\ desired \in BOOLEAN
  /\ events \in [RequestId -> [desired : BOOLEAN] \cup {None}]
  /\ pc \in [Node -> {"off", "wait", "call", "start", "stop", "ending"}]
  /\ timer \in [Node -> Nat]
  /\ answer \in [Node -> {"none", "assigned", "idle", "refused"}]
  /\ late \in Node \cup {None}
  /\ assigned \in [Node -> 0..AssignmentTtl]
  /\ running \in [Node -> BOOLEAN]
  /\ unwanted \in [Node -> 0..HandBackTime + 1]

\* "Returning master heartbeats revoke backup assignment", "stopping a role in
\* Mobile applies globally to master and backup" (ADR 0006), and a supervisor
\* whose role another node has taken stops as well: whatever answers are lost
\* or late, a node runs its process for at most HandBackTime once the backend
\* wants it no more, even a node that does not reach the backend any longer.
UnwantedNodeStops ==
  \A n \in Node : running[n] => unwanted[n] <= HandBackTime
===============================================================================
