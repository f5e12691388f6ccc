------------------------------ MODULE Supervisor ------------------------------
(***************************************************************************)
(* The supervisor of one Windows node (oppw_windows_supervisor.py) and the *)
(* runtime processes it starts, one at a time, in the order of their       *)
(* priority.                                                               *)
(*                                                                         *)
(* Keys are numbered in the order of startup_order.  Time is discrete and  *)
(* passes only while the supervisor is blocked: in the pause between two   *)
(* polls, in the heartbeat and in stop_process; its own computation takes  *)
(* none.  The backend may assign any set of keys at any heartbeat.         *)
(***************************************************************************)
EXTENDS Integers

CONSTANTS N,               \* managed (account, role) pairs
          Crashing,        \* pairs whose process may fail after it was ready
          Poll,            \* poll_seconds
          RequestTimeout,  \* requestTimeoutSeconds of the heartbeat
          AssignmentTtl,   \* assignment_ttl
          StopTime,        \* stop_grace and the two waits of 5 s after it
          RestartDelay,    \* restart_delay
          ReadyTimeout,    \* startup_ready_timeout
          Backoff,         \* startup_failure_backoff
          MaxRaises        \* bound: failures of Popen

Key == 1..N

ASSUME SupervisorAssumption ==
  /\ N \in Nat
  /\ Crashing \subseteq Key
  /\ Poll \in Nat
  /\ RequestTimeout \in Nat
  /\ AssignmentTtl \in Nat
  /\ StopTime \in Nat
  /\ RestartDelay \in Nat
  /\ ReadyTimeout \in Nat
  /\ RestartDelay <= ReadyTimeout
  /\ Backoff \in Nat \ {0}
  /\ MaxRaises \in Nat

VARIABLES
  pc,        \* where the supervisor is in run and reconcile
  timer,     \* time left of what it is blocked in
  todo,      \* items the first loop of reconcile has yet to visit
  stopping,  \* the item stop_process waits for, 0 if none
  allow,     \* allow_start of the reconcile under way
  guarded,   \* the reconcile runs inside the try of run
  lag,       \* time since the reconcile read its clock
  seen,      \* what that reading said of next_start and of the ready timeout
  assigned,  \* the keys of self.assignments that are true
  fresh,     \* time left until assignments_fresh turns false
  proc,      \* item.process of each item and what the process has done
  readyFile, \* ready files on disk
  failed,    \* items with startup_failed
  since,     \* time since last_start_monotonic, at most ReadyTimeout
  backoff,   \* time left until next_start_monotonic
  orphan,    \* live processes left behind by a supervisor that died
  died,      \* a supervisor has died and left its processes behind
  raises     \* failures of Popen so far

vars == <<pc, timer, todo, stopping, allow, guarded, lag, seen, assigned,
          fresh, proc, readyFile, failed, since, backoff, orphan, died, raises>>
loopVars == <<todo, allow, guarded, lag>>
itemVars == <<proc, readyFile, failed, since, backoff>>
hostVars == <<orphan, died, raises>>

\* "none" is process = None; an "exited" process has not been polled yet.
Process == {"none", "connecting", "connected", "exited"}

Alive(k) == proc[k] \in {"connecting", "connected"}
Running(k) == proc[k] # "none"

NothingSeen == [eligible |-> {}, overdue |-> {}]

Larger(a, b) == IF a > b THEN a ELSE b

Init ==
  /\ pc = "wait" /\ timer = 0
  /\ todo = {} /\ stopping = 0
  /\ allow = FALSE /\ guarded = FALSE
  /\ lag = 0 /\ seen = NothingSeen
  /\ assigned = {} /\ fresh = 0
  /\ proc = [k \in Key |-> "none"]
  /\ readyFile = {} /\ failed = {}
  /\ since = [k \in Key |-> ReadyTimeout]
  /\ backoff = [k \in Key |-> 0]
  /\ orphan = {} /\ died = FALSE /\ raises = 0

\* refresh(): an exit is noticed, and is a failed start without a ready file.
EndedUnready(k) == proc[k] = "exited" /\ k \notin readyFile
Refreshed(k) == IF proc[k] = "exited" THEN "none" ELSE proc[k]

-------------------------------------------------------------------------------
(* run: pause, heartbeat, reconcile.                                         *)

Pause ==
  /\ pc' = "wait"
  /\ timer' = Poll
  /\ seen' = NothingSeen

\* heartbeat() asks every item for its status, which refreshes it.
SendHeartbeat ==
  /\ pc = "wait" /\ timer = 0
  /\ pc' = "heartbeat"
  /\ timer' = RequestTimeout
  /\ proc' = [k \in Key |-> Refreshed(k)]
  /\ failed' = failed \cup {k \in Key : EndedUnready(k)}
  /\ UNCHANGED <<loopVars, stopping, seen, assigned, fresh, readyFile, since,
                 backoff, hostVars>>

BeginReconcile(allowStart, inTry) ==
  /\ pc' = "scan"
  /\ todo' = Key
  /\ allow' = allowStart
  /\ guarded' = inTry
  /\ lag' = 0
  /\ seen' = [eligible |-> {k \in Key : backoff[k] = 0},
              overdue  |-> {k \in Key : since[k] = ReadyTimeout}]

\* The backend's answer arrives; it is fresh from its receipt on.
Assigned(A) ==
  /\ pc = "heartbeat"
  /\ assigned' = A
  /\ fresh' = AssignmentTtl
  /\ BeginReconcile(TRUE, TRUE)
  /\ timer' = 0
  /\ UNCHANGED <<stopping, itemVars, hostVars>>

\* No answer, an error, or assignments of other keys than the configured ones.
HeartbeatFails ==
  /\ pc = "heartbeat"
  /\ BeginReconcile(fresh > 0, FALSE)
  /\ timer' = 0
  /\ UNCHANGED <<stopping, assigned, fresh, itemVars, hostVars>>

-------------------------------------------------------------------------------
(* reconcile, first loop: exits, failed starts and ready timeouts.           *)

Overdue(k) == Alive(k) /\ k \notin readyFile /\ k \in seen.overdue

MutBackoffLeft == Backoff + lag

\* Back-off counts from the clock read at the beginning of the reconcile.
BackoffLeft == Backoff - lag

Scan(k) ==
  LET fails == k \in failed \/ EndedUnready(k) IN
  /\ pc = "scan" /\ stopping = 0
  /\ k \in todo
  /\ todo' = todo \ {k}
  /\ proc' = [proc EXCEPT ![k] = Refreshed(k)]
  /\ failed' = failed \ {k}
  /\ backoff' = IF fails THEN [backoff EXCEPT ![k] = Larger(@, BackoffLeft)]
                         ELSE backoff
  /\ seen' = IF fails THEN [seen EXCEPT !.eligible = @ \ {k}] ELSE seen
  /\ IF Overdue(k)
       THEN stopping' = k /\ timer' = StopTime
       ELSE UNCHANGED <<stopping, timer>>
  /\ UNCHANGED <<pc, allow, guarded, lag, assigned, fresh, readyFile, since,
                 hostVars>>

EndScan ==
  /\ pc = "scan" /\ stopping = 0
  /\ todo = {}
  /\ pc' = "sweep"
  /\ lag' = 0
  /\ UNCHANGED <<timer, todo, stopping, allow, guarded, seen, assigned, fresh,
                 itemVars, hostVars>>

-------------------------------------------------------------------------------
(* stop_process, from the first loop, the second loop and stop_all.          *)

MutMustStop(k) == Running(k) /\ (pc = "ending" \/ k \notin assigned)

\* Second loop: should_run is allow_start and the assignment.
MustStop(k) == Running(k) /\ (pc = "ending" \/ ~allow \/ k \notin assigned)

\* The stop file of k exists while stopping = k.
StopProcess(k) ==
  /\ pc \in {"sweep", "ending"} /\ stopping = 0
  /\ MustStop(k)
  /\ stopping' = k
  /\ timer' = StopTime
  /\ UNCHANGED <<pc, loopVars, seen, assigned, fresh, itemVars, hostVars>>

MutStopOver(k) == proc[k] = "exited"

\* The process has exited, or is terminated when its time is over.
StopOver(k) == proc[k] = "exited" \/ timer = 0

StopEnds(k) ==
  /\ stopping = k
  /\ StopOver(k)
  /\ stopping' = 0
  /\ timer' = 0
  /\ proc' = [proc EXCEPT ![k] = "none"]
  /\ failed' = IF k \in readyFile THEN failed ELSE failed \cup {k}
  /\ readyFile' = readyFile \ {k}
  /\ IF pc = "scan"
       THEN /\ backoff' = [backoff EXCEPT ![k] = BackoffLeft]
            /\ seen' = [seen EXCEPT !.eligible = @ \ {k}]
       ELSE UNCHANGED <<backoff, seen>>
  /\ UNCHANGED <<pc, loopVars, assigned, fresh, since, hostVars>>

EndSweep ==
  /\ pc = "sweep" /\ stopping = 0
  /\ \A k \in Key : ~MustStop(k)
  /\ IF allow THEN pc' = "start" /\ UNCHANGED <<timer, seen>>
              ELSE Pause
  /\ UNCHANGED <<loopVars, stopping, assigned, fresh, itemVars, hostVars>>

-------------------------------------------------------------------------------
(* reconcile, last part: next_start_key and start_process.                   *)

MutStartBlocked == FALSE

\* An assigned process that is running and not ready blocks every start.
StartBlocked == \E k \in assigned : Running(k) /\ k \notin readyFile

MutCandidate(k) == k \in assigned /\ ~Running(k)

Candidate(k) == k \in assigned /\ ~Running(k) /\ k \in seen.eligible

NextStartKey(k) ==
  /\ ~StartBlocked
  /\ Candidate(k)
  /\ \A j \in Key : Candidate(j) => k <= j

\* start_process returns early for these, by the clock of the moment.
TooEarly(k) == since[k] < RestartDelay \/ backoff[k] > 0

StartNothing ==
  /\ pc = "start"
  /\ \A k \in Key : NextStartKey(k) => TooEarly(k)
  /\ Pause
  /\ UNCHANGED <<loopVars, stopping, assigned, fresh, itemVars, hostVars>>

MutStartProcess(k) ==
  /\ pc = "start"
  /\ NextStartKey(k) /\ ~TooEarly(k)
  /\ proc' = [proc EXCEPT ![k] = "connecting"]
  /\ since' = [since EXCEPT ![k] = 0]
  /\ Pause
  /\ UNCHANGED <<loopVars, stopping, assigned, fresh, readyFile, failed,
                 backoff, hostVars>>

\* Stale files are removed before the process is launched.
StartProcess(k) ==
  /\ pc = "start"
  /\ NextStartKey(k) /\ ~TooEarly(k)
  /\ proc' = [proc EXCEPT ![k] = "connecting"]
  /\ readyFile' = readyFile \ {k}
  /\ since' = [since EXCEPT ![k] = 0]
  /\ Pause
  /\ UNCHANGED <<loopVars, stopping, assigned, fresh, failed, backoff, hostVars>>

\* Popen raises.  The handler of run reconciles again; outside the try the
\* exception ends the supervisor, and its processes go on without it.
StartRaises(k) ==
  /\ pc = "start"
  /\ NextStartKey(k) /\ ~TooEarly(k)
  /\ raises < MaxRaises
  /\ raises' = raises + 1
  /\ readyFile' = readyFile \ {k}
  /\ IF guarded
       THEN /\ BeginReconcile(fresh > 0, FALSE)
            /\ UNCHANGED <<proc, orphan, died>>
       ELSE /\ pc' = "dead"
            /\ died' = TRUE
            /\ orphan' = orphan \cup {j \in Key : Alive(j)}
            /\ proc' = [j \in Key |-> "none"]
            /\ UNCHANGED <<loopVars, seen>>
  /\ UNCHANGED <<timer, stopping, assigned, fresh, failed, since, backoff>>

-------------------------------------------------------------------------------
(* The end of run, and the service host that launches the supervisor again.  *)

Shutdown ==
  /\ pc = "wait"
  /\ pc' = "ending"
  /\ timer' = 0
  /\ UNCHANGED <<loopVars, stopping, seen, assigned, fresh, itemVars, hostVars>>

EndStopAll ==
  /\ pc = "ending" /\ stopping = 0
  /\ \A k \in Key : ~MustStop(k)
  /\ pc' = "off"
  /\ readyFile' = {}
  /\ UNCHANGED <<timer, loopVars, stopping, seen, assigned, fresh, proc, failed,
                 since, backoff, hostVars>>

\* A new supervisor knows no process; the ready files are where they were.
Launch ==
  /\ pc \in {"off", "dead"}
  /\ pc' = "wait" /\ timer' = 0
  /\ todo' = {} /\ lag' = 0 /\ seen' = NothingSeen
  /\ allow' = FALSE /\ guarded' = FALSE
  /\ assigned' = {} /\ fresh' = 0
  /\ failed' = {}
  /\ since' = [k \in Key |-> ReadyTimeout]
  /\ backoff' = [k \in Key |-> 0]
  /\ UNCHANGED <<stopping, proc, readyFile, hostVars>>

-------------------------------------------------------------------------------
(* The processes (oppw_mt5_continuous.py), seen from outside.                *)

\* connect() has succeeded and publishes the ready file.
Connect(k) ==
  /\ proc[k] = "connecting"
  /\ proc' = [proc EXCEPT ![k] = "connected"]
  /\ readyFile' = readyFile \cup {k}
  /\ UNCHANGED <<pc, timer, loopVars, stopping, seen, assigned, fresh, failed,
                 since, backoff, hostVars>>

\* A start fails, a ready process fails, or the stop file is obeyed.
Exit(k) ==
  /\ \/ proc[k] = "connecting"
     \/ proc[k] = "connected" /\ (k \in Crashing \/ stopping = k)
  /\ proc' = [proc EXCEPT ![k] = "exited"]
  /\ UNCHANGED <<pc, timer, loopVars, stopping, seen, assigned, fresh,
                 readyFile, failed, since, backoff, hostVars>>

\* An orphan becomes ready, or reconnects, and writes the ready file.
OrphanConnects(k) ==
  /\ k \in orphan
  /\ readyFile' = readyFile \cup {k}
  /\ UNCHANGED <<pc, timer, loopVars, stopping, seen, assigned, fresh, proc,
                 failed, since, backoff, hostVars>>

OrphanExits(k) ==
  /\ k \in orphan
  /\ k \in Crashing \/ stopping = k
  /\ orphan' = orphan \ {k}
  /\ UNCHANGED <<pc, timer, loopVars, stopping, seen, assigned, fresh, itemVars,
                 died, raises>>

-------------------------------------------------------------------------------

Less(n) == IF n > 0 THEN n - 1 ELSE 0

Blocked ==
  \/ pc \in {"wait", "heartbeat"}
  \/ stopping # 0 /\ proc[stopping] # "exited"

Tick ==
  /\ Blocked
  /\ timer > 0
  /\ timer' = timer - 1
  /\ fresh' = Less(fresh)
  /\ since' = [k \in Key |-> IF since[k] < ReadyTimeout THEN since[k] + 1
                                                        ELSE since[k]]
  /\ backoff' = [k \in Key |-> Less(backoff[k])]
  /\ lag' = IF pc = "scan" /\ lag < Backoff THEN lag + 1 ELSE lag
  /\ UNCHANGED <<pc, todo, stopping, allow, guarded, seen, assigned, proc,
                 readyFile, failed, hostVars>>

Reconcile ==
  \/ EndScan \/ EndSweep \/ StartNothing
  \/ \E k \in Key : Scan(k) \/ StopProcess(k) \/ StartProcess(k) \/ StartRaises(k)

Next ==
  \/ SendHeartbeat \/ HeartbeatFails
  \/ \E A \in SUBSET Key : Assigned(A)
  \/ Reconcile
  \/ \E k \in Key : StopEnds(k)
  \/ Shutdown \/ EndStopAll \/ Launch
  \/ \E k \in Key : Connect(k) \/ Exit(k) \/ OrphanConnects(k) \/ OrphanExits(k)
  \/ Tick

Spec == Init /\ [][Next]_vars

(***************************************************************************)
(* Fairness.  The supervisor goes on, urlopen and stop_process are         *)
(* bounded, and time passes.  Nothing obliges a process to connect or to   *)
(* exit, the backend to answer, or the service to be stopped or launched.  *)
(***************************************************************************)
Heartbeat ==
  SendHeartbeat \/ HeartbeatFails \/ (\E A \in SUBSET Key : Assigned(A))

Fairness ==
  /\ WF_vars(Tick)
  /\ WF_vars(Heartbeat)
  /\ WF_vars(Reconcile)
  /\ WF_vars(EndStopAll)
  /\ WF_vars(\E k \in Key : StopEnds(k))

FairSpec == Spec /\ Fairness

-------------------------------------------------------------------------------
(* Properties.                                                               *)

TypeOK ==
  /\ pc \in {"wait", "heartbeat", "scan", "sweep", "start", "ending", "off", "dead"}
  /\ timer \in Nat
  /\ todo \subseteq Key
  /\ stopping \in Key \cup {0}
  /\ allow \in BOOLEAN /\ guarded \in BOOLEAN
  /\ lag \in 0..Backoff
  /\ seen \in [eligible : SUBSET Key, overdue : SUBSET Key]
  /\ assigned \subseteq Key
  /\ fresh \in Nat
  /\ proc \in [Key -> Process]
  /\ readyFile \subseteq Key
  /\ failed \subseteq Key
  /\ since \in [Key -> 0..ReadyTimeout]
  /\ backoff \in [Key -> 0..Backoff]
  /\ orphan \subseteq Key
  /\ died \in BOOLEAN
  /\ raises \in 0..MaxRaises

\* A ready file beside a live process is that process's own: never the one of
\* an earlier process of the same key that crashed, timed out or was stopped.
\* Everything below reads readiness from the file (item.ready_file.is_file()).
\* It does not hold beside a process left behind by a supervisor that died.
ReadyFileIsTrue ==
  ~died => \A k \in Key : Alive(k) => (k \in readyFile <=> proc[k] = "connected")

\* At most one process of the node initialises its MT5 connection, through
\* crashes, timeouts, changes of assignment and failed launches (next_start_key).
OneConnects ==
  ~died =>
    \A j, k \in Key : proc[j] = "connecting" /\ proc[k] = "connecting" => j = k

\* When a reconcile is over, everything that is alive was assigned by
\* assignments that were fresh when it began: a process that lost its
\* assignment, and every process once assignments expired, has been stopped.
OnlyAssignedRun ==
  pc = "wait" => \A k \in Key : Alive(k) => allow /\ k \in assigned

\* The supervisor keeps running, none before it has left processes behind, and
\* its reconciles are based on fresh assignments.
Serving == ~died /\ allow /\ pc \notin {"ending", "off"}

\* A key that stays assigned is launched again and again or keeps running,
\* whatever becomes of the others and their assignments: the startup order and
\* the back-off of failed starts never pass it over for good (next_start_key).
AssignedIsLaunched ==
  \A k \in Key : <>[](Serving /\ k \in assigned) => []<>Running(k)

\* The same for a node to which all keys stay assigned, as CURRENT_ARCHITECTURE
\* promises: an account that fails does not block the others for good.
FailuresBlockNobody ==
  <>[](Serving /\ assigned = Key) => \A k \in Key : []<>Running(k)

\* A key that is no longer assigned has no process in the end, even one that
\* ignores its stop file.
UnassignedEnds ==
  \A k \in Key : (k \notin assigned ~> (k \in assigned \/ ~Running(k)))

\* What ADR 0006 says of a supervisor that cannot refresh its assignments: it
\* starts nothing once they are older than their time to live.
NothingStartsExpired ==
  [][\A k \in Key : proc[k] = "none" /\ proc'[k] = "connecting" /\ ~guarded
                     => fresh > 0]_vars
===============================================================================
