--------------------------- MODULE SupervisorProofs ---------------------------
(***************************************************************************)
(* The safety of the supervisor for any number of keys and any times.      *)
(*                                                                         *)
(* A start adds a connecting process, so OneConnects needs to know at that *)
(* moment that every live process is assigned (Swept, the work of the      *)
(* second loop of reconcile) and that the ready file tells the truth about *)
(* it (ReadyFileIsTrue); next_start_key sees the rest.                     *)
(***************************************************************************)
EXTENDS Supervisor, TLAPS

\* After the second loop, only assigned items have a process.
Swept == pc = "start" => allow /\ \A k \in Key : Running(k) => k \in assigned

\* A supervisor that is off, or has died, has no process.
Ended == pc \in {"off", "dead"} => \A k \in Key : ~Running(k)

\* Only a supervisor that died has left processes behind.
LeftBehind == ~died => orphan = {}

Discipline ==
  /\ ReadyFileIsTrue
  /\ OneConnects
  /\ Swept
  /\ OnlyAssignedRun
  /\ Ended
  /\ LeftBehind

IInv == TypeOK /\ Discipline

\* A comparison is TRUE or FALSE.
LEMMA PositiveIsBoolean == ASSUME NEW n \in Nat PROVE (n > 0) \in BOOLEAN
  BY SMT

LEMMA InitOK == Init => IInv
<1> SUFFICES ASSUME Init PROVE IInv
  OBVIOUS
<1> USE SupervisorAssumption DEF Init
<1>1. since \in [Key -> 0..ReadyTimeout] /\ backoff \in [Key -> 0..Backoff]
  OBVIOUS
<1>2. proc \in [Key -> Process] /\ seen \in [eligible : SUBSET Key, overdue : SUBSET Key]
  BY DEF Process, NothingSeen
<1>3. TypeOK
  <2>1. allow \in BOOLEAN /\ guarded \in BOOLEAN /\ died \in BOOLEAN
    BY Zenon
  <2> QED
    BY <1>1, <1>2, <2>1 DEF TypeOK
<1>4. \A k \in Key : ~Alive(k) /\ ~Running(k)
  BY DEF Alive, Running
<1>5. \A k \in Key : proc[k] # "connecting"
  OBVIOUS
<1> QED
  BY <1>3, <1>4, <1>5
  DEF IInv, Discipline, ReadyFileIsTrue, OneConnects, Swept, OnlyAssignedRun, Ended,
      LeftBehind

-------------------------------------------------------------------------------
(* Types.                                                                    *)

\* The values every action writes are of their types.
LEMMA TypeStep == TypeOK /\ [Next]_vars => TypeOK'
<1> SUFFICES ASSUME TypeOK, [Next]_vars PROVE TypeOK'
  OBVIOUS
<1> USE SupervisorAssumption DEF TypeOK, Process, NothingSeen, loopVars, itemVars, hostVars
<1>1. CASE SendHeartbeat
  BY <1>1 DEF SendHeartbeat, Refreshed, EndedUnready
<1>2. CASE HeartbeatFails
  <2>1. allow' \in BOOLEAN /\ guarded' \in BOOLEAN
    BY <1>2, PositiveIsBoolean, Zenon DEF HeartbeatFails, BeginReconcile
  <2>2. seen' \in [eligible : SUBSET Key, overdue : SUBSET Key]
    BY <1>2 DEF HeartbeatFails, BeginReconcile
  <2> QED
    BY <1>2, <2>1, <2>2 DEF HeartbeatFails, BeginReconcile
<1>3. ASSUME NEW A \in SUBSET Key, Assigned(A) PROVE TypeOK'
  BY <1>3 DEF Assigned, BeginReconcile
<1>4. CASE EndScan
  BY <1>4 DEF EndScan
<1>5. CASE EndSweep
  BY <1>5 DEF EndSweep, Pause
<1>6. CASE StartNothing
  BY <1>6 DEF StartNothing, Pause
<1>7. ASSUME NEW k \in Key, Scan(k) PROVE TypeOK'
  <2>1. backoff' \in [Key -> 0..Backoff]
    BY <1>7 DEF Scan, Larger, BackoffLeft
  <2>2. proc' \in [Key -> Process] /\ failed' \subseteq Key
    BY <1>7 DEF Scan, Refreshed
  <2>3. seen' \in [eligible : SUBSET Key, overdue : SUBSET Key]
    BY <1>7 DEF Scan
  <2>4. stopping' \in Key \cup {0} /\ timer' \in Nat /\ todo' \subseteq Key
    BY <1>7 DEF Scan
  <2> QED
    BY <1>7, <2>1, <2>2, <2>3, <2>4 DEF Scan
<1>8. ASSUME NEW k \in Key, StopProcess(k) PROVE TypeOK'
  BY <1>8 DEF StopProcess
<1>9. ASSUME NEW k \in Key, StartProcess(k) PROVE TypeOK'
  BY <1>9 DEF StartProcess, Pause
<1>10. ASSUME NEW k \in Key, StartRaises(k) PROVE TypeOK'
  <2>1. CASE guarded
    <3>1. allow' \in BOOLEAN /\ guarded' \in BOOLEAN
      BY <1>10, <2>1, PositiveIsBoolean, Zenon DEF StartRaises, BeginReconcile
    <3>2. seen' \in [eligible : SUBSET Key, overdue : SUBSET Key]
      BY <1>10, <2>1 DEF StartRaises, BeginReconcile
    <3>3. raises' \in 0..MaxRaises /\ readyFile' \subseteq Key /\ lag' \in 0..Backoff
      BY <1>10, <2>1 DEF StartRaises, BeginReconcile
    <3> QED
      BY <1>10, <2>1, <3>1, <3>2, <3>3 DEF StartRaises, BeginReconcile
  <2>2. CASE ~guarded
    BY <1>10, <2>2 DEF StartRaises, Alive
  <2> QED
    BY <2>1, <2>2
<1>11. ASSUME NEW k \in Key, StopEnds(k) PROVE TypeOK'
  <2>1. backoff' \in [Key -> 0..Backoff]
    BY <1>11 DEF StopEnds, BackoffLeft
  <2>2. seen' \in [eligible : SUBSET Key, overdue : SUBSET Key]
    BY <1>11 DEF StopEnds
  <2> QED
    BY <1>11, <2>1, <2>2 DEF StopEnds
<1>12. CASE Shutdown
  BY <1>12 DEF Shutdown
<1>13. CASE EndStopAll
  BY <1>13 DEF EndStopAll
<1>14. CASE Launch
  <2>1. since' \in [Key -> 0..ReadyTimeout] /\ backoff' \in [Key -> 0..Backoff]
    BY <1>14 DEF Launch
  <2>2. seen' \in [eligible : SUBSET Key, overdue : SUBSET Key]
    BY <1>14 DEF Launch
  <2>3. allow' \in BOOLEAN /\ guarded' \in BOOLEAN
    BY <1>14, Zenon DEF Launch
  <2> QED
    BY <1>14, <2>1, <2>2, <2>3 DEF Launch
<1>15. ASSUME NEW k \in Key, Connect(k) PROVE TypeOK'
  BY <1>15 DEF Connect
<1>16. ASSUME NEW k \in Key, Exit(k) PROVE TypeOK'
  BY <1>16 DEF Exit
<1>17. ASSUME NEW k \in Key, OrphanConnects(k) PROVE TypeOK'
  BY <1>17 DEF OrphanConnects
<1>18. ASSUME NEW k \in Key, OrphanExits(k) PROVE TypeOK'
  BY <1>18 DEF OrphanExits
<1>19. CASE Tick
  <2>1. backoff' \in [Key -> 0..Backoff] /\ since' \in [Key -> 0..ReadyTimeout]
    BY <1>19 DEF Tick, Less
  <2>2. timer' \in Nat /\ fresh' \in Nat /\ lag' \in 0..Backoff
    BY <1>19 DEF Tick, Less
  <2> QED
    BY <1>19, <2>1, <2>2 DEF Tick
<1>20. CASE UNCHANGED vars
  BY <1>20 DEF vars
<1> QED
  BY <1>1, <1>2, <1>3, <1>4, <1>5, <1>6, <1>7, <1>8, <1>9, <1>10, <1>11, <1>12,
     <1>13, <1>14, <1>15, <1>16, <1>17, <1>18, <1>19, <1>20 DEF Next, Reconcile

-------------------------------------------------------------------------------
(* The invariant.                                                            *)

\* A step that starts nothing, connects nothing and takes no ready file from a
\* live process: the processes that live stay as they are or end.
LEMMA QuietStep ==
  ASSUME TypeOK, Discipline, died' = died,
         \A k \in Key : Alive(k)' => Alive(k) /\ proc'[k] = proc[k],
         \A k \in Key : Alive(k)' => (k \in readyFile' <=> k \in readyFile) \/ died
  PROVE  ReadyFileIsTrue' /\ OneConnects'
  BY DEF TypeOK, Discipline, ReadyFileIsTrue, OneConnects, Alive

LEMMA DisciplineStep == TypeOK /\ Discipline /\ [Next]_vars => Discipline'
<1> SUFFICES ASSUME TypeOK, Discipline, [Next]_vars PROVE Discipline'
  OBVIOUS
<1> USE DEF TypeOK, Process, loopVars, itemVars, hostVars
<1>1. CASE SendHeartbeat
  <2>1. ReadyFileIsTrue' /\ OneConnects'
    BY <1>1, QuietStep DEF SendHeartbeat, Refreshed, Alive
  <2> QED
    BY <1>1, <2>1 DEF SendHeartbeat, Discipline, Swept, OnlyAssignedRun, Ended, LeftBehind
<1>2. CASE HeartbeatFails
  <2>1. ReadyFileIsTrue' /\ OneConnects'
    BY <1>2, QuietStep DEF HeartbeatFails, BeginReconcile, Alive
  <2> QED
    BY <1>2, <2>1
    DEF HeartbeatFails, BeginReconcile, Discipline, Swept, OnlyAssignedRun, Ended, LeftBehind
<1>3. ASSUME NEW A \in SUBSET Key, Assigned(A) PROVE Discipline'
  <2>1. ReadyFileIsTrue' /\ OneConnects'
    BY <1>3, QuietStep DEF Assigned, BeginReconcile, Alive
  <2> QED
    BY <1>3, <2>1
    DEF Assigned, BeginReconcile, Discipline, Swept, OnlyAssignedRun, Ended, LeftBehind
<1>4. CASE EndScan
  <2>1. ReadyFileIsTrue' /\ OneConnects'
    BY <1>4, QuietStep DEF EndScan, Alive
  <2> QED
    BY <1>4, <2>1 DEF EndScan, Discipline, Swept, OnlyAssignedRun, Ended, LeftBehind
<1>5. CASE EndSweep
  <2>1. ReadyFileIsTrue' /\ OneConnects'
    BY <1>5, QuietStep DEF EndSweep, Alive
  <2>2. \A k \in Key : Running(k) => allow /\ k \in assigned
    BY <1>5 DEF EndSweep, MustStop
  <2>3. \A k \in Key : Running(k)' <=> Running(k)
    BY <1>5 DEF EndSweep, Running
  <2>4. \A k \in Key : Alive(k)' => Running(k)'
    BY DEF Alive, Running
  <2>5. pc' \in {"start", "wait"} /\ (pc' = "start" => allow)
        /\ allow' = allow /\ assigned' = assigned
    BY <1>5 DEF EndSweep, Pause
  <2>6. LeftBehind'
    BY <1>5 DEF EndSweep, Discipline, LeftBehind
  <2> QED
    BY <2>1, <2>2, <2>3, <2>4, <2>5, <2>6 DEF Discipline, Swept, OnlyAssignedRun, Ended
<1>6. CASE StartNothing
  <2>1. ReadyFileIsTrue' /\ OneConnects'
    BY <1>6, QuietStep DEF StartNothing, Alive
  <2>2. OnlyAssignedRun'
    BY <1>6 DEF StartNothing, Discipline, Swept, OnlyAssignedRun, Alive, Running
  <2> QED
    BY <1>6, <2>1, <2>2 DEF StartNothing, Pause, Discipline, Swept, Ended, LeftBehind
<1>7. ASSUME NEW k \in Key, Scan(k) PROVE Discipline'
  <2>1. ReadyFileIsTrue' /\ OneConnects'
    BY <1>7, QuietStep DEF Scan, Refreshed, Alive
  <2> QED
    BY <1>7, <2>1 DEF Scan, Discipline, Swept, OnlyAssignedRun, Ended, LeftBehind
<1>8. ASSUME NEW k \in Key, StopProcess(k) PROVE Discipline'
  <2>1. ReadyFileIsTrue' /\ OneConnects'
    BY <1>8, QuietStep DEF StopProcess, Alive
  <2> QED
    BY <1>8, <2>1 DEF StopProcess, Discipline, Swept, OnlyAssignedRun, Ended, LeftBehind
<1>9. ASSUME NEW k \in Key, StartProcess(k) PROVE Discipline'
  <2>1. \A j \in Key : Running(j) => j \in readyFile /\ allow /\ j \in assigned
    BY <1>9 DEF StartProcess, NextStartKey, StartBlocked, Discipline, Swept
  <2>2. ~died => \A j \in Key : proc[j] # "connecting"
    BY <2>1 DEF Discipline, ReadyFileIsTrue, Alive, Running
  <2>3. \A j \in Key \ {k} : proc'[j] = proc[j] /\ (j \in readyFile' <=> j \in readyFile)
    BY <1>9 DEF StartProcess
  <2>4. proc'[k] = "connecting" /\ k \notin readyFile' /\ k \in assigned /\ died' = died
    BY <1>9 DEF StartProcess, NextStartKey, Candidate
  <2>5. ReadyFileIsTrue'
    BY <2>3, <2>4 DEF Discipline, ReadyFileIsTrue, Alive
  <2>6. OneConnects'
    BY <2>2, <2>3, <2>4 DEF OneConnects
  <2>7. pc' = "wait" /\ allow' = allow /\ assigned' = assigned /\ allow
    BY <1>9 DEF StartProcess, Pause, Discipline, Swept
  <2>8. OnlyAssignedRun'
    BY <2>1, <2>3, <2>4, <2>7 DEF OnlyAssignedRun, Alive, Running
  <2>9. LeftBehind'
    BY <1>9 DEF StartProcess, Discipline, LeftBehind
  <2> QED
    BY <2>5, <2>6, <2>7, <2>8, <2>9 DEF Discipline, Swept, Ended
<1>10. ASSUME NEW k \in Key, StartRaises(k) PROVE Discipline'
  <2>1. CASE guarded
    <3>1. ~Running(k) /\ ~Alive(k)
      BY <1>10 DEF StartRaises, NextStartKey, Candidate, Alive, Running
    <3>2. ReadyFileIsTrue' /\ OneConnects'
      BY <1>10, <2>1, <3>1, QuietStep DEF StartRaises, Alive
    <3> QED
      BY <1>10, <2>1, <3>2
      DEF StartRaises, BeginReconcile, Discipline, Swept, OnlyAssignedRun, Ended, LeftBehind
  <2>2. CASE ~guarded
    BY <1>10, <2>2
    DEF StartRaises, Discipline, ReadyFileIsTrue, OneConnects, Swept,
        OnlyAssignedRun, Ended, LeftBehind, Running
  <2> QED
    BY <2>1, <2>2
<1>11. ASSUME NEW k \in Key, StopEnds(k) PROVE Discipline'
  <2>1. ReadyFileIsTrue' /\ OneConnects'
    BY <1>11, QuietStep DEF StopEnds, Alive
  <2> QED
    BY <1>11, <2>1
    DEF StopEnds, Discipline, Swept, OnlyAssignedRun, Ended, LeftBehind, Alive, Running
<1>12. CASE Shutdown
  <2>1. ReadyFileIsTrue' /\ OneConnects'
    BY <1>12, QuietStep DEF Shutdown, Alive
  <2> QED
    BY <1>12, <2>1 DEF Shutdown, Discipline, Swept, OnlyAssignedRun, Ended, LeftBehind
<1>13. CASE EndStopAll
  <2>1. \A k \in Key : ~Running(k)' /\ ~Alive(k)'
    BY <1>13 DEF EndStopAll, MustStop, Running, Alive
  <2>2. ReadyFileIsTrue' /\ OneConnects'
    BY <1>13, <2>1, QuietStep DEF EndStopAll
  <2> QED
    BY <1>13, <2>1, <2>2 DEF EndStopAll, Discipline, Swept, OnlyAssignedRun, Ended, LeftBehind
<1>14. CASE Launch
  <2>1. \A k \in Key : ~Running(k)' /\ ~Alive(k)'
    BY <1>14 DEF Launch, Discipline, Ended, Running, Alive
  <2>2. ReadyFileIsTrue' /\ OneConnects'
    BY <1>14, <2>1, QuietStep DEF Launch, hostVars
  <2> QED
    BY <1>14, <2>1, <2>2 DEF Launch, Discipline, Swept, OnlyAssignedRun, Ended, LeftBehind
<1>15. ASSUME NEW k \in Key, Connect(k) PROVE Discipline'
  <2>1. \A j \in Key : Alive(j)' <=> Alive(j)
    BY <1>15 DEF Connect, Alive
  <2>2. \A j \in Key : Running(j)' <=> Running(j)
    BY <1>15 DEF Connect, Running
  <2>3. ReadyFileIsTrue' /\ OneConnects'
    BY <1>15 DEF Connect, Discipline, ReadyFileIsTrue, OneConnects, Alive
  <2> QED
    BY <1>15, <2>1, <2>2, <2>3
    DEF Connect, Discipline, Swept, OnlyAssignedRun, Ended, LeftBehind
<1>16. ASSUME NEW k \in Key, Exit(k) PROVE Discipline'
  <2>1. ReadyFileIsTrue' /\ OneConnects'
    BY <1>16, QuietStep DEF Exit, Alive
  <2> QED
    BY <1>16, <2>1
    DEF Exit, Discipline, Swept, OnlyAssignedRun, Ended, LeftBehind, Alive, Running
<1>17. ASSUME NEW k \in Key, OrphanConnects(k) PROVE Discipline'
  <2>1. died
    <3>1. orphan # {}
      BY <1>17, Zenon DEF OrphanConnects
    <3> QED
      BY <3>1, Zenon DEF Discipline, LeftBehind
  <2>2. died' = died /\ pc' = pc /\ proc' = proc
    BY <1>17 DEF OrphanConnects
  <2>3. died'
    BY <2>1, <2>2, Zenon
  <2>4. ReadyFileIsTrue' /\ OneConnects'
    BY <2>3 DEF ReadyFileIsTrue, OneConnects
  <2> QED
    BY <1>17, <2>2, <2>3, <2>4
    DEF OrphanConnects, Discipline, Swept, OnlyAssignedRun, Ended, LeftBehind, Alive,
        Running
<1>18. ASSUME NEW k \in Key, OrphanExits(k) PROVE Discipline'
  <2>1. ReadyFileIsTrue' /\ OneConnects'
    BY <1>18, QuietStep DEF OrphanExits, Alive
  <2> QED
    BY <1>18, <2>1
    DEF OrphanExits, Discipline, Swept, OnlyAssignedRun, Ended, LeftBehind, Alive, Running
<1>19. CASE Tick
  <2>1. ReadyFileIsTrue' /\ OneConnects'
    BY <1>19, QuietStep DEF Tick, Alive
  <2> QED
    BY <1>19, <2>1
    DEF Tick, Discipline, Swept, OnlyAssignedRun, Ended, LeftBehind, Alive, Running
<1>20. CASE UNCHANGED vars
  <2>1. ReadyFileIsTrue' /\ OneConnects'
    BY <1>20, QuietStep DEF vars, Alive
  <2> QED
    BY <1>20, <2>1
    DEF vars, Discipline, Swept, OnlyAssignedRun, Ended, LeftBehind, Alive, Running
<1> QED
  BY <1>1, <1>2, <1>3, <1>4, <1>5, <1>6, <1>7, <1>8, <1>9, <1>10, <1>11, <1>12,
     <1>13, <1>14, <1>15, <1>16, <1>17, <1>18, <1>19, <1>20 DEF Next, Reconcile

-------------------------------------------------------------------------------
(* Theorems.                                                                 *)

\* IInv is an invariant of every behaviour of the supervisor.
THEOREM SupervisorInvariant == Spec => []IInv
<1>1. IInv /\ [Next]_vars => IInv'
  BY TypeStep, DisciplineStep DEF IInv
<1> QED
  BY InitOK, <1>1, PTL DEF Spec

\* The variables of the supervisor keep their types.
THEOREM SupervisorType == Spec => []TypeOK
<1>1. IInv => TypeOK
  BY DEF IInv
<1> QED
  BY SupervisorInvariant, <1>1, PTL

\* A ready file beside a live process was written by that process.
THEOREM ReadyFilesAreTrue == Spec => []ReadyFileIsTrue
<1>1. IInv => ReadyFileIsTrue
  BY DEF IInv, Discipline
<1> QED
  BY SupervisorInvariant, <1>1, PTL

\* At most one process initialises its MT5 connection.
THEOREM AtMostOneConnects == Spec => []OneConnects
<1>1. IInv => OneConnects
  BY DEF IInv, Discipline
<1> QED
  BY SupervisorInvariant, <1>1, PTL

\* Between two reconciles only what fresh assignments included is alive.
THEOREM OnlyAssignedAreAlive == Spec => []OnlyAssignedRun
<1>1. IInv => OnlyAssignedRun
  BY DEF IInv, Discipline
<1> QED
  BY SupervisorInvariant, <1>1, PTL
===============================================================================
