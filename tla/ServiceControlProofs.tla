------------------------- MODULE ServiceControlProofs -------------------------
(***************************************************************************)
(* Proofs about ServiceControl, for any supervisors, any machines they     *)
(* share and any times.                                                    *)
(***************************************************************************)
EXTENDS ServiceControl, TLAPS

Row == [node : Node \cup {None}, age : 0..Stale]

LEMMA HandBackTimeIsNat == HandBackTime \in Nat
BY ServiceAssumption DEF ServiceAssumption, HandBackTime

LEMMA RoleOfIsRole == \A n : RoleOf(n) \in NodeRole
BY DEF RoleOf, NodeRole

LEMMA TypeInit == Init => TypeOK
<1> SUFFICES ASSUME Init PROVE TypeOK
  OBVIOUS
<1>1. Stale \in Nat /\ Stale \in 0..Stale
  BY ServiceAssumption DEF ServiceAssumption
<1>2. row \in [NodeRole -> Row]
  BY <1>1 DEF Init, Row
<1>3. unwanted \in [Node -> 0..HandBackTime + 1]
  <2>1. 0 \in 0..HandBackTime + 1
    BY HandBackTimeIsNat
  <2>2. unwanted = [n \in Node |-> 0]
    BY Zenon DEF Init
  <2> HIDE DEF HandBackTime
  <2> QED
    BY <2>1, <2>2
<1>4. assigned \in [Node -> 0..AssignmentTtl] /\ timer \in [Node -> Nat]
  BY ServiceAssumption DEF ServiceAssumption, Init
<1>5. running \in [Node -> BOOLEAN] /\ desired \in BOOLEAN
  BY Zenon DEF Init
<1>6. /\ pc \in [Node -> {"off", "wait", "call", "start", "stop", "ending"}]
      /\ answer \in [Node -> {"none", "assigned", "idle", "refused"}]
      /\ late \in Node \cup {None}
      /\ events \in [RequestId -> [desired : BOOLEAN] \cup {None}]
  BY DEF Init
<1> QED
  BY <1>2, <1>3, <1>4, <1>5, <1>6 DEF TypeOK, Row

LEMMA RecountType ==
  ASSUME TypeOK, Recount
  PROVE  /\ unwanted' \in [Node -> 0..HandBackTime + 1]
         /\ \A n \in Node : /\ unwanted'[n] <= unwanted[n]
                            /\ ~Unwanted(row', desired', n) => unwanted'[n] = 0
<1>1. unwanted \in [Node -> 0..HandBackTime + 1] /\ 0 \in 0..HandBackTime + 1
  BY HandBackTimeIsNat DEF TypeOK
<1>2. unwanted' = [n \in Node |-> IF Unwanted(row', desired', n) THEN unwanted[n] ELSE 0]
  BY DEF Recount
<1> QED
  BY <1>1, <1>2, HandBackTimeIsNat

LEMMA HeartbeatType ==
  ASSUME TypeOK, NEW n \in Node, NEW result, Heartbeat(n, result)
  PROVE  /\ row' \in [NodeRole -> Row]
         /\ result \in {"assigned", "idle", "refused"}
         /\ UNCHANGED desired /\ result = "assigned" => ~Unwanted(row', desired', n)
<1>1. row \in [NodeRole -> Row]
  BY DEF TypeOK, Row
<1>2. CASE /\ row' = [row EXCEPT ![RoleOf(n)] = [node |-> n, age |-> 0]]
           /\ result = (IF Assignment(n, row') THEN "assigned" ELSE "idle")
  <2>1. [node |-> n, age |-> 0] \in Row
    BY ServiceAssumption DEF ServiceAssumption, Row
  <2>2. row'[RoleOf(n)].node = n
    BY <1>1, <1>2, RoleOfIsRole
  <2>3. n \in Master => n \notin Backup
    BY ServiceAssumption DEF ServiceAssumption
  <2>4. row' \in [NodeRole -> Row]
    BY <1>1, <1>2, <2>1
  <2> QED
    BY <1>2, <2>2, <2>3, <2>4 DEF Assignment, Unwanted
<1>3. CASE result = "refused" /\ UNCHANGED row
  BY <1>1, <1>3
<1> QED
  BY <1>2, <1>3 DEF Heartbeat

LEMMA ReconcileType ==
  ASSUME TypeOK, NEW n \in Node, NEW should, Reconcile(n, should)
  PROVE  /\ pc' \in [Node -> {"off", "wait", "call", "start", "stop", "ending"}]
         /\ timer' \in [Node -> Nat]
         /\ running' \in [Node -> BOOLEAN]
         /\ \A m \in Node \ {n} : pc'[m] = pc[m] /\ timer'[m] = timer[m] /\ running'[m] = running[m]
         /\ pc'[n] = (IF should THEN "start" ELSE "stop") /\ timer'[n] = StopTime
         /\ UNCHANGED running
BY ServiceAssumption DEF ServiceAssumption, Reconcile, TypeOK

-----------------------------------------------------------------------------
(* Types *)

LEMMA TickType ==
  ASSUME TypeOK, Tick
  PROVE  TypeOK'
<1> USE ServiceAssumption DEF ServiceAssumption
<1>1. timer' \in [Node -> Nat] /\ assigned' \in [Node -> 0..AssignmentTtl]
  BY DEF Tick, Less, TypeOK
<1>2. row' \in [NodeRole -> Row]
  <2>1. row' = [role \in NodeRole |-> [row[role] EXCEPT !.age = IF @ < Stale THEN @ + 1 ELSE @]]
    BY DEF Tick
  <2>2. ASSUME NEW role \in NodeRole
        PROVE  [row[role] EXCEPT !.age = IF @ < Stale THEN @ + 1 ELSE @] \in Row
    BY DEF TypeOK, Row
  <2> QED
    BY <2>1, <2>2
<1>3. unwanted' \in [Node -> 0..HandBackTime + 1]
  <2>1. unwanted' = [n \in Node |->
          IF ~(Unwanted(row', desired, n) /\ GoesOn(n)) THEN 0
          ELSE IF unwanted[n] <= HandBackTime THEN unwanted[n] + 1 ELSE unwanted[n]]
    BY DEF Tick
  <2>2. unwanted \in [Node -> 0..HandBackTime + 1]
    BY DEF TypeOK
  <2> QED
    BY <2>1, <2>2, HandBackTimeIsNat
<1>4. UNCHANGED <<desired, events, pc, answer, late, running>>
  BY DEF Tick
<1> QED
  BY <1>1, <1>2, <1>3, <1>4 DEF TypeOK, Row

LEMMA TypeStep == TypeOK /\ [Next]_vars => TypeOK'
<1> SUFFICES ASSUME TypeOK, [Next]_vars PROVE TypeOK'
  OBVIOUS
<1> USE ServiceAssumption DEF ServiceAssumption
<1>1. ASSUME NEW n \in Node, SendHeartbeat(n) PROVE TypeOK'
  BY <1>1 DEF SendHeartbeat, TypeOK, backendVars
<1>2. ASSUME NEW n \in Node, Receive(n) PROVE TypeOK'
  <2>1. /\ pc' \in [Node -> {"off", "wait", "call", "start", "stop", "ending"}]
        /\ timer' \in [Node -> Nat] /\ running' \in [Node -> BOOLEAN]
    BY <1>2, ReconcileType DEF Receive
  <2>2. /\ assigned' = [assigned EXCEPT ![n] = IF answer[n] = "assigned" THEN AssignmentTtl ELSE 0]
        /\ answer' = [answer EXCEPT ![n] = "none"]
        /\ UNCHANGED <<row, desired, events, late, unwanted>>
    BY <1>2 DEF Receive, backendVars
  <2>3. assigned' \in [Node -> 0..AssignmentTtl]
    BY <2>2 DEF TypeOK
  <2> QED
    BY <2>1, <2>2, <2>3 DEF TypeOK
<1>3. ASSUME NEW n \in Node, ControlUnavailable(n) PROVE TypeOK'
  <2>1. /\ pc' \in [Node -> {"off", "wait", "call", "start", "stop", "ending"}]
        /\ timer' \in [Node -> Nat] /\ running' \in [Node -> BOOLEAN]
    BY <1>3, ReconcileType DEF ControlUnavailable
  <2>2. /\ answer' = [answer EXCEPT ![n] = "none"] /\ late' \in {late, n}
        /\ UNCHANGED <<row, desired, events, assigned, unwanted>>
    BY <1>3 DEF ControlUnavailable, backendVars
  <2> QED
    BY <2>1, <2>2 DEF TypeOK
<1>4. ASSUME NEW n \in Node, StopEnds(n) PROVE TypeOK'
  <2>1. running' \in [Node -> BOOLEAN]
    BY <1>4, Zenon DEF StopEnds, TypeOK
  <2> QED
    BY <1>4, <2>1 DEF StopEnds, TypeOK, backendVars
<1>12. ASSUME NEW n \in Node, ReconcileEnds(n) PROVE TypeOK'
  <2>1. running' \in [Node -> BOOLEAN]
    BY <1>12, Zenon DEF ReconcileEnds, TypeOK
  <2> QED
    BY <1>12, <2>1 DEF ReconcileEnds, TypeOK, backendVars
<1>5. ASSUME NEW n \in Node, HandleHeartbeat(n) PROVE TypeOK'
  <2>1. PICK result : Heartbeat(n, result) /\ answer' = [answer EXCEPT ![n] = result]
    BY <1>5 DEF HandleHeartbeat
  <2>2. row' \in [NodeRole -> Row] /\ result \in {"assigned", "idle", "refused"}
    BY <2>1, HeartbeatType
  <2>3. unwanted' \in [Node -> 0..HandBackTime + 1]
    BY <1>5, RecountType DEF HandleHeartbeat
  <2> QED
    BY <1>5, <2>1, <2>2, <2>3 DEF HandleHeartbeat, TypeOK, Row
<1>6. ASSUME NEW n \in Node, HandleLate(n) PROVE TypeOK'
  <2>1. row' \in [NodeRole -> Row]
    BY <1>6, HeartbeatType DEF HandleLate
  <2>2. unwanted' \in [Node -> 0..HandBackTime + 1]
    BY <1>6, RecountType DEF HandleLate
  <2> QED
    BY <1>6, <2>1, <2>2 DEF HandleLate, TypeOK, Row
<1>7. ASSUME NEW n \in Node, Shutdown(n) \/ Launch(n) PROVE TypeOK'
  BY <1>7 DEF Shutdown, Launch, TypeOK, backendVars
<1>8. ASSUME NEW n \in Node, Exit(n) PROVE TypeOK'
  <2>1. running' \in [Node -> BOOLEAN]
    BY <1>8, Zenon DEF Exit, TypeOK
  <2> QED
    BY <1>8, <2>1 DEF Exit, TypeOK, backendVars
<1>9. ASSUME NEW r \in RequestId, NEW value \in BOOLEAN, SetDesiredState(r, value) PROVE TypeOK'
  <2>1. unwanted' \in [Node -> 0..HandBackTime + 1]
    BY <1>9, RecountType DEF SetDesiredState
  <2>2. events' \in [RequestId -> [desired : BOOLEAN] \cup {None}] /\ desired' \in BOOLEAN
    <3>1. [desired |-> value] \in [desired : BOOLEAN]
      BY <1>9, Zenon
    <3> QED
      BY <1>9, <3>1, Zenon DEF SetDesiredState, TypeOK
  <2> QED
    BY <1>9, <2>1, <2>2 DEF SetDesiredState, TypeOK
<1>10. CASE Tick
  BY <1>10, TickType
<1>11. CASE UNCHANGED vars
  BY <1>11 DEF vars, backendVars, TypeOK
<1> QED
  BY <1>1, <1>2, <1>3, <1>4, <1>5, <1>6, <1>7, <1>8, <1>9, <1>10, <1>11, <1>12 DEF Next, Work

\* Every variable keeps its type.
THEOREM ServiceControlType == Spec => []TypeOK
BY TypeInit, TypeStep, PTL DEF Spec

-----------------------------------------------------------------------------
(* The time a node goes on once it is not wanted *)

\* How long it may have been unwanted when it leaves the state it is in.
Due(state) ==
  IF state = "start" THEN RequestTimeout + AssignmentTtl + StopTime
  ELSE IF state = "wait" THEN RequestTimeout + AssignmentTtl + StopTime + Poll
  ELSE IF state = "call" THEN RequestTimeout + AssignmentTtl + StopTime + Poll + RequestTimeout
  ELSE HandBackTime

NodeInv(n) ==
  /\ pc[n] = "off" => ~running[n]
  /\ pc[n] = "call" => timer[n] <= RequestTimeout
  /\ answer[n] = "assigned" => pc[n] = "call" /\ unwanted[n] + timer[n] <= RequestTimeout
  /\ assigned[n] > 0 => unwanted[n] + assigned[n] <= RequestTimeout + AssignmentTtl
  /\ running[n] \/ pc[n] = "start" => unwanted[n] + timer[n] <= Due(pc[n])

HandBackInv == \A n \in Node : NodeInv(n)

LEMMA Times ==
  /\ RequestTimeout \in Nat /\ AssignmentTtl \in Nat /\ Poll \in Nat /\ StopTime \in Nat
  /\ HandBackTime \in Nat /\ \A s : Due(s) \in Nat
BY ServiceAssumption DEF ServiceAssumption, HandBackTime, Due

\* A node the step does not touch, except that it may be wanted again.
LEMMA NodeKept ==
  ASSUME TypeOK, TypeOK', NEW n \in Node, NodeInv(n), unwanted'[n] <= unwanted[n],
         pc'[n] = pc[n], timer'[n] = timer[n], answer'[n] = answer[n],
         assigned'[n] = assigned[n], running'[n] => running[n]
  PROVE  NodeInv(n)'
<1>1. unwanted[n] \in Nat /\ unwanted'[n] \in Nat /\ timer[n] \in Nat /\ assigned[n] \in Nat
  BY DEF TypeOK
<1> QED
  BY <1>1, Times DEF NodeInv, Due

LEMMA OthersKept ==
  ASSUME TypeOK, TypeOK', HandBackInv, NEW n \in Node, NodeInv(n)',
         \A m \in Node \ {n} : /\ unwanted'[m] <= unwanted[m]
                               /\ pc'[m] = pc[m] /\ timer'[m] = timer[m] /\ answer'[m] = answer[m]
                               /\ assigned'[m] = assigned[m] /\ running'[m] = running[m]
  PROVE  HandBackInv'
BY NodeKept DEF HandBackInv

\* A node that goes on has its process assigned for some time yet.
LEMMA ReconcileInv ==
  ASSUME TypeOK, TypeOK', HandBackInv, NEW n \in Node, NEW should, Reconcile(n, should), pc[n] = "call",
         UNCHANGED unwanted, answer' = [answer EXCEPT ![n] = "none"],
         should => unwanted[n] <= RequestTimeout + AssignmentTtl,
         assigned'[n] > 0 => unwanted[n] + assigned'[n] <= RequestTimeout + AssignmentTtl,
         \A m \in Node \ {n} : assigned'[m] = assigned[m]
  PROVE  HandBackInv'
<1>1. /\ unwanted[n] \in Nat /\ timer[n] \in Nat /\ answer'[n] = "none"
      /\ \A m \in Node \ {n} : answer'[m] = answer[m]
  BY DEF TypeOK
<1>2. /\ \A m \in Node \ {n} : pc'[m] = pc[m] /\ timer'[m] = timer[m] /\ running'[m] = running[m]
      /\ pc'[n] = (IF should THEN "start" ELSE "stop") /\ timer'[n] = StopTime
      /\ UNCHANGED running
  BY ReconcileType
<1>3. CASE should
  <2>1. unwanted[n] + StopTime <= Due("start")
    BY <1>1, <1>3, Times DEF Due
  <2>2. NodeInv(n)'
    BY <1>1, <1>2, <1>3, <2>1 DEF NodeInv
  <2> QED
    BY <1>1, <1>2, <2>2, OthersKept DEF TypeOK
<1>4. CASE ~should
  <2>1. running[n] => unwanted[n] <= RequestTimeout + AssignmentTtl + StopTime + Poll + RequestTimeout
    BY <1>1, Times DEF HandBackInv, NodeInv, Due
  <2>2. running[n] => unwanted[n] + StopTime <= Due("stop")
    BY <1>1, <2>1, Times DEF Due, HandBackTime
  <2>3. NodeInv(n)'
    BY <1>1, <1>2, <1>4, <2>2 DEF NodeInv
  <2> QED
    BY <1>1, <1>2, <2>3, OthersKept DEF TypeOK
<1> QED
  BY <1>3, <1>4

LEMMA TickInv ==
  ASSUME TypeOK, TypeOK', HandBackInv, Tick
  PROVE  HandBackInv'
<1> SUFFICES ASSUME NEW n \in Node PROVE NodeInv(n)'
  BY DEF HandBackInv
<1>1. /\ unwanted[n] \in Nat /\ timer[n] \in Nat /\ assigned[n] \in Nat
      /\ unwanted'[n] \in Nat
  BY DEF TypeOK
<1>2. /\ UNCHANGED <<pc, answer, running>>
      /\ timer'[n] = Less(timer[n]) /\ assigned'[n] = Less(assigned[n])
      /\ unwanted'[n] <= unwanted[n] + 1
  <2>1. unwanted'[n] = IF ~(Unwanted(row', desired, n) /\ GoesOn(n)) THEN 0
                       ELSE IF unwanted[n] <= HandBackTime THEN unwanted[n] + 1 ELSE unwanted[n]
    BY DEF Tick
  <2>2. unwanted'[n] <= unwanted[n] + 1
    BY <1>1, <2>1, Times
  <2> QED
    BY <2>2 DEF Tick
<1>3. pc[n] # "off" => timer[n] > 0
  BY DEF Tick
<1>4. NodeInv(n)
  BY DEF HandBackInv
<1>5. pc[n] # "off" => unwanted'[n] + timer'[n] <= unwanted[n] + timer[n] /\ timer'[n] <= timer[n]
  BY <1>1, <1>2, <1>3 DEF Less
<1>6. assigned'[n] > 0 => assigned[n] > 0 /\ unwanted'[n] + assigned'[n] <= unwanted[n] + assigned[n]
  BY <1>1, <1>2 DEF Less
<1>7. timer'[n] \in Nat /\ assigned'[n] \in Nat
  BY DEF TypeOK
<1> QED
  BY <1>1, <1>2, <1>4, <1>5, <1>6, <1>7, Times DEF NodeInv

LEMMA HandBackStep ==
  ASSUME TypeOK, TypeOK', HandBackInv, [Next]_vars
  PROVE  HandBackInv'
<1>1. ASSUME NEW n \in Node, SendHeartbeat(n) PROVE HandBackInv'
  <2>1. /\ pc[n] = "wait" /\ timer[n] = 0 /\ pc'[n] = "call" /\ timer'[n] = RequestTimeout
        /\ UNCHANGED <<answer, assigned, running, unwanted>>
        /\ \A m \in Node \ {n} : pc'[m] = pc[m] /\ timer'[m] = timer[m]
    BY <1>1 DEF SendHeartbeat, TypeOK
  <2>2. unwanted[n] \in Nat
    BY DEF TypeOK
  <2>3. NodeInv(n)
    BY DEF HandBackInv
  <2>4. running'[n] => unwanted'[n] + timer'[n] <= Due(pc'[n])
    BY <2>1, <2>2, <2>3, Times DEF NodeInv, Due
  <2>5. NodeInv(n)'
    BY <2>1, <2>2, <2>3, <2>4, Times DEF NodeInv
  <2> QED
    BY <2>1, <2>5, OthersKept DEF TypeOK
<1>2. ASSUME NEW n \in Node, Receive(n) PROVE HandBackInv'
  <2>1. /\ pc[n] = "call" /\ UNCHANGED unwanted /\ answer' = [answer EXCEPT ![n] = "none"]
        /\ assigned' = [assigned EXCEPT ![n] = IF answer[n] = "assigned" THEN AssignmentTtl ELSE 0]
        /\ Reconcile(n, answer[n] = "assigned")
    BY <1>2 DEF Receive
  <2>2. unwanted[n] \in Nat /\ timer[n] \in Nat
    BY DEF TypeOK
  <2>3. answer[n] = "assigned" => unwanted[n] <= RequestTimeout
    BY <2>2, Times DEF HandBackInv, NodeInv
  <2>4. /\ assigned'[n] = (IF answer[n] = "assigned" THEN AssignmentTtl ELSE 0)
        /\ \A m \in Node \ {n} : assigned'[m] = assigned[m]
    BY <2>1 DEF TypeOK
  <2>5. /\ answer[n] = "assigned" => unwanted[n] <= RequestTimeout + AssignmentTtl
        /\ assigned'[n] > 0 => unwanted[n] + assigned'[n] <= RequestTimeout + AssignmentTtl
    BY <2>2, <2>3, <2>4, Times
  <2> QED
    BY <2>1, <2>4, <2>5, ReconcileInv
<1>3. ASSUME NEW n \in Node, ControlUnavailable(n) PROVE HandBackInv'
  <2>1. /\ pc[n] = "call" /\ UNCHANGED <<unwanted, assigned>> /\ answer' = [answer EXCEPT ![n] = "none"]
        /\ Reconcile(n, assigned[n] > 0)
    BY <1>3 DEF ControlUnavailable
  <2>2. unwanted[n] \in Nat /\ assigned[n] \in Nat
    BY DEF TypeOK
  <2>3. /\ assigned[n] > 0 => unwanted[n] <= RequestTimeout + AssignmentTtl
        /\ assigned[n] > 0 => unwanted[n] + assigned[n] <= RequestTimeout + AssignmentTtl
    BY <2>2, Times DEF HandBackInv, NodeInv
  <2> QED
    BY <2>1, <2>3, ReconcileInv
<1>4. ASSUME NEW n \in Node, StopEnds(n) PROVE HandBackInv'
  <2>1. /\ running'[n] = FALSE /\ pc[n] \in {"stop", "ending"} /\ pc'[n] = pc[n]
        /\ UNCHANGED <<answer, assigned, unwanted>>
        /\ \A m \in Node \ {n} : pc'[m] = pc[m] /\ timer'[m] = timer[m] /\ running'[m] = running[m]
    BY <1>4 DEF StopEnds, TypeOK
  <2>2. NodeInv(n)'
    BY <2>1 DEF HandBackInv, NodeInv
  <2> QED
    BY <2>1, <2>2, OthersKept DEF TypeOK
<1>14. ASSUME NEW n \in Node, ReconcileEnds(n) PROVE HandBackInv'
  <2>1. /\ \/ pc[n] = "start" /\ pc'[n] = "wait" /\ timer'[n] = Poll
           \/ ~running[n] /\ ~running'[n] /\ pc[n] \in {"stop", "ending"} /\ pc'[n] \in {"wait", "off"}
        /\ UNCHANGED <<answer, assigned, unwanted>>
        /\ \A m \in Node \ {n} : pc'[m] = pc[m] /\ timer'[m] = timer[m] /\ running'[m] = running[m]
    BY <1>14 DEF ReconcileEnds, TypeOK
  <2>2. unwanted[n] \in Nat /\ timer[n] \in Nat
    BY DEF TypeOK
  <2>3. pc[n] = "start" => unwanted[n] + Poll <= Due("wait")
    BY <2>2, Times DEF HandBackInv, NodeInv, Due
  <2>4. NodeInv(n)'
    BY <2>1, <2>2, <2>3 DEF HandBackInv, NodeInv
  <2> QED
    BY <2>1, <2>4, OthersKept DEF TypeOK
<1>5. ASSUME NEW n \in Node, HandleHeartbeat(n) PROVE HandBackInv'
  <2>1. PICK result : Heartbeat(n, result) /\ answer' = [answer EXCEPT ![n] = result]
    BY <1>5 DEF HandleHeartbeat
  <2>2. /\ pc[n] = "call" /\ UNCHANGED <<desired, pc, timer, assigned, running>> /\ Recount
    BY <1>5 DEF HandleHeartbeat
  <2>3. /\ \A m \in Node : unwanted'[m] <= unwanted[m]
        /\ result = "assigned" => unwanted'[n] = 0
    BY <2>1, <2>2, RecountType, HeartbeatType
  <2>4. answer'[n] = result /\ \A m \in Node \ {n} : answer'[m] = answer[m]
    BY <2>1 DEF TypeOK
  <2>5. unwanted[n] \in Nat /\ unwanted'[n] \in Nat /\ timer[n] \in Nat /\ assigned[n] \in Nat
    BY DEF TypeOK
  <2>6. NodeInv(n)'
    BY <2>2, <2>3, <2>4, <2>5, Times DEF HandBackInv, NodeInv
  <2> QED
    BY <2>2, <2>3, <2>4, <2>6, OthersKept
<1>6. ASSUME UNCHANGED <<pc, timer, answer, assigned>>, \A n \in Node : running'[n] => running[n],
             \A n \in Node : unwanted'[n] <= unwanted[n]
      PROVE  HandBackInv'
  BY <1>6, NodeKept DEF HandBackInv
<1>7. ASSUME NEW n \in Node, HandleLate(n) PROVE HandBackInv'
  BY <1>6, <1>7, RecountType DEF HandleLate
<1>8. ASSUME NEW n \in Node, Shutdown(n) PROVE HandBackInv'
  <2>1. /\ pc[n] = "wait" /\ pc'[n] = "ending" /\ timer'[n] = StopTime
        /\ UNCHANGED <<answer, assigned, running, unwanted>>
        /\ \A m \in Node \ {n} : pc'[m] = pc[m] /\ timer'[m] = timer[m]
    BY <1>8 DEF Shutdown, TypeOK
  <2>2. unwanted[n] \in Nat /\ timer[n] \in Nat
    BY DEF TypeOK
  <2>3. running'[n] => unwanted'[n] + timer'[n] <= Due(pc'[n])
    BY <2>1, <2>2, Times DEF HandBackInv, NodeInv, Due, HandBackTime
  <2>4. NodeInv(n)'
    BY <2>1, <2>3 DEF HandBackInv, NodeInv
  <2> QED
    BY <2>1, <2>4, OthersKept DEF TypeOK
<1>9. ASSUME NEW n \in Node, Launch(n) PROVE HandBackInv'
  <2>1. /\ pc[n] = "off" /\ pc'[n] = "wait" /\ assigned'[n] = 0
        /\ UNCHANGED <<timer, answer, running, unwanted>>
        /\ \A m \in Node \ {n} : pc'[m] = pc[m] /\ assigned'[m] = assigned[m]
    BY <1>9 DEF Launch, TypeOK
  <2>2. NodeInv(n)'
    BY <2>1 DEF HandBackInv, NodeInv
  <2> QED
    BY <2>1, <2>2, OthersKept DEF TypeOK
<1>10. ASSUME NEW n \in Node, Exit(n) PROVE HandBackInv'
  <2>1. \A m \in Node : running'[m] => running[m]
    BY <1>10 DEF Exit, TypeOK
  <2>2. UNCHANGED <<pc, timer, answer, assigned, unwanted>> /\ \A m \in Node : unwanted'[m] <= unwanted[m]
    BY <1>10 DEF Exit, TypeOK
  <2> QED
    BY <1>6, <2>1, <2>2
<1>11. ASSUME NEW r \in RequestId, NEW value \in BOOLEAN, SetDesiredState(r, value) PROVE HandBackInv'
  BY <1>6, <1>11, RecountType DEF SetDesiredState
<1>12. CASE Tick
  BY <1>12, TickInv
<1>13. CASE UNCHANGED vars
  BY <1>6, <1>13 DEF vars, TypeOK
<1> QED
  BY <1>1, <1>2, <1>3, <1>4, <1>5, <1>7, <1>8, <1>9, <1>10, <1>11, <1>12, <1>13, <1>14 DEF Next, Work

LEMMA HandBackInit == Init => HandBackInv
BY DEF Init, HandBackInv, NodeInv

\* However answers are lost or delayed, a node stops its process within the
\* time it takes to hand back, also when it no longer reaches the backend.
THEOREM NodesHandBack == Spec => []UnwantedNodeStops
<1>1. TypeOK /\ TypeOK' /\ HandBackInv /\ [Next]_vars => HandBackInv'
  BY HandBackStep
<1>2. TypeOK /\ HandBackInv => UnwantedNodeStops
  <2> SUFFICES ASSUME TypeOK, HandBackInv, NEW n \in Node, running[n]
               PROVE  unwanted[n] <= HandBackTime
    BY DEF UnwantedNodeStops
  <2>1. unwanted[n] \in Nat /\ timer[n] \in Nat
    BY DEF TypeOK
  <2>2. unwanted[n] + timer[n] <= Due(pc[n])
    BY DEF HandBackInv, NodeInv
  <2>3. Due(pc[n]) <= HandBackTime
    BY Times DEF Due, HandBackTime
  <2> QED
    BY <2>1, <2>2, <2>3, Times
<1> QED
  BY <1>1, <1>2, HandBackInit, ServiceControlType, PTL DEF Spec

-----------------------------------------------------------------------------
(* Nodes of one role and machines of two *)

\* Two nodes run at the same time only in two ways: the backend has stopped
\* wanting one of them no longer ago than HandBackTime, or the backup has taken
\* over from a master whose heartbeats do not arrive.
THEOREM OverlapIsBounded ==
  Spec => [](\A m, n \in Node : m # n /\ running[m] /\ running[n] =>
               \/ \E x \in {m, n} : Unwanted(row, desired, x) /\ unwanted[x] <= HandBackTime
               \/ RoleOf(m) # RoleOf(n) /\ ~Online(row, "MASTER"))
<1>1. UnwantedNodeStops =>
        \A m, n \in Node : m # n /\ running[m] /\ running[n] =>
          \/ \E x \in {m, n} : Unwanted(row, desired, x) /\ unwanted[x] <= HandBackTime
          \/ RoleOf(m) # RoleOf(n) /\ ~Online(row, "MASTER")
  <2> SUFFICES ASSUME UnwantedNodeStops, NEW m \in Node, NEW n \in Node, m # n, running[m], running[n],
                      ~Unwanted(row, desired, m), ~Unwanted(row, desired, n)
               PROVE  RoleOf(m) # RoleOf(n) /\ ~Online(row, "MASTER")
    BY DEF UnwantedNodeStops
  <2>1. RoleOf(m) # RoleOf(n)
    BY DEF Unwanted
  <2>2. m \in Backup \/ n \in Backup
    BY <2>1 DEF RoleOf, Node
  <2> QED
    BY <2>1, <2>2 DEF Unwanted
<1> QED
  BY <1>1, NodesHandBack, PTL

\* How a heartbeat, in time or late, changes the rows; nothing else does but time.
LEMMA RowStep ==
  ASSUME [Next]_vars
  PROVE  \/ UNCHANGED row
         \/ \E n \in Node : ~Conflict(n) /\ row' = [row EXCEPT ![RoleOf(n)] = [node |-> n, age |-> 0]]
         \/ Tick
<1>1. ASSUME NEW n \in Node, HandleHeartbeat(n) \/ HandleLate(n)
      PROVE  \/ UNCHANGED row
             \/ ~Conflict(n) /\ row' = [row EXCEPT ![RoleOf(n)] = [node |-> n, age |-> 0]]
  BY <1>1 DEF HandleHeartbeat, HandleLate, Heartbeat
<1>2. ASSUME NEW n \in Node, Work(n) \/ Shutdown(n) \/ Launch(n) \/ Exit(n) PROVE UNCHANGED row
  BY <1>2 DEF Work, SendHeartbeat, Receive, ControlUnavailable, Reconcile, StopEnds, ReconcileEnds, Shutdown, Launch, Exit, backendVars
<1>3. ASSUME NEW r \in RequestId, NEW value \in BOOLEAN, SetDesiredState(r, value) PROVE UNCHANGED row
  BY <1>3 DEF SetDesiredState
<1>4. CASE UNCHANGED vars
  BY <1>4 DEF vars, backendVars
<1> QED
  BY <1>1, <1>2, <1>3, <1>4 DEF Next

\* In time no row becomes fresher.
LEMMA TickRow ==
  ASSUME TypeOK, Tick, NEW role \in NodeRole
  PROVE  row'[role].node = row[role].node /\ (Online(row', role) => Online(row, role))
<1>1. row[role] \in Row /\ Stale \in Nat
  BY ServiceAssumption DEF ServiceAssumption, TypeOK, Row
<1>2. row'[role] = [row[role] EXCEPT !.age = IF row[role].age < Stale THEN row[role].age + 1 ELSE row[role].age]
  BY DEF Tick
<1>3. row'[role].node = row[role].node /\ (row'[role].age < Stale => row[role].age < Stale)
  BY <1>1, <1>2 DEF Row
<1> QED
  BY <1>3 DEF Online

\* A node that the backend has seen lately keeps its seat: no other node of its
\* role takes it over, however requests are delayed.
THEOREM SeatsAreKept ==
  Spec => [][\A role \in NodeRole : row'[role].node # row[role].node => ~Online(row, role)]_vars
<1>1. TypeOK /\ [Next]_vars
        => [\A role \in NodeRole : row'[role].node # row[role].node => ~Online(row, role)]_vars
  <2> SUFFICES ASSUME TypeOK, [Next]_vars, NEW role \in NodeRole, row'[role].node # row[role].node
               PROVE  ~Online(row, role)
    OBVIOUS
  <2>1. ASSUME NEW n \in Node, ~Conflict(n), row' = [row EXCEPT ![RoleOf(n)] = [node |-> n, age |-> 0]]
        PROVE  ~Online(row, role)
    <3>1. role = RoleOf(n)
      BY <2>1 DEF TypeOK
    <3>2. row'[role].node = n
      BY <2>1, <3>1 DEF TypeOK
    <3> QED
      BY <2>1, <3>1, <3>2 DEF Conflict
  <2> QED
    BY <2>1, RowStep, TickRow
<1> QED
  BY <1>1, ServiceControlType, PTL DEF Spec

\* A machine is never online in both roles, whatever nodes it has launched.
MachinesApart ==
  Online(row, "MASTER") /\ Online(row, "BACKUP") =>
    \A host \in SameHost : ~({row["MASTER"].node, row["BACKUP"].node} \subseteq host)

THEOREM MachinesHaveOneRole == Spec => []MachinesApart
<1>1. Init => MachinesApart
  BY DEF Init, MachinesApart, Online, NodeRole
<1>2. TypeOK /\ MachinesApart /\ [Next]_vars => MachinesApart'
  <2> SUFFICES ASSUME TypeOK, MachinesApart, [Next]_vars PROVE MachinesApart'
    OBVIOUS
  <2>1. ASSUME NEW n \in Node, ~Conflict(n), row' = [row EXCEPT ![RoleOf(n)] = [node |-> n, age |-> 0]]
        PROVE  MachinesApart'
    <3>1. row'[RoleOf(n)].node = n /\ row'[Other(RoleOf(n))] = row[Other(RoleOf(n))]
      BY <2>1, RoleOfIsRole DEF TypeOK, Other, NodeRole
    <3>2. CASE ~Online(row, Other(RoleOf(n)))
      BY <3>1, <3>2 DEF MachinesApart, Online, RoleOf, Other
    <3>3. CASE \A host \in SameHost : ~({n, row[Other(RoleOf(n))].node} \subseteq host)
      BY <3>1, <3>3 DEF MachinesApart, RoleOf, Other
    <3> QED
      BY <2>1, <3>2, <3>3 DEF Conflict
  <2>2. CASE Tick
    BY <2>2, TickRow DEF MachinesApart, NodeRole
  <2>3. CASE UNCHANGED row
    BY <2>3 DEF MachinesApart, Online
  <2> QED
    BY <2>1, <2>2, <2>3, RowStep
<1> QED
  BY <1>1, <1>2, ServiceControlType, PTL DEF Spec
===============================================================================
