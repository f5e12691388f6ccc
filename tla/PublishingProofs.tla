--------------------------- MODULE PublishingProofs ---------------------------
(***************************************************************************)
(* Proofs about Publishing, for any number of positions, any size of the   *)
(* event buffer and any number of faults.                                  *)
(***************************************************************************)
EXTENDS Publishing, SequenceTheorems, FiniteSetTheorems, TLAPS

Events == Seq(Event)

LEMMA EnqueueType ==
  ASSUME NEW q \in Events, NEW events \in Events
  PROVE  Enqueue(q, events) \in Events /\ Len(Enqueue(q, events)) <= QueueSize
<1> DEFINE all == q \o events
           first == 1 + (IF Len(all) > QueueSize THEN Len(all) - QueueSize ELSE 0)
<1>1. all \in Events /\ Len(all) \in Nat /\ QueueSize \in Nat \ {0}
  BY ConcatProperties, PublishingAssumption DEF PublishingAssumption, Events
<1>2. Enqueue(q, events) = SubSeq(all, first, Len(all))
  BY DEF Enqueue
<1> HIDE DEF all
<1>3. first \in Int /\ first >= 1 /\ (first > Len(all) => Len(all) = 0)
  BY <1>1
<1>4. Len(all) - first + 1 <= QueueSize
  BY <1>1
<1> HIDE DEF first
<1>5. \A i \in first..Len(all) : all[i] \in Event
  BY <1>1, <1>3 DEF Events
<1>6. /\ SubSeq(all, first, Len(all)) \in Seq(Event)
      /\ Len(SubSeq(all, first, Len(all))) = IF first <= Len(all) THEN Len(all) - first + 1 ELSE 0
  BY <1>1, <1>3, <1>5, SubSeqProperties
<1> QED
  BY <1>1, <1>2, <1>3, <1>4, <1>6 DEF Events

LEMMA RequeueType ==
  ASSUME NEW q \in Events, NEW events \in Events
  PROVE  Requeue(q, events) \in Events /\ Len(Requeue(q, events)) <= QueueSize
<1> DEFINE all == events \o q
           last == IF Len(all) < QueueSize THEN Len(all) ELSE QueueSize
<1>1. all \in Events /\ Len(all) \in Nat /\ QueueSize \in Nat \ {0}
  BY ConcatProperties, PublishingAssumption DEF PublishingAssumption, Events
<1>2. Requeue(q, events) = SubSeq(all, 1, last)
  BY DEF Requeue
<1> HIDE DEF all
<1>3. last \in Nat /\ last <= Len(all) /\ last <= QueueSize
  BY <1>1
<1> HIDE DEF last
<1>4. \A i \in 1..last : all[i] \in Event
  BY <1>1, <1>3 DEF Events
<1>5. /\ SubSeq(all, 1, last) \in Seq(Event)
      /\ Len(SubSeq(all, 1, last)) = IF 1 <= last THEN last - 1 + 1 ELSE 0
  BY <1>3, <1>4, SubSeqProperties
<1> QED
  BY <1>1, <1>2, <1>3, <1>5 DEF Events

LEMMA RequestOf ==
  ASSUME TypeOK, NEW s \in Slot, call[s] # None
  PROVE  call[s] \in Request /\ call[s].events \in Events /\ Range(call[s].events) \subseteq Event
<1>1. call[s] \in Request
  BY DEF TypeOK
<1>2. call[s].events \in Seq(Event)
  BY <1>1 DEF Request
<1>3. \A e \in Range(call[s].events) : e \in Event
  BY <1>2 DEF Range
<1> QED
  BY <1>1, <1>2, <1>3 DEF Events

LEMMA RepairedType ==
  ASSUME NEW record \in [Ticket -> Record], NEW events
  PROVE  Repaired(record, events) \in [Ticket -> Record]
BY DEF Repaired, Record

LEMMA FailedType ==
  ASSUME TypeOK, NEW n \in Node, call[n] # None, Failed(n)
  PROVE  /\ queue' \in Seq(Event) /\ Len(queue') <= QueueSize
         /\ life' \in {"running", "stopping", "exited"}
         /\ UNCHANGED <<brokerVars, backendVars>>
<1>1. n \in Slot /\ queue \in Events
  BY DEF Slot, TypeOK, Events
<1>2. CASE /\ queue' = Requeue(queue, call[n].events)
           /\ life' = IF life = "stopping" THEN "exited" ELSE life
  <2>1. queue' \in Events /\ Len(queue') <= QueueSize
    BY <1>1, <1>2, RequestOf, RequeueType
  <2> QED
    BY <1>2, <2>1 DEF Failed, TypeOK, Events
<1>3. CASE UNCHANGED queueVars
  BY <1>3 DEF Failed, TypeOK, queueVars
<1> QED
  BY <1>2, <1>3 DEF Failed

LEMMA FaultType == TypeOK /\ Fault => faults' \in 0..MaxFaults
BY PublishingAssumption DEF PublishingAssumption, TypeOK, Fault

LEMMA AbandonType ==
  ASSUME TypeOK, NEW n \in Node, Abandon(n)
  PROVE  call' \in [Slot -> Request \cup {None}]
<1>1. call[n] \in Request \cup {None}
  BY DEF TypeOK, Slot
<1>2. CASE call' = [call EXCEPT ![n] = None]
  BY <1>2 DEF TypeOK
<1>3. CASE call' = [call EXCEPT ![n] = None, !["late"] = call[n]]
  BY <1>1, <1>3 DEF TypeOK
<1> QED
  BY <1>2, <1>3 DEF Abandon

LEMMA StoredType ==
  ASSUME TypeOK, NEW s \in Slot, call[s] # None, Stored(s)
  PROVE  call' \in [Slot -> Request \cup {None}]
<1>1. [call[s] EXCEPT !.state = "stored"] \in Request
  BY RequestOf DEF Request
<1> QED
  BY <1>1 DEF Stored, TypeOK

LEMMA TypeInit == Init => TypeOK
<1> SUFFICES ASSUME Init PROVE TypeOK
  OBVIOUS
<1>1. queue \in Seq(Event) /\ Len(queue) <= QueueSize
  <2>1. queue = <<>>
    BY Zenon DEF Init
  <2> QED
    BY <2>1, PublishingAssumption DEF PublishingAssumption
<1>2. call \in [Slot -> Request \cup {None}] /\ trades \in [Ticket -> Record]
  BY DEF Init, Record
<1>3. opened = 0 /\ position = 0 /\ finalized = 0 /\ filled = 0 /\ current = 0 /\ faults = MaxFaults
      /\ stages = {} /\ life = "running"
  BY Zenon DEF Init
<1> QED
  BY <1>1, <1>2, <1>3, PublishingAssumption DEF PublishingAssumption, TypeOK

OpenRequest(s) == InState(s, {"open"})

\* One transaction of ingest.php at a time, and it has a snapshot to store.
OpenInv ==
  /\ \A s, t \in Slot : OpenRequest(s) /\ OpenRequest(t) => s = t
  /\ \A s \in Slot : OpenRequest(s) => call[s].snap # None

LEMMA AccountType ==
  ASSUME TypeOK, Open \/ Close \/ Sell \/ Finalize
  PROVE  TypeOK'
<1> USE PublishingAssumption DEF PublishingAssumption
<1>1. opened \in Nat /\ MaxTrades \in Nat /\ queue \in Events /\ position \in {0, opened}
  BY DEF TypeOK, Events
<1>2. CASE Open
  BY <1>2 DEF Open, TypeOK, queueVars, backendVars
<1>3. CASE Close
  BY <1>3 DEF Close, TypeOK, queueVars, backendVars
<1>4. CASE Sell
  <2> DEFINE e == [ticket |-> position, stage |-> "EXIT_FILLED"]
  <2>1. position \in Ticket /\ position = opened
    BY <1>1, <1>4 DEF Sell, TypeOK, Ticket
  <2>2. e \in Event
    BY <2>1 DEF Event, Stage
  <2> HIDE DEF e
  <2>3. <<e>> \in Events
    BY <2>2 DEF Events
  <2>4. queue' = Enqueue(queue, <<e>>)
    BY <1>4 DEF Sell, e
  <2>5. queue' \in Seq(Event) /\ Len(queue') <= QueueSize
    BY <1>1, <2>3, <2>4, EnqueueType DEF Events
  <2> QED
    BY <1>4, <2>1, <2>5 DEF Sell, TypeOK, backendVars
<1>5. CASE Finalize
  <2> DEFINE fill == [ticket |-> opened, stage |-> "EXIT_FILLED"]
             end == [ticket |-> opened, stage |-> "CLOSED"]
             events == Append(IF filled = opened THEN <<>> ELSE <<fill>>, end)
  <2>1. opened \in Ticket
    BY <1>1, <1>5 DEF Finalize, TypeOK, Ticket
  <2>2. fill \in Event /\ end \in Event
    BY <2>1 DEF Event, Stage
  <2>3. queue' = Enqueue(queue, events)
    BY <1>5, Zenon DEF Finalize
  <2> HIDE DEF fill
  <2> HIDE DEF end
  <2>4. events \in Events
    BY <2>2 DEF Events
  <2> HIDE DEF events
  <2>5. queue' \in Seq(Event) /\ Len(queue') <= QueueSize
    BY <1>1, <2>3, <2>4, EnqueueType DEF Events
  <2> QED
    BY <1>1, <1>5, <2>5 DEF Finalize, TypeOK, backendVars
<1> QED
  BY <1>2, <1>3, <1>4, <1>5

LEMMA WorkerType ==
  ASSUME TypeOK, NEW n \in Node,
         \/ Refused(n) \/ GiveUp(n) \/ Succeeded(n)
         \/ \E snap \in 0..opened \cup {None} : Take(n, snap)
  PROVE  TypeOK'
<1>1. n \in Slot
  BY DEF Slot
<1>2. CASE Refused(n)
  <2>1. call[n] # None
    BY <1>2 DEF Refused, InState
  <2> QED
    BY <1>1, <1>2, <2>1, FailedType DEF Refused, TypeOK, brokerVars, backendVars
<1>3. CASE GiveUp(n)
  BY <1>3, FailedType, FaultType, AbandonType DEF GiveUp, TypeOK, brokerVars, backendVars
<1>4. CASE Succeeded(n)
  BY <1>4 DEF Succeeded, TypeOK, brokerVars, backendVars, queueVars
<1>5. ASSUME NEW snap \in 0..opened \cup {None}, Take(n, snap) PROVE TypeOK'
  <2> DEFINE events == IF n = "EXECUTOR" THEN queue ELSE <<>>
             r == [snap |-> snap, events |-> events, found |-> "none", state |-> "sent"]
  <2>1. events \in Seq(Event)
    BY DEF TypeOK
  <2>2. snap \in 0..MaxTrades \cup {None}
    BY PublishingAssumption DEF PublishingAssumption, TypeOK
  <2>3. r \in Request
    BY <2>1, <2>2 DEF Request, Record
  <2>4. call' = [call EXCEPT ![n] = r]
    BY <1>5 DEF Take
  <2>5. queue' \in Seq(Event) /\ Len(queue') <= QueueSize
    <3>1. queue' = <<>> \/ queue' = queue
      BY <1>5 DEF Take
    <3>2. queue \in Seq(Event) /\ Len(queue) <= QueueSize
      BY DEF TypeOK
    <3>3. <<>> \in Seq(Event) /\ Len(<<>>) <= QueueSize
      BY PublishingAssumption DEF PublishingAssumption
    <3>4. CASE queue' = <<>>
      BY <3>3, <3>4
    <3>5. CASE queue' = queue
      BY <3>2, <3>5
    <3> QED
      BY <3>1, <3>4, <3>5
  <2> HIDE DEF r
  <2>6. call' \in [Slot -> Request \cup {None}]
    BY <1>1, <2>3, <2>4 DEF TypeOK
  <2> QED
    BY <1>5, <2>5, <2>6 DEF Take, TypeOK, brokerVars, backendVars
<1> QED
  BY <1>2, <1>3, <1>4, <1>5

LEMMA ProcessType ==
  ASSUME TypeOK, Stop \/ ReturnStopped \/ Crash \/ Restart \/ RefusedLate
  PROVE  TypeOK'
<1>1. CASE Stop
  BY <1>1, FaultType DEF Stop, TypeOK, brokerVars, backendVars
<1>2. CASE ReturnStopped
  BY <1>2 DEF ReturnStopped, TypeOK, brokerVars, backendVars
<1>3. CASE Crash
  <2>1. call' \in [Slot -> Request \cup {None}]
    BY <1>3, AbandonType DEF Crash, TypeOK, Node
  <2>2. filled' \in 0..opened
    BY <1>3, PublishingAssumption DEF PublishingAssumption, Crash, TypeOK
  <2> QED
    BY <1>3, <2>1, <2>2, FaultType DEF Crash, TypeOK, backendVars
<1>4. CASE Restart
  <2>1. queue' \in Seq(Event) /\ Len(queue') <= QueueSize
    <3>1. queue' = <<>>
      BY <1>4 DEF Restart
    <3> QED
      BY <3>1, PublishingAssumption DEF PublishingAssumption
  <2> QED
    BY <1>4, <2>1 DEF Restart, TypeOK, brokerVars, backendVars
<1>5. CASE RefusedLate
  BY <1>5 DEF RefusedLate, TypeOK, brokerVars, queueVars, backendVars
<1> QED
  BY <1>1, <1>2, <1>3, <1>4, <1>5

LEMMA CloseFoundType == \A c : CloseFound(c) \subseteq {"exact", "labelled", "provisional"}
BY DEF CloseFound

LEMMA BackendType ==
  ASSUME TypeOK, OpenInv, NEW s \in Slot,
         BeginIngest(s) \/ CommitIngest(s) \/ StoreEvents(s) \/ RollBack(s)
  PROVE  TypeOK'
<1>1. call[s] # None /\ call[s] \in Request /\ call[s].events \in Events /\ Range(call[s].events) \subseteq Event
  BY RequestOf DEF BeginIngest, CommitIngest, StoreEvents, RollBack, InState
<1>2. CASE BeginIngest(s)
  <2>1. PICK found \in IF current # 0 /\ call[s].snap = 0 THEN CloseFound(call[s]) ELSE {"none"} :
          call' = [call EXCEPT ![s].state = "open", ![s].found = found]
    BY <1>2 DEF BeginIngest
  <2>2. found \in Record
    BY <2>1, CloseFoundType DEF Record
  <2>3. [call[s] EXCEPT !.state = "open", !.found = found] \in Request
    BY <1>1, <2>2 DEF Request
  <2>4. call' = [call EXCEPT ![s] = [call[s] EXCEPT !.state = "open", !.found = found]]
    BY <2>1 DEF TypeOK
  <2>5. call' \in [Slot -> Request \cup {None}]
    BY <2>3, <2>4 DEF TypeOK
  <2> QED
    BY <1>2, <2>5 DEF BeginIngest, TypeOK, brokerVars, queueVars, backendVars
<1>3. CASE CommitIngest(s)
  <2> DEFINE recorded == [p \in Ticket |->
               IF p = call[s].snap /\ trades[p] = "none" THEN "open"
               ELSE IF p = current /\ call[s].found # "none" THEN call[s].found
               ELSE trades[p]]
  <2>1. call[s].found \in Record
    BY <1>1 DEF Request
  <2>2. recorded \in [Ticket -> Record]
    BY <2>1 DEF TypeOK, Record
  <2>3. trades' = Repaired(recorded, Range(call[s].events))
    BY <1>3 DEF CommitIngest
  <2> HIDE DEF recorded
  <2>4. trades' \in [Ticket -> Record]
    BY <2>2, <2>3, RepairedType
  <2>5. current' \in 0..MaxTrades
    BY <1>1, <1>3 DEF CommitIngest, OpenInv, OpenRequest, Request
  <2>6. call' \in [Slot -> Request \cup {None}]
    BY <1>1, <1>3, StoredType DEF CommitIngest
  <2>7. stages' \subseteq Event
    BY <1>1, <1>3 DEF CommitIngest, TypeOK
  <2> QED
    BY <1>3, <2>4, <2>5, <2>6, <2>7 DEF CommitIngest, TypeOK, brokerVars, queueVars
<1>4. CASE StoreEvents(s)
  <2>1. trades' \in [Ticket -> Record]
    BY <1>4, RepairedType DEF StoreEvents, TypeOK
  <2>2. call' \in [Slot -> Request \cup {None}]
    BY <1>1, <1>4, StoredType DEF StoreEvents
  <2>3. stages' \subseteq Event
    BY <1>1, <1>4 DEF StoreEvents, TypeOK
  <2> QED
    BY <1>4, <2>1, <2>2, <2>3 DEF StoreEvents, TypeOK, brokerVars, queueVars
<1>5. CASE RollBack(s)
  <2>1. call' \in [Slot -> Request \cup {None}]
    BY <1>5 DEF RollBack, TypeOK
  <2>2. CASE UNCHANGED <<brokerVars, queueVars, backendVars>>
    BY <1>5, <2>1, <2>2, FaultType DEF RollBack, TypeOK, brokerVars, queueVars, backendVars
  <2>3. CASE s \in Node /\ Failed(s)
    BY <1>1, <1>5, <2>1, <2>3, FaultType, FailedType DEF RollBack, TypeOK, brokerVars, backendVars
  <2> QED
    BY <1>5, <2>2, <2>3 DEF RollBack, Slot
<1> QED
  BY <1>2, <1>3, <1>4, <1>5

LEMMA TypeStep == TypeOK /\ OpenInv /\ [Next]_vars => TypeOK'
<1> SUFFICES ASSUME TypeOK, OpenInv, [Next]_vars PROVE TypeOK'
  OBVIOUS
<1>1. CASE Next
  BY <1>1, AccountType, WorkerType, ProcessType, BackendType DEF Next
<1>2. CASE UNCHANGED vars
  BY <1>2 DEF vars, brokerVars, queueVars, backendVars, TypeOK
<1> QED
  BY <1>1, <1>2

-----------------------------------------------------------------------------
(* Open transactions *)

\* Only the start of a transaction opens one.
LEMMA NoneOpened ==
  ASSUME TypeOK, OpenInv,
         \/ UNCHANGED call
         \/ \E s \in Slot : call' = [call EXCEPT ![s] = None]
         \/ \E s \in Slot, r \in Request \cup {None} : r.state # "open" /\ call' = [call EXCEPT ![s] = r]
         \/ \E n \in Node : Abandon(n)
  PROVE  /\ OpenInv'
         /\ \A s \in Slot : OpenRequest(s)' => \E t \in Slot : OpenRequest(t) /\ call'[s] = call[t]
<1>1. call \in [Slot -> Request \cup {None}] /\ Node \subseteq Slot /\ "late" \in Slot /\ "late" \notin Node
  BY DEF TypeOK, Slot, Node
<1>2. ASSUME NEW s \in Slot, NEW r, r = None \/ r.state # "open", call' = [call EXCEPT ![s] = r]
      PROVE  \A t \in Slot : OpenRequest(t)' => OpenRequest(t) /\ call'[t] = call[t]
  BY <1>1, <1>2 DEF OpenRequest, InState
<1>3. ASSUME \A t \in Slot : OpenRequest(t)' => OpenRequest(t) /\ call'[t] = call[t]
      PROVE  /\ OpenInv'
             /\ \A s \in Slot : OpenRequest(s)' => \E t \in Slot : OpenRequest(t) /\ call'[s] = call[t]
  BY <1>3 DEF OpenInv
<1>4. CASE UNCHANGED call
  BY <1>3, <1>4 DEF OpenRequest, InState
<1>5. ASSUME NEW n \in Node, call["late"] = None, call' = [call EXCEPT ![n] = None, !["late"] = call[n]]
      PROVE  /\ OpenInv'
             /\ \A s \in Slot : OpenRequest(s)' => \E t \in Slot : OpenRequest(t) /\ call'[s] = call[t]
  <2>1. /\ call'[n] = None /\ call'["late"] = call[n]
        /\ \A s \in Slot \ {n, "late"} : call'[s] = call[s]
    BY <1>1, <1>5
  <2>2. ASSUME NEW s \in Slot, OpenRequest(s)'
        PROVE  \/ s = "late" /\ OpenRequest(n) /\ call'[s] = call[n]
               \/ s \notin {n, "late"} /\ OpenRequest(s) /\ call'[s] = call[s]
    BY <2>1, <2>2 DEF OpenRequest, InState
  <2> QED
    BY <1>1, <2>2 DEF OpenInv
<1> QED
  BY <1>1, <1>2, <1>3, <1>4, <1>5 DEF Abandon

\* A transaction is opened only when no other is, for a snapshot.
LEMMA BeginOpens ==
  ASSUME TypeOK, OpenInv, NEW s \in Slot, BeginIngest(s)
  PROVE  /\ OpenInv'
         /\ \A t \in Slot : OpenRequest(t)' =>
              /\ call'[t].events = call[t].events
              /\ call'[t].found \in IF current # 0 /\ call'[t].snap = 0 THEN CloseFound(call[t]) ELSE {"none"}
<1>1. call[s] # None /\ call[s] \in Request /\ ~InTransaction /\ call[s].snap # None
  BY RequestOf DEF BeginIngest, InState
<1>2. PICK found \in IF current # 0 /\ call[s].snap = 0 THEN CloseFound(call[s]) ELSE {"none"} :
        call' = [call EXCEPT ![s].state = "open", ![s].found = found]
  BY DEF BeginIngest
<1>3. call \in [Slot -> Request \cup {None}]
  BY DEF TypeOK
<1>4. call' = [call EXCEPT ![s] = [call[s] EXCEPT !.state = "open", !.found = found]]
  BY <1>2, <1>3
<1>5. /\ call'[s].snap = call[s].snap /\ call'[s].events = call[s].events /\ call'[s].found = found
      /\ \A t \in Slot \ {s} : call'[t] = call[t]
  BY <1>1, <1>3, <1>4 DEF Request
<1>6. ASSUME NEW t \in Slot, OpenRequest(t)' PROVE t = s
  BY <1>1, <1>5, <1>6 DEF OpenRequest, InState, InTransaction
<1> QED
  BY <1>1, <1>2, <1>5, <1>6 DEF OpenInv

\* After a transaction of the backend is over, none is open.
LEMMA NoneOpen ==
  ASSUME TypeOK, OpenInv, NEW s \in Slot, Stored(s), call[s] # None,
         \A t \in Slot : OpenRequest(t) => t = s
  PROVE  /\ OpenInv'
         /\ \A t \in Slot : ~OpenRequest(t)'
<1>1. call \in [Slot -> Request \cup {None}] /\ call[s] \in Request
  BY RequestOf DEF TypeOK
<1>2. /\ call'[s] = None \/ call'[s].state = "stored"
      /\ \A t \in Slot \ {s} : call'[t] = call[t]
  BY <1>1 DEF Stored, Request
<1>3. ASSUME NEW t \in Slot PROVE ~OpenRequest(t)'
  BY <1>2 DEF OpenRequest, InState
<1> QED
  BY <1>3 DEF OpenInv

Fill(p) == [ticket |-> p, stage |-> "EXIT_FILLED"]

\* What an open transaction has found out is still true when it commits.
FoundInv ==
  \A s \in Slot :
    OpenRequest(s) /\ call[s].found # "none" /\ Fill(current) \in Range(call[s].events) \cup stages
      => call[s].found = "exact"

ProjectionInv == OpenInv /\ FoundInv /\ CloseConverges

\* A step that neither opens nor ends a transaction.
LEMMA ProjectionKept ==
  ASSUME TypeOK, ProjectionInv, UNCHANGED backendVars,
         \/ UNCHANGED call
         \/ \E s \in Slot : call' = [call EXCEPT ![s] = None]
         \/ \E s \in Slot, r \in Request \cup {None} : r.state # "open" /\ call' = [call EXCEPT ![s] = r]
         \/ \E n \in Node : Abandon(n)
  PROVE  ProjectionInv'
<1>1. /\ OpenInv'
      /\ \A s \in Slot : OpenRequest(s)' => \E t \in Slot : OpenRequest(t) /\ call'[s] = call[t]
  BY NoneOpened DEF ProjectionInv
<1>2. FoundInv'
  BY <1>1 DEF ProjectionInv, FoundInv, backendVars
<1>3. CloseConverges'
  BY DEF ProjectionInv, CloseConverges, backendVars
<1> QED
  BY <1>1, <1>2, <1>3 DEF ProjectionInv

\* The repair leaves no closed trade without its exact fill.
LEMMA RepairConverges ==
  ASSUME NEW record \in [Ticket -> Record], NEW events, NEW p \in Ticket,
         Repaired(record, events)[p] \in Closed,
         Fill(p) \in events \/ record[p] \notin Closed \/ record[p] = "exact"
  PROVE  Repaired(record, events)[p] = "exact"
BY DEF Repaired, Closed, Fill

LEMMA BackendProjection ==
  ASSUME TypeOK, ProjectionInv, ~Overlap, NEW s \in Slot,
         BeginIngest(s) \/ CommitIngest(s) \/ StoreEvents(s) \/ RollBack(s)
  PROVE  ProjectionInv'
<1>1. call[s] # None /\ call[s] \in Request /\ call[s].events \in Events
  BY RequestOf DEF BeginIngest, CommitIngest, StoreEvents, RollBack, InState
<1> USE DEF ProjectionInv
<1>2. CASE BeginIngest(s)
  <2>1. /\ OpenInv'
        /\ \A t \in Slot : OpenRequest(t)' =>
              /\ call'[t].events = call[t].events
              /\ call'[t].found \in IF current # 0 /\ call'[t].snap = 0 THEN CloseFound(call[t]) ELSE {"none"}
    BY <1>2, BeginOpens
  <2>2. UNCHANGED <<current, trades, stages>>
    BY <1>2 DEF BeginIngest, backendVars
  <2>3. \A c : Fill(current) \in Range(c.events) \cup stages => CloseFound(c) = {"exact"}
    BY DEF CloseFound, Fill
  <2>4. FoundInv'
    <3>1. SUFFICES ASSUME NEW t \in Slot, OpenRequest(t)', call'[t].found # "none",
                          Fill(current) \in Range(call'[t].events) \cup stages
                   PROVE  call'[t].found = "exact"
      BY <2>2 DEF FoundInv
    <3>2. call'[t].found \in CloseFound(call[t]) /\ call'[t].events = call[t].events
      BY <2>1, <3>1
    <3> QED
      BY <2>3, <3>1, <3>2
  <2>5. CloseConverges'
    BY <2>2 DEF CloseConverges
  <2> QED
    BY <2>1, <2>4, <2>5
<1>3. CASE CommitIngest(s)
  <2> DEFINE recorded == [p \in Ticket |->
               IF p = call[s].snap /\ trades[p] = "none" THEN "open"
               ELSE IF p = current /\ call[s].found # "none" THEN call[s].found
               ELSE trades[p]]
  <2>1. OpenRequest(s) /\ Stored(s)
    BY <1>3 DEF CommitIngest, OpenRequest
  <2>2. OpenInv' /\ \A t \in Slot : ~OpenRequest(t)'
    BY <1>1, <2>1, NoneOpen DEF OpenInv
  <2>3. trades' = Repaired(recorded, Range(call[s].events)) /\ stages' = stages \cup Range(call[s].events)
    BY <1>3 DEF CommitIngest
  <2>4. recorded \in [Ticket -> Record]
    BY <1>1 DEF Request, TypeOK, Record
  <2>5. ASSUME NEW p \in Ticket, Fill(p) \in stages, recorded[p] \in Closed
        PROVE  recorded[p] = "exact"
    <3>1. recorded[p] \in {call[s].found, trades[p]} \/ recorded[p] = "open"
      OBVIOUS
    <3>2. recorded[p] # "open"
      BY <2>5 DEF Closed
    <3>3. CASE p = current /\ call[s].found # "none" /\ recorded[p] = call[s].found
      BY <2>1, <2>5, <3>3 DEF FoundInv
    <3>4. CASE recorded[p] = trades[p]
      BY <2>5, <3>4 DEF CloseConverges, Fill
    <3> QED
      BY <3>2, <3>3, <3>4
  <2> HIDE DEF recorded
  <2>6. CloseConverges'
    <3>1. SUFFICES ASSUME NEW p \in Ticket, trades'[p] \in Closed, Fill(p) \in stages'
                   PROVE  trades'[p] = "exact"
      BY DEF CloseConverges, Fill
    <3> QED
      BY <2>3, <2>4, <2>5, <3>1, RepairConverges
  <2> QED
    BY <2>2, <2>6 DEF FoundInv
<1>4. CASE StoreEvents(s)
  <2>1. \A t \in Slot : ~OpenRequest(t)
    BY <1>4 DEF StoreEvents, InTransaction, OpenRequest
  <2>2. OpenInv' /\ \A t \in Slot : ~OpenRequest(t)'
    BY <1>1, <1>4, <2>1, NoneOpen DEF StoreEvents
  <2>3. /\ trades' = Repaired(trades, Range(call[s].events)) /\ stages' = stages \cup Range(call[s].events)
        /\ trades \in [Ticket -> Record]
    BY <1>4 DEF StoreEvents, TypeOK
  <2>4. CloseConverges'
    <3>1. SUFFICES ASSUME NEW p \in Ticket, trades'[p] \in Closed, Fill(p) \in stages'
                   PROVE  trades'[p] = "exact"
      BY DEF CloseConverges, Fill
    <3>2. Fill(p) \in stages => trades[p] \notin Closed \/ trades[p] = "exact"
      BY DEF CloseConverges, Fill
    <3> QED
      BY <2>3, <3>1, <3>2, RepairConverges
  <2> QED
    BY <2>2, <2>4 DEF FoundInv
<1>5. CASE RollBack(s)
  BY <1>5, ProjectionKept DEF RollBack, Failed
<1> QED
  BY <1>2, <1>3, <1>4, <1>5

\* How a step that opens no transaction changes the requests.
LEMMA OtherSteps ==
  ASSUME TypeOK,
         \/ Open \/ Close \/ Sell \/ Finalize \/ Stop \/ ReturnStopped \/ Crash \/ Restart \/ RefusedLate
         \/ UNCHANGED vars
         \/ \E n \in Node : \/ Refused(n) \/ GiveUp(n) \/ Succeeded(n)
                            \/ \E snap \in 0..opened \cup {None} : Take(n, snap)
  PROVE  /\ UNCHANGED backendVars
         /\ \/ UNCHANGED call
            \/ \E s \in Slot : call' = [call EXCEPT ![s] = None]
            \/ \E s \in Slot, r \in Request \cup {None} : r.state # "open" /\ call' = [call EXCEPT ![s] = r]
            \/ \E n \in Node : Abandon(n)
<1>1. Node \subseteq Slot /\ "late" \in Slot /\ "EXECUTOR" \in Node
  BY DEF Slot, Node
<1>2. CASE Open \/ Close \/ Sell \/ Finalize \/ Stop \/ ReturnStopped \/ Restart \/ UNCHANGED vars
  BY <1>2 DEF Open, Close, Sell, Finalize, Stop, ReturnStopped, Restart, vars
<1>3. CASE Crash
  BY <1>1, <1>3 DEF Crash
<1>4. CASE RefusedLate
  BY <1>1, <1>4 DEF RefusedLate
<1>5. ASSUME NEW n \in Node, Refused(n) \/ GiveUp(n) \/ Succeeded(n)
      PROVE  /\ UNCHANGED backendVars
             /\ (\E s \in Slot : call' = [call EXCEPT ![s] = None]) \/ Abandon(n)
  BY <1>1, <1>5 DEF Refused, GiveUp, Succeeded, Failed
<1>6. ASSUME NEW n \in Node, NEW snap \in 0..opened \cup {None}, Take(n, snap)
      PROVE  /\ UNCHANGED backendVars
             /\ \E s \in Slot, r \in Request \cup {None} : r.state # "open" /\ call' = [call EXCEPT ![s] = r]
  <2> DEFINE events == IF n = "EXECUTOR" THEN queue ELSE <<>>
             r == [snap |-> snap, events |-> events, found |-> "none", state |-> "sent"]
  <2>1. events \in Seq(Event)
    BY DEF TypeOK
  <2>2. snap \in 0..MaxTrades \cup {None}
    BY PublishingAssumption DEF PublishingAssumption, TypeOK
  <2>3. r \in Request /\ r.state # "open"
    BY <2>1, <2>2 DEF Request, Record
  <2>4. call' = [call EXCEPT ![n] = r] /\ UNCHANGED backendVars
    BY <1>6 DEF Take
  <2> HIDE DEF r
  <2> QED
    BY <1>1, <2>3, <2>4
<1> QED
  BY <1>2, <1>3, <1>4, <1>5, <1>6

LEMMA OpenStep == TypeOK /\ OpenInv /\ [Next]_vars => OpenInv'
<1> SUFFICES ASSUME TypeOK, OpenInv, [Next]_vars PROVE OpenInv'
  OBVIOUS
<1>1. ASSUME NEW s \in Slot, BeginIngest(s) PROVE OpenInv'
  BY <1>1, BeginOpens
<1>2. ASSUME NEW s \in Slot, CommitIngest(s) \/ StoreEvents(s) PROVE OpenInv'
  <2>1. call[s] # None /\ call[s] \in Request /\ Stored(s)
    BY <1>2, RequestOf DEF CommitIngest, StoreEvents, InState
  <2>2. \/ call' = [call EXCEPT ![s] = None]
        \/ call' = [call EXCEPT ![s] = [call[s] EXCEPT !.state = "stored"]]
    BY <2>1 DEF Stored, TypeOK
  <2>3. [call[s] EXCEPT !.state = "stored"] \in Request /\ [call[s] EXCEPT !.state = "stored"].state # "open"
    BY <2>1 DEF Request
  <2> QED
    BY <2>2, <2>3, NoneOpened
<1>3. ASSUME NEW s \in Slot, RollBack(s) PROVE OpenInv'
  BY <1>3, NoneOpened DEF RollBack
<1> QED
  BY <1>1, <1>2, <1>3, OtherSteps, NoneOpened DEF Next

LEMMA OpenInit == Init => OpenInv
BY DEF Init, OpenInv, OpenRequest, InState

LEMMA TypeAndOpen == Spec => [](TypeOK /\ OpenInv)
<1>1. Init => TypeOK /\ OpenInv
  BY TypeInit, OpenInit
<1>2. TypeOK /\ OpenInv /\ [Next]_vars => (TypeOK /\ OpenInv)'
  BY TypeStep, OpenStep
<1> QED
  BY <1>1, <1>2, PTL DEF Spec

\* Every variable keeps its type, and no more events are buffered than the
\* buffer holds, whatever fails.
THEOREM PublishingType == Spec => []TypeOK
BY TypeAndOpen, PTL

\* As long as the transactions of the backend do not overlap, the projection
\* shows the exact fill of every closed trade whose fill is stored, in whatever
\* order snapshots, events, repetitions and late requests arrive.
THEOREM ProjectionConverges ==
  ASSUME ~Overlap
  PROVE  Spec => []CloseConverges
<1>1. TypeOK /\ ProjectionInv /\ [Next]_vars => ProjectionInv'
  <2> SUFFICES ASSUME TypeOK, ProjectionInv, [Next]_vars PROVE ProjectionInv'
    OBVIOUS
  <2> QED
    BY OtherSteps, ProjectionKept, BackendProjection DEF Next
<1>2. Init => ProjectionInv
  <2> SUFFICES ASSUME Init PROVE ProjectionInv
    OBVIOUS
  <2>1. stages = {} /\ call = [s \in Slot |-> None]
    BY Zenon DEF Init
  <2>2. \A s \in Slot : ~OpenRequest(s)
    BY <2>1 DEF OpenRequest, InState
  <2> QED
    BY <2>1, <2>2 DEF ProjectionInv, OpenInv, FoundInv, CloseConverges
<1>3. ProjectionInv => CloseConverges
  BY DEF ProjectionInv
<1> QED
  BY <1>1, <1>2, <1>3, TypeAndOpen, PTL DEF Spec

-------------------------------------------------------------------------------
\* No event is in the sequence twice.
Distinct(q) == \A i, j \in 1..Len(q) : q[i] = q[j] => i = j

LEMMA RangeOf ==
  ASSUME NEW q \in Events
  PROVE  Len(q) \in Nat /\ DOMAIN q = 1..Len(q) /\ \A e : e \in Range(q) <=> \E i \in 1..Len(q) : q[i] = e
<1>1. Len(q) \in Nat /\ DOMAIN q = 1..Len(q)
  BY LenProperties DEF Events
<1> QED
  BY <1>1 DEF Range

LEMMA ConcatDistinct ==
  ASSUME NEW a \in Events, NEW b \in Events, Distinct(a), Distinct(b), Range(a) \cap Range(b) = {}
  PROVE  a \o b \in Events /\ Distinct(a \o b) /\ Range(a \o b) = Range(a) \cup Range(b)
<1> DEFINE all == a \o b
<1>1. /\ all \in Events /\ Len(all) = Len(a) + Len(b) /\ Len(a) \in Nat /\ Len(b) \in Nat
      /\ \A i \in 1..Len(a) + Len(b) : all[i] = IF i <= Len(a) THEN a[i] ELSE b[i - Len(a)]
  BY ConcatProperties, LenProperties DEF Events
<1> HIDE DEF all
<1>2. \A i \in 1..Len(a), j \in 1..Len(b) : a[i] # b[j]
  BY RangeOf
<1>3. Distinct(all)
  <2>1. SUFFICES ASSUME NEW i \in 1..Len(all), NEW j \in 1..Len(all), all[i] = all[j]
                 PROVE  i = j
    BY DEF Distinct
  <2>2. CASE i <= Len(a) /\ j <= Len(a)
    BY <1>1, <2>1, <2>2 DEF Distinct
  <2>3. CASE i > Len(a) /\ j > Len(a)
    <3>1. i - Len(a) \in 1..Len(b) /\ j - Len(a) \in 1..Len(b)
      BY <1>1, <2>3
    <3>2. b[i - Len(a)] = b[j - Len(a)]
      BY <1>1, <2>1, <2>3
    <3>3. i - Len(a) = j - Len(a)
      BY <3>1, <3>2 DEF Distinct
    <3> QED
      BY <1>1, <3>3
  <2>4. CASE i <= Len(a) /\ j > Len(a)
    <3>1. i \in 1..Len(a) /\ j - Len(a) \in 1..Len(b) /\ a[i] = b[j - Len(a)]
      BY <1>1, <2>1, <2>4
    <3> QED
      BY <1>2, <3>1
  <2>5. CASE i > Len(a) /\ j <= Len(a)
    <3>1. j \in 1..Len(a) /\ i - Len(a) \in 1..Len(b) /\ a[j] = b[i - Len(a)]
      BY <1>1, <2>1, <2>5
    <3> QED
      BY <1>2, <3>1
  <2> QED
    BY <1>1, <2>2, <2>3, <2>4, <2>5
<1>4. ASSUME NEW e \in Range(all) PROVE e \in Range(a) \cup Range(b)
  <2>1. PICK i \in 1..Len(all) : all[i] = e
    BY <1>1, <1>4, RangeOf
  <2>2. CASE i <= Len(a)
    BY <1>1, <2>1, <2>2, RangeOf
  <2>3. CASE i > Len(a)
    <3>1. i - Len(a) \in 1..Len(b) /\ b[i - Len(a)] = e
      BY <1>1, <2>1, <2>3
    <3> QED
      BY <3>1, RangeOf
  <2> QED
    BY <1>1, <2>1, <2>2, <2>3
<1>5. ASSUME NEW e \in Range(a) PROVE e \in Range(all)
  <2>1. PICK i \in 1..Len(a) : a[i] = e
    BY <1>5, RangeOf
  <2>2. i \in 1..Len(all) /\ all[i] = e
    BY <1>1, <2>1
  <2> QED
    BY <1>1, <2>2, RangeOf
<1>6. ASSUME NEW e \in Range(b) PROVE e \in Range(all)
  <2>1. PICK i \in 1..Len(b) : b[i] = e
    BY <1>6, RangeOf
  <2>2. i + Len(a) \in 1..Len(all) /\ i + Len(a) - Len(a) = i /\ ~(i + Len(a) <= Len(a))
    BY <1>1, <2>1
  <2>3. all[i + Len(a)] = e
    BY <1>1, <2>1, <2>2
  <2> QED
    BY <1>1, <2>2, <2>3, RangeOf
<1>7. Range(all) = Range(a) \cup Range(b)
  BY <1>4, <1>5, <1>6
<1> QED
  BY <1>1, <1>3, <1>7 DEF all

LEMMA PartDistinct ==
  ASSUME NEW q \in Events, Distinct(q), NEW m \in Nat \ {0}, NEW n \in Nat, n <= Len(q)
  PROVE  LET part == SubSeq(q, m, n)
         IN  /\ Distinct(part) /\ Range(part) \subseteq Range(q)
             /\ Len(part) = IF m <= n THEN n - m + 1 ELSE 0
             /\ part \in Events
<1> DEFINE part == SubSeq(q, m, n)
<1>1. \A i \in m..n : i \in 1..Len(q) /\ q[i] \in Event
  BY RangeOf DEF Events
<1>2. /\ part \in Events /\ Len(part) = IF m <= n THEN n - m + 1 ELSE 0
      /\ \A i \in 1..(n - m + 1) : part[i] = q[m + i - 1]
  BY <1>1, SubSeqProperties DEF Events
<1> HIDE DEF part
<1>3. \A i \in 1..Len(part) : m + i - 1 \in 1..Len(q) /\ part[i] = q[m + i - 1]
  BY <1>2
<1>4. Distinct(part)
  <2>1. SUFFICES ASSUME NEW i \in 1..Len(part), NEW j \in 1..Len(part), part[i] = part[j]
                 PROVE  i = j
    BY DEF Distinct
  <2>2. m + i - 1 = m + j - 1
    BY <1>3, <2>1 DEF Distinct
  <2> QED
    BY <1>2, <2>2
<1>5. ASSUME NEW e \in Range(part) PROVE e \in Range(q)
  <2>1. PICK i \in 1..Len(part) : part[i] = e
    BY <1>2, <1>5, RangeOf
  <2> QED
    BY <1>3, <2>1, RangeOf
<1> QED
  BY <1>2, <1>4, <1>5 DEF part

\* Both ways to put events into the buffer drop some only when it is full.
LEMMA EnqueueDistinct ==
  ASSUME NEW q \in Events, NEW new \in Events, Distinct(q), Distinct(new), Range(q) \cap Range(new) = {}
  PROVE  LET r == Enqueue(q, new)
         IN  /\ Distinct(r) /\ Range(r) \subseteq Range(q) \cup Range(new)
             /\ Range(r) = Range(q) \cup Range(new) \/ Len(r) = QueueSize
<1> DEFINE all == q \o new
           first == 1 + (IF Len(all) > QueueSize THEN Len(all) - QueueSize ELSE 0)
<1>1. all \in Events /\ Distinct(all) /\ Range(all) = Range(q) \cup Range(new)
  BY ConcatDistinct
<1>2. Enqueue(q, new) = SubSeq(all, first, Len(all))
  BY DEF Enqueue
<1> HIDE DEF all
<1>3. Len(all) \in Nat /\ QueueSize \in Nat \ {0}
  BY <1>1, RangeOf, PublishingAssumption DEF PublishingAssumption
<1>4. first \in Nat \ {0} /\ (Len(all) > QueueSize => Len(all) - first + 1 = QueueSize /\ first <= Len(all))
      /\ (Len(all) <= QueueSize => first = 1)
  BY <1>3
<1> HIDE DEF first
<1>5. /\ Distinct(SubSeq(all, first, Len(all))) /\ Range(SubSeq(all, first, Len(all))) \subseteq Range(all)
      /\ Len(SubSeq(all, first, Len(all))) = IF first <= Len(all) THEN Len(all) - first + 1 ELSE 0
  BY <1>1, <1>3, <1>4, PartDistinct
<1>6. CASE Len(all) > QueueSize
  BY <1>1, <1>2, <1>3, <1>4, <1>5, <1>6
<1>7. CASE Len(all) <= QueueSize
  <2>1. SubSeq(all, 1, Len(all)) = all
    BY <1>1, SubSeqFull DEF Events
  <2> QED
    BY <1>1, <1>2, <1>4, <1>7, <2>1
<1> QED
  BY <1>3, <1>6, <1>7

LEMMA RequeueDistinct ==
  ASSUME NEW q \in Events, NEW sent \in Events, Distinct(q), Distinct(sent), Range(q) \cap Range(sent) = {}
  PROVE  LET r == Requeue(q, sent)
         IN  /\ Distinct(r) /\ Range(r) \subseteq Range(q) \cup Range(sent)
             /\ Range(r) = Range(q) \cup Range(sent) \/ Len(r) = QueueSize
<1> DEFINE all == sent \o q
           last == IF Len(all) < QueueSize THEN Len(all) ELSE QueueSize
<1>1. all \in Events /\ Distinct(all) /\ Range(all) = Range(q) \cup Range(sent)
  BY ConcatDistinct
<1>2. Requeue(q, sent) = SubSeq(all, 1, last)
  BY DEF Requeue
<1> HIDE DEF all
<1>3. Len(all) \in Nat /\ QueueSize \in Nat \ {0}
  BY <1>1, RangeOf, PublishingAssumption DEF PublishingAssumption
<1>4. last \in Nat /\ last <= Len(all) /\ last \in {Len(all), QueueSize}
  BY <1>3
<1> HIDE DEF last
<1>5. /\ Distinct(SubSeq(all, 1, last)) /\ Range(SubSeq(all, 1, last)) \subseteq Range(all)
      /\ Len(SubSeq(all, 1, last)) = IF 1 <= last THEN last - 1 + 1 ELSE 0
  BY <1>1, <1>4, PartDistinct
<1>6. CASE last = QueueSize
  BY <1>1, <1>2, <1>3, <1>5, <1>6
<1>7. CASE last = Len(all)
  <2>1. SubSeq(all, 1, Len(all)) = all
    BY <1>1, SubSeqFull DEF Events
  <2> QED
    BY <1>1, <1>2, <1>7, <2>1
<1> QED
  BY <1>4, <1>6, <1>7

\* More events are pending than the buffer holds when another one is pending
\* beside a full buffer.
LEMMA MoreThanFits ==
  ASSUME NEW q \in Events, Distinct(q), Len(q) = QueueSize, NEW e \in Event, e \notin Range(q),
         NEW S, IsFiniteSet(S), Range(q) \cup {e} \subseteq S
  PROVE  Cardinality(S) > QueueSize
<1> DEFINE I == 1..Len(q)
           T == S \ {e}
<1>1. q \in [I -> T] /\ Len(q) \in Nat /\ \A i, j \in I : q[i] = q[j] => i = j
  <2>1. q \in [I -> Event] /\ Len(q) \in Nat
    BY LenProperties DEF Events
  <2>2. \A i \in I : q[i] \in T
    BY RangeOf
  <2> QED
    BY <2>1, <2>2 DEF Distinct
<1>2. q \in Injection(I, T)
  BY <1>1 DEF Injection, IsInjective
<1>3. IsFiniteSet(T) /\ Cardinality(T) = Cardinality(S) - 1 /\ Cardinality(S) \in Nat
  BY FS_RemoveElement, FS_CardinalityType
<1>4. Cardinality(I) = Len(q)
  <2>1. 1 \in Int /\ Len(q) \in Int /\ Len(q) \in Nat
    BY <1>1
  <2> QED
    BY <2>1, FS_Interval
<1>5. Cardinality(I) <= Cardinality(T)
  BY <1>2, <1>3, FS_Injection
<1> QED
  BY <1>1, <1>3, <1>4, <1>5

LEMMA RangeIsFinite ==
  ASSUME NEW q \in Events
  PROVE  IsFiniteSet(Range(q))
<1> DEFINE I == 1..Len(q)
<1>1. Len(q) \in Nat /\ q \in [I -> Event] /\ DOMAIN q = I
  BY LenProperties DEF Events
<1>2. IsFiniteSet(I)
  <2>1. 1 \in Int /\ Len(q) \in Int
    BY <1>1
  <2> QED
    BY <2>1, FS_Interval
<1>3. q \in [I -> Range(q)] /\ \A e \in Range(q) : \E i \in I : q[i] = e
  BY <1>1 DEF Range
<1>4. q \in Surjection(I, Range(q))
  BY <1>3 DEF Surjection
<1> QED
  BY <1>2, <1>4, FS_Surjection

\* The events of the executor's request.
Sending == IF call["EXECUTOR"] = None THEN <<>> ELSE call["EXECUTOR"].events

\* An event that was enqueued has happened.
Reported(e) ==
  /\ e.ticket <= opened
  /\ e.ticket = opened => IF e.stage = "EXIT_FILLED" THEN filled = opened ELSE finalized = opened

\* No event is pending twice, so that a full buffer is really full; the events
\* of a stored request are in the store.
NoneTwice == Distinct(queue) /\ Distinct(Sending) /\ Range(queue) \cap Range(Sending) = {}

StoredInv == InState("EXECUTOR", {"stored"}) => Range(Sending) \subseteq stages

UnsentInv ==
  /\ NoneTwice /\ StoredInv
  /\ \A e \in Unsent : Reported(e)
  /\ position # 0 => filled < opened

LEMMA EmptyBatch == <<>> \in Events /\ Distinct(<<>>) /\ Range(<<>>) = {}
BY DEF Events, Distinct, Range

Batched ==
  /\ queue \in Events /\ Sending \in Events /\ Unsent = Range(queue) \cup Range(Sending)
  /\ Unsent \subseteq Event /\ IsFiniteSet(Unsent)

LEMMA Batches == TypeOK => Batched
<1> SUFFICES ASSUME TypeOK PROVE Batched
  OBVIOUS
<1>1. queue \in Events
  BY DEF TypeOK, Events
<1>2. "EXECUTOR" \in Slot
  BY DEF Slot, Node
<1>3. Sending \in Events
  BY <1>2, RequestOf, EmptyBatch DEF Sending
<1>4. Unsent = Range(queue) \cup Range(Sending)
  BY EmptyBatch DEF Unsent, Sending
<1>5. Range(queue) \subseteq Event /\ Range(Sending) \subseteq Event
  BY <1>1, <1>3, RangeOf DEF Events
<1>6. IsFiniteSet(Range(queue)) /\ IsFiniteSet(Range(Sending))
  BY <1>1, <1>3, RangeIsFinite
<1> QED
  BY <1>1, <1>3, <1>4, <1>5, <1>6, FS_Union DEF Batched

\* What a step may do to the pending events: keep them, or lose them only to a
\* full buffer, to the store, or with the process.
Accounted ==
  \A e \in Unsent \ Unsent' :
    e \in stages' \/ Cardinality(Unsent \cup Unsent') > QueueSize \/ life = "exited" \/ life' = "exited"

LEMMA FullBuffer ==
  ASSUME TypeOK, TypeOK', UnsentInv', Len(queue') = QueueSize
  PROVE  Accounted
<1> SUFFICES ASSUME NEW e \in Unsent \ Unsent' PROVE Cardinality(Unsent \cup Unsent') > QueueSize
  BY DEF Accounted
<1>1. /\ Unsent \subseteq Event /\ IsFiniteSet(Unsent)
      /\ queue' \in Events /\ Range(queue') \subseteq Unsent' /\ IsFiniteSet(Unsent')
  <2>1. Batched'
    BY Batches, PTL
  <2> QED
    BY <2>1, Batches DEF Batched
<1>2. IsFiniteSet(Unsent \cup Unsent')
  BY <1>1, FS_Union
<1>3. Distinct(queue')
  BY DEF UnsentInv, NoneTwice, Distinct
<1> QED
  BY <1>1, <1>2, <1>3, MoreThanFits

\* A step after which no other events are pending.
LEMMA UnsentKept ==
  ASSUME TypeOK, UnsentInv, NoneTwice', StoredInv', Unsent' \subseteq Unsent,
         UNCHANGED brokerVars \/ Open \/ Close \/ Crash
  PROVE  UnsentInv'
<1>1. opened \in Nat /\ filled \in 0..opened /\ finalized <= opened
  BY PublishingAssumption DEF PublishingAssumption, TypeOK
<1>2. Unsent \subseteq Event
  BY Batches DEF Batched
<1>3. /\ opened' \in {opened, opened + 1} /\ (opened' = opened => finalized' = finalized)
      /\ (opened' = opened => filled' \in {filled, opened}) /\ (opened' = opened + 1 => UNCHANGED filled)
      /\ (position' # 0 /\ opened' = opened => UNCHANGED <<position, filled>>)
  BY <1>1 DEF brokerVars, Open, Close, Crash
<1>4. \A e \in Event : Reported(e) => Reported(e)'
  <2>1. SUFFICES ASSUME NEW e \in Event, Reported(e) PROVE Reported(e)'
    OBVIOUS
  <2>2. e.ticket \in Nat /\ e.ticket <= opened
    BY <2>1, PublishingAssumption DEF PublishingAssumption, Event, Ticket, Reported
  <2>3. CASE opened' = opened + 1
    BY <1>1, <2>2, <2>3 DEF Reported
  <2>4. CASE opened' = opened
    BY <1>1, <1>3, <2>1, <2>4 DEF Reported
  <2> QED
    BY <1>3, <2>3, <2>4
<1>5. position' # 0 => filled' < opened'
  BY <1>1, <1>3 DEF UnsentInv
<1>6. \A e \in Unsent' : Reported(e)'
  BY <1>2, <1>4 DEF UnsentInv
<1> QED
  BY <1>5, <1>6 DEF UnsentInv

\* The request of the executor is as it was.
LEMMA SameBatches ==
  ASSUME TypeOK, UnsentInv, UNCHANGED queue, UNCHANGED Sending, StoredInv',
         UNCHANGED brokerVars \/ Open \/ Close
  PROVE  UnsentInv' /\ Accounted
<1>1. NoneTwice' /\ Unsent' = Unsent
  BY EmptyBatch DEF UnsentInv, NoneTwice, Distinct, Unsent, Sending
<1> QED
  BY <1>1, UnsentKept DEF Accounted

\* The executor's request has ended.
LEMMA NoBatch ==
  ASSUME call'["EXECUTOR"] = None
  PROVE  Sending' = <<>> /\ StoredInv' /\ Unsent' = Range(queue') /\ (Distinct(queue)' => NoneTwice')
BY EmptyBatch DEF Sending, StoredInv, InState, Unsent, NoneTwice, Distinct

LEMMA FailedBatch ==
  ASSUME TypeOK, TypeOK', UnsentInv, call'["EXECUTOR"] = None, UNCHANGED brokerVars,
         queue' = Requeue(queue, Sending)
  PROVE  UnsentInv' /\ Accounted
<1>1. Batched
  BY Batches
<1>2. /\ Distinct(queue') /\ Range(queue') \subseteq Unsent
      /\ Range(queue') = Unsent \/ Len(queue') = QueueSize
  BY <1>1, RequeueDistinct DEF Batched, UnsentInv, NoneTwice
<1>3. Unsent' = Range(queue') /\ NoneTwice' /\ StoredInv'
  BY <1>2, NoBatch DEF Distinct
<1>4. UnsentInv'
  BY <1>2, <1>3, UnsentKept
<1> QED
  BY <1>2, <1>3, <1>4, FullBuffer DEF Accounted

LEMMA PairOfEvents ==
  ASSUME NEW a \in Event, NEW b \in Event, a # b
  PROVE  LET pair == Append(<<a>>, b)
         IN  pair \in Events /\ Distinct(pair) /\ \A e \in Range(pair) : e \in {a, b}
<1> DEFINE pair == Append(<<a>>, b)
<1>1. <<a>> \in Seq(Event) /\ Len(<<a>>) = 1 /\ <<a>>[1] = a
  OBVIOUS
<1>2. pair \in Seq(Event) /\ Len(pair) = 2 /\ pair[1] = a /\ pair[2] = b
  BY <1>1, AppendProperties
<1> HIDE DEF pair
<1>3. \A i \in 1..2 : i = 1 \/ i = 2
  OBVIOUS
<1>4. Distinct(pair)
  BY <1>2, <1>3 DEF Distinct
<1>5. pair \in Events
  BY <1>2 DEF Events
<1>6. \A e \in Range(pair) : e \in {a, b}
  BY <1>2, <1>3, <1>5, RangeOf
<1> QED
  BY <1>4, <1>5, <1>6 DEF pair

\* Sell and Finalize report events that were not reported before.
LEMMA NewEvents ==
  ASSUME TypeOK, TypeOK', UnsentInv, Sell \/ Finalize
  PROVE  UnsentInv' /\ Accounted
<1>1. Batched /\ opened \in Nat /\ filled \in 0..opened /\ finalized \in 0..opened /\ Ticket = 1..MaxTrades
      /\ opened <= MaxTrades /\ position \in {0, opened}
  BY Batches, PublishingAssumption DEF PublishingAssumption, TypeOK, Ticket
<1>2. \E new \in Events :
        /\ Distinct(new) /\ queue' = Enqueue(queue, new)
        /\ \A e \in Range(new) : ~Reported(e) /\ Reported(e)'
  <2> DEFINE fill == [ticket |-> opened, stage |-> "EXIT_FILLED"]
             closed == [ticket |-> opened, stage |-> "CLOSED"]
  <2>1. CASE Sell
    <3>1. /\ position = opened /\ opened # 0 /\ filled < opened /\ filled' = opened /\ opened' = opened
          /\ queue' = Enqueue(queue, <<fill>>)
      BY <1>1, <2>1 DEF Sell, UnsentInv
    <3>2. <<fill>> \in Events /\ Distinct(<<fill>>) /\ \A e \in Range(<<fill>>) : e = fill
      BY <1>1, <3>1 DEF Events, Distinct, Range, Event, Stage
    <3>3. ~Reported(fill) /\ Reported(fill)'
      BY <1>1, <3>1 DEF Reported
    <3> QED
      BY <3>1, <3>2, <3>3
  <2>2. CASE Finalize /\ filled = opened
    <3>1. /\ opened # 0 /\ finalized < opened /\ opened' = opened /\ finalized' = opened
          /\ queue' = Enqueue(queue, Append(<<>>, closed))
      BY <1>1, <2>2 DEF Finalize
    <3>2. Append(<<>>, closed) = <<closed>>
      OBVIOUS
    <3>3. <<closed>> \in Events /\ Distinct(<<closed>>) /\ \A e \in Range(<<closed>>) : e = closed
      BY <1>1, <3>1 DEF Events, Distinct, Range, Event, Stage
    <3>4. ~Reported(closed) /\ Reported(closed)'
      BY <1>1, <3>1 DEF Reported
    <3> QED
      BY <3>1, <3>2, <3>3, <3>4
  <2>3. CASE Finalize /\ filled # opened
    <3>1. /\ opened # 0 /\ finalized < opened /\ opened' = opened /\ finalized' = opened /\ filled' = opened
          /\ queue' = Enqueue(queue, Append(<<fill>>, closed))
      BY <1>1, <2>3 DEF Finalize
    <3>2. fill \in Event /\ closed \in Event /\ fill # closed
      BY <1>1, <3>1 DEF Event, Stage
    <3> HIDE DEF fill, closed
    <3>3. LET pair == Append(<<fill>>, closed)
          IN  pair \in Events /\ Distinct(pair) /\ \A e \in Range(pair) : e \in {fill, closed}
      BY <3>2, PairOfEvents
    <3> USE DEF fill, closed
    <3>4. ~Reported(fill) /\ Reported(fill)' /\ ~Reported(closed) /\ Reported(closed)'
      BY <1>1, <2>3, <3>1 DEF Reported
    <3> QED
      BY <3>1, <3>2, <3>3, <3>4
  <2> QED
    BY <2>1, <2>2, <2>3
<1>3. PICK new \in Events :
        /\ Distinct(new) /\ queue' = Enqueue(queue, new)
        /\ \A e \in Range(new) : ~Reported(e) /\ Reported(e)'
  BY <1>2
<1>4. UNCHANGED <<call, stages, opened>> /\ filled' = opened /\ position' = 0
  BY <1>1 DEF Sell, Finalize, backendVars
<1>5. \A e \in Unsent : Reported(e)
  BY DEF UnsentInv
<1>6. Range(queue) \cap Range(new) = {} /\ Range(Sending) \cap Range(new) = {}
  BY <1>1, <1>3, <1>5 DEF Batched
<1>7. /\ Distinct(queue') /\ Range(queue') \subseteq Range(queue) \cup Range(new)
      /\ Range(queue') = Range(queue) \cup Range(new) \/ Len(queue') = QueueSize
  BY <1>1, <1>3, <1>6, EnqueueDistinct DEF Batched, UnsentInv, NoneTwice
<1>8. UNCHANGED Sending /\ Unsent' = Range(queue') \cup Range(Sending) /\ Distinct(queue)' /\ Distinct(Sending)'
  BY <1>4, <1>7, EmptyBatch DEF Sending, Unsent, UnsentInv, NoneTwice, Distinct
<1>9. \A e \in Event : Reported(e) => Reported(e)'
  BY <1>1, <1>4 DEF Reported, Sell, Finalize
<1>10. \A e \in Unsent' : Reported(e)'
  BY <1>1, <1>3, <1>5, <1>7, <1>8, <1>9 DEF Batched
<1>11. StoredInv'
  BY <1>4, <1>8 DEF StoredInv, UnsentInv, InState
<1>12. UnsentInv'
  BY <1>4, <1>6, <1>7, <1>8, <1>10, <1>11 DEF UnsentInv, NoneTwice
<1>13. CASE Range(queue') = Range(queue) \cup Range(new)
  BY <1>1, <1>8, <1>12, <1>13 DEF Accounted, Batched
<1> QED
  BY <1>7, <1>12, <1>13, FullBuffer

LEMMA WorkerSteps ==
  ASSUME TypeOK, TypeOK', UnsentInv,
         NEW n \in Node,
         Refused(n) \/ GiveUp(n) \/ Succeeded(n) \/ (\E snap \in 0..opened \cup {None} : Take(n, snap))
  PROVE  UnsentInv' /\ Accounted
<1>1. "EXECUTOR" \in Slot /\ Node \subseteq Slot /\ "late" # "EXECUTOR" /\ call \in [Slot -> Request \cup {None}]
  BY DEF Slot, Node, TypeOK
<1>2. Batched /\ StoredInv
  BY Batches DEF UnsentInv
<1>3. CASE n # "EXECUTOR"
  <2>1. UNCHANGED <<queue, brokerVars, stages>>
    BY <1>3 DEF Refused, GiveUp, Succeeded, Take, Failed, queueVars, backendVars
  <2>2. call'["EXECUTOR"] = call["EXECUTOR"]
    BY <1>1, <1>3 DEF Refused, GiveUp, Succeeded, Take, Abandon
  <2>3. UNCHANGED Sending /\ StoredInv'
    BY <1>2, <2>1, <2>2 DEF Sending, StoredInv, InState
  <2> QED
    BY <2>1, <2>3, SameBatches
<1>4. CASE n = "EXECUTOR" /\ (Refused(n) \/ GiveUp(n))
  <2>1. call["EXECUTOR"] # None /\ call'["EXECUTOR"] = None
    BY <1>1, <1>4 DEF Refused, GiveUp, Abandon, InState
  <2>2. queue' = Requeue(queue, Sending) /\ UNCHANGED brokerVars
    BY <1>4, <2>1 DEF Refused, GiveUp, Failed, Sending
  <2> QED
    BY <2>1, <2>2, FailedBatch
<1>5. CASE n = "EXECUTOR" /\ Succeeded(n)
  <2>1. InState("EXECUTOR", {"stored"}) /\ call'["EXECUTOR"] = None /\ UNCHANGED <<queue, brokerVars, stages>>
    BY <1>1, <1>5 DEF Succeeded, queueVars, backendVars
  <2>2. StoredInv' /\ Unsent' = Range(queue) /\ NoneTwice'
    BY <2>1, NoBatch DEF UnsentInv, NoneTwice, Distinct
  <2>3. Range(Sending) \subseteq stages'
    BY <1>2, <2>1 DEF StoredInv
  <2> QED
    BY <1>2, <2>1, <2>2, <2>3, UnsentKept DEF Batched, Accounted
<1>6. CASE n = "EXECUTOR" /\ (\E snap \in 0..opened \cup {None} : Take(n, snap))
  <2>1. PICK snap \in 0..opened \cup {None} : Take(n, snap)
    BY <1>6
  <2>2. /\ call["EXECUTOR"] = None /\ queue' = <<>> /\ UNCHANGED brokerVars
        /\ call'["EXECUTOR"] = [snap |-> snap, events |-> queue, found |-> "none", state |-> "sent"]
    BY <1>1, <1>6, <2>1 DEF Take
  <2>3. call'["EXECUTOR"] # None
    <3>1. queue \in Seq(Event) /\ snap \in 0..MaxTrades \cup {None}
      BY PublishingAssumption DEF PublishingAssumption, TypeOK
    <3>2. call'["EXECUTOR"] \in Request
      BY <2>2, <3>1 DEF Request, Record
    <3> QED
      BY <3>2, NoneIsNotARequest
  <2>4. Sending = <<>> /\ Sending' = queue /\ StoredInv'
    BY <2>2, <2>3 DEF Sending, StoredInv, InState
  <2>5. Unsent' = Unsent
    BY <1>2, <2>2, <2>3, <2>4, EmptyBatch DEF Unsent, Sending, Batched
  <2>6. NoneTwice'
    BY <2>2, <2>4, EmptyBatch DEF UnsentInv, NoneTwice, Distinct
  <2> QED
    BY <2>2, <2>4, <2>5, <2>6, UnsentKept DEF Accounted
<1> QED
  BY <1>3, <1>4, <1>5, <1>6

LEMMA BackendSteps ==
  ASSUME TypeOK, TypeOK', UnsentInv, NEW s \in Slot,
         BeginIngest(s) \/ CommitIngest(s) \/ StoreEvents(s) \/ RollBack(s)
  PROVE  UnsentInv' /\ Accounted
<1>1. "EXECUTOR" \in Slot /\ call \in [Slot -> Request \cup {None}] /\ call[s] # None /\ call[s] \in Request
  BY RequestOf DEF Slot, Node, TypeOK, BeginIngest, CommitIngest, StoreEvents, RollBack, InState
<1>2. Batched /\ StoredInv
  BY Batches DEF UnsentInv
<1>3. CASE RollBack(s) /\ s = "EXECUTOR"
  <2>1. call'["EXECUTOR"] = None /\ queue' = Requeue(queue, Sending) /\ UNCHANGED brokerVars
    BY <1>1, <1>3 DEF RollBack, Failed, Sending
  <2> QED
    BY <2>1, FailedBatch
<1>4. CASE RollBack(s) /\ s # "EXECUTOR"
  <2>1. UNCHANGED <<queue, brokerVars, stages>> /\ call'["EXECUTOR"] = call["EXECUTOR"]
    BY <1>1, <1>4 DEF RollBack, Failed, queueVars, backendVars
  <2>2. UNCHANGED Sending /\ StoredInv'
    BY <1>2, <2>1 DEF Sending, StoredInv, InState
  <2> QED
    BY <2>1, <2>2, SameBatches
<1>5. CASE BeginIngest(s)
  <2>1. UNCHANGED <<queue, brokerVars, stages>>
    BY <1>5 DEF BeginIngest, queueVars, backendVars
  <2>2. PICK found \in Record : call' = [call EXCEPT ![s] = [call[s] EXCEPT !.state = "open", !.found = found]]
    BY <1>1, <1>5 DEF BeginIngest, CloseFound, Record
  <2>3. ASSUME s = "EXECUTOR"
        PROVE  /\ call'[s].events = call[s].events /\ call'[s].state = "open" /\ call'[s] # None
    <3>1. call'[s] = [call[s] EXCEPT !.state = "open", !.found = found]
      BY <1>1, <2>2
    <3>2. call'[s].events = call[s].events /\ call'[s].state = "open"
      BY <1>1, <3>1 DEF Request
    <3>3. call'[s].state # call[s].state
      BY <1>5, <3>2 DEF BeginIngest, InState
    <3>4. call'[s] # None
      <4>1. call'[s] \in Request
        BY <1>1, <3>1 DEF Request
      <4> QED
        BY <4>1, NoneIsNotARequest
    <3> QED
      BY <3>2, <3>4
  <2>4. s # "EXECUTOR" => call'["EXECUTOR"] = call["EXECUTOR"]
    BY <1>1, <2>2
  <2>5. UNCHANGED Sending /\ StoredInv'
    BY <1>1, <1>2, <2>1, <2>3, <2>4 DEF Sending, StoredInv, InState
  <2> QED
    BY <2>1, <2>5, SameBatches
<1>6. CASE CommitIngest(s) \/ StoreEvents(s)
  <2>1. UNCHANGED <<queue, brokerVars>> /\ stages' = stages \cup Range(call[s].events) /\ Stored(s)
    BY <1>6 DEF CommitIngest, StoreEvents, queueVars
  <2>2. CASE s = "EXECUTOR"
    <3>1. call'[s] = [call[s] EXCEPT !.state = "stored"]
      BY <1>1, <2>1, <2>2 DEF Stored
    <3>2. call'[s].events = call[s].events
      BY <1>1, <3>1 DEF Request
    <3>3. [call[s] EXCEPT !.state = "stored"] \in Request
      BY <1>1 DEF Request
    <3>4. call'["EXECUTOR"] # None /\ call["EXECUTOR"] # None
      BY <1>1, <2>2, <3>1, <3>3, NoneIsNotARequest
    <3>5. UNCHANGED Sending /\ Sending = call[s].events
      BY <2>2, <3>2, <3>4 DEF Sending
    <3>6. StoredInv'
      BY <2>1, <3>5 DEF StoredInv
    <3> QED
      BY <2>1, <3>5, <3>6, SameBatches
  <2>3. CASE s # "EXECUTOR"
    <3>1. call'["EXECUTOR"] = call["EXECUTOR"]
      BY <1>1, <2>1, <2>3 DEF Stored
    <3>2. UNCHANGED Sending /\ StoredInv'
      BY <1>2, <2>1, <3>1 DEF Sending, StoredInv, InState
    <3> QED
      BY <2>1, <3>2, SameBatches
  <2> QED
    BY <2>2, <2>3
<1> QED
  BY <1>3, <1>4, <1>5, <1>6

LEMMA UnsentStep == TypeOK /\ TypeOK' /\ UnsentInv /\ [Next]_vars => UnsentInv' /\ Accounted
<1> SUFFICES ASSUME TypeOK, TypeOK', UnsentInv, [Next]_vars PROVE UnsentInv' /\ Accounted
  OBVIOUS
<1>1. Batched /\ StoredInv /\ "EXECUTOR" # "late"
  BY Batches DEF UnsentInv
<1>2. CASE Open \/ Close \/ Stop \/ ReturnStopped \/ RefusedLate \/ UNCHANGED vars
  <2>1. UNCHANGED <<queue, stages>>
    BY <1>2 DEF Open, Close, Stop, ReturnStopped, RefusedLate, vars, queueVars, backendVars
  <2>2. UNCHANGED brokerVars \/ Open \/ Close
    BY <1>2 DEF Stop, ReturnStopped, RefusedLate, vars
  <2>3. UNCHANGED call \/ call' = [call EXCEPT !["late"] = None]
    BY <1>2 DEF Open, Close, Stop, ReturnStopped, RefusedLate, vars
  <2>4. call'["EXECUTOR"] = call["EXECUTOR"]
    BY <1>1, <2>3 DEF TypeOK, Slot, Node
  <2>5. UNCHANGED Sending /\ StoredInv'
    BY <1>1, <2>1, <2>4 DEF Sending, StoredInv, InState
  <2> QED
    BY <2>1, <2>2, <2>5, SameBatches
<1>3. CASE Crash
  <2>1. /\ UNCHANGED <<queue, stages>> /\ life' = "exited"
        /\ call'["EXECUTOR"] = None
    <3>1. "EXECUTOR" \in Slot /\ call \in [Slot -> Request \cup {None}]
      BY DEF Slot, Node, TypeOK
    <3> QED
      BY <1>1, <1>3, <3>1 DEF Crash, Abandon, backendVars
  <2>2. StoredInv' /\ Unsent' = Range(queue) /\ NoneTwice'
    BY <2>1, NoBatch DEF UnsentInv, NoneTwice, Distinct
  <2> QED
    BY <1>1, <1>3, <2>1, <2>2, UnsentKept DEF Batched, Accounted
<1>4. CASE Restart
  <2>1. queue' = <<>> /\ UNCHANGED <<call, stages, brokerVars>> /\ life = "exited"
    BY <1>4 DEF Restart, backendVars
  <2>2. UNCHANGED Sending /\ StoredInv'
    BY <1>1, <2>1 DEF Sending, StoredInv, InState
  <2>3. NoneTwice' /\ Unsent' \subseteq Unsent
    BY <1>1, <2>1, <2>2, EmptyBatch DEF UnsentInv, NoneTwice, Distinct, Batched, Unsent, Sending
  <2> QED
    BY <2>1, <2>2, <2>3, UnsentKept DEF Accounted
<1> QED
  BY <1>2, <1>3, <1>4, NewEvents, WorkerSteps, BackendSteps DEF Next

\* No failed, refused or abandoned request loses an event: it leaves the
\* process only for the store of the backend, unless more are pending than the
\* buffer holds or the process ends.
THEOREM EventsAreNotLost == Spec => EventsSurvive
<1>1. Init => UnsentInv
  <2> SUFFICES ASSUME Init PROVE UnsentInv
    OBVIOUS
  <2>1. queue = <<>> /\ call = [s \in Slot |-> None] /\ position = 0 /\ "EXECUTOR" \in Slot
    BY Zenon DEF Init, Slot, Node
  <2>2. Sending = <<>> /\ Unsent = {} /\ StoredInv
    BY <2>1, EmptyBatch DEF Sending, Unsent, StoredInv, InState
  <2> QED
    BY <2>1, <2>2, EmptyBatch DEF UnsentInv, NoneTwice, Distinct
<1>2. TypeOK /\ TypeOK' /\ UnsentInv /\ [Next]_vars => UnsentInv' /\ [Accounted]_vars
  BY UnsentStep
<1>3. [Accounted]_vars => [\A e \in Unsent \ Unsent' :
       \/ e \in stages'
       \/ Cardinality(Unsent \cup Unsent') > QueueSize
       \/ life = "exited" \/ life' = "exited"]_vars
  BY DEF Accounted
<1> QED
  BY <1>1, <1>2, <1>3, PublishingType, PTL DEF Spec, EventsSurvive
-------------------------------------------------------------------------------
(* The repair of the records: batches of events may be repeated, split and   *)
(* exchanged.                                                                *)

\* oppw_authority_event, applied to one batch and then to another, does what
\* it does for both at once.
LEMMA RepairedTwice == \A record, E, F : Repaired(Repaired(record, E), F) = Repaired(record, E \cup F)
<1> TAKE record, E, F
<1> DEFINE Mended(q, p, G) ==
             IF q \notin Closed THEN q
             ELSE IF [ticket |-> p, stage |-> "EXIT_FILLED"] \in G THEN "exact"
             ELSE IF q = "provisional" /\ [ticket |-> p, stage |-> "CLOSED"] \in G THEN "labelled"
             ELSE q
<1>1. \A r, G : Repaired(r, G) = [p \in Ticket |-> Mended(r[p], p, G)]
  BY DEF Repaired
<1>2. \A q, p : Mended(Mended(q, p, E), p, F) = Mended(q, p, E \cup F)
  BY DEF Closed
<1> HIDE DEF Mended
<1> DEFINE first == [p \in Ticket |-> Mended(record[p], p, E)]
<1>3. Repaired(record, E) = first
  BY <1>1
<1>4. \A p \in Ticket : first[p] = Mended(record[p], p, E)
  OBVIOUS
<1> HIDE DEF first
<1>5. Repaired(first, F) = [p \in Ticket |-> Mended(first[p], p, F)]
  BY <1>1
<1>6. \A p \in Ticket : Mended(first[p], p, F) = Mended(record[p], p, E \cup F)
  BY <1>2, <1>4
<1>7. Repaired(first, F) = [p \in Ticket |-> Mended(record[p], p, E \cup F)]
  BY <1>5, <1>6
<1> QED
  BY <1>1, <1>3, <1>7

\* The order in which batches of events reach events-ingest.php does not matter,
\* nor does a batch that is sent again because its answer was lost.
THEOREM BatchesCommute ==
  \A record, E, F : /\ Repaired(Repaired(record, E), F) = Repaired(Repaired(record, F), E)
                    /\ Repaired(Repaired(record, E), E) = Repaired(record, E)
<1> TAKE record, E, F
<1>1. E \cup F = F \cup E /\ E \cup E = E
  OBVIOUS
<1>2. Repaired(Repaired(record, E), F) = Repaired(record, E \cup F)
  BY RepairedTwice
<1>3. Repaired(Repaired(record, F), E) = Repaired(record, F \cup E)
  BY RepairedTwice
<1>4. Repaired(Repaired(record, E), E) = Repaired(record, E \cup E)
  BY RepairedTwice
<1> QED
  BY <1>1, <1>2, <1>3, <1>4

-------------------------------------------------------------------------------
(* What is recorded as exact has happened, and stays.                        *)

\* A record is exact only from a stored fill; an open transaction has found one
\* only in the store or in its own events.
KnownInv ==
  /\ \A p \in Ticket : trades[p] = "exact" => Fill(p) \in stages
  /\ \A s \in Slot : OpenRequest(s) =>
       /\ call[s].found \in Closed \cup {"none"}
       /\ call[s].found = "exact" => Fill(current) \in Range(call[s].events) \cup stages

\* A closed trade is not opened again, by a stale snapshot or anything else.
ClosedStays == \A p \in Ticket : trades[p] \in Closed => trades'[p] \in Closed

LEMMA KnownKept ==
  ASSUME TypeOK, OpenInv, KnownInv, UNCHANGED <<current, trades>>, stages \subseteq stages',
         \/ UNCHANGED call
         \/ \E s \in Slot : call' = [call EXCEPT ![s] = None]
         \/ \E s \in Slot, r \in Request \cup {None} : r.state # "open" /\ call' = [call EXCEPT ![s] = r]
         \/ \E n \in Node : Abandon(n)
  PROVE  KnownInv'
<1>1. \A s \in Slot : OpenRequest(s)' => \E t \in Slot : OpenRequest(t) /\ call'[s] = call[t]
  BY NoneOpened
<1> QED
  BY <1>1 DEF KnownInv

\* A request the backend has stored is not open any more.
LEMMA StoredRequest ==
  ASSUME TypeOK, NEW s \in Slot, call[s] # None, Stored(s)
  PROVE  \/ \E r \in Request \cup {None} : r.state # "open" /\ call' = [call EXCEPT ![s] = r]
         \/ call' = [call EXCEPT ![s] = None]
<1>1. call[s] \in Request /\ call \in [Slot -> Request \cup {None}]
  BY RequestOf DEF TypeOK
<1>2. [call[s] EXCEPT !.state = "stored"] \in Request /\ [call[s] EXCEPT !.state = "stored"].state = "stored"
  BY <1>1 DEF Request
<1>3. \/ call' = [call EXCEPT ![s] = None]
      \/ call' = [call EXCEPT ![s] = [call[s] EXCEPT !.state = "stored"]]
  BY <1>1 DEF Stored
<1> QED
  BY <1>2, <1>3

LEMMA KnownBackend ==
  ASSUME TypeOK, OpenInv, KnownInv, NEW s \in Slot,
         BeginIngest(s) \/ CommitIngest(s) \/ StoreEvents(s) \/ RollBack(s)
  PROVE  KnownInv' /\ ClosedStays
<1>1. call[s] # None /\ call[s] \in Request /\ trades \in [Ticket -> Record]
  BY RequestOf DEF BeginIngest, CommitIngest, StoreEvents, RollBack, InState, TypeOK
<1>2. CASE BeginIngest(s)
  <2>1. UNCHANGED <<current, trades, stages>>
    BY <1>2 DEF BeginIngest, backendVars
  <2>2. \A c : /\ CloseFound(c) \subseteq Closed
               /\ "exact" \in CloseFound(c) => Fill(current) \in Range(c.events) \cup stages
    BY DEF CloseFound, Fill, Closed
  <2>3. \A t \in Slot : OpenRequest(t)' =>
          /\ call'[t].events = call[t].events
          /\ call'[t].found \in CloseFound(call[t]) \cup {"none"}
    BY <1>2, BeginOpens
  <2>4. KnownInv'
    BY <2>1, <2>2, <2>3 DEF KnownInv
  <2> QED
    BY <2>1, <2>4 DEF ClosedStays
<1>3. CASE CommitIngest(s)
  <2> DEFINE recorded == [p \in Ticket |->
               IF p = call[s].snap /\ trades[p] = "none" THEN "open"
               ELSE IF p = current /\ call[s].found # "none" THEN call[s].found
               ELSE trades[p]]
  <2>1. OpenRequest(s) /\ Stored(s)
    BY <1>3 DEF CommitIngest, OpenRequest
  <2>2. \A t \in Slot : ~OpenRequest(t)'
    BY <1>1, <2>1, NoneOpen DEF OpenInv
  <2>3. trades' = Repaired(recorded, Range(call[s].events)) /\ stages' = stages \cup Range(call[s].events)
    BY <1>3 DEF CommitIngest
  <2>4. \A p \in Ticket : /\ recorded[p] = "exact" => Fill(p) \in stages'
                          /\ trades[p] \in Closed => recorded[p] \in Closed
    BY <2>1, <2>3 DEF KnownInv, Closed
  <2>5. \A p \in Ticket : /\ trades'[p] = "exact" => recorded[p] = "exact" \/ Fill(p) \in stages'
                          /\ recorded[p] \in Closed => trades'[p] \in Closed
    BY <2>3 DEF Repaired, Fill, Closed
  <2> QED
    BY <2>2, <2>4, <2>5 DEF KnownInv, ClosedStays
<1>4. CASE StoreEvents(s)
  <2>1. /\ trades' = Repaired(trades, Range(call[s].events)) /\ stages' = stages \cup Range(call[s].events)
        /\ UNCHANGED current /\ Stored(s)
    BY <1>4 DEF StoreEvents
  <2>2. \A p \in Ticket : /\ trades'[p] = "exact" => trades[p] = "exact" \/ Fill(p) \in stages'
                          /\ trades[p] \in Closed => trades'[p] \in Closed
    BY <2>1 DEF Repaired, Fill, Closed
  <2>3. \A t \in Slot : OpenRequest(t)' => \E u \in Slot : OpenRequest(u) /\ call'[t] = call[u]
    BY <1>1, <2>1, StoredRequest, NoneOpened
  <2> QED
    BY <2>1, <2>2, <2>3 DEF KnownInv, ClosedStays
<1>5. CASE RollBack(s)
  <2>1. UNCHANGED backendVars /\ call' = [call EXCEPT ![s] = None]
    BY <1>5 DEF RollBack, Failed
  <2> QED
    BY <2>1, KnownKept DEF backendVars, ClosedStays
<1> QED
  BY <1>2, <1>3, <1>4, <1>5

LEMMA KnownStep == TypeOK /\ OpenInv /\ KnownInv /\ [Next]_vars => KnownInv' /\ ClosedStays
<1> SUFFICES ASSUME TypeOK, OpenInv, KnownInv, [Next]_vars PROVE KnownInv' /\ ClosedStays
  OBVIOUS
<1> QED
  BY OtherSteps, KnownKept, KnownBackend DEF Next, backendVars, ClosedStays

LEMMA KnownInit == Init => KnownInv
<1> SUFFICES ASSUME Init PROVE KnownInv
  OBVIOUS
<1>1. call = [s \in Slot |-> None] /\ trades = [p \in Ticket |-> "none"]
  BY Zenon DEF Init
<1> QED
  BY <1>1 DEF KnownInv, OpenRequest, InState

LEMMA KnownAlways == Spec => []KnownInv
<1> QED
  BY KnownInit, KnownStep, TypeAndOpen, PTL DEF Spec

\* Once ingest.php or events-ingest.php has recorded a trade as closed, it stays
\* closed: neither a stale snapshot that shows the position again nor an event
\* that arrives late or twice reopens it.  Holds with overlapping transactions.
THEOREM ClosedTradesStayClosed ==
  Spec => [][\A p \in Ticket : trades[p] \in Closed => trades'[p] \in Closed]_vars
<1>1. TypeOK /\ OpenInv /\ KnownInv /\ [Next]_vars
        => [\A p \in Ticket : trades[p] \in Closed => trades'[p] \in Closed]_vars
  BY KnownStep DEF ClosedStays
<1> QED
  BY <1>1, KnownAlways, TypeAndOpen, PTL DEF Spec

\* As long as transactions do not overlap, a trade that shows the exact broker
\* fill shows it for ever: no later snapshot, label or repetition replaces it.
THEOREM ExactExitsAreFinal ==
  ASSUME ~Overlap
  PROVE  Spec => [][\A p \in Ticket : trades[p] = "exact" => trades'[p] = "exact"]_vars
<1>1. TypeOK /\ OpenInv /\ KnownInv /\ CloseConverges' /\ [Next]_vars
        => [\A p \in Ticket : trades[p] = "exact" => trades'[p] = "exact"]_vars
  <2> SUFFICES ASSUME TypeOK, OpenInv, KnownInv, CloseConverges', [Next]_vars,
                      NEW p \in Ticket, trades[p] = "exact"
               PROVE  trades'[p] = "exact"
    OBVIOUS
  <2>1. trades'[p] \in Closed
    BY KnownStep DEF ClosedStays, Closed
  <2>2. stages \subseteq stages'
    BY OtherSteps DEF Next, BeginIngest, CommitIngest, StoreEvents, RollBack, Failed, backendVars
  <2>3. Fill(p) \in stages'
    BY <2>2 DEF KnownInv
  <2> QED
    BY <2>1, <2>3 DEF CloseConverges, Fill
<1> QED
  BY <1>1, KnownAlways, TypeAndOpen, ProjectionConverges, PTL DEF Spec

-------------------------------------------------------------------------------
(* Every event on its way or in the store has happened.                      *)

ReportedInv ==
  /\ \A e \in stages : Reported(e)
  /\ \A s \in Slot : call[s] # None => \A e \in Range(call[s].events) : Reported(e)

\* A request carries the events of an earlier one, those of the queue, or none.
LEMMA EventSources ==
  ASSUME TypeOK, [Next]_vars, NEW s \in Slot, call'[s] # None
  PROVE  \/ \E t \in Slot : call[t] # None /\ call'[s].events = call[t].events
         \/ call'[s].events = queue
         \/ call'[s].events = <<>>
<1> DEFINE Goal == \/ \E t \in Slot : call[t] # None /\ call'[s].events = call[t].events
                   \/ call'[s].events = queue
                   \/ call'[s].events = <<>>
<1>1. call \in [Slot -> Request \cup {None}] /\ Node \subseteq Slot /\ "late" \in Slot /\ "EXECUTOR" \in Slot
  BY DEF TypeOK, Slot, Node
<1>2. UNCHANGED call \/ (\E t \in Slot : call' = [call EXCEPT ![t] = None]) => Goal
  BY <1>1
<1>3. ASSUME NEW n \in Node, Abandon(n) PROVE Goal
  BY <1>1, <1>3 DEF Abandon, InState
<1>4. ASSUME NEW n \in Node, NEW snap, Take(n, snap) PROVE Goal
  <2>1. call'[n].events \in {queue, <<>>} /\ \A t \in Slot \ {n} : call'[t] = call[t]
    BY <1>1, <1>4 DEF Take
  <2> QED
    BY <2>1
<1>5. ASSUME NEW t \in Slot, CommitIngest(t) \/ StoreEvents(t) PROVE Goal
  <2>1. call[t] # None /\ Stored(t) /\ call[t] \in Request
    BY <1>5, RequestOf DEF CommitIngest, StoreEvents, InState
  <2>2. \/ call' = [call EXCEPT ![t] = None]
        \/ call' = [call EXCEPT ![t] = [call[t] EXCEPT !.state = "stored"]]
    BY <1>1, <2>1 DEF Stored
  <2>3. [call[t] EXCEPT !.state = "stored"].events = call[t].events
    BY <2>1 DEF Request
  <2>4. s # t => call'[s] = call[s]
    BY <1>1, <2>2
  <2>5. s = t => call'[s].events = call[t].events
    BY <1>1, <2>2, <2>3
  <2> QED
    BY <2>1, <2>4, <2>5
<1>6. ASSUME NEW t \in Slot, BeginIngest(t) PROVE Goal
  <2>1. call[t] # None /\ call[t] \in Request
    BY <1>6, RequestOf DEF BeginIngest, InState
  <2>2. PICK found \in IF current # 0 /\ call[t].snap = 0 THEN CloseFound(call[t]) ELSE {"none"} :
          call' = [call EXCEPT ![t].state = "open", ![t].found = found]
    BY <1>6 DEF BeginIngest
  <2>3. call' = [call EXCEPT ![t] = [call[t] EXCEPT !.state = "open", !.found = found]]
    BY <1>1, <2>2
  <2>4. [call[t] EXCEPT !.state = "open", !.found = found].events = call[t].events
    BY <2>1 DEF Request
  <2>5. s # t => call'[s] = call[s]
    BY <1>1, <2>3
  <2>6. s = t => call'[s].events = call[t].events
    BY <1>1, <2>3, <2>4
  <2> QED
    BY <2>1, <2>5, <2>6
<1>7. ASSUME NEW n \in Node, Refused(n) \/ GiveUp(n) \/ Succeeded(n) PROVE Goal
  BY <1>1, <1>2, <1>3, <1>7 DEF Refused, GiveUp, Succeeded
<1>8. CASE \/ Open \/ Close \/ Sell \/ Finalize \/ Stop \/ ReturnStopped \/ Restart \/ UNCHANGED vars
           \/ RefusedLate \/ Crash \/ \E t \in Slot : RollBack(t)
  <2>1. "EXECUTOR" \in Node
    BY DEF Node
  <2> QED
    BY <1>1, <1>2, <1>3, <1>8, <2>1 DEF Open, Close, Sell, Finalize, Stop, ReturnStopped, Restart, vars,
                                        RefusedLate, Crash, RollBack
<1> QED
  BY <1>4, <1>5, <1>6, <1>7, <1>8 DEF Next

\* What the store gains comes from a request.
LEMMA StageSources ==
  ASSUME TypeOK, [Next]_vars
  PROVE  \/ UNCHANGED stages
         \/ \E s \in Slot : call[s] # None /\ stages' = stages \cup Range(call[s].events)
<1>1. ASSUME NEW s \in Slot, CommitIngest(s) \/ StoreEvents(s)
      PROVE  call[s] # None /\ stages' = stages \cup Range(call[s].events)
  BY <1>1 DEF CommitIngest, StoreEvents, InState
<1>2. ASSUME NEW s \in Slot, BeginIngest(s) \/ RollBack(s) PROVE UNCHANGED stages
  BY <1>2 DEF BeginIngest, RollBack, Failed, backendVars
<1> QED
  BY <1>1, <1>2, OtherSteps DEF Next, backendVars

\* What has happened has happened.
LEMMA ReportedStays ==
  ASSUME TypeOK, TypeOK', UnsentInv, [Next]_vars, NEW e \in Event, Reported(e)
  PROVE  Reported(e)'
<1>1. /\ opened \in Nat /\ opened' \in Nat /\ filled \in 0..opened /\ finalized \in 0..opened
      /\ e.ticket \in Nat
      /\ position \in {0, opened}
  BY PublishingAssumption DEF PublishingAssumption, TypeOK, Event, Ticket
<1>2. CASE Open
  BY <1>1, <1>2 DEF Open, Reported
<1>3. CASE UNCHANGED brokerVars \/ Close
  BY <1>3 DEF Close, Reported, brokerVars
<1>4. CASE Sell
  BY <1>1, <1>4 DEF Sell, Reported
<1>5. CASE Finalize
  BY <1>1, <1>5 DEF Finalize, Reported
<1>6. CASE Crash
  BY <1>1, <1>6 DEF Crash, Reported
<1>7. CASE ~(Open \/ Close \/ Sell \/ Finalize \/ Crash)
  <2>1. UNCHANGED brokerVars
    BY <1>7 DEF Next, Stop, ReturnStopped, Restart, Refused, GiveUp, Succeeded, Take, RefusedLate,
                BeginIngest, CommitIngest, StoreEvents, RollBack, Failed, vars
  <2> QED
    BY <1>3, <2>1
<1> QED
  BY <1>2, <1>3, <1>4, <1>5, <1>6, <1>7

LEMMA ReportedStep ==
  ASSUME TypeOK, TypeOK', UnsentInv, ReportedInv, [Next]_vars
  PROVE  ReportedInv'
<1>1. \A s \in Slot : call[s] # None => Range(call[s].events) \subseteq Event
  BY RequestOf
<1>2. stages \subseteq Event
  BY DEF TypeOK
<1>3. \A e \in Range(queue) : e \in Event /\ Reported(e)
  BY RangeOf DEF UnsentInv, Unsent, TypeOK, Events
<1>4. ASSUME NEW e \in stages' PROVE Reported(e)'
  BY <1>1, <1>2, <1>4, StageSources, ReportedStays DEF ReportedInv
<1>5. ASSUME NEW s \in Slot, call'[s] # None, NEW e \in Range(call'[s].events) PROVE Reported(e)'
  <2>1. e \in Event /\ Reported(e)
    BY <1>1, <1>3, <1>5, EventSources, EmptyBatch DEF ReportedInv
  <2> QED
    BY <2>1, ReportedStays
<1> QED
  BY <1>4, <1>5 DEF ReportedInv

LEMMA UnsentInit == Init => UnsentInv /\ ReportedInv
<1> SUFFICES ASSUME Init PROVE UnsentInv /\ ReportedInv
  OBVIOUS
<1>1. queue = <<>> /\ call = [s \in Slot |-> None] /\ position = 0 /\ "EXECUTOR" \in Slot /\ stages = {}
  BY Zenon DEF Init, Slot, Node
<1>2. Sending = <<>> /\ Unsent = {} /\ StoredInv
  BY <1>1, EmptyBatch DEF Sending, Unsent, StoredInv, InState
<1>3. UnsentInv
  BY <1>1, <1>2, EmptyBatch DEF UnsentInv, NoneTwice, Distinct
<1>4. ReportedInv
  BY <1>1 DEF ReportedInv
<1> QED
  BY <1>3, <1>4

\* What the projection shows as an exact exit has happened: the fill was reported
\* by the executor and is stored, and the position is closed at the broker, however
\* stale the snapshots and however late the requests are that brought it about.
\* Holds with overlapping transactions, too.
THEOREM ExactExitsAreReal ==
  Spec => [](\A p \in Ticket : trades[p] = "exact" => Fill(p) \in stages /\ p <= opened /\ p # position)
<1>1. TypeOK /\ TypeOK' /\ UnsentInv /\ ReportedInv /\ [Next]_vars => (UnsentInv /\ ReportedInv)'
  BY UnsentStep, ReportedStep
<1>2. TypeOK /\ UnsentInv /\ ReportedInv /\ KnownInv =>
        \A p \in Ticket : trades[p] = "exact" => Fill(p) \in stages /\ p <= opened /\ p # position
  <2> SUFFICES ASSUME TypeOK, UnsentInv, ReportedInv, KnownInv, NEW p \in Ticket, trades[p] = "exact"
               PROVE  Fill(p) \in stages /\ p <= opened /\ p # position
    OBVIOUS
  <2>1. Fill(p) \in stages /\ Reported(Fill(p))
    BY DEF KnownInv, ReportedInv
  <2>2. p <= opened /\ (p = opened => filled = opened)
    BY <2>1 DEF Reported, Fill
  <2>3. p \in Nat \ {0} /\ opened \in Nat /\ position \in {0, opened} /\ (position # 0 => filled < opened)
    BY PublishingAssumption DEF PublishingAssumption, TypeOK, Ticket, UnsentInv
  <2> QED
    BY <2>1, <2>2, <2>3
<1> QED
  BY <1>1, <1>2, UnsentInit, KnownAlways, PublishingType, PTL DEF Spec


\* The CLOSED event of a position, which carries the reason of the exit.
Reason(p) == [ticket |-> p, stage |-> "CLOSED"]

\* A trade whose closing reason is stored does not show a provisional exit, and
\* an open transaction that could find the reason is not going to record one.
ReasonInv ==
  /\ \A p \in Ticket : Reason(p) \in stages => trades[p] # "provisional"
  /\ \A s \in Slot : OpenRequest(s) /\ Reason(current) \in Range(call[s].events) \cup stages
       => call[s].found # "provisional"

LEMMA RepairLabels ==
  ASSUME NEW record, NEW events, NEW p \in Ticket, Repaired(record, events)[p] = "provisional"
  PROVE  record[p] = "provisional" /\ Reason(p) \notin events
BY DEF Repaired, Closed, Reason

LEMMA ReasonKept ==
  ASSUME TypeOK, OpenInv, ReasonInv, UNCHANGED backendVars,
         \/ UNCHANGED call
         \/ \E s \in Slot : call' = [call EXCEPT ![s] = None]
         \/ \E s \in Slot, r \in Request \cup {None} : r.state # "open" /\ call' = [call EXCEPT ![s] = r]
         \/ \E n \in Node : Abandon(n)
  PROVE  ReasonInv'
<1>1. \A s \in Slot : OpenRequest(s)' => \E t \in Slot : OpenRequest(t) /\ call'[s] = call[t]
  BY NoneOpened
<1> QED
  BY <1>1 DEF ReasonInv, Reason, backendVars

LEMMA ReasonBackend ==
  ASSUME TypeOK, OpenInv, ReasonInv, ~Overlap, NEW s \in Slot,
         BeginIngest(s) \/ CommitIngest(s) \/ StoreEvents(s) \/ RollBack(s)
  PROVE  ReasonInv'
<1>1. call[s] # None /\ call[s] \in Request /\ call[s].events \in Events
  BY RequestOf DEF BeginIngest, CommitIngest, StoreEvents, RollBack, InState
<1>2. CASE BeginIngest(s)
  <2>1. \A t \in Slot : OpenRequest(t)' =>
          /\ call'[t].events = call[t].events
          /\ call'[t].found \in IF current # 0 /\ call'[t].snap = 0 THEN CloseFound(call[t]) ELSE {"none"}
    BY <1>2, BeginOpens
  <2>2. UNCHANGED <<current, trades, stages>>
    BY <1>2 DEF BeginIngest, backendVars
  <2>3. \A c : Reason(current) \in Range(c.events) \cup stages => "provisional" \notin CloseFound(c)
    BY DEF CloseFound, Reason
  <2>4. ASSUME NEW t \in Slot, OpenRequest(t)', Reason(current) \in Range(call'[t].events) \cup stages
        PROVE  call'[t].found # "provisional"
    <3>1. call'[t].found \in CloseFound(call[t]) \/ call'[t].found = "none"
      BY <2>1, <2>4
    <3> QED
      BY <2>1, <2>3, <2>4, <3>1
  <2> QED
    BY <2>2, <2>4 DEF ReasonInv, Reason
<1>3. CASE CommitIngest(s)
  <2> DEFINE recorded == [p \in Ticket |->
               IF p = call[s].snap /\ trades[p] = "none" THEN "open"
               ELSE IF p = current /\ call[s].found # "none" THEN call[s].found
               ELSE trades[p]]
  <2>1. OpenRequest(s) /\ Stored(s)
    BY <1>3 DEF CommitIngest, OpenRequest
  <2>2. \A t \in Slot : ~OpenRequest(t)'
    BY <1>1, <2>1, NoneOpen DEF OpenInv
  <2>3. trades' = Repaired(recorded, Range(call[s].events)) /\ stages' = stages \cup Range(call[s].events)
    BY <1>3 DEF CommitIngest
  <2>4. \A p \in Ticket : Reason(p) \in stages => recorded[p] # "provisional"
    BY <2>1 DEF ReasonInv
  <2> HIDE DEF recorded
  <2>5. \A p \in Ticket : Reason(p) \in stages' => trades'[p] # "provisional"
    BY <2>3, <2>4, RepairLabels
  <2> QED
    BY <2>2, <2>5 DEF ReasonInv, Reason
<1>4. CASE StoreEvents(s)
  <2>1. \A t \in Slot : ~OpenRequest(t)
    BY <1>4 DEF StoreEvents, InTransaction, OpenRequest
  <2>2. \A t \in Slot : ~OpenRequest(t)'
    BY <1>1, <1>4, <2>1, NoneOpen DEF StoreEvents
  <2>3. trades' = Repaired(trades, Range(call[s].events)) /\ stages' = stages \cup Range(call[s].events)
    BY <1>4 DEF StoreEvents
  <2>4. \A p \in Ticket : Reason(p) \in stages' => trades'[p] # "provisional"
    BY <2>3, RepairLabels DEF ReasonInv
  <2> QED
    BY <2>2, <2>4 DEF ReasonInv, Reason
<1>5. CASE RollBack(s)
  BY <1>5, ReasonKept DEF RollBack, Failed
<1> QED
  BY <1>2, <1>3, <1>4, <1>5

\* As long as transactions do not overlap, what a closed trade shows depends on
\* the events that are stored and not on the order in which anything arrived: the
\* exact fill if and only if the fill is stored, and with the closing reason
\* stored not the provisional exit of a snapshot.
THEOREM ProjectionFollowsEvents ==
  ASSUME ~Overlap
  PROVE  Spec => [](\A p \in Ticket : trades[p] \in Closed =>
                      /\ trades[p] = "exact" <=> Fill(p) \in stages
                      /\ Reason(p) \in stages => trades[p] # "provisional")
<1>1. TypeOK /\ OpenInv /\ ReasonInv /\ [Next]_vars => ReasonInv'
  <2> SUFFICES ASSUME TypeOK, OpenInv, ReasonInv, [Next]_vars PROVE ReasonInv'
    OBVIOUS
  <2> QED
    BY OtherSteps, ReasonKept, ReasonBackend DEF Next
<1>2. Init => ReasonInv
  <2> SUFFICES ASSUME Init PROVE ReasonInv
    OBVIOUS
  <2>1. stages = {} /\ call = [s \in Slot |-> None]
    BY Zenon DEF Init
  <2>2. \A s \in Slot : ~OpenRequest(s)
    BY <2>1 DEF OpenRequest, InState
  <2> QED
    BY <2>1, <2>2 DEF ReasonInv
<1>3. ReasonInv /\ KnownInv /\ CloseConverges =>
        \A p \in Ticket : trades[p] \in Closed =>
          /\ trades[p] = "exact" <=> Fill(p) \in stages
          /\ Reason(p) \in stages => trades[p] # "provisional"
  BY DEF ReasonInv, KnownInv, CloseConverges, Fill
<1> QED
  BY <1>1, <1>2, <1>3, TypeAndOpen, KnownAlways, ProjectionConverges, PTL DEF Spec
===============================================================================
