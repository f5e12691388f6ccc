------------------------------ MODULE Publishing ------------------------------
(***************************************************************************)
(* The publisher queues of the EXECUTOR and the PUBLISHER process          *)
(* (MobileMonitorPublisher) and what the backend makes of their requests:  *)
(* the actor check, the transaction of ingest.php, the one of              *)
(* events-ingest.php, and the projection strategy_trades both write.       *)
(*                                                                         *)
(* A snapshot is the position it shows (0: flat).  Which of the buffered    *)
(* snapshots a worker sends (the guaranteed ones first, then the latest, a *)
(* failed one put back over a newer one, ordinary ones dropped at the      *)
(* weekend) is left open: a request may show any position the account has  *)
(* had.  The events are the two stages the executor reports of a closed    *)
(* position, its exact broker fill and its closing reason; their queue is  *)
(* modelled as it is.                                                      *)
(***************************************************************************)
EXTENDS Integers, Sequences, FiniteSets, Functions

CONSTANTS MaxTrades,     \* bound: positions opened
          QueueSize,     \* monitor_event_buffer_size
          MaxFaults,     \* bound: abandoned calls, database failures, stops
          Overlap,       \* two transactions of the backend may overlap
          None

ASSUME PublishingAssumption ==
  /\ MaxTrades \in Nat
  /\ QueueSize \in Nat \ {0}
  /\ MaxFaults \in Nat
  /\ Overlap \in BOOLEAN
  /\ None \notin 0..MaxTrades

VARIABLES
  opened,     \* positions opened so far
  position,   \* the open one, 0 when flat
  finalized,  \* positions whose close the executor has reported
  filled,     \* the last one whose exact fill it has taken for reported
  queue,      \* events of the executor's publisher
  life,       \* running, stopping (stop() has been called) or exited
  call,       \* the request of each worker, and one its caller has given up
  current,    \* strategy_snapshots: the position shown by the stored row
  trades,     \* strategy_trades: how each position is recorded
  stages,     \* strategy_execution_stages: the events stored
  faults      \* faults the environment may still inject

queueVars == <<queue, life>>
backendVars == <<current, trades, stages>>
brokerVars == <<opened, position, finalized, filled>>
vars == <<brokerVars, queueVars, call, backendVars, faults>>

Node == {"EXECUTOR", "PUBLISHER"}
Slot == Node \cup {"late"}
Ticket == 1..MaxTrades
Stage == {"EXIT_FILLED", "CLOSED"}
Event == [ticket : Ticket, stage : Stage]

\* How strategy_trades records a position.  A provisional close has a price
\* and a label the stages may still replace; a labelled one keeps its label.
Record == {"none", "open", "provisional", "labelled", "exact"}
Closed == {"provisional", "labelled", "exact"}

\* A request, how far the backend has got with it, and what the open
\* transaction has found out about the close.
Request ==
  [snap : 0..MaxTrades \cup {None},
   events : Seq(Event), found : Record,
   state : {"sent", "open", "stored"}]

ASSUME NoneIsNotARequest == None \notin Request

Init ==
  /\ opened = 0 /\ position = 0 /\ finalized = 0 /\ filled = 0
  /\ queue = <<>>
  /\ life = "running"
  /\ call = [s \in Slot |-> None]
  /\ current = 0
  /\ trades = [p \in Ticket |-> "none"]
  /\ stages = {}
  /\ faults = MaxFaults

Fault == faults > 0 /\ faults' = faults - 1

InState(s, states) == call[s] # None /\ call[s].state \in states

-----------------------------------------------------------------------------
(* The account.  The executor enters again only after it has reported the  *)
(* close of the previous position (EntryWaitsForClose of PositionLifecycle) *)

Open ==
  /\ position = 0 /\ finalized = opened /\ opened < MaxTrades
  /\ opened' = opened + 1
  /\ position' = opened'
  /\ UNCHANGED <<finalized, filled, queueVars, call, backendVars, faults>>

\* The broker closes it at a stop, or the operator does.
Close ==
  /\ position # 0
  /\ position' = 0
  /\ UNCHANGED <<opened, finalized, filled, queueVars, call, backendVars, faults>>

\* Mutant: the buffer has no limit.
MutEnqueue(q, events) == q \o events

\* enqueue_event: the deque keeps its newest elements.
Enqueue(q, events) ==
  LET all == q \o events
  IN  SubSeq(all, 1 + (IF Len(all) > QueueSize THEN Len(all) - QueueSize ELSE 0),
             Len(all))

\* close_position_market with a deal: the fill is remembered and reported.
Sell ==
  /\ position # 0 /\ life = "running"
  /\ position' = 0
  /\ filled' = position
  /\ queue' = Enqueue(queue, << [ticket |-> position, stage |-> "EXIT_FILLED"] >>)
  /\ UNCHANGED <<opened, finalized, life, call, backendVars, faults>>

\* finalize_closed_position: the stages, the fill unless it was reported.
Finalize ==
  LET fill == IF filled = opened THEN <<>>
              ELSE << [ticket |-> opened, stage |-> "EXIT_FILLED"] >>
  IN  /\ position = 0 /\ finalized < opened
      /\ life = "running"
      /\ finalized' = opened
      /\ filled' = opened
      /\ queue' = Enqueue(queue, Append(fill, [ticket |-> opened, stage |-> "CLOSED"]))
      /\ UNCHANGED <<opened, position, life, call, backendVars, faults>>

-----------------------------------------------------------------------------
(* The worker thread of a publisher. *)

\* It takes all events and, when it believes it may, a snapshot.  That belief
\* rests on what it last heard of the leases (allowed_to_publish).
Take(n, snap) ==
  LET events == IF n = "EXECUTOR" THEN queue ELSE <<>>
  IN  /\ call[n] = None
      /\ n = "EXECUTOR" => life # "exited"
      /\ snap # None \/ events # <<>>
      /\ queue' = IF n = "EXECUTOR" THEN <<>> ELSE queue
      /\ call' = [call EXCEPT ![n] =
           [snap |-> snap, events |-> events, found |-> "none",
            state |-> "sent"]]
      /\ UNCHANGED <<brokerVars, life, backendVars, faults>>

\* _requeue_events: to the front; a full deque loses its newest elements.
Requeue(q, events) ==
  LET all == events \o q
  IN  SubSeq(all, 1, IF Len(all) < QueueSize THEN Len(all) ELSE QueueSize)

\* The worker gets an error or no answer: the events go back to the queue.
\* A stopping worker returns.
Failed(n) ==
  /\ \/ /\ n = "EXECUTOR"
        /\ queue' = Requeue(queue, call[n].events)
        /\ life' = IF life = "stopping" THEN "exited" ELSE life
     \/ n # "EXECUTOR" /\ UNCHANGED queueVars
  /\ UNCHANGED <<brokerVars, backendVars>>

\* require_coordination_actor: the role's lease must be valid under the
\* request's token, and a snapshot of the executor gives way to an active
\* publisher.  Leases come and go at any time (RoleLease), so a request may be
\* refused or not; an error answer of the database looks the same.  Either
\* changes nothing in the backend: refusal and receipt are one step.
Refused(n) ==
  /\ InState(n, {"sent"})
  /\ Failed(n)
  /\ call' = [call EXCEPT ![n] = None]
  /\ UNCHANGED faults

RefusedLate ==
  /\ InState("late", {"sent"})
  /\ call' = [call EXCEPT !["late"] = None]
  /\ UNCHANGED <<brokerVars, queueVars, backendVars, faults>>

\* What becomes of a request nobody waits for: it or its answer is lost, or
\* the backend goes on with it.
Abandon(n) ==
  \/ /\ InState(n, {"sent", "stored"})
     /\ call' = [call EXCEPT ![n] = None]
  \/ /\ InState(n, {"sent", "open"})
     /\ call["late"] = None
     /\ call' = [call EXCEPT ![n] = None, !["late"] = call[n]]

\* Mutant: a request without an answer is taken for a delivered one.
MutGiveUp(n) ==
  /\ call[n] # None
  /\ Fault
  /\ Abandon(n)
  /\ UNCHANGED <<brokerVars, queueVars, backendVars>>

\* monitor_timeout_seconds pass or the connection breaks.
GiveUp(n) ==
  /\ call[n] # None
  /\ Fault
  /\ Failed(n)
  /\ Abandon(n)

\* An accepted request.
Succeeded(n) ==
  /\ InState(n, {"stored"})
  /\ call' = [call EXCEPT ![n] = None]
  /\ UNCHANGED <<brokerVars, queueVars, backendVars, faults>>

\* stop(): the worker goes on until it has nothing left to send, a request
\* fails, or the role lease is no longer valid.
Stop ==
  /\ life = "running"
  /\ Fault
  /\ life' = "stopping"
  /\ UNCHANGED <<brokerVars, queue, call, backendVars>>

ReturnStopped ==
  /\ life = "stopping" /\ call["EXECUTOR"] = None
  /\ life' = "exited"
  /\ UNCHANGED <<brokerVars, queue, call, backendVars, faults>>

\* The process ends while the worker thread, a daemon, is still alive; it may
\* have saved that it reports a fill and not yet have reported it.
Crash ==
  /\ life # "exited"
  /\ Fault
  /\ \/ UNCHANGED filled
     \/ position = 0 /\ finalized < opened /\ filled' = opened
  /\ life' = "exited"
  /\ (call["EXECUTOR"] = None /\ UNCHANGED call) \/ Abandon("EXECUTOR")
  /\ UNCHANGED <<opened, position, finalized, queue, backendVars>>

\* The next process of the role starts with an empty queue.
Restart ==
  /\ life = "exited"
  /\ life' = "running"
  /\ queue' = <<>>
  /\ UNCHANGED <<brokerVars, call, backendVars, faults>>

-----------------------------------------------------------------------------
(* The backend. *)

\* A request has been stored; nobody waits for the answer to the late one.
Stored(s) ==
  call' = [call EXCEPT ![s] =
    IF s = "late" THEN None ELSE [@ EXCEPT !.state = "stored"]]

\* oppw_authority_event: a stored exact fill repairs the record of a closed
\* trade, a closing reason replaces only a provisional label.
Repaired(record, events) ==
  [p \in Ticket |->
    IF record[p] \notin Closed THEN record[p]
    ELSE IF [ticket |-> p, stage |-> "EXIT_FILLED"] \in events THEN "exact"
    ELSE IF record[p] = "provisional"
            /\ [ticket |-> p, stage |-> "CLOSED"] \in events THEN "labelled"
    ELSE record[p]]

\* Mutant: only the events of the request are searched for the exact fill.
MutCloseFound(c) ==
  LET inRequest(stage) ==
        [ticket |-> current, stage |-> stage] \in Range(c.events)
  IN  IF inRequest("EXIT_FILLED") THEN {"exact"}
      ELSE IF inRequest("CLOSED") THEN {"labelled"}
      ELSE {"provisional", "labelled"}

\* What ingest.php finds for the position the previous snapshot showed: an
\* exact fill in the request or in the store, the closing reason, or what
\* the last protection change says, if anything.
CloseFound(c) ==
  LET known == Range(c.events) \cup stages
      found(stage) == [ticket |-> current, stage |-> stage] \in known
  IN  IF found("EXIT_FILLED") THEN {"exact"}
      ELSE IF found("CLOSED") THEN {"labelled"}
      ELSE {"provisional", "labelled"}

InTransaction == \E s \in Slot : InState(s, {"open"})

\* ingest.php locks the row of the previous snapshot and reads what is known
\* of a close.
BeginIngest(s) ==
  /\ InState(s, {"sent"}) /\ call[s].snap # None
  /\ ~InTransaction
  /\ \E found \in IF current # 0 /\ call[s].snap = 0 THEN CloseFound(call[s])
                  ELSE {"none"} :
       call' = [call EXCEPT ![s].state = "open", ![s].found = found]
  /\ UNCHANGED <<brokerVars, queueVars, backendVars, faults>>

\* It writes the snapshot, the trade, and last the events of the request.
CommitIngest(s) ==
  LET c == call[s]
      recorded == [p \in Ticket |->
        IF p = c.snap /\ trades[p] = "none" THEN "open"
        ELSE IF p = current /\ c.found # "none" THEN c.found
        ELSE trades[p]]
  IN  /\ InState(s, {"open"})
      /\ current' = c.snap
      /\ trades' = Repaired(recorded, Range(c.events))
      /\ stages' = stages \cup Range(c.events)
      /\ Stored(s)
      /\ UNCHANGED <<brokerVars, queueVars, faults>>

\* events-ingest.php, one transaction.
StoreEvents(s) ==
  /\ InState(s, {"sent"}) /\ call[s].snap = None
  /\ InTransaction => Overlap
  /\ trades' = Repaired(trades, Range(call[s].events))
  /\ stages' = stages \cup Range(call[s].events)
  /\ Stored(s)
  /\ UNCHANGED <<brokerVars, queueVars, current, faults>>

\* The database fails and the transaction of ingest.php is rolled back.
RollBack(s) ==
  /\ InState(s, {"open"})
  /\ Fault
  /\ IF s = "late" THEN UNCHANGED <<brokerVars, queueVars, backendVars>> ELSE Failed(s)
  /\ call' = [call EXCEPT ![s] = None]

-----------------------------------------------------------------------------
Next ==
  \/ Open \/ Close \/ Sell \/ Finalize \/ Stop \/ ReturnStopped \/ Crash \/ Restart
  \/ \E n \in Node : \/ Refused(n) \/ GiveUp(n) \/ Succeeded(n)
                     \/ \E snap \in 0..opened \cup {None} : Take(n, snap)
  \/ RefusedLate
  \/ \E s \in Slot : \/ BeginIngest(s) \/ CommitIngest(s)
                     \/ StoreEvents(s) \/ RollBack(s)

Spec == Init /\ [][Next]_vars

-----------------------------------------------------------------------------
(* Properties *)

\* Every variable stays within the values the code can give it, and the event
\* queue within its size.
TypeOK ==
  /\ opened \in 0..MaxTrades /\ position \in {0, opened}
  /\ finalized \in {opened, opened - 1} \cap Nat /\ filled \in 0..opened
  /\ queue \in Seq(Event) /\ Len(queue) <= QueueSize
  /\ life \in {"running", "stopping", "exited"}
  /\ call \in [Slot -> Request \cup {None}]
  /\ current \in 0..MaxTrades
  /\ trades \in [Ticket -> Record]
  /\ stages \subseteq Event
  /\ faults \in 0..MaxFaults

\* The projection converges on the exact broker exit: once the exact fill of
\* a position is stored and its trade is closed, the trade shows that fill,
\* in whatever order the events, the flat snapshot, replays and stale
\* snapshots arrive (authority.php, "must converge on an exact market-exit
\* fill even when a publisher's flat snapshot reached ingest.php first").
CloseConverges ==
  \A p \in Ticket :
    trades[p] \in Closed /\ [ticket |-> p, stage |-> "EXIT_FILLED"] \in stages
      => trades[p] = "exact"

Unsent == Range(queue) \cup
  (IF call["EXECUTOR"] = None THEN {} ELSE Range(call["EXECUTOR"].events))

\* No failed, refused or abandoned request loses an event: one that has been
\* enqueued stays with the process until the backend has stored it, unless
\* more are pending than the buffer holds or the process ends.
EventsSurvive ==
  [][\A e \in Unsent \ Unsent' :
       \/ e \in stages'
       \/ Cardinality(Unsent \cup Unsent') > QueueSize
       \/ life = "exited" \/ life' = "exited"]_vars
===============================================================================
