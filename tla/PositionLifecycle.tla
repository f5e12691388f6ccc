--------------------------- MODULE PositionLifecycle ---------------------------
(***************************************************************************)
(* One account's position from its adoption to its reported close: the     *)
(* cycle of runtime.py over position_lifecycle.py and the protection and   *)
(* exit handlers of broker_execution.py, with the state file of each node, *)
(* the position at the broker and the position-rule triggers that          *)
(* strategy-controls.php keeps.                                            *)
(*                                                                         *)
(* A step of the executor ends where it talks to the broker: the position  *)
(* it read before (snap) may be gone or changed when its request arrives.  *)
(* Everything a step assigns to the state is saved before the step ends.   *)
(* The world moves, and the process dies, only at the steps that look at   *)
(* the broker (Observing): the others would not notice.  Time moves        *)
(* between cycles, each of which reads the clock once.                     *)
(* Prices are whole numbers with ask = bid; an instant is four times the   *)
(* day (0 is a Monday) plus a slot: 0 before the broker takes the deferred *)
(* order, 1 premarket, 2 cash session, 3 from the weekly close action on.  *)
(***************************************************************************)
EXTENDS Integers, FiniteSets

CONSTANTS Node,       \* machines that may run the executor, each with its state file
          Position,   \* position identifiers, each used once
          Manual,     \* those opened by hand: without the strategy's magic number
          NoPos,      \* no position
          Price,      \* bids
          HardPrice,  \* hard stops that leverage and account balance can yield
          Tsl,        \* the trailing stop: entry * tsl_ratio
          BreakEven,  \* entry * break_even_ratio
          Distance,   \* broker_minimum_distance
          Delayed,    \* whether the account defers TSL1PRE market exits
          Instant,    \* bound: the instants at which something happens
          MaxMoves,   \* bound: price changes
          MaxEvents   \* bound: events, moves to another node, aborted cycles,
                      \* suspensions, partial exits, and what the operator does

ASSUME PositionAssumption ==
  /\ Position \subseteq Nat \ {0}
  /\ Manual \subseteq Position
  /\ NoPos \notin [id : Position, day : Nat, sl : Nat, tp : Nat]
  /\ Price \subseteq Nat
  /\ HardPrice \subseteq Nat \ {0}
  /\ Distance \in Nat
  /\ \A b \in Price : b > Distance + 1
  /\ Tsl \in Nat \ {0} /\ BreakEven \in Nat \ {0}
  /\ Delayed \in BOOLEAN
  /\ Instant \subseteq Nat
  /\ MaxMoves \in Nat /\ MaxEvents \in Nat

VARIABLES
  clock, bid, moves, events,
  pos,      \* the open position at the broker
  used,     \* identifiers the broker has given
  visible,  \* positions of which the history shows a SELL deal
  trigger,  \* position-rule triggers in the backend: rules recorded, the last one
  file,     \* StrategyState of each node
  me,       \* the node that runs, or ran last
  pc,       \* where its cycle is
  snap,     \* the position the cycle works on
  call,     \* the broker request it is about to send
  tracked,  \* positions each node has taken over
  lost      \* those displaced by another position before their close was seen

vars == <<clock, bid, moves, events, pos, used, visible, trigger,
          file, me, pc, snap, call, tracked, lost>>

Day(t) == t \div 4
Slot(t) == t % 4
Weekday(t) == Day(t) % 7

Rule == {"OR5", "TSL1PRE"}
\* OTHER: OH, CH, TO, BH, BEO, BEPRE, PRE H, TSL, PROTECTION_SL_ALREADY_CROSSED
Reason == Rule \cup {"OTHER"}

State == [id : Position \cup {0}, latch : Reason \cup {""},
          pend : Position \cup {0}, notBefore : Nat, or5 : Position \cup {0},
          hardId : Position \cup {0}, hardPx : HardPrice \cup {0},
          conf : BOOLEAN, be : BOOLEAN, lastOpen : Int, lastClose : Int]

NewState == [id |-> 0, latch |-> "", pend |-> 0, notBefore |-> 0, or5 |-> 0,
             hardId |-> 0, hardPx |-> 0, conf |-> FALSE,
             be |-> FALSE, lastOpen |-> -1, lastClose |-> -1]

Broker == [id : Position, day : Nat, sl : Nat, tp : Nat]

Stage == {"start", "protectStart", "adopt", "bar", "mid", "or5", "open", "close",
          "regular", "bh", "protect", "entry"}

Call == [from : Stage, reason : Reason \cup {""}, sl : Nat, tp : Nat]

NoCall == [from |-> "start", reason |-> "", sl |-> 0, tp |-> 0]

Init ==
  /\ clock \in Instant /\ \A t \in Instant : clock <= t
  /\ bid \in {b \in Price : b > Tsl}
  /\ moves = 0 /\ events = 0
  /\ pos = NoPos /\ used = {} /\ visible = {}
  /\ trigger = [p \in Position |-> [rules |-> {}, last |-> "", notBefore |-> 0]]
  /\ file = [n \in Node |-> NewState]
  /\ me \in Node /\ pc = "off" /\ snap = NoPos /\ call = NoCall
  /\ tracked = [n \in Node |-> {}] /\ lost = {}

state == file[me]

\* What positions_get shows: one position or none.
OpenId == IF pos = NoPos THEN 0 ELSE pos.id

Event == events < MaxEvents /\ events' = events + 1

Observing == pc \in {"off", "top", "mid", "adopt", "protectStart", "protect", "entry", "sell", "modify"}

-----------------------------------------------------------------------------
\* The state file

ClearExitState(st) ==
  [st EXCEPT !.latch = "", !.pend = 0, !.notBefore = 0, !.or5 = 0,
             !.hardId = 0, !.hardPx = 0]

HardStopMatches(st, p) == st.hardId = p.id /\ st.hardPx > 0

\* The hard stop is priced again whenever protection is reconciled.
MutLockHardStop(st, p, px) == [st EXCEPT !.hardId = p.id, !.hardPx = px]

LockHardStop(st, p, px) ==
  IF HardStopMatches(st, p) THEN st ELSE [st EXCEPT !.hardId = p.id, !.hardPx = px]

\* An adopted position: its identity replaces the earlier one with everything
\* that belonged to it; be is what the closes since its opening tell.
Adopt(st, p, px, be) ==
  LockHardStop([ClearExitState(st) EXCEPT !.id = p.id, !.be = be, !.conf = FALSE], p, px)

\* The position the state already knows, reconciled after a start: only the
\* leverage of a position opened by hand may be corrected.
Reconcile(st, p, px, be, repair) ==
  LET kept == [st EXCEPT !.be = be]
  IN  IF repair /\ p.id \in Manual /\ HardStopMatches(st, p)
      THEN LockHardStop([kept EXCEPT !.hardId = 0, !.hardPx = 0, !.conf = FALSE], p, px)
      ELSE LockHardStop(kept, p, px)

\* A start treats the position as new although the state knows it.
MutRecover(st, p, px, be, repair) == Adopt(st, p, px, be)

Recover(st, p, px, be, repair) ==
  IF st.id = p.id THEN Reconcile(st, p, px, be, repair) ELSE Adopt(st, p, px, be)

\* A break-even state that the state file does not know is found again only
\* from a session after the opening day.
BreakEvenKnown(st, p) ==
  LET known == st.id = p.id /\ st.be
  IN  {b \in BOOLEAN : (known => b) /\ (b => known \/ Day(clock) > p.day)}

\* What the last trigger of the active position, if there is one, adds.
ApplyTrigger(st, trg) ==
  IF st.id = 0 THEN st
  ELSE LET t == trg[st.id] IN
       IF t.last = "OR5"
       THEN [st EXCEPT !.or5 = st.id, !.latch = IF st.latch = "" THEN "OR5" ELSE st.latch]
       ELSE IF t.last = "TSL1PRE" /\ st.latch \in {"", "TSL1PRE"}
       THEN [st EXCEPT !.pend = st.id, !.notBefore = t.notBefore, !.latch = "TSL1PRE"]
       ELSE st

\* recordPositionRuleTrigger: TSL1PRE has one request id per position, OR5 one
\* per signal bar.
RecordTrigger(p, rule) ==
  IF rule = "TSL1PRE" /\ rule \in trigger[p].rules THEN trigger
  ELSE [trigger EXCEPT ![p].rules = @ \cup {rule}, ![p].last = rule,
                       ![p].notBefore = IF rule = "TSL1PRE" THEN 4 * Day(clock) + 1 ELSE @]

-----------------------------------------------------------------------------
\* The cycle: where it goes on after a step, and with which position

After(from, sent) ==
  CASE from = "start"        -> "protectStart"
    [] from = "adopt"        -> "bar"
    [] from = "bar"          -> "mid"
    [] from = "or5"          -> "open"
    [] from = "open"         -> "close"
    [] from = "close"        -> "regular"
    [] from = "regular"      -> IF sent THEN "protect" ELSE "bh"
    [] from = "bh"           -> "protect"
    [] OTHER                 -> "top"

\* The answer to the second look is not acted on.
MutResume(from, sent, seen) ==
  LET p == IF from = "adopt" \/ (sent /\ from \in {"start", "or5", "open", "close"}) THEN seen ELSE snap
  IN  /\ pc' = After(from, sent)
      /\ snap' = IF After(from, sent) \in {"top", "mid"} THEN NoPos ELSE p

\* An adoption, and an exit that was sent, are followed by another look at the
\* broker, which shows seen; otherwise the cycle goes on with what it has.
Resume(from, sent, seen) ==
  LET p    == IF from = "adopt" \/ (sent /\ from \in {"start", "or5", "open", "close"})
              THEN seen ELSE snap
      next == After(from, sent)
      ends == next = "top" \/ (p = NoPos /\ next # "mid")
  IN  /\ pc' = IF from = "adopt" /\ p = NoPos THEN "mid" ELSE IF ends THEN "top" ELSE next
      /\ snap' = IF ends \/ next = "mid" THEN NoPos ELSE p

Continue(from) == Resume(from, FALSE, pos) /\ call' = NoCall

Save(st) == file' = [file EXCEPT ![me] = st]

Still == UNCHANGED <<clock, bid, moves, pos, used, visible, me, tracked, lost>>

Quiet == Still /\ UNCHANGED events

\* close_position_market up to order_send: it is refused before anything is
\* saved, or the reason is latched and saved, whatever was latched before.
ClosePosition(st, reason, from) ==
  \/ Save(st) /\ Continue(from)
  \/ /\ Save([st EXCEPT !.latch = reason])
     /\ pc' = "sell" /\ call' = [NoCall EXCEPT !.from = from, !.reason = reason]
     /\ UNCHANGED snap

ModifyStops(st, sl, tp, from) ==
  /\ Save(st)
  /\ pc' = "modify"
  /\ call' = [from |-> from, reason |-> "", sl |-> sl, tp |-> tp]
  /\ UNCHANGED snap

Pending(st, p) == st.pend = p.id

PendingDue(st) == clock >= st.notBefore

MaybeExecutePending(st, from) ==
  IF st.latch \notin {"", "TSL1PRE"} THEN Save(st) /\ Continue(from)
  ELSE LET latched == [st EXCEPT !.latch = "TSL1PRE"] IN
       IF PendingDue(st) THEN ClosePosition(latched, "TSL1PRE", from)
       ELSE Save(latched) /\ Continue(from)

\* The authorisation is not tied to the position it was given for.
MutExecuteOr5(st, from) ==
  IF st.or5 = 0 \/ st.latch \notin {"", "OR5"} THEN Save(st) /\ Continue(from)
  ELSE ClosePosition([st EXCEPT !.latch = "OR5"], "OR5", from)

ExecuteOr5(st, from) ==
  IF st.or5 # snap.id \/ st.latch \notin {"", "OR5"} THEN Save(st) /\ Continue(from)
  ELSE ClosePosition([st EXCEPT !.latch = "OR5"], "OR5", from)

-----------------------------------------------------------------------------
\* apply_standard_protection on the state st and the position snap

\* arm_exit's and the latched branch's bracket around the bid.
ExitBracket(st, from) ==
  LET sl == IF snap.sl < bid /\ snap.sl > bid - Distance THEN snap.sl ELSE bid - Distance
      tp == IF snap.tp > bid /\ snap.tp < bid + Distance THEN snap.tp ELSE bid + Distance
  IN  ModifyStops(st, sl, tp, from)

Larger(a, b) == IF a > b THEN a ELSE b

\* A tighter stop at the broker is not kept.
MutInstall(st, target, installed, from) ==
  IF ~installed /\ target >= bid - Distance
  THEN ExitBracket([st EXCEPT !.latch = IF @ = "" THEN "OTHER" ELSE @], from)
  ELSE IF st.be /\ BreakEven <= bid + Distance THEN ClosePosition(st, "OTHER", from)
  ELSE ModifyStops(st, IF installed THEN snap.sl ELSE target, IF st.be THEN BreakEven ELSE 0, from)

\* The target is installed unless the market has passed it or the take-profit.
\* A stop the broker has already is not installed again and never lowered.
Install(st, target, installed, from) ==
  LET keep == installed \/ (st.conf /\ snap.sl >= target)
      sl   == IF keep THEN snap.sl ELSE target
      tp   == IF st.be THEN BreakEven ELSE 0
  IN  IF ~keep /\ sl >= bid - Distance
      THEN ExitBracket([st EXCEPT !.latch = IF @ = "" THEN "OTHER" ELSE @], from)
      ELSE IF tp > 0 /\ tp <= bid + Distance THEN ClosePosition(st, "OTHER", from)
      ELSE ModifyStops(st, sl, tp, from)

\* arm_tsl1pre_market_exit: the backend records the intent before it counts.
\* The request may fail before or after it was processed.
ArmTsl1Pre(st, from) ==
  IF Pending(st, snap) THEN MaybeExecutePending(st, from) /\ UNCHANGED trigger
  ELSE \/ Save(st) /\ Continue(from) /\ UNCHANGED trigger
       \/ LET recorded == RecordTrigger(snap.id, "TSL1PRE")
              told     == ApplyTrigger(st, recorded)
          IN /\ trigger' = recorded
             /\ \/ Save(st) /\ Continue(from)
                \/ IF Pending(told, snap) THEN MaybeExecutePending(told, from)
                   ELSE Save(told) /\ Continue(from)

TslCrossed(st, from) ==
  IF Weekday(clock) = 3 /\ Slot(clock) < 2 /\ Delayed
  THEN ArmTsl1Pre(st, from)
  ELSE /\ ClosePosition(st, IF Weekday(clock) = 3 /\ Slot(clock) < 2 THEN "TSL1PRE" ELSE "OTHER", from)
       /\ UNCHANGED trigger

\* weekday_sl_target is the trailing stop from Thursday on.  While a deferred
\* exit waits, the target is the hard stop, and active_sl_reason, which is not
\* kept here, says whether it still counts as the trailing one.
StandardProtection(st, from) ==
  \E trailing \in IF Pending(st, snap) THEN BOOLEAN ELSE {Weekday(clock) >= 3} :
    LET target == IF trailing /\ ~Pending(st, snap) THEN Larger(st.hardPx, Tsl) ELSE st.hardPx
    IN  IF ~trailing THEN Install(st, target, FALSE, from) /\ UNCHANGED trigger
        ELSE IF bid <= Tsl THEN TslCrossed(st, from)
        ELSE IF snap.sl < Tsl /\ target >= bid - Distance   \* TSL_INSTALL_DEFERRED
        THEN Save(st) /\ Continue(from) /\ UNCHANGED trigger
        ELSE Install(st, target, snap.sl >= Tsl, from) /\ UNCHANGED trigger

ApplyStandardProtection(from) ==
  /\ pc = from
  /\ IF Pending(state, snap) /\ PendingDue(state)
     THEN MaybeExecutePending(state, from) /\ UNCHANGED trigger
     ELSE IF state.latch # "" /\ ~Pending(state, snap)
     THEN ExitBracket(state, from) /\ UNCHANGED trigger
     ELSE \E px \in HardPrice : StandardProtection(LockHardStop(state, snap, px), from)
  /\ Quiet

\* modify_sltp: the stop is moved below the market if the bid has come closer
\* since, and sent unless the broker has both prices already.
ModifySend ==
  /\ pc = "modify"
  /\ LET sl == IF call.sl # snap.sl /\ call.sl >= bid - Distance THEN bid - Distance - 1 ELSE call.sl
         recorded == [state EXCEPT !.conf = TRUE]
     IN IF sl = snap.sl /\ call.tp = snap.tp
        THEN Save(recorded) /\ Continue(call.from) /\ UNCHANGED pos
        ELSE \/ /\ OpenId = snap.id
                /\ sl < bid /\ (call.tp = 0 \/ call.tp > bid)
                /\ pos' = [pos EXCEPT !.sl = sl, !.tp = call.tp]
                /\ Save(recorded)
                /\ call' = NoCall
                /\ Resume(call.from, TRUE, [pos EXCEPT !.sl = sl, !.tp = call.tp])
             \/ Save(state) /\ Continue(call.from) /\ UNCHANGED pos
  /\ UNCHANGED <<clock, bid, moves, events, used, visible, me, tracked, lost, trigger>>

\* order_send of a market exit: executed, placed without a deal yet, or refused.
SellSend ==
  /\ pc = "sell"
  /\ LET closes == OpenId = snap.id
         marked == [state EXCEPT
           !.lastOpen  = IF call.from = "open" THEN Day(clock) ELSE @,
           !.lastClose = IF call.from = "close" THEN Day(clock) ELSE @]
     IN \/ /\ closes
           /\ pos' = NoPos
           /\ Save(marked)
           /\ Resume(call.from, TRUE, NoPos)
        \/ closes /\ Save(marked) /\ Resume(call.from, TRUE, pos) /\ UNCHANGED pos
        \/ Save(state) /\ Resume(call.from, FALSE, pos) /\ UNCHANGED pos
  /\ call' = NoCall
  /\ UNCHANGED <<clock, bid, moves, events, used, visible, me, tracked, lost, trigger>>

-----------------------------------------------------------------------------
\* finalize_closed_position, once the position is gone and the history shows a
\* SELL deal of it: exact_broker_exit_deal does not ask whether it sold all

Finalized(st) ==
  [ClearExitState(st) EXCEPT !.id = 0, !.be = FALSE]

\* A position without a SELL deal in the history is given up.
MutFinalize == Save(Finalized(state))

Finalize == /\ state.id \in visible
            /\ Save(Finalized(state))

\* The position p is taken over by node n.
TakeOver(n, p) ==
  /\ tracked' = [tracked EXCEPT ![n] = @ \cup {p.id}]
  /\ lost' = IF file[n].id \in {0, p.id} THEN lost ELSE lost \cup {file[n].id}

\* startup_reconcile: it fails as long as no SELL deal is visible.
\* The refresh of the rule context may fail.
Start(n) ==
  /\ pc = "off"
  /\ me' = n
  /\ IF n = me THEN UNCHANGED events ELSE Event
  /\ \/ /\ pos = NoPos
        /\ \/ file[n].id = 0 /\ UNCHANGED file
           \/ file[n].id \in visible /\ file' = [file EXCEPT ![n] = Finalized(file[n])]
        /\ pc' = "top"
        /\ UNCHANGED <<snap, tracked, lost>>
     \/ /\ pos # NoPos
        /\ TakeOver(n, pos)
        /\ \E px \in HardPrice, be \in BreakEvenKnown(file[n], pos), repair, told \in BOOLEAN :
             LET st == Recover(file[n], pos, px, be, repair)
             IN  file' = [file EXCEPT ![n] = IF told THEN ApplyTrigger(st, trigger) ELSE st]
        /\ pc' = "start"
        /\ snap' = pos
  /\ UNCHANGED <<clock, bid, moves, pos, used, visible, trigger, call>>

CycleTop ==
  /\ pc = "top"
  /\ \/ /\ pos = NoPos
        /\ (state.id = 0 /\ UNCHANGED file) \/ Finalize
        /\ pc' = "mid"
        /\ UNCHANGED <<snap, tracked, lost>>
     \/ /\ pos # NoPos /\ state.id = pos.id
        /\ pc' = "bar" /\ snap' = pos
        /\ UNCHANGED <<file, tracked, lost>>
     \/ /\ pos # NoPos /\ state.id # pos.id
        /\ TakeOver(me, pos)
        /\ \E px \in HardPrice, be \in BreakEvenKnown(state, pos) : Save(Recover(state, pos, px, be, FALSE))
        /\ pc' = "adopt" /\ snap' = pos
  /\ UNCHANGED <<clock, bid, moves, events, pos, used, visible, trigger, me, call>>

\* process_new_bar: BEPRE, PRE H and BEO; the bar's open may be any price.
NewBar ==
  /\ pc = "bar"
  /\ \/ Continue("bar") /\ UNCHANGED file
     \/ /\ \/ Slot(clock) \in {1, 2} /\ state.be
           \/ Slot(clock) = 1 /\ Weekday(clock) = 1 /\ snap.day = Day(clock) - 1
        /\ ClosePosition(state, "OTHER", "bar")
  /\ Quiet /\ UNCHANGED trigger

\* The second look at the broker in a cycle.  A position that was opened after
\* the first is worked on without having been adopted.
LookAgain ==
  /\ pc = "mid"
  /\ \/ pos # NoPos /\ pc' = "or5" /\ snap' = pos /\ UNCHANGED file
     \/ /\ pos = NoPos /\ UNCHANGED snap
        /\ \/ state.id = 0 /\ UNCHANGED file /\ pc' = "entry"
           \/ Finalize /\ pc' = "entry"
           \/ state.id \notin visible \cup {0} /\ UNCHANGED file /\ pc' = "top"
  /\ Quiet /\ UNCHANGED <<trigger, call>>

AuthorizedOr5(from) ==
  pc = from /\ ExecuteOr5(state, from) /\ Quiet /\ UNCHANGED trigger

\* maybe_execute_open_action: OH, once a day, from the second session on.
OpenAction ==
  /\ pc = "open"
  /\ LET due  == state.latch = "" /\ state.lastOpen # Day(clock)
         done == [state EXCEPT !.lastOpen = Day(clock)]
     IN \/ (~due \/ Slot(clock) < 2) /\ Save(state) /\ Continue("open")
        \/ due /\ Slot(clock) >= 1 /\ Save(done) /\ Continue("open")
        \/ due /\ Slot(clock) = 1 /\ Weekday(clock) >= 1 /\ ClosePosition(state, "OTHER", "open")
  /\ Quiet /\ UNCHANGED trigger

\* maybe_execute_close_action: CH and TO, whatever is latched, then the
\* break-even check.  Before Friday it waits for the signal's opening price.
CloseAction ==
  /\ pc = "close"
  /\ LET due   == state.lastClose # Day(clock) /\ Slot(clock) = 3
         final == Weekday(clock) = 4
     IN \/ (~due \/ ~final) /\ Save(state) /\ Continue("close")
        \/ due /\ ClosePosition(state, "OTHER", "close")
        \/ /\ due /\ ~final
           /\ \E be \in BOOLEAN :
                /\ be => state.be \/ (Day(clock) > snap.day /\ Weekday(clock) >= 1)
                /\ state.be => be
                /\ Save([state EXCEPT !.be = be, !.lastClose = Day(clock)])
           /\ Continue("close")
  /\ Quiet /\ UNCHANGED trigger

\* evaluate_regular_bar with evaluate_or5_completed_bar: the rule context is
\* refreshed, and a match is recorded in the backend before it counts.
RegularBar ==
  /\ pc = "regular"
  /\ IF Slot(clock) < 2 \/ state.latch # ""
     THEN Save(state) /\ Resume("regular", TRUE, pos) /\ call' = NoCall /\ UNCHANGED trigger
     ELSE \/ Save(state) /\ Continue("regular") /\ UNCHANGED trigger
          \/ ExecuteOr5(ApplyTrigger(state, trigger), "regular") /\ UNCHANGED trigger
          \/ LET recorded == RecordTrigger(snap.id, "OR5")
                 told     == ApplyTrigger(state, trigger)
             IN /\ told.or5 # snap.id
                /\ trigger' = recorded
                /\ \/ Save(told) /\ Continue("regular")
                   \/ ExecuteOr5(ApplyTrigger(told, recorded), "regular")
  /\ Quiet

\* BH: the break-even level was traded again, with the latch not looked at.
BreakEvenExit ==
  /\ pc = "bh"
  /\ \/ Save(state) /\ Continue("bh")
     \/ state.be /\ state.lastClose # Day(clock) /\ ClosePosition(state, "OTHER", "bh")
  /\ Quiet /\ UNCHANGED trigger

\* maybe_open_new_week as far as the position goes: TradeExecution has the order.
\* The broker takes a stop only below the bid.
BuyAllowed == pc = "entry" /\ state.latch = "" /\ Weekday(clock) \in {0, 1} /\ pos = NoPos

Bought(p, px) == [id |-> p, day |-> Day(clock), sl |-> px, tp |-> 0]

Buy ==
  /\ BuyAllowed
  /\ \E p \in Position \ (used \cup Manual), px \in {h \in HardPrice : h < bid} :
       /\ pos' = Bought(p, px)
       /\ used' = used \cup {p}
       /\ Save([ClearExitState(state) EXCEPT !.be = FALSE])
  /\ pc' = "top"
  /\ UNCHANGED <<clock, bid, moves, events, visible, trigger, me, snap, call, tracked, lost>>

NoEntry ==
  /\ pc = "entry" /\ pc' = "top"
  /\ UNCHANGED <<file, snap, call, trigger>> /\ Quiet

\* An exception ends the cycle, and the process when it happens in the startup.
AbortCycle ==
  /\ pc \notin {"off", "top", "sell", "modify"}
  /\ Event
  /\ pc' = IF pc \in {"start", "protectStart"} THEN "off" ELSE "top"
  /\ snap' = NoPos
  /\ UNCHANGED <<file, call, trigger>> /\ Still

\* The lease is lost, or the terminal disconnected: the startup runs again.
Suspend ==
  /\ pc = "top" /\ pc' = "off"
  /\ Event
  /\ UNCHANGED <<file, snap, call, trigger>> /\ Still

\* The process dies; a request it was sending may have been executed.
Crash ==
  /\ Observing /\ pc # "off" /\ Event
  /\ pc' = "off" /\ snap' = NoPos /\ call' = NoCall
  /\ \/ UNCHANGED <<pos, used>>
     \/ /\ pc = "sell" /\ OpenId = snap.id
        /\ pos' = NoPos /\ UNCHANGED used
     \/ /\ pc = "modify" /\ OpenId = snap.id
        /\ call.sl < bid /\ (call.tp = 0 \/ call.tp > bid)
        /\ pos' = [pos EXCEPT !.sl = call.sl, !.tp = call.tp] /\ UNCHANGED used
     \/ /\ BuyAllowed
        /\ \E p \in Position \ (used \cup Manual), px \in {h \in HardPrice : h < bid} :
             pos' = Bought(p, px) /\ used' = used \cup {p}
  /\ UNCHANGED <<clock, bid, moves, visible, trigger, file, me, tracked, lost>>

-----------------------------------------------------------------------------
\* The broker, the market and the operator

\* A price at the stop or the take-profit closes the position.
PriceMoves ==
  /\ Observing /\ moves < MaxMoves
  /\ moves' = moves + 1
  /\ \E b \in Price \ {bid} :
       /\ bid' = b
       /\ pos' = IF pos # NoPos /\ (b <= pos.sl \/ (pos.tp > 0 /\ b >= pos.tp)) THEN NoPos ELSE pos
  /\ UNCHANGED <<clock, events, used, visible, trigger, file, me, pc, snap, call, tracked, lost>>

TimePasses ==
  /\ pc \in {"off", "top"}
  /\ \E t \in Instant : t > clock /\ clock' = t /\ \A u \in Instant : u > clock => t <= u
  /\ UNCHANGED <<bid, moves, events, pos, used, visible, trigger, file, me, pc, snap, call, tracked, lost>>

\* The history shows a SELL deal of a position: the one that closed it, or, an
\* event, the first of several while the rest of the position is still open.
DealAppears ==
  /\ Observing
  /\ \E p \in used \ visible :
       /\ visible' = visible \cup {p}
       /\ IF p = OpenId THEN Event ELSE UNCHANGED events
  /\ UNCHANGED <<clock, bid, moves, pos, used, trigger, file, me, pc, snap, call, tracked, lost>>

\* The operator opens a position by hand, with or without a stop.
OperatorOpens ==
  /\ Observing /\ pos = NoPos /\ Event
  /\ \E p \in Manual \ used, sl \in {0, Tsl} :
       /\ sl < bid
       /\ pos' = [id |-> p, day |-> Day(clock), sl |-> sl, tp |-> 0]
       /\ used' = used \cup {p}
  /\ UNCHANGED <<clock, bid, moves, visible, trigger, file, me, pc, snap, call, tracked, lost>>

\* The operator closes it, or an order that was only placed is filled.
OperatorCloses ==
  /\ Observing /\ Event /\ pos # NoPos /\ pos' = NoPos
  /\ UNCHANGED <<clock, bid, moves, used, visible, trigger, file, me, pc, snap, call, tracked, lost>>

\* The operator raises the stop.
OperatorTightens ==
  /\ Observing /\ Event /\ pos # NoPos
  /\ pos.sl < Tsl /\ Tsl < bid
  /\ pos' = [pos EXCEPT !.sl = Tsl]
  /\ UNCHANGED <<clock, bid, moves, used, visible, trigger, file, me, pc, snap, call, tracked, lost>>

Next ==
  \/ \E n \in Node : Start(n)
  \/ AuthorizedOr5("start") \/ ApplyStandardProtection("protectStart")
  \/ CycleTop \/ ApplyStandardProtection("adopt") \/ NewBar \/ LookAgain
  \/ AuthorizedOr5("or5") \/ OpenAction \/ CloseAction \/ RegularBar \/ BreakEvenExit
  \/ ApplyStandardProtection("protect")
  \/ ModifySend \/ SellSend \/ Buy \/ NoEntry \/ AbortCycle \/ Suspend \/ Crash
  \/ PriceMoves \/ TimePasses \/ DealAppears \/ OperatorOpens \/ OperatorCloses \/ OperatorTightens

Spec == Init /\ [][Next]_vars

-----------------------------------------------------------------------------
\* Every variable stays within the values the code can give it, and the stages
\* that work on a position have one.
TypeOK ==
  /\ clock \in Instant /\ bid \in Price /\ moves \in 0..MaxMoves /\ events \in 0..MaxEvents
  /\ pos \in Broker \cup {NoPos} /\ used \subseteq Position /\ visible \subseteq used
  /\ trigger \in [Position -> [rules : SUBSET Rule, last : Rule \cup {""}, notBefore : Nat]]
  /\ file \in [Node -> State] /\ me \in Node
  /\ pc \in Stage \cup {"off", "top", "sell", "modify"}
  /\ snap \in Broker \cup {NoPos} /\ call \in Call
  /\ tracked \in [Node -> SUBSET used] /\ lost \subseteq used
  /\ pc \notin {"off", "top", "mid", "entry"} => snap # NoPos

\* The hard stop of a position under management is priced once: no step, crash
\* or restart of the node that locked it changes it, except that a start may
\* correct the leverage of a position opened by hand.
HardStopPricedOnce ==
  [][\A n \in Node, p \in Position :
       OpenId = p /\ file[n].id = p /\ file'[n].id = p /\ HardStopMatches(file[n], [id |-> p])
       => \/ file'[n].hardPx = file[n].hardPx /\ file'[n].hardId = p
          \/ p \in Manual /\ pc = "off"]_vars

\* Once a protection is confirmed the executor never lowers the stop it has
\* seen at the broker, its own or a tighter one set by hand, unless the market
\* has come within the minimum distance of it.
ProtectionOnlyTightens ==
  [][pc = "modify" /\ OpenId = snap.id /\ pos' \notin {pos, NoPos} /\ state.conf
       => pos'.sl >= snap.sl \/ snap.sl >= bid - Distance]_vars

\* An exit that was latched for a position stays latched, whatever fails and
\* whenever the process dies, until the position is closed or replaced.
ExitStaysLatched ==
  [][\A n \in Node : file[n].latch # "" /\ file[n].id # 0 /\ file'[n].id = file[n].id
       => file'[n].latch # ""]_vars

\* A market exit in the name of a position rule is sent only for the position
\* for which the backend has recorded that rule.
RuleExitIsAuthorised ==
  pc = "sell" /\ call.reason \in Rule => call.reason \in trigger[snap.id].rules

\* A new entry waits until the history shows a SELL deal of every position this
\* node has managed, except those another position has displaced.  That is less
\* than the docstring of finalize_closed_position promises: after a partly
\* filled exit the deal may be that of the first part (position_lifecycle.py:584).
EntryWaitsForClose ==
  [][Buy => tracked[me] \subseteq visible \cup lost]_vars

\* STRATEGY_SPECIFICATION.md: nothing cancels the TSL1PRE intent; it stays
\* retryable until the position closes.  maybe_execute_pending_market_exit
\* refuses it for good under any other latched reason.
IntentStaysRetryable ==
  pc = "top" /\ pos # NoPos /\ state.id = OpenId /\ state.pend = OpenId
    => state.latch \in {"", "TSL1PRE"}

===============================================================================
