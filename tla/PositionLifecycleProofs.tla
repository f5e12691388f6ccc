------------------------ MODULE PositionLifecycleProofs ------------------------
(***************************************************************************)
(* Proofs about PositionLifecycle, for any nodes, positions, prices,       *)
(* instants and bounds.                                                    *)
(*                                                                         *)
(* Whatever a stage of the cycle decides has one shape (Decided): the      *)
(* state is saved with what it must keep, and the cycle goes on, or sends  *)
(* an exit, or sends new stops.  The invariants are proved of that shape   *)
(* and of the few other actions.                                           *)
(***************************************************************************)
EXTENDS PositionLifecycle, TLAPS

Triggers == [Position -> [rules : SUBSET Rule, last : Rule \cup {""}, notBefore : Nat]]

\* The last rule recorded for a position is one of those recorded.
LastRecorded(trg) == \A p \in Position : trg[p].last # "" => trg[p].last \in trg[p].rules

\* The intents a state file holds are recorded in the backend, concern the
\* position it names, and have latched an exit.
Authorised(st, trg) ==
  /\ st.or5 # 0 => st.or5 = st.id /\ "OR5" \in trg[st.or5].rules
  /\ st.pend # 0 => /\ st.pend = st.id /\ "TSL1PRE" \in trg[st.pend].rules
                    /\ st.notBefore = trg[st.pend].notBefore
  /\ st.or5 # 0 \/ st.pend # 0 => st.latch # ""

\* No rule is forgotten, and a deferred exit is not deferred further.
More(old, new) ==
  \A p \in Position :
    /\ old[p].rules \subseteq new[p].rules
    /\ "TSL1PRE" \in old[p].rules => new[p].notBefore = old[p].notBefore

\* An intent stays as it was.
IntentKept(st, new) ==
  /\ st.or5 # 0 => new.or5 = st.or5
  /\ st.pend # 0 => new.pend = st.pend /\ new.notBefore = st.notBefore

\* What every decision about the position under way leaves of the state, up to
\* the exit it may send in the end.
Kept(st, new) ==
  /\ new.id = st.id
  /\ st.latch # "" => new.latch = st.latch
  /\ new.conf = st.conf
  /\ IntentKept(st, new)
  /\ HardStopMatches(st, snap) => new.hardId = st.hardId /\ new.hardPx = st.hardPx

LEMMA AuthorisedMore ==
  \A st \in State : \A old, new :
     Authorised(st, old) /\ More(old, new) => Authorised(st, new)
BY DEF State, Authorised, More

LEMMA Constants ==
  /\ Position \subseteq Nat \ {0} /\ NoPos \notin Broker
  /\ HardPrice \subseteq Nat \ {0} /\ Price \subseteq Nat /\ Instant \subseteq Nat
  /\ Tsl \in Nat /\ BreakEven \in Nat /\ Distance \in Nat /\ Delayed \in BOOLEAN
  /\ MaxMoves \in Nat /\ MaxEvents \in Nat
  /\ \A b \in Price : b - Distance \in Nat /\ b - Distance - 1 \in Nat /\ b + Distance \in Nat
  /\ \A t \in Instant : Day(t) \in Nat
BY PositionAssumption DEF PositionAssumption, Broker, Day

LEMMA DayIsNat == TypeOK => Day(clock) \in Nat
<1> SUFFICES ASSUME TypeOK PROVE Day(clock) \in Nat
  OBVIOUS
<1>1. clock \in Instant
  BY DEF TypeOK
<1> QED
  BY <1>1, Constants

LEMMA ClearType ==
  ASSUME NEW st \in State
  PROVE  ClearExitState(st) \in State /\ ClearExitState(st).id = st.id /\ ClearExitState(st).conf = st.conf
         /\ ClearExitState(st).or5 = 0 /\ ClearExitState(st).pend = 0
BY DEF ClearExitState, State

LEMMA LockType ==
  ASSUME NEW st \in State, NEW p \in Broker, NEW px \in HardPrice
  PROVE  LET new == LockHardStop(st, p, px)
         IN  /\ new \in State /\ new.id = st.id /\ new.latch = st.latch /\ new.conf = st.conf
             /\ new.or5 = st.or5 /\ new.pend = st.pend /\ new.notBefore = st.notBefore
             /\ HardStopMatches(st, p) => new = st
BY DEF LockHardStop, State, Broker

LEMMA AdoptType ==
  ASSUME NEW st \in State, NEW p \in Broker, NEW px \in HardPrice, NEW be \in BOOLEAN
  PROVE  Adopt(st, p, px, be) \in State /\ Adopt(st, p, px, be).id = p.id
         /\ Adopt(st, p, px, be).or5 = 0 /\ Adopt(st, p, px, be).pend = 0
<1> DEFINE new == [ClearExitState(st) EXCEPT !.id = p.id, !.be = be, !.conf = FALSE]
<1>1. p.id \in Position
  BY DEF Broker
<1>2. ClearExitState(st) \in State
  BY ClearType
<1>3. new \in State /\ new.id = p.id /\ new.or5 = 0 /\ new.pend = 0
  BY <1>1, <1>2, ClearType DEF State
<1> HIDE DEF new
<1>4. Adopt(st, p, px, be) = LockHardStop(new, p, px)
  BY DEF Adopt, new
<1> QED
  BY <1>3, <1>4, LockType

LEMMA ReconcileType ==
  ASSUME NEW st \in State, NEW p \in Broker, NEW px \in HardPrice, NEW be \in BOOLEAN, NEW repair
  PROVE  LET new == Reconcile(st, p, px, be, repair)
         IN  /\ new \in State /\ new.id = st.id /\ new.latch = st.latch
             /\ new.or5 = st.or5 /\ new.pend = st.pend /\ new.notBefore = st.notBefore
             /\ HardStopMatches(st, p) /\ p.id \notin Manual
                  => new.hardId = st.hardId /\ new.hardPx = st.hardPx
<1> DEFINE kept == [st EXCEPT !.be = be]
           reset == [kept EXCEPT !.hardId = 0, !.hardPx = 0, !.conf = FALSE]
<1>1. /\ kept \in State /\ kept.id = st.id /\ kept.latch = st.latch /\ kept.or5 = st.or5 /\ kept.pend = st.pend
      /\ kept.hardId = st.hardId /\ kept.hardPx = st.hardPx /\ kept.notBefore = st.notBefore
  BY DEF State
<1> HIDE DEF kept
<1>2. /\ reset \in State /\ reset.id = st.id /\ reset.latch = st.latch /\ reset.or5 = st.or5
      /\ reset.pend = st.pend /\ reset.notBefore = st.notBefore
  BY <1>1 DEF State
<1> HIDE DEF reset
<1>3. Reconcile(st, p, px, be, repair) =
        IF repair /\ p.id \in Manual /\ HardStopMatches(st, p)
        THEN LockHardStop(reset, p, px) ELSE LockHardStop(kept, p, px)
  BY DEF Reconcile, reset, kept
<1>4. HardStopMatches(st, p) => HardStopMatches(kept, p)
  BY <1>1 DEF HardStopMatches
<1> QED
  BY <1>1, <1>2, <1>3, <1>4, LockType

LEMMA ApplyTriggerType ==
  ASSUME NEW st \in State, NEW trg \in Triggers
  PROVE  LET new == ApplyTrigger(st, trg)
         IN  /\ new \in State /\ new.id = st.id /\ new.conf = st.conf
             /\ st.latch # "" => new.latch = st.latch
             /\ new.hardId = st.hardId /\ new.hardPx = st.hardPx
             /\ LastRecorded(trg) /\ Authorised(st, trg) => Authorised(new, trg) /\ IntentKept(st, new)
<1> DEFINE new == ApplyTrigger(st, trg)
<1>1. CASE st.id = 0
  BY <1>1 DEF ApplyTrigger, IntentKept
<1>2. CASE st.id # 0
  <2>1. st.id \in Position /\ trg[st.id].notBefore \in Nat /\ "OR5" # "" /\ "TSL1PRE" # ""
    BY <1>2 DEF State, Triggers
  <2>2. CASE trg[st.id].last = "OR5"
    <3>1. new = [st EXCEPT !.or5 = st.id, !.latch = IF st.latch = "" THEN "OR5" ELSE st.latch]
      BY <1>2, <2>2 DEF ApplyTrigger
    <3>2. /\ new \in State /\ new.id = st.id /\ new.conf = st.conf
          /\ new.latch = IF st.latch = "" THEN "OR5" ELSE st.latch
          /\ new.or5 = st.id /\ new.pend = st.pend /\ new.notBefore = st.notBefore
          /\ new.hardId = st.hardId /\ new.hardPx = st.hardPx
      BY <2>1, <3>1 DEF State, Reason, Rule
    <3> HIDE DEF new
    <3> QED
      BY <1>2, <2>1, <2>2, <3>2 DEF Authorised, LastRecorded, IntentKept, new
  <2>3. CASE trg[st.id].last = "TSL1PRE" /\ st.latch \in {"", "TSL1PRE"}
    <3>1. new = [st EXCEPT !.pend = st.id, !.notBefore = trg[st.id].notBefore, !.latch = "TSL1PRE"]
      BY <1>2, <2>3 DEF ApplyTrigger
    <3>2. /\ new \in State /\ new.id = st.id /\ new.conf = st.conf /\ new.latch = "TSL1PRE"
          /\ new.pend = st.id /\ new.notBefore = trg[st.id].notBefore /\ new.or5 = st.or5
          /\ new.hardId = st.hardId /\ new.hardPx = st.hardPx
      BY <2>1, <3>1 DEF State, Reason, Rule
    <3> HIDE DEF new
    <3> QED
      BY <1>2, <2>1, <2>3, <3>2 DEF Authorised, LastRecorded, IntentKept, new
  <2>4. CASE trg[st.id].last # "OR5" /\ ~(trg[st.id].last = "TSL1PRE" /\ st.latch \in {"", "TSL1PRE"})
    BY <1>2, <2>4 DEF ApplyTrigger, IntentKept
  <2> QED
    BY <2>2, <2>3, <2>4
<1> QED
  BY <1>1, <1>2

LEMMA RecordTriggerType ==
  ASSUME TypeOK, LastRecorded(trigger), NEW p \in Position, NEW rule \in Rule
  PROVE  LET new == RecordTrigger(p, rule)
         IN  /\ new \in Triggers /\ LastRecorded(new) /\ rule \in new[p].rules
             /\ More(trigger, new)
<1> DEFINE t == [trigger[p] EXCEPT !.rules = @ \cup {rule}, !.last = rule,
                                   !.notBefore = IF rule = "TSL1PRE" THEN 4 * Day(clock) + 1 ELSE @]
<1>1. trigger \in Triggers /\ 4 * Day(clock) + 1 \in Nat
  <2>1. trigger \in Triggers
    BY DEF TypeOK, Triggers
  <2> QED
    BY <2>1, DayIsNat
<1>2. CASE rule = "TSL1PRE" /\ rule \in trigger[p].rules
  BY <1>1, <1>2 DEF RecordTrigger, More
<1>3. CASE ~(rule = "TSL1PRE" /\ rule \in trigger[p].rules)
  <2>1. trigger[p] \in [rules : SUBSET Rule, last : Rule \cup {""}, notBefore : Nat]
    BY <1>1 DEF Triggers
  <2>2. /\ t \in [rules : SUBSET Rule, last : Rule \cup {""}, notBefore : Nat]
        /\ t.last = rule /\ t.rules = trigger[p].rules \cup {rule}
        /\ rule # "TSL1PRE" => t.notBefore = trigger[p].notBefore
    BY <1>1, <2>1
  <2>3. RecordTrigger(p, rule) = [trigger EXCEPT ![p] = t]
    BY <1>3, <1>1 DEF RecordTrigger, Triggers
  <2> HIDE DEF t
  <2>4. [trigger EXCEPT ![p] = t] \in Triggers
    BY <1>1, <2>2 DEF Triggers
  <2>5. [trigger EXCEPT ![p] = t][p] = t /\ \A q \in Position \ {p} : [trigger EXCEPT ![p] = t][q] = trigger[q]
    BY <1>1 DEF Triggers
  <2> QED
    BY <1>3, <2>2, <2>3, <2>4, <2>5 DEF LastRecorded, More, Rule
<1> QED
  BY <1>2, <1>3

-----------------------------------------------------------------------------
(* The shape of a decision *)

Grows == trigger' \in Triggers /\ LastRecorded(trigger') /\ More(trigger, trigger')

\* A state the decision may save.
Good(st) == st \in State /\ Kept(state, st) /\ Authorised(st, trigger')

\* A state it does save: an exit that is sent latches its own reason.
Saved(st) ==
  /\ st \in State /\ Authorised(st, trigger')
  /\ st.id = state.id /\ st.conf = state.conf /\ IntentKept(state, st)
  /\ state.latch # "" => st.latch # "" /\ (st.latch # state.latch => pc' = "sell" /\ call'.reason = st.latch)
  /\ HardStopMatches(state, snap) => st.hardId = state.hardId /\ st.hardPx = state.hardPx

LEMMA GoodIsSaved == \A st : Good(st) => Saved(st)
BY DEF Good, Saved, Kept

Protecting == {"protectStart", "adopt", "protect"}

\* The cycle goes on, or an exit is about to be sent, or new stops are.
Outcome(from) ==
  \/ \E sent \in BOOLEAN : Resume(from, sent, pos) /\ call' = NoCall
  \/ \E reason \in Reason :
       /\ pc' = "sell" /\ UNCHANGED snap
       /\ call' = [NoCall EXCEPT !.from = from, !.reason = reason]
       /\ Delayed /\ reason \in Rule => reason \in trigger'[snap.id].rules
  \/ \E sl, tp \in Nat :
       /\ pc' = "modify" /\ UNCHANGED snap
       /\ call' = [from |-> from, reason |-> "", sl |-> sl, tp |-> tp]
       /\ from \in Protecting
       /\ state.conf /\ snap.sl < bid => sl >= snap.sl

Ends(from) == \E st : Saved(st) /\ Save(st) /\ Outcome(from)

Decided ==
  /\ pc \in Stage \ {"mid", "entry"}
  /\ Quiet /\ Grows
  /\ Ends(pc)

\* What a decision starts from.
Deciding ==
  /\ TypeOK /\ snap # NoPos
  /\ LastRecorded(trigger) /\ Authorised(state, trigger)

LEMMA ContinueEnds ==
  ASSUME NEW st, NEW from, Good(st), Save(st), Continue(from)
  PROVE  Ends(from)
BY GoodIsSaved DEF Ends, Outcome, Continue

LEMMA CloseEnds ==
  ASSUME NEW st, NEW from, NEW reason \in Reason, Good(st), ClosePosition(st, reason, from),
         Delayed /\ reason \in Rule => reason \in trigger'[snap.id].rules
  PROVE  Ends(from)
<1>1. CASE Save(st) /\ Continue(from)
  BY <1>1, ContinueEnds
<1>2. CASE /\ Save([st EXCEPT !.latch = reason])
           /\ pc' = "sell" /\ call' = [NoCall EXCEPT !.from = from, !.reason = reason]
           /\ UNCHANGED snap
  <2> DEFINE new == [st EXCEPT !.latch = reason]
  <2>1. reason # ""
    BY DEF Reason, Rule
  <2>2. st \in State /\ Kept(state, st) /\ Authorised(st, trigger')
    BY DEF Good
  <2>3. /\ new \in State /\ new.latch = reason /\ new.id = st.id /\ new.conf = st.conf
        /\ new.hardId = st.hardId /\ new.hardPx = st.hardPx
        /\ new.or5 = st.or5 /\ new.pend = st.pend /\ new.notBefore = st.notBefore
    BY <2>2 DEF State
  <2> HIDE DEF new
  <2>4. pc' = "sell" /\ call'.reason = reason
    BY <1>2 DEF NoCall
  <2>5. Authorised(new, trigger')
    BY <2>1, <2>2, <2>3 DEF Authorised
  <2>6. Saved(new)
    BY <2>1, <2>2, <2>3, <2>4, <2>5 DEF Saved, Kept, IntentKept
  <2>7. Save(new)
    BY <1>2 DEF new
  <2> QED
    BY <1>2, <2>6, <2>7 DEF Ends, Outcome
<1> QED
  BY <1>1, <1>2 DEF ClosePosition

LEMMA ModifyEnds ==
  ASSUME NEW st, NEW from \in Protecting, NEW sl \in Nat, NEW tp \in Nat, Good(st),
         ModifyStops(st, sl, tp, from),
         state.conf /\ snap.sl < bid => sl >= snap.sl
  PROVE  Ends(from)
BY GoodIsSaved DEF Ends, Outcome, ModifyStops

LEMMA LatchGood ==
  ASSUME NEW st, NEW reason \in Reason, Good(st), st.latch \in {"", reason}
  PROVE  Good([st EXCEPT !.latch = reason])
<1> DEFINE new == [st EXCEPT !.latch = reason]
<1>1. st \in State /\ reason # ""
  BY DEF Good, Reason, Rule
<1>2. /\ new \in State /\ new.latch = reason /\ new.id = st.id /\ new.conf = st.conf
      /\ new.hardId = st.hardId /\ new.hardPx = st.hardPx /\ new.or5 = st.or5 /\ new.pend = st.pend
      /\ new.notBefore = st.notBefore
  BY <1>1 DEF State
<1> HIDE DEF new
<1>3. Kept(state, st) /\ Authorised(st, trigger')
  BY DEF Good
<1>4. Kept(state, new)
  BY <1>2, <1>3 DEF Kept, IntentKept
<1>5. Authorised(new, trigger')
  BY <1>1, <1>2, <1>3 DEF Authorised
<1> QED
  BY <1>2, <1>4, <1>5 DEF Good, new

LEMMA PendingEnds ==
  ASSUME NEW st, NEW from, Good(st), Pending(st, snap), MaybeExecutePending(st, from), snap.id # 0
  PROVE  Ends(from)
<1> DEFINE latched == [st EXCEPT !.latch = "TSL1PRE"]
<1>1. st.latch \in {"", "TSL1PRE"} => Good(latched)
  BY LatchGood DEF Reason, Rule
<1>2. "TSL1PRE" \in trigger'[snap.id].rules /\ "TSL1PRE" \in Reason
  BY DEF Good, Authorised, Pending, Reason, Rule
<1> HIDE DEF latched
<1>3. CASE Save(st) /\ Continue(from)
  BY <1>3, ContinueEnds
<1>4. CASE st.latch \in {"", "TSL1PRE"} /\ ClosePosition(latched, "TSL1PRE", from)
  BY <1>1, <1>2, <1>4, CloseEnds
<1>5. CASE st.latch \in {"", "TSL1PRE"} /\ Save(latched) /\ Continue(from)
  BY <1>1, <1>5, ContinueEnds
<1> QED
  BY <1>3, <1>4, <1>5 DEF MaybeExecutePending, latched

LEMMA Or5Ends ==
  ASSUME NEW st, NEW from, Good(st), ExecuteOr5(st, from), snap.id # 0
  PROVE  Ends(from)
<1> DEFINE latched == [st EXCEPT !.latch = "OR5"]
<1>1. (st.latch \in {"", "OR5"} => Good(latched)) /\ "OR5" \in Reason
  BY LatchGood DEF Reason, Rule
<1> HIDE DEF latched
<1>2. CASE Save(st) /\ Continue(from)
  BY <1>2, ContinueEnds
<1>3. CASE st.or5 = snap.id /\ st.latch \in {"", "OR5"} /\ ClosePosition(latched, "OR5", from)
  <2>1. "OR5" \in trigger'[snap.id].rules
    BY <1>3 DEF Good, Authorised
  <2> QED
    BY <1>1, <1>3, <2>1, CloseEnds
<1> QED
  BY <1>2, <1>3 DEF ExecuteOr5, latched

LEMMA BracketEnds ==
  ASSUME TypeOK, snap # NoPos, NEW st, NEW from \in Protecting, Good(st), ExitBracket(st, from)
  PROVE  Ends(from)
<1> DEFINE sl == IF snap.sl < bid /\ snap.sl > bid - Distance THEN snap.sl ELSE bid - Distance
           tp == IF snap.tp > bid /\ snap.tp < bid + Distance THEN snap.tp ELSE bid + Distance
<1>1. snap.sl \in Nat /\ snap.tp \in Nat
  BY DEF TypeOK, Broker
<1>2. bid \in Nat /\ bid - Distance \in Nat /\ bid + Distance \in Nat /\ Distance \in Nat
  <2>1. bid \in Price
    BY DEF TypeOK
  <2> QED
    BY <2>1, Constants
<1>3. sl \in Nat /\ tp \in Nat /\ (snap.sl < bid => sl >= snap.sl)
  BY <1>1, <1>2
<1>4. ModifyStops(st, sl, tp, from)
  BY DEF ExitBracket
<1> HIDE DEF sl
<1> HIDE DEF tp
<1> QED
  BY <1>3, <1>4, ModifyEnds

LEMMA InstallEnds ==
  ASSUME TypeOK, snap # NoPos, NEW st, NEW target \in Nat, NEW installed \in BOOLEAN,
         NEW from \in Protecting, Good(st), Install(st, target, installed, from)
  PROVE  Ends(from)
<1> DEFINE keep == installed \/ (st.conf /\ snap.sl >= target)
           sl == IF keep THEN snap.sl ELSE target
           tp == IF st.be THEN BreakEven ELSE 0
<1>1. snap.sl \in Nat
  BY DEF TypeOK, Broker
<1>2. CASE ExitBracket([st EXCEPT !.latch = IF @ = "" THEN "OTHER" ELSE @], from)
  <2> DEFINE new == [st EXCEPT !.latch = IF @ = "" THEN "OTHER" ELSE @]
  <2>1. Good(new)
    <3>1. CASE st.latch = ""
      BY <3>1, LatchGood DEF Reason
    <3>2. CASE st.latch # ""
      BY <3>2 DEF Good, State
    <3> QED
      BY <3>1, <3>2
  <2> HIDE DEF new
  <2>2. ExitBracket(new, from)
    BY <1>2 DEF new
  <2> QED
    BY <2>1, <2>2, BracketEnds
<1>3. CASE ClosePosition(st, "OTHER", from)
  BY <1>3, CloseEnds DEF Reason, Rule
<1>4. CASE ModifyStops(st, sl, tp, from)
  <2>1. sl \in Nat /\ tp \in Nat
    BY <1>1, Constants
  <2>2. state.conf => sl >= snap.sl
    <3>1. SUFFICES ASSUME state.conf PROVE sl >= snap.sl
      OBVIOUS
    <3>2. st.conf
      BY <3>1 DEF Good, Kept
    <3>3. CASE keep
      BY <1>1, <3>3
    <3>4. CASE ~keep
      BY <1>1, <3>2, <3>4
    <3> QED
      BY <3>3, <3>4
  <2> HIDE DEF sl
  <2> HIDE DEF tp
  <2> QED
    BY <1>4, <2>1, <2>2, ModifyEnds
<1> QED
  BY <1>2, <1>3, <1>4 DEF Install

LEMMA SnapIsPosition == TypeOK /\ snap # NoPos => snap \in Broker /\ snap.id \in Position /\ snap.id # 0
BY Constants DEF TypeOK, Broker

LEMMA StateIsState == TypeOK => state \in State
<1> SUFFICES ASSUME TypeOK PROVE file[me] \in State
  BY DEF state
<1>1. file \in [Node -> State] /\ me \in Node
  BY DEF TypeOK
<1> QED
  BY <1>1

\* While nothing is recorded the state of the step is as authorised as before.
LEMMA StateIsGood ==
  ASSUME Deciding, Grows
  PROVE  Good(state)
<1>1. state \in State
  BY StateIsState DEF Deciding
<1>2. Kept(state, state)
  BY DEF Kept, IntentKept
<1>3. Authorised(state, trigger')
  BY <1>1, AuthorisedMore DEF Deciding, Grows
<1> QED
  BY <1>1, <1>2, <1>3 DEF Good

LEMMA UnchangedGrows == Deciding /\ UNCHANGED trigger => Grows
BY DEF Deciding, Grows, TypeOK, Triggers, LastRecorded, More

\* The intents and the latch of two states are the same.
SameIntents(st, new) ==
  /\ new.id = st.id /\ new.latch = st.latch
  /\ new.or5 = st.or5 /\ new.pend = st.pend /\ new.notBefore = st.notBefore

LEMMA SameIsGood ==
  ASSUME Deciding, Grows, NEW st \in State, Kept(state, st), SameIntents(state, st)
  PROVE  Good(st)
<1>1. Authorised(state, trigger')
  BY StateIsGood DEF Good
<1> QED
  BY <1>1 DEF Good, Authorised, SameIntents

LEMMA GoodApplied ==
  \A st, trg : /\ Good(st) /\ trg \in Triggers /\ LastRecorded(trg)
               /\ Authorised(st, trg) /\ More(trg, trigger')
               => Good(ApplyTrigger(st, trg))
<1> SUFFICES ASSUME NEW st, NEW trg \in Triggers, Good(st), LastRecorded(trg),
                    Authorised(st, trg), More(trg, trigger')
             PROVE  Good(ApplyTrigger(st, trg))
  OBVIOUS
<1> DEFINE new == ApplyTrigger(st, trg)
<1>1. st \in State /\ Kept(state, st)
  BY DEF Good
<1>2. /\ new \in State /\ new.id = st.id /\ new.conf = st.conf
      /\ st.latch # "" => new.latch = st.latch
      /\ new.hardId = st.hardId /\ new.hardPx = st.hardPx
      /\ Authorised(new, trg) /\ IntentKept(st, new)
  BY <1>1, ApplyTriggerType
<1> HIDE DEF new
<1>3. Kept(state, new)
  BY <1>1, <1>2, Constants DEF Kept, IntentKept
<1>4. Authorised(new, trigger')
  BY <1>2, AuthorisedMore
<1> QED
  BY <1>2, <1>3, <1>4 DEF Good, new

LEMMA ArmEnds ==
  ASSUME Deciding, NEW st, NEW from \in Protecting,
         st \in State, Kept(state, st), SameIntents(state, st),
         ArmTsl1Pre(st, from)
  PROVE  Grows /\ Ends(from)
<1>1. snap.id \in Position /\ snap.id # 0 /\ TypeOK
  BY SnapIsPosition DEF Deciding
<1>2. ASSUME Grows PROVE Good(st)
  BY <1>2, SameIsGood
<1>3. CASE Pending(st, snap) /\ MaybeExecutePending(st, from) /\ UNCHANGED trigger
  BY <1>1, <1>2, <1>3, UnchangedGrows, PendingEnds
<1>4. CASE Save(st) /\ Continue(from) /\ UNCHANGED trigger
  BY <1>2, <1>4, UnchangedGrows, ContinueEnds
<1>5. ASSUME trigger' = RecordTrigger(snap.id, "TSL1PRE"),
             \/ Save(st) /\ Continue(from)
             \/ LET told == ApplyTrigger(st, trigger')
                IN  IF Pending(told, snap) THEN MaybeExecutePending(told, from)
                    ELSE Save(told) /\ Continue(from)
      PROVE Grows /\ Ends(from)
  <2>1. Grows
    BY <1>1, <1>5, RecordTriggerType DEF Deciding, Grows, Rule
  <2>2. Good(st)
    BY <1>2, <2>1
  <2> DEFINE told == ApplyTrigger(st, trigger')
  <2>3. Good(told)
    <3>1. More(trigger', trigger')
      BY DEF More
    <3> QED
      BY <2>1, <2>2, <3>1, GoodApplied DEF Grows, Good
  <2> HIDE DEF told
  <2>4. Good(told)
    BY <2>3
  <2>5. CASE Save(st) /\ Continue(from)
    BY <2>2, <2>5, ContinueEnds, <2>1
  <2>6. CASE Pending(told, snap) /\ MaybeExecutePending(told, from)
    BY <1>1, <2>1, <2>4, <2>6, PendingEnds
  <2>7. CASE Save(told) /\ Continue(from)
    BY <2>1, <2>4, <2>7, ContinueEnds
  <2> QED
    BY <1>5, <2>5, <2>6, <2>7 DEF told
<1> QED
  BY <1>3, <1>4, <1>5 DEF ArmTsl1Pre

LEMMA TslEnds ==
  ASSUME Deciding, NEW st, NEW from \in Protecting,
         st \in State, Kept(state, st), SameIntents(state, st),
         TslCrossed(st, from)
  PROVE  Grows /\ Ends(from)
<1>1. CASE ArmTsl1Pre(st, from)
  BY <1>1, ArmEnds
<1>2. ASSUME NEW reason \in {"TSL1PRE", "OTHER"}, Delayed => reason = "OTHER",
             ClosePosition(st, reason, from), UNCHANGED trigger
      PROVE  Grows /\ Ends(from)
  <2>1. Grows
    BY <1>2, UnchangedGrows
  <2>2. Good(st)
    BY <2>1, SameIsGood
  <2>3. reason \in Reason /\ (reason = "OTHER" => reason \notin Rule)
    BY <1>2 DEF Reason, Rule
  <2> QED
    BY <1>2, <2>1, <2>2, <2>3, CloseEnds
<1>3. CASE /\ ~(Weekday(clock) = 3 /\ Slot(clock) < 2 /\ Delayed)
           /\ ClosePosition(st, IF Weekday(clock) = 3 /\ Slot(clock) < 2 THEN "TSL1PRE" ELSE "OTHER", from)
           /\ UNCHANGED trigger
  <2>1. CASE Weekday(clock) = 3 /\ Slot(clock) < 2
    BY <1>2, <1>3, <2>1
  <2>2. CASE ~(Weekday(clock) = 3 /\ Slot(clock) < 2)
    BY <1>2, <1>3, <2>2
  <2> QED
    BY <2>1, <2>2
<1> QED
  BY <1>1, <1>3 DEF TslCrossed

LEMMA HardStopIsNat ==
  ASSUME NEW st \in State
  PROVE  st.hardPx \in Nat
<1>1. st.hardPx \in HardPrice \cup {0}
  BY DEF State
<1>2. HardPrice \cup {0} \subseteq Nat
  BY Constants
<1> QED
  BY <1>1, <1>2

LEMMA StandardEnds ==
  ASSUME Deciding, NEW st, NEW from \in Protecting,
         st \in State, Kept(state, st), SameIntents(state, st),
         StandardProtection(st, from)
  PROVE  Grows /\ Ends(from)
<1>0. PICK trailing \in IF Pending(st, snap) THEN BOOLEAN ELSE {Weekday(clock) >= 3} :
        LET target == IF trailing /\ ~Pending(st, snap) THEN Larger(st.hardPx, Tsl) ELSE st.hardPx
        IN  IF ~trailing THEN Install(st, target, FALSE, from) /\ UNCHANGED trigger
            ELSE IF bid <= Tsl THEN TslCrossed(st, from)
            ELSE IF snap.sl < Tsl /\ target >= bid - Distance
            THEN Save(st) /\ Continue(from) /\ UNCHANGED trigger
            ELSE Install(st, target, snap.sl >= Tsl, from) /\ UNCHANGED trigger
  BY DEF StandardProtection
<1> DEFINE target == IF trailing /\ ~Pending(st, snap) THEN Larger(st.hardPx, Tsl) ELSE st.hardPx
<1>1. target \in Nat
  BY HardStopIsNat, Constants DEF Larger
<1>7. \/ Install(st, target, FALSE, from) /\ UNCHANGED trigger
      \/ TslCrossed(st, from)
      \/ Save(st) /\ Continue(from) /\ UNCHANGED trigger
      \/ Install(st, target, snap.sl >= Tsl, from) /\ UNCHANGED trigger
  BY <1>0
<1> HIDE DEF target
<1>2. ASSUME UNCHANGED trigger PROVE Grows /\ Good(st)
  BY <1>2, UnchangedGrows, SameIsGood
<1>3. CASE Install(st, target, FALSE, from) /\ UNCHANGED trigger
  BY <1>1, <1>2, <1>3, InstallEnds DEF Deciding
<1>4. CASE TslCrossed(st, from)
  BY <1>4, TslEnds
<1>5. CASE Save(st) /\ Continue(from) /\ UNCHANGED trigger
  BY <1>2, <1>5, ContinueEnds
<1>6. CASE Install(st, target, snap.sl >= Tsl, from) /\ UNCHANGED trigger
  <2>1. PICK installed \in BOOLEAN : Install(st, target, installed, from)
    <3>1. CASE snap.sl >= Tsl
      <4>1. (snap.sl >= Tsl) = TRUE
        BY <3>1
      <4> QED
        BY <1>6, <4>1
    <3>2. CASE ~(snap.sl >= Tsl)
      <4>1. (snap.sl >= Tsl) = FALSE
        BY <3>2
      <4> QED
        BY <1>6, <4>1
    <3> QED
      BY <3>1, <3>2
  <2> QED
    BY <1>1, <1>2, <1>6, <2>1, InstallEnds DEF Deciding
<1> QED
  BY <1>3, <1>4, <1>5, <1>6, <1>7

LEMMA ProtectionDecides ==
  ASSUME Deciding, NEW from \in Protecting, ApplyStandardProtection(from)
  PROVE  Decided
<1>1. pc = from /\ Quiet /\ pc \in Stage \ {"mid", "entry"}
  BY DEF ApplyStandardProtection, Protecting, Stage
<1>2. TypeOK /\ snap # NoPos /\ state \in State /\ snap \in Broker /\ snap.id # 0
  BY SnapIsPosition, StateIsState DEF Deciding
<1>3. CASE Pending(state, snap) /\ MaybeExecutePending(state, from) /\ UNCHANGED trigger
  BY <1>1, <1>2, <1>3, UnchangedGrows, StateIsGood, PendingEnds DEF Decided
<1>4. CASE ExitBracket(state, from) /\ UNCHANGED trigger
  BY <1>1, <1>2, <1>4, UnchangedGrows, StateIsGood, BracketEnds DEF Decided
<1>5. ASSUME NEW px \in HardPrice, StandardProtection(LockHardStop(state, snap, px), from)
      PROVE  Decided
  <2> DEFINE st == LockHardStop(state, snap, px)
  <2>1. st \in State /\ Kept(state, st) /\ SameIntents(state, st)
    BY <1>2, LockType DEF Kept, IntentKept, SameIntents
  <2> HIDE DEF st
  <2>2. StandardProtection(st, from)
    BY <1>5 DEF st
  <2> QED
    BY <1>1, <2>1, <2>2, StandardEnds DEF Decided
<1> QED
  BY <1>3, <1>4, <1>5 DEF ApplyStandardProtection

\* A state that differs from the present one in what no invariant looks at.
LEMMA MarkedIsGood ==
  ASSUME Deciding, Grows, NEW st \in State,
         st.id = state.id, st.latch = state.latch, st.conf = state.conf, st.hardId = state.hardId,
         st.hardPx = state.hardPx, st.or5 = state.or5, st.pend = state.pend,
         st.notBefore = state.notBefore
  PROVE  Good(st)
BY SameIsGood DEF Kept, IntentKept, SameIntents

LEMMA SavedState == Deciding /\ UNCHANGED file => Save(state)
<1> SUFFICES ASSUME Deciding, UNCHANGED file PROVE file' = [file EXCEPT ![me] = file[me]]
  BY DEF Save, state
<1>1. file \in [Node -> State]
  BY DEF Deciding, TypeOK
<1> QED
  BY <1>1

\* A decision that records nothing.
LEMMA PlainDecides ==
  ASSUME Deciding, Quiet, UNCHANGED trigger, NEW st, Good(st),
         pc \in Stage \ {"mid", "entry"},
         (Save(st) /\ Continue(pc)) \/ ClosePosition(st, "OTHER", pc)
  PROVE  Decided
<1>1. Grows
  BY UnchangedGrows
<1>2. CASE Save(st) /\ Continue(pc)
  BY <1>1, <1>2, ContinueEnds DEF Decided
<1>3. CASE ClosePosition(st, "OTHER", pc)
  <2>1. "OTHER" \in Reason /\ "OTHER" \notin Rule
    BY DEF Reason, Rule
  <2> QED
    BY <1>1, <1>3, <2>1, CloseEnds DEF Decided
<1> QED
  BY <1>2, <1>3

LEMMA NewBarDecides ==
  ASSUME Deciding, NewBar
  PROVE  Decided
<1>1. Quiet /\ UNCHANGED trigger /\ pc = "bar" /\ pc \in Stage \ {"mid", "entry"}
  BY DEF NewBar, Stage
<1>2. Good(state)
  BY <1>1, StateIsGood, UnchangedGrows
<1>3. (Save(state) /\ Continue(pc)) \/ ClosePosition(state, "OTHER", pc)
  BY <1>1, SavedState DEF NewBar
<1> QED
  BY <1>1, <1>2, <1>3, PlainDecides

LEMMA OpenActionDecides ==
  ASSUME Deciding, OpenAction
  PROVE  Decided
<1> DEFINE done == [state EXCEPT !.lastOpen = Day(clock)]
<1>1. Quiet /\ UNCHANGED trigger /\ pc = "open" /\ pc \in Stage \ {"mid", "entry"}
  BY DEF OpenAction, Stage
<1>2. Grows /\ Good(state) /\ state \in State
  BY <1>1, StateIsGood, UnchangedGrows DEF Good
<1>3. /\ done \in State /\ done.id = state.id /\ done.latch = state.latch /\ done.conf = state.conf
      /\ done.hardId = state.hardId /\ done.hardPx = state.hardPx /\ done.or5 = state.or5
      /\ done.pend = state.pend /\ done.notBefore = state.notBefore
  <2>1. Day(clock) \in Int
    BY DayIsNat DEF Deciding
  <2> QED
    BY <1>2, <2>1 DEF State
<1> HIDE DEF done
<1>4. Good(done)
  BY <1>2, <1>3, MarkedIsGood
<1>5. \/ Save(state) /\ Continue(pc)
      \/ Save(done) /\ Continue(pc)
      \/ ClosePosition(state, "OTHER", pc)
  BY <1>1 DEF OpenAction, done
<1> QED
  BY <1>1, <1>2, <1>4, <1>5, PlainDecides

LEMMA CloseActionDecides ==
  ASSUME Deciding, CloseAction
  PROVE  Decided
<1> DEFINE done(be) == [state EXCEPT !.be = be, !.lastClose = Day(clock)]
<1>1. Quiet /\ UNCHANGED trigger /\ pc = "close" /\ pc \in Stage \ {"mid", "entry"}
  BY DEF CloseAction, Stage
<1>2. Grows /\ Good(state) /\ state \in State
  BY <1>1, StateIsGood, UnchangedGrows DEF Good
<1>3. ASSUME NEW be \in BOOLEAN
      PROVE  /\ done(be) \in State /\ done(be).id = state.id /\ done(be).latch = state.latch
             /\ done(be).conf = state.conf /\ done(be).hardId = state.hardId
             /\ done(be).hardPx = state.hardPx /\ done(be).or5 = state.or5 /\ done(be).pend = state.pend
             /\ done(be).notBefore = state.notBefore
  <2>1. Day(clock) \in Int
    BY DayIsNat DEF Deciding
  <2> QED
    BY <1>2, <2>1 DEF State
<1> HIDE DEF done
<1>4. \A be \in BOOLEAN : Good(done(be))
  BY <1>2, <1>3, MarkedIsGood
<1>5. \/ Save(state) /\ Continue(pc)
      \/ \E be \in BOOLEAN : Save(done(be)) /\ Continue(pc)
      \/ ClosePosition(state, "OTHER", pc)
  BY <1>1 DEF CloseAction, done
<1> QED
  BY <1>1, <1>2, <1>4, <1>5, PlainDecides

LEMMA BreakEvenExitDecides ==
  ASSUME Deciding, BreakEvenExit
  PROVE  Decided
<1>1. Quiet /\ UNCHANGED trigger /\ pc = "bh" /\ pc \in Stage \ {"mid", "entry"}
  BY DEF BreakEvenExit, Stage
<1>2. Good(state)
  BY <1>1, StateIsGood, UnchangedGrows
<1>3. (Save(state) /\ Continue(pc)) \/ ClosePosition(state, "OTHER", pc)
  BY <1>1 DEF BreakEvenExit
<1> QED
  BY <1>1, <1>2, <1>3, PlainDecides

LEMMA AuthorizedOr5Decides ==
  ASSUME Deciding, NEW from \in {"start", "or5"}, AuthorizedOr5(from)
  PROVE  Decided
<1>1. Quiet /\ UNCHANGED trigger /\ pc = from /\ pc \in Stage \ {"mid", "entry"}
  BY DEF AuthorizedOr5, Stage
<1>2. Good(state) /\ Grows
  BY <1>1, StateIsGood, UnchangedGrows
<1>3. snap.id # 0
  BY SnapIsPosition DEF Deciding
<1>4. Ends(from)
  BY <1>2, <1>3, Or5Ends DEF AuthorizedOr5
<1> QED
  BY <1>1, <1>2, <1>4 DEF Decided

LEMMA RegularBarDecides ==
  ASSUME Deciding, RegularBar
  PROVE  Decided
<1>1. Quiet /\ pc = "regular" /\ pc \in Stage \ {"mid", "entry"}
  BY DEF RegularBar, Stage
<1>2. snap.id \in Position /\ snap.id # 0 /\ TypeOK /\ LastRecorded(trigger)
  BY SnapIsPosition DEF Deciding
<1>4. trigger \in Triggers /\ LastRecorded(trigger) /\ Authorised(state, trigger)
  BY DEF Deciding, TypeOK, Triggers
<1>5. ASSUME Grows PROVE Good(state) /\ Good(ApplyTrigger(state, trigger))
  BY <1>4, <1>5, StateIsGood, GoodApplied DEF Grows
<1>6. CASE Save(state) /\ Resume("regular", TRUE, pos) /\ call' = NoCall /\ UNCHANGED trigger
  <2>1. Grows
    BY <1>6, UnchangedGrows
  <2>2. Ends(pc)
    BY <1>1, <1>5, <1>6, <2>1, GoodIsSaved DEF Ends, Outcome
  <2> QED
    BY <1>1, <2>1, <2>2 DEF Decided
<1>7. CASE Save(state) /\ Continue("regular") /\ UNCHANGED trigger
  BY <1>1, <1>5, <1>7, UnchangedGrows, PlainDecides
<1>8. CASE ExecuteOr5(ApplyTrigger(state, trigger), "regular") /\ UNCHANGED trigger
  BY <1>1, <1>2, <1>5, <1>8, UnchangedGrows, Or5Ends DEF Decided
<1>9. ASSUME trigger' = RecordTrigger(snap.id, "OR5"),
             \/ Save(ApplyTrigger(state, trigger)) /\ Continue("regular")
             \/ ExecuteOr5(ApplyTrigger(ApplyTrigger(state, trigger), trigger'), "regular")
      PROVE  Decided
  <2>1. Grows
    BY <1>2, <1>9, RecordTriggerType DEF Grows, Rule
  <2> DEFINE told == ApplyTrigger(state, trigger)
  <2>2. Good(told)
    BY <1>5, <2>1
  <2> HIDE DEF told
  <2>3. Good(ApplyTrigger(told, trigger'))
    <3>1. More(trigger', trigger')
      BY DEF More
    <3> QED
      BY <2>1, <2>2, <3>1, GoodApplied DEF Good, Grows
  <2>4. CASE Save(told) /\ Continue("regular")
    BY <1>1, <2>1, <2>2, <2>4, ContinueEnds DEF Decided
  <2>5. CASE ExecuteOr5(ApplyTrigger(told, trigger'), "regular")
    BY <1>1, <1>2, <2>1, <2>3, <2>5, Or5Ends DEF Decided
  <2> QED
    BY <1>9, <2>4, <2>5 DEF told
<1> QED
  BY <1>6, <1>7, <1>8, <1>9 DEF RegularBar

LEMMA EveryDecisionDecides ==
  ASSUME Deciding,
         \/ AuthorizedOr5("start") \/ ApplyStandardProtection("protectStart")
         \/ ApplyStandardProtection("adopt") \/ NewBar \/ AuthorizedOr5("or5") \/ OpenAction
         \/ CloseAction \/ RegularBar \/ BreakEvenExit \/ ApplyStandardProtection("protect")
  PROVE  Decided
BY AuthorizedOr5Decides, ProtectionDecides, NewBarDecides, OpenActionDecides, CloseActionDecides,
   RegularBarDecides, BreakEvenExitDecides DEF Protecting

LEMMA ResumeShape ==
  ASSUME TypeOK, snap # NoPos, NEW from \in Stage, NEW sent \in BOOLEAN, NEW seen, Resume(from, sent, seen)
  PROVE  /\ pc' \in Stage \cup {"top"} /\ pc' # "entry"
         /\ snap' \in {NoPos, snap, seen}
         /\ pc' \notin {"top", "mid"} => snap' # NoPos
         /\ from \in Protecting => snap' \in {NoPos, seen}
<1>1. After(from, sent) \in (Stage \cup {"top"}) \ {"entry"}
  BY DEF After, Stage
<1>2. After("adopt", sent) = "bar" /\ After("protect", sent) = "top" /\ After("protectStart", sent) = "top"
  BY DEF After
<1> QED
  BY <1>1, <1>2 DEF Resume, Stage, Protecting

-----------------------------------------------------------------------------
(* The type invariant *)

\* Each state file is well formed, knows only positions the broker has had,
\* and holds only intents the backend has recorded.
Files == \A n \in Node : Authorised(file[n], trigger) /\ file[n].id \in used \cup {0}

KnownIds == (pos # NoPos => pos.id \in used) /\ (snap # NoPos => snap.id \in used)

TypeInv == TypeOK /\ LastRecorded(trigger) /\ Files /\ KnownIds

LEMMA FilesSaved ==
  ASSUME TypeInv, Grows, used \subseteq used', NEW n \in Node, NEW st \in State,
         st.id \in used' \cup {0}, Authorised(st, trigger'), file' = [file EXCEPT ![n] = st]
  PROVE  file' \in [Node -> State] /\ Files'
<1>1. file \in [Node -> State]
  BY DEF TypeInv, TypeOK
<1>2. file' \in [Node -> State] /\ file'[n] = st /\ \A m \in Node \ {n} : file'[m] = file[m]
  BY <1>1
<1>3. ASSUME NEW m \in Node PROVE Authorised(file'[m], trigger') /\ file'[m].id \in used' \cup {0}
  <2>1. CASE m = n
    BY <1>2, <2>1
  <2>2. CASE m # n
    <3>1. file'[m] = file[m] /\ file[m] \in State
      BY <1>1, <1>2, <2>2
    <3>3. Authorised(file[m], trigger) /\ file[m].id \in used \cup {0}
      BY DEF TypeInv, Files
    <3>4. Authorised(file[m], trigger')
      BY <3>1, <3>3, AuthorisedMore DEF Grows
    <3> QED
      BY <3>1, <3>3, <3>4
  <2> QED
    BY <2>1, <2>2
<1> QED
  BY <1>2, <1>3 DEF Files

LEMMA FilesKept ==
  ASSUME TypeInv, used \subseteq used', UNCHANGED <<file, trigger>>
  PROVE  file' \in [Node -> State] /\ Files'
BY DEF TypeInv, TypeOK, Files, Authorised

LEMMA UnchangedTrigger == TypeInv /\ UNCHANGED trigger => Grows
BY DEF TypeInv, TypeOK, Grows, Triggers, LastRecorded, More

LEMMA CanDecide == TypeInv /\ pc \notin {"off", "top", "mid", "entry"} => Deciding
<1> SUFFICES ASSUME TypeInv, pc \notin {"off", "top", "mid", "entry"} PROVE Deciding
  OBVIOUS
<1>1. TypeOK /\ me \in Node /\ snap # NoPos
  BY DEF TypeInv, TypeOK
<1>2. Authorised(state, trigger)
  BY <1>1 DEF TypeInv, Files, state
<1> QED
  BY <1>1, <1>2 DEF TypeInv, Deciding

\* What a decision leaves, for the invariants.
LEMMA DecidedShape ==
  ASSUME TypeInv, Decided
  PROVE  /\ Deciding
         /\ pc' \in Stage \cup {"top", "sell", "modify"} /\ pc' # "entry"
         /\ snap' \in {NoPos, snap, pos}
         /\ pc' \notin {"top", "mid"} => snap' # NoPos
         /\ call' \in Call
         /\ pc' = "sell" => /\ snap' = snap
                            /\ Delayed /\ call'.reason \in Rule => call'.reason \in trigger'[snap.id].rules
         /\ pc' = "modify" => /\ snap' = snap /\ call'.from \in Protecting
                              /\ state.conf /\ snap.sl < bid => call'.sl >= snap.sl
<1>1. pc \in Stage \ {"mid", "entry"} /\ Deciding /\ TypeOK /\ snap # NoPos
  BY CanDecide DEF Decided, Stage, TypeInv, Deciding
<1>2. Outcome(pc) /\ NoCall \in Call
  BY DEF Decided, Ends, NoCall, Call, Stage
<1>3. "sell" \notin Stage /\ "modify" \notin Stage /\ "top" \notin Stage /\ Protecting \subseteq Stage
  BY DEF Stage, Protecting
<1>4. CASE \E sent \in BOOLEAN : Resume(pc, sent, pos) /\ call' = NoCall
  BY <1>1, <1>2, <1>3, <1>4, ResumeShape
<1>5. ASSUME NEW reason \in Reason, pc' = "sell", UNCHANGED snap,
             call' = [NoCall EXCEPT !.from = pc, !.reason = reason],
             Delayed /\ reason \in Rule => reason \in trigger'[snap.id].rules
      PROVE  /\ call' \in Call /\ call'.reason = reason
  BY <1>1, <1>5 DEF NoCall, Call
<1>6. ASSUME NEW sl \in Nat, NEW tp \in Nat, call' = [from |-> pc, reason |-> "", sl |-> sl, tp |-> tp],
             pc \in Protecting
      PROVE  call' \in Call /\ call'.sl = sl /\ call'.from = pc
  BY <1>3, <1>6 DEF Call
<1>7. CASE \E reason \in Reason :
             /\ pc' = "sell" /\ UNCHANGED snap
             /\ call' = [NoCall EXCEPT !.from = pc, !.reason = reason]
             /\ Delayed /\ reason \in Rule => reason \in trigger'[snap.id].rules
  BY <1>1, <1>5, <1>7
<1>8. CASE \E sl, tp \in Nat :
             /\ pc' = "modify" /\ UNCHANGED snap
             /\ call' = [from |-> pc, reason |-> "", sl |-> sl, tp |-> tp]
             /\ pc \in Protecting
             /\ state.conf /\ snap.sl < bid => sl >= snap.sl
  BY <1>1, <1>6, <1>8
<1> QED
  BY <1>2, <1>4, <1>7, <1>8 DEF Outcome

\* How the position at the broker may change in a step: it goes, it is opened
\* under an identifier not given before, or its stops are set.
PosMoves ==
  /\ pos' \in Broker \cup {NoPos}
  /\ pos' # NoPos => pos'.id \in used'
  /\ \/ pos' \in {pos, NoPos}
     \/ pos' # NoPos /\ pos'.id \in used' \ used
     \/ pos # NoPos /\ pos' # NoPos /\ pos'.id = pos.id

\* The steps that neither read nor write a state file.
Outside ==
  \/ NoEntry \/ AbortCycle \/ Suspend \/ Crash \/ PriceMoves \/ TimePasses
  \/ DealAppears \/ OperatorOpens \/ OperatorCloses \/ OperatorTightens

OutsideShape ==
  /\ UNCHANGED <<file, me, trigger, tracked, lost>>
  /\ clock' \in Instant /\ bid' \in Price /\ moves' \in 0..MaxMoves /\ events' \in 0..MaxEvents
  /\ used \subseteq used' /\ used' \subseteq Position
  /\ visible \subseteq visible' /\ visible' \subseteq used'
  /\ PosMoves
  /\ \/ pc' = pc /\ snap' = snap /\ call' = call
     \/ pc' \in {"off", "top"} /\ snap' \in {snap, NoPos} /\ call' \in {call, NoCall}

LEMMA EventType == TypeOK /\ Event => events' \in 0..MaxEvents
<1> SUFFICES ASSUME TypeOK, Event PROVE events' \in 0..MaxEvents
  OBVIOUS
<1>1. MaxEvents \in Nat
  BY Constants
<1>2. events \in 0..MaxEvents
  BY DEF TypeOK
<1> QED
  BY <1>1, <1>2 DEF Event

LEMMA BrokerRecord ==
  ASSUME TypeOK, NEW p \in Position, NEW sl \in Nat, NEW tp \in Nat
  PROVE  /\ [id |-> p, day |-> Day(clock), sl |-> sl, tp |-> tp] \in Broker
         /\ [id |-> p, day |-> Day(clock), sl |-> sl, tp |-> tp] # NoPos
BY DayIsNat, Constants DEF Broker

LEMMA StopsSet ==
  ASSUME TypeOK, pos # NoPos, NEW sl \in Nat, NEW tp \in Nat
  PROVE  LET new == [pos EXCEPT !.sl = sl, !.tp = tp]
         IN  new \in Broker /\ new # NoPos /\ new.id = pos.id /\ new.sl = sl
BY Constants DEF TypeOK, Broker

LEMMA StopSet ==
  ASSUME TypeOK, pos # NoPos, NEW sl \in Nat
  PROVE  LET new == [pos EXCEPT !.sl = sl]
         IN  new \in Broker /\ new # NoPos /\ new.id = pos.id /\ new.sl = sl
BY Constants DEF TypeOK, Broker

LEMMA OpenIsSnap == OpenId = snap.id /\ TypeOK /\ snap # NoPos => pos # NoPos /\ pos.id = snap.id
BY SnapIsPosition DEF OpenId

LEMMA Opened ==
  ASSUME TypeInv, NEW p \in Position \ used, NEW sl \in Nat,
         pos' = [id |-> p, day |-> Day(clock), sl |-> sl, tp |-> 0], used' = used \cup {p}
  PROVE  /\ used \subseteq used' /\ used' \subseteq Position /\ PosMoves
         /\ pos' # NoPos /\ pos'.sl = sl /\ pos'.id = p
<1>1. pos' \in Broker /\ pos' # NoPos /\ used \subseteq Position
  BY BrokerRecord DEF TypeInv, TypeOK
<1> QED
  BY <1>1 DEF PosMoves

LEMMA OutsideHasShape ==
  ASSUME TypeInv, Outside
  PROVE  OutsideShape
<1>1. /\ TypeOK /\ clock \in Instant /\ bid \in Price /\ moves \in 0..MaxMoves /\ events \in 0..MaxEvents
      /\ used \subseteq Position /\ visible \subseteq used /\ pos \in Broker \cup {NoPos}
      /\ call \in Call /\ (pos # NoPos => pos.id \in used)
  BY DEF TypeInv, TypeOK, KnownIds
<1>2. UNCHANGED <<pos, used>> => PosMoves
  BY <1>1 DEF PosMoves
<1>3. pos' = NoPos => PosMoves
  BY DEF PosMoves
<1>4. CASE NoEntry
  BY <1>1, <1>2, <1>4 DEF NoEntry, Quiet, Still, OutsideShape
<1>5. CASE AbortCycle
  BY <1>1, <1>2, <1>5, EventType DEF AbortCycle, Still, OutsideShape
<1>6. CASE Suspend
  BY <1>1, <1>2, <1>6, EventType DEF Suspend, Still, OutsideShape
<1>7. CASE Crash
  <2>1. PosMoves /\ used \subseteq used' /\ used' \subseteq Position
    <3>1. CASE UNCHANGED <<pos, used>>
      BY <1>1, <1>2, <3>1
    <3>2. CASE pos' = NoPos /\ UNCHANGED used
      BY <1>1, <1>3, <3>2
    <3>3. CASE /\ pc = "modify" /\ OpenId = snap.id
               /\ pos' = [pos EXCEPT !.sl = call.sl, !.tp = call.tp] /\ UNCHANGED used
      <4>1. pos # NoPos
        BY <1>1, <3>3, OpenIsSnap DEF TypeOK
      <4>2. call.sl \in Nat /\ call.tp \in Nat
        BY <1>1 DEF Call
      <4>3. pos' \in Broker /\ pos' # NoPos /\ pos'.id = pos.id
        BY <1>1, <3>3, <4>1, <4>2, StopsSet
      <4> QED
        BY <1>1, <3>3, <4>1, <4>3 DEF PosMoves
    <3>4. CASE \E p \in Position \ (used \cup Manual), px \in {h \in HardPrice : h < bid} :
                 pos' = Bought(p, px) /\ used' = used \cup {p}
      BY <3>4, Constants, Opened DEF Bought
    <3> QED
      BY <1>7, <3>1, <3>2, <3>3, <3>4 DEF Crash
  <2> QED
    BY <1>1, <1>7, <2>1, EventType DEF Crash, OutsideShape
<1>8. CASE PriceMoves
  <2>1. moves' \in 0..MaxMoves
    BY <1>1, <1>8, Constants DEF PriceMoves
  <2>2. PosMoves
    BY <1>1, <1>8 DEF PriceMoves, PosMoves
  <2> QED
    BY <1>1, <1>8, <2>1, <2>2 DEF PriceMoves, OutsideShape
<1>9. CASE TimePasses
  BY <1>1, <1>2, <1>9 DEF TimePasses, OutsideShape
<1>10. CASE DealAppears
  <2>1. PICK p \in used \ visible :
          /\ visible' = visible \cup {p}
          /\ IF p = OpenId THEN Event ELSE UNCHANGED events
    BY <1>10 DEF DealAppears
  <2>2. events' \in 0..MaxEvents
    BY <1>1, <2>1, EventType
  <2> QED
    BY <1>1, <1>2, <1>10, <2>1, <2>2 DEF DealAppears, OutsideShape
<1>11. CASE OperatorOpens
  <2>1. PICK p \in Manual \ used, sl \in {0, Tsl} :
          /\ pos' = [id |-> p, day |-> Day(clock), sl |-> sl, tp |-> 0]
          /\ used' = used \cup {p}
    BY <1>11 DEF OperatorOpens
  <2>2. p \in Position \ used /\ sl \in Nat
    BY <2>1, Constants, PositionAssumption DEF PositionAssumption
  <2> QED
    BY <1>1, <1>11, <2>1, <2>2, Opened, EventType DEF OperatorOpens, OutsideShape
<1>12. CASE OperatorCloses
  BY <1>1, <1>3, <1>12, EventType DEF OperatorCloses, OutsideShape
<1>13. CASE OperatorTightens
  <2>1. PosMoves
    BY <1>1, <1>13, StopSet, Constants DEF OperatorTightens, PosMoves
  <2> QED
    BY <1>1, <1>13, <2>1, EventType DEF OperatorTightens, OutsideShape
<1> QED
  BY <1>4, <1>5, <1>6, <1>7, <1>8, <1>9, <1>10, <1>11, <1>12, <1>13 DEF Outside

LEMMA RecoverShape ==
  ASSUME NEW st \in State, NEW p \in Broker, NEW px \in HardPrice, NEW be \in BOOLEAN, NEW repair
  PROVE  LET new == Recover(st, p, px, be, repair)
         IN  /\ new \in State /\ new.id = p.id
             /\ st.id # p.id => new.or5 = 0 /\ new.pend = 0
             /\ st.id = p.id => SameIntents(st, new)
             /\ st.id = p.id /\ HardStopMatches(st, p) /\ p.id \notin Manual
                  => new.hardId = st.hardId /\ new.hardPx = st.hardPx
<1>1. CASE st.id = p.id
  BY <1>1, ReconcileType DEF Recover, SameIntents
<1>2. CASE st.id # p.id
  BY <1>2, AdoptType DEF Recover
<1> QED
  BY <1>1, <1>2

LEMMA FinalizedShape ==
  ASSUME NEW st \in State
  PROVE  /\ Finalized(st) \in State /\ Finalized(st).id = 0
         /\ Finalized(st).or5 = 0 /\ Finalized(st).pend = 0
BY ClearType DEF Finalized, State

\* A state that differs in what a sent request records.
Marked(st, new) ==
  /\ new \in State /\ new.id = st.id /\ new.latch = st.latch /\ new.hardId = st.hardId
  /\ new.hardPx = st.hardPx /\ new.or5 = st.or5 /\ new.pend = st.pend
  /\ new.notBefore = st.notBefore

\* What the answer to a request leaves.
SentShape ==
  /\ UNCHANGED <<clock, bid, moves, events, used, visible, me, tracked, lost, trigger>>
  /\ call' = NoCall
  /\ pc' \in Stage \cup {"top"} /\ pc' # "entry"
  /\ snap' \in {NoPos, snap, pos'}
  /\ pc' \notin {"top", "mid"} => snap' # NoPos
  /\ PosMoves
  /\ \E st : Marked(state, st) /\ Save(st)

LEMMA SameMarked == TypeInv => Marked(state, state)
BY StateIsState DEF TypeInv, Marked

LEMMA ModifySendShape ==
  ASSUME TypeInv, ModifySend
  PROVE  SentShape /\ (call.from \in Protecting => snap' \in {NoPos, pos'})
<1> DEFINE sl == IF call.sl # snap.sl /\ call.sl >= bid - Distance THEN bid - Distance - 1 ELSE call.sl
           recorded == [state EXCEPT !.conf = TRUE]
           moved == [pos EXCEPT !.sl = sl, !.tp = call.tp]
<1>1. TypeOK /\ pc = "modify" /\ snap # NoPos /\ state \in State /\ call \in Call /\ call.from \in Stage
      /\ pos \in Broker \cup {NoPos} /\ (pos # NoPos => pos.id \in used)
  BY StateIsState DEF TypeInv, TypeOK, ModifySend, Call, KnownIds
<1>2. Marked(state, recorded)
  BY <1>1 DEF Marked, State
<1>3. sl \in Nat /\ call.tp \in Nat
  <2>1. bid \in Price /\ call.sl \in Nat /\ call.tp \in Nat
    BY <1>1 DEF TypeOK, Call
  <2>2. bid - Distance - 1 \in Nat
    BY <2>1, Constants
  <2> QED
    BY <2>1, <2>2
<1>4. UNCHANGED <<clock, bid, moves, events, used, visible, me, tracked, lost, trigger>>
  BY DEF ModifySend
<1> HIDE DEF sl
<1> HIDE DEF recorded
<1>5. ASSUME NEW st, Marked(state, st), Save(st), Continue(call.from), UNCHANGED pos
      PROVE  SentShape /\ (call.from \in Protecting => snap' \in {NoPos, pos'})
  <2>1. PosMoves
    BY <1>1, <1>4, <1>5 DEF PosMoves
  <2>2. Resume(call.from, FALSE, pos) /\ call' = NoCall
    BY <1>5 DEF Continue
  <2> QED
    BY <1>1, <1>4, <1>5, <2>1, <2>2, ResumeShape DEF SentShape
<1>6. ASSUME OpenId = snap.id, pos' = moved, Save(recorded), call' = NoCall,
             Resume(call.from, TRUE, moved)
      PROVE  SentShape /\ (call.from \in Protecting => snap' \in {NoPos, pos'})
  <2>1. pos # NoPos
    BY <1>1, <1>6, OpenIsSnap
  <2>2. pos' \in Broker /\ pos' # NoPos /\ pos'.id = pos.id
    BY <1>1, <1>3, <1>6, <2>1, StopsSet
  <2>3. PosMoves
    BY <1>1, <1>4, <2>1, <2>2 DEF PosMoves
  <2>4. Resume(call.from, TRUE, pos')
    BY <1>6
  <2>5. /\ pc' \in Stage \cup {"top"} /\ pc' # "entry"
        /\ snap' \in {NoPos, snap, pos'}
        /\ pc' \notin {"top", "mid"} => snap' # NoPos
        /\ call.from \in Protecting => snap' \in {NoPos, pos'}
    <3>1. ASSUME NEW seen, seen = pos', Resume(call.from, TRUE, seen)
          PROVE  /\ pc' \in Stage \cup {"top"} /\ pc' # "entry"
                 /\ snap' \in {NoPos, snap, seen}
                 /\ pc' \notin {"top", "mid"} => snap' # NoPos
                 /\ call.from \in Protecting => snap' \in {NoPos, seen}
      BY <1>1, <3>1, ResumeShape
    <3> QED
      BY <1>6, <3>1
  <2> QED
    BY <1>2, <1>4, <1>6, <2>3, <2>5 DEF SentShape
<1>7. CASE Save(recorded) /\ Continue(call.from) /\ UNCHANGED pos
  BY <1>2, <1>5, <1>7
<1>8. CASE Save(state) /\ Continue(call.from) /\ UNCHANGED pos
  BY <1>5, <1>8, SameMarked
<1> QED
  BY <1>6, <1>7, <1>8 DEF ModifySend, sl, recorded

LEMMA SellSendShape ==
  ASSUME TypeInv, SellSend
  PROVE  SentShape
<1> DEFINE marked == [state EXCEPT
             !.lastOpen  = IF call.from = "open" THEN Day(clock) ELSE @,
             !.lastClose = IF call.from = "close" THEN Day(clock) ELSE @]
<1>1. TypeOK /\ pc = "sell" /\ snap # NoPos /\ state \in State /\ call.from \in Stage
      /\ pos \in Broker \cup {NoPos} /\ (pos # NoPos => pos.id \in used)
  BY StateIsState DEF TypeInv, TypeOK, SellSend, Call, KnownIds
<1>2. Marked(state, marked)
  <2>1. Day(clock) \in Int
    BY <1>1, DayIsNat
  <2> QED
    BY <1>1, <2>1 DEF Marked, State
<1> HIDE DEF marked
<1>3. /\ UNCHANGED <<clock, bid, moves, events, used, visible, me, tracked, lost, trigger>>
      /\ call' = NoCall
  BY DEF SellSend
<1>4. ASSUME NEW st, Marked(state, st), Save(st), NEW sent \in BOOLEAN,
             NEW seen \in {NoPos, pos}, Resume(call.from, sent, seen), pos' = seen
      PROVE  SentShape
  <2>1. PosMoves
    BY <1>1, <1>3, <1>4 DEF PosMoves
  <2> QED
    BY <1>1, <1>3, <1>4, <2>1, ResumeShape DEF SentShape
<1>5. CASE pos' = NoPos /\ Save(marked) /\ Resume(call.from, TRUE, NoPos)
  BY <1>2, <1>4, <1>5
<1>6. CASE Save(marked) /\ Resume(call.from, TRUE, pos) /\ UNCHANGED pos
  BY <1>2, <1>4, <1>6
<1>7. CASE Save(state) /\ Resume(call.from, FALSE, pos) /\ UNCHANGED pos
  BY <1>4, <1>7, SameMarked
<1> QED
  BY <1>5, <1>6, <1>7 DEF SellSend, marked

LEMMA TypeFromParts ==
  ASSUME clock' \in Instant, bid' \in Price, moves' \in 0..MaxMoves, events' \in 0..MaxEvents,
         pos' \in Broker \cup {NoPos}, used' \subseteq Position, visible' \subseteq used',
         Grows, file' \in [Node -> State], me' \in Node,
         pc' \in Stage \cup {"off", "top", "sell", "modify"},
         snap' \in Broker \cup {NoPos}, call' \in Call,
         tracked' \in [Node -> SUBSET used'], lost' \subseteq used',
         pc' \notin {"off", "top", "mid", "entry"} => snap' # NoPos,
         Files', KnownIds'
  PROVE  TypeInv'
BY DEF TypeOK, TypeInv, Grows, Triggers

LEMMA OutsideKeepsType ==
  ASSUME TypeInv, Outside
  PROVE  TypeInv'
<1>1. OutsideShape
  BY OutsideHasShape
<1>2. TypeOK /\ KnownIds /\ NoCall \in Call
  BY DEF TypeInv, NoCall, Call, Stage
<1>3. Grows
  BY <1>1, UnchangedTrigger DEF OutsideShape
<1>4. file' \in [Node -> State] /\ Files'
  BY <1>1, FilesKept DEF OutsideShape
<1>5. pos' \in Broker \cup {NoPos} /\ KnownIds'
  BY <1>1, <1>2 DEF OutsideShape, PosMoves, KnownIds
<1>6. tracked' \in [Node -> SUBSET used'] /\ lost' \subseteq used'
  BY <1>1, <1>2 DEF OutsideShape, TypeOK
<1>7. /\ pc' \in Stage \cup {"off", "top", "sell", "modify"}
      /\ snap' \in Broker \cup {NoPos} /\ call' \in Call
      /\ pc' \notin {"off", "top", "mid", "entry"} => snap' # NoPos
  BY <1>1, <1>2 DEF OutsideShape, TypeOK
<1>8. /\ clock' \in Instant /\ bid' \in Price /\ moves' \in 0..MaxMoves /\ events' \in 0..MaxEvents
      /\ used' \subseteq Position /\ visible' \subseteq used' /\ me' \in Node
  BY <1>1, <1>2 DEF OutsideShape, TypeOK
<1> QED
  BY <1>3, <1>4, <1>5, <1>6, <1>7, <1>8, TypeFromParts

LEMMA DecidedKeepsType ==
  ASSUME TypeInv, Decided
  PROVE  TypeInv'
<1>1. /\ UNCHANGED <<clock, bid, moves, events, pos, used, visible, me, tracked, lost>>
      /\ Grows /\ TypeOK /\ KnownIds
  BY DEF Decided, Quiet, Still, TypeInv
<1>2. PICK st : Saved(st) /\ Save(st)
  BY DEF Decided, Ends
<1>3. st \in State /\ st.id = state.id /\ Authorised(st, trigger') /\ me \in Node
  BY <1>1, <1>2 DEF Saved, TypeOK
<1>4. st.id \in used' \cup {0}
  BY <1>1, <1>3 DEF TypeInv, Files, state
<1>5. file' \in [Node -> State] /\ Files'
  BY <1>1, <1>2, <1>3, <1>4, FilesSaved DEF Save
<1>6. /\ pc' \in Stage \cup {"top", "sell", "modify"} /\ snap' \in {NoPos, snap, pos}
      /\ pc' \notin {"top", "mid"} => snap' # NoPos
      /\ call' \in Call
  BY DecidedShape
<1>7. KnownIds' /\ snap' \in Broker \cup {NoPos}
  BY <1>1, <1>6 DEF KnownIds, TypeOK
<1> QED
  BY <1>1, <1>5, <1>6, <1>7, TypeFromParts DEF TypeOK

LEMMA SentKeepsType ==
  ASSUME TypeInv, SentShape
  PROVE  TypeInv'
<1>1. /\ UNCHANGED <<clock, bid, moves, events, used, visible, me, tracked, lost, trigger>>
      /\ Grows /\ TypeOK /\ KnownIds /\ call' \in Call
  BY UnchangedTrigger DEF SentShape, TypeInv, NoCall, Call, Stage
<1>2. PICK st : Marked(state, st) /\ Save(st)
  BY DEF SentShape
<1>3. /\ st \in State /\ st.id = state.id /\ me \in Node /\ st.or5 = state.or5
      /\ st.pend = state.pend /\ st.notBefore = state.notBefore /\ st.latch = state.latch
  BY <1>1, <1>2 DEF Marked, TypeOK
<1>4. Authorised(state, trigger) /\ state.id \in used \cup {0}
  BY <1>3 DEF TypeInv, Files, state
<1>5. Authorised(st, trigger') /\ st.id \in used' \cup {0}
  BY <1>1, <1>3, <1>4 DEF Authorised
<1>6. file' \in [Node -> State] /\ Files'
  BY <1>1, <1>2, <1>3, <1>5, FilesSaved DEF Save
<1>7. KnownIds' /\ snap' \in Broker \cup {NoPos} /\ pos' \in Broker \cup {NoPos}
  BY <1>1 DEF KnownIds, TypeOK, SentShape, PosMoves
<1> QED
  BY <1>1, <1>6, <1>7, TypeFromParts DEF TypeOK, SentShape

\* What taking a position over writes into the books of what was managed.
LEMMA TakeOverType ==
  ASSUME TypeInv, NEW n \in Node, pos # NoPos, TakeOver(n, pos), UNCHANGED used
  PROVE  tracked' \in [Node -> SUBSET used'] /\ lost' \subseteq used'
<1>1. /\ tracked \in [Node -> SUBSET used] /\ lost \subseteq used /\ pos.id \in used
      /\ file[n].id \in used \cup {0}
  BY DEF TypeInv, TypeOK, KnownIds, Files
<1> QED
  BY <1>1 DEF TakeOver

\* What looking at the broker may make of the state file of node n.
Looked(n) ==
  \E st \in State :
    /\ file' = [file EXCEPT ![n] = st]
    /\ Authorised(st, trigger)
    /\ \/ st = file[n]
       \/ pos = NoPos /\ file[n].id \in visible /\ st.id = 0
       \/ /\ pos # NoPos /\ st.id = pos.id
          /\ file[n].id = pos.id => /\ file[n].latch # "" => st.latch = file[n].latch
                                    /\ IntentKept(file[n], st)
                                    /\ HardStopMatches(file[n], pos) /\ pos.id \notin Manual
                                         => st.hardId = file[n].hardId /\ st.hardPx = file[n].hardPx

LEMMA LookedUnchanged ==
  ASSUME TypeInv, NEW n \in Node, UNCHANGED file
  PROVE  Looked(n)
<1>1. file[n] \in State /\ file' = [file EXCEPT ![n] = file[n]] /\ Authorised(file[n], trigger)
  BY DEF TypeInv, TypeOK, Files
<1> QED
  BY <1>1 DEF Looked

LEMMA LookedFinalized ==
  ASSUME TypeInv, NEW n \in Node, pos = NoPos, file[n].id \in visible,
         file' = [file EXCEPT ![n] = Finalized(file[n])]
  PROVE  Looked(n)
<1>1. file[n] \in State
  BY DEF TypeInv, TypeOK
<1>2. Finalized(file[n]) \in State /\ Finalized(file[n]).id = 0 /\ Authorised(Finalized(file[n]), trigger)
  BY <1>1, FinalizedShape DEF Authorised
<1> QED
  BY <1>2 DEF Looked

LEMMA LookedRecovered ==
  ASSUME TypeInv, NEW n \in Node, pos # NoPos, NEW px \in HardPrice, NEW be \in BOOLEAN, NEW repair,
         NEW told \in BOOLEAN,
         file' = [file EXCEPT ![n] = IF told THEN ApplyTrigger(Recover(file[n], pos, px, be, repair), trigger)
                                     ELSE Recover(file[n], pos, px, be, repair)]
  PROVE  Looked(n)
<1> DEFINE st == Recover(file[n], pos, px, be, repair)
           new == IF told THEN ApplyTrigger(st, trigger) ELSE st
<1>1. /\ file[n] \in State /\ pos \in Broker /\ Authorised(file[n], trigger)
      /\ trigger \in Triggers /\ LastRecorded(trigger)
  BY DEF TypeInv, TypeOK, Files, Triggers
<1>2. /\ st \in State /\ st.id = pos.id
      /\ file[n].id # pos.id => st.or5 = 0 /\ st.pend = 0
      /\ file[n].id = pos.id => SameIntents(file[n], st)
      /\ file[n].id = pos.id /\ HardStopMatches(file[n], pos) /\ pos.id \notin Manual
           => st.hardId = file[n].hardId /\ st.hardPx = file[n].hardPx
  BY <1>1, RecoverShape
<1> HIDE DEF st
<1>3. Authorised(st, trigger) /\ IntentKept(st, st)
  BY <1>1, <1>2 DEF Authorised, SameIntents, IntentKept
<1>4. /\ new \in State /\ new.id = st.id /\ (st.latch # "" => new.latch = st.latch)
      /\ IntentKept(st, new)
      /\ new.hardId = st.hardId /\ new.hardPx = st.hardPx /\ Authorised(new, trigger)
  <2>1. CASE told
    BY <1>1, <1>2, <1>3, <2>1, ApplyTriggerType
  <2>2. CASE ~told
    BY <1>2, <1>3, <2>2
  <2> QED
    BY <2>1, <2>2
<1>5. file' = [file EXCEPT ![n] = new]
  BY DEF st
<1> HIDE DEF new
<1>6. file[n].id = pos.id => (file[n].latch # "" => new.latch = file[n].latch) /\ IntentKept(file[n], new)
  BY <1>2, <1>4 DEF SameIntents, IntentKept
<1> QED
  BY <1>2, <1>4, <1>5, <1>6 DEF Looked

LEMMA StartLooks ==
  ASSUME TypeInv, NEW n \in Node, Start(n)
  PROVE  Looked(n)
<1>1. CASE pos = NoPos /\ UNCHANGED file
  BY <1>1, LookedUnchanged
<1>2. CASE pos = NoPos /\ file[n].id \in visible /\ file' = [file EXCEPT ![n] = Finalized(file[n])]
  BY <1>2, LookedFinalized
<1>3. ASSUME pos # NoPos, NEW px \in HardPrice, NEW be \in BreakEvenKnown(file[n], pos),
             NEW repair \in BOOLEAN, NEW told \in BOOLEAN,
             LET st == Recover(file[n], pos, px, be, repair)
             IN  file' = [file EXCEPT ![n] = IF told THEN ApplyTrigger(st, trigger) ELSE st]
      PROVE  Looked(n)
  <2>1. be \in BOOLEAN
    BY DEF BreakEvenKnown
  <2> QED
    BY <1>3, <2>1, LookedRecovered
<1> QED
  BY <1>1, <1>2, <1>3 DEF Start

LEMMA CycleTopLooks ==
  ASSUME TypeInv, CycleTop
  PROVE  Looked(me)
<1>1. me \in Node
  BY DEF TypeInv, TypeOK
<1>2. CASE UNCHANGED file
  BY <1>1, <1>2, LookedUnchanged
<1>3. CASE pos = NoPos /\ Finalize
  BY <1>1, <1>3, LookedFinalized DEF Finalize, Save, state
<1>4. ASSUME pos # NoPos, NEW px \in HardPrice, NEW be \in BreakEvenKnown(state, pos),
             Save(Recover(state, pos, px, be, FALSE))
      PROVE  Looked(me)
  <2>1. be \in BOOLEAN
    BY DEF BreakEvenKnown
  <2>2. file' = [file EXCEPT ![me] = IF FALSE THEN ApplyTrigger(Recover(file[me], pos, px, be, FALSE), trigger)
                                     ELSE Recover(file[me], pos, px, be, FALSE)]
    BY <1>4 DEF Save, state
  <2> QED
    BY <1>1, <1>4, <2>1, <2>2, LookedRecovered
<1> QED
  BY <1>2, <1>3, <1>4 DEF CycleTop

LEMMA LookAgainLooks ==
  ASSUME TypeInv, LookAgain
  PROVE  Looked(me)
<1>1. me \in Node
  BY DEF TypeInv, TypeOK
<1>2. CASE UNCHANGED file
  BY <1>1, <1>2, LookedUnchanged
<1>3. CASE pos = NoPos /\ Finalize
  BY <1>1, <1>3, LookedFinalized DEF Finalize, Save, state
<1> QED
  BY <1>2, <1>3 DEF LookAgain

LEMMA LookedFiles ==
  ASSUME TypeInv, NEW n \in Node, Looked(n), UNCHANGED <<trigger, used>>
  PROVE  file' \in [Node -> State] /\ Files'
<1>1. PICK st \in State : /\ file' = [file EXCEPT ![n] = st] /\ Authorised(st, trigger)
                          /\ st = file[n] \/ st.id = 0 \/ (pos # NoPos /\ st.id = pos.id)
  BY DEF Looked
<1>2. Grows
  BY UnchangedTrigger
<1>3. st.id \in used' \cup {0}
  BY <1>1 DEF TypeInv, Files, KnownIds
<1>4. Authorised(st, trigger')
  BY <1>1
<1> QED
  BY <1>1, <1>2, <1>3, <1>4, FilesSaved

LEMMA StartKeepsType ==
  ASSUME TypeInv, NEW n \in Node, Start(n)
  PROVE  TypeInv'
<1>1. /\ TypeOK /\ KnownIds /\ me' = n
      /\ UNCHANGED <<clock, bid, moves, pos, used, visible, trigger, call>>
  BY DEF TypeInv, Start
<1>2. file' \in [Node -> State] /\ Files' /\ Grows
  BY <1>1, StartLooks, LookedFiles, UnchangedTrigger
<1>3. events' \in 0..MaxEvents
  BY <1>1, EventType DEF Start, TypeOK
<1>4. pc' \in Stage \cup {"off", "top", "sell", "modify"} /\ snap' \in {snap, pos}
      /\ (pc' \notin {"off", "top", "mid", "entry"} => snap' # NoPos)
  BY DEF Start, Stage
<1>5. tracked' \in [Node -> SUBSET used'] /\ lost' \subseteq used'
  <2>1. CASE UNCHANGED <<tracked, lost>>
    BY <1>1, <2>1 DEF TypeOK
  <2>2. CASE pos # NoPos /\ TakeOver(n, pos)
    BY <1>1, <2>2, TakeOverType
  <2> QED
    BY <2>1, <2>2 DEF Start
<1>6. KnownIds' /\ snap' \in Broker \cup {NoPos}
  BY <1>1, <1>4 DEF KnownIds, TypeOK
<1> QED
  BY <1>1, <1>2, <1>3, <1>4, <1>5, <1>6, TypeFromParts DEF TypeOK

LEMMA CycleTopKeepsType ==
  ASSUME TypeInv, CycleTop
  PROVE  TypeInv'
<1>1. /\ TypeOK /\ KnownIds /\ me \in Node
      /\ UNCHANGED <<clock, bid, moves, events, pos, used, visible, trigger, me, call>>
  BY DEF TypeInv, TypeOK, CycleTop
<1>2. file' \in [Node -> State] /\ Files' /\ Grows
  BY <1>1, CycleTopLooks, LookedFiles, UnchangedTrigger
<1>3. pc' \in Stage \cup {"off", "top", "sell", "modify"} /\ snap' \in {snap, pos}
      /\ (pc' \notin {"off", "top", "mid", "entry"} => snap' # NoPos)
  BY DEF CycleTop, Stage
<1>4. tracked' \in [Node -> SUBSET used'] /\ lost' \subseteq used'
  <2>1. CASE UNCHANGED <<tracked, lost>>
    BY <1>1, <2>1 DEF TypeOK
  <2>2. CASE pos # NoPos /\ TakeOver(me, pos)
    BY <1>1, <2>2, TakeOverType
  <2> QED
    BY <2>1, <2>2 DEF CycleTop
<1>5. KnownIds' /\ snap' \in Broker \cup {NoPos}
  BY <1>1, <1>3 DEF KnownIds, TypeOK
<1> QED
  BY <1>1, <1>2, <1>3, <1>4, <1>5, TypeFromParts DEF TypeOK

LEMMA LookAgainKeepsType ==
  ASSUME TypeInv, LookAgain
  PROVE  TypeInv'
<1>1. /\ TypeOK /\ KnownIds /\ me \in Node
      /\ UNCHANGED <<clock, bid, moves, events, pos, used, visible, trigger, me, call, tracked, lost>>
  BY DEF TypeInv, TypeOK, LookAgain, Quiet, Still
<1>2. file' \in [Node -> State] /\ Files' /\ Grows
  BY <1>1, LookAgainLooks, LookedFiles, UnchangedTrigger
<1>3. pc' \in Stage \cup {"off", "top", "sell", "modify"} /\ snap' \in {snap, pos}
      /\ (pc' \notin {"off", "top", "mid", "entry"} => snap' # NoPos)
  BY DEF LookAgain, Stage
<1>4. KnownIds' /\ snap' \in Broker \cup {NoPos}
  BY <1>1, <1>3 DEF KnownIds, TypeOK
<1> QED
  BY <1>1, <1>2, <1>3, <1>4, TypeFromParts DEF TypeOK

\* The state a new entry starts from.
Entered == [ClearExitState(state) EXCEPT !.be = FALSE]

LEMMA BuyShape ==
  ASSUME TypeInv, Buy
  PROVE  /\ pc = "entry" /\ pc' = "top" /\ state.latch = "" /\ pos = NoPos
         /\ Entered \in State /\ Entered.id = state.id /\ Entered.or5 = 0 /\ Entered.pend = 0
         /\ Save(Entered)
         /\ UNCHANGED <<clock, bid, moves, events, visible, trigger, me, snap, call, tracked, lost>>
         /\ used \subseteq used' /\ used' \subseteq Position /\ PosMoves
         /\ pos' # NoPos /\ pos'.id \notin used /\ pos'.sl < bid
<1>1. state \in State
  BY StateIsState DEF TypeInv
<1>2. ClearExitState(state) \in State /\ ClearExitState(state).id = state.id
      /\ ClearExitState(state).or5 = 0 /\ ClearExitState(state).pend = 0
  BY <1>1, ClearType
<1>3. Entered \in State /\ Entered.id = state.id /\ Entered.or5 = 0 /\ Entered.pend = 0
  BY <1>2 DEF Entered, State
<1>4. PICK p \in Position \ (used \cup Manual), px \in {h \in HardPrice : h < bid} :
        pos' = Bought(p, px) /\ used' = used \cup {p}
  BY DEF Buy
<1>5. /\ used \subseteq used' /\ used' \subseteq Position /\ PosMoves
      /\ pos' # NoPos /\ pos'.id \notin used /\ pos'.sl < bid
  <2>1. px \in Nat /\ px < bid
    BY <1>4, Constants
  <2> QED
    BY <1>4, <2>1, Opened DEF Bought
<1> QED
  BY <1>3, <1>5 DEF Buy, BuyAllowed, Entered

LEMMA BuyKeepsType ==
  ASSUME TypeInv, Buy
  PROVE  TypeInv'
<1>1. /\ TypeOK /\ KnownIds /\ me \in Node /\ Grows /\ visible \subseteq used
  BY BuyShape, UnchangedTrigger DEF TypeInv, TypeOK
<1>2. /\ pc' = "top" /\ Entered \in State /\ Entered.id = state.id /\ Authorised(Entered, trigger')
      /\ Save(Entered)
      /\ UNCHANGED <<clock, bid, moves, events, visible, me, snap, call, tracked, lost>>
      /\ used \subseteq used' /\ used' \subseteq Position /\ PosMoves
  BY BuyShape DEF Authorised
<1>3. Entered.id \in used' \cup {0}
  BY <1>1, <1>2 DEF TypeInv, Files, state
<1>4. file' \in [Node -> State] /\ Files'
  BY <1>1, <1>2, <1>3, FilesSaved DEF Save
<1>5. KnownIds' /\ snap' \in Broker \cup {NoPos} /\ pos' \in Broker \cup {NoPos}
  BY <1>1, <1>2 DEF KnownIds, PosMoves, TypeOK
<1>6. tracked' \in [Node -> SUBSET used'] /\ lost' \subseteq used'
  BY <1>1, <1>2 DEF TypeOK
<1> QED
  BY <1>1, <1>2, <1>4, <1>5, <1>6, TypeFromParts DEF TypeOK

\* Every step is one of these.
LEMMA StepCases ==
  ASSUME TypeInv, [Next]_vars
  PROVE  \/ Decided
         \/ ModifySend \/ SellSend
         \/ \E n \in Node : Start(n)
         \/ CycleTop \/ LookAgain \/ Buy \/ Outside
         \/ UNCHANGED vars
<1> DEFINE Decides ==
      \/ AuthorizedOr5("start") \/ ApplyStandardProtection("protectStart")
      \/ ApplyStandardProtection("adopt") \/ NewBar \/ AuthorizedOr5("or5") \/ OpenAction
      \/ CloseAction \/ RegularBar \/ BreakEvenExit \/ ApplyStandardProtection("protect")
<1>1. CASE Decides
  <2>1. pc \notin {"off", "top", "mid", "entry"}
    BY <1>1 DEF AuthorizedOr5, ApplyStandardProtection, NewBar, OpenAction, CloseAction, RegularBar, BreakEvenExit
  <2> QED
    BY <1>1, <2>1, CanDecide, EveryDecisionDecides
<1>2. CASE ~Decides
  BY <1>2 DEF Next, Outside
<1> QED
  BY <1>1, <1>2

LEMMA TypeInvStep == TypeInv /\ [Next]_vars => TypeInv'
<1> SUFFICES ASSUME TypeInv, [Next]_vars PROVE TypeInv'
  OBVIOUS
<1>1. CASE Decided
  BY <1>1, DecidedKeepsType
<1>2. CASE ModifySend \/ SellSend
  BY <1>2, ModifySendShape, SellSendShape, SentKeepsType
<1>3. CASE \E n \in Node : Start(n)
  BY <1>3, StartKeepsType
<1>4. CASE CycleTop \/ LookAgain \/ Buy
  BY <1>4, CycleTopKeepsType, LookAgainKeepsType, BuyKeepsType
<1>5. CASE Outside
  BY <1>5, OutsideKeepsType
<1>6. CASE UNCHANGED vars
  BY <1>6 DEF vars, TypeInv, TypeOK, LastRecorded, Files, Authorised, KnownIds
<1> QED
  BY <1>1, <1>2, <1>3, <1>4, <1>5, <1>6, StepCases

LEMMA TypeInvInit == Init => TypeInv
<1> SUFFICES ASSUME Init PROVE TypeInv
  OBVIOUS
<1>1. /\ clock \in Instant /\ bid \in Price /\ moves \in 0..MaxMoves /\ events \in 0..MaxEvents
      /\ pos \in Broker \cup {NoPos} /\ used \subseteq Position /\ visible \subseteq used
  <2>1. 0 \in 0..MaxMoves /\ 0 \in 0..MaxEvents
    BY Constants
  <2> QED
    BY <2>1 DEF Init
<1>2. NewState \in State
  BY DEF NewState, State
<1>3. file \in [Node -> State] /\ \A n \in Node : file[n] = NewState
  BY <1>2 DEF Init
<1>4. trigger \in Triggers /\ LastRecorded(trigger)
  BY DEF Init, Triggers, LastRecorded
<1>5. Files
  <2>1. NewState.or5 = 0 /\ NewState.pend = 0 /\ NewState.id = 0
    BY DEF NewState
  <2> QED
    BY <1>3, <2>1 DEF Files, Authorised
<1>6. /\ snap = NoPos /\ pos = NoPos /\ pc = "off" /\ me \in Node /\ call \in Call
      /\ tracked \in [Node -> SUBSET used] /\ lost \subseteq used
  BY DEF Init, NoCall, Call, Stage
<1> QED
  BY <1>1, <1>3, <1>4, <1>5, <1>6 DEF TypeInv, TypeOK, Triggers, KnownIds

LEMMA TypeInvAlways == Spec => []TypeInv
BY TypeInvInit, TypeInvStep, PTL DEF Spec

\* Every state file, request and trigger stays well formed, and the stages that
\* work on a position have one, whatever fails and in whatever order.
THEOREM PositionLifecycleType == Spec => []TypeOK
<1>1. TypeInv => TypeOK
  BY DEF TypeInv
<1> QED
  BY <1>1, TypeInvAlways, PTL

-----------------------------------------------------------------------------
(* Exits in the name of a rule *)

SellInv ==
  pc = "sell" /\ Delayed /\ call.reason \in Rule => call.reason \in trigger[snap.id].rules

\* Where the steps other than decisions leave the cycle.
LEMMA NoNewRequest ==
  ASSUME TypeInv, NEW stage \in {"sell", "modify", "entry"},
         \/ SentShape \/ (\E n \in Node : Start(n)) \/ CycleTop \/ Buy
         \/ LookAgain /\ stage # "entry"
  PROVE  pc' # stage
<1>1. CASE SentShape
  BY <1>1 DEF SentShape, Stage
<1>2. CASE \E n \in Node : Start(n)
  BY <1>2 DEF Start
<1>3. CASE CycleTop \/ Buy
  BY <1>3 DEF CycleTop, Buy
<1>4. CASE LookAgain /\ stage # "entry"
  BY <1>4 DEF LookAgain
<1> QED
  BY <1>1, <1>2, <1>3, <1>4

LEMMA SellInvStep == TypeInv /\ SellInv /\ [Next]_vars => SellInv'
<1> SUFFICES ASSUME TypeInv, SellInv, [Next]_vars, pc' = "sell" PROVE SellInv'
  BY DEF SellInv
<1>1. CASE Decided
  BY <1>1, DecidedShape DEF SellInv
<1>2. CASE Outside
  BY <1>2, OutsideHasShape DEF OutsideShape, SellInv
<1>3. CASE UNCHANGED vars
  BY <1>3 DEF vars, SellInv
<1>4. CASE ModifySend \/ SellSend
  BY <1>4, ModifySendShape, SellSendShape, NoNewRequest
<1>5. CASE (\E n \in Node : Start(n)) \/ CycleTop \/ Buy \/ LookAgain
  BY <1>5, NoNewRequest
<1> QED
  BY <1>1, <1>2, <1>3, <1>4, <1>5, StepCases

\* On an account that defers market exits, an exit in the name of OR5 or
\* TSL1PRE is sent only for a position for which the backend has recorded that
\* rule, through restarts, moves to another node and failed requests.
THEOREM RuleExitsAuthorised ==
  ASSUME Delayed = TRUE
  PROVE  Spec => []RuleExitIsAuthorised
<1>1. Init => SellInv
  BY DEF Init, SellInv
<1>2. SellInv => RuleExitIsAuthorised
  BY DEF SellInv, RuleExitIsAuthorised
<1> QED
  BY <1>1, <1>2, SellInvStep, TypeInvAlways, PTL DEF Spec

-----------------------------------------------------------------------------
(* Latched exits *)

LEMMA SavedFile ==
  ASSUME TypeInv, NEW st, Save(st), NEW n \in Node
  PROVE  file'[n] = IF n = me THEN st ELSE file[n]
BY DEF TypeInv, TypeOK, Save

\* The latched reason of node n changes only to that of an exit that is sent.
LatchKept(n) ==
  file[n].latch # "" /\ file'[n].latch # file[n].latch
  => file'[n].latch # "" /\ n = me /\ pc' = "sell" /\ call'.reason = file'[n].latch

\* What a step keeps of the exits node n has latched or waits to send for the
\* position its state file names.
ExitsKept(n) ==
  file[n].id # 0 /\ file'[n].id = file[n].id => LatchKept(n) /\ IntentKept(file[n], file'[n])

LEMMA LookedExits ==
  ASSUME TypeInv, NEW m \in Node, Looked(m), NEW n \in Node
  PROVE  ExitsKept(n)
<1>1. PICK st \in State :
        /\ file' = [file EXCEPT ![m] = st]
        /\ \/ st = file[m] \/ st.id = 0
           \/ /\ st.id = pos.id
              /\ file[m].id = pos.id => /\ file[m].latch # "" => st.latch = file[m].latch
                                        /\ IntentKept(file[m], st)
  BY DEF Looked
<1>2. file'[n] = IF n = m THEN st ELSE file[n]
  BY <1>1 DEF TypeInv, TypeOK
<1>3. IntentKept(file[n], file[n])
  BY DEF IntentKept
<1> QED
  BY <1>1, <1>2, <1>3 DEF ExitsKept, LatchKept

LEMMA ExitsStep == TypeInv /\ [Next]_vars => \A n \in Node : ExitsKept(n)
<1> SUFFICES ASSUME TypeInv, [Next]_vars, NEW n \in Node PROVE ExitsKept(n)
  OBVIOUS
<1>1. CASE Decided
  <2>1. PICK st : Saved(st) /\ Save(st)
    BY <1>1 DEF Decided, Ends
  <2> QED
    BY <2>1, SavedFile DEF Saved, ExitsKept, LatchKept, IntentKept, state
<1>2. CASE ModifySend \/ SellSend
  <2>1. PICK st : Marked(state, st) /\ Save(st)
    BY <1>2, ModifySendShape, SellSendShape DEF SentShape
  <2> QED
    BY <2>1, SavedFile DEF Marked, ExitsKept, LatchKept, IntentKept, state
<1>3. CASE (\E m \in Node : Start(m)) \/ CycleTop \/ LookAgain
  BY <1>3, StartLooks, CycleTopLooks, LookAgainLooks, LookedExits DEF TypeInv, TypeOK
<1>4. CASE Buy
  <2>1. me \in Node /\ state = file[me] /\ Authorised(file[me], trigger)
    BY DEF TypeInv, TypeOK, Files, state
  <2>2. state.latch = "" /\ state.or5 = 0 /\ state.pend = 0
    BY <1>4, <2>1, BuyShape DEF Authorised
  <2>3. file'[n] = IF n = me THEN Entered ELSE file[n]
    BY <1>4, BuyShape, SavedFile
  <2> QED
    BY <2>1, <2>2, <2>3 DEF ExitsKept, LatchKept, IntentKept
<1>5. CASE Outside
  BY <1>5, OutsideHasShape DEF OutsideShape, ExitsKept, LatchKept, IntentKept
<1>6. CASE UNCHANGED vars
  BY <1>6 DEF vars, ExitsKept, LatchKept, IntentKept
<1> QED
  BY <1>1, <1>2, <1>3, <1>4, <1>5, <1>6, StepCases

\* A latched exit stays latched while its position is the one the state file
\* names: no rejected request, abort, crash, restart or entry clears it.
THEOREM LatchedExitsStay == Spec => ExitStaysLatched
<1>1. TypeInv /\ [Next]_vars =>
        \A n \in Node : file[n].latch # "" /\ file[n].id # 0 /\ file'[n].id = file[n].id
                          => file'[n].latch # ""
  BY ExitsStep DEF ExitsKept, LatchKept
<1> QED
  BY <1>1, TypeInvAlways, PTL DEF Spec, ExitStaysLatched

\* STRATEGY_SPECIFICATION.md, "nothing cancels it", as far as it is true: no
\* failed request, refreshed rule, abort, crash or restart takes a deferred
\* TSL1PRE exit or an OR5 authorisation back, or defers the exit further, while
\* the state file names the position.
IntentsStay ==
  [][\A n \in Node : file[n].id # 0 /\ file'[n].id = file[n].id
       => /\ file[n].pend # 0 => file'[n].pend = file[n].pend /\ file'[n].notBefore = file[n].notBefore
          /\ file[n].or5 # 0 => file'[n].or5 = file[n].or5]_vars

THEOREM IntentsAreKept == Spec => IntentsStay
<1>1. TypeInv /\ [Next]_vars =>
        \A n \in Node : file[n].id # 0 /\ file'[n].id = file[n].id
          => /\ file[n].pend # 0 => file'[n].pend = file[n].pend /\ file'[n].notBefore = file[n].notBefore
             /\ file[n].or5 # 0 => file'[n].or5 = file[n].or5
  BY ExitsStep DEF ExitsKept, IntentKept
<1> QED
  BY <1>1, TypeInvAlways, PTL DEF Spec, IntentsStay

\* The only way in which the latched reason of a position changes, and so the
\* only way in which a deferred exit stops being retried: a market exit for
\* another reason is sent, whether the broker then executes it or not.
LatchFollowsExit ==
  [][\A n \in Node :
       file[n].id # 0 /\ file'[n].id = file[n].id /\ file[n].latch # "" /\ file'[n].latch # file[n].latch
       => n = me /\ pc' = "sell" /\ call'.reason = file'[n].latch]_vars

THEOREM LatchesFollowExits == Spec => LatchFollowsExit
<1>1. TypeInv /\ [Next]_vars =>
        \A n \in Node :
          file[n].id # 0 /\ file'[n].id = file[n].id /\ file[n].latch # "" /\ file'[n].latch # file[n].latch
          => n = me /\ pc' = "sell" /\ call'.reason = file'[n].latch
  BY ExitsStep DEF ExitsKept, LatchKept
<1> QED
  BY <1>1, TypeInvAlways, PTL DEF Spec, LatchFollowsExit

\* An intent in a state file belongs to the position the file names, has
\* latched an exit, and is recorded in the backend with the same instant.
IntentIsRecorded ==
  \A n \in Node :
    /\ file[n].pend # 0 => /\ file[n].pend = file[n].id /\ file[n].latch # ""
                           /\ "TSL1PRE" \in trigger[file[n].id].rules
                           /\ file[n].notBefore = trigger[file[n].id].notBefore
    /\ file[n].or5 # 0 => /\ file[n].or5 = file[n].id /\ file[n].latch # ""
                          /\ "OR5" \in trigger[file[n].id].rules

THEOREM IntentsAreRecorded == Spec => []IntentIsRecorded
<1>1. TypeInv => IntentIsRecorded
  BY DEF TypeInv, Files, Authorised, IntentIsRecorded
<1> QED
  BY <1>1, TypeInvAlways, PTL

-----------------------------------------------------------------------------
(* The hard stop *)

\* A cycle that works on another position than its state file names can do so
\* only because the named one is no longer open.
OneAtATime == snap # NoPos /\ state.id \notin {0, snap.id} => OpenId # state.id

LEMMA OpenIdShape ==
  ASSUME TypeInv, PosMoves, NEW i \in used, OpenId # i
  PROVE  OpenId' # i
<1>1. i # 0
  BY Constants DEF TypeInv, TypeOK
<1>2. pos = NoPos \/ pos.id # i
  BY DEF OpenId
<1> QED
  BY <1>1, <1>2 DEF PosMoves, OpenId

\* While the state file names the same position, the cycle keeps the position
\* it works on or takes the one that is open.
LEMMA OneAtATimeKept ==
  ASSUME TypeInv, OneAtATime, PosMoves, state'.id = state.id, snap' \in {NoPos, snap, pos'}
  PROVE  OneAtATime'
<1> SUFFICES ASSUME snap' # NoPos, state'.id # 0, state'.id # snap'.id PROVE OpenId' # state'.id
  BY DEF OneAtATime
<1>1. CASE snap' = pos'
  BY <1>1 DEF OpenId
<1>2. CASE snap' = snap
  <2>1. OpenId # state.id
    BY <1>2 DEF OneAtATime
  <2>2. state.id \in used
    BY DEF TypeInv, TypeOK, Files, state
  <2> QED
    BY <2>1, <2>2, OpenIdShape
<1> QED
  BY <1>1, <1>2

LEMMA StateAfterSave ==
  ASSUME TypeInv, NEW st, Save(st), UNCHANGED me
  PROVE  state' = st
BY DEF TypeInv, TypeOK, Save, state

LEMMA OneAtATimeStep == TypeInv /\ OneAtATime /\ [Next]_vars => OneAtATime'
<1> SUFFICES ASSUME TypeInv, OneAtATime, [Next]_vars PROVE OneAtATime'
  OBVIOUS
<1>1. UNCHANGED pos => PosMoves \/ ~(used \subseteq used')
  BY DEF TypeInv, TypeOK, KnownIds, PosMoves
<1>2. CASE Decided
  <2>1. PICK st : Saved(st) /\ Save(st)
    BY <1>2 DEF Decided, Ends
  <2>2. UNCHANGED <<pos, used, me>>
    BY <1>2 DEF Decided, Quiet, Still
  <2>3. state'.id = state.id
    BY <2>1, <2>2, StateAfterSave DEF Saved
  <2> QED
    BY <1>1, <1>2, <2>2, <2>3, DecidedShape, OneAtATimeKept
<1>3. CASE ModifySend \/ SellSend
  <2>1. SentShape
    BY <1>3, ModifySendShape, SellSendShape
  <2>2. PICK st : Marked(state, st) /\ Save(st)
    BY <2>1 DEF SentShape
  <2>3. state'.id = state.id
    BY <2>1, <2>2, StateAfterSave DEF SentShape, Marked
  <2> QED
    BY <2>1, <2>3, OneAtATimeKept DEF SentShape
<1>4. CASE Buy
  <2>1. Entered.id = state.id /\ Save(Entered) /\ UNCHANGED <<me, snap>> /\ PosMoves
    BY <1>4, BuyShape
  <2>2. state'.id = state.id
    BY <2>1, StateAfterSave
  <2> QED
    BY <2>1, <2>2, OneAtATimeKept
<1>5. CASE Outside
  <2>1. OutsideShape
    BY <1>5, OutsideHasShape
  <2>2. state' = state /\ PosMoves /\ snap' \in {snap, NoPos}
    BY <2>1 DEF OutsideShape, state
  <2> QED
    BY <2>2, OneAtATimeKept
<1>6. CASE (\E n \in Node : Start(n)) \/ CycleTop \/ LookAgain
  <2>1. UNCHANGED pos
    BY <1>6 DEF Start, CycleTop, LookAgain, Quiet, Still
  <2>2. CASE snap' = pos'
    BY <2>2 DEF OneAtATime, OpenId
  <2>3. CASE pos = NoPos
    BY <2>1, <2>3, Constants DEF OneAtATime, OpenId
  <2>4. CASE snap' # pos' /\ pos # NoPos
    BY <1>6, <2>1, <2>4 DEF Start, CycleTop, LookAgain
  <2> QED
    BY <2>2, <2>3, <2>4
<1>7. CASE UNCHANGED vars
  BY <1>7 DEF vars, OneAtATime, OpenId, state
<1> QED
  BY <1>2, <1>3, <1>4, <1>5, <1>6, <1>7, StepCases

HardStopKept(n) ==
  OpenId # 0 /\ file[n].id = OpenId /\ file'[n].id = OpenId
  /\ file[n].hardId = OpenId /\ file[n].hardPx > 0
  => \/ file'[n].hardPx = file[n].hardPx /\ file'[n].hardId = OpenId
     \/ OpenId \in Manual /\ pc = "off"

LEMMA HardStopStep == TypeInv /\ OneAtATime /\ [Next]_vars => \A n \in Node : HardStopKept(n)
<1> SUFFICES ASSUME TypeInv, OneAtATime, [Next]_vars, NEW n \in Node,
                    OpenId # 0, file[n].id = OpenId, file'[n].id = OpenId,
                    file[n].hardId = OpenId, file[n].hardPx > 0
             PROVE  \/ file'[n].hardPx = file[n].hardPx /\ file'[n].hardId = OpenId
                    \/ OpenId \in Manual /\ pc = "off"
  BY DEF HardStopKept
<1>1. pos # NoPos /\ pos.id = OpenId
  BY DEF OpenId
<1>2. CASE file'[n] = file[n]
  BY <1>2
<1>3. CASE Decided
  <2>1. PICK st : Saved(st) /\ Save(st)
    BY <1>3 DEF Decided, Ends
  <2>2. file'[n] = IF n = me THEN st ELSE file[n]
    BY <2>1, SavedFile
  <2>3. CASE n = me
    <3>1. snap # NoPos /\ state = file[n]
      BY <1>3, <2>3, DecidedShape DEF Deciding, state
    <3>2. snap.id = OpenId
      BY <3>1 DEF OneAtATime
    <3>3. HardStopMatches(state, snap)
      BY <3>1, <3>2 DEF HardStopMatches
    <3> QED
      BY <2>1, <2>2, <2>3, <3>1, <3>3 DEF Saved
  <2> QED
    BY <1>2, <2>2, <2>3
<1>4. CASE ModifySend \/ SellSend
  <2>1. PICK st : Marked(state, st) /\ Save(st)
    BY <1>4, ModifySendShape, SellSendShape DEF SentShape
  <2> QED
    BY <2>1, SavedFile DEF Marked, state
<1>5. CASE Buy
  BY <1>1, <1>5, BuyShape
<1>6. CASE Outside
  BY <1>2, <1>6, OutsideHasShape DEF OutsideShape
<1>7. ASSUME NEW m \in Node, Looked(m)
      PROVE  \/ file'[n].hardPx = file[n].hardPx /\ file'[n].hardId = OpenId
             \/ OpenId \in Manual
  <2>1. PICK st \in State :
          /\ file' = [file EXCEPT ![m] = st]
          /\ \/ st = file[m]
             \/ /\ st.id = pos.id
                /\ file[m].id = pos.id /\ HardStopMatches(file[m], pos) /\ pos.id \notin Manual
                     => st.hardId = file[m].hardId /\ st.hardPx = file[m].hardPx
    BY <1>1, <1>7 DEF Looked
  <2>2. file'[n] = IF n = m THEN st ELSE file[n]
    BY <2>1 DEF TypeInv, TypeOK
  <2>3. HardStopMatches(file[n], pos)
    BY <1>1 DEF HardStopMatches
  <2> QED
    BY <1>1, <1>2, <2>1, <2>2, <2>3
<1>8. CASE \E m \in Node : Start(m)
  <2>1. pc = "off"
    BY <1>8 DEF Start
  <2> QED
    BY <1>7, <1>8, <2>1, StartLooks
<1>9. CASE CycleTop
  <2>1. me \in Node
    BY DEF TypeInv, TypeOK
  <2>2. CASE UNCHANGED file
    BY <1>2, <2>2
  <2>3. ASSUME NEW px \in HardPrice, NEW be, state.id # pos.id, Save(Recover(state, pos, px, be, FALSE))
        PROVE  file'[n] = file[n]
    BY <1>1, <2>1, <2>3, SavedFile DEF state
  <2> QED
    BY <1>1, <1>2, <1>9, <2>2, <2>3 DEF CycleTop
<1>10. CASE LookAgain
  BY <1>1, <1>2, <1>10 DEF LookAgain
<1>11. CASE UNCHANGED vars
  BY <1>2, <1>11 DEF vars
<1> QED
  BY <1>3, <1>4, <1>5, <1>6, <1>8, <1>9, <1>10, <1>11, StepCases

\* The hard stop of the position a state file names is priced once: only a
\* start may correct the leverage of a position opened by hand.
THEOREM HardStopsPricedOnce == Spec => HardStopPricedOnce
<1>1. Init => OneAtATime
  BY DEF Init, OneAtATime
<1>2. TypeInv /\ OneAtATime /\ [Next]_vars =>
        \A n \in Node, p \in Position :
          OpenId = p /\ file[n].id = p /\ file'[n].id = p /\ HardStopMatches(file[n], [id |-> p])
          => \/ file'[n].hardPx = file[n].hardPx /\ file'[n].hardId = p
             \/ p \in Manual /\ pc = "off"
  <2> SUFFICES ASSUME TypeInv, OneAtATime, [Next]_vars, NEW n \in Node, NEW p \in Position,
                      OpenId = p, file[n].id = p, file'[n].id = p, HardStopMatches(file[n], [id |-> p])
               PROVE  \/ file'[n].hardPx = file[n].hardPx /\ file'[n].hardId = p
                      \/ p \in Manual /\ pc = "off"
    OBVIOUS
  <2>1. p # 0
    BY Constants
  <2>2. file[n].hardId = p /\ file[n].hardPx > 0
    BY DEF HardStopMatches
  <2>3. HardStopKept(n)
    BY HardStopStep
  <2> QED
    BY <2>1, <2>2, <2>3 DEF HardStopKept
<1> QED
  BY <1>1, <1>2, OneAtATimeStep, TypeInvAlways, PTL DEF Spec, HardStopPricedOnce

-----------------------------------------------------------------------------
(* Entries *)

\* Every position a node has managed has a known close, was displaced, or is
\* the one its state file names; at an entry the file names none.
Managed ==
  /\ \A n \in Node : tracked[n] \subseteq visible \cup lost \cup {file[n].id}
  /\ pc = "entry" => state.id = 0

LEMMA ManagedSame ==
  ASSUME TypeInv, Managed, UNCHANGED <<tracked, lost>>, visible \subseteq visible',
         \A n \in Node : file'[n].id = file[n].id,
         pc' = "entry" => pc = "entry" /\ UNCHANGED me
  PROVE  Managed'
<1>1. me \in Node
  BY DEF TypeInv, TypeOK
<1>2. ASSUME NEW n \in Node PROVE tracked'[n] \subseteq visible' \cup lost' \cup {file'[n].id}
  BY DEF Managed
<1>3. pc' = "entry" => state'.id = 0
  BY <1>1 DEF Managed, state
<1> QED
  BY <1>2, <1>3 DEF Managed

LEMMA RecoveredFile ==
  ASSUME TypeInv, NEW n \in Node, pos # NoPos, NEW px \in HardPrice, NEW be \in BOOLEAN, NEW repair,
         NEW told \in BOOLEAN,
         file' = [file EXCEPT ![n] = IF told THEN ApplyTrigger(Recover(file[n], pos, px, be, repair), trigger)
                                     ELSE Recover(file[n], pos, px, be, repair)]
  PROVE  file'[n].id = pos.id /\ \A m \in Node \ {n} : file'[m] = file[m]
<1> DEFINE st == Recover(file[n], pos, px, be, repair)
<1>1. file[n] \in State /\ pos \in Broker /\ trigger \in Triggers
  BY DEF TypeInv, TypeOK, Triggers
<1>2. st \in State /\ st.id = pos.id
  BY <1>1, RecoverShape
<1>3. file'[n] = (IF told THEN ApplyTrigger(st, trigger) ELSE st) /\ \A m \in Node \ {n} : file'[m] = file[m]
  BY DEF TypeInv, TypeOK
<1> HIDE DEF st
<1>4. ApplyTrigger(st, trigger).id = st.id
  BY <1>1, <1>2, ApplyTriggerType
<1> QED
  BY <1>2, <1>3, <1>4

LEMMA ManagedTaken ==
  ASSUME TypeInv, Managed, NEW n \in Node, pos # NoPos, TakeOver(n, pos),
         file'[n].id = pos.id, \A m \in Node \ {n} : file'[m] = file[m],
         UNCHANGED visible, pc' # "entry"
  PROVE  Managed'
<1>1. /\ tracked'[n] = tracked[n] \cup {pos.id}
      /\ \A m \in Node \ {n} : tracked'[m] = tracked[m]
      /\ lost' = IF file[n].id \in {0, pos.id} THEN lost ELSE lost \cup {file[n].id}
  BY DEF TakeOver, TypeInv, TypeOK
<1>2. tracked[n] \subseteq visible \cup lost \cup {file[n].id} /\ 0 \notin tracked[n]
  <2>1. tracked[n] \subseteq Position
    BY DEF TypeInv, TypeOK
  <2> QED
    BY <2>1, Constants DEF Managed
<1>3. tracked'[n] \subseteq visible' \cup lost' \cup {file'[n].id}
  BY <1>1, <1>2
<1>4. ASSUME NEW m \in Node \ {n} PROVE tracked'[m] \subseteq visible' \cup lost' \cup {file'[m].id}
  BY <1>1 DEF Managed
<1> QED
  BY <1>3, <1>4 DEF Managed

LEMMA ManagedFinalized ==
  ASSUME TypeInv, Managed, NEW n \in Node, file[n].id \in visible,
         file' = [file EXCEPT ![n] = Finalized(file[n])],
         UNCHANGED <<visible, tracked, lost>>, pc' = "entry" => me' = n
  PROVE  Managed'
<1>1. file[n] \in State
  BY DEF TypeInv, TypeOK
<1>2. file'[n].id = 0 /\ \A m \in Node \ {n} : file'[m] = file[m]
  BY <1>1, FinalizedShape DEF TypeInv, TypeOK
<1>3. ASSUME NEW m \in Node PROVE tracked'[m] \subseteq visible' \cup lost' \cup {file'[m].id}
  <2>1. tracked[m] \subseteq visible \cup lost \cup {file[m].id}
    BY DEF Managed
  <2> QED
    BY <1>2, <2>1
<1>4. pc' = "entry" => state'.id = 0
  BY <1>2 DEF state
<1> QED
  BY <1>3, <1>4 DEF Managed

LEMMA ManagedStep == TypeInv /\ Managed /\ [Next]_vars => Managed'
<1> SUFFICES ASSUME TypeInv, Managed, [Next]_vars PROVE Managed'
  OBVIOUS
<1>1. me \in Node
  BY DEF TypeInv, TypeOK
<1>2. CASE Decided
  <2>1. PICK st : Saved(st) /\ Save(st)
    BY <1>2 DEF Decided, Ends
  <2>2. \A n \in Node : file'[n].id = file[n].id
    BY <2>1, SavedFile DEF Saved, state
  <2> QED
    BY <1>2, <2>2, DecidedShape, ManagedSame DEF Decided, Quiet, Still
<1>3. CASE ModifySend \/ SellSend
  <2>1. SentShape
    BY <1>3, ModifySendShape, SellSendShape
  <2>2. PICK st : Marked(state, st) /\ Save(st)
    BY <2>1 DEF SentShape
  <2>3. \A n \in Node : file'[n].id = file[n].id
    BY <2>2, SavedFile DEF Marked, state
  <2> QED
    BY <2>1, <2>3, ManagedSame DEF SentShape
<1>4. CASE Buy
  <2>1. \A n \in Node : file'[n].id = file[n].id
    BY <1>4, BuyShape, SavedFile DEF state
  <2> QED
    BY <1>4, <2>1, BuyShape, ManagedSame
<1>5. CASE Outside
  BY <1>5, OutsideHasShape, ManagedSame DEF OutsideShape
<1>6. ASSUME NEW n \in Node, Start(n) PROVE Managed'
  <2>1. CASE pos = NoPos /\ UNCHANGED file
    BY <1>6, <2>1, ManagedSame DEF Start
  <2>2. CASE pos = NoPos /\ file[n].id \in visible /\ file' = [file EXCEPT ![n] = Finalized(file[n])]
    BY <1>6, <2>2, ManagedFinalized DEF Start
  <2>3. ASSUME pos # NoPos, NEW px \in HardPrice, NEW be \in BreakEvenKnown(file[n], pos),
               NEW repair \in BOOLEAN, NEW told \in BOOLEAN,
               LET st == Recover(file[n], pos, px, be, repair)
               IN  file' = [file EXCEPT ![n] = IF told THEN ApplyTrigger(st, trigger) ELSE st]
        PROVE  Managed'
    <3>1. be \in BOOLEAN
      BY DEF BreakEvenKnown
    <3>2. file'[n].id = pos.id /\ \A m \in Node \ {n} : file'[m] = file[m]
      BY <2>3, <3>1, RecoveredFile
    <3>3. TakeOver(n, pos) /\ UNCHANGED visible /\ pc' # "entry"
      BY <1>6, <2>3 DEF Start
    <3> QED
      BY <2>3, <3>2, <3>3, ManagedTaken
  <2> QED
    BY <1>6, <2>1, <2>2, <2>3 DEF Start
<1>7. CASE CycleTop
  <2>1. UNCHANGED visible /\ pc' # "entry"
    BY <1>7 DEF CycleTop
  <2>2. CASE UNCHANGED <<file, tracked, lost>>
    BY <2>1, <2>2, ManagedSame
  <2>3. CASE Finalize /\ UNCHANGED <<tracked, lost>>
    BY <1>1, <2>1, <2>3, ManagedFinalized DEF Finalize, Save, state
  <2>4. ASSUME pos # NoPos, TakeOver(me, pos), NEW px \in HardPrice, NEW be \in BreakEvenKnown(state, pos),
               Save(Recover(state, pos, px, be, FALSE))
        PROVE  Managed'
    <3>1. be \in BOOLEAN
      BY DEF BreakEvenKnown
    <3>2. file' = [file EXCEPT ![me] = IF FALSE THEN ApplyTrigger(Recover(file[me], pos, px, be, FALSE), trigger)
                                       ELSE Recover(file[me], pos, px, be, FALSE)]
      BY <2>4 DEF Save, state
    <3>3. file'[me].id = pos.id /\ \A m \in Node \ {me} : file'[m] = file[m]
      BY <1>1, <2>4, <3>1, <3>2, RecoveredFile
    <3> QED
      BY <1>1, <2>1, <2>4, <3>3, ManagedTaken
  <2> QED
    BY <1>7, <2>2, <2>3, <2>4 DEF CycleTop
<1>8. CASE LookAgain
  <2>1. UNCHANGED <<visible, tracked, lost, me>>
    BY <1>8 DEF LookAgain, Quiet, Still
  <2>2. CASE UNCHANGED file /\ pc' # "entry"
    BY <2>1, <2>2, ManagedSame
  <2>3. CASE UNCHANGED file /\ state.id = 0
    BY <2>1, <2>3 DEF Managed, state
  <2>4. CASE Finalize
    BY <1>1, <2>1, <2>4, ManagedFinalized DEF Finalize, Save, state
  <2> QED
    BY <1>8, <2>2, <2>3, <2>4 DEF LookAgain
<1>9. CASE UNCHANGED vars
  BY <1>9, ManagedSame DEF vars
<1> QED
  BY <1>2, <1>3, <1>4, <1>5, <1>6, <1>7, <1>8, <1>9, StepCases

\* A new entry is sent only when the close of every position this node has
\* managed is known to it, or another position had displaced the managed one.
THEOREM EntriesWaitForCloses == Spec => EntryWaitsForClose
<1>1. Init => Managed
  BY DEF Init, Managed
<1>2. TypeInv /\ Managed /\ Buy => tracked[me] \subseteq visible \cup lost
  <2> SUFFICES ASSUME TypeInv, Managed, Buy PROVE tracked[me] \subseteq visible \cup lost
    OBVIOUS
  <2>1. me \in Node /\ tracked[me] \subseteq Position
    BY DEF TypeInv, TypeOK
  <2>2. state.id = 0
    BY BuyShape DEF Managed
  <2> QED
    BY <2>1, <2>2, Constants DEF Managed, state
<1> QED
  BY <1>1, <1>2, ManagedStep, TypeInvAlways, PTL DEF Spec, EntryWaitsForClose

-----------------------------------------------------------------------------
(* The stop at the broker *)

\* The open position has its stop below the market; the stop the cycle has seen
\* is not above it; and a request for new stops comes from a protection and
\* does not lower a confirmed stop.
StopInv ==
  /\ pos # NoPos => pos.sl < bid
  /\ snap # NoPos /\ pos # NoPos /\ pos.id = snap.id => snap.sl <= pos.sl
  /\ pc = "modify" => call.from \in Protecting
  /\ pc = "modify" /\ pos # NoPos /\ pos.id = snap.id /\ state.conf => call.sl >= snap.sl

\* How a step may change the open position's stop.
StopMoves ==
  \/ pos' = NoPos
  \/ pos' = pos /\ bid' = bid
  \/ pos' = pos /\ pos.sl < bid'
  \/ pos' # NoPos /\ pos'.id \notin used /\ pos'.sl < bid'
  \/ pos # NoPos /\ pos' # NoPos /\ pos'.id = pos.id /\ pos'.sl < bid'
     /\ (pos'.sl >= pos.sl \/ snap' = NoPos)

LEMMA Numbers ==
  ASSUME TypeInv
  PROVE  /\ bid \in Nat /\ bid - Distance - 1 \in Nat /\ Distance \in Nat /\ call.sl \in Nat /\ Tsl \in Nat
         /\ pos # NoPos => pos.sl \in Nat
         /\ snap # NoPos => snap.sl \in Nat
<1>1. bid \in Price /\ call \in Call /\ pos \in Broker \cup {NoPos} /\ snap \in Broker \cup {NoPos}
  BY DEF TypeInv, TypeOK
<1> QED
  BY <1>1, Constants DEF Call, Broker

\* The steps that keep the request under way, if there is one.
LEMMA StopInvSame ==
  ASSUME TypeInv, StopInv, TypeInv', StopMoves, pc' = pc, snap' = snap, call' = call, state' = state
  PROVE  StopInv'
<1>1. /\ pos # NoPos => pos.sl \in Nat
      /\ pos' # NoPos => pos'.sl \in Nat
      /\ snap # NoPos => snap.sl \in Nat /\ snap.id \in used
      /\ bid \in Nat /\ bid' \in Nat
  BY Numbers, Constants DEF TypeInv, TypeOK, KnownIds, Broker
<1>2. pos' # NoPos => pos'.sl < bid'
  BY DEF StopInv, StopMoves
<1>3. ASSUME snap # NoPos, pos' # NoPos, pos'.id = snap.id
      PROVE  pos # NoPos /\ pos.id = snap.id /\ pos.sl <= pos'.sl
  BY <1>1, <1>3 DEF StopMoves
<1>4. snap' # NoPos /\ pos' # NoPos /\ pos'.id = snap'.id => snap'.sl <= pos'.sl
  BY <1>1, <1>3 DEF StopInv
<1>5. pc = "modify" => snap # NoPos
  BY DEF TypeInv, TypeOK
<1> QED
  BY <1>2, <1>3, <1>4, <1>5 DEF StopInv

\* The steps after which no request for new stops is under way.
LEMMA StopInvOther ==
  ASSUME TypeInv, StopInv, StopMoves, TypeInv', pc' # "modify", snap' \in {NoPos, snap, pos'}
  PROVE  StopInv'
<1>1. /\ pos # NoPos => pos.sl \in Nat
      /\ pos' # NoPos => pos'.sl \in Nat
      /\ snap # NoPos => snap.sl \in Nat /\ snap.id \in used
  BY Constants DEF TypeInv, TypeOK, KnownIds, Broker
<1>2. pos' # NoPos => pos'.sl < bid'
  BY DEF StopInv, StopMoves
<1>3. snap' # NoPos /\ pos' # NoPos /\ pos'.id = snap'.id => snap'.sl <= pos'.sl
  <2>1. CASE snap' = pos'
    BY <1>1, <2>1
  <2>2. CASE snap' = snap
    BY <1>1, <2>2 DEF StopInv, StopMoves
  <2> QED
    BY <2>1, <2>2
<1> QED
  BY <1>2, <1>3 DEF StopInv

LEMMA DecidedStops ==
  ASSUME TypeInv, StopInv, Decided, TypeInv'
  PROVE  StopInv'
<1>1. UNCHANGED <<pos, bid, me>>
  BY DEF Decided, Quiet, Still
<1>2. /\ snap' \in {NoPos, snap, pos} /\ snap # NoPos
      /\ pc' = "modify" => /\ snap' = snap /\ call'.from \in Protecting
                           /\ state.conf /\ snap.sl < bid => call'.sl >= snap.sl
  BY DecidedShape DEF Deciding
<1>3. CASE pc' # "modify"
  BY <1>1, <1>2, <1>3, StopInvOther DEF StopMoves
<1>4. CASE pc' = "modify"
  <2>1. PICK st : Saved(st) /\ Save(st)
    BY DEF Decided, Ends
  <2>2. state'.conf = state.conf
    BY <1>1, <2>1, StateAfterSave DEF Saved
  <2>3. /\ pos # NoPos => pos.sl \in Nat
        /\ snap.sl \in Nat /\ bid \in Nat
    BY <1>2, Numbers
  <2>4. pos # NoPos /\ pos.id = snap.id => snap.sl < bid
    BY <1>2, <2>3 DEF StopInv
  <2> QED
    BY <1>1, <1>2, <1>4, <2>2, <2>4 DEF StopInv
<1> QED
  BY <1>3, <1>4

LEMMA SentStops ==
  ASSUME TypeInv, StopInv, ModifySend \/ SellSend, TypeInv'
  PROVE  StopInv'
<1>1. SentShape /\ pc' # "modify"
  BY ModifySendShape, SellSendShape, NoNewRequest
<1>2. CASE SellSend
  <2>1. pos' \in {pos, NoPos} /\ UNCHANGED bid
    BY <1>2 DEF SellSend
  <2> QED
    BY <1>1, <2>1, StopInvOther DEF StopMoves, SentShape
<1>3. CASE ModifySend
  <2>1. snap' \in {NoPos, pos'} /\ UNCHANGED bid
    BY <1>1, <1>3, ModifySendShape DEF ModifySend, StopInv, SentShape
  <2>2. pos' # NoPos => pos'.sl < bid
    <3>1. CASE UNCHANGED pos
      BY <3>1 DEF StopInv
    <3>2. ASSUME NEW sl, OpenId = snap.id, sl < bid, pos' = [pos EXCEPT !.sl = sl, !.tp = call.tp]
          PROVE  pos'.sl < bid
      <4>1. pos # NoPos /\ pos \in Broker
        BY <1>3, <3>2, OpenIsSnap DEF TypeInv, TypeOK, ModifySend
      <4> QED
        BY <3>2, <4>1 DEF Broker
    <3> QED
      BY <1>3, <3>1, <3>2 DEF ModifySend
  <2>3. pos' # NoPos => pos'.sl \in Nat
    BY Constants DEF TypeInv, TypeOK, Broker
  <2> QED
    BY <1>1, <2>1, <2>2, <2>3 DEF StopInv
<1> QED
  BY <1>2, <1>3

\* What the market and the operator do to the stop.
LEMMA OutsideStops ==
  ASSUME TypeInv, StopInv, Outside
  PROVE  StopMoves
<1>1. /\ bid \in Nat /\ (pos # NoPos => pos.sl \in Nat /\ pos \in Broker)
      /\ Tsl \in Nat
  BY Numbers DEF TypeInv, TypeOK
<1>2. CASE UNCHANGED <<pos, bid>>
  BY <1>2 DEF StopMoves
<1>3. ASSUME NEW p \in Position \ used, NEW sl \in Nat, sl < bid,
             pos' = [id |-> p, day |-> Day(clock), sl |-> sl, tp |-> 0], used' = used \cup {p},
             UNCHANGED bid
      PROVE  StopMoves
  BY <1>3, Opened DEF StopMoves
<1>4. CASE Crash
  <2>1. UNCHANGED bid
    BY <1>4 DEF Crash
  <2>2. CASE UNCHANGED pos \/ pos' = NoPos
    BY <2>1, <2>2 DEF StopMoves
  <2>3. CASE /\ pc = "modify" /\ OpenId = snap.id /\ call.sl < bid
             /\ pos' = [pos EXCEPT !.sl = call.sl, !.tp = call.tp]
    <3>1. pos # NoPos /\ pos.id = snap.id /\ snap # NoPos
      BY <2>3, OpenIsSnap DEF TypeInv, TypeOK
    <3>2. pos' # NoPos /\ pos'.id = pos.id /\ pos'.sl = call.sl
      <4>1. call.sl \in Nat /\ call.tp \in Nat
        BY DEF TypeInv, TypeOK, Call
      <4> QED
        BY <2>3, <3>1, <4>1, StopsSet DEF TypeInv
    <3>3. snap' = NoPos
      BY <1>4 DEF Crash
    <3> QED
      BY <2>1, <2>3, <3>1, <3>2, <3>3 DEF StopMoves
  <2>4. CASE \E p \in Position \ (used \cup Manual), px \in {h \in HardPrice : h < bid} :
               pos' = Bought(p, px) /\ used' = used \cup {p}
    BY <1>3, <2>1, <2>4, Constants DEF Bought
  <2> QED
    BY <1>4, <2>2, <2>3, <2>4 DEF Crash
<1>5. CASE PriceMoves
  <2>1. bid' \in Nat
    BY <1>5, Constants DEF PriceMoves
  <2> QED
    BY <1>1, <1>5, <2>1 DEF PriceMoves, StopMoves
<1>6. CASE OperatorOpens
  <2>1. PICK p \in Manual \ used, sl \in {0, Tsl} :
          /\ sl < bid
          /\ pos' = [id |-> p, day |-> Day(clock), sl |-> sl, tp |-> 0]
          /\ used' = used \cup {p}
    BY <1>6 DEF OperatorOpens
  <2>2. p \in Position \ used /\ sl \in Nat
    BY <1>1, <2>1, PositionAssumption DEF PositionAssumption
  <2> QED
    BY <1>3, <1>6, <2>1, <2>2 DEF OperatorOpens
<1>7. CASE OperatorCloses
  BY <1>7 DEF OperatorCloses, StopMoves
<1>8. CASE OperatorTightens
  <2>1. pos # NoPos /\ pos.sl < Tsl /\ Tsl < bid /\ pos' = [pos EXCEPT !.sl = Tsl] /\ bid' = bid
    BY <1>8 DEF OperatorTightens
  <2>2. pos' # NoPos /\ pos'.id = pos.id /\ pos'.sl = Tsl
    BY <1>1, <2>1, StopSet DEF TypeInv
  <2> QED
    BY <1>1, <2>1, <2>2 DEF StopMoves
<1> QED
  BY <1>2, <1>4, <1>5, <1>6, <1>7, <1>8
     DEF Outside, NoEntry, AbortCycle, Suspend, TimePasses, DealAppears, Quiet, Still

LEMMA StopInvStep == TypeInv /\ StopInv /\ [Next]_vars => StopInv'
<1> SUFFICES ASSUME TypeInv, StopInv, [Next]_vars PROVE StopInv'
  OBVIOUS
<1>1. TypeInv'
  BY TypeInvStep
<1>2. CASE Decided
  BY <1>1, <1>2, DecidedStops
<1>3. CASE ModifySend \/ SellSend
  BY <1>1, <1>3, SentStops
<1>4. CASE Outside
  <2>1. StopMoves /\ OutsideShape
    BY <1>4, OutsideStops, OutsideHasShape
  <2>2. state' = state
    BY <2>1 DEF OutsideShape, state
  <2> QED
    BY <1>1, <2>1, <2>2, StopInvSame, StopInvOther DEF OutsideShape
<1>5. CASE Buy
  <2>1. StopMoves
    BY <1>5, BuyShape DEF StopMoves
  <2> QED
    BY <1>1, <1>5, <2>1, BuyShape, StopInvOther
<1>6. CASE (\E n \in Node : Start(n)) \/ CycleTop \/ LookAgain
  <2>1. UNCHANGED <<pos, bid>> /\ snap' \in {NoPos, snap, pos}
    BY <1>6 DEF Start, CycleTop, LookAgain, Quiet, Still
  <2>2. pc' # "modify"
    BY <1>6, NoNewRequest
  <2> QED
    BY <1>1, <2>1, <2>2, StopInvOther DEF StopMoves
<1>7. CASE UNCHANGED vars
  BY <1>7 DEF vars, StopInv, state
<1> QED
  BY <1>2, <1>3, <1>4, <1>5, <1>6, <1>7, StepCases

\* Once a protection is confirmed, a request for new stops never lowers the
\* stop the cycle has read, whether it is answered, lost with the process or
\* overtaken by the operator, unless the market has come too close to it.
THEOREM StopsOnlyTighten == Spec => ProtectionOnlyTightens
<1>1. Init => StopInv
  BY DEF Init, StopInv
<1>2. TypeInv /\ StopInv /\ [Next]_vars =>
        (pc = "modify" /\ OpenId = snap.id /\ pos' \notin {pos, NoPos} /\ state.conf
           => pos'.sl >= snap.sl \/ snap.sl >= bid - Distance)
  <2> SUFFICES ASSUME TypeInv, StopInv, [Next]_vars, pc = "modify", OpenId = snap.id,
                      pos' \notin {pos, NoPos}, state.conf
               PROVE  pos'.sl >= snap.sl \/ snap.sl >= bid - Distance
    OBVIOUS
  <2>1. pos # NoPos /\ pos.id = snap.id /\ snap # NoPos /\ pos \in Broker
    BY OpenIsSnap DEF TypeInv, TypeOK
  <2>2. call.sl >= snap.sl /\ snap.sl <= pos.sl
    BY <2>1 DEF StopInv
  <2>3. /\ pos.sl \in Nat /\ snap.sl \in Nat /\ call.sl \in Nat /\ bid \in Nat
        /\ Distance \in Nat /\ Tsl \in Nat /\ call.tp \in Nat
    BY <2>1, Numbers DEF TypeInv, TypeOK, Call
  <2>4. CASE ModifySend
    <3>1. PICK sl : /\ sl = IF call.sl # snap.sl /\ call.sl >= bid - Distance
                            THEN bid - Distance - 1 ELSE call.sl
                    /\ pos' = [pos EXCEPT !.sl = sl, !.tp = call.tp]
      BY <2>4 DEF ModifySend
    <3>2. pos'.sl = sl
      BY <2>1, <3>1 DEF Broker
    <3> QED
      BY <2>2, <2>3, <3>1, <3>2
  <2>5. CASE Crash
    <3>1. pos' = [pos EXCEPT !.sl = call.sl, !.tp = call.tp]
      BY <2>1, <2>5 DEF Crash, BuyAllowed
    <3>2. pos'.sl = call.sl
      BY <2>1, <3>1 DEF Broker
    <3> QED
      BY <2>2, <3>2
  <2>6. CASE OperatorTightens
    <3>1. pos.sl < Tsl /\ pos' = [pos EXCEPT !.sl = Tsl]
      BY <2>6 DEF OperatorTightens
    <3>2. pos'.sl = Tsl
      BY <2>1, <3>1 DEF Broker
    <3> QED
      BY <2>2, <2>3, <3>1, <3>2
  <2>7. CASE UNCHANGED vars
    BY <2>7 DEF vars
  <2>8. CASE Outside /\ ~Crash /\ ~OperatorTightens
    BY <2>1, <2>8 DEF Outside, NoEntry, AbortCycle, Suspend, PriceMoves, TimePasses, DealAppears,
                      OperatorOpens, OperatorCloses, Quiet, Still
  <2>9. CASE Decided
    BY <2>9 DEF Decided, Quiet, Still
  <2>10. ~SellSend /\ ~CycleTop /\ ~LookAgain /\ ~Buy /\ \A n \in Node : ~Start(n)
    BY DEF SellSend, CycleTop, LookAgain, Buy, BuyAllowed, Start
  <2> QED
    BY <2>4, <2>5, <2>6, <2>7, <2>8, <2>9, <2>10, StepCases
<1> QED
  BY <1>1, <1>2, StopInvStep, TypeInvAlways, PTL DEF Spec, ProtectionOnlyTightens
===============================================================================
