------------------------------ MODULE WeeklyEntry ------------------------------
(***************************************************************************)
(* What the weekly entry promises, without leases, gates, calls and steps: *)
(* a week has at most one holder, only the holder places a BUY for it,     *)
(* once, and the week passes on only while the holder has no BUY at the    *)
(* broker that was not refused.  A settled week stays with its holder.     *)
(*                                                                         *)
(* TradeExecution implements this module.                                  *)
(***************************************************************************)
CONSTANTS Exec,  \* execution ids
          Week,  \* ISO week keys
          None   \* the holder of a week nobody holds

VARIABLES holder,   \* the execution that holds each week, or None
          settled,  \* weeks whose result is final
          live,     \* BUYs of each week placed at the broker and not refused
          refused   \* BUYs of each week the broker has refused

entryVars == <<holder, settled, live, refused>>

Init ==
  /\ holder = [w \in Week |-> None]
  /\ settled = {}
  /\ live = [w \in Week |-> {}]
  /\ refused = [w \in Week |-> {}]

\* claimWeeklyEntry gives a free week to an execution.
Claim(w, e) ==
  /\ holder[w] = None
  /\ holder' = [holder EXCEPT ![w] = e]
  /\ UNCHANGED <<settled, live, refused>>

\* The holder of an open week calls order_send, once.
Place(w, e) ==
  /\ holder[w] = e
  /\ w \notin settled
  /\ e \notin live[w] \cup refused[w]
  /\ live' = [live EXCEPT ![w] = @ \cup {e}]
  /\ UNCHANGED <<holder, settled, refused>>

\* The broker refuses a BUY it was sent, at any later time.
Refuse(w, e) ==
  /\ e \in live[w]
  /\ live' = [live EXCEPT ![w] = @ \ {e}]
  /\ refused' = [refused EXCEPT ![w] = @ \cup {e}]
  /\ UNCHANGED <<holder, settled>>

\* The holder reports that no BUY of it is or will be at the broker.
Withdraw(w) ==
  /\ holder[w] # None
  /\ w \notin settled
  /\ holder[w] \notin live[w]
  /\ holder' = [holder EXCEPT ![w] = None]
  /\ UNCHANGED <<settled, live, refused>>

\* The holder reports a BUY it has placed as accepted, or as unknown.
Settle(w) ==
  /\ holder[w] \in live[w] \cup refused[w]
  /\ w \notin settled
  /\ settled' = settled \cup {w}
  /\ UNCHANGED <<holder, live, refused>>

Next ==
  \E w \in Week :
    \/ \E e \in Exec : Claim(w, e) \/ Place(w, e) \/ Refuse(w, e)
    \/ Withdraw(w)
    \/ Settle(w)

Spec == Init /\ [][Next]_entryVars
===============================================================================
