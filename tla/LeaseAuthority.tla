---------------------------- MODULE LeaseAuthority ----------------------------
(***************************************************************************)
(* What a global role lease promises, without the clocks, threads and      *)
(* messages that implement it.                                             *)
(*                                                                         *)
(* The backend row names an owner, a fencing token and whether the lease   *)
(* is active (expires_at > now).  Each runtime process has a view: the     *)
(* fencing token it may act under, or 0 while role_lease_valid() is false. *)
(* The promise is that a view never outlives the row it was taken from.    *)
(*                                                                         *)
(* RoleLease implements this module; TradeExecution is built on it.        *)
(***************************************************************************)
EXTENDS Integers

CONSTANTS Proc,  \* runtime processes, each with an owner id of its own
          None   \* the owner of a row nobody has inserted yet

ASSUME NoneIsNotAProcess == None \notin Proc

VARIABLES owner,   \* strategy_runtime_leases.owner_id
          token,   \* strategy_runtime_leases.fencing_token
          active,  \* strategy_runtime_leases.expires_at > now
          view     \* what each process believes: the token it holds, or 0

leaseVars == <<owner, token, active, view>>

LeaseInit ==
  /\ owner = None
  /\ token = 0
  /\ active = FALSE
  /\ view = [p \in Proc |-> 0]

\* acquireLease on a row that is missing or expired: a new owner, a new token.
Grant(p) ==
  /\ ~active
  /\ owner' = p
  /\ token' = token + 1
  /\ active' = TRUE
  /\ UNCHANGED view

\* The process learns that it holds the active row (_activate_acquired_lease,
\* or a renewal answered after the local view had already run out).
Adopt(p) ==
  /\ active
  /\ owner = p
  /\ view' = [view EXCEPT ![p] = token]
  /\ UNCHANGED <<owner, token, active>>

\* Some processes stop believing: safety margin reached, lease_lost_event,
\* shutdown or crash.
Drop(D) ==
  /\ view' = [p \in Proc |-> IF p \in D THEN 0 ELSE view[p]]
  /\ UNCHANGED <<owner, token, active>>

\* The row expires or is released.  No view survives it.
Lapse ==
  /\ active
  /\ active' = FALSE
  /\ view' = [p \in Proc |-> 0]
  /\ UNCHANGED <<owner, token>>

LeaseNext ==
  \/ \E p \in Proc : Grant(p) \/ Adopt(p)
  \/ \E D \in SUBSET Proc : Drop(D)
  \/ Lapse

LeaseSpec == LeaseInit /\ [][LeaseNext]_leaseVars

-------------------------------------------------------------------------------

LeaseTypeOK ==
  /\ owner \in Proc \cup {None}
  /\ token \in Nat
  /\ active \in BOOLEAN
  /\ view \in [Proc -> Nat]

\* A process that believes it holds the lease is the owner of the active row
\* and presents its current fencing token.
ViewIsCurrent ==
  \A p \in Proc : view[p] # 0 => active /\ owner = p /\ view[p] = token
===============================================================================
