-------------------------- MODULE LeaseAuthorityProofs --------------------------
(***************************************************************************)
(* The abstract lease keeps its promise: its two invariants are inductive  *)
(* together.                                                               *)
(***************************************************************************)
EXTENDS LeaseAuthority, TLAPS

\* Every behaviour of the abstract lease is well typed, and a process that
\* believes it holds the lease owns the active row under its current token.
\* Users of the lease (broker_execution.py, publishing.py) rely on no more.
THEOREM LeaseViewIsCurrent == LeaseSpec => [](LeaseTypeOK /\ ViewIsCurrent)
<1>1. LeaseInit => LeaseTypeOK /\ ViewIsCurrent
  <2> SUFFICES ASSUME LeaseInit PROVE LeaseTypeOK /\ ViewIsCurrent
    OBVIOUS
  <2>1. /\ owner \in Proc \cup {None}
        /\ token \in Nat
        /\ view \in [Proc -> Nat]
        /\ \A p \in Proc : view[p] = 0
    BY DEF LeaseInit
  <2>2. active \in BOOLEAN
    BY Zenon DEF LeaseInit
  <2>3. QED
    BY <2>1, <2>2, Zenon DEF LeaseTypeOK, ViewIsCurrent
<1>2. LeaseTypeOK /\ ViewIsCurrent /\ [LeaseNext]_leaseVars
        => (LeaseTypeOK /\ ViewIsCurrent)'
  <2> SUFFICES ASSUME LeaseTypeOK, ViewIsCurrent, [LeaseNext]_leaseVars
               PROVE  (LeaseTypeOK /\ ViewIsCurrent)'
    OBVIOUS
  <2> USE DEF LeaseTypeOK, ViewIsCurrent
  <2>1. ASSUME NEW p \in Proc, Grant(p) PROVE (LeaseTypeOK /\ ViewIsCurrent)'
    BY <2>1 DEF Grant
  <2>2. ASSUME NEW p \in Proc, Adopt(p) PROVE (LeaseTypeOK /\ ViewIsCurrent)'
    BY <2>2 DEF Adopt
  <2>3. ASSUME NEW D \in SUBSET Proc, Drop(D) PROVE (LeaseTypeOK /\ ViewIsCurrent)'
    BY <2>3 DEF Drop
  <2>4. CASE Lapse
    BY <2>4 DEF Lapse
  <2>5. CASE UNCHANGED leaseVars
    BY <2>5 DEF leaseVars
  <2>6. QED
    BY <2>1, <2>2, <2>3, <2>4, <2>5 DEF LeaseNext
<1>3. QED
  BY <1>1, <1>2, PTL DEF LeaseSpec

\* At any time at most one process believes it holds the lease, so the processes
\* that stop believing together are at most one: the runtime code that uses the
\* lease may be followed one process at a time, as TradeExecution does.
THEOREM OneBeliever ==
  LeaseSpec => [](\A p, q \in Proc : view[p] # 0 /\ view[q] # 0 => p = q)
<1>1. LeaseTypeOK /\ ViewIsCurrent => \A p, q \in Proc : view[p] # 0 /\ view[q] # 0 => p = q
  BY DEF ViewIsCurrent
<1>2. QED
  BY <1>1, LeaseViewIsCurrent, PTL

THEOREM DropsAreSingle ==
  ASSUME LeaseTypeOK, ViewIsCurrent, NEW D \in SUBSET Proc, Drop(D)
  PROVE  UNCHANGED leaseVars \/ \E p \in Proc : Drop({p})
<1>1. CASE \A p \in D : view[p] = 0
  <2>1. view' = view
    BY <1>1 DEF Drop, LeaseTypeOK
  <2>2. QED
    BY <2>1 DEF Drop, leaseVars
<1>2. CASE \E p \in D : view[p] # 0
  <2>1. PICK p \in D : view[p] # 0
    BY <1>2
  <2>2. \A q \in D \ {p} : view[q] = 0
    BY <2>1 DEF ViewIsCurrent
  <2>3. view' = [q \in Proc |-> IF q \in {p} THEN 0 ELSE view[q]]
    BY <2>2 DEF Drop
  <2>4. Drop({p})
    BY <2>3 DEF Drop
  <2>5. QED
    BY <2>1, <2>4
<1>3. QED
  BY <1>1, <1>2
===============================================================================
