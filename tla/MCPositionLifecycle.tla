-------------------------- MODULE MCPositionLifecycle --------------------------
\* Model checking of PositionLifecycle: symmetry of the nodes.
EXTENDS PositionLifecycle, TLC

Symmetry == Permutations(Node)
===============================================================================
