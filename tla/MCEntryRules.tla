---------------------------- MODULE MCEntryRules ----------------------------
\* Model checking of EntryRules: the machines are interchangeable.
EXTENDS EntryRules, TLC

Symmetry == Permutations(Node)
===============================================================================
