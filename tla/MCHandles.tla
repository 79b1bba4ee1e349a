------------------------------ MODULE MCHandles ------------------------------
EXTENDS Handles, TLC

\* Objects and addresses are interchangeable.
Symmetry ==
  Permutations(Conns) \cup Permutations(Handles) \cup Permutations(Stmts) \cup Permutations(Names)
=============================================================================
