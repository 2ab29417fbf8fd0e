----------------------------- MODULE MCOsrComm -----------------------------
(* OsrComm for TLC: the constants are model values, so nothing is redefined; *)
(* threads and pool blocks are interchangeable.                              *)
EXTENDS OsrComm, TLC

Symmetry ==
  Permutations(Clients) \cup Permutations(Workers) \cup Permutations(Blocks)
=============================================================================
