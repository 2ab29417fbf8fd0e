--------------------------- MODULE MCVirtualAsio ---------------------------
(* VirtualAsio for TLC: event pairs are interchangeable, and so are threads.  *)
EXTENDS VirtualAsio, TLC

Symmetry == Permutations(Pairs) \cup Permutations(Threads)
=============================================================================
