---------------------------- MODULE MCPageAllocator ----------------------------
(* Two guest threads and a region of four pages, for pages and large pages of  *)
(* two.  The threads are interchangeable.                                      *)
EXTENDS PageAllocator, TLC

MCAlignments == {1, 2}

Symmetry == Permutations(Threads)
================================================================================
