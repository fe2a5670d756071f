------------------------ MODULE MCReusableMemoryPool ------------------------
(* Small instances of ReusableMemoryPool: one size class of four bytes,    *)
(* requests that round up into it (3), that need a large block (5) and     *)
(* that overflow align_up (7), with a three-bit size_t.                    *)
EXTENDS ReusableMemoryPool, TLC

MCClassSizes == <<4>>
MCRequestSizes == {0, 3, 5, 7}
MCFewSizes == {3, 7}
Symmetry ==
  Permutations(Threads) \cup Permutations(Ptrs) \cup Permutations(Leases)
=============================================================================
