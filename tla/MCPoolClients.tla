--------------------------- MODULE MCPoolClients ---------------------------
(* PoolClients on two size classes, with a request that exceeds both and  *)
(* one that overflows align_up.                                            *)
EXTENDS PoolClients, TLC

MCClassSizes == <<2, 4>>
MCRequestSizes == {1, 3, 5, 7}
Symmetry ==
  Permutations(Threads) \cup Permutations(Ptrs) \cup Permutations(Leases)
=============================================================================
