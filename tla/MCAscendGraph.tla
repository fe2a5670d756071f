--------------------------- MODULE MCAscendGraph ---------------------------
(* Processes that find all the graph symbols, some of them, or none, and   *)
(* libraries that have all of them, fewer than the process, or are missing.*)
EXTENDS AscendGraph, TLC

MCEnvironments ==
  [default : {Symbols, Symbols \ {"ExecuteAsync"}, {"Destroy"}, {}},
   opens : BOOLEAN,
   library : {Symbols, {"CaptureBegin", "Destroy"}, {}}]
Symmetry ==
  Permutations(Streams) \cup Permutations(Models) \cup Permutations(Execs)
=============================================================================
