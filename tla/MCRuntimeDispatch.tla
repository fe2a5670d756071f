------------------------- MODULE MCRuntimeDispatch -------------------------
(* A build with the CPU (one device) and one accelerator, here with two    *)
(* devices and selected by default; its device type is accelerator.        *)
EXTENDS RuntimeDispatch, TLC

CONSTANTS cpu, accelerator

MCBackends == {cpu, accelerator}
MCDeviceCount == cpu :> 1 @@ accelerator :> 2
Symmetry == Permutations(Threads)
\* warned and asked say what the last step did; no step depends on them.
Lasting == <<type, index, aclInit, guards, callVars>>
=============================================================================
