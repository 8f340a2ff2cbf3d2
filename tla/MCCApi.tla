------------------------------- MODULE MCCApi -------------------------------
(* Two threads and two devices, of which one has the compiled architecture *)
(* (SM100, whose decode of 128 heads may take three launches).             *)
EXTENDS CApi, TLC

CONSTANTS t1, t2, good, other

MCThreads == {t1, t2}
MCDevices == {good, other}
MCCudaArch == good :> "sm100" @@ other :> "sm90"
Symmetry == Permutations(MCThreads)
=============================================================================
