--------------------------- MODULE MCDecodeStream ---------------------------
(* Two threads share a plan of three parts and one of one; a batch of two   *)
(* requests, both halves of the heads.  Threads are interchangeable and so  *)
(* are calls.                                                               *)
EXTENDS DecodeStream, TLC

CONSTANTS t1, t2, split, whole, c1, c2

MCThreads == {t1, t2}
MCPlans == {split, whole}
MCPlan == {split}
MCCalls == {c1, c2}
MCParts == [p \in Plans |-> IF p = split THEN 3 ELSE 1]
Symmetry == Permutations(MCThreads) \cup Permutations(MCCalls)
=============================================================================
