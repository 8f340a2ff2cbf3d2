--------------------------- MODULE MCTensorGuards ---------------------------
(***************************************************************************)
(* Two calls that share one of two storages, a second stream, a refill and *)
(* two replays.                                                            *)
(***************************************************************************)
EXTENDS TensorGuards

CONSTANTS main, side, q, kv, c1, c2

MCStreams == {main, side}
MCInputs == {q, kv}
MCCalls == {c1, c2}
MCDepth == [b \in {q, kv} |-> IF b = q THEN 1 ELSE 0]
MCReads == [c \in {c1, c2} |-> IF c = c1 THEN <<q, kv>> ELSE <<kv>>]
=============================================================================
