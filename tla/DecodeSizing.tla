---------------------------- MODULE DecodeSizing ----------------------------
(***************************************************************************)
(* The sizing of a sparse decode, which the repository computes twice: the *)
(* Rust wrapper (flashmla/src/sparse_decode.rs, plan_for_arch) and the C   *)
(* ABI (flashmla_c_api.cu, fill_sparse_decode_plan_result).  The candle    *)
(* layer plans only when the two agree, allocates what they say and later  *)
(* accepts a plan for a launch by comparing tensor shapes with them.       *)
(*                                                                         *)
(* h_kv = 1 and d_v = 512 are the only values both validators let pass;    *)
(* dimensions with others are rejected like any other invalid dimensions,  *)
(* as are block counts and page sizes of zero.                             *)
(* Widths are kept: int has the maximum I32Max, size_t and usize UsizeMax. *)
(***************************************************************************)
EXTENDS Integers

CONSTANTS I32Max, UsizeMax

MaxParts == 160       \* kDecodeMaxNumSmPartsForCombine
MetaI32Len == 8       \* kDecodeSchedMetaI32Len
HeadDimV == 512       \* d_v

\* What of the widths the arguments below need; 2^31 - 1 and 2^64 - 1 in the
\* builds of the repository.
ASSUME WidthAssumption ==
    /\ I32Max \in Nat
    /\ UsizeMax \in Nat
    /\ MaxParts * MetaI32Len <= UsizeMax
    /\ I32Max + MaxParts <= UsizeMax

Archs == {"sm90", "sm100"}

Dims == [batch : Nat, s_q : Nat, h_q : Nat, d_qk : Nat, topk : Nat,
         extra_num_blocks : Nat, extra_topk : Nat]

\* An error, or a result.
Err == [ok |-> FALSE]
Ok(v) == [ok |-> TRUE, val |-> v]

-----------------------------------------------------------------------------
(* The dimensions.                                                         *)

HasExtraCache(d) == d.extra_num_blocks # 0 \/ d.extra_topk # 0

\* SparseDecodeDims::validate.
ValidDims(d) ==
    /\ d.batch # 0 /\ d.s_q # 0 /\ d.topk # 0
    /\ d.d_qk \in {512, 576}
    /\ d.h_q \in {64, 128}
    /\ d.topk % 64 = 0
    /\ HasExtraCache(d) =>
           /\ d.extra_num_blocks # 0 /\ d.extra_topk # 0
           /\ d.d_qk # 576

\* checked_i32 on every dimension of a plan.
FitsI32(d, sm) ==
    /\ d.batch <= I32Max /\ d.s_q <= I32Max /\ d.topk <= I32Max
    /\ d.extra_topk <= I32Max /\ sm <= I32Max

\* validate_sparse_decode_shape as the planning entry calls it: only
\* extra_topk tells it of an extra cache.  lens and extraLens: topk_length
\* and extra_topk_length are given.
ShapeAccepted(d, lens, extraLens) ==
    /\ d.batch > 0 /\ d.s_q > 0 /\ d.topk > 0
    /\ d.h_q \in {64, 128}
    /\ d.d_qk \in {512, 576}
    /\ d.topk % 64 = 0
    /\ d.d_qk = 576 => ~lens /\ ~(d.extra_topk > 0 \/ extraLens)

-----------------------------------------------------------------------------
(* The partitions.                                                         *)

AtLeastOne(n) == IF n = 0 THEN 1 ELSE n

\* Two CTAs work on the 128 heads of a MODEL1 decode on SM100.
PairedHeads(arch, d) == arch = "sm100" /\ d.h_q = 128 /\ d.d_qk = 512

\* plan_for_arch; the division by s_q comes first.
NumSmParts(d, arch, sm) ==
    AtLeastOne(CASE arch = "sm90" -> (sm \div d.s_q) \div (d.h_q \div 64)
                 [] PairedHeads(arch, d) -> (sm \div d.s_q) \div 2
                 [] OTHER -> sm \div d.s_q)

\* fill_sparse_decode_plan_result in the build for target; first without the
\* division by two for paired heads.
CNumSmPartsUnpaired(d, target, sm) ==
    IF target = "sm100"
    THEN AtLeastOne(sm \div d.s_q)
    ELSE AtLeastOne((sm \div d.s_q) \div (d.h_q \div 64))
CNumSmParts(d, target, sm) ==
    IF target = "sm100"
    THEN IF d.h_q = 128 /\ d.d_qk = 512
         THEN AtLeastOne((sm \div d.s_q) \div 2)
         ELSE AtLeastOne(sm \div d.s_q)
    ELSE AtLeastOne((sm \div d.s_q) \div (d.h_q \div 64))

FixedOverhead(d, arch) == IF PairedHeads(arch, d) THEN 3 ELSE 5

-----------------------------------------------------------------------------
(* The workspaces.  Overflow stands for the None of a checked operation.   *)

Overflow == -1

\* usize::checked_add and usize::checked_mul, chained by and_then.
CheckedAdd(a, b) == IF a + b > UsizeMax THEN Overflow ELSE a + b
CheckedMul(a, b) ==
    IF a = Overflow \/ a * b > UsizeMax THEN Overflow ELSE a * b

\* checked_mul_size divides instead, so that nothing wraps.
CMul(a, b) ==
    IF a = Overflow \/ (a # 0 /\ b > UsizeMax \div a) THEN Overflow ELSE a * b

Meta(parts, overhead, metaLen, splitsLen, lse, o) ==
    [num_sm_parts |-> parts, fixed_overhead |-> overhead,
     metadata_len |-> metaLen, num_splits_len |-> splitsLen,
     lse_elems |-> lse, o_elems |-> o]

\* SparseDecodeDims::plan_for_arch.
PlanForArch(d, arch, sm) ==
    LET parts == NumSmParts(d, arch, sm)
        metaLen == CheckedMul(parts, MetaI32Len)
        splitsLen == CheckedAdd(d.batch, 1)
        total == CheckedAdd(d.batch, parts)
        lse == IF parts = 1 THEN 1
               ELSE CheckedMul(CheckedMul(total, d.s_q), d.h_q)
        o == IF parts = 1 THEN 1 ELSE CheckedMul(lse, HeadDimV)
    IN  IF /\ ValidDims(d) /\ sm # 0 /\ parts <= MaxParts
           /\ Overflow \notin {metaLen, splitsLen, lse, o}
        THEN Ok(Meta(parts, FixedOverhead(d, arch), metaLen, splitsLen, lse, o))
        ELSE Err

\* fill_sparse_decode_plan_result: only the products are checked, the int
\* arguments keep the sums in range.
FillPlanResult(d, target, sm) ==
    LET parts == CNumSmParts(d, target, sm)
        lse == IF parts > 1 THEN CMul(CMul(d.batch + parts, d.s_q), d.h_q)
               ELSE 1
        o == IF parts > 1 THEN CMul(lse, HeadDimV) ELSE 1
    IN  IF sm > 0 /\ parts <= MaxParts /\ Overflow \notin {lse, o}
        THEN Ok(Meta(parts, FixedOverhead(d, target), parts * MetaI32Len,
                     d.batch + 1, lse, o))
        ELSE Err

\* decode_workspace_shapes of the candle layer: the shapes of lse_accum and
\* o_accum; a plan without splits has scalars whatever the dimensions.
WorkspaceShapes(meta, d) ==
    LET total == CheckedAdd(d.batch, meta.num_sm_parts)
        lse == CheckedMul(CheckedMul(total, d.s_q), d.h_q)
        o == CheckedMul(lse, HeadDimV)
    IN  IF meta.num_sm_parts = 1
        THEN IF meta.lse_elems = 1 /\ meta.o_elems = 1
             THEN Ok([lse |-> <<1, 1, 1>>, o |-> <<1, 1, 1, 1>>])
             ELSE Err
        ELSE IF /\ Overflow \notin {total, lse, o}
                /\ meta.lse_elems = lse /\ meta.o_elems = o
             THEN Ok([lse |-> <<total, d.s_q, d.h_q>>,
                      o |-> <<total, d.s_q, d.h_q, HeadDimV>>])
             ELSE Err
=============================================================================
