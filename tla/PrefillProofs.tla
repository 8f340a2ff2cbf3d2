---------------------------- MODULE PrefillProofs ----------------------------
(***************************************************************************)
(* Proofs about Prefill: the inductive invariant IInv and the safety       *)
(* properties it implies, for any devices, tensors and raw parameters.     *)
(***************************************************************************)
EXTENDS Prefill, SequenceTheorems, TLAPS

\* The alignment rules of Rust and C are the same function of the dimensions
\* and the architecture.
LEMMA AlignmentsAgree ==
    ASSUME NEW d \in Dims, NEW arch \in {"sm90a", "sm100f"}
    PROVE  Alignment(d, arch) = TopkAlignment(d, arch)
BY DEF Alignment, TopkAlignment, Dims

\* The rule that chooses a kernel and the alignment fit each other.
LEMMA ChosenKernelTakes ==
    ASSUME NEW d \in Dims, NEW lib \in {"sm90a", "sm100f"},
           d.h_q \in {64, 128}, d.d_qk \in {512, 576}, TopkAccepted(d, lib)
    PROVE  KernelTakes(KernelOf(d, lib), d)
<1> DEFINE n == d.topk
<1>1. d.h_q \in Nat /\ d.d_qk \in Nat /\ n \in Nat
  BY DEF Dims
<1>2. CASE lib = "sm90a"
  BY <1>1, <1>2 DEF KernelTakes, KernelOf, TopkAccepted, TopkAlignment
<1>3. CASE lib = "sm100f" /\ d.h_q = 64
  BY <1>1, <1>3 DEF KernelTakes, KernelOf, TopkAccepted, TopkAlignment
<1>4. CASE lib = "sm100f" /\ d.h_q = 128 /\ d.d_qk = 512 /\ n <= 1280
  BY <1>1, <1>4 DEF KernelTakes, KernelOf, TopkAccepted, TopkAlignment
<1>5. CASE lib = "sm100f" /\ d.h_q = 128 /\ ~(d.d_qk = 512 /\ n <= 1280)
  BY <1>1, <1>5 DEF KernelTakes, KernelOf, TopkAccepted, TopkAlignment
<1> QED
  BY <1>2, <1>3, <1>4, <1>5

\* A tensor of rank three has the numbers its layout is read from.
LEMMA TensorIsTyped ==
    ASSUME NEW t \in Tensors
    PROVE  /\ t.device \in Devices /\ t.offset \in Nat /\ t.size \in Nat
           /\ Len(t.shape) = 3 =>
                  /\ t.shape[1] \in Nat /\ t.shape[2] \in Nat
                  /\ t.shape[3] \in Nat
                  /\ t.stride[1] \in Nat /\ t.stride[2] \in Nat
<1>1. /\ t.shape \in Seq(Nat) /\ t.stride \in Seq(Nat)
      /\ t.device \in Devices /\ t.offset \in Nat /\ t.size \in Nat
      /\ Len(t.stride) = Len(t.shape)
  BY DEF Tensors
<1>2. \A s \in Seq(Nat) : Len(s) = 3 => s[1] \in Nat /\ s[2] \in Nat /\ s[3] \in Nat
  <2> SUFFICES ASSUME NEW s \in Seq(Nat), Len(s) = 3
               PROVE  s[1] \in Nat /\ s[2] \in Nat /\ s[3] \in Nat
    OBVIOUS
  <2> QED
    BY ElementOfSeq
<1> QED
  BY <1>1, <1>2

LEMMA PointerIsTyped ==
    ASSUME NEW t \in Tensors \cup {None}
    PROVE  PointerOf(t) \in Pointers
BY TensorIsTyped DEF PointerOf, Pointers

LEMMA RequestIsTyped ==
    ASSUME NEW r \in Requests
    PROVE  /\ r.q \in Tensors /\ r.kv \in Tensors /\ r.indices \in Tensors
           /\ r.topk_length \in Tensors \cup {None}
           /\ r.attn_sink \in Tensors \cup {None}
           /\ r.d_v \in Nat
BY PrefillAssumption DEF PrefillAssumption, Arguments

\* What the candle layer makes of an accepted request is well formed.
LEMMA AcceptedIsTyped ==
    ASSUME NEW r \in Requests, TensorsAccepted(r)
    PROVE  /\ DimsOf(r) \in Dims
           /\ r.q.device \in Devices
           /\ ParamsOf(r) \in Params
<1>1. Len(r.q.shape) = 3 /\ Len(r.kv.shape) = 3 /\ Len(r.indices.shape) = 3
  BY DEF TensorsAccepted, IsArray
<1>2. r.q.device \in Devices
  BY RequestIsTyped, TensorIsTyped
<1>3. DimsOf(r) \in Dims
  BY <1>1, RequestIsTyped, TensorIsTyped DEF DimsOf, Dims
<1>4. ParamsOf(r).strides \in Strides
  <2>1. /\ r.q.stride[1] \in Nat /\ r.q.stride[2] \in Nat
        /\ r.kv.stride[1] \in Nat /\ r.kv.stride[2] \in Nat
        /\ r.indices.stride[1] \in Nat /\ r.indices.stride[2] \in Nat
    BY <1>1, RequestIsTyped, TensorIsTyped
  <2>2. ParamsOf(r).strides =
            <<r.q.stride[1], r.q.stride[2], r.kv.stride[1], r.kv.stride[2],
              r.indices.stride[1], r.indices.stride[2]>>
    BY DEF ParamsOf
  <2> QED
    BY <2>1, <2>2 DEF Strides
<1>5. NumSms[r.q.device] \in Nat
  BY <1>2, PrefillAssumption DEF PrefillAssumption
<1>6. \A d \in Devices, n \in Nat : Fresh(d, n) \in Pointers
  BY DEF Fresh, Pointers
<1>7. \A d \in Dims : d.s_q * d.h_q * d.d_v \in Nat /\ d.s_q * d.h_q \in Nat
  BY DEF Dims
<1>8. ParamsOf(r) \in Params
  <2> DEFINE d == DimsOf(r)
  <2>1. /\ Fresh(r.q.device, d.s_q * d.h_q * d.d_v) \in Pointers
        /\ Fresh(r.q.device, d.s_q * d.h_q) \in Pointers
    BY <1>2, <1>3, <1>6, <1>7
  <2>2. /\ PointerOf(r.q) \in Pointers /\ PointerOf(r.kv) \in Pointers
        /\ PointerOf(r.indices) \in Pointers
        /\ PointerOf(r.topk_length) \in Pointers
        /\ PointerOf(r.attn_sink) \in Pointers
    BY RequestIsTyped, PointerIsTyped
  <2>3. r.d_v \in Nat
    BY RequestIsTyped
  <2> HIDE DEF d
  <2> QED
    BY <1>3, <1>4, <1>5, <2>1, <2>2, <2>3 DEF ParamsOf, Params, d
<1> QED
  BY <1>2, <1>3, <1>8

\* A kernel that is given the parameters of an accepted request with
\* dimensions that are not zero stays within the request's storages.
LEMMA AcceptedStaysWithin ==
    ASSUME NEW r \in Requests, TensorsAccepted(r), ValidDims(DimsOf(r))
    PROVE  ReachWithin(ParamsOf(r))
<1> DEFINE p == ParamsOf(r)  d == DimsOf(r)
<1>1. /\ r.q \in Tensors /\ r.kv \in Tensors /\ r.indices \in Tensors
      /\ r.topk_length \in Tensors \cup {None}
      /\ r.attn_sink \in Tensors \cup {None}
  BY RequestIsTyped
<1>2. d \in Dims
  BY AcceptedIsTyped
<1>3. d.s_q > 0 /\ d.s_kv > 0 /\ d.h_q > 0 /\ d.h_kv > 0 /\ d.d_qk > 0
      /\ d.topk > 0
  BY <1>2 DEF ValidDims, Dims
<1>4. /\ Within(r.q) /\ Len(r.q.shape) = 3 /\ r.q.stride[3] = 1
      /\ Within(r.kv) /\ Len(r.kv.shape) = 3 /\ r.kv.stride[3] = 1
      /\ Within(r.indices) /\ Len(r.indices.shape) = 3 /\ r.indices.stride[3] = 1
  BY <1>1 DEF Tensors, TensorsAccepted, IsArray
<1>5. /\ d.s_q = r.q.shape[1] /\ d.h_q = r.q.shape[2] /\ d.d_qk = r.q.shape[3]
      /\ d.s_kv = r.kv.shape[1] /\ d.h_kv = r.kv.shape[2]
      /\ d.d_qk = r.kv.shape[3]
      /\ d.s_q = r.indices.shape[1] /\ d.h_kv = r.indices.shape[2]
      /\ d.topk = r.indices.shape[3]
  BY DEF TensorsAccepted, DimsOf
<1>6. Last3(r.q.offset, d.s_q, d.h_q, d.d_qk, r.q.stride[1], r.q.stride[2])
          < r.q.size
  BY <1>3, <1>4, <1>5 DEF Within
<1>7. Last3(r.kv.offset, d.s_kv, d.h_kv, d.d_qk, r.kv.stride[1], r.kv.stride[2])
          < r.kv.size
  BY <1>3, <1>4, <1>5 DEF Within
<1>8. Last3(r.indices.offset, d.s_q, d.h_kv, d.topk, r.indices.stride[1],
            r.indices.stride[2]) < r.indices.size
  BY <1>3, <1>4, <1>5 DEF Within
<1>9. r.topk_length # None => Last1(r.topk_length.offset, d.s_q) < r.topk_length.size
  BY <1>1, <1>3, <1>5 DEF Within, Tensors, TensorsAccepted, Vector, IsArray
<1>10. r.attn_sink # None => Last1(r.attn_sink.offset, d.h_q) < r.attn_sink.size
  BY <1>1, <1>3, <1>5 DEF Within, Tensors, TensorsAccepted, Vector, IsArray
<1>11. /\ p.dims = d
       /\ p.strides[1] = r.q.stride[1] /\ p.strides[2] = r.q.stride[2]
       /\ p.strides[3] = r.kv.stride[1] /\ p.strides[4] = r.kv.stride[2]
       /\ p.strides[5] = r.indices.stride[1] /\ p.strides[6] = r.indices.stride[2]
       /\ p.out.size = d.s_q * d.h_q * d.d_v
       /\ p.max_logits.size = d.s_q * d.h_q /\ p.lse.size = d.s_q * d.h_q
       /\ p.q = PointerOf(r.q) /\ p.kv = PointerOf(r.kv)
       /\ p.indices = PointerOf(r.indices)
       /\ p.topk_length = PointerOf(r.topk_length)
       /\ p.attn_sink = PointerOf(r.attn_sink)
  BY DEF ParamsOf, Fresh
<1>12. \A t \in Tensors :
           PointerOf(t).offset = t.offset /\ PointerOf(t).size = t.size
  BY PrefillAssumption DEF PrefillAssumption, PointerOf
<1>13. PointerOf(None) = None
  BY DEF PointerOf
<1>14. d.s_q * d.h_q * d.d_v \in Nat /\ d.s_q * d.h_q \in Nat
  BY <1>2 DEF Dims
<1>15. p.topk_length # None =>
           Last1(p.topk_length.offset, d.s_q) < p.topk_length.size
  <2>1. r.topk_length # None =>
            /\ p.topk_length.offset = r.topk_length.offset
            /\ p.topk_length.size = r.topk_length.size
    BY <1>1, <1>11, <1>12
  <2> QED
    BY <1>9, <1>11, <1>13, <2>1
<1>16. p.attn_sink # None =>
           Last1(p.attn_sink.offset, d.h_q) < p.attn_sink.size
  <2>1. r.attn_sink # None =>
            /\ p.attn_sink.offset = r.attn_sink.offset
            /\ p.attn_sink.size = r.attn_sink.size
    BY <1>1, <1>11, <1>12
  <2> QED
    BY <1>10, <1>11, <1>13, <2>1
<1>17. /\ p.q.offset = r.q.offset /\ p.q.size = r.q.size
       /\ p.kv.offset = r.kv.offset /\ p.kv.size = r.kv.size
       /\ p.indices.offset = r.indices.offset /\ p.indices.size = r.indices.size
  BY <1>1, <1>11, <1>12
<1>18. /\ d.s_q * d.h_q * d.d_v <= p.out.size
       /\ d.s_q * d.h_q <= p.max_logits.size
       /\ d.s_q * d.h_q <= p.lse.size
  <2> DEFINE m == d.s_q * d.h_q * d.d_v  n == d.s_q * d.h_q
  <2>1. m \in Nat /\ n \in Nat /\ p.out.size = m /\ p.max_logits.size = n
        /\ p.lse.size = n
    BY <1>11, <1>14
  <2> HIDE DEF m, n
  <2>2. m <= p.out.size /\ n <= p.max_logits.size /\ n <= p.lse.size
    BY <2>1
  <2> QED
    BY <2>2 DEF m, n
<1> HIDE DEF p, d
<1>19. /\ Last3(p.q.offset, d.s_q, d.h_q, d.d_qk, p.strides[1], p.strides[2])
              < p.q.size
       /\ Last3(p.kv.offset, d.s_kv, d.h_kv, d.d_qk, p.strides[3], p.strides[4])
              < p.kv.size
       /\ Last3(p.indices.offset, d.s_q, d.h_kv, d.topk, p.strides[5],
                p.strides[6]) < p.indices.size
  BY <1>6, <1>7, <1>8, <1>11, <1>17
<1>20. p.dims = d
  BY <1>11
<1>21. ReachWithin(p)
  BY <1>15, <1>16, <1>18, <1>19, <1>20 DEF ReachWithin
<1> QED
  BY <1>21 DEF p

\* All pointers made for an accepted request are on its queries' device.
LEMMA AcceptedIsOnOneDevice ==
    ASSUME NEW r \in Requests, TensorsAccepted(r)
    PROVE  /\ \A p \in Required(ParamsOf(r)) : p.device = r.q.device
           /\ \A p \in {ParamsOf(r).topk_length, ParamsOf(r).attn_sink} :
                  p # None => p.device = r.q.device
<1> DEFINE p == ParamsOf(r)
<1>1. /\ r.q # None /\ r.kv # None /\ r.indices # None
      /\ r.kv.device = r.q.device /\ r.indices.device = r.q.device
      /\ r.topk_length # None => r.topk_length.device = r.q.device
      /\ r.attn_sink # None => r.attn_sink.device = r.q.device
  BY RequestIsTyped, PrefillAssumption
  DEF PrefillAssumption, TensorsAccepted, Vector, IsArray
<1>2. \A t : t # None => PointerOf(t).device = t.device
  BY DEF PointerOf
<1>3. PointerOf(None) = None
  BY DEF PointerOf
<1>4. /\ p.q = PointerOf(r.q) /\ p.kv = PointerOf(r.kv)
      /\ p.indices = PointerOf(r.indices)
      /\ p.topk_length = PointerOf(r.topk_length)
      /\ p.attn_sink = PointerOf(r.attn_sink)
      /\ p.out.device = r.q.device /\ p.max_logits.device = r.q.device
      /\ p.lse.device = r.q.device
  BY DEF ParamsOf, Fresh
<1> HIDE DEF p
<1>5. /\ \A x \in Required(p) : x.device = r.q.device
      /\ \A x \in {p.topk_length, p.attn_sink} : x # None => x.device = r.q.device
  BY <1>1, <1>2, <1>3, <1>4 DEF Required
<1> QED
  BY <1>5 DEF p

\* A device has the architecture of the library exactly when the C ABI
\* compares its capability with success.
LEMMA ArchIsCompiledFor ==
    ASSUME NEW lib \in {"sm90a", "sm100f"}, NEW c
    PROVE  Arch(c) = lib <=> c = IF lib = "sm100f" THEN <<10, 0>> ELSE <<9, 0>>
<1>1. None \notin {"sm90a", "sm100f"}
  BY PrefillAssumption DEF PrefillAssumption, Libraries
<1>2. <<9, 0>> # <<10, 0>>
  OBVIOUS
<1> QED
  BY <1>1, <1>2 DEF Arch

\* What the Rust layers accepted for the library's architecture passes the
\* argument checks of the C ABI.
LEMMA RustIsAsStrictAsC ==
    ASSUME NEW p \in Params, NEW lib \in {"sm90a", "sm100f"},
           ToSysAccepted(p), ValidForArch(p.dims, lib)
    PROVE  ArgumentsAcceptedByC(p, lib)
<1>1. p.dims \in Dims /\ p.num_sm \in Nat
  BY DEF Params
<1>2. TopkAccepted(p.dims, lib)
  BY <1>1, AlignmentsAgree DEF ValidForArch, TopkAccepted
<1>3. \A i \in 1 .. 6 : p.strides[i] > 0
  BY PrefillAssumption DEF PrefillAssumption, ToSysAccepted
<1>4. p.num_sm > 0
  BY <1>1, PrefillAssumption DEF PrefillAssumption, ToSysAccepted
<1>5. p.dims.s_q > 0 /\ p.dims.s_kv > 0 /\ p.dims.topk > 0
  BY <1>1 DEF Dims, ToSysAccepted, ValidDims
<1> QED
  BY <1>2, <1>3, <1>4, <1>5 DEF ArgumentsAcceptedByC, ToSysAccepted, ValidDims

-----------------------------------------------------------------------------
(* The inductive invariant.                                                *)

LEMMA InitInv == Init => IInv
BY PrefillAssumption
DEF Init, IInv, TypeOK, CacheInv, CallInv, KernelFitsLaunch,
    LaunchIsOnItsTensorsDevice, LaunchStaysInTensors,
    SupportedIsNeverRejectedByC, PrefillAssumption

\* A call that ends without a launch leaves nothing but its outcome.
LEMMA EndInv ==
    ASSUME IInv, NEW status \in Statuses, NEW layer, End(status, layer),
           current' \in Devices, UNCHANGED validated,
           SupportedIsNeverRejectedByC'
    PROVE  IInv'
<1>1. TypeOK'
  BY DEF IInv, TypeOK, End
<1>2. CacheInv'
  BY DEF IInv, CacheInv, End
<1>3. CallInv'
  BY DEF CallInv, End
<1>4. KernelFitsLaunch' /\ LaunchIsOnItsTensorsDevice' /\ LaunchStaysInTensors'
  BY DEF End, KernelFitsLaunch, LaunchIsOnItsTensorsDevice, LaunchStaysInTensors
<1> QED
  BY <1>1, <1>2, <1>3, <1>4 DEF IInv

\* So does a step within a call, as far as launches and outcomes go.
LEMMA QuietInv ==
    ASSUME IInv, UNCHANGED library,
           \/ UNCHANGED <<launched, outcome>>
           \/ launched' = None /\ outcome' = None
    PROVE  /\ KernelFitsLaunch' /\ LaunchIsOnItsTensorsDevice'
           /\ LaunchStaysInTensors' /\ SupportedIsNeverRejectedByC'
BY DEF IInv, KernelFitsLaunch, LaunchIsOnItsTensorsDevice,
       LaunchStaysInTensors, SupportedIsNeverRejectedByC

LEMMA PrefillCallInv ==
    ASSUME IInv, NEW r \in Requests, PrefillCall(r)
    PROVE  IInv'
<1>1. TypeOK'
  BY PrefillAssumption DEF PrefillAssumption, IInv, TypeOK, PrefillCall
<1>2. CacheInv' /\ CallInv'
  BY DEF IInv, CacheInv, CallInv, PrefillCall
<1> QED
  BY <1>1, <1>2, QuietInv DEF IInv, PrefillCall

LEMMA RawCallInv ==
    ASSUME IInv, NEW p \in RawParams, RawCall(p)
    PROVE  IInv'
<1>1. TypeOK'
  BY PrefillAssumption DEF PrefillAssumption, IInv, TypeOK, RawCall
<1>2. CacheInv' /\ CallInv'
  BY DEF IInv, TypeOK, CacheInv, CallInv, RawCall
<1> QED
  BY <1>1, <1>2, QuietInv DEF IInv, RawCall

LEMMA QueryInv ==
    ASSUME IInv, Query
    PROVE  IInv'
<1>1. current \in Devices /\ UNCHANGED <<current, validated>>
  BY DEF IInv, TypeOK, Query
<1>2. ASSUME NEW status \in {"Cuda", "UnsupportedArch", "InvalidArgument"},
             NEW layer,
             End(status, layer),
             layer = "flashmla" \/ status = "Cuda" \/ library = "stub"
      PROVE  IInv'
  <2>1. library = "stub" => \A c : Arch(c) # library
    BY PrefillAssumption DEF PrefillAssumption, Arch, Libraries
  <2>2. SupportedIsNeverRejectedByC'
    BY <1>2, <2>1 DEF SupportedIsNeverRejectedByC, End
  <2> QED
    BY <1>1, <1>2, <2>2, EndInv DEF Statuses
<1>3. ASSUME library # "stub",
             ValidForArch(DimsOf(req), Arch(Capability[req.q.device])),
             pc = "query",
             pc' = "allocate",
             UNCHANGED <<library, req, params, launched, outcome>>
      PROVE  IInv'
  <2>1. TypeOK'
    BY <1>1, <1>3 DEF IInv, TypeOK
  <2>2. CacheInv' /\ CallInv'
    BY <1>1, <1>3 DEF IInv, CacheInv, CallInv
  <2> QED
    BY <1>3, <2>1, <2>2, QuietInv DEF IInv
<1> QED
  BY <1>2, <1>3 DEF Query

LEMMA AllocateInv ==
    ASSUME IInv, Allocate
    PROVE  IInv'
<1>1. req \in Requests /\ TensorsAccepted(req)
  BY DEF IInv, TypeOK, CallInv, Allocate
<1>2. req.q.device \in Devices /\ current' = req.q.device /\ UNCHANGED validated
  BY <1>1, AcceptedIsTyped DEF Allocate, Bind
<1>3. CASE End("Candle", "candle")
  <2>1. SupportedIsNeverRejectedByC'
    BY <1>3 DEF SupportedIsNeverRejectedByC, End
  <2> QED
    BY <1>2, <1>3, <2>1, EndInv DEF Statuses
<1>4. CASE /\ pc' = "convert" /\ params' = ParamsOf(req)
           /\ UNCHANGED <<library, req, launched, outcome>>
  <2>1. TypeOK'
    BY <1>1, <1>2, <1>4, AcceptedIsTyped DEF IInv, TypeOK
  <2>2. CacheInv'
    BY <1>2, <1>4 DEF IInv, CacheInv
  <2>3. CallInv'
    BY <1>1, <1>2, <1>4 DEF IInv, CallInv, Allocate
  <2> QED
    BY <1>4, <2>1, <2>2, <2>3, QuietInv DEF IInv
<1> QED
  BY <1>3, <1>4 DEF Allocate

LEMMA ConvertInv ==
    ASSUME IInv, Convert
    PROVE  IInv'
<1>1. current \in Devices /\ UNCHANGED <<current, validated>>
  BY DEF IInv, TypeOK, Convert
<1>2. CASE End("InvalidArgument", "flashmla")
  <2>1. SupportedIsNeverRejectedByC'
    BY <1>2 DEF SupportedIsNeverRejectedByC, End
  <2> QED
    BY <1>1, <1>2, <2>1, EndInv DEF Statuses
<1>3. CASE /\ ToSysAccepted(params) /\ pc' = "launch"
           /\ UNCHANGED <<library, req, params, launched, outcome>>
  <2>1. TypeOK'
    BY <1>1, <1>3 DEF IInv, TypeOK, Convert
  <2>2. CacheInv' /\ CallInv'
    BY <1>1, <1>3 DEF IInv, CacheInv, CallInv, Convert
  <2> QED
    BY <1>3, <2>1, <2>2, QuietInv DEF IInv
<1> QED
  BY <1>2, <1>3 DEF Convert

\* A request for a device of the library's architecture that reached the C
\* ABI is in order there, and its device is current.
LEMMA SupportedReachesLaunch ==
    ASSUME IInv, pc = "launch", req # None,
           Arch(Capability[req.q.device]) = library
    PROVE  /\ library # "stub"
           /\ ArgumentsAcceptedByC(params, library)
           /\ DeviceAccepted
<1>1. /\ req \in Requests /\ TensorsAccepted(req) /\ library \in Libraries
      /\ library # "stub"
      /\ ValidForArch(DimsOf(req), library)
      /\ params = ParamsOf(req) /\ params \in Params
      /\ current = req.q.device
      /\ ToSysAccepted(params)
  BY DEF IInv, TypeOK, CallInv
<1>2. library \in {"sm90a", "sm100f"}
  BY <1>1 DEF Libraries
<1>3. params.dims = DimsOf(req)
  BY <1>1 DEF ParamsOf
<1>4. ArgumentsAcceptedByC(params, library)
  BY <1>1, <1>2, <1>3, RustIsAsStrictAsC
<1>5. DeviceAccepted
  BY <1>1, <1>2, ArchIsCompiledFor DEF DeviceAccepted
<1> QED
  BY <1>1, <1>4, <1>5

LEMMA RejectInv ==
    ASSUME IInv, Reject
    PROVE  IInv'
<1>1. current \in Devices /\ UNCHANGED <<current, validated>>
  BY DEF IInv, TypeOK, Reject
<1>2. PICK status \in Statuses : End(status, "c")
  BY DEF Reject, Statuses
<1>3. SupportedIsNeverRejectedByC'
  <2>1. UNCHANGED library /\ outcome'.req = req /\ pc = "launch"
    BY DEF Reject, End
  <2>2. \/ outcome'.status = "Cuda"
        \/ library = "stub" \/ ~ArgumentsAcceptedByC(params, library)
        \/ ~DeviceAccepted
    BY DEF Reject, End
  <2> QED
    BY <2>1, <2>2, SupportedReachesLaunch DEF SupportedIsNeverRejectedByC
<1> QED
  BY <1>1, <1>2, <1>3, EndInv

LEMMA LaunchInv ==
    ASSUME IInv, Launch
    PROVE  IInv'
<1>1. /\ library \in {"sm90a", "sm100f"} /\ library' = library
      /\ current \in Devices /\ current' = current /\ validated' = current
      /\ params \in Params
      /\ req \in Requests \cup {None}
  BY DEF IInv, TypeOK, Launch, Libraries
<1>2. PICK status \in {"ok", "Cuda", "Internal"} :
          outcome' = [status |-> status, from |-> "c", req |-> req]
  BY DEF Launch
<1>3. Arch(Capability[current]) = library
  <2>1. CASE current = validated
    BY <1>1, <2>1, PrefillAssumption DEF PrefillAssumption, IInv, CacheInv
  <2>2. CASE Capability[current] = IF library = "sm100f" THEN <<10, 0>> ELSE <<9, 0>>
    BY <1>1, <2>2, ArchIsCompiledFor
  <2> QED
    BY <2>1, <2>2 DEF Launch, DeviceAccepted
<1>4. launched' = [params |-> params, device |-> current, req |-> req,
                   kernel |-> KernelOf(params.dims, library)]
  BY DEF Launch
<1>5. TypeOK'
  BY <1>1, <1>2 DEF TypeOK, Launch, Libraries, Statuses
<1>6. CacheInv'
  BY <1>1, <1>3 DEF CacheInv
<1>7. CallInv'
  BY DEF CallInv, Launch
<1>8. KernelFitsLaunch'
  <2>1. params.dims \in Dims
    BY <1>1 DEF Params
  <2>2. /\ params.dims.h_q \in {64, 128} /\ params.dims.d_qk \in {512, 576}
        /\ TopkAccepted(params.dims, library)
    BY DEF Launch, ArgumentsAcceptedByC
  <2>3. KernelTakes(KernelOf(params.dims, library), params.dims)
    BY <1>1, <2>1, <2>2, ChosenKernelTakes
  <2> QED
    BY <1>4, <2>3 DEF KernelFitsLaunch
<1>9. ASSUME req # None
      PROVE  /\ req \in Requests /\ TensorsAccepted(req)
             /\ ValidDims(DimsOf(req))
             /\ params = ParamsOf(req) /\ current = req.q.device
  BY <1>1, <1>9 DEF IInv, CallInv, ValidForArch, Launch
<1>10. LaunchIsOnItsTensorsDevice'
  BY <1>1, <1>3, <1>4, <1>9, AcceptedIsOnOneDevice DEF LaunchIsOnItsTensorsDevice
<1>11. LaunchStaysInTensors'
  BY <1>4, <1>9, AcceptedStaysWithin DEF LaunchStaysInTensors
<1>12. SupportedIsNeverRejectedByC'
  BY <1>2 DEF SupportedIsNeverRejectedByC
<1> QED
  BY <1>5, <1>6, <1>7, <1>8, <1>10, <1>11, <1>12 DEF IInv

LEMMA SwitchDeviceInv ==
    ASSUME IInv, SwitchDevice
    PROVE  IInv'
<1>1. TypeOK'
  BY DEF IInv, TypeOK, SwitchDevice
<1>2. CacheInv' /\ CallInv'
  BY DEF IInv, TypeOK, CacheInv, CallInv, SwitchDevice
<1> QED
  BY <1>1, <1>2, QuietInv DEF IInv, SwitchDevice

LEMMA StepInv == IInv /\ [Next]_vars => IInv'
<1> SUFFICES ASSUME IInv, [Next]_vars
             PROVE  IInv'
  OBVIOUS
<1>1. CASE UNCHANGED vars
  BY <1>1 DEF vars, IInv, TypeOK, CacheInv, CallInv, KernelFitsLaunch,
              LaunchIsOnItsTensorsDevice, LaunchStaysInTensors,
              SupportedIsNeverRejectedByC
<1>2. CASE Next
  BY <1>2, PrefillCallInv, RawCallInv, QueryInv, AllocateInv, ConvertInv,
     RejectInv, LaunchInv, SwitchDeviceInv DEF Next
<1> QED
  BY <1>1, <1>2

LEMMA SpecInv == Spec => []IInv
<1>1. Init => IInv
  BY InitInv
<1>2. IInv /\ [Next]_vars => IInv'
  BY StepInv
<1> QED
  BY <1>1, <1>2, PTL DEF Spec

-----------------------------------------------------------------------------
(* The theorems.                                                           *)

\* Type correctness of the prefill path, for any tensors and devices.
THEOREM PrefillTypeOK == Spec => []TypeOK
<1>1. IInv => TypeOK
  BY DEF IInv
<1> QED
  BY <1>1, SpecInv, PTL

\* The kernel that is chosen takes the heads, the d_qk and the top-k of every
\* launch, by the candle layer or with raw parameters.
THEOREM KernelFits == Spec => []KernelFitsLaunch
<1>1. IInv => KernelFitsLaunch
  BY DEF IInv
<1> QED
  BY <1>1, SpecInv, PTL

\* Kernels run on their tensors' device, of the library's architecture.
THEOREM OnItsDevice == Spec => []LaunchIsOnItsTensorsDevice
<1>1. IInv => LaunchIsOnItsTensorsDevice
  BY DEF IInv
<1> QED
  BY <1>1, SpecInv, PTL

\* No kernel is given a layout that leaves the storages of its tensors.
THEOREM StaysInTensors == Spec => []LaunchStaysInTensors
<1>1. IInv => LaunchStaysInTensors
  BY DEF IInv
<1> QED
  BY <1>1, SpecInv, PTL

\* The C ABI rejects nothing on a supported device that the Rust layers
\* accepted.
THEOREM NeverRejectedByC == Spec => []SupportedIsNeverRejectedByC
<1>1. IInv => SupportedIsNeverRejectedByC
  BY DEF IInv
<1> QED
  BY <1>1, SpecInv, PTL
=============================================================================
