------------------------------- MODULE Prefill -------------------------------
(***************************************************************************)
(* A sparse prefill on one host thread, from Candle tensors down to the    *)
(* kernel: the checks of candle-flashmla/src/sparse_prefill.rs, the query  *)
(* of the tensors' device, the outputs, the checks of flashmla/src/        *)
(* sparse_prefill.rs, those of the C ABI and its choice of a kernel.  The  *)
(* raw function of the flashmla crate can be called directly as well.      *)
(*                                                                         *)
(* A tensor is a view: a shape and strides over a storage of size elements *)
(* from an offset on.  A pointer remembers the storage it points into.     *)
(* What kernels compute, and the values of the indices, are left out.      *)
(***************************************************************************)
EXTENDS Integers, Sequences

CONSTANTS
    Devices,      \* CUDA devices
    Capability,   \* Capability[d]: major and minor version of d
    NumSms,       \* NumSms[d]: its number of multiprocessors
    Requests,     \* arguments of the candle layer's sparse_prefill
    RawParams,    \* arguments of the raw sparse_prefill_bf16
    I32Max,       \* the largest int
    NoDevice,     \* the initial -1 of g_validated_device
    None          \* no tensor, no pointer, no call

Libraries == {"sm90a", "sm100f", "stub"}
DTypes == {"BF16", "F32", "I32"}

\* The last element of an array whose last dimension is contiguous.
Last1(offset, n) == offset + n - 1
Last3(offset, a, b, c, stride_a, stride_b) ==
    offset + (a - 1) * stride_a + (b - 1) * stride_b + c - 1

\* Candle's tensors lie within their storages.
Within(t) ==
    /\ Len(t.shape) = 1 /\ t.shape[1] > 0 /\ t.stride[1] = 1
           => Last1(t.offset, t.shape[1]) < t.size
    /\ /\ Len(t.shape) = 3 /\ t.stride[3] = 1
       /\ t.shape[1] > 0 /\ t.shape[2] > 0 /\ t.shape[3] > 0
       => Last3(t.offset, t.shape[1], t.shape[2], t.shape[3],
                t.stride[1], t.stride[2]) < t.size

Tensors ==
    {t \in [shape : Seq(Nat), stride : Seq(Nat), dtype : DTypes,
            device : Devices, offset : Nat, size : Nat] :
        Len(t.stride) = Len(t.shape) /\ Within(t)}

Pointers == [device : Devices, offset : Nat, size : Nat] \cup {None}

Arguments ==
    [q : Tensors, kv : Tensors, indices : Tensors,
     topk_length : Tensors \cup {None}, attn_sink : Tensors \cup {None},
     d_v : Nat]

Dims == [s_q : Nat, s_kv : Nat, h_q : Nat, h_kv : Nat, d_qk : Nat, d_v : Nat,
         topk : Nat]

\* SparsePrefillLaunchParams: the strides of q, kv and indices, in this order.
Strides == [1 .. 6 -> Nat]
Params ==
    [dims : Dims, config_d_v : Nat, strides : Strides, num_sm : Nat,
     q : Pointers, kv : Pointers, indices : Pointers, topk_length : Pointers,
     attn_sink : Pointers, out : Pointers, max_logits : Pointers,
     lse : Pointers]

ASSUME PrefillAssumption ==
    /\ NoDevice \notin Devices
    /\ I32Max \in Nat /\ I32Max >= 1280
    /\ NumSms \in [Devices -> 1 .. I32Max]
    /\ Capability \in [Devices -> Nat \X Nat]
    /\ Requests \subseteq Arguments
    /\ RawParams \subseteq Params
    /\ None \notin Libraries /\ None \notin Requests
    /\ None \notin Params /\ None \notin Tensors
    /\ None \notin [device : Devices, offset : Nat, size : Nat]

VARIABLES
    library,    \* what the library was built for
    current,    \* what cudaGetDevice returns on this thread
    validated,  \* g_validated_device
    pc,         \* the next step of the call in progress, or "idle"
    req,        \* the request of a call of the candle layer
    params,     \* the parameters of the raw function
    launched,   \* the launch of the call that just ended, if it made one
    outcome     \* its result: a status and the layer it is from

vars == <<library, current, validated, pc, req, params, launched, outcome>>

Init ==
    /\ library \in Libraries
    /\ current \in Devices
    /\ validated = NoDevice
    /\ pc = "idle"
    /\ req = None
    /\ params = None
    /\ launched = None
    /\ outcome = None

-----------------------------------------------------------------------------
(* The candle layer.                                                       *)

IsArray(q, t, rank, dtype) ==
    /\ Len(t.shape) = rank
    /\ t.stride[rank] = 1
    /\ t.device = q.device
    /\ t.dtype = dtype

\* An optional vector of a given length; and of any length.
VectorOfAnyLength(q, t, dtype, len) == t # None => IsArray(q, t, 1, dtype)
Vector(q, t, dtype, len) ==
    t # None => IsArray(q, t, 1, dtype) /\ t.shape[1] = len

TensorsAccepted(r) ==
    /\ IsArray(r.q, r.q, 3, "BF16")
    /\ IsArray(r.q, r.kv, 3, "BF16")
    /\ IsArray(r.q, r.indices, 3, "I32")
    /\ r.kv.shape[3] = r.q.shape[3]
    /\ r.indices.shape[1] = r.q.shape[1]
    /\ r.indices.shape[2] = r.kv.shape[2]
    /\ Vector(r.q, r.topk_length, "I32", r.q.shape[1])
    /\ Vector(r.q, r.attn_sink, "F32", r.q.shape[2])

DimsOf(r) ==
    [s_q |-> r.q.shape[1], s_kv |-> r.kv.shape[1], h_q |-> r.q.shape[2],
     h_kv |-> r.kv.shape[2], d_qk |-> r.q.shape[3], d_v |-> r.d_v,
     topk |-> r.indices.shape[3]]

PointerOf(t) ==
    IF t = None THEN None
    ELSE [device |-> t.device, offset |-> t.offset, size |-> t.size]

Fresh(d, n) == [device |-> d, offset |-> 0, size |-> n]

\* The raw parameters for a request, with outputs just allocated.
ParamsOf(r) ==
    LET d == DimsOf(r)
    IN  [dims |-> d, config_d_v |-> r.d_v,
         strides |-> <<r.q.stride[1], r.q.stride[2], r.kv.stride[1],
                      r.kv.stride[2], r.indices.stride[1],
                      r.indices.stride[2]>>,
         num_sm |-> NumSms[r.q.device],
         q |-> PointerOf(r.q), kv |-> PointerOf(r.kv),
         indices |-> PointerOf(r.indices),
         topk_length |-> PointerOf(r.topk_length),
         attn_sink |-> PointerOf(r.attn_sink),
         out |-> Fresh(r.q.device, d.s_q * d.h_q * d.d_v),
         max_logits |-> Fresh(r.q.device, d.s_q * d.h_q),
         lse |-> Fresh(r.q.device, d.s_q * d.h_q)]

-----------------------------------------------------------------------------
(* The flashmla crate.                                                     *)

\* Arch::from_compute_capability.
Arch(c) ==
    CASE c = <<9, 0>> -> "sm90a" [] c = <<10, 0>> -> "sm100f" [] OTHER -> None

\* SparsePrefillDims::validate.
ValidDims(d) ==
    /\ d.s_q # 0 /\ d.s_kv # 0 /\ d.topk # 0
    /\ d.d_qk \in {512, 576}
    /\ d.d_v = 512
    /\ d.h_q \in {64, 128}
    /\ d.h_kv = 1

\* validate_for_arch; and with small taken to be one block of 64 more.
AlignmentOneBlockMore(d, arch) ==
    IF /\ arch = "sm100f"
       /\ d.h_q = 64 \/ (d.h_q = 128 /\ d.d_qk = 512 /\ d.topk <= 1344)
    THEN 64 ELSE 128
Alignment(d, arch) ==
    IF /\ arch = "sm100f"
       /\ d.h_q = 64 \/ (d.h_q = 128 /\ d.d_qk = 512 /\ d.topk <= 1280)
    THEN 64 ELSE 128

ValidForArch(d, arch) == ValidDims(d) /\ d.topk % Alignment(d, arch) = 0

\* The pointers that may not be null.
Required(p) == {p.q, p.kv, p.indices, p.out, p.max_logits, p.lse}

\* to_sys, with the validation it starts with.
ToSysAccepted(p) ==
    /\ ValidDims(p.dims)
    /\ \A i \in 1 .. 6 : p.strides[i] \in 1 .. I32Max
    /\ p.config_d_v = p.dims.d_v
    /\ None \notin Required(p)
    /\ p.num_sm \in 1 .. I32Max
    /\ p.dims.s_q <= I32Max /\ p.dims.s_kv <= I32Max /\ p.dims.topk <= I32Max

-----------------------------------------------------------------------------
(* The C ABI.                                                              *)

\* The alignment of validate_sparse_prefill_params, compiled for lib.
TopkAlignment(d, lib) ==
    CASE lib # "sm100f" -> 128
      [] lib = "sm100f" ->
            IF d.h_q = 64 THEN 64
            ELSE IF d.h_q = 128 /\ d.d_qk = 512 /\ d.topk <= 1280 THEN 64
            ELSE 128

\* The argument checks of the C ABI: of what it is passed by to_sys it may
\* only reject the top-k; and with that not checked.
TopkTrusted(d, lib) == TRUE
TopkAccepted(d, lib) == d.topk % TopkAlignment(d, lib) = 0

ArgumentsAcceptedByC(p, lib) ==
    /\ None \notin Required(p)
    /\ p.dims.s_q > 0 /\ p.dims.s_kv > 0 /\ p.dims.topk > 0
    /\ p.dims.h_q \in {64, 128}
    /\ p.dims.h_kv = 1
    /\ p.dims.d_qk \in {512, 576}
    /\ p.dims.d_v = 512
    /\ TopkAccepted(p.dims, lib)
    /\ p.num_sm > 0
    /\ \A i \in 1 .. 6 : p.strides[i] > 0

\* validate_current_device.
DeviceAccepted ==
    \/ current = validated
    \/ Capability[current] = IF library = "sm100f" THEN <<10, 0>> ELSE <<9, 0>>

\* The kernel and the d_qk it is instantiated for.
KernelOf(d, lib) ==
    CASE lib # "sm100f" -> <<"run_fwd_kernel", d.d_qk>>
      [] lib = "sm100f" /\ d.h_q = 64 -> <<"head64", d.d_qk>>
      [] lib = "sm100f" /\ d.h_q # 64 /\ d.d_qk = 512 /\ d.topk <= 1280 ->
            <<"small_topk", 512>>
      [] lib = "sm100f" /\ d.h_q # 64 /\ ~(d.d_qk = 512 /\ d.topk <= 1280) ->
            <<"head128", d.d_qk>>

-----------------------------------------------------------------------------
(* The calls.                                                              *)

\* A call ends without a launch, or with one.
EndKeepingRequest(status, layer) ==
    /\ pc' = "idle"
    /\ params' = None
    /\ launched' = None
    /\ outcome' = [status |-> status, from |-> layer, req |-> req]
    /\ UNCHANGED <<library, req>>
End(status, layer) ==
    /\ pc' = "idle"
    /\ req' = None
    /\ params' = None
    /\ launched' = None
    /\ outcome' = [status |-> status, from |-> layer, req |-> req]
    /\ UNCHANGED library

\* Validation of the tensors; one that fails changes nothing.
PrefillCall(r) ==
    /\ pc = "idle"
    /\ TensorsAccepted(r)
    /\ pc' = "query"
    /\ req' = r
    /\ launched' = None
    /\ outcome' = None
    /\ UNCHANGED <<library, current, validated, params>>

\* get_device_info of the tensors' device, then validate_for_arch.  The
\* stubs know no device; CUDA may fail.
Query ==
    LET arch == Arch(Capability[req.q.device])
    IN  /\ pc = "query"
        /\ \/ library = "stub" /\ End("UnsupportedArch", "c")
           \/ library # "stub" /\ End("Cuda", "c")
           \/ library # "stub" /\ arch = None /\ End("UnsupportedArch", "flashmla")
           \/ /\ library # "stub" /\ arch # None
              /\ ~ValidForArch(DimsOf(req), arch)
              /\ End("InvalidArgument", "flashmla")
           \/ /\ library # "stub" /\ arch # None
              /\ ValidForArch(DimsOf(req), arch)
              /\ pc' = "allocate"
              /\ UNCHANGED <<library, req, params, launched, outcome>>
        /\ UNCHANGED <<current, validated>>

\* Allocating a tensor makes its device current on the thread; or does not.
BindNothing(d) == UNCHANGED current
Bind(d) == current' = d

\* The three outputs; an allocation may fail, with the device already current.
Allocate ==
    /\ pc = "allocate"
    /\ Bind(req.q.device)
    /\ \/ End("Candle", "candle")
       \/ /\ pc' = "convert"
          /\ params' = ParamsOf(req)
          /\ UNCHANGED <<library, req, launched, outcome>>
    /\ UNCHANGED validated

\* The raw function is called directly.
RawCall(p) ==
    /\ pc = "idle"
    /\ pc' = "convert"
    /\ params' = p
    /\ launched' = None
    /\ outcome' = None
    /\ UNCHANGED <<library, current, validated, req>>

\* to_sys.
Convert ==
    /\ pc = "convert"
    /\ \/ ~ToSysAccepted(params) /\ End("InvalidArgument", "flashmla")
       \/ /\ ToSysAccepted(params)
          /\ pc' = "launch"
          /\ UNCHANGED <<library, req, params, launched, outcome>>
    /\ UNCHANGED <<current, validated>>

\* flashmla_sparse_prefill_bf16 rejects the call.
Reject ==
    /\ pc = "launch"
    /\ \/ library = "stub" /\ End("UnsupportedArch", "c")
       \/ /\ library # "stub" /\ ~ArgumentsAcceptedByC(params, library)
          /\ End("InvalidArgument", "c")
       \/ /\ library # "stub" /\ ArgumentsAcceptedByC(params, library)
          /\ ~DeviceAccepted
          /\ End("UnsupportedArch", "c")
       \* The query of the current device fails.
       \/ /\ library # "stub" /\ ArgumentsAcceptedByC(params, library)
          /\ End("Cuda", "c")
    /\ UNCHANGED <<current, validated>>

\* It launches: with success, or with an error it learns of afterwards, when
\* the kernel may be running.
Launch ==
    /\ pc = "launch"
    /\ library # "stub"
    /\ ArgumentsAcceptedByC(params, library)
    /\ DeviceAccepted
    /\ validated' = current
    /\ pc' = "idle"
    /\ req' = None
    /\ params' = None
    /\ launched' = [params |-> params, device |-> current, req |-> req,
                    kernel |-> KernelOf(params.dims, library)]
    /\ \E status \in {"ok", "Cuda", "Internal"} :
           outcome' = [status |-> status, from |-> "c", req |-> req]
    /\ UNCHANGED <<library, current>>

\* The program around these crates makes another device current.
SwitchDevice ==
    /\ pc = "idle"
    /\ current' \in Devices
    /\ launched' = None
    /\ outcome' = None
    /\ UNCHANGED <<library, validated, pc, req, params>>

Next ==
    \/ \E r \in Requests : PrefillCall(r)
    \/ \E p \in RawParams : RawCall(p)
    \/ Query
    \/ Allocate
    \/ Convert
    \/ Reject
    \/ Launch
    \/ SwitchDevice

Spec == Init /\ [][Next]_vars

-----------------------------------------------------------------------------
(* Properties.                                                             *)

Statuses == {"ok", "InvalidArgument", "UnsupportedArch", "Cuda", "Internal",
             "Candle"}

\* Type correctness; a request or parameters are there while a call is.
TypeOK ==
    /\ library \in Libraries
    /\ current \in Devices
    /\ validated \in Devices \cup {NoDevice}
    /\ pc \in {"idle", "query", "allocate", "convert", "launch"}
    /\ req \in Requests \cup {None}
    /\ pc = "idle" => req = None
    /\ pc \in {"query", "allocate"} => req # None
    /\ IF pc \in {"convert", "launch"} THEN params \in Params ELSE params = None
    /\ outcome = None \/ outcome.status \in Statuses

\* The kernel that is launched can process the launch's heads and d_qk, and
\* its block divides the top-k: the rule the arguments were checked by and the
\* one that chooses the kernel fit each other.  What a block is of each kernel
\* upstream, the alignment errors and PLAN.md:280-283 say.
KernelTakes(k, d) ==
    \/ k = <<"run_fwd_kernel", d.d_qk>> /\ d.topk % 128 = 0
    \/ k = <<"head64", d.d_qk>> /\ d.h_q = 64 /\ d.topk % 64 = 0
    \/ /\ k = <<"small_topk", 512>> /\ d.d_qk = 512 /\ d.h_q = 128
       /\ d.topk % 64 = 0
    \/ k = <<"head128", d.d_qk>> /\ d.h_q = 128 /\ d.topk % 128 = 0
KernelFitsLaunch ==
    launched # None => KernelTakes(launched.kernel, launched.params.dims)

\* A kernel that is launched for tensors runs on their device, which is of
\* the architecture the library was built for, whatever was current before;
\* and for raw pointers on a device of that architecture.
LaunchIsOnItsTensorsDevice ==
    launched # None =>
        /\ Arch(Capability[launched.device]) = library
        /\ launched.req # None =>
               /\ \A p \in Required(launched.params) : p.device = launched.device
               /\ \A p \in {launched.params.topk_length,
                            launched.params.attn_sink} :
                      p # None => p.device = launched.device

\* Every element that a kernel reaches from the pointers, the dimensions and
\* the strides it was given lies within the tensor's storage: the layouts of
\* up to eight tensors are described by seven numbers and six strides.
ReachWithin(p) ==
    LET d == p.dims  s == p.strides
    IN  /\ Last3(p.q.offset, d.s_q, d.h_q, d.d_qk, s[1], s[2]) < p.q.size
        /\ Last3(p.kv.offset, d.s_kv, d.h_kv, d.d_qk, s[3], s[4]) < p.kv.size
        /\ Last3(p.indices.offset, d.s_q, d.h_kv, d.topk, s[5], s[6])
               < p.indices.size
        /\ p.topk_length # None =>
               Last1(p.topk_length.offset, d.s_q) < p.topk_length.size
        /\ p.attn_sink # None =>
               Last1(p.attn_sink.offset, d.h_q) < p.attn_sink.size
        /\ d.s_q * d.h_q * d.d_v <= p.out.size
        /\ d.s_q * d.h_q <= p.max_logits.size
        /\ d.s_q * d.h_q <= p.lse.size
LaunchStaysInTensors ==
    launched # None /\ launched.req # None => ReachWithin(launched.params)

\* The C ABI never turns down tensors on a device of the architecture it was
\* built for that the Rust layers accepted: the two know one set of rules,
\* and another device being current does not matter.
SupportedIsNeverRejectedByC ==
    /\ outcome # None /\ outcome.from = "c" /\ outcome.req # None
    /\ Arch(Capability[outcome.req.q.device]) = library
    => outcome.status \notin {"InvalidArgument", "UnsupportedArch"}

\* The inductive invariant.  The cached device has the library's
\* architecture; a request under way was checked, and its parameters are
\* made from it with its device current.
CacheInv == validated # NoDevice => Arch(Capability[validated]) = library

CallInv ==
    /\ req # None => TensorsAccepted(req)
    /\ req # None /\ pc # "query" =>
           /\ library # "stub"
           /\ ValidForArch(DimsOf(req), Arch(Capability[req.q.device]))
    /\ req # None /\ pc \in {"convert", "launch"} =>
           /\ params = ParamsOf(req)
           /\ current = req.q.device
    /\ pc = "launch" => ToSysAccepted(params)

IInv ==
    /\ TypeOK
    /\ CacheInv
    /\ CallInv
    /\ KernelFitsLaunch
    /\ LaunchIsOnItsTensorsDevice
    /\ LaunchStaysInTensors
    /\ SupportedIsNeverRejectedByC
=============================================================================
