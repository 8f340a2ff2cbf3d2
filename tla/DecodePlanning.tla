--------------------------- MODULE DecodePlanning ---------------------------
(***************************************************************************)
(* One host thread that plans sparse decodes through the candle layer and  *)
(* launches them with plans it keeps (candle-flashmla/src/                 *)
(* sparse_decode.rs).  Planning validates the tensors, sizes the           *)
(* workspaces in Rust, asks the C ABI for the same sizes, allocates and    *)
(* has the scheduler metadata generated.  A launch checks a plan against   *)
(* the tensors it is given, which need not be those it was made for.       *)
(*                                                                         *)
(* A request is what a caller passes: the dimensions of its tensors, the   *)
(* device they are on, the block strides of its caches, whether the extra  *)
(* cache and its indices are given (extra; as empty views if the dimensions*)
(* have no extra cache), whether the top-k length tensors are (lens,       *)
(* extra_lens), whether all other strides are positive and with the block  *)
(* counts fit an int (ints), and whether the caches start at 16 bytes      *)
(* boundaries (bases).  Plans are those sparse_decode_plan returns.        *)
(***************************************************************************)
EXTENDS DecodeSizing

CONSTANTS
    Devices,    \* CUDA devices
    CudaArch,   \* CudaArch[d]: the architecture of d, possibly none of Archs
    NumSms,     \* NumSms[d]: its number of multiprocessors
    Target,     \* the architecture the library was compiled for
    Requests,   \* the requests callers make
    None        \* no request, no plan, no sizes

ASSUME PlanningAssumption ==
    /\ Target \in Archs
    /\ NumSms \in [Devices -> 1 .. I32Max]
    /\ None \notin Requests
    /\ \A r \in Requests :
           /\ r.dims \in Dims
           /\ r.device \in Devices
           /\ r.extra \in BOOLEAN
           /\ HasExtraCache(r.dims) => r.extra
           /\ r.lens \in BOOLEAN /\ r.extra_lens \in BOOLEAN
           /\ r.kv_pitch \in Nat /\ r.extra_pitch \in Nat
           /\ r.ints \in BOOLEAN /\ r.bases \in BOOLEAN

VARIABLES
    current,    \* what cudaGetDevice returns on this thread
    pc,         \* the next step of the planning in progress, or "idle"
    req,        \* the request being planned
    expected,   \* plan_for_arch's sizes for it
    meta,       \* the C ABI's sizes for it
    plan,       \* the plan the caller keeps
    launched    \* the launch the C ABI just accepted: request and plan

vars == <<current, pc, req, expected, meta, plan, launched>>
scratch == <<req, expected, meta>>

Init ==
    /\ current \in Devices
    /\ pc = "idle"
    /\ req = None /\ expected = None /\ meta = None
    /\ plan = None
    /\ launched = None

-----------------------------------------------------------------------------
(* The validators.                                                         *)

\* validate_decode_tensors.  Extra tensors may be given and be empty.
ValidTensors(r) ==
    /\ ValidDims(r.dims)
    /\ r.dims.d_qk = 576 => ~r.lens /\ ~r.extra
    /\ r.extra_lens => r.extra

\* The block stride that the SM100 kernels require to be divided.
KvPitchUnit(d) == IF d.d_qk = 576 THEN 656 ELSE 576

PitchesAligned(r, extra) ==
    /\ r.kv_pitch % KvPitchUnit(r.dims) = 0
    /\ extra => r.extra_pitch % KvPitchUnit(r.dims) = 0

\* validate_kv_block_strides_for_arch, at planning.
PlanPitchIgnored(r) == TRUE
PlanPitchAccepted(r) ==
    CudaArch[r.device] = "sm100" => PitchesAligned(r, r.extra)

\* The same check of the C ABI, compiled in for SM100, at every launch.
LaunchPitchAccepted(r) ==
    Target = "sm100" => PitchesAligned(r, HasExtraCache(r.dims))

\* The whole planning entry on the current device dev: the wrapper's
\* validation and the C ABI's.
SizedByC(r, dev) ==
    LET sm == NumSms[r.device]
    IN  IF /\ r.extra_lens => HasExtraCache(r.dims)
           /\ FitsI32(r.dims, sm)
           /\ ShapeAccepted(r.dims, r.lens, r.extra_lens)
           /\ CudaArch[dev] = Target
        THEN FillPlanResult(r.dims, Target, sm)
        ELSE Err

\* validate_plan_tensors: the workspaces have the shapes the plan's metadata
\* gives for the dimensions of the launch (or as many elements).
CountsMatch(p, r) ==
    LET shapes == WorkspaceShapes(p.meta, r.dims)
    IN  p.req.device = r.device /\ shapes.ok
WorkspacesMatch(p, r) ==
    LET shapes == WorkspaceShapes(p.meta, r.dims)
    IN  p.req.device = r.device /\ shapes.ok /\ shapes.val = p.shapes

\* What a launch checks of a request that planning checks too: the wrappers,
\* and the C ABI with the tensors' device current.
LaunchDimsAccepted(p, r) ==
    /\ ValidTensors(r)
    /\ WorkspacesMatch(p, r)
    /\ FitsI32(r.dims, 1)
    /\ p.meta.num_sm_parts \in 1 .. MaxParts
    /\ LaunchPitchAccepted(r)
    /\ CudaArch[r.device] = Target

\* checked_stride: every stride is positive and fits an int.  Planning only
\* divides the block strides, and 0 is divisible.
LaunchStridesAccepted(r) ==
    /\ r.ints
    /\ r.kv_pitch \in 1 .. I32Max
    /\ HasExtraCache(r.dims) => r.extra_pitch \in 1 .. I32Max

\* Planning is given no cache pointers: those of empty extra tensors are
\* refused, and SM100 wants 16-byte boundaries.
LaunchPointersAccepted(r) ==
    /\ r.extra => HasExtraCache(r.dims)
    /\ Target = "sm100" => r.bases

\* What only a launch checks.
LaunchLayoutAccepted(r) ==
    LaunchStridesAccepted(r) /\ LaunchPointersAccepted(r)

LaunchAccepted(p, r) == LaunchDimsAccepted(p, r) /\ LaunchLayoutAccepted(r)

-----------------------------------------------------------------------------
(* Planning.                                                               *)

\* An error return: nothing is left of the planning (or its request is).
AbandonKeepingRequest ==
    /\ pc' = "idle"
    /\ expected' = None /\ meta' = None
    /\ UNCHANGED <<req, plan, launched>>
Abandon ==
    /\ pc' = "idle"
    /\ req' = None /\ expected' = None /\ meta' = None
    /\ UNCHANGED <<plan, launched>>

\* Allocating a tensor makes its device current on the thread.
BindNothing(d) == UNCHANGED current
Bind(d) == current' = d

\* validate, get_device_info of the tensors' device, its block strides, and
\* plan_for_arch for its architecture; a request that fails one of them is
\* turned down and changes nothing.  The model follows one plan at a time.
PlanCall(r) ==
    LET sizes == PlanForArch(r.dims, CudaArch[r.device], NumSms[r.device])
        valid == /\ ValidTensors(r)
                 /\ CudaArch[r.device] \in Archs
                 /\ PlanPitchAccepted(r)
                 /\ sizes.ok
    IN  /\ pc = "idle"
        /\ plan = None
        /\ valid
        /\ pc' = "size"
        /\ req' = r
        /\ expected' = sizes.val
        /\ launched' = None
        /\ UNCHANGED <<current, meta, plan>>

\* The size-only call, on whatever device is current.
SizeOnly ==
    LET sizes == SizedByC(req, current)
    IN  /\ pc = "size"
        /\ \/ /\ sizes.ok
              /\ pc' = "compare"
              /\ meta' = sizes.val
              /\ UNCHANGED <<req, expected, plan, launched>>
           \/ ~sizes.ok /\ Abandon
        /\ UNCHANGED current

CompareSizes ==
    /\ pc = "compare"
    /\ \/ /\ meta = expected
          /\ pc' = "allocate"
          /\ UNCHANGED <<scratch, plan, launched>>
       \/ meta # expected /\ Abandon
    /\ UNCHANGED current

\* The workspace shapes and the four buffers; an allocation may fail, with
\* the device already current.
Allocate ==
    /\ pc = "allocate"
    /\ Bind(req.device)
    /\ \/ /\ WorkspaceShapes(meta, req.dims).ok
          /\ pc' = "generate"
          /\ UNCHANGED <<scratch, plan, launched>>
       \/ Abandon

\* The second call of the C ABI enqueues the metadata kernel; it must return
\* the sizes of the first, and then the plan is the caller's.  The launch may
\* fail.
Generate ==
    /\ pc = "generate"
    /\ \/ /\ SizedByC(req, current) = Ok(meta)
          /\ pc' = "idle"
          /\ plan' = [req |-> req, meta |-> meta,
                      shapes |-> WorkspaceShapes(meta, req.dims).val]
          /\ req' = None /\ expected' = None /\ meta' = None
          /\ UNCHANGED launched
       \/ Abandon
    /\ UNCHANGED current

-----------------------------------------------------------------------------
(* Launching with the plan that is kept.                                   *)

Launch(r) ==
    /\ pc = "idle"
    /\ plan # None
    /\ LaunchAccepted(plan, r)
    /\ launched' = [req |-> r, plan |-> plan]
    /\ Bind(r.device)
    /\ UNCHANGED <<pc, scratch, plan>>

\* A launch that fails after its outputs were allocated leaves their device
\* current, and nothing else.
LaunchFails(r) ==
    /\ pc = "idle"
    /\ plan # None
    /\ ValidTensors(r)
    /\ WorkspacesMatch(plan, r)
    /\ Bind(r.device)
    /\ launched' = None
    /\ UNCHANGED <<pc, scratch, plan>>

\* The program around these crates makes another device current, or drops
\* the plan.
SwitchDevice ==
    /\ pc = "idle"
    /\ current' \in Devices
    /\ launched' = None
    /\ UNCHANGED <<pc, scratch, plan>>

DropPlan ==
    /\ pc = "idle"
    /\ plan # None
    /\ plan' = None
    /\ launched' = None
    /\ UNCHANGED <<current, pc, scratch>>

Next ==
    \/ \E r \in Requests : PlanCall(r) \/ Launch(r) \/ LaunchFails(r)
    \/ SizeOnly
    \/ CompareSizes
    \/ Allocate
    \/ Generate
    \/ SwitchDevice
    \/ DropPlan

Spec == Init /\ [][Next]_vars

-----------------------------------------------------------------------------
(* Properties.                                                             *)

\* Type correctness of the planning state.
TypeOK ==
    /\ current \in Devices
    /\ pc \in {"idle", "size", "compare", "allocate", "generate"}
    /\ IF pc = "idle" THEN req = None ELSE req \in Requests
    /\ plan = None \/ plan.req \in Requests
    /\ launched = None \/ launched.req \in Requests

\* Planning never ends because Rust's sizes and the C ABI's differ (or do not
\* give the workspaces shapes) for tensors on a device of the compiled
\* architecture, whatever the dimensions and the number of multiprocessors.
SizingNeverDisagrees ==
    pc # "idle" /\ CudaArch[req.device] = Target /\ meta # None
        => meta = expected /\ WorkspaceShapes(meta, req.dims).ok

\* A plan is only made for tensors on a device of the compiled architecture,
\* although the size-only call checks the device that happens to be current.
PlanOnlyOnTarget == plan # None => CudaArch[plan.req.device] = Target

\* The caller can launch with a plan and the tensors it was made for, unless
\* a stride is zero or exceeds an int, the extra tensors are empty or a cache
\* is off a 16-byte boundary (LaunchLayoutAccepted, which planning lets pass):
\* the dimensions, lengths, workspaces, partitions, devices and the division
\* of the block strides are as strict at planning as at the launch.
PlanIsLaunchable ==
    plan # None /\ LaunchLayoutAccepted(plan.req)
        => LaunchAccepted(plan, plan.req)

\* A launch that may write the accumulators has the batch, the queries and
\* the heads the plan was made for, whatever products coincide.
SplitLaunchHasPlannedShape ==
    launched # None /\ launched.plan.meta.num_sm_parts > 1 =>
        /\ launched.req.dims.batch = launched.plan.req.dims.batch
        /\ launched.req.dims.s_q = launched.plan.req.dims.s_q
        /\ launched.req.dims.h_q = launched.plan.req.dims.h_q

\* The inductive invariant.  A planning in progress has a request that was
\* validated and sized for its own device; sizes from the C ABI were given
\* for the compiled architecture; from the allocation on the two are equal,
\* and the metadata is generated with the tensors' device current.
PlanningInv ==
    /\ pc # "idle" =>
           /\ ValidTensors(req)
           /\ PlanPitchAccepted(req)
           /\ PlanForArch(req.dims, CudaArch[req.device], NumSms[req.device])
                = Ok(expected)
    /\ pc = "size" => meta = None
    /\ pc \in {"compare", "allocate", "generate"} =>
           /\ FitsI32(req.dims, NumSms[req.device])
           /\ FillPlanResult(req.dims, Target, NumSms[req.device]) = Ok(meta)
    /\ pc \in {"allocate", "generate"} => meta = expected
    /\ pc = "generate" => current = req.device

\* A plan has the workspaces of its request, which it can be launched with.
PlanInv ==
    plan # None =>
        /\ plan.req \in Requests
        /\ WorkspaceShapes(plan.meta, plan.req.dims) = Ok(plan.shapes)
        /\ LaunchDimsAccepted(plan, plan.req)

IInv ==
    /\ TypeOK
    /\ PlanningInv
    /\ PlanInv
    /\ pc = "idle" => meta = None
    /\ SplitLaunchHasPlannedShape

-----------------------------------------------------------------------------
(* What the documentation says and the code does not ensure.               *)

\* "Workspace and scheduler buffers must come from sparse_decode_plan for
\* identical dimensions and top-k lengths" (flashmla/src/
\* sparse_decode.rs:611-612).
LaunchMatchesPlan ==
    launched # None =>
        /\ launched.req.dims = launched.plan.req.dims
        /\ launched.req.lens = launched.plan.req.lens
        /\ launched.req.extra_lens = launched.plan.req.extra_lens

\* "I32 split offsets shaped [batch + 1]" (candle-flashmla/src/
\* sparse_decode.rs:25): the offsets the launch reads are there.
NumSplitsCoversBatch ==
    launched # None =>
        launched.plan.meta.num_splits_len >= launched.req.dims.batch + 1

\* "params.stream must be a valid CUDA stream for the current device"
\* (flashmla/src/sparse_decode.rs:584): it is one of the tensors' device.
StreamOfCurrentDevice == pc = "size" => current = req.device
=============================================================================
