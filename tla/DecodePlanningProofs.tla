------------------------ MODULE DecodePlanningProofs ------------------------
(* Proofs about the sizing and the planning of sparse decodes, for every   *)
(* width of int and size_t, all dimensions, devices and requests.          *)
EXTENDS DecodePlanning, TLAPS

-----------------------------------------------------------------------------
(* The two ways to size a decode agree.                                    *)

\* checked_mul_size and usize::checked_mul are the same function.
LEMMA SameProducts ==
    ASSUME NEW a \in Nat \cup {Overflow}, NEW b \in Nat
    PROVE  /\ CMul(a, b) = CheckedMul(a, b)
           /\ CMul(a, b) \in Nat \cup {Overflow}
<1>1. CASE a = Overflow
  BY <1>1 DEF CMul, CheckedMul
<1>2. CASE a \in Nat
  <2>1. a # Overflow /\ a * b \in Nat
    BY <1>2 DEF Overflow
  <2>2. a # 0 => (b > UsizeMax \div a <=> a * b > UsizeMax)
    BY <1>2, WidthAssumption
  <2>3. a = 0 => ~(a * b > UsizeMax)
    BY WidthAssumption
  <2> QED
    BY <2>1, <2>2, <2>3 DEF CMul, CheckedMul
<1> QED
  BY <1>1, <1>2

\* The two formulas for the partitions agree, and give at least one.
LEMMA SameParts ==
    ASSUME NEW d \in Dims, NEW arch \in Archs, NEW sm \in Nat, ValidDims(d)
    PROVE  /\ NumSmParts(d, arch, sm) = CNumSmParts(d, arch, sm)
           /\ NumSmParts(d, arch, sm) \in Nat \ {0}
<1>1. d.s_q \in Nat \ {0} /\ d.h_q \in {64, 128}
  BY DEF Dims, ValidDims
<1>2. sm \div d.s_q \in Nat
  BY <1>1
<1>3. (sm \div d.s_q) \div 2 \in Nat /\ (sm \div d.s_q) \div 1 \in Nat
  BY <1>2
<1>4. d.h_q \div 64 \in {1, 2}
  BY <1>1
<1> QED
  BY <1>2, <1>3, <1>4 DEF NumSmParts, CNumSmParts, AtLeastOne, PairedHeads,
                          Archs

\* plan_for_arch and the C ABI size a decode alike: the same dimensions are
\* turned down, and the others get the same partitions and workspaces.
THEOREM SizingAgrees ==
    ASSUME NEW d \in Dims, NEW arch \in Archs, NEW sm \in Nat,
           ValidDims(d), FitsI32(d, sm)
    PROVE  PlanForArch(d, arch, sm) = FillPlanResult(d, arch, sm)
<1> DEFINE parts == NumSmParts(d, arch, sm)
           lse == CMul(CMul(d.batch + parts, d.s_q), d.h_q)
<1>1. parts = CNumSmParts(d, arch, sm) /\ parts \in Nat /\ parts >= 1
  BY SameParts
<1>2. /\ d.batch \in Nat /\ d.s_q \in Nat /\ d.h_q \in Nat
      /\ d.batch <= I32Max
  BY DEF Dims, FitsI32
<1>3. CASE parts > MaxParts
  <2>1. ~(parts <= MaxParts)
    BY <1>1, <1>3 DEF MaxParts
  <2>2. PlanForArch(d, arch, sm) = Err
    BY <2>1 DEF PlanForArch
  <2>3. FillPlanResult(d, arch, sm) = Err
    BY <1>1, <2>1 DEF FillPlanResult
  <2> QED
    BY <2>2, <2>3
<1>4. CASE parts <= MaxParts
  <2>1. /\ CheckedMul(parts, MetaI32Len) = parts * MetaI32Len
        /\ parts * MetaI32Len \in Nat
    BY <1>1, <1>4, WidthAssumption DEF CheckedMul, Overflow, MetaI32Len, MaxParts
  <2>2. CheckedAdd(d.batch, 1) = d.batch + 1
    BY <1>2, WidthAssumption DEF CheckedAdd, MaxParts
  <2>3. /\ CheckedAdd(d.batch, parts) = d.batch + parts
        /\ d.batch + parts \in Nat
    BY <1>1, <1>2, <1>4, WidthAssumption DEF CheckedAdd, MaxParts
  <2>4. /\ CheckedMul(CheckedMul(d.batch + parts, d.s_q), d.h_q) = lse
        /\ CheckedMul(lse, HeadDimV) = CMul(lse, HeadDimV)
    <3> HIDE DEF parts
    <3>1. /\ CheckedMul(d.batch + parts, d.s_q) = CMul(d.batch + parts, d.s_q)
          /\ CMul(d.batch + parts, d.s_q) \in Nat \cup {Overflow}
      BY <1>2, <2>3, SameProducts
    <3>2. /\ CheckedMul(CMul(d.batch + parts, d.s_q), d.h_q) = lse
          /\ lse \in Nat \cup {Overflow}
      BY <1>2, <3>1, SameProducts
    <3>3. CheckedMul(lse, HeadDimV) = CMul(lse, HeadDimV)
      <4> HIDE DEF lse
      <4> QED
        BY <3>2, SameProducts DEF HeadDimV
    <3> QED
      BY <3>1, <3>2, <3>3
  <2>5. Overflow \notin {parts * MetaI32Len, d.batch + 1}
    BY <1>2, <2>1 DEF Overflow
  <2>6. sm # 0 <=> sm > 0
    OBVIOUS
  <2>7. parts = 1 <=> ~(parts > 1)
    BY <1>1
  <2> HIDE DEF parts, lse
  <2> QED
    BY <1>1, <1>4, <2>1, <2>2, <2>3, <2>4, <2>5, <2>6, <2>7
       DEF PlanForArch, FillPlanResult, parts, lse
<1> QED
  BY <1>1, <1>3, <1>4 DEF MaxParts

\* What plan_for_arch sizes has workspace shapes, and few enough partitions.
LEMMA SizedHasShapes ==
    ASSUME NEW d \in Dims, NEW arch \in Archs, NEW sm \in Nat, NEW m,
           PlanForArch(d, arch, sm) = Ok(m)
    PROVE  /\ WorkspaceShapes(m, d).ok
           /\ m.num_sm_parts \in 1 .. MaxParts
<1> DEFINE parts == NumSmParts(d, arch, sm)
           total == CheckedAdd(d.batch, parts)
           lse == CheckedMul(CheckedMul(total, d.s_q), d.h_q)
           o == CheckedMul(lse, HeadDimV)
<1>1. /\ ValidDims(d) /\ parts <= MaxParts
      /\ m.num_sm_parts = parts
      /\ m.lse_elems = IF parts = 1 THEN 1 ELSE lse
      /\ m.o_elems = IF parts = 1 THEN 1 ELSE o
      /\ parts # 1 => lse # Overflow /\ o # Overflow
  <2>1. PlanForArch(d, arch, sm).ok
    BY DEF Ok
  <2>2. PlanForArch(d, arch, sm).val = m
    BY DEF Ok
  <2> HIDE DEF parts, total
  <2> QED
    BY <2>1, <2>2 DEF PlanForArch, Err, Ok, Meta, parts, total
<1>2. parts \in Nat /\ parts >= 1
  BY <1>1, SameParts
<1>3. parts # 1 => total # Overflow
  BY <1>1 DEF CheckedMul
<1> HIDE DEF parts, total, lse, o
<1>4. WorkspaceShapes(m, d).ok
  BY <1>1, <1>3 DEF WorkspaceShapes, Ok, total, lse, o
<1> QED
  BY <1>1, <1>2, <1>4 DEF MaxParts

-----------------------------------------------------------------------------
(* Planning and launching.                                                 *)

\* What the requests are.
LEMMA RequestFacts ==
    ASSUME NEW r \in Requests
    PROVE  /\ r.dims \in Dims /\ r.device \in Devices
           /\ NumSms[r.device] \in Nat \ {0}
           /\ Target \in Archs
BY PlanningAssumption, WidthAssumption

\* The sizes of the C ABI for tensors on a device of the compiled
\* architecture are those of plan_for_arch.
LEMMA SizesOnTarget ==
    ASSUME PlanningInv, req \in Requests, CudaArch[req.device] = Target,
           pc \in {"compare", "allocate", "generate"}
    PROVE  meta = expected
<1> DEFINE sm == NumSms[req.device]
<1>1. /\ FitsI32(req.dims, sm) /\ ValidTensors(req)
      /\ FillPlanResult(req.dims, Target, sm) = Ok(meta)
      /\ PlanForArch(req.dims, Target, sm) = Ok(expected)
  BY DEF PlanningInv
<1>2. PlanForArch(req.dims, Target, sm) = FillPlanResult(req.dims, Target, sm)
  BY <1>1, RequestFacts, SizingAgrees DEF ValidTensors
<1>3. Ok(meta) = Ok(expected)
  BY <1>1, <1>2
<1> QED
  BY <1>3 DEF Ok

\* A result of the C ABI that is no error is its sizes.
LEMMA SizesOfC ==
    ASSUME NEW d, NEW target, NEW sm, FillPlanResult(d, target, sm).ok
    PROVE  FillPlanResult(d, target, sm) = Ok(FillPlanResult(d, target, sm).val)
BY DEF FillPlanResult, Ok, Err

\* Every step of a planning keeps the invariant of the planning.
LEMMA PlanningStep ==
    ASSUME TypeOK, PlanningInv, pc = "idle" => meta = None, [Next]_vars
    PROVE  PlanningInv' /\ (pc = "idle" => meta = None)'
<1> USE DEF PlanningInv
<1>1. ASSUME NEW r \in Requests, PlanCall(r)
      PROVE  PlanningInv' /\ (pc = "idle" => meta = None)'
  <2>1. /\ PlanForArch(r.dims, CudaArch[r.device], NumSms[r.device]).ok
        /\ expected' =
             PlanForArch(r.dims, CudaArch[r.device], NumSms[r.device]).val
    BY <1>1 DEF PlanCall
  <2>2. PlanForArch(r.dims, CudaArch[r.device], NumSms[r.device])
          = Ok(expected')
    BY <2>1 DEF PlanForArch, Ok, Err
  <2> QED
    BY <1>1, <2>2 DEF PlanCall, ValidTensors, PlanPitchAccepted, PitchesAligned
<1>2. CASE SizeOnly
  <2>1. CASE SizedByC(req, current).ok
    <3>1. /\ FitsI32(req.dims, NumSms[req.device])
          /\ SizedByC(req, current) =
               FillPlanResult(req.dims, Target, NumSms[req.device])
      BY <2>1 DEF SizedByC, Err
    <3>2. /\ pc' = "compare" /\ meta' = SizedByC(req, current).val
          /\ UNCHANGED <<req, expected, current>>
      BY <1>2, <2>1 DEF SizeOnly, Abandon
    <3>3. FillPlanResult(req.dims, Target, NumSms[req.device]) = Ok(meta')
      BY <2>1, <3>1, <3>2, SizesOfC
    <3> QED
      BY <1>2, <3>1, <3>2, <3>3 DEF SizeOnly, ValidTensors, PlanPitchAccepted,
         PitchesAligned
  <2>2. CASE ~SizedByC(req, current).ok
    BY <1>2, <2>2 DEF SizeOnly, Abandon
  <2> QED
    BY <2>1, <2>2
<1>3. CASE CompareSizes
  BY <1>3 DEF CompareSizes, Abandon, scratch
<1>4. CASE Allocate
  BY <1>4 DEF Allocate, Bind, Abandon, scratch
<1>5. CASE Generate
  BY <1>5 DEF Generate, Abandon
<1>6. ASSUME NEW r \in Requests, Launch(r) \/ LaunchFails(r)
      PROVE  PlanningInv' /\ (pc = "idle" => meta = None)'
  BY <1>6 DEF Launch, LaunchFails, scratch
<1>7. CASE SwitchDevice \/ DropPlan \/ UNCHANGED vars
  BY <1>7 DEF SwitchDevice, DropPlan, scratch, vars
<1> QED
  BY <1>1, <1>2, <1>3, <1>4, <1>5, <1>6, <1>7 DEF Next

\* A plan is generated with its device current and of the compiled
\* architecture, so a launch accepts it for its own request.
LEMMA GeneratedPlan ==
    ASSUME TypeOK, PlanningInv, pc = "generate", CudaArch[current] = Target
    PROVE  LET p == [req |-> req, meta |-> meta,
                     shapes |-> WorkspaceShapes(meta, req.dims).val]
           IN  /\ req \in Requests
               /\ WorkspaceShapes(meta, req.dims) = Ok(p.shapes)
               /\ LaunchDimsAccepted(p, req)
<1> DEFINE p == [req |-> req, meta |-> meta,
                 shapes |-> WorkspaceShapes(meta, req.dims).val]
           sm == NumSms[req.device]
<1>1. /\ req \in Requests /\ ValidTensors(req) /\ PlanPitchAccepted(req)
      /\ FitsI32(req.dims, sm) /\ current = req.device
      /\ PlanForArch(req.dims, Target, sm) = Ok(meta)
  BY DEF PlanningInv, TypeOK
<1>2. WorkspaceShapes(meta, req.dims).ok /\ meta.num_sm_parts \in 1 .. MaxParts
  BY <1>1, RequestFacts, SizedHasShapes
<1>3. WorkspaceShapes(meta, req.dims) = Ok(p.shapes)
  BY <1>2 DEF WorkspaceShapes, Ok, Err
<1>4. FitsI32(req.dims, 1)
  BY <1>1, RequestFacts, PlanningAssumption, WidthAssumption DEF FitsI32
<1>5. LaunchPitchAccepted(req)
  BY <1>1, PlanningAssumption
     DEF LaunchPitchAccepted, PlanPitchAccepted, PitchesAligned
<1>6. WorkspacesMatch(p, req)
  BY <1>2 DEF WorkspacesMatch
<1> QED
  BY <1>1, <1>2, <1>3, <1>4, <1>5, <1>6 DEF LaunchDimsAccepted

\* Two launches with the same split plan have the same batch, queries and
\* heads: the shapes of the workspaces give all three.
LEMMA ShapesPinDims ==
    ASSUME NEW d \in Dims, NEW e \in Dims, NEW m, NEW s,
           WorkspaceShapes(m, d) = Ok(s), WorkspaceShapes(m, e) = Ok(s),
           m.num_sm_parts \in 1 .. MaxParts, m.num_sm_parts # 1
    PROVE  d.batch = e.batch /\ d.s_q = e.s_q /\ d.h_q = e.h_q
<1>1. ASSUME NEW f \in Dims, WorkspaceShapes(m, f) = Ok(s)
      PROVE  s.lse = <<f.batch + m.num_sm_parts, f.s_q, f.h_q>>
  <2>1. WorkspaceShapes(m, f).ok /\ WorkspaceShapes(m, f).val = s
    BY <1>1 DEF Ok
  <2>2. CheckedAdd(f.batch, m.num_sm_parts) # Overflow
    BY <2>1 DEF WorkspaceShapes, Err
  <2>3. s.lse = <<CheckedAdd(f.batch, m.num_sm_parts), f.s_q, f.h_q>>
    BY <2>1 DEF WorkspaceShapes, Ok, Err
  <2> QED
    BY <2>2, <2>3 DEF CheckedAdd
<1>2. /\ s.lse = <<d.batch + m.num_sm_parts, d.s_q, d.h_q>>
      /\ s.lse = <<e.batch + m.num_sm_parts, e.s_q, e.h_q>>
  BY <1>1
<1>3. d.batch + m.num_sm_parts = e.batch + m.num_sm_parts
  BY <1>2
<1>4. d.batch \in Nat /\ e.batch \in Nat
  BY DEF Dims
<1> QED
  BY <1>2, <1>3, <1>4

\* Every step keeps the plan launchable for the request it was made for.
LEMMA PlanStep ==
    ASSUME TypeOK, PlanningInv, PlanInv, [Next]_vars
    PROVE  PlanInv' /\ (plan = None \/ plan.req \in Requests)'
<1>1. CASE UNCHANGED plan
  BY <1>1 DEF PlanInv, LaunchDimsAccepted, ValidTensors, WorkspacesMatch,
     LaunchPitchAccepted, PitchesAligned
<1>2. CASE plan' = None
  BY <1>2 DEF PlanInv
<1>3. CASE Generate /\ SizedByC(req, current) = Ok(meta)
           /\ plan' = [req |-> req, meta |-> meta,
                       shapes |-> WorkspaceShapes(meta, req.dims).val]
  <2>1. CudaArch[current] = Target
    BY <1>3 DEF SizedByC, Ok, Err
  <2>2. pc = "generate"
    BY <1>3 DEF Generate
  <2> QED
    BY <1>3, <2>1, <2>2, GeneratedPlan DEF PlanInv
<1> QED
  BY <1>1, <1>2, <1>3 DEF Next, PlanCall, SizeOnly, CompareSizes, Allocate,
     Generate, Launch, LaunchFails, SwitchDevice, DropPlan, Abandon, vars

\* A launch is accepted only with the planned shape, if the plan splits.
LEMMA LaunchStep ==
    ASSUME TypeOK, PlanInv, SplitLaunchHasPlannedShape, [Next]_vars
    PROVE  /\ SplitLaunchHasPlannedShape'
           /\ (launched = None \/ launched.req \in Requests)'
<1>1. CASE launched' = None
  BY <1>1 DEF SplitLaunchHasPlannedShape
<1>2. CASE UNCHANGED launched
  BY <1>2 DEF SplitLaunchHasPlannedShape, TypeOK
<1>3. ASSUME NEW r \in Requests, Launch(r)
      PROVE  /\ SplitLaunchHasPlannedShape'
             /\ (launched = None \/ launched.req \in Requests)'
  <2>1. /\ plan # None /\ LaunchDimsAccepted(plan, r)
        /\ launched' = [req |-> r, plan |-> plan]
    BY <1>3 DEF Launch, LaunchAccepted
  <2>2. /\ launched'.req = r /\ launched'.plan = plan
    BY <2>1
  <2>3. ASSUME plan.meta.num_sm_parts > 1
        PROVE  /\ r.dims.batch = plan.req.dims.batch
               /\ r.dims.s_q = plan.req.dims.s_q
               /\ r.dims.h_q = plan.req.dims.h_q
    <3>1. /\ plan.req \in Requests /\ plan.req.dims \in Dims /\ r.dims \in Dims
          /\ WorkspaceShapes(plan.meta, plan.req.dims) = Ok(plan.shapes)
      BY <2>1, RequestFacts DEF PlanInv
    <3>2. WorkspaceShapes(plan.meta, r.dims) = Ok(plan.shapes)
      <4>1. /\ WorkspaceShapes(plan.meta, r.dims).ok
            /\ WorkspaceShapes(plan.meta, r.dims).val = plan.shapes
        BY <2>1 DEF LaunchDimsAccepted, WorkspacesMatch
      <4> QED
        BY <4>1 DEF WorkspaceShapes, Ok, Err
    <3>3. plan.meta.num_sm_parts \in 1 .. MaxParts
      BY <2>1 DEF LaunchDimsAccepted
    <3> QED
      BY <2>3, <3>1, <3>2, <3>3, ShapesPinDims
  <2> QED
    BY <2>1, <2>2, <2>3 DEF SplitLaunchHasPlannedShape
<1> QED
  BY <1>1, <1>2, <1>3 DEF Next, PlanCall, SizeOnly, CompareSizes, Allocate,
     Generate, LaunchFails, SwitchDevice, DropPlan, Abandon, vars

\* Every step keeps the current device, the program counter and the request
\* in their types.
LEMMA ScratchStep ==
    ASSUME TypeOK, PlanningInv, [Next]_vars
    PROVE  /\ current' \in Devices
           /\ pc' \in {"idle", "size", "compare", "allocate", "generate"}
           /\ IF pc' = "idle" THEN req' = None ELSE req' \in Requests
<1>1. ASSUME NEW r \in Requests, PlanCall(r) \/ Launch(r) \/ LaunchFails(r)
      PROVE  /\ current' \in Devices
             /\ pc' \in {"idle", "size", "compare", "allocate", "generate"}
             /\ IF pc' = "idle" THEN req' = None ELSE req' \in Requests
  BY <1>1, RequestFacts DEF PlanCall, Launch, LaunchFails, Bind, scratch, TypeOK
<1>2. CASE Allocate
  BY <1>2, RequestFacts DEF Allocate, Bind, Abandon, scratch, TypeOK,
     PlanningInv
<1>3. CASE SizeOnly \/ CompareSizes \/ Generate
  BY <1>3 DEF SizeOnly, CompareSizes, Generate, Abandon, scratch, TypeOK
<1>4. CASE SwitchDevice \/ DropPlan \/ UNCHANGED vars
  BY <1>4 DEF SwitchDevice, DropPlan, scratch, vars, TypeOK
<1> QED
  BY <1>1, <1>2, <1>3, <1>4 DEF Next

-----------------------------------------------------------------------------
(* The invariants of the specification.                                    *)

\* The inductive invariant holds in every reachable state.
THEOREM PlanningInductive == Spec => []IInv
<1>1. Init => IInv
  BY DEF Init, IInv, TypeOK, PlanningInv, PlanInv,
     SplitLaunchHasPlannedShape
<1>2. IInv /\ [Next]_vars => IInv'
  BY PlanningStep, PlanStep, LaunchStep, ScratchStep DEF IInv, TypeOK
<1> QED
  BY <1>1, <1>2, PTL DEF Spec

\* Type correctness.
THEOREM PlanningTypeCorrect == Spec => []TypeOK
BY PlanningInductive, PTL DEF IInv

\* The Rust sizes and the C ABI's agree on every device of the compiled
\* architecture, and give the workspaces shapes.
THEOREM NoDisagreement == Spec => []SizingNeverDisagrees
<1>1. IInv => SizingNeverDisagrees
  <2> SUFFICES ASSUME IInv, pc # "idle", CudaArch[req.device] = Target,
                      meta # None
               PROVE  meta = expected /\ WorkspaceShapes(meta, req.dims).ok
    BY DEF SizingNeverDisagrees
  <2>1. pc \in {"compare", "allocate", "generate"} /\ req \in Requests
    BY DEF IInv, PlanningInv, TypeOK
  <2>2. meta = expected
    BY <2>1, SizesOnTarget DEF IInv
  <2>3. PlanForArch(req.dims, Target, NumSms[req.device]) = Ok(meta)
    BY <2>1, <2>2 DEF IInv, PlanningInv
  <2> QED
    BY <2>1, <2>2, <2>3, RequestFacts, SizedHasShapes
<1> QED
  BY <1>1, PlanningInductive, PTL

\* A plan is made only for tensors on a device of the compiled architecture.
THEOREM NoForeignPlan == Spec => []PlanOnlyOnTarget
<1>1. IInv => PlanOnlyOnTarget
  BY DEF IInv, PlanInv, LaunchDimsAccepted, PlanOnlyOnTarget
<1> QED
  BY <1>1, PlanningInductive, PTL

\* The launch accepts a plan for the tensors it was made for, unless their
\* strides or pointers are among those that planning lets pass and no launch
\* takes (LaunchLayoutAccepted).
THEOREM PlansAreLaunchable == Spec => []PlanIsLaunchable
<1>1. IInv => PlanIsLaunchable
  BY DEF IInv, PlanInv, PlanIsLaunchable, LaunchAccepted
<1> QED
  BY <1>1, PlanningInductive, PTL

\* A split launch has the shape of its plan.
THEOREM NoReshapedLaunch == Spec => []SplitLaunchHasPlannedShape
BY PlanningInductive, PTL DEF IInv
=============================================================================
