---------------------------- MODULE DecodeStream ----------------------------
(***************************************************************************)
(* Host threads that plan, launch and drop sparse decodes on one device    *)
(* (candle-flashmla/src/sparse_decode.rs over the C ABI), and the device,  *)
(* which executes what they enqueue on its one stream, later and in order. *)
(* A call returns when its kernels are enqueued.  Until they have run, its *)
(* outputs and the plan's workspaces must stay allocated and nobody else   *)
(* may use the accumulators the decode kernels fill for the combine.       *)
(*                                                                         *)
(* A plan is one buffer, the outputs of a call are another.  Allocation    *)
(* and free are ordered on the stream like kernels, as Candle's are.       *)
(***************************************************************************)
EXTENDS Integers, Sequences

CONSTANTS
    Threads,    \* host threads
    Plans,      \* SparseDecodePlan values, each planned at most once
    Calls,      \* calls of sparse_decode, each made at most once
    None,       \* no plan, no call, no schedule
    Batch,      \* the batch of every call
    Parts,      \* Parts[p]: num_sm_parts of plan p
    Halves      \* decode kernels of a call: 2 for 128 V32 heads on SM100

ASSUME StreamAssumption ==
    /\ None \notin Plans \cup Calls
    /\ Plans \cap Calls = {}
    /\ Batch \in Nat \ {0}
    /\ Parts \in [Plans -> Nat \ {0}]
    /\ Halves \in {1, 2}

VARIABLES
    stream,     \* the operations enqueued and not yet executed
    th,         \* th[t]: the call in progress on thread t
    pending,    \* pending[t]: an error is pending in t's CUDA runtime
    plan,       \* plan[p]: "none", "planning", "live" or "dropped"
    status,     \* status[c]: "new", "running", "ok", "err" or "dropped"
    sched,      \* sched[p]: the schedule in p's metadata, or None
    rows,       \* rows[p]: which call last wrote a half of a split's row
    wrote,      \* wrote[c]: the halves whose decode kernel ran for c
    output,     \* output[c]: "unwritten", "own" or "garbage"
    freed,      \* the plans and calls whose buffers are freed
    before      \* history: the calls that had succeeded when c began

host == <<th, pending, plan, status, before>>
device == <<sched, rows, wrote, output, freed>>
vars == <<stream, host, device>>

-----------------------------------------------------------------------------
(* The schedule the metadata kernel writes to num_splits: request b gets   *)
(* the splits from s[b] to s[b+1] - 1, at least one.  The parts are        *)
(* contiguous ranges of the batch's work, so that a request has at most    *)
(* one split for each part and all their borders together add at most      *)
(* Parts - 1 splits to one for each request.                               *)

Requests == 0 .. Batch - 1

Schedules(p) ==
    {s \in [0 .. Batch -> 0 .. Batch + Parts[p] - 1] :
        /\ s[0] = 0
        /\ \A a, b \in 0 .. Batch : a < b => s[a] < s[b]
        /\ \A b \in Requests : s[b + 1] - s[b] <= Parts[p]}

\* A model value is no schedule.
ASSUME NoneAssumption == \A p \in Plans : None \notin Schedules(p)

\* The rows of the accumulators that requests of more than one split use;
\* a request of one split writes its outputs directly.
SplitRows(s) ==
    UNION {s[b] .. s[b + 1] - 1 : b \in {b \in Requests : s[b + 1] - s[b] > 1}}

\* Every row number a schedule may contain.
RowIds(p) == 0 .. Batch + Parts[p] - 1

\* The rows of lse_accum and o_accum, by decode_workspace_shapes; and with
\* one row for every part only.
AccumRowsOfParts(p) == Parts[p]
AccumRows(p) == IF Parts[p] = 1 THEN 1 ELSE Batch + Parts[p]

-----------------------------------------------------------------------------
(* Operations on the stream.                                               *)

Op(op, p, c, half) == [op |-> op, plan |-> p, call |-> c, half |-> half]

Meta(p) == Op("meta", p, None, 0)
Free(b) == IF b \in Plans THEN Op("free", b, None, 0) ELSE Op("free", None, b, 0)

\* The buffers an operation reads, writes or frees.
Touches(o) == {o.plan, o.call} \ {None}

\* What a call of the C ABI's decode launches; also with the second half's
\* pointers never advanced.
KernelsOfFirstHalf(p, c) ==
    [h \in 1 .. Halves |-> Op("decode", p, c, 1)] \o <<Op("combine", p, c, 0)>>
Kernels(p, c) ==
    [h \in 1 .. Halves |-> Op("decode", p, c, h)] \o <<Op("combine", p, c, 0)>>

Idle == [todo |-> <<>>, plan |-> None, call |-> None]
Busy(todo, p, c) == [todo |-> todo, plan |-> p, call |-> c]

Init ==
    /\ stream = <<>>
    /\ th = [t \in Threads |-> Idle]
    /\ pending = [t \in Threads |-> FALSE]
    /\ plan = [p \in Plans |-> "none"]
    /\ status = [c \in Calls |-> "new"]
    /\ sched = [p \in Plans |-> None]
    /\ rows = [p \in Plans |-> [r \in RowIds(p) \X (1 .. Halves) |-> None]]
    /\ wrote = [c \in Calls |-> {}]
    /\ output = [c \in Calls |-> "unwritten"]
    /\ freed = {}
    /\ before = [c \in Calls |-> {}]

-----------------------------------------------------------------------------
(* Host threads.                                                           *)

\* No call holds the plan's &mut borrow (or its locals, while planning).
Unborrowed(p) == \A t \in Threads : th[t].plan # p

\* sparse_decode_plan has sized and allocated the workspaces of p.
PlanBegin(t, p) ==
    /\ th[t] = Idle
    /\ plan[p] = "none"
    /\ plan' = [plan EXCEPT ![p] = "planning"]
    /\ th' = [th EXCEPT ![t] = Busy(<<Meta(p)>>, p, None)]
    /\ UNCHANGED <<stream, pending, status, before, device>>

\* sparse_decode has borrowed p and allocated its outputs.
DecodeBegin(t, p, c) ==
    /\ th[t] = Idle
    /\ plan[p] = "live"
    /\ Unborrowed(p)
    /\ status[c] = "new"
    /\ status' = [status EXCEPT ![c] = "running"]
    /\ before' = [before EXCEPT ![c] =
                     {d \in Calls : status[d] \in {"ok", "dropped"}}]
    /\ th' = [th EXCEPT ![t] = Busy(Kernels(p, c), p, c)]
    /\ UNCHANGED <<stream, pending, plan, device>>

Launch(t) ==
    /\ th[t].todo # <<>>
    /\ stream' = Append(stream, Head(th[t].todo))
    /\ th' = [th EXCEPT ![t] = Busy(Tail(th[t].todo), th[t].plan, th[t].call)]
    /\ UNCHANGED <<pending, plan, status, before, device>>

\* A launch fails and only the runtime knows: the next one is tried.
LaunchFails(t) ==
    /\ th[t].todo # <<>>
    /\ pending' = [pending EXCEPT ![t] = TRUE]
    /\ th' = [th EXCEPT ![t] = Busy(Tail(th[t].todo), th[t].plan, th[t].call)]
    /\ UNCHANGED <<stream, plan, status, before, device>>

\* The end of a call; and one that leaves launches behind.
EndEarly(t) == th' = [th EXCEPT ![t] = Busy(th[t].todo, None, None)]
End(t) == th' = [th EXCEPT ![t] = Idle]

\* An error return drops what the call allocated: the workspaces of a plan
\* being made, or the outputs; the buffers are freed in stream order.
DropLocalsForgotten(t) == UNCHANGED stream
DropLocals(t) ==
    stream' = Append(stream, Free(IF th[t].call = None THEN th[t].plan
                                  ELSE th[t].call))

ReturnErr(t) ==
    /\ End(t)
    /\ DropLocals(t)
    /\ IF th[t].call = None
       THEN /\ plan' = [plan EXCEPT ![th[t].plan] = "dropped"]
            /\ UNCHANGED status
       ELSE /\ status' = [status EXCEPT ![th[t].call] = "err"]
            /\ UNCHANGED plan
    /\ UNCHANGED <<before, device>>

ReturnOk(t) ==
    /\ End(t)
    /\ IF th[t].call = None
       THEN /\ plan' = [plan EXCEPT ![th[t].plan] = "live"]
            /\ UNCHANGED status
       ELSE /\ status' = [status EXCEPT ![th[t].call] = "ok"]
            /\ UNCHANGED plan
    /\ UNCHANGED <<stream, pending, before, device>>

\* Upstream throws, or the C ABI rejects the call before its first launch:
\* the remaining kernels are not launched, a pending error may stay.
CallThrows(t) ==
    /\ th[t].todo # <<>>
    /\ \E left \in BOOLEAN : pending' = [pending EXCEPT ![t] = left]
    /\ ReturnErr(t)

\* cudaGetLastError at the end of a call; never asked, and asked.
PendingErrorIgnored(t) == FALSE
PendingError(t) == pending[t]

CallReturns(t) ==
    /\ th[t].plan # None
    /\ th[t].todo = <<>>
    /\ \/ /\ PendingError(t)
          /\ pending' = [pending EXCEPT ![t] = FALSE]
          /\ ReturnErr(t)
       \/ ~PendingError(t) /\ ReturnOk(t)

\* The owner drops a plan, which a borrow would not let it do; and as if it
\* were not borrowed.
DropBorrowedPlan(p) ==
    /\ plan[p] = "live"
    /\ plan' = [plan EXCEPT ![p] = "dropped"]
    /\ stream' = Append(stream, Free(p))
    /\ UNCHANGED <<th, pending, status, before, device>>
DropPlan(p) ==
    /\ plan[p] = "live"
    /\ Unborrowed(p)
    /\ plan' = [plan EXCEPT ![p] = "dropped"]
    /\ stream' = Append(stream, Free(p))
    /\ UNCHANGED <<th, pending, status, before, device>>

\* The owner drops outputs it was given, written or not.
DropOutput(c) ==
    /\ status[c] = "ok"
    /\ status' = [status EXCEPT ![c] = "dropped"]
    /\ stream' = Append(stream, Free(c))
    /\ UNCHANGED <<th, pending, plan, before, device>>

-----------------------------------------------------------------------------
(* The device.                                                             *)

RunMeta(o) ==
    /\ o.op = "meta"
    /\ \E s \in Schedules(o.plan) : sched' = [sched EXCEPT ![o.plan] = s]
    /\ UNCHANGED <<rows, wrote, output, freed>>

\* Without a schedule a decode kernel does nothing of use.
RunDecode(o) ==
    /\ o.op = "decode"
    /\ IF sched[o.plan] = None
       THEN UNCHANGED <<rows, wrote>>
       ELSE /\ rows' = [rows EXCEPT ![o.plan] =
                   [r \in DOMAIN rows[o.plan] |->
                       IF r[1] \in SplitRows(sched[o.plan]) /\ r[2] = o.half
                       THEN o.call ELSE rows[o.plan][r]]]
            /\ wrote' = [wrote EXCEPT ![o.call] = @ \cup {o.half}]
    /\ UNCHANGED <<sched, output, freed>>

\* The rows the combine of call c reads were all written by c, and so were
\* the outputs of the requests that are not split.
CombinesOwn(p, c) ==
    /\ sched[p] # None
    /\ wrote[c] = 1 .. Halves
    /\ \A r \in SplitRows(sched[p]) \X (1 .. Halves) : rows[p][r] = c

RunCombine(o) ==
    /\ o.op = "combine"
    /\ output' = [output EXCEPT ![o.call] =
                     IF CombinesOwn(o.plan, o.call) THEN "own" ELSE "garbage"]
    /\ UNCHANGED <<sched, rows, wrote, freed>>

RunFree(o) ==
    /\ o.op = "free"
    /\ freed' = freed \cup Touches(o)
    /\ UNCHANGED <<sched, rows, wrote, output>>

Exec ==
    /\ stream # <<>>
    /\ stream' = Tail(stream)
    /\ LET o == Head(stream)
       IN  RunMeta(o) \/ RunDecode(o) \/ RunCombine(o) \/ RunFree(o)
    /\ UNCHANGED host

Next ==
    \/ \E t \in Threads :
           \/ \E p \in Plans : PlanBegin(t, p)
           \/ \E p \in Plans, c \in Calls : DecodeBegin(t, p, c)
           \/ Launch(t)
           \/ LaunchFails(t)
           \/ CallThrows(t)
           \/ CallReturns(t)
    \/ \E p \in Plans : DropPlan(p)
    \/ \E c \in Calls : DropOutput(c)
    \/ Exec

\* Only the device has to go on.
Spec == Init /\ [][Next]_vars /\ WF_vars(Exec)

-----------------------------------------------------------------------------
(* Properties.                                                             *)

Ops == [op : {"meta", "decode", "combine", "free"}, plan : Plans \cup {None},
        call : Calls \cup {None}, half : 0 .. Halves]

\* Type correctness of the threads, the stream and the device; a thread that
\* is in no call has nothing to launch.
TypeOK ==
    /\ stream \in Seq(Ops)
    /\ th \in [Threads -> [todo : Seq(Ops), plan : Plans \cup {None},
                           call : Calls \cup {None}]]
    /\ \A t \in Threads : th[t].plan = None => th[t] = Idle
    /\ pending \in [Threads -> BOOLEAN]
    /\ plan \in [Plans -> {"none", "planning", "live", "dropped"}]
    /\ status \in [Calls -> {"new", "running", "ok", "err", "dropped"}]
    /\ \A p \in Plans : sched[p] \in Schedules(p) \cup {None}
    /\ \A p \in Plans :
           rows[p] \in [RowIds(p) \X (1 .. Halves) -> Calls \cup {None}]
    /\ wrote \in [Calls -> SUBSET (1 .. Halves)]
    /\ output \in [Calls -> {"unwritten", "own", "garbage"}]
    /\ freed \subseteq Plans \cup Calls
    /\ before \in [Calls -> SUBSET Calls]

\* Whatever schedule the metadata kernel chose, the rows it sends splits to
\* exist in the accumulators that were allocated before it ran; one part
\* needs none of the single row it has.
SplitRowsAreAllocated ==
    \A p \in Plans : sched[p] # None =>
        /\ \A r \in SplitRows(sched[p]) : r < AccumRows(p)
        /\ Parts[p] = 1 => SplitRows(sched[p]) = {}

\* Nothing the device executes touches a buffer that is freed, although
\* plans and outputs are dropped while kernels that use them are queued.
NoUseAfterFree == stream # <<>> => Touches(Head(stream)) \cap freed = {}

\* The outputs of a call that succeeded are never computed from another
\* call's accumulator rows, from half of the heads or without a schedule,
\* whichever threads share its plan and whichever launches failed before.
SuccessIsNeverGarbage ==
    \A c \in Calls : status[c] \in {"ok", "dropped"} => output[c] # "garbage"

\* Once the stream is idle nothing is left over: the outputs of every call that
\* succeeded are its own, dropped or not, and the buffers that are freed are
\* those of dropped plans, of dropped outputs and of everything that failed.
AllDoneWhenIdle ==
    stream = <<>> =>
        /\ \A c \in Calls : status[c] \in {"ok", "dropped"} => output[c] = "own"
        /\ freed = {p \in Plans : plan[p] = "dropped"}
                   \cup {c \in Calls : status[c] \in {"err", "dropped"}}

\* The outputs of a call that failed, and the workspaces of a planning that
\* failed, are freed in the end.
FailuresAreFreed ==
    /\ \A c \in Calls : status[c] = "err" ~> c \in freed
    /\ \A p \in Plans : plan[p] = "dropped" ~> p \in freed

\* The threads and the device implement what sparse_decode promises.
Service == INSTANCE DecodeService WITH
    Calls <- Calls,
    status <- [c \in Calls |-> IF status[c] = "dropped" THEN "ok" ELSE status[c]],
    before <- before,
    written <- {c \in Calls : output[c] = "own"}

\* Every call that succeeded gets its outputs, after those of the calls that
\* had succeeded when it began (DecodeService).
ImplementsService == Service!Spec
=============================================================================
