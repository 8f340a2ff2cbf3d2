------------------------- MODULE DecodeStreamProofs -------------------------
(***************************************************************************)
(* Proofs about DecodeStream: the inductive invariant IInv, the safety     *)
(* properties it implies, what is left on an idle stream and the steps of  *)
(* DecodeService, for any threads, plans, calls, batch and parts.          *)
(***************************************************************************)
EXTENDS DecodeStream, SequenceTheorems, TLAPS

-----------------------------------------------------------------------------
(* The inductive invariant.                                                *)

\* The operations that reach the stream.
WfOps ==
    {Meta(p) : p \in Plans}
    \cup {Op("decode", p, c, h) : p \in Plans, c \in Calls, h \in 1 .. Halves}
    \cup {Op("combine", p, c, 0) : p \in Plans, c \in Calls}
    \cup {Free(b) : b \in Plans \cup Calls}

Shape ==
    /\ stream \in Seq(WfOps)
    /\ pending \in [Threads -> BOOLEAN]
    /\ plan \in [Plans -> {"none", "planning", "live", "dropped"}]
    /\ status \in [Calls -> {"new", "running", "ok", "err", "dropped"}]
    /\ sched = [p \in Plans |-> sched[p]]
    /\ rows = [p \in Plans |-> rows[p]]
    /\ \A p \in Plans : sched[p] \in Schedules(p) \cup {None}
    /\ \A p \in Plans :
           rows[p] \in [RowIds(p) \X (1 .. Halves) -> Calls \cup {None}]
    /\ wrote \in [Calls -> SUBSET (1 .. Halves)]
    /\ output \in [Calls -> {"unwritten", "own", "garbage"}]
    /\ freed \in SUBSET (Plans \cup Calls)
    /\ before \in [Calls -> SUBSET Calls]

\* A thread is in no call, plans a plan, or has launched some of the kernels
\* of a call and has the others to do.
IsPlanning(t) ==
    /\ th[t].plan \in Plans /\ th[t].call = None
    /\ plan[th[t].plan] = "planning"
    /\ th[t].todo \in {<<Meta(th[t].plan)>>, <<>>}

IsDecoding(t) ==
    /\ th[t].plan \in Plans /\ th[t].call \in Calls
    /\ plan[th[t].plan] = "live" /\ status[th[t].call] = "running"
    /\ Len(th[t].todo) <= Halves + 1
    /\ \A i \in 1 .. Len(th[t].todo) :
           th[t].todo[i] = Kernels(th[t].plan, th[t].call)[Halves + 1 - Len(th[t].todo) + i]

ThreadsOK ==
    /\ th \in [Threads -> [todo : Seq(WfOps), plan : Plans \cup {None},
                           call : Calls \cup {None}]]
    /\ \A t \in Threads : th[t] = Idle \/ IsPlanning(t) \/ IsDecoding(t)

\* The &mut borrow of a plan is one thread's, and so is a call.
BorrowsOK ==
    \A t, u \in Threads : t # u =>
        /\ th[t].plan # None => th[t].plan # th[u].plan
        /\ th[t].call # None => th[t].call # th[u].call

\* What is freed or about to be was dropped by the host, and no operation of
\* the stream uses it after that.
Gone(b) ==
    \/ b \in Plans /\ plan[b] = "dropped"
    \/ b \in Calls /\ status[b] \in {"err", "dropped"}

FreesOK ==
    /\ \A b \in freed : Gone(b) /\ \A i \in 1 .. Len(stream) : b \notin Touches(stream[i])
    /\ \A i \in 1 .. Len(stream) : stream[i].op = "free" =>
           \A b \in Touches(stream[i]) :
               Gone(b) /\ \A j \in 1 .. Len(stream) : b \in Touches(stream[j]) => j <= i

\* A plan's metadata is written once, before anything that uses the plan.
Scheduled(p) == sched[p] # None \/ \E i \in 1 .. Len(stream) : stream[i] = Meta(p)
Untouched(p) == sched[p] = None /\ \A i \in 1 .. Len(stream) : stream[i].plan # p

MetaFirst ==
    \A i, j \in 1 .. Len(stream) :
        stream[i].op = "meta" /\ stream[j].plan = stream[i].plan => i <= j

MetaPending ==
    \A i \in 1 .. Len(stream) : stream[i].op = "meta" => sched[stream[i].plan] = None

DecodesScheduled ==
    \A i \in 1 .. Len(stream) : stream[i].op = "decode" => Scheduled(stream[i].plan)

MetaOK ==
    /\ MetaFirst /\ MetaPending /\ DecodesScheduled
    /\ \A p \in Plans : plan[p] = "live" => Scheduled(p)
    /\ \A p \in Plans : plan[p] = "none" => Untouched(p)
    /\ \A t \in Threads : IsPlanning(t) =>
           /\ th[t].todo # <<>> => Untouched(th[t].plan)
           /\ th[t].todo = <<>> /\ ~pending[t] => Scheduled(th[t].plan)

\* A call that has succeeded or still may: no launch of it failed.
Sound(c) ==
    \/ status[c] \in {"ok", "dropped"}
    \/ \E t \in Threads : th[t].call = c /\ ~pending[t]

\* When the first n operations of the stream are executed, half h of the rows
\* of plan p is what call c put there.
Keeps(i, p, c, h) ==
    stream[i].op = "decode" /\ stream[i].plan = p /\ stream[i].half = h => stream[i].call = c

HasFilled(p, c, h) ==
    /\ sched[p] # None
    /\ h \in wrote[c]
    /\ \A r \in SplitRows(sched[p]) : rows[p][<<r, h>>] = c

Fills(p, c, h, n) ==
    \/ HasFilled(p, c, h) /\ \A k \in 1 .. n : Keeps(k, p, c, h)
    \/ \E j \in 1 .. n : /\ stream[j] = Op("decode", p, c, h)
                         /\ \A k \in j .. n : Keeps(k, p, c, h)

RowsOK ==
    /\ \A i \in 1 .. Len(stream) : stream[i].op = "combine" /\ Sound(stream[i].call) =>
           \A h \in 1 .. Halves : Fills(stream[i].plan, stream[i].call, h, i - 1)
    /\ \A t \in Threads : IsDecoding(t) /\ ~pending[t] =>
           \A h \in 1 .. Halves : h + Len(th[t].todo) <= Halves + 1 =>
               Fills(th[t].plan, th[t].call, h, Len(stream))
    /\ \A c \in Calls : Sound(c) => output[c] # "garbage"

\* A call is combined once, after the calls that had succeeded before it.
Combines(i, c) == stream[i].op = "combine" /\ stream[i].call = c
Uncombined(c) ==
    output[c] = "unwritten" /\ \A i \in 1 .. Len(stream) : ~Combines(i, c)
Combined(c) == output[c] = "own" \/ \E i \in 1 .. Len(stream) : Combines(i, c)

NewOK ==
    \A c \in Calls : status[c] = "new" =>
        Uncombined(c) /\ \A i \in 1 .. Len(stream) : stream[i].call # c

CombinedOnce ==
    /\ \A i, j \in 1 .. Len(stream) : \A c \in Calls :
           Combines(i, c) /\ Combines(j, c) => i = j
    /\ \A i \in 1 .. Len(stream) : stream[i].op = "combine" => output[stream[i].call] = "unwritten"

BeforeOK ==
    \A c \in Calls : \A d \in before[c] :
        /\ status[d] \in {"ok", "dropped"}
        /\ \A i, j \in 1 .. Len(stream) : Combines(i, d) /\ Combines(j, c) => i < j

CallsOK ==
    /\ \A t \in Threads : IsDecoding(t) =>
           /\ th[t].todo # <<>> => Uncombined(th[t].call)
           /\ th[t].todo = <<>> /\ ~pending[t] => Combined(th[t].call)
    /\ \A c \in Calls : status[c] \in {"ok", "dropped"} => Combined(c)

OrderOK == NewOK /\ CombinedOnce /\ BeforeOK /\ CallsOK

IInv == Shape /\ ThreadsOK /\ BorrowsOK /\ FreesOK /\ MetaOK /\ RowsOK /\ OrderOK

-----------------------------------------------------------------------------
(* Lemmas about schedules, operations and sequences.                       *)

\* The splits of all requests fit in the accumulators but their last row, and
\* one part splits nothing.
LEMMA RowsOfASchedule ==
    ASSUME NEW p \in Plans, NEW s \in Schedules(p)
    PROVE  /\ s # None
           /\ \A r \in SplitRows(s) : r \in RowIds(p) /\ r < Batch + Parts[p] - 1
           /\ Parts[p] = 1 => SplitRows(s) = {}
<1>1. Batch \in Nat \ {0} /\ Parts[p] \in Nat \ {0}
  BY StreamAssumption
<1>2. /\ s \in [0 .. Batch -> 0 .. Batch + Parts[p] - 1]
      /\ \A a, b \in 0 .. Batch : a < b => s[a] < s[b]
      /\ \A b \in Requests : s[b + 1] - s[b] <= Parts[p]
  BY DEF Schedules
<1>3. s # None
  BY NoneAssumption
<1>4. ASSUME NEW r \in SplitRows(s)
      PROVE  r \in RowIds(p) /\ r < Batch + Parts[p] - 1 /\ Parts[p] # 1
  <2>1. PICK b \in Requests : s[b + 1] - s[b] > 1 /\ r \in s[b] .. s[b + 1] - 1
    BY <1>4 DEF SplitRows
  <2>2. b \in 0 .. Batch /\ b + 1 \in 0 .. Batch
    BY <1>1, <2>1 DEF Requests
  <2>3. s[b] \in 0 .. Batch + Parts[p] - 1 /\ s[b + 1] \in 0 .. Batch + Parts[p] - 1
    BY <1>2, <2>2
  <2>4. s[b + 1] - s[b] <= Parts[p]
    BY <1>2, <2>1
  <2>5. r \in Int /\ 0 <= r /\ r <= s[b + 1] - 1
    BY <2>1, <2>3
  <2>6. r < Batch + Parts[p] - 1
    BY <1>1, <2>3, <2>5
  <2>7. Parts[p] # 1
    BY <1>1, <2>1, <2>3, <2>4
  <2> QED
    BY <1>1, <2>5, <2>6, <2>7 DEF RowIds
<1> QED
  BY <1>3, <1>4

\* What the fields of an operation on the stream are.
LEMMA Operations ==
    ASSUME NEW o \in WfOps
    PROVE  /\ o \in Ops
           /\ o.op = "meta" => o.plan \in Plans /\ o.call = None /\ o = Meta(o.plan)
           /\ o.op = "decode" => /\ o.plan \in Plans /\ o.call \in Calls
                                 /\ o.half \in 1 .. Halves
                                 /\ o = Op("decode", o.plan, o.call, o.half)
           /\ o.op = "combine" => o.plan \in Plans /\ o.call \in Calls
           /\ o.op = "free" => \E b \in Plans \cup Calls : o = Free(b)
           /\ o.op # "free" => o.plan \in Plans
<1>1. Halves \in {1, 2}
  BY StreamAssumption
<1>2. CASE \E p \in Plans : o = Meta(p)
  BY <1>1, <1>2 DEF Meta, Op, Ops
<1>3. CASE \E p \in Plans, c \in Calls, h \in 1 .. Halves : o = Op("decode", p, c, h)
  BY <1>1, <1>3 DEF Op, Ops
<1>4. CASE \E p \in Plans, c \in Calls : o = Op("combine", p, c, 0)
  BY <1>1, <1>4 DEF Op, Ops
<1>5. CASE \E b \in Plans \cup Calls : o = Free(b)
  BY <1>1, <1>5 DEF Free, Op, Ops
<1> QED
  BY <1>2, <1>3, <1>4, <1>5 DEF WfOps

\* A free touches the one buffer it frees.
LEMMA FreeOps ==
    ASSUME NEW b \in Plans \cup Calls
    PROVE  /\ Free(b) \in WfOps
           /\ Free(b).op = "free"
           /\ Touches(Free(b)) = {b}
           /\ Free(b).plan = IF b \in Plans THEN b ELSE None
BY StreamAssumption DEF Free, Op, Touches, WfOps

\* The metadata kernel touches its plan only.
LEMMA MetaOps ==
    ASSUME NEW p \in Plans
    PROVE  /\ Meta(p) \in WfOps /\ Meta(p).op = "meta"
           /\ Meta(p).plan = p /\ Meta(p).call = None /\ Touches(Meta(p)) = {p}
BY StreamAssumption DEF Meta, Op, Touches, WfOps

\* A call launches a decode kernel for each half, then the combine.
LEMMA KernelsOfACall ==
    ASSUME NEW p \in Plans, NEW c \in Calls
    PROVE  /\ Kernels(p, c) \in Seq(WfOps)
           /\ Len(Kernels(p, c)) = Halves + 1
           /\ \A h \in 1 .. Halves : Kernels(p, c)[h] = Op("decode", p, c, h)
           /\ Kernels(p, c)[Halves + 1] = Op("combine", p, c, 0)
<1> DEFINE d == [h \in 1 .. Halves |-> Op("decode", p, c, h)]
           k == <<Op("combine", p, c, 0)>>
<1>1. Halves \in Nat
  BY StreamAssumption
<1>2. d \in Seq(WfOps) /\ Len(d) = Halves
  <2>1. \A h \in 1 .. Halves : Op("decode", p, c, h) \in WfOps
    BY DEF WfOps
  <2> QED
    BY <1>1, <2>1, IsASeq
<1>3. k \in Seq(WfOps) /\ Len(k) = 1 /\ k[1] = Op("combine", p, c, 0)
  BY DEF WfOps
<1>4. Kernels(p, c) = d \o k
  BY DEF Kernels
<1> HIDE DEF d, k
<1>5. /\ d \o k \in Seq(WfOps)
      /\ Len(d \o k) = Len(d) + Len(k)
      /\ \A i \in 1 .. Len(d) + Len(k) :
             (d \o k)[i] = IF i <= Len(d) THEN d[i] ELSE k[i - Len(d)]
  BY <1>2, <1>3, ConcatProperties
<1>6. \A h \in 1 .. Halves : (d \o k)[h] = d[h]
  BY <1>1, <1>2, <1>3, <1>5
<1>7. (d \o k)[Halves + 1] = k[1]
  BY <1>1, <1>2, <1>3, <1>5
<1> QED
  BY <1>1, <1>2, <1>3, <1>4, <1>5, <1>6, <1>7 DEF d

\* Append, element by element.
LEMMA Appended ==
    ASSUME NEW S, NEW s \in Seq(S), NEW o \in S
    PROVE  /\ Append(s, o) \in Seq(S)
           /\ Len(s) \in Nat
           /\ Len(Append(s, o)) = Len(s) + 1
           /\ \A i \in 1 .. Len(s) : Append(s, o)[i] = s[i] /\ s[i] \in S
           /\ Append(s, o)[Len(s) + 1] = o
BY AppendProperties, LenProperties, ElementOfSeq

\* Tail, element by element.
LEMMA Tailed ==
    ASSUME NEW S, NEW s \in Seq(S), s # <<>>
    PROVE  /\ Len(s) \in Nat /\ Len(s) >= 1
           /\ Head(s) = s[1] /\ Head(s) \in S
           /\ Tail(s) \in Seq(S)
           /\ Len(Tail(s)) = Len(s) - 1
           /\ \A i \in 1 .. Len(s) - 1 : Tail(s)[i] = s[i + 1]
BY HeadTailProperties, LenProperties, EmptySeq

-----------------------------------------------------------------------------
(* What an append to the stream and the execution of its head preserve.    *)

\* A launch or a drop puts one operation behind the others.
LEMMA StreamGrows ==
    ASSUME stream \in Seq(WfOps), NEW o \in WfOps, stream' = Append(stream, o)
    PROVE  /\ stream' \in Seq(WfOps)
           /\ Len(stream) \in Nat
           /\ Len(stream') = Len(stream) + 1
           /\ \A i \in 1 .. Len(stream) : stream'[i] = stream[i] /\ stream[i] \in WfOps
           /\ stream'[Len(stream) + 1] = o
BY Appended

\* The device takes the operation at the head.
LEMMA StreamShrinks ==
    ASSUME stream \in Seq(WfOps), stream # <<>>, stream' = Tail(stream)
    PROVE  /\ stream' \in Seq(WfOps)
           /\ Len(stream) \in Nat /\ Len(stream) >= 1
           /\ Len(stream') = Len(stream) - 1
           /\ \A i \in 1 .. Len(stream') : i + 1 \in 1 .. Len(stream) /\ stream'[i] = stream[i + 1]
           /\ Head(stream) = stream[1] /\ Head(stream) \in WfOps
BY Tailed

\* FreesOK when an operation is enqueued on buffers that are not gone.
LEMMA FreesGrow ==
    ASSUME stream \in Seq(WfOps), FreesOK, NEW o \in WfOps,
           stream' = Append(stream, o), freed' = freed,
           \A b : Gone(b) => Gone(b)',
           \A b \in Touches(o) : ~Gone(b) /\ (o.op = "free" => Gone(b)')
    PROVE  FreesOK'
<1> DEFINE n == Len(stream)
<1>1. /\ n \in Nat /\ Len(stream') = n + 1
      /\ \A i \in 1 .. n : stream'[i] = stream[i]
      /\ stream'[n + 1] = o
  BY StreamGrows
<1>2. \A i \in 1 .. n + 1 : i \in 1 .. n \/ i = n + 1
  BY <1>1
<1>3. \A b \in freed' : Gone(b)' /\ \A i \in 1 .. Len(stream') : b \notin Touches(stream'[i])
  BY <1>1, <1>2 DEF FreesOK
<1>4. ASSUME NEW i \in 1 .. Len(stream'), stream'[i].op = "free", NEW b \in Touches(stream'[i])
      PROVE  Gone(b)' /\ \A j \in 1 .. Len(stream') : b \in Touches(stream'[j]) => j <= i
  <2>1. CASE i = n + 1
    BY <1>1, <1>4, <2>1
  <2>2. CASE i \in 1 .. n
    <3>1. /\ Gone(b)
          /\ \A j \in 1 .. n : b \in Touches(stream[j]) => j <= i
      BY <1>1, <1>4, <2>2 DEF FreesOK
    <3>2. b \notin Touches(o)
      BY <3>1
    <3> QED
      BY <1>1, <1>2, <3>1, <3>2
  <2> QED
    BY <1>1, <1>2, <1>4, <2>1, <2>2
<1> QED
  BY <1>3, <1>4 DEF FreesOK

\* FreesOK when the head of the stream is executed.
LEMMA FreesShrink ==
    ASSUME stream \in Seq(WfOps), FreesOK, stream # <<>>, stream' = Tail(stream),
           freed' = freed \cup IF Head(stream).op = "free" THEN Touches(Head(stream)) ELSE {},
           \A b : Gone(b) => Gone(b)'
    PROVE  FreesOK'
<1> DEFINE n == Len(stream)
<1>1. /\ n \in Nat /\ n >= 1 /\ Len(stream') = n - 1
      /\ \A i \in 1 .. Len(stream') : i + 1 \in 1 .. n /\ stream'[i] = stream[i + 1]
      /\ Head(stream) = stream[1]
  BY StreamShrinks
<1>2. ASSUME NEW b \in freed'
      PROVE  Gone(b)' /\ \A i \in 1 .. Len(stream') : b \notin Touches(stream'[i])
  <2>1. CASE b \in freed
    BY <1>1, <2>1 DEF FreesOK
  <2>2. CASE b \notin freed
    <3>1. stream[1].op = "free" /\ b \in Touches(stream[1])
      BY <1>1, <1>2, <2>2
    <3>2. Gone(b) /\ \A j \in 1 .. n : b \in Touches(stream[j]) => j <= 1
      BY <1>1, <3>1 DEF FreesOK
    <3> QED
      BY <1>1, <3>2
  <2> QED
    BY <2>1, <2>2
<1>3. ASSUME NEW i \in 1 .. Len(stream'), stream'[i].op = "free", NEW b \in Touches(stream'[i])
      PROVE  Gone(b)' /\ \A j \in 1 .. Len(stream') : b \in Touches(stream'[j]) => j <= i
  <2>1. /\ Gone(b)
        /\ \A j \in 1 .. n : b \in Touches(stream[j]) => j <= i + 1
    BY <1>1, <1>3 DEF FreesOK
  <2> QED
    BY <1>1, <2>1
<1> QED
  BY <1>2, <1>3 DEF FreesOK

\* The part of MetaOK that is about the stream.
LEMMA MetaGrows ==
    ASSUME stream \in Seq(WfOps), MetaOK, NEW o \in WfOps,
           stream' = Append(stream, o), sched' = sched,
           o.op = "meta" => Untouched(o.plan),
           o.op = "decode" => Scheduled(o.plan)
    PROVE  /\ MetaFirst' /\ MetaPending' /\ DecodesScheduled'
           /\ \A p : Scheduled(p) => Scheduled(p)'
           /\ \A p : Untouched(p) /\ o.plan # p => Untouched(p)'
           /\ \A p : o = Meta(p) => Scheduled(p)'
<1> DEFINE n == Len(stream)
<1>1. /\ n \in Nat /\ Len(stream') = n + 1
      /\ \A i \in 1 .. n : stream'[i] = stream[i]
      /\ stream'[n + 1] = o
  BY StreamGrows
<1>2. \A i \in 1 .. n + 1 : i \in 1 .. n \/ i = n + 1
  BY <1>1
<1>3. \A i \in 1 .. n : i \in 1 .. Len(stream')
  BY <1>1
<1>4. MetaFirst'
  <2> SUFFICES ASSUME NEW i \in 1 .. Len(stream'), NEW j \in 1 .. Len(stream'),
                      stream'[i].op = "meta", stream'[j].plan = stream'[i].plan
               PROVE  i <= j
    BY DEF MetaFirst
  <2>1. CASE i = n + 1
    BY <1>1, <1>2, <2>1 DEF Untouched
  <2>2. CASE i \in 1 .. n /\ j \in 1 .. n
    BY <1>1, <2>2 DEF MetaOK, MetaFirst
  <2>3. CASE i \in 1 .. n /\ j = n + 1
    BY <1>1, <2>3
  <2> QED
    BY <1>1, <1>2, <2>1, <2>2, <2>3
<1>5. MetaPending'
  BY <1>1, <1>2 DEF MetaOK, MetaPending, Untouched
<1>6. \A p : Scheduled(p) => Scheduled(p)'
  BY <1>1, <1>3 DEF Scheduled
<1>7. DecodesScheduled'
  BY <1>1, <1>2, <1>6 DEF MetaOK, DecodesScheduled
<1>8. \A p : Untouched(p) /\ o.plan # p => Untouched(p)'
  BY <1>1, <1>2 DEF Untouched
<1>9. \A p : o = Meta(p) => Scheduled(p)'
  BY <1>1 DEF Scheduled
<1> QED
  BY <1>4, <1>5, <1>6, <1>7, <1>8, <1>9

\* When a decode is executed its schedule was written, and stays.
LEMMA ScheduledBefore ==
    ASSUME stream \in Seq(WfOps), MetaOK, stream # <<>>, Head(stream).op = "decode"
    PROVE  sched[Head(stream).plan] # None
<1>1. /\ Len(stream) \in Nat /\ 1 \in 1 .. Len(stream) /\ Head(stream) = stream[1]
  BY Tailed
<1>2. Scheduled(stream[1].plan)
  BY <1>1 DEF MetaOK, DecodesScheduled
<1>3. ASSUME NEW i \in 1 .. Len(stream), stream[i] = Meta(stream[1].plan)
      PROVE  FALSE
  <2>1. stream[i].op = "meta" /\ stream[i].plan = stream[1].plan
    BY <1>3 DEF Meta, Op
  <2>2. i <= 1
    BY <1>1, <2>1 DEF MetaOK, MetaFirst
  <2> QED
    BY <1>1, <2>1, <2>2
<1> QED
  BY <1>1, <1>2, <1>3 DEF Scheduled

\* The part of MetaOK about the stream, when its head is executed.
LEMMA MetaShrinks ==
    ASSUME Shape, MetaOK, stream # <<>>, stream' = Tail(stream),
           \/ /\ Head(stream).op = "meta"
              /\ \E s \in Schedules(Head(stream).plan) :
                     sched' = [sched EXCEPT ![Head(stream).plan] = s]
           \/ Head(stream).op # "meta" /\ sched' = sched
    PROVE  /\ MetaFirst' /\ MetaPending' /\ DecodesScheduled'
           /\ \A p \in Plans : Scheduled(p) => Scheduled(p)'
           /\ \A p \in Plans : Untouched(p) => Untouched(p)'
<1> DEFINE n == Len(stream)
           o == Head(stream)
<1>1. /\ n \in Nat /\ n >= 1 /\ Len(stream') = n - 1
      /\ \A i \in 1 .. Len(stream') : i + 1 \in 1 .. n /\ stream'[i] = stream[i + 1]
      /\ o = stream[1] /\ o \in WfOps
  BY StreamShrinks DEF Shape
<1>2. o.op = "meta" => /\ o.plan \in Plans /\ o = Meta(o.plan)
                       /\ sched'[o.plan] # None
                       /\ \A q \in Plans : q # o.plan => sched'[q] = sched[q]
  BY <1>1, Operations, RowsOfASchedule DEF Shape
<1>3. o.op # "meta" => sched' = sched
  OBVIOUS
<1>4. MetaFirst'
  <2> SUFFICES ASSUME NEW i \in 1 .. Len(stream'), NEW j \in 1 .. Len(stream'),
                      stream'[i].op = "meta", stream'[j].plan = stream'[i].plan
               PROVE  i <= j
    BY DEF MetaFirst
  <2>1. i + 1 <= j + 1
    BY <1>1 DEF MetaOK, MetaFirst
  <2> QED
    BY <1>1, <2>1
<1>5. MetaPending'
  <2> SUFFICES ASSUME NEW i \in 1 .. Len(stream'), stream'[i].op = "meta"
               PROVE  sched'[stream'[i].plan] = None
    BY DEF MetaPending
  <2>1. stream'[i] = stream[i + 1] /\ i + 1 \in 1 .. n /\ 1 \in 1 .. n
    BY <1>1
  <2>2. sched[stream[i + 1].plan] = None /\ stream[i + 1].plan \in Plans
    <3>1. stream[i + 1] \in WfOps
      BY <2>1, ElementOfSeq DEF Shape
    <3> QED
      BY <2>1, <3>1, Operations DEF MetaOK, MetaPending
  <2>3. stream[1].plan # stream[i + 1].plan
    BY <1>1, <2>1 DEF MetaOK, MetaFirst
  <2> QED
    BY <1>1, <1>2, <1>3, <2>1, <2>2, <2>3
<1>6. ASSUME NEW p \in Plans, Scheduled(p)
      PROVE  Scheduled(p)'
  <2>1. CASE sched[p] # None
    BY <1>2, <1>3, <2>1 DEF Scheduled
  <2>2. CASE sched[p] = None
    <3>1. PICK i \in 1 .. n : stream[i] = Meta(p)
      BY <1>6, <2>2 DEF Scheduled
    <3>2. CASE i = 1
      BY <1>1, <1>2, <3>1, <3>2, MetaOps DEF Scheduled
    <3>3. CASE i # 1
      <4>1. i - 1 \in 1 .. Len(stream') /\ stream'[i - 1] = stream[i]
        BY <1>1, <3>1, <3>3
      <4> QED
        BY <3>1, <4>1 DEF Scheduled
    <3> QED
      BY <3>2, <3>3
  <2> QED
    BY <2>1, <2>2
<1>7. DecodesScheduled'
  <2> SUFFICES ASSUME NEW i \in 1 .. Len(stream'), stream'[i].op = "decode"
               PROVE  Scheduled(stream[i].plan)'
    BY DEF DecodesScheduled
  <2>1. stream'[i] = stream[i + 1] /\ i + 1 \in 1 .. n
    BY <1>1
  <2>3. stream[i + 1] \in WfOps
    BY <2>1, ElementOfSeq DEF Shape
  <2>2. Scheduled(stream[i + 1].plan) /\ stream[i + 1].plan \in Plans
    BY <2>1, <2>3, Operations DEF MetaOK, DecodesScheduled
  <2> QED
    BY <1>6, <2>1, <2>2
<1>8. ASSUME NEW p \in Plans, Untouched(p)
      PROVE  Untouched(p)'
  <2>1. stream[1].plan # p /\ sched[p] = None
    BY <1>1, <1>8 DEF Untouched
  <2>2. sched'[p] = None
    BY <1>1, <1>2, <1>3, <2>1
  <2> QED
    BY <1>1, <1>8, <2>2 DEF Untouched
<1> QED
  BY <1>4, <1>5, <1>6, <1>7, <1>8

\* What n operations fill, they fill with one more behind them.
LEMMA FillsGrow ==
    ASSUME stream \in Seq(WfOps), NEW o \in WfOps, stream' = Append(stream, o),
           sched' = sched, rows' = rows, wrote' = wrote,
           NEW p, NEW c, NEW h, NEW n \in 0 .. Len(stream), Fills(p, c, h, n)
    PROVE  Fills(p, c, h, n)'
<1>1. /\ Len(stream) \in Nat
      /\ \A k \in 1 .. n : k \in 1 .. Len(stream) /\ stream'[k] = stream[k]
  BY StreamGrows
<1>2. \A k \in 1 .. n : Keeps(k, p, c, h) => Keeps(k, p, c, h)'
  BY <1>1 DEF Keeps
<1>3. HasFilled(p, c, h) => HasFilled(p, c, h)'
  BY DEF HasFilled
<1>4. \A j \in 1 .. n : \A k \in j .. n : k \in 1 .. n
  BY <1>1
<1> QED
  BY <1>1, <1>2, <1>3, <1>4 DEF Fills

\* An operation that is not a decode of another call on the same rows leaves
\* them filled.
LEMMA FillsLast ==
    ASSUME stream \in Seq(WfOps), NEW o \in WfOps, stream' = Append(stream, o),
           sched' = sched, rows' = rows, wrote' = wrote,
           NEW p, NEW c, NEW h, Fills(p, c, h, Len(stream)),
           o.op = "decode" /\ o.plan = p /\ o.half = h => o.call = c
    PROVE  Fills(p, c, h, Len(stream))'
<1> DEFINE n == Len(stream)
<1>1. /\ n \in Nat /\ Len(stream') = n + 1
      /\ \A k \in 1 .. n : stream'[k] = stream[k]
      /\ stream'[n + 1] = o
  BY StreamGrows
<1>2. \A k \in 1 .. n : Keeps(k, p, c, h) => Keeps(k, p, c, h)'
  BY <1>1 DEF Keeps
<1>3. \A k \in 1 .. n + 1 : k \in 1 .. n \/ stream'[k] = o
  BY <1>1
<1>4. \A k : stream'[k] = o => Keeps(k, p, c, h)'
  BY DEF Keeps
<1>5. CASE HasFilled(p, c, h) /\ \A k \in 1 .. n : Keeps(k, p, c, h)
  <2>1. HasFilled(p, c, h)'
    BY <1>5 DEF HasFilled
  <2>2. \A k \in 1 .. n + 1 : Keeps(k, p, c, h)'
    BY <1>2, <1>3, <1>4, <1>5
  <2> QED
    BY <1>1, <2>1, <2>2 DEF Fills
<1>6. CASE \E j \in 1 .. n : /\ stream[j] = Op("decode", p, c, h)
                             /\ \A k \in j .. n : Keeps(k, p, c, h)
  <2>1. PICK j \in 1 .. n : /\ stream[j] = Op("decode", p, c, h)
                            /\ \A k \in j .. n : Keeps(k, p, c, h)
    BY <1>6
  <2>2. ASSUME NEW k \in j .. n + 1
        PROVE  Keeps(k, p, c, h)'
    <3>1. k \in 1 .. n + 1 /\ (k \in 1 .. n => k \in j .. n)
      BY <1>1, <2>1, <2>2
    <3> QED
      BY <1>2, <1>3, <1>4, <2>1, <3>1
  <2>3. j \in 1 .. n + 1 /\ stream'[j] = Op("decode", p, c, h)
    BY <1>1, <2>1
  <2> QED
    BY <1>1, <2>2, <2>3 DEF Fills
<1> QED
  BY <1>5, <1>6 DEF Fills

\* The decode just enqueued fills its own rows.
LEMMA FillsNew ==
    ASSUME stream \in Seq(WfOps), NEW p, NEW c, NEW h, Op("decode", p, c, h) \in WfOps,
           stream' = Append(stream, Op("decode", p, c, h))
    PROVE  Fills(p, c, h, Len(stream))'
<1> DEFINE o == Op("decode", p, c, h)
           m == Len(stream')
<1>1. m \in 1 .. m /\ stream'[m] = o /\ m \in Nat
  BY StreamGrows
<1>2. \A k \in m .. m : Keeps(k, p, c, h)'
  BY <1>1 DEF Keeps, Op
<1> QED
  BY <1>1, <1>2 DEF Fills

\* A kernel at the head of the stream leaves, of what the operations after it
\* rely on, its own rows and those of the others' plans and halves.
LEMMA FilledStays ==
    ASSUME Shape, MetaOK, stream # <<>>,
           LET o == Head(stream)
           IN  RunMeta(o) \/ RunDecode(o) \/ RunCombine(o) \/ RunFree(o),
           NEW p \in Plans, NEW c \in Calls, NEW h \in 1 .. Halves,
           (HasFilled(p, c, h) /\ Keeps(1, p, c, h)) \/ Head(stream) = Op("decode", p, c, h)
    PROVE  HasFilled(p, c, h)'
<1> DEFINE o == Head(stream)
<1>1. /\ o \in WfOps /\ o = stream[1] /\ 1 \in 1 .. Len(stream)
  BY Tailed DEF Shape
<1>2. CASE RunMeta(o)
  <2>1. o.op = "meta" /\ o.plan \in Plans /\ sched[o.plan] = None
    BY <1>1, <1>2, Operations DEF RunMeta, MetaOK, MetaPending
  <2>2. HasFilled(p, c, h) /\ sched[p] # None
    BY <2>1 DEF HasFilled, Op
  <2>3. sched'[p] = sched[p] /\ rows' = rows /\ wrote' = wrote
    BY <1>2, <2>1, <2>2 DEF RunMeta, Shape
  <2> QED
    BY <2>2, <2>3 DEF HasFilled
<1>3. CASE RunDecode(o)
  <2>1. /\ o.op = "decode" /\ o.plan \in Plans /\ o.call \in Calls
        /\ o.half \in 1 .. Halves /\ sched[o.plan] # None
    BY <1>1, <1>3, Operations, ScheduledBefore DEF RunDecode, Shape
  <2>2. sched' = sched /\ sched[p] # None
    BY <1>3, <2>1 DEF RunDecode, HasFilled, Op
  <2>3. h \in wrote'[c]
    BY <1>3, <2>1 DEF RunDecode, HasFilled, Op, Shape
  <2>4. ASSUME NEW r \in SplitRows(sched[p])
        PROVE  rows'[p][<<r, h>>] = c
    <3>1. /\ <<r, h>> \in DOMAIN rows[p]
          /\ <<r, h>>[1] = r /\ <<r, h>>[2] = h
      BY <2>2, <2>4, RowsOfASchedule DEF Shape
    <3>2. p # o.plan => rows'[p] = rows[p]
      BY <1>3, <2>1 DEF RunDecode, Shape
    <3>3. p = o.plan => rows'[p][<<r, h>>] = IF h = o.half THEN o.call ELSE rows[p][<<r, h>>]
      BY <1>3, <2>1, <2>4, <3>1 DEF RunDecode, Shape
    <3>4. p # o.plan \/ h # o.half => rows[p][<<r, h>>] = c
      BY <2>4 DEF HasFilled, Op
    <3>5. p = o.plan /\ h = o.half => o.call = c
      BY <1>1, <2>1 DEF Keeps, Op
    <3> QED
      BY <3>2, <3>3, <3>4, <3>5
  <2> QED
    BY <2>2, <2>3, <2>4 DEF HasFilled
<1>4. CASE RunCombine(o) \/ RunFree(o)
  BY <1>4 DEF RunCombine, RunFree, HasFilled, Op
<1> QED
  BY <1>2, <1>3, <1>4

\* The execution of the head leaves filled what the rest relies on.
LEMMA FillsShrink ==
    ASSUME Shape, MetaOK, stream # <<>>, stream' = Tail(stream),
           LET o == Head(stream)
           IN  RunMeta(o) \/ RunDecode(o) \/ RunCombine(o) \/ RunFree(o),
           NEW p \in Plans, NEW c \in Calls, NEW h \in 1 .. Halves,
           NEW n \in 1 .. Len(stream), Fills(p, c, h, n)
    PROVE  Fills(p, c, h, n - 1)'
<1>1. /\ Len(stream) \in Nat /\ Head(stream) = stream[1]
      /\ \A k \in 1 .. n - 1 : k + 1 \in 1 .. n /\ stream'[k] = stream[k + 1]
  BY StreamShrinks DEF Shape
<1>2. \A k \in 1 .. n - 1 : Keeps(k + 1, p, c, h) => Keeps(k, p, c, h)'
  BY <1>1 DEF Keeps
<1>3. CASE HasFilled(p, c, h) /\ \A k \in 1 .. n : Keeps(k, p, c, h)
  <2>1. HasFilled(p, c, h)'
    BY <1>1, <1>3, FilledStays
  <2> QED
    BY <1>1, <1>2, <1>3, <2>1 DEF Fills
<1>4. CASE \E j \in 1 .. n : /\ stream[j] = Op("decode", p, c, h)
                             /\ \A k \in j .. n : Keeps(k, p, c, h)
  <2>1. PICK j \in 1 .. n : /\ stream[j] = Op("decode", p, c, h)
                            /\ \A k \in j .. n : Keeps(k, p, c, h)
    BY <1>4
  <2>2. CASE j = 1
    <3>1. HasFilled(p, c, h)'
      BY <1>1, <2>1, <2>2, FilledStays
    <3>2. \A k \in 1 .. n - 1 : Keeps(k, p, c, h)'
      BY <1>1, <1>2, <2>1, <2>2
    <3> QED
      BY <3>1, <3>2 DEF Fills
  <2>3. CASE j # 1
    <3>1. j - 1 \in 1 .. n - 1 /\ stream'[j - 1] = Op("decode", p, c, h)
      BY <1>1, <2>1, <2>3
    <3>2. ASSUME NEW k \in j - 1 .. n - 1
          PROVE  Keeps(k, p, c, h)'
      <4>1. k \in 1 .. n - 1 /\ k + 1 \in j .. n
        BY <1>1, <2>1, <2>3, <3>2
      <4> QED
        BY <1>2, <2>1, <4>1
    <3> QED
      BY <3>1, <3>2 DEF Fills
  <2> QED
    BY <2>2, <2>3
<1> QED
  BY <1>3, <1>4 DEF Fills

\* The combines when an operation is enqueued.
LEMMA OrderGrows ==
    ASSUME stream \in Seq(WfOps), NEW o \in WfOps, stream' = Append(stream, o),
           output' = output
    PROVE  /\ \A c : Combined(c) => Combined(c)'
           /\ \A c : o.op = "combine" /\ o.call = c => Combined(c)'
           /\ \A c : Uncombined(c) /\ ~(o.op = "combine" /\ o.call = c) => Uncombined(c)'
           /\ CombinedOnce /\ (o.op = "combine" => Uncombined(o.call)) => CombinedOnce'
<1> DEFINE n == Len(stream)
<1>1. /\ n \in Nat /\ Len(stream') = n + 1
      /\ \A i \in 1 .. n : i \in 1 .. Len(stream') /\ stream'[i] = stream[i]
      /\ stream'[n + 1] = o /\ n + 1 \in 1 .. Len(stream')
      /\ \A i \in 1 .. Len(stream') : i \in 1 .. n \/ i = n + 1
  BY StreamGrows
<1>2. \A c : Combined(c) => Combined(c)'
  BY <1>1 DEF Combined, Combines
<1>3. \A c : o.op = "combine" /\ o.call = c => Combined(c)'
  BY <1>1 DEF Combined, Combines
<1>4. \A c : Uncombined(c) /\ ~(o.op = "combine" /\ o.call = c) => Uncombined(c)'
  BY <1>1 DEF Uncombined, Combines
<1>5. ASSUME CombinedOnce, o.op = "combine" => Uncombined(o.call)
      PROVE  CombinedOnce'
  <2>1. ASSUME NEW i \in 1 .. n + 1, NEW j \in 1 .. n + 1, NEW c \in Calls,
               Combines(i, c)', Combines(j, c)'
        PROVE  i = j
    <3>1. CASE i \in 1 .. n /\ j \in 1 .. n
      BY <1>1, <1>5, <2>1, <3>1 DEF CombinedOnce, Combines
    <3>2. CASE i = n + 1 /\ j \in 1 .. n
      BY <1>1, <1>5, <2>1, <3>2 DEF Combines, Uncombined
    <3>3. CASE j = n + 1 /\ i \in 1 .. n
      BY <1>1, <1>5, <2>1, <3>3 DEF Combines, Uncombined
    <3> QED
      BY <1>1, <3>1, <3>2, <3>3
  <2>2. \A i \in 1 .. n + 1 : stream'[i].op = "combine" => output'[stream'[i].call] = "unwritten"
    BY <1>1, <1>5 DEF CombinedOnce, Uncombined
  <2> QED
    BY <1>1, <2>1, <2>2 DEF CombinedOnce
<1> QED
  BY <1>2, <1>3, <1>4, <1>5

\* The combines when the head is executed.
LEMMA OrderShrinks ==
    ASSUME Shape, CombinedOnce, stream # <<>>, stream' = Tail(stream),
           LET o == Head(stream)
           IN  \/ o.op # "combine" /\ output' = output
               \/ /\ o.op = "combine"
                  /\ \E v : output' = [output EXCEPT ![o.call] = v]
    PROVE  /\ CombinedOnce'
           /\ \A c \in Calls : Uncombined(c) => Uncombined(c)'
           /\ \A c \in Calls : Combined(c) /\ (Combines(1, c) => output'[c] = "own") => Combined(c)'
<1> DEFINE n == Len(stream)
           o == Head(stream)
<1>1. /\ n \in Nat /\ n >= 1 /\ Len(stream') = n - 1
      /\ \A i \in 1 .. Len(stream') : i + 1 \in 1 .. n /\ stream'[i] = stream[i + 1]
      /\ o = stream[1] /\ o \in WfOps /\ 1 \in 1 .. n
  BY StreamShrinks DEF Shape
<1>2. \A c \in Calls : ~Combines(1, c) => output'[c] = output[c]
  BY <1>1, Operations DEF Combines, Shape
<1>3. ASSUME NEW c \in Calls, Uncombined(c)
      PROVE  Uncombined(c)'
  BY <1>1, <1>2, <1>3 DEF Uncombined, Combines
<1>4. ASSUME NEW c \in Calls, Combined(c), Combines(1, c) => output'[c] = "own"
      PROVE  Combined(c)'
  <2>1. CASE Combines(1, c)
    BY <1>4, <2>1 DEF Combined
  <2>2. CASE ~Combines(1, c) /\ output[c] = "own"
    BY <1>2, <2>2 DEF Combined
  <2>3. CASE ~Combines(1, c) /\ \E i \in 1 .. n : Combines(i, c)
    <3>1. PICK i \in 1 .. n : Combines(i, c) /\ i # 1
      BY <2>3
    <3>2. i - 1 \in 1 .. Len(stream') /\ stream'[i - 1] = stream[i]
      BY <1>1, <3>1
    <3> QED
      BY <3>1, <3>2 DEF Combined, Combines
  <2> QED
    BY <1>4, <2>1, <2>2, <2>3 DEF Combined
<1>5. ASSUME NEW i \in 1 .. n - 1, NEW j \in 1 .. n - 1, NEW c \in Calls,
             Combines(i, c)', Combines(j, c)'
      PROVE  i = j
  <2>1. i + 1 = j + 1
    BY <1>1, <1>5 DEF CombinedOnce, Combines
  <2> QED
    BY <2>1
<1>6. ASSUME NEW i \in 1 .. n - 1, stream'[i].op = "combine"
      PROVE  output'[stream'[i].call] = "unwritten"
  <2>1. /\ stream'[i] = stream[i + 1] /\ i + 1 \in 1 .. n
    BY <1>1
  <2>2. stream[i + 1] \in WfOps
    BY <2>1, ElementOfSeq DEF Shape
  <2>3. stream[i + 1].call \in Calls /\ Combines(i + 1, stream[i + 1].call)
    BY <1>6, <2>1, <2>2, Operations DEF Combines
  <2>4. ~Combines(1, stream[i + 1].call)
    BY <1>1, <2>1, <2>3 DEF CombinedOnce
  <2> QED
    BY <1>2, <1>6, <2>1, <2>3, <2>4 DEF CombinedOnce
<1>7. CombinedOnce'
  BY <1>1, <1>5, <1>6 DEF CombinedOnce
<1> QED
  BY <1>3, <1>4, <1>7

-----------------------------------------------------------------------------
(* Lemmas about threads.                                                   *)

\* What a thread does next, and what is left then.
LEMMA NextLaunch ==
    ASSUME ThreadsOK, NEW t \in Threads, th[t].todo # <<>>
    PROVE  LET o == Head(th[t].todo)
               left == Tail(th[t].todo)
           IN  /\ o \in WfOps /\ left \in Seq(WfOps)
               /\ th[t].plan \in Plans /\ o.plan = th[t].plan /\ o.call = th[t].call
               /\ o.op # "free" /\ Touches(o) = {th[t].plan, th[t].call} \ {None}
               /\ IsPlanning(t) \/ IsDecoding(t)
               /\ IsPlanning(t) => o = Meta(th[t].plan) /\ left = <<>>
               /\ IsDecoding(t) =>
                      /\ Len(left) = Len(th[t].todo) - 1 /\ Len(th[t].todo) \in Nat
                      /\ left = <<>> => o = Op("combine", th[t].plan, th[t].call, 0)
                      /\ left # <<>> => /\ Halves + 1 - Len(left) \in 1 .. Halves
                                        /\ o = Op("decode", th[t].plan, th[t].call,
                                                  Halves + 1 - Len(left))
                      /\ \A i \in 1 .. Len(left) :
                             left[i] = Kernels(th[t].plan, th[t].call)[Halves + 1 - Len(left) + i]
<1> DEFINE todo == th[t].todo
           o == Head(todo)
           left == Tail(todo)
           n == Len(todo)
<1>1. /\ todo \in Seq(WfOps) /\ n \in Nat /\ n >= 1
      /\ o = todo[1] /\ o \in WfOps /\ left \in Seq(WfOps) /\ Len(left) = n - 1
      /\ \A i \in 1 .. n - 1 : left[i] = todo[i + 1]
  <2>1. todo \in Seq(WfOps)
    BY DEF ThreadsOK
  <2> QED
    BY <2>1, Tailed
<1>2. IsPlanning(t) \/ IsDecoding(t)
  BY DEF ThreadsOK, Idle
<1>3. ASSUME IsPlanning(t)
      PROVE  o = Meta(th[t].plan) /\ left = <<>> /\ th[t].plan \in Plans /\ th[t].call = None
  <2>1. todo = <<Meta(th[t].plan)>> /\ th[t].plan \in Plans /\ th[t].call = None
    BY <1>3 DEF IsPlanning
  <2>2. Len(todo) = 1 /\ todo[1] = Meta(th[t].plan)
    BY <2>1
  <2>3. n = 1
    BY <2>2
  <2>4. left = <<>>
    <3> HIDE DEF n, left
    <3> QED
      BY <1>1, <2>3, EmptySeq
  <2> QED
    BY <1>1, <2>1, <2>2, <2>4
<1>4. ASSUME IsDecoding(t)
      PROVE  /\ th[t].plan \in Plans /\ th[t].call \in Calls
             /\ left = <<>> => o = Op("combine", th[t].plan, th[t].call, 0)
             /\ left # <<>> => /\ Halves + 1 - Len(left) \in 1 .. Halves
                               /\ o = Op("decode", th[t].plan, th[t].call, Halves + 1 - Len(left))
             /\ \A i \in 1 .. Len(left) :
                    left[i] = Kernels(th[t].plan, th[t].call)[Halves + 1 - Len(left) + i]
  <2> DEFINE k == Kernels(th[t].plan, th[t].call)
  <2>1. /\ th[t].plan \in Plans /\ th[t].call \in Calls /\ n <= Halves + 1
        /\ \A i \in 1 .. n : todo[i] = k[Halves + 1 - n + i]
    BY <1>4 DEF IsDecoding
  <2>2. Halves \in Nat /\ Halves >= 1
    BY StreamAssumption
  <2>3. /\ \A h \in 1 .. Halves : k[h] = Op("decode", th[t].plan, th[t].call, h)
        /\ k[Halves + 1] = Op("combine", th[t].plan, th[t].call, 0)
    BY <2>1, KernelsOfACall
  <2> HIDE DEF k, todo, left, o, n
  <2>4. o = k[Halves + 1 - Len(left)]
    <3>1. 1 \in 1 .. n /\ Halves + 1 - n + 1 = Halves + 1 - Len(left)
      BY <1>1, <2>2
    <3> QED
      BY <1>1, <2>1, <3>1
  <2>5. left = <<>> => Len(left) = 0
    BY <1>1, EmptySeq
  <2>6. left # <<>> => Len(left) >= 1
    BY <1>1, EmptySeq
  <2>7. left # <<>> => Halves + 1 - Len(left) \in 1 .. Halves
    BY <1>1, <2>1, <2>2, <2>6
  <2>8. ASSUME NEW i \in 1 .. Len(left)
        PROVE  left[i] = k[Halves + 1 - Len(left) + i]
    <3>1. i + 1 \in 1 .. n /\ Halves + 1 - n + (i + 1) = Halves + 1 - Len(left) + i
      BY <1>1, <2>2
    <3> QED
      BY <1>1, <2>1, <3>1
  <2>9. left = <<>> => Halves + 1 - Len(left) = Halves + 1
    BY <2>2, <2>5
  <2> QED
    BY <2>1, <2>3, <2>4, <2>7, <2>8, <2>9 DEF k
<1>5. o.op # "free"
  BY <1>2, <1>3, <1>4 DEF Meta, Op
<1>6. o.plan = th[t].plan /\ o.call = th[t].call
  BY <1>2, <1>3, <1>4 DEF Meta, Op
<1> QED
  BY <1>1, <1>2, <1>3, <1>4, <1>5, <1>6 DEF Touches

\* What a thread holds, by what it does.
LEMMA ThreadState ==
    ASSUME ThreadsOK, NEW t \in Threads
    PROVE  /\ th[t] = Idle => th[t].plan = None /\ th[t].call = None /\ th[t].todo = <<>>
           /\ th[t].plan # None => IsPlanning(t) \/ IsDecoding(t)
           /\ th[t].call # None => IsDecoding(t)
           /\ IsPlanning(t) => /\ th[t].plan \in Plans /\ th[t].call = None
                               /\ plan[th[t].plan] = "planning"
           /\ IsDecoding(t) => /\ th[t].plan \in Plans /\ th[t].call \in Calls
                               /\ th[t].call # None
                               /\ plan[th[t].plan] = "live" /\ status[th[t].call] = "running"
           /\ ~(IsPlanning(t) /\ IsDecoding(t))
<1>1. None \notin Plans /\ None \notin Calls
  BY StreamAssumption
<1>2. th[t] = Idle \/ IsPlanning(t) \/ IsDecoding(t)
  BY DEF ThreadsOK
<1>3. th[t] = Idle => th[t].plan = None /\ th[t].call = None /\ th[t].todo = <<>>
  BY DEF Idle
<1>4. IsPlanning(t) => /\ th[t].plan \in Plans /\ th[t].call = None
                       /\ plan[th[t].plan] = "planning"
  BY DEF IsPlanning
<1>5. IsDecoding(t) => /\ th[t].plan \in Plans /\ th[t].call \in Calls
                       /\ plan[th[t].plan] = "live" /\ status[th[t].call] = "running"
  BY DEF IsDecoding
<1> QED
  BY <1>1, <1>2, <1>3, <1>4, <1>5

\* A step of thread t leaves the others as they were.
LEMMA OtherThreads ==
    ASSUME ThreadsOK, NEW u \in Threads, th'[u] = th[u],
           IsPlanning(u) \/ IsPlanning(u)' => plan'[th[u].plan] = plan[th[u].plan],
           IsDecoding(u) \/ IsDecoding(u)' => /\ plan'[th[u].plan] = plan[th[u].plan]
                                             /\ status'[th[u].call] = status[th[u].call]
    PROVE  /\ IsPlanning(u)' <=> IsPlanning(u)
           /\ IsDecoding(u)' <=> IsDecoding(u)
BY DEF IsPlanning, IsDecoding, Kernels

\* A launch, made or failed, takes one operation off the thread's list.
LEMMA Launched ==
    ASSUME ThreadsOK, BorrowsOK, NEW t \in Threads, th[t].todo # <<>>,
           th' = [th EXCEPT ![t] = Busy(Tail(th[t].todo), th[t].plan, th[t].call)],
           plan' = plan, status' = status
    PROVE  /\ ThreadsOK' /\ BorrowsOK'
           /\ th'[t].todo = Tail(th[t].todo)
           /\ \A u \in Threads :
                  /\ th'[u].plan = th[u].plan /\ th'[u].call = th[u].call
                  /\ u # t => th'[u] = th[u]
                  /\ IsPlanning(u)' <=> IsPlanning(u)
                  /\ IsDecoding(u)' <=> IsDecoding(u)
<1> DEFINE left == Tail(th[t].todo)
<1>1. /\ left \in Seq(WfOps)
      /\ IsPlanning(t) \/ IsDecoding(t)
      /\ IsPlanning(t) => left = <<>>
      /\ IsDecoding(t) =>
             /\ Len(left) = Len(th[t].todo) - 1 /\ Len(th[t].todo) \in Nat
             /\ \A i \in 1 .. Len(left) :
                    left[i] = Kernels(th[t].plan, th[t].call)[Halves + 1 - Len(left) + i]
  BY NextLaunch
<1> HIDE DEF left
<1>2. /\ th'[t] = Busy(left, th[t].plan, th[t].call)
      /\ \A u \in Threads : u # t => th'[u] = th[u]
  BY DEF ThreadsOK, left
<1>3. th'[t].todo = left /\ th'[t].plan = th[t].plan /\ th'[t].call = th[t].call
  BY <1>2 DEF Busy
<1>4. \A u \in Threads : u # t => /\ IsPlanning(u)' <=> IsPlanning(u)
                                  /\ IsDecoding(u)' <=> IsDecoding(u)
  BY <1>2, OtherThreads
<1>5. IsPlanning(t) => IsPlanning(t)'
  BY <1>1, <1>3 DEF IsPlanning
<1>6. IsDecoding(t) => IsDecoding(t)'
  <2> SUFFICES ASSUME IsDecoding(t)
               PROVE  IsDecoding(t)'
    OBVIOUS
  <2>1. Len(left) <= Halves + 1
    <3>1. Halves \in Nat /\ Len(th[t].todo) <= Halves + 1
      BY StreamAssumption DEF IsDecoding
    <3>2. Len(left) = Len(th[t].todo) - 1 /\ Len(th[t].todo) \in Nat
      BY <1>1
    <3> QED
      BY <3>1, <3>2
  <2> QED
    BY <1>1, <1>3, <2>1 DEF IsDecoding, Kernels
<1>7. /\ IsPlanning(t)' <=> IsPlanning(t)
      /\ IsDecoding(t)' <=> IsDecoding(t)
  <2>1. ~(IsPlanning(t) /\ IsDecoding(t)) /\ ~(IsPlanning(t)' /\ IsDecoding(t)')
    BY StreamAssumption DEF IsPlanning, IsDecoding
  <2> QED
    BY <1>1, <1>5, <1>6, <2>1
<1>8. th' \in [Threads -> [todo : Seq(WfOps), plan : Plans \cup {None}, call : Calls \cup {None}]]
  BY <1>1 DEF ThreadsOK, Busy, left
<1>9. ThreadsOK'
  <2>1. ASSUME NEW u \in Threads
        PROVE  (th[u] = Idle \/ IsPlanning(u) \/ IsDecoding(u))'
    BY <1>1, <1>2, <1>4, <1>5, <1>6 DEF ThreadsOK, Idle
  <2> QED
    BY <1>8, <2>1 DEF ThreadsOK
<1>10. BorrowsOK'
  <2>1. \A u \in Threads : th'[u].plan = th[u].plan /\ th'[u].call = th[u].call
    BY <1>2, <1>3
  <2> QED
    BY <2>1 DEF BorrowsOK
<1> QED
  BY <1>2, <1>3, <1>4, <1>7, <1>9, <1>10 DEF left

\* A buffer that a call in progress uses is not dropped.
LEMMA HeldIsNotGone ==
    ASSUME ThreadsOK, NEW t \in Threads, NEW b,
           b # None, b \in {th[t].plan, th[t].call}
    PROVE  ~Gone(b)
BY ThreadState, StreamAssumption DEF Gone

-----------------------------------------------------------------------------
(* Every action preserves the invariant.                                   *)

\* A launch continues what its thread began, on the plan it has borrowed.
LEMMA LaunchStep ==
    ASSUME IInv, NEW t \in Threads, Launch(t)
    PROVE  IInv'
<1>0. PICK o, p, c, n, left :
          /\ o = Head(th[t].todo) /\ left = Tail(th[t].todo)
          /\ p = th[t].plan /\ c = th[t].call /\ n = Len(stream)
  OBVIOUS
<1>1. /\ Shape /\ ThreadsOK /\ BorrowsOK /\ FreesOK /\ MetaOK /\ RowsOK /\ OrderOK
      /\ stream \in Seq(WfOps)
  BY DEF IInv, Shape
<1>2. /\ th[t].todo # <<>> /\ stream' = Append(stream, o)
      /\ th' = [th EXCEPT ![t] = Busy(left, p, c)]
      /\ UNCHANGED <<pending, plan, status, before, sched, rows, wrote, output, freed>>
  BY <1>0 DEF Launch, device
<1>3. /\ o \in WfOps /\ p \in Plans /\ o.plan = p /\ o.call = c
      /\ o.op # "free" /\ Touches(o) = {p, c} \ {None}
      /\ IsPlanning(t) \/ IsDecoding(t)
      /\ IsPlanning(t) => o = Meta(p) /\ left = <<>>
      /\ IsDecoding(t) =>
             /\ Len(left) = Len(th[t].todo) - 1 /\ Len(th[t].todo) \in Nat
             /\ left = <<>> => o = Op("combine", p, c, 0)
             /\ left # <<>> =>
                    /\ Halves + 1 - Len(left) \in 1 .. Halves
                    /\ o = Op("decode", p, c, Halves + 1 - Len(left))
  BY <1>0, <1>1, <1>2, NextLaunch
<1>4. /\ ThreadsOK' /\ BorrowsOK'
      /\ th'[t].todo = left
      /\ \A u \in Threads :
             /\ th'[u].plan = th[u].plan /\ th'[u].call = th[u].call
             /\ u # t => th'[u] = th[u]
             /\ IsPlanning(u)' <=> IsPlanning(u)
             /\ IsDecoding(u)' <=> IsDecoding(u)
  BY <1>0, <1>1, <1>2, Launched
<1>5. /\ n \in Nat /\ Len(stream') = n + 1 /\ stream' \in Seq(WfOps)
      /\ \A i \in 1 .. n : stream'[i] = stream[i] /\ stream[i] \in WfOps
      /\ stream'[n + 1] = o
      /\ \A i \in 1 .. n + 1 : i \in 1 .. n \/ i = n + 1
  BY <1>0, <1>1, <1>2, <1>3, StreamGrows
<1>6. /\ IsPlanning(t) => o.op = "meta" /\ c = None
      /\ IsDecoding(t) => /\ o.op \in {"decode", "combine"} /\ c \in Calls
                          /\ plan[p] = "live" /\ status[c] = "running"
  BY <1>0, <1>1, <1>3, MetaOps, ThreadState DEF Op
<1>7. Shape'
  BY <1>1, <1>2, <1>5 DEF Shape, Schedules, RowIds
<1>8. FreesOK'
  <2>1. \A b \in Touches(o) : ~Gone(b)
    BY <1>0, <1>1, <1>3, HeldIsNotGone
  <2>2. \A b : Gone(b) => Gone(b)'
    BY <1>2 DEF Gone
  <2> QED
    BY <1>1, <1>2, <1>3, <2>1, <2>2, FreesGrow
<1>9. MetaOK'
  <2>1. o.op = "meta" => Untouched(o.plan)
    BY <1>0, <1>1, <1>2, <1>3, <1>6 DEF MetaOK
  <2>2. o.op = "decode" => Scheduled(o.plan)
    BY <1>1, <1>3, <1>6 DEF MetaOK
  <2>3. /\ MetaFirst' /\ MetaPending' /\ DecodesScheduled'
        /\ \A q : Scheduled(q) => Scheduled(q)'
        /\ \A q : Untouched(q) /\ o.plan # q => Untouched(q)'
        /\ \A q : o = Meta(q) => Scheduled(q)'
    BY <1>1, <1>2, <1>3, <2>1, <2>2, MetaGrows
  <2>4. \A q \in Plans : plan'[q] = "live" => Scheduled(q)'
    BY <1>1, <1>2, <2>3 DEF MetaOK
  <2>5. \A q \in Plans : plan'[q] = "none" => Untouched(q)'
    <3>1. plan[p] # "none"
      BY <1>0, <1>1, <1>3, ThreadState
    <3> QED
      BY <1>1, <1>2, <1>3, <2>3, <3>1 DEF MetaOK
  <2>6. ASSUME NEW u \in Threads, IsPlanning(u)'
        PROVE  /\ th'[u].todo # <<>> => Untouched(th[u].plan)'
               /\ th'[u].todo = <<>> /\ ~pending'[u] => Scheduled(th[u].plan)'
    <3>1. CASE u = t
      <4>1. o = Meta(p) /\ th'[t].todo = <<>> /\ th'[t].plan = p
        BY <1>0, <1>3, <1>4, <2>6, <3>1
      <4> QED
        BY <2>3, <3>1, <4>1
    <3>2. CASE u # t
      <4>1. th'[u] = th[u] /\ IsPlanning(u) /\ th[u].plan # p
        BY <1>0, <1>1, <1>3, <1>4, <2>6, <3>2, ThreadState, StreamAssumption DEF BorrowsOK
      <4> QED
        BY <1>1, <1>2, <1>3, <2>3, <4>1 DEF MetaOK
    <3> QED
      BY <3>1, <3>2
  <2> QED
    BY <2>3, <2>4, <2>5, <2>6 DEF MetaOK
<1>10. \A d : Sound(d)' <=> Sound(d)
  BY <1>2, <1>4 DEF Sound
<1>11. RowsOK'
  <2>1. ASSUME NEW i \in 1 .. n + 1, stream'[i].op = "combine", Sound(stream[i].call)',
               NEW h \in 1 .. Halves
        PROVE  Fills(stream[i].plan, stream[i].call, h, i - 1)'
    <3>1. CASE i \in 1 .. n
      <4>1. Fills(stream[i].plan, stream[i].call, h, i - 1)
        BY <1>0, <1>1, <1>5, <1>10, <2>1, <3>1 DEF RowsOK
      <4>2. i - 1 \in 0 .. Len(stream)
        BY <1>0, <1>5, <3>1
      <4> QED
        BY <1>1, <1>2, <1>3, <1>5, <3>1, <4>1, <4>2, FillsGrow
    <3>2. CASE i = n + 1
      <4>1. IsDecoding(t) /\ left = <<>> /\ Len(th[t].todo) = 1
        <5>1. o.op = "combine" /\ IsDecoding(t)
          BY <1>3, <1>5, <1>6, <2>1, <3>2
        <5>2. left = <<>>
          BY <1>3, <5>1 DEF Op
        <5>3. Len(left) = 0
          BY <5>2
        <5> QED
          BY <1>3, <5>1, <5>2, <5>3
      <4>2. ~pending[t]
        <5>1. Sound(c)
          BY <1>3, <1>5, <1>10, <2>1, <3>2
        <5>2. PICK u \in Threads : th[u].call = c /\ ~pending[u]
          BY <1>6, <4>1, <5>1 DEF Sound
        <5>3. u = t
          BY <1>0, <1>1, <1>6, <4>1, <5>2, StreamAssumption DEF BorrowsOK
        <5> QED
          BY <5>2, <5>3
      <4>3. Fills(p, c, h, n)
        <5>1. Halves \in Nat /\ h + Len(th[t].todo) <= Halves + 1
          BY <4>1, StreamAssumption
        <5> QED
          BY <1>0, <1>1, <4>1, <4>2, <5>1 DEF RowsOK
      <4>4. Fills(p, c, h, n)'
        BY <1>0, <1>1, <1>2, <1>3, <1>5, <4>3, FillsGrow
      <4> QED
        BY <1>3, <1>5, <3>2, <4>4
    <3> QED
      BY <1>5, <3>1, <3>2
  <2>2. ASSUME NEW u \in Threads, IsDecoding(u)', ~pending'[u], NEW h \in 1 .. Halves,
               h + Len(th'[u].todo) <= Halves + 1
        PROVE  Fills(th[u].plan, th[u].call, h, Len(stream))'
    <3>1. IsDecoding(u) /\ ~pending[u] /\ th'[u].plan = th[u].plan /\ th'[u].call = th[u].call
      BY <1>2, <1>4, <2>2
    <3>2. CASE u # t
      <4>1. th'[u] = th[u] /\ th[u].plan # p
        BY <1>0, <1>1, <1>3, <1>4, <3>1, <3>2, ThreadState, StreamAssumption DEF BorrowsOK
      <4>2. Fills(th[u].plan, th[u].call, h, Len(stream))
        BY <1>1, <2>2, <3>1, <4>1 DEF RowsOK
      <4>3. \A q, d : q # p /\ Fills(q, d, h, Len(stream)) => Fills(q, d, h, Len(stream))'
        BY <1>1, <1>2, <1>3, FillsLast
      <4> QED
        BY <3>1, <4>1, <4>2, <4>3
    <3>3. CASE u = t
      <4>1. /\ Len(left) \in Nat /\ Len(th[t].todo) = Len(left) + 1
            /\ h + Len(left) <= Halves + 1
        BY <1>3, <1>4, <2>2, <3>1, <3>3, LenProperties, NextLaunch
      <4>2. CASE left # <<>> /\ h = Halves + 1 - Len(left)
        <5>1. o = Op("decode", p, c, h)
          BY <1>3, <3>1, <3>3, <4>2
        <5>2. Fills(p, c, h, Len(stream))'
          BY <1>1, <1>2, <1>3, <5>1, FillsNew
        <5> QED
          BY <1>0, <3>1, <3>3, <5>2
      <4>3. CASE left = <<>> \/ h # Halves + 1 - Len(left)
        <5>1. h + Len(th[t].todo) <= Halves + 1
          <6>1. left = <<>> => Len(left) = 0
            BY EmptySeq
          <6> QED
            BY <4>1, <4>3, <6>1, StreamAssumption
        <5>2. Fills(p, c, h, Len(stream))
          BY <1>0, <1>1, <3>1, <3>3, <5>1 DEF RowsOK
        <5>3. Fills(p, c, h, Len(stream))'
          BY <1>1, <1>2, <1>3, <5>2, FillsLast
        <5> QED
          BY <1>0, <3>1, <3>3, <5>3
      <4> QED
        BY <4>2, <4>3
    <3> QED
      BY <3>2, <3>3
  <2>3. \A d \in Calls : Sound(d)' => output'[d] # "garbage"
    BY <1>1, <1>2, <1>10 DEF RowsOK
  <2> QED
    BY <1>5, <2>1, <2>2, <2>3 DEF RowsOK
<1>12. OrderOK'
  <2>1. o.op = "combine" => /\ IsDecoding(t) /\ c \in Calls /\ Uncombined(c)
                            /\ status[c] = "running"
    BY <1>0, <1>1, <1>2, <1>6, <1>3 DEF OrderOK, CallsOK
  <2>2. /\ \A d : Combined(d) => Combined(d)'
        /\ \A d : o.op = "combine" /\ o.call = d => Combined(d)'
        /\ \A d : Uncombined(d) /\ ~(o.op = "combine" /\ o.call = d) => Uncombined(d)'
        /\ CombinedOnce'
    BY <1>1, <1>2, <1>3, <2>1, OrderGrows DEF OrderOK
  <2>3. NewOK'
    <3> SUFFICES ASSUME NEW d \in Calls, status'[d] = "new"
                 PROVE  (Uncombined(d) /\ \A i \in 1 .. Len(stream) : stream[i].call # d)'
      BY DEF NewOK
    <3>1. d # c /\ status[d] = "new"
      BY <1>2, <1>3, <1>6, StreamAssumption
    <3>2. Uncombined(d) /\ \A i \in 1 .. n : stream[i].call # d
      BY <1>0, <1>1, <3>1 DEF OrderOK, NewOK
    <3> QED
      BY <1>3, <1>5, <2>2, <3>1, <3>2
  <2>4. BeforeOK'
    <3> SUFFICES ASSUME NEW d \in Calls, NEW e \in before[d]
                 PROVE  /\ status[e] \in {"ok", "dropped"}
                        /\ \A i, j \in 1 .. n + 1 : Combines(i, e)' /\ Combines(j, d)' => i < j
      BY <1>2, <1>5 DEF BeforeOK
    <3>1. /\ status[e] \in {"ok", "dropped"}
          /\ \A i, j \in 1 .. n : Combines(i, e) /\ Combines(j, d) => i < j
      BY <1>0, <1>1 DEF OrderOK, BeforeOK
    <3>2. ~Combines(n + 1, e)'
      BY <1>3, <1>5, <2>1, <3>1 DEF Combines
    <3> QED
      BY <1>5, <3>1, <3>2 DEF Combines
  <2>5. CallsOK'
    <3>1. ASSUME NEW u \in Threads, IsDecoding(u)'
          PROVE  /\ th'[u].todo # <<>> => Uncombined(th[u].call)'
                 /\ th'[u].todo = <<>> /\ ~pending'[u] => Combined(th[u].call)'
      <4>1. IsDecoding(u) /\ th'[u].call = th[u].call
        BY <1>4, <3>1
      <4>2. CASE u = t
        <5>1. Uncombined(c)
          BY <1>0, <1>1, <1>2, <4>1, <4>2 DEF OrderOK, CallsOK
        <5>2. th'[t].todo # <<>> => o.op # "combine"
          BY <1>3, <1>4, <4>1, <4>2 DEF Op
        <5>3. th'[t].todo = <<>> => o.op = "combine"
          BY <1>3, <1>4, <4>1, <4>2 DEF Op
        <5> QED
          BY <1>0, <1>3, <2>2, <4>1, <4>2, <5>1, <5>2, <5>3
      <4>3. CASE u # t
        <5>1. th'[u] = th[u] /\ th[u].call # c
          BY <1>0, <1>1, <1>4, <4>1, <4>3, ThreadState DEF BorrowsOK
        <5>2. /\ th[u].todo # <<>> => Uncombined(th[u].call)
              /\ th[u].todo = <<>> /\ ~pending[u] => Combined(th[u].call)
          BY <1>1, <4>1 DEF OrderOK, CallsOK
        <5> QED
          BY <1>2, <1>3, <2>2, <5>1, <5>2
      <4> QED
        BY <4>2, <4>3
    <3>2. \A d \in Calls : status'[d] \in {"ok", "dropped"} => Combined(d)'
      BY <1>1, <1>2, <2>2 DEF OrderOK, CallsOK
    <3> QED
      BY <3>1, <3>2 DEF CallsOK
  <2> QED
    BY <2>2, <2>3, <2>4, <2>5 DEF OrderOK
<1> QED
  BY <1>4, <1>7, <1>8, <1>9, <1>11, <1>12 DEF IInv

\* A failed launch makes the call one that cannot succeed.
LEMMA LaunchFailsStep ==
    ASSUME IInv, NEW t \in Threads, LaunchFails(t)
    PROVE  IInv'
<1>1. /\ Shape /\ ThreadsOK /\ BorrowsOK /\ FreesOK /\ MetaOK /\ RowsOK /\ OrderOK
  BY DEF IInv
<1>2. /\ th[t].todo # <<>>
      /\ th' = [th EXCEPT ![t] = Busy(Tail(th[t].todo), th[t].plan, th[t].call)]
      /\ pending' = [pending EXCEPT ![t] = TRUE]
      /\ UNCHANGED <<stream, plan, status, before, sched, rows, wrote, output, freed>>
  BY DEF LaunchFails, device
<1>3. /\ ThreadsOK' /\ BorrowsOK'
      /\ \A u \in Threads :
             /\ th'[u].plan = th[u].plan /\ th'[u].call = th[u].call
             /\ u # t => th'[u] = th[u]
             /\ IsPlanning(u)' <=> IsPlanning(u)
             /\ IsDecoding(u)' <=> IsDecoding(u)
  BY <1>1, <1>2, Launched
<1>4. /\ pending'[t] = TRUE
      /\ \A u \in Threads : u # t => pending'[u] = pending[u]
      /\ pending' \in [Threads -> BOOLEAN]
  BY <1>1, <1>2 DEF Shape
<1>5. IsPlanning(t) => th'[t].todo = <<>>
  BY <1>1, <1>2, NextLaunch DEF ThreadsOK, Busy
<1>6. Shape'
  BY <1>1, <1>2, <1>4 DEF Shape, Schedules, RowIds
<1>7. FreesOK'
  <2>1. \A b : Gone(b)' <=> Gone(b)
    BY <1>2 DEF Gone
  <2> QED
    BY <1>1, <1>2, <2>1 DEF FreesOK, Touches
<1>8. \A q : (Scheduled(q)' <=> Scheduled(q)) /\ (Untouched(q)' <=> Untouched(q))
  BY <1>2 DEF Scheduled, Untouched
<1>9. MetaOK'
  <2>1. MetaFirst' /\ MetaPending' /\ DecodesScheduled'
    BY <1>1, <1>2, <1>8 DEF MetaOK, MetaFirst, MetaPending, DecodesScheduled
  <2>2. ASSUME NEW u \in Threads, IsPlanning(u)'
        PROVE  /\ th'[u].todo # <<>> => Untouched(th[u].plan)
               /\ th'[u].todo = <<>> /\ ~pending'[u] => Scheduled(th[u].plan)
    BY <1>1, <1>3, <1>4, <1>5, <2>2 DEF MetaOK
  <2> QED
    BY <1>1, <1>2, <1>3, <1>8, <2>1, <2>2 DEF MetaOK
<1>10. \A d : Sound(d)' => Sound(d)
  BY <1>2, <1>3, <1>4 DEF Sound
<1>11. \A q, d, h, n : Fills(q, d, h, n)' <=> Fills(q, d, h, n)
  BY <1>2 DEF Fills, Keeps, HasFilled
<1>12. RowsOK'
  <2>1. ASSUME NEW u \in Threads, IsDecoding(u)', ~pending'[u]
        PROVE  IsDecoding(u) /\ ~pending[u] /\ th'[u] = th[u]
    BY <1>3, <1>4, <2>1
  <2> QED
    BY <1>1, <1>2, <1>10, <1>11, <2>1 DEF RowsOK
<1>13. \A d : (Combined(d)' <=> Combined(d)) /\ (Uncombined(d)' <=> Uncombined(d))
  BY <1>2 DEF Combined, Uncombined, Combines
<1>14. OrderOK'
  <2>1. NewOK' /\ CombinedOnce' /\ BeforeOK'
    BY <1>1, <1>2, <1>13 DEF OrderOK, NewOK, CombinedOnce, BeforeOK, Combines
  <2>2. ASSUME NEW u \in Threads, IsDecoding(u)'
        PROVE  /\ th'[u].todo # <<>> => Uncombined(th[u].call)
               /\ th'[u].todo = <<>> /\ ~pending'[u] => Combined(th[u].call)
    BY <1>1, <1>2, <1>3, <1>4, <2>2 DEF OrderOK, CallsOK
  <2> QED
    BY <1>1, <1>2, <1>3, <1>13, <2>1, <2>2 DEF OrderOK, CallsOK
<1> QED
  BY <1>3, <1>6, <1>7, <1>9, <1>12, <1>14 DEF IInv

\* A plan begins without metadata.
LEMMA PlanBeginStep ==
    ASSUME IInv, NEW t \in Threads, NEW p \in Plans, PlanBegin(t, p)
    PROVE  IInv'
<1>1. /\ Shape /\ ThreadsOK /\ BorrowsOK /\ FreesOK /\ MetaOK /\ RowsOK /\ OrderOK
  BY DEF IInv
<1>2. /\ th[t] = Idle /\ plan[p] = "none"
      /\ plan' = [plan EXCEPT ![p] = "planning"]
      /\ th' = [th EXCEPT ![t] = Busy(<<Meta(p)>>, p, None)]
      /\ UNCHANGED <<stream, pending, status, before, sched, rows, wrote, output, freed>>
  BY DEF PlanBegin, device
<1>3. /\ th'[t] = Busy(<<Meta(p)>>, p, None)
      /\ \A u \in Threads : u # t => th'[u] = th[u]
      /\ plan'[p] = "planning" /\ \A q \in Plans : q # p => plan'[q] = plan[q]
  BY <1>1, <1>2 DEF ThreadsOK, Shape
<1>4. \A u \in Threads : th'[u].call = th[u].call
  BY <1>2, <1>3 DEF Busy, Idle
<1>5. \A u \in Threads : th[u].plan # p
  BY <1>1, <1>2, ThreadState, StreamAssumption
<1>6. /\ IsPlanning(t)' /\ ~IsDecoding(t)'
      /\ \A u \in Threads : u # t => /\ IsPlanning(u)' <=> IsPlanning(u)
                                     /\ IsDecoding(u)' <=> IsDecoding(u)
  <2>1. IsPlanning(t)' /\ ~IsDecoding(t)'
    BY <1>3, StreamAssumption DEF IsPlanning, IsDecoding, Busy
  <2>2. ASSUME NEW u \in Threads, u # t
        PROVE  /\ IsPlanning(u)' <=> IsPlanning(u)
               /\ IsDecoding(u)' <=> IsDecoding(u)
    <3>1. th'[u] = th[u] /\ (th[u].plan \in Plans => plan'[th[u].plan] = plan[th[u].plan])
      BY <1>3, <1>5, <2>2
    <3>2. IsPlanning(u) \/ IsPlanning(u)' \/ IsDecoding(u) \/ IsDecoding(u)' => th[u].plan \in Plans
      BY <3>1 DEF IsPlanning, IsDecoding
    <3> QED
      BY <1>1, <1>2, <3>1, <3>2, OtherThreads
  <2> QED
    BY <2>1, <2>2
<1>7. ThreadsOK'
  <2>1. <<Meta(p)>> \in Seq(WfOps)
    BY MetaOps
  <2>2. th' \in [Threads -> [todo : Seq(WfOps), plan : Plans \cup {None}, call : Calls \cup {None}]]
    BY <1>1, <1>2, <2>1 DEF ThreadsOK, Busy
  <2>3. \A u \in Threads : (th[u] = Idle \/ IsPlanning(u) \/ IsDecoding(u))'
    BY <1>1, <1>3, <1>6 DEF ThreadsOK, Idle
  <2> QED
    BY <2>2, <2>3 DEF ThreadsOK
<1>8. BorrowsOK'
  <2>1. th'[t].plan = p /\ th'[t].call = None
    BY <1>3 DEF Busy
  <2> QED
    BY <1>1, <1>3, <1>5, <2>1 DEF BorrowsOK
<1>9. Shape'
  BY <1>1, <1>2, <1>3 DEF Shape, Schedules, RowIds
<1>10. FreesOK'
  <2>1. \A b : Gone(b) => Gone(b)'
    BY <1>2, <1>3 DEF Gone
  <2> QED
    BY <1>1, <1>2, <2>1 DEF FreesOK, Touches
<1>11. \A q : (Scheduled(q)' <=> Scheduled(q)) /\ (Untouched(q)' <=> Untouched(q))
  BY <1>2 DEF Scheduled, Untouched
<1>12. MetaOK'
  <2>1. MetaFirst' /\ MetaPending' /\ DecodesScheduled'
    BY <1>1, <1>2, <1>11 DEF MetaOK, MetaFirst, MetaPending, DecodesScheduled
  <2>2. ASSUME NEW u \in Threads, IsPlanning(u)'
        PROVE  /\ th'[u].todo # <<>> => Untouched(th'[u].plan)
               /\ th'[u].todo = <<>> /\ ~pending'[u] => Scheduled(th'[u].plan)
    <3>1. th'[t].plan = p /\ th'[t].todo # <<>> /\ Untouched(p)
      BY <1>1, <1>2, <1>3 DEF Busy, MetaOK
    <3> QED
      BY <1>1, <1>2, <1>3, <1>6, <2>2, <3>1 DEF MetaOK
  <2>3. ASSUME NEW u \in Threads, IsPlanning(u)'
        PROVE  (/\ th[u].todo # <<>> => Untouched(th[u].plan)
                /\ th[u].todo = <<>> /\ ~pending[u] => Scheduled(th[u].plan))'
    BY <1>11, <2>2, <2>3
  <2>4. \A q \in Plans : /\ plan'[q] = "live" => Scheduled(q)'
                         /\ plan'[q] = "none" => Untouched(q)'
    BY <1>1, <1>3, <1>11 DEF MetaOK
  <2> QED
    BY <2>1, <2>3, <2>4 DEF MetaOK
<1>13. \A d : Sound(d)' <=> Sound(d)
  BY <1>2, <1>4 DEF Sound
<1>14. \A q, d, h, n : Fills(q, d, h, n)' <=> Fills(q, d, h, n)
  BY <1>2 DEF Fills, Keeps, HasFilled
<1>15. RowsOK'
  <2>1. \A u \in Threads : IsDecoding(u)' => IsDecoding(u) /\ th'[u] = th[u]
    BY <1>3, <1>6
  <2> QED
    BY <1>1, <1>2, <1>13, <1>14, <2>1 DEF RowsOK
<1>16. \A d : (Combined(d)' <=> Combined(d)) /\ (Uncombined(d)' <=> Uncombined(d))
  BY <1>2 DEF Combined, Uncombined, Combines
<1>17. OrderOK'
  <2>1. NewOK' /\ CombinedOnce' /\ BeforeOK'
    BY <1>1, <1>2, <1>16 DEF OrderOK, NewOK, CombinedOnce, BeforeOK, Combines
  <2>2. \A u \in Threads : IsDecoding(u)' => IsDecoding(u) /\ th'[u] = th[u]
    BY <1>3, <1>6
  <2> QED
    BY <1>1, <1>2, <1>16, <2>1, <2>2 DEF OrderOK, CallsOK
<1> QED
  BY <1>7, <1>8, <1>9, <1>10, <1>12, <1>15, <1>17 DEF IInv

\* A call begins with none of its operations on the stream.
LEMMA DecodeBeginStep ==
    ASSUME IInv, NEW t \in Threads, NEW p \in Plans, NEW c \in Calls, DecodeBegin(t, p, c)
    PROVE  IInv'
<1>1. /\ Shape /\ ThreadsOK /\ BorrowsOK /\ FreesOK /\ MetaOK /\ RowsOK /\ OrderOK
  BY DEF IInv
<1>2. /\ th[t] = Idle /\ plan[p] = "live" /\ status[c] = "new"
      /\ \A u \in Threads : th[u].plan # p
      /\ status' = [status EXCEPT ![c] = "running"]
      /\ before' = [before EXCEPT ![c] = {d \in Calls : status[d] \in {"ok", "dropped"}}]
      /\ th' = [th EXCEPT ![t] = Busy(Kernels(p, c), p, c)]
      /\ UNCHANGED <<stream, pending, plan, sched, rows, wrote, output, freed>>
  BY DEF DecodeBegin, device, Unborrowed
<1>3. /\ th'[t] = Busy(Kernels(p, c), p, c)
      /\ \A u \in Threads : u # t => th'[u] = th[u]
      /\ status'[c] = "running" /\ \A d \in Calls : d # c => status'[d] = status[d]
  BY <1>1, <1>2 DEF ThreadsOK, Shape
<1>4. /\ th'[t].todo = Kernels(p, c) /\ th'[t].plan = p /\ th'[t].call = c
      /\ th[t].call = None /\ th[t].plan = None
  BY <1>2, <1>3 DEF Busy, Idle
<1>5. /\ Kernels(p, c) \in Seq(WfOps) /\ Len(Kernels(p, c)) = Halves + 1
      /\ Halves \in Nat /\ Halves >= 1
      /\ Kernels(p, c) # <<>>
  BY KernelsOfACall, StreamAssumption, EmptySeq
<1>6. \A u \in Threads : th[u].call # c
  BY <1>1, <1>2, ThreadState, StreamAssumption
<1>7. /\ IsDecoding(t)' /\ ~IsPlanning(t)'
      /\ \A u \in Threads : u # t => /\ IsPlanning(u)' <=> IsPlanning(u)
                                     /\ IsDecoding(u)' <=> IsDecoding(u)
  <2>1. ~IsPlanning(t)'
    BY <1>4, StreamAssumption DEF IsPlanning
  <2>2. IsDecoding(t)'
    <3>1. \A i \in 1 .. Halves + 1 : Halves + 1 - (Halves + 1) + i = i
      BY <1>5
    <3>2. Len(th'[t].todo) = Halves + 1
      BY <1>4, <1>5
    <3>3. \A i \in 1 .. Halves + 1 : Kernels(p, c)[i] = Kernels(p, c)[Halves + 1 - (Halves + 1) + i]
      BY <3>1
    <3>4. \A i \in 1 .. Len(th'[t].todo) :
              th'[t].todo[i] = Kernels(p, c)[Halves + 1 - Len(th'[t].todo) + i]
      <4> DEFINE k == Kernels(p, c)
      <4>1. th'[t].todo = k
        BY <1>4
      <4> HIDE DEF k
      <4> QED
        BY <3>2, <3>3, <4>1 DEF k
    <3>5. Len(th'[t].todo) <= Halves + 1
      BY <1>5, <3>2
    <3>6. plan'[p] = "live" /\ status'[c] = "running"
      BY <1>2, <1>3
    <3>7. Kernels(th'[t].plan, th'[t].call) = Kernels(p, c)
      BY <1>4
    <3> QED
      BY <1>4, <3>4, <3>5, <3>6, <3>7 DEF IsDecoding, Kernels
  <2>3. ASSUME NEW u \in Threads, u # t
        PROVE  /\ IsPlanning(u)' <=> IsPlanning(u)
               /\ IsDecoding(u)' <=> IsDecoding(u)
    <3>1. th'[u] = th[u] /\ (th[u].call \in Calls => status'[th[u].call] = status[th[u].call])
      BY <1>3, <1>6, <2>3
    <3>2. IsDecoding(u) \/ IsDecoding(u)' => th[u].call \in Calls
      BY <3>1 DEF IsDecoding
    <3> QED
      BY <1>1, <1>2, <3>1, <3>2, OtherThreads
  <2> QED
    BY <2>1, <2>2, <2>3
<1>8. ThreadsOK'
  <2>1. th' \in [Threads -> [todo : Seq(WfOps), plan : Plans \cup {None}, call : Calls \cup {None}]]
    BY <1>1, <1>2, <1>5 DEF ThreadsOK, Busy
  <2>2. \A u \in Threads : (th[u] = Idle \/ IsPlanning(u) \/ IsDecoding(u))'
    BY <1>1, <1>3, <1>7 DEF ThreadsOK, Idle
  <2> QED
    BY <2>1, <2>2 DEF ThreadsOK
<1>9. BorrowsOK'
  BY <1>1, <1>2, <1>3, <1>4, <1>6 DEF BorrowsOK
<1>10. Shape'
  <2>1. before' \in [Calls -> SUBSET Calls]
    BY <1>1, <1>2 DEF Shape
  <2> QED
    BY <1>1, <1>2, <2>1 DEF Shape, Schedules, RowIds
<1>11. FreesOK'
  <2>1. \A b : Gone(b) => Gone(b)'
    BY <1>2, <1>3 DEF Gone
  <2> QED
    BY <1>1, <1>2, <2>1 DEF FreesOK, Touches
<1>12. \A q : (Scheduled(q)' <=> Scheduled(q)) /\ (Untouched(q)' <=> Untouched(q))
  BY <1>2 DEF Scheduled, Untouched
<1>13. MetaOK'
  <2>1. MetaFirst' /\ MetaPending' /\ DecodesScheduled'
    BY <1>1, <1>2, <1>12 DEF MetaOK, MetaFirst, MetaPending, DecodesScheduled
  <2>2. \A u \in Threads : IsPlanning(u)' => IsPlanning(u) /\ th'[u] = th[u]
    BY <1>3, <1>7
  <2> QED
    BY <1>1, <1>2, <1>12, <2>1, <2>2 DEF MetaOK
<1>14. \A d \in Calls : d # c => (Sound(d)' <=> Sound(d))
  <2> SUFFICES ASSUME NEW d \in Calls, d # c
               PROVE  Sound(d)' <=> Sound(d)
    OBVIOUS
  <2>1. status'[d] = status[d] /\ d # None
    BY <1>3, StreamAssumption
  <2> QED
    BY <1>2, <1>3, <1>4, <2>1 DEF Sound
<1>15. \A q, d, h, n : Fills(q, d, h, n)' <=> Fills(q, d, h, n)
  BY <1>2 DEF Fills, Keeps, HasFilled
<1>16. /\ Uncombined(c) /\ \A i \in 1 .. Len(stream) : stream[i].call # c
  BY <1>1, <1>2 DEF OrderOK, NewOK
<1>17. RowsOK'
  <2>1. \A i \in 1 .. Len(stream) : stream[i].op = "combine" /\ Sound(stream[i].call)' =>
            \A h \in 1 .. Halves : Fills(stream[i].plan, stream[i].call, h, i - 1)
    <3> SUFFICES ASSUME NEW i \in 1 .. Len(stream), stream[i].op = "combine",
                        Sound(stream[i].call)'
                 PROVE  Sound(stream[i].call)
      BY <1>1 DEF RowsOK
    <3>1. stream[i] \in WfOps
      BY <1>1, ElementOfSeq DEF Shape
    <3>2. stream[i].call \in Calls /\ stream[i].call # c
      BY <1>16, <3>1, Operations
    <3> QED
      BY <1>2, <1>14, <3>2
  <2>2. ASSUME NEW u \in Threads, IsDecoding(u)', ~pending'[u], NEW h \in 1 .. Halves,
               h + Len(th'[u].todo) <= Halves + 1
        PROVE  Fills(th'[u].plan, th'[u].call, h, Len(stream))
    <3>1. u # t
      <4>1. CASE u = t
        <5>1. h + (Halves + 1) <= Halves + 1
          BY <1>4, <1>5, <2>2, <4>1
        <5> QED
          BY <1>5, <5>1
      <4> QED
        BY <4>1
    <3>2. IsDecoding(u) /\ th'[u] = th[u]
      BY <1>3, <1>7, <2>2, <3>1
    <3> QED
      BY <1>1, <1>2, <2>2, <3>2 DEF RowsOK
  <2>3. \A d \in Calls : Sound(d)' => output[d] # "garbage"
    BY <1>1, <1>14, <1>16 DEF RowsOK, Uncombined
  <2>4. \A u \in Threads : IsDecoding(u)' /\ ~pending'[u] =>
            \A h \in 1 .. Halves : h + Len(th'[u].todo) <= Halves + 1 =>
                Fills(th[u].plan, th[u].call, h, Len(stream))'
    BY <1>2, <1>15, <2>2
  <2> QED
    BY <1>2, <1>15, <2>1, <2>3, <2>4 DEF RowsOK
<1>18. \A d : (Combined(d)' <=> Combined(d)) /\ (Uncombined(d)' <=> Uncombined(d))
  BY <1>2 DEF Combined, Uncombined, Combines
<1>19. OrderOK'
  <2>1. NewOK' /\ CombinedOnce'
    BY <1>1, <1>2, <1>3, <1>18 DEF OrderOK, NewOK, CombinedOnce, Combines
  <2>2. BeforeOK'
    <3> SUFFICES ASSUME NEW d \in Calls, NEW e \in before'[d]
                 PROVE  /\ status'[e] \in {"ok", "dropped"}
                        /\ \A i, j \in 1 .. Len(stream) :
                               Combines(i, e) /\ Combines(j, d) => i < j
      BY <1>2 DEF BeforeOK, Combines
    <3>1. CASE d = c
      <4>1. e \in Calls /\ status[e] \in {"ok", "dropped"} /\ e # c
        BY <1>1, <1>2, <3>1 DEF Shape
      <4>2. \A j \in 1 .. Len(stream) : ~Combines(j, c)
        BY <1>16 DEF Uncombined
      <4> QED
        BY <1>3, <3>1, <4>1, <4>2
    <3>2. CASE d # c
      <4>1. /\ e \in before[d] /\ e \in Calls
        BY <1>1, <1>2, <3>2 DEF Shape
      <4>2. /\ status[e] \in {"ok", "dropped"} /\ e # c
            /\ \A i, j \in 1 .. Len(stream) : Combines(i, e) /\ Combines(j, d) => i < j
        BY <1>1, <1>2, <4>1 DEF OrderOK, BeforeOK
      <4> QED
        BY <1>3, <4>1, <4>2
    <3> QED
      BY <3>1, <3>2
  <2>3. ASSUME NEW u \in Threads, IsDecoding(u)'
        PROVE  /\ th'[u].todo # <<>> => Uncombined(th'[u].call)
               /\ th'[u].todo = <<>> /\ ~pending'[u] => Combined(th'[u].call)
    BY <1>1, <1>2, <1>3, <1>4, <1>5, <1>7, <1>16, <2>3 DEF OrderOK, CallsOK
  <2>4. ASSUME NEW u \in Threads, IsDecoding(u)'
        PROVE  (/\ th[u].todo # <<>> => Uncombined(th[u].call)
                /\ th[u].todo = <<>> /\ ~pending[u] => Combined(th[u].call))'
    BY <1>18, <2>3, <2>4
  <2>5. \A d \in Calls : status'[d] \in {"ok", "dropped"} => Combined(d)'
    BY <1>1, <1>3, <1>18 DEF OrderOK, CallsOK
  <2> QED
    BY <2>1, <2>2, <2>4, <2>5 DEF OrderOK, CallsOK
<1> QED
  BY <1>8, <1>9, <1>10, <1>11, <1>13, <1>17, <1>19 DEF IInv

\* What is dropped is freed on the stream, and no thread that goes on has it.
LEMMA DropStep ==
    ASSUME IInv, NEW b \in Plans \cup Calls, NEW s,
           stream' = Append(stream, Free(b)),
           UNCHANGED <<before, device>>,
           pending' \in [Threads -> BOOLEAN],
           th' = [u \in Threads |-> th'[u]],
           \A u \in Threads :
               \/ th'[u] = Idle
               \/ /\ th'[u] = th[u] /\ pending'[u] = pending[u]
                  /\ th[u].plan # b /\ th[u].call # b,
           plan' = IF b \in Plans THEN [plan EXCEPT ![b] = "dropped"] ELSE plan,
           b \in Plans => plan[b] \in {"planning", "live"},
           status' = IF b \in Calls THEN [status EXCEPT ![b] = s] ELSE status,
           b \in Calls => \/ status[b] = "running" /\ s = "err"
                          \/ status[b] = "ok" /\ s = "dropped"
    PROVE  IInv'
<1>0. PICK o, n : o = Free(b) /\ n = Len(stream)
  OBVIOUS
<1>1. /\ Shape /\ ThreadsOK /\ BorrowsOK /\ FreesOK /\ MetaOK /\ RowsOK /\ OrderOK
      /\ stream \in Seq(WfOps)
  BY DEF IInv, Shape
<1>2. /\ stream' = Append(stream, o)
      /\ UNCHANGED <<before, sched, rows, wrote, output, freed>>
  BY <1>0 DEF device
<1>3. /\ o \in WfOps /\ o.op = "free" /\ Touches(o) = {b}
      /\ o.plan = (IF b \in Plans THEN b ELSE None)
      /\ o.call \in {b, None}
  BY <1>0, FreeOps DEF Free, Op
<1>4. /\ n \in Nat /\ Len(stream') = n + 1 /\ stream' \in Seq(WfOps)
      /\ \A i \in 1 .. n : stream'[i] = stream[i] /\ stream[i] \in WfOps
      /\ stream'[n + 1] = o
      /\ \A i \in 1 .. n + 1 : i \in 1 .. n \/ i = n + 1
  BY <1>0, <1>1, <1>2, <1>3, StreamGrows
<1>5. /\ \A q \in Plans : /\ q # b => plan'[q] = plan[q]
                          /\ q = b => plan'[q] = "dropped"
      /\ \A d \in Calls : /\ d # b => status'[d] = status[d]
                          /\ d = b => status'[d] = s
      /\ b \notin Plans \cap Calls
  BY <1>1, StreamAssumption DEF Shape
<1>6. ASSUME NEW u \in Threads, th'[u] # Idle
      PROVE  /\ th'[u] = th[u] /\ pending'[u] = pending[u]
             /\ th[u].plan # b /\ th[u].call # b
             /\ th[u] # Idle
             /\ IsPlanning(u)' <=> IsPlanning(u)
             /\ IsDecoding(u)' <=> IsDecoding(u)
  <2>1. /\ th'[u] = th[u] /\ pending'[u] = pending[u]
        /\ th[u].plan # b /\ th[u].call # b
    BY <1>6
  <2>2. /\ th[u].plan \in Plans => plan'[th[u].plan] = plan[th[u].plan]
        /\ th[u].call \in Calls => status'[th[u].call] = status[th[u].call]
    BY <1>5, <2>1
  <2>3. /\ IsPlanning(u) \/ IsPlanning(u)' => th[u].plan \in Plans
        /\ IsDecoding(u) \/ IsDecoding(u)' => th[u].plan \in Plans /\ th[u].call \in Calls
    BY <2>1 DEF IsPlanning, IsDecoding
  <2> QED
    BY <1>1, <1>6, <2>1, <2>2, <2>3, OtherThreads
<1>7. \A u \in Threads : th'[u] = Idle => ~IsPlanning(u)' /\ ~IsDecoding(u)'
  BY StreamAssumption DEF Idle, IsPlanning, IsDecoding
<1>8. Shape'
  <2>1. plan' \in [Plans -> {"none", "planning", "live", "dropped"}]
    BY <1>1 DEF Shape
  <2>2. status' \in [Calls -> {"new", "running", "ok", "err", "dropped"}]
    BY <1>1 DEF Shape
  <2> QED
    BY <1>1, <1>2, <1>4, <2>1, <2>2 DEF Shape, Schedules, RowIds
<1>9. ThreadsOK'
  <2> DEFINE R == [todo : Seq(WfOps), plan : Plans \cup {None}, call : Calls \cup {None}]
  <2>1. Idle \in R
    BY DEF Idle
  <2>2. \A u \in Threads : th[u] \in R /\ (th[u] = Idle \/ IsPlanning(u) \/ IsDecoding(u))
    BY <1>1 DEF ThreadsOK
  <2>3. \A u \in Threads : th'[u] \in R
    BY <1>6, <2>1, <2>2
  <2>4. \A u \in Threads : (th[u] = Idle \/ IsPlanning(u) \/ IsDecoding(u))'
    BY <1>6, <2>2 DEF Idle
  <2>5. th' \in [Threads -> R]
    <3> HIDE DEF R
    <3> QED
      BY <2>3
  <2> QED
    BY <2>4, <2>5 DEF ThreadsOK
<1>10. BorrowsOK'
  <2> SUFFICES ASSUME NEW u \in Threads, NEW v \in Threads, u # v
               PROVE  /\ th'[u].plan # None => th'[u].plan # th'[v].plan
                      /\ th'[u].call # None => th'[u].call # th'[v].call
    BY DEF BorrowsOK
  <2>1. Idle.plan = None /\ Idle.call = None
    BY DEF Idle
  <2>2. CASE th'[u] = Idle \/ th'[v] = Idle
    BY <2>1, <2>2
  <2>3. CASE th'[u] # Idle /\ th'[v] # Idle
    <3>1. th'[u] = th[u] /\ th'[v] = th[v]
      BY <1>6, <2>3
    <3> QED
      BY <1>1, <3>1 DEF BorrowsOK
  <2> QED
    BY <2>2, <2>3
<1>11. FreesOK'
  <2>1. ~Gone(b) /\ Gone(b)'
    BY <1>5 DEF Gone
  <2>2. \A e : Gone(e) => Gone(e)'
    BY <1>5, <2>1 DEF Gone
  <2> QED
    BY <1>1, <1>2, <1>3, <2>1, <2>2, FreesGrow
<1>12. MetaOK'
  <2>1. /\ MetaFirst' /\ MetaPending' /\ DecodesScheduled'
        /\ \A q : Scheduled(q) => Scheduled(q)'
        /\ \A q : Untouched(q) /\ o.plan # q => Untouched(q)'
    BY <1>1, <1>2, <1>3, MetaGrows
  <2>2. \A q \in Plans : plan'[q] = "live" => Scheduled(q)'
    BY <1>1, <1>5, <2>1 DEF MetaOK
  <2>3. \A q \in Plans : plan'[q] = "none" => Untouched(q)'
    <3>1. \A q \in Plans : q # b => o.plan # q
      BY <1>3, StreamAssumption
    <3> QED
      BY <1>1, <1>5, <2>1, <3>1 DEF MetaOK
  <2>4. ASSUME NEW u \in Threads, IsPlanning(u)'
        PROVE  /\ th'[u].todo # <<>> => Untouched(th[u].plan)'
               /\ th'[u].todo = <<>> /\ ~pending'[u] => Scheduled(th[u].plan)'
    <3>1. /\ IsPlanning(u) /\ th'[u] = th[u] /\ pending'[u] = pending[u]
          /\ th[u].plan # b
      BY <1>6, <1>7, <2>4
    <3>2. th'[u].plan = th[u].plan /\ th'[u].todo = th[u].todo /\ o.plan # th[u].plan
      BY <1>1, <1>3, <3>1, ThreadState, StreamAssumption
    <3>3. /\ th[u].todo # <<>> => Untouched(th[u].plan)
          /\ th[u].todo = <<>> /\ ~pending[u] => Scheduled(th[u].plan)
      BY <1>1, <3>1 DEF MetaOK
    <3> QED
      BY <2>1, <3>1, <3>2, <3>3
  <2> QED
    BY <2>1, <2>2, <2>3, <2>4 DEF MetaOK
<1>13. ASSUME NEW d \in Calls, Sound(d)'
       PROVE  Sound(d)
  <2>1. CASE status'[d] \in {"ok", "dropped"}
    BY <1>5, <2>1 DEF Sound
  <2>2. CASE \E u \in Threads : th'[u].call = d /\ ~pending'[u]
    <3>1. PICK u \in Threads : th'[u].call = d /\ ~pending'[u]
      BY <2>2
    <3>2. th'[u] # Idle
      BY <3>1, StreamAssumption DEF Idle
    <3> QED
      BY <1>6, <3>1, <3>2 DEF Sound
  <2> QED
    BY <1>13, <2>1, <2>2 DEF Sound
<1>14. RowsOK'
  <2>1. ASSUME NEW i \in 1 .. n + 1, stream'[i].op = "combine", Sound(stream[i].call)',
               NEW h \in 1 .. Halves
        PROVE  Fills(stream[i].plan, stream[i].call, h, i - 1)'
    <3>1. i \in 1 .. n /\ stream'[i] = stream[i] /\ stream[i] \in WfOps
      BY <1>3, <1>4, <2>1
    <3>2. stream[i].op = "combine" /\ stream[i].call \in Calls
      BY <2>1, <3>1, Operations
    <3>3. Sound(stream[i].call)
      BY <1>13, <2>1, <3>1, <3>2
    <3>4. Fills(stream[i].plan, stream[i].call, h, i - 1)
      BY <1>0, <1>1, <3>1, <3>2, <3>3 DEF RowsOK
    <3>5. i - 1 \in 0 .. Len(stream)
      BY <1>0, <1>4, <3>1
    <3> QED
      BY <1>1, <1>2, <1>3, <3>1, <3>4, <3>5, FillsGrow
  <2>2. ASSUME NEW u \in Threads, IsDecoding(u)', ~pending'[u], NEW h \in 1 .. Halves,
               h + Len(th'[u].todo) <= Halves + 1
        PROVE  Fills(th[u].plan, th[u].call, h, Len(stream))'
    <3>1. IsDecoding(u) /\ th'[u] = th[u] /\ pending'[u] = pending[u]
      BY <1>6, <1>7, <2>2
    <3>2. Fills(th[u].plan, th[u].call, h, Len(stream))
      BY <1>1, <2>2, <3>1 DEF RowsOK
    <3>3. \A q, d : Fills(q, d, h, Len(stream)) => Fills(q, d, h, Len(stream))'
      BY <1>1, <1>2, <1>3, FillsLast
    <3> QED
      BY <3>1, <3>2, <3>3
  <2>3. \A d \in Calls : Sound(d)' => output'[d] # "garbage"
    BY <1>1, <1>2, <1>13 DEF RowsOK
  <2> QED
    BY <1>4, <2>1, <2>2, <2>3 DEF RowsOK
<1>15. OrderOK'
  <2>1. /\ \A d : Combined(d) => Combined(d)'
        /\ \A d : Uncombined(d) => Uncombined(d)'
        /\ CombinedOnce'
    BY <1>1, <1>2, <1>3, OrderGrows DEF OrderOK
  <2>2. NewOK'
    <3> SUFFICES ASSUME NEW d \in Calls, status'[d] = "new"
                 PROVE  (Uncombined(d) /\ \A i \in 1 .. Len(stream) : stream[i].call # d)'
      BY DEF NewOK
    <3>1. d # b /\ status[d] = "new"
      BY <1>5
    <3>2. Uncombined(d) /\ \A i \in 1 .. n : stream[i].call # d
      BY <1>0, <1>1, <3>1 DEF OrderOK, NewOK
    <3>3. o.call # d
      BY <1>3, <3>1, StreamAssumption
    <3> QED
      BY <1>4, <2>1, <3>2, <3>3
  <2>3. BeforeOK'
    <3> SUFFICES ASSUME NEW d \in Calls, NEW e \in before[d]
                 PROVE  /\ status'[e] \in {"ok", "dropped"}
                        /\ \A i, j \in 1 .. n + 1 : Combines(i, e)' /\ Combines(j, d)' => i < j
      BY <1>2, <1>4 DEF BeforeOK
    <3>1. /\ e \in Calls
          /\ status[e] \in {"ok", "dropped"}
          /\ \A i, j \in 1 .. n : Combines(i, e) /\ Combines(j, d) => i < j
      BY <1>0, <1>1 DEF OrderOK, BeforeOK, Shape
    <3>2. status'[e] \in {"ok", "dropped"}
      BY <1>5, <3>1
    <3> QED
      BY <1>3, <1>4, <3>1, <3>2 DEF Combines
  <2>4. ASSUME NEW u \in Threads, IsDecoding(u)'
        PROVE  /\ th'[u].todo # <<>> => Uncombined(th[u].call)'
               /\ th'[u].todo = <<>> /\ ~pending'[u] => Combined(th[u].call)'
    <3>1. IsDecoding(u) /\ th'[u] = th[u] /\ pending'[u] = pending[u]
      BY <1>6, <1>7, <2>4
    <3>2. /\ th[u].todo # <<>> => Uncombined(th[u].call)
          /\ th[u].todo = <<>> /\ ~pending[u] => Combined(th[u].call)
      BY <1>1, <3>1 DEF OrderOK, CallsOK
    <3> QED
      BY <2>1, <3>1, <3>2
  <2>5. \A d \in Calls : status'[d] \in {"ok", "dropped"} => Combined(d)'
    BY <1>1, <1>5, <2>1 DEF OrderOK, CallsOK
  <2> QED
    BY <2>1, <2>2, <2>3, <2>4, <2>5 DEF OrderOK, CallsOK
<1> QED
  BY <1>8, <1>9, <1>10, <1>11, <1>12, <1>14, <1>15 DEF IInv

\* A call that fails drops its locals.
LEMMA ReturnErrStep ==
    ASSUME IInv, NEW t \in Threads, th[t].plan # None, ReturnErr(t),
           NEW v \in BOOLEAN, pending' = [pending EXCEPT ![t] = v]
    PROVE  IInv'
<1>0. PICK p, c, b : /\ p = th[t].plan /\ c = th[t].call
                     /\ b = (IF th[t].call = None THEN th[t].plan ELSE th[t].call)
  OBVIOUS
<1>1. Shape /\ ThreadsOK /\ BorrowsOK
  BY DEF IInv
<1>2. /\ th' = [th EXCEPT ![t] = Idle]
      /\ stream' = Append(stream, Free(b))
      /\ IF c = None
         THEN plan' = [plan EXCEPT ![p] = "dropped"] /\ status' = status
         ELSE status' = [status EXCEPT ![c] = "err"] /\ plan' = plan
      /\ UNCHANGED <<before, device>>
  BY <1>0 DEF ReturnErr, End, DropLocals
<1>3. \/ c = None /\ b = p /\ p \in Plans /\ plan[p] = "planning" /\ b \notin Calls
      \/ c # None /\ b = c /\ c \in Calls /\ status[c] = "running" /\ b \notin Plans
  BY <1>0, <1>1, ThreadState, StreamAssumption
<1>4. pending' \in [Threads -> BOOLEAN] /\ \A u \in Threads : u # t => pending'[u] = pending[u]
  BY <1>1 DEF Shape
<1>5. /\ th' = [u \in Threads |-> th'[u]] /\ th'[t] = Idle
      /\ \A u \in Threads : u # t => th'[u] = th[u]
  BY <1>1, <1>2 DEF ThreadsOK
<1>6. ASSUME NEW u \in Threads, u # t
      PROVE  th[u].plan # b /\ th[u].call # b
  <2>1. /\ th[u].plan # p
        /\ c # None => th[u].call # c
    BY <1>0, <1>1, <1>6 DEF BorrowsOK
  <2>2. th[u].plan \in Plans \cup {None} /\ th[u].call \in Calls \cup {None}
    BY <1>1 DEF ThreadsOK
  <2> QED
    BY <1>3, <2>1, <2>2, StreamAssumption
<1>7. \A u \in Threads :
          \/ th'[u] = Idle
          \/ /\ th'[u] = th[u] /\ pending'[u] = pending[u]
             /\ th[u].plan # b /\ th[u].call # b
  BY <1>4, <1>5, <1>6
<1>8. /\ plan' = IF b \in Plans THEN [plan EXCEPT ![b] = "dropped"] ELSE plan
      /\ status' = IF b \in Calls THEN [status EXCEPT ![b] = "err"] ELSE status
  BY <1>2, <1>3
<1> QED
  BY <1>2, <1>3, <1>4, <1>5, <1>7, <1>8, DropStep

\* And so does one that throws.
LEMMA CallThrowsStep ==
    ASSUME IInv, NEW t \in Threads, CallThrows(t)
    PROVE  IInv'
<1>1. th[t].todo # <<>> /\ ReturnErr(t)
  BY DEF CallThrows
<1>2. PICK v \in BOOLEAN : pending' = [pending EXCEPT ![t] = v]
  BY DEF CallThrows
<1>3. th[t].plan # None
  BY <1>1, ThreadState, StreamAssumption DEF IInv, ThreadsOK
<1> QED
  BY <1>1, <1>2, <1>3, ReturnErrStep

\* The owner drops a plan nobody has borrowed.
LEMMA DropPlanStep ==
    ASSUME IInv, NEW p \in Plans, DropPlan(p)
    PROVE  IInv'
<1>1. /\ Shape /\ ThreadsOK
  BY DEF IInv
<1>2. /\ plan[p] = "live" /\ \A u \in Threads : th[u].plan # p
      /\ plan' = [plan EXCEPT ![p] = "dropped"]
      /\ stream' = Append(stream, Free(p))
      /\ UNCHANGED <<th, pending, status, before, device>>
  BY DEF DropPlan, Unborrowed
<1>3. p \notin Calls /\ \A u \in Threads : th[u].call # p
  BY <1>1, StreamAssumption DEF ThreadsOK
<1>4. pending' \in [Threads -> BOOLEAN] /\ th' = [u \in Threads |-> th'[u]]
  BY <1>1, <1>2 DEF Shape, ThreadsOK
<1> QED
  BY <1>2, <1>3, <1>4, DropStep

\* The owner drops the outputs of a call that has returned.
LEMMA DropOutputStep ==
    ASSUME IInv, NEW c \in Calls, DropOutput(c)
    PROVE  IInv'
<1>1. /\ Shape /\ ThreadsOK
  BY DEF IInv
<1>2. /\ status[c] = "ok"
      /\ status' = [status EXCEPT ![c] = "dropped"]
      /\ stream' = Append(stream, Free(c))
      /\ UNCHANGED <<th, pending, plan, before, device>>
  BY DEF DropOutput
<1>3. c \notin Plans /\ \A u \in Threads : th[u].plan # c
  BY <1>1, StreamAssumption DEF ThreadsOK
<1>4. \A u \in Threads : th[u].call # c
  BY <1>1, <1>2, ThreadState, StreamAssumption
<1>5. pending' \in [Threads -> BOOLEAN] /\ th' = [u \in Threads |-> th'[u]]
  BY <1>1, <1>2 DEF Shape, ThreadsOK
<1> QED
  BY <1>2, <1>3, <1>4, <1>5, DropStep

\* A call that succeeds has enqueued everything.
LEMMA ReturnOkStep ==
    ASSUME IInv, NEW t \in Threads, th[t].plan # None, th[t].todo = <<>>, ~pending[t],
           ReturnOk(t)
    PROVE  IInv'
<1>0. PICK p, c : p = th[t].plan /\ c = th[t].call
  OBVIOUS
<1>1. /\ Shape /\ ThreadsOK /\ BorrowsOK /\ FreesOK /\ MetaOK /\ RowsOK /\ OrderOK
  BY DEF IInv
<1>2. /\ th' = [th EXCEPT ![t] = Idle]
      /\ IF c = None
         THEN plan' = [plan EXCEPT ![p] = "live"] /\ status' = status
         ELSE status' = [status EXCEPT ![c] = "ok"] /\ plan' = plan
      /\ UNCHANGED <<stream, pending, before, sched, rows, wrote, output, freed>>
  BY <1>0 DEF ReturnOk, End, device
<1>3. /\ p \in Plans
      /\ \/ c = None /\ IsPlanning(t) /\ plan[p] = "planning"
         \/ c # None /\ IsDecoding(t) /\ c \in Calls /\ status[c] = "running"
  BY <1>0, <1>1, ThreadState, StreamAssumption
<1>4. /\ th'[t] = Idle
      /\ \A u \in Threads : u # t => th'[u] = th[u]
  BY <1>1, <1>2 DEF ThreadsOK
<1>5. \A u \in Threads : u # t => th[u].plan # p /\ (c # None => th[u].call # c)
  BY <1>0, <1>1 DEF BorrowsOK
<1>6. /\ \A q \in Plans : \/ plan'[q] = plan[q]
                          \/ c = None /\ q = p /\ plan'[q] = "live"
      /\ \A d \in Calls : \/ status'[d] = status[d]
                          \/ c # None /\ d = c /\ status'[d] = "ok"
  <2>1. DOMAIN plan = Plans /\ DOMAIN status = Calls
    BY <1>1 DEF Shape
  <2>2. CASE c = None
    <3>1. status' = status /\ plan' = [plan EXCEPT ![p] = "live"]
      BY <1>2, <2>2
    <3>2. \A q \in Plans : plan'[q] = IF q = p THEN "live" ELSE plan[q]
      BY <2>1, <3>1
    <3>3. \A d \in Calls : status'[d] = status[d]
      BY <3>1
    <3> QED
      BY <2>2, <3>2, <3>3
  <2>3. CASE c # None
    <3>1. plan' = plan /\ status' = [status EXCEPT ![c] = "ok"]
      BY <1>2, <2>3
    <3>2. \A d \in Calls : status'[d] = IF d = c THEN "ok" ELSE status[d]
      BY <2>1, <3>1
    <3>3. \A q \in Plans : plan'[q] = plan[q]
      BY <3>1
    <3> QED
      BY <2>3, <3>2, <3>3
  <2> QED
    BY <2>2, <2>3
<1>7. ~IsPlanning(t)' /\ ~IsDecoding(t)'
  BY <1>4, StreamAssumption DEF Idle, IsPlanning, IsDecoding
<1>8. ASSUME NEW u \in Threads, u # t
      PROVE  /\ th'[u] = th[u]
             /\ IsPlanning(u)' <=> IsPlanning(u)
             /\ IsDecoding(u)' <=> IsDecoding(u)
  <2>1. th'[u] = th[u] /\ th[u].plan # p /\ (c # None => th[u].call # c)
    BY <1>4, <1>5, <1>8
  <2>2. /\ th[u].plan \in Plans => plan'[th[u].plan] = plan[th[u].plan]
        /\ th[u].call \in Calls => status'[th[u].call] = status[th[u].call]
    BY <1>6, <2>1
  <2>3. /\ IsPlanning(u) \/ IsPlanning(u)' => th[u].plan \in Plans
        /\ IsDecoding(u) \/ IsDecoding(u)' => th[u].plan \in Plans /\ th[u].call \in Calls
    BY <2>1 DEF IsPlanning, IsDecoding
  <2> QED
    BY <1>1, <2>1, <2>2, <2>3, OtherThreads
<1>9. Shape'
  <2>1. /\ plan' \in [Plans -> {"none", "planning", "live", "dropped"}]
        /\ status' \in [Calls -> {"new", "running", "ok", "err", "dropped"}]
    BY <1>1, <1>2 DEF Shape
  <2> QED
    BY <1>1, <1>2, <2>1 DEF Shape, Schedules, RowIds
<1>10. ThreadsOK'
  <2> DEFINE R == [todo : Seq(WfOps), plan : Plans \cup {None}, call : Calls \cup {None}]
  <2>1. Idle \in R
    BY DEF Idle
  <2>2. th \in [Threads -> R] /\ \A u \in Threads : th[u] = Idle \/ IsPlanning(u) \/ IsDecoding(u)
    BY <1>1 DEF ThreadsOK
  <2>3. th' \in [Threads -> R]
    <3> HIDE DEF R
    <3> QED
      BY <1>2, <2>1, <2>2
  <2>4. \A u \in Threads : (th[u] = Idle \/ IsPlanning(u) \/ IsDecoding(u))'
    BY <1>4, <1>8, <2>2 DEF Idle
  <2> QED
    BY <2>3, <2>4 DEF ThreadsOK
<1>11. BorrowsOK'
  <2>1. th'[t].plan = None /\ th'[t].call = None
    BY <1>4 DEF Idle
  <2> QED
    BY <1>1, <1>4, <2>1 DEF BorrowsOK
<1>12. FreesOK'
  <2>1. \A b : Gone(b) => Gone(b)'
    BY <1>3, <1>6 DEF Gone
  <2> QED
    BY <1>1, <1>2, <2>1 DEF FreesOK, Touches
<1>13. \A q : (Scheduled(q)' <=> Scheduled(q)) /\ (Untouched(q)' <=> Untouched(q))
  BY <1>2 DEF Scheduled, Untouched
<1>14. MetaOK'
  <2>1. MetaFirst' /\ MetaPending' /\ DecodesScheduled'
    BY <1>1, <1>2, <1>13 DEF MetaOK, MetaFirst, MetaPending, DecodesScheduled
  <2>2. c = None => Scheduled(p)
    BY <1>0, <1>1, <1>3 DEF MetaOK
  <2>3. \A q \in Plans : /\ plan'[q] = "live" => Scheduled(q)'
                         /\ plan'[q] = "none" => Untouched(q)'
    BY <1>1, <1>6, <1>13, <2>2 DEF MetaOK
  <2>4. \A u \in Threads : IsPlanning(u)' => IsPlanning(u) /\ th'[u] = th[u]
    BY <1>7, <1>8
  <2> QED
    BY <1>1, <1>2, <1>13, <2>1, <2>3, <2>4 DEF MetaOK
<1>15. c # None => Sound(c) /\ Combined(c)
  BY <1>0, <1>1, <1>3 DEF Sound, OrderOK, CallsOK
<1>16. ASSUME NEW d \in Calls, Sound(d)'
       PROVE  Sound(d)
  <2>1. CASE status'[d] \in {"ok", "dropped"}
    BY <1>6, <1>15, <2>1 DEF Sound
  <2>2. CASE \E u \in Threads : th'[u].call = d /\ ~pending'[u]
    <3>1. PICK u \in Threads : th'[u].call = d /\ ~pending'[u]
      BY <2>2
    <3>2. u # t
      BY <1>4, <3>1, StreamAssumption DEF Idle
    <3> QED
      BY <1>2, <1>8, <3>1, <3>2 DEF Sound
  <2> QED
    BY <1>16, <2>1, <2>2 DEF Sound
<1>17. \A q, d, h, n : Fills(q, d, h, n)' <=> Fills(q, d, h, n)
  BY <1>2 DEF Fills, Keeps, HasFilled
<1>18. RowsOK'
  <2>1. ASSUME NEW i \in 1 .. Len(stream), stream[i].op = "combine", Sound(stream[i].call)'
        PROVE  Sound(stream[i].call)
    <3>1. stream[i] \in WfOps
      BY <1>1, ElementOfSeq DEF Shape
    <3>2. stream[i].call \in Calls
      BY <2>1, <3>1, Operations
    <3> QED
      BY <1>2, <1>16, <2>1, <3>2
  <2>2. \A u \in Threads : IsDecoding(u)' => IsDecoding(u) /\ th'[u] = th[u]
    BY <1>7, <1>8
  <2> QED
    BY <1>1, <1>2, <1>16, <1>17, <2>1, <2>2 DEF RowsOK
<1>19. \A d : (Combined(d)' <=> Combined(d)) /\ (Uncombined(d)' <=> Uncombined(d))
  BY <1>2 DEF Combined, Uncombined, Combines
<1>20. OrderOK'
  <2>1. NewOK' /\ CombinedOnce'
    BY <1>1, <1>2, <1>6, <1>19 DEF OrderOK, NewOK, CombinedOnce, Combines
  <2>2. BeforeOK'
    <3>1. \A d \in Calls : before[d] \subseteq Calls
      BY <1>1 DEF Shape
    <3> QED
      BY <1>1, <1>2, <1>6, <3>1 DEF OrderOK, BeforeOK, Combines
  <2>3. \A u \in Threads : IsDecoding(u)' => IsDecoding(u) /\ th'[u] = th[u]
    BY <1>7, <1>8
  <2>4. \A d \in Calls : status'[d] \in {"ok", "dropped"} => Combined(d)'
    BY <1>1, <1>6, <1>15, <1>19 DEF OrderOK, CallsOK
  <2> QED
    BY <1>1, <1>2, <1>19, <2>1, <2>2, <2>3, <2>4 DEF OrderOK, CallsOK
<1> QED
  BY <1>9, <1>10, <1>11, <1>12, <1>14, <1>18, <1>20 DEF IInv

\* Either return of a call that has enqueued everything it will.
LEMMA CallReturnsStep ==
    ASSUME IInv, NEW t \in Threads, CallReturns(t)
    PROVE  IInv'
<1>1. CASE pending' = [pending EXCEPT ![t] = FALSE] /\ ReturnErr(t)
  BY <1>1, ReturnErrStep DEF CallReturns
<1>2. CASE ~pending[t] /\ ReturnOk(t)
  BY <1>2, ReturnOkStep DEF CallReturns
<1> QED
  BY <1>1, <1>2 DEF CallReturns, PendingError

\* The combine of a call that has succeeded or may reads rows of its own.
LEMMA SoundCombine ==
    ASSUME Shape, RowsOK, stream # <<>>, Head(stream).op = "combine", Sound(Head(stream).call)
    PROVE  CombinesOwn(Head(stream).plan, Head(stream).call)
<1> DEFINE p == Head(stream).plan
           c == Head(stream).call
<1>1. /\ Len(stream) \in Nat /\ 1 \in 1 .. Len(stream)
      /\ Head(stream) = stream[1] /\ Head(stream) \in WfOps
  BY Tailed DEF Shape
<1>2. p \in Plans /\ c \in Calls
  BY <1>1, Operations
<1>3. \A h \in 1 .. Halves : Fills(p, c, h, 0)
  BY <1>1 DEF RowsOK
<1>4. \A h \in 1 .. Halves : HasFilled(p, c, h)
  BY <1>3 DEF Fills
<1>5. 1 \in 1 .. Halves
  BY StreamAssumption
<1>6. sched[p] # None
  BY <1>4, <1>5 DEF HasFilled
<1>7. wrote[c] = 1 .. Halves
  BY <1>2, <1>4 DEF HasFilled, Shape
<1>8. \A r \in SplitRows(sched[p]), h \in 1 .. Halves : rows[p][<<r, h>>] = c
  BY <1>4 DEF HasFilled
<1> QED
  BY <1>6, <1>7, <1>8 DEF CombinesOwn

\* The device executes the head of the stream.
LEMMA ExecStep ==
    ASSUME IInv, Exec
    PROVE  IInv'
<1>0. PICK o, n : o = Head(stream) /\ n = Len(stream)
  OBVIOUS
<1>1. /\ Shape /\ ThreadsOK /\ BorrowsOK /\ FreesOK /\ MetaOK /\ RowsOK /\ OrderOK
      /\ stream \in Seq(WfOps)
  BY DEF IInv, Shape
<1>2. /\ stream # <<>> /\ stream' = Tail(stream)
      /\ RunMeta(o) \/ RunDecode(o) \/ RunCombine(o) \/ RunFree(o)
      /\ UNCHANGED <<th, pending, plan, status, before>>
  BY <1>0 DEF Exec, host
<1>3. /\ stream' \in Seq(WfOps) /\ n \in Nat /\ n >= 1
      /\ Len(stream') = n - 1
      /\ \A i \in 1 .. n - 1 : i + 1 \in 1 .. n /\ stream'[i] = stream[i + 1]
      /\ o = stream[1] /\ o \in WfOps /\ 1 \in 1 .. n
      /\ \A i \in 1 .. n : stream[i] \in WfOps
  BY <1>0, <1>1, <1>2, StreamShrinks, ElementOfSeq
<1>4. /\ o.op = "decode" => sched[o.plan] # None
      /\ o.op = "combine" /\ Sound(o.call) => CombinesOwn(o.plan, o.call)
  BY <1>0, <1>1, <1>2, ScheduledBefore, SoundCombine
<1>5. /\ \/ /\ o.op = "meta"
            /\ \E s \in Schedules(o.plan) : sched' = [sched EXCEPT ![o.plan] = s]
         \/ o.op # "meta" /\ sched' = sched
      /\ \/ o.op # "combine" /\ output' = output
         \/ /\ o.op = "combine"
            /\ output' = [output EXCEPT ![o.call] =
                             IF CombinesOwn(o.plan, o.call) THEN "own" ELSE "garbage"]
      /\ freed' = freed \cup IF o.op = "free" THEN Touches(o) ELSE {}
  BY <1>2 DEF RunMeta, RunDecode, RunCombine, RunFree
<1>6. \A d \in Calls : Sound(d) /\ Combines(1, d) => output'[d] = "own"
  BY <1>1, <1>3, <1>4, <1>5 DEF Combines, Shape
<1>7. Shape'
  <2>1. \A p \in Plans : sched'[p] \in Schedules(p) \cup {None}
    BY <1>1, <1>5 DEF Shape
  <2>2. /\ \A p \in Plans : rows'[p] \in [RowIds(p) \X (1 .. Halves) -> Calls \cup {None}]
        /\ rows' = [p \in Plans |-> rows'[p]]
        /\ wrote' \in [Calls -> SUBSET (1 .. Halves)]
    <3>1. CASE RunDecode(o)
      <4>1. /\ o.op = "decode" /\ o.plan \in Plans /\ o.call \in Calls /\ o.half \in 1 .. Halves
        BY <1>3, <3>1, Operations DEF RunDecode
      <4>2. /\ rows' = [rows EXCEPT ![o.plan] =
                   [r \in DOMAIN rows[o.plan] |->
                       IF r[1] \in SplitRows(sched[o.plan]) /\ r[2] = o.half
                       THEN o.call ELSE rows[o.plan][r]]]
            /\ wrote' = [wrote EXCEPT ![o.call] = @ \cup {o.half}]
        BY <1>4, <3>1, <4>1 DEF RunDecode
      <4>3. wrote' \in [Calls -> SUBSET (1 .. Halves)]
        BY <1>1, <4>1, <4>2 DEF Shape
      <4>4. rows' = [p \in Plans |-> rows'[p]]
        BY <1>1, <4>1, <4>2 DEF Shape
      <4>5. ASSUME NEW p \in Plans
            PROVE  rows'[p] \in [RowIds(p) \X (1 .. Halves) -> Calls \cup {None}]
        <5>1. rows[p] \in [RowIds(p) \X (1 .. Halves) -> Calls \cup {None}]
          BY <1>1 DEF Shape
        <5>2. CASE p # o.plan
          <6>1. rows'[p] = rows[p]
            BY <1>1, <4>1, <4>2, <5>2 DEF Shape
          <6> QED
            BY <5>1, <6>1
        <5>3. CASE p = o.plan
          <6>1. rows'[p] = [r \in DOMAIN rows[p] |->
                               IF r[1] \in SplitRows(sched[p]) /\ r[2] = o.half
                               THEN o.call ELSE rows[p][r]]
            BY <1>1, <4>1, <4>2, <5>3 DEF Shape
          <6> QED
            BY <4>1, <5>1, <6>1
        <5> QED
          BY <5>2, <5>3
      <4> QED
        BY <4>3, <4>4, <4>5
    <3>2. CASE ~RunDecode(o)
      <4>1. rows' = rows /\ wrote' = wrote
        BY <1>2, <3>2 DEF RunMeta, RunCombine, RunFree
      <4> QED
        BY <1>1, <4>1 DEF Shape
    <3> QED
      BY <3>1, <3>2
  <2>3. output' \in [Calls -> {"unwritten", "own", "garbage"}]
    BY <1>1, <1>5 DEF Shape
  <2>4. freed' \in SUBSET (Plans \cup Calls)
    <3>1. o.op = "free" => Touches(o) \subseteq Plans \cup Calls
      BY <1>3, Operations, FreeOps
    <3> QED
      BY <1>1, <1>5, <3>1 DEF Shape
  <2>5. sched' = [p \in Plans |-> sched'[p]]
    BY <1>1, <1>5 DEF Shape
  <2> QED
    BY <1>1, <1>2, <1>3, <2>1, <2>2, <2>3, <2>4, <2>5 DEF Shape, Schedules, RowIds
<1>8. /\ ThreadsOK' /\ BorrowsOK'
      /\ \A u \in Threads : (IsPlanning(u)' <=> IsPlanning(u)) /\ (IsDecoding(u)' <=> IsDecoding(u))
  <2>1. \A u \in Threads : (IsPlanning(u)' <=> IsPlanning(u)) /\ (IsDecoding(u)' <=> IsDecoding(u))
    BY <1>1, <1>2, OtherThreads
  <2> QED
    BY <1>1, <1>2, <2>1 DEF ThreadsOK, BorrowsOK, Idle
<1>9. FreesOK'
  <2>1. \A b : Gone(b) => Gone(b)'
    BY <1>2 DEF Gone
  <2> QED
    BY <1>0, <1>1, <1>2, <1>5, <2>1, FreesShrink
<1>10. MetaOK'
  <2>1. /\ MetaFirst' /\ MetaPending' /\ DecodesScheduled'
        /\ \A p \in Plans : Scheduled(p) => Scheduled(p)'
        /\ \A p \in Plans : Untouched(p) => Untouched(p)'
    BY <1>0, <1>1, <1>2, <1>5, MetaShrinks
  <2>2. \A u \in Threads : IsPlanning(u) => th[u].plan \in Plans
    BY DEF IsPlanning
  <2> QED
    BY <1>1, <1>2, <1>8, <2>1, <2>2 DEF MetaOK
<1>11. \A d : Sound(d)' <=> Sound(d)
  BY <1>2 DEF Sound
<1>12. \A p \in Plans, c \in Calls, h \in 1 .. Halves, k \in 1 .. n :
           Fills(p, c, h, k) => Fills(p, c, h, k - 1)'
  BY <1>0, <1>1, <1>2, FillsShrink
<1>13. RowsOK'
  <2>1. ASSUME NEW i \in 1 .. n - 1, stream'[i].op = "combine", Sound(stream'[i].call),
               NEW h \in 1 .. Halves
        PROVE  Fills(stream[i].plan, stream[i].call, h, i - 1)'
    <3>1. PICK k : k = stream[i + 1]
      OBVIOUS
    <3>2. k \in WfOps /\ k = stream'[i] /\ i + 1 \in 1 .. n /\ i \in 1 .. n /\ (i + 1) - 1 = i
      BY <1>3, <3>1
    <3>3. k.plan \in Plans /\ k.call \in Calls
      BY <2>1, <3>2, Operations
    <3>4. Fills(k.plan, k.call, h, i)
      BY <1>0, <1>1, <2>1, <3>1, <3>2 DEF RowsOK
    <3>5. Fills(k.plan, k.call, h, i - 1)'
      BY <1>12, <3>2, <3>3, <3>4
    <3> QED
      BY <3>2, <3>5
  <2>2. ASSUME NEW u \in Threads, IsDecoding(u), ~pending[u], NEW h \in 1 .. Halves,
               h + Len(th[u].todo) <= Halves + 1
        PROVE  Fills(th[u].plan, th[u].call, h, Len(stream))'
    <3>1. PICK p, c : p = th[u].plan /\ c = th[u].call
      OBVIOUS
    <3>2. p \in Plans /\ c \in Calls
      BY <2>2, <3>1 DEF IsDecoding
    <3>3. Fills(p, c, h, n)
      BY <1>0, <1>1, <2>2, <3>1 DEF RowsOK
    <3>4. Fills(p, c, h, n - 1)'
      BY <1>3, <1>12, <3>2, <3>3
    <3>5. Len(stream') = n - 1 /\ p = th'[u].plan /\ c = th'[u].call
      BY <1>2, <1>3, <3>1
    <3> QED
      BY <3>4, <3>5
  <2>3. \A d \in Calls : Sound(d) => output'[d] # "garbage"
    BY <1>1, <1>3, <1>5, <1>6 DEF Combines, RowsOK, Shape
  <2>4. \A i \in 1 .. n - 1 : stream'[i].op = "combine" /\ Sound(stream[i].call)' =>
            \A h \in 1 .. Halves : Fills(stream[i].plan, stream[i].call, h, i - 1)'
    BY <1>11, <2>1 DEF Sound
  <2> QED
    BY <1>2, <1>3, <1>8, <1>11, <2>2, <2>3, <2>4 DEF RowsOK
<1>14. OrderOK'
  <2>1. /\ CombinedOnce'
        /\ \A c \in Calls : Uncombined(c) => Uncombined(c)'
        /\ \A c \in Calls : Combined(c) /\ (Combines(1, c) => output'[c] = "own") => Combined(c)'
    BY <1>0, <1>1, <1>2, <1>5, OrderShrinks DEF OrderOK
  <2>2. NewOK'
    <3> SUFFICES ASSUME NEW d \in Calls, status[d] = "new"
                 PROVE  (Uncombined(d) /\ \A i \in 1 .. Len(stream) : stream[i].call # d)'
      BY <1>2 DEF NewOK
    <3>1. Uncombined(d) /\ \A i \in 1 .. n : stream[i].call # d
      BY <1>0, <1>1 DEF OrderOK, NewOK
    <3> QED
      BY <1>3, <2>1, <3>1
  <2>3. BeforeOK'
    <3> SUFFICES ASSUME NEW d \in Calls, NEW e \in before[d]
                 PROVE  /\ status[e] \in {"ok", "dropped"}
                        /\ \A i, j \in 1 .. n - 1 : Combines(i, e)' /\ Combines(j, d)' => i < j
      BY <1>2, <1>3 DEF BeforeOK
    <3>1. /\ status[e] \in {"ok", "dropped"}
          /\ \A i, j \in 1 .. n : Combines(i, e) /\ Combines(j, d) => i < j
      BY <1>0, <1>1 DEF OrderOK, BeforeOK
    <3>2. ASSUME NEW i \in 1 .. n - 1, NEW j \in 1 .. n - 1, Combines(i, e)', Combines(j, d)'
          PROVE  i < j
      <4>1. i + 1 \in 1 .. n /\ j + 1 \in 1 .. n /\ Combines(i + 1, e) /\ Combines(j + 1, d)
        BY <1>3, <3>2 DEF Combines
      <4>2. i + 1 < j + 1
        BY <3>1, <4>1
      <4> QED
        BY <4>2
    <3> QED
      BY <3>1, <3>2
  <2>4. ASSUME NEW u \in Threads, IsDecoding(u)
        PROVE  /\ th[u].todo # <<>> => Uncombined(th[u].call)'
               /\ th[u].todo = <<>> /\ ~pending[u] => Combined(th[u].call)'
    <3>1. th[u].call \in Calls
      BY <2>4 DEF IsDecoding
    <3>2. ~pending[u] => Sound(th[u].call)
      BY DEF Sound
    <3>3. /\ th[u].todo # <<>> => Uncombined(th[u].call)
          /\ th[u].todo = <<>> /\ ~pending[u] => Combined(th[u].call)
      BY <1>1, <2>4 DEF OrderOK, CallsOK
    <3> QED
      BY <1>2, <1>6, <2>1, <3>1, <3>2, <3>3
  <2>5. ASSUME NEW u \in Threads, IsDecoding(u)
        PROVE  (/\ th[u].todo # <<>> => Uncombined(th[u].call)
                /\ th[u].todo = <<>> /\ ~pending[u] => Combined(th[u].call))'
    BY <1>2, <2>4, <2>5
  <2>6. \A d \in Calls : status[d] \in {"ok", "dropped"} => Combined(d)'
    BY <1>1, <1>6, <2>1 DEF OrderOK, CallsOK, Sound
  <2> QED
    BY <1>2, <1>8, <2>1, <2>2, <2>3, <2>5, <2>6 DEF OrderOK, CallsOK
<1> QED
  BY <1>7, <1>8, <1>9, <1>10, <1>13, <1>14 DEF IInv

-----------------------------------------------------------------------------
(* Theorems of the specification.                                          *)

\* Nothing is enqueued, planned or called at first.
LEMMA InitStep ==
    ASSUME Init
    PROVE  IInv
<1>1. /\ stream = <<>> /\ Len(stream) = 0 /\ stream \in Seq(WfOps)
      /\ \A t \in Threads : th[t] = Idle /\ pending[t] = FALSE
      /\ \A p \in Plans : plan[p] = "none" /\ sched[p] = None
      /\ \A c \in Calls : status[c] = "new" /\ output[c] = "unwritten" /\ before[c] = {}
      /\ freed = {}
  BY DEF Init
<1>2. \A t \in Threads : ~IsPlanning(t) /\ ~IsDecoding(t)
  BY <1>1, StreamAssumption DEF IsPlanning, IsDecoding, Idle
<1>3. Shape
  <2>1. /\ pending \in [Threads -> BOOLEAN]
        /\ plan \in [Plans -> {"none", "planning", "live", "dropped"}]
        /\ status \in [Calls -> {"new", "running", "ok", "err", "dropped"}]
        /\ wrote \in [Calls -> SUBSET (1 .. Halves)]
        /\ output \in [Calls -> {"unwritten", "own", "garbage"}]
        /\ before \in [Calls -> SUBSET Calls]
    BY DEF Init
  <2>2. /\ sched = [p \in Plans |-> sched[p]]
        /\ \A p \in Plans : sched[p] \in Schedules(p) \cup {None}
    BY DEF Init
  <2>3. /\ rows = [p \in Plans |-> rows[p]]
        /\ \A p \in Plans : rows[p] \in [RowIds(p) \X (1 .. Halves) -> Calls \cup {None}]
    BY DEF Init
  <2> QED
    BY <1>1, <2>1, <2>2, <2>3 DEF Shape
<1>4. ThreadsOK /\ BorrowsOK
  <2>1. Idle.plan = None /\ Idle.call = None
    BY DEF Idle
  <2>2. th = [t \in Threads |-> Idle]
    BY DEF Init
  <2>3. th \in [Threads -> [todo : Seq(WfOps), plan : Plans \cup {None}, call : Calls \cup {None}]]
    BY <2>2 DEF Idle
  <2> QED
    BY <1>1, <2>1, <2>3 DEF ThreadsOK, BorrowsOK
<1>5. FreesOK
  BY <1>1 DEF FreesOK
<1>6. MetaOK
  BY <1>1, <1>2 DEF MetaOK, MetaFirst, MetaPending, DecodesScheduled, Untouched
<1>7. RowsOK
  BY <1>1, <1>2 DEF RowsOK
<1>8. OrderOK
  BY <1>1, <1>2 DEF OrderOK, NewOK, CombinedOnce, BeforeOK, CallsOK, Uncombined
<1> QED
  BY <1>3, <1>4, <1>5, <1>6, <1>7, <1>8 DEF IInv

\* A stuttering step changes nothing.
LEMMA StutterStep ==
    ASSUME IInv, UNCHANGED vars
    PROVE  IInv'
<1>1. UNCHANGED <<stream, th, pending, plan, status, before, sched, rows, wrote, output, freed>>
  BY DEF vars, host, device
<1>2. Shape'
  BY <1>1 DEF IInv, Shape, Schedules, RowIds
<1>3. \A u \in Threads : (IsPlanning(u)' <=> IsPlanning(u)) /\ (IsDecoding(u)' <=> IsDecoding(u))
  BY <1>1, OtherThreads DEF IInv
<1>4. ThreadsOK' /\ BorrowsOK'
  BY <1>1, <1>3 DEF IInv, ThreadsOK, BorrowsOK, Idle
<1>5. FreesOK'
  BY <1>1 DEF IInv, FreesOK, Gone, Touches
<1>6. MetaOK'
  BY <1>1, <1>3 DEF IInv, MetaOK, MetaFirst, MetaPending, DecodesScheduled, Scheduled, Untouched,
     Meta, Op
<1>7. RowsOK'
  <2>1. /\ \A d : Sound(d)' <=> Sound(d)
        /\ \A q, d, h, n : Fills(q, d, h, n)' <=> Fills(q, d, h, n)
    BY <1>1 DEF Sound, Fills, Keeps, HasFilled
  <2> QED
    BY <1>1, <1>3, <2>1 DEF IInv, RowsOK
<1>8. OrderOK'
  BY <1>1, <1>3 DEF IInv, OrderOK, NewOK, CombinedOnce, BeforeOK, CallsOK, Combined, Uncombined,
     Combines
<1> QED
  BY <1>2, <1>4, <1>5, <1>6, <1>7, <1>8 DEF IInv

\* So every step preserves the invariant.
LEMMA NextStep ==
    ASSUME IInv, [Next]_vars
    PROVE  IInv'
BY StutterStep, PlanBeginStep, DecodeBeginStep, LaunchStep, LaunchFailsStep, CallThrowsStep,
   CallReturnsStep, DropPlanStep, DropOutputStep, ExecStep DEF Next

\* IInv holds in every state the threads and the device can reach.
THEOREM StreamInductive == Spec => []IInv
<1>1. Init => IInv
  BY InitStep
<1>2. IInv /\ [Next]_vars => IInv'
  BY NextStep
<1> QED
  BY <1>1, <1>2, PTL DEF Spec

\* The operations that reach the stream are operations.
LEMMA OpsOfASequence ==
    ASSUME NEW s \in Seq(WfOps)
    PROVE  s \in Seq(Ops)
<1>1. Len(s) \in Nat /\ s \in [1 .. Len(s) -> WfOps]
  BY LenProperties
<1>2. \A o \in WfOps : o \in Ops
  BY Operations
<1>3. s \in [1 .. Len(s) -> Ops]
  BY <1>1, <1>2
<1> QED
  BY <1>1, <1>3, SeqDef

\* The stream holds launches and frees only, whatever threads, plans and
\* calls there are, and a thread in no call has nothing to launch.
THEOREM StreamTypeCorrect == Spec => []TypeOK
<1>1. IInv => TypeOK
  <2> SUFFICES ASSUME IInv
               PROVE  TypeOK
    OBVIOUS
  <2>1. Shape /\ ThreadsOK
    BY DEF IInv
  <2>2. stream \in Seq(Ops)
    BY <2>1, OpsOfASequence DEF Shape
  <2>3. th \in [Threads -> [todo : Seq(Ops), plan : Plans \cup {None}, call : Calls \cup {None}]]
    <3> DEFINE R == [todo : Seq(WfOps), plan : Plans \cup {None}, call : Calls \cup {None}]
               T == [todo : Seq(Ops), plan : Plans \cup {None}, call : Calls \cup {None}]
    <3>1. th \in [Threads -> R]
      BY <2>1 DEF ThreadsOK
    <3>2. \A r \in R : r \in T
      BY OpsOfASequence
    <3>3. th \in [Threads -> T]
      <4> HIDE DEF R, T
      <4> QED
        BY <3>1, <3>2
    <3> QED
      BY <3>3
  <2>4. \A t \in Threads : th[t].plan = None => th[t] = Idle
    BY <2>1, ThreadState, StreamAssumption DEF ThreadsOK
  <2> QED
    BY <2>1, <2>2, <2>3, <2>4 DEF TypeOK, Shape
<1> QED
  BY <1>1, StreamInductive, PTL

\* The rows of the accumulators that a schedule uses are allocated: the
\* borders of the parts never add more splits than there are rows for.
THEOREM RowsAllocated == Spec => []SplitRowsAreAllocated
<1>1. IInv => SplitRowsAreAllocated
  <2> SUFFICES ASSUME IInv, NEW p \in Plans, sched[p] # None
               PROVE  /\ \A r \in SplitRows(sched[p]) : r < AccumRows(p)
                      /\ Parts[p] = 1 => SplitRows(sched[p]) = {}
    BY DEF SplitRowsAreAllocated
  <2>1. sched[p] \in Schedules(p)
    BY DEF IInv, Shape
  <2>2. /\ \A r \in SplitRows(sched[p]) : r \in RowIds(p) /\ r < Batch + Parts[p] - 1
        /\ Parts[p] = 1 => SplitRows(sched[p]) = {}
    BY <2>1, RowsOfASchedule
  <2>3. Batch \in Nat /\ Parts[p] \in Nat
    BY StreamAssumption
  <2> QED
    BY <2>2, <2>3 DEF AccumRows, RowIds
<1> QED
  BY <1>1, StreamInductive, PTL

\* What the device executes next uses nothing that is freed: a free is
\* enqueued once, by an owner whom no call in progress lends its buffer to.
THEOREM UseBeforeFree == Spec => []NoUseAfterFree
<1>1. IInv => NoUseAfterFree
  <2> SUFFICES ASSUME IInv, stream # <<>>
               PROVE  Touches(Head(stream)) \cap freed = {}
    BY DEF NoUseAfterFree
  <2>1. 1 \in 1 .. Len(stream) /\ Head(stream) = stream[1]
    BY Tailed DEF IInv, Shape
  <2> QED
    BY <2>1 DEF IInv, FreesOK
<1> QED
  BY <1>1, StreamInductive, PTL

\* A call that succeeded has its own outputs, on any number of threads,
\* plans and parts.
THEOREM SuccessIsOwn == Spec => []SuccessIsNeverGarbage
<1>1. IInv => SuccessIsNeverGarbage
  BY DEF IInv, RowsOK, Sound, SuccessIsNeverGarbage
<1> QED
  BY <1>1, StreamInductive, PTL

-----------------------------------------------------------------------------
(* What is gone is freed, or its free is on its way.                       *)

FreeQueued(b) == \E i \in 1 .. Len(stream) : stream[i] = Free(b)
GoneIsFreed == \A b \in Plans \cup Calls : Gone(b) => b \in freed \/ FreeQueued(b)

\* A step that enqueues one operation and drops at most what it frees.
LEMMA GoneGrows ==
    ASSUME stream \in Seq(WfOps), GoneIsFreed, NEW o \in WfOps,
           stream' = Append(stream, o), freed' = freed,
           \A b \in Plans \cup Calls : Gone(b)' => Gone(b) \/ o = Free(b)
    PROVE  GoneIsFreed'
<1>1. /\ Len(stream) \in Nat /\ Len(stream') = Len(stream) + 1
      /\ \A i \in 1 .. Len(stream) : stream'[i] = stream[i]
      /\ stream'[Len(stream) + 1] = o
  BY StreamGrows
<1> SUFFICES ASSUME NEW b \in Plans \cup Calls, Gone(b)'
             PROVE  b \in freed' \/ \E i \in 1 .. Len(stream') : stream'[i] = Free(b)
  BY DEF GoneIsFreed, FreeQueued, Free
<1>2. CASE o = Free(b)
  BY <1>1, <1>2
<1>3. CASE Gone(b)
  <2>1. CASE b \in freed
    BY <2>1
  <2>2. ASSUME NEW i \in 1 .. Len(stream), stream[i] = Free(b)
        PROVE  \E k \in 1 .. Len(stream') : stream'[k] = Free(b)
    <3>1. i \in 1 .. Len(stream') /\ stream'[i] = Free(b)
      BY <1>1, <2>2
    <3> QED
      BY <3>1
  <2> QED
    BY <1>3, <2>1, <2>2 DEF GoneIsFreed, FreeQueued
<1> QED
  BY <1>2, <1>3

\* A step that enqueues and drops nothing.
LEMMA GoneSame ==
    ASSUME GoneIsFreed, stream' = stream, freed' = freed,
           \A b \in Plans \cup Calls : Gone(b)' => Gone(b)
    PROVE  GoneIsFreed'
BY DEF GoneIsFreed, FreeQueued, Free

\* A buffer has one free, which the device executes when it reaches it.
LEMMA GoneShrinks ==
    ASSUME IInv, GoneIsFreed, Exec
    PROVE  GoneIsFreed'
<1>1. /\ Len(stream) \in Nat /\ Len(stream') = Len(stream) - 1
      /\ \A i \in 1 .. Len(stream') : i + 1 \in 1 .. Len(stream) /\ stream'[i] = stream[i + 1]
      /\ Head(stream) = stream[1]
  BY StreamShrinks DEF IInv, Shape, Exec
<1>2. /\ UNCHANGED <<plan, status>> /\ freed \subseteq freed'
      /\ Head(stream).op = "free" => freed' = freed \cup Touches(Head(stream))
  BY DEF Exec, host, RunMeta, RunDecode, RunCombine, RunFree
<1> SUFFICES ASSUME NEW b \in Plans \cup Calls, Gone(b), b \notin freed
             PROVE  b \in freed' \/ \E k \in 1 .. Len(stream') : stream'[k] = Free(b)
  BY <1>2 DEF GoneIsFreed, FreeQueued, Free, Gone
<1>3. PICK i \in 1 .. Len(stream) : stream[i] = Free(b)
  BY DEF GoneIsFreed, FreeQueued
<1>4. CASE i = 1
  <2>1. Head(stream) = Free(b)
    BY <1>1, <1>3, <1>4
  <2>2. Free(b).op = "free" /\ Touches(Free(b)) = {b}
    BY FreeOps
  <2> QED
    BY <1>2, <2>1, <2>2
<1>5. CASE i # 1
  <2>1. i - 1 \in 1 .. Len(stream') /\ (i - 1) + 1 = i
    BY <1>1, <1>5
  <2>2. stream'[i - 1] = stream[(i - 1) + 1]
    BY <1>1, <2>1
  <2> QED
    BY <1>3, <2>1, <2>2
<1> QED
  BY <1>4, <1>5

\* The end of a call that fails frees what it drops.
LEMMA GoneReturnErr ==
    ASSUME IInv, GoneIsFreed, NEW t \in Threads, th[t].plan # None, ReturnErr(t)
    PROVE  GoneIsFreed'
<1>1. Shape /\ ThreadsOK /\ stream \in Seq(WfOps)
  BY DEF IInv, Shape
<1>2. PICK b : b = IF th[t].call = None THEN th[t].plan ELSE th[t].call
  OBVIOUS
<1>3. b \in Plans \cup Calls
  BY <1>1, <1>2, ThreadState
<1>4. stream' = Append(stream, Free(b)) /\ freed' = freed
  BY <1>2 DEF ReturnErr, DropLocals, device
<1>5. /\ \A p \in Plans : plan'[p] = plan[p] \/ p = b
      /\ \A c \in Calls : status'[c] = status[c] \/ c = b
  BY <1>1, <1>2 DEF ReturnErr, Shape
<1>6. \A d \in Plans \cup Calls : Gone(d)' => Gone(d) \/ d = b
  BY <1>5 DEF Gone
<1> QED
  BY <1>1, <1>3, <1>4, <1>6, FreeOps, GoneGrows

LEMMA GoneDropPlan ==
    ASSUME IInv, GoneIsFreed, NEW p \in Plans, DropPlan(p)
    PROVE  GoneIsFreed'
<1>1. Shape /\ stream \in Seq(WfOps)
  BY DEF IInv, Shape
<1>2. /\ stream' = Append(stream, Free(p)) /\ freed' = freed
      /\ \A q \in Plans : plan'[q] = plan[q] \/ q = p
      /\ status' = status
  BY <1>1 DEF DropPlan, device, Shape
<1>3. \A d \in Plans \cup Calls : Gone(d)' => Gone(d) \/ d = p
  BY <1>2 DEF Gone
<1> QED
  BY <1>1, <1>2, <1>3, FreeOps, GoneGrows

LEMMA GoneDropOutput ==
    ASSUME IInv, GoneIsFreed, NEW c \in Calls, DropOutput(c)
    PROVE  GoneIsFreed'
<1>1. Shape /\ stream \in Seq(WfOps)
  BY DEF IInv, Shape
<1>2. /\ stream' = Append(stream, Free(c)) /\ freed' = freed
      /\ \A d \in Calls : status'[d] = status[d] \/ d = c
      /\ plan' = plan
  BY <1>1 DEF DropOutput, device, Shape
<1>3. \A d \in Plans \cup Calls : Gone(d)' => Gone(d) \/ d = c
  BY <1>2 DEF Gone
<1> QED
  BY <1>1, <1>2, <1>3, FreeOps, GoneGrows

\* A launch enqueues an operation and drops nothing.
LEMMA GoneLaunch ==
    ASSUME IInv, GoneIsFreed, NEW t \in Threads, Launch(t)
    PROVE  GoneIsFreed'
<1>1. Shape /\ ThreadsOK /\ stream \in Seq(WfOps)
  BY DEF IInv, Shape
<1>2. th[t].todo \in Seq(WfOps) /\ th[t].todo # <<>>
  BY <1>1 DEF ThreadsOK, Launch
<1>3. Head(th[t].todo) \in WfOps
  BY <1>2, Tailed
<1>4. /\ stream' = Append(stream, Head(th[t].todo)) /\ freed' = freed
      /\ plan' = plan /\ status' = status
  BY DEF Launch, device
<1>5. \A d \in Plans \cup Calls : Gone(d)' => Gone(d)
  BY <1>4 DEF Gone
<1> QED
  BY <1>1, <1>3, <1>4, <1>5, GoneGrows

\* A step that begins a call or a plan, or returns without an error.
LEMMA GoneElsewhere ==
    ASSUME IInv, GoneIsFreed,
           \/ \E t \in Threads : \E p \in Plans : PlanBegin(t, p)
           \/ \E t \in Threads : \E p \in Plans, c \in Calls : DecodeBegin(t, p, c)
           \/ \E t \in Threads : LaunchFails(t)
           \/ \E t \in Threads : th[t].plan # None /\ ReturnOk(t)
           \/ UNCHANGED vars
    PROVE  GoneIsFreed'
<1>1. Shape
  BY DEF IInv
<1>2. stream' = stream /\ freed' = freed
  BY DEF PlanBegin, DecodeBegin, LaunchFails, ReturnOk, device, vars
<1>3. \A p \in Plans : plan'[p] = "dropped" => plan[p] = "dropped"
  BY <1>1 DEF PlanBegin, DecodeBegin, LaunchFails, ReturnOk, host, vars, Shape
<1>4. \A c \in Calls : status'[c] \in {"err", "dropped"} => status[c] = status'[c]
  BY <1>1 DEF PlanBegin, DecodeBegin, LaunchFails, ReturnOk, host, vars, Shape
<1> QED
  BY <1>2, <1>3, <1>4, GoneSame DEF Gone

LEMMA GoneNext ==
    ASSUME IInv, GoneIsFreed, [Next]_vars
    PROVE  GoneIsFreed'
<1>1. ASSUME NEW t \in Threads, CallThrows(t) \/ CallReturns(t)
      PROVE  GoneIsFreed'
  <2>1. th[t].plan # None
    BY <1>1, ThreadState, StreamAssumption DEF IInv, ThreadsOK, CallThrows, CallReturns
  <2> QED
    BY <1>1, <2>1, GoneReturnErr, GoneElsewhere DEF CallThrows, CallReturns
<1> QED
  BY <1>1, GoneLaunch, GoneElsewhere, GoneDropPlan, GoneDropOutput, GoneShrinks DEF Next

\* Once the stream is idle the outputs of every call that succeeded are its
\* own, and what is freed is what was dropped or failed, no more and no less:
\* every drop enqueues a free, and a call returns after its combine is.
THEOREM NothingLeftWhenIdle == Spec => []AllDoneWhenIdle
<1>1. Init => GoneIsFreed
  BY DEF Init, GoneIsFreed, Gone
<1>2. IInv /\ GoneIsFreed /\ [Next]_vars => GoneIsFreed'
  BY GoneNext
<1>3. IInv /\ GoneIsFreed => AllDoneWhenIdle
  <2> SUFFICES ASSUME IInv, GoneIsFreed, stream = <<>>
               PROVE  /\ \A c \in Calls : status[c] \in {"ok", "dropped"} => output[c] = "own"
                      /\ freed = {p \in Plans : plan[p] = "dropped"}
                                 \cup {c \in Calls : status[c] \in {"err", "dropped"}}
    BY DEF AllDoneWhenIdle
  <2>1. \A i : i \notin 1 .. Len(stream)
    BY DEF IInv, Shape
  <2>2. \A c \in Calls : status[c] \in {"ok", "dropped"} => output[c] = "own"
    BY <2>1 DEF IInv, OrderOK, CallsOK, Combined
  <2>3. \A b \in Plans \cup Calls : b \in freed <=> Gone(b)
    BY <2>1 DEF IInv, FreesOK, GoneIsFreed, FreeQueued
  <2>4. freed \subseteq Plans \cup Calls
    BY DEF IInv, Shape
  <2> QED
    BY <2>2, <2>3, <2>4 DEF Gone
<1> QED
  BY <1>1, <1>2, <1>3, StreamInductive, PTL DEF Spec

-----------------------------------------------------------------------------
(* The steps of DecodeService.                                             *)

Done == {c \in Calls : output[c] = "own"}
Reported == [c \in Calls |-> IF status[c] = "dropped" THEN "ok" ELSE status[c]]

\* A step that neither begins nor ends a call nor executes a combine.
LEMMA ServiceStutters ==
    ASSUME Reported' = Reported, before' = before, Done' = Done
    PROVE  Service!Next \/ UNCHANGED Service!vars
BY DEF Service!vars, Reported, Done

\* DecodeBegin begins a call of the service.
LEMMA ServiceBegins ==
    ASSUME IInv, NEW t \in Threads, NEW p \in Plans, NEW c \in Calls, DecodeBegin(t, p, c)
    PROVE  Service!Begin(c)
<1>1. /\ status[c] = "new"
      /\ status' = [status EXCEPT ![c] = "running"]
      /\ before' = [before EXCEPT ![c] = {d \in Calls : status[d] \in {"ok", "dropped"}}]
      /\ output' = output
  BY DEF DecodeBegin, device
<1>2. DOMAIN status = Calls
  BY DEF IInv, Shape
<1>3. Reported' = [Reported EXCEPT ![c] = "running"] /\ Reported[c] = "new"
  BY <1>1, <1>2 DEF Reported
<1>4. {d \in Calls : status[d] \in {"ok", "dropped"}} = {d \in Calls : Reported[d] = "ok"}
  BY DEF Reported
<1>5. before' = [before EXCEPT ![c] = {d \in Calls : Reported[d] = "ok"}]
  BY <1>1, <1>4
<1>6. Done' = Done
  BY <1>1 DEF Done
<1> QED
  BY <1>3, <1>5, <1>6 DEF Service!Begin, Reported, Done

\* A return is a return of the service.
LEMMA ServiceReturns ==
    ASSUME IInv, NEW c \in Calls, status[c] = "running", NEW s \in {"ok", "err"},
           status' = [status EXCEPT ![c] = s], before' = before, output' = output
    PROVE  Service!Return(c, s)
<1>1. DOMAIN status = Calls
  BY DEF IInv, Shape
<1>2. Reported' = [Reported EXCEPT ![c] = s] /\ Reported[c] = "running"
  BY <1>1 DEF Reported
<1>3. Done' = Done
  BY DEF Done
<1> QED
  BY <1>2, <1>3 DEF Service!Return, Reported, Done

\* The device executes the combine of a call after the combines of the calls
\* that had succeeded when it began, and once.
LEMMA ServiceWrites ==
    ASSUME IInv, stream # <<>>, UNCHANGED <<status, before>>, RunCombine(Head(stream))
    PROVE  Done' = Done \/ \E c \in Calls : Service!Write(c)
<1>0. PICK p, c : p = Head(stream).plan /\ c = Head(stream).call
  OBVIOUS
<1>1. Shape /\ OrderOK
  BY DEF IInv
<1>2. /\ Len(stream) \in Nat /\ 1 \in 1 .. Len(stream)
      /\ Head(stream) = stream[1] /\ Head(stream) \in WfOps
  BY <1>1, Tailed DEF Shape
<1>3. /\ Head(stream).op = "combine" /\ c \in Calls /\ Combines(1, c)
  BY <1>0, <1>2, Operations DEF RunCombine, Combines
<1>4. output' = [output EXCEPT ![c] = IF CombinesOwn(p, c) THEN "own" ELSE "garbage"]
  BY <1>0 DEF RunCombine
<1>5. output[c] = "unwritten" /\ DOMAIN output = Calls
  BY <1>0, <1>1, <1>2, <1>3 DEF OrderOK, CombinedOnce, Shape
<1>6. CASE ~CombinesOwn(p, c)
  <2>1. \A d \in Calls : output'[d] = IF d = c THEN "garbage" ELSE output[d]
    BY <1>4, <1>5, <1>6
  <2>2. \A d \in Calls : output'[d] = "own" <=> output[d] = "own"
    BY <1>5, <2>1
  <2> QED
    BY <2>2 DEF Done
<1>7. CASE CombinesOwn(p, c)
  <2>1. Done' = Done \cup {c} /\ c \notin Done
    BY <1>3, <1>4, <1>5, <1>7 DEF Done
  <2>2. Reported' = Reported /\ Reported[c] # "new"
    <3>1. status[c] # "new"
      BY <1>1, <1>2, <1>3 DEF OrderOK, NewOK, Combines
    <3> QED
      BY <1>3, <3>1 DEF Reported
  <2>3. before[c] \subseteq Done
    <3> SUFFICES ASSUME NEW d \in before[c]
                 PROVE  d \in Done
      OBVIOUS
    <3>1. d \in Calls
      BY <1>1, <1>3 DEF Shape
    <3>2. /\ status[d] \in {"ok", "dropped"}
          /\ \A i \in 1 .. Len(stream) : Combines(i, d) => i < 1
      BY <1>1, <1>2, <1>3 DEF OrderOK, BeforeOK
    <3>3. Combined(d) /\ \A i \in 1 .. Len(stream) : ~Combines(i, d)
      BY <1>1, <1>2, <3>1, <3>2 DEF OrderOK, CallsOK
    <3> QED
      BY <3>1, <3>3 DEF Combined, Done
  <2>4. Service!Write(c)
    BY <2>1, <2>2, <2>3 DEF Service!Write, Reported, Done
  <2> QED
    BY <1>3, <2>4
<1> QED
  BY <1>6, <1>7

\* Every step is a step of the service or a stutter.
LEMMA ServiceStep ==
    ASSUME IInv, [Next]_vars
    PROVE  Service!Next \/ UNCHANGED Service!vars
<1>1. ASSUME NEW t \in Threads, NEW p \in Plans, PlanBegin(t, p)
      PROVE  Service!Next \/ UNCHANGED Service!vars
  BY <1>1, ServiceStutters DEF PlanBegin, device, Reported, Done
<1>2. ASSUME NEW t \in Threads, NEW p \in Plans, NEW c \in Calls, DecodeBegin(t, p, c)
      PROVE  Service!Next \/ UNCHANGED Service!vars
  BY <1>2, ServiceBegins DEF Service!Next
<1>3. ASSUME NEW t \in Threads, Launch(t) \/ LaunchFails(t)
      PROVE  Service!Next \/ UNCHANGED Service!vars
  BY <1>3, ServiceStutters DEF Launch, LaunchFails, device, Reported, Done
<1>4. ASSUME NEW t \in Threads, th[t].plan # None, ReturnErr(t) \/ ReturnOk(t)
      PROVE  Service!Next \/ UNCHANGED Service!vars
  <2>1. before' = before /\ output' = output
    BY <1>4 DEF ReturnErr, ReturnOk, device
  <2>2. CASE th[t].call = None
    <3>1. status' = status
      BY <1>4, <2>2 DEF ReturnErr, ReturnOk
    <3> QED
      BY <2>1, <3>1, ServiceStutters DEF Reported, Done
  <2>3. CASE th[t].call # None
    <3>1. PICK c : c = th[t].call
      OBVIOUS
    <3>2. c \in Calls /\ status[c] = "running"
      BY <2>3, <3>1, ThreadState DEF IInv
    <3>3. \E s \in {"ok", "err"} : status' = [status EXCEPT ![c] = s]
      BY <1>4, <2>3, <3>1 DEF ReturnErr, ReturnOk
    <3> QED
      BY <2>1, <3>2, <3>3, ServiceReturns DEF Service!Next
  <2> QED
    BY <2>2, <2>3
<1>5. ASSUME NEW t \in Threads, CallThrows(t) \/ CallReturns(t)
      PROVE  Service!Next \/ UNCHANGED Service!vars
  <2>1. th[t].plan # None
    BY <1>5, ThreadState, StreamAssumption DEF IInv, ThreadsOK, CallThrows, CallReturns
  <2> QED
    BY <1>4, <1>5, <2>1 DEF CallThrows, CallReturns
<1>6. ASSUME NEW p \in Plans, DropPlan(p)
      PROVE  Service!Next \/ UNCHANGED Service!vars
  BY <1>6, ServiceStutters DEF DropPlan, device, Reported, Done
<1>7. ASSUME NEW c \in Calls, DropOutput(c)
      PROVE  Service!Next \/ UNCHANGED Service!vars
  <2>1. /\ status[c] = "ok" /\ status' = [status EXCEPT ![c] = "dropped"]
        /\ before' = before /\ output' = output
    BY <1>7 DEF DropOutput, device
  <2>2. DOMAIN status = Calls
    BY DEF IInv, Shape
  <2>3. \A d \in Calls : Reported[d] = (IF status'[d] = "dropped" THEN "ok" ELSE status'[d])
    BY <2>1, <2>2 DEF Reported
  <2>4. Reported' = Reported /\ Done' = Done
    BY <2>1, <2>3 DEF Reported, Done
  <2> QED
    BY <2>1, <2>4, ServiceStutters
<1>8. ASSUME Exec
      PROVE  Service!Next \/ UNCHANGED Service!vars
  <2>1. /\ stream # <<>> /\ status' = status /\ before' = before
        /\ LET o == Head(stream)
           IN  RunMeta(o) \/ RunDecode(o) \/ RunCombine(o) \/ RunFree(o)
    BY <1>8 DEF Exec, host
  <2>2. Reported' = Reported
    BY <2>1 DEF Reported
  <2>3. CASE ~RunCombine(Head(stream))
    <3>1. output' = output
      BY <2>1, <2>3 DEF RunMeta, RunDecode, RunFree
    <3> QED
      BY <2>1, <2>2, <3>1, ServiceStutters DEF Done
  <2>4. CASE RunCombine(Head(stream))
    <3>1. Done' = Done \/ \E c \in Calls : Service!Write(c)
      BY <2>1, <2>4, ServiceWrites
    <3> QED
      BY <2>1, <2>2, <3>1, ServiceStutters DEF Service!Next
  <2> QED
    BY <2>3, <2>4
<1>9. CASE UNCHANGED vars
  BY <1>9, ServiceStutters DEF vars, host, device, Reported, Done
<1> QED
  BY <1>1, <1>2, <1>3, <1>5, <1>6, <1>7, <1>8, <1>9 DEF Next

\* Threads, plans and stream implement DecodeService, its safety part: what
\* a call may return, and that its outputs are on the device only after
\* those of the calls that had succeeded when it began.
THEOREM ImplementsServiceSafety ==
    Spec => Service!Init /\ [][Service!Next]_(Service!vars)
<1>1. Init => Service!Init
  <2> SUFFICES ASSUME Init
               PROVE  Service!Init
    OBVIOUS
  <2>1. /\ Reported = [c \in Calls |-> "new"] /\ Done = {}
        /\ before = [c \in Calls |-> {}]
    BY DEF Init, Reported, Done
  <2> QED
    BY <2>1 DEF Service!Init, Reported, Done
<1>2. IInv /\ [Next]_vars => [Service!Next]_(Service!vars)
  BY ServiceStep
<1> QED
  BY <1>1, <1>2, StreamInductive, PTL DEF Spec
=============================================================================
