----------------------- MODULE TensorGuardsOrderProofs -----------------------
(***************************************************************************)
(* Proofs about TensorGuards: the invariant Ordered on what is queued,     *)
(* captured and recorded, and that a call reads what its inputs were given,*)
(* for any storages, calls, streams and numbers of refills and replays.    *)
(***************************************************************************)
EXTENDS TensorGuards, SequenceTheorems, TLAPS

-----------------------------------------------------------------------------
(* The inductive invariant.                                                *)

M == queue[Main]
IsOp(o, op, b) == o.op = op /\ o.buf = b
Active == {"lock", "point", "launch", "end"}

CallType == [step : Active \cup {"new", "ok", "err", "dropped"}, n : Nat, ok : BOOLEAN]

HostShape ==
    /\ tracking \in BOOLEAN
    /\ call \in [Calls -> CallType]
    /\ readers \in [Inputs -> SUBSET Calls]
    /\ writer \in [Inputs -> Streams \cup {None}]
    /\ dropped \in SUBSET Inputs
    /\ version \in [Inputs -> Nat]
    /\ recorded \in [Inputs -> [Kinds -> Nat]]
    /\ replays \in 0 .. MaxReplays
    /\ tape # None => tape \in Seq(CallOperations)
    /\ graph # None => graph \in Seq(CallOperations)

DeviceShape ==
    /\ queue \in [Streams -> Seq(Operations)]
    /\ done \in SUBSET Events
    /\ live \in SUBSET (Inputs \cup Calls)
    /\ content = [b \in Inputs \cup Calls |-> content[b]]
    /\ \A b \in Inputs : content[b] \in Nat /\ content[b] <= version[b]
    /\ \A s \in Streams \ {Main} : \A i \in 1 .. Len(queue[s]) :
           queue[s][i].op \in {"fill", "wait", "record"}
    /\ ~tracking => \A s \in Streams \ {Main} : queue[s] = <<>>

Shape == HostShape /\ DeviceShape

\* A call holds the locks of what it locked so far, of all its inputs once it
\* has them, and reads nothing that was dropped.
CallsOK ==
    \A c \in Calls :
        /\ call[c].n <= Len(Reads[c])
        /\ call[c].step = "new" => call[c].n = 0
        /\ call[c].step = "lock" =>
               /\ call[c].n < Len(Reads[c])
               /\ \A b \in FirstReads(c, call[c].n) : c \in readers[b]
        /\ call[c].step \in {"point", "launch", "end"} =>
               \A b \in ReadsOf(c) : c \in readers[b]
        /\ call[c].step = "launch" \/ call[c].ok => call[c].n = Len(Reads[c])
        /\ call[c].ok = (call[c].step \in {"ok", "dropped"} \/ (call[c].step = "end" /\ call[c].ok))
        /\ \A b \in Inputs : c \in readers[b] => call[c].step \in Active
        /\ call[c].step \in Active => ReadsOf(c) \cap dropped = {}

\* Without events everything is on one stream.  A capture has the program to
\* itself.
ModeOK ==
    /\ tracking => ~Capturing /\ graph = None
    /\ tracking => \A b \in Inputs : recorded[b]["write"] = version[b]
    /\ ~tracking => \A b \in Inputs : writer[b] \in {Main, None}
    /\ Capturing => graph = None /\ \A b \in Inputs : writer[b] = None
    /\ replays > 0 => graph # None
    /\ \A b \in dropped : writer[b] = None

\* When the operation at place i of stream s is executed, fill n of b is done:
\* it is, or something before i is or waits for it.
Fills(s, i, b, n) == IsOp(queue[s][i], "fill", b) /\ queue[s][i].value = n
Waits(s, i, e) == queue[s][i].op = "wait" /\ e \in queue[s][i].events
Records(s, i, e) == queue[s][i].op = "record" /\ e \in queue[s][i].events

Knows(s, i, b, n) ==
    \/ content[b] >= n
    \/ \E k \in 1 .. i - 1 : Fills(s, k, b, n) \/ Waits(s, k, <<b, "write", n>>)

\* Fills of a storage are done one by one.
FillsOK ==
    \A s \in Streams : \A i \in 1 .. Len(queue[s]) : \A b \in Inputs : \A n \in Nat :
        Fills(s, i, b, n) =>
            /\ content[b] < n /\ n <= version[b]
            /\ Knows(s, i, b, n - 1)
            /\ \A t \in Streams : \A j \in 1 .. Len(queue[t]) :
                   Fills(t, j, b, n) => t = s /\ j = i

\* Records are numbered, and one of a write follows the write.
RecordsOK ==
    /\ \A s \in Streams : \A i \in 1 .. Len(queue[s]) : \A e \in Events :
           Records(s, i, e) =>
               /\ e[3] <= recorded[e[1]][e[2]] /\ e \notin done
               /\ e[2] = "write" => Knows(s, i, e[1], e[3])
               /\ \A t \in Streams : \A j \in 1 .. Len(queue[t]) :
                      Records(t, j, e) => t = s /\ j = i
    /\ \A e \in done : e[3] <= recorded[e[1]][e[2]]
                       /\ (e[2] = "write" => content[e[1]] >= e[3])

\* What is at place j of s waits for a read of b that follows place i of the
\* main stream.
After(i, s, j, b) ==
    \/ s = Main /\ i < j
    \/ \E n \in 1 .. recorded[b]["read"] :
           /\ \E k \in i + 1 .. Len(M) : Records(Main, k, <<b, "read", n>>)
           /\ \E k \in 1 .. j - 1 : Waits(s, k, <<b, "read", n>>)

\* A decode is after the fills it was given and before all later ones.
Given(i, c, b, g) == IsOp(M[i], "decode", c) /\ M[i].given[b] = g

DecodesOK ==
    \A i \in 1 .. Len(M) : \A c \in Calls : \A b \in ReadsOf(c) : \A g \in Nat :
        Given(i, c, b, g) =>
            /\ content[b] <= g /\ g <= version[b]
            /\ Knows(Main, i, b, g)
            /\ \A s \in Streams : \A j \in 1 .. Len(queue[s]) : \A n \in Nat :
                   Fills(s, j, b, n) /\ n > g => After(i, s, j, b)

\* A decode's call still holds its locks, or the latest record follows it.
HeldOK ==
    tracking => \A i \in 1 .. Len(M) : \A c \in Calls : \A b \in ReadsOf(c) :
        IsOp(M[i], "decode", c) =>
            \/ c \in readers[b] /\ call[c].ok
            \/ /\ recorded[b]["read"] > 0
               /\ \E k \in i + 1 .. Len(M) : Records(Main, k, <<b, "read", recorded[b]["read"]>>)

\* What is enqueued next on the main stream comes after every fill.
KnowsNow(b) == Knows(Main, Len(M) + 1, b, version[b])

NextOK ==
    /\ ~tracking => \A b \in Inputs : KnowsNow(b)
    /\ \A c \in Calls : call[c].step = "launch" => \A b \in ReadsOf(c) : KnowsNow(b)

Ordered ==
    /\ Shape /\ CallsOK /\ ModeOK
    /\ FillsOK /\ RecordsOK /\ DecodesOK /\ HeldOK /\ NextOK

-----------------------------------------------------------------------------
(* Operations and sequences.                                               *)

\* What the fields of an operation are.
LEMMA OperationFields ==
    ASSUME NEW o \in Operations
    PROVE  /\ o.op \in {"alloc", "free", "copy", "decode", "fill", "wait", "record"}
           /\ o.op \in {"alloc", "copy", "decode"} => o.buf \in Calls
           /\ o.op = "free" => o.buf \in Inputs \cup Calls
           /\ o.op = "decode" => o.given \in [Inputs -> Nat]
           /\ o.op = "fill" => o.buf \in Inputs /\ o.value \in Nat
           /\ o.op \in {"wait", "record"} => o.events \in SUBSET Events
BY DEF Operations, CallOperations

LEMMA CallOperationFields ==
    ASSUME NEW o \in CallOperations
    PROVE  /\ o \in Operations
           /\ o.op \in {"alloc", "free", "copy", "decode"}
           /\ o.buf \in Calls
           /\ o.op = "decode" => o.given \in [Inputs -> Nat]
           /\ o.op = "copy" => o = Copy(o.buf)
           /\ o.op # "decode" => o \in [op : {"alloc", "free", "copy"}, buf : Calls]
BY DEF Operations, CallOperations, Copy

\* What is enqueued.
LEMMA CallOps ==
    ASSUME NEW c \in Calls, version \in [Inputs -> Nat]
    PROVE  /\ Alloc(c) \in CallOperations /\ IsOp(Alloc(c), "alloc", c)
           /\ Free(c) \in CallOperations /\ IsOp(Free(c), "free", c)
           /\ Copy(c) \in CallOperations /\ IsOp(Copy(c), "copy", c)
           /\ Decode(c) \in CallOperations /\ IsOp(Decode(c), "decode", c)
           /\ Decode(c).given = version
BY DEF CallOperations, Alloc, Free, Copy, Decode, IsOp

LEMMA InputOps ==
    ASSUME NEW b \in Inputs, version \in [Inputs -> Nat]
    PROVE  /\ Free(b) \in Operations /\ IsOp(Free(b), "free", b)
           /\ Fill(b) \in Operations /\ IsOp(Fill(b), "fill", b)
           /\ Fill(b).value = version[b] + 1
BY DEF Operations, Free, Fill, IsOp

\* Sequences of up to two parts, element by element.
LEMMA Singleton ==
    ASSUME NEW S, NEW o \in S
    PROVE  <<o>> \in Seq(S) /\ Len(<<o>>) = 1 /\ <<o>>[1] = o
OBVIOUS

LEMMA Concatenated ==
    ASSUME NEW S, NEW r \in Seq(S), NEW t \in Seq(S)
    PROVE  /\ r \o t \in Seq(S)
           /\ Len(r) \in Nat /\ Len(t) \in Nat
           /\ Len(r \o t) = Len(r) + Len(t)
           /\ \A i \in 1 .. Len(r) : (r \o t)[i] = r[i]
           /\ \A i \in 1 .. Len(t) : (r \o t)[Len(r) + i] = t[i]
<1>1. Len(r) \in Nat /\ Len(t) \in Nat
  BY LenProperties
<1>2. /\ r \o t \in Seq(S)
      /\ Len(r \o t) = Len(r) + Len(t)
      /\ \A i \in 1 .. Len(r) + Len(t) :
             (r \o t)[i] = IF i <= Len(r) THEN r[i] ELSE t[i - Len(r)]
  BY ConcatProperties
<1>3. ASSUME NEW i \in 1 .. Len(t)
      PROVE  (r \o t)[Len(r) + i] = t[i]
  <2>1. Len(r) + i \in 1 .. Len(r) + Len(t) /\ ~(Len(r) + i <= Len(r)) /\ Len(r) + i - Len(r) = i
    BY <1>1
  <2> QED
    BY <1>2, <2>1
<1> QED
  BY <1>1, <1>2, <1>3

LEMMA Tailed ==
    ASSUME NEW S, NEW s \in Seq(S), s # <<>>
    PROVE  /\ Len(s) \in Nat /\ Len(s) >= 1
           /\ Head(s) = s[1] /\ Head(s) \in S
           /\ Tail(s) \in Seq(S)
           /\ Len(Tail(s)) = Len(s) - 1
           /\ \A i \in 1 .. Len(s) - 1 : Tail(s)[i] = s[i + 1]
BY HeadTailProperties, LenProperties, EmptySeq

\* The operations that wait and that record.
LEMMA WaitOps ==
    ASSUME NEW bs \in SUBSET Inputs, NEW ks \in SUBSET Kinds,
           recorded \in [Inputs -> [Kinds -> Nat]]
    PROVE  /\ Wait(bs, ks) \in Seq(Operations)
           /\ \A i \in 1 .. Len(Wait(bs, ks)) : Wait(bs, ks)[i].op = "wait"
           /\ ~tracking => Wait(bs, ks) = <<>>
           /\ \A b \in bs : \A k \in ks : tracking /\ recorded[b][k] > 0 =>
                  /\ Len(Wait(bs, ks)) = 1
                  /\ <<b, k, recorded[b][k]>> \in Wait(bs, ks)[1].events
<1> DEFINE last == {e \in {<<b, k, recorded[b][k]>> : b \in bs, k \in ks} : tracking /\ e[3] > 0}
           o == [op |-> "wait", events |-> last]
<1>1. last \in SUBSET Events
  BY DEF Events
<1>2. o \in Operations /\ o.op = "wait" /\ o.events = last
  BY <1>1 DEF Operations
<1>3. Wait(bs, ks) = IF last = {} THEN <<>> ELSE <<o>>
  BY DEF Wait
<1>4. \A b \in bs : \A k \in ks : tracking /\ recorded[b][k] > 0 => <<b, k, recorded[b][k]>> \in last
  OBVIOUS
<1>5. ~tracking => last = {}
  OBVIOUS
<1> HIDE DEF last, o
<1>6. <<o>> \in Seq(Operations) /\ Len(<<o>>) = 1 /\ <<o>>[1] = o
  BY <1>2, Singleton
<1>7. <<>> \in Seq(Operations) /\ Len(<<>>) = 0
  BY EmptySeq
<1>8. CASE last = {}
  BY <1>3, <1>4, <1>7, <1>8
<1>9. CASE last # {}
  <2>1. Wait(bs, ks) = <<o>>
    BY <1>3, <1>9
  <2>2. \A i \in 1 .. 1 : i = 1
    OBVIOUS
  <2> QED
    BY <1>2, <1>4, <1>5, <1>6, <1>9, <2>1, <2>2
<1> QED
  BY <1>8, <1>9

LEMMA RecordOps ==
    ASSUME NEW bs \in SUBSET Inputs, NEW k \in Kinds,
           recorded \in [Inputs -> [Kinds -> Nat]]
    PROVE  /\ Record(bs, k) \in Seq(Operations)
           /\ \A i \in 1 .. Len(Record(bs, k)) :
                  /\ i = 1 /\ tracking
                  /\ Record(bs, k)[i].op = "record"
                  /\ Record(bs, k)[i].events = {<<b, k, recorded[b][k] + 1>> : b \in bs}
           /\ tracking /\ bs # {} => Len(Record(bs, k)) = 1
           /\ ~tracking => Record(bs, k) = <<>>
<1> DEFINE es == {<<b, k, recorded[b][k] + 1>> : b \in bs}
           o == [op |-> "record", events |-> es]
<1>1. es \in SUBSET Events
  BY DEF Events
<1>2. o \in Operations /\ o.op = "record" /\ o.events = es
  BY <1>1 DEF Operations
<1>3. Record(bs, k) = IF ~tracking \/ bs = {} THEN <<>> ELSE <<o>>
  BY DEF Record
<1> HIDE DEF es, o
<1>4. <<o>> \in Seq(Operations) /\ Len(<<o>>) = 1 /\ <<o>>[1] = o
  BY <1>2, Singleton
<1>5. <<>> \in Seq(Operations) /\ Len(<<>>) = 0
  BY EmptySeq
<1>6. CASE ~tracking \/ bs = {}
  BY <1>3, <1>5, <1>6
<1>7. CASE tracking /\ bs # {}
  <2>1. \A i \in 1 .. 1 : i = 1
    OBVIOUS
  <2> QED
    BY <1>2, <1>3, <1>4, <1>7, <2>1 DEF es
<1> QED
  BY <1>6, <1>7

\* What Recorded does to the numbers.
LEMMA RecordedBy ==
    ASSUME NEW bs \in SUBSET Inputs, NEW k \in Kinds,
           recorded \in [Inputs -> [Kinds -> Nat]], Recorded(bs, k)
    PROVE  /\ recorded' \in [Inputs -> [Kinds -> Nat]]
           /\ tracking => \A b \in bs : recorded'[b][k] = recorded[b][k] + 1
           /\ \A b \in Inputs : \A j \in Kinds :
                  ~(tracking /\ b \in bs /\ j = k) => recorded'[b][j] = recorded[b][j]
<1>1. \A b \in Inputs : [recorded[b] EXCEPT ![k] = @ + 1] \in [Kinds -> Nat]
  OBVIOUS
<1> QED
  BY <1>1 DEF Recorded

-----------------------------------------------------------------------------
(* What enqueuing preserves.  Grows: ops go to the end of stream s.        *)

Grows(s, ops) ==
    /\ queue' \in [Streams -> Seq(Operations)]
    /\ Len(ops) \in Nat
    /\ \A t \in Streams : Len(queue'[t]) = Len(queue[t]) + IF t = s THEN Len(ops) ELSE 0
    /\ \A t \in Streams : \A i \in 1 .. Len(queue[t]) : queue'[t][i] = queue[t][i]
    /\ \A i \in 1 .. Len(ops) : queue'[s][Len(queue[s]) + i] = ops[i]
    /\ \A t \in Streams \ {s} : queue'[t] = queue[t]

LEMMA MainIsAStream == Main \in Streams
BY GuardsAssumption

LEMMA QueueLengths ==
    ASSUME queue \in [Streams -> Seq(Operations)], NEW s \in Streams
    PROVE  /\ queue[s] \in Seq(Operations)
           /\ Len(queue[s]) \in Nat
           /\ \A i \in 1 .. Len(queue[s]) : queue[s][i] \in Operations
BY LenProperties, ElementOfSeq

LEMMA GrowsBy ==
    ASSUME queue \in [Streams -> Seq(Operations)], NEW s \in Streams,
           NEW ops \in Seq(Operations), queue' = [queue EXCEPT ![s] = @ \o ops]
    PROVE  Grows(s, ops)
<1>1. queue[s] \in Seq(Operations)
  OBVIOUS
<1>2. /\ queue[s] \o ops \in Seq(Operations)
      /\ Len(queue[s]) \in Nat /\ Len(ops) \in Nat
      /\ Len(queue[s] \o ops) = Len(queue[s]) + Len(ops)
      /\ \A i \in 1 .. Len(queue[s]) : (queue[s] \o ops)[i] = queue[s][i]
      /\ \A i \in 1 .. Len(ops) : (queue[s] \o ops)[Len(queue[s]) + i] = ops[i]
  BY <1>1, Concatenated
<1>3. queue'[s] = queue[s] \o ops /\ \A t \in Streams \ {s} : queue'[t] = queue[t]
  OBVIOUS
<1>4. queue' \in [Streams -> Seq(Operations)]
  BY <1>2
<1>5. \A t \in Streams : Len(queue[t]) \in Nat
  BY QueueLengths
<1> QED
  BY <1>2, <1>3, <1>4, <1>5 DEF Grows

LEMMA GrowsNot ==
    ASSUME queue \in [Streams -> Seq(Operations)], queue' = queue, NEW s \in Streams
    PROVE  Grows(s, <<>>)
<1>1. \A t \in Streams : Len(queue[t]) \in Nat
  BY QueueLengths
<1>2. Len(<<>>) = 0
  BY EmptySeq
<1> QED
  BY <1>1, <1>2 DEF Grows

\* What Enqueue puts on a stream, and on the tape.
Put(s, ops) == IF Capturing /\ s = Main THEN <<>> ELSE ops

LEMMA Enqueued ==
    ASSUME queue \in [Streams -> Seq(Operations)], NEW s \in Streams,
           NEW ops \in Seq(Operations), Enqueue(s, ops)
    PROVE  /\ Grows(s, Put(s, ops))
           /\ \A i \in 1 .. Len(Put(s, ops)) : i \in 1 .. Len(ops) /\ Put(s, ops)[i] = ops[i]
           /\ Capturing /\ s = Main => queue' = queue /\ tape' = tape \o ops
           /\ ~(Capturing /\ s = Main) => tape' = tape /\ Put(s, ops) = ops
<1>1. CASE Capturing /\ s = Main
  <2>1. Put(s, ops) = <<>> /\ Len(<<>>) = 0 /\ queue' = queue
    BY <1>1, EmptySeq DEF Put, Enqueue
  <2>2. Grows(s, <<>>)
    BY <2>1, GrowsNot
  <2> QED
    BY <1>1, <2>1, <2>2 DEF Enqueue
<1>2. CASE ~(Capturing /\ s = Main)
  <2>1. Put(s, ops) = ops /\ queue' = [queue EXCEPT ![s] = @ \o ops]
    BY <1>2 DEF Put, Enqueue
  <2>2. Grows(s, ops)
    BY <2>1, GrowsBy
  <2> QED
    BY <1>2, <2>1, <2>2 DEF Enqueue
<1> QED
  BY <1>1, <1>2

\* An operation was there or is new.
LEMMA OldOrNew ==
    ASSUME queue \in [Streams -> Seq(Operations)], NEW s \in Streams, NEW ops, Grows(s, ops),
           NEW t \in Streams
    PROVE  /\ Len(queue[t]) \in Nat /\ Len(queue'[t]) \in Nat
           /\ Len(queue'[t]) >= Len(queue[t])
           /\ \A i \in 1 .. Len(queue[t]) : /\ i \in 1 .. Len(queue'[t])
                                            /\ queue'[t][i] = queue[t][i]
                                            /\ queue[t][i] \in Operations
           /\ \A i \in 1 .. Len(queue'[t]) :
                  \/ i \in 1 .. Len(queue[t])
                  \/ /\ t = s /\ i > Len(queue[t])
                     /\ i - Len(queue[t]) \in 1 .. Len(ops)
                     /\ queue'[t][i] = ops[i - Len(queue[t])]
<1>1. /\ Len(queue[t]) \in Nat
      /\ \A i \in 1 .. Len(queue[t]) : queue[t][i] \in Operations
  BY QueueLengths
<1>2. Len(ops) \in Nat /\ Len(queue'[t]) = Len(queue[t]) + IF t = s THEN Len(ops) ELSE 0
  BY DEF Grows
<1>3. \A i \in 1 .. Len(queue[t]) : i \in 1 .. Len(queue'[t]) /\ queue'[t][i] = queue[t][i]
  BY <1>1, <1>2 DEF Grows
<1>4. ASSUME NEW i \in 1 .. Len(queue'[t]), i \notin 1 .. Len(queue[t])
      PROVE  /\ t = s /\ i > Len(queue[t])
             /\ i - Len(queue[t]) \in 1 .. Len(ops)
             /\ queue'[t][i] = ops[i - Len(queue[t])]
  <2>1. t = s /\ i > Len(queue[t]) /\ i - Len(queue[t]) \in 1 .. Len(ops)
    BY <1>1, <1>2, <1>4
  <2>2. Len(queue[s]) + (i - Len(queue[t])) = i
    BY <1>1, <2>1
  <2> QED
    BY <2>1, <2>2 DEF Grows
<1> QED
  BY <1>1, <1>2, <1>3, <1>4

\* Knows is kept when the stream grows, and for later places.
LEMMA KnowsGrows ==
    ASSUME queue \in [Streams -> Seq(Operations)], NEW s \in Streams, NEW ops, Grows(s, ops),
           content' = content,
           NEW t \in Streams, NEW i \in 1 .. Len(queue[t]) + 1, NEW b, NEW n, Knows(t, i, b, n)
    PROVE  Knows(t, i, b, n)'
<1>1. Len(queue[t]) \in Nat
  BY QueueLengths
<1>2. \A k \in 1 .. i - 1 : k \in 1 .. Len(queue[t])
  BY <1>1
<1>3. \A k \in 1 .. i - 1 : queue'[t][k] = queue[t][k]
  BY <1>2, OldOrNew
<1> QED
  BY <1>3 DEF Knows, Fills, Waits, IsOp

LEMMA KnowsLater ==
    ASSUME NEW t, NEW i \in Nat, NEW j \in Nat, i <= j, NEW b, NEW n, Knows(t, i, b, n)
    PROVE  Knows(t, j, b, n)
<1>1. \A k \in 1 .. i - 1 : k \in 1 .. j - 1
  OBVIOUS
<1> QED
  BY <1>1 DEF Knows

\* After is kept when the streams grow.
LEMMA AfterGrows ==
    ASSUME queue \in [Streams -> Seq(Operations)], NEW s \in Streams, NEW ops, Grows(s, ops),
           recorded \in [Inputs -> [Kinds -> Nat]],
           recorded' \in [Inputs -> [Kinds -> Nat]], NEW b \in Inputs,
           recorded'[b]["read"] >= recorded[b]["read"],
           NEW i \in Nat, NEW t \in Streams, NEW j \in 1 .. Len(queue[t]), After(i, t, j, b)
    PROVE  After(i, t, j, b)'
<1>1. /\ Len(M) \in Nat /\ Len(M') >= Len(M) /\ Len(M') \in Nat
      /\ \A k \in 1 .. Len(M) : M'[k] = M[k]
  BY MainIsAStream, OldOrNew DEF M
<1>2. /\ Len(queue[t]) \in Nat
      /\ \A k \in 1 .. Len(queue[t]) : queue'[t][k] = queue[t][k]
  BY OldOrNew
<1>3. "read" \in Kinds /\ recorded[b]["read"] \in Nat /\ recorded'[b]["read"] \in Nat
  BY DEF Kinds
<1>4. ASSUME NEW n \in 1 .. recorded[b]["read"],
             NEW k \in i + 1 .. Len(M), Records(Main, k, <<b, "read", n>>),
             NEW m \in 1 .. j - 1, Waits(t, m, <<b, "read", n>>)
      PROVE  After(i, t, j, b)'
  <2>1. n \in 1 .. recorded'[b]["read"]
    BY <1>3
  <2>2. k \in i + 1 .. Len(M') /\ k \in 1 .. Len(M) /\ m \in 1 .. Len(queue[t])
    BY <1>1, <1>2
  <2>3. Records(Main, k, <<b, "read", n>>)' /\ Waits(t, m, <<b, "read", n>>)'
    BY <1>1, <1>2, <1>4, <2>2 DEF Records, Waits, M
  <2> QED
    BY <2>1, <2>2, <2>3 DEF After
<1> QED
  BY <1>4 DEF After

\* Fills stay in order when no fill is enqueued, or the next one.
LEMMA FillsGrow ==
    ASSUME Shape, FillsOK, NEW s \in Streams, NEW ops, Grows(s, ops), content' = content,
           version' \in [Inputs -> Nat], \A b \in Inputs : version'[b] >= version[b],
           \A m \in 1 .. Len(ops) : \A b \in Inputs : \A n \in Nat :
               IsOp(ops[m], "fill", b) /\ ops[m].value = n =>
                   /\ content[b] < n /\ n <= version'[b] /\ n > version[b]
                   /\ \A i \in Nat : i = Len(queue[s]) + m => Knows(s, i, b, n - 1)'
                   /\ \A k \in 1 .. Len(ops) : ops[k].op = "fill" => k = m
    PROVE  FillsOK'
<1> SUFFICES ASSUME NEW t \in Streams, NEW i \in 1 .. Len(queue'[t]),
                    NEW b \in Inputs, NEW n \in Nat, Fills(t, i, b, n)'
             PROVE  /\ content'[b] < n /\ n <= version'[b]
                    /\ Knows(t, i, b, n - 1)'
                    /\ \A u \in Streams : \A j \in 1 .. Len(queue'[u]) :
                           Fills(u, j, b, n)' => u = t /\ j = i
  BY DEF FillsOK
<1>1. queue \in [Streams -> Seq(Operations)] /\ queue' \in [Streams -> Seq(Operations)]
      /\ version \in [Inputs -> Nat]
  BY DEF Shape, HostShape, DeviceShape, Grows
<1>2. version[b] \in Nat /\ version'[b] \in Nat /\ version'[b] >= version[b]
  BY <1>1
<1>3. Len(queue[t]) \in Nat /\ Len(queue[s]) \in Nat
  BY <1>1, QueueLengths
\* Places of fills of b with value n on a stream u.
<1>4. ASSUME NEW u \in Streams, NEW j \in 1 .. Len(queue'[u]), Fills(u, j, b, n)'
      PROVE  /\ queue'[u][j].op = "fill" /\ queue'[u][j].buf = b /\ queue'[u][j].value = n
             /\ \/ /\ j \in 1 .. Len(queue[u]) /\ queue[u][j] = queue'[u][j]
                   /\ n <= version[b]
                \/ /\ u = s /\ j - Len(queue[s]) \in 1 .. Len(ops)
                   /\ ops[j - Len(queue[s])] = queue'[u][j]
                   /\ n > version[b]
  <2>1. queue'[u][j].op = "fill" /\ queue'[u][j].buf = b /\ queue'[u][j].value = n
    BY <1>4 DEF Fills, IsOp
  <2>2. CASE j \in 1 .. Len(queue[u])
    <3>1. queue'[u][j] = queue[u][j]
      BY <1>1, <2>2, OldOrNew
    <3>2. Fills(u, j, b, n)
      BY <2>1, <3>1 DEF Fills, IsOp
    <3> QED
      BY <2>1, <2>2, <3>1, <3>2 DEF FillsOK
  <2>3. CASE j \notin 1 .. Len(queue[u])
    <3>1. u = s /\ j - Len(queue[s]) \in 1 .. Len(ops) /\ queue'[u][j] = ops[j - Len(queue[s])]
      BY <1>1, <2>3, OldOrNew
    <3>2. IsOp(ops[j - Len(queue[s])], "fill", b) /\ ops[j - Len(queue[s])].value = n
      BY <2>1, <3>1 DEF IsOp
    <3> QED
      BY <2>1, <3>1, <3>2
  <2> QED
    BY <2>1, <2>2, <2>3
<1>5. queue'[t][i].op = "fill" /\ queue'[t][i].buf = b /\ queue'[t][i].value = n
  BY DEF Fills, IsOp
<1>6. CASE i \in 1 .. Len(queue[t])
  <2>1. Fills(t, i, b, n)
    <3>1. queue[t][i] = queue'[t][i]
      BY <1>1, <1>6, OldOrNew
    <3> QED
      BY <1>5, <3>1 DEF Fills, IsOp
  <2>2. /\ content[b] < n /\ n <= version[b] /\ Knows(t, i, b, n - 1)
        /\ \A u \in Streams : \A j \in 1 .. Len(queue[u]) : Fills(u, j, b, n) => u = t /\ j = i
    BY <1>6, <2>1 DEF FillsOK
  <2>3. Knows(t, i, b, n - 1)'
    <3>1. i \in 1 .. Len(queue[t]) + 1
      BY <1>3, <1>6
    <3> QED
      BY <1>1, <2>2, <3>1, KnowsGrows
  <2>4. ASSUME NEW u \in Streams, NEW j \in 1 .. Len(queue'[u]), Fills(u, j, b, n)'
        PROVE  u = t /\ j = i
    <3>1. j \in 1 .. Len(queue[u]) /\ queue[u][j] = queue'[u][j]
      BY <1>2, <1>4, <2>2, <2>4
    <3>2. Fills(u, j, b, n)
      BY <1>4, <2>4, <3>1 DEF Fills, IsOp
    <3> QED
      BY <2>2, <3>1, <3>2
  <2>5. n <= version'[b]
    BY <1>2, <2>2
  <2> QED
    BY <2>2, <2>3, <2>4, <2>5
<1>7. CASE i \notin 1 .. Len(queue[t])
  <2>1. /\ t = s /\ i - Len(queue[s]) \in 1 .. Len(ops)
        /\ queue'[t][i] = ops[i - Len(queue[s])]
    BY <1>1, <1>7, OldOrNew
  <2> DEFINE m == i - Len(queue[s])
  <2>2. /\ content[b] < n /\ n <= version'[b] /\ n > version[b]
        /\ \A j \in Nat : j = Len(queue[s]) + m => Knows(s, j, b, n - 1)'
        /\ \A k \in 1 .. Len(ops) : ops[k].op = "fill" => k = m
    <3>1. IsOp(ops[m], "fill", b) /\ ops[m].value = n
      BY <1>5, <2>1 DEF IsOp
    <3> QED
      BY <2>1, <3>1
  <2>3. Len(queue[s]) + m = i
    BY <1>3, <2>1
  <2>4. ASSUME NEW u \in Streams, NEW j \in 1 .. Len(queue'[u]), Fills(u, j, b, n)'
        PROVE  u = t /\ j = i
    <3>1. u = s /\ j - Len(queue[s]) \in 1 .. Len(ops) /\ ops[j - Len(queue[s])].op = "fill"
      BY <1>2, <1>4, <2>2, <2>4
    <3>2. j - Len(queue[s]) = m
      BY <2>2, <3>1
    <3> QED
      BY <1>3, <2>1, <3>1, <3>2
  <2> QED
    BY <2>1, <2>2, <2>3, <2>4
<1> QED
  BY <1>6, <1>7

\* Records stay in order when none is enqueued, or one of new numbers.
LEMMA RecordsGrow ==
    ASSUME Shape, RecordsOK, NEW s \in Streams, NEW ops, Grows(s, ops),
           content' = content, done' = done,
           recorded' \in [Inputs -> [Kinds -> Nat]],
           \A b \in Inputs : \A k \in Kinds : recorded'[b][k] >= recorded[b][k],
           \A m \in 1 .. Len(ops) : \A e \in Events :
               ops[m].op = "record" /\ e \in ops[m].events =>
                   /\ e[3] <= recorded'[e[1]][e[2]] /\ e[3] > recorded[e[1]][e[2]]
                   /\ e[2] = "write" =>
                          \A i \in Nat : i = Len(queue[s]) + m => Knows(s, i, e[1], e[3])'
                   /\ \A k \in 1 .. Len(ops) : ops[k].op = "record" => k = m
    PROVE  RecordsOK'
<1>1. /\ queue \in [Streams -> Seq(Operations)] /\ queue' \in [Streams -> Seq(Operations)]
      /\ recorded \in [Inputs -> [Kinds -> Nat]] /\ done \in SUBSET Events
  BY DEF Shape, HostShape, DeviceShape, Grows
<1>2. \A e \in Events : /\ e[1] \in Inputs /\ e[2] \in Kinds /\ e[3] \in Nat
                        /\ recorded[e[1]][e[2]] \in Nat /\ recorded'[e[1]][e[2]] \in Nat
                        /\ recorded'[e[1]][e[2]] >= recorded[e[1]][e[2]]
  BY <1>1 DEF Events
<1>3. Len(queue[s]) \in Nat
  BY <1>1, QueueLengths
<1>4. ASSUME NEW e \in done'
      PROVE  e[3] <= recorded'[e[1]][e[2]] /\ (e[2] = "write" => content'[e[1]] >= e[3])
  <2>1. e \in Events /\ e[3] <= recorded[e[1]][e[2]] /\ (e[2] = "write" => content[e[1]] >= e[3])
    BY <1>1 DEF RecordsOK
  <2> QED
    BY <1>2, <2>1
\* Where an event is recorded.
<1>5. ASSUME NEW u \in Streams, NEW j \in 1 .. Len(queue'[u]), NEW e \in Events,
             Records(u, j, e)'
      PROVE  /\ queue'[u][j].op = "record" /\ e \in queue'[u][j].events
             /\ \/ /\ j \in 1 .. Len(queue[u]) /\ queue[u][j] = queue'[u][j]
                   /\ Records(u, j, e)
                   /\ e[3] <= recorded[e[1]][e[2]]
                \/ /\ u = s /\ j - Len(queue[s]) \in 1 .. Len(ops)
                   /\ ops[j - Len(queue[s])] = queue'[u][j]
                   /\ e[3] > recorded[e[1]][e[2]]
  <2>1. queue'[u][j].op = "record" /\ e \in queue'[u][j].events
    BY <1>5 DEF Records
  <2>3. CASE j \in 1 .. Len(queue[u])
    <3>1. queue'[u][j] = queue[u][j]
      BY <1>1, <2>3, OldOrNew
    <3>2. Records(u, j, e)
      BY <2>1, <3>1 DEF Records
    <3> QED
      BY <2>1, <2>3, <3>1, <3>2 DEF RecordsOK
  <2>4. CASE j \notin 1 .. Len(queue[u])
    <3>1. u = s /\ j - Len(queue[s]) \in 1 .. Len(ops) /\ queue'[u][j] = ops[j - Len(queue[s])]
      BY <1>1, <2>4, OldOrNew
    <3>2. Len(queue[s]) \in Nat /\ ops[j - Len(queue[s])].op = "record"
          /\ e \in ops[j - Len(queue[s])].events
      BY <1>3, <2>1, <3>1
    <3> QED
      BY <2>1, <3>1, <3>2
  <2> QED
    BY <2>3, <2>4
<1>6. ASSUME NEW t \in Streams, NEW i \in 1 .. Len(queue'[t]), NEW e \in Events,
             Records(t, i, e)'
      PROVE  /\ e[3] <= recorded'[e[1]][e[2]] /\ e \notin done'
             /\ e[2] = "write" => Knows(t, i, e[1], e[3])'
             /\ \A u \in Streams : \A j \in 1 .. Len(queue'[u]) :
                    Records(u, j, e)' => u = t /\ j = i
  <2>1. queue'[t][i].op = "record" /\ e \in queue'[t][i].events
    BY <1>6 DEF Records
  <2>3. CASE i \in 1 .. Len(queue[t])
    <3>1. queue[t][i] = queue'[t][i]
      BY <1>1, <2>3, OldOrNew
    <3>2. /\ e[3] <= recorded[e[1]][e[2]] /\ e \notin done
          /\ e[2] = "write" => Knows(t, i, e[1], e[3])
          /\ \A u \in Streams : \A j \in 1 .. Len(queue[u]) : Records(u, j, e) => u = t /\ j = i
      <4>1. Records(t, i, e)
        BY <2>1, <3>1 DEF Records
      <4> QED
        BY <2>3, <4>1 DEF RecordsOK
    <3>3. i \in 1 .. Len(queue[t]) + 1
      BY <1>1, <2>3, QueueLengths
    <3>4. e[2] = "write" => Knows(t, i, e[1], e[3])'
      BY <1>1, <3>2, <3>3, KnowsGrows
    <3>5. ASSUME NEW u \in Streams, NEW j \in 1 .. Len(queue'[u]), Records(u, j, e)'
          PROVE  u = t /\ j = i
      <4>1. j \in 1 .. Len(queue[u]) /\ Records(u, j, e)
        BY <1>2, <1>5, <3>2, <3>5
      <4> QED
        BY <3>2, <4>1
    <3> QED
      BY <1>2, <3>2, <3>4, <3>5
  <2>4. CASE i \notin 1 .. Len(queue[t])
    <3>1. /\ t = s /\ i - Len(queue[s]) \in 1 .. Len(ops)
          /\ queue'[t][i] = ops[i - Len(queue[s])]
      BY <1>1, <2>4, OldOrNew
    <3> DEFINE m == i - Len(queue[s])
    <3>2. /\ e[3] <= recorded'[e[1]][e[2]] /\ e[3] > recorded[e[1]][e[2]]
          /\ e[2] = "write" =>
                 \A j \in Nat : j = Len(queue[s]) + m => Knows(s, j, e[1], e[3])'
          /\ \A k \in 1 .. Len(ops) : ops[k].op = "record" => k = m
      BY <2>1, <3>1
    <3>3. Len(queue[s]) + m = i
      BY <1>3, <3>1
    <3>4. e \notin done'
      BY <1>2, <3>2 DEF RecordsOK
    <3>5. ASSUME NEW u \in Streams, NEW j \in 1 .. Len(queue'[u]), Records(u, j, e)'
          PROVE  u = t /\ j = i
      <4>1. u = s /\ j - Len(queue[s]) \in 1 .. Len(ops) /\ ops[j - Len(queue[s])] = queue'[u][j]
        BY <1>2, <1>5, <3>2, <3>5
      <4>2. ops[j - Len(queue[s])].op = "record"
        BY <1>5, <3>5, <4>1
      <4>3. j - Len(queue[s]) = m
        BY <3>2, <4>1, <4>2
      <4> QED
        BY <1>3, <3>1, <4>1, <4>3
    <3> QED
      BY <3>1, <3>2, <3>3, <3>4, <3>5
  <2> QED
    BY <2>3, <2>4
<1> QED
  BY <1>4, <1>6 DEF RecordsOK

LEMMA KnowsLaterNext ==
    ASSUME NEW t, NEW i \in Nat, NEW j \in Nat, i <= j, NEW b, NEW n, Knows(t, i, b, n)'
    PROVE  Knows(t, j, b, n)'
<1>1. \A k \in 1 .. i - 1 : k \in 1 .. j - 1
  OBVIOUS
<1> QED
  BY <1>1 DEF Knows

\* What came after every fill still does when no fill is enqueued.
LEMMA KnowsNowGrows ==
    ASSUME queue \in [Streams -> Seq(Operations)], NEW s \in Streams, NEW ops, Grows(s, ops),
           content' = content, NEW b \in Inputs, version'[b] = version[b], KnowsNow(b)
    PROVE  KnowsNow(b)'
<1>1. /\ Len(M) \in Nat /\ Len(M') \in Nat /\ Len(M') >= Len(M)
      /\ \A k \in 1 .. Len(M) : M'[k] = M[k]
  BY MainIsAStream, OldOrNew DEF M
<1>2. CASE content[b] >= version[b]
  BY <1>2 DEF KnowsNow, Knows
<1>3. ASSUME NEW k \in 1 .. Len(M),
             Fills(Main, k, b, version[b]) \/ Waits(Main, k, <<b, "write", version[b]>>)
      PROVE  KnowsNow(b)'
  <2>1. k \in 1 .. (Len(M') + 1) - 1
    BY <1>1
  <2>2. M'[k] = M[k]
    BY <1>1
  <2> QED
    BY <1>3, <2>1, <2>2 DEF KnowsNow, Knows, Fills, Waits, IsOp, M
<1>4. (Len(M) + 1) - 1 = Len(M)
  BY <1>1
<1> QED
  BY <1>2, <1>3, <1>4 DEF KnowsNow, Knows

\* Decodes are in their places when none is enqueued or one with what was
\* refilled so far, and when a fill that is enqueued comes after them.
LEMMA DecodesGrow ==
    ASSUME Shape, FillsOK, DecodesOK, NEW s \in Streams, NEW ops, Grows(s, ops),
           content' = content,
           version' \in [Inputs -> Nat], \A b \in Inputs : version'[b] >= version[b],
           recorded' \in [Inputs -> [Kinds -> Nat]],
           \A b \in Inputs : recorded'[b]["read"] >= recorded[b]["read"],
           \A m \in 1 .. Len(ops) : \A c \in Calls : IsOp(ops[m], "decode", c) =>
               /\ \A b \in ReadsOf(c) : ops[m].given[b] = version[b] /\ KnowsNow(b)
               /\ \A k \in 1 .. Len(ops) : ops[k].op # "fill",
           \A m \in 1 .. Len(ops) : \A b \in Inputs : IsOp(ops[m], "fill", b) =>
               \A i \in 1 .. Len(M) : \A c \in Calls :
                   IsOp(M[i], "decode", c) /\ b \in ReadsOf(c) =>
                       \A j \in Nat : j = Len(queue[s]) + m => After(i, s, j, b)'
    PROVE  DecodesOK'
<1>1. /\ queue \in [Streams -> Seq(Operations)] /\ version \in [Inputs -> Nat]
      /\ recorded \in [Inputs -> [Kinds -> Nat]]
      /\ \A b \in Inputs : content[b] \in Nat /\ content[b] <= version[b]
  BY DEF Shape, HostShape, DeviceShape
<1>2. \A c \in Calls : ReadsOf(c) \in SUBSET Inputs
  BY GuardsAssumption DEF ReadsOf, ToSet
<1>3. /\ Len(M) \in Nat /\ Len(queue[s]) \in Nat
      /\ \A i \in 1 .. Len(M) : M'[i] = M[i]
  BY <1>1, MainIsAStream, OldOrNew DEF M
<1> SUFFICES ASSUME NEW i \in 1 .. Len(M'), NEW c \in Calls, NEW b \in ReadsOf(c), NEW g \in Nat,
                    Given(i, c, b, g)'
             PROVE  /\ content'[b] <= g /\ g <= version'[b]
                    /\ Knows(Main, i, b, g)'
                    /\ \A t \in Streams : \A j \in 1 .. Len(queue'[t]) : \A n \in Nat :
                           Fills(t, j, b, n)' /\ n > g => After(i, t, j, b)'
  BY DEF DecodesOK
<1>4. /\ b \in Inputs /\ version[b] \in Nat /\ version'[b] \in Nat /\ version'[b] >= version[b]
      /\ content[b] \in Nat /\ content[b] <= version[b]
  BY <1>1, <1>2
<1>5. IsOp(M'[i], "decode", c) /\ M'[i].given[b] = g
  BY DEF Given, IsOp
\* A fill that was there.
<1>6. ASSUME NEW t \in Streams, NEW j \in 1 .. Len(queue[t]), NEW n \in Nat, Fills(t, j, b, n)'
      PROVE  Fills(t, j, b, n) /\ n <= version[b]
  <2>1. queue'[t][j] = queue[t][j]
    BY <1>1, OldOrNew
  <2>2. Fills(t, j, b, n)
    BY <1>6, <2>1 DEF Fills, IsOp
  <2> QED
    BY <1>4, <2>2 DEF FillsOK
<1>7. CASE i \in 1 .. Len(M)
  <2>1. Given(i, c, b, g)
    BY <1>3, <1>5, <1>7 DEF Given, IsOp
  <2>2. /\ content[b] <= g /\ g <= version[b]
        /\ Knows(Main, i, b, g)
        /\ \A t \in Streams : \A j \in 1 .. Len(queue[t]) : \A n \in Nat :
               Fills(t, j, b, n) /\ n > g => After(i, t, j, b)
    BY <1>7, <2>1 DEF DecodesOK
  <2>3. Knows(Main, i, b, g)'
    <3>1. i \in 1 .. Len(queue[Main]) + 1
      BY <1>3, <1>7 DEF M
    <3> QED
      BY <1>1, <2>2, <3>1, MainIsAStream, KnowsGrows
  <2>4. ASSUME NEW t \in Streams, NEW j \in 1 .. Len(queue'[t]), NEW n \in Nat,
               Fills(t, j, b, n)', n > g
        PROVE  After(i, t, j, b)'
    <3>1. CASE j \in 1 .. Len(queue[t])
      <4>1. After(i, t, j, b)
        BY <1>6, <2>2, <2>4, <3>1
      <4>2. i \in Nat
        OBVIOUS
      <4> QED
        BY <1>1, <1>4, <3>1, <4>1, <4>2, AfterGrows
    <3>2. CASE j \notin 1 .. Len(queue[t])
      <4>1. /\ t = s /\ j - Len(queue[s]) \in 1 .. Len(ops)
            /\ queue'[t][j] = ops[j - Len(queue[s])]
        BY <1>1, <3>2, OldOrNew
      <4>2. IsOp(ops[j - Len(queue[s])], "fill", b)
        BY <2>4, <4>1 DEF Fills, IsOp
      <4>3. j \in Nat /\ j = Len(queue[s]) + (j - Len(queue[s]))
        BY <1>3
      <4>4. IsOp(M[i], "decode", c)
        BY <2>1 DEF Given
      <4> QED
        BY <1>4, <1>7, <4>1, <4>2, <4>3, <4>4
    <3> QED
      BY <3>1, <3>2
  <2>5. content'[b] <= g /\ g <= version'[b]
    BY <1>4, <2>2
  <2>6. \A t \in Streams : \A j \in 1 .. Len(queue'[t]) : \A n \in Nat :
            Fills(t, j, b, n)' /\ n > g => After(i, t, j, b)'
    BY <2>4
  <2> QED
    BY <2>3, <2>5, <2>6
<1>8. CASE i \notin 1 .. Len(M)
  <2>1. /\ s = Main /\ i > Len(M) /\ i - Len(M) \in 1 .. Len(ops)
        /\ M'[i] = ops[i - Len(M)]
    BY <1>1, <1>8, MainIsAStream, OldOrNew DEF M
  <2>2. /\ g = version[b] /\ KnowsNow(b)
        /\ \A k \in 1 .. Len(ops) : ops[k].op # "fill"
    BY <1>5, <2>1
  <2>3. Knows(Main, i, b, g)'
    <3>1. Knows(Main, Len(M) + 1, b, g)
      BY <2>2 DEF KnowsNow
    <3> DEFINE k == Len(queue[Main]) + 1
    <3>2. k \in Nat /\ k \in 1 .. Len(queue[Main]) + 1 /\ k = Len(M) + 1 /\ i \in Nat /\ k <= i
      BY <1>3, <2>1 DEF M
    <3> HIDE DEF k
    <3>3. \A l \in Nat : l = k => Knows(Main, l, b, g)'
      <4> TAKE l \in Nat
      <4> HAVE l = k
      <4>1. Knows(Main, l, b, g) /\ l \in 1 .. Len(queue[Main]) + 1
        BY <3>1, <3>2
      <4> QED
        BY <1>1, <4>1, MainIsAStream, KnowsGrows
    <3> QED
      BY <3>2, <3>3, KnowsLaterNext
  <2>4. ASSUME NEW t \in Streams, NEW j \in 1 .. Len(queue'[t]), NEW n \in Nat,
               Fills(t, j, b, n)', n > g
        PROVE  FALSE
    <3>1. CASE j \in 1 .. Len(queue[t])
      BY <1>4, <1>6, <2>2, <2>4, <3>1
    <3>2. CASE j \notin 1 .. Len(queue[t])
      <4>1. /\ t = s /\ j - Len(queue[s]) \in 1 .. Len(ops)
            /\ queue'[t][j] = ops[j - Len(queue[s])]
        BY <1>1, <3>2, OldOrNew
      <4> QED
        BY <2>2, <2>4, <4>1 DEF Fills, IsOp
    <3> QED
      BY <3>1, <3>2
  <2> QED
    BY <1>4, <2>2, <2>3, <2>4
<1> QED
  BY <1>7, <1>8

\* Decodes stay held or recorded while their calls keep the locks.
LEMMA HeldGrow ==
    ASSUME Shape, HeldOK, NEW s \in Streams, NEW ops, Grows(s, ops),
           tracking' = tracking, recorded' = recorded,
           \A b \in Inputs : \A c \in Calls :
               c \in readers[b] /\ call[c].ok => c \in readers'[b] /\ call'[c].ok,
           tracking => \A m \in 1 .. Len(ops) : \A c \in Calls : IsOp(ops[m], "decode", c) =>
               \A b \in ReadsOf(c) : c \in readers'[b] /\ call'[c].ok
    PROVE  HeldOK'
<1>1. queue \in [Streams -> Seq(Operations)]
  BY DEF Shape, HostShape, DeviceShape
<1>2. /\ Len(M) \in Nat /\ Len(M') \in Nat /\ Len(M') >= Len(M)
      /\ \A i \in 1 .. Len(M) : M'[i] = M[i]
  BY <1>1, MainIsAStream, OldOrNew DEF M
<1>3. \A c \in Calls : ReadsOf(c) \in SUBSET Inputs
  BY GuardsAssumption DEF ReadsOf, ToSet
<1> SUFFICES ASSUME tracking, NEW i \in 1 .. Len(M'), NEW c \in Calls, NEW b \in ReadsOf(c),
                    IsOp(M'[i], "decode", c)
             PROVE  \/ c \in readers'[b] /\ call'[c].ok
                    \/ /\ recorded[b]["read"] > 0
                       /\ \E k \in i + 1 .. Len(M') :
                              Records(Main, k, <<b, "read", recorded[b]["read"]>>)'
  BY DEF HeldOK, Records, IsOp
<1>4. CASE i \in 1 .. Len(M)
  <2>1. IsOp(M[i], "decode", c)
    BY <1>2, <1>4
  <2>2. CASE c \in readers[b] /\ call[c].ok
    BY <1>3, <2>2
  <2>3. ASSUME recorded[b]["read"] > 0,
               NEW k \in i + 1 .. Len(M), Records(Main, k, <<b, "read", recorded[b]["read"]>>)
        PROVE  \E l \in i + 1 .. Len(M') : Records(Main, l, <<b, "read", recorded[b]["read"]>>)'
    <3>1. k \in 1 .. Len(M) /\ k \in i + 1 .. Len(M')
      BY <1>2, <1>4
    <3>2. M'[k] = M[k]
      BY <1>2, <3>1
    <3>3. Records(Main, k, <<b, "read", recorded[b]["read"]>>)'
      BY <2>3, <3>2 DEF Records, M
    <3> QED
      BY <3>1, <3>3
  <2> QED
    BY <1>4, <2>1, <2>2, <2>3 DEF HeldOK
<1>5. CASE i \notin 1 .. Len(M)
  <2>1. s = Main /\ i - Len(M) \in 1 .. Len(ops) /\ M'[i] = ops[i - Len(M)]
    BY <1>1, <1>5, MainIsAStream, OldOrNew DEF M
  <2>2. c \in readers'[b] /\ call'[c].ok
    BY <2>1
  <2> QED
    BY <1>3, <2>2
<1> QED
  BY <1>4, <1>5

\* The device's state when operations are enqueued.
LEMMA DeviceGrows ==
    ASSUME Shape, NEW s \in Streams, NEW ops, Grows(s, ops),
           content' = content, done' = done, live' = live, tracking' = tracking,
           version' \in [Inputs -> Nat], \A b \in Inputs : version'[b] >= version[b],
           \/ s = Main
           \/ tracking /\ \A m \in 1 .. Len(ops) : ops[m].op \in {"fill", "wait", "record"}
    PROVE  DeviceShape'
<1>1. queue \in [Streams -> Seq(Operations)] /\ queue' \in [Streams -> Seq(Operations)]
  BY DEF Shape, DeviceShape, Grows
<1>2. \A b \in Inputs : content'[b] \in Nat /\ content'[b] <= version'[b]
  BY DEF Shape, HostShape, DeviceShape
<1>3. ASSUME NEW t \in Streams \ {Main}, NEW i \in 1 .. Len(queue'[t])
      PROVE  queue'[t][i].op \in {"fill", "wait", "record"}
  <2>1. CASE i \in 1 .. Len(queue[t])
    <3>1. queue'[t][i] = queue[t][i]
      BY <1>1, <2>1, OldOrNew
    <3> QED
      BY <2>1, <3>1 DEF Shape, DeviceShape
  <2>2. CASE i \notin 1 .. Len(queue[t])
    <3>1. /\ t = s /\ i - Len(queue[t]) \in 1 .. Len(ops)
          /\ queue'[t][i] = ops[i - Len(queue[t])]
      BY <1>1, <2>2, OldOrNew
    <3> QED
      BY <3>1
  <2> QED
    BY <2>1, <2>2
<1>4. ~tracking' => \A t \in Streams \ {Main} : queue'[t] = <<>>
  <2> SUFFICES ASSUME ~tracking
               PROVE  \A t \in Streams \ {Main} : queue'[t] = <<>>
    OBVIOUS
  <2>1. s = Main
    OBVIOUS
  <2> QED
    BY <2>1 DEF Shape, DeviceShape, Grows
<1> QED
  BY <1>1, <1>2, <1>3, <1>4 DEF Shape, DeviceShape

\* What is enqueued is neither a fill nor a record, and the decodes in it were
\* given what there is.
LEMMA DecodingGrows ==
    ASSUME Ordered, NEW s \in Streams, NEW ops, Grows(s, ops),
           \A m \in 1 .. Len(ops) : ops[m].op \notin {"fill", "record"},
           \A m \in 1 .. Len(ops) : \A c \in Calls : IsOp(ops[m], "decode", c) =>
               \A b \in ReadsOf(c) : /\ ops[m].given[b] = version[b] /\ KnowsNow(b)
                                     /\ tracking => c \in readers'[b] /\ call'[c].ok,
           content' = content, done' = done, version' = version, recorded' = recorded,
           tracking' = tracking,
           \A b \in Inputs : \A c \in Calls :
               c \in readers[b] /\ call[c].ok => c \in readers'[b] /\ call'[c].ok
    PROVE  /\ FillsOK' /\ RecordsOK' /\ DecodesOK' /\ HeldOK'
           /\ \A b \in Inputs : KnowsNow(b) => KnowsNow(b)'
<1>1. /\ queue \in [Streams -> Seq(Operations)] /\ version \in [Inputs -> Nat]
      /\ recorded \in [Inputs -> [Kinds -> Nat]]
  BY DEF Ordered, Shape, HostShape, DeviceShape
<1>2. /\ version' \in [Inputs -> Nat] /\ recorded' \in [Inputs -> [Kinds -> Nat]]
      /\ \A b \in Inputs : version'[b] >= version[b]
      /\ \A b \in Inputs : \A k \in Kinds : recorded'[b][k] >= recorded[b][k]
      /\ "read" \in Kinds
  BY <1>1 DEF Kinds
<1>3. /\ \A m \in 1 .. Len(ops) : \A b : ~IsOp(ops[m], "fill", b)
      /\ \A m \in 1 .. Len(ops) : ops[m].op # "record" /\ ops[m].op # "fill"
  BY DEF IsOp
<1>4. FillsOK'
  BY <1>2, <1>3, FillsGrow DEF Ordered
<1>5. RecordsOK'
  BY <1>2, <1>3, RecordsGrow DEF Ordered
<1>6. DecodesOK'
  BY <1>2, <1>3, DecodesGrow DEF Ordered
<1>7. HeldOK'
  BY <1>3, HeldGrow DEF Ordered
<1>8. \A b \in Inputs : KnowsNow(b) => KnowsNow(b)'
  BY <1>1, KnowsNowGrows
<1> QED
  BY <1>4, <1>5, <1>6, <1>7, <1>8

-----------------------------------------------------------------------------
(* The part of the invariant about order: one lemma per action.            *)

LEMMA ReadsAreInputs ==
    ASSUME NEW c \in Calls
    PROVE  /\ ReadsOf(c) \in SUBSET Inputs /\ ReadsOf(c) # {}
           /\ Len(Reads[c]) \in Nat /\ Len(Reads[c]) >= 1
           /\ \A i \in 1 .. Len(Reads[c]) : Reads[c][i] \in ReadsOf(c)
           /\ FirstReads(c, Len(Reads[c])) = ReadsOf(c)
           /\ \A n \in 0 .. Len(Reads[c]) : FirstReads(c, n) \in SUBSET ReadsOf(c)
<1>1. Reads[c] \in Seq(Inputs) /\ Reads[c] # <<>>
  BY GuardsAssumption
<1>2. /\ Len(Reads[c]) \in Nat /\ DOMAIN Reads[c] = 1 .. Len(Reads[c])
      /\ \A i \in 1 .. Len(Reads[c]) : Reads[c][i] \in Inputs
  BY <1>1, LenProperties, ElementOfSeq
<1>3. Len(Reads[c]) >= 1
  BY <1>1, <1>2, EmptySeq
<1>4. ReadsOf(c) = {Reads[c][i] : i \in 1 .. Len(Reads[c])}
  BY <1>2 DEF ReadsOf, ToSet
<1>5. 1 \in 1 .. Len(Reads[c])
  BY <1>2, <1>3
<1>6. \A n \in 0 .. Len(Reads[c]) : 1 .. n \subseteq 1 .. Len(Reads[c])
  BY <1>2
<1> QED
  BY <1>2, <1>3, <1>4, <1>5, <1>6 DEF FirstReads

HostOK == HostShape /\ CallsOK /\ ModeOK

\* A step that enqueues nothing but decodes and what orders nothing.
LEMMA DecodingStep ==
    ASSUME Ordered, NEW ops, Grows(Main, ops),
           UNCHANGED <<tracking, events, device>>,
           \A m \in 1 .. Len(ops) : ops[m].op \notin {"fill", "record"},
           \A m \in 1 .. Len(ops) : \A c \in Calls : IsOp(ops[m], "decode", c) =>
               \A b \in ReadsOf(c) : /\ ops[m].given[b] = version[b] /\ KnowsNow(b)
                                     /\ tracking => c \in readers'[b] /\ call'[c].ok,
           \A b \in Inputs : \A c \in Calls :
               c \in readers[b] /\ call[c].ok => c \in readers'[b] /\ call'[c].ok,
           HostOK',
           \A c \in Calls : call'[c].step = "launch" =>
               \A b \in ReadsOf(c) : KnowsNow(b) \/ KnowsNow(b)'
    PROVE  Ordered'
<1>1. /\ Shape /\ version \in [Inputs -> Nat]
      /\ version' = version /\ recorded' = recorded /\ done' = done /\ live' = live
      /\ content' = content
  BY DEF Ordered, Shape, HostShape, events, device
<1>2. DeviceShape'
  BY <1>1, MainIsAStream, DeviceGrows
<1>3. /\ FillsOK' /\ RecordsOK' /\ DecodesOK' /\ HeldOK'
      /\ \A b \in Inputs : KnowsNow(b) => KnowsNow(b)'
  BY <1>1, MainIsAStream, DecodingGrows
<1>4. NextOK'
  <2>1. ~tracking => \A b \in Inputs : KnowsNow(b)'
    BY <1>3 DEF Ordered, NextOK
  <2>2. \A c \in Calls : call'[c].step = "launch" => \A b \in ReadsOf(c) : KnowsNow(b)'
    BY <1>3, ReadsAreInputs
  <2> QED
    BY <2>1, <2>2 DEF NextOK
<1> QED
  BY <1>2, <1>3, <1>4 DEF Ordered, Shape, HostOK

\* A step that enqueues neither a fill, nor a record, nor a decode.
Quiet(ops) == \A m \in 1 .. Len(ops) : ops[m].op \notin {"fill", "record", "decode"}

LEMMA QuietStep ==
    ASSUME Ordered, NEW ops, Grows(Main, ops), Quiet(ops),
           UNCHANGED <<tracking, events, device>>,
           \A b \in Inputs : \A c \in Calls :
               c \in readers[b] /\ call[c].ok => c \in readers'[b] /\ call'[c].ok,
           HostOK',
           \A c \in Calls : call'[c].step = "launch" =>
               \A b \in ReadsOf(c) : KnowsNow(b) \/ KnowsNow(b)'
    PROVE  Ordered'
<1>1. /\ \A m \in 1 .. Len(ops) : ops[m].op \notin {"fill", "record"}
      /\ \A m \in 1 .. Len(ops) : \A c : ~IsOp(ops[m], "decode", c)
  BY DEF Quiet, IsOp
<1> QED
  BY <1>1, DecodingStep

\* Enqueuing on the main stream, or on the tape.
LEMMA EnqueuedOnMain ==
    ASSUME Shape, NEW ops \in Seq(Operations), Capturing => ops \in Seq(CallOperations),
           Enqueue(Main, ops)
    PROVE  /\ Grows(Main, Put(Main, ops))
           /\ \A i \in 1 .. Len(Put(Main, ops)) :
                  i \in 1 .. Len(ops) /\ Put(Main, ops)[i] = ops[i]
           /\ Capturing' <=> Capturing
           /\ tape' # None => tape' \in Seq(CallOperations)
           /\ Capturing => queue' = queue /\ tape' = tape \o ops
           /\ ~Capturing => tape' = tape /\ Put(Main, ops) = ops
<1>1. queue \in [Streams -> Seq(Operations)] /\ (tape # None => tape \in Seq(CallOperations))
  BY DEF Shape, HostShape, CallType, DeviceShape
<1>2. /\ Grows(Main, Put(Main, ops))
      /\ \A i \in 1 .. Len(Put(Main, ops)) :
             i \in 1 .. Len(ops) /\ Put(Main, ops)[i] = ops[i]
      /\ Capturing => queue' = queue /\ tape' = tape \o ops
      /\ ~Capturing => tape' = tape /\ Put(Main, ops) = ops
  BY <1>1, MainIsAStream, Enqueued
<1>3. Capturing => tape \o ops \in Seq(CallOperations)
  BY <1>1, Concatenated DEF Capturing
<1>4. None \notin Seq(CallOperations)
  BY NoneAssumption
<1> QED
  BY <1>1, <1>2, <1>3, <1>4 DEF Capturing

\* A call's operation alone, other than a decode.
LEMMA EnqueuedOne ==
    ASSUME Shape, NEW o \in CallOperations, o.op # "decode", Enqueue(Main, <<o>>)
    PROVE  /\ Grows(Main, Put(Main, <<o>>)) /\ Quiet(Put(Main, <<o>>))
           /\ Capturing' <=> Capturing
           /\ tape' # None => tape' \in Seq(CallOperations)
<1>1. o \in Operations /\ o.op \in {"alloc", "free", "copy"}
  BY CallOperationFields
<1>2. <<o>> \in Seq(Operations) /\ <<o>> \in Seq(CallOperations)
      /\ Len(<<o>>) = 1 /\ <<o>>[1] = o
  BY <1>1, Singleton
<1>3. /\ Grows(Main, Put(Main, <<o>>))
      /\ \A i \in 1 .. Len(Put(Main, <<o>>)) :
             i \in 1 .. Len(<<o>>) /\ Put(Main, <<o>>)[i] = <<o>>[i]
      /\ Capturing' <=> Capturing
      /\ tape' # None => tape' \in Seq(CallOperations)
  BY <1>2, EnqueuedOnMain
<1>4. Quiet(Put(Main, <<o>>))
  <2> SUFFICES ASSUME NEW m \in 1 .. Len(Put(Main, <<o>>))
               PROVE  Put(Main, <<o>>)[m].op \notin {"fill", "record", "decode"}
    BY DEF Quiet
  <2>1. m \in 1 .. 1 /\ Put(Main, <<o>>)[m] = <<o>>[m]
    BY <1>2, <1>3
  <2> QED
    BY <1>1, <1>2, <2>1
<1> QED
  BY <1>3, <1>4

LEMMA NothingEnqueued ==
    ASSUME Shape, queue' = queue
    PROVE  Grows(Main, <<>>) /\ Quiet(<<>>)
BY MainIsAStream, GrowsNot, EmptySeq DEF Quiet, Shape, DeviceShape

LEMMA BeginOrdered ==
    ASSUME Ordered, NEW c \in Calls, Begin(c)
    PROVE  Ordered'
<1>1. /\ Shape /\ call[c].step = "new" /\ ReadsOf(c) \cap dropped = {}
      /\ Enqueue(Main, <<Alloc(c)>>)
      /\ call' = [call EXCEPT ![c].step = "lock"]
      /\ UNCHANGED <<tracking, readers, writer, dropped, version, recorded, graph, replays,
                     done, live, content, stable>>
  BY DEF Ordered, Begin, events, launches, device
<1>2. Alloc(c) \in CallOperations /\ Alloc(c).op = "alloc"
  BY CallOps DEF Alloc, CallOperations
<1>3. /\ Grows(Main, Put(Main, <<Alloc(c)>>)) /\ Quiet(Put(Main, <<Alloc(c)>>))
      /\ Capturing' <=> Capturing
      /\ tape' # None => tape' \in Seq(CallOperations)
  BY <1>1, <1>2, EnqueuedOne
<1>4. /\ \A d \in Calls \ {c} : call'[d] = call[d]
      /\ call'[c].step = "lock" /\ call'[c].n = call[c].n /\ call'[c].ok = call[c].ok
      /\ call[c].n = 0 /\ ~call[c].ok
  BY <1>1 DEF Ordered, Shape, HostShape, CallType, CallsOK
<1>5. HostShape'
  BY <1>1, <1>3 DEF Shape, HostShape, CallType, Active
<1>6. CallsOK'
  <2>1. FirstReads(c, 0) = {}
    BY DEF FirstReads
  <2> QED
    BY <1>1, <1>4, <2>1, ReadsAreInputs DEF Ordered, CallsOK, Active
<1>7. ModeOK'
  BY <1>1, <1>3 DEF Ordered, ModeOK
<1>8. \A d \in Calls : call'[d].step = "launch" => \A b \in ReadsOf(d) : KnowsNow(b)
  BY <1>4 DEF Ordered, NextOK
<1> QED
  BY <1>1, <1>3, <1>4, <1>5, <1>6, <1>7, <1>8, QuietStep DEF HostOK, events, device

LEMMA FirstReadsNext ==
    ASSUME NEW c \in Calls, NEW n \in Nat
    PROVE  FirstReads(c, n + 1) = FirstReads(c, n) \cup {Reads[c][n + 1]}
<1>1. 1 .. (n + 1) = (1 .. n) \cup {n + 1}
  OBVIOUS
<1> QED
  BY <1>1 DEF FirstReads

LEMMA LockOrdered ==
    ASSUME Ordered, NEW c \in Calls, Lock(c)
    PROVE  Ordered'
<1> DEFINE n == call[c].n + 1
           b == Reads[c][n]
<1>1. /\ Shape /\ call[c].step = "lock"
      /\ readers' = [readers EXCEPT ![b] = @ \cup {c}]
      /\ call' = [call EXCEPT ![c] = IF n = Len(Reads[c])
                                     THEN [@ EXCEPT !.step = "point", !.n = 0]
                                     ELSE [@ EXCEPT !.n = n]]
      /\ UNCHANGED <<tracking, writer, dropped, version, recorded, tape, graph, replays, queue,
                     done, live, content, stable>>
  BY DEF Ordered, Lock, events, graphs, launches, device
<1>2. /\ call[c].n \in Nat /\ Len(Reads[c]) \in Nat /\ call[c].n < Len(Reads[c])
      /\ \A d \in FirstReads(c, call[c].n) : c \in readers[d]
      /\ ~call[c].ok
  BY <1>1, ReadsAreInputs DEF Ordered, Shape, HostShape, CallType, CallsOK
<1>3. n \in 1 .. Len(Reads[c]) /\ b \in ReadsOf(c) /\ b \in Inputs
  BY <1>2, ReadsAreInputs
<1>4. /\ \A d \in Calls \ {c} : call'[d] = call[d]
      /\ call'[c].ok = call[c].ok
      /\ n = Len(Reads[c]) => call'[c].step = "point" /\ call'[c].n = 0
      /\ n # Len(Reads[c]) => call'[c].step = "lock" /\ call'[c].n = n
  BY <1>1 DEF Shape, HostShape, CallType
<1>5. /\ \A d \in Inputs \ {b} : readers'[d] = readers[d]
      /\ readers'[b] = readers[b] \cup {c}
  BY <1>1, <1>3 DEF Shape, HostShape, CallType
<1>6. \A d \in FirstReads(c, n) : c \in readers'[d]
  <2>1. FirstReads(c, n) = FirstReads(c, call[c].n) \cup {b}
    BY <1>2, FirstReadsNext
  <2>2. FirstReads(c, call[c].n) \in SUBSET Inputs
    BY <1>2, ReadsAreInputs
  <2> QED
    BY <1>2, <1>5, <2>1, <2>2
<1>7. HostShape'
  <2>1. call' \in [Calls -> CallType]
    <3>1. call[c] \in CallType /\ n \in Nat
      BY <1>1, <1>2 DEF Shape, HostShape
    <3>2. /\ [call[c] EXCEPT !.step = "point", !.n = 0] \in CallType
          /\ [call[c] EXCEPT !.n = n] \in CallType
      BY <3>1 DEF CallType, Active
    <3> QED
      BY <1>1, <3>2 DEF Shape, HostShape
  <2>2. readers' \in [Inputs -> SUBSET Calls]
    BY <1>1 DEF Shape, HostShape, CallType
  <2> QED
    BY <1>1, <2>1, <2>2 DEF Shape, HostShape, CallType
<1> HIDE DEF n, b
<1>8. CallsOK'
  <2> SUFFICES ASSUME NEW d \in Calls
               PROVE  /\ call'[d].n <= Len(Reads[d])
                      /\ call'[d].step = "new" => call'[d].n = 0
                      /\ call'[d].step = "lock" =>
                             /\ call'[d].n < Len(Reads[d])
                             /\ \A e \in FirstReads(d, call'[d].n) : d \in readers'[e]
                      /\ call'[d].step \in {"point", "launch", "end"} =>
                             \A e \in ReadsOf(d) : d \in readers'[e]
                      /\ call'[d].step = "launch" \/ call'[d].ok => call'[d].n = Len(Reads[d])
                      /\ call'[d].ok = (call'[d].step \in {"ok", "dropped"}
                                        \/ (call'[d].step = "end" /\ call'[d].ok))
                      /\ \A e \in Inputs : d \in readers'[e] => call'[d].step \in Active
                      /\ call'[d].step \in Active => ReadsOf(d) \cap dropped' = {}
    BY DEF CallsOK
  <2>1. CASE d = c
    <3>1. CASE n = Len(Reads[c])
      BY <1>1, <1>2, <1>3, <1>4, <1>6, <2>1, <3>1, ReadsAreInputs
         DEF Ordered, CallsOK, Active
    <3>2. CASE n # Len(Reads[c])
      BY <1>1, <1>2, <1>3, <1>4, <1>6, <2>1, <3>2, ReadsAreInputs
         DEF Ordered, CallsOK, Active
    <3> QED
      BY <3>1, <3>2
  <2>2. CASE d # c
    <3>1. call'[d] = call[d] /\ \A e \in Inputs : d \in readers[e] <=> d \in readers'[e]
      BY <1>4, <1>5, <2>2
    <3>2. \A e \in FirstReads(d, call[d].n) : call[d].step = "lock" => e \in Inputs
      BY ReadsAreInputs DEF Ordered, CallsOK, Shape, HostShape, CallType
    <3>3. ReadsOf(d) \in SUBSET Inputs
      BY ReadsAreInputs
    <3> QED
      BY <1>1, <3>1, <3>2, <3>3 DEF Ordered, CallsOK
  <2> QED
    BY <2>1, <2>2
<1>9. ModeOK'
  BY <1>1 DEF Ordered, ModeOK, Capturing
<1>10. \A d \in Calls : call'[d].step = "launch" => \A e \in ReadsOf(d) : KnowsNow(e)
  BY <1>4 DEF Ordered, NextOK
<1>11. Grows(Main, <<>>) /\ Quiet(<<>>)
  BY <1>1, NothingEnqueued
<1>12. \A e \in Inputs : \A d \in Calls :
           d \in readers[e] /\ call[d].ok => d \in readers'[e] /\ call'[d].ok
  BY <1>4, <1>5
<1> QED
  BY <1>1, <1>7, <1>8, <1>9, <1>10, <1>11, <1>12, QuietStep DEF HostOK, events, device

\* A call's step to another one, with the locks it has.
LEMMA CallGoes ==
    ASSUME HostOK, NEW c \in Calls, NEW st \in {"launch", "end", "ok", "err", "dropped"},
           NEW n \in 0 .. Len(Reads[c]), NEW ok \in BOOLEAN,
           call' \in [Calls -> CallType], \A d \in Calls \ {c} : call'[d] = call[d],
           call'[c].step = st, call'[c].n = n, call'[c].ok <=> ok,
           dropped' = dropped, readers' \in [Inputs -> SUBSET Calls],
           \A b \in Inputs : \A d \in Calls \ {c} : d \in readers'[b] <=> d \in readers[b],
           st \in {"launch", "end"} =>
               call[c].step \in {"point", "launch"} /\ readers' = readers,
           st \notin {"launch", "end"} => \A b \in Inputs : c \notin readers'[b],
           st = "launch" \/ ok => n = Len(Reads[c]),
           st = "launch" => ~ok,
           ok => st \in {"end", "ok", "dropped"},
           st \in {"ok", "dropped"} => ok
    PROVE  CallsOK'
<1>1. call \in [Calls -> CallType] /\ readers \in [Inputs -> SUBSET Calls]
      /\ Len(Reads[c]) \in Nat
  BY ReadsAreInputs DEF HostOK, HostShape
<1>4. /\ \A d \in Calls \ {c} : call'[d] = call[d]
      /\ call'[c].step = st /\ call'[c].n = n /\ (call'[c].ok <=> ok)
      /\ call'[c] \in CallType
  OBVIOUS
<1>5. CallsOK'
  <2> SUFFICES ASSUME NEW d \in Calls
               PROVE  /\ call'[d].n <= Len(Reads[d])
                      /\ call'[d].step = "new" => call'[d].n = 0
                      /\ call'[d].step = "lock" =>
                             /\ call'[d].n < Len(Reads[d])
                             /\ \A e \in FirstReads(d, call'[d].n) : d \in readers'[e]
                      /\ call'[d].step \in {"point", "launch", "end"} =>
                             \A e \in ReadsOf(d) : d \in readers'[e]
                      /\ call'[d].step = "launch" \/ call'[d].ok => call'[d].n = Len(Reads[d])
                      /\ call'[d].ok = (call'[d].step \in {"ok", "dropped"}
                                        \/ (call'[d].step = "end" /\ call'[d].ok))
                      /\ \A e \in Inputs : d \in readers'[e] => call'[d].step \in Active
                      /\ call'[d].step \in Active => ReadsOf(d) \cap dropped' = {}
    BY DEF CallsOK
  <2>1. CASE d = c
    <3>1. call'[c].ok \in BOOLEAN
      BY <1>4 DEF CallType
    <3> QED
      BY <1>1, <1>4, <2>1, <3>1, ReadsAreInputs DEF HostOK, CallsOK, Active
  <2>2. CASE d # c
    <3>1. call'[d] = call[d] /\ \A e \in Inputs : d \in readers[e] <=> d \in readers'[e]
      BY <1>4, <2>2
    <3>2. \A e \in FirstReads(d, call[d].n) : call[d].step = "lock" => e \in Inputs
      BY <1>1, ReadsAreInputs DEF HostOK, CallsOK, CallType
    <3>3. ReadsOf(d) \in SUBSET Inputs
      BY ReadsAreInputs
    <3> QED
      BY <3>1, <3>2, <3>3 DEF HostOK, CallsOK
  <2> QED
    BY <2>1, <2>2
<1> QED
  BY <1>5

LEMMA OrderedParts ==
    ASSUME Ordered
    PROVE  /\ HostOK /\ Shape
           /\ call \in [Calls -> CallType] /\ readers \in [Inputs -> SUBSET Calls]
           /\ recorded \in [Inputs -> [Kinds -> Nat]] /\ version \in [Inputs -> Nat]
           /\ queue \in [Streams -> Seq(Operations)]
           /\ Capturing => ~tracking
           /\ \A c \in Calls : call[c] = [step |-> call[c].step, n |-> call[c].n, ok |-> call[c].ok]
           /\ \A c \in Calls : call[c].n \in 0 .. Len(Reads[c]) /\ call[c].ok \in BOOLEAN
<1>1. /\ HostOK /\ Shape /\ call \in [Calls -> CallType]
      /\ readers \in [Inputs -> SUBSET Calls]
      /\ recorded \in [Inputs -> [Kinds -> Nat]] /\ version \in [Inputs -> Nat]
      /\ queue \in [Streams -> Seq(Operations)]
      /\ Capturing => ~tracking
  BY DEF Ordered, Shape, HostShape, DeviceShape, HostOK, ModeOK
<1>2. \A c \in Calls : call[c] = [step |-> call[c].step, n |-> call[c].n, ok |-> call[c].ok]
  BY <1>1 DEF CallType
<1>3. \A c \in Calls : call[c].n \in 0 .. Len(Reads[c]) /\ call[c].ok \in BOOLEAN
  BY <1>1, ReadsAreInputs DEF HostOK, CallsOK, CallType
<1> QED
  BY <1>1, <1>2, <1>3

LEMMA PointOrdered ==
    ASSUME Ordered, NEW c \in Calls, NEW n \in 0 .. Len(Reads[c]), Point(c, n)
    PROVE  Ordered'
<1> DEFINE ops == Wait(FirstReads(c, n), {"write"})
<1>0. PICK st \in {"launch", "end"} :
          /\ st = "launch" <=> n = Len(Reads[c])
          /\ call' = [call EXCEPT ![c].n = n, ![c].step = st]
  BY DEF Point
<1>1. /\ call[c].step = "point" /\ Enqueue(Main, ops)
      /\ UNCHANGED <<tracking, readers, writer, dropped, version, recorded, graph, replays,
                     done, live, content, stable>>
  BY DEF Point, CallStream, events, launches, device
<1>2. HostOK /\ Shape /\ ~call[c].ok
  BY <1>1, OrderedParts DEF HostOK, CallsOK
<1>3. /\ call' \in [Calls -> CallType] /\ \A d \in Calls \ {c} : call'[d] = call[d]
      /\ call'[c].step = st /\ call'[c].n = n /\ (call'[c].ok <=> FALSE)
  <2>1. call \in [Calls -> CallType] /\ n \in Nat
    BY OrderedParts, ReadsAreInputs
  <2>2. call' \in [Calls -> CallType]
    BY <1>0, <2>1 DEF CallType, Active
  <2>3. /\ \A d \in Calls \ {c} : call'[d] = call[d]
        /\ call'[c].step = st /\ call'[c].n = n
    BY <1>0, <2>1 DEF CallType
  <2>4. ~call'[c].ok
    BY <1>0, <1>2, <2>1 DEF CallType
  <2> QED
    BY <2>2, <2>3, <2>4
<1>4. /\ FirstReads(c, n) \in SUBSET Inputs /\ {"write"} \in SUBSET Kinds
      /\ n = Len(Reads[c]) => FirstReads(c, n) = ReadsOf(c)
  BY ReadsAreInputs DEF Kinds
<1>5. /\ ops \in Seq(Operations)
      /\ \A i \in 1 .. Len(ops) : ops[i].op = "wait"
      /\ ~tracking => ops = <<>>
      /\ \A b \in FirstReads(c, n) : tracking /\ recorded[b]["write"] > 0 =>
             Len(ops) = 1 /\ <<b, "write", recorded[b]["write"]>> \in ops[1].events
  BY <1>4, OrderedParts, WaitOps
<1> HIDE DEF ops
<1>6. Capturing => ops \in Seq(CallOperations)
  BY <1>5, OrderedParts, EmptySeq
<1>7. /\ Grows(Main, Put(Main, ops))
      /\ \A i \in 1 .. Len(Put(Main, ops)) :
             i \in 1 .. Len(ops) /\ Put(Main, ops)[i] = ops[i]
      /\ Capturing' <=> Capturing
      /\ tape' # None => tape' \in Seq(CallOperations)
      /\ ~Capturing => Put(Main, ops) = ops
  BY <1>1, <1>2, <1>5, <1>6, EnqueuedOnMain
<1>8. Quiet(Put(Main, ops))
  BY <1>5, <1>7 DEF Quiet
<1>9. CallsOK'
  <2>1. FALSE \in BOOLEAN
    OBVIOUS
  <2> QED
    BY <1>0, <1>1, <1>2, <1>3, <2>1, OrderedParts, CallGoes
<1>10. HostShape' /\ ModeOK'
  BY <1>1, <1>2, <1>3, <1>7, <1>9 DEF HostOK, HostShape, ModeOK
<1>11. ASSUME NEW d \in Calls, call'[d].step = "launch", NEW b \in ReadsOf(d)
       PROVE  KnowsNow(b) \/ KnowsNow(b)'
  <2>0. b \in Inputs /\ version[b] \in Nat
    BY ReadsAreInputs, OrderedParts
  <2>1. CASE d # c
    <3>1. call[d].step = "launch"
      BY <1>3, <1>11, <2>1, OrderedParts
    <3> QED
      BY <3>1 DEF Ordered, NextOK
  <2>2. CASE ~tracking
    BY <2>0, <2>2 DEF Ordered, NextOK
  <2>3. CASE d = c /\ tracking
    <3>1. n = Len(Reads[c]) /\ b \in FirstReads(c, n)
      BY <1>0, <1>3, <1>4, <1>11, <2>3, OrderedParts
    <3>2. recorded[b]["write"] = version[b] /\ ~Capturing
      BY <2>0, <2>3 DEF Ordered, ModeOK
    <3>3. CASE version[b] = 0
      BY <2>0, <3>3 DEF KnowsNow, Knows, Ordered, Shape, DeviceShape
    <3>4. CASE version[b] > 0
      <4>1. Len(ops) = 1 /\ <<b, "write", version[b]>> \in ops[1].events /\ ops[1].op = "wait"
        BY <1>5, <2>3, <3>1, <3>2, <3>4
      <4>2. /\ Len(queue'[Main]) = Len(queue[Main]) + 1
            /\ queue'[Main][Len(queue[Main]) + 1] = ops[1]
            /\ Len(queue[Main]) \in Nat
        <5>1. Len(queue[Main]) \in Nat
          BY MainIsAStream, OrderedParts, QueueLengths
        <5>2. Grows(Main, ops) /\ 1 \in 1 .. Len(ops)
          BY <1>7, <3>2, <4>1
        <5> QED
          BY <4>1, <5>1, <5>2, MainIsAStream DEF Grows
      <4>3. \A k \in Nat : k = Len(queue[Main]) + 1 =>
                /\ k \in 1 .. (Len(queue'[Main]) + 1) - 1
                /\ Waits(Main, k, <<b, "write", version[b]>>)'
        BY <1>1, <4>1, <4>2 DEF Waits
      <4>4. KnowsNow(b)'
        BY <1>1, <4>2, <4>3 DEF KnowsNow, Knows, M
      <4> QED
        BY <4>4
    <3> QED
      BY <2>0, <3>3, <3>4
  <2> QED
    BY <2>1, <2>2, <2>3
<1>12. \A b \in Inputs : \A d \in Calls :
           d \in readers[b] /\ call[d].ok => d \in readers'[b] /\ call'[d].ok
  BY <1>1, <1>2, <1>3, OrderedParts
<1> QED
  BY <1>1, <1>7, <1>8, <1>9, <1>10, <1>11, <1>12, QuietStep DEF HostOK, events, device

LEMMA LaunchOrdered ==
    ASSUME Ordered, NEW c \in Calls, Launch(c)
    PROVE  Ordered'
<1> DEFINE o == Decode(c)
<1>1. /\ call[c].step = "launch" /\ Enqueue(Main, <<o>>)
      /\ call' = [call EXCEPT ![c].step = "end", ![c].ok = TRUE]
      /\ UNCHANGED <<tracking, readers, writer, dropped, version, recorded, graph, replays,
                     done, live, content, stable>>
  BY DEF Launch, CallStream, events, launches, device
<1>2. HostOK /\ Shape /\ call[c].n = Len(Reads[c]) /\ \A b \in ReadsOf(c) : c \in readers[b]
  BY <1>1, OrderedParts DEF HostOK, CallsOK
<1>3. /\ call' \in [Calls -> CallType] /\ \A d \in Calls \ {c} : call'[d] = call[d]
      /\ call'[c].step = "end" /\ call'[c].n = call[c].n /\ (call'[c].ok <=> TRUE)
  BY <1>1, OrderedParts DEF CallType, Active
<1>4. /\ o \in CallOperations /\ o \in Operations /\ o.op = "decode" /\ o.buf = c
      /\ o.given = version
  BY CallOps, OrderedParts, CallOperationFields DEF IsOp
<1> HIDE DEF o
<1>5. /\ <<o>> \in Seq(Operations) /\ <<o>> \in Seq(CallOperations)
      /\ Len(<<o>>) = 1 /\ <<o>>[1] = o
  BY <1>4, Singleton
<1>6. /\ Grows(Main, Put(Main, <<o>>))
      /\ \A i \in 1 .. Len(Put(Main, <<o>>)) :
             i \in 1 .. Len(<<o>>) /\ Put(Main, <<o>>)[i] = <<o>>[i]
      /\ Capturing' <=> Capturing
      /\ tape' # None => tape' \in Seq(CallOperations)
  BY <1>1, <1>2, <1>5, EnqueuedOnMain
<1>7. \A i \in 1 .. Len(Put(Main, <<o>>)) : Put(Main, <<o>>)[i] = o
  <2>1. \A i \in 1 .. 1 : i = 1
    OBVIOUS
  <2> QED
    BY <1>5, <1>6, <2>1
<1>8. CallsOK'
  <2>1. /\ "end" \in {"launch", "end", "ok", "err", "dropped"} /\ TRUE \in BOOLEAN
    OBVIOUS
  <2> QED
    BY <1>1, <1>2, <1>3, <2>1, OrderedParts, CallGoes
<1>9. HostShape' /\ ModeOK'
  BY <1>1, <1>2, <1>3, <1>6, <1>8 DEF HostOK, HostShape, ModeOK
<1>10. /\ call'[c].ok
       /\ \A d \in Calls \ {c} : call'[d] = call[d]
       /\ call'[c].step # "launch"
  BY <1>3, OrderedParts
<1>11. \A d \in Calls : call'[d].step = "launch" => \A b \in ReadsOf(d) : KnowsNow(b)
  BY <1>10 DEF Ordered, NextOK
<1>12. /\ \A m \in 1 .. Len(Put(Main, <<o>>)) : Put(Main, <<o>>)[m].op \notin {"fill", "record"}
       /\ \A m \in 1 .. Len(Put(Main, <<o>>)) : \A d \in Calls :
              IsOp(Put(Main, <<o>>)[m], "decode", d) =>
                  \A b \in ReadsOf(d) :
                      /\ Put(Main, <<o>>)[m].given[b] = version[b] /\ KnowsNow(b)
                      /\ tracking => d \in readers'[b] /\ call'[d].ok
  BY <1>1, <1>2, <1>4, <1>7, <1>10 DEF Ordered, NextOK, IsOp
<1>13. \A b \in Inputs : \A d \in Calls :
           d \in readers[b] /\ call[d].ok => d \in readers'[b] /\ call'[d].ok
  BY <1>1, <1>10
<1> QED
  BY <1>1, <1>6, <1>8, <1>9, <1>11, <1>12, <1>13, DecodingStep DEF HostOK, events, device

LEMMA LaunchFailsOrdered ==
    ASSUME Ordered, NEW c \in Calls, LaunchFails(c)
    PROVE  Ordered'
<1>1. /\ call[c].step = "launch"
      /\ call' = [call EXCEPT ![c].step = "end"]
      /\ UNCHANGED <<tracking, readers, writer, dropped, version, recorded, tape, graph, replays,
                     queue, done, live, content, stable>>
  BY DEF LaunchFails, events, graphs, launches, device
<1>2. HostOK /\ Shape /\ ~call[c].ok
  BY <1>1, OrderedParts DEF HostOK, CallsOK
<1>3. /\ call' \in [Calls -> CallType] /\ \A d \in Calls \ {c} : call'[d] = call[d]
      /\ call'[c].step = "end" /\ call'[c].n = call[c].n /\ (call'[c].ok <=> FALSE)
  BY <1>1, <1>2, OrderedParts DEF CallType, Active
<1>4. CallsOK'
  <2>1. "end" \in {"launch", "end", "ok", "err", "dropped"} /\ FALSE \in BOOLEAN
    OBVIOUS
  <2> QED
    BY <1>1, <1>2, <1>3, <2>1, OrderedParts, CallGoes
<1>5. HostShape' /\ ModeOK'
  BY <1>1, <1>2, <1>3, <1>4 DEF HostOK, HostShape, ModeOK, Capturing
<1>6. /\ \A d \in Calls \ {c} : call'[d] = call[d]
      /\ call'[c].step # "launch"
  BY <1>3, OrderedParts
<1>7. \A d \in Calls : call'[d].step = "launch" => \A b \in ReadsOf(d) : KnowsNow(b)
  BY <1>6 DEF Ordered, NextOK
<1>8. Grows(Main, <<>>) /\ Quiet(<<>>)
  BY <1>1, <1>2, NothingEnqueued
<1>9. \A b \in Inputs : \A d \in Calls :
          d \in readers[b] /\ call[d].ok => d \in readers'[b] /\ call'[d].ok
  BY <1>1, <1>2, <1>6
<1> QED
  BY <1>1, <1>4, <1>5, <1>7, <1>8, <1>9, QuietStep DEF HostOK, events, device

LEMMA DropOutputOrdered ==
    ASSUME Ordered, NEW c \in Calls, DropOutput(c)
    PROVE  Ordered'
<1>1. /\ call[c].step = "ok" /\ Enqueue(Main, <<Free(c)>>)
      /\ call' = [call EXCEPT ![c].step = "dropped"]
      /\ UNCHANGED <<tracking, readers, writer, dropped, version, recorded, graph, replays,
                     done, live, content, stable>>
  BY DEF DropOutput, events, launches, device
<1>2. /\ HostOK /\ Shape /\ call[c].ok /\ call[c].n = Len(Reads[c])
      /\ \A b \in Inputs : c \notin readers[b]
  BY <1>1, OrderedParts DEF HostOK, CallsOK, Active
<1>3. /\ call' \in [Calls -> CallType] /\ \A d \in Calls \ {c} : call'[d] = call[d]
      /\ call'[c].step = "dropped" /\ call'[c].n = call[c].n /\ (call'[c].ok <=> TRUE)
  BY <1>1, <1>2, OrderedParts DEF CallType, Active
<1>4. CallsOK'
  <2>1. "dropped" \in {"launch", "end", "ok", "err", "dropped"} /\ TRUE \in BOOLEAN
    OBVIOUS
  <2> QED
    BY <1>1, <1>2, <1>3, <2>1, OrderedParts, CallGoes
<1>5. Free(c) \in CallOperations /\ Free(c).op = "free"
  BY DEF Free, CallOperations
<1>6. /\ Grows(Main, Put(Main, <<Free(c)>>)) /\ Quiet(Put(Main, <<Free(c)>>))
      /\ Capturing' <=> Capturing
      /\ tape' # None => tape' \in Seq(CallOperations)
  BY <1>1, <1>2, <1>5, EnqueuedOne
<1>7. HostShape' /\ ModeOK'
  BY <1>1, <1>2, <1>3, <1>4, <1>6 DEF HostOK, HostShape, ModeOK
<1>8. /\ \A d \in Calls \ {c} : call'[d] = call[d]
      /\ call'[c].step # "launch" /\ call'[c].ok
  BY <1>3, OrderedParts
<1>9. \A d \in Calls : call'[d].step = "launch" => \A b \in ReadsOf(d) : KnowsNow(b)
  BY <1>8 DEF Ordered, NextOK
<1>10. \A b \in Inputs : \A d \in Calls :
           d \in readers[b] /\ call[d].ok => d \in readers'[b] /\ call'[d].ok
  BY <1>1, <1>8
<1> QED
  BY <1>1, <1>4, <1>6, <1>7, <1>9, <1>10, QuietStep DEF HostOK, events, device

\* The calls and what they hold are as they were.
LEMMA CallsStay ==
    ASSUME HostOK, call' = call, readers' = readers, dropped' = dropped
    PROVE  CallsOK'
BY DEF HostOK, CallsOK

\* What a refill or the release of an input waits for, and does.
LEMMA WaitThen ==
    ASSUME recorded \in [Inputs -> [Kinds -> Nat]], NEW b \in Inputs, NEW o \in Operations
    PROVE  /\ Wait({b}, Kinds) \in Seq(Operations)
           /\ Len(Wait({b}, Kinds)) \in Nat
           /\ Wait({b}, Kinds) \o <<o>> \in Seq(Operations)
           /\ Len(Wait({b}, Kinds) \o <<o>>) = Len(Wait({b}, Kinds)) + 1
           /\ \A i \in 1 .. Len(Wait({b}, Kinds)) :
                  /\ (Wait({b}, Kinds) \o <<o>>)[i] = Wait({b}, Kinds)[i]
                  /\ Wait({b}, Kinds)[i].op = "wait"
           /\ (Wait({b}, Kinds) \o <<o>>)[Len(Wait({b}, Kinds)) + 1] = o
           /\ ~tracking => Len(Wait({b}, Kinds)) = 0
           /\ \A k \in Kinds : tracking /\ recorded[b][k] > 0 =>
                  /\ Len(Wait({b}, Kinds)) = 1
                  /\ <<b, k, recorded[b][k]>> \in Wait({b}, Kinds)[1].events
<1> DEFINE w == Wait({b}, Kinds)
<1>1. /\ w \in Seq(Operations)
      /\ \A i \in 1 .. Len(w) : w[i].op = "wait"
      /\ ~tracking => w = <<>>
      /\ \A k \in Kinds : tracking /\ recorded[b][k] > 0 =>
             Len(w) = 1 /\ <<b, k, recorded[b][k]>> \in w[1].events
  <2>1. {b} \in SUBSET Inputs /\ Kinds \in SUBSET Kinds /\ b \in {b}
    OBVIOUS
  <2> QED
    BY <2>1, WaitOps
<1> HIDE DEF w
<1>2. <<o>> \in Seq(Operations) /\ Len(<<o>>) = 1 /\ <<o>>[1] = o
  BY Singleton
<1>3. /\ w \o <<o>> \in Seq(Operations)
      /\ Len(w) \in Nat
      /\ Len(w \o <<o>>) = Len(w) + 1
      /\ \A i \in 1 .. Len(w) : (w \o <<o>>)[i] = w[i]
      /\ (w \o <<o>>)[Len(w) + 1] = o
  <2>1. 1 \in 1 .. 1
    OBVIOUS
  <2> QED
    BY <1>1, <1>2, <2>1, Concatenated
<1>4. ~tracking => Len(w) = 0
  BY <1>1, EmptySeq
<1> QED
  BY <1>1, <1>3, <1>4 DEF w

LEMMA DropInputOrdered ==
    ASSUME Ordered, NEW b \in Inputs, DropInput(b)
    PROVE  Ordered'
<1> DEFINE w == Wait({b}, Kinds)
           ops == w \o <<Free(b)>>
<1>1. /\ ~Capturing /\ writer[b] = None
      /\ \A c \in Calls : b \in ReadsOf(c) => Idle(c)
      /\ Enqueue(Main, ops)
      /\ dropped' = dropped \cup {b}
      /\ UNCHANGED <<tracking, call, readers, writer, version, recorded, graph, replays,
                     done, live, content, stable>>
  BY DEF DropInput, calls, events, launches, device
<1>2. HostOK /\ Shape
  BY OrderedParts
<1>3. /\ ops \in Seq(Operations) /\ Len(w) \in Nat /\ Len(ops) = Len(w) + 1
      /\ \A i \in 1 .. Len(w) : ops[i].op = "wait"
      /\ ops[Len(w) + 1].op = "free"
  <2>1. Free(b) \in Operations /\ Free(b).op = "free"
    BY OrderedParts, InputOps DEF IsOp
  <2>2. recorded \in [Inputs -> [Kinds -> Nat]]
    BY OrderedParts
  <2>3. /\ ops \in Seq(Operations) /\ Len(w) \in Nat /\ Len(ops) = Len(w) + 1
        /\ \A i \in 1 .. Len(w) : ops[i] = w[i] /\ w[i].op = "wait"
        /\ ops[Len(w) + 1] = Free(b)
    BY <2>1, <2>2, WaitThen
  <2> HIDE DEF ops, w
  <2> QED
    BY <2>1, <2>3
<1> HIDE DEF ops, w
<1>4. Grows(Main, ops) /\ tape' = tape
  <2>1. Grows(Main, Put(Main, ops)) /\ tape' = tape /\ Put(Main, ops) = ops
    BY <1>1, <1>2, <1>3, EnqueuedOnMain
  <2> QED
    BY <2>1
<1>5. Quiet(ops)
  <2>1. \A m \in 1 .. Len(ops) : m \in 1 .. Len(w) \/ m = Len(w) + 1
    BY <1>3
  <2> QED
    BY <1>3, <2>1 DEF Quiet
<1>6. HostOK'
  <2>1. CallsOK'
    <3>1. \A c \in Calls : call[c].step \in Active => b \notin ReadsOf(c)
      BY <1>1 DEF Idle, Active
    <3> QED
      BY <1>1, <1>2, <3>1 DEF HostOK, CallsOK
  <2>2. HostShape' /\ ModeOK'
    BY <1>1, <1>2, <1>4 DEF HostOK, HostShape, ModeOK, Capturing
  <2> QED
    BY <2>1, <2>2 DEF HostOK
<1>7. \A d \in Calls : call'[d].step = "launch" => \A e \in ReadsOf(d) : KnowsNow(e)
  BY <1>1 DEF Ordered, NextOK
<1>8. \A e \in Inputs : \A d \in Calls :
          d \in readers[e] /\ call[d].ok => d \in readers'[e] /\ call'[d].ok
  BY <1>1
<1> QED
  BY <1>1, <1>4, <1>5, <1>6, <1>7, <1>8, QuietStep DEF events, device

\* A step that enqueues nothing and leaves the calls and the device alone.
LEMMA HostStep ==
    ASSUME Ordered, UNCHANGED <<tracking, calls, dropped, events, queue, device>>,
           HostShape', ModeOK'
    PROVE  Ordered'
<1>1. /\ call' = call /\ readers' = readers /\ dropped' = dropped /\ queue' = queue
      /\ HostOK /\ Shape
  BY OrderedParts DEF calls
<1>2. HostOK'
  BY <1>1, CallsStay DEF HostOK
<1>3. Grows(Main, <<>>) /\ Quiet(<<>>)
  BY <1>1, NothingEnqueued
<1>4. \A d \in Calls : call'[d].step = "launch" => \A e \in ReadsOf(d) : KnowsNow(e)
  BY <1>1 DEF Ordered, NextOK
<1> QED
  BY <1>1, <1>2, <1>3, <1>4, QuietStep

LEMMA RefillBeginOrdered ==
    ASSUME Ordered, NEW b \in Inputs, NEW s \in Streams, RefillBegin(b, s)
    PROVE  Ordered'
<1>1. HostShape'
  BY OrderedParts DEF RefillBegin, calls, events, graphs, launches, HostOK, HostShape
<1>2. ModeOK'
  BY OrderedParts DEF RefillBegin, calls, events, graphs, launches, HostOK, HostShape, ModeOK,
     Capturing
<1> QED
  BY <1>1, <1>2, HostStep DEF RefillBegin

LEMMA BeginCaptureOrdered ==
    ASSUME Ordered, BeginCapture
    PROVE  Ordered'
<1>1. <<>> \in Seq(CallOperations) /\ <<>> # None
  BY NoneAssumption, EmptySeq
<1>2. HostShape'
  BY <1>1, OrderedParts DEF BeginCapture, calls, events, launches, HostOK, HostShape
<1>3. ModeOK'
  BY <1>1, OrderedParts DEF BeginCapture, calls, events, launches, HostOK, ModeOK, Capturing
<1> QED
  BY <1>2, <1>3, HostStep DEF BeginCapture

LEMMA EndCaptureOrdered ==
    ASSUME Ordered, EndCapture
    PROVE  Ordered'
<1>1. HostShape'
  BY OrderedParts DEF EndCapture, calls, events, launches, HostOK, HostShape, Capturing
<1>2. ModeOK'
  BY OrderedParts DEF EndCapture, calls, events, launches, HostOK, ModeOK, Capturing
<1> QED
  BY <1>1, <1>2, HostStep DEF EndCapture

LEMMA CopyOutOrdered ==
    ASSUME Ordered, NEW c \in Calls, CopyOut(c)
    PROVE  Ordered'
<1>1. /\ Enqueue(Main, <<Copy(c)>>)
      /\ UNCHANGED <<tracking, call, readers, writer, dropped, version, recorded, graph, replays,
                     done, live, content, stable>>
  BY DEF CopyOut, calls, events, launches, device
<1>2. Copy(c) \in CallOperations /\ Copy(c).op = "copy"
  BY DEF Copy, CallOperations
<1>3. HostOK /\ Shape
  BY OrderedParts
<1>4. /\ Grows(Main, Put(Main, <<Copy(c)>>)) /\ Quiet(Put(Main, <<Copy(c)>>))
      /\ Capturing' <=> Capturing
      /\ tape' # None => tape' \in Seq(CallOperations)
  BY <1>1, <1>2, <1>3, EnqueuedOne
<1>5. HostOK'
  <2>1. HostShape' /\ ModeOK'
    BY <1>1, <1>3, <1>4 DEF HostOK, HostShape, ModeOK
  <2> QED
    BY <1>1, <1>3, <2>1, CallsStay DEF HostOK
<1>6. \A d \in Calls : call'[d].step = "launch" => \A e \in ReadsOf(d) : KnowsNow(e)
  BY <1>1 DEF Ordered, NextOK
<1> QED
  BY <1>1, <1>4, <1>5, <1>6, QuietStep DEF events, device

\* What a replay enqueues.
ReplayedOps ==
    [i \in DOMAIN graph |-> IF graph[i].op = "decode" THEN Decode(graph[i].buf) ELSE graph[i]]

LEMMA ReplayedIsGraph ==
    ASSUME graph \in Seq(CallOperations), version \in [Inputs -> Nat]
    PROVE  /\ ReplayedOps \in Seq(Operations)
           /\ Len(graph) \in Nat /\ Len(ReplayedOps) = Len(graph)
           /\ \A i \in 1 .. Len(graph) :
                  /\ graph[i] \in CallOperations
                  /\ ReplayedOps[i] \in CallOperations
                  /\ ReplayedOps[i].op = graph[i].op /\ ReplayedOps[i].buf = graph[i].buf
                  /\ graph[i].op = "decode" => ReplayedOps[i].given = version
<1>1. /\ Len(graph) \in Nat /\ DOMAIN graph = 1 .. Len(graph)
      /\ \A i \in 1 .. Len(graph) : graph[i] \in CallOperations
  BY LenProperties, ElementOfSeq
<1>2. ASSUME NEW i \in 1 .. Len(graph)
      PROVE  /\ graph[i] \in CallOperations
             /\ ReplayedOps[i] \in CallOperations
             /\ ReplayedOps[i].op = graph[i].op /\ ReplayedOps[i].buf = graph[i].buf
             /\ graph[i].op = "decode" => ReplayedOps[i].given = version
             /\ ReplayedOps[i] \in Operations
  <2>1. /\ graph[i] \in CallOperations /\ graph[i].buf \in Calls
        /\ ReplayedOps[i] = IF graph[i].op = "decode" THEN Decode(graph[i].buf) ELSE graph[i]
    BY <1>1, CallOperationFields DEF ReplayedOps
  <2>2. /\ Decode(graph[i].buf) \in CallOperations
        /\ IsOp(Decode(graph[i].buf), "decode", graph[i].buf)
        /\ Decode(graph[i].buf).given = version
    BY <2>1, CallOps
  <2>3. ReplayedOps[i] \in CallOperations
    BY <2>1, <2>2
  <2>4. ReplayedOps[i] \in Operations
    BY <2>3, CallOperationFields
  <2> QED
    BY <2>1, <2>2, <2>3, <2>4 DEF IsOp
<1>3. DOMAIN ReplayedOps = 1 .. Len(graph)
  BY <1>1 DEF ReplayedOps
<1>4. ReplayedOps \in [1 .. Len(graph) -> Operations]
  <2>1. ReplayedOps = [i \in 1 .. Len(graph) |-> ReplayedOps[i]]
    BY <1>1 DEF ReplayedOps
  <2> QED
    BY <1>2, <2>1
<1>5. ReplayedOps \in Seq(Operations) /\ Len(ReplayedOps) = Len(graph)
  BY <1>1, <1>4, SeqDef, LenProperties
<1> QED
  BY <1>1, <1>2, <1>5

LEMMA ReplayOrdered ==
    ASSUME Ordered, Replay
    PROVE  Ordered'
<1>1. /\ graph # None /\ replays < MaxReplays
      /\ queue' = [queue EXCEPT ![Main] = @ \o ReplayedOps]
      /\ replays' = replays + 1
      /\ UNCHANGED <<tracking, call, readers, writer, dropped, version, recorded, tape, graph,
                     done, live, content, stable>>
  BY DEF Replay, ReplayedOps, calls, events, device
<1>2. /\ HostOK /\ Shape /\ graph \in Seq(CallOperations) /\ version \in [Inputs -> Nat]
      /\ queue \in [Streams -> Seq(Operations)] /\ ~tracking
  BY <1>1, OrderedParts DEF HostOK, HostShape, ModeOK
<1>3. /\ ReplayedOps \in Seq(Operations)
      /\ Len(graph) \in Nat /\ Len(ReplayedOps) = Len(graph)
      /\ \A i \in 1 .. Len(graph) :
             /\ ReplayedOps[i] \in CallOperations
             /\ ReplayedOps[i].op = graph[i].op
             /\ graph[i].op = "decode" => ReplayedOps[i].given = version
  BY <1>2, ReplayedIsGraph
<1>4. Grows(Main, ReplayedOps)
  BY <1>1, <1>2, <1>3, MainIsAStream, GrowsBy
<1>5. /\ \A m \in 1 .. Len(ReplayedOps) : ReplayedOps[m].op \notin {"fill", "record"}
      /\ \A m \in 1 .. Len(ReplayedOps) : \A c \in Calls :
             IsOp(ReplayedOps[m], "decode", c) =>
                 \A b \in ReadsOf(c) :
                     /\ ReplayedOps[m].given[b] = version[b] /\ KnowsNow(b)
                     /\ tracking => c \in readers'[b] /\ call'[c].ok
  <2>1. \A m \in 1 .. Len(ReplayedOps) : ReplayedOps[m].op \notin {"fill", "record"}
    BY <1>3, CallOperationFields
  <2>2. \A b \in Inputs : KnowsNow(b)
    BY <1>2 DEF Ordered, NextOK
  <2> QED
    BY <1>2, <1>3, <2>1, <2>2, ReadsAreInputs DEF IsOp
<1>6. HostOK'
  <2>1. HostShape' /\ ModeOK'
    BY <1>1, <1>2, GuardsAssumption DEF HostOK, HostShape, ModeOK, Capturing
  <2> QED
    BY <1>1, <1>2, <2>1, CallsStay DEF HostOK
<1>7. \A d \in Calls : call'[d].step = "launch" => \A e \in ReadsOf(d) : KnowsNow(e)
  BY <1>1 DEF Ordered, NextOK
<1>8. \A e \in Inputs : \A d \in Calls :
          d \in readers[e] /\ call[d].ok => d \in readers'[e] /\ call'[d].ok
  BY <1>1
<1> QED
  BY <1>1, <1>4, <1>5, <1>6, <1>7, <1>8, DecodingStep DEF events, device

LEMMA ReturnOrdered ==
    ASSUME Ordered, NEW c \in Calls, Return(c)
    PROVE  Ordered'
<1> DEFINE g == Guarded(c)
           r == Record(g, "read")
           f == IF call[c].ok THEN <<>> ELSE <<Free(c)>>
           ops == r \o f
<1>1. /\ call[c].step = "end" /\ Enqueue(Main, ops) /\ Recorded(g, "read")
      /\ readers' = [b \in Inputs |-> readers[b] \ {c}]
      /\ call' = [call EXCEPT ![c].step = IF call[c].ok THEN "ok" ELSE "err"]
      /\ UNCHANGED <<tracking, writer, dropped, version, graph, replays,
                     done, live, content, stable>>
  BY DEF Return, CallStream, Unlock, launches, device
<1>2. /\ HostOK /\ Shape /\ queue \in [Streams -> Seq(Operations)]
      /\ recorded \in [Inputs -> [Kinds -> Nat]] /\ version \in [Inputs -> Nat]
      /\ Capturing => ~tracking
      /\ call[c].n \in 0 .. Len(Reads[c]) /\ call[c].ok \in BOOLEAN
      /\ call[c].ok => call[c].n = Len(Reads[c])
  BY <1>1, OrderedParts DEF HostOK, CallsOK
<1>3. /\ g \in SUBSET Inputs
      /\ call[c].ok => g = ReadsOf(c)
  BY <1>2, ReadsAreInputs DEF Guarded
<1>4. /\ recorded' \in [Inputs -> [Kinds -> Nat]]
      /\ tracking => \A b \in g : recorded'[b]["read"] = recorded[b]["read"] + 1
      /\ \A b \in Inputs : \A j \in Kinds :
             ~(tracking /\ b \in g /\ j = "read") => recorded'[b][j] = recorded[b][j]
  <2>1. "read" \in Kinds
    BY DEF Kinds
  <2> QED
    BY <1>1, <1>2, <1>3, <2>1, RecordedBy
<1>5. /\ r \in Seq(Operations)
      /\ \A i \in 1 .. Len(r) :
             /\ i = 1 /\ tracking
             /\ r[i].op = "record"
             /\ r[i].events = {<<b, "read", recorded[b]["read"] + 1>> : b \in g}
      /\ tracking /\ g # {} => Len(r) = 1
      /\ ~tracking => r = <<>>
  <2>1. "read" \in Kinds
    BY DEF Kinds
  <2> QED
    BY <1>2, <1>3, <2>1, RecordOps
<1>6. /\ f \in Seq(CallOperations) /\ f \in Seq(Operations)
      /\ \A i \in 1 .. Len(f) : f[i].op = "free"
  <2>1. /\ Free(c) \in CallOperations /\ Free(c) \in Operations /\ Free(c).op = "free"
    BY CallOperationFields DEF Free, CallOperations
  <2>2. /\ <<Free(c)>> \in Seq(CallOperations) /\ <<Free(c)>> \in Seq(Operations)
        /\ Len(<<Free(c)>>) = 1 /\ <<Free(c)>>[1] = Free(c)
    BY <2>1, Singleton
  <2>3. \A i \in 1 .. 1 : i = 1
    OBVIOUS
  <2>4. CASE call[c].ok
    BY <2>4, EmptySeq
  <2>5. CASE ~call[c].ok
    <3>1. f = <<Free(c)>>
      BY <2>5
    <3> QED
      BY <2>1, <2>2, <2>3, <3>1
  <2> QED
    BY <2>4, <2>5
<1> HIDE DEF g, r, f
<1>7. /\ ops \in Seq(Operations)
      /\ Len(r) \in Nat /\ Len(f) \in Nat /\ Len(ops) = Len(r) + Len(f)
      /\ \A i \in 1 .. Len(r) : ops[i] = r[i]
      /\ \A i \in 1 .. Len(f) : ops[Len(r) + i] = f[i]
  BY <1>5, <1>6, Concatenated
<1>8. Capturing => ops \in Seq(CallOperations)
  <2>1. Capturing => r \in Seq(CallOperations)
    BY <1>2, <1>5, EmptySeq
  <2> QED
    BY <1>6, <2>1, Concatenated
<1> HIDE DEF ops
<1>9. /\ Grows(Main, Put(Main, ops))
      /\ \A i \in 1 .. Len(Put(Main, ops)) :
             i \in 1 .. Len(ops) /\ Put(Main, ops)[i] = ops[i]
      /\ Capturing' <=> Capturing
      /\ tape' # None => tape' \in Seq(CallOperations)
      /\ ~Capturing => Put(Main, ops) = ops
  BY <1>1, <1>2, <1>7, <1>8, EnqueuedOnMain
\* What is put there is a record, at most, and a release.
<1>10. ASSUME NEW m \in 1 .. Len(Put(Main, ops))
       PROVE  /\ Put(Main, ops)[m].op \in {"record", "free"}
              /\ Put(Main, ops)[m].op = "record" =>
                     /\ m = 1 /\ tracking
                     /\ Put(Main, ops)[m].events = {<<b, "read", recorded[b]["read"] + 1>> : b \in g}
  <2>1. m \in 1 .. Len(ops) /\ Put(Main, ops)[m] = ops[m]
    BY <1>9
  <2>2. CASE m \in 1 .. Len(r)
    BY <1>5, <1>7, <2>1, <2>2
  <2>3. CASE m \notin 1 .. Len(r)
    <3>1. m - Len(r) \in 1 .. Len(f) /\ m = Len(r) + (m - Len(r))
      BY <1>7, <2>1, <2>3
    <3>2. ops[m] = f[m - Len(r)]
      BY <1>7, <3>1
    <3> QED
      BY <1>6, <2>1, <3>1, <3>2
  <2> QED
    BY <2>2, <2>3
<1>11. /\ call' \in [Calls -> CallType] /\ \A d \in Calls \ {c} : call'[d] = call[d]
       /\ call'[c].step = IF call[c].ok THEN "ok" ELSE "err"
       /\ call'[c].n = call[c].n /\ (call'[c].ok <=> call[c].ok)
  <2>1. call \in [Calls -> CallType]
    BY OrderedParts
  <2>2. (IF call[c].ok THEN "ok" ELSE "err") \in {"ok", "err"}
    OBVIOUS
  <2>3. PICK st \in {"ok", "err"} : /\ st = IF call[c].ok THEN "ok" ELSE "err"
                                    /\ call' = [call EXCEPT ![c].step = st]
    BY <1>1, <2>2
  <2>4. call' \in [Calls -> CallType]
    BY <2>1, <2>3 DEF CallType
  <2>5. /\ \A d \in Calls \ {c} : call'[d] = call[d]
        /\ call'[c].step = st /\ call'[c].n = call[c].n /\ call'[c].ok = call[c].ok
    BY <2>1, <2>3 DEF CallType
  <2> QED
    BY <2>3, <2>4, <2>5
<1>12. /\ readers' \in [Inputs -> SUBSET Calls]
       /\ \A b \in Inputs : readers'[b] = readers[b] \ {c}
  BY <1>1, OrderedParts
<1>13. CallsOK'
  <2>1. CASE call[c].ok
    <3>1. call'[c].step = "ok" /\ call'[c].ok
      BY <1>11, <2>1
    <3> QED
      BY <1>1, <1>2, <1>11, <1>12, <2>1, <3>1, CallGoes
  <2>2. CASE ~call[c].ok
    <3>1. call'[c].step = "err" /\ (call'[c].ok <=> FALSE) /\ FALSE \in BOOLEAN
      BY <1>11, <2>2
    <3> QED
      BY <1>1, <1>2, <1>11, <1>12, <2>2, <3>1, CallGoes
  <2> QED
    BY <2>1, <2>2
<1>14. HostShape' /\ ModeOK'
  <2>1. \A b \in Inputs : recorded'[b]["write"] = recorded[b]["write"]
    <3>1. "write" \in Kinds /\ "write" # "read"
      BY DEF Kinds
    <3> QED
      BY <1>4, <3>1
  <2> QED
    BY <1>1, <1>2, <1>4, <1>9, <1>11, <1>12, <2>1 DEF HostOK, HostShape, ModeOK
<1>15. \A b \in Inputs : \A k \in Kinds :
           /\ recorded[b][k] \in Nat
           /\ recorded'[b][k] >= recorded[b][k]
  BY <1>2, <1>4
<1>16. /\ version' = version /\ content' = content /\ done' = done /\ live' = live
       /\ tracking' = tracking /\ version' \in [Inputs -> Nat]
       /\ \A b \in Inputs : version'[b] >= version[b]
  BY <1>1, <1>2
<1>17. DeviceShape'
  BY <1>2, <1>9, <1>16, MainIsAStream, DeviceGrows
<1>18. /\ \A m \in 1 .. Len(Put(Main, ops)) : \A b :
              ~IsOp(Put(Main, ops)[m], "fill", b) /\ ~IsOp(Put(Main, ops)[m], "decode", b)
  BY <1>10 DEF IsOp
<1>19. FillsOK'
  BY <1>2, <1>9, <1>16, <1>18, MainIsAStream, FillsGrow DEF Ordered
<1>20. DecodesOK'
  <2>1. \A b \in Inputs : recorded'[b]["read"] >= recorded[b]["read"]
    BY <1>15 DEF Kinds
  <2> QED
    BY <1>2, <1>4, <1>9, <1>16, <1>18, <2>1, MainIsAStream, DecodesGrow DEF Ordered
<1>21. RecordsOK'
  <2>1. ASSUME NEW m \in 1 .. Len(Put(Main, ops)), NEW e \in Events,
               Put(Main, ops)[m].op = "record", e \in Put(Main, ops)[m].events
        PROVE  /\ e[3] <= recorded'[e[1]][e[2]] /\ e[3] > recorded[e[1]][e[2]]
               /\ e[2] # "write"
               /\ \A k \in 1 .. Len(Put(Main, ops)) :
                      Put(Main, ops)[k].op = "record" => k = m
    <3>1. /\ tracking
          /\ e \in {<<b, "read", recorded[b]["read"] + 1>> : b \in g}
          /\ \A k \in 1 .. Len(Put(Main, ops)) :
                 Put(Main, ops)[k].op = "record" => k = m
      BY <1>10, <2>1
    <3>2. PICK b \in g : e = <<b, "read", recorded[b]["read"] + 1>>
      BY <3>1
    <3>3. /\ b \in Inputs /\ "read" \in Kinds
          /\ e[1] = b /\ e[2] = "read" /\ e[3] = recorded[b]["read"] + 1
      BY <1>3, <3>2 DEF Kinds
    <3>4. recorded'[b]["read"] = recorded[b]["read"] + 1 /\ recorded[b]["read"] \in Nat
      BY <1>4, <1>15, <3>1, <3>3
    <3> QED
      BY <3>1, <3>3, <3>4
  <2> QED
    BY <1>2, <1>4, <1>9, <1>15, <1>16, <2>1, MainIsAStream, RecordsGrow DEF Ordered
\* The decodes of this call are followed by its record now.
<1>22. HeldOK'
  <2>0. /\ Len(M) \in Nat /\ Len(M') \in Nat /\ Len(M') >= Len(M)
        /\ \A i \in 1 .. Len(M) : M'[i] = M[i]
        /\ \A i \in 1 .. Len(M') :
               \/ i \in 1 .. Len(M)
               \/ /\ i - Len(M) \in 1 .. Len(Put(Main, ops))
                  /\ M'[i] = Put(Main, ops)[i - Len(M)]
    BY <1>2, <1>9, MainIsAStream, OldOrNew DEF M
  <2> SUFFICES ASSUME tracking, NEW i \in 1 .. Len(M'), NEW d \in Calls, NEW b \in ReadsOf(d),
                      IsOp(M'[i], "decode", d)
               PROVE  \/ d \in readers'[b] /\ call'[d].ok
                      \/ /\ recorded'[b]["read"] > 0
                         /\ \E k \in i + 1 .. Len(M') :
                                Records(Main, k, <<b, "read", recorded[b]["read"]>>)'
    BY <1>1 DEF HeldOK, Records, IsOp
  <2>1. /\ b \in Inputs /\ "read" \in Kinds
        /\ i \in 1 .. Len(M) /\ IsOp(M[i], "decode", d)
    <3>1. b \in Inputs /\ "read" \in Kinds
      BY ReadsAreInputs DEF Kinds
    <3>2. i \in 1 .. Len(M)
      BY <1>18, <2>0
    <3> QED
      BY <2>0, <3>1, <3>2
  <2>2. CASE b \in g
    <3>1. /\ ~Capturing /\ Put(Main, ops) = ops /\ g # {} /\ Len(r) = 1
      BY <1>2, <1>5, <1>9, <2>2
    <3>2. /\ recorded'[b]["read"] = recorded[b]["read"] + 1 /\ recorded[b]["read"] \in Nat
          /\ <<b, "read", recorded[b]["read"] + 1>> \in r[1].events /\ r[1].op = "record"
      BY <1>4, <1>5, <1>15, <2>1, <2>2, <3>1
    <3>3. ops[1] = r[1] /\ 1 \in 1 .. Len(ops) /\ Len(ops) \in Nat
      BY <1>7, <3>1
    <3>4. /\ Len(M') = Len(M) + Len(ops)
          /\ queue'[Main][Len(M) + 1] = r[1]
      BY <1>9, <3>1, <3>3, MainIsAStream DEF Grows, M
    <3>5. \A k \in Nat : k = Len(M) + 1 =>
              /\ k \in i + 1 .. Len(M')
              /\ Records(Main, k, <<b, "read", recorded[b]["read"]>>)'
      BY <2>0, <2>1, <3>2, <3>3, <3>4 DEF Records
    <3>6. recorded'[b]["read"] > 0 /\ Len(M) + 1 \in Nat
      BY <2>0, <3>2
    <3> QED
      BY <3>5, <3>6
  <2>3. CASE b \notin g
    <3>1. recorded'[b]["read"] = recorded[b]["read"]
      BY <1>4, <2>1, <2>3
    <3>2. CASE d \in readers[b] /\ call[d].ok
      <4>1. d # c
        BY <1>3, <2>3, <3>2
      <4> QED
        BY <1>11, <1>12, <2>1, <3>2, <4>1
    <3>3. ASSUME recorded[b]["read"] > 0, NEW k \in i + 1 .. Len(M),
                 Records(Main, k, <<b, "read", recorded[b]["read"]>>)
          PROVE  \E l \in i + 1 .. Len(M') : Records(Main, l, <<b, "read", recorded[b]["read"]>>)'
      <4>1. k \in 1 .. Len(M) /\ k \in i + 1 .. Len(M')
        BY <2>0, <2>1
      <4>2. M'[k] = M[k]
        BY <2>0, <4>1
      <4>3. Records(Main, k, <<b, "read", recorded[b]["read"]>>)'
        BY <3>1, <3>3, <4>2 DEF Records, M
      <4> QED
        BY <4>1, <4>3
    <3> QED
      BY <2>1, <3>1, <3>2, <3>3 DEF Ordered, HeldOK
  <2> QED
    BY <2>2, <2>3
<1>23. NextOK'
  <2>1. \A b \in Inputs : KnowsNow(b) => KnowsNow(b)'
    BY <1>2, <1>9, <1>16, MainIsAStream, KnowsNowGrows
  <2>2. \A d \in Calls : call'[d].step = "launch" => call[d].step = "launch"
    BY <1>11
  <2> QED
    BY <1>16, <2>1, <2>2, ReadsAreInputs DEF Ordered, NextOK
<1> QED
  BY <1>13, <1>14, <1>17, <1>19, <1>20, <1>21, <1>22, <1>23 DEF Ordered, Shape

LEMMA RefillOrdered ==
    ASSUME Ordered, NEW b \in Inputs, Refill(b)
    PROVE  Ordered'
<1> DEFINE w == Wait({b}, Kinds)
           wf == w \o <<Fill(b)>>
           r == Record({b}, "write")
           ops == wf \o r
<1>0. PICK s \in Streams : s = writer[b]
  BY OrderedParts DEF Refill, HostOK, HostShape
<1>v. PICK v \in Nat : v = version[b]
  BY OrderedParts
<1>1. /\ readers[b] = {}
      /\ Enqueue(s, (w \o <<Fill(b)>>) \o r)
      /\ Recorded({b}, "write")
      /\ version' = [version EXCEPT ![b] = @ + 1]
      /\ writer' = [writer EXCEPT ![b] = None]
      /\ UNCHANGED <<tracking, call, readers, dropped, graph, replays, done, live, content, stable>>
  BY <1>0 DEF Refill, calls, launches, device
<1>2. /\ HostOK /\ Shape /\ queue \in [Streams -> Seq(Operations)]
      /\ recorded \in [Inputs -> [Kinds -> Nat]] /\ version \in [Inputs -> Nat]
      /\ ~Capturing /\ (~tracking => s = Main)
      /\ \A d \in Inputs : content[d] \in Nat /\ content[d] <= version[d]
  <2>1. s # None
    BY <1>0, GuardsAssumption
  <2> QED
    BY <1>0, <2>1, OrderedParts DEF HostOK, HostShape, ModeOK, Shape, DeviceShape
<1>3. /\ Fill(b) \in Operations /\ Fill(b).op = "fill" /\ Fill(b).buf = b
      /\ Fill(b).value = version[b] + 1
  BY <1>2, InputOps DEF IsOp
<1>4. /\ wf \in Seq(Operations) /\ Len(w) \in Nat /\ Len(wf) = Len(w) + 1
      /\ \A i \in 1 .. Len(w) : wf[i] = w[i] /\ w[i].op = "wait"
      /\ wf[Len(w) + 1] = Fill(b)
      /\ ~tracking => Len(w) = 0
      /\ \A k \in Kinds : tracking /\ recorded[b][k] > 0 =>
             Len(w) = 1 /\ <<b, k, recorded[b][k]>> \in w[1].events
  BY <1>2, <1>3, WaitThen
<1>5. /\ r \in Seq(Operations)
      /\ \A i \in 1 .. Len(r) :
             /\ i = 1 /\ tracking
             /\ r[i].op = "record"
             /\ r[i].events = {<<d, "write", recorded[d]["write"] + 1>> : d \in {b}}
  <2>1. "write" \in Kinds /\ {b} \in SUBSET Inputs
    BY DEF Kinds
  <2> QED
    BY <1>2, <2>1, RecordOps
<1>6. /\ recorded' \in [Inputs -> [Kinds -> Nat]]
      /\ tracking => recorded'[b]["write"] = recorded[b]["write"] + 1
      /\ \A d \in Inputs : \A j \in Kinds :
             ~(tracking /\ d = b /\ j = "write") => recorded'[d][j] = recorded[d][j]
  <2>1. "write" \in Kinds /\ {b} \in SUBSET Inputs
    BY DEF Kinds
  <2>2. recorded \in [Inputs -> [Kinds -> Nat]] /\ Recorded({b}, "write")
    BY <1>1, <1>2
  <2> QED
    BY <2>1, <2>2, RecordedBy
<1>7. Enqueue(s, ops)
  BY <1>1
<1> DEFINE p == Len(w) + 1
<1> HIDE DEF w, wf, r
<1>8. /\ ops \in Seq(Operations)
      /\ Len(r) \in Nat /\ Len(ops) = Len(wf) + Len(r)
      /\ \A i \in 1 .. Len(wf) : ops[i] = wf[i]
      /\ \A i \in 1 .. Len(r) : ops[Len(wf) + i] = r[i]
  BY <1>4, <1>5, Concatenated
<1> HIDE DEF ops
<1>9. Grows(s, ops) /\ tape' = tape
  <2>1. Grows(s, Put(s, ops)) /\ Put(s, ops) = ops /\ tape' = tape
    BY <1>2, <1>7, <1>8, Enqueued
  <2> QED
    BY <2>1
\* The fill is at place p, what it waits for before it, its record after it.
<1>10. ASSUME NEW m \in 1 .. Len(ops)
       PROVE  /\ ops[m].op \in {"wait", "fill", "record"}
              /\ m < p => ops[m].op = "wait"
              /\ m = p => ops[m] = Fill(b)
              /\ m > p => /\ m = p + 1 /\ tracking /\ ops[m].op = "record"
                          /\ ops[m].events = {<<b, "write", recorded[b]["write"] + 1>>}
  <2>1. CASE m \in 1 .. Len(wf)
    <3>1. ops[m] = wf[m] /\ (m \in 1 .. Len(w) \/ m = p)
      BY <1>4, <1>8, <2>1
    <3> QED
      BY <1>3, <1>4, <3>1
  <2>2. CASE m \notin 1 .. Len(wf)
    <3>1. m - Len(wf) \in 1 .. Len(r) /\ m = Len(wf) + (m - Len(wf))
      BY <1>4, <1>8, <2>2
    <3>2. ops[m] = r[m - Len(wf)] /\ m - Len(wf) = 1
      BY <1>5, <1>8, <3>1
    <3> QED
      BY <1>4, <1>5, <3>1, <3>2
  <2> QED
    BY <2>1, <2>2
<1>11. /\ p \in 1 .. Len(ops) /\ ops[p] = Fill(b) /\ p \in Nat
       /\ \A i \in 1 .. Len(w) : i \in 1 .. Len(ops) /\ ops[i] = w[i]
  BY <1>4, <1>8
<1>12. /\ version' \in [Inputs -> Nat] /\ version'[b] = version[b] + 1
       /\ \A d \in Inputs \ {b} : version'[d] = version[d]
       /\ \A d \in Inputs : version'[d] >= version[d]
       /\ content' = content /\ done' = done /\ live' = live /\ tracking' = tracking
  BY <1>1, <1>2
<1>13. /\ "write" \in Kinds /\ "read" \in Kinds
       /\ \A d \in Inputs : \A k \in Kinds : recorded[d][k] \in Nat /\ recorded'[d][k] >= recorded[d][k]
       /\ \A d \in Inputs : recorded'[d]["read"] >= recorded[d]["read"]
  <2>1. "write" \in Kinds /\ "read" \in Kinds
    BY DEF Kinds
  <2>2. \A d \in Inputs : \A k \in Kinds :
            recorded[d][k] \in Nat /\ recorded'[d][k] >= recorded[d][k]
    <3>1. \A d \in Inputs : \A k \in Kinds : recorded[d][k] \in Nat
      BY <1>2
    <3> QED
      BY <1>6, <3>1
  <2> QED
    BY <2>1, <2>2
<1>14. Len(queue[s]) \in Nat /\ Len(queue'[s]) = Len(queue[s]) + Len(ops) /\ Len(ops) \in Nat
  BY <1>2, <1>9, QueueLengths DEF Grows
<1>15. \A i \in 1 .. Len(ops) : queue'[s][Len(queue[s]) + i] = ops[i]
  BY <1>2, <1>9 DEF Grows
<1> HIDE DEF p
\* Before the fill the one before it is known, after it the fill itself.
<1>16. \A i \in Nat : i = Len(queue[s]) + p => Knows(s, i, b, v)'
  <2>1. CASE ~tracking
    <3>1. s = Main /\ KnowsNow(b)
      BY <1>2, <2>1 DEF Ordered, NextOK
    <3> SUFFICES ASSUME NEW i \in Nat, i = Len(queue[s]) + p
                 PROVE  Knows(s, i, b, v)'
      OBVIOUS
    <3>2. p = 1 /\ i \in 1 .. Len(queue[s]) + 1 /\ Knows(s, i, b, v)
      BY <1>v, <1>4, <1>14, <2>1, <3>1 DEF p, KnowsNow, M
    <3> QED
      BY <1>2, <1>9, <1>12, <3>2, KnowsGrows
  <2>2. CASE tracking /\ v = 0
    BY <1>2, <1>12, <2>2 DEF Knows
  <2>3. CASE tracking /\ v # 0
    <3>1. recorded[b]["write"] = v /\ recorded[b]["write"] > 0
      BY <1>v, <1>2, <2>3 DEF HostOK, ModeOK
    <3>2. Len(w) = 1 /\ <<b, "write", v>> \in w[1].events /\ w[1].op = "wait"
      BY <1>4, <1>13, <2>3, <3>1
    <3>3. queue'[s][Len(queue[s]) + 1] = w[1]
      BY <1>11, <1>15, <3>2
    <3>4. ASSUME NEW i \in Nat, i = Len(queue[s]) + p
          PROVE  \E k \in 1 .. i - 1 : queue'[s][k].op = "wait"
                                       /\ <<b, "write", v>> \in queue'[s][k].events
      <4>1. Len(queue[s]) + 1 \in 1 .. i - 1
        BY <1>14, <3>2, <3>4 DEF p
      <4> QED
        BY <3>2, <3>3, <4>1
    <3> QED
      BY <3>4 DEF Knows, Waits
  <2> QED
    BY <2>1, <2>2, <2>3
<1>17. /\ Len(queue[s]) + p \in 1 .. Len(queue'[s])
       /\ queue'[s][Len(queue[s]) + p] = Fill(b)
  BY <1>11, <1>14, <1>15
<1>18. \A i \in Nat : i > Len(queue[s]) + p => Knows(s, i, b, v + 1)'
  <2>1. Fill(b).value = v + 1
    BY <1>v, <1>3
  <2> SUFFICES ASSUME NEW i \in Nat, i > Len(queue[s]) + p
               PROVE  Knows(s, i, b, v + 1)'
    OBVIOUS
  <2>2. Len(queue[s]) + p \in 1 .. i - 1
    BY <1>14, <1>17
  <2>3. \E k \in 1 .. i - 1 : /\ queue'[s][k].op = "fill" /\ queue'[s][k].buf = b
                              /\ queue'[s][k].value = v + 1
    BY <1>3, <1>17, <2>1, <2>2
  <2> QED
    BY <2>3 DEF Knows, Fills, IsOp
<1>19. FillsOK'
  <2>1. ASSUME NEW m \in 1 .. Len(ops), NEW d \in Inputs, NEW n \in Nat,
               IsOp(ops[m], "fill", d), ops[m].value = n
        PROVE  /\ content[d] < n /\ n <= version'[d] /\ n > version[d]
               /\ \A i \in Nat : i = Len(queue[s]) + m => Knows(s, i, d, n - 1)'
               /\ \A k \in 1 .. Len(ops) : ops[k].op = "fill" => k = m
    <3>1. m = p /\ d = b /\ n = v + 1
      BY <1>v, <1>3, <1>10, <1>11, <2>1 DEF IsOp
    <3>2. n - 1 = v
      BY <3>1
    <3>3. \A i \in Nat : i = Len(queue[s]) + m => Knows(s, i, d, n - 1)'
      BY <1>16, <3>1, <3>2
    <3>4. content[d] < n /\ n <= version'[d] /\ n > version[d]
      BY <1>v, <1>2, <1>12, <3>1
    <3>5. \A k \in 1 .. Len(ops) : ops[k].op = "fill" => k = m
      BY <1>10, <1>11, <3>1
    <3> QED
      BY <3>3, <3>4, <3>5
  <2> QED
    BY <1>2, <1>9, <1>12, <2>1, FillsGrow DEF Ordered
<1>20. RecordsOK'
  <2>1. ASSUME NEW m \in 1 .. Len(ops), NEW e \in Events,
               ops[m].op = "record", e \in ops[m].events
        PROVE  /\ e[3] <= recorded'[e[1]][e[2]] /\ e[3] > recorded[e[1]][e[2]]
               /\ e[2] = "write" =>
                      \A i \in Nat : i = Len(queue[s]) + m => Knows(s, i, e[1], e[3])'
               /\ \A k \in 1 .. Len(ops) : ops[k].op = "record" => k = m
    <3>1. ~(m < p) /\ m # p
      BY <1>3, <1>10, <1>11, <2>1
    <3>2. /\ m = p + 1 /\ tracking /\ ops[m].events = {<<b, "write", recorded[b]["write"] + 1>>}
      BY <1>10, <1>11, <3>1
    <3>3. recorded[b]["write"] = v
      BY <1>v, <1>2, <3>2 DEF HostOK, ModeOK
    <3>4. e[1] = b /\ e[2] = "write" /\ e[3] = v + 1
      BY <2>1, <3>2, <3>3
    <3>5. recorded'[b]["write"] = v + 1
      BY <1>6, <1>13, <3>2, <3>3
    <3>6. \A i \in Nat : i = Len(queue[s]) + m => Knows(s, i, e[1], e[3])'
      <4>1. \A i \in Nat : i = Len(queue[s]) + m => i > Len(queue[s]) + p
        <5>1. m = p + 1 /\ p \in Nat /\ Len(queue[s]) \in Nat
          BY <1>11, <1>14, <3>2
        <5>2. \A l, q, i \in Nat : i = l + (q + 1) => i > l + q
          OBVIOUS
        <5> QED
          BY <5>1, <5>2
      <4> QED
        BY <1>18, <3>4, <4>1
    <3>7. \A k \in 1 .. Len(ops) : ops[k].op = "record" => k = m
      BY <1>3, <1>10, <1>11, <3>2
    <3> QED
      BY <3>3, <3>4, <3>5, <3>6, <3>7
  <2> QED
    BY <1>2, <1>6, <1>9, <1>12, <1>13, <2>1, RecordsGrow DEF Ordered
\* The fill is after the decodes: no call holds a lock.
<1>21. ASSUME NEW i \in 1 .. Len(M), NEW c \in Calls, IsOp(M[i], "decode", c), b \in ReadsOf(c),
              NEW j \in Nat, j = Len(queue[s]) + p
       PROVE  After(i, s, j, b)'
  <2>1. CASE ~tracking
    <3>1. s = Main /\ i < j
      BY <1>2, <1>11, <1>14, <1>21, <2>1 DEF M
    <3> QED
      BY <3>1 DEF After
  <2>2. CASE tracking
    <3>1. PICK n \in Nat : n = recorded[b]["read"]
      BY <1>13
    <3>2. n > 0 /\ \E k \in i + 1 .. Len(M) : Records(Main, k, <<b, "read", n>>)
      BY <1>1, <1>21, <2>2, <3>1 DEF Ordered, HeldOK
    <3>3. PICK k \in i + 1 .. Len(M) : Records(Main, k, <<b, "read", n>>)
      BY <3>2
    <3>4. /\ Len(M) \in Nat /\ Len(M') \in Nat /\ Len(M') >= Len(M)
          /\ \A l \in 1 .. Len(M) : M'[l] = M[l]
      BY <1>2, <1>9, MainIsAStream, OldOrNew DEF M
    <3>5. k \in 1 .. Len(M) /\ k \in i + 1 .. Len(M')
      BY <3>4
    <3>6. M'[k] = M[k]
      BY <3>4, <3>5
    <3>7. Records(Main, k, <<b, "read", n>>)'
      BY <3>3, <3>6 DEF Records, M
    <3>8. Len(w) = 1 /\ <<b, "read", n>> \in w[1].events /\ w[1].op = "wait"
      BY <1>4, <1>13, <2>2, <3>1, <3>2
    <3>9. queue'[s][Len(queue[s]) + 1] = w[1]
      BY <1>11, <1>15, <3>8
    <3>10. Len(queue[s]) + 1 \in 1 .. j - 1
      BY <1>14, <1>21, <3>8 DEF p
    <3>11. \E l \in 1 .. j - 1 : queue'[s][l].op = "wait"
                                 /\ <<b, "read", n>> \in queue'[s][l].events
      BY <3>8, <3>9, <3>10
    <3>12. n \in 1 .. recorded'[b]["read"]
      BY <1>6, <1>13, <3>1, <3>2
    <3> QED
      BY <3>5, <3>7, <3>11, <3>12 DEF After, Waits
  <2> QED
    BY <2>1, <2>2
<1>22. DecodesOK'
  <2>1. \A m \in 1 .. Len(ops) : \A c : ~IsOp(ops[m], "decode", c)
    BY <1>10 DEF IsOp
  <2>2. ASSUME NEW m \in 1 .. Len(ops), NEW d \in Inputs, IsOp(ops[m], "fill", d),
               NEW i \in 1 .. Len(M), NEW c \in Calls,
               IsOp(M[i], "decode", c), d \in ReadsOf(c),
               NEW j \in Nat, j = Len(queue[s]) + m
        PROVE  After(i, s, j, d)'
    <3>1. m = p /\ d = b
      BY <1>3, <1>10, <1>11, <2>2 DEF IsOp
    <3> QED
      BY <1>21, <2>2, <3>1
  <2> QED
    BY <1>2, <1>6, <1>9, <1>12, <1>13, <2>1, <2>2, DecodesGrow DEF Ordered
<1>23. HeldOK'
  <2>1. \A m \in 1 .. Len(ops) : \A c : ~IsOp(ops[m], "decode", c)
    BY <1>10 DEF IsOp
  <2>2. /\ Len(M) \in Nat /\ Len(M') \in Nat /\ Len(M') >= Len(M)
        /\ \A i \in 1 .. Len(M) : M'[i] = M[i]
        /\ \A i \in 1 .. Len(M') :
               \/ i \in 1 .. Len(M)
               \/ i - Len(M) \in 1 .. Len(ops) /\ M'[i] = ops[i - Len(M)]
    BY <1>2, <1>9, MainIsAStream, OldOrNew DEF M
  <2> SUFFICES ASSUME tracking, NEW i \in 1 .. Len(M'), NEW c \in Calls, NEW d \in ReadsOf(c),
                      IsOp(M'[i], "decode", c)
               PROVE  \/ c \in readers[d] /\ call[c].ok
                      \/ /\ recorded'[d]["read"] > 0
                         /\ \E k \in i + 1 .. Len(M') :
                                Records(Main, k, <<d, "read", recorded[d]["read"]>>)'
    BY <1>1 DEF HeldOK, Records, IsOp
  <2>3. d \in Inputs /\ i \in 1 .. Len(M) /\ IsOp(M[i], "decode", c)
    BY <2>1, <2>2, ReadsAreInputs
  <2>4. recorded'[d]["read"] = recorded[d]["read"]
    BY <1>6, <1>13, <2>3
  <2>5. ASSUME NEW k \in i + 1 .. Len(M), Records(Main, k, <<d, "read", recorded[d]["read"]>>)
        PROVE  \E l \in i + 1 .. Len(M') : Records(Main, l, <<d, "read", recorded[d]["read"]>>)'
    <3>1. k \in 1 .. Len(M) /\ k \in i + 1 .. Len(M')
      BY <2>2, <2>3
    <3>2. M'[k] = M[k]
      BY <2>2, <3>1
    <3>3. Records(Main, k, <<d, "read", recorded[d]["read"]>>)'
      BY <2>4, <2>5, <3>2 DEF Records, M
    <3> QED
      BY <3>1, <3>3
  <2> QED
    BY <2>3, <2>4, <2>5 DEF Ordered, HeldOK
\* No call that is about to launch reads b.
<1>24. NextOK'
  <2>1. \A d \in Inputs \ {b} : KnowsNow(d) => KnowsNow(d)'
    BY <1>2, <1>9, <1>12, KnowsNowGrows
  <2>2. ASSUME NEW c \in Calls, call[c].step = "launch"
        PROVE  b \notin ReadsOf(c)
    BY <1>1, <1>2, <2>2 DEF HostOK, CallsOK
  <2>3. \A c \in Calls : call[c].step = "launch" => \A d \in ReadsOf(c) : KnowsNow(d)'
    BY <2>1, <2>2, ReadsAreInputs DEF Ordered, NextOK
  <2>4. ~tracking => KnowsNow(b)'
    <3> SUFFICES ASSUME ~tracking
                 PROVE  KnowsNow(b)'
      OBVIOUS
    <3>1. s = Main
      BY <1>2
    <3>2. \A i \in Nat : i = Len(M') + 1 => Knows(Main, i, b, v + 1)'
      <4>1. \A i \in Nat : i = Len(M') + 1 => i > Len(queue[s]) + p
        BY <1>11, <1>14, <3>1 DEF M
      <4> QED
        BY <1>18, <3>1, <4>1
    <3>3. version'[b] = v + 1 /\ Len(M') + 1 \in Nat
      BY <1>v, <1>12, <1>14, <3>1 DEF M
    <3> QED
      BY <3>2, <3>3 DEF KnowsNow, Knows, M
  <2> QED
    BY <1>1, <2>1, <2>3, <2>4 DEF Ordered, NextOK
<1>25. DeviceShape'
  <2>1. s = Main \/ (tracking /\ \A m \in 1 .. Len(ops) : ops[m].op \in {"fill", "wait", "record"})
    BY <1>2, <1>10
  <2> QED
    BY <1>2, <1>9, <1>12, <2>1, DeviceGrows
<1>26. HostShape' /\ CallsOK' /\ ModeOK'
  <2>1. CallsOK'
    BY <1>1, <1>2, CallsStay
  <2>2. writer' \in [Inputs -> Streams \cup {None}] /\ writer'[b] = None
        /\ \A d \in Inputs \ {b} : writer'[d] = writer[d]
    BY <1>1, <1>2 DEF HostOK, HostShape
  <2>3. HostShape'
    BY <1>1, <1>2, <1>6, <1>9, <1>12, <2>2 DEF HostOK, HostShape
  <2>4. tracking => \A d \in Inputs : recorded'[d]["write"] = version'[d]
    BY <1>2, <1>6, <1>12, <1>13 DEF HostOK, ModeOK
  <2>5. ModeOK'
    BY <1>1, <1>2, <1>9, <1>12, <2>2, <2>4 DEF HostOK, HostShape, ModeOK, Capturing
  <2> QED
    BY <2>1, <2>3, <2>5
<1> QED
  BY <1>19, <1>20, <1>22, <1>23, <1>24, <1>25, <1>26 DEF Ordered, Shape

-----------------------------------------------------------------------------
(* The device finishes an operation: the places on its stream shift.       *)

Off(s, t) == IF t = s THEN 1 ELSE 0

LEMMA Popped ==
    ASSUME queue \in [Streams -> Seq(Operations)], NEW s \in Streams, queue[s] # <<>>,
           queue' = [queue EXCEPT ![s] = Tail(@)]
    PROVE  /\ queue' \in [Streams -> Seq(Operations)]
           /\ 1 \in 1 .. Len(queue[s]) /\ queue[s][1] \in Operations
           /\ Head(queue[s]) = queue[s][1]
           /\ \A t \in Streams :
                  /\ Len(queue[t]) \in Nat /\ Len(queue'[t]) \in Nat /\ Off(s, t) \in {0, 1}
                  /\ Len(queue'[t]) = Len(queue[t]) - Off(s, t)
                  /\ \A i \in 1 .. Len(queue'[t]) :
                         /\ i \in Nat /\ i + Off(s, t) \in 1 .. Len(queue[t])
                         /\ i + Off(s, t) \in Nat
                         /\ queue'[t][i] = queue[t][i + Off(s, t)]
<1>1. /\ Len(queue[s]) \in Nat /\ Len(queue[s]) >= 1
      /\ Head(queue[s]) = queue[s][1] /\ Head(queue[s]) \in Operations
      /\ Tail(queue[s]) \in Seq(Operations)
      /\ Len(Tail(queue[s])) = Len(queue[s]) - 1
      /\ \A i \in 1 .. Len(queue[s]) - 1 : Tail(queue[s])[i] = queue[s][i + 1]
  <2>1. queue[s] \in Seq(Operations)
    OBVIOUS
  <2> QED
    BY <2>1, Tailed
<1>2. queue'[s] = Tail(queue[s]) /\ \A t \in Streams \ {s} : queue'[t] = queue[t]
  OBVIOUS
<1>3. queue' \in [Streams -> Seq(Operations)]
  BY <1>1
<1>4. ASSUME NEW t \in Streams
      PROVE  /\ Len(queue[t]) \in Nat /\ Len(queue'[t]) \in Nat /\ Off(s, t) \in {0, 1}
             /\ Len(queue'[t]) = Len(queue[t]) - Off(s, t)
             /\ \A i \in 1 .. Len(queue'[t]) :
                    /\ i \in Nat /\ i + Off(s, t) \in 1 .. Len(queue[t])
                    /\ i + Off(s, t) \in Nat
                    /\ queue'[t][i] = queue[t][i + Off(s, t)]
  <2>1. CASE t = s
    BY <1>1, <1>2, <2>1 DEF Off
  <2>2. CASE t # s
    <3>1. Len(queue[t]) \in Nat /\ queue'[t] = queue[t] /\ Off(s, t) = 0
      BY <1>2, <2>2, QueueLengths DEF Off
    <3>2. \A i \in 1 .. Len(queue[t]) : i + 0 = i
      OBVIOUS
    <3> QED
      BY <3>1, <3>2
  <2> QED
    BY <2>1, <2>2
<1>5. 1 \in 1 .. Len(queue[s])
  BY <1>1
<1> QED
  BY <1>1, <1>3, <1>4, <1>5

\* What finishing an operation does to the inputs and the records.
LEMMA Finished ==
    ASSUME Ordered, NEW s \in Streams, Finish(s)
    PROVE  /\ queue \in [Streams -> Seq(Operations)] /\ queue[s] # <<>>
           /\ queue' = [queue EXCEPT ![s] = Tail(@)]
           /\ 1 \in 1 .. Len(queue[s]) /\ queue[s][1] \in Operations
           /\ Ready(queue[s][1])
           /\ \A b \in Inputs : IsOp(queue[s][1], "fill", b) =>
                  /\ content'[b] = queue[s][1].value
                  /\ content'[b] = content[b] + 1
                  /\ Fills(s, 1, b, content'[b])
           /\ \A b \in Inputs : ~IsOp(queue[s][1], "fill", b) => content'[b] = content[b]
           /\ \A b \in Inputs : /\ content[b] \in Nat /\ content'[b] \in Nat
                                /\ content'[b] >= content[b] /\ content'[b] <= version[b]
           /\ done' = IF queue[s][1].op = "record" THEN done \cup queue[s][1].events ELSE done
           /\ UNCHANGED <<tracking, call, readers, writer, dropped, version, recorded, tape, graph,
                          replays, replayed>>
<1> DEFINE op == queue[s][1]
<1>1. queue \in [Streams -> Seq(Operations)] /\ Shape /\ version \in [Inputs -> Nat]
  BY OrderedParts
<1>2. /\ queue[s] # <<>> /\ queue' = [queue EXCEPT ![s] = Tail(@)]
      /\ UNCHANGED <<tracking, call, readers, writer, dropped, version, recorded, tape, graph,
                     replays, replayed>>
  BY DEF Finish, calls, events, graphs, launches
<1>3. 1 \in 1 .. Len(queue[s]) /\ op \in Operations /\ Head(queue[s]) = op
  BY <1>1, <1>2, Popped
<1>4. /\ Ready(op)
      /\ op.op = "fill" => content' = [content EXCEPT ![op.buf] = op.value]
      /\ op.op = "decode" =>
             content' = [content EXCEPT ![op.buf] = [b \in ReadsOf(op.buf) |-> content[b]]]
      /\ op.op \notin {"fill", "decode"} => content' = content
      /\ done' = IF op.op = "record" THEN done \cup op.events ELSE done
  BY <1>3 DEF Finish
<1>5. /\ op.op = "fill" => op.buf \in Inputs /\ op.value \in Nat
      /\ op.op = "decode" => op.buf \in Calls
  BY <1>3, OperationFields
<1> HIDE DEF op
<1>6. /\ content = [b \in Inputs \cup Calls |-> content[b]]
      /\ \A b \in Inputs : content[b] \in Nat /\ content[b] <= version[b]
  BY <1>1 DEF Shape, DeviceShape
<1>7. Inputs \cap Calls = {}
  BY GuardsAssumption
<1>8. ASSUME NEW b \in Inputs, IsOp(op, "fill", b)
      PROVE  /\ content'[b] = op.value /\ content'[b] = content[b] + 1
             /\ content'[b] <= version[b]
             /\ Fills(s, 1, b, content'[b])
  <2>1. op.op = "fill" /\ op.buf = b /\ op.value \in Nat
    BY <1>5, <1>8 DEF IsOp
  <2>2. content'[b] = op.value
    BY <1>4, <1>6, <2>1
  <2>3. Fills(s, 1, b, op.value)
    BY <1>8 DEF Fills, op
  <2>4. content[b] < op.value /\ op.value <= version[b] /\ Knows(s, 1, b, op.value - 1)
    BY <1>3, <2>1, <2>3 DEF Ordered, FillsOK
  <2>5. content[b] >= op.value - 1
    BY <2>4 DEF Knows
  <2> QED
    BY <1>6, <2>1, <2>2, <2>3, <2>4, <2>5
<1>9. ASSUME NEW b \in Inputs, ~IsOp(op, "fill", b)
      PROVE  content'[b] = content[b]
  <2>1. CASE op.op = "fill"
    BY <1>4, <1>6, <1>9, <2>1 DEF IsOp
  <2>2. CASE op.op = "decode"
    BY <1>4, <1>5, <1>6, <1>7, <2>2
  <2>3. CASE op.op \notin {"fill", "decode"}
    BY <1>4, <2>3
  <2> QED
    BY <2>1, <2>2, <2>3
<1>10. \A b \in Inputs : /\ content[b] \in Nat /\ content'[b] \in Nat
                         /\ content'[b] >= content[b] /\ content'[b] <= version[b]
  BY <1>6, <1>8, <1>9
<1> QED
  BY <1>1, <1>2, <1>3, <1>4, <1>8, <1>9, <1>10 DEF op

LEMMA KnowsShifts ==
    ASSUME Ordered, NEW s \in Streams, Finish(s),
           NEW t \in Streams, NEW i \in Nat, i - 1 <= Len(queue'[t]),
           NEW b \in Inputs, NEW n \in Nat, Knows(t, i + Off(s, t), b, n)
    PROVE  Knows(t, i, b, n)'
<1>1. /\ queue \in [Streams -> Seq(Operations)] /\ queue[s] # <<>>
      /\ queue' = [queue EXCEPT ![s] = Tail(@)]
      /\ 1 \in 1 .. Len(queue[s])
      /\ Ready(queue[s][1])
      /\ content[b] \in Nat /\ content'[b] \in Nat /\ content'[b] >= content[b]
      /\ IsOp(queue[s][1], "fill", b) => content'[b] = queue[s][1].value
  BY Finished
<1>2. /\ Len(queue'[t]) \in Nat /\ Off(s, t) \in {0, 1}
      /\ \A k \in 1 .. Len(queue'[t]) : queue'[t][k] = queue[t][k + Off(s, t)]
  BY <1>1, Popped
<1>3. CASE content[b] >= n
  BY <1>1, <1>3 DEF Knows
<1>4. ASSUME NEW k \in 1 .. (i + Off(s, t)) - 1,
             Fills(t, k, b, n) \/ Waits(t, k, <<b, "write", n>>), content[b] < n
      PROVE  Knows(t, i, b, n)'
  <2>1. CASE k - Off(s, t) \in 1 .. i - 1
    <3>1. PICK m \in 1 .. i - 1 : k = m + Off(s, t) /\ m \in 1 .. Len(queue'[t])
      BY <1>2, <2>1
    <3>2. queue'[t][m] = queue[t][k]
      BY <1>2, <3>1
    <3>3. Fills(t, m, b, n)' \/ Waits(t, m, <<b, "write", n>>)'
      BY <1>4, <3>2 DEF Fills, Waits, IsOp
    <3> QED
      BY <3>1, <3>3 DEF Knows
  <2>2. CASE k - Off(s, t) \notin 1 .. i - 1
    <3>1. k = 1 /\ Off(s, t) = 1
      BY <1>2, <2>2
    <3>2. t = s
      BY <3>1 DEF Off
    <3>3. CASE Fills(t, k, b, n)
      BY <1>1, <3>1, <3>2, <3>3 DEF Fills, Knows
    <3>4. CASE Waits(t, k, <<b, "write", n>>)
      <4>1. <<b, "write", n>> \in done
        BY <1>1, <3>1, <3>2, <3>4 DEF Waits, Ready
      <4>2. content[b] >= n
        BY <4>1 DEF Ordered, RecordsOK
      <4> QED
        BY <1>1, <1>4, <4>2
    <3> QED
      BY <1>4, <3>3, <3>4
  <2> QED
    BY <2>1, <2>2
<1>5. content[b] >= n \/ content[b] < n
  BY <1>1
<1> QED
  BY <1>3, <1>4, <1>5 DEF Knows

LEMMA AfterShifts ==
    ASSUME Ordered, NEW s \in Streams, Finish(s),
           NEW i \in Nat, i >= 1, NEW t \in Streams, NEW j \in 1 .. Len(queue'[t]),
           NEW b \in Inputs, After(i + Off(s, Main), t, j + Off(s, t), b)
    PROVE  After(i, t, j, b)'
<1>1. /\ queue \in [Streams -> Seq(Operations)] /\ queue[s] # <<>>
      /\ queue' = [queue EXCEPT ![s] = Tail(@)]
      /\ Ready(queue[s][1]) /\ recorded' = recorded
  BY Finished
<1>2. /\ Len(queue'[t]) \in Nat /\ Off(s, t) \in {0, 1} /\ Off(s, Main) \in {0, 1}
      /\ \A k \in 1 .. Len(queue'[t]) : queue'[t][k] = queue[t][k + Off(s, t)]
      /\ Len(M) \in Nat /\ Len(M') = Len(M) - Off(s, Main) /\ Len(M') \in Nat
      /\ \A k \in 1 .. Len(M') : M'[k] = M[k + Off(s, Main)]
  BY <1>1, MainIsAStream, Popped DEF M
<1>3. CASE t = Main /\ i + Off(s, Main) < j + Off(s, t)
  BY <1>2, <1>3 DEF After
<1>4. ASSUME NEW n \in 1 .. recorded[b]["read"],
             NEW k \in (i + Off(s, Main)) + 1 .. Len(M), Records(Main, k, <<b, "read", n>>),
             NEW m \in 1 .. (j + Off(s, t)) - 1, Waits(t, m, <<b, "read", n>>)
      PROVE  After(i, t, j, b)'
  <2>0. <<b, "read", n>> \in Events /\ recorded[b]["read"] \in Nat
    <3>1. recorded[b]["read"] \in Nat /\ "read" \in Kinds
      BY OrderedParts DEF Kinds
    <3>2. n \in Nat
      BY <3>1
    <3> QED
      BY <3>1, <3>2 DEF Events
  <2>1. m # 1 \/ Off(s, t) # 1
    <3> SUFFICES ASSUME m = 1, Off(s, t) = 1
                 PROVE  FALSE
      OBVIOUS
    <3>1. t = s
      BY DEF Off
    <3>2. <<b, "read", n>> \in done
      BY <1>1, <1>4, <3>1 DEF Waits, Ready
    <3>3. k \in 1 .. Len(queue[Main])
      BY <1>2 DEF M
    <3> QED
      BY <1>4, <2>0, <3>2, <3>3, MainIsAStream DEF Ordered, RecordsOK
  <2>2. PICK l \in 1 .. j - 1 : m = l + Off(s, t) /\ l \in 1 .. Len(queue'[t])
    <3>1. /\ m - Off(s, t) \in 1 .. j - 1 /\ m = (m - Off(s, t)) + Off(s, t)
          /\ m - Off(s, t) \in 1 .. Len(queue'[t])
      BY <1>2, <2>1
    <3> QED
      BY <3>1
  <2>3. PICK h \in i + 1 .. Len(M') : k = h + Off(s, Main) /\ h \in 1 .. Len(M')
    <3>1. /\ k - Off(s, Main) \in i + 1 .. Len(M')
          /\ k = (k - Off(s, Main)) + Off(s, Main)
          /\ k - Off(s, Main) \in 1 .. Len(M')
      BY <1>2
    <3> QED
      BY <3>1
  <2>4. queue'[t][l] = queue[t][m] /\ M'[h] = M[k]
    BY <1>2, <2>2, <2>3
  <2>5. Waits(t, l, <<b, "read", n>>)' /\ Records(Main, h, <<b, "read", n>>)'
    BY <1>4, <2>4 DEF Waits, Records, M
  <2> QED
    BY <1>1, <2>2, <2>3, <2>5 DEF After
<1> QED
  BY <1>3, <1>4 DEF After

LEMMA FinishOrdered ==
    ASSUME Ordered, NEW s \in Streams, Finish(s)
    PROVE  Ordered'
<1> DEFINE op == queue[s][1]
<1>1. /\ queue \in [Streams -> Seq(Operations)] /\ queue[s] # <<>>
      /\ queue' = [queue EXCEPT ![s] = Tail(@)]
      /\ 1 \in 1 .. Len(queue[s]) /\ op \in Operations
      /\ \A b \in Inputs : IsOp(op, "fill", b) =>
             /\ content'[b] = op.value
             /\ content'[b] = content[b] + 1
             /\ Fills(s, 1, b, content'[b])
      /\ \A b \in Inputs : ~IsOp(op, "fill", b) => content'[b] = content[b]
      /\ \A b \in Inputs : /\ content[b] \in Nat /\ content'[b] \in Nat
                           /\ content'[b] >= content[b] /\ content'[b] <= version[b]
      /\ done' = IF op.op = "record" THEN done \cup op.events ELSE done
      /\ UNCHANGED <<tracking, call, readers, writer, dropped, version, recorded, tape, graph,
                     replays, replayed>>
  BY Finished
<1>2. /\ queue' \in [Streams -> Seq(Operations)]
      /\ \A t \in Streams :
             /\ Len(queue[t]) \in Nat /\ Len(queue'[t]) \in Nat /\ Off(s, t) \in {0, 1}
             /\ Len(queue'[t]) = Len(queue[t]) - Off(s, t)
             /\ \A i \in 1 .. Len(queue'[t]) :
                    /\ i \in Nat /\ i + Off(s, t) \in 1 .. Len(queue[t])
                    /\ i + Off(s, t) \in Nat
                    /\ queue'[t][i] = queue[t][i + Off(s, t)]
  BY <1>1, Popped
<1>3. /\ op.op \in {"wait", "record"} => op.events \in SUBSET Events
      /\ op.op \in {"alloc", "copy", "decode"} => op.buf \in Calls
      /\ op.op = "free" => op.buf \in Inputs \cup Calls
  BY <1>1, OperationFields
<1> HIDE DEF op
<1>4. /\ HostOK /\ Shape /\ version \in [Inputs -> Nat] /\ recorded \in [Inputs -> [Kinds -> Nat]]
  BY OrderedParts
<1>5. HostOK'
  <2>1. HostShape' /\ ModeOK'
    BY <1>1, <1>4 DEF HostOK, HostShape, ModeOK, Capturing
  <2> QED
    BY <1>1, <1>4, <2>1, CallsStay DEF HostOK
<1>6. DeviceShape'
  <2>1. done' \in SUBSET Events
    BY <1>1, <1>3, <1>4 DEF Shape, DeviceShape
  <2>2. live' \in SUBSET (Inputs \cup Calls)
    <3>1. Head(queue[s]) = op
      BY <1>1, Popped DEF op
    <3>2. live' = CASE op.op = "alloc" -> live \cup {op.buf}
                    [] op.op = "free"  -> live \ {op.buf}
                    [] OTHER -> live
      BY <3>1 DEF Finish
    <3>3. live' = live \/ live' = live \ {op.buf} \/ (live' = live \cup {op.buf} /\ op.op = "alloc")
      BY <3>2
    <3> QED
      BY <1>3, <1>4, <3>3 DEF Shape, DeviceShape
  <2>3. content' = [b \in Inputs \cup Calls |-> content'[b]]
    <3>1. Head(queue[s]) = op
      BY <1>1, Popped DEF op
    <3>2. \/ content' = content
          \/ content' = [content EXCEPT ![op.buf] = op.value]
          \/ content' = [content EXCEPT ![op.buf] = [b \in ReadsOf(op.buf) |-> content[b]]]
      BY <3>1 DEF Finish
    <3>3. content = [b \in Inputs \cup Calls |-> content[b]]
      BY <1>4 DEF Shape, DeviceShape
    <3> QED
      BY <3>2, <3>3
  <2>4. ASSUME NEW t \in Streams \ {Main}, NEW i \in 1 .. Len(queue'[t])
        PROVE  queue'[t][i].op \in {"fill", "wait", "record"}
    BY <1>2, <1>4 DEF Shape, DeviceShape
  <2>5. ~tracking' => \A t \in Streams \ {Main} : queue'[t] = <<>>
    <3> SUFFICES ASSUME ~tracking, NEW t \in Streams \ {Main}
                 PROVE  queue'[t] = <<>>
      BY <1>1
    <3>1. queue[t] = <<>>
      BY <1>4 DEF Shape, DeviceShape
    <3>2. t # s
      BY <1>1, <3>1
    <3> QED
      BY <1>1, <3>1, <3>2
  <2> QED
    BY <1>1, <1>2, <2>1, <2>2, <2>3, <2>4, <2>5 DEF DeviceShape
\* An operation that is still there was there, at another place than the finished one.
<1>7. \A t \in Streams : \A i \in 1 .. Len(queue'[t]) : t = s => i + Off(s, t) # 1
  BY <1>2 DEF Off
<1>8. ASSUME NEW t \in Streams, NEW i \in 1 .. Len(queue'[t])
      PROVE  /\ \A b \in Inputs : \A n \in Nat : Fills(t, i, b, n)' => Fills(t, i + Off(s, t), b, n)
             /\ \A e \in Events : Records(t, i, e)' => Records(t, i + Off(s, t), e)
  BY <1>2 DEF Fills, Records, IsOp
<1>9. FillsOK'
  <2> SUFFICES ASSUME NEW t \in Streams, NEW i \in 1 .. Len(queue'[t]),
                      NEW b \in Inputs, NEW n \in Nat, Fills(t, i, b, n)'
               PROVE  /\ content'[b] < n /\ n <= version'[b]
                      /\ Knows(t, i, b, n - 1)'
                      /\ \A u \in Streams : \A j \in 1 .. Len(queue'[u]) :
                             Fills(u, j, b, n)' => u = t /\ j = i
    BY DEF FillsOK
  <2>1. i + Off(s, t) \in 1 .. Len(queue[t]) /\ Fills(t, i + Off(s, t), b, n)
    BY <1>2, <1>8
  <2>2. /\ content[b] < n /\ n <= version[b]
        /\ Knows(t, i + Off(s, t), b, n - 1)
        /\ \A u \in Streams : \A j \in 1 .. Len(queue[u]) :
               Fills(u, j, b, n) => u = t /\ j = i + Off(s, t)
    BY <2>1 DEF Ordered, FillsOK
  <2>3. content'[b] < n
    <3>1. CASE IsOp(op, "fill", b)
      <4>1. content'[b] # n
        BY <1>1, <1>7, <2>2, <3>1
      <4> QED
        BY <1>1, <2>2, <3>1, <4>1
    <3>2. CASE ~IsOp(op, "fill", b)
      BY <1>1, <2>2, <3>2
    <3> QED
      BY <3>1, <3>2
  <2>4. Knows(t, i, b, n - 1)'
    <3>1. n - 1 \in Nat /\ i \in Nat /\ i - 1 <= Len(queue'[t])
      BY <1>1, <1>2, <2>2
    <3> QED
      BY <2>2, <3>1, KnowsShifts
  <2>5. ASSUME NEW u \in Streams, NEW j \in 1 .. Len(queue'[u]), Fills(u, j, b, n)'
        PROVE  u = t /\ j = i
    <3>1. u = t /\ j + Off(s, u) = i + Off(s, t)
      BY <1>2, <1>8, <2>2, <2>5
    <3> QED
      BY <1>2, <3>1
  <2> QED
    BY <1>1, <2>2, <2>3, <2>4, <2>5
<1>10. RecordsOK'
  <2>1. ASSUME NEW e \in done'
        PROVE  e[3] <= recorded'[e[1]][e[2]] /\ (e[2] = "write" => content'[e[1]] >= e[3])
    <3>1. e \in Events
      BY <1>6 DEF DeviceShape
    <3>2. e[1] \in Inputs /\ e[3] \in Nat
      BY <3>1 DEF Events
    <3>3. CASE e \in done
      <4>1. RecordsOK
        BY DEF Ordered
      <4>2. e[3] <= recorded[e[1]][e[2]] /\ (e[2] = "write" => content[e[1]] >= e[3])
        BY <3>3, <4>1 DEF RecordsOK
      <4>3. /\ recorded' = recorded
            /\ content[e[1]] \in Nat /\ content'[e[1]] \in Nat /\ content'[e[1]] >= content[e[1]]
        BY <1>1, <3>2
      <4> QED
        BY <3>2, <4>2, <4>3
    <3>4. CASE e \notin done
      <4>1. Records(s, 1, e)
        BY <1>1, <3>4 DEF Records, op
      <4>2. e[3] <= recorded[e[1]][e[2]] /\ (e[2] = "write" => Knows(s, 1, e[1], e[3]))
        BY <1>1, <3>1, <4>1 DEF Ordered, RecordsOK
      <4>3. e[2] = "write" => content[e[1]] >= e[3]
        BY <4>2 DEF Knows
      <4> QED
        BY <1>1, <3>2, <4>2, <4>3
    <3> QED
      BY <3>3, <3>4
  <2>2. ASSUME NEW t \in Streams, NEW i \in 1 .. Len(queue'[t]), NEW e \in Events,
               Records(t, i, e)'
        PROVE  /\ e[3] <= recorded'[e[1]][e[2]] /\ e \notin done'
               /\ e[2] = "write" => Knows(t, i, e[1], e[3])'
               /\ \A u \in Streams : \A j \in 1 .. Len(queue'[u]) :
                      Records(u, j, e)' => u = t /\ j = i
    <3>1. i + Off(s, t) \in 1 .. Len(queue[t]) /\ Records(t, i + Off(s, t), e)
      BY <1>2, <1>8, <2>2
    <3>2. /\ e[3] <= recorded[e[1]][e[2]] /\ e \notin done
          /\ e[2] = "write" => Knows(t, i + Off(s, t), e[1], e[3])
          /\ \A u \in Streams : \A j \in 1 .. Len(queue[u]) :
                 Records(u, j, e) => u = t /\ j = i + Off(s, t)
      BY <3>1 DEF Ordered, RecordsOK
    <3>3. e \notin done'
      <4>1. ~Records(s, 1, e)
        BY <1>1, <1>7, <3>2
      <4> QED
        BY <1>1, <3>2, <4>1 DEF Records, op
    <3>4. e[2] = "write" => Knows(t, i, e[1], e[3])'
      <4>1. i \in Nat /\ i - 1 <= Len(queue'[t]) /\ e[1] \in Inputs /\ e[3] \in Nat
        BY <1>2 DEF Events
      <4> QED
        BY <3>2, <4>1, KnowsShifts
    <3>5. ASSUME NEW u \in Streams, NEW j \in 1 .. Len(queue'[u]), Records(u, j, e)'
          PROVE  u = t /\ j = i
      <4>1. u = t /\ j + Off(s, u) = i + Off(s, t)
        BY <1>2, <1>8, <3>2, <3>5
      <4>2. j \in Nat /\ i \in Nat /\ Off(s, t) \in Nat
        BY <1>2
      <4>3. j + Off(s, t) = i + Off(s, t)
        BY <4>1
      <4> QED
        BY <4>1, <4>2, <4>3
    <3> QED
      BY <1>1, <3>2, <3>3, <3>4, <3>5
  <2> QED
    BY <2>1, <2>2 DEF RecordsOK
<1>11. /\ Len(M) \in Nat /\ Len(M') \in Nat /\ Off(s, Main) \in {0, 1}
       /\ Len(M') = Len(M) - Off(s, Main)
       /\ \A i \in 1 .. Len(M') :
              /\ i \in Nat /\ i + Off(s, Main) \in 1 .. Len(M)
              /\ M'[i] = M[i + Off(s, Main)]
  BY <1>2, MainIsAStream DEF M
<1>12. DecodesOK'
  <2> SUFFICES ASSUME NEW i \in 1 .. Len(M'), NEW c \in Calls, NEW b \in ReadsOf(c), NEW g \in Nat,
                      Given(i, c, b, g)'
               PROVE  /\ content'[b] <= g /\ g <= version'[b]
                      /\ Knows(Main, i, b, g)'
                      /\ \A t \in Streams : \A j \in 1 .. Len(queue'[t]) : \A n \in Nat :
                             Fills(t, j, b, n)' /\ n > g => After(i, t, j, b)'
    BY DEF DecodesOK
  <2>1. b \in Inputs /\ i + Off(s, Main) \in 1 .. Len(M) /\ Given(i + Off(s, Main), c, b, g)
    BY <1>11, ReadsAreInputs DEF Given, IsOp
  <2>2. /\ content[b] <= g /\ g <= version[b]
        /\ Knows(Main, i + Off(s, Main), b, g)
        /\ \A t \in Streams : \A j \in 1 .. Len(queue[t]) : \A n \in Nat :
               Fills(t, j, b, n) /\ n > g => After(i + Off(s, Main), t, j, b)
    BY <2>1 DEF Ordered, DecodesOK
  <2>3. content'[b] <= g
    <3>1. CASE IsOp(op, "fill", b)
      <4>1. Fills(s, 1, b, content'[b]) /\ content'[b] \in Nat
        BY <1>1, <2>1, <3>1
      <4>2. ASSUME content'[b] > g
            PROVE  FALSE
        <5>1. After(i + Off(s, Main), s, 1, b)
          BY <1>1, <2>2, <4>1, <4>2
        <5> QED
          BY <1>11, <5>1 DEF After
      <4> QED
        BY <4>1, <4>2
    <3>2. CASE ~IsOp(op, "fill", b)
      BY <1>1, <2>1, <2>2, <3>2
    <3> QED
      BY <3>1, <3>2
  <2>4. Knows(Main, i, b, g)'
    <3>1. i \in Nat /\ i - 1 <= Len(queue'[Main])
      BY <1>11 DEF M
    <3> QED
      BY <2>1, <2>2, <3>1, MainIsAStream, KnowsShifts
  <2>5. ASSUME NEW t \in Streams, NEW j \in 1 .. Len(queue'[t]), NEW n \in Nat,
               Fills(t, j, b, n)', n > g
        PROVE  After(i, t, j, b)'
    <3>1. j + Off(s, t) \in 1 .. Len(queue[t]) /\ Fills(t, j + Off(s, t), b, n)
      BY <1>2, <1>8, <2>1, <2>5
    <3>2. After(i + Off(s, Main), t, j + Off(s, t), b)
      BY <2>2, <2>5, <3>1
    <3>3. i \in Nat /\ i >= 1
      OBVIOUS
    <3> QED
      BY <2>1, <3>2, <3>3, AfterShifts
  <2> QED
    BY <1>1, <2>2, <2>3, <2>4, <2>5
<1>13. HeldOK'
  <2> SUFFICES ASSUME tracking, NEW i \in 1 .. Len(M'), NEW c \in Calls, NEW b \in ReadsOf(c),
                      IsOp(M'[i], "decode", c)
               PROVE  \/ c \in readers[b] /\ call[c].ok
                      \/ /\ recorded[b]["read"] > 0
                         /\ \E k \in i + 1 .. Len(M') :
                                Records(Main, k, <<b, "read", recorded[b]["read"]>>)'
    BY <1>1 DEF HeldOK, Records, IsOp
  <2>1. i + Off(s, Main) \in 1 .. Len(M) /\ IsOp(M[i + Off(s, Main)], "decode", c)
    BY <1>11
  <2>2. ASSUME NEW k \in (i + Off(s, Main)) + 1 .. Len(M),
               Records(Main, k, <<b, "read", recorded[b]["read"]>>)
        PROVE  \E l \in i + 1 .. Len(M') : Records(Main, l, <<b, "read", recorded[b]["read"]>>)'
    <3>1. /\ k - Off(s, Main) \in i + 1 .. Len(M') /\ k - Off(s, Main) \in 1 .. Len(M')
          /\ k = (k - Off(s, Main)) + Off(s, Main)
      BY <1>11
    <3>2. PICK l \in i + 1 .. Len(M') : l \in 1 .. Len(M') /\ k = l + Off(s, Main)
      BY <3>1
    <3>3. M'[l] = M[k]
      BY <1>11, <3>2
    <3>4. Records(Main, l, <<b, "read", recorded[b]["read"]>>)'
      BY <1>1, <2>2, <3>3 DEF Records, M
    <3> QED
      BY <3>4
  <2> QED
    BY <2>1, <2>2 DEF Ordered, HeldOK
<1>14. ASSUME NEW b \in Inputs, KnowsNow(b)
       PROVE  KnowsNow(b)'
  <2>1. PICK v \in Nat : v = version[b]
    BY <1>4
  <2>2. PICK i \in Nat : i = Len(M') + 1
    BY <1>11
  <2>3. i + Off(s, Main) = Len(M) + 1
    BY <1>11, <2>2
  <2>4. Knows(Main, i + Off(s, Main), b, v)
    BY <1>14, <2>1, <2>3 DEF KnowsNow
  <2>5. i - 1 <= Len(queue'[Main])
    BY <1>11, <2>2 DEF M
  <2>6. Knows(Main, i, b, v)'
    BY <2>4, <2>5, MainIsAStream, KnowsShifts
  <2>7. version'[b] = v
    BY <1>1, <2>1
  <2> QED
    BY <2>2, <2>6, <2>7 DEF KnowsNow, Knows
<1>15. NextOK'
  <2>1. ~tracking => \A b \in Inputs : KnowsNow(b)'
    BY <1>14 DEF Ordered, NextOK
  <2>2. \A c \in Calls : call[c].step = "launch" => \A b \in ReadsOf(c) : KnowsNow(b)'
    BY <1>14, ReadsAreInputs DEF Ordered, NextOK
  <2> QED
    BY <1>1, <2>1, <2>2 DEF NextOK
<1> QED
  BY <1>5, <1>6, <1>9, <1>10, <1>12, <1>13, <1>15 DEF Ordered, Shape, HostOK

LEMMA OrderedInit ==
    ASSUME Init
    PROVE  Ordered
<1> USE DEF Init
<1>1. \A s \in Streams : queue[s] = <<>> /\ Len(queue[s]) = 0
  BY EmptySeq
<1>2. Len(M) = 0
  BY <1>1, MainIsAStream DEF M
<1>3. HostShape
  <2>1. call \in [Calls -> CallType]
    <3>1. [step |-> "new", n |-> 0, ok |-> FALSE] \in CallType
      BY DEF CallType
    <3> QED
      BY <3>1
  <2> QED
    BY <2>1, GuardsAssumption DEF HostShape
<1>4. DeviceShape
  <2>1. queue \in [Streams -> Seq(Operations)]
    BY EmptySeq
  <2>2. \A b \in Inputs : content[b] = 0
    OBVIOUS
  <2> QED
    BY <1>1, <2>1, <2>2 DEF DeviceShape
<1>5. CallsOK
  <2>1. \A c \in Calls : /\ call[c].step = "new" /\ call[c].n = 0 /\ call[c].ok = FALSE
                         /\ Len(Reads[c]) \in Nat
                         /\ \A b \in Inputs : c \notin readers[b]
    BY ReadsAreInputs
  <2>2. \A c \in Calls : /\ call[c].step \notin {"lock", "point", "launch", "end", "ok", "dropped"}
                         /\ call[c].step \notin Active
    BY <2>1 DEF Active
  <2>3. \A c \in Calls : call[c].ok = (call[c].step \in {"ok", "dropped"}
                                       \/ (call[c].step = "end" /\ call[c].ok))
    BY <2>1, <2>2, Zenon
  <2> HIDE DEF Init
  <2> QED
    BY <2>1, <2>2, <2>3 DEF CallsOK
<1>6. ModeOK
  BY DEF ModeOK, Capturing, Kinds
<1>7. FillsOK /\ RecordsOK /\ DecodesOK /\ HeldOK
  BY <1>1, <1>2 DEF FillsOK, RecordsOK, DecodesOK, HeldOK
<1>8. NextOK
  BY DEF NextOK, KnowsNow, Knows
<1> QED
  BY <1>3, <1>4, <1>5, <1>6, <1>7, <1>8 DEF Ordered, Shape

LEMMA OrderedStutters ==
    ASSUME Ordered, UNCHANGED vars
    PROVE  Ordered'
<1>1. UNCHANGED <<tracking, calls, dropped, events, queue, device>>
  BY DEF vars
<1>2. HostShape'
  BY OrderedParts DEF vars, calls, events, graphs, launches, HostOK, HostShape
<1>3. ModeOK'
  BY OrderedParts DEF vars, calls, events, graphs, launches, HostOK, ModeOK, Capturing
<1> QED
  BY <1>1, <1>2, <1>3, HostStep

LEMMA OrderedNext ==
    ASSUME Ordered, [Next]_vars
    PROVE  Ordered'
<1>1. ASSUME NEW c \in Calls, Begin(c)
      PROVE  Ordered'
  BY <1>1, BeginOrdered
<1>2. ASSUME NEW c \in Calls, CallStep(c)
      PROVE  Ordered'
  <2>1. CASE Lock(c)
    BY <2>1, LockOrdered
  <2>2. ASSUME NEW n \in 0 .. Len(Reads[c]), Point(c, n)
        PROVE  Ordered'
    BY <2>2, PointOrdered
  <2>3. CASE Launch(c)
    BY <2>3, LaunchOrdered
  <2>4. CASE LaunchFails(c)
    BY <2>4, LaunchFailsOrdered
  <2>5. CASE Return(c)
    BY <2>5, ReturnOrdered
  <2> QED
    BY <1>2, <2>1, <2>2, <2>3, <2>4, <2>5 DEF CallStep
<1>3. ASSUME NEW c \in Calls, DropOutput(c) \/ CopyOut(c)
      PROVE  Ordered'
  BY <1>3, DropOutputOrdered, CopyOutOrdered
<1>4. ASSUME NEW b \in Inputs, Refill(b) \/ DropInput(b)
      PROVE  Ordered'
  BY <1>4, RefillOrdered, DropInputOrdered
<1>5. ASSUME NEW b \in Inputs, NEW s \in Streams, RefillBegin(b, s)
      PROVE  Ordered'
  BY <1>5, RefillBeginOrdered
<1>6. CASE BeginCapture
  BY <1>6, BeginCaptureOrdered
<1>7. CASE EndCapture
  BY <1>7, EndCaptureOrdered
<1>8. CASE Replay
  BY <1>8, ReplayOrdered
<1>9. ASSUME NEW s \in Streams, Finish(s)
      PROVE  Ordered'
  BY <1>9, FinishOrdered
<1>10. CASE UNCHANGED vars
  BY <1>10, OrderedStutters
<1> QED
  BY <1>1, <1>2, <1>3, <1>4, <1>5, <1>6, <1>7, <1>8, <1>9, <1>10 DEF Next

\* Streams keep the order that events and locks give them, in every state.
THEOREM GuardsOrder == Spec => []Ordered
<1>1. Init => Ordered
  BY OrderedInit
<1>2. Ordered /\ [Next]_vars => Ordered'
  BY OrderedNext
<1> QED
  BY <1>1, <1>2, PTL DEF Spec

-----------------------------------------------------------------------------
(* The properties.                                                         *)

\* The host's state and the device's are of their types.
THEOREM GuardsTypeCorrect == Spec => []TypeOK
<1>1. Ordered => TypeOK
  <2> SUFFICES ASSUME Ordered
               PROVE  TypeOK
    OBVIOUS
  <2>1. HostOK /\ Shape
    BY OrderedParts
  <2>2. \A c \in Calls :
            /\ call[c].step \in {"new", "lock", "point", "launch", "end", "ok", "err", "dropped"}
            /\ call[c].n \in 0 .. Len(Reads[c])
            /\ call[c].ok \in BOOLEAN
    BY <2>1, OrderedParts DEF CallType, Active
  <2>3. tracking => ~Capturing /\ graph = None
    BY <2>1 DEF HostOK, ModeOK
  <2> QED
    BY <2>1, <2>2, <2>3 DEF HostOK, HostShape, Shape, DeviceShape, TypeOK
<1> QED
  BY <1>1, GuardsOrder, PTL

\* A decode that may be running reads in every input what the input was given
\* when the decode was launched or replayed, for any streams and refills: by
\* then what its stream waited for is done, and every later fill waits for the
\* record that follows the decode.
THEOREM CallsReadWhatTheyWereGivenAlways == Spec => []CallsReadWhatTheyWereGiven
<1>1. Ordered => CallsReadWhatTheyWereGiven
  <2> SUFFICES ASSUME Ordered, NEW s \in Streams, queue[s] # <<>>,
                      Head(queue[s]).op = "decode",
                      NEW b \in ReadsOf(Head(queue[s]).buf)
               PROVE  content[b] = Head(queue[s]).given[b]
    BY DEF CallsReadWhatTheyWereGiven
  <2>1. /\ queue[s] \in Seq(Operations) /\ Len(queue[s]) \in Nat /\ Len(queue[s]) >= 1
        /\ Head(queue[s]) = queue[s][1] /\ queue[s][1] \in Operations
    BY OrderedParts, Tailed
  <2>2. 1 \in 1 .. Len(queue[s])
    BY <2>1
  <2>3. s = Main
    BY <2>1, <2>2, OrderedParts DEF Shape, DeviceShape
  <2> DEFINE o == queue[s][1]
  <2>4. /\ o.op = "decode" /\ o.buf \in Calls /\ o.given \in [Inputs -> Nat]
        /\ b \in ReadsOf(o.buf) /\ M[1] = o /\ 1 \in 1 .. Len(M)
    BY <2>1, <2>2, <2>3, OperationFields DEF M
  <2>5. b \in Inputs /\ o.given[b] \in Nat
    BY <2>4, ReadsAreInputs
  <2>6. Given(1, o.buf, b, o.given[b])
    BY <2>4 DEF Given, IsOp
  <2>7. content[b] <= o.given[b] /\ Knows(Main, 1, b, o.given[b])
    BY <2>4, <2>5, <2>6 DEF Ordered, DecodesOK
  <2>8. content[b] >= o.given[b]
    BY <2>7 DEF Knows
  <2>9. content[b] \in Nat
    BY <2>5, OrderedParts DEF Shape, DeviceShape
  <2> QED
    BY <2>1, <2>5, <2>7, <2>8, <2>9
<1> QED
  BY <1>1, GuardsOrder, PTL
=============================================================================
