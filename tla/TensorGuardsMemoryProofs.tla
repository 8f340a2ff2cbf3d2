---------------------- MODULE TensorGuardsMemoryProofs ----------------------
(***************************************************************************)
(* Proofs about TensorGuards: nothing is used before its allocation or     *)
(* after its release, and what a graph copies is of the last replay, for   *)
(* any storages, calls, streams and numbers of refills and replays.        *)
(***************************************************************************)
EXTENDS TensorGuardsOrderProofs

-----------------------------------------------------------------------------
(* The inductive invariants.                                               *)
\* Output c is allocated when place i of r is reached, if those of L are at
\* the beginning of r.
Alive(r, c, i, L) ==
    \/ c \in L /\ \A k \in 1 .. i - 1 : ~IsOp(r[k], "free", c)
    \/ \E k \in 1 .. i - 1 : /\ IsOp(r[k], "alloc", c)
                             /\ \A m \in k + 1 .. i - 1 : ~IsOp(r[m], "free", c)

Uses(o, c) == o.op \in {"decode", "copy", "free"} /\ o.buf = c

UsesAlive(r, L) == \A i \in 1 .. Len(r) : \A c \in Calls : Uses(r[i], c) => Alive(r, c, i, L)

\* An output is allocated until its call failed or it was dropped, and by a
\* graph before the graph uses it.
Holding == Active \cup {"ok"}

OutputsOK ==
    /\ UsesAlive(M, live)
    /\ Capturing => UsesAlive(tape, {})
    /\ graph # None => UsesAlive(graph, {})
    /\ \A c \in Calls : call[c].step \in Holding =>
           IF Capturing THEN Alive(tape, c, Len(tape) + 1, {}) ELSE Alive(M, c, Len(M) + 1, live)

\* A dropped input is freed after everything that uses it.
InputsOK ==
    /\ \A b \in Inputs \ dropped : b \in live /\ \A i \in 1 .. Len(M) : ~IsOp(M[i], "free", b)
    /\ \A i \in 1 .. Len(M) : \A b \in Inputs : IsOp(M[i], "free", b) =>
           /\ b \in live
           /\ Knows(Main, i, b, version[b])
           /\ \A j \in 1 .. Len(M) : IsOp(M[j], "free", b) => j = i
           /\ \A j \in 1 .. Len(M) : \A c \in Calls :
                  IsOp(M[j], "decode", c) /\ b \in ReadsOf(c) => j < i
    /\ \A b \in Inputs \ live :
           /\ content[b] = version[b]
           /\ \A j \in 1 .. Len(M) : \A c \in Calls :
                  IsOp(M[j], "decode", c) => b \notin ReadsOf(c)

Has(r, c, op) == \E i \in 1 .. Len(r) : IsOp(r[i], op, c)

\* What is captured: decodes of undropped inputs, copied before they are
\* released; and the allocations and releases of calls that failed.
CapturedOK(r) ==
    /\ \A c \in Calls : Has(r, c, "decode") => ReadsOf(c) \cap dropped = {}
    /\ \A c \in Calls : Has(r, c, "decode") /\ Has(r, c, "free") => Has(r, c, "copy")
    /\ \A k \in 1 .. Len(r) : \A c \in Calls : IsOp(r[k], "copy", c) =>
           \E i \in 1 .. k - 1 : IsOp(r[i], "decode", c)

\* Call c launched its kernel, and its output is not dropped yet.
Launched(c) == call[c].step \in {"end", "ok"} /\ call[c].ok

TapeOK ==
    Capturing =>
        /\ CapturedOK(tape)
        /\ \A i \in 1 .. Len(tape) : call[tape[i].buf].step # "new"
        /\ \A c \in Calls : Launched(c) => Has(tape, c, "decode")
        /\ \A c \in Calls : Has(tape, c, "decode") => Launched(c) \/ Has(tape, c, "free")
        /\ \A c \in Calls : Has(tape, c, "free") => call[c].step \in {"err", "dropped"}

\* A graph is complete, and its calls are over.
GraphOK ==
    graph # None =>
        /\ CapturedOK(graph)
        /\ \A i \in 1 .. Len(graph) : call[graph[i].buf].step \in {"err", "dropped"}
        /\ \E c \in Calls : Has(graph, c, "copy")
        /\ \A c \in Calls : Has(graph, c, "decode") => Has(graph, c, "free")

GraphsOK == TapeOK /\ GraphOK

\* Content x of output c will be made of what the inputs held at the last
\* replay, v, when place k of r is reached.
Good(x, v) == x # None /\ \A b \in DOMAIN x : x[b] = v[b]

GoodDecodes(r, v, c, i, k) ==
    \A m \in i .. k - 1 : IsOp(r[m], "decode", c) => \A b \in ReadsOf(c) : r[m].given[b] = v[b]

GoodAt(r, v, x, c, k) ==
    \/ Good(x, v) /\ GoodDecodes(r, v, c, 1, k)
    \/ \E i \in 1 .. k - 1 : IsOp(r[i], "decode", c) /\ GoodDecodes(r, v, c, i, k)

LastCopy(r, c, k) == IsOp(r[k], "copy", c) /\ \A m \in k + 1 .. Len(r) : r[m].op # "copy"

\* The last copy that is queued, or the one that was made, is of the last
\* replay.
StableOK ==
    replays > 0 =>
        /\ (\A k \in 1 .. Len(M) : M[k].op # "copy") => Good(stable, replayed)
        /\ \A k \in 1 .. Len(M) : \A c \in Calls :
               LastCopy(M, c, k) => GoodAt(M, replayed, content[c], c, k)

-----------------------------------------------------------------------------
(* Sequences of operations.                                                *)

\* ops is put at the end of r, which becomes n.
Appends(r, n, ops) ==
    /\ Len(r) \in Nat /\ Len(ops) \in Nat
    /\ Len(n) = Len(r) + Len(ops)
    /\ \A i \in 1 .. Len(r) : n[i] = r[i]
    /\ \A i \in 1 .. Len(ops) : n[Len(r) + i] = ops[i]

LEMMA AppendsOldOrNew ==
    ASSUME NEW r, NEW n, NEW ops, Appends(r, n, ops), NEW i \in 1 .. Len(n)
    PROVE  \/ i \in 1 .. Len(r) /\ n[i] = r[i]
           \/ /\ i - Len(r) \in 1 .. Len(ops) /\ n[i] = ops[i - Len(r)]
              /\ i = Len(r) + (i - Len(r))
<1>1. Len(r) \in Nat /\ Len(ops) \in Nat /\ Len(n) = Len(r) + Len(ops) /\ i \in Nat
  BY DEF Appends
<1>2. CASE i <= Len(r)
  BY <1>1, <1>2 DEF Appends
<1>3. CASE i > Len(r)
  <2>1. i - Len(r) \in 1 .. Len(ops) /\ i = Len(r) + (i - Len(r))
    BY <1>1, <1>3
  <2>2. \A j \in 1 .. Len(ops) : i = Len(r) + j => n[i] = ops[j]
    BY DEF Appends
  <2> QED
    BY <2>1, <2>2
<1> QED
  BY <1>1, <1>2, <1>3

\* An output stays allocated, whatever is put after its use.
LEMMA AliveAppended ==
    ASSUME NEW r, NEW n, NEW ops, Appends(r, n, ops), NEW L, NEW c,
           NEW i \in 1 .. Len(r) + 1, Alive(r, c, i, L)
    PROVE  Alive(n, c, i, L)
<1>1. Len(r) \in Nat /\ \A k \in 1 .. i - 1 : k \in 1 .. Len(r) /\ n[k] = r[k]
  BY DEF Appends
<1>2. \A k \in 1 .. i - 1 : \A m \in k + 1 .. i - 1 : m \in 1 .. i - 1
  BY <1>1
<1> QED
  BY <1>1, <1>2 DEF Alive

\* It also stays allocated where what is put there does not free it.
LEMMA AliveStays ==
    ASSUME NEW r, NEW n, NEW ops, Appends(r, n, ops), NEW L, NEW c,
           Alive(r, c, Len(r) + 1, L), NEW m \in 1 .. Len(ops) + 1,
           \A k \in 1 .. m - 1 : ~IsOp(ops[k], "free", c)
    PROVE  Alive(n, c, Len(r) + m, L)
<1>1. Len(r) \in Nat /\ Len(ops) \in Nat /\ Len(n) = Len(r) + Len(ops) /\ m \in Nat
  BY DEF Appends
<1>2. ASSUME NEW k \in 1 .. (Len(r) + m) - 1
      PROVE  (k \in 1 .. Len(r) /\ n[k] = r[k]) \/ ~IsOp(n[k], "free", c)
  <2>1. k \in 1 .. Len(n)
    BY <1>1
  <2>2. CASE k \in 1 .. Len(r)
    BY <2>2 DEF Appends
  <2>3. CASE k \notin 1 .. Len(r)
    <3>1. n[k] = ops[k - Len(r)]
      BY <2>1, <2>3, AppendsOldOrNew
    <3>2. k - Len(r) \in 1 .. m - 1
      BY <1>1, <2>3
    <3> QED
      BY <3>1, <3>2
  <2> QED
    BY <2>2, <2>3
<1>3. CASE c \in L /\ \A k \in 1 .. (Len(r) + 1) - 1 : ~IsOp(r[k], "free", c)
  <2>1. \A k \in 1 .. Len(r) : k \in 1 .. (Len(r) + 1) - 1
    BY <1>1
  <2> QED
    BY <1>2, <1>3, <2>1 DEF Alive
<1>4. CASE \E k \in 1 .. (Len(r) + 1) - 1 :
               /\ IsOp(r[k], "alloc", c)
               /\ \A j \in k + 1 .. (Len(r) + 1) - 1 : ~IsOp(r[j], "free", c)
  <2>1. PICK k \in 1 .. (Len(r) + 1) - 1 :
               /\ IsOp(r[k], "alloc", c)
               /\ \A j \in k + 1 .. (Len(r) + 1) - 1 : ~IsOp(r[j], "free", c)
    BY <1>4
  <2>2. k \in 1 .. Len(r) /\ k \in 1 .. (Len(r) + m) - 1 /\ IsOp(n[k], "alloc", c)
    BY <1>1, <2>1 DEF Appends
  <2>3. ASSUME NEW j \in k + 1 .. (Len(r) + m) - 1
        PROVE  ~IsOp(n[j], "free", c)
    <3>1. j \in 1 .. (Len(r) + m) - 1 /\ (j \in 1 .. Len(r) => j \in k + 1 .. (Len(r) + 1) - 1)
      BY <1>1
    <3> QED
      BY <1>2, <2>1, <3>1
  <2> QED
    BY <2>2, <2>3 DEF Alive
<1> QED
  BY <1>3, <1>4 DEF Alive

\* What was allocated in ops is.
LEMMA AliveInside ==
    ASSUME NEW r, NEW n, NEW ops, Appends(r, n, ops), NEW L, NEW c,
           NEW m \in 1 .. Len(ops) + 1, Alive(ops, c, m, {})
    PROVE  Alive(n, c, Len(r) + m, L)
<1>1. Len(r) \in Nat /\ Len(ops) \in Nat /\ Len(n) = Len(r) + Len(ops) /\ m \in Nat
  BY DEF Appends
<1>2. PICK k \in 1 .. m - 1 : /\ IsOp(ops[k], "alloc", c)
                              /\ \A j \in k + 1 .. m - 1 : ~IsOp(ops[j], "free", c)
  BY DEF Alive
<1>3. PICK kk \in Nat : kk = Len(r) + k
  BY <1>1
<1>4. kk \in 1 .. (Len(r) + m) - 1 /\ IsOp(n[kk], "alloc", c)
  <2>1. k \in 1 .. Len(ops) /\ kk \in 1 .. (Len(r) + m) - 1
    BY <1>1, <1>3
  <2> QED
    BY <1>2, <1>3, <2>1 DEF Appends
<1>5. ASSUME NEW j \in kk + 1 .. (Len(r) + m) - 1
      PROVE  ~IsOp(n[j], "free", c)
  <2>1. j \in 1 .. Len(n) /\ j - Len(r) \in k + 1 .. m - 1 /\ j \notin 1 .. Len(r)
    BY <1>1, <1>3
  <2>2. n[j] = ops[j - Len(r)]
    BY <2>1, AppendsOldOrNew
  <2> QED
    BY <1>2, <2>1, <2>2
<1> QED
  BY <1>4, <1>5 DEF Alive

\* Operations that use what is allocated can be put after such operations.
LEMMA UsesAppended ==
    ASSUME NEW r, NEW n, NEW ops, Appends(r, n, ops), NEW L, UsesAlive(r, L),
           \A m \in 1 .. Len(ops) : \A c \in Calls : Uses(ops[m], c) =>
               \/ Alive(ops, c, m, {})
               \/ /\ Alive(r, c, Len(r) + 1, L)
                  /\ \A k \in 1 .. m - 1 : ~IsOp(ops[k], "free", c)
    PROVE  UsesAlive(n, L)
<1> SUFFICES ASSUME NEW i \in 1 .. Len(n), NEW c \in Calls, Uses(n[i], c)
             PROVE  Alive(n, c, i, L)
  BY DEF UsesAlive
<1>1. Len(r) \in Nat /\ Len(ops) \in Nat
  BY DEF Appends
<1>2. CASE i \in 1 .. Len(r) /\ n[i] = r[i]
  <2>1. Alive(r, c, i, L) /\ i \in 1 .. Len(r) + 1
    BY <1>1, <1>2 DEF UsesAlive
  <2> QED
    BY <2>1, AliveAppended
<1>3. CASE i - Len(r) \in 1 .. Len(ops) /\ n[i] = ops[i - Len(r)] /\ i = Len(r) + (i - Len(r))
  <2>1. PICK m \in 1 .. Len(ops) : i = Len(r) + m /\ n[i] = ops[m]
    BY <1>3
  <2>2. m \in 1 .. Len(ops) + 1 /\ Uses(ops[m], c)
    BY <1>1, <2>1
  <2>3. CASE Alive(ops, c, m, {})
    BY <2>1, <2>2, <2>3, AliveInside
  <2>4. CASE /\ Alive(r, c, Len(r) + 1, L)
             /\ \A k \in 1 .. m - 1 : ~IsOp(ops[k], "free", c)
    BY <2>1, <2>2, <2>4, AliveStays
  <2> QED
    BY <2>2, <2>3, <2>4
<1> QED
  BY <1>2, <1>3, AppendsOldOrNew

-----------------------------------------------------------------------------
(* What the host's steps put on the tape, or on the main stream.           *)

Line == IF Capturing THEN tape ELSE M
Start == IF Capturing THEN {} ELSE live

\* ops goes to the tape during a capture and to the main stream otherwise.
OnLine(ops) ==
    /\ ops \in Seq(Operations)
    /\ Capturing' <=> Capturing
    /\ Appends(Line, Line', ops)
    /\ Capturing => M' = M
    /\ UNCHANGED <<live, content, stable, graph>>

OnMain(ops) ==
    /\ OnLine(ops)
    /\ Grows(Main, Put(Main, ops))
    /\ \A i \in 1 .. Len(Put(Main, ops)) : i \in 1 .. Len(ops) /\ Put(Main, ops)[i] = ops[i]

LEMMA GrowsAppends ==
    ASSUME queue \in [Streams -> Seq(Operations)], NEW s \in Streams, NEW ops, Grows(s, ops)
    PROVE  Appends(queue[s], queue'[s], ops)
<1>1. Len(queue[s]) \in Nat
  BY QueueLengths
<1> QED
  BY <1>1 DEF Grows, Appends

LEMMA AppendsNothing ==
    ASSUME NEW r, Len(r) \in Nat
    PROVE  Appends(r, r, <<>>)
<1>1. Len(<<>>) = 0
  BY EmptySeq
<1> QED
  BY <1>1 DEF Appends

LEMMA EnqueuedOnLine ==
    ASSUME Ordered, NEW ops \in Seq(Operations), Capturing => ops \in Seq(CallOperations),
           Enqueue(Main, ops), UNCHANGED <<live, content, stable, graph>>
    PROVE  OnMain(ops)
<1>1. /\ Shape /\ queue \in [Streams -> Seq(Operations)] /\ Main \in Streams
      /\ Capturing => tape \in Seq(CallOperations)
  BY OrderedParts, MainIsAStream DEF HostOK, HostShape, Capturing
<1>2. /\ Grows(Main, Put(Main, ops))
      /\ \A i \in 1 .. Len(Put(Main, ops)) :
             i \in 1 .. Len(ops) /\ Put(Main, ops)[i] = ops[i]
      /\ Capturing' <=> Capturing
      /\ Capturing => queue' = queue /\ tape' = tape \o ops
      /\ ~Capturing => tape' = tape /\ Put(Main, ops) = ops
  BY <1>1, EnqueuedOnMain
<1>3. ASSUME Capturing
      PROVE  Appends(Line, Line', ops)
  <2>1. Appends(tape, tape \o ops, ops)
    BY <1>1, <1>3, Concatenated DEF Appends
  <2>2. Line = tape /\ Line' = tape'
    BY <1>2, <1>3 DEF Line
  <2> QED
    BY <1>2, <1>3, <2>1, <2>2
<1>4. ASSUME ~Capturing
      PROVE  Appends(Line, Line', ops)
  <2>1. Appends(queue[Main], queue'[Main], ops)
    BY <1>1, <1>2, <1>4, GrowsAppends
  <2>2. Line = queue[Main] /\ Line' = queue'[Main]
    BY <1>2, <1>4 DEF Line, M
  <2> QED
    BY <2>1, <2>2
<1> QED
  BY <1>2, <1>3, <1>4 DEF OnMain, OnLine, M

LEMMA OneOnLine ==
    ASSUME Ordered, NEW o \in CallOperations, Enqueue(Main, <<o>>),
           UNCHANGED <<live, content, stable, graph>>
    PROVE  OnMain(<<o>>) /\ Len(<<o>>) = 1 /\ \A i \in 1 .. Len(<<o>>) : i = 1 /\ <<o>>[i] = o
<1>1. o \in Operations
  BY CallOperationFields
<1>2. /\ <<o>> \in Seq(Operations) /\ <<o>> \in Seq(CallOperations)
      /\ Len(<<o>>) = 1 /\ <<o>>[1] = o
  BY <1>1, Singleton
<1>3. \A i \in 1 .. 1 : i = 1
  OBVIOUS
<1> QED
  BY <1>2, <1>3, EnqueuedOnLine

\* Call c goes from one step to another, the others stay where they are.
Moves(c, from, to) ==
    /\ call[c].step = from /\ call'[c].step = to
    /\ \A d \in Calls \ {c} : call'[d] = call[d]

LEMMA CallMoves ==
    ASSUME Ordered, NEW c \in Calls, NEW from, NEW to, call[c].step = from,
           call' = [call EXCEPT ![c].step = to]
    PROVE  Moves(c, from, to) /\ call'[c].n = call[c].n /\ (call'[c].ok <=> call[c].ok)
<1>1. call \in [Calls -> CallType]
  BY OrderedParts
<1> QED
  BY <1>1 DEF Moves, CallType

LEMMA BeginParts ==
    ASSUME Ordered, NEW c \in Calls, Begin(c)
    PROVE  /\ OnMain(<<Alloc(c)>>) /\ Moves(c, "new", "lock") /\ dropped' = dropped
           /\ Len(<<Alloc(c)>>) = 1
           /\ \A i \in 1 .. Len(<<Alloc(c)>>) : i = 1 /\ IsOp(<<Alloc(c)>>[i], "alloc", c)
           /\ UNCHANGED <<version, recorded, replays, replayed>>
<1>1. /\ Enqueue(Main, <<Alloc(c)>>) /\ call[c].step = "new"
      /\ call' = [call EXCEPT ![c].step = "lock"]
      /\ UNCHANGED <<dropped, version, recorded, live, content, stable, graph, replays, replayed>>
  BY DEF Begin, events, launches, device
<1>2. Alloc(c) \in CallOperations /\ IsOp(Alloc(c), "alloc", c)
  BY CallOps, OrderedParts
<1>3. OnMain(<<Alloc(c)>>) /\ Len(<<Alloc(c)>>) = 1
      /\ \A i \in 1 .. Len(<<Alloc(c)>>) : i = 1 /\ <<Alloc(c)>>[i] = Alloc(c)
  BY <1>1, <1>2, OneOnLine
<1> QED
  BY <1>1, <1>2, <1>3, CallMoves

LEMMA LaunchParts ==
    ASSUME Ordered, NEW c \in Calls, Launch(c)
    PROVE  /\ OnMain(<<Decode(c)>>) /\ Moves(c, "launch", "end") /\ dropped' = dropped
           /\ Len(<<Decode(c)>>) = 1 /\ call'[c].ok
           /\ \A i \in 1 .. Len(<<Decode(c)>>) : i = 1 /\ IsOp(<<Decode(c)>>[i], "decode", c)
           /\ UNCHANGED <<version, recorded, replays, replayed>>
<1>1. /\ Enqueue(Main, <<Decode(c)>>) /\ call[c].step = "launch"
      /\ call' = [call EXCEPT ![c].step = "end", ![c].ok = TRUE]
      /\ UNCHANGED <<dropped, version, recorded, live, content, stable, graph, replays, replayed>>
  BY DEF Launch, CallStream, events, launches, device
<1>2. Decode(c) \in CallOperations /\ IsOp(Decode(c), "decode", c)
  BY CallOps, OrderedParts
<1>3. OnMain(<<Decode(c)>>) /\ Len(<<Decode(c)>>) = 1
      /\ \A i \in 1 .. Len(<<Decode(c)>>) : i = 1 /\ <<Decode(c)>>[i] = Decode(c)
  BY <1>1, <1>2, OneOnLine
<1>4. Moves(c, "launch", "end") /\ call'[c].ok
  BY <1>1, OrderedParts DEF Moves, CallType
<1> QED
  BY <1>1, <1>2, <1>3, <1>4

LEMMA DropOutputParts ==
    ASSUME Ordered, NEW c \in Calls, DropOutput(c)
    PROVE  /\ OnMain(<<Free(c)>>) /\ Moves(c, "ok", "dropped") /\ dropped' = dropped
           /\ Len(<<Free(c)>>) = 1
           /\ \A i \in 1 .. Len(<<Free(c)>>) : i = 1 /\ IsOp(<<Free(c)>>[i], "free", c)
           /\ Capturing => Has(tape, c, "copy")
           /\ UNCHANGED <<version, recorded, replays, replayed>>
<1>1. /\ Enqueue(Main, <<Free(c)>>) /\ call[c].step = "ok"
      /\ Capturing => Copy(c) \in ToSet(tape)
      /\ call' = [call EXCEPT ![c].step = "dropped"]
      /\ UNCHANGED <<dropped, version, recorded, live, content, stable, graph, replays, replayed>>
  BY DEF DropOutput, events, launches, device
<1>2. Free(c) \in CallOperations /\ IsOp(Free(c), "free", c)
  BY CallOps, OrderedParts
<1>3. OnMain(<<Free(c)>>) /\ Len(<<Free(c)>>) = 1
      /\ \A i \in 1 .. Len(<<Free(c)>>) : i = 1 /\ <<Free(c)>>[i] = Free(c)
  BY <1>1, <1>2, OneOnLine
<1>4. ASSUME Capturing
      PROVE  Has(tape, c, "copy")
  <2>1. tape \in Seq(CallOperations) /\ Copy(c).op = "copy" /\ Copy(c).buf = c
    BY <1>4, OrderedParts DEF HostOK, HostShape, Capturing, Copy
  <2>2. DOMAIN tape = 1 .. Len(tape)
    BY <2>1, LenProperties
  <2> QED
    BY <1>1, <1>4, <2>1, <2>2 DEF ToSet, Has, IsOp
<1> QED
  BY <1>1, <1>2, <1>3, <1>4, CallMoves

LEMMA CopyOutParts ==
    ASSUME Ordered, NEW c \in Calls, CopyOut(c)
    PROVE  /\ OnMain(<<Copy(c)>>) /\ call' = call /\ dropped' = dropped
           /\ Len(<<Copy(c)>>) = 1
           /\ \A i \in 1 .. Len(<<Copy(c)>>) : i = 1 /\ IsOp(<<Copy(c)>>[i], "copy", c)
           /\ Capturing /\ call[c].step = "ok"
           /\ UNCHANGED <<version, recorded, replays, replayed>>
<1>1. /\ Enqueue(Main, <<Copy(c)>>) /\ Capturing /\ call[c].step = "ok"
      /\ UNCHANGED <<call, dropped, version, recorded, live, content, stable, graph,
                     replays, replayed>>
  BY DEF CopyOut, calls, events, launches, device
<1>2. Copy(c) \in CallOperations /\ IsOp(Copy(c), "copy", c)
  BY CallOps, OrderedParts
<1>3. OnMain(<<Copy(c)>>) /\ Len(<<Copy(c)>>) = 1
      /\ \A i \in 1 .. Len(<<Copy(c)>>) : i = 1 /\ <<Copy(c)>>[i] = Copy(c)
  BY <1>1, <1>2, OneOnLine
<1> QED
  BY <1>1, <1>2, <1>3

LEMMA ReturnParts ==
    ASSUME Ordered, NEW c \in Calls, Return(c)
    PROVE  /\ \E ops \in Seq(Operations) :
                  /\ OnMain(ops)
                  /\ \A m \in 1 .. Len(ops) :
                         \/ ops[m].op = "record"
                         \/ ~call[c].ok /\ m = Len(ops) /\ IsOp(ops[m], "free", c)
           /\ Moves(c, "end", IF call[c].ok THEN "ok" ELSE "err") /\ (call'[c].ok <=> call[c].ok)
           /\ UNCHANGED <<dropped, version, replays, replayed>>
<1> DEFINE r == Record(Guarded(c), "read")
           f == IF call[c].ok THEN <<>> ELSE <<Free(c)>>
           ops == r \o f
           st == IF call[c].ok THEN "ok" ELSE "err"
<1>1. /\ call[c].step = "end" /\ Enqueue(Main, ops)
      /\ call' = [call EXCEPT ![c].step = st]
      /\ UNCHANGED <<dropped, version, graph, replays, replayed, live, content, stable>>
  BY DEF Return, CallStream, launches, device
<1>2. /\ recorded \in [Inputs -> [Kinds -> Nat]] /\ (Capturing => ~tracking)
      /\ Guarded(c) \in SUBSET Inputs /\ "read" \in Kinds
  <2>1. call[c].n \in 0 .. Len(Reads[c])
    BY OrderedParts
  <2> QED
    BY <2>1, OrderedParts, ReadsAreInputs DEF Guarded, Kinds
<1>3. /\ r \in Seq(Operations)
      /\ \A i \in 1 .. Len(r) : r[i].op = "record"
      /\ ~tracking => r = <<>>
  BY <1>2, RecordOps
<1>4. /\ f \in Seq(CallOperations) /\ f \in Seq(Operations)
      /\ \A i \in 1 .. Len(f) : ~call[c].ok /\ i = 1 /\ Len(f) = 1 /\ IsOp(f[i], "free", c)
  <2>1. /\ Free(c) \in CallOperations /\ Free(c) \in Operations /\ IsOp(Free(c), "free", c)
    BY CallOps, OrderedParts, CallOperationFields
  <2>2. /\ <<Free(c)>> \in Seq(CallOperations) /\ <<Free(c)>> \in Seq(Operations)
        /\ Len(<<Free(c)>>) = 1 /\ <<Free(c)>>[1] = Free(c)
    BY <2>1, Singleton
  <2>3. \A i \in 1 .. 1 : i = 1
    OBVIOUS
  <2>4. CASE call[c].ok
    BY <2>4, EmptySeq
  <2>5. CASE ~call[c].ok
    <3>1. f = <<Free(c)>>
      BY <2>5
    <3> QED
      BY <2>1, <2>2, <2>3, <2>5, <3>1
  <2> QED
    BY <2>4, <2>5
<1>5. Moves(c, "end", st) /\ (call'[c].ok <=> call[c].ok)
  <2> HIDE DEF st
  <2> QED
    BY <1>1, CallMoves
<1> HIDE DEF r, f
<1>6. /\ ops \in Seq(Operations)
      /\ Len(r) \in Nat /\ Len(f) \in Nat /\ Len(ops) = Len(r) + Len(f)
      /\ \A i \in 1 .. Len(r) : ops[i] = r[i]
      /\ \A i \in 1 .. Len(f) : ops[Len(r) + i] = f[i]
  BY <1>3, <1>4, Concatenated
<1>7. Capturing => ops \in Seq(CallOperations)
  <2>1. Capturing => r \in Seq(CallOperations)
    BY <1>2, <1>3, EmptySeq
  <2> QED
    BY <1>4, <2>1, Concatenated
<1> HIDE DEF ops
<1>8. OnMain(ops)
  BY <1>1, <1>6, <1>7, EnqueuedOnLine
<1>9. ASSUME NEW m \in 1 .. Len(ops)
      PROVE  \/ ops[m].op = "record"
             \/ ~call[c].ok /\ m = Len(ops) /\ IsOp(ops[m], "free", c)
  <2>1. CASE m \in 1 .. Len(r)
    BY <1>3, <1>6, <2>1
  <2>2. CASE m \notin 1 .. Len(r)
    <3>1. m - Len(r) \in 1 .. Len(f) /\ m = Len(r) + (m - Len(r))
      BY <1>6, <2>2
    <3>2. ops[m] = f[m - Len(r)]
      BY <1>6, <3>1
    <3>3. m - Len(r) = 1 /\ Len(f) = 1 /\ ~call[c].ok /\ IsOp(ops[m], "free", c)
      BY <1>4, <3>1, <3>2
    <3> QED
      BY <1>6, <3>3
  <2> QED
    BY <2>1, <2>2
<1> QED
  BY <1>1, <1>5, <1>6, <1>8, <1>9

LEMMA DropInputParts ==
    ASSUME Ordered, NEW b \in Inputs, DropInput(b)
    PROVE  /\ ~Capturing
           /\ \E ops \in Seq(Operations) :
                  /\ OnMain(ops) /\ Len(ops) \in Nat /\ Len(ops) >= 1
                  /\ \A m \in 1 .. Len(ops) :
                         \/ m < Len(ops) /\ ops[m].op = "wait"
                         \/ m = Len(ops) /\ IsOp(ops[m], "free", b)
                  /\ IsOp(ops[Len(ops)], "free", b)
                  /\ tracking /\ recorded[b]["write"] > 0 =>
                         Len(ops) = 2 /\ <<b, "write", recorded[b]["write"]>> \in ops[1].events
           /\ b \notin dropped /\ dropped' = dropped \cup {b}
           /\ \A c \in Calls : b \in ReadsOf(c) => Idle(c)
           /\ graph # None => \A c \in Calls : Copy(c) \in ToSet(graph) => b \notin ReadsOf(c)
           /\ UNCHANGED <<call, version, recorded, replays, replayed>>
<1> DEFINE w == Wait({b}, Kinds)
           ops == w \o <<Free(b)>>
<1>1. /\ ~Capturing /\ Enqueue(Main, ops)
      /\ b \notin dropped /\ dropped' = dropped \cup {b}
      /\ \A c \in Calls : b \in ReadsOf(c) => Idle(c)
      /\ graph # None => \A c \in Calls : Copy(c) \in ToSet(graph) => b \notin ReadsOf(c)
      /\ UNCHANGED <<call, version, recorded, graph, replays, replayed, live, content, stable>>
  BY DEF DropInput, calls, events, launches, device
<1>2. /\ recorded \in [Inputs -> [Kinds -> Nat]]
      /\ Free(b) \in Operations /\ IsOp(Free(b), "free", b) /\ "write" \in Kinds
  BY InputOps, OrderedParts DEF Kinds
<1>3. /\ Len(w) \in Nat /\ ops \in Seq(Operations) /\ Len(ops) = Len(w) + 1
      /\ \A i \in 1 .. Len(w) : ops[i] = w[i] /\ w[i].op = "wait"
      /\ ops[Len(w) + 1] = Free(b)
      /\ \A k \in Kinds : tracking /\ recorded[b][k] > 0 =>
             Len(w) = 1 /\ <<b, k, recorded[b][k]>> \in w[1].events
  BY <1>2, WaitThen
<1> HIDE DEF w, ops
<1>4. OnMain(ops)
  BY <1>1, <1>3, EnqueuedOnLine
<1>5. ASSUME tracking, recorded[b]["write"] > 0
      PROVE  Len(ops) = 2 /\ <<b, "write", recorded[b]["write"]>> \in ops[1].events
  <2>1. Len(w) = 1 /\ <<b, "write", recorded[b]["write"]>> \in w[1].events
    BY <1>2, <1>3, <1>5
  <2>2. 1 \in 1 .. Len(w)
    BY <2>1
  <2> QED
    BY <1>3, <2>1, <2>2
<1>6. \A m \in 1 .. Len(ops) :
          \/ m < Len(ops) /\ ops[m].op = "wait"
          \/ m = Len(ops) /\ IsOp(ops[m], "free", b)
  BY <1>2, <1>3
<1>7. Len(ops) >= 1 /\ Len(ops) \in Nat /\ IsOp(ops[Len(ops)], "free", b)
  BY <1>2, <1>3
<1> QED
  BY <1>1, <1>3, <1>4, <1>5, <1>6, <1>7

LEMMA ReplayParts ==
    ASSUME Ordered, Replay
    PROVE  /\ ~Capturing /\ graph # None /\ graph \in Seq(CallOperations)
           /\ OnMain(ReplayedOps) /\ Len(graph) \in Nat /\ Len(ReplayedOps) = Len(graph)
           /\ \A i \in 1 .. Len(graph) :
                  /\ graph[i] \in CallOperations
                  /\ ReplayedOps[i].op = graph[i].op /\ ReplayedOps[i].buf = graph[i].buf
                  /\ graph[i].op = "decode" => ReplayedOps[i].given = version
           /\ replayed' = version
           /\ UNCHANGED <<call, dropped, version, recorded>>
<1>1. /\ graph # None /\ queue' = [queue EXCEPT ![Main] = @ \o ReplayedOps]
      /\ replayed' = version
      /\ UNCHANGED <<call, dropped, version, recorded, tape, graph, live, content, stable>>
  BY DEF Replay, ReplayedOps, calls, events, device
<1>2. graph \in Seq(CallOperations) /\ ~Capturing
  BY <1>1, OrderedParts DEF HostOK, HostShape, ModeOK
<1>3. /\ ReplayedOps \in Seq(Operations)
      /\ Len(graph) \in Nat /\ Len(ReplayedOps) = Len(graph)
      /\ \A i \in 1 .. Len(graph) :
             /\ graph[i] \in CallOperations
             /\ ReplayedOps[i].op = graph[i].op /\ ReplayedOps[i].buf = graph[i].buf
             /\ graph[i].op = "decode" => ReplayedOps[i].given = version
  BY <1>2, OrderedParts, ReplayedIsGraph
<1>4. Enqueue(Main, ReplayedOps)
  BY <1>1, <1>2 DEF Enqueue
<1>5. OnMain(ReplayedOps)
  BY <1>1, <1>2, <1>3, <1>4, EnqueuedOnLine
<1> QED
  BY <1>1, <1>2, <1>3, <1>5

-----------------------------------------------------------------------------
(* Steps that use no storage: they put waits, fills and records on a       *)
(* stream, and calls that hold an output go on holding it.                 *)

Neutral(ops) == \A m \in 1 .. Len(ops) : ops[m].op \in {"wait", "fill", "record"}

CallsGoOn ==
    \A c \in Calls :
        /\ call'[c].step \in Holding <=> call[c].step \in Holding
        /\ call'[c].step \in {"err", "dropped"} <=> call[c].step \in {"err", "dropped"}
        /\ call[c].step \in {"end", "ok"} =>
               call'[c].step \in {"end", "ok"} /\ (call'[c].ok <=> call[c].ok)
        /\ Launched(c)' => Launched(c)

GoesOn ==
    /\ \E ops \in Seq(Operations) : OnLine(ops) /\ Neutral(ops)
    /\ \E s \in Streams : \E ops \in Seq(Operations) : Grows(s, ops) /\ Neutral(ops)
    /\ CallsGoOn
    /\ UNCHANGED <<dropped, replays, replayed>>
    /\ version' \in [Inputs -> Nat] /\ \A b \in dropped : version'[b] = version[b]

LEMMA NotLaunched ==
    ASSUME Ordered, NEW c \in Calls, call[c].step \notin {"end", "ok", "dropped"}
    PROVE  ~call[c].ok
BY DEF Ordered, CallsOK

LEMMA CallsGoOnAlong ==
    ASSUME Ordered, NEW c \in Calls, NEW from, NEW to, Moves(c, from, to),
           \/ from \in {"lock", "point", "launch"} /\ to \in {"lock", "point", "launch", "end"}
           \/ from = "end" /\ to = "ok",
           call'[c].ok <=> call[c].ok
    PROVE  CallsGoOn
<1>1. \A d \in Calls \ {c} : call'[d] = call[d]
  BY DEF Moves
<1>2. CASE from \in {"lock", "point", "launch"}
  <2>1. ~call'[c].ok
    BY <1>2, NotLaunched DEF Moves
  <2> QED
    BY <1>1, <1>2, <2>1 DEF CallsGoOn, Launched, Moves, Holding, Active
<1>3. CASE from = "end" /\ to = "ok"
  BY <1>1, <1>3 DEF CallsGoOn, Launched, Moves, Holding, Active
<1> QED
  BY <1>2, <1>3

LEMMA NothingOnLine ==
    ASSUME Ordered, UNCHANGED <<queue, tape, live, content, stable, graph>>
    PROVE  /\ \E ops \in Seq(Operations) : OnLine(ops) /\ Neutral(ops)
           /\ \E s \in Streams : \E ops \in Seq(Operations) : Grows(s, ops) /\ Neutral(ops)
<1>1. queue \in [Streams -> Seq(Operations)] /\ Main \in Streams
  BY OrderedParts, MainIsAStream
<1>2. <<>> \in Seq(Operations) /\ Neutral(<<>>)
  BY EmptySeq DEF Neutral
<1>3. Grows(Main, <<>>)
  BY <1>1, GrowsNot
<1>4. Len(Line) \in Nat
  <2>1. Capturing => tape \in Seq(CallOperations)
    BY OrderedParts DEF HostOK, HostShape, Capturing
  <2>2. Capturing => Len(tape) \in Nat
    BY <2>1, LenProperties
  <2>3. Len(queue[Main]) \in Nat
    BY <1>1, QueueLengths
  <2> QED
    BY <2>2, <2>3 DEF Line, M
<1>5. Line' = Line /\ M' = M /\ (Capturing' <=> Capturing)
  BY DEF Line, M, Capturing
<1>6. OnLine(<<>>)
  <2>1. Appends(Line, Line', <<>>)
    BY <1>4, <1>5, AppendsNothing
  <2> QED
    BY <1>2, <1>5, <2>1 DEF OnLine
<1> QED
  BY <1>1, <1>2, <1>3, <1>6

LEMMA StutterGoesOn ==
    ASSUME Ordered, UNCHANGED vars
    PROVE  GoesOn
<1>1. UNCHANGED <<call, queue, tape, live, content, stable, graph, dropped, replays, replayed, version>>
  BY DEF vars, calls, events, graphs, launches, device
<1>2. CallsGoOn
  BY <1>1 DEF CallsGoOn, Launched
<1>3. version \in [Inputs -> Nat]
  BY OrderedParts
<1> QED
  BY <1>1, <1>2, <1>3, NothingOnLine DEF GoesOn

LEMMA LockGoesOn ==
    ASSUME Ordered, NEW c \in Calls, Lock(c)
    PROVE  GoesOn
<1>1. /\ call[c].step = "lock"
      /\ UNCHANGED <<queue, tape, live, content, stable, graph, dropped, replays, replayed, version>>
  BY DEF Lock, events, graphs, launches, device
<1>2. PICK to \in {"lock", "point"} : Moves(c, "lock", to) /\ (call'[c].ok <=> call[c].ok)
  <2>1. call \in [Calls -> CallType]
    BY OrderedParts
  <2>2. \/ call' = [call EXCEPT ![c] = [@ EXCEPT !.step = "point", !.n = 0]]
        \/ call' = [call EXCEPT ![c] = [@ EXCEPT !.n = call[c].n + 1]]
    BY DEF Lock
  <2> QED
    BY <1>1, <2>1, <2>2 DEF Moves, CallType
<1>3. CallsGoOn
  BY <1>2, CallsGoOnAlong
<1>4. version \in [Inputs -> Nat]
  BY OrderedParts
<1> QED
  BY <1>1, <1>3, <1>4, NothingOnLine DEF GoesOn

LEMMA LaunchFailsGoesOn ==
    ASSUME Ordered, NEW c \in Calls, LaunchFails(c)
    PROVE  GoesOn
<1>1. /\ call[c].step = "launch" /\ call' = [call EXCEPT ![c].step = "end"]
      /\ UNCHANGED <<queue, tape, live, content, stable, graph, dropped, replays, replayed, version>>
  BY DEF LaunchFails, events, graphs, launches, device
<1>2. Moves(c, "launch", "end") /\ (call'[c].ok <=> call[c].ok)
  BY <1>1, CallMoves
<1>3. CallsGoOn
  BY <1>2, CallsGoOnAlong
<1>4. version \in [Inputs -> Nat]
  BY OrderedParts
<1> QED
  BY <1>1, <1>3, <1>4, NothingOnLine DEF GoesOn

LEMMA RefillBeginGoesOn ==
    ASSUME Ordered, NEW b \in Inputs, NEW s \in Streams, RefillBegin(b, s)
    PROVE  GoesOn
<1>1. UNCHANGED <<call, queue, tape, live, content, stable, graph, dropped, replays, replayed, version>>
  BY DEF RefillBegin, calls, events, graphs, launches, device
<1>2. CallsGoOn
  BY <1>1 DEF CallsGoOn, Launched
<1>3. version \in [Inputs -> Nat]
  BY OrderedParts
<1> QED
  BY <1>1, <1>2, <1>3, NothingOnLine DEF GoesOn

LEMMA OnMainGoesOn ==
    ASSUME Ordered, NEW ops \in Seq(Operations), OnMain(ops), Neutral(ops), CallsGoOn,
           UNCHANGED <<dropped, version, replays, replayed>>
    PROVE  GoesOn
<1>1. Grows(Main, Put(Main, ops)) /\ Neutral(Put(Main, ops)) /\ OnLine(ops)
  BY DEF OnMain, Neutral
<1>2. Put(Main, ops) \in Seq(Operations)
  BY EmptySeq DEF Put
<1>3. version \in [Inputs -> Nat] /\ Main \in Streams
  BY OrderedParts, MainIsAStream
<1> QED
  BY <1>1, <1>2, <1>3 DEF GoesOn

LEMMA PointGoesOn ==
    ASSUME Ordered, NEW c \in Calls, NEW n \in 0 .. Len(Reads[c]), Point(c, n)
    PROVE  GoesOn
<1> DEFINE ops == Wait(FirstReads(c, n), {"write"})
           to == IF n = Len(Reads[c]) THEN "launch" ELSE "end"
<1>1. /\ call[c].step = "point" /\ Enqueue(Main, ops)
      /\ call' = [call EXCEPT ![c].n = n, ![c].step = to]
      /\ UNCHANGED <<live, content, stable, graph, dropped, replays, replayed, version>>
  BY DEF Point, CallStream, events, launches, device
<1>2. /\ FirstReads(c, n) \in SUBSET Inputs /\ {"write"} \in SUBSET Kinds
      /\ recorded \in [Inputs -> [Kinds -> Nat]] /\ (Capturing => ~tracking)
      /\ to \in {"launch", "end"}
  BY ReadsAreInputs, OrderedParts DEF Kinds
<1>3. /\ ops \in Seq(Operations)
      /\ \A i \in 1 .. Len(ops) : ops[i].op = "wait"
      /\ ~tracking => ops = <<>>
  BY <1>2, WaitOps
<1>4. Moves(c, "point", to) /\ (call'[c].ok <=> call[c].ok)
  <2> HIDE DEF to
  <2>1. call \in [Calls -> CallType]
    BY OrderedParts
  <2> QED
    BY <1>1, <2>1 DEF Moves, CallType
<1> HIDE DEF ops, to
<1>5. Capturing => ops \in Seq(CallOperations)
  BY <1>2, <1>3, EmptySeq
<1>6. OnMain(ops)
  BY <1>1, <1>3, <1>5, EnqueuedOnLine
<1>7. CallsGoOn
  BY <1>2, <1>4, CallsGoOnAlong
<1> QED
  BY <1>1, <1>3, <1>6, <1>7, OnMainGoesOn DEF Neutral

LEMMA ReturnGoesOn ==
    ASSUME Ordered, NEW c \in Calls, Return(c), call[c].ok
    PROVE  GoesOn
<1>1. PICK ops \in Seq(Operations) :
          OnMain(ops) /\ \A m \in 1 .. Len(ops) : ops[m].op = "record"
  BY ReturnParts
<1>2. /\ Moves(c, "end", "ok") /\ (call'[c].ok <=> call[c].ok)
      /\ UNCHANGED <<dropped, version, replays, replayed>>
  BY ReturnParts
<1>3. CallsGoOn
  BY <1>2, CallsGoOnAlong
<1> QED
  BY <1>1, <1>2, <1>3, OnMainGoesOn DEF Neutral

LEMMA RefillGoesOn ==
    ASSUME Ordered, NEW b \in Inputs, Refill(b)
    PROVE  GoesOn
<1> DEFINE w == Wait({b}, Kinds)
           wf == w \o <<Fill(b)>>
           r == Record({b}, "write")
           ops == wf \o r
<1>0. PICK s \in Streams : s = writer[b]
  BY OrderedParts DEF Refill, HostOK, HostShape
<1>1. /\ Enqueue(s, ops) /\ version' = [version EXCEPT ![b] = @ + 1]
      /\ UNCHANGED <<call, live, content, stable, graph, dropped, replays, replayed>>
  BY <1>0 DEF Refill, calls, launches, device
<1>2. /\ queue \in [Streams -> Seq(Operations)] /\ recorded \in [Inputs -> [Kinds -> Nat]]
      /\ version \in [Inputs -> Nat] /\ ~Capturing /\ b \notin dropped /\ dropped \in SUBSET Inputs
      /\ {b} \in SUBSET Inputs /\ "write" \in Kinds
      /\ Fill(b) \in Operations /\ Fill(b).op = "fill"
  <2>1. writer[b] # None
    BY <1>0, GuardsAssumption
  <2> QED
    BY <2>1, OrderedParts, InputOps DEF HostOK, HostShape, ModeOK, Kinds, IsOp
<1>3. /\ wf \in Seq(Operations) /\ Len(w) \in Nat /\ Len(wf) = Len(w) + 1
      /\ \A i \in 1 .. Len(w) : wf[i] = w[i] /\ w[i].op = "wait"
      /\ wf[Len(w) + 1] = Fill(b)
  BY <1>2, WaitThen
<1>4. r \in Seq(Operations) /\ \A i \in 1 .. Len(r) : r[i].op = "record"
  BY <1>2, RecordOps
<1> HIDE DEF w, wf, r
<1>5. Neutral(wf) /\ Neutral(r)
  <2>1. \A m \in 1 .. Len(wf) : m \in 1 .. Len(w) \/ m = Len(w) + 1
    BY <1>3
  <2>2. Neutral(wf)
    BY <1>2, <1>3, <2>1 DEF Neutral
  <2>3. Neutral(r)
    BY <1>4 DEF Neutral
  <2> QED
    BY <2>2, <2>3
<1>d. /\ ops \in Seq(Operations)
      /\ Len(r) \in Nat /\ Len(ops) = Len(wf) + Len(r)
      /\ \A i \in 1 .. Len(wf) : ops[i] = wf[i]
      /\ \A i \in 1 .. Len(r) : ops[Len(wf) + i] = r[i]
  <2>1. wf \in Seq(Operations) /\ r \in Seq(Operations)
    BY <1>3, <1>4
  <2> QED
    BY <2>1, Concatenated
<1> HIDE DEF ops
<1>6. ops \in Seq(Operations) /\ Appends(wf, ops, r)
  BY <1>3, <1>d DEF Appends
<1>7. Neutral(ops)
  <2> SUFFICES ASSUME NEW m \in 1 .. Len(ops)
               PROVE  ops[m].op \in {"wait", "fill", "record"}
    BY DEF Neutral
  <2>1. CASE m \in 1 .. Len(wf) /\ ops[m] = wf[m]
    BY <1>5, <2>1 DEF Neutral
  <2>2. CASE m - Len(wf) \in 1 .. Len(r) /\ ops[m] = r[m - Len(wf)]
    BY <1>4, <2>2
  <2> QED
    BY <1>6, <2>1, <2>2, AppendsOldOrNew
<1>8. Grows(s, ops) /\ tape' = tape
  <2>1. Grows(s, Put(s, ops)) /\ Put(s, ops) = ops /\ tape' = tape
    BY <1>1, <1>2, <1>6, Enqueued
  <2> QED
    BY <2>1
<1>9. \E t \in Seq(Operations) : OnLine(t) /\ Neutral(t)
  <2>1. Line = queue[Main] /\ Line' = queue'[Main] /\ (Capturing' <=> Capturing)
    BY <1>2, <1>8 DEF Line, Capturing, M
  <2>2. CASE s = Main
    <3>1. Appends(queue[Main], queue'[Main], ops)
      BY <1>2, <1>8, <2>2, GrowsAppends
    <3>2. OnLine(ops)
      BY <1>1, <1>2, <1>6, <2>1, <3>1 DEF OnLine
    <3> QED
      BY <1>6, <1>7, <3>2
  <2>3. CASE s # Main
    <3>1. queue'[Main] = queue[Main] /\ Len(queue[Main]) \in Nat
      BY <1>2, <1>8, <2>3, MainIsAStream, QueueLengths DEF Grows
    <3>2. Appends(queue[Main], queue'[Main], <<>>)
      BY <3>1, AppendsNothing
    <3>3. <<>> \in Seq(Operations) /\ Neutral(<<>>)
      BY EmptySeq DEF Neutral
    <3>4. OnLine(<<>>)
      BY <1>1, <1>2, <2>1, <3>2, <3>3 DEF OnLine
    <3> QED
      BY <3>3, <3>4
  <2> QED
    BY <2>2, <2>3
<1>10. /\ version' \in [Inputs -> Nat]
       /\ \A d \in dropped : version'[d] = version[d]
  BY <1>1, <1>2
<1>11. CallsGoOn
  BY <1>1 DEF CallsGoOn, Launched
<1>12. \E t \in Streams : \E u \in Seq(Operations) : Grows(t, u) /\ Neutral(u)
  BY <1>6, <1>7, <1>8
<1> QED
  BY <1>1, <1>9, <1>10, <1>11, <1>12 DEF GoesOn

-----------------------------------------------------------------------------
(* What is on the tape and in the graph.                                   *)

LEMMA HasAppended ==
    ASSUME NEW r, NEW n, NEW ops, Appends(r, n, ops), NEW c, NEW op
    PROVE  Has(n, c, op) <=> Has(r, c, op) \/ Has(ops, c, op)
<1>1. Len(r) \in Nat /\ Len(ops) \in Nat /\ Len(n) = Len(r) + Len(ops)
  BY DEF Appends
<1>2. ASSUME Has(n, c, op)
      PROVE  Has(r, c, op) \/ Has(ops, c, op)
  <2>1. PICK i \in 1 .. Len(n) : IsOp(n[i], op, c)
    BY <1>2 DEF Has
  <2>2. CASE i \in 1 .. Len(r) /\ n[i] = r[i]
    BY <2>1, <2>2 DEF Has
  <2>3. CASE i - Len(r) \in 1 .. Len(ops) /\ n[i] = ops[i - Len(r)]
    BY <2>1, <2>3 DEF Has
  <2> QED
    BY <2>2, <2>3, AppendsOldOrNew
<1>3. ASSUME Has(r, c, op)
      PROVE  Has(n, c, op)
  <2>1. PICK i \in 1 .. Len(r) : IsOp(r[i], op, c)
    BY <1>3 DEF Has
  <2>2. i \in 1 .. Len(n) /\ n[i] = r[i]
    BY <1>1 DEF Appends
  <2> QED
    BY <2>1, <2>2 DEF Has
<1>4. ASSUME Has(ops, c, op)
      PROVE  Has(n, c, op)
  <2>1. PICK i \in 1 .. Len(ops) : IsOp(ops[i], op, c)
    BY <1>4 DEF Has
  <2>2. PICK k \in Nat : k = Len(r) + i
    BY <1>1
  <2>3. k \in 1 .. Len(n) /\ n[k] = ops[i]
    BY <1>1, <2>2 DEF Appends
  <2> QED
    BY <2>1, <2>3 DEF Has
<1> QED
  BY <1>2, <1>3, <1>4

LEMMA TapeIs ==
    ASSUME Ordered, Capturing
    PROVE  /\ tape \in Seq(CallOperations) /\ Line = tape /\ Len(tape) \in Nat
           /\ \A i \in 1 .. Len(tape) : tape[i] \in CallOperations /\ tape[i].buf \in Calls
<1>1. tape \in Seq(CallOperations)
  BY OrderedParts DEF HostOK, HostShape, Capturing
<1>2. Len(tape) \in Nat /\ \A i \in 1 .. Len(tape) : tape[i] \in CallOperations
  BY <1>1, ElementOfSeq, LenProperties
<1> QED
  BY <1>1, <1>2, CallOperationFields DEF Line

LEMMA GraphIs ==
    ASSUME Ordered, graph # None
    PROVE  /\ graph \in Seq(CallOperations) /\ Len(graph) \in Nat /\ ~Capturing
           /\ \A i \in 1 .. Len(graph) : graph[i] \in CallOperations /\ graph[i].buf \in Calls
<1>1. graph \in Seq(CallOperations) /\ ~Capturing
  BY OrderedParts DEF HostOK, HostShape, ModeOK
<1>2. Len(graph) \in Nat /\ \A i \in 1 .. Len(graph) : graph[i] \in CallOperations
  BY <1>1, ElementOfSeq, LenProperties
<1> QED
  BY <1>1, <1>2, CallOperationFields

\* Nothing is waited for, filled or recorded on the tape.
LEMMA NeutralOnTape ==
    ASSUME Ordered, Ordered', Capturing, NEW ops \in Seq(Operations), OnLine(ops), Neutral(ops)
    PROVE  Len(ops) = 0
<1>1. Len(tape) \in Nat /\ Line = tape
  BY TapeIs
<1>2. Capturing' /\ Appends(tape, tape', ops)
  BY <1>1 DEF OnLine, Line
<1>3. tape' \in Seq(CallOperations)
  BY <1>2, OrderedParts DEF Ordered, Shape, HostShape, Capturing
<1>4. /\ Len(ops) \in Nat /\ Len(tape') = Len(tape) + Len(ops)
      /\ \A m \in 1 .. Len(ops) : tape'[Len(tape) + m] = ops[m]
  BY <1>2 DEF Appends
<1> SUFFICES ASSUME Len(ops) # 0
             PROVE  FALSE
  OBVIOUS
<1>5. 1 \in 1 .. Len(ops) /\ Len(tape) + 1 \in 1 .. Len(tape')
  BY <1>1, <1>4
<1>6. tape'[Len(tape) + 1] = ops[1]
  BY <1>4, <1>5
<1>7. ops[1] \in CallOperations
  <2>1. \A k \in 1 .. Len(tape') : tape'[k] \in CallOperations
    BY <1>3, ElementOfSeq
  <2> QED
    BY <1>5, <1>6, <2>1
<1>8. ops[1].op \in {"wait", "fill", "record"}
  BY <1>5 DEF Neutral
<1> QED
  BY <1>7, <1>8, CallOperationFields

LEMMA RecordNotOnTape ==
    ASSUME Ordered, Ordered', Capturing, NEW ops, OnLine(ops), NEW m \in 1 .. Len(ops)
    PROVE  ops[m].op # "record"
<1>1. Len(tape) \in Nat /\ Line = tape
  BY TapeIs
<1>2. Capturing' /\ Appends(tape, tape', ops)
  BY <1>1 DEF OnLine, Line
<1>3. tape' \in Seq(CallOperations)
  BY <1>2, OrderedParts DEF Ordered, Shape, HostShape, Capturing
<1>4. Len(tape) + m \in 1 .. Len(tape') /\ tape'[Len(tape) + m] = ops[m]
  BY <1>1, <1>2 DEF Appends
<1>5. ops[m] \in CallOperations
  BY <1>3, <1>4, ElementOfSeq
<1> QED
  BY <1>5, CallOperationFields

\* A capture goes on.
LEMMA TapeGrows ==
    ASSUME Ordered, TapeOK, Capturing, NEW ops \in Seq(Operations), OnLine(ops),
           dropped' = dropped,
           \A c \in Calls : call[c].step # "new" => call'[c].step # "new",
           \A m \in 1 .. Len(ops) : call'[ops[m].buf].step # "new",
           \A c \in Calls : Has(ops, c, "decode") => ReadsOf(c) \cap dropped = {},
           \A c \in Calls : Has(ops, c, "decode") => ~Has(tape, c, "free") /\ ~Has(ops, c, "free"),
           \A c \in Calls : Has(ops, c, "free") /\ Has(tape, c, "decode") => Has(tape, c, "copy"),
           \A c \in Calls : Has(ops, c, "copy") => Has(tape, c, "decode"),
           \A c \in Calls : Launched(c)' => Has(tape, c, "decode") \/ Has(ops, c, "decode"),
           \A c \in Calls : Has(tape, c, "decode") \/ Has(ops, c, "decode") =>
               Launched(c)' \/ Has(tape, c, "free") \/ Has(ops, c, "free"),
           \A c \in Calls : Has(tape, c, "free") \/ Has(ops, c, "free") =>
               call'[c].step \in {"err", "dropped"}
    PROVE  TapeOK'
<1>1. /\ Len(tape) \in Nat /\ Line = tape
      /\ \A i \in 1 .. Len(tape) : tape[i].buf \in Calls
  BY TapeIs
<1>2. Capturing' /\ Appends(tape, tape', ops)
  BY <1>1 DEF OnLine, Line
<1>3. \A c \in Calls : \A op : Has(tape', c, op) <=> Has(tape, c, op) \/ Has(ops, c, op)
  BY <1>2, HasAppended
<1>4. /\ Len(ops) \in Nat /\ Len(tape') = Len(tape) + Len(ops)
      /\ \A i \in 1 .. Len(tape) : tape'[i] = tape[i]
      /\ \A i \in 1 .. Len(ops) : tape'[Len(tape) + i] = ops[i]
  BY <1>2 DEF Appends
<1>5. \A c \in Calls : Has(tape', c, "decode") => ReadsOf(c) \cap dropped' = {}
  BY <1>3 DEF TapeOK, CapturedOK
<1>6. \A c \in Calls :
          Has(tape', c, "decode") /\ Has(tape', c, "free") => Has(tape', c, "copy")
  BY <1>3 DEF TapeOK, CapturedOK
<1>7. ASSUME NEW k \in 1 .. Len(tape'), NEW c \in Calls, IsOp(tape'[k], "copy", c)
      PROVE  \E i \in 1 .. k - 1 : IsOp(tape'[i], "decode", c)
  <2>1. CASE k \in 1 .. Len(tape) /\ tape'[k] = tape[k]
    <3>1. PICK i \in 1 .. k - 1 : IsOp(tape[i], "decode", c)
      BY <1>7, <2>1 DEF TapeOK, CapturedOK
    <3>2. tape'[i] = tape[i]
      BY <1>1, <1>4, <2>1
    <3> QED
      BY <3>1, <3>2
  <2>2. CASE k - Len(tape) \in 1 .. Len(ops) /\ tape'[k] = ops[k - Len(tape)]
    <3>1. Has(ops, c, "copy")
      BY <1>7, <2>2 DEF Has
    <3>2. PICK i \in 1 .. Len(tape) : IsOp(tape[i], "decode", c)
      BY <3>1 DEF Has
    <3>3. i \in 1 .. k - 1 /\ tape'[i] = tape[i]
      BY <1>1, <1>4, <2>2
    <3> QED
      BY <3>2, <3>3
  <2> QED
    BY <1>2, <2>1, <2>2, AppendsOldOrNew
<1>8. CapturedOK(tape)'
  BY <1>5, <1>6, <1>7 DEF CapturedOK
<1>9. ASSUME NEW i \in 1 .. Len(tape')
      PROVE  call'[tape'[i].buf].step # "new"
  <2>1. CASE i \in 1 .. Len(tape) /\ tape'[i] = tape[i]
    BY <1>1, <2>1 DEF TapeOK
  <2>2. CASE i - Len(tape) \in 1 .. Len(ops) /\ tape'[i] = ops[i - Len(tape)]
    BY <2>2
  <2> QED
    BY <1>2, <2>1, <2>2, AppendsOldOrNew
<1>10. /\ \A c \in Calls : Launched(c)' => Has(tape', c, "decode")
       /\ \A c \in Calls : Has(tape', c, "decode") => Launched(c)' \/ Has(tape', c, "free")
       /\ \A c \in Calls : Has(tape', c, "free") => call'[c].step \in {"err", "dropped"}
  BY <1>3
<1>11. \A c \in Calls : \A op : Has(tape, c, op)' <=> Has(tape', c, op)
  BY DEF Has
<1> QED
  BY <1>8, <1>9, <1>10, <1>11 DEF TapeOK

\* A graph stays as it is: its calls are over, and the program keeps its inputs.
LEMMA GraphStays ==
    ASSUME Ordered, GraphOK, graph' = graph,
           \A c \in Calls : call[c].step \in {"err", "dropped"} =>
               call'[c].step \in {"err", "dropped"},
           graph # None => \A c \in Calls : Has(graph, c, "decode") => ReadsOf(c) \cap dropped' = {}
    PROVE  GraphOK'
<1> SUFFICES ASSUME graph # None
             PROVE  /\ CapturedOK(graph)'
                    /\ \A i \in 1 .. Len(graph) : call'[graph[i].buf].step \in {"err", "dropped"}
                    /\ \E c \in Calls : Has(graph, c, "copy")
                    /\ \A c \in Calls : Has(graph, c, "decode") => Has(graph, c, "free")
  BY DEF GraphOK, Has
<1>1. CapturedOK(graph)'
  BY DEF GraphOK, CapturedOK, Has
<1>2. \A i \in 1 .. Len(graph) : call'[graph[i].buf].step \in {"err", "dropped"}
  BY GraphIs DEF GraphOK
<1> QED
  BY <1>1, <1>2 DEF GraphOK

LEMMA HasOne ==
    ASSUME NEW ops, NEW op, NEW c, Len(ops) = 1,
           \A i \in 1 .. Len(ops) : i = 1 /\ IsOp(ops[i], op, c),
           NEW p, NEW d
    PROVE  /\ Has(ops, d, p) => p = op /\ d = c
           /\ Has(ops, c, op)
<1>1. 1 \in 1 .. Len(ops)
  OBVIOUS
<1> QED
  BY <1>1 DEF Has, IsOp

LEMMA StepKinds ==
    ASSUME Ordered, [Next]_vars
    PROVE  \/ GoesOn
           \/ \E c \in Calls : \/ Begin(c) \/ Launch(c) \/ DropOutput(c) \/ CopyOut(c)
                               \/ Return(c) /\ ~call[c].ok
           \/ \E b \in Inputs : DropInput(b)
           \/ BeginCapture \/ EndCapture \/ Replay
           \/ \E s \in Streams : Finish(s)
<1>1. CASE UNCHANGED vars
  BY <1>1, StutterGoesOn
<1>2. ASSUME NEW c \in Calls, CallStep(c)
      PROVE  GoesOn \/ Launch(c) \/ (Return(c) /\ ~call[c].ok)
  <2>1. CASE Lock(c)
    BY <2>1, LockGoesOn
  <2>2. CASE \E n \in 0 .. Len(Reads[c]) : Point(c, n)
    BY <2>2, PointGoesOn
  <2>3. CASE LaunchFails(c)
    BY <2>3, LaunchFailsGoesOn
  <2>4. CASE Return(c) /\ call[c].ok
    BY <2>4, ReturnGoesOn
  <2> QED
    BY <1>2, <2>1, <2>2, <2>3, <2>4 DEF CallStep
<1>3. ASSUME NEW b \in Inputs, Refill(b) \/ \E s \in Streams : RefillBegin(b, s)
      PROVE  GoesOn
  BY <1>3, RefillGoesOn, RefillBeginGoesOn
<1> QED
  BY <1>1, <1>2, <1>3 DEF Next

LEMMA OverStaysOver ==
    ASSUME NEW c \in Calls, NEW from, NEW to, Moves(c, from, to), from \notin {"err", "dropped"}
    PROVE  /\ \A d \in Calls : call[d].step \in {"err", "dropped"} =>
                  call'[d].step \in {"err", "dropped"}
           /\ \A d \in Calls : d # c => call'[d].step = call[d].step /\ call'[d].ok = call[d].ok
BY DEF Moves

\* A graph that is not about to lose an input.
LEMMA GraphStaysUndropped ==
    ASSUME Ordered, GraphOK, graph' = graph, dropped' = dropped,
           \A c \in Calls : call[c].step \in {"err", "dropped"} =>
               call'[c].step \in {"err", "dropped"}
    PROVE  GraphOK'
<1>1. graph # None => \A c \in Calls : Has(graph, c, "decode") => ReadsOf(c) \cap dropped' = {}
  BY DEF GraphOK, CapturedOK
<1> QED
  BY <1>1, GraphStays

LEMMA GoesOnGraphs ==
    ASSUME Ordered, Ordered', GraphsOK, GoesOn
    PROVE  GraphsOK'
<1>1. PICK ops \in Seq(Operations) : OnLine(ops) /\ Neutral(ops)
  BY DEF GoesOn
<1>2. CallsGoOn /\ dropped' = dropped /\ graph' = graph /\ (Capturing' <=> Capturing)
  BY <1>1 DEF GoesOn, OnLine
<1>3. GraphOK'
  BY <1>2, GraphStaysUndropped DEF GraphsOK, CallsGoOn
<1>4. CASE Capturing
  <2>1. Len(ops) = 0
    BY <1>1, <1>4, NeutralOnTape
  <2>2. \A c \in Calls : \A op : ~Has(ops, c, op)
    BY <2>1 DEF Has
  <2>3. \A c \in Calls : call[c].step # "new" => call'[c].step # "new"
    <3>1. call \in [Calls -> CallType]
      BY OrderedParts
    <3> QED
      BY <1>2, <3>1 DEF CallsGoOn, CallType, Holding, Active
  <2>4. \A c \in Calls : Launched(c)' => Has(tape, c, "decode")
    BY <1>2, <1>4 DEF CallsGoOn, GraphsOK, TapeOK
  <2>5. /\ \A c \in Calls : Has(tape, c, "decode") => Launched(c)' \/ Has(tape, c, "free")
        /\ \A c \in Calls : Has(tape, c, "free") => call'[c].step \in {"err", "dropped"}
    <3>1. \A c \in Calls : Launched(c) => Launched(c)'
      BY <1>2 DEF CallsGoOn, Launched
    <3> QED
      BY <1>2, <1>4, <3>1 DEF CallsGoOn, GraphsOK, TapeOK
  <2>6. \A m \in 1 .. Len(ops) : call'[ops[m].buf].step # "new"
    BY <2>1
  <2>7. TapeOK'
    BY <1>1, <1>2, <1>4, <2>2, <2>3, <2>4, <2>5, <2>6, TapeGrows DEF GraphsOK
  <2> QED
    BY <1>3, <2>7 DEF GraphsOK
<1>5. CASE ~Capturing
  BY <1>2, <1>3, <1>5 DEF GraphsOK, TapeOK
<1> QED
  BY <1>4, <1>5

LEMMA BeginGraphs ==
    ASSUME Ordered, GraphsOK, NEW c \in Calls, Begin(c)
    PROVE  GraphsOK'
<1> DEFINE ops == <<Alloc(c)>>
<1>1. /\ OnMain(ops) /\ Moves(c, "new", "lock") /\ dropped' = dropped /\ Len(ops) = 1
      /\ \A i \in 1 .. Len(ops) : i = 1 /\ IsOp(ops[i], "alloc", c)
  BY BeginParts
<1> HIDE DEF ops
<1>2. OnLine(ops) /\ ops \in Seq(Operations) /\ graph' = graph /\ (Capturing' <=> Capturing)
  BY <1>1 DEF OnMain, OnLine
<1>3. GraphOK'
  BY <1>1, <1>2, OverStaysOver, GraphStaysUndropped DEF GraphsOK
<1>4. ASSUME Capturing
      PROVE  TapeOK'
  <2>1. \A d \in Calls : \A p : Has(ops, d, p) => p = "alloc"
    BY <1>1, HasOne
  <2>2. call'[c].step = "lock" /\ \A d \in Calls : d # c => call'[d].step = call[d].step
    BY <1>1, OverStaysOver DEF Moves
  <2>3. \A m \in 1 .. Len(ops) : call'[ops[m].buf].step # "new"
    BY <1>1, <2>2 DEF IsOp
  <2>4. \A d \in Calls : call[d].step # "new" => call'[d].step # "new"
    BY <2>2
  <2>5. \A d \in Calls : Launched(d)' => Has(tape, d, "decode")
    BY <1>1, <1>4, <2>2 DEF GraphsOK, TapeOK, Moves, Launched
  <2>6. /\ \A d \in Calls : Has(tape, d, "decode") => Launched(d)' \/ Has(tape, d, "free")
        /\ \A d \in Calls : Has(tape, d, "free") => call'[d].step \in {"err", "dropped"}
    <3>1. call[c].step = "new" /\ \A d \in Calls \ {c} : call'[d] = call[d]
      BY <1>1 DEF Moves
    <3>2. ~Has(tape, c, "decode") /\ ~Has(tape, c, "free")
      BY <1>4, <3>1 DEF GraphsOK, TapeOK, Launched
    <3> QED
      BY <1>4, <3>1, <3>2 DEF GraphsOK, TapeOK, Launched
  <2> QED
    BY <1>1, <1>2, <1>4, <2>1, <2>3, <2>4, <2>5, <2>6, TapeGrows DEF GraphsOK
<1> QED
  BY <1>2, <1>3, <1>4 DEF GraphsOK, TapeOK

LEMMA LaunchGraphs ==
    ASSUME Ordered, GraphsOK, NEW c \in Calls, Launch(c)
    PROVE  GraphsOK'
<1> DEFINE ops == <<Decode(c)>>
<1>1. /\ OnMain(ops) /\ Moves(c, "launch", "end") /\ dropped' = dropped /\ Len(ops) = 1
      /\ call'[c].ok
      /\ \A i \in 1 .. Len(ops) : i = 1 /\ IsOp(ops[i], "decode", c)
  BY LaunchParts
<1> HIDE DEF ops
<1>2. OnLine(ops) /\ ops \in Seq(Operations) /\ graph' = graph /\ (Capturing' <=> Capturing)
  BY <1>1 DEF OnMain, OnLine
<1>3. GraphOK'
  BY <1>1, <1>2, OverStaysOver, GraphStaysUndropped DEF GraphsOK
<1>4. ASSUME Capturing
      PROVE  TapeOK'
  <2>1. /\ \A d \in Calls : \A p : Has(ops, d, p) => p = "decode" /\ d = c
        /\ Has(ops, c, "decode")
    BY <1>1, HasOne
  <2>2. call'[c].step = "end" /\ \A d \in Calls : d # c => call'[d].step = call[d].step
    BY <1>1, OverStaysOver DEF Moves
  <2>3. \A m \in 1 .. Len(ops) : call'[ops[m].buf].step # "new"
    BY <1>1, <2>2 DEF IsOp
  <2>4. \A d \in Calls : call[d].step # "new" => call'[d].step # "new"
    BY <2>2
  <2>5. \A d \in Calls : Launched(d)' => Has(tape, d, "decode") \/ Has(ops, d, "decode")
    BY <1>1, <1>4, <2>1 DEF GraphsOK, TapeOK, Moves, Launched
  <2>6. /\ \A d \in Calls : Has(tape, d, "decode") \/ Has(ops, d, "decode") =>
               Launched(d)' \/ Has(tape, d, "free")
        /\ \A d \in Calls : Has(tape, d, "free") => call'[d].step \in {"err", "dropped"}
        /\ ~Has(tape, c, "free")
    <3>1. ~Has(tape, c, "free")
      BY <1>1, <1>4 DEF GraphsOK, TapeOK, Moves
    <3>2. \A d \in Calls \ {c} : call'[d] = call[d]
      BY <1>1 DEF Moves
    <3>3. Launched(c)'
      BY <1>1, <2>2 DEF Launched
    <3> QED
      BY <1>4, <2>1, <3>1, <3>2, <3>3 DEF GraphsOK, TapeOK, Launched
  <2>7. ReadsOf(c) \cap dropped = {}
    <3>1. call[c].step \in Active
      BY <1>1 DEF Moves, Active
    <3> QED
      BY <3>1 DEF Ordered, CallsOK
  <2> QED
    BY <1>1, <1>2, <1>4, <2>1, <2>3, <2>4, <2>5, <2>6, <2>7, TapeGrows DEF GraphsOK
<1> QED
  BY <1>2, <1>3, <1>4 DEF GraphsOK, TapeOK

LEMMA DropOutputGraphs ==
    ASSUME Ordered, GraphsOK, NEW c \in Calls, DropOutput(c)
    PROVE  GraphsOK'
<1> DEFINE ops == <<Free(c)>>
<1>1. /\ OnMain(ops) /\ Moves(c, "ok", "dropped") /\ dropped' = dropped /\ Len(ops) = 1
      /\ Capturing => Has(tape, c, "copy")
      /\ \A i \in 1 .. Len(ops) : i = 1 /\ IsOp(ops[i], "free", c)
  BY DropOutputParts
<1> HIDE DEF ops
<1>2. OnLine(ops) /\ ops \in Seq(Operations) /\ graph' = graph /\ (Capturing' <=> Capturing)
  BY <1>1 DEF OnMain, OnLine
<1>3. GraphOK'
  BY <1>1, <1>2, OverStaysOver, GraphStaysUndropped DEF GraphsOK
<1>4. ASSUME Capturing
      PROVE  TapeOK'
  <2>1. /\ \A d \in Calls : \A p : Has(ops, d, p) => p = "free" /\ d = c
        /\ Has(ops, c, "free")
    BY <1>1, HasOne
  <2>2. call'[c].step = "dropped" /\ \A d \in Calls : d # c => call'[d].step = call[d].step
    BY <1>1, OverStaysOver DEF Moves
  <2>3. \A m \in 1 .. Len(ops) : call'[ops[m].buf].step # "new"
    BY <1>1, <2>2 DEF IsOp
  <2>4. \A d \in Calls : call[d].step # "new" => call'[d].step # "new"
    BY <2>2
  <2>5. \A d \in Calls : Launched(d)' => Has(tape, d, "decode")
    BY <1>1, <1>4, <2>2 DEF GraphsOK, TapeOK, Moves, Launched
  <2>6. /\ \A d \in Calls : Has(tape, d, "decode") =>
               Launched(d)' \/ Has(tape, d, "free") \/ Has(ops, d, "free")
        /\ \A d \in Calls : Has(tape, d, "free") \/ Has(ops, d, "free") =>
               call'[d].step \in {"err", "dropped"}
    BY <1>1, <1>4, <2>1, <2>2 DEF GraphsOK, TapeOK, Moves, Launched
  <2> QED
    BY <1>1, <1>2, <1>4, <2>1, <2>3, <2>4, <2>5, <2>6, TapeGrows DEF GraphsOK
<1> QED
  BY <1>2, <1>3, <1>4 DEF GraphsOK, TapeOK

LEMMA CopyOutGraphs ==
    ASSUME Ordered, GraphsOK, NEW c \in Calls, CopyOut(c)
    PROVE  GraphsOK'
<1> DEFINE ops == <<Copy(c)>>
<1>1. /\ OnMain(ops) /\ call' = call /\ dropped' = dropped /\ Len(ops) = 1
      /\ Capturing /\ call[c].step = "ok"
      /\ \A i \in 1 .. Len(ops) : i = 1 /\ IsOp(ops[i], "copy", c)
  BY CopyOutParts
<1> HIDE DEF ops
<1>2. OnLine(ops) /\ ops \in Seq(Operations) /\ graph' = graph /\ (Capturing' <=> Capturing)
  BY <1>1 DEF OnMain, OnLine
<1>3. GraphOK'
  BY <1>1, <1>2, GraphStaysUndropped DEF GraphsOK
<1>4. \A d \in Calls : \A p : Has(ops, d, p) => p = "copy" /\ d = c
  BY <1>1, HasOne
<1>5. \A m \in 1 .. Len(ops) : call'[ops[m].buf].step # "new"
  BY <1>1 DEF IsOp
<1>6. /\ \A d \in Calls : Launched(d)' => Has(tape, d, "decode")
      /\ \A d \in Calls : Has(tape, d, "decode") => Launched(d)' \/ Has(tape, d, "free")
      /\ \A d \in Calls : Has(tape, d, "free") => call'[d].step \in {"err", "dropped"}
  BY <1>1 DEF GraphsOK, TapeOK, Launched
<1>7. Has(tape, c, "decode")
  <2>1. call[c].ok
    BY <1>1 DEF Ordered, CallsOK
  <2> QED
    BY <1>1, <2>1 DEF GraphsOK, TapeOK, Launched
<1>8. TapeOK'
  BY <1>1, <1>2, <1>4, <1>5, <1>6, <1>7, TapeGrows DEF GraphsOK
<1> QED
  BY <1>3, <1>8 DEF GraphsOK

\* A call that fails during a capture put no decode on the tape.
LEMMA ErrorGraphs ==
    ASSUME Ordered, Ordered', GraphsOK, NEW c \in Calls, Return(c), ~call[c].ok
    PROVE  GraphsOK'
<1>1. PICK ops \in Seq(Operations) :
          /\ OnMain(ops)
          /\ \A m \in 1 .. Len(ops) :
                 ops[m].op = "record" \/ (m = Len(ops) /\ IsOp(ops[m], "free", c))
  BY ReturnParts
<1>2. Moves(c, "end", "err") /\ dropped' = dropped
  BY ReturnParts
<1>3. OnLine(ops) /\ graph' = graph /\ (Capturing' <=> Capturing)
  BY <1>1 DEF OnMain, OnLine
<1>4. GraphOK'
  BY <1>2, <1>3, OverStaysOver, GraphStaysUndropped DEF GraphsOK
<1>5. ASSUME Capturing
      PROVE  TapeOK'
  <2>1. \A d \in Calls : \A p \in {"decode", "copy", "free"} : Has(ops, d, p) => p = "free" /\ d = c
    BY <1>1 DEF Has, IsOp
  <2>2. call[c].step = "end" /\ call'[c].step = "err" /\ \A d \in Calls \ {c} : call'[d] = call[d]
    BY <1>2 DEF Moves
  <2>3. ~Has(tape, c, "free") /\ ~Has(tape, c, "decode")
    BY <1>5, <2>2 DEF GraphsOK, TapeOK, Launched
  <2>4. \A d \in Calls : Launched(d)' => Has(tape, d, "decode")
    BY <1>5, <2>2 DEF GraphsOK, TapeOK, Launched
  <2>5. /\ \A d \in Calls : Has(tape, d, "decode") => Launched(d)' \/ Has(tape, d, "free")
        /\ \A d \in Calls : Has(tape, d, "free") \/ Has(ops, d, "free") =>
               call'[d].step \in {"err", "dropped"}
    BY <1>5, <2>1, <2>2, <2>3 DEF GraphsOK, TapeOK, Launched
  <2>6. \A m \in 1 .. Len(ops) : call'[ops[m].buf].step # "new"
    <3>1. ASSUME NEW m \in 1 .. Len(ops)
          PROVE  ops[m].op # "record"
      BY <1>1, <1>3, <1>5, RecordNotOnTape
    <3> QED
      BY <1>1, <2>2, <3>1 DEF IsOp
  <2>7. \A d \in Calls : call[d].step # "new" => call'[d].step # "new"
    BY <2>2
  <2> QED
    BY <1>2, <1>3, <1>5, <2>1, <2>3, <2>4, <2>5, <2>6, <2>7, TapeGrows DEF GraphsOK
<1> QED
  BY <1>3, <1>4, <1>5 DEF GraphsOK, TapeOK

LEMMA CopyIsIn ==
    ASSUME Ordered, graph # None, NEW c \in Calls
    PROVE  Has(graph, c, "copy") => Copy(c) \in ToSet(graph)
<1>1. /\ graph \in Seq(CallOperations) /\ Len(graph) \in Nat
      /\ \A i \in 1 .. Len(graph) : graph[i] \in CallOperations
  BY GraphIs
<1>2. DOMAIN graph = 1 .. Len(graph)
  BY <1>1, LenProperties
<1> QED
  BY <1>1, <1>2, CallOperationFields DEF Has, IsOp, ToSet

LEMMA DropInputGraphs ==
    ASSUME Ordered, GraphsOK, NEW b \in Inputs, DropInput(b)
    PROVE  GraphsOK'
<1>1. /\ ~Capturing /\ dropped' = dropped \cup {b} /\ call' = call
      /\ graph # None => \A c \in Calls : Copy(c) \in ToSet(graph) => b \notin ReadsOf(c)
  BY DropInputParts
<1>2. PICK ops \in Seq(Operations) : OnMain(ops)
  BY DropInputParts
<1>3. graph' = graph /\ ~Capturing'
  BY <1>1, <1>2 DEF OnMain, OnLine
<1>4. ASSUME graph # None, NEW c \in Calls, Has(graph, c, "decode")
      PROVE  ReadsOf(c) \cap dropped' = {}
  <2>1. Has(graph, c, "copy") /\ ReadsOf(c) \cap dropped = {}
    BY <1>4 DEF GraphsOK, GraphOK, CapturedOK
  <2>2. b \notin ReadsOf(c)
    BY <1>1, <1>4, <2>1, CopyIsIn
  <2> QED
    BY <1>1, <2>1, <2>2
<1>5. GraphOK'
  BY <1>1, <1>3, <1>4, GraphStays DEF GraphsOK
<1> QED
  BY <1>3, <1>5 DEF GraphsOK, TapeOK

LEMMA BeginCaptureGraphs ==
    ASSUME Ordered, GraphsOK, BeginCapture
    PROVE  GraphsOK'
<1>1. /\ graph = None /\ graph' = graph /\ tape' = <<>>
      /\ \A c \in Calls : Idle(c) /\ call[c].step # "ok"
      /\ call' = call
  BY DEF BeginCapture, calls
<1>2. Len(tape') = 0
  BY <1>1, EmptySeq
<1>3. \A c : \A op : ~Has(tape', c, op)
  BY <1>2 DEF Has
<1>4. CapturedOK(tape)'
  BY <1>2, <1>3 DEF CapturedOK
<1>5. \A c \in Calls : call'[c].step \notin {"end", "ok"}
  BY <1>1 DEF Idle
<1>6. TapeOK'
  BY <1>2, <1>3, <1>4, <1>5 DEF TapeOK, Launched
<1> QED
  BY <1>1, <1>6 DEF GraphsOK, GraphOK

LEMMA EndCaptureGraphs ==
    ASSUME Ordered, GraphsOK, EndCapture
    PROVE  GraphsOK'
<1>1. /\ Capturing /\ \E c \in Calls : Copy(c) \in ToSet(tape)
      /\ \A c \in Calls : Idle(c) /\ call[c].step # "ok"
      /\ graph' = tape /\ tape' = None /\ call' = call /\ dropped' = dropped
  BY DEF EndCapture, calls
<1>2. /\ tape \in Seq(CallOperations) /\ Len(tape) \in Nat
      /\ \A i \in 1 .. Len(tape) : tape[i].buf \in Calls
  BY <1>1, TapeIs
<1>3. CapturedOK(graph)'
  BY <1>1 DEF GraphsOK, TapeOK, CapturedOK, Has
<1>4. \A i \in 1 .. Len(graph') : call'[graph'[i].buf].step \in {"err", "dropped"}
  BY <1>1, <1>2 DEF GraphsOK, TapeOK, Idle
<1>5. \E c \in Calls : Has(graph', c, "copy")
  <2>1. PICK c \in Calls : Copy(c) \in ToSet(tape)
    BY <1>1
  <2>2. DOMAIN tape = 1 .. Len(tape)
    BY <1>2, LenProperties
  <2>3. PICK i \in 1 .. Len(tape) : tape[i] = Copy(c)
    BY <2>1, <2>2 DEF ToSet
  <2>4. IsOp(tape[i], "copy", c)
    BY <2>3 DEF IsOp, Copy
  <2> QED
    BY <1>1, <2>4 DEF Has
<1>6. \A c \in Calls : Has(graph', c, "decode") => Has(graph', c, "free")
  BY <1>1 DEF GraphsOK, TapeOK, Launched, Idle
<1>7. GraphOK'
  BY <1>3, <1>4, <1>5, <1>6 DEF GraphOK, Has
<1> QED
  BY <1>1, <1>7 DEF GraphsOK, TapeOK, Capturing

LEMMA GraphsSame ==
    ASSUME Ordered, GraphsOK, UNCHANGED <<call, dropped, tape, graph>>
    PROVE  GraphsOK'
BY DEF GraphsOK, TapeOK, GraphOK, CapturedOK, Launched, Has, Capturing

LEMMA GraphsNext ==
    ASSUME Ordered, Ordered', GraphsOK, [Next]_vars
    PROVE  GraphsOK'
<1>1. ASSUME NEW c \in Calls, \/ Begin(c) \/ Launch(c) \/ DropOutput(c) \/ CopyOut(c)
                              \/ Return(c) /\ ~call[c].ok
      PROVE  GraphsOK'
  BY <1>1, BeginGraphs, LaunchGraphs, DropOutputGraphs, CopyOutGraphs, ErrorGraphs
<1>2. CASE Replay
  BY <1>2, GraphsSame DEF Replay, calls
<1>3. CASE \E s \in Streams : Finish(s)
  BY <1>3, GraphsSame DEF Finish, calls, graphs
<1> QED
  BY <1>1, <1>2, <1>3, StepKinds, GoesOnGraphs, DropInputGraphs, BeginCaptureGraphs, EndCaptureGraphs

\* A tape holds decodes of inputs that are kept, an output is copied before it
\* is released, and a graph is of calls that are over.
THEOREM GraphsAreKept == Spec => []GraphsOK
<1>1. Init => GraphsOK
  BY DEF Init, GraphsOK, TapeOK, GraphOK, Capturing
<1>2. Ordered /\ Ordered' /\ GraphsOK /\ [Next]_vars => GraphsOK'
  BY GraphsNext
<1> QED
  BY <1>1, <1>2, GuardsOrder, PTL DEF Spec

-----------------------------------------------------------------------------
(* Outputs are used between their allocation and their release.            *)

LEMMA OutputsOnLine ==
    ASSUME OutputsOK
    PROVE  /\ UsesAlive(Line, Start)
           /\ \A c \in Calls : call[c].step \in Holding => Alive(Line, c, Len(Line) + 1, Start)
BY DEF OutputsOK, Line, Start

\* Operations are enqueued.
LEMMA OutputsGrow ==
    ASSUME OutputsOK, NEW ops, OnLine(ops),
           \A m \in 1 .. Len(ops) : \A c \in Calls : Uses(ops[m], c) =>
               \/ Alive(ops, c, m, {})
               \/ /\ call[c].step \in Holding
                  /\ \A k \in 1 .. m - 1 : ~IsOp(ops[k], "free", c),
           \A c \in Calls : call'[c].step \in Holding =>
               \/ Alive(ops, c, Len(ops) + 1, {})
               \/ /\ call[c].step \in Holding
                  /\ \A k \in 1 .. Len(ops) : ~IsOp(ops[k], "free", c)
    PROVE  OutputsOK'
<1>1. /\ Appends(Line, Line', ops) /\ (Capturing' <=> Capturing)
      /\ Capturing => M' = M
      /\ live' = live /\ graph' = graph
      /\ Start' = Start
  BY DEF OnLine, Start
<1>2. /\ Len(Line) \in Nat /\ Len(ops) \in Nat /\ Len(Line') = Len(Line) + Len(ops)
  BY <1>1 DEF Appends
<1>3. UsesAlive(Line', Start)
  <2>1. \A m \in 1 .. Len(ops) : \A c \in Calls : Uses(ops[m], c) =>
               \/ Alive(ops, c, m, {})
               \/ /\ Alive(Line, c, Len(Line) + 1, Start)
                  /\ \A k \in 1 .. m - 1 : ~IsOp(ops[k], "free", c)
    BY OutputsOnLine
  <2>2. UsesAlive(Line, Start)
    BY OutputsOnLine
  <2> QED
    BY <1>1, <2>1, <2>2, UsesAppended
<1>4. ASSUME NEW c \in Calls, call'[c].step \in Holding
      PROVE  Alive(Line', c, Len(Line') + 1, Start)
  <2>1. PICK m \in 1 .. Len(ops) + 1 : m = Len(ops) + 1
    BY <1>2
  <2>2. Len(Line') + 1 = Len(Line) + m
    BY <1>2, <2>1
  <2>3. CASE Alive(ops, c, Len(ops) + 1, {})
    <3>1. Alive(ops, c, m, {})
      BY <2>1, <2>3
    <3>2. Alive(Line', c, Len(Line) + m, Start)
      BY <1>1, <3>1, AliveInside
    <3> QED
      BY <2>2, <3>2
  <2>4. CASE /\ call[c].step \in Holding
             /\ \A k \in 1 .. Len(ops) : ~IsOp(ops[k], "free", c)
    <3>1. Alive(Line, c, Len(Line) + 1, Start)
      BY <2>4, OutputsOnLine
    <3>2. \A k \in 1 .. m - 1 : ~IsOp(ops[k], "free", c)
      BY <1>2, <2>1, <2>4
    <3>3. Alive(Line', c, Len(Line) + m, Start)
      BY <1>1, <3>1, <3>2, AliveStays
    <3> QED
      BY <2>2, <3>3
  <2> QED
    BY <1>4, <2>3, <2>4
<1>5. CASE Capturing
  <2>1. Line' = tape' /\ Start' = {} /\ Start = {} /\ M' = M
    BY <1>1, <1>5 DEF Line, Start
  <2> QED
    BY <1>1, <1>3, <1>4, <1>5, <2>1 DEF OutputsOK, UsesAlive
<1>6. CASE ~Capturing
  <2>1. Line' = M' /\ Start = live /\ live' = live
    BY <1>1, <1>6 DEF Line, Start
  <2> QED
    BY <1>1, <1>3, <1>4, <1>6, <2>1 DEF OutputsOK, UsesAlive
<1> QED
  BY <1>5, <1>6

LEMMA GoesOnOutputs ==
    ASSUME OutputsOK, GoesOn
    PROVE  OutputsOK'
<1>1. PICK ops \in Seq(Operations) : OnLine(ops) /\ Neutral(ops)
  BY DEF GoesOn
<1>2. \A m \in 1 .. Len(ops) : \A c \in Calls : ~Uses(ops[m], c) /\ ~IsOp(ops[m], "free", c)
  BY <1>1 DEF Neutral, Uses, IsOp
<1>3. \A c \in Calls : call'[c].step \in Holding => call[c].step \in Holding
  BY DEF GoesOn, CallsGoOn
<1> QED
  BY <1>1, <1>2, <1>3, OutputsGrow

\* One operation of a call is enqueued.
LEMMA OneUsed ==
    ASSUME OutputsOK, NEW ops, OnLine(ops), Len(ops) = 1, NEW c \in Calls,
           NEW op \in {"alloc", "decode", "copy", "free"},
           \A i \in 1 .. Len(ops) : i = 1 /\ IsOp(ops[i], op, c),
           op # "alloc" => call[c].step \in Holding,
           op = "free" => call'[c].step \notin Holding,
           \A d \in Calls \ {c} : call'[d].step \in Holding => call[d].step \in Holding
    PROVE  OutputsOK'
<1>1. 1 \in 1 .. Len(ops) /\ IsOp(ops[1], op, c)
  OBVIOUS
<1>2. ASSUME NEW m \in 1 .. Len(ops), NEW d \in Calls, Uses(ops[m], d)
      PROVE  /\ call[d].step \in Holding
             /\ \A k \in 1 .. m - 1 : ~IsOp(ops[k], "free", d)
  <2>1. m = 1 /\ d = c /\ op # "alloc"
    BY <1>1, <1>2 DEF Uses, IsOp
  <2> QED
    BY <2>1
<1>3. ASSUME NEW d \in Calls, call'[d].step \in Holding
      PROVE  \/ Alive(ops, d, Len(ops) + 1, {})
             \/ /\ call[d].step \in Holding
                /\ \A k \in 1 .. Len(ops) : ~IsOp(ops[k], "free", d)
  <2>1. CASE d = c /\ op = "alloc"
    <3>1. 1 \in 1 .. (Len(ops) + 1) - 1 /\ \A m \in 1 + 1 .. (Len(ops) + 1) - 1 : FALSE
      OBVIOUS
    <3>2. IsOp(ops[1], "alloc", d)
      BY <1>1, <2>1
    <3>3. Alive(ops, d, Len(ops) + 1, {})
      BY <3>1, <3>2 DEF Alive
    <3> QED
      BY <3>3
  <2>2. CASE d = c /\ op # "alloc"
    <3>1. op # "free" /\ call[d].step \in Holding
      BY <1>3, <2>2
    <3> QED
      BY <2>2, <3>1 DEF IsOp
  <2>3. CASE d # c
    BY <1>3, <2>3 DEF IsOp
  <2> QED
    BY <2>1, <2>2, <2>3
<1> QED
  BY <1>2, <1>3, OutputsGrow

LEMMA CallOutputs ==
    ASSUME Ordered, GraphsOK, OutputsOK, NEW c \in Calls,
           Begin(c) \/ Launch(c) \/ DropOutput(c) \/ CopyOut(c)
    PROVE  OutputsOK'
<1>1. /\ "lock" \in Holding /\ "end" \in Holding /\ "ok" \in Holding /\ "launch" \in Holding
      /\ "dropped" \notin Holding
  BY DEF Holding, Active
<1>2. CASE Begin(c)
  <2>1. /\ OnLine(<<Alloc(c)>>) /\ Moves(c, "new", "lock") /\ Len(<<Alloc(c)>>) = 1
        /\ \A i \in 1 .. Len(<<Alloc(c)>>) : i = 1 /\ IsOp(<<Alloc(c)>>[i], "alloc", c)
    BY <1>2, BeginParts DEF OnMain
  <2> QED
    BY <1>1, <2>1, OneUsed DEF Moves
<1>3. CASE Launch(c)
  <2>1. /\ OnLine(<<Decode(c)>>) /\ Moves(c, "launch", "end") /\ Len(<<Decode(c)>>) = 1
        /\ \A i \in 1 .. Len(<<Decode(c)>>) : i = 1 /\ IsOp(<<Decode(c)>>[i], "decode", c)
    BY <1>3, LaunchParts DEF OnMain
  <2> QED
    BY <1>1, <2>1, OneUsed DEF Moves
<1>4. CASE DropOutput(c)
  <2>1. /\ OnLine(<<Free(c)>>) /\ Moves(c, "ok", "dropped") /\ Len(<<Free(c)>>) = 1
        /\ \A i \in 1 .. Len(<<Free(c)>>) : i = 1 /\ IsOp(<<Free(c)>>[i], "free", c)
    BY <1>4, DropOutputParts DEF OnMain
  <2> QED
    BY <1>1, <2>1, OneUsed DEF Moves
<1>5. CASE CopyOut(c)
  <2>1. /\ OnLine(<<Copy(c)>>) /\ call' = call /\ call[c].step = "ok" /\ Len(<<Copy(c)>>) = 1
        /\ \A i \in 1 .. Len(<<Copy(c)>>) : i = 1 /\ IsOp(<<Copy(c)>>[i], "copy", c)
    BY <1>5, CopyOutParts DEF OnMain
  <2> QED
    BY <1>1, <2>1, OneUsed
<1> QED
  BY <1>2, <1>3, <1>4, <1>5

LEMMA ErrorOutputs ==
    ASSUME Ordered, OutputsOK, NEW c \in Calls, Return(c), ~call[c].ok
    PROVE  OutputsOK'
<1>1. PICK ops \in Seq(Operations) :
          /\ OnMain(ops)
          /\ \A m \in 1 .. Len(ops) :
                 ops[m].op = "record" \/ (m = Len(ops) /\ IsOp(ops[m], "free", c))
  BY ReturnParts
<1>2. Moves(c, "end", "err")
  BY ReturnParts
<1>3. OnLine(ops) /\ Len(ops) \in Nat
  BY <1>1 DEF OnMain, OnLine, Appends
<1>4. ASSUME NEW m \in 1 .. Len(ops), NEW d \in Calls, Uses(ops[m], d)
      PROVE  /\ call[d].step \in Holding
             /\ \A k \in 1 .. m - 1 : ~IsOp(ops[k], "free", d)
  <2>1. m = Len(ops) /\ d = c
    BY <1>1, <1>4 DEF Uses, IsOp
  <2>2. call[d].step \in Holding
    BY <1>2, <2>1 DEF Moves, Holding, Active
  <2>3. \A k \in 1 .. m - 1 : k \in 1 .. Len(ops) /\ k # Len(ops)
    BY <1>3, <2>1
  <2>4. \A k \in 1 .. m - 1 : ops[k].op = "record"
    BY <1>1, <2>3
  <2> QED
    BY <2>2, <2>4 DEF IsOp
<1>5. ASSUME NEW d \in Calls, call'[d].step \in Holding
      PROVE  /\ call[d].step \in Holding
             /\ \A k \in 1 .. Len(ops) : ~IsOp(ops[k], "free", d)
  <2>1. d # c
    BY <1>2, <1>5 DEF Moves, Holding, Active
  <2> QED
    BY <1>1, <1>2, <1>5, <2>1 DEF Moves, IsOp
<1> QED
  BY <1>3, <1>4, <1>5, OutputsGrow

LEMMA DropInputOutputs ==
    ASSUME Ordered, OutputsOK, NEW b \in Inputs, DropInput(b)
    PROVE  OutputsOK'
<1>1. PICK ops \in Seq(Operations) :
          /\ OnMain(ops)
          /\ \A m \in 1 .. Len(ops) : ops[m].op = "wait" \/ IsOp(ops[m], "free", b)
  BY DropInputParts
<1>2. call' = call /\ OnLine(ops) /\ Inputs \cap Calls = {}
  BY <1>1, DropInputParts, GuardsAssumption DEF OnMain
<1>3. \A m \in 1 .. Len(ops) : \A c \in Calls : ~Uses(ops[m], c) /\ ~IsOp(ops[m], "free", c)
  BY <1>1, <1>2 DEF Uses, IsOp
<1> QED
  BY <1>2, <1>3, OutputsGrow

\* A replay allocates what it uses, and releases no output that a call holds.
LEMMA ReplayOutputs ==
    ASSUME Ordered, GraphsOK, OutputsOK, Replay
    PROVE  OutputsOK'
<1> DEFINE ops == ReplayedOps
<1>1. /\ graph # None /\ OnMain(ops) /\ call' = call
      /\ Len(graph) \in Nat /\ Len(ops) = Len(graph)
      /\ \A i \in 1 .. Len(graph) : ops[i].op = graph[i].op /\ ops[i].buf = graph[i].buf
  BY ReplayParts
<1> HIDE DEF ops
<1>2. OnLine(ops)
  BY <1>1 DEF OnMain
<1>3. \A i \in 1 .. Len(graph) : \A c : \A op : IsOp(ops[i], op, c) <=> IsOp(graph[i], op, c)
  BY <1>1 DEF IsOp
<1>4. ASSUME NEW m \in 1 .. Len(ops), NEW c \in Calls, Uses(ops[m], c)
      PROVE  Alive(ops, c, m, {})
  <2>1. Uses(graph[m], c)
    BY <1>1, <1>4 DEF Uses
  <2>2. Alive(graph, c, m, {})
    BY <1>1, <2>1 DEF OutputsOK, UsesAlive
  <2>3. PICK k \in 1 .. m - 1 : /\ IsOp(graph[k], "alloc", c)
                                /\ \A j \in k + 1 .. m - 1 : ~IsOp(graph[j], "free", c)
    BY <2>2 DEF Alive
  <2>4. k \in 1 .. Len(graph) /\ \A j \in k + 1 .. m - 1 : j \in 1 .. Len(graph)
    BY <1>1
  <2> QED
    BY <1>3, <2>3, <2>4 DEF Alive
<1>5. ASSUME NEW c \in Calls, call'[c].step \in Holding
      PROVE  /\ call[c].step \in Holding
             /\ \A k \in 1 .. Len(ops) : ~IsOp(ops[k], "free", c)
  <2>1. call[c].step \notin {"err", "dropped"}
    BY <1>1, <1>5 DEF Holding, Active
  <2>2. \A k \in 1 .. Len(graph) : graph[k].buf # c
    BY <1>1, <2>1 DEF GraphsOK, GraphOK
  <2> QED
    BY <1>1, <1>5, <2>2 DEF IsOp
<1> QED
  BY <1>2, <1>4, <1>5, OutputsGrow

LEMMA CaptureOutputs ==
    ASSUME Ordered, OutputsOK, BeginCapture \/ EndCapture
    PROVE  OutputsOK'
<1>1. /\ \A c \in Calls : Idle(c) /\ call[c].step # "ok"
      /\ call' = call /\ queue' = queue /\ live' = live
  BY DEF BeginCapture, EndCapture, calls, device
<1>2. \A c \in Calls : call'[c].step \notin Holding
  BY <1>1 DEF Idle, Holding, Active
<1>3. UsesAlive(M, live)'
  BY <1>1 DEF OutputsOK, M, UsesAlive
<1>4. CASE BeginCapture
  <2>1. tape' = <<>> /\ graph' = None
    BY <1>4 DEF BeginCapture
  <2>2. Len(tape') = 0
    BY <2>1, EmptySeq
  <2>3. UsesAlive(tape', {})
    BY <2>2 DEF UsesAlive
  <2> QED
    BY <1>2, <1>3, <2>1, <2>3 DEF OutputsOK, UsesAlive
<1>5. CASE EndCapture
  <2>1. tape' = None /\ graph' = tape /\ Capturing
    BY <1>5 DEF EndCapture
  <2>2. UsesAlive(graph', {})
    BY <2>1 DEF OutputsOK, UsesAlive
  <2>3. ~Capturing'
    BY <2>1 DEF Capturing
  <2> QED
    BY <1>2, <1>3, <2>2, <2>3 DEF OutputsOK, UsesAlive
<1> QED
  BY <1>4, <1>5

\* The operation at the head of a queue is done.
LEMMA AliveShifts ==
    ASSUME NEW r, NEW n, NEW L, NEW K, Len(r) \in Nat, Len(n) = Len(r) - 1,
           \A i \in 1 .. Len(n) : n[i] = r[i + 1],
           NEW c, IsOp(r[1], "alloc", c) => c \in K,
           c \in L /\ ~IsOp(r[1], "free", c) => c \in K,
           NEW i \in Nat, i >= 1, i <= Len(n) + 1, Alive(r, c, i + 1, L)
    PROVE  Alive(n, c, i, K)
<1>1. ASSUME NEW k \in 1 .. i - 1
      PROVE  k + 1 \in 1 .. (i + 1) - 1 /\ k + 1 \in Nat /\ n[k] = r[k + 1]
  OBVIOUS
<1>2. CASE c \in L /\ \A k \in 1 .. (i + 1) - 1 : ~IsOp(r[k], "free", c)
  <2>1. 1 \in 1 .. (i + 1) - 1
    OBVIOUS
  <2>2. c \in K
    BY <1>2, <2>1
  <2>3. \A k \in 1 .. i - 1 : ~IsOp(n[k], "free", c)
    BY <1>1, <1>2
  <2> QED
    BY <2>2, <2>3 DEF Alive
<1>3. CASE \E k \in 1 .. (i + 1) - 1 :
               /\ IsOp(r[k], "alloc", c)
               /\ \A m \in k + 1 .. (i + 1) - 1 : ~IsOp(r[m], "free", c)
  <2>1. PICK k \in 1 .. (i + 1) - 1 :
               /\ IsOp(r[k], "alloc", c)
               /\ \A m \in k + 1 .. (i + 1) - 1 : ~IsOp(r[m], "free", c)
    BY <1>3
  <2>2. ASSUME NEW m \in k .. i - 1, m >= 1
        PROVE  ~IsOp(n[m], "free", c)
    <3>1. m \in 1 .. i - 1 /\ m + 1 \in k + 1 .. (i + 1) - 1
      BY <2>2
    <3> QED
      BY <1>1, <2>1, <3>1
  <2>3. CASE k = 1
    <3>1. c \in K
      BY <2>1, <2>3
    <3>2. \A m \in 1 .. i - 1 : ~IsOp(n[m], "free", c)
      BY <2>2, <2>3
    <3> QED
      BY <3>1, <3>2 DEF Alive
  <2>4. CASE k # 1
    <3>1. PICK j \in Nat : k = j + 1 /\ j >= 1
      BY <2>4
    <3>2. j \in 1 .. i - 1 /\ IsOp(n[j], "alloc", c)
      BY <1>1, <2>1, <3>1
    <3>3. ASSUME NEW m \in j + 1 .. i - 1
          PROVE  ~IsOp(n[m], "free", c)
      <4>1. m \in k .. i - 1 /\ m >= 1
        BY <3>1
      <4> QED
        BY <2>2, <4>1
    <3> QED
      BY <3>2, <3>3 DEF Alive
  <2> QED
    BY <2>3, <2>4
<1> QED
  BY <1>2, <1>3 DEF Alive

\* What finishing an operation does to the storages.
LEMMA FinishedStorages ==
    ASSUME Ordered, NEW s \in Streams, Finish(s)
    PROVE  LET o == queue[s][1]
           IN /\ o.op = "alloc" => live' = live \cup {o.buf}
              /\ o.op = "free" => live' = live \ {o.buf}
              /\ o.op \notin {"alloc", "free"} => live' = live
              /\ o.op = "copy" => stable' = content[o.buf]
              /\ o.op # "copy" => stable' = stable
              /\ \A c \in Calls : IsOp(o, "decode", c) =>
                     content'[c] = [b \in ReadsOf(c) |-> content[b]]
              /\ \A c \in Calls : ~IsOp(o, "decode", c) => content'[c] = content[c]
              /\ s # Main => o.op \in {"fill", "wait", "record"} /\ M' = M
<1> DEFINE o == queue[s][1]
<1>1. /\ queue \in [Streams -> Seq(Operations)] /\ queue[s] # <<>>
      /\ queue' = [queue EXCEPT ![s] = Tail(@)]
      /\ 1 \in 1 .. Len(queue[s]) /\ o \in Operations
  BY Finished
<1>2. Head(queue[s]) = o
  BY <1>1, Popped
<1>3. /\ live' = CASE o.op = "alloc" -> live \cup {o.buf}
                   [] o.op = "free"  -> live \ {o.buf}
                   [] OTHER -> live
      /\ content' = CASE o.op = "fill" -> [content EXCEPT ![o.buf] = o.value]
                      [] o.op = "decode" ->
                             [content EXCEPT ![o.buf] = [b \in ReadsOf(o.buf) |-> content[b]]]
                      [] OTHER -> content
      /\ stable' = IF o.op = "copy" THEN content[o.buf] ELSE stable
  BY <1>2 DEF Finish
<1>4. s # Main => o.op \in {"fill", "wait", "record"} /\ M' = M
  <2>1. s # Main => M' = M
    BY <1>1, MainIsAStream DEF M
  <2> QED
    BY <1>1, <2>1, OrderedParts DEF Shape, DeviceShape
<1>5. /\ content = [b \in Inputs \cup Calls |-> content[b]] /\ Inputs \cap Calls = {}
      /\ o.op = "fill" => o.buf \in Inputs
      /\ o.op = "decode" => o.buf \in Calls
  BY <1>1, OrderedParts, OperationFields, GuardsAssumption DEF Shape, DeviceShape
<1> HIDE DEF o
<1>6. ASSUME NEW c \in Calls, IsOp(o, "decode", c)
      PROVE  content'[c] = [b \in ReadsOf(c) |-> content[b]]
  <2>1. o.op = "decode" /\ o.buf = c
    BY <1>6 DEF IsOp
  <2>2. content' = [content EXCEPT ![c] = [b \in ReadsOf(c) |-> content[b]]]
    BY <1>3, <2>1
  <2> QED
    BY <1>5, <2>2
<1>7. ASSUME NEW c \in Calls, ~IsOp(o, "decode", c)
      PROVE  content'[c] = content[c]
  <2>1. CASE o.op = "fill"
    <3>1. o.buf # c
      BY <1>5, <2>1
    <3> QED
      BY <1>3, <1>5, <2>1, <3>1
  <2>2. CASE o.op = "decode"
    <3>1. o.buf # c
      BY <1>7, <2>2 DEF IsOp
    <3>2. content' = [content EXCEPT ![o.buf] = [b \in ReadsOf(o.buf) |-> content[b]]]
      BY <1>3, <2>2
    <3> QED
      BY <1>5, <3>1, <3>2
  <2>3. CASE o.op \notin {"fill", "decode"}
    BY <1>3, <2>3
  <2> QED
    BY <2>1, <2>2, <2>3
<1>8. /\ o.op = "alloc" => live' = live \cup {o.buf}
      /\ o.op = "free" => live' = live \ {o.buf}
      /\ o.op \notin {"alloc", "free"} => live' = live
      /\ o.op = "copy" => stable' = content[o.buf]
      /\ o.op # "copy" => stable' = stable
  BY <1>3
<1> QED
  BY <1>4, <1>6, <1>7, <1>8 DEF o

LEMMA MainShifts ==
    ASSUME Ordered, Finish(Main)
    PROVE  /\ Len(M) \in Nat /\ 1 \in 1 .. Len(M) /\ M[1] \in Operations
           /\ Len(M') \in Nat /\ Len(M') = Len(M) - 1
           /\ \A i \in 1 .. Len(M') : i + 1 \in 1 .. Len(M) /\ M'[i] = M[i + 1]
<1>1. Main \in Streams /\ queue \in [Streams -> Seq(Operations)] /\ queue[Main] # <<>>
      /\ queue' = [queue EXCEPT ![Main] = Tail(@)]
  BY MainIsAStream, Finished
<1>2. Off(Main, Main) = 1
  BY DEF Off
<1> QED
  BY <1>1, <1>2, Popped DEF M

LEMMA FinishOutputs ==
    ASSUME Ordered, OutputsOK, NEW s \in Streams, Finish(s)
    PROVE  OutputsOK'
<1>1. /\ call' = call /\ tape' = tape /\ graph' = graph
  BY Finished
<1>2. CASE s # Main
  <2>1. M' = M /\ live' = live
    BY <1>2, FinishedStorages
  <2> QED
    BY <1>1, <2>1 DEF OutputsOK, UsesAlive, Capturing
<1>3. CASE s = Main
  <2>1. /\ Len(M) \in Nat /\ 1 \in 1 .. Len(M)
        /\ Len(M') \in Nat /\ Len(M') = Len(M) - 1
        /\ \A i \in 1 .. Len(M') : i + 1 \in 1 .. Len(M) /\ M'[i] = M[i + 1]
    BY <1>3, MainShifts
  <2>2. ASSUME NEW c
        PROVE  /\ IsOp(M[1], "alloc", c) => c \in live'
               /\ c \in live /\ ~IsOp(M[1], "free", c) => c \in live'
    <3>1. /\ M[1].op = "alloc" => live' = live \cup {M[1].buf}
          /\ M[1].op = "free" => live' = live \ {M[1].buf}
          /\ M[1].op \notin {"alloc", "free"} => live' = live
      BY <1>3, FinishedStorages DEF M
    <3> QED
      BY <3>1 DEF IsOp
  <2>3. ASSUME NEW c, NEW i \in 1 .. Len(M') + 1, Alive(M, c, i + 1, live)
        PROVE  Alive(M', c, i, live')
    <3>1. i \in Nat /\ i >= 1 /\ i <= Len(M') + 1 /\ \A k \in 1 .. Len(M') : M'[k] = M[k + 1]
      BY <2>1
    <3> QED
      BY <2>1, <2>2, <2>3, <3>1, AliveShifts
  <2>4. UsesAlive(M', live')
    <3> SUFFICES ASSUME NEW i \in 1 .. Len(M'), NEW c \in Calls, Uses(M'[i], c)
                 PROVE  Alive(M', c, i, live')
      BY DEF UsesAlive
    <3>1. i + 1 \in 1 .. Len(M) /\ Uses(M[i + 1], c) /\ i \in 1 .. Len(M') + 1
      BY <2>1
    <3>2. Alive(M, c, i + 1, live)
      BY <3>1 DEF OutputsOK, UsesAlive
    <3> QED
      BY <2>3, <3>1, <3>2
  <2>5. ASSUME ~Capturing, NEW c \in Calls, call[c].step \in Holding
        PROVE  Alive(M', c, Len(M') + 1, live')
    <3>1. Alive(M, c, Len(M) + 1, live)
      BY <2>5 DEF OutputsOK
    <3>2. PICK i \in 1 .. Len(M') + 1 : i = Len(M') + 1 /\ Len(M) + 1 = i + 1
      BY <2>1
    <3> QED
      BY <2>3, <3>1, <3>2
  <2>6. Capturing' <=> Capturing
    BY <1>1 DEF Capturing
  <2> QED
    BY <1>1, <2>4, <2>5, <2>6 DEF OutputsOK, UsesAlive
<1> QED
  BY <1>2, <1>3

LEMMA OutputsNext ==
    ASSUME Ordered, GraphsOK, OutputsOK, [Next]_vars
    PROVE  OutputsOK'
BY StepKinds, GoesOnOutputs, CallOutputs, ErrorOutputs, DropInputOutputs, ReplayOutputs,
   CaptureOutputs, FinishOutputs

LEMMA OutputsInit ==
    ASSUME Init
    PROVE  OutputsOK
<1>1. /\ M = <<>> /\ tape = None /\ graph = None
      /\ \A c \in Calls : call[c].step = "new"
  BY MainIsAStream DEF Init, M
<1>2. Len(M) = 0
  BY <1>1, EmptySeq
<1>3. "new" \notin Holding
  BY DEF Holding, Active
<1> QED
  BY <1>1, <1>2, <1>3 DEF OutputsOK, UsesAlive, Capturing

\* Outputs are used between their allocation and their release, on the stream
\* and in the graph.
THEOREM OutputsAreHeld == Spec => []OutputsOK
<1>1. Init => OutputsOK
  BY OutputsInit
<1>2. Ordered /\ GraphsOK /\ OutputsOK /\ [Next]_vars => OutputsOK'
  BY OutputsNext
<1> QED
  BY <1>1, <1>2, GuardsOrder, GraphsAreKept, PTL DEF Spec

-----------------------------------------------------------------------------
(* Inputs are freed after everything that uses them.                       *)

LEMMA DroppedInputs ==
    ASSUME InputsOK, NEW b \in Inputs
    PROVE  /\ b \notin live => b \in dropped
           /\ \A i \in 1 .. Len(M) : IsOp(M[i], "free", b) => b \in dropped
BY DEF InputsOK

\* Operations that free no input are enqueued, and decodes of undropped inputs.
LEMMA InputsGrow ==
    ASSUME Ordered, InputsOK, NEW s \in Streams, NEW ops, Grows(s, ops),
           content' = content, live' = live, dropped' = dropped,
           version' \in [Inputs -> Nat], \A b \in dropped : version'[b] = version[b],
           \A m \in 1 .. Len(ops) : \A b \in Inputs : ~IsOp(ops[m], "free", b),
           \A m \in 1 .. Len(ops) : \A c \in Calls : IsOp(ops[m], "decode", c) =>
               ReadsOf(c) \cap dropped = {}
    PROVE  InputsOK'
<1>1. Main \in Streams /\ queue \in [Streams -> Seq(Operations)] /\ version \in [Inputs -> Nat]
  BY MainIsAStream, OrderedParts
<1>2. /\ Len(M) \in Nat /\ Len(M') \in Nat /\ Len(M') >= Len(M)
      /\ \A i \in 1 .. Len(M) : i \in 1 .. Len(M') /\ M'[i] = M[i]
      /\ \A i \in 1 .. Len(M') :
             \/ i \in 1 .. Len(M)
             \/ i - Len(M) \in 1 .. Len(ops) /\ M'[i] = ops[i - Len(M)]
  BY <1>1, OldOrNew DEF M
<1>3. ASSUME NEW i \in 1 .. Len(M'), NEW b \in Inputs, IsOp(M'[i], "free", b)
      PROVE  i \in 1 .. Len(M) /\ IsOp(M[i], "free", b)
  BY <1>2, <1>3
<1>4. ASSUME NEW j \in 1 .. Len(M'), NEW c \in Calls, IsOp(M'[j], "decode", c),
             NEW b \in ReadsOf(c), b \in dropped
      PROVE  j \in 1 .. Len(M) /\ IsOp(M[j], "decode", c)
  BY <1>2, <1>4
<1>5. ASSUME NEW i \in 1 .. Len(M'), NEW b \in Inputs, IsOp(M'[i], "free", b)
      PROVE  /\ b \in live
             /\ Knows(Main, i, b, version[b])'
             /\ \A j \in 1 .. Len(M') : IsOp(M'[j], "free", b) => j = i
             /\ \A j \in 1 .. Len(M') : \A c \in Calls :
                    IsOp(M'[j], "decode", c) /\ b \in ReadsOf(c) => j < i
  <2>1. i \in 1 .. Len(M) /\ IsOp(M[i], "free", b) /\ b \in dropped
    BY <1>3, <1>5, DroppedInputs
  <2>2. /\ b \in live
        /\ Knows(Main, i, b, version[b])
        /\ \A j \in 1 .. Len(M) : IsOp(M[j], "free", b) => j = i
        /\ \A j \in 1 .. Len(M) : \A c \in Calls :
               IsOp(M[j], "decode", c) /\ b \in ReadsOf(c) => j < i
    BY <2>1 DEF InputsOK
  <2>3. PICK v \in Nat : v = version[b] /\ v = version'[b]
    BY <1>1, <2>1
  <2>4. i \in 1 .. Len(queue[Main]) + 1 /\ Knows(Main, i, b, v)
    BY <1>2, <2>1, <2>2, <2>3 DEF M
  <2>5. Knows(Main, i, b, v)'
    BY <1>1, <2>4, KnowsGrows
  <2>6. Knows(Main, i, b, version[b])'
    BY <2>3, <2>5 DEF Knows
  <2> QED
    BY <1>3, <1>4, <2>1, <2>2, <2>6
<1>6. ASSUME NEW b \in Inputs \ live
      PROVE  /\ content'[b] = version'[b]
             /\ \A j \in 1 .. Len(M') : \A c \in Calls :
                    IsOp(M'[j], "decode", c) => b \notin ReadsOf(c)
  <2>1. b \in dropped /\ version'[b] = version[b]
    BY DroppedInputs
  <2> QED
    BY <1>4, <2>1 DEF InputsOK
<1>7. \A b \in Inputs \ dropped : b \in live /\ \A i \in 1 .. Len(M') : ~IsOp(M'[i], "free", b)
  BY <1>3 DEF InputsOK
<1> QED
  BY <1>5, <1>6, <1>7 DEF InputsOK

LEMMA GoesOnInputs ==
    ASSUME Ordered, InputsOK, GoesOn
    PROVE  InputsOK'
<1>1. PICK s \in Streams, ops \in Seq(Operations) : Grows(s, ops) /\ Neutral(ops)
  BY DEF GoesOn
<1>2. /\ content' = content /\ live' = live /\ dropped' = dropped
      /\ version' \in [Inputs -> Nat] /\ \A b \in dropped : version'[b] = version[b]
  BY DEF GoesOn, OnLine
<1>3. /\ \A m \in 1 .. Len(ops) : \A b \in Inputs : ~IsOp(ops[m], "free", b)
      /\ \A m \in 1 .. Len(ops) : \A c \in Calls : ~IsOp(ops[m], "decode", c)
  BY <1>1 DEF Neutral, IsOp
<1> QED
  BY <1>1, <1>2, <1>3, InputsGrow

\* What is enqueued on the main stream frees no input.
LEMMA InputsGrowOnMain ==
    ASSUME Ordered, InputsOK, NEW ops, OnMain(ops), dropped' = dropped, version' = version,
           \A m \in 1 .. Len(ops) : \A b \in Inputs : ~IsOp(ops[m], "free", b),
           \A m \in 1 .. Len(ops) : \A c \in Calls : IsOp(ops[m], "decode", c) =>
               ReadsOf(c) \cap dropped = {}
    PROVE  InputsOK'
<1> DEFINE p == Put(Main, ops)
<1>1. /\ Grows(Main, p) /\ content' = content /\ live' = live
      /\ \A i \in 1 .. Len(p) : i \in 1 .. Len(ops) /\ p[i] = ops[i]
  BY DEF OnMain, OnLine
<1> HIDE DEF p
<1>2. /\ \A m \in 1 .. Len(p) : \A b \in Inputs : ~IsOp(p[m], "free", b)
      /\ \A m \in 1 .. Len(p) : \A c \in Calls : IsOp(p[m], "decode", c) =>
             ReadsOf(c) \cap dropped = {}
  BY <1>1
<1>3. Main \in Streams /\ version' \in [Inputs -> Nat] /\ \A b \in dropped : version'[b] = version[b]
  BY MainIsAStream, OrderedParts
<1> QED
  BY <1>1, <1>2, <1>3, InputsGrow

LEMMA CallInputs ==
    ASSUME Ordered, InputsOK, NEW c \in Calls,
           \/ Begin(c) \/ Launch(c) \/ DropOutput(c) \/ CopyOut(c) \/ Return(c)
    PROVE  InputsOK'
<1>0. Inputs \cap Calls = {}
  BY GuardsAssumption
<1>1. CASE Begin(c)
  <2>1. /\ OnMain(<<Alloc(c)>>) /\ dropped' = dropped /\ version' = version
        /\ \A i \in 1 .. Len(<<Alloc(c)>>) : IsOp(<<Alloc(c)>>[i], "alloc", c)
    BY <1>1, BeginParts
  <2> QED
    BY <2>1, InputsGrowOnMain DEF IsOp
<1>2. CASE Launch(c)
  <2>1. /\ OnMain(<<Decode(c)>>) /\ dropped' = dropped /\ version' = version
        /\ call[c].step = "launch"
        /\ \A i \in 1 .. Len(<<Decode(c)>>) : IsOp(<<Decode(c)>>[i], "decode", c)
    BY <1>2, LaunchParts DEF Moves
  <2>2. ReadsOf(c) \cap dropped = {}
    BY <2>1 DEF Ordered, CallsOK, Active
  <2> QED
    BY <2>1, <2>2, InputsGrowOnMain DEF IsOp
<1>3. CASE DropOutput(c)
  <2>1. /\ OnMain(<<Free(c)>>) /\ dropped' = dropped /\ version' = version
        /\ \A i \in 1 .. Len(<<Free(c)>>) : IsOp(<<Free(c)>>[i], "free", c)
    BY <1>3, DropOutputParts
  <2> QED
    BY <1>0, <2>1, InputsGrowOnMain DEF IsOp
<1>4. CASE CopyOut(c)
  <2>1. /\ OnMain(<<Copy(c)>>) /\ dropped' = dropped /\ version' = version
        /\ \A i \in 1 .. Len(<<Copy(c)>>) : IsOp(<<Copy(c)>>[i], "copy", c)
    BY <1>4, CopyOutParts
  <2> QED
    BY <2>1, InputsGrowOnMain DEF IsOp
<1>5. CASE Return(c)
  <2>1. PICK ops \in Seq(Operations) :
          /\ OnMain(ops)
          /\ \A m \in 1 .. Len(ops) : ops[m].op = "record" \/ IsOp(ops[m], "free", c)
    BY <1>5, ReturnParts
  <2>2. dropped' = dropped /\ version' = version
    BY <1>5, ReturnParts
  <2> QED
    BY <1>0, <2>1, <2>2, InputsGrowOnMain DEF IsOp
<1> QED
  BY <1>1, <1>2, <1>3, <1>4, <1>5

LEMMA ReplayInputs ==
    ASSUME Ordered, GraphsOK, InputsOK, Replay
    PROVE  InputsOK'
<1> DEFINE ops == ReplayedOps
<1>1. /\ graph # None /\ OnMain(ops) /\ dropped' = dropped /\ version' = version
      /\ Len(graph) \in Nat /\ Len(ops) = Len(graph)
      /\ \A i \in 1 .. Len(graph) : ops[i].op = graph[i].op /\ ops[i].buf = graph[i].buf
  BY ReplayParts
<1> HIDE DEF ops
<1>2. \A i \in 1 .. Len(graph) : graph[i].buf \in Calls
  BY <1>1, GraphIs
<1>3. \A m \in 1 .. Len(ops) : \A b \in Inputs : ~IsOp(ops[m], "free", b)
  BY <1>1, <1>2, GuardsAssumption DEF IsOp
<1>4. ASSUME NEW m \in 1 .. Len(ops), NEW c \in Calls, IsOp(ops[m], "decode", c)
      PROVE  ReadsOf(c) \cap dropped = {}
  <2>1. Has(graph, c, "decode")
    BY <1>1, <1>4 DEF Has, IsOp
  <2> QED
    BY <1>1, <2>1 DEF GraphsOK, GraphOK, CapturedOK
<1> QED
  BY <1>1, <1>3, <1>4, InputsGrowOnMain

LEMMA InputsSame ==
    ASSUME Ordered, InputsOK, UNCHANGED <<dropped, version, queue, live, content>>
    PROVE  InputsOK'
<1>1. Main \in Streams /\ queue \in [Streams -> Seq(Operations)] /\ version \in [Inputs -> Nat]
  BY MainIsAStream, OrderedParts
<1>2. Grows(Main, <<>>) /\ Len(<<>>) = 0
  BY <1>1, GrowsNot, EmptySeq
<1> QED
  BY <1>1, <1>2, InputsGrow

\* The free waits for every fill of the input, and no decode reads it later.
LEMMA DropInputInputs ==
    ASSUME Ordered, InputsOK, NEW b \in Inputs, DropInput(b)
    PROVE  InputsOK'
<1>1. /\ ~Capturing /\ b \notin dropped /\ dropped' = dropped \cup {b}
      /\ version' = version /\ recorded' = recorded
  BY DropInputParts
<1>2. PICK ops \in Seq(Operations) :
          /\ OnMain(ops) /\ Len(ops) \in Nat /\ Len(ops) >= 1
          /\ \A m \in 1 .. Len(ops) :
                 \/ m < Len(ops) /\ ops[m].op = "wait"
                 \/ m = Len(ops) /\ IsOp(ops[m], "free", b)
          /\ IsOp(ops[Len(ops)], "free", b)
          /\ tracking /\ recorded[b]["write"] > 0 =>
                 Len(ops) = 2 /\ <<b, "write", recorded[b]["write"]>> \in ops[1].events
  BY DropInputParts
<1>3. /\ Main \in Streams /\ queue \in [Streams -> Seq(Operations)] /\ version \in [Inputs -> Nat]
      /\ Len(queue[Main]) \in Nat
  BY MainIsAStream, OrderedParts, QueueLengths
<1>4. /\ Grows(Main, ops) /\ content' = content /\ live' = live
      /\ Appends(M, M', ops) /\ b \in live
  <2>1. Line = M /\ Line' = M' /\ Put(Main, ops) = ops
    BY <1>1, <1>2 DEF Line, OnMain, OnLine, Put
  <2> QED
    BY <1>1, <1>2, <2>1 DEF OnMain, OnLine, InputsOK
<1>5. PICK p \in Nat : p = Len(M) + Len(ops) /\ p = Len(M')
  BY <1>2, <1>3, <1>4 DEF Appends, M
<1>6. /\ Len(M) \in Nat /\ p > Len(M) /\ p \in 1 .. Len(M')
      /\ \A i \in 1 .. Len(M) : i \in 1 .. Len(M') /\ M'[i] = M[i]
  BY <1>2, <1>3, <1>4, <1>5 DEF Appends, M
<1>7. ASSUME NEW i \in 1 .. Len(M')
      PROVE  \/ i \in 1 .. Len(M) /\ M'[i] = M[i]
             \/ i = p /\ IsOp(M'[i], "free", b)
             \/ M'[i].op = "wait"
  <2>1. CASE i - Len(M) \in 1 .. Len(ops) /\ M'[i] = ops[i - Len(M)] /\ i = Len(M) + (i - Len(M))
    BY <1>2, <1>5, <2>1
  <2> QED
    BY <1>4, <2>1, AppendsOldOrNew
\* What the free is preceded by.
<1>8. Knows(Main, p, b, version[b])'
  <2>0. PICK v \in Nat : v = version[b] /\ v = version'[b]
    BY <1>1, <1>3
  <2>1. CASE ~tracking
    <3>1. Knows(Main, Len(M) + 1, b, v)
      BY <2>0, <2>1 DEF Ordered, NextOK, KnowsNow
    <3>2. PICK n \in Nat : n = Len(M) + 1 /\ n \in 1 .. Len(queue[Main]) + 1 /\ n <= p
      BY <1>3, <1>6 DEF M
    <3>3. Knows(Main, n, b, v)
      BY <3>1, <3>2
    <3>4. Knows(Main, n, b, v)'
      BY <1>3, <1>4, <3>2, <3>3, KnowsGrows
    <3>5. Knows(Main, p, b, v)'
      BY <3>2, <3>4, KnowsLaterNext
    <3> QED
      BY <2>0, <3>5 DEF Knows
  <2>2. CASE tracking /\ v = 0
    <3>1. content'[b] >= v
      BY <1>4, <2>2, OrderedParts DEF Shape, DeviceShape
    <3> QED
      BY <2>0, <3>1 DEF Knows
  <2>3. CASE tracking /\ v > 0
    <3>1. recorded[b]["write"] = v
      BY <2>0, <2>3 DEF Ordered, ModeOK
    <3>2. Len(ops) = 2 /\ <<b, "write", v>> \in ops[1].events
      BY <1>2, <2>3, <3>1
    <3>3. 1 \in 1 .. Len(ops) /\ 1 < Len(ops)
      BY <3>2
    <3>4. ops[1].op = "wait"
      BY <1>2, <3>3
    <3>5. PICK n \in 1 .. p - 1 : n = Len(M) + 1
      BY <1>5, <1>6, <3>2
    <3>6. M'[n] = ops[1]
      BY <1>4, <3>3, <3>5 DEF Appends
    <3>7. Waits(Main, n, <<b, "write", v>>)'
      BY <3>2, <3>4, <3>6 DEF Waits, M
    <3> QED
      BY <2>0, <3>5, <3>7 DEF Knows
  <2> QED
    BY <2>0, <2>1, <2>2, <2>3
<1>9. ASSUME NEW d \in Inputs, NEW i \in 1 .. Len(M'), IsOp(M'[i], "free", d)
      PROVE  \/ i \in 1 .. Len(M) /\ IsOp(M[i], "free", d) /\ d \in dropped
             \/ i = p /\ d = b
  BY <1>7, <1>9, DroppedInputs DEF IsOp
<1>10. ASSUME NEW j \in 1 .. Len(M'), NEW c \in Calls, IsOp(M'[j], "decode", c)
       PROVE  j \in 1 .. Len(M) /\ IsOp(M[j], "decode", c) /\ j < p
  <2>1. j \in 1 .. Len(M) /\ M'[j] = M[j]
    BY <1>7, <1>10 DEF IsOp
  <2> QED
    BY <1>6, <1>10, <2>1
<1>11. ASSUME NEW i \in 1 .. Len(M'), NEW d \in Inputs, IsOp(M'[i], "free", d)
       PROVE  /\ d \in live
              /\ Knows(Main, i, d, version[d])'
              /\ \A j \in 1 .. Len(M') : IsOp(M'[j], "free", d) => j = i
              /\ \A j \in 1 .. Len(M') : \A c \in Calls :
                     IsOp(M'[j], "decode", c) /\ d \in ReadsOf(c) => j < i
  <2>1. CASE i \in 1 .. Len(M) /\ IsOp(M[i], "free", d) /\ d \in dropped
    <3>1. /\ d \in live
          /\ Knows(Main, i, d, version[d])
          /\ \A j \in 1 .. Len(M) : IsOp(M[j], "free", d) => j = i
          /\ \A j \in 1 .. Len(M) : \A c \in Calls :
                 IsOp(M[j], "decode", c) /\ d \in ReadsOf(c) => j < i
      BY <2>1 DEF InputsOK
    <3>2. PICK v \in Nat : v = version[d] /\ v = version'[d]
      BY <1>1, <1>3
    <3>3. i \in 1 .. Len(queue[Main]) + 1 /\ Knows(Main, i, d, v)
      BY <1>6, <2>1, <3>1, <3>2 DEF M
    <3>4. Knows(Main, i, d, v)'
      BY <1>3, <1>4, <3>3, KnowsGrows
    <3>5. Knows(Main, i, d, version[d])'
      BY <3>2, <3>4 DEF Knows
    <3>6. d # b
      BY <1>1, <2>1
    <3> QED
      BY <1>9, <1>10, <3>1, <3>5, <3>6
  <2>2. CASE i = p /\ d = b
    <3>1. \A j \in 1 .. Len(M') : IsOp(M'[j], "free", d) => j = i
      BY <1>1, <1>9, <2>2
    <3> QED
      BY <1>4, <1>8, <1>10, <2>2, <3>1
  <2> QED
    BY <1>9, <1>11, <2>1, <2>2
<1>12. \A d \in Inputs \ live :
           /\ content'[d] = version'[d]
           /\ \A j \in 1 .. Len(M') : \A c \in Calls :
                  IsOp(M'[j], "decode", c) => d \notin ReadsOf(c)
  BY <1>1, <1>4, <1>10 DEF InputsOK
<1>13. \A d \in Inputs \ dropped' : d \in live /\ \A i \in 1 .. Len(M') : ~IsOp(M'[i], "free", d)
  BY <1>1, <1>9 DEF InputsOK
<1> QED
  BY <1>4, <1>11, <1>12, <1>13 DEF InputsOK

LEMMA FinishInputs ==
    ASSUME Ordered, InputsOK, NEW s \in Streams, Finish(s)
    PROVE  InputsOK'
<1>1. /\ Main \in Streams /\ queue \in [Streams -> Seq(Operations)] /\ version \in [Inputs -> Nat]
      /\ Inputs \cap Calls = {}
  BY MainIsAStream, OrderedParts, GuardsAssumption
<1>2. /\ dropped' = dropped /\ version' = version
      /\ \A b \in Inputs : /\ content[b] \in Nat /\ content'[b] \in Nat
                           /\ content'[b] >= content[b] /\ content'[b] <= version[b]
  BY Finished
<1>3. ASSUME NEW b \in Inputs, NEW i \in Nat, i - 1 <= Len(M'),
             Knows(Main, i + Off(s, Main), b, version[b])
      PROVE  Knows(Main, i, b, version[b])'
  <2>1. PICK v \in Nat : v = version[b] /\ v = version'[b]
    BY <1>1, <1>2
  <2>2. i - 1 <= Len(queue'[Main]) /\ Knows(Main, i + Off(s, Main), b, v)
    BY <1>3, <2>1 DEF M
  <2>3. Knows(Main, i, b, v)'
    BY <1>1, <2>2, KnowsShifts
  <2> QED
    BY <2>1, <2>3 DEF Knows
<1>4. CASE s # Main
  <2>1. M' = M /\ live' = live /\ Off(s, Main) = 0
    BY <1>4, FinishedStorages DEF Off
  <2>2. Len(M) \in Nat
    BY <1>1, QueueLengths DEF M
  <2>3. ASSUME NEW i \in 1 .. Len(M), NEW b \in Inputs, Knows(Main, i, b, version[b])
        PROVE  Knows(Main, i, b, version[b])'
    <3>1. i \in Nat /\ i - 1 <= Len(M') /\ i + Off(s, Main) = i
      BY <2>1, <2>2
    <3> QED
      BY <1>3, <2>3, <3>1
  <2>4. \A b \in Inputs \ live : content'[b] = version'[b]
    BY <1>1, <1>2 DEF InputsOK
  <2>5. \A i \in 1 .. Len(M) : \A b \in Inputs : IsOp(M[i], "free", b) =>
            Knows(Main, i, b, version[b])'
    BY <2>3 DEF InputsOK
  <2> QED
    BY <1>2, <2>1, <2>4, <2>5 DEF InputsOK
<1>5. CASE s = Main
  <2>1. /\ Len(M) \in Nat /\ 1 \in 1 .. Len(M) /\ M[1] \in Operations
        /\ Len(M') \in Nat /\ Len(M') = Len(M) - 1
        /\ \A i \in 1 .. Len(M') : i + 1 \in 1 .. Len(M) /\ M'[i] = M[i + 1]
        /\ Off(s, Main) = 1
    BY <1>5, MainShifts DEF Off
  <2>2. ASSUME NEW b \in Inputs
        PROVE  b \in live' <=> b \in live /\ ~IsOp(M[1], "free", b)
    <3>1. /\ M[1].op = "alloc" => live' = live \cup {M[1].buf}
          /\ M[1].op = "free" => live' = live \ {M[1].buf}
          /\ M[1].op \notin {"alloc", "free"} => live' = live
      BY <1>5, FinishedStorages DEF M
    <3>2. M[1].op = "alloc" => M[1].buf # b
      BY <1>1, <2>1, OperationFields
    <3> QED
      BY <3>1, <3>2 DEF IsOp
  <2>3. ASSUME NEW i \in 1 .. Len(M'), NEW b \in Inputs, IsOp(M'[i], "free", b)
        PROVE  /\ b \in live'
               /\ Knows(Main, i, b, version[b])'
               /\ \A j \in 1 .. Len(M') : IsOp(M'[j], "free", b) => j = i
               /\ \A j \in 1 .. Len(M') : \A c \in Calls :
                      IsOp(M'[j], "decode", c) /\ b \in ReadsOf(c) => j < i
    <3>1. PICK k \in 1 .. Len(M) : k = i + 1 /\ IsOp(M[k], "free", b)
      BY <2>1, <2>3
    <3>2. /\ b \in live
          /\ Knows(Main, k, b, version[b])
          /\ \A j \in 1 .. Len(M) : IsOp(M[j], "free", b) => j = k
          /\ \A j \in 1 .. Len(M) : \A c \in Calls :
                 IsOp(M[j], "decode", c) /\ b \in ReadsOf(c) => j < k
      BY <3>1 DEF InputsOK
    <3>3. b \in live'
      <4>1. 1 # k
        BY <3>1
      <4> QED
        BY <2>1, <2>2, <3>2, <4>1
    <3>4. Knows(Main, i, b, version[b])'
      <4>1. i \in Nat /\ i - 1 <= Len(M') /\ i + Off(s, Main) = k
        BY <2>1, <3>1
      <4> QED
        BY <1>3, <3>2, <4>1
    <3>5. ASSUME NEW j \in 1 .. Len(M'), IsOp(M'[j], "free", b)
          PROVE  j = i
      <4>1. j + 1 \in 1 .. Len(M) /\ IsOp(M[j + 1], "free", b)
        BY <2>1, <3>5
      <4>2. j + 1 = k
        BY <3>2, <4>1
      <4> QED
        BY <3>1, <4>2
    <3>6. ASSUME NEW j \in 1 .. Len(M'), NEW c \in Calls, IsOp(M'[j], "decode", c), b \in ReadsOf(c)
          PROVE  j < i
      <4>1. j + 1 \in 1 .. Len(M) /\ IsOp(M[j + 1], "decode", c)
        BY <2>1, <3>6
      <4>2. j + 1 < k
        BY <3>2, <3>6, <4>1
      <4> QED
        BY <3>1, <4>2
    <3> QED
      BY <3>3, <3>4, <3>5, <3>6
  <2>4. ASSUME NEW b \in Inputs \ live'
        PROVE  /\ content'[b] = version'[b]
               /\ \A j \in 1 .. Len(M') : \A c \in Calls :
                      IsOp(M'[j], "decode", c) => b \notin ReadsOf(c)
    <3>1. CASE b \notin live
      <4>1. content[b] = version[b] /\ content'[b] = version'[b]
        BY <1>1, <1>2, <3>1 DEF InputsOK
      <4>2. \A j \in 1 .. Len(M) : \A c \in Calls : IsOp(M[j], "decode", c) => b \notin ReadsOf(c)
        BY <3>1 DEF InputsOK
      <4> QED
        BY <2>1, <4>1, <4>2
    <3>2. CASE b \in live /\ IsOp(M[1], "free", b)
      <4>1. /\ Knows(Main, 1, b, version[b])
            /\ \A j \in 1 .. Len(M) : \A c \in Calls :
                   IsOp(M[j], "decode", c) /\ b \in ReadsOf(c) => j < 1
        BY <2>1, <3>2 DEF InputsOK
      <4>2. content[b] >= version[b]
        BY <4>1 DEF Knows
      <4>3. content'[b] = version'[b]
        BY <1>1, <1>2, <4>2
      <4>4. ASSUME NEW j \in 1 .. Len(M'), NEW c \in Calls, IsOp(M'[j], "decode", c), b \in ReadsOf(c)
            PROVE  FALSE
        <5>1. j + 1 \in 1 .. Len(M) /\ IsOp(M[j + 1], "decode", c) /\ j \in Nat
          BY <2>1, <4>4
        <5>2. j + 1 < 1
          BY <4>1, <4>4, <5>1
        <5> QED
          BY <5>1, <5>2
      <4> QED
        BY <4>3, <4>4
    <3> QED
      BY <2>2, <3>1, <3>2
  <2>5. ASSUME NEW b \in Inputs \ dropped'
        PROVE  b \in live' /\ \A i \in 1 .. Len(M') : ~IsOp(M'[i], "free", b)
    <3>1. b \in live /\ \A i \in 1 .. Len(M) : ~IsOp(M[i], "free", b)
      BY <1>2 DEF InputsOK
    <3> QED
      BY <2>1, <2>2, <3>1
  <2> QED
    BY <2>3, <2>4, <2>5 DEF InputsOK
<1> QED
  BY <1>4, <1>5

LEMMA InputsNext ==
    ASSUME Ordered, GraphsOK, InputsOK, [Next]_vars
    PROVE  InputsOK'
<1>1. ASSUME BeginCapture \/ EndCapture
      PROVE  InputsOK'
  BY <1>1, InputsSame DEF BeginCapture, EndCapture, events, device
<1> QED
  BY <1>1, StepKinds, GoesOnInputs, CallInputs, DropInputInputs, ReplayInputs, FinishInputs

LEMMA InputsInit ==
    ASSUME Init
    PROVE  InputsOK
<1>1. M = <<>> /\ live = Inputs /\ dropped = {}
  BY MainIsAStream DEF Init, M
<1>2. Len(M) = 0
  BY <1>1, EmptySeq
<1> QED
  BY <1>1, <1>2 DEF InputsOK

\* A dropped input is freed after its fills and after the decodes that read it.
THEOREM InputsAreHeld == Spec => []InputsOK
<1>1. Init => InputsOK
  BY InputsInit
<1>2. Ordered /\ GraphsOK /\ InputsOK /\ [Next]_vars => InputsOK'
  BY InputsNext
<1> QED
  BY <1>1, <1>2, GuardsOrder, GraphsAreKept, PTL DEF Spec

\* An operation that may be running uses only storages that are allocated,
\* for any storages, calls and streams: the release of an input waits for its
\* fills and follows its decodes on the stream, an output is released once by
\* its call's error or its drop, and a replay allocates what it uses.
THEOREM NeverUsedAfterFree == Spec => []NoUseAfterFree
<1>1. ASSUME Ordered, OutputsOK, InputsOK
      PROVE  NoUseAfterFree
  <2> SUFFICES ASSUME NEW s \in Streams, queue[s] # <<>>
               PROVE  Touched(Head(queue[s])) \subseteq live
    BY DEF NoUseAfterFree
  <2> DEFINE o == queue[s][1]
  <2>1. /\ queue[s] \in Seq(Operations) /\ Len(queue[s]) \in Nat /\ Len(queue[s]) >= 1
        /\ Head(queue[s]) = o /\ o \in Operations
    BY <1>1, OrderedParts, Tailed
  <2>2. 1 \in 1 .. Len(queue[s])
    BY <2>1
  <2>3. s # Main => o.op \in {"fill", "wait", "record"}
    BY <1>1, <2>2, OrderedParts DEF Shape, DeviceShape
  <2>4. s = Main => M[1] = o /\ 1 \in 1 .. Len(M)
    BY <2>2 DEF M
  <2>5. /\ o.op \in {"alloc", "copy", "decode"} => o.buf \in Calls
        /\ o.op = "free" => o.buf \in Inputs \cup Calls
        /\ o.op = "fill" => o.buf \in Inputs /\ o.value \in Nat
    BY <2>1, OperationFields
  <2> HIDE DEF o
  <2>6. ASSUME o.op \in {"decode", "copy", "free"}, o.buf \in Calls
        PROVE  o.buf \in live
    <3>1. s = Main /\ Uses(M[1], o.buf)
      BY <2>3, <2>4, <2>6 DEF Uses
    <3>2. Alive(M, o.buf, 1, live)
      BY <1>1, <2>4, <2>6, <3>1 DEF OutputsOK, UsesAlive
    <3> QED
      BY <3>2 DEF Alive
  <2>7. ASSUME o.op = "decode"
        PROVE  ReadsOf(o.buf) \subseteq live
    <3>1. s = Main /\ IsOp(M[1], "decode", o.buf) /\ o.buf \in Calls
      BY <2>3, <2>4, <2>5, <2>7 DEF IsOp
    <3>2. ReadsOf(o.buf) \in SUBSET Inputs
      BY <3>1, ReadsAreInputs
    <3> QED
      BY <1>1, <2>4, <3>1, <3>2 DEF InputsOK
  <2>8. ASSUME o.op = "free", o.buf \in Inputs
        PROVE  o.buf \in live
    <3>1. s = Main /\ IsOp(M[1], "free", o.buf)
      BY <2>3, <2>4, <2>8 DEF IsOp
    <3> QED
      BY <1>1, <2>4, <2>8, <3>1 DEF InputsOK
  <2>9. ASSUME o.op = "fill"
        PROVE  o.buf \in live
    <3>1. Fills(s, 1, o.buf, o.value)
      BY <2>9 DEF Fills, IsOp, o
    <3>2. content[o.buf] < o.value /\ o.value <= version[o.buf]
      BY <1>1, <2>2, <2>5, <2>9, <3>1 DEF Ordered, FillsOK
    <3>3. content[o.buf] \in Nat /\ version[o.buf] \in Nat
      BY <1>1, <2>5, <2>9, OrderedParts DEF Shape, DeviceShape
    <3>4. content[o.buf] # version[o.buf]
      BY <2>5, <2>9, <3>2, <3>3
    <3> QED
      BY <1>1, <2>5, <2>9, <3>4 DEF InputsOK
  <2>10. CASE o.op = "decode"
    BY <2>1, <2>5, <2>6, <2>7, <2>10 DEF Touched
  <2>11. CASE o.op \in {"fill", "copy", "free"}
    BY <2>1, <2>5, <2>6, <2>8, <2>9, <2>11 DEF Touched
  <2>12. CASE o.op \notin {"decode", "fill", "copy", "free"}
    BY <2>1, <2>12 DEF Touched
  <2> QED
    BY <2>10, <2>11, <2>12
<1> QED
  BY <1>1, GuardsOrder, OutputsAreHeld, InputsAreHeld, PTL

-----------------------------------------------------------------------------
(* The stable copy is of the last replay.                                  *)

LEMMA GoodAtAppended ==
    ASSUME NEW r, NEW n, NEW ops, Appends(r, n, ops), NEW v, NEW x, NEW c,
           NEW k \in 1 .. Len(r), GoodAt(r, v, x, c, k)
    PROVE  GoodAt(n, v, x, c, k)
<1>1. Len(r) \in Nat /\ \A m \in 1 .. k - 1 : n[m] = r[m]
  BY DEF Appends
<1>2. ASSUME NEW i \in 1 .. k, GoodDecodes(r, v, c, i, k)
      PROVE  GoodDecodes(n, v, c, i, k)
  <2>1. \A m \in i .. k - 1 : n[m] = r[m]
    BY <1>1
  <2> QED
    BY <1>2, <2>1 DEF GoodDecodes
<1>3. CASE Good(x, v) /\ GoodDecodes(r, v, c, 1, k)
  <2>1. 1 \in 1 .. k
    BY <1>1
  <2> QED
    BY <1>2, <1>3, <2>1 DEF GoodAt
<1>4. CASE \E i \in 1 .. k - 1 : IsOp(r[i], "decode", c) /\ GoodDecodes(r, v, c, i, k)
  <2>1. PICK i \in 1 .. k - 1 : IsOp(r[i], "decode", c) /\ GoodDecodes(r, v, c, i, k)
    BY <1>4
  <2>2. i \in 1 .. k /\ IsOp(n[i], "decode", c)
    BY <1>1, <2>1
  <2>3. GoodDecodes(n, v, c, i, k)
    BY <1>2, <2>1, <2>2
  <2> QED
    BY <2>2, <2>3 DEF GoodAt
<1> QED
  BY <1>3, <1>4 DEF GoodAt

LEMMA CopiesAppended ==
    ASSUME NEW r, NEW n, NEW ops, Appends(r, n, ops),
           \A m \in 1 .. Len(ops) : ops[m].op # "copy"
    PROVE  /\ (\A k \in 1 .. Len(n) : n[k].op # "copy") => \A k \in 1 .. Len(r) : r[k].op # "copy"
           /\ \A k \in 1 .. Len(n) : \A c \in Calls : LastCopy(n, c, k) =>
                  k \in 1 .. Len(r) /\ LastCopy(r, c, k)
<1>1. /\ Len(r) \in Nat /\ Len(ops) \in Nat /\ Len(n) = Len(r) + Len(ops)
      /\ \A k \in 1 .. Len(r) : k \in 1 .. Len(n) /\ n[k] = r[k]
  BY DEF Appends
<1>2. ASSUME NEW k \in 1 .. Len(n), NEW c \in Calls, LastCopy(n, c, k)
      PROVE  k \in 1 .. Len(r) /\ LastCopy(r, c, k)
  <2>1. k \in 1 .. Len(r)
    <3>1. n[k].op = "copy"
      BY <1>2 DEF LastCopy, IsOp
    <3>2. CASE k - Len(r) \in 1 .. Len(ops) /\ n[k] = ops[k - Len(r)]
      BY <3>1, <3>2
    <3> QED
      BY <3>2, AppendsOldOrNew
  <2>2. \A m \in k + 1 .. Len(r) : m \in 1 .. Len(r) /\ m \in k + 1 .. Len(n)
    BY <1>1, <2>1
  <2> QED
    BY <1>1, <1>2, <2>1, <2>2 DEF LastCopy
<1> QED
  BY <1>1, <1>2

\* A graph is replayed only while nothing is captured.
LEMMA ReplayedOutsideCapture ==
    ASSUME Ordered, replays > 0
    PROVE  ~Capturing /\ graph # None
BY OrderedParts DEF HostOK, ModeOK

\* Nothing is copied by what is enqueued.
LEMMA StableGrows ==
    ASSUME Ordered, StableOK, NEW ops, OnLine(ops), UNCHANGED <<replays, replayed>>,
           \A m \in 1 .. Len(ops) : ops[m].op # "copy"
    PROVE  StableOK'
<1> SUFFICES ASSUME replays > 0
             PROVE  /\ (\A k \in 1 .. Len(M') : M'[k].op # "copy") => Good(stable, replayed)
                    /\ \A k \in 1 .. Len(M') : \A c \in Calls :
                           LastCopy(M', c, k) => GoodAt(M', replayed, content[c], c, k)
  BY DEF StableOK, OnLine, Good, GoodAt, GoodDecodes, LastCopy
<1>1. Appends(M, M', ops)
  BY ReplayedOutsideCapture DEF OnLine, Line
<1>2. /\ (\A k \in 1 .. Len(M') : M'[k].op # "copy") => \A k \in 1 .. Len(M) : M[k].op # "copy"
      /\ \A k \in 1 .. Len(M') : \A c \in Calls : LastCopy(M', c, k) =>
             k \in 1 .. Len(M) /\ LastCopy(M, c, k)
  BY <1>1, CopiesAppended
<1>3. (\A k \in 1 .. Len(M') : M'[k].op # "copy") => Good(stable, replayed)
  BY <1>2 DEF StableOK
<1>4. ASSUME NEW k \in 1 .. Len(M'), NEW c \in Calls, LastCopy(M', c, k)
      PROVE  GoodAt(M', replayed, content[c], c, k)
  <2>1. k \in 1 .. Len(M) /\ GoodAt(M, replayed, content[c], c, k)
    BY <1>2, <1>4 DEF StableOK
  <2> QED
    BY <1>1, <2>1, GoodAtAppended
<1> QED
  BY <1>3, <1>4

LEMMA HostStable ==
    ASSUME Ordered, StableOK,
           \/ GoesOn
           \/ \E c \in Calls : Begin(c) \/ Launch(c) \/ DropOutput(c) \/ Return(c)
           \/ \E b \in Inputs : DropInput(b)
    PROVE  StableOK'
<1>1. CASE GoesOn
  <2>1. PICK ops \in Seq(Operations) : OnLine(ops) /\ Neutral(ops)
    BY <1>1 DEF GoesOn
  <2>2. /\ UNCHANGED <<replays, replayed>>
        /\ \A m \in 1 .. Len(ops) : ops[m].op # "copy"
    BY <1>1, <2>1 DEF GoesOn, Neutral
  <2> QED
    BY <2>1, <2>2, StableGrows
<1>2. ASSUME NEW c \in Calls, Begin(c)
      PROVE  StableOK'
  <2>1. /\ OnLine(<<Alloc(c)>>) /\ UNCHANGED <<replays, replayed>>
        /\ \A i \in 1 .. Len(<<Alloc(c)>>) : <<Alloc(c)>>[i].op # "copy"
    BY <1>2, BeginParts DEF OnMain, IsOp
  <2> QED
    BY <2>1, StableGrows
<1>3. ASSUME NEW c \in Calls, Launch(c)
      PROVE  StableOK'
  <2>1. /\ OnLine(<<Decode(c)>>) /\ UNCHANGED <<replays, replayed>>
        /\ \A i \in 1 .. Len(<<Decode(c)>>) : <<Decode(c)>>[i].op # "copy"
    BY <1>3, LaunchParts DEF OnMain, IsOp
  <2> QED
    BY <2>1, StableGrows
<1>4. ASSUME NEW c \in Calls, DropOutput(c)
      PROVE  StableOK'
  <2>1. /\ OnLine(<<Free(c)>>) /\ UNCHANGED <<replays, replayed>>
        /\ \A i \in 1 .. Len(<<Free(c)>>) : <<Free(c)>>[i].op # "copy"
    BY <1>4, DropOutputParts DEF OnMain, IsOp
  <2> QED
    BY <2>1, StableGrows
<1>5. ASSUME NEW c \in Calls, Return(c)
      PROVE  StableOK'
  <2>1. PICK ops \in Seq(Operations) :
          /\ OnMain(ops)
          /\ \A m \in 1 .. Len(ops) : ops[m].op = "record" \/ IsOp(ops[m], "free", c)
    BY <1>5, ReturnParts
  <2>2. UNCHANGED <<replays, replayed>>
    BY <1>5, ReturnParts
  <2> QED
    BY <2>1, <2>2, StableGrows DEF OnMain, IsOp
<1>6. ASSUME NEW b \in Inputs, DropInput(b)
      PROVE  StableOK'
  <2>1. PICK ops \in Seq(Operations) :
          /\ OnMain(ops)
          /\ \A m \in 1 .. Len(ops) : ops[m].op = "wait" \/ IsOp(ops[m], "free", b)
    BY <1>6, DropInputParts
  <2>2. UNCHANGED <<replays, replayed>>
    BY <1>6, DropInputParts
  <2> QED
    BY <2>1, <2>2, StableGrows DEF OnMain, IsOp
<1> QED
  BY <1>1, <1>2, <1>3, <1>4, <1>5, <1>6

LEMMA CaptureStable ==
    ASSUME Ordered, StableOK, (\E c \in Calls : CopyOut(c)) \/ BeginCapture \/ EndCapture
    PROVE  StableOK'
<1>1. UNCHANGED <<replays, replayed>>
  BY DEF CopyOut, BeginCapture, EndCapture, launches
<1>2. CASE \E c \in Calls : CopyOut(c)
  <2>1. ~(replays > 0)
    BY <1>2, ReplayedOutsideCapture DEF CopyOut
  <2> QED
    BY <1>1, <2>1 DEF StableOK
<1>3. CASE BeginCapture \/ EndCapture
  <2>1. UNCHANGED <<queue, content, stable>>
    BY <1>3 DEF BeginCapture, EndCapture, device
  <2> QED
    BY <1>1, <2>1 DEF StableOK, M, Good, GoodAt, GoodDecodes, LastCopy
<1> QED
  BY <1>2, <1>3

\* A replay copies what it decodes, from what the inputs hold now.
LEMMA ReplayStable ==
    ASSUME Ordered, GraphsOK, Replay
    PROVE  StableOK'
<1> DEFINE ops == ReplayedOps
<1>1. /\ graph # None /\ OnMain(ops) /\ ~Capturing
      /\ Len(graph) \in Nat /\ Len(ops) = Len(graph)
      /\ \A i \in 1 .. Len(graph) : ops[i].op = graph[i].op /\ ops[i].buf = graph[i].buf
      /\ \A i \in 1 .. Len(graph) : graph[i].op = "decode" => ops[i].given = version
      /\ replayed' = version
  BY ReplayParts
<1> HIDE DEF ops
<1>2. Appends(M, M', ops)
  BY <1>1 DEF OnMain, OnLine, Line
<1>3. /\ Len(M) \in Nat /\ Len(ops) \in Nat /\ Len(M') = Len(M) + Len(ops)
      /\ \A i \in 1 .. Len(ops) : M'[Len(M) + i] = ops[i]
  BY <1>2 DEF Appends
<1>4. PICK z \in 1 .. Len(ops) : ops[z].op = "copy"
  <2>1. \E c \in Calls : Has(graph, c, "copy")
    BY <1>1 DEF GraphsOK, GraphOK, CapturedOK
  <2> QED
    BY <1>1, <2>1 DEF Has, IsOp
<1>5. PICK l \in 1 .. Len(M') : l = Len(M) + z /\ M'[l].op = "copy" /\ l > Len(M)
  BY <1>3, <1>4
<1>6. ASSUME NEW k \in 1 .. Len(M'), NEW c \in Calls, LastCopy(M', c, k)
      PROVE  GoodAt(M', version, content'[c], c, k)
  <2>1. k > Len(M)
    <3>1. l \notin k + 1 .. Len(M')
      BY <1>5, <1>6 DEF LastCopy
    <3> QED
      BY <1>3, <1>5, <3>1
  <2>2. PICK m \in 1 .. Len(ops) : k = Len(M) + m /\ M'[k] = ops[m]
    <3>1. k - Len(M) \in 1 .. Len(ops) /\ M'[k] = ops[k - Len(M)] /\ k = Len(M) + (k - Len(M))
      BY <1>2, <1>3, <2>1, AppendsOldOrNew
    <3> QED
      BY <3>1
  <2>3. IsOp(graph[m], "copy", c)
    BY <1>1, <1>6, <2>2 DEF LastCopy, IsOp
  <2>4. PICK i \in 1 .. m - 1 : IsOp(graph[i], "decode", c)
    BY <1>1, <2>2, <2>3 DEF GraphsOK, GraphOK, CapturedOK
  <2>5. PICK j \in 1 .. k - 1 : j = Len(M) + i
    <3>1. Len(M) \in Nat /\ Len(ops) \in Nat
      BY <1>3
    <3>2. m \in Nat /\ i \in Nat /\ 1 <= i /\ i <= m - 1 /\ k = Len(M) + m
      BY <2>2, <2>4, <3>1
    <3>3. Len(M) + i \in 1 .. k - 1
      BY <3>1, <3>2
    <3> QED
      BY <3>3
  <2>6. i \in 1 .. Len(ops) /\ M'[j] = ops[i] /\ IsOp(ops[i], "decode", c)
    <3>1. i \in 1 .. Len(ops)
      BY <1>3, <2>4
    <3> QED
      BY <1>1, <1>3, <2>4, <2>5, <3>1 DEF IsOp
  <2>7. GoodDecodes(M', version, c, j, k)
    <3> SUFFICES ASSUME NEW h \in j .. k - 1, IsOp(M'[h], "decode", c), NEW b \in ReadsOf(c)
                 PROVE  M'[h].given[b] = version[b]
      BY DEF GoodDecodes
    <3>1. PICK g \in 1 .. Len(ops) : h = Len(M) + g
      <4>1. h - Len(M) \in 1 .. Len(ops) /\ h = Len(M) + (h - Len(M))
        BY <1>3, <2>2, <2>4, <2>5
      <4> QED
        BY <4>1
    <3>2. M'[h] = ops[g]
      BY <1>3, <3>1
    <3>3. graph[g].op = "decode" /\ ops[g].given = version
      BY <1>1, <3>2 DEF IsOp
    <3> QED
      BY <3>2, <3>3
  <2> QED
    BY <2>6, <2>7 DEF GoodAt
<1>7. ~ \A k \in 1 .. Len(M') : M'[k].op # "copy"
  BY <1>5
<1>8. \A k \in 1 .. Len(M') : \A c \in Calls :
          LastCopy(M', c, k) => GoodAt(M', replayed', content'[c], c, k)
  BY <1>1, <1>6
<1> QED
  BY <1>7, <1>8 DEF StableOK, GoodAt, GoodDecodes, LastCopy, Good

LEMMA GoodDecodesShift ==
    ASSUME NEW r, NEW n, Len(r) \in Nat, Len(n) = Len(r) - 1,
           \A i \in 1 .. Len(n) : n[i] = r[i + 1],
           NEW v, NEW c, NEW k \in 1 .. Len(n), NEW i \in Nat, i >= 1,
           GoodDecodes(r, v, c, i + 1, k + 1) \/ GoodDecodes(r, v, c, i, k + 1)
    PROVE  GoodDecodes(n, v, c, i, k)
<1> SUFFICES ASSUME NEW m \in i .. k - 1, IsOp(n[m], "decode", c)
             PROVE  \A b \in ReadsOf(c) : n[m].given[b] = v[b]
  BY DEF GoodDecodes
<1>1. /\ m \in 1 .. Len(n) /\ m + 1 \in i + 1 .. (k + 1) - 1 /\ m + 1 \in i .. (k + 1) - 1
  OBVIOUS
<1>2. n[m] = r[m + 1]
  BY <1>1
<1> QED
  BY <1>1, <1>2 DEF GoodDecodes

\* What output c is made of, x, becomes y when the head is done.
LEMMA GoodAtShifts ==
    ASSUME NEW r, NEW n, Len(r) \in Nat, Len(n) = Len(r) - 1,
           \A i \in 1 .. Len(n) : n[i] = r[i + 1],
           NEW v, NEW x, NEW y, NEW c, NEW k \in 1 .. Len(n), GoodAt(r, v, x, c, k + 1),
           ~IsOp(r[1], "decode", c) => y = x,
           IsOp(r[1], "decode", c) /\ (\A b \in ReadsOf(c) : r[1].given[b] = v[b]) => Good(y, v)
    PROVE  GoodAt(n, v, y, c, k)
<1>1. ASSUME GoodDecodes(r, v, c, 1, k + 1), Good(y, v)
      PROVE  GoodAt(n, v, y, c, k)
  <2>1. 1 \in Nat /\ 1 >= 1
    OBVIOUS
  <2>2. GoodDecodes(n, v, c, 1, k)
    BY <1>1, <2>1, GoodDecodesShift
  <2> QED
    BY <1>1, <2>2 DEF GoodAt
<1>2. ASSUME GoodDecodes(r, v, c, 1, k + 1), IsOp(r[1], "decode", c)
      PROVE  Good(y, v)
  <2>1. 1 \in 1 .. (k + 1) - 1
    OBVIOUS
  <2> QED
    BY <1>2, <2>1 DEF GoodDecodes
<1>3. CASE Good(x, v) /\ GoodDecodes(r, v, c, 1, k + 1)
  BY <1>1, <1>2, <1>3
<1>4. CASE \E i \in 1 .. (k + 1) - 1 :
               IsOp(r[i], "decode", c) /\ GoodDecodes(r, v, c, i, k + 1)
  <2>1. PICK i \in 1 .. (k + 1) - 1 :
               IsOp(r[i], "decode", c) /\ GoodDecodes(r, v, c, i, k + 1)
    BY <1>4
  <2>2. CASE i = 1
    BY <1>1, <1>2, <2>1, <2>2
  <2>3. CASE i # 1
    <3>1. PICK j \in Nat : i = j + 1 /\ j >= 1
      BY <2>3
    <3>2. j \in 1 .. k - 1 /\ IsOp(n[j], "decode", c)
      <4>1. j \in 1 .. k - 1 /\ j \in 1 .. Len(n)
        BY <3>1
      <4> QED
        BY <2>1, <3>1, <4>1
    <3>3. GoodDecodes(n, v, c, j, k)
      BY <2>1, <3>1, GoodDecodesShift
    <3> QED
      BY <3>2, <3>3 DEF GoodAt
  <2> QED
    BY <2>2, <2>3
<1> QED
  BY <1>3, <1>4 DEF GoodAt

LEMMA FinishStable ==
    ASSUME Ordered, StableOK, CallsReadWhatTheyWereGiven, NEW s \in Streams, Finish(s)
    PROVE  StableOK'
<1>1. UNCHANGED <<replays, replayed>>
  BY Finished
<1> SUFFICES ASSUME replays > 0
             PROVE  /\ (\A k \in 1 .. Len(M') : M'[k].op # "copy") => Good(stable', replayed)
                    /\ \A k \in 1 .. Len(M') : \A c \in Calls :
                           LastCopy(M', c, k) => GoodAt(M', replayed, content'[c], c, k)
  BY <1>1 DEF StableOK, Good, GoodAt, GoodDecodes, LastCopy
<1>2. CASE s # Main
  <2>1. /\ M' = M /\ stable' = stable
        /\ \A c \in Calls : content'[c] = content[c]
    BY <1>2, FinishedStorages DEF IsOp
  <2> QED
    BY <2>1 DEF StableOK
<1>3. CASE s = Main
  <2>1. /\ Len(M) \in Nat /\ 1 \in 1 .. Len(M) /\ M[1] \in Operations
        /\ Len(M') \in Nat /\ Len(M') = Len(M) - 1
        /\ \A i \in 1 .. Len(M') : i + 1 \in 1 .. Len(M) /\ M'[i] = M[i + 1]
    BY <1>3, MainShifts
  <2>2. /\ M[1].op = "copy" => stable' = content[M[1].buf]
        /\ M[1].op # "copy" => stable' = stable
        /\ \A c \in Calls : IsOp(M[1], "decode", c) =>
               content'[c] = [b \in ReadsOf(c) |-> content[b]]
        /\ \A c \in Calls : ~IsOp(M[1], "decode", c) => content'[c] = content[c]
    BY <1>3, FinishedStorages DEF M
  <2>3. ASSUME NEW c \in Calls, IsOp(M[1], "decode", c),
               \A b \in ReadsOf(c) : M[1].given[b] = replayed[b]
        PROVE  Good(content'[c], replayed)
    <3>1. /\ queue[Main] # <<>> /\ Head(queue[Main]) = M[1]
      <4>1. /\ Main \in Streams /\ queue \in [Streams -> Seq(Operations)] /\ queue[Main] # <<>>
            /\ queue' = [queue EXCEPT ![Main] = Tail(@)]
        BY <1>3, MainIsAStream, Finished
      <4> QED
        BY <4>1, Popped DEF M
    <3>2. \A b \in ReadsOf(c) : content[b] = M[1].given[b]
      BY <2>3, <3>1, MainIsAStream DEF CallsReadWhatTheyWereGiven, IsOp
    <3>3. \A b \in ReadsOf(c) : content[b] \in Nat
      BY ReadsAreInputs, OrderedParts DEF Shape, DeviceShape
    <3>4. content'[c] \in [ReadsOf(c) -> Nat]
      <4>1. content'[c] = [b \in ReadsOf(c) |-> content[b]]
        BY <2>2, <2>3
      <4>2. [b \in ReadsOf(c) |-> content[b]] \in [ReadsOf(c) -> Nat]
        BY <3>3
      <4> QED
        BY <4>1, <4>2
    <3>5. content'[c] # None
      BY <3>4, NoneAssumption
    <3>6. DOMAIN content'[c] = ReadsOf(c) /\ \A b \in ReadsOf(c) : content'[c][b] = content[b]
      BY <2>2, <2>3
    <3> QED
      BY <2>3, <3>2, <3>5, <3>6 DEF Good
  <2>4. ASSUME NEW k \in 1 .. Len(M'), NEW c \in Calls, LastCopy(M', c, k)
        PROVE  GoodAt(M', replayed, content'[c], c, k)
    <3>1. k + 1 \in 1 .. Len(M) /\ M'[k] = M[k + 1] /\ k \in Nat
      BY <2>1
    <3>2. ASSUME NEW m \in (k + 1) + 1 .. Len(M)
          PROVE  M[m].op # "copy"
      <4>1. PICK j \in k + 1 .. Len(M') : m = j + 1 /\ j \in 1 .. Len(M')
        <5>1. m - 1 \in k + 1 .. Len(M') /\ m = (m - 1) + 1 /\ m - 1 \in 1 .. Len(M')
          BY <2>1, <3>1
        <5> QED
          BY <5>1
      <4>2. M'[j] = M[m]
        BY <2>1, <4>1
      <4> QED
        BY <2>4, <4>1, <4>2 DEF LastCopy
    <3>3. LastCopy(M, c, k + 1)
      BY <2>4, <3>1, <3>2 DEF LastCopy
    <3>4. GoodAt(M, replayed, content[c], c, k + 1)
      BY <3>1, <3>3 DEF StableOK
    <3>5. \A i \in 1 .. Len(M') : M'[i] = M[i + 1]
      BY <2>1
    <3>6. /\ ~IsOp(M[1], "decode", c) => content'[c] = content[c]
          /\ IsOp(M[1], "decode", c) /\ (\A b \in ReadsOf(c) : M[1].given[b] = replayed[b])
                 => Good(content'[c], replayed)
      BY <2>2, <2>3
    <3> QED
      BY <2>1, <3>4, <3>5, <3>6, GoodAtShifts
  <2>5. ASSUME \A k \in 1 .. Len(M') : M'[k].op # "copy"
        PROVE  Good(stable', replayed)
    <3>1. \A k \in 1 + 1 .. Len(M) : M[k].op # "copy"
      <4> SUFFICES ASSUME NEW k \in 1 + 1 .. Len(M)
                   PROVE  M[k].op # "copy"
        OBVIOUS
      <4>1. PICK j \in 1 .. Len(M') : k = j + 1
        <5>1. k - 1 \in 1 .. Len(M') /\ k = (k - 1) + 1
          BY <2>1
        <5> QED
          BY <5>1
      <4> QED
        BY <2>1, <2>5, <4>1
    <3>2. CASE M[1].op = "copy"
      <4>1. M[1].buf \in Calls
        BY <2>1, <3>2, OperationFields
      <4>2. PICK c \in Calls : c = M[1].buf
        BY <4>1
      <4>3. LastCopy(M, c, 1)
        BY <3>1, <3>2, <4>2 DEF LastCopy, IsOp
      <4>4. GoodAt(M, replayed, content[c], c, 1)
        BY <2>1, <4>3 DEF StableOK
      <4>5. Good(content[c], replayed)
        <5>1. \A i \in 1 .. 1 - 1 : FALSE
          OBVIOUS
        <5> QED
          BY <4>4, <5>1 DEF GoodAt
      <4> QED
        BY <2>2, <3>2, <4>2, <4>5
    <3>3. CASE M[1].op # "copy"
      <4>1. \A k \in 1 .. Len(M) : k = 1 \/ k \in 1 + 1 .. Len(M)
        BY <2>1
      <4>2. \A k \in 1 .. Len(M) : M[k].op # "copy"
        BY <3>1, <3>3, <4>1
      <4> QED
        BY <2>2, <3>3, <4>2 DEF StableOK
    <3> QED
      BY <3>2, <3>3
  <2> QED
    BY <2>4, <2>5
<1> QED
  BY <1>2, <1>3

LEMMA StableNext ==
    ASSUME Ordered, GraphsOK, CallsReadWhatTheyWereGiven, StableOK, [Next]_vars
    PROVE  StableOK'
BY StepKinds, HostStable, CaptureStable, ReplayStable, FinishStable

\* Once the stream is idle the stable copy is of the last replay, made from
\* what the inputs held at that replay, for any number of replays, refills
\* and streams: the graph copies what it decodes before it, and a decode reads
\* what its inputs were given.
THEOREM StableAlwaysFromLastReplay == Spec => []StableIsFromLastReplay
<1>1. Init => StableOK
  BY DEF Init, StableOK
<1>2. Ordered /\ GraphsOK /\ CallsReadWhatTheyWereGiven /\ StableOK /\ [Next]_vars => StableOK'
  BY StableNext
<1>3. StableOK => StableIsFromLastReplay
  <2> SUFFICES ASSUME StableOK, replays > 0, M = <<>>
               PROVE  Good(stable, replayed)
    BY DEF StableIsFromLastReplay, Good, M
  <2>1. Len(M) = 0
    BY EmptySeq
  <2> QED
    BY <2>1 DEF StableOK
<1> QED
  BY <1>1, <1>2, <1>3, GuardsOrder, GraphsAreKept, CallsReadWhatTheyWereGivenAlways, PTL DEF Spec
=============================================================================
