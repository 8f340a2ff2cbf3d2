---------------------------- MODULE TensorGuards ----------------------------
(***************************************************************************)
(* How a call of candle-flashmla takes device pointers from tensors        *)
(* (candle-flashmla/src/tensor.rs) and what orders its kernel among the    *)
(* other uses of the same storages.  The call locks each storage for       *)
(* reading, takes a pointer, for which cudarc makes the stream wait until  *)
(* the storage was written, launches, and drops the pointers' guards,      *)
(* which record on the stream that the storage was read.  Meanwhile the    *)
(* program refills storages through Candle, on this stream or another one, *)
(* and drops them and the outputs of calls.                                *)
(*                                                                         *)
(* A program that uses only the stream of its device may switch cudarc's   *)
(* events off and capture a call in a graph, as the smoke test does.       *)
(*                                                                         *)
(* Outputs and workspaces are used on the one stream that allocates them,  *)
(* so their events order nothing and are left out, as are the workspaces.  *)
(***************************************************************************)
EXTENDS Naturals, Sequences, SequencesExt

CONSTANTS
    Streams,      \* CUDA streams of the device
    Main,         \* the stream of the Candle device
    Inputs,       \* storages that calls read
    Calls,        \* calls, each made at most once, by a thread of its own
    Reads,        \* Reads[c]: the storages c reads, in the order of its locks
    Depth,        \* Depth[b]: how many locks may be taken after b's
    None,         \* nothing: no content, no pending refill, no graph
    MaxRefills,   \* bound: refills of storages
    MaxReplays    \* bound: launches of the graph

\* Storages are locked in one order.  Two views of one storage given to one
\* call, or a prefill and a decode that share topk_length and attn_sink, which
\* they lock in opposite orders, can wait for writers that wait for them.
ASSUME GuardsAssumption ==
    /\ Main \in Streams
    /\ Inputs \cap Calls = {}
    /\ None \notin Streams
    /\ MaxRefills \in Nat /\ MaxReplays \in Nat
    /\ \A c \in Calls : Reads[c] \in Seq(Inputs) \ {<<>>}
    /\ Depth \in [Inputs -> Nat]
    /\ \A c \in Calls : \A i, j \in DOMAIN Reads[c] :
           i < j => Depth[Reads[c][i]] > Depth[Reads[c][j]]

VARIABLES
    tracking,   \* cudarc's events are on
    call,       \* call[c]: how far call c is, and the locks or guards it holds
    readers,    \* readers[b]: the calls that hold b's read lock
    writer,     \* writer[b]: the stream of the refill waiting for b's write lock, or None
    dropped,    \* the inputs that the program dropped
    version,    \* version[b]: the refills of b enqueued so far
    recorded,   \* recorded[b][k]: how often event k of b was recorded
    tape,       \* the operations of the capture in progress, or None
    graph,      \* the operations of the graph, or None
    replays,    \* the number of replays
    replayed,   \* the versions at the last replay
    queue,      \* queue[s]: the operations on s that have not finished
    done,       \* the records of events that finished
    live,       \* the buffers that are allocated
    content,    \* content[b]: what input b holds, or what output b was made of
    stable      \* what the copy of the captured output was made of

calls == <<call, readers>>
events == <<version, recorded>>
launches == <<replays, replayed>>
graphs == <<tape, graph, launches>>
device == <<done, live, content, stable>>
vars == <<tracking, calls, writer, dropped, events, graphs, queue, device>>

Kinds == {"read", "write"}
ReadsOf(c) == ToSet(Reads[c])
FirstReads(c, n) == {Reads[c][i] : i \in 1 .. n}
Idle(c) == call[c].step \in {"new", "ok", "err", "dropped"}
Capturing == tape # None
Refills == MapThenSumSet(LAMBDA b : version[b] + IF writer[b] = None THEN 0 ELSE 1, Inputs)

Init ==
    /\ tracking \in BOOLEAN
    /\ call = [c \in Calls |-> [step |-> "new", n |-> 0, ok |-> FALSE]]
    /\ readers = [b \in Inputs |-> {}]
    /\ writer = [b \in Inputs |-> None]
    /\ dropped = {}
    /\ version = [b \in Inputs |-> 0]
    /\ recorded = [b \in Inputs |-> [k \in Kinds |-> 0]]
    /\ tape = None /\ graph = None /\ replays = 0 /\ replayed = version
    /\ queue = [s \in Streams |-> <<>>]
    /\ done = {}
    /\ live = Inputs
    /\ content = [b \in Inputs \cup Calls |-> IF b \in Inputs THEN 0 ELSE None]
    /\ stable = None

(***************************************************************************)
(* Operations on a stream: those of a stream being captured go to the      *)
(* graph.  An event is waited for as it was last recorded.                 *)
(***************************************************************************)
Alloc(b) == [op |-> "alloc", buf |-> b]
Free(b) == [op |-> "free", buf |-> b]
Fill(b) == [op |-> "fill", buf |-> b, value |-> version[b] + 1]
Copy(c) == [op |-> "copy", buf |-> c]
\* given is what the inputs hold once everything before it is done.
Decode(c) == [op |-> "decode", buf |-> c, given |-> version]

Events == Inputs \X Kinds \X Nat
CallOperations ==
    [op : {"alloc", "free", "copy"}, buf : Calls]
    \cup [op : {"decode"}, buf : Calls, given : [Inputs -> Nat]]
Operations ==
    CallOperations
    \cup [op : {"free"}, buf : Inputs] \cup [op : {"fill"}, buf : Inputs, value : Nat]
    \cup [op : {"wait", "record"}, events : SUBSET Events]

\* What is nothing is neither a sequence of operations nor a content.
ASSUME NoneAssumption ==
    /\ None \notin Seq(CallOperations)
    /\ \A c \in Calls : None \notin [ReadsOf(c) -> Nat]

\* Waiting for an event that was never recorded is no wait; and is one.
WaitAnyway(bs, ks) ==
    IF ~tracking \/ bs = {} THEN <<>>
    ELSE <<[op |-> "wait", events |-> {<<b, k, recorded[b][k]>> : b \in bs, k \in ks}]>>
Wait(bs, ks) ==
    LET last == {e \in {<<b, k, recorded[b][k]>> : b \in bs, k \in ks} : tracking /\ e[3] > 0}
    IN IF last = {} THEN <<>> ELSE <<[op |-> "wait", events |-> last]>>

Record(bs, k) ==
    IF ~tracking \/ bs = {} THEN <<>>
    ELSE <<[op |-> "record", events |-> {<<b, k, recorded[b][k] + 1>> : b \in bs}]>>

Recorded(bs, k) ==
    recorded' = [b \in Inputs |-> IF tracking /\ b \in bs
                                  THEN [recorded[b] EXCEPT ![k] = @ + 1]
                                  ELSE recorded[b]]

Enqueue(s, ops) ==
    IF Capturing /\ s = Main
    THEN tape' = tape \o ops /\ queue' = queue
    ELSE queue' = [queue EXCEPT ![s] = @ \o ops] /\ tape' = tape

(***************************************************************************)
(* A call                                                                  *)
(***************************************************************************)
\* The stream of the device of the call's tensors; and another one.
AnotherStream == IF Streams = {Main} THEN Main ELSE CHOOSE s \in Streams : s # Main
CallStream == Main

Begin(c) ==
    /\ call[c].step = "new"
    /\ ReadsOf(c) \cap dropped = {}
    /\ Capturing => \A d \in Calls : Idle(d) /\ call[d].step # "ok"
    /\ Enqueue(Main, <<Alloc(c)>>)
    /\ call' = [call EXCEPT ![c].step = "lock"]
    /\ UNCHANGED <<tracking, readers, writer, dropped, events, graph, launches, device>>

\* A read lock is not granted while a writer waits.
Lock(c) ==
    /\ call[c].step = "lock"
    /\ LET n == call[c].n + 1
           b == Reads[c][n]
       IN /\ writer[b] = None
          /\ readers' = [readers EXCEPT ![b] = @ \cup {c}]
          /\ call' = [call EXCEPT ![c] = IF n = Len(Reads[c])
                                         THEN [@ EXCEPT !.step = "point", !.n = 0]
                                         ELSE [@ EXCEPT !.n = n]]
    /\ UNCHANGED <<tracking, writer, dropped, events, graphs, queue, device>>

\* The first n pointers are taken; the rest cannot be if n is less than all.
Point(c, n) ==
    /\ call[c].step = "point"
    /\ Enqueue(CallStream, Wait(FirstReads(c, n), {"write"}))
    /\ call' = [call EXCEPT ![c].n = n,
                            ![c].step = IF n = Len(Reads[c]) THEN "launch" ELSE "end"]
    /\ UNCHANGED <<tracking, readers, writer, dropped, events, graph, launches, device>>

Launch(c) ==
    /\ call[c].step = "launch"
    /\ Enqueue(CallStream, <<Decode(c)>>)
    /\ call' = [call EXCEPT ![c].step = "end", ![c].ok = TRUE]
    /\ UNCHANGED <<tracking, readers, writer, dropped, events, graph, launches, device>>

LaunchFails(c) ==
    /\ call[c].step = "launch"
    /\ call' = [call EXCEPT ![c].step = "end"]
    /\ UNCHANGED <<tracking, readers, writer, dropped, events, graphs, queue, device>>

\* The inputs whose pointers were taken: they are guarded until the return;
\* and pointers taken without a guard.
NothingGuarded(c) == {}
Guarded(c) == FirstReads(c, call[c].n)

\* The locks are given back; and kept, by guards that outlive the call.
KeepLocks(c) == readers' = readers
Unlock(c) == readers' = [b \in Inputs |-> readers[b] \ {c}]

\* The guards are dropped, then the locks; an error also drops the output.
Return(c) ==
    /\ call[c].step = "end"
    /\ Enqueue(CallStream, Record(Guarded(c), "read")
                           \o IF call[c].ok THEN <<>> ELSE <<Free(c)>>)
    /\ Recorded(Guarded(c), "read")
    /\ Unlock(c)
    /\ call' = [call EXCEPT ![c].step = IF call[c].ok THEN "ok" ELSE "err"]
    /\ UNCHANGED <<tracking, writer, dropped, version, graph, launches, device>>

(***************************************************************************)
(* The program around the calls.  Storages keep their stream order through *)
(* Candle and cudarc; while a capture is in progress the program does      *)
(* nothing but the captured call and the copy of its output.               *)
(***************************************************************************)
\* Without events everything is done on the one stream.
RefillBegin(b, s) ==
    /\ ~Capturing /\ b \notin dropped /\ writer[b] = None
    /\ Refills < MaxRefills
    /\ s = Main \/ tracking
    /\ writer' = [writer EXCEPT ![b] = s]
    /\ UNCHANGED <<tracking, calls, dropped, events, graphs, queue, device>>

\* The write lock is held while the fill and what orders it are enqueued.
Refill(b) ==
    /\ writer[b] # None /\ readers[b] = {}
    /\ Enqueue(writer[b], Wait({b}, Kinds) \o <<Fill(b)>> \o Record({b}, "write"))
    /\ Recorded({b}, "write")
    /\ version' = [version EXCEPT ![b] = @ + 1]
    /\ writer' = [writer EXCEPT ![b] = None]
    /\ UNCHANGED <<tracking, calls, dropped, graph, launches, device>>

\* The last reference goes.  A graph holds raw pointers and no reference: the
\* program keeps the inputs of a captured call.
DropInput(b) ==
    /\ ~Capturing /\ b \notin dropped /\ writer[b] = None
    /\ \A c \in Calls : b \in ReadsOf(c) => Idle(c)
    /\ graph # None => \A c \in Calls : Copy(c) \in ToSet(graph) => b \notin ReadsOf(c)
    /\ Enqueue(Main, Wait({b}, Kinds) \o <<Free(b)>>)
    /\ dropped' = dropped \cup {b}
    /\ UNCHANGED <<tracking, calls, writer, events, graph, launches, device>>

\* In a capture the output is dropped after it was copied.
DropOutput(c) ==
    /\ call[c].step = "ok"
    /\ Capturing => Copy(c) \in ToSet(tape)
    /\ Enqueue(Main, <<Free(c)>>)
    /\ call' = [call EXCEPT ![c].step = "dropped"]
    /\ UNCHANGED <<tracking, readers, writer, dropped, events, graph, launches, device>>

(***************************************************************************)
(* A graph                                                                 *)
(***************************************************************************)
\* A capture is begun with the events off; and whatever they are.
BeginCaptureAnyway ==
    /\ ~Capturing /\ graph = None
    /\ \A c \in Calls : Idle(c) /\ call[c].step # "ok"
    /\ tape' = <<>>
    /\ UNCHANGED <<tracking, calls, writer, dropped, events, graph, launches, queue, device>>

BeginCapture ==
    /\ ~tracking /\ ~Capturing /\ graph = None
    /\ \A c \in Calls : Idle(c) /\ call[c].step # "ok"
    /\ \A b \in Inputs : writer[b] = None
    /\ tape' = <<>>
    /\ UNCHANGED <<tracking, calls, writer, dropped, events, graph, launches, queue, device>>

CopyOut(c) ==
    /\ Capturing /\ call[c].step = "ok" /\ Copy(c) \notin ToSet(tape)
    /\ Enqueue(Main, <<Copy(c)>>)
    /\ UNCHANGED <<tracking, calls, writer, dropped, events, graph, launches, device>>

\* The captured call's output was copied and freed on the tape.  A capture in
\* which the call failed is not ended, unless another call is captured in it.
EndCapture ==
    /\ Capturing
    /\ \E c \in Calls : Copy(c) \in ToSet(tape)
    /\ \A c \in Calls : Idle(c) /\ call[c].step # "ok"
    /\ graph' = tape
    /\ tape' = None
    /\ UNCHANGED <<tracking, calls, writer, dropped, events, launches, queue, device>>

\* The graph's decode reads what its inputs hold now, not when it was captured.
Replay ==
    /\ graph # None /\ replays < MaxReplays
    /\ queue' = [queue EXCEPT ![Main] = @ \o [i \in DOMAIN graph |->
                     IF graph[i].op = "decode" THEN Decode(graph[i].buf) ELSE graph[i]]]
    /\ replays' = replays + 1
    /\ replayed' = version
    /\ UNCHANGED <<tracking, calls, writer, dropped, events, tape, graph, device>>

(***************************************************************************)
(* The device finishes the operation at the head of a stream.              *)
(***************************************************************************)
Ready(op) == op.op = "wait" => op.events \subseteq done

Finish(s) ==
    /\ queue[s] # <<>>
    /\ LET op == Head(queue[s])
       IN /\ Ready(op)
          /\ live' = CASE op.op = "alloc" -> live \cup {op.buf}
                       [] op.op = "free"  -> live \ {op.buf}
                       [] OTHER -> live
          /\ content' = CASE op.op = "fill" -> [content EXCEPT ![op.buf] = op.value]
                          [] op.op = "decode" ->
                                 [content EXCEPT ![op.buf] = [b \in ReadsOf(op.buf) |-> content[b]]]
                          [] OTHER -> content
          /\ stable' = IF op.op = "copy" THEN content[op.buf] ELSE stable
          /\ done' = IF op.op = "record" THEN done \cup op.events ELSE done
    /\ queue' = [queue EXCEPT ![s] = Tail(@)]
    /\ UNCHANGED <<tracking, calls, writer, dropped, events, graphs>>

CallStep(c) ==
    \/ Lock(c)
    \/ \E n \in 0 .. Len(Reads[c]) : Point(c, n)
    \/ Launch(c) \/ LaunchFails(c)
    \/ Return(c)

Next ==
    \/ \E c \in Calls : Begin(c) \/ CallStep(c) \/ DropOutput(c) \/ CopyOut(c)
    \/ \E b \in Inputs : Refill(b) \/ DropInput(b) \/ \E s \in Streams : RefillBegin(b, s)
    \/ BeginCapture \/ EndCapture \/ Replay
    \/ \E s \in Streams : Finish(s)

\* A thread inside a call or a refill goes on, and streams make progress.
Fairness ==
    /\ \A c \in Calls : WF_vars(CallStep(c))
    /\ \A b \in Inputs : WF_vars(Refill(b))
    /\ \A s \in Streams : WF_vars(Finish(s))

Spec == Init /\ [][Next]_vars /\ Fairness
-----------------------------------------------------------------------------
\* The type of the host's state and of the device's.
TypeOK ==
    /\ tracking \in BOOLEAN
    /\ queue \in [Streams -> Seq(Operations)]
    /\ tape # None => tape \in Seq(CallOperations)
    /\ graph # None => graph \in Seq(CallOperations)
    /\ \A c \in Calls :
           /\ call[c].step \in {"new", "lock", "point", "launch", "end", "ok", "err", "dropped"}
           /\ call[c].n \in 0 .. Len(Reads[c])
           /\ call[c].ok \in BOOLEAN
    /\ readers \in [Inputs -> SUBSET Calls]
    /\ writer \in [Inputs -> Streams \cup {None}]
    /\ dropped \subseteq Inputs
    /\ version \in [Inputs -> Nat]
    /\ replays \in 0 .. MaxReplays
    /\ live \subseteq Inputs \cup Calls
    /\ tracking => ~Capturing /\ graph = None

\* A decode that may be running reads, in every input, what had been put there
\* when it was launched (or its graph replayed): neither an earlier fill that
\* is still on its way nor a later one, whatever streams the fills use.
CallsReadWhatTheyWereGiven ==
    \A s \in Streams : queue[s] # <<>> =>
        LET op == Head(queue[s])
        IN op.op = "decode" => \A b \in ReadsOf(op.buf) : content[b] = op.given[b]

Touched(op) ==
    CASE op.op = "decode" -> ReadsOf(op.buf) \cup {op.buf}
      [] op.op \in {"fill", "copy", "free"} -> {op.buf}
      [] OTHER -> {}

\* An operation that may be running uses only storages that are allocated,
\* though the host dropped tensors long before, and a graph replays the
\* allocation and the release of its output.
NoUseAfterFree ==
    \A s \in Streams : queue[s] # <<>> => Touched(Head(queue[s])) \subseteq live

\* Once the stream is idle the stable copy is of the last replay, made from
\* what the inputs held at that replay.
StableIsFromLastReplay ==
    replays > 0 /\ queue[Main] = <<>> =>
        stable # None /\ \A b \in DOMAIN stable : stable[b] = replayed[b]

\* A call that began returns: its locks, taken one by one under the other
\* calls and under writers, never leave everyone waiting.
CallsReturn == \A c \in Calls : call[c].step = "lock" ~> call[c].step \in {"ok", "err", "dropped"}

\* While a call takes its locks or a refill waits for one, some thread can go
\* on: a call that has its locks, a call that no writer keeps from its next
\* lock, or a refill that no reader holds up.
SomeThreadGoesOn ==
    (\E c \in Calls : call[c].step = "lock") \/ (\E b \in Inputs : writer[b] # None) =>
        \/ \E c \in Calls : call[c].step \in {"point", "launch", "end"}
        \/ \E c \in Calls : call[c].step = "lock" /\ writer[Reads[c][call[c].n + 1]] = None
        \/ \E b \in Inputs : writer[b] # None /\ readers[b] = {}

\* Streams that wait for each other's events never all wait: while operations
\* are queued, one that can be executed is at the head of its stream.
SomeStreamGoesOn ==
    (\E s \in Streams : queue[s] # <<>>) =>
        \E s \in Streams : queue[s] # <<>> /\ Ready(Head(queue[s]))

\* Once every stream is idle nothing is left over: each input holds its last
\* refill, exactly the undropped inputs and the outputs of calls in progress or
\* not yet dropped are allocated (none is, of a captured call), and the outputs
\* of the calls that returned are computed.
AllDoneWhenIdle ==
    (\A s \in Streams : queue[s] = <<>>) =>
        /\ \A b \in Inputs : content[b] = version[b] /\ (b \in live <=> b \notin dropped)
        /\ \A c \in Calls : c \in live <=>
               ~Capturing /\ call[c].step \in {"lock", "point", "launch", "end", "ok"}
        /\ \A c \in Calls : ~Capturing /\ call[c].step = "ok" => content[c] # None

\* What decodes on a stream are to compute, and what outputs were computed from.
Snapshot(c, g) == [call |-> c, given |-> [b \in ReadsOf(c) |-> g[b]]]
Pending ==
    {Snapshot(op.buf, op.given) :
        op \in {o \in UNION {ToSet(queue[s]) : s \in Streams} : o.op = "decode"}}
Computed == [c \in Calls |-> content[c]]

\* The calls, refills and replays as if there were one thread and one stream.
Service == INSTANCE StorageService WITH
    Inputs <- Inputs,
    Calls <- Calls,
    ReadSet <- [c \in Calls |-> ReadsOf(c)],
    None <- None,
    version <- version,
    pending <- Pending,
    output <- Computed

\* Every output is computed from one snapshot of its inputs, the one of the
\* moment its call was launched or its graph replayed, in the order of those
\* moments, and it does get computed (StorageService).
ImplementsService == Service!Spec
=============================================================================
