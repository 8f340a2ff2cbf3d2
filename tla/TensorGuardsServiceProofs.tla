---------------------- MODULE TensorGuardsServiceProofs ----------------------
(***************************************************************************)
(* Proofs about TensorGuards: locks and events never leave every thread or *)
(* every stream waiting, the calls, refills and replays are those of       *)
(* StorageService, and nothing is left over when the streams are idle, for *)
(* any storages, calls, streams and numbers of refills and replays.        *)
(***************************************************************************)
EXTENDS TensorGuardsMemoryProofs, WellFoundedInduction

-----------------------------------------------------------------------------
(* Whoever waits for something of a higher rank is not waited for by what  *)
(* has the least.                                                          *)

\* A set of numbers has a least one.
LEMMA LeastNatural ==
    ASSUME NEW T \in SUBSET Nat, T # {}
    PROVE  \E m \in T : \A k \in T : m <= k
<1> DEFINE R == OpToRel(<, Nat)
<1>1. IsWellFoundedOn(R, Nat)
  BY NatLessThanWellFounded
<1>2. \A x, y \in Nat : x < y => <<x, y>> \in R
  BY DEF OpToRel
<1> HIDE DEF R
<1>3. PICK m \in T : \A k \in T : ~ (<<k, m>> \in R)
  BY <1>1, WFMin
<1>4. \A k \in T : k \in Nat /\ m \in Nat /\ ~ (k < m)
  BY <1>2, <1>3
<1>5. \A k \in T : m <= k
  BY <1>4
<1> QED
  BY <1>5

-----------------------------------------------------------------------------
(* Locks.                                                                  *)

\* A call that is taking its locks holds those it took and no other.
HoldersOK ==
    \A c \in Calls : \A b \in Inputs :
        c \in readers[b] /\ call[c].step = "lock" => b \in FirstReads(c, call[c].n)

\* A step that begins no call and gives no lock.
LEMMA HoldersStay ==
    ASSUME HoldersOK,
           \A c \in Calls : call'[c].step = "lock" => call'[c] = call[c],
           \A b \in Inputs : readers'[b] \subseteq readers[b]
    PROVE  HoldersOK'
<1> SUFFICES ASSUME NEW c \in Calls, NEW b \in Inputs, c \in readers'[b], call'[c].step = "lock"
             PROVE  b \in FirstReads(c, call'[c].n)
  BY DEF HoldersOK, FirstReads
<1>1. call'[c] = call[c] /\ c \in readers[b]
  OBVIOUS
<1> QED
  BY <1>1 DEF HoldersOK

LEMMA BeginHolders ==
    ASSUME Ordered, HoldersOK, NEW c \in Calls, Begin(c)
    PROVE  HoldersOK'
<1>1. call[c].step = "new" /\ readers' = readers /\ \A d \in Calls \ {c} : call'[d] = call[d]
  BY OrderedParts DEF Begin
<1>2. \A b \in Inputs : c \notin readers'[b]
  BY <1>1 DEF Ordered, CallsOK, Active
<1> SUFFICES ASSUME NEW d \in Calls, NEW b \in Inputs, d \in readers'[b], call'[d].step = "lock"
             PROVE  b \in FirstReads(d, call'[d].n)
  BY DEF HoldersOK, FirstReads
<1>3. d # c /\ call'[d] = call[d] /\ d \in readers[b]
  BY <1>1, <1>2
<1> QED
  BY <1>3 DEF HoldersOK

LEMMA LockHolders ==
    ASSUME Ordered, HoldersOK, NEW c \in Calls, Lock(c)
    PROVE  HoldersOK'
<1> DEFINE n == call[c].n + 1
<1>1. call \in [Calls -> CallType] /\ readers \in [Inputs -> SUBSET Calls]
  BY OrderedParts
<1>2. /\ call[c].step = "lock"
      /\ readers' = [readers EXCEPT ![Reads[c][n]] = @ \cup {c}]
      /\ call' = [call EXCEPT ![c] = IF n = Len(Reads[c])
                                     THEN [@ EXCEPT !.step = "point", !.n = 0]
                                     ELSE [@ EXCEPT !.n = n]]
  BY DEF Lock
<1>3. /\ \A d \in Calls \ {c} : call'[d] = call[d]
      /\ call'[c].step = "lock" => call'[c].n = n
  BY <1>1, <1>2 DEF CallType
<1>4. \A b \in Inputs : /\ readers'[b] \subseteq readers[b] \cup {c}
                        /\ b # Reads[c][n] => readers'[b] = readers[b]
  BY <1>1, <1>2
<1>5. FirstReads(c, n) = FirstReads(c, call[c].n) \cup {Reads[c][n]}
  <2>1. call[c].n \in Nat
    BY <1>1 DEF CallType
  <2> QED
    BY <2>1, FirstReadsNext
<1> HIDE DEF n
<1> SUFFICES ASSUME NEW d \in Calls, NEW b \in Inputs, d \in readers'[b], call'[d].step = "lock"
             PROVE  b \in FirstReads(d, call'[d].n)
  BY DEF HoldersOK, FirstReads
<1>6. CASE d = c
  <2>1. b = Reads[c][n] \/ b \in FirstReads(c, call[c].n)
    BY <1>2, <1>4, <1>6 DEF HoldersOK
  <2> QED
    BY <1>3, <1>5, <1>6, <2>1
<1>7. CASE d # c
  <2>1. call'[d] = call[d] /\ d \in readers[b]
    BY <1>3, <1>4, <1>7
  <2> QED
    BY <2>1 DEF HoldersOK
<1> QED
  BY <1>6, <1>7

LEMMA HoldersNext ==
    ASSUME Ordered, HoldersOK, [Next]_vars
    PROVE  HoldersOK'
<1>0. call \in [Calls -> CallType] /\ readers \in [Inputs -> SUBSET Calls]
  BY OrderedParts
<1>1. ASSUME NEW c \in Calls, Begin(c)
      PROVE  HoldersOK'
  BY <1>1, BeginHolders
<1>2. ASSUME NEW c \in Calls, CallStep(c)
      PROVE  HoldersOK'
  <2>1. CASE Lock(c)
    BY <2>1, LockHolders
  <2>2. ASSUME NEW n \in 0 .. Len(Reads[c]), Point(c, n)
        PROVE  HoldersOK'
    <3>1. PICK st \in {"launch", "end"} : call' = [call EXCEPT ![c].n = n, ![c].step = st]
      BY <2>2 DEF Point
    <3>2. \A d \in Calls : call'[d].step = "lock" => call'[d] = call[d]
      BY <1>0, <3>1 DEF CallType
    <3> QED
      BY <2>2, <3>2, HoldersStay DEF Point
  <2>3. CASE Launch(c)
    <3>1. \A d \in Calls : call'[d].step = "lock" => call'[d] = call[d]
      BY <1>0, <2>3 DEF Launch, CallType
    <3> QED
      BY <2>3, <3>1, HoldersStay DEF Launch
  <2>4. CASE LaunchFails(c)
    <3>1. \A d \in Calls : call'[d].step = "lock" => call'[d] = call[d]
      BY <1>0, <2>4 DEF LaunchFails, CallType
    <3> QED
      BY <2>4, <3>1, HoldersStay DEF LaunchFails
  <2>5. CASE Return(c)
    <3>1. PICK st \in {"ok", "err"} : call' = [call EXCEPT ![c].step = st]
      BY <2>5 DEF Return
    <3>2. \A d \in Calls : call'[d].step = "lock" => call'[d] = call[d]
      BY <1>0, <3>1 DEF CallType
    <3>3. \A b \in Inputs : readers'[b] \subseteq readers[b]
      BY <2>5 DEF Return, Unlock
    <3> QED
      BY <3>2, <3>3, HoldersStay
  <2> QED
    BY <1>2, <2>1, <2>2, <2>3, <2>4, <2>5 DEF CallStep
<1>3. ASSUME NEW c \in Calls, DropOutput(c)
      PROVE  HoldersOK'
  <2>1. \A d \in Calls : call'[d].step = "lock" => call'[d] = call[d]
    BY <1>0, <1>3 DEF DropOutput, CallType
  <2> QED
    BY <1>3, <2>1, HoldersStay DEF DropOutput
<1>4. ASSUME UNCHANGED calls
      PROVE  HoldersOK'
  BY <1>4, HoldersStay DEF calls
<1> QED
  BY <1>1, <1>2, <1>3, <1>4
     DEF Next, vars, CopyOut, Refill, DropInput, RefillBegin, BeginCapture, EndCapture, Replay,
         Finish

\* While a call takes its locks or a refill waits for one, some thread can go
\* on, for any calls whose locks follow one order of the storages: of the
\* storages that a writer waits for, nobody who reads the one locked last waits.
THEOREM SomeThreadAlwaysGoesOn == Spec => []SomeThreadGoesOn
<1>1. Init => HoldersOK
  BY DEF Init, HoldersOK
<1>2. Ordered /\ HoldersOK /\ [Next]_vars => HoldersOK'
  BY HoldersNext
<1>3. Ordered /\ HoldersOK => SomeThreadGoesOn
  <2> SUFFICES ASSUME Ordered, HoldersOK,
                      \/ \E c \in Calls : call[c].step = "lock"
                      \/ \E b \in Inputs : writer[b] # None,
                      \A c \in Calls : call[c].step \notin {"point", "launch", "end"},
                      \A c \in Calls : call[c].step = "lock" =>
                          writer[Reads[c][call[c].n + 1]] # None,
                      \A b \in Inputs : writer[b] # None => readers[b] # {}
               PROVE  FALSE
    BY DEF SomeThreadGoesOn
  <2> DEFINE W == {b \in Inputs : writer[b] # None}
             T == {Depth[b] : b \in W}
  <2>1. \A c \in Calls : call[c].step = "lock" =>
            /\ call[c].n \in Nat /\ call[c].n + 1 \in 1 .. Len(Reads[c])
            /\ Reads[c][call[c].n + 1] \in W
    <3> SUFFICES ASSUME NEW c \in Calls, call[c].step = "lock"
                 PROVE  /\ call[c].n \in Nat /\ call[c].n + 1 \in 1 .. Len(Reads[c])
                        /\ Reads[c][call[c].n + 1] \in W
      OBVIOUS
    <3>1. call[c].n \in Nat /\ call[c].n < Len(Reads[c]) /\ Len(Reads[c]) \in Nat
      BY OrderedParts, ReadsAreInputs DEF Ordered, CallsOK
    <3>2. Reads[c][call[c].n + 1] \in Inputs
      BY <3>1, ReadsAreInputs
    <3> QED
      BY <3>1, <3>2
  <2>2. T # {} /\ T \in SUBSET Nat
    BY <2>1, GuardsAssumption
  <2>3. PICK m \in T : \A k \in T : m <= k
    BY <2>2, LeastNatural
  <2>4. PICK b \in W : m = Depth[b]
    OBVIOUS
  <2>5. PICK c \in Calls : c \in readers[b]
    BY <2>4, OrderedParts
  <2>6. call[c].step = "lock"
    BY <2>5 DEF Ordered, CallsOK, Active
  <2>7. PICK i \in 1 .. call[c].n : b = Reads[c][i]
    BY <2>4, <2>5, <2>6 DEF HoldersOK, FirstReads
  <2>8. Depth[b] > Depth[Reads[c][call[c].n + 1]]
    <3>1. /\ i \in 1 .. Len(Reads[c]) /\ call[c].n + 1 \in 1 .. Len(Reads[c])
          /\ i < call[c].n + 1
      BY <2>1, <2>6, <2>7, ReadsAreInputs
    <3>2. DOMAIN Reads[c] = 1 .. Len(Reads[c])
      BY GuardsAssumption, LenProperties
    <3> QED
      BY <2>7, <3>1, <3>2, GuardsAssumption
  <2>9. Depth[b] <= Depth[Reads[c][call[c].n + 1]]
    BY <2>1, <2>3, <2>4, <2>6
  <2>10. Depth[b] \in Nat /\ Depth[Reads[c][call[c].n + 1]] \in Nat
    BY <2>1, <2>6, GuardsAssumption
  <2> QED
    BY <2>8, <2>9, <2>10
<1> QED
  BY <1>1, <1>2, <1>3, GuardsOrder, PTL DEF Spec

-----------------------------------------------------------------------------
(* Streams.                                                                *)

At(s) == 1 .. Len(queue[s])

\* What was recorded is done or on its way.
EventsOK ==
    \A b \in Inputs : \A k \in Kinds : \A n \in 1 .. recorded[b][k] :
        <<b, k, n>> \in done \/ \E s \in Streams : \E i \in At(s) : Records(s, i, <<b, k, n>>)

\* Queued operations can be numbered, below N, in the order in which they were
\* enqueued: numbers grow along a stream, and a wait comes after the records of
\* what it waits for.
Numbered(N, t) ==
    /\ t \in [Streams -> [Nat -> Nat]]
    /\ \A s \in Streams : \A i \in At(s) : t[s][i] < N
    /\ \A s \in Streams : \A i, j \in At(s) : i < j => t[s][i] < t[s][j]
    /\ \A s \in Streams : \A i \in At(s) : \A e \in Events : Waits(s, i, e) =>
           e \in done \/ \E r \in Streams : \E j \in At(r) : Records(r, j, e) /\ t[r][j] < t[s][i]

WaitsOK == \E N \in Nat : \E t \in [Streams -> [Nat -> Nat]] : Numbered(N, t)

\* What is enqueued waits only for what was recorded, and the new records are
\* in it.
WaitsRecorded(ops) ==
    \A m \in 1 .. Len(ops) : \A e \in Events :
        ops[m].op = "wait" /\ e \in ops[m].events => e[3] \in 1 .. recorded[e[1]][e[2]]

HasNewRecords(ops) ==
    \A b \in Inputs : \A k \in Kinds : \A n \in 1 .. recorded'[b][k] :
        \/ n \in 1 .. recorded[b][k]
        \/ \E m \in 1 .. Len(ops) : ops[m].op = "record" /\ <<b, k, n>> \in ops[m].events

Orderly(ops) == WaitsRecorded(ops) /\ HasNewRecords(ops)

LEMMA EventsGrow ==
    ASSUME Ordered, EventsOK, NEW s \in Streams, NEW ops, Grows(s, ops), Orderly(ops),
           done' = done
    PROVE  EventsOK'
<1> SUFFICES ASSUME NEW b \in Inputs, NEW k \in Kinds, NEW n \in 1 .. recorded'[b][k],
                    <<b, k, n>> \notin done
             PROVE  \E r \in Streams : \E i \in 1 .. Len(queue'[r]) : Records(r, i, <<b, k, n>>)'
  BY DEF EventsOK, At
<1>1. queue \in [Streams -> Seq(Operations)]
  BY OrderedParts
<1>2. CASE n \in 1 .. recorded[b][k]
  <2>0. PICK r \in Streams : \E i \in At(r) : Records(r, i, <<b, k, n>>)
    BY <1>2 DEF EventsOK
  <2>1. PICK i \in At(r) : Records(r, i, <<b, k, n>>)
    BY <2>0
  <2>2. i \in 1 .. Len(queue'[r]) /\ queue'[r][i] = queue[r][i]
    BY <1>1, <2>1, OldOrNew DEF At
  <2> QED
    BY <2>1, <2>2 DEF Records
<1>3. ASSUME NEW m \in 1 .. Len(ops), ops[m].op = "record", <<b, k, n>> \in ops[m].events
      PROVE  \E r \in Streams : \E i \in 1 .. Len(queue'[r]) : Records(r, i, <<b, k, n>>)'
  <2>1. Len(queue[s]) \in Nat /\ Len(ops) \in Nat /\ Len(queue'[s]) = Len(queue[s]) + Len(ops)
    BY <1>1, QueueLengths DEF Grows
  <2>2. Len(queue[s]) + m \in 1 .. Len(queue'[s])
    BY <2>1
  <2>3. queue'[s][Len(queue[s]) + m] = ops[m]
    BY DEF Grows
  <2> QED
    BY <1>3, <2>2, <2>3 DEF Records
<1> QED
  BY <1>2, <1>3 DEF Orderly, HasNewRecords

LEMMA Below ==
    ASSUME NEW x \in Nat, NEW n \in Nat, NEW y \in Nat, x < n, n <= y
    PROVE  x < y
OBVIOUS

\* The new operations get the next numbers.
Continues(u, t, s, L, N) ==
    /\ \A r \in Streams \ {s} : u[r] = t[r]
    /\ \A i \in 1 .. L : u[s][i] = t[s][i]
    /\ \A i \in Nat : i > L => u[s][i] = N + i

LEMMA NextNumbers ==
    ASSUME NEW s \in Streams, NEW L \in Nat, NEW N \in Nat, NEW t \in [Streams -> [Nat -> Nat]]
    PROVE  \E u \in [Streams -> [Nat -> Nat]] : Continues(u, t, s, L, N)
<1> DEFINE f == [i \in Nat |-> IF i > L THEN N + i ELSE t[s][i]]
           u == [t EXCEPT ![s] = f]
<1>1. f \in [Nat -> Nat]
  OBVIOUS
<1>2. (\A i \in 1 .. L : f[i] = t[s][i]) /\ (\A i \in Nat : i > L => f[i] = N + i)
  OBVIOUS
<1> HIDE DEF f
<1>3. u \in [Streams -> [Nat -> Nat]] /\ u[s] = f /\ \A r \in Streams \ {s} : u[r] = t[r]
  BY <1>1
<1> HIDE DEF u
<1> QED
  BY <1>2, <1>3 DEF Continues

LEMMA WaitsGrow ==
    ASSUME Ordered, EventsOK, WaitsOK, NEW s \in Streams, NEW ops, Grows(s, ops), Orderly(ops),
           done' = done
    PROVE  WaitsOK'
<1>1. /\ queue \in [Streams -> Seq(Operations)]
      /\ Len(queue[s]) \in Nat /\ Len(ops) \in Nat
      /\ Len(queue'[s]) = Len(queue[s]) + Len(ops)
  BY OrderedParts, QueueLengths DEF Grows
<1>2. PICK N \in Nat, t \in [Streams -> [Nat -> Nat]] : Numbered(N, t)
  BY DEF WaitsOK
<1>3. PICK L \in Nat, H \in Nat :
          /\ L = Len(queue[s]) /\ H = Len(queue'[s]) /\ H = L + Len(ops)
  BY <1>1
<1>4. PICK K \in Nat : K = N + H + 1
  BY <1>2, <1>3
<1>5. PICK u \in [Streams -> [Nat -> Nat]] : Continues(u, t, s, L, N)
  BY NextNumbers
<1>6. \A r \in Streams : \A i \in 1 .. Len(queue'[r]) :
          \/ i \in At(r) /\ queue'[r][i] = queue[r][i]
          \/ r = s /\ i \in L + 1 .. H /\ \E m \in 1 .. Len(ops) : queue'[r][i] = ops[m]
  <2> SUFFICES ASSUME NEW r \in Streams, NEW i \in 1 .. Len(queue'[r])
               PROVE  \/ i \in At(r) /\ queue'[r][i] = queue[r][i]
                      \/ /\ r = s /\ i \in L + 1 .. H
                         /\ \E m \in 1 .. Len(ops) : queue'[r][i] = ops[m]
    OBVIOUS
  <2>1. \/ i \in 1 .. Len(queue[r]) /\ queue'[r][i] = queue[r][i]
        \/ /\ r = s /\ i > Len(queue[r])
           /\ i - Len(queue[r]) \in 1 .. Len(ops)
           /\ queue'[r][i] = ops[i - Len(queue[r])]
    BY <1>1, OldOrNew
  <2>2. r = s /\ i > Len(queue[r]) => i \in L + 1 .. H
    <3> SUFFICES ASSUME r = s, i > Len(queue[r])
                 PROVE  i \in L + 1 .. H
      OBVIOUS
    <3>1. i > L /\ i \in 1 .. H
      BY <1>3
    <3> QED
      BY <1>3, <3>1
  <2> QED
    BY <2>1, <2>2 DEF At
<1>7. \A r \in Streams : \A i \in At(r) : i \in 1 .. Len(queue'[r]) /\ queue'[r][i] = queue[r][i]
  BY <1>1, OldOrNew DEF At
<1>8. \A r \in Streams : \A i \in At(r) : /\ u[r][i] = t[r][i]
                                          /\ u[r][i] \in Nat /\ u[r][i] < N
  <2> SUFFICES ASSUME NEW r \in Streams, NEW i \in At(r)
               PROVE  u[r][i] = t[r][i] /\ u[r][i] \in Nat /\ u[r][i] < N
    OBVIOUS
  <2>1. t[r][i] < N
    BY <1>2 DEF Numbered
  <2>2. i \in Nat
    BY DEF At
  <2>3. u[r][i] = t[r][i]
    BY <1>3, <1>5 DEF At, Continues
  <2>4. t[r][i] \in Nat
    BY <2>2
  <2> QED
    BY <2>1, <2>3, <2>4
<1>9. ASSUME NEW i \in L + 1 .. H
      PROVE  /\ u[s][i] \in Nat /\ N <= u[s][i] /\ u[s][i] < K
             /\ \A j \in L + 1 .. H : i < j => u[s][i] < u[s][j]
  <2>1. i \in Nat /\ i > L /\ i <= H
    OBVIOUS
  <2>2. u[s][i] = N + i
    BY <1>5, <2>1 DEF Continues
  <2>3. \A j \in L + 1 .. H : u[s][j] = N + j
    BY <1>5 DEF Continues
  <2> QED
    BY <1>4, <2>1, <2>2, <2>3
<1>10. \A r \in Streams : \A i \in 1 .. Len(queue'[r]) : u[r][i] < K
  <2> SUFFICES ASSUME NEW r \in Streams, NEW i \in 1 .. Len(queue'[r])
               PROVE  u[r][i] < K
    OBVIOUS
  <2>1. CASE i \in At(r)
    <3>1. u[r][i] \in Nat /\ u[r][i] < N
      BY <1>8, <2>1
    <3>2. N <= K
      BY <1>4
    <3> QED
      BY <3>1, <3>2, Below
  <2>2. CASE r = s /\ i \in L + 1 .. H
    BY <1>9, <2>2
  <2> QED
    BY <1>6, <2>1, <2>2
<1>11. \A r \in Streams : \A i, j \in 1 .. Len(queue'[r]) : i < j => u[r][i] < u[r][j]
  <2> SUFFICES ASSUME NEW r \in Streams, NEW i \in 1 .. Len(queue'[r]),
                      NEW j \in 1 .. Len(queue'[r]), i < j
               PROVE  u[r][i] < u[r][j]
    OBVIOUS
  <2>1. CASE i \in At(r) /\ j \in At(r)
    <3>1. t[r][i] < t[r][j] /\ u[r][i] = t[r][i] /\ u[r][j] = t[r][j]
      BY <1>2, <1>8, <2>1 DEF Numbered
    <3> QED
      BY <3>1
  <2>2. CASE i \in At(r) /\ r = s /\ j \in L + 1 .. H
    <3>1. /\ u[r][i] \in Nat /\ u[r][i] < N
          /\ u[r][j] \in Nat /\ N <= u[r][j]
      BY <1>8, <1>9, <2>2
    <3> QED
      BY <3>1, Below
  <2>3. CASE r = s /\ i \in L + 1 .. H /\ j \in L + 1 .. H
    BY <1>9, <2>3
  <2>4. CASE r = s /\ i \in L + 1 .. H /\ j \in At(r)
    <3>1. i \in L + 1 .. H /\ j \in 1 .. L
      BY <1>3, <2>4 DEF At
    <3>2. ~(i < j)
      BY <3>1
    <3> QED
      BY <3>2
  <2> QED
    BY <1>6, <2>1, <2>2, <2>3, <2>4
<1>12. ASSUME NEW r \in Streams, NEW i \in 1 .. Len(queue'[r]), NEW e \in Events,
              Waits(r, i, e)', e \notin done
       PROVE  \E q \in Streams : \E j \in 1 .. Len(queue'[q]) :
                  Records(q, j, e)' /\ u[q][j] < u[r][i]
  <2>1. ASSUME NEW q \in Streams, NEW j \in At(q), Records(q, j, e)
        PROVE  j \in 1 .. Len(queue'[q]) /\ Records(q, j, e)'
    BY <1>7, <2>1 DEF Records
  <2>2. CASE r = s /\ i \in L + 1 .. H /\ \E m \in 1 .. Len(ops) : queue'[r][i] = ops[m]
    <3>1. PICK m \in 1 .. Len(ops) : queue'[r][i] = ops[m]
      BY <2>2
    <3>2. ops[m].op = "wait" /\ e \in ops[m].events
      BY <1>12, <3>1 DEF Waits
    <3>3. PICK b \in Inputs, k \in Kinds, n \in Nat : e = <<b, k, n>>
      BY DEF Events
    <3>4. n \in 1 .. recorded[b][k]
      <4>1. e[3] \in 1 .. recorded[e[1]][e[2]]
        BY <3>2 DEF Orderly, WaitsRecorded
      <4> QED
        BY <3>3, <4>1
    <3>5. PICK q \in Streams : \E j \in At(q) : Records(q, j, e)
      BY <1>12, <3>3, <3>4 DEF EventsOK
    <3>6. PICK j \in At(q) : Records(q, j, e)
      BY <3>5
    <3>7. /\ u[q][j] < N /\ u[q][j] \in Nat
          /\ u[r][i] \in Nat /\ N <= u[r][i]
      BY <1>8, <1>9, <2>2
    <3>8. u[q][j] < u[r][i]
      BY <3>7, Below
    <3> QED
      BY <2>1, <3>6, <3>8
  <2>3. CASE i \in At(r) /\ queue'[r][i] = queue[r][i]
    <3>1. Waits(r, i, e)
      BY <1>12, <2>3 DEF Waits
    <3>2. PICK q \in Streams : \E j \in At(q) : Records(q, j, e) /\ t[q][j] < t[r][i]
      BY <1>2, <1>12, <2>3, <3>1 DEF Numbered
    <3>3. PICK j \in At(q) : Records(q, j, e) /\ t[q][j] < t[r][i]
      BY <3>2
    <3>4. u[q][j] = t[q][j] /\ u[r][i] = t[r][i]
      BY <1>8, <2>3
    <3> QED
      BY <2>1, <3>3, <3>4
  <2> QED
    BY <1>6, <2>2, <2>3
<1>13. Numbered(K, u)'
  BY <1>10, <1>11, <1>12 DEF Numbered, At
<1> QED
  BY <1>13 DEF WaitsOK

\* The device finishes an operation: numbers shift with the places.
LEMMA RecordsShift ==
    ASSUME Ordered, NEW s \in Streams, Finish(s),
           NEW r \in Streams, NEW j \in At(r), NEW e \in Events, Records(r, j, e)
    PROVE  \/ e \in done'
           \/ \E k \in 1 .. Len(queue'[r]) : k + Off(s, r) = j /\ Records(r, k, e)'
<1>1. /\ queue \in [Streams -> Seq(Operations)] /\ queue[s] # <<>>
      /\ queue' = [queue EXCEPT ![s] = Tail(@)]
      /\ done' = IF queue[s][1].op = "record" THEN done \cup queue[s][1].events ELSE done
  BY Finished
<1>2. /\ Len(queue[r]) \in Nat /\ Len(queue'[r]) \in Nat /\ Off(s, r) \in {0, 1}
      /\ Len(queue'[r]) = Len(queue[r]) - Off(s, r)
      /\ \A i \in 1 .. Len(queue'[r]) : queue'[r][i] = queue[r][i + Off(s, r)]
  BY <1>1, Popped
<1>3. CASE r = s /\ j = 1
  BY <1>1, <1>3 DEF Records
<1>4. CASE ~(r = s /\ j = 1)
  <2>1. j - Off(s, r) \in 1 .. Len(queue'[r]) /\ (j - Off(s, r)) + Off(s, r) = j
    <3>1. j \in Nat /\ j >= 1 /\ j <= Len(queue[r])
      BY <1>2 DEF At
    <3>2. j = 1 => Off(s, r) = 0
      BY <1>4 DEF Off
    <3> QED
      BY <1>2, <3>1, <3>2
  <2>2. Records(r, j - Off(s, r), e)'
    <3>1. queue'[r][j - Off(s, r)] = queue[r][j]
      BY <1>2, <2>1
    <3> QED
      BY <3>1 DEF Records, Off
  <2> QED
    BY <2>1, <2>2
<1> QED
  BY <1>3, <1>4

LEMMA EventsShift ==
    ASSUME Ordered, EventsOK, NEW s \in Streams, Finish(s)
    PROVE  EventsOK'
<1> SUFFICES ASSUME NEW b \in Inputs, NEW k \in Kinds, NEW n \in 1 .. recorded'[b][k],
                    <<b, k, n>> \notin done'
             PROVE  \E r \in Streams : \E i \in 1 .. Len(queue'[r]) : Records(r, i, <<b, k, n>>)'
  BY DEF EventsOK, At
<1>1. recorded' = recorded /\ done \subseteq done'
  BY Finished
<1>2. <<b, k, n>> \in Events
  <2>1. n \in Nat
    BY <1>1, OrderedParts
  <2> QED
    BY <2>1 DEF Events
<1>3. PICK r \in Streams : \E i \in At(r) : Records(r, i, <<b, k, n>>)
  BY <1>1 DEF EventsOK
<1>4. PICK i \in At(r) : Records(r, i, <<b, k, n>>)
  BY <1>3
<1> QED
  BY <1>2, <1>4, RecordsShift

LEMMA ShiftedNumbers ==
    ASSUME NEW s \in Streams, NEW t \in [Streams -> [Nat -> Nat]]
    PROVE  \E u \in [Streams -> [Nat -> Nat]] :
               \A r \in Streams : \A i \in Nat : u[r][i] = t[r][i + Off(s, r)]
<1> DEFINE u == [r \in Streams |-> [i \in Nat |-> t[r][i + Off(s, r)]]]
<1>1. \A r \in Streams : \A i \in Nat : t[r][i + Off(s, r)] \in Nat
  BY DEF Off
<1>2. u \in [Streams -> [Nat -> Nat]]
  BY <1>1
<1>3. \A r \in Streams : \A i \in Nat : u[r][i] = t[r][i + Off(s, r)]
  OBVIOUS
<1> HIDE DEF u
<1> QED
  BY <1>2, <1>3

LEMMA SameShift ==
    ASSUME NEW i \in Nat, NEW j \in Nat, NEW d \in {0, 1}, i < j
    PROVE  i + d < j + d
OBVIOUS

LEMMA WaitsShift ==
    ASSUME Ordered, WaitsOK, NEW s \in Streams, Finish(s)
    PROVE  WaitsOK'
<1>1. /\ queue \in [Streams -> Seq(Operations)] /\ queue[s] # <<>>
      /\ queue' = [queue EXCEPT ![s] = Tail(@)]
      /\ done \subseteq done'
  BY Finished
<1>2. PICK N \in Nat, t \in [Streams -> [Nat -> Nat]] : Numbered(N, t)
  BY DEF WaitsOK
<1>3. PICK u \in [Streams -> [Nat -> Nat]] :
          \A r \in Streams : \A i \in Nat : u[r][i] = t[r][i + Off(s, r)]
  BY ShiftedNumbers
<1>4. \A r \in Streams : \A i \in 1 .. Len(queue'[r]) :
          /\ i \in Nat /\ i + Off(s, r) \in At(r)
          /\ u[r][i] = t[r][i + Off(s, r)]
          /\ queue'[r][i] = queue[r][i + Off(s, r)]
  BY <1>1, <1>3, Popped DEF At
<1>5. \A r \in Streams : \A i \in 1 .. Len(queue'[r]) : u[r][i] < N
  <2>1. \A r \in Streams : \A i \in 1 .. Len(queue'[r]) : t[r][i + Off(s, r)] < N
    BY <1>2, <1>4 DEF Numbered
  <2> QED
    BY <1>4, <2>1
<1>6. \A r \in Streams : \A i, j \in 1 .. Len(queue'[r]) : i < j => u[r][i] < u[r][j]
  <2> SUFFICES ASSUME NEW r \in Streams, NEW i \in 1 .. Len(queue'[r]),
                      NEW j \in 1 .. Len(queue'[r]), i < j
               PROVE  u[r][i] < u[r][j]
    OBVIOUS
  <2>1. i + Off(s, r) < j + Off(s, r) /\ i + Off(s, r) \in At(r) /\ j + Off(s, r) \in At(r)
    <3>1. i \in Nat /\ j \in Nat /\ i + Off(s, r) \in At(r) /\ j + Off(s, r) \in At(r)
      BY <1>4
    <3>2. Off(s, r) \in {0, 1}
      BY DEF Off
    <3>3. i \in Nat /\ j \in Nat
      BY <3>1
    <3>4. i + Off(s, r) < j + Off(s, r)
      BY <3>2, <3>3, SameShift
    <3> QED
      BY <3>1, <3>4
  <2>2. t[r][i + Off(s, r)] < t[r][j + Off(s, r)]
    BY <1>2, <2>1 DEF Numbered
  <2> QED
    BY <1>4, <2>2
<1>7. ASSUME NEW r \in Streams, NEW i \in 1 .. Len(queue'[r]), NEW e \in Events,
             Waits(r, i, e)', e \notin done'
      PROVE  \E q \in Streams : \E j \in 1 .. Len(queue'[q]) :
                 Records(q, j, e)' /\ u[q][j] < u[r][i]
  <2> DEFINE m == i + Off(s, r)
  <2>1. m \in At(r) /\ u[r][i] = t[r][m] /\ queue'[r][i] = queue[r][m]
    BY <1>4
  <2>2. Waits(r, m, e) /\ e \notin done
    BY <1>1, <1>7, <2>1 DEF Waits
  <2> HIDE DEF m
  <2>3. PICK q \in Streams : \E k \in At(q) : Records(q, k, e) /\ t[q][k] < t[r][m]
    BY <1>2, <2>1, <2>2 DEF Numbered
  <2>4. PICK k \in At(q) : Records(q, k, e) /\ t[q][k] < t[r][m]
    BY <2>3
  <2>5. PICK j \in 1 .. Len(queue'[q]) : j + Off(s, q) = k /\ Records(q, j, e)'
    BY <1>7, <2>4, RecordsShift
  <2>6. u[q][j] = t[q][k]
    BY <1>4, <2>5
  <2>7. u[q][j] < u[r][i]
    BY <2>1, <2>4, <2>6
  <2> QED
    BY <2>5, <2>7
<1>8. Numbered(N, u)'
  BY <1>5, <1>6, <1>7 DEF Numbered, At
<1> QED
  BY <1>8 DEF WaitsOK

-----------------------------------------------------------------------------
(* The operations of each action.                                          *)

LEMMA OrderlyParts ==
    ASSUME NEW r \in Seq(Operations), NEW t \in Seq(Operations)
    PROVE  /\ WaitsRecorded(r) /\ WaitsRecorded(t) => WaitsRecorded(r \o t)
           /\ HasNewRecords(r) => HasNewRecords(r \o t)
           /\ HasNewRecords(t) => HasNewRecords(r \o t)
<1>1. /\ Len(r) \in Nat /\ Len(t) \in Nat /\ Len(r \o t) = Len(r) + Len(t)
      /\ \A i \in 1 .. Len(r) : (r \o t)[i] = r[i]
      /\ \A i \in 1 .. Len(t) : (r \o t)[Len(r) + i] = t[i]
  BY Concatenated
<1>2. /\ \A i \in 1 .. Len(r) : i \in 1 .. Len(r \o t)
      /\ \A i \in 1 .. Len(t) : Len(r) + i \in 1 .. Len(r \o t)
  BY <1>1
<1>3. ASSUME NEW m \in 1 .. Len(r \o t)
      PROVE  \/ m \in 1 .. Len(r) /\ (r \o t)[m] = r[m]
             \/ \E i \in 1 .. Len(t) : (r \o t)[m] = t[i]
  <2>1. m \in 1 .. Len(r) \/ (m - Len(r) \in 1 .. Len(t) /\ m = Len(r) + (m - Len(r)))
    BY <1>1
  <2> QED
    BY <1>1, <2>1
<1>4. WaitsRecorded(r) /\ WaitsRecorded(t) => WaitsRecorded(r \o t)
  BY <1>3 DEF WaitsRecorded
<1>5. HasNewRecords(r) => HasNewRecords(r \o t)
  BY <1>1, <1>2 DEF HasNewRecords
<1>6. HasNewRecords(t) => HasNewRecords(r \o t)
  <2> SUFFICES ASSUME NEW m \in 1 .. Len(t), NEW e, t[m].op = "record", e \in t[m].events
               PROVE  \E i \in 1 .. Len(r \o t) :
                          (r \o t)[i].op = "record" /\ e \in (r \o t)[i].events
    BY DEF HasNewRecords
  <2>1. Len(r) + m \in 1 .. Len(r \o t) /\ (r \o t)[Len(r) + m] = t[m]
    BY <1>1, <1>2
  <2> QED
    BY <2>1
<1> QED
  BY <1>4, <1>5, <1>6

\* What is neither a wait nor a record, when nothing is recorded.
LEMMA CalmOrderly ==
    ASSUME NEW ops, \A m \in 1 .. Len(ops) : ops[m].op # "wait"
    PROVE  /\ WaitsRecorded(ops)
           /\ recorded' = recorded => Orderly(ops)
BY DEF Orderly, WaitsRecorded, HasNewRecords

\* Wait waits for events as they were last recorded.
LEMMA WaitOrderly ==
    ASSUME NEW bs \in SUBSET Inputs, NEW ks \in SUBSET Kinds,
           recorded \in [Inputs -> [Kinds -> Nat]]
    PROVE  WaitsRecorded(Wait(bs, ks))
<1> DEFINE last == {e \in {<<b, k, recorded[b][k]>> : b \in bs, k \in ks} : tracking /\ e[3] > 0}
           o == [op |-> "wait", events |-> last]
<1>1. ASSUME NEW e \in last
      PROVE  e[3] \in 1 .. recorded[e[1]][e[2]]
  <2>1. PICK b \in bs, k \in ks : e = <<b, k, recorded[b][k]>>
    OBVIOUS
  <2>2. recorded[b][k] \in Nat /\ recorded[b][k] > 0
    BY <2>1
  <2> QED
    BY <2>1, <2>2
<1>2. last \in SUBSET Events
  BY DEF Events
<1>3. o \in Operations /\ o.events = last
  BY <1>2 DEF Operations
<1>4. Wait(bs, ks) = IF last = {} THEN <<>> ELSE <<o>>
  BY DEF Wait
<1> HIDE DEF last, o
<1>5. Len(<<o>>) = 1 /\ <<o>>[1] = o /\ Len(<<>>) = 0
  BY <1>3, Singleton, EmptySeq
<1>6. CASE last = {}
  BY <1>4, <1>5, <1>6 DEF WaitsRecorded
<1>7. CASE last # {}
  <2> SUFFICES ASSUME NEW m \in 1 .. Len(Wait(bs, ks)), NEW e \in Wait(bs, ks)[m].events
               PROVE  e[3] \in 1 .. recorded[e[1]][e[2]]
    BY DEF WaitsRecorded
  <2>1. Wait(bs, ks) = <<o>>
    BY <1>4, <1>7
  <2>2. m = 1
    BY <1>5, <2>1
  <2>3. e \in last
    BY <1>3, <1>5, <2>1, <2>2
  <2> QED
    BY <1>1, <2>3
<1> QED
  BY <1>6, <1>7

\* Record and Recorded go together.
LEMMA RecordOrderly ==
    ASSUME NEW bs \in SUBSET Inputs, NEW k \in Kinds,
           recorded \in [Inputs -> [Kinds -> Nat]], Recorded(bs, k)
    PROVE  /\ Orderly(Record(bs, k))
           /\ ~tracking => recorded' = recorded
<1> DEFINE ops == Record(bs, k)
<1>1. /\ \A i \in 1 .. Len(ops) :
             /\ i = 1 /\ tracking
             /\ ops[i].op = "record"
             /\ ops[i].events = {<<b, k, recorded[b][k] + 1>> : b \in bs}
      /\ tracking /\ bs # {} => Len(ops) = 1
  BY RecordOps
<1>2. /\ recorded' \in [Inputs -> [Kinds -> Nat]]
      /\ tracking => \A b \in bs : recorded'[b][k] = recorded[b][k] + 1
      /\ \A b \in Inputs : \A j \in Kinds :
             ~(tracking /\ b \in bs /\ j = k) => recorded'[b][j] = recorded[b][j]
  BY RecordedBy
<1> HIDE DEF ops
<1>3. WaitsRecorded(ops)
  BY <1>1 DEF WaitsRecorded
<1>4. HasNewRecords(ops)
  <2> SUFFICES ASSUME NEW b \in Inputs, NEW j \in Kinds, NEW n \in 1 .. recorded'[b][j],
                      n \notin 1 .. recorded[b][j]
               PROVE  \E m \in 1 .. Len(ops) :
                          ops[m].op = "record" /\ <<b, j, n>> \in ops[m].events
    BY DEF HasNewRecords
  <2>1. tracking /\ b \in bs /\ j = k
    BY <1>2
  <2>2. n = recorded[b][k] + 1
    <3>1. recorded[b][k] \in Nat /\ recorded'[b][k] = recorded[b][k] + 1
      BY <1>2, <2>1
    <3>2. n \in 1 .. recorded'[b][k] /\ n \notin 1 .. recorded[b][k]
      BY <2>1
    <3> QED
      BY <3>1, <3>2
  <2>3. 1 \in 1 .. Len(ops)
    <3>1. bs # {}
      BY <2>1
    <3>2. Len(ops) = 1
      BY <1>1, <2>1, <3>1
    <3> QED
      BY <3>2
  <2> QED
    BY <1>1, <2>1, <2>2, <2>3
<1>5. ~tracking => recorded' = recorded
  BY DEF Recorded
<1> QED
  BY <1>3, <1>4, <1>5 DEF Orderly, ops

StreamsOK == EventsOK /\ WaitsOK

LEMMA StreamsGrow ==
    ASSUME Ordered, StreamsOK, NEW s \in Streams, NEW ops, Grows(s, ops), Orderly(ops),
           done' = done
    PROVE  StreamsOK'
BY EventsGrow, WaitsGrow DEF StreamsOK

LEMMA StreamsEnqueued ==
    ASSUME Ordered, StreamsOK, NEW s \in Streams, NEW ops \in Seq(Operations),
           Enqueue(s, ops), Orderly(ops), done' = done,
           ~tracking => recorded' = recorded
    PROVE  StreamsOK'
<1>1. queue \in [Streams -> Seq(Operations)] /\ (Capturing => ~tracking)
  BY OrderedParts
<1>2. Grows(s, Put(s, ops))
  BY <1>1, Enqueued
<1>3. Orderly(Put(s, ops))
  <2>1. CASE Capturing /\ s = Main
    <3>1. Put(s, ops) = <<>> /\ Len(<<>>) = 0 /\ recorded' = recorded
      BY <1>1, <2>1, EmptySeq DEF Put
    <3> QED
      BY <3>1, CalmOrderly
  <2>2. CASE ~(Capturing /\ s = Main)
    <3>1. Put(s, ops) = ops
      BY <2>2 DEF Put
    <3> QED
      BY <3>1
  <2> QED
    BY <2>1, <2>2
<1> QED
  BY <1>2, <1>3, StreamsGrow

LEMMA StreamsSame ==
    ASSUME StreamsOK, queue' = queue, done' = done, recorded' = recorded
    PROVE  StreamsOK'
<1>1. EventsOK'
  BY DEF StreamsOK, EventsOK, At, Records
<1>2. ASSUME NEW N \in Nat, NEW t \in [Streams -> [Nat -> Nat]], Numbered(N, t)
      PROVE  Numbered(N, t)'
  BY <1>2 DEF Numbered, At, Records, Waits
<1>3. WaitsOK'
  BY <1>2 DEF StreamsOK, WaitsOK
<1> QED
  BY <1>1, <1>3 DEF StreamsOK

\* A call's operations other than waits and records, on the main stream.
LEMMA StreamsOnMain ==
    ASSUME Ordered, StreamsOK, NEW ops, OnMain(ops), Len(ops) \in Nat,
           \A m \in 1 .. Len(ops) : ops[m].op \notin {"wait", "record"},
           recorded' = recorded, done' = done
    PROVE  StreamsOK'
<1>1. Grows(Main, Put(Main, ops)) /\ Orderly(Put(Main, ops))
  BY CalmOrderly DEF OnMain
<1> QED
  BY <1>1, MainIsAStream, StreamsGrow

LEMMA CallStreams ==
    ASSUME Ordered, StreamsOK, NEW c \in Calls,
           Begin(c) \/ Launch(c) \/ DropOutput(c) \/ CopyOut(c)
    PROVE  StreamsOK'
<1>1. done' = done
  BY DEF Begin, Launch, DropOutput, CopyOut, device
<1>2. CASE Begin(c)
  <2>1. Alloc(c).op = "alloc"
    BY DEF Alloc
  <2>2. /\ OnMain(<<Alloc(c)>>) /\ Len(<<Alloc(c)>>) = 1
        /\ \A i \in 1 .. Len(<<Alloc(c)>>) : IsOp(<<Alloc(c)>>[i], "alloc", c)
        /\ recorded' = recorded
    BY <1>2, BeginParts
  <2> QED
    BY <1>1, <2>2, StreamsOnMain DEF IsOp
<1>3. CASE Launch(c)
  <2>1. /\ OnMain(<<Decode(c)>>) /\ Len(<<Decode(c)>>) = 1
        /\ \A i \in 1 .. Len(<<Decode(c)>>) : IsOp(<<Decode(c)>>[i], "decode", c)
        /\ recorded' = recorded
    BY <1>3, LaunchParts
  <2> QED
    BY <1>1, <2>1, StreamsOnMain DEF IsOp
<1>4. CASE DropOutput(c)
  <2>1. /\ OnMain(<<Free(c)>>) /\ Len(<<Free(c)>>) = 1
        /\ \A i \in 1 .. Len(<<Free(c)>>) : IsOp(<<Free(c)>>[i], "free", c)
        /\ recorded' = recorded
    BY <1>4, DropOutputParts
  <2> QED
    BY <1>1, <2>1, StreamsOnMain DEF IsOp
<1>5. CASE CopyOut(c)
  <2>1. /\ OnMain(<<Copy(c)>>) /\ Len(<<Copy(c)>>) = 1
        /\ \A i \in 1 .. Len(<<Copy(c)>>) : IsOp(<<Copy(c)>>[i], "copy", c)
        /\ recorded' = recorded
    BY <1>5, CopyOutParts
  <2> QED
    BY <1>1, <2>1, StreamsOnMain DEF IsOp
<1> QED
  BY <1>2, <1>3, <1>4, <1>5

LEMMA ReplayStreams ==
    ASSUME Ordered, StreamsOK, Replay
    PROVE  StreamsOK'
<1>1. /\ OnMain(ReplayedOps) /\ Len(graph) \in Nat /\ Len(ReplayedOps) = Len(graph)
      /\ \A i \in 1 .. Len(graph) :
             graph[i] \in CallOperations /\ ReplayedOps[i].op = graph[i].op
      /\ recorded' = recorded
  BY ReplayParts
<1>2. \A m \in 1 .. Len(ReplayedOps) : ReplayedOps[m].op \notin {"wait", "record"}
  BY <1>1, CallOperationFields
<1>3. done' = done
  BY DEF Replay, device
<1> QED
  BY <1>1, <1>2, <1>3, StreamsOnMain

LEMMA PointStreams ==
    ASSUME Ordered, StreamsOK, NEW c \in Calls, NEW n \in 0 .. Len(Reads[c]), Point(c, n)
    PROVE  StreamsOK'
<1> DEFINE ops == Wait(FirstReads(c, n), {"write"})
<1>1. Enqueue(Main, ops) /\ recorded' = recorded /\ done' = done
  BY DEF Point, CallStream, events, device
<1>2. /\ FirstReads(c, n) \in SUBSET Inputs /\ {"write"} \in SUBSET Kinds
      /\ recorded \in [Inputs -> [Kinds -> Nat]]
  BY ReadsAreInputs, OrderedParts DEF Kinds
<1>3. ops \in Seq(Operations) /\ WaitsRecorded(ops)
  BY <1>2, WaitOps, WaitOrderly
<1> HIDE DEF ops
<1>4. Orderly(ops)
  BY <1>1, <1>3 DEF Orderly, HasNewRecords
<1> QED
  BY <1>1, <1>3, <1>4, MainIsAStream, StreamsEnqueued

LEMMA ReturnStreams ==
    ASSUME Ordered, StreamsOK, NEW c \in Calls, Return(c)
    PROVE  StreamsOK'
<1> DEFINE r == Record(Guarded(c), "read")
           f == IF call[c].ok THEN <<>> ELSE <<Free(c)>>
<1>1. Enqueue(Main, r \o f) /\ Recorded(Guarded(c), "read") /\ done' = done
  BY DEF Return, CallStream, device
<1>2. /\ Guarded(c) \in SUBSET Inputs /\ "read" \in Kinds
      /\ recorded \in [Inputs -> [Kinds -> Nat]]
  <2>1. call[c].n \in 0 .. Len(Reads[c])
    BY OrderedParts
  <2> QED
    BY <2>1, OrderedParts, ReadsAreInputs DEF Guarded, Kinds
<1>3. r \in Seq(Operations) /\ Orderly(r) /\ (~tracking => recorded' = recorded)
  BY <1>1, <1>2, RecordOps, RecordOrderly
<1>4. f \in Seq(Operations) /\ \A m \in 1 .. Len(f) : f[m].op # "wait"
  <2>1. Free(c) \in Operations /\ Free(c).op = "free"
    BY CallOps, OrderedParts, CallOperationFields DEF IsOp
  <2>2. <<Free(c)>> \in Seq(Operations) /\ Len(<<Free(c)>>) = 1 /\ <<Free(c)>>[1] = Free(c)
    BY <2>1, Singleton
  <2>3. <<>> \in Seq(Operations) /\ Len(<<>>) = 0
    BY EmptySeq
  <2>4. CASE call[c].ok
    BY <2>3, <2>4
  <2>5. CASE ~call[c].ok
    <3>1. f = <<Free(c)>>
      BY <2>5
    <3>2. \A m \in 1 .. 1 : m = 1
      OBVIOUS
    <3> QED
      BY <2>1, <2>2, <3>1, <3>2
  <2> QED
    BY <2>4, <2>5
<1> HIDE DEF r, f
<1>5. r \o f \in Seq(Operations)
  BY <1>3, <1>4, Concatenated
<1>6. Orderly(r \o f)
  BY <1>3, <1>4, CalmOrderly, OrderlyParts DEF Orderly
<1> QED
  BY <1>1, <1>3, <1>5, <1>6, MainIsAStream, StreamsEnqueued

\* What waits for everything recorded of a storage and then uses it.
LEMMA WaitThenOrderly ==
    ASSUME Ordered, NEW b \in Inputs, NEW o \in Operations, o.op # "wait"
    PROVE  /\ Wait({b}, Kinds) \o <<o>> \in Seq(Operations)
           /\ WaitsRecorded(Wait({b}, Kinds) \o <<o>>)
<1>1. recorded \in [Inputs -> [Kinds -> Nat]] /\ {b} \in SUBSET Inputs /\ Kinds \in SUBSET Kinds
  BY OrderedParts
<1>2. Wait({b}, Kinds) \in Seq(Operations) /\ WaitsRecorded(Wait({b}, Kinds))
  BY <1>1, WaitOps, WaitOrderly
<1>3. <<o>> \in Seq(Operations) /\ Len(<<o>>) = 1 /\ <<o>>[1] = o
  BY Singleton
<1>4. WaitsRecorded(<<o>>)
  BY <1>3 DEF WaitsRecorded
<1> QED
  BY <1>2, <1>3, <1>4, OrderlyParts, Concatenated

LEMMA RefillStreams ==
    ASSUME Ordered, StreamsOK, NEW b \in Inputs, Refill(b)
    PROVE  StreamsOK'
<1> DEFINE wf == Wait({b}, Kinds) \o <<Fill(b)>>
           r == Record({b}, "write")
<1>1. PICK s \in Streams : s = writer[b]
  BY OrderedParts DEF Refill, HostOK, HostShape
<1>2. Enqueue(s, wf \o r) /\ Recorded({b}, "write") /\ done' = done
  BY <1>1 DEF Refill, device
<1>3. /\ {b} \in SUBSET Inputs /\ "write" \in Kinds
      /\ recorded \in [Inputs -> [Kinds -> Nat]]
      /\ Fill(b) \in Operations /\ Fill(b).op = "fill"
  BY OrderedParts, InputOps DEF Kinds, IsOp
<1>4. r \in Seq(Operations) /\ Orderly(r) /\ (~tracking => recorded' = recorded)
  BY <1>2, <1>3, RecordOps, RecordOrderly
<1>5. wf \in Seq(Operations) /\ WaitsRecorded(wf)
  BY <1>3, WaitThenOrderly
<1> HIDE DEF wf, r
<1>6. wf \o r \in Seq(Operations)
  BY <1>4, <1>5, Concatenated
<1>7. Orderly(wf \o r)
  BY <1>4, <1>5, OrderlyParts DEF Orderly
<1> QED
  BY <1>2, <1>4, <1>6, <1>7, StreamsEnqueued

LEMMA DropInputStreams ==
    ASSUME Ordered, StreamsOK, NEW b \in Inputs, DropInput(b)
    PROVE  StreamsOK'
<1> DEFINE ops == Wait({b}, Kinds) \o <<Free(b)>>
<1>1. Enqueue(Main, ops) /\ recorded' = recorded /\ done' = done
  BY DEF DropInput, events, device
<1>2. Free(b) \in Operations /\ Free(b).op = "free"
  BY OrderedParts, InputOps DEF IsOp
<1>3. ops \in Seq(Operations) /\ WaitsRecorded(ops)
  BY <1>2, WaitThenOrderly
<1> HIDE DEF ops
<1>4. Orderly(ops)
  BY <1>1, <1>3 DEF Orderly, HasNewRecords
<1> QED
  BY <1>1, <1>3, <1>4, MainIsAStream, StreamsEnqueued

LEMMA StreamsNext ==
    ASSUME Ordered, StreamsOK, [Next]_vars
    PROVE  StreamsOK'
<1>1. ASSUME NEW c \in Calls, Begin(c) \/ Launch(c) \/ DropOutput(c) \/ CopyOut(c)
      PROVE  StreamsOK'
  BY <1>1, CallStreams
<1>2. ASSUME NEW c \in Calls, CallStep(c)
      PROVE  StreamsOK'
  <2>1. ASSUME NEW n \in 0 .. Len(Reads[c]), Point(c, n)
        PROVE  StreamsOK'
    BY <2>1, PointStreams
  <2>2. CASE Return(c)
    BY <2>2, ReturnStreams
  <2>3. CASE Lock(c) \/ LaunchFails(c)
    BY <2>3, StreamsSame DEF Lock, LaunchFails, events, device
  <2> QED
    BY <1>1, <1>2, <2>1, <2>2, <2>3 DEF CallStep
<1>3. ASSUME NEW b \in Inputs, Refill(b) \/ DropInput(b)
      PROVE  StreamsOK'
  BY <1>3, RefillStreams, DropInputStreams
<1>4. ASSUME NEW s \in Streams, Finish(s)
      PROVE  StreamsOK'
  BY <1>4, EventsShift, WaitsShift DEF StreamsOK
<1>5. CASE Replay
  BY <1>5, ReplayStreams
<1>6. ASSUME queue' = queue, done' = done, recorded' = recorded
      PROVE  StreamsOK'
  BY <1>6, StreamsSame
<1> QED
  BY <1>1, <1>2, <1>3, <1>4, <1>5, <1>6
     DEF Next, vars, RefillBegin, BeginCapture, EndCapture, events, device

LEMMA StreamsInit ==
    ASSUME Init
    PROVE  StreamsOK
<1>1. \A s \in Streams : At(s) = {}
  BY EmptySeq DEF Init, At
<1>2. EventsOK
  BY DEF Init, EventsOK
<1>3. PICK t : t = [s \in Streams |-> [i \in Nat |-> 0]]
  OBVIOUS
<1>4. t \in [Streams -> [Nat -> Nat]]
  BY <1>3
<1>5. Numbered(0, t)
  BY <1>1, <1>4 DEF Numbered
<1> QED
  BY <1>2, <1>4, <1>5 DEF StreamsOK, WaitsOK

LEMMA NoSmaller ==
    ASSUME NEW x \in Nat, NEW y \in Nat, NEW z \in Nat, x < y, y <= z, z <= x
    PROVE  FALSE
OBVIOUS

LEMMA NotLess ==
    ASSUME NEW x \in Nat, NEW y \in Nat, x = y \/ x < y
    PROVE  x <= y
OBVIOUS

\* Streams that wait for each other's events never all wait, for any streams
\* and operations: of the operations at the heads of the streams, the one
\* enqueued first waits for nothing that is not done.
THEOREM SomeStreamAlwaysGoesOn == Spec => []SomeStreamGoesOn
<1>1. Init => StreamsOK
  BY StreamsInit
<1>2. Ordered /\ StreamsOK /\ [Next]_vars => StreamsOK'
  BY StreamsNext
<1>3. Ordered /\ StreamsOK => SomeStreamGoesOn
  <2> SUFFICES ASSUME Ordered, StreamsOK, \E s \in Streams : queue[s] # <<>>
               PROVE  \E s \in Streams : queue[s] # <<>> /\ Ready(Head(queue[s]))
    BY DEF SomeStreamGoesOn
  <2>1. PICK N \in Nat, t \in [Streams -> [Nat -> Nat]] : Numbered(N, t)
    BY DEF StreamsOK, WaitsOK
  <2> DEFINE W == {s \in Streams : queue[s] # <<>>}
             T == {t[s][1] : s \in W}
  <2>2. T # {} /\ T \in SUBSET Nat
    OBVIOUS
  <2>3. PICK m \in T : \A k \in T : m <= k
    BY <2>2, LeastNatural
  <2>4. PICK s \in W : m = t[s][1]
    OBVIOUS
  <2>5. \A r \in W : /\ 1 \in At(r) /\ Head(queue[r]) = queue[r][1]
                     /\ queue[r][1] \in Operations
    <3> SUFFICES ASSUME NEW r \in W
                 PROVE  /\ 1 \in At(r) /\ Head(queue[r]) = queue[r][1]
                        /\ queue[r][1] \in Operations
      OBVIOUS
    <3>1. queue[r] \in Seq(Operations) /\ queue[r] # <<>>
      BY OrderedParts
    <3>2. /\ Len(queue[r]) \in Nat /\ Len(queue[r]) >= 1
          /\ Head(queue[r]) = queue[r][1] /\ Head(queue[r]) \in Operations
      BY <3>1, Tailed
    <3>3. PICK L \in Nat : L = Len(queue[r])
      BY <3>2
    <3>4. 1 \in 1 .. L
      BY <3>2, <3>3
    <3>5. 1 \in At(r)
      BY <3>3, <3>4 DEF At
    <3> QED
      BY <3>2, <3>5
  <2>6. ASSUME NEW e \in Events, Waits(s, 1, e), e \notin done
        PROVE  FALSE
    <3>1. PICK r \in Streams : \E j \in At(r) : Records(r, j, e) /\ t[r][j] < t[s][1]
      BY <2>1, <2>4, <2>5, <2>6 DEF Numbered
    <3>2. PICK j \in At(r) : Records(r, j, e) /\ t[r][j] < t[s][1]
      BY <3>1
    <3>3. r \in W
      <4> SUFFICES ASSUME queue[r] = <<>>
                   PROVE  FALSE
        OBVIOUS
      <4>1. Len(queue[r]) = 0
        BY EmptySeq
      <4>2. 1 .. 0 = {}
        OBVIOUS
      <4> QED
        BY <4>1, <4>2 DEF At
    <3>4. j \in Nat /\ (j = 1 \/ 1 < j)
      <4>1. queue[r] \in Seq(Operations) /\ queue[r] # <<>>
        BY <3>3, OrderedParts
      <4>2. PICK L \in Nat : L = Len(queue[r])
        BY <4>1, Tailed
      <4>3. j \in 1 .. L
        BY <4>2 DEF At
      <4> QED
        BY <4>3
    <3>5. PICK x \in Nat, y \in Nat, z \in Nat : x = t[r][j] /\ y = t[s][1] /\ z = t[r][1]
      BY <2>4, <3>4
    <3>6. x < y
      BY <3>2, <3>5
    <3>7. y <= z
      BY <2>3, <2>4, <3>3, <3>5
    <3>8. z = x \/ z < x
      <4>1. 1 < j => t[r][1] < t[r][j]
        BY <2>1, <2>5, <3>3 DEF Numbered
      <4> QED
        BY <3>4, <3>5, <4>1
    <3> QED
      BY <3>6, <3>7, <3>8, NoSmaller, NotLess
  <2>7. Ready(queue[s][1])
    <3>1. queue[s][1].op = "wait" => queue[s][1].events \in SUBSET Events
      BY <2>4, <2>5, OperationFields
    <3> QED
      BY <2>6, <3>1 DEF Ready, Waits
  <2> QED
    BY <2>4, <2>5, <2>7
<1> QED
  BY <1>1, <1>2, <1>3, GuardsOrder, PTL DEF Spec
-----------------------------------------------------------------------------
(* The steps of StorageService.                                            *)

\* What the decodes in r are to compute.
Snapshots(r) == {Snapshot(r[i].buf, r[i].given) : i \in {k \in 1 .. Len(r) : r[k].op = "decode"}}

NoDecode(r) == \A i \in 1 .. Len(r) : r[i].op # "decode"

\* Decodes are on the main stream.
LEMMA DecodesOnMain ==
    ASSUME NEW q \in [Streams -> Seq(Operations)],
           \A s \in Streams \ {Main} : NoDecode(q[s])
    PROVE  {Snapshot(op.buf, op.given) :
                op \in {o \in UNION {ToSet(q[s]) : s \in Streams} : o.op = "decode"}}
           = Snapshots(q[Main])
<1> DEFINE D == {o \in UNION {ToSet(q[s]) : s \in Streams} : o.op = "decode"}
           E == {q[Main][i] : i \in {k \in 1 .. Len(q[Main]) : q[Main][k].op = "decode"}}
<1>1. \A s \in Streams : ToSet(q[s]) = {q[s][i] : i \in 1 .. Len(q[s])}
  <2> SUFFICES ASSUME NEW s \in Streams
               PROVE  ToSet(q[s]) = {q[s][i] : i \in 1 .. Len(q[s])}
    OBVIOUS
  <2>1. q[s] \in Seq(Operations)
    OBVIOUS
  <2>2. DOMAIN q[s] = 1 .. Len(q[s])
    BY <2>1
  <2> QED
    BY <2>2 DEF ToSet
<1>2. D = E
  <2>1. ASSUME NEW o \in D
        PROVE  o \in E
    <3>1. PICK s \in Streams : o \in ToSet(q[s])
      OBVIOUS
    <3>2. PICK i \in 1 .. Len(q[s]) : o = q[s][i]
      BY <1>1, <3>1
    <3>3. s = Main
      BY <3>2 DEF NoDecode
    <3> QED
      BY <3>2, <3>3
  <2>2. ASSUME NEW o \in E
        PROVE  o \in D
    <3>1. PICK i \in 1 .. Len(q[Main]) : o = q[Main][i] /\ o.op = "decode"
      OBVIOUS
    <3> QED
      BY <1>1, <3>1, MainIsAStream
  <2> QED
    BY <2>1, <2>2
<1> QED
  BY <1>2 DEF Snapshots

LEMMA PendingOnMain ==
    ASSUME Ordered
    PROVE  Pending = Snapshots(M)
<1>1. \A s \in Streams \ {Main} : NoDecode(queue[s])
  BY DEF Ordered, Shape, DeviceShape, NoDecode
<1> QED
  BY <1>1, OrderedParts, DecodesOnMain DEF Pending, M

LEMMA PendingOnMainNext ==
    ASSUME Ordered'
    PROVE  Pending' = Snapshots(M')
<1>1. \A s \in Streams \ {Main} : NoDecode(queue'[s])
  BY DEF Ordered, Shape, DeviceShape, NoDecode
<1>2. queue' \in [Streams -> Seq(Operations)]
  BY DEF Ordered, Shape, DeviceShape
<1> QED
  BY <1>1, <1>2, DecodesOnMain DEF Pending, M

\* What is enqueued adds its decodes.
LEMMA SnapshotsAppended ==
    ASSUME NEW r, NEW n, NEW ops, Appends(r, n, ops)
    PROVE  Snapshots(n) = Snapshots(r) \cup Snapshots(ops)
<1>1. ASSUME NEW x \in Snapshots(n)
      PROVE  x \in Snapshots(r) \cup Snapshots(ops)
  <2>1. PICK i \in 1 .. Len(n) : n[i].op = "decode" /\ x = Snapshot(n[i].buf, n[i].given)
    BY DEF Snapshots
  <2>2. \/ i \in 1 .. Len(r) /\ n[i] = r[i]
        \/ i - Len(r) \in 1 .. Len(ops) /\ n[i] = ops[i - Len(r)]
    BY AppendsOldOrNew
  <2> QED
    BY <2>1, <2>2 DEF Snapshots
<1>2. ASSUME NEW x \in Snapshots(r)
      PROVE  x \in Snapshots(n)
  <2>1. PICK i \in 1 .. Len(r) : r[i].op = "decode" /\ x = Snapshot(r[i].buf, r[i].given)
    BY DEF Snapshots
  <2>2. i \in 1 .. Len(n) /\ n[i] = r[i]
    BY DEF Appends
  <2> QED
    BY <2>1, <2>2 DEF Snapshots
<1>3. ASSUME NEW x \in Snapshots(ops)
      PROVE  x \in Snapshots(n)
  <2>1. PICK i \in 1 .. Len(ops) : ops[i].op = "decode" /\ x = Snapshot(ops[i].buf, ops[i].given)
    BY DEF Snapshots
  <2>2. Len(r) + i \in 1 .. Len(n) /\ n[Len(r) + i] = ops[i]
    BY DEF Appends
  <2> QED
    BY <2>1, <2>2 DEF Snapshots
<1> QED
  BY <1>1, <1>2, <1>3

LEMMA MainAppends ==
    ASSUME Ordered, NEW s \in Streams, NEW ops, Grows(s, ops)
    PROVE  /\ s = Main => Snapshots(M') = Snapshots(M) \cup Snapshots(ops)
           /\ s # Main => Snapshots(M') = Snapshots(M)
           /\ NoDecode(ops) => Snapshots(M') = Snapshots(M)
<1>1. CASE s = Main
  <2>1. Appends(M, M', ops)
    BY <1>1, OrderedParts, GrowsAppends DEF M
  <2>2. NoDecode(ops) => Snapshots(ops) = {}
    BY DEF NoDecode, Snapshots
  <2> QED
    BY <1>1, <2>1, <2>2, SnapshotsAppended
<1>2. CASE s # Main
  BY <1>2, MainIsAStream DEF Grows, M
<1> QED
  BY <1>1, <1>2

\* A step that refills nothing, decodes nothing and enqueues no decode.
LEMMA ServiceStutters ==
    ASSUME Ordered, Ordered', version' = version, content' = content,
           Snapshots(M') = Snapshots(M)
    PROVE  UNCHANGED Service!vars
BY PendingOnMain, PendingOnMainNext DEF Service!vars, Computed

LEMMA GoesOnPending ==
    ASSUME Ordered, GoesOn
    PROVE  Snapshots(M') = Snapshots(M)
<1>1. PICK s \in Streams : \E ops \in Seq(Operations) : Grows(s, ops) /\ Neutral(ops)
  BY DEF GoesOn
<1>2. PICK ops \in Seq(Operations) : Grows(s, ops) /\ Neutral(ops)
  BY <1>1
<1>3. NoDecode(ops)
  BY <1>2 DEF Neutral, NoDecode
<1> QED
  BY <1>2, <1>3, MainAppends

LEMMA OnMainPending ==
    ASSUME Ordered, NEW ops, OnMain(ops)
    PROVE  /\ NoDecode(ops) \/ Capturing => Snapshots(M') = Snapshots(M)
           /\ ~Capturing => Snapshots(M') = Snapshots(M) \cup Snapshots(ops)
<1>1. Grows(Main, Put(Main, ops))
  BY DEF OnMain
<1>2. NoDecode(ops) => NoDecode(Put(Main, ops))
  BY DEF OnMain, NoDecode
<1>3. Capturing => NoDecode(Put(Main, ops))
  <2>1. Len(<<>>) = 0 /\ 1 .. 0 = {}
    OBVIOUS
  <2> QED
    BY <2>1 DEF Put, NoDecode
<1>4. ~Capturing => Put(Main, ops) = ops
  BY DEF Put
<1> QED
  BY <1>1, <1>2, <1>3, <1>4, MainIsAStream, MainAppends

LEMMA CallService ==
    ASSUME Ordered, Ordered', NEW c \in Calls,
           \/ Begin(c) \/ Launch(c) \/ DropOutput(c) \/ CopyOut(c)
           \/ (Return(c) /\ ~call[c].ok)
    PROVE  Service!Next \/ UNCHANGED Service!vars
<1>1. content' = content /\ version' = version
  BY DEF Begin, Launch, DropOutput, CopyOut, Return, events, device
<1>2. ASSUME NEW ops, OnMain(ops), \A i \in 1 .. Len(ops) : ops[i].op # "decode"
      PROVE  UNCHANGED Service!vars
  BY <1>1, <1>2, OnMainPending, ServiceStutters DEF NoDecode
<1>3. CASE Begin(c)
  BY <1>2, <1>3, BeginParts DEF IsOp
<1>4. CASE DropOutput(c)
  BY <1>2, <1>4, DropOutputParts DEF IsOp
<1>5. CASE CopyOut(c)
  BY <1>2, <1>5, CopyOutParts DEF IsOp
<1>6. CASE Return(c) /\ ~call[c].ok
  <2>1. PICK ops \in Seq(Operations) :
            /\ OnMain(ops)
            /\ \A m \in 1 .. Len(ops) :
                   \/ ops[m].op = "record"
                   \/ ~call[c].ok /\ m = Len(ops) /\ IsOp(ops[m], "free", c)
    BY <1>6, ReturnParts
  <2>2. \A i \in 1 .. Len(ops) : ops[i].op # "decode"
    BY <2>1 DEF IsOp
  <2> QED
    BY <1>2, <2>1, <2>2
<1>7. CASE Launch(c)
  <2>1. OnMain(<<Decode(c)>>)
    BY <1>7, LaunchParts
  <2>2. CASE Capturing
    BY <1>1, <2>1, <2>2, OnMainPending, ServiceStutters
  <2>3. CASE ~Capturing
    <3>1. /\ Len(<<Decode(c)>>) = 1 /\ <<Decode(c)>>[1] = Decode(c)
          /\ Decode(c).op = "decode" /\ Decode(c).buf = c /\ Decode(c).given = version
      BY CallOps, OrderedParts, Singleton DEF IsOp
    <3>2. Snapshots(<<Decode(c)>>) = {Snapshot(c, version)}
      <4>1. {k \in 1 .. 1 : <<Decode(c)>>[k].op = "decode"} = {1}
        BY <3>1
      <4> QED
        BY <3>1, <4>1 DEF Snapshots
    <3>3. Pending' = Pending \cup {Snapshot(c, version)}
      BY <2>1, <2>3, <3>2, OnMainPending, PendingOnMain, PendingOnMainNext
    <3>4. Service!Issue({c})
      BY <1>1, <3>3 DEF Service!Issue, Service!Issued, Snapshot, Computed
    <3> QED
      BY <3>4 DEF Service!Next
  <2> QED
    BY <2>2, <2>3
<1> QED
  BY <1>3, <1>4, <1>5, <1>6, <1>7

LEMMA DropInputService ==
    ASSUME Ordered, Ordered', NEW b \in Inputs, DropInput(b)
    PROVE  UNCHANGED Service!vars
<1>1. PICK ops \in Seq(Operations) :
          /\ OnMain(ops)
          /\ \A m \in 1 .. Len(ops) : \/ m < Len(ops) /\ ops[m].op = "wait"
                                      \/ m = Len(ops) /\ IsOp(ops[m], "free", b)
  BY DropInputParts
<1>2. NoDecode(ops)
  BY <1>1 DEF NoDecode, IsOp
<1>3. content' = content /\ version' = version
  BY DEF DropInput, events, device
<1> QED
  BY <1>1, <1>2, <1>3, OnMainPending, ServiceStutters

LEMMA RefillService ==
    ASSUME Ordered, Ordered', NEW b \in Inputs, Refill(b)
    PROVE  Service!Refill(b)
<1>1. Snapshots(M') = Snapshots(M)
  BY RefillGoesOn, GoesOnPending
<1>2. Pending' = Pending
  BY <1>1, PendingOnMain, PendingOnMainNext
<1>3. version' = [version EXCEPT ![b] = @ + 1] /\ content' = content
  BY DEF Refill, device
<1> QED
  BY <1>2, <1>3 DEF Service!Refill, Computed

\* A replay issues every call in the graph.
LEMMA ReplayService ==
    ASSUME Ordered, Ordered', Replay
    PROVE  \E cs \in SUBSET Calls : Service!Issue(cs)
<1> DEFINE cs == {c \in Calls : Has(graph, c, "decode")}
<1>1. /\ ~Capturing /\ OnMain(ReplayedOps)
      /\ Len(graph) \in Nat /\ Len(ReplayedOps) = Len(graph)
      /\ \A i \in 1 .. Len(graph) :
             /\ graph[i] \in CallOperations
             /\ ReplayedOps[i].op = graph[i].op /\ ReplayedOps[i].buf = graph[i].buf
             /\ graph[i].op = "decode" => ReplayedOps[i].given = version
  BY ReplayParts
<1>2. Snapshots(ReplayedOps) = {Snapshot(c, version) : c \in cs}
  <2>1. ASSUME NEW x \in Snapshots(ReplayedOps)
        PROVE  x \in {Snapshot(c, version) : c \in cs}
    <3>1. PICK i \in 1 .. Len(graph) :
              /\ ReplayedOps[i].op = "decode"
              /\ x = Snapshot(ReplayedOps[i].buf, ReplayedOps[i].given)
      BY <1>1 DEF Snapshots
    <3>2. graph[i].op = "decode" /\ graph[i].buf \in Calls
      BY <1>1, <3>1, CallOperationFields
    <3>3. graph[i].buf \in cs
      BY <3>2 DEF Has, IsOp
    <3> QED
      BY <1>1, <3>1, <3>2, <3>3
  <2>2. ASSUME NEW c \in cs
        PROVE  Snapshot(c, version) \in Snapshots(ReplayedOps)
    <3>1. PICK i \in 1 .. Len(graph) : graph[i].op = "decode" /\ graph[i].buf = c
      BY DEF Has, IsOp
    <3> QED
      BY <1>1, <3>1 DEF Snapshots
  <2> QED
    BY <2>1, <2>2
<1>3. Pending' = Pending \cup {Snapshot(c, version) : c \in cs}
  BY <1>1, <1>2, OnMainPending, PendingOnMain, PendingOnMainNext
<1>4. content' = content /\ version' = version
  BY DEF Replay, events, device
<1>5. {Snapshot(c, version) : c \in cs}
      = {[call |-> c, given |-> [b \in [d \in Calls |-> ReadsOf(d)][c] |-> version[b]]] : c \in cs}
  BY DEF Snapshot
<1>6. cs \in SUBSET Calls
  OBVIOUS
<1> HIDE DEF cs
<1> QED
  BY <1>3, <1>4, <1>5, <1>6 DEF Service!Issue, Service!Issued, Computed

\* The decode at the head computes its snapshot, which is not later than what
\* is queued for the same call.
LEMMA DecodeComputes ==
    ASSUME Ordered, Ordered', CallsReadWhatTheyWereGiven, Finish(Main), M[1].op = "decode"
    PROVE  \E p \in Pending : Service!Compute(p)
<1>1. /\ Len(M) \in Nat /\ 1 \in 1 .. Len(M) /\ M[1] \in Operations
      /\ Len(M') \in Nat /\ Len(M') = Len(M) - 1
      /\ \A i \in 1 .. Len(M') : i + 1 \in 1 .. Len(M) /\ M'[i] = M[i + 1]
  BY MainShifts
<1>2. PICK c \in Calls : c = M[1].buf
  BY <1>1, OperationFields
<1>3. PICK g \in [Inputs -> Nat] : g = M[1].given
  BY <1>1, OperationFields
<1>4. ReadsOf(c) \in SUBSET Inputs
  BY ReadsAreInputs
<1> DEFINE p == Snapshot(c, g)
<1>5. p.call = c /\ p.given = [b \in ReadsOf(c) |-> g[b]]
  BY DEF Snapshot
<1>6. p \in Snapshots(M)
  BY <1>1, <1>2, <1>3 DEF Snapshots
<1>7. \A b \in ReadsOf(c) : content[b] = g[b]
  <2>1. M # <<>> /\ Head(M) = M[1]
    BY Finished, MainIsAStream, Popped DEF M
  <2> QED
    BY <1>2, <1>3, <2>1, MainIsAStream DEF CallsReadWhatTheyWereGiven, M
<1>8. ASSUME NEW r \in Snapshots(M), r.call = c
      PROVE  \A b \in ReadsOf(c) : p.given[b] <= r.given[b]
  <2> SUFFICES ASSUME NEW b \in ReadsOf(c)
               PROVE  p.given[b] <= r.given[b]
    OBVIOUS
  <2>1. PICK i \in 1 .. Len(M) : M[i].op = "decode" /\ r = Snapshot(M[i].buf, M[i].given)
    BY DEF Snapshots
  <2>2. M[i].buf = c /\ r.given = [a \in ReadsOf(c) |-> M[i].given[a]]
    BY <1>8, <2>1 DEF Snapshot
  <2>3. M[i] \in Operations
    BY MainIsAStream, OrderedParts, QueueLengths DEF M
  <2>4. PICK h \in Nat : h = M[i].given[b]
    BY <1>4, <2>1, <2>3, OperationFields
  <2>5. Given(i, c, b, h)
    BY <2>1, <2>2, <2>4 DEF Given, IsOp
  <2>6. content[b] <= h
    BY <2>5 DEF Ordered, DecodesOK
  <2> QED
    BY <1>5, <1>7, <2>2, <2>4, <2>6
<1>9. Computed' = [Computed EXCEPT ![c] = p.given]
  <2>1. IsOp(M[1], "decode", c)
    BY <1>2 DEF IsOp
  <2>2. content'[c] = [b \in ReadsOf(c) |-> content[b]]
    BY <2>1, FinishedStorages, MainIsAStream DEF M
  <2>3. content'[c] = p.given
    BY <1>5, <1>7, <2>2
  <2>4. \A d \in Calls : d # c => content'[d] = content[d]
    <3>1. \A d \in Calls : ~IsOp(M[1], "decode", d) => content'[d] = content[d]
      BY FinishedStorages, MainIsAStream DEF M
    <3> QED
      BY <1>2, <3>1 DEF IsOp
  <2> QED
    BY <2>3, <2>4 DEF Computed
<1>10. Snapshots(M) = Snapshots(M') \cup {p}
  <2>1. ASSUME NEW x \in Snapshots(M)
        PROVE  x = p \/ x \in Snapshots(M')
    <3>1. PICK i \in 1 .. Len(M) : M[i].op = "decode" /\ x = Snapshot(M[i].buf, M[i].given)
      BY DEF Snapshots
    <3>2. CASE i = 1
      BY <1>2, <1>3, <3>1, <3>2
    <3>3. CASE i # 1
      <4>1. i - 1 \in 1 .. Len(M') /\ (i - 1) + 1 = i
        BY <1>1, <3>3
      <4>2. M'[i - 1] = M[i]
        BY <1>1, <4>1
      <4> QED
        BY <3>1, <4>1, <4>2 DEF Snapshots
    <3> QED
      BY <3>2, <3>3
  <2>2. ASSUME NEW x \in Snapshots(M')
        PROVE  x \in Snapshots(M)
    <3>1. PICK i \in 1 .. Len(M') : M'[i].op = "decode" /\ x = Snapshot(M'[i].buf, M'[i].given)
      BY DEF Snapshots
    <3>2. i + 1 \in 1 .. Len(M) /\ M'[i] = M[i + 1]
      BY <1>1
    <3> QED
      BY <3>1, <3>2 DEF Snapshots
  <2> QED
    BY <1>6, <2>1, <2>2
<1>11. Pending = Snapshots(M) /\ Pending' = Snapshots(M') /\ version' = version
  BY PendingOnMain, PendingOnMainNext, Finished, MainIsAStream
<1> HIDE DEF p
<1>12. Pending' \in {Pending, Pending \ {p}}
  BY <1>10, <1>11
<1>13. ASSUME NEW r \in Pending, r.call = p.call
       PROVE  Service!NotLater(p, r)
  <2>1. [d \in Calls |-> ReadsOf(d)][p.call] = ReadsOf(c)
    BY <1>5
  <2> QED
    BY <1>5, <1>8, <1>11, <1>13, <2>1 DEF Service!NotLater
<1>14. Service!Compute(p)
  BY <1>5, <1>9, <1>11, <1>12, <1>13 DEF Service!Compute
<1> QED
  BY <1>6, <1>11, <1>14

LEMMA FinishService ==
    ASSUME Ordered, Ordered', CallsReadWhatTheyWereGiven, NEW s \in Streams, Finish(s)
    PROVE  Service!Next \/ UNCHANGED Service!vars
<1>1. CASE s = Main /\ M[1].op = "decode"
  BY <1>1, DecodeComputes DEF Service!Next
<1>2. CASE ~(s = Main /\ M[1].op = "decode")
  <2>1. Snapshots(M') = Snapshots(M)
    <3>1. CASE s # Main
      BY <3>1, FinishedStorages
    <3>2. CASE s = Main
      <4>1. /\ Len(M) \in Nat /\ Len(M') \in Nat /\ Len(M') = Len(M) - 1
            /\ \A i \in 1 .. Len(M') : i + 1 \in 1 .. Len(M) /\ M'[i] = M[i + 1]
        BY <3>2, MainShifts
      <4>2. ASSUME NEW x \in Snapshots(M)
            PROVE  x \in Snapshots(M')
        <5>1. PICK i \in 1 .. Len(M) : M[i].op = "decode" /\ x = Snapshot(M[i].buf, M[i].given)
          BY DEF Snapshots
        <5>2. i # 1
          BY <1>2, <3>2, <5>1
        <5>3. i - 1 \in 1 .. Len(M') /\ (i - 1) + 1 = i
          BY <4>1, <5>2
        <5>4. M'[i - 1] = M[i]
          BY <4>1, <5>3
        <5> QED
          BY <5>1, <5>3, <5>4 DEF Snapshots
      <4>3. ASSUME NEW x \in Snapshots(M')
            PROVE  x \in Snapshots(M)
        <5>1. PICK i \in 1 .. Len(M') :
                  M'[i].op = "decode" /\ x = Snapshot(M'[i].buf, M'[i].given)
          BY DEF Snapshots
        <5>2. i + 1 \in 1 .. Len(M) /\ M'[i] = M[i + 1]
          BY <4>1
        <5> QED
          BY <5>1, <5>2 DEF Snapshots
      <4> QED
        BY <4>2, <4>3
    <3> QED
      BY <3>1, <3>2
  <2>2. Pending' = Pending
    BY <2>1, PendingOnMain, PendingOnMainNext
  <2>3. Computed' = Computed
    <3>1. \A c \in Calls : ~IsOp(queue[s][1], "decode", c) => content'[c] = content[c]
      BY FinishedStorages
    <3>2. queue[s][1].op # "decode"
      <4>1. s # Main => queue[s][1].op # "decode"
        <5>1. s # Main => queue[s][1].op \in {"fill", "wait", "record"}
          BY FinishedStorages
        <5> QED
          BY <5>1
      <4> QED
        BY <1>2, <4>1 DEF M
    <3> QED
      BY <3>1, <3>2 DEF Computed, IsOp
  <2>4. version' = version
    BY Finished
  <2> QED
    BY <2>2, <2>3, <2>4 DEF Service!vars
<1> QED
  BY <1>1, <1>2

LEMMA ServiceStep ==
    ASSUME Ordered, Ordered', CallsReadWhatTheyWereGiven, [Next]_vars
    PROVE  Service!Next \/ UNCHANGED Service!vars
<1>1. ASSUME GoesOn, version' = version, content' = content
      PROVE  UNCHANGED Service!vars
  BY <1>1, GoesOnPending, ServiceStutters
<1>2. ASSUME NEW c \in Calls, Begin(c) \/ DropOutput(c) \/ CopyOut(c)
      PROVE  Service!Next \/ UNCHANGED Service!vars
  BY <1>2, CallService
<1>3. ASSUME NEW c \in Calls, CallStep(c)
      PROVE  Service!Next \/ UNCHANGED Service!vars
  <2>1. CASE Lock(c) \/ LaunchFails(c)
    <3>1. version' = version /\ content' = content
      BY <2>1 DEF Lock, LaunchFails, events, device
    <3> QED
      BY <1>1, <2>1, <3>1, LockGoesOn, LaunchFailsGoesOn
  <2>2. ASSUME NEW n \in 0 .. Len(Reads[c]), Point(c, n)
        PROVE  UNCHANGED Service!vars
    <3>1. version' = version /\ content' = content
      BY <2>2 DEF Point, events, device
    <3> QED
      BY <1>1, <2>2, <3>1, PointGoesOn
  <2>3. ASSUME Launch(c) \/ (Return(c) /\ ~call[c].ok)
        PROVE  Service!Next \/ UNCHANGED Service!vars
    BY <2>3, CallService
  <2>4. CASE Return(c) /\ call[c].ok
    BY <1>1, <2>4, ReturnGoesOn DEF Return, device
  <2> QED
    BY <1>3, <2>1, <2>2, <2>3, <2>4 DEF CallStep
<1>4. ASSUME NEW b \in Inputs, Refill(b)
      PROVE  Service!Next
  BY <1>4, RefillService DEF Service!Next
<1>5. ASSUME NEW b \in Inputs, DropInput(b)
      PROVE  UNCHANGED Service!vars
  BY <1>5, DropInputService
<1>6. ASSUME UNCHANGED <<version, queue, content>>
      PROVE  UNCHANGED Service!vars
  BY <1>6, ServiceStutters DEF M
<1>7. ASSUME NEW b \in Inputs, NEW s \in Streams, RefillBegin(b, s)
      PROVE  UNCHANGED Service!vars
  BY <1>6, <1>7 DEF RefillBegin, events, device
<1>8. CASE BeginCapture \/ EndCapture \/ UNCHANGED vars
  BY <1>6, <1>8 DEF BeginCapture, EndCapture, vars, events, device
<1>9. CASE Replay
  BY <1>9, ReplayService DEF Service!Next
<1>10. ASSUME NEW s \in Streams, Finish(s)
       PROVE  Service!Next \/ UNCHANGED Service!vars
  BY <1>10, FinishService
<1> QED
  BY <1>2, <1>3, <1>4, <1>5, <1>7, <1>8, <1>9, <1>10 DEF Next

\* Calls on several threads, refills on several streams and replays implement
\* StorageService, its safety part: every output is computed from one snapshot
\* of its inputs, that of the launch or of the replay, and no output is
\* computed from a snapshot earlier than one it was computed from before.
THEOREM ImplementsServiceSafety ==
    Spec => Service!Init /\ [][Service!Next]_(Service!vars)
<1>1. Init => Service!Init
  <2> SUFFICES ASSUME Init
               PROVE  Service!Init
    OBVIOUS
  <2>1. Pending = {}
    <3>1. \A s \in Streams : ToSet(queue[s]) = {}
      BY DEF Init, ToSet
    <3> QED
      BY <3>1 DEF Pending
  <2>2. Computed = [c \in Calls |-> None]
    BY GuardsAssumption DEF Init, Computed
  <2>3. version = [b \in Inputs |-> 0]
    BY DEF Init
  <2> QED
    BY <2>1, <2>2, <2>3 DEF Service!Init
<1>2. Ordered /\ Ordered' /\ CallsReadWhatTheyWereGiven /\ [Next]_vars
      => [Service!Next]_(Service!vars)
  BY ServiceStep
<1> QED
  BY <1>1, <1>2, GuardsOrder, CallsReadWhatTheyWereGivenAlways, PTL DEF Spec
-----------------------------------------------------------------------------
(* What is left when every stream is idle.                                 *)

\* What is allocated after ops was put at the end was allocated in ops, or
\* before and is not freed by ops.
LEMMA AliveBefore ==
    ASSUME NEW r, NEW n, NEW ops, Appends(r, n, ops), NEW L, NEW c,
           Alive(n, c, Len(n) + 1, L)
    PROVE  \/ Alive(ops, c, Len(ops) + 1, {})
           \/ /\ Alive(r, c, Len(r) + 1, L)
              /\ \A k \in 1 .. Len(ops) : ~IsOp(ops[k], "free", c)
<1>1. /\ Len(r) \in Nat /\ Len(ops) \in Nat /\ Len(n) = Len(r) + Len(ops)
      /\ \A i \in 1 .. Len(r) : n[i] = r[i]
      /\ \A i \in 1 .. Len(ops) : n[Len(r) + i] = ops[i]
  BY DEF Appends
<1>2. /\ (Len(n) + 1) - 1 = Len(n) /\ (Len(r) + 1) - 1 = Len(r)
      /\ (Len(ops) + 1) - 1 = Len(ops)
      /\ \A i \in 1 .. Len(r) : i \in 1 .. Len(n)
      /\ \A i \in 1 .. Len(ops) : Len(r) + i \in 1 .. Len(n)
  BY <1>1
<1>3. CASE c \in L /\ \A k \in 1 .. Len(n) : ~IsOp(n[k], "free", c)
  <2>1. \A k \in 1 .. Len(r) : ~IsOp(r[k], "free", c)
    BY <1>1, <1>2, <1>3 DEF IsOp
  <2>2. \A k \in 1 .. Len(ops) : ~IsOp(ops[k], "free", c)
    BY <1>1, <1>2, <1>3 DEF IsOp
  <2> QED
    BY <1>2, <1>3, <2>1, <2>2 DEF Alive
<1>4. ASSUME NEW k \in 1 .. Len(n), IsOp(n[k], "alloc", c),
             \A m \in k + 1 .. Len(n) : ~IsOp(n[m], "free", c)
      PROVE  \/ Alive(ops, c, Len(ops) + 1, {})
             \/ /\ Alive(r, c, Len(r) + 1, L)
                /\ \A i \in 1 .. Len(ops) : ~IsOp(ops[i], "free", c)
  <2>1. CASE k \in 1 .. Len(r)
    <3>1. IsOp(r[k], "alloc", c)
      BY <1>1, <1>4, <2>1 DEF IsOp
    <3>2. \A m \in k + 1 .. Len(r) : m \in k + 1 .. Len(n) /\ m \in 1 .. Len(r)
      BY <1>1, <2>1
    <3>3. \A m \in k + 1 .. Len(r) : ~IsOp(r[m], "free", c)
      BY <1>1, <1>4, <3>2 DEF IsOp
    <3>4. \A i \in 1 .. Len(ops) : Len(r) + i \in k + 1 .. Len(n)
      BY <1>1, <2>1
    <3>5. \A i \in 1 .. Len(ops) : ~IsOp(ops[i], "free", c)
      BY <1>1, <1>4, <3>4 DEF IsOp
    <3> QED
      BY <1>2, <2>1, <3>1, <3>3, <3>5 DEF Alive
  <2>2. CASE k \notin 1 .. Len(r)
    <3>1. PICK j \in 1 .. Len(ops) : k = Len(r) + j
      <4>1. k - Len(r) \in 1 .. Len(ops) /\ k = Len(r) + (k - Len(r))
        BY <1>1, <2>2
      <4> QED
        BY <4>1
    <3>2. IsOp(ops[j], "alloc", c)
      BY <1>1, <1>4, <3>1 DEF IsOp
    <3>3. \A m \in j + 1 .. Len(ops) : m \in 1 .. Len(ops) /\ Len(r) + m \in k + 1 .. Len(n)
      BY <1>1, <3>1
    <3>4. \A m \in j + 1 .. Len(ops) : ~IsOp(ops[m], "free", c)
      BY <1>1, <1>4, <3>3 DEF IsOp
    <3> QED
      BY <1>2, <3>1, <3>2, <3>4 DEF Alive
  <2> QED
    BY <2>1, <2>2
<1>5. \/ c \in L /\ \A k \in 1 .. Len(n) : ~IsOp(n[k], "free", c)
      \/ \E k \in 1 .. Len(n) : /\ IsOp(n[k], "alloc", c)
                                /\ \A m \in k + 1 .. Len(n) : ~IsOp(n[m], "free", c)
  BY <1>2 DEF Alive
<1> QED
  BY <1>3, <1>4, <1>5

\* What is allocated after the head is done will be if it is yet to be done.
LEMMA AliveUnshifts ==
    ASSUME NEW r, NEW n, NEW L, NEW K, Len(r) \in Nat, Len(n) \in Nat, Len(n) = Len(r) - 1,
           \A i \in 1 .. Len(n) : n[i] = r[i + 1],
           NEW c, c \in K => IsOp(r[1], "alloc", c) \/ (c \in L /\ ~IsOp(r[1], "free", c)),
           Alive(n, c, Len(n) + 1, K)
    PROVE  Alive(r, c, Len(r) + 1, L)
<1>1. /\ (Len(n) + 1) - 1 = Len(n) /\ (Len(r) + 1) - 1 = Len(r)
      /\ \A k \in 1 .. Len(n) : k + 1 \in 1 .. Len(r)
      /\ 1 \in 1 .. Len(r)
  OBVIOUS
<1>2. CASE c \in K /\ \A k \in 1 .. Len(n) : ~IsOp(n[k], "free", c)
  <2>1. \A m \in 2 .. Len(r) : m - 1 \in 1 .. Len(n) /\ (m - 1) + 1 = m
    OBVIOUS
  <2>2. \A m \in 2 .. Len(r) : r[m] = n[m - 1]
    BY <2>1
  <2>3. \A m \in 2 .. Len(r) : ~IsOp(r[m], "free", c)
    BY <1>2, <2>1, <2>2
  <2>4. CASE IsOp(r[1], "alloc", c)
    BY <1>1, <2>3, <2>4 DEF Alive
  <2>5. CASE c \in L /\ ~IsOp(r[1], "free", c)
    <3>1. \A m \in 1 .. Len(r) : m = 1 \/ m \in 2 .. Len(r)
      OBVIOUS
    <3>2. \A m \in 1 .. Len(r) : ~IsOp(r[m], "free", c)
      BY <2>3, <2>5, <3>1
    <3> QED
      BY <1>1, <2>5, <3>2 DEF Alive
  <2> QED
    BY <1>2, <2>4, <2>5
<1>3. ASSUME NEW k \in 1 .. Len(n), IsOp(n[k], "alloc", c),
             \A m \in k + 1 .. Len(n) : ~IsOp(n[m], "free", c)
      PROVE  Alive(r, c, Len(r) + 1, L)
  <2>1. k + 1 \in 1 .. Len(r) /\ IsOp(r[k + 1], "alloc", c)
    BY <1>1, <1>3
  <2>2. \A m \in (k + 1) + 1 .. Len(r) :
            m - 1 \in k + 1 .. Len(n) /\ m - 1 \in 1 .. Len(n) /\ (m - 1) + 1 = m
    BY <1>3
  <2>3. \A m \in (k + 1) + 1 .. Len(r) : r[m] = n[m - 1]
    BY <2>2
  <2>4. \A m \in (k + 1) + 1 .. Len(r) : ~IsOp(r[m], "free", c)
    BY <1>3, <2>2, <2>3
  <2> QED
    BY <1>1, <2>1, <2>4 DEF Alive
<1>4. \/ c \in K /\ \A k \in 1 .. Len(n) : ~IsOp(n[k], "free", c)
      \/ \E k \in 1 .. Len(n) : /\ IsOp(n[k], "alloc", c)
                                /\ \A m \in k + 1 .. Len(n) : ~IsOp(n[m], "free", c)
  BY <1>1 DEF Alive
<1> QED
  BY <1>2, <1>3, <1>4

\* An output that no call holds is not allocated once what is queued, or
\* captured, is done; a capture holds none on the stream, a graph none at all.
ReleasedOK ==
    /\ \A c \in Calls : call[c].step \notin Holding => ~Alive(Line, c, Len(Line) + 1, Start)
    /\ Capturing => \A c \in Calls : ~Alive(M, c, Len(M) + 1, live)
    /\ graph # None => \A c \in Calls : ~Alive(graph, c, Len(graph) + 1, {})

\* Operations are enqueued, with the release of what is no longer held.
LEMMA ReleasedGrow ==
    ASSUME ReleasedOK, NEW ops, OnLine(ops),
           \A c \in Calls : call'[c].step \notin Holding =>
               /\ ~Alive(ops, c, Len(ops) + 1, {})
               /\ \/ call[c].step \notin Holding
                  \/ \E k \in 1 .. Len(ops) : IsOp(ops[k], "free", c)
    PROVE  ReleasedOK'
<1>1. /\ Appends(Line, Line', ops) /\ (Capturing' <=> Capturing)
      /\ Capturing => M' = M
      /\ live' = live /\ graph' = graph
      /\ Start' = Start
  BY DEF OnLine, Start
<1>2. ASSUME NEW c \in Calls, call'[c].step \notin Holding, Alive(Line', c, Len(Line') + 1, Start)
      PROVE  FALSE
  <2>1. /\ Alive(Line, c, Len(Line) + 1, Start)
        /\ \A k \in 1 .. Len(ops) : ~IsOp(ops[k], "free", c)
    BY <1>1, <1>2, AliveBefore
  <2>2. call[c].step \notin Holding
    BY <1>2, <2>1
  <2> QED
    BY <2>1, <2>2 DEF ReleasedOK
<1>3. Capturing' => \A c \in Calls : ~Alive(M', c, Len(M') + 1, live')
  BY <1>1 DEF ReleasedOK
<1>4. graph' # None => \A c \in Calls : ~Alive(graph', c, Len(graph') + 1, {})
  BY <1>1 DEF ReleasedOK
<1> QED
  BY <1>1, <1>2, <1>3, <1>4 DEF ReleasedOK

LEMMA NotAllocated ==
    ASSUME NEW ops, NEW c, \A m \in 1 .. Len(ops) : ~IsOp(ops[m], "alloc", c), Len(ops) \in Nat
    PROVE  ~Alive(ops, c, Len(ops) + 1, {})
BY DEF Alive

LEMMA GoesOnReleased ==
    ASSUME ReleasedOK, GoesOn
    PROVE  ReleasedOK'
<1>1. PICK ops \in Seq(Operations) : OnLine(ops) /\ Neutral(ops)
  BY DEF GoesOn
<1>2. Len(ops) \in Nat
  BY <1>1 DEF OnLine, Appends
<1>3. \A c : \A m \in 1 .. Len(ops) : ~IsOp(ops[m], "alloc", c)
  BY <1>1 DEF Neutral, IsOp
<1>4. \A c : ~Alive(ops, c, Len(ops) + 1, {})
  BY <1>2, <1>3, NotAllocated
<1>5. \A c \in Calls : call'[c].step \in Holding <=> call[c].step \in Holding
  BY DEF GoesOn, CallsGoOn
<1> QED
  BY <1>1, <1>4, <1>5, ReleasedGrow

\* One operation of a call is enqueued: it gets its output, uses it or frees it.
LEMMA OneReleased ==
    ASSUME ReleasedOK, NEW ops, OnLine(ops), Len(ops) = 1, NEW c \in Calls,
           NEW op \in {"alloc", "decode", "copy", "free"},
           \A i \in 1 .. Len(ops) : i = 1 /\ IsOp(ops[i], op, c),
           op = "alloc" => call'[c].step \in Holding,
           op \in {"decode", "copy"} => (call'[c].step \in Holding <=> call[c].step \in Holding),
           \A d \in Calls \ {c} : call'[d].step \in Holding <=> call[d].step \in Holding
    PROVE  ReleasedOK'
<1>1. 1 \in 1 .. Len(ops) /\ IsOp(ops[1], op, c) /\ Len(ops) \in Nat
  OBVIOUS
<1>2. ASSUME NEW d \in Calls, call'[d].step \notin Holding
      PROVE  /\ ~Alive(ops, d, Len(ops) + 1, {})
             /\ \/ call[d].step \notin Holding
                \/ \E k \in 1 .. Len(ops) : IsOp(ops[k], "free", d)
  <2>1. CASE d # c
    <3>1. \A m \in 1 .. Len(ops) : ~IsOp(ops[m], "alloc", d)
      BY <2>1 DEF IsOp
    <3> QED
      BY <1>1, <1>2, <2>1, <3>1, NotAllocated
  <2>2. CASE d = c
    <3>1. op # "alloc"
      BY <1>2, <2>2
    <3>2. \A m \in 1 .. Len(ops) : ~IsOp(ops[m], "alloc", d)
      BY <3>1 DEF IsOp
    <3>3. ~Alive(ops, d, Len(ops) + 1, {})
      BY <1>1, <3>2, NotAllocated
    <3>4. op # "free" => call[d].step \notin Holding
      BY <1>2, <2>2, <3>1
    <3> QED
      BY <1>1, <2>2, <3>3, <3>4
  <2> QED
    BY <2>1, <2>2
<1> QED
  BY <1>2, ReleasedGrow

LEMMA CallReleased ==
    ASSUME Ordered, ReleasedOK, NEW c \in Calls,
           Begin(c) \/ Launch(c) \/ DropOutput(c) \/ CopyOut(c)
    PROVE  ReleasedOK'
<1>1. /\ "lock" \in Holding /\ "end" \in Holding /\ "ok" \in Holding /\ "launch" \in Holding
      /\ "dropped" \notin Holding
  BY DEF Holding, Active
<1>2. CASE Begin(c)
  <2>1. /\ OnLine(<<Alloc(c)>>) /\ Moves(c, "new", "lock") /\ Len(<<Alloc(c)>>) = 1
        /\ \A i \in 1 .. Len(<<Alloc(c)>>) : i = 1 /\ IsOp(<<Alloc(c)>>[i], "alloc", c)
    BY <1>2, BeginParts DEF OnMain
  <2> QED
    BY <1>1, <2>1, OneReleased DEF Moves
<1>3. CASE Launch(c)
  <2>1. /\ OnLine(<<Decode(c)>>) /\ Moves(c, "launch", "end") /\ Len(<<Decode(c)>>) = 1
        /\ \A i \in 1 .. Len(<<Decode(c)>>) : i = 1 /\ IsOp(<<Decode(c)>>[i], "decode", c)
    BY <1>3, LaunchParts DEF OnMain
  <2> QED
    BY <1>1, <2>1, OneReleased DEF Moves
<1>4. CASE DropOutput(c)
  <2>1. /\ OnLine(<<Free(c)>>) /\ Moves(c, "ok", "dropped") /\ Len(<<Free(c)>>) = 1
        /\ \A i \in 1 .. Len(<<Free(c)>>) : i = 1 /\ IsOp(<<Free(c)>>[i], "free", c)
    BY <1>4, DropOutputParts DEF OnMain
  <2> QED
    BY <1>1, <2>1, OneReleased DEF Moves
<1>5. CASE CopyOut(c)
  <2>1. /\ OnLine(<<Copy(c)>>) /\ call' = call /\ Len(<<Copy(c)>>) = 1
        /\ \A i \in 1 .. Len(<<Copy(c)>>) : i = 1 /\ IsOp(<<Copy(c)>>[i], "copy", c)
    BY <1>5, CopyOutParts DEF OnMain
  <2> QED
    BY <1>1, <2>1, OneReleased
<1> QED
  BY <1>2, <1>3, <1>4, <1>5

\* A call that fails frees its output.
LEMMA ErrorReleased ==
    ASSUME Ordered, GraphsOK, ReleasedOK, NEW c \in Calls, Return(c), ~call[c].ok
    PROVE  ReleasedOK'
<1> DEFINE ops == Record(Guarded(c), "read") \o <<Free(c)>>
<1>1. Guarded(c) \in SUBSET Inputs /\ "read" \in Kinds
  BY OrderedParts, ReadsAreInputs DEF Guarded, Kinds
<1>2. /\ Record(Guarded(c), "read") \in Seq(Operations)
      /\ \A i \in 1 .. Len(Record(Guarded(c), "read")) :
             Record(Guarded(c), "read")[i].op = "record"
  BY <1>1, OrderedParts, RecordOps
<1>3. /\ Free(c) \in Operations /\ IsOp(Free(c), "free", c)
      /\ <<Free(c)>> \in Seq(Operations) /\ Len(<<Free(c)>>) = 1 /\ <<Free(c)>>[1] = Free(c)
  BY OrderedParts, CallOps, CallOperationFields, Singleton
<1> DEFINE r == Record(Guarded(c), "read")
<1>4. /\ ops \in Seq(Operations) /\ Len(r) \in Nat /\ Len(ops) = Len(r) + 1
      /\ \A i \in 1 .. Len(r) : ops[i] = r[i]
      /\ ops[Len(r) + 1] = Free(c)
  <2> HIDE DEF r
  <2>1. /\ r \o <<Free(c)>> \in Seq(Operations) /\ Len(r) \in Nat
        /\ Len(r \o <<Free(c)>>) = Len(r) + Len(<<Free(c)>>)
        /\ \A i \in 1 .. Len(r) : (r \o <<Free(c)>>)[i] = r[i]
        /\ \A i \in 1 .. Len(<<Free(c)>>) : (r \o <<Free(c)>>)[Len(r) + i] = <<Free(c)>>[i]
    BY <1>2, <1>3, Concatenated DEF r
  <2>2. 1 \in 1 .. Len(<<Free(c)>>)
    BY <1>3
  <2> QED
    BY <1>3, <2>1, <2>2 DEF r
<1>5. /\ Enqueue(Main, ops) /\ UNCHANGED <<live, content, stable, graph>>
      /\ Moves(c, "end", "err")
  BY ReturnParts DEF Return, CallStream, device
<1>6. Capturing => ops \in Seq(CallOperations)
  <2>1. Capturing => r \in Seq(CallOperations)
    BY <1>1, OrderedParts, RecordOps, EmptySeq
  <2>2. <<Free(c)>> \in Seq(CallOperations)
    BY OrderedParts, CallOps, Singleton
  <2> HIDE DEF r
  <2>3. ops = r \o <<Free(c)>>
    BY DEF r
  <2> QED
    BY <2>1, <2>2, <2>3, Concatenated
<1>7. OnLine(ops)
  <2> HIDE DEF ops
  <2> QED
    BY <1>4, <1>5, <1>6, EnqueuedOnLine DEF OnMain
<1>8. \A d : \A m \in 1 .. Len(ops) : ~IsOp(ops[m], "alloc", d)
  <2>1. \A m \in 1 .. Len(ops) : m \in 1 .. Len(r) \/ m = Len(r) + 1
    BY <1>4
  <2> QED
    BY <1>2, <1>3, <1>4, <2>1 DEF IsOp
<1>9. Len(ops) \in 1 .. Len(ops) /\ IsOp(ops[Len(ops)], "free", c) /\ Len(ops) \in Nat
  BY <1>3, <1>4
<1> HIDE DEF ops, r
<1>10. ASSUME NEW d \in Calls, call'[d].step \notin Holding
       PROVE  /\ ~Alive(ops, d, Len(ops) + 1, {})
              /\ \/ call[d].step \notin Holding
                 \/ \E k \in 1 .. Len(ops) : IsOp(ops[k], "free", d)
  <2>1. ~Alive(ops, d, Len(ops) + 1, {})
    BY <1>8, <1>9, NotAllocated
  <2>2. CASE d = c
    BY <1>9, <2>1, <2>2
  <2>3. CASE d # c
    BY <1>5, <1>10, <2>1, <2>3 DEF Moves
  <2> QED
    BY <2>2, <2>3
<1> QED
  BY <1>7, <1>10, ReleasedGrow

LEMMA DropInputReleased ==
    ASSUME Ordered, ReleasedOK, NEW b \in Inputs, DropInput(b)
    PROVE  ReleasedOK'
<1>1. PICK ops \in Seq(Operations) :
          /\ OnMain(ops) /\ Len(ops) \in Nat
          /\ \A m \in 1 .. Len(ops) : ops[m].op = "wait" \/ IsOp(ops[m], "free", b)
  BY DropInputParts
<1>2. call' = call /\ OnLine(ops)
  BY <1>1, DropInputParts DEF OnMain
<1>3. \A c : ~Alive(ops, c, Len(ops) + 1, {})
  <2>1. \A c : \A m \in 1 .. Len(ops) : ~IsOp(ops[m], "alloc", c)
    BY <1>1 DEF IsOp
  <2> QED
    BY <1>1, <2>1, NotAllocated
<1> QED
  BY <1>2, <1>3, ReleasedGrow

\* A replay frees what it allocates.
LEMMA ReplayReleased ==
    ASSUME Ordered, ReleasedOK, Replay
    PROVE  ReleasedOK'
<1> DEFINE ops == ReplayedOps
<1>1. /\ graph # None /\ OnLine(ops) /\ call' = call
      /\ Len(graph) \in Nat /\ Len(ops) = Len(graph)
      /\ \A i \in 1 .. Len(graph) : ops[i].op = graph[i].op /\ ops[i].buf = graph[i].buf
  BY ReplayParts DEF OnMain
<1> HIDE DEF ops
<1>2. ASSUME NEW c \in Calls
      PROVE  ~Alive(ops, c, Len(ops) + 1, {})
  <2>1. ~Alive(graph, c, Len(graph) + 1, {})
    BY <1>1 DEF ReleasedOK
  <2>2. (Len(graph) + 1) - 1 = Len(graph)
        /\ \A k \in 1 .. Len(graph) : \A m \in k + 1 .. Len(graph) : m \in 1 .. Len(graph)
    BY <1>1
  <2>3. \A k \in 1 .. Len(graph) : \A op : IsOp(ops[k], op, c) <=> IsOp(graph[k], op, c)
    BY <1>1 DEF IsOp
  <2> QED
    BY <1>1, <2>1, <2>2, <2>3 DEF Alive
<1> QED
  BY <1>1, <1>2, ReleasedGrow

\* No output is held when a capture begins, and none when it ends.
LEMMA CaptureReleased ==
    ASSUME Ordered, ReleasedOK, BeginCapture \/ EndCapture
    PROVE  ReleasedOK'
<1>1. /\ \A c \in Calls : Idle(c) /\ call[c].step # "ok"
      /\ call' = call /\ queue' = queue /\ live' = live
  BY DEF BeginCapture, EndCapture, calls, device
<1>2. \A c \in Calls : call[c].step \notin Holding
  BY <1>1 DEF Idle, Holding, Active
<1>3. \A c \in Calls : ~Alive(Line, c, Len(Line) + 1, Start)
  BY <1>2 DEF ReleasedOK
<1>4. \A c \in Calls : ~Alive(M, c, Len(M) + 1, live)
  BY <1>3 DEF ReleasedOK, Line, Start
<1>5. \A c \in Calls : ~Alive(M', c, Len(M') + 1, live')
  BY <1>1, <1>4 DEF M
<1>6. CASE BeginCapture
  <2>1. tape' = <<>> /\ graph' = None
    BY <1>6 DEF BeginCapture
  <2>2. Len(tape') = 0
    BY <2>1, EmptySeq
  <2>3. \A c \in Calls : ~Alive(tape', c, Len(tape') + 1, {})
    BY <2>2, NotAllocated
  <2>4. \A c \in Calls : ~Alive(Line', c, Len(Line') + 1, Start')
    BY <1>5, <2>3 DEF Line, Start
  <2> QED
    BY <1>5, <2>1, <2>4 DEF ReleasedOK
<1>7. CASE EndCapture
  <2>1. tape' = None /\ graph' = tape /\ Capturing
    BY <1>7 DEF EndCapture
  <2>2. ~Capturing'
    BY <2>1 DEF Capturing
  <2>3. \A c \in Calls : ~Alive(graph', c, Len(graph') + 1, {})
    BY <1>3, <2>1 DEF Line, Start
  <2>4. \A c \in Calls : ~Alive(Line', c, Len(Line') + 1, Start')
    BY <1>5, <2>2 DEF Line, Start
  <2> QED
    BY <2>2, <2>3, <2>4 DEF ReleasedOK
<1> QED
  BY <1>6, <1>7

LEMMA FinishReleased ==
    ASSUME Ordered, ReleasedOK, NEW s \in Streams, Finish(s)
    PROVE  ReleasedOK'
<1>1. call' = call /\ tape' = tape /\ graph' = graph
  BY Finished
<1>2. Capturing' <=> Capturing
  BY <1>1 DEF Capturing
<1>3. ASSUME NEW c \in Calls, Alive(M', c, Len(M') + 1, live')
      PROVE  Alive(M, c, Len(M) + 1, live)
  <2>1. CASE s # Main
    <3>1. M' = M /\ live' = live
      BY <2>1, FinishedStorages
    <3> QED
      BY <1>3, <3>1
  <2>2. CASE s = Main
    <3>1. /\ Len(M) \in Nat /\ Len(M') \in Nat /\ Len(M') = Len(M) - 1
          /\ \A i \in 1 .. Len(M') : M'[i] = M[i + 1]
      BY <2>2, MainShifts
    <3>2. /\ M[1].op = "alloc" => live' = live \cup {M[1].buf}
          /\ M[1].op = "free" => live' = live \ {M[1].buf}
          /\ M[1].op \notin {"alloc", "free"} => live' = live
      BY <2>2, FinishedStorages DEF M
    <3>3. c \in live' => IsOp(M[1], "alloc", c) \/ (c \in live /\ ~IsOp(M[1], "free", c))
      BY <3>2 DEF IsOp
    <3> QED
      BY <1>3, <3>1, <3>3, AliveUnshifts
  <2> QED
    BY <2>1, <2>2
<1>4. ASSUME NEW c \in Calls, call[c].step \notin Holding
      PROVE  ~Alive(Line', c, Len(Line') + 1, Start')
  BY <1>1, <1>2, <1>3, <1>4 DEF ReleasedOK, Line, Start
<1> QED
  BY <1>1, <1>2, <1>3, <1>4 DEF ReleasedOK

LEMMA ReleasedNext ==
    ASSUME Ordered, GraphsOK, ReleasedOK, [Next]_vars
    PROVE  ReleasedOK'
BY StepKinds, GoesOnReleased, CallReleased, ErrorReleased, DropInputReleased, ReplayReleased,
   CaptureReleased, FinishReleased

LEMMA ReleasedInit ==
    ASSUME Init
    PROVE  ReleasedOK
<1>1. M = <<>> /\ tape = None /\ graph = None /\ live = Inputs
  BY MainIsAStream DEF Init, M
<1>2. Len(M) = 0 /\ ~Capturing
  BY <1>1, EmptySeq DEF Capturing
<1>3. \A c \in Calls : ~Alive(M, c, Len(M) + 1, live)
  BY <1>1, <1>2, GuardsAssumption DEF Alive
<1> QED
  BY <1>1, <1>2, <1>3 DEF ReleasedOK, Line, Start

\* What is queued stays in its place until the device finishes something.
Stays ==
    /\ content' = content /\ live' = live
    /\ \A s \in Streams : \A i \in 1 .. Len(queue[s]) :
           i \in 1 .. Len(queue'[s]) /\ queue'[s][i] = queue[s][i]

LEMMA GrowsStays ==
    ASSUME Ordered, NEW s \in Streams, NEW ops, Grows(s, ops), content' = content, live' = live
    PROVE  Stays
BY OrderedParts, OldOrNew DEF Stays

LEMMA StaysOrFinishes ==
    ASSUME Ordered, [Next]_vars
    PROVE  Stays \/ \E s \in Streams : Finish(s)
<1>1. CASE GoesOn
  <2>1. PICK s \in Streams : \E ops \in Seq(Operations) : Grows(s, ops)
    BY <1>1 DEF GoesOn
  <2>2. content' = content /\ live' = live
    BY <1>1 DEF GoesOn, OnLine
  <2> QED
    BY <2>1, <2>2, GrowsStays
<1>2. ASSUME NEW ops, OnMain(ops)
      PROVE  Stays
  BY <1>2, MainIsAStream, GrowsStays DEF OnMain, OnLine
<1>3. ASSUME NEW c \in Calls,
             Begin(c) \/ Launch(c) \/ DropOutput(c) \/ CopyOut(c) \/ Return(c)
      PROVE  Stays
  BY <1>2, <1>3, BeginParts, LaunchParts, DropOutputParts, CopyOutParts, ReturnParts
<1>4. ASSUME NEW b \in Inputs, DropInput(b)
      PROVE  Stays
  BY <1>2, <1>4, DropInputParts
<1>5. CASE Replay
  BY <1>2, <1>5, ReplayParts
<1>6. CASE BeginCapture \/ EndCapture
  <2>1. queue' = queue /\ content' = content /\ live' = live
    BY <1>6 DEF BeginCapture, EndCapture, device
  <2> QED
    BY <2>1, OrderedParts, MainIsAStream, GrowsNot, GrowsStays
<1> QED
  BY <1>1, <1>3, <1>4, <1>5, <1>6, StepKinds

\* The device finishes the head of a stream; what else is queued is still there.
LEMMA QueuedShifts ==
    ASSUME Ordered, NEW s \in Streams, Finish(s), NEW t \in Streams, NEW i \in 1 .. Len(queue[t])
    PROVE  \/ t = s /\ i = 1
           \/ \E k \in 1 .. Len(queue'[t]) : queue'[t][k] = queue[t][i]
<1>1. /\ queue \in [Streams -> Seq(Operations)] /\ queue[s] # <<>>
      /\ queue' = [queue EXCEPT ![s] = Tail(@)]
  BY Finished
<1>2. /\ Len(queue[t]) \in Nat /\ Len(queue'[t]) \in Nat /\ Off(s, t) \in {0, 1}
      /\ Len(queue'[t]) = Len(queue[t]) - Off(s, t)
      /\ \A k \in 1 .. Len(queue'[t]) : queue'[t][k] = queue[t][k + Off(s, t)]
  BY <1>1, Popped
<1>3. Off(s, t) = 1 => t = s
  BY DEF Off
<1>4. CASE t = s /\ i = 1
  BY <1>4
<1>5. CASE ~(t = s /\ i = 1)
  <2>1. Off(s, t) = 1 => i # 1
    BY <1>3, <1>5
  <2>2. PICK L \in Nat, K \in Nat, o \in {0, 1} :
            L = Len(queue[t]) /\ K = Len(queue'[t]) /\ o = Off(s, t)
    BY <1>2
  <2>3. i \in 1 .. L /\ K = L - o /\ (o = 1 => i # 1)
    BY <1>2, <2>1, <2>2
  <2>4. i - o \in 1 .. K /\ (i - o) + o = i
    BY <2>3
  <2>5. queue'[t][i - o] = queue[t][(i - o) + o]
    BY <1>2, <2>2, <2>4
  <2> QED
    BY <2>2, <2>4, <2>5
<1> QED
  BY <1>4, <1>5

\* A dropped input is freed, or its free is queued.
DroppedOK ==
    \A b \in dropped : b \notin live \/ \E i \in 1 .. Len(M) : IsOp(M[i], "free", b)

LEMMA DroppedNext ==
    ASSUME Ordered, DroppedOK, [Next]_vars
    PROVE  DroppedOK'
<1>0. dropped \in SUBSET Inputs
  BY OrderedParts DEF HostOK, HostShape
<1>1. ASSUME NEW s \in Streams, Finish(s)
      PROVE  DroppedOK'
  <2>1. dropped' = dropped
    BY <1>1, Finished
  <2>2. /\ queue[s][1].op = "alloc" => live' = live \cup {queue[s][1].buf} /\ queue[s][1].buf \in Calls
        /\ queue[s][1].op = "free" => live' = live \ {queue[s][1].buf}
        /\ queue[s][1].op \notin {"alloc", "free"} => live' = live
    BY <1>1, Finished, FinishedStorages, OperationFields
  <2>3. ASSUME NEW b \in dropped, b \notin live
        PROVE  b \notin live'
    BY <1>0, <2>2, <2>3, GuardsAssumption
  <2>4. ASSUME NEW b \in dropped, NEW i \in 1 .. Len(M), IsOp(M[i], "free", b)
        PROVE  b \notin live' \/ \E k \in 1 .. Len(M') : IsOp(M'[k], "free", b)
    <3>1. \/ Main = s /\ i = 1
          \/ \E k \in 1 .. Len(queue'[Main]) : queue'[Main][k] = queue[Main][i]
      BY <1>1, MainIsAStream, QueuedShifts DEF M
    <3>2. CASE Main = s /\ i = 1
      BY <2>2, <2>4, <3>2 DEF IsOp, M
    <3>3. ASSUME NEW k \in 1 .. Len(queue'[Main]), queue'[Main][k] = queue[Main][i]
          PROVE  \E j \in 1 .. Len(M') : IsOp(M'[j], "free", b)
      BY <2>4, <3>3 DEF M, IsOp
    <3> QED
      BY <3>1, <3>2, <3>3
  <2> QED
    BY <2>1, <2>3, <2>4 DEF DroppedOK, IsOp
<1>2. ASSUME Stays, NEW b \in dropped
      PROVE  b \notin live' \/ \E k \in 1 .. Len(M') : IsOp(M'[k], "free", b)
  <2>1. live' = live /\ \A i \in 1 .. Len(M) : i \in 1 .. Len(M') /\ M'[i] = M[i]
    BY <1>2, MainIsAStream DEF Stays, M
  <2> QED
    BY <1>2, <2>1 DEF DroppedOK, IsOp
<1>3. CASE Stays /\ \E b \in Inputs : DropInput(b)
  <2>1. PICK b \in Inputs : DropInput(b)
    BY <1>3
  <2>2. PICK ops \in Seq(Operations) :
            OnMain(ops) /\ Len(ops) \in Nat /\ Len(ops) >= 1 /\ IsOp(ops[Len(ops)], "free", b)
    BY <2>1, DropInputParts
  <2>3. ~Capturing /\ dropped' = dropped \cup {b}
    BY <2>1, DropInputParts
  <2>4. Appends(M, M', ops)
    BY <2>2, <2>3 DEF OnMain, OnLine, Line
  <2>5. PICK n \in 1 .. Len(ops) : n = Len(ops)
    BY <2>2
  <2>6. Len(M) + n \in 1 .. Len(M') /\ M'[Len(M) + n] = ops[n]
    BY <2>4, <2>5 DEF Appends
  <2>7. IsOp(M'[Len(M) + n], "free", b)
    BY <2>2, <2>5, <2>6 DEF IsOp
  <2> QED
    BY <1>2, <1>3, <2>3, <2>6, <2>7 DEF DroppedOK, IsOp
<1>4. CASE Stays /\ dropped' = dropped
  BY <1>2, <1>4 DEF DroppedOK, IsOp
<1>5. (\E s \in Streams : Finish(s)) \/ (\E b \in Inputs : DropInput(b)) \/ dropped' = dropped
  BY StepKinds, BeginParts, LaunchParts, DropOutputParts, CopyOutParts, ReturnParts, ReplayParts
     DEF GoesOn, BeginCapture, EndCapture
<1> QED
  BY <1>1, <1>3, <1>4, <1>5, StaysOrFinishes

\* A refill is done, or its fill is queued.
FilledOK ==
    \A b \in Inputs : \A n \in Nat : content[b] < n /\ n <= version[b] =>
        \E s \in Streams : \E i \in 1 .. Len(queue[s]) : Fills(s, i, b, n)

LEMMA RefillFills ==
    ASSUME Ordered, NEW b \in Inputs, Refill(b)
    PROVE  /\ version' = [version EXCEPT ![b] = @ + 1]
           /\ \E v \in Nat : /\ v = version[b] + 1
                            /\ \E s \in Streams : \E i \in 1 .. Len(queue'[s]) : Fills(s, i, b, v)'
<1> DEFINE w == Wait({b}, Kinds)
           wf == w \o <<Fill(b)>>
           r == Record({b}, "write")
<1>1. PICK s \in Streams : s = writer[b]
  BY OrderedParts DEF Refill, HostOK, HostShape
<1>2. Enqueue(s, (w \o <<Fill(b)>>) \o r) /\ version' = [version EXCEPT ![b] = @ + 1]
  BY <1>1 DEF Refill
<1>3. ~Capturing
  <2>1. s # None
    BY <1>1, GuardsAssumption
  <2> QED
    BY <1>1, <2>1, OrderedParts DEF HostOK, ModeOK
<1>4. /\ {b} \in SUBSET Inputs /\ "write" \in Kinds
      /\ recorded \in [Inputs -> [Kinds -> Nat]]
      /\ Fill(b) \in Operations /\ IsOp(Fill(b), "fill", b) /\ Fill(b).value = version[b] + 1
  BY OrderedParts, InputOps DEF Kinds
<1>5. /\ wf \in Seq(Operations) /\ Len(w) \in Nat /\ Len(wf) = Len(w) + 1
      /\ wf[Len(w) + 1] = Fill(b)
  BY <1>4, WaitThen
<1>6. r \in Seq(Operations)
  BY <1>4, RecordOps
<1> HIDE DEF w, r
<1>7. /\ wf \o r \in Seq(Operations) /\ Len(wf \o r) = Len(wf) + Len(r) /\ Len(r) \in Nat
      /\ \A i \in 1 .. Len(wf) : (wf \o r)[i] = wf[i]
  <2> HIDE DEF wf
  <2> QED
    BY <1>5, <1>6, Concatenated
<1>8. PICK ops \in Seq(Operations), L \in Nat :
          /\ ops = wf \o r /\ L = Len(w) /\ ops[L + 1] = Fill(b) /\ L + 1 \in 1 .. Len(ops)
  <2>1. Len(w) + 1 \in 1 .. Len(wf) /\ Len(w) + 1 \in 1 .. Len(wf \o r)
    BY <1>5, <1>7
  <2> QED
    BY <1>5, <1>7, <2>1
<1>9. Grows(s, ops)
  <2>1. Enqueue(s, ops)
    BY <1>2, <1>8 DEF w, r
  <2>2. Grows(s, Put(s, ops))
    BY <2>1, OrderedParts, Enqueued
  <2> QED
    BY <1>3, <2>2 DEF Put
<1>10. PICK Q \in Nat : Q = Len(queue[s])
  BY OrderedParts, QueueLengths
<1>11. Len(queue'[s]) = Q + Len(ops) /\ queue'[s][Q + (L + 1)] = ops[L + 1]
  BY <1>8, <1>9, <1>10 DEF Grows
<1>12. Q + (L + 1) \in 1 .. Len(queue'[s])
  <2>1. Len(ops) \in Nat
    BY <1>9 DEF Grows
  <2> QED
    BY <1>8, <1>11, <2>1
<1>13. PICK v \in Nat : v = version[b] + 1
  BY OrderedParts
<1>14. IsOp(queue'[s][Q + (L + 1)], "fill", b) /\ queue'[s][Q + (L + 1)].value = v
  BY <1>4, <1>8, <1>11, <1>13
<1>15. Fills(s, Q + (L + 1), b, v)'
  BY <1>14 DEF Fills, IsOp
<1> QED
  BY <1>2, <1>12, <1>13, <1>15

LEMMA FilledStays ==
    ASSUME Stays, NEW b, NEW n, NEW s \in Streams, NEW i \in 1 .. Len(queue[s]), Fills(s, i, b, n)
    PROVE  \E k \in 1 .. Len(queue'[s]) : Fills(s, k, b, n)'
BY DEF Stays, Fills, IsOp

LEMMA FilledNext ==
    ASSUME Ordered, FilledOK, [Next]_vars
    PROVE  FilledOK'
<1>0. /\ version \in [Inputs -> Nat]
      /\ \A b \in Inputs : content[b] \in Nat
  BY OrderedParts DEF Shape, DeviceShape
<1>1. ASSUME NEW s \in Streams, Finish(s)
      PROVE  FilledOK'
  <2> SUFFICES ASSUME NEW b \in Inputs, NEW n \in Nat, content'[b] < n, n <= version[b]
               PROVE  \E t \in Streams : \E k \in 1 .. Len(queue'[t]) : Fills(t, k, b, n)'
    BY <1>1, Finished DEF FilledOK
  <2>1. content[b] < n
    <3>1. content[b] \in Nat /\ content'[b] \in Nat /\ content'[b] >= content[b]
      BY <1>1, Finished
    <3> QED
      BY <3>1
  <2>2. PICK t \in Streams : \E i \in 1 .. Len(queue[t]) : Fills(t, i, b, n)
    BY <2>1 DEF FilledOK
  <2>3. PICK i \in 1 .. Len(queue[t]) : Fills(t, i, b, n)
    BY <2>2
  <2>4. ~(t = s /\ i = 1)
    <3> SUFFICES ASSUME t = s, i = 1
                 PROVE  FALSE
      OBVIOUS
    <3>1. content'[b] = n
      BY <1>1, <2>3, Finished DEF Fills
    <3> QED
      BY <3>1
  <2>5. PICK k \in 1 .. Len(queue'[t]) : queue'[t][k] = queue[t][i]
    BY <1>1, <2>4, QueuedShifts
  <2>6. Fills(t, k, b, n)'
    BY <2>3, <2>5 DEF Fills, IsOp
  <2> QED
    BY <2>5, <2>6
<1>2. ASSUME Stays, NEW b \in Inputs, NEW n \in Nat, content'[b] < n, n <= version[b]
      PROVE  \E t \in Streams : \E k \in 1 .. Len(queue'[t]) : Fills(t, k, b, n)'
  <2>1. PICK t \in Streams : \E i \in 1 .. Len(queue[t]) : Fills(t, i, b, n)
    BY <1>2 DEF FilledOK, Stays
  <2> QED
    BY <1>2, <2>1, FilledStays
<1>3. ASSUME Stays, NEW b \in Inputs, Refill(b)
      PROVE  FilledOK'
  <2>1. /\ version' = [version EXCEPT ![b] = @ + 1]
        /\ \E v \in Nat : /\ v = version[b] + 1
                         /\ \E s \in Streams : \E i \in 1 .. Len(queue'[s]) : Fills(s, i, b, v)'
    BY <1>3, RefillFills
  <2> SUFFICES ASSUME NEW d \in Inputs, NEW n \in Nat, content'[d] < n, n <= version'[d]
               PROVE  \E t \in Streams : \E k \in 1 .. Len(queue'[t]) : Fills(t, k, d, n)'
    BY DEF FilledOK
  <2>2. n <= version[d] \/ (d = b /\ n = version[b] + 1)
    <3>1. version'[d] = IF d = b THEN version[b] + 1 ELSE version[d]
      BY <1>0, <2>1
    <3>2. version[d] \in Nat /\ version[b] \in Nat
      BY <1>0
    <3> QED
      BY <3>1, <3>2
  <2>3. CASE n <= version[d]
    BY <1>2, <1>3, <2>3
  <2>4. CASE d = b /\ n = version[b] + 1
    BY <2>1, <2>4
  <2> QED
    BY <2>2, <2>3, <2>4
<1>4. CASE Stays /\ version' = version
  BY <1>2, <1>4 DEF FilledOK
<1>5. (\E s \in Streams : Finish(s)) \/ (\E b \in Inputs : Refill(b)) \/ version' = version
  BY DEF Next, CallStep, vars, events, Begin, Lock, Point, Launch, LaunchFails, Return, DropOutput,
     CopyOut, DropInput, RefillBegin, BeginCapture, EndCapture, Replay
<1> QED
  BY <1>1, <1>3, <1>4, <1>5, StaysOrFinishes

\* A call that was launched outside a capture and is not over has computed its
\* output, or its decode is queued.
ComputedOK ==
    ~Capturing =>
        \A c \in Calls : call[c].ok /\ call[c].step \in {"end", "ok"} =>
            content[c] # None \/ \E i \in 1 .. Len(M) : IsOp(M[i], "decode", c)

\* No other step makes a call one that was launched.
LEMMA LaunchedBefore ==
    ASSUME Ordered, [Next]_vars, NEW c \in Calls, ~Launch(c),
           call'[c].ok, call'[c].step \in {"end", "ok"}
    PROVE  call[c].ok /\ call[c].step \in {"end", "ok"}
<1>1. /\ call \in [Calls -> CallType]
      /\ call[c].ok = (call[c].step \in {"ok", "dropped"} \/ (call[c].step = "end" /\ call[c].ok))
  BY OrderedParts DEF HostOK, CallsOK
<1>2. CASE call'[c] = call[c]
  <2>1. call[c].ok /\ call[c].step \in {"end", "ok"}
    BY <1>2
  <2> QED
    BY <2>1
<1>3. ASSUME NEW d \in Calls, call'[c] # call[c],
             \/ Begin(d) \/ Lock(d) \/ Launch(d) \/ LaunchFails(d)
             \/ (\E n \in 0 .. Len(Reads[d]) : Point(d, n))
             \/ Return(d) \/ DropOutput(d)
      PROVE  c = d
  BY <1>1, <1>3 DEF Begin, Lock, Launch, LaunchFails, Point, Return, DropOutput
<1>4. CASE Begin(c) \/ LaunchFails(c)
  BY <1>1, <1>4 DEF Begin, LaunchFails, CallType
<1>5. ASSUME NEW n \in 0 .. Len(Reads[c]), Point(c, n)
      PROVE  FALSE
  <2>1. call'[c].ok = call[c].ok /\ call[c].step = "point"
    BY <1>1, <1>5 DEF Point, CallType
  <2> QED
    BY <1>1, <2>1
<1>6. CASE Lock(c)
  <2>1. call'[c].step \in {"lock", "point"}
    BY <1>1, <1>6 DEF Lock, CallType
  <2> QED
    BY <2>1
<1>7. CASE Return(c)
  BY <1>1, <1>7 DEF Return, CallType
<1>8. ~DropOutput(c)
  BY <1>1 DEF DropOutput, CallType
<1>9. \/ call'[c] = call[c]
      \/ \E d \in Calls :
             \/ Begin(d) \/ Lock(d) \/ Launch(d) \/ LaunchFails(d)
             \/ (\E n \in 0 .. Len(Reads[d]) : Point(d, n))
             \/ Return(d) \/ DropOutput(d)
  BY DEF Next, CallStep, vars, calls, CopyOut, Refill, RefillBegin, DropInput, BeginCapture,
     EndCapture, Replay, Finish
<1> QED
  BY <1>2, <1>3, <1>4, <1>5, <1>6, <1>7, <1>8, <1>9

LEMMA FinishComputed ==
    ASSUME Ordered, ComputedOK, NEW s \in Streams, Finish(s)
    PROVE  ComputedOK'
<1>1. call' = call /\ tape' = tape
  BY Finished
<1> SUFFICES ASSUME ~Capturing, NEW c \in Calls, call[c].ok, call[c].step \in {"end", "ok"}
             PROVE  content'[c] # None \/ \E i \in 1 .. Len(M') : IsOp(M'[i], "decode", c)
  BY <1>1 DEF ComputedOK, Capturing, IsOp
<1>2. ASSUME IsOp(queue[s][1], "decode", c)
      PROVE  content'[c] # None
  <2>1. content'[c] = [b \in ReadsOf(c) |-> content[b]]
    BY <1>2, FinishedStorages
  <2>2. \A b \in ReadsOf(c) : content[b] \in Nat
    BY ReadsAreInputs, OrderedParts DEF Shape, DeviceShape
  <2>3. [b \in ReadsOf(c) |-> content[b]] \in [ReadsOf(c) -> Nat]
    BY <2>2
  <2> QED
    BY <2>1, <2>3, NoneAssumption
<1>3. CASE content[c] # None
  BY <1>2, <1>3, FinishedStorages
<1>4. ASSUME NEW i \in 1 .. Len(M), IsOp(M[i], "decode", c)
      PROVE  content'[c] # None \/ \E k \in 1 .. Len(M') : IsOp(M'[k], "decode", c)
  <2>1. \/ Main = s /\ i = 1
        \/ \E k \in 1 .. Len(queue'[Main]) : queue'[Main][k] = queue[Main][i]
    BY <1>4, MainIsAStream, QueuedShifts DEF M
  <2>2. CASE Main = s /\ i = 1
    BY <1>2, <1>4, <2>2 DEF M
  <2>3. ASSUME NEW k \in 1 .. Len(queue'[Main]), queue'[Main][k] = queue[Main][i]
        PROVE  \E j \in 1 .. Len(M') : IsOp(M'[j], "decode", c)
    BY <1>4, <2>3 DEF M, IsOp
  <2> QED
    BY <2>1, <2>2, <2>3
<1> QED
  BY <1>3, <1>4 DEF ComputedOK

LEMMA ComputedNext ==
    ASSUME Ordered, ComputedOK, [Next]_vars
    PROVE  ComputedOK'
<1>1. ASSUME Stays, NEW c \in Calls, ~Capturing',
             call'[c].ok, call'[c].step \in {"end", "ok"}
      PROVE  content'[c] # None \/ \E i \in 1 .. Len(M') : IsOp(M'[i], "decode", c)
  <2>1. CASE Launch(c)
    <3>1. OnMain(<<Decode(c)>>) /\ Len(<<Decode(c)>>) = 1 /\ IsOp(<<Decode(c)>>[1], "decode", c)
      <4>1. /\ OnMain(<<Decode(c)>>) /\ Len(<<Decode(c)>>) = 1
            /\ \A i \in 1 .. Len(<<Decode(c)>>) : IsOp(<<Decode(c)>>[i], "decode", c)
        BY <2>1, LaunchParts
      <4>2. 1 \in 1 .. 1
        OBVIOUS
      <4> QED
        BY <4>1, <4>2
    <3>2. PICK ops : OnMain(ops) /\ Len(ops) = 1 /\ IsOp(ops[1], "decode", c)
      BY <3>1
    <3>3. Appends(M, M', ops)
      BY <1>1, <3>2 DEF OnMain, OnLine, Line
    <3>4. Len(M) + 1 \in 1 .. Len(M') /\ M'[Len(M) + 1] = ops[1]
      BY <3>2, <3>3 DEF Appends
    <3> QED
      BY <3>2, <3>4 DEF IsOp
  <2>2. CASE ~Launch(c)
    <3>1. call[c].ok /\ call[c].step \in {"end", "ok"}
      BY <1>1, <2>2, LaunchedBefore
    <3>2. ~Capturing
      <4>1. CASE EndCapture
        BY <3>1, <4>1 DEF EndCapture, Idle
      <4>2. CASE ~EndCapture
        <5>1. Capturing => Capturing'
          BY <1>1, <4>2, StepKinds, BeginParts, LaunchParts, DropOutputParts, CopyOutParts,
             ReturnParts, DropInputParts, ReplayParts, Finished
             DEF GoesOn, OnMain, OnLine, BeginCapture, Capturing
        <5> QED
          BY <1>1, <5>1
      <4> QED
        BY <4>1, <4>2
    <3>3. content[c] # None \/ \E i \in 1 .. Len(M) : IsOp(M[i], "decode", c)
      BY <3>1, <3>2 DEF ComputedOK
    <3>4. content' = content /\ \A i \in 1 .. Len(M) : i \in 1 .. Len(M') /\ M'[i] = M[i]
      BY <1>1, MainIsAStream DEF Stays, M
    <3> QED
      BY <3>3, <3>4 DEF IsOp
  <2> QED
    BY <2>1, <2>2
<1>2. CASE Stays
  BY <1>1, <1>2 DEF ComputedOK, IsOp
<1> QED
  BY <1>2, FinishComputed, StaysOrFinishes

LeftOK == ReleasedOK /\ DroppedOK /\ FilledOK /\ ComputedOK

LEMMA LeftInit ==
    ASSUME Init
    PROVE  LeftOK
<1>1. ReleasedOK
  BY ReleasedInit
<1>2. DroppedOK /\ ComputedOK
  BY DEF Init, DroppedOK, ComputedOK
<1>3. FilledOK
  <2>1. \A b \in Inputs : content[b] = 0 /\ version[b] = 0
    BY DEF Init
  <2>2. \A n \in Nat : ~(0 < n /\ n <= 0)
    OBVIOUS
  <2> QED
    BY <2>1, <2>2 DEF FilledOK
<1> QED
  BY <1>1, <1>2, <1>3 DEF LeftOK

LEMMA LeftNext ==
    ASSUME Ordered, GraphsOK, LeftOK, [Next]_vars
    PROVE  LeftOK'
BY ReleasedNext, DroppedNext, FilledNext, ComputedNext DEF LeftOK

LEMMA NothingLeft ==
    ASSUME Ordered, OutputsOK, InputsOK, LeftOK, \A s \in Streams : queue[s] = <<>>
    PROVE  /\ \A b \in Inputs : content[b] = version[b] /\ (b \in live <=> b \notin dropped)
           /\ \A c \in Calls : c \in live <=> ~Capturing /\ call[c].step \in Holding
           /\ \A c \in Calls : ~Capturing /\ call[c].step = "ok" => content[c] # None
<1>1. \A s \in Streams : 1 .. Len(queue[s]) = {}
  BY EmptySeq
<1>2. 1 .. Len(M) = {} /\ Len(M) = 0
  BY <1>1, MainIsAStream, EmptySeq DEF M
<1>3. ASSUME NEW b \in Inputs
      PROVE  content[b] = version[b]
  <2>1. content[b] \in Nat /\ version[b] \in Nat /\ content[b] <= version[b]
    BY OrderedParts DEF Shape, DeviceShape
  <2>2. ~(content[b] < version[b])
    <3>1. version[b] <= version[b]
      BY <2>1
    <3> QED
      BY <1>1, <2>1, <3>1 DEF LeftOK, FilledOK
  <2> QED
    BY <2>1, <2>2
<1>4. \A b \in Inputs : b \in live <=> b \notin dropped
  BY <1>2 DEF InputsOK, LeftOK, DroppedOK
<1>5. ASSUME NEW c \in Calls
      PROVE  c \in live <=> ~Capturing /\ call[c].step \in Holding
  <2>1. Alive(M, c, Len(M) + 1, live) <=> c \in live
    <3>1. Len(M) + 1 = 1 /\ 1 .. 1 - 1 = {}
      BY <1>2
    <3> QED
      BY <3>1 DEF Alive
  <2>2. CASE Capturing
    BY <2>1, <2>2 DEF LeftOK, ReleasedOK
  <2>3. CASE ~Capturing /\ call[c].step \in Holding
    BY <2>1, <2>3 DEF OutputsOK
  <2>4. CASE ~Capturing /\ call[c].step \notin Holding
    BY <2>1, <2>4 DEF LeftOK, ReleasedOK, Line, Start
  <2> QED
    BY <2>2, <2>3, <2>4
<1>6. ASSUME NEW c \in Calls, ~Capturing, call[c].step = "ok"
      PROVE  content[c] # None
  <2>1. call[c].ok
    BY <1>6, OrderedParts DEF HostOK, CallsOK
  <2> QED
    BY <1>2, <1>6, <2>1 DEF LeftOK, ComputedOK
<1> QED
  BY <1>3, <1>4, <1>5, <1>6

\* Once every stream is idle nothing is left over, for any storages, calls,
\* streams, captures and replays: what was refilled is filled, what was dropped
\* or failed is freed and nothing else is, and what was launched is computed.
THEOREM NothingLeftWhenIdle == Spec => []AllDoneWhenIdle
<1>1. Init => LeftOK
  BY LeftInit
<1>2. Ordered /\ GraphsOK /\ LeftOK /\ [Next]_vars => LeftOK'
  BY LeftNext
<1>3. Ordered /\ OutputsOK /\ InputsOK /\ LeftOK => AllDoneWhenIdle
  BY NothingLeft DEF AllDoneWhenIdle, Holding, Active
<1> QED
  BY <1>1, <1>2, <1>3, GuardsOrder, GraphsAreKept, OutputsAreHeld, InputsAreHeld, PTL DEF Spec

=============================================================================
