--------------------------- MODULE StorageService ---------------------------
(***************************************************************************)
(* What the storages of the inputs, with their locks, events and streams,  *)
(* promise a program that calls and refills: as if there were one thread   *)
(* and one stream.  A call reads one snapshot of all its inputs, that of   *)
(* the moment it was issued, whatever is refilled afterwards; its output   *)
(* is computed later, once for every time it was issued (a graph issues    *)
(* its calls again), in that order.                                        *)
(***************************************************************************)
EXTENDS Naturals

CONSTANTS
    Inputs,     \* storages that calls read
    Calls,
    ReadSet,    \* ReadSet[c]: the storages c reads
    None        \* the output of a call that was not computed

VARIABLES
    version,    \* version[b]: the refills of b
    pending,    \* what was issued and is not computed: calls and snapshots
    output      \* output[c]: the snapshot that output c was computed from

vars == <<version, pending, output>>

Init ==
    /\ version = [b \in Inputs |-> 0]
    /\ pending = {}
    /\ output = [c \in Calls |-> None]

Refill(b) ==
    /\ version' = [version EXCEPT ![b] = @ + 1]
    /\ UNCHANGED <<pending, output>>

Issued(c) == [call |-> c, given |-> [b \in ReadSet[c] |-> version[b]]]

Issue(cs) ==
    /\ pending' = pending \cup {Issued(c) : c \in cs}
    /\ UNCHANGED <<version, output>>

NotLater(p, r) == \A b \in ReadSet[p.call] : p.given[b] <= r.given[b]

\* One of what is pending, and perhaps the last of its kind, is computed: it
\* is not later than what else is pending for the call.
Compute(p) ==
    /\ \A r \in pending : r.call = p.call => NotLater(p, r)
    /\ output' = [output EXCEPT ![p.call] = p.given]
    /\ pending' \in {pending, pending \ {p}}
    /\ UNCHANGED version

Settle(c) == \E p \in pending : p.call = c /\ Compute(p) /\ p \notin pending'

Next ==
    \/ \E b \in Inputs : Refill(b)
    \/ \E cs \in SUBSET Calls : Issue(cs)
    \/ \E p \in pending : Compute(p)

\* The device computes what is issued; nobody has to issue or to refill.
Spec == Init /\ [][Next]_vars /\ \A c \in Calls : WF_vars(Settle(c))
=============================================================================
