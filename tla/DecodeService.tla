--------------------------- MODULE DecodeService ---------------------------
(***************************************************************************)
(* What sparse_decode promises its callers, whatever threads they are on   *)
(* and whatever plans they share.  A call begins, and returns success or   *)
(* an error; its outputs are written on the device at some time after it   *)
(* began, perhaps after it returned.  The outputs of every call that has   *)
(* succeeded are written eventually, and never before those of the calls   *)
(* that had succeeded when it began: a caller that sees its outputs sees   *)
(* the outputs of everything it called before.                             *)
(***************************************************************************)
CONSTANTS Calls

VARIABLES
    status,   \* status[c]: "new", "running", "ok" or "err"
    before,   \* before[c]: the calls that had succeeded when c began
    written   \* the calls whose outputs are on the device, complete

vars == <<status, before, written>>

Init ==
    /\ status = [c \in Calls |-> "new"]
    /\ before = [c \in Calls |-> {}]
    /\ written = {}

Begin(c) ==
    /\ status[c] = "new"
    /\ status' = [status EXCEPT ![c] = "running"]
    /\ before' = [before EXCEPT ![c] = {d \in Calls : status[d] = "ok"}]
    /\ UNCHANGED written

Return(c, s) ==
    /\ status[c] = "running"
    /\ status' = [status EXCEPT ![c] = s]
    /\ UNCHANGED <<before, written>>

Write(c) ==
    /\ status[c] # "new"
    /\ c \notin written
    /\ before[c] \subseteq written
    /\ written' = written \cup {c}
    /\ UNCHANGED <<status, before>>

WriteReturned(c) == status[c] = "ok" /\ Write(c)

Next ==
    \E c \in Calls :
        \/ Begin(c)
        \/ \E s \in {"ok", "err"} : Return(c, s)
        \/ Write(c)

\* The device works on what succeeded; nobody has to call, and a call that
\* failed need not have any outputs.
Spec == Init /\ [][Next]_vars /\ \A c \in Calls : WF_vars(WriteReturned(c))
=============================================================================
