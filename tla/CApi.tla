-------------------------------- MODULE CApi --------------------------------
(***************************************************************************)
(* The C ABI of flashmla-sys (csrc/flashmla_c_api.cu) as the host threads  *)
(* that call it see it.  Every thread owns its thread_local state: the     *)
(* current CUDA device, the device it last validated (g_validated_device), *)
(* the error string (g_last_error) and the CUDA runtime's pending error,   *)
(* which cudaGetLastError returns and clears.  A call is entered (argument *)
(* and device validation), launches its kernels one at a time, asks the    *)
(* runtime for a pending error and returns; then the Rust wrapper reads    *)
(* the error string of a call that failed, as a second call.               *)
(*                                                                         *)
(* Error strings are abstracted to the number of the call that wrote them. *)
(***************************************************************************)
EXTENDS Integers

CONSTANTS
    Threads,    \* host threads
    Devices,    \* CUDA device ordinals
    CudaArch,   \* CudaArch[d] is the architecture of device d
    Target,     \* the architecture the library was compiled for
    NoDevice,   \* the initial -1 of g_validated_device
    MaxCalls    \* bound: C ABI calls in a behaviour

ASSUME CApiAssumption ==
    /\ NoDevice \notin Devices
    /\ MaxCalls \in Nat

VARIABLES
    current,     \* current[t]: what cudaGetDevice returns on thread t
    validated,   \* validated[t]: g_validated_device
    lastError,   \* lastError[t]: g_last_error, the call that wrote it
    rtError,     \* rtError[t]: an error is pending in the CUDA runtime
    call,        \* call[t]: the call in progress on thread t
    calls,       \* number of calls begun so far; numbers the calls
    lastFailure, \* history: the last call of t that did not succeed
    faults,      \* history: runtime errors and upstream throws on t
    reports      \* history: failures t reported from cudaGetLastError

vars == <<current, validated, lastError, rtError, call, calls,
          lastFailure, faults, reports>>
cudaVars == <<current, rtError, faults>>

NoMessage == 0

Failures == {"INVALID_ARGUMENT", "UNSUPPORTED_ARCH", "CUDA_ERROR",
             "INTERNAL_ERROR"}
Statuses == {"SUCCESS"} \cup Failures

(***************************************************************************)
(* The entry points and the kernels each of them launches.  "info" is      *)
(* flashmla_get_device_info, "size" flashmla_sparse_decode_plan with null  *)
(* outputs, "generate" the same function with outputs; "halves" is a       *)
(* decode of 128 heads with d_qk = 576, which the SM100 build splits into  *)
(* two launches of 64 heads; a decode ends with the combine kernel.        *)
(***************************************************************************)
Entries == {"info", "size", "generate", "prefill", "decode", "halves"}

\* The loop over the halves of the heads runs once more than it should.
KernelsOneHalfMore(e) ==
    CASE e \in {"info", "size"} -> 0
      [] e \in {"generate", "prefill"} -> 1
      [] e = "decode" -> 2
      [] e = "halves" -> IF Target = "sm100" THEN 4 ELSE 2
Kernels(e) ==
    CASE e \in {"info", "size"} -> 0
      [] e \in {"generate", "prefill"} -> 1
      [] e = "decode" -> 2
      [] e = "halves" -> IF Target = "sm100" THEN 3 ELSE 2

\* todo kernels are still to be launched, done have reached the stream.
Returned(e, id, todo, done, status) ==
    [pc |-> "returned", entry |-> e, id |-> id, todo |-> todo,
     done |-> done, status |-> status]

Launching(e, id) ==
    [pc |-> "launching", entry |-> e, id |-> id, todo |-> Kernels(e),
     done |-> 0, status |-> "SUCCESS"]

Idle ==
    [pc |-> "idle", entry |-> "info", id |-> NoMessage, todo |-> 0,
     done |-> 0, status |-> "SUCCESS"]

Init ==
    /\ current \in [Threads -> Devices]
    /\ validated = [t \in Threads |-> NoDevice]
    /\ lastError = [t \in Threads |-> NoMessage]
    /\ rtError = [t \in Threads |-> FALSE]
    /\ call = [t \in Threads |-> Idle]
    /\ calls = 0
    /\ lastFailure = [t \in Threads |-> NoMessage]
    /\ faults = [t \in Threads |-> 0]
    /\ reports = [t \in Threads |-> 0]

-----------------------------------------------------------------------------
\* set_error and clear_error; with a global string, and the real ones.
SetErrorGlobal(t, id) == lastError' = [u \in Threads |-> id]
SetError(t, id) == lastError' = [lastError EXCEPT ![t] = id]

ClearError(t) == lastError' = [lastError EXCEPT ![t] = NoMessage]

\* A runtime API call of thread t fails: the error stays pending.
RuntimeFault(t) ==
    /\ rtError' = [rtError EXCEPT ![t] = TRUE]
    /\ faults' = [faults EXCEPT ![t] = @ + 1]

\* validate_current_device: a thread that was validated once, and the real
\* test, the cached ordinal or the compiled architecture.
DeviceAcceptedOnce(t) ==
    validated[t] # NoDevice \/ CudaArch[current[t]] = Target
DeviceAccepted(t) ==
    validated[t] = current[t] \/ CudaArch[current[t]] = Target

\* Thread t leaves the call numbered id of entry e with a failure, or with
\* success.
Fail(t, e, id, todo, done, status) ==
    /\ call' = [call EXCEPT ![t] = Returned(e, id, todo, done, status)]
    /\ SetError(t, id)
    /\ lastFailure' = [lastFailure EXCEPT ![t] = id]

Succeed(t, e, id, done) ==
    /\ call' = [call EXCEPT ![t] = Returned(e, id, 0, done, "SUCCESS")]
    /\ ClearError(t)
    /\ UNCHANGED lastFailure

Begin(t) ==
    /\ call[t].pc = "idle"
    /\ calls < MaxCalls
    /\ calls' = calls + 1

-----------------------------------------------------------------------------
(* Entry: the validators.  Each ends with validate_current_device, so the  *)
(* device is looked at only when the arguments are in order; the query of  *)
(* a device's properties can fail under "info" too.                        *)

\* The arguments are rejected.
RejectArguments(t, e) ==
    /\ Begin(t)
    /\ Fail(t, e, calls + 1, Kernels(e), 0, "INVALID_ARGUMENT")
    /\ UNCHANGED <<cudaVars, validated, reports>>

\* cudaGetDevice fails, or cudaGetDeviceProperties for a device not cached.
DeviceQueryFails(t, e) ==
    /\ Begin(t)
    /\ Fail(t, e, calls + 1, Kernels(e), 0, "CUDA_ERROR")
    /\ RuntimeFault(t)
    /\ UNCHANGED <<current, validated, reports>>

\* The current device has another architecture.
RejectDevice(t, e) ==
    /\ Begin(t)
    /\ ~DeviceAccepted(t)
    /\ Fail(t, e, calls + 1, Kernels(e), 0, "UNSUPPORTED_ARCH")
    /\ UNCHANGED <<cudaVars, validated, reports>>

\* Arguments and device are in order: the device is cached, the launches
\* follow.
Admit(t, e) ==
    /\ Begin(t)
    /\ DeviceAccepted(t)
    /\ validated' = [validated EXCEPT ![t] = current[t]]
    /\ call' = [call EXCEPT ![t] = Launching(e, calls + 1)]
    /\ UNCHANGED <<cudaVars, lastError, lastFailure, reports>>

\* A size-only plan returns at once and does not ask for a pending error.
PlanSize(t) ==
    /\ Begin(t)
    /\ DeviceAccepted(t)
    /\ validated' = [validated EXCEPT ![t] = current[t]]
    /\ Succeed(t, "size", calls + 1, 0)
    /\ UNCHANGED <<cudaVars, reports>>

\* flashmla_get_device_info does not look at the current device, launches
\* nothing and does not ask for a pending error.
GetDeviceInfo(t) ==
    /\ Begin(t)
    /\ Succeed(t, "info", calls + 1, 0)
    /\ UNCHANGED <<cudaVars, validated, reports>>

-----------------------------------------------------------------------------
(* The launches and the return.                                            *)

\* A kernel is launched on the stream.
LaunchKernel(t) ==
    /\ call[t].pc = "launching"
    /\ call[t].todo > 0
    /\ call' = [call EXCEPT ![t] =
           [call[t] EXCEPT !.todo = call[t].todo - 1, !.done = call[t].done + 1]]
    /\ UNCHANGED <<cudaVars, validated, lastError, calls, lastFailure, reports>>

\* A launch fails without an exception: only the runtime knows, and the code
\* goes on to the next launch.
LaunchFails(t) ==
    /\ call[t].pc = "launching"
    /\ call[t].todo > 0
    /\ call' = [call EXCEPT ![t] = [call[t] EXCEPT !.todo = call[t].todo - 1]]
    /\ RuntimeFault(t)
    /\ UNCHANGED <<current, validated, lastError, calls, lastFailure, reports>>

\* Upstream throws: the rest of the launches is skipped, and so is the call
\* of cudaGetLastError.  Upstream may or may not have taken the error.
LaunchThrows(t) ==
    /\ call[t].pc = "launching"
    /\ call[t].todo > 0
    /\ Fail(t, call[t].entry, call[t].id, call[t].todo, call[t].done,
            "INTERNAL_ERROR")
    /\ \E pending \in BOOLEAN : rtError' = [rtError EXCEPT ![t] = pending]
    /\ faults' = [faults EXCEPT ![t] = @ + 1]
    /\ UNCHANGED <<current, validated, calls, reports>>

\* cudaGetLastError returns the pending error and clears it; not called at
\* all, and called as cudaPeekAtLastError.
PendingErrorIgnored(t) == FALSE
PendingError(t) == rtError[t]

PeekPendingError(t) == UNCHANGED rtError
TakePendingError(t) == rtError' = [rtError EXCEPT ![t] = FALSE]

ReportPendingError(t) ==
    /\ call[t].pc = "launching"
    /\ call[t].todo = 0
    /\ PendingError(t)
    /\ TakePendingError(t)
    /\ Fail(t, call[t].entry, call[t].id, 0, call[t].done, "CUDA_ERROR")
    /\ reports' = [reports EXCEPT ![t] = @ + 1]
    /\ UNCHANGED <<current, validated, calls, faults>>

Complete(t) ==
    /\ call[t].pc = "launching"
    /\ call[t].todo = 0
    /\ ~PendingError(t)
    /\ Succeed(t, call[t].entry, call[t].id, call[t].done)
    /\ UNCHANGED <<cudaVars, validated, calls, reports>>

\* The wrapper turns the status into a result; for a failure it reads
\* flashmla_last_error first.  Until then the call is "returned".
Consume(t) ==
    /\ call[t].pc = "returned"
    /\ call' = [call EXCEPT ![t] = Idle]
    /\ UNCHANGED <<cudaVars, validated, lastError, calls, lastFailure, reports>>

\* Between two calls a thread may make another device current.
SetDevice(t) ==
    /\ call[t].pc = "idle"
    /\ calls < MaxCalls
    /\ \E d \in Devices \ {current[t]} : current' = [current EXCEPT ![t] = d]
    /\ UNCHANGED <<rtError, faults, validated, lastError, call, calls,
                   lastFailure, reports>>

Enter(t, e) ==
    \/ RejectArguments(t, e)
    \/ DeviceQueryFails(t, e)
    \/ e # "info" /\ RejectDevice(t, e)
    \/ e = "info" /\ GetDeviceInfo(t)
    \/ e = "size" /\ PlanSize(t)
    \/ Kernels(e) > 0 /\ Admit(t, e)

Leave(t) ==
    \/ ReportPendingError(t)
    \/ Complete(t)
    \/ Consume(t)

Next ==
    \E t \in Threads :
        \/ \E e \in Entries : Enter(t, e)
        \/ LaunchKernel(t)
        \/ LaunchFails(t)
        \/ LaunchThrows(t)
        \/ Leave(t)
        \/ SetDevice(t)

Spec == Init /\ [][Next]_vars

-----------------------------------------------------------------------------
(* Properties.                                                             *)

CallRecords ==
    [pc : {"idle", "launching", "returned"}, entry : Entries, id : Nat,
     todo : 0 .. 3, done : 0 .. 3, status : Statuses]

\* Type correctness of the thread state of flashmla_c_api.cu.
TypeOK ==
    /\ current \in [Threads -> Devices]
    /\ validated \in [Threads -> Devices \cup {NoDevice}]
    /\ lastError \in [Threads -> Nat]
    /\ rtError \in [Threads -> BOOLEAN]
    /\ call \in [Threads -> CallRecords]
    /\ calls \in Nat
    /\ lastFailure \in [Threads -> Nat]
    /\ faults \in [Threads -> Nat]
    /\ reports \in [Threads -> Nat]

\* Kernels are launched only while the thread's current device has the
\* compiled architecture, although a cached ordinal skips the query of
\* validate_current_device and threads switch devices between calls.
LaunchesOnlyOnTarget ==
    \A t \in Threads :
        call[t].pc = "launching" => CudaArch[current[t]] = Target

\* A call that returns success has put every kernel of its entry point on
\* the stream: no launch of a decode, of either half of the heads or of the
\* combine can fail and be forgotten.
SuccessMeansAllLaunched ==
    \A t \in Threads :
        call[t].pc = "returned" /\ call[t].status = "SUCCESS"
            => call[t].done = Kernels(call[t].entry)

\* One runtime error is reported from cudaGetLastError at most once: a thread
\* that meets one fault does not have all its later launches rejected.
OneReportPerFault ==
    \A t \in Threads : reports[t] <= faults[t]

\* The message the wrapper reads after a failed call was written by that
\* call, whatever the other threads did since it returned.
MessageIsOfThisCall ==
    \A t \in Threads :
        call[t].pc = "returned" =>
            lastError[t] = IF call[t].status = "SUCCESS" THEN NoMessage
                           ELSE call[t].id

\* The inductive invariant.  The cached device is of the compiled
\* architecture; the launches of a call are tried or still to be tried, and
\* none is lost while no error is pending; a pending error is a fault that
\* was not reported yet.
DeviceInv ==
    \A t \in Threads : validated[t] \in Devices =>
        CudaArch[validated[t]] = Target

LaunchInv ==
    \A t \in Threads :
        /\ call[t].done + call[t].todo <= Kernels(call[t].entry)
        /\ call[t].pc = "launching" /\ ~rtError[t]
               => call[t].done + call[t].todo = Kernels(call[t].entry)

FaultInv ==
    \A t \in Threads : reports[t] + (IF rtError[t] THEN 1 ELSE 0) <= faults[t]

IInv ==
    /\ TypeOK
    /\ DeviceInv
    /\ LaunchInv
    /\ FaultInv
    /\ LaunchesOnlyOnTarget
    /\ SuccessMeansAllLaunched
    /\ MessageIsOfThisCall

\* What the FFI says of flashmla_last_error: it returns the error string of
\* the most recent call that did not succeed (flashmla-sys/src/lib.rs:272).
LastErrorIsOfLatestFailure ==
    \A t \in Threads : lastError[t] = lastFailure[t]
=============================================================================
