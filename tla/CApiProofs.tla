----------------------------- MODULE CApiProofs -----------------------------
(* Proofs about the C ABI: the invariants of CApi hold for every set of    *)
(* threads and devices, every assignment of architectures to devices and   *)
(* either compiled architecture.                                           *)
EXTENDS CApi, TLAPS

\* The number of kernels of an entry point.
LEMMA KernelsType == \A e \in Entries : Kernels(e) \in 0 .. 3
BY DEF Kernels, Entries

\* The two entry points that launch nothing.
LEMMA NothingToLaunch == /\ Kernels("info") = 0 /\ Kernels("size") = 0
                         /\ {"info", "size"} \subseteq Entries
BY DEF Kernels, Entries

\* Every step of the C ABI keeps the types of its state.
LEMMA TypeStep == TypeOK /\ LaunchInv /\ [Next]_vars => TypeOK'
<1> SUFFICES ASSUME TypeOK, LaunchInv, [Next]_vars PROVE TypeOK'
  OBVIOUS
<1> USE KernelsType DEF TypeOK, CallRecords, Statuses, Failures, cudaVars,
                        NoMessage
<1>1. ASSUME NEW t \in Threads, NEW e \in Entries, RejectArguments(t, e)
      PROVE  TypeOK'
  BY <1>1 DEF RejectArguments, Begin, Fail, SetError, Returned, Entries
<1>2. ASSUME NEW t \in Threads, NEW e \in Entries, DeviceQueryFails(t, e)
      PROVE  TypeOK'
  BY <1>2 DEF DeviceQueryFails, Begin, Fail, SetError, Returned, RuntimeFault,
              Entries
<1>3. ASSUME NEW t \in Threads, NEW e \in Entries, RejectDevice(t, e)
      PROVE  TypeOK'
  BY <1>3 DEF RejectDevice, Begin, Fail, SetError, Returned, Entries
<1>4. ASSUME NEW t \in Threads, NEW e \in Entries, Admit(t, e)
      PROVE  TypeOK'
  BY <1>4 DEF Admit, Begin, Launching, Entries
<1>14. ASSUME NEW t \in Threads, PlanSize(t) PROVE TypeOK'
  BY <1>14 DEF PlanSize, Begin, Succeed, ClearError, Returned, Entries
<1>5. ASSUME NEW t \in Threads, LaunchKernel(t) PROVE TypeOK'
  <2>1. /\ call[t].todo - 1 \in 0 .. 3 /\ call[t].done + 1 \in 0 .. 3
        /\ call[t] \in CallRecords
    <3>1. call[t] \in CallRecords
      OBVIOUS
    <3>2. Kernels(call[t].entry) \in 0 .. 3
      BY <3>1
    <3>3. call[t].done + call[t].todo <= Kernels(call[t].entry)
      BY DEF LaunchInv
    <3> QED
      BY <1>5, <3>1, <3>2, <3>3 DEF LaunchKernel
  <2>2. [call[t] EXCEPT !.todo = call[t].todo - 1,
                     !.done = call[t].done + 1] \in CallRecords
    BY <2>1
  <2> QED
    BY <1>5, <2>2 DEF LaunchKernel
<1>6. ASSUME NEW t \in Threads, LaunchFails(t) PROVE TypeOK'
  <2>1. call[t].todo - 1 \in 0 .. 3 /\ call[t] \in CallRecords
    BY <1>6 DEF LaunchFails
  <2>2. [call[t] EXCEPT !.todo = call[t].todo - 1] \in CallRecords
    BY <2>1
  <2> QED
    BY <1>6, <2>2 DEF LaunchFails, RuntimeFault
<1>7. ASSUME NEW t \in Threads, LaunchThrows(t) PROVE TypeOK'
  BY <1>7 DEF LaunchThrows, Fail, SetError, Returned
<1>8. ASSUME NEW t \in Threads, ReportPendingError(t) PROVE TypeOK'
  BY <1>8 DEF ReportPendingError, TakePendingError, Fail, SetError, Returned
<1>9. ASSUME NEW t \in Threads, Complete(t) PROVE TypeOK'
  BY <1>9 DEF Complete, Succeed, ClearError, Returned
<1>10. ASSUME NEW t \in Threads, Consume(t) PROVE TypeOK'
  BY <1>10 DEF Consume, Idle, Entries
<1>11. ASSUME NEW t \in Threads, GetDeviceInfo(t) PROVE TypeOK'
  BY <1>11 DEF GetDeviceInfo, Begin, Succeed, ClearError, Returned, Entries
<1>12. ASSUME NEW t \in Threads, SetDevice(t) PROVE TypeOK'
  BY <1>12 DEF SetDevice
<1>13. CASE UNCHANGED vars
  BY <1>13 DEF vars
<1> QED
  BY <1>1, <1>2, <1>3, <1>4, <1>5, <1>6, <1>7, <1>8, <1>9, <1>10, <1>11,
     <1>12, <1>13, <1>14 DEF Next, Enter, Leave

-----------------------------------------------------------------------------
(* The steps preserve the parts of the inductive invariant.                *)

\* A cached device has the compiled architecture: only Admit writes the
\* cache, with a device that was cached or of the architecture.
LEMMA DeviceStep ==
    TypeOK /\ DeviceInv /\ [Next]_vars => DeviceInv'
<1> SUFFICES ASSUME TypeOK, DeviceInv, [Next]_vars PROVE DeviceInv'
  OBVIOUS
<1>1. ASSUME NEW t \in Threads, NEW e \in Entries, Admit(t, e)
      PROVE  DeviceInv'
  BY <1>1 DEF Admit, DeviceAccepted, DeviceInv, TypeOK
<1>2. ASSUME NEW t \in Threads, PlanSize(t) PROVE DeviceInv'
  BY <1>2 DEF PlanSize, DeviceAccepted, DeviceInv, TypeOK
<1>3. CASE UNCHANGED validated
  BY <1>3 DEF DeviceInv
<1> QED
  BY <1>1, <1>2, <1>3 DEF Next, Enter, Leave, RejectArguments, DeviceQueryFails,
     RejectDevice, LaunchKernel, LaunchFails, LaunchThrows,
     ReportPendingError, Complete, Consume, GetDeviceInfo, SetDevice, vars

\* A call that is launching was admitted on the device that is still current.
LEMMA TargetStep ==
    TypeOK /\ DeviceInv /\ LaunchesOnlyOnTarget /\ [Next]_vars
        => LaunchesOnlyOnTarget'
<1> SUFFICES ASSUME TypeOK, DeviceInv, LaunchesOnlyOnTarget, [Next]_vars
             PROVE  LaunchesOnlyOnTarget'
  OBVIOUS
<1> USE DEF LaunchesOnlyOnTarget, TypeOK, cudaVars
<1>1. ASSUME NEW t \in Threads, NEW e \in Entries, Admit(t, e)
      PROVE  LaunchesOnlyOnTarget'
  BY <1>1 DEF Admit, Launching, DeviceAccepted, DeviceInv
<1>2. ASSUME NEW t \in Threads, SetDevice(t) PROVE LaunchesOnlyOnTarget'
  BY <1>2 DEF SetDevice
<1>3. ASSUME UNCHANGED current,
             \A u \in Threads : call'[u].pc = "launching"
                                    => call[u].pc = "launching"
      PROVE  LaunchesOnlyOnTarget'
  BY <1>3
<1>4. ASSUME NEW t \in Threads, NEW e \in Entries,
             \/ RejectArguments(t, e) \/ DeviceQueryFails(t, e)
             \/ RejectDevice(t, e)
      PROVE  LaunchesOnlyOnTarget'
  BY <1>4, <1>3 DEF RejectArguments, DeviceQueryFails, RejectDevice, Fail,
                    Returned
<1>5. ASSUME NEW t \in Threads,
             \/ LaunchKernel(t) \/ LaunchFails(t) \/ LaunchThrows(t)
      PROVE  LaunchesOnlyOnTarget'
  BY <1>5, <1>3 DEF LaunchKernel, LaunchFails, LaunchThrows, Fail, Returned
<1>6. ASSUME NEW t \in Threads, PlanSize(t) \/ Leave(t) \/ GetDeviceInfo(t)
      PROVE  LaunchesOnlyOnTarget'
  BY <1>6, <1>3 DEF PlanSize, Leave, ReportPendingError, Complete, Consume,
     GetDeviceInfo, Fail, Succeed, Returned, Idle
<1>7. CASE UNCHANGED vars
  BY <1>7, <1>3 DEF vars
<1> QED
  BY <1>1, <1>2, <1>4, <1>5, <1>6, <1>7 DEF Next, Enter

\* The launches of a call are tried or still to be tried, and while no error
\* is pending none of them was lost.
LEMMA LaunchStep == TypeOK /\ LaunchInv /\ [Next]_vars => LaunchInv'
<1> SUFFICES ASSUME TypeOK, LaunchInv, [Next]_vars PROVE LaunchInv'
  OBVIOUS
<1> USE KernelsType DEF LaunchInv, TypeOK, CallRecords, cudaVars
<1>1. ASSUME NEW t \in Threads, NEW e \in Entries,
             RejectArguments(t, e) \/ RejectDevice(t, e)
      PROVE  LaunchInv'
  <2>1. Kernels(e) \in 0 .. 3
    OBVIOUS
  <2>2. /\ call' = [call EXCEPT ![t] =
                Returned(e, calls + 1, Kernels(e), 0, call'[t].status)]
        /\ rtError' = rtError
    BY <1>1 DEF RejectArguments, RejectDevice, Fail, Returned
  <2> QED
    BY <2>1, <2>2 DEF Returned
<1>2. ASSUME NEW t \in Threads, NEW e \in Entries, DeviceQueryFails(t, e)
      PROVE  LaunchInv'
  BY <1>2 DEF DeviceQueryFails, RuntimeFault, Fail, Returned
<1>3. ASSUME NEW t \in Threads, NEW e \in Entries, Admit(t, e)
      PROVE  LaunchInv'
  BY <1>3 DEF Admit, Launching
<1>4. ASSUME NEW t \in Threads, PlanSize(t) \/ GetDeviceInfo(t)
      PROVE  LaunchInv'
  <2>1. ASSUME NEW e \in {"info", "size"}, Succeed(t, e, calls + 1, 0),
               UNCHANGED rtError
        PROVE  LaunchInv'
    BY <2>1, NothingToLaunch DEF Succeed, Returned
  <2> QED
    BY <1>4, <2>1 DEF PlanSize, GetDeviceInfo
<1>5. ASSUME NEW t \in Threads, LaunchKernel(t) PROVE LaunchInv'
  BY <1>5 DEF LaunchKernel
<1>6. ASSUME NEW t \in Threads, LaunchFails(t) PROVE LaunchInv'
  BY <1>6 DEF LaunchFails, RuntimeFault
<1>7. ASSUME NEW t \in Threads, LaunchThrows(t) PROVE LaunchInv'
  BY <1>7 DEF LaunchThrows, Fail, Returned
<1>8. ASSUME NEW t \in Threads, ReportPendingError(t) PROVE LaunchInv'
  BY <1>8 DEF ReportPendingError, TakePendingError, Fail, Returned
<1>9. ASSUME NEW t \in Threads, Complete(t) PROVE LaunchInv'
  BY <1>9 DEF Complete, Succeed, Returned
<1>10. ASSUME NEW t \in Threads, Consume(t) PROVE LaunchInv'
  BY <1>10 DEF Consume, Idle, Kernels, Entries
<1>11. CASE (\E t \in Threads : SetDevice(t)) \/ UNCHANGED vars
  BY <1>11 DEF SetDevice, vars
<1> QED
  BY <1>1, <1>2, <1>3, <1>4, <1>5, <1>6, <1>7, <1>8, <1>9, <1>10, <1>11
     DEF Next, Enter, Leave

\* A call ends in success only when every launch is done.
LEMMA SuccessStep ==
    TypeOK /\ LaunchInv /\ SuccessMeansAllLaunched /\ [Next]_vars
        => SuccessMeansAllLaunched'
<1> SUFFICES ASSUME TypeOK, LaunchInv, SuccessMeansAllLaunched, [Next]_vars
             PROVE  SuccessMeansAllLaunched'
  OBVIOUS
<1> USE DEF SuccessMeansAllLaunched, TypeOK, CallRecords
<1>1. ASSUME NEW t \in Threads, NEW e \in Entries,
             \/ RejectArguments(t, e) \/ DeviceQueryFails(t, e)
             \/ RejectDevice(t, e) \/ Admit(t, e)
      PROVE  SuccessMeansAllLaunched'
  BY <1>1 DEF RejectArguments, DeviceQueryFails, RejectDevice, Admit, Fail,
              Returned, Launching
<1>2. ASSUME NEW t \in Threads, PlanSize(t) \/ GetDeviceInfo(t)
      PROVE  SuccessMeansAllLaunched'
  <2>1. ASSUME NEW e \in {"info", "size"}, Succeed(t, e, calls + 1, 0)
        PROVE  SuccessMeansAllLaunched'
    <3>1. call' = [call EXCEPT ![t] = Returned(e, calls + 1, 0, 0, "SUCCESS")]
      BY <2>1 DEF Succeed
    <3>2. Kernels(e) = 0
      BY NothingToLaunch
    <3>3. call'[t].done = 0 /\ call'[t].entry = e
      BY <3>1 DEF Returned
    <3>4. \A u \in Threads \ {t} : call'[u] = call[u]
      BY <3>1
    <3> QED
      BY <3>2, <3>3, <3>4
  <2> QED
    BY <1>2, <2>1 DEF PlanSize, GetDeviceInfo
<1>3. ASSUME NEW t \in Threads, LaunchKernel(t) \/ LaunchFails(t)
      PROVE  SuccessMeansAllLaunched'
  <2>1. call'[t].pc = "launching"
    BY <1>3 DEF LaunchKernel, LaunchFails
  <2>2. \A u \in Threads \ {t} : call'[u] = call[u]
    BY <1>3 DEF LaunchKernel, LaunchFails
  <2> QED
    BY <2>1, <2>2
<1>4. ASSUME NEW t \in Threads, LaunchThrows(t) \/ ReportPendingError(t)
      PROVE  SuccessMeansAllLaunched'
  BY <1>4 DEF LaunchThrows, ReportPendingError, Fail, Returned
<1>5. ASSUME NEW t \in Threads, Complete(t) PROVE SuccessMeansAllLaunched'
  <2>1. call[t].done = Kernels(call[t].entry)
    BY <1>5, KernelsType DEF Complete, PendingError, LaunchInv
  <2> QED
    BY <1>5, <2>1 DEF Complete, Succeed, Returned
<1>6. ASSUME NEW t \in Threads, Consume(t) PROVE SuccessMeansAllLaunched'
  BY <1>6 DEF Consume, Idle
<1>7. CASE (\E t \in Threads : SetDevice(t)) \/ UNCHANGED vars
  BY <1>7 DEF SetDevice, vars
<1> QED
  BY <1>1, <1>2, <1>3, <1>4, <1>5, <1>6, <1>7 DEF Next, Enter, Leave

\* A pending error is a fault that was not reported yet.
LEMMA FaultStep == TypeOK /\ FaultInv /\ [Next]_vars => FaultInv'
<1> SUFFICES ASSUME TypeOK, FaultInv, [Next]_vars PROVE FaultInv'
  OBVIOUS
<1> USE DEF FaultInv, TypeOK
<1>1. ASSUME NEW t \in Threads, UNCHANGED reports, RuntimeFault(t)
      PROVE  FaultInv'
  BY <1>1 DEF RuntimeFault
<1>2. ASSUME NEW t \in Threads, LaunchThrows(t) PROVE FaultInv'
  BY <1>2 DEF LaunchThrows
<1>3. ASSUME NEW t \in Threads, ReportPendingError(t) PROVE FaultInv'
  BY <1>3 DEF ReportPendingError, PendingError, TakePendingError
<1>4. CASE UNCHANGED <<rtError, faults, reports>>
  BY <1>4
<1> QED
  BY <1>1, <1>2, <1>3, <1>4 DEF Next, Enter, Leave, RejectArguments,
     DeviceQueryFails, RejectDevice, Admit, PlanSize, GetDeviceInfo,
     LaunchKernel, LaunchFails, Complete, Consume, SetDevice, cudaVars, vars

\* Until the wrapper has consumed a call, the thread's error string is the
\* one that call left: no other thread writes it.
LEMMA MessageStep ==
    TypeOK /\ MessageIsOfThisCall /\ [Next]_vars => MessageIsOfThisCall'
<1> SUFFICES ASSUME TypeOK, MessageIsOfThisCall, [Next]_vars
             PROVE  MessageIsOfThisCall'
  OBVIOUS
<1> USE DEF MessageIsOfThisCall, TypeOK, CallRecords
<1>1. ASSUME NEW t \in Threads, NEW e \in Entries, NEW id \in Nat,
             NEW todo, NEW done, NEW s \in Failures,
             Fail(t, e, id, todo, done, s)
      PROVE  MessageIsOfThisCall'
  BY <1>1 DEF Fail, SetError, Returned, Failures
<1>2. ASSUME NEW t \in Threads, NEW e \in Entries, NEW id \in Nat,
             NEW done, Succeed(t, e, id, done)
      PROVE  MessageIsOfThisCall'
  BY <1>2 DEF Succeed, ClearError, Returned
<1>3. ASSUME UNCHANGED lastError,
             \A u \in Threads : call'[u].pc = "returned" => call'[u] = call[u]
      PROVE  MessageIsOfThisCall'
  BY <1>3
<1>4. ASSUME NEW t \in Threads, NEW e \in Entries,
             \/ RejectArguments(t, e) \/ DeviceQueryFails(t, e)
             \/ RejectDevice(t, e)
      PROVE  MessageIsOfThisCall'
  BY <1>4, <1>1 DEF RejectArguments, DeviceQueryFails, RejectDevice, Failures
<1>5. ASSUME NEW t \in Threads, PlanSize(t) \/ GetDeviceInfo(t)
      PROVE  MessageIsOfThisCall'
  BY <1>5, <1>2 DEF PlanSize, GetDeviceInfo, Entries
<1>6. ASSUME NEW t \in Threads, NEW e \in Entries, Admit(t, e)
      PROVE  MessageIsOfThisCall'
  BY <1>6, <1>3 DEF Admit, Launching
<1>7. ASSUME NEW t \in Threads,
             \/ LaunchKernel(t) \/ LaunchFails(t) \/ Consume(t)
      PROVE  MessageIsOfThisCall'
  <2>1. \E c : c.pc # "returned" /\ call' = [call EXCEPT ![t] = c]
    <3>1. ASSUME LaunchKernel(t) \/ LaunchFails(t) PROVE call[t].pc = "launching" 
      BY <3>1 DEF LaunchKernel, LaunchFails
    <3> QED
      BY <1>7 DEF LaunchKernel, LaunchFails, Consume, Idle
  <2> QED
    BY <1>7, <1>3, <2>1 DEF LaunchKernel, LaunchFails, Consume
<1>8. ASSUME NEW t \in Threads, LaunchThrows(t) \/ ReportPendingError(t)
      PROVE  MessageIsOfThisCall'
  BY <1>8, <1>1 DEF LaunchThrows, ReportPendingError, Failures
<1>9. ASSUME NEW t \in Threads, Complete(t) PROVE MessageIsOfThisCall'
  BY <1>9, <1>2 DEF Complete
<1>10. CASE (\E t \in Threads : SetDevice(t)) \/ UNCHANGED vars
  BY <1>10 DEF SetDevice, vars
<1> QED
  BY <1>4, <1>5, <1>6, <1>7, <1>8, <1>9, <1>10 DEF Next, Enter, Leave

-----------------------------------------------------------------------------
(* The invariants of the specification.                                    *)

\* The inductive invariant holds in every reachable state.
THEOREM Inductive == Spec => []IInv
<1>1. Init => IInv
  BY CApiAssumption DEF Init, IInv, TypeOK, DeviceInv, LaunchInv, FaultInv,
     LaunchesOnlyOnTarget, SuccessMeansAllLaunched, MessageIsOfThisCall,
     Idle, CallRecords, Statuses, Entries, Kernels, NoMessage
<1>2. IInv /\ [Next]_vars => IInv'
  BY TypeStep, DeviceStep, TargetStep, LaunchStep, SuccessStep, FaultStep,
     MessageStep DEF IInv
<1> QED
  BY <1>1, <1>2, PTL DEF Spec

\* Type correctness.
THEOREM TypeCorrect == Spec => []TypeOK
BY Inductive, PTL DEF IInv

\* No kernel is launched while the current device has another architecture.
THEOREM NoForeignLaunch == Spec => []LaunchesOnlyOnTarget
BY Inductive, PTL DEF IInv

\* Success means that every kernel of the entry point was launched.
THEOREM NoSilentLoss == Spec => []SuccessMeansAllLaunched
BY Inductive, PTL DEF IInv

\* The message read after a call was written by that call.
THEOREM OwnMessage == Spec => []MessageIsOfThisCall
BY Inductive, PTL DEF IInv

\* A fault is reported from cudaGetLastError at most once.
THEOREM AtMostOneReport == Spec => []OneReportPerFault
<1>1. IInv => OneReportPerFault
  <2> SUFFICES ASSUME IInv, NEW t \in Threads PROVE reports[t] <= faults[t]
    BY DEF OneReportPerFault
  <2>1. reports[t] \in Nat /\ faults[t] \in Nat
    BY DEF IInv, TypeOK
  <2>2. reports[t] + (IF rtError[t] THEN 1 ELSE 0) <= faults[t]
    BY DEF IInv, FaultInv
  <2> QED
    BY <2>1, <2>2
<1> QED
  BY <1>1, Inductive, PTL
=============================================================================
