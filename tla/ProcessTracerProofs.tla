------------------------ MODULE ProcessTracerProofs ------------------------
(* Proofs about ProcessTracer, for every set of threads and of tracers.     *)
EXTENDS ProcessTracer, TLAPS

(***************************************************************************)
(* Type correctness, whatever the environment does.                        *)
(***************************************************************************)
\* A capture starts in a well-typed state.
LEMMA InitType == Init => TypeOK
<1> SUFFICES ASSUME Init PROVE TypeOK
  OBVIOUS
<1>1. GroupTypeOK
  BY DEF Init, GroupInit, GroupTypeOK, ThreadState
<1>2. /\ tid \in [Tracers -> Tids]
      /\ pc \in [Tracers -> Step]
  BY ThreadGroupAssumption DEF Init, Step
<1>3. error_by_tid \in [Tracers -> [Tids -> Errno \cup {"none"}]]
  BY DEF Init
<1> QED
  BY <1>1, <1>2, <1>3 DEF Init, TypeOK

\* What the threads do on their own keeps every variable in its type.
LEMMA EnvironmentType == TypeOK /\ Environment => TypeOK'
<1> SUFFICES ASSUME TypeOK, Environment PROVE TypeOK'
  OBVIOUS
<1> USE DEF TypeOK, GroupTypeOK, ThreadState, Environment, tracerVars
<1>1. ASSUME NEW u \in Tids, Spawn(u) PROVE TypeOK'
  BY <1>1 DEF Spawn
<1>2. ASSUME NEW u \in Tids, Exit(u) PROVE TypeOK'
  BY <1>2 DEF Exit
<1>3. ASSUME NEW u \in Tids, EntersStop(u) PROVE TypeOK'
  BY <1>3 DEF EntersStop
<1>4. CASE MainExits
  BY <1>4, ThreadGroupAssumption DEF MainExits
<1>5. CASE Killed
  BY <1>5 DEF Killed
<1>6. CASE Reaped
  BY <1>6, ThreadGroupAssumption DEF Reaped
<1> QED
  BY <1>1, <1>2, <1>3, <1>4, <1>5, <1>6 DEF GroupNext

\* Every system call of a tracer, successful or not, keeps the types.
LEMMA TracerType ==
  ASSUME TypeOK, NEW t \in Tracers, TracerNext(t)
  PROVE  TypeOK'
<1> USE ThreadGroupAssumption
    DEF TypeOK, GroupTypeOK, ThreadState, Step, Errno, groupVars, Goto, CallDetach
<1>1. CASE List(t)
  BY <1>1 DEF List, Listed
<1>2. CASE ListFails(t)
  BY <1>2 DEF ListFails
<1>3. ASSUME NEW u \in Tids, GiveUp(t, u) PROVE TypeOK'
  BY <1>3 DEF GiveUp
<1>4. ASSUME NEW u \in Tids, Attach(t, u) PROVE TypeOK'
  BY <1>4 DEF Attach, PtraceAttach
<1>5. ASSUME NEW u \in Tids, AttachFails(t, u) PROVE TypeOK'
  BY <1>5 DEF AttachFails, AttachError
<1>6. ASSUME NEW u \in Tids, DetachOne(t, u) PROVE TypeOK'
  BY <1>6 DEF DetachOne, PtraceDetach
<1>7. CASE WaitReturns(t)
  BY <1>7 DEF WaitReturns, ReportExit
<1>8. CASE WaitHasNoChild(t)
  BY <1>8 DEF WaitHasNoChild
<1>9. CASE WaitFails(t)
  BY <1>9 DEF WaitFails
<1>10. CASE PassEnds(t)
  BY <1>10 DEF PassEnds
<1>11. CASE DetachReturns(t)
  BY <1>11 DEF DetachReturns
<1>12. CASE Release(t)
  BY <1>12 DEF Release
<1> QED
  BY <1>1, <1>2, <1>3, <1>4, <1>5, <1>6, <1>7, <1>8, <1>9, <1>10, <1>11, <1>12
  DEF TracerNext

\* Every reachable state is well typed, whatever goes wrong.
THEOREM TypeCorrect == Spec => []TypeOK
<1>1. TypeOK /\ [Next]_vars => TypeOK'
  <2> SUFFICES ASSUME TypeOK, [Next]_vars PROVE TypeOK'
    OBVIOUS
  <2>1. CASE UNCHANGED vars
    BY <2>1 DEF vars, groupVars, tracerVars, TypeOK, GroupTypeOK
  <2>2. CASE Next
    BY <2>2, EnvironmentType, TracerType DEF Next
  <2> QED
    BY <2>1, <2>2
<1> QED
  BY <1>1, InitType, PTL DEF Spec

(***************************************************************************)
(* The inductive invariant.  Safe is IInv without its type part, and with  *)
(* the three conditions on a tracer taken one by one.                      *)
(***************************************************************************)
Safe ==
  /\ AttachedAreRecorded
  /\ AttachedWereBorn
  /\ StoppedIsTraced
  /\ ReapedIsEmpty
  /\ \A t \in Reliable : Grips(t)
  /\ \A t \in Reliable : Covers(t)
  /\ \A t \in Reliable : LetsGo(t)
  /\ LetsEverythingGo

\* Safe and the types together are the inductive invariant.
LEMMA SafeIsIInv == IInv <=> TypeOK /\ Safe
  BY DEF IInv, Safe

\* A capture starts with no thread attached to and none stopped.
LEMMA InitSafe == Init => Safe
<1> SUFFICES ASSUME Init PROVE Safe
  OBVIOUS
<1> USE ThreadGroupAssumption DEF Init, GroupInit, Live, Listable, Reliable
<1>1. AttachedAreRecorded /\ AttachedWereBorn
  BY DEF AttachedAreRecorded, AttachedWereBorn
<1>2. StoppedIsTraced
  BY DEF StoppedIsTraced
<1>3. ReapedIsEmpty
  BY DEF ReapedIsEmpty
<1>4. \A t \in Reliable : Grips(t) /\ Covers(t) /\ LetsGo(t)
  BY DEF Grips, Covers, LetsGo
<1>5. LetsEverythingGo
  BY DEF LetsEverythingGo, Finished
<1> QED
  BY <1>1, <1>2, <1>3, <1>4, <1>5 DEF Safe

(***************************************************************************)
(* Steps of the process itself.  A tracer that has the process in its grip *)
(* keeps every thread it holds stopped, so none of them can start another. *)
(***************************************************************************)
\* A thread can start only while another one runs, so never under a tracer that
\* has met no new thread in its last pass.
LEMMA SpawnSafe ==
  ASSUME TypeOK, Safe, NEW n \in Tids, Spawn(n), UNCHANGED tracerVars
  PROVE  Safe'
<1> USE DEF Spawn, tracerVars, TypeOK, GroupTypeOK, ThreadState, Safe, Live, Reliable
<1>1. AttachedAreRecorded' /\ AttachedWereBorn'
  BY DEF AttachedAreRecorded, AttachedWereBorn
<1>2. StoppedIsTraced'
  BY DEF StoppedIsTraced
<1>3. ReapedIsEmpty'
  BY ThreadGroupAssumption DEF ReapedIsEmpty, Runs, Listable
<1>4. ASSUME NEW t \in Reliable PROVE Grips(t)'
  BY DEF Grips, AttachedWereBorn
<1>5. ASSUME NEW t \in Reliable PROVE Covers(t)'
  BY DEF Covers, Grips, Runs
<1>6. ASSUME NEW t \in Reliable PROVE LetsGo(t)'
  BY DEF LetsGo, AttachedAreRecorded, AttachedWereBorn
<1>7. LetsEverythingGo'
  BY DEF LetsEverythingGo, Finished, AttachedAreRecorded, AttachedWereBorn
<1> QED
  BY <1>1, <1>2, <1>3, <1>4, <1>5, <1>6, <1>7

\* Threads that end, one or all of them, take nothing from a tracer.
LEMMA EndSafe ==
  ASSUME TypeOK, Safe, UNCHANGED tracerVars, UNCHANGED <<tracedBy, jobStopped>>,
         stopPending' \subseteq stopPending,
         thread' \in [Tids -> ThreadState],
         \A u \in Tids : thread'[u] = thread[u] \/ (thread[u] # "unborn" /\ Dead(u)'),
         ~Listable' => \A u \in Tids : ~Live(u)'
  PROVE  Safe'
<1> USE DEF tracerVars, TypeOK, GroupTypeOK, ThreadState, Safe, Live, Reliable, Dead
<1>1. AttachedAreRecorded' /\ AttachedWereBorn'
  BY DEF AttachedAreRecorded, AttachedWereBorn
<1>2. StoppedIsTraced'
  BY DEF StoppedIsTraced
<1>3. ReapedIsEmpty'
  BY DEF ReapedIsEmpty
<1>4. ASSUME NEW t \in Reliable PROVE Grips(t)'
  BY DEF Grips
<1>5. ASSUME NEW t \in Reliable PROVE Covers(t)'
  BY DEF Covers
<1>6. ASSUME NEW t \in Reliable PROVE LetsGo(t)'
  BY DEF LetsGo
<1>7. LetsEverythingGo'
  BY DEF LetsEverythingGo, Finished
<1> QED
  BY <1>1, <1>2, <1>3, <1>4, <1>5, <1>6, <1>7

\* A thread that stops does so for the SIGSTOP of the tracer that holds it.
LEMMA EntersStopSafe ==
  ASSUME Faults \subseteq QuietFaults, TypeOK, Safe,
         NEW s \in Tids, EntersStop(s), UNCHANGED tracerVars
  PROVE  Safe'
<1> USE DEF EntersStop, tracerVars, TypeOK, GroupTypeOK, ThreadState, Safe, Live, Reliable
<1>1. AttachedAreRecorded' /\ AttachedWereBorn'
  BY DEF AttachedAreRecorded, AttachedWereBorn
<1>2. StoppedIsTraced'
  BY DEF StoppedIsTraced, QuietFaults
<1>3. ReapedIsEmpty'
  BY DEF ReapedIsEmpty, Listable
<1>4. ASSUME NEW t \in Reliable PROVE Grips(t)'
  BY DEF Grips
<1>5. ASSUME NEW t \in Reliable PROVE Covers(t)'
  BY DEF Covers
<1>6. ASSUME NEW t \in Reliable PROVE LetsGo(t)'
  BY DEF LetsGo
<1>7. LetsEverythingGo'
  BY DEF LetsEverythingGo, Finished
<1> QED
  BY <1>1, <1>2, <1>3, <1>4, <1>5, <1>6, <1>7

\* No step of the process on its own disturbs what the tracers rely on.
LEMMA EnvironmentSafe ==
  ASSUME Faults \subseteq QuietFaults, TypeOK, Safe, Environment
  PROVE  Safe'
<1> UNCHANGED tracerVars
  BY DEF Environment
<1> USE DEF TypeOK, GroupTypeOK, ThreadState, Live, Dead, Listable
<1>1. ASSUME NEW u \in Tids, Spawn(u) PROVE Safe'
  BY <1>1, SpawnSafe
<1>2. ASSUME NEW u \in Tids, EntersStop(u) PROVE Safe'
  BY <1>2, EntersStopSafe
<1>3. ASSUME NEW u \in Tids, Exit(u) PROVE Safe'
  BY <1>3, EndSafe DEF Exit, Runs, Safe, ReapedIsEmpty
<1>4. CASE MainExits
  BY <1>4, EndSafe, ThreadGroupAssumption DEF MainExits, Runs
<1>5. CASE Killed
  BY <1>5, EndSafe DEF Killed
<1>6. CASE Reaped
  BY <1>6, EndSafe, ThreadGroupAssumption DEF Reaped
<1> QED
  BY <1>1, <1>2, <1>3, <1>4, <1>5, <1>6 DEF Environment, GroupNext

(***************************************************************************)
(* Steps of a tracer t; s is any tracer, t or another one.                 *)
(***************************************************************************)
\* getProcessTids reads the directory: the new pass has met no new thread yet.
LEMMA ListSafe ==
  ASSUME TypeOK, Safe, NEW t \in Tracers, List(t)
  PROVE  Safe'
<1> USE DEF List, Listed, Goto, groupVars, TypeOK, GroupTypeOK, ThreadState, Step, Safe,
            Live, Reliable
<1>1. AttachedAreRecorded' /\ AttachedWereBorn'
  BY DEF AttachedAreRecorded, AttachedWereBorn
<1>2. StoppedIsTraced'
  BY DEF StoppedIsTraced
<1>3. ReapedIsEmpty'
  BY DEF ReapedIsEmpty, Listable
<1>4. ASSUME NEW s \in Reliable PROVE Grips(s)'
  BY DEF Grips
<1>5. ASSUME NEW s \in Reliable PROVE Covers(s)'
  BY DEF Covers
<1>6. ASSUME NEW s \in Reliable PROVE LetsGo(s)'
  BY DEF LetsGo
<1>7. LetsEverythingGo'
  BY DEF LetsEverythingGo, Finished
<1> QED
  BY <1>1, <1>2, <1>3, <1>4, <1>5, <1>6, <1>7

\* A tracer that gives up starts to detach from all it attached to.
LEMMA GiveUpSafe ==
  ASSUME TypeOK, Safe, NEW t \in Tracers, NEW u \in Tids, GiveUp(t, u)
  PROVE  Safe'
<1> USE DEF GiveUp, Goto, CallDetach, groupVars, TypeOK, GroupTypeOK, ThreadState, Step,
            Safe, Live, Reliable
<1>1. AttachedAreRecorded' /\ AttachedWereBorn'
  BY DEF AttachedAreRecorded, AttachedWereBorn
<1>2. StoppedIsTraced'
  BY DEF StoppedIsTraced
<1>3. ReapedIsEmpty'
  BY DEF ReapedIsEmpty, Listable
<1>4. ASSUME NEW s \in Reliable PROVE Grips(s)'
  BY DEF Grips
<1>5. ASSUME NEW s \in Reliable PROVE Covers(s)'
  BY DEF Covers
<1>6. ASSUME NEW s \in Reliable PROVE LetsGo(s)'
  BY DEF LetsGo, Grips, AttachedAreRecorded
<1>7. LetsEverythingGo'
  BY DEF LetsEverythingGo, Finished
<1> QED
  BY <1>1, <1>2, <1>3, <1>4, <1>5, <1>6, <1>7

\* A thread is attached to by one tracer, which records it and waits for it.
LEMMA AttachSafe ==
  ASSUME TypeOK, Safe, NEW t \in Tracers, NEW u \in Tids, Attach(t, u)
  PROVE  Safe'
<1> USE DEF Attach, PtraceAttach, AttachError, Goto, TypeOK, GroupTypeOK, ThreadState,
            Step, Safe, Live, Reliable
<1>1. AttachedAreRecorded' /\ AttachedWereBorn'
  BY DEF AttachedAreRecorded, AttachedWereBorn
<1>2. StoppedIsTraced'
  BY DEF StoppedIsTraced
<1>3. ReapedIsEmpty'
  BY DEF ReapedIsEmpty, Listable
<1>4. ASSUME NEW s \in Reliable PROVE Grips(s)'
  BY ThreadGroupAssumption DEF Grips
<1>5. ASSUME NEW s \in Reliable PROVE Covers(s)'
  BY DEF Covers
<1>6. ASSUME NEW s \in Reliable PROVE LetsGo(s)'
  BY DEF LetsGo
<1>7. LetsEverythingGo'
  BY DEF LetsEverythingGo, Finished
<1> QED
  BY <1>1, <1>2, <1>3, <1>4, <1>5, <1>6, <1>7

\* A failed PTRACE_ATTACH changes no thread and asks for another pass.
LEMMA AttachFailsSafe ==
  ASSUME TypeOK, Safe, NEW t \in Tracers, NEW u \in Tids, AttachFails(t, u)
  PROVE  Safe'
<1> USE DEF AttachFails, groupVars, TypeOK, GroupTypeOK, ThreadState, Step, Safe, Live, Reliable
<1>1. AttachedAreRecorded' /\ AttachedWereBorn'
  BY DEF AttachedAreRecorded, AttachedWereBorn
<1>2. StoppedIsTraced'
  BY DEF StoppedIsTraced
<1>3. ReapedIsEmpty'
  BY DEF ReapedIsEmpty, Listable
<1>4. ASSUME NEW s \in Reliable PROVE Grips(s)'
  BY DEF Grips
<1>5. ASSUME NEW s \in Reliable PROVE Covers(s)'
  BY DEF Covers
<1>6. ASSUME NEW s \in Reliable PROVE LetsGo(s)'
  BY DEF LetsGo
<1>7. LetsEverythingGo'
  BY DEF LetsEverythingGo, Finished
<1> QED
  BY <1>1, <1>2, <1>3, <1>4, <1>5, <1>6, <1>7

\* One round of the loop of detachFromProcess.
LEMMA DetachOneSafe ==
  ASSUME TypeOK, Safe, NEW t \in Tracers, NEW u \in Tids, DetachOne(t, u)
  PROVE  Safe'
<1> USE DEF DetachOne, PtraceDetach, groupVars, TypeOK, GroupTypeOK, ThreadState, Step,
            Safe, Live, Reliable
<1>1. AttachedAreRecorded' /\ AttachedWereBorn'
  BY ThreadGroupAssumption DEF AttachedAreRecorded, AttachedWereBorn
<1>2. StoppedIsTraced'
  BY DEF StoppedIsTraced
<1>3. ReapedIsEmpty'
  BY ThreadGroupAssumption DEF ReapedIsEmpty, Listable
<1>4. ASSUME NEW s \in Reliable PROVE Grips(s)'
  BY DEF Grips
<1>5. ASSUME NEW s \in Reliable PROVE Covers(s)'
  BY DEF Covers
<1>6. ASSUME NEW s \in Reliable PROVE LetsGo(s)'
  BY ThreadGroupAssumption DEF LetsGo
<1>7. LetsEverythingGo'
  BY ThreadGroupAssumption, SMTT(40) DEF LetsEverythingGo, Finished
<1> QED
  BY <1>1, <1>2, <1>3, <1>4, <1>5, <1>6, <1>7

\* When waitpid returns, the thread it was called for is stopped or dead.
LEMMA WaitReturnsSafe ==
  ASSUME TypeOK, Safe, NEW t \in Tracers, WaitReturns(t)
  PROVE  Safe'
<1> USE DEF WaitReturns, ReportExit, Reportable, Goto, groupVars, TypeOK, GroupTypeOK,
            ThreadState, Step, Safe, Live, Reliable
<1>1. AttachedAreRecorded' /\ AttachedWereBorn'
  BY ThreadGroupAssumption DEF AttachedAreRecorded, AttachedWereBorn
<1>2. StoppedIsTraced'
  BY DEF StoppedIsTraced
<1>3. ReapedIsEmpty'
  BY ThreadGroupAssumption DEF ReapedIsEmpty, Listable
<1>4. ASSUME NEW s \in Reliable PROVE Grips(s)'
  BY DEF Grips
<1>5. ASSUME NEW s \in Reliable PROVE Covers(s)'
  BY DEF Covers
<1>6. ASSUME NEW s \in Reliable PROVE LetsGo(s)'
  BY DEF LetsGo
<1>7. LetsEverythingGo'
  BY DEF LetsEverythingGo, Finished
<1> QED
  BY <1>1, <1>2, <1>3, <1>4, <1>5, <1>6, <1>7

\* The tracer whose waitpid fails is not a reliable one, and does nothing to the threads.
LEMMA WaitFailedSafe ==
  ASSUME TypeOK, Safe, NEW t \in Tracers, WaitHasNoChild(t) \/ WaitFails(t)
  PROVE  Safe'
<1> USE DEF WaitHasNoChild, WaitFails, Goto, CallDetach, groupVars, TypeOK, GroupTypeOK,
            ThreadState, Step, Safe, Live, Reliable
<1>0. UNCHANGED groupVars /\ UNCHANGED <<d_tids, tid>> /\ t \notin Reliable
  OBVIOUS
<1>1. AttachedAreRecorded' /\ AttachedWereBorn'
  BY DEF AttachedAreRecorded, AttachedWereBorn
<1>2. StoppedIsTraced'
  BY DEF StoppedIsTraced
<1>3. ReapedIsEmpty'
  BY DEF ReapedIsEmpty, Listable
<1>4. ASSUME NEW s \in Reliable PROVE Grips(s)'
  <2>1. s # t /\ pc'[s] = pc[s] /\ Grips(s)
    BY <1>0, <1>4
  <2> QED
    BY ONLY <1>0, <2>1, ThreadGroupAssumption DEF Grips, Live, groupVars
<1>5. ASSUME NEW s \in Reliable PROVE Covers(s)'
  BY SMTT(40) DEF Covers
<1>6. ASSUME NEW s \in Reliable PROVE LetsGo(s)'
  BY DEF LetsGo
<1>7. LetsEverythingGo'
  BY DEF LetsEverythingGo, Finished
<1> QED
  BY <1>1, <1>2, <1>3, <1>4, <1>5, <1>6, <1>7

\* A pass that tried nothing has seen every live thread, and all are held.
LEMMA PassEndsSafe ==
  ASSUME TypeOK, Safe, NEW t \in Tracers, PassEnds(t)
  PROVE  Safe'
<1> USE DEF PassEnds, Goto, groupVars, TypeOK, GroupTypeOK, ThreadState, Step, Safe, Live, Reliable
<1>1. AttachedAreRecorded' /\ AttachedWereBorn'
  BY DEF AttachedAreRecorded, AttachedWereBorn
<1>2. StoppedIsTraced'
  BY DEF StoppedIsTraced
<1>3. ReapedIsEmpty'
  BY DEF ReapedIsEmpty, Listable
<1>4. ASSUME NEW s \in Reliable PROVE Grips(s)'
  BY DEF Grips
<1>5. ASSUME NEW s \in Reliable PROVE Covers(s)'
  BY DEF Covers
<1>6. ASSUME NEW s \in Reliable PROVE LetsGo(s)'
  BY DEF LetsGo
<1>7. LetsEverythingGo'
  BY DEF LetsEverythingGo, Finished
<1> QED
  BY <1>1, <1>2, <1>3, <1>4, <1>5, <1>6, <1>7

\* When detachFromProcess returns, the tracer holds no live thread.
LEMMA DetachReturnsSafe ==
  ASSUME TypeOK, Safe, NEW t \in Tracers, DetachReturns(t)
  PROVE  Safe'
<1> USE DEF DetachReturns, Goto, groupVars, TypeOK, GroupTypeOK, ThreadState, Step, Safe,
            Live, Reliable
<1>1. AttachedAreRecorded' /\ AttachedWereBorn'
  BY DEF AttachedAreRecorded, AttachedWereBorn
<1>2. StoppedIsTraced'
  BY DEF StoppedIsTraced
<1>3. ReapedIsEmpty'
  BY DEF ReapedIsEmpty, Listable
<1>4. ASSUME NEW s \in Reliable PROVE Grips(s)'
  BY SMTT(40) DEF Grips, LetsGo
<1>5. ASSUME NEW s \in Reliable PROVE Covers(s)'
  BY DEF Covers, LetsGo
<1>6. ASSUME NEW s \in Reliable PROVE LetsGo(s)'
  BY DEF LetsGo
<1>7. LetsEverythingGo'
  BY DEF LetsEverythingGo, Finished, LetsGo
<1> QED
  BY <1>1, <1>2, <1>3, <1>4, <1>5, <1>6, <1>7

\* The destructor starts to detach from all the tracer attached to.
LEMMA ReleaseSafe ==
  ASSUME TypeOK, Safe, NEW t \in Tracers, Release(t)
  PROVE  Safe'
<1> USE DEF Release, Goto, CallDetach, groupVars, TypeOK, GroupTypeOK, ThreadState, Step,
            Safe, Live, Reliable
<1>1. AttachedAreRecorded' /\ AttachedWereBorn'
  BY DEF AttachedAreRecorded, AttachedWereBorn
<1>2. StoppedIsTraced'
  BY DEF StoppedIsTraced
<1>3. ReapedIsEmpty'
  BY DEF ReapedIsEmpty, Listable
<1>4. ASSUME NEW s \in Reliable PROVE Grips(s)'
  BY DEF Grips
<1>5. ASSUME NEW s \in Reliable PROVE Covers(s)'
  BY DEF Covers
<1>6. ASSUME NEW s \in Reliable PROVE LetsGo(s)'
  BY DEF LetsGo, Grips, AttachedAreRecorded
<1>7. LetsEverythingGo'
  BY DEF LetsEverythingGo, Finished
<1> QED
  BY <1>1, <1>2, <1>3, <1>4, <1>5, <1>6, <1>7

\* getProcessTids fails, in a quiet environment, only for a process that is gone.
LEMMA ListFailsSafe ==
  ASSUME TypeOK, Safe, NEW t \in Tracers, ListFails(t), Faults \subseteq QuietFaults
  PROVE  Safe'
<1> USE DEF ListFails, Goto, groupVars, QuietFaults, TypeOK, GroupTypeOK, ThreadState,
            Step, Safe, Live, Reliable
<1>1. AttachedAreRecorded' /\ AttachedWereBorn'
  BY DEF AttachedAreRecorded, AttachedWereBorn
<1>2. StoppedIsTraced'
  BY DEF StoppedIsTraced
<1>3. ReapedIsEmpty'
  BY DEF ReapedIsEmpty, Listable
<1>4. ASSUME NEW s \in Reliable PROVE Grips(s)'
  BY DEF Grips
<1>5. ASSUME NEW s \in Reliable PROVE Covers(s)'
  BY DEF Covers
<1>6. ASSUME NEW s \in Reliable PROVE LetsGo(s)'
  BY DEF LetsGo
<1>7. LetsEverythingGo'
  BY DEF LetsEverythingGo, Finished, ReapedIsEmpty, Listable
<1> QED
  BY <1>1, <1>2, <1>3, <1>4, <1>5, <1>6, <1>7

\* Every step of a tracer preserves the invariant in a quiet environment.
LEMMA TracerSafe ==
  ASSUME Faults \subseteq QuietFaults, TypeOK, Safe, NEW t \in Tracers, TracerNext(t)
  PROVE  Safe'
  BY ListSafe, ListFailsSafe, GiveUpSafe, AttachSafe, AttachFailsSafe, DetachOneSafe,
     WaitReturnsSafe, WaitFailedSafe, PassEndsSafe, DetachReturnsSafe, ReleaseSafe
  DEF TracerNext

\* In a quiet environment the invariant holds for any number of threads, however
\* they start and end, and for any number of captures of the same process.
THEOREM Invariance == Faults \subseteq QuietFaults => (Spec => []IInv)
<1> SUFFICES ASSUME Faults \subseteq QuietFaults PROVE Spec => []IInv
  OBVIOUS
<1>1. Init => IInv
  BY InitType, InitSafe, SafeIsIInv
<1>2. IInv /\ [Next]_vars => IInv'
  <2> SUFFICES ASSUME TypeOK, Safe, [Next]_vars PROVE TypeOK' /\ Safe'
    BY SafeIsIInv DEF IInv, Safe
  <2>1. CASE UNCHANGED vars
    BY <2>1 DEF vars, groupVars, tracerVars, TypeOK, GroupTypeOK, Safe, AttachedAreRecorded,
                AttachedWereBorn, StoppedIsTraced, ReapedIsEmpty, Grips, Covers, LetsGo,
                LetsEverythingGo, Finished, Live, Listable
  <2>2. CASE Next
    BY <2>2, EnvironmentType, TracerType, EnvironmentSafe, TracerSafe DEF Next
  <2> QED
    BY <2>1, <2>2
<1> QED
  BY <1>1, <1>2, PTL DEF Spec

\* While a capture reads, every live thread is stopped by it: what it reads
\* does not change, and no other capture of the process can hold it as well.
THEOREM Exclusion == Faults \subseteq QuietFaults => (Spec => []NothingRunsWhileHeld)
<1> SUFFICES ASSUME Faults \subseteq QuietFaults PROVE Spec => []NothingRunsWhileHeld
  OBVIOUS
<1>1. IInv => NothingRunsWhileHeld
  BY DEF IInv, Grips, Covers, NothingRunsWhileHeld
<1> QED
  BY <1>1, Invariance, PTL

\* Once every capture is over, every live thread of the process executes.
THEOREM Continuation == Faults \subseteq QuietFaults => (Spec => []ContinuesExecution)
<1> SUFFICES ASSUME Faults \subseteq QuietFaults PROVE Spec => []ContinuesExecution
  OBVIOUS
<1>1. IInv => ContinuesExecution
  <2> SUFFICES ASSUME IInv, \A t \in Tracers : Finished(t), NEW u \in Tids, Live(u)
               PROVE  Runs(u) \/ tracedBy[u] \in Interrupted
    BY DEF ContinuesExecution
  <2>1. tracedBy[u] \notin Reliable
    BY DEF IInv, LetsEverythingGo, Reliable
  <2>2. ~jobStopped /\ (thread[u] = "stopped" => tracedBy[u] \in Interrupted)
    BY <2>1 DEF IInv, StoppedIsTraced, TypeOK, GroupTypeOK, Reliable
  <2> QED
    BY <2>2 DEF Live, Runs
<1> QED
  BY <1>1, Invariance, PTL

\* A capture that is over holds no live thread, even while others are at work.
THEOREM LettingGo == Faults \subseteq QuietFaults => (Spec => []LetsEverythingGo)
<1> SUFFICES ASSUME Faults \subseteq QuietFaults PROVE Spec => []LetsEverythingGo
  OBVIOUS
<1>1. IInv => LetsEverythingGo
  BY DEF IInv
<1> QED
  BY <1>1, Invariance, PTL

\* Whatever fails, a thread the tracer holds is one detachFromProcess visits.
THEOREM Recorded == Spec => []AttachedAreRecorded
<1>1. Init => AttachedAreRecorded
  BY ThreadGroupAssumption DEF Init, GroupInit, AttachedAreRecorded
<1>2. TypeOK /\ AttachedAreRecorded /\ [Next]_vars => AttachedAreRecorded'
  <2> SUFFICES ASSUME TypeOK, AttachedAreRecorded, [Next]_vars PROVE AttachedAreRecorded'
    OBVIOUS
  <2> USE DEF AttachedAreRecorded, TypeOK, GroupTypeOK
  <2>1. CASE UNCHANGED vars
    BY <2>1 DEF vars, groupVars, tracerVars
  <2>2. CASE Environment
    BY <2>2 DEF Environment, GroupNext, tracerVars, Spawn, Exit, EntersStop, MainExits,
                Killed, Reaped
  <2>3. ASSUME NEW t \in Tracers, NEW u \in Tids, Attach(t, u) PROVE AttachedAreRecorded'
    BY <2>3 DEF Attach, PtraceAttach
  <2>4. ASSUME NEW t \in Tracers, NEW u \in Tids, DetachOne(t, u)
        PROVE AttachedAreRecorded'
    BY <2>4, ThreadGroupAssumption DEF DetachOne, PtraceDetach, groupVars
  <2>5. ASSUME NEW t \in Tracers, WaitReturns(t) PROVE AttachedAreRecorded'
    BY <2>5, ThreadGroupAssumption DEF WaitReturns, ReportExit, groupVars
  <2>6. ASSUME NEW t \in Tracers,
               \/ List(t) \/ ListFails(t) \/ PassEnds(t) \/ WaitHasNoChild(t)
               \/ WaitFails(t) \/ DetachReturns(t) \/ Release(t)
               \/ \E u \in Tids : GiveUp(t, u) \/ AttachFails(t, u)
        PROVE  AttachedAreRecorded'
    BY <2>6 DEF List, ListFails, PassEnds, WaitHasNoChild, WaitFails, DetachReturns, Release,
                GiveUp, AttachFails, CallDetach, groupVars
  <2> QED
    BY <2>1, <2>2, <2>3, <2>4, <2>5, <2>6 DEF Next, TracerNext
<1> QED
  BY <1>1, <1>2, TypeCorrect, PTL DEF Spec
(***************************************************************************)
(* Why a tracer fails, under every fault.                                  *)
(***************************************************************************)
\* The reasons for which ptrace may refuse t with EPERM.
MayBeRefused(t) == t \in Denied \/ Tracers \ Denied # {t} \/ Dead(Pid)

\* The inductive invariant: who may trace a thread, what a pass has still to visit,
\* and what each recorded error stands for.  An ESRCH is of a thread that is gone, and
\* so is never listed again.
TracedByAllowed == \A u \in Tids : tracedBy[u] \notin Denied
ZombiesAreTraced == \A u \in Tids \ {Pid} : thread[u] = "zombie" => tracedBy[u] # NoTracer
TidsAreNew ==
  \A t \in Tracers : \A u \in tids[t] : thread[u] # "unborn" /\ u \notin d_tids[t]
ErrorsHaveCause ==
  \A t \in Tracers, u \in Tids :
    /\ error_by_tid[t][u] = "ESRCH" => thread[u] = "gone" /\ u \notin tids[t]
    /\ error_by_tid[t][u] = "EPERM" => MayBeRefused(t)

Causes ==
  /\ AttachedWereBorn
  /\ TracedByAllowed
  /\ ZombiesAreTraced
  /\ TidsAreNew
  /\ ErrorsHaveCause
  /\ FailureHasCause

\* No step of the process takes a cause away: the dead stay dead.
LEMMA EnvironmentCauses == TypeOK /\ Causes /\ Environment => Causes'
<1> SUFFICES ASSUME TypeOK, Causes, Environment PROVE Causes'
  OBVIOUS
<1> USE ThreadGroupAssumption
    DEF TypeOK, GroupTypeOK, ThreadState, Causes, AttachedWereBorn, TracedByAllowed,
        ZombiesAreTraced, TidsAreNew, ErrorsHaveCause, FailureHasCause, Environment, tracerVars, MayBeRefused,
        Dead, Listable
<1>1. ASSUME NEW u \in Tids, Spawn(u) PROVE Causes'
  BY <1>1 DEF Spawn
<1>2. ASSUME NEW u \in Tids, Exit(u) PROVE Causes'
  BY <1>2 DEF Exit, Runs
<1>3. ASSUME NEW u \in Tids, EntersStop(u) PROVE Causes'
  BY <1>3 DEF EntersStop
<1>4. CASE MainExits
  BY <1>4 DEF MainExits, Runs
<1>5. CASE Killed
  BY <1>5 DEF Killed, Live
<1>6. CASE Reaped
  BY <1>6 DEF Reaped
<1> QED
  BY <1>1, <1>2, <1>3, <1>4, <1>5, <1>6 DEF GroupNext

\* A failed attach is recorded for a reason: the thread is gone, or t may not trace it.
LEMMA AttachFailsCauses ==
  ASSUME TypeOK, AttachedAreRecorded, Causes, NEW t \in Tracers, NEW u \in Tids,
         AttachFails(t, u)
  PROVE  Causes'
<1> USE DEF TypeOK, GroupTypeOK, Causes, AttachFails
<1>1. thread[u] # "unborn" /\ u \notin d_tids[t]
  BY DEF Visits, TidsAreNew
<1>2. AttachError(t, u) = "ESRCH" => thread[u] = "gone"
  BY <1>1 DEF AttachError
<1>3. AttachError(t, u) = "EPERM" => MayBeRefused(t)
  BY <1>1 DEF AttachError, MayBeRefused, AttachedAreRecorded, Dead, TracedByAllowed,
              ZombiesAreTraced
<1>4. \A s \in Tracers, v \in Tids :
        error_by_tid'[s][v] = IF s = t /\ v = u THEN AttachError(t, u) ELSE error_by_tid[s][v]
  OBVIOUS
<1>5. UNCHANGED <<groupVars, d_tids, thrown>> /\ \A s \in Tracers : tids'[s] \subseteq tids[s]
  OBVIOUS
<1>6. u \notin tids'[t]
  OBVIOUS
<1>7. AttachedWereBorn' /\ TracedByAllowed' /\ ZombiesAreTraced' /\ TidsAreNew'
  BY <1>5 DEF AttachedWereBorn, TracedByAllowed, ZombiesAreTraced, TidsAreNew, groupVars
<1>8. ErrorsHaveCause'
  <2>1. \A s \in Tracers : MayBeRefused(s)' <=> MayBeRefused(s)
    BY <1>5 DEF MayBeRefused, Dead, groupVars
  <2>2. UNCHANGED thread
    BY <1>5 DEF groupVars
  <2> SUFFICES ASSUME NEW s \in Tracers, NEW v \in Tids
               PROVE  /\ error_by_tid'[s][v] = "ESRCH" => thread[v] = "gone" /\ v \notin tids'[s]
                      /\ error_by_tid'[s][v] = "EPERM" => MayBeRefused(s)
    BY <2>1, <2>2 DEF ErrorsHaveCause
  <2>3. CASE s = t /\ v = u
    BY <2>3, <1>2, <1>3, <1>4, <1>6
  <2>4. CASE ~(s = t /\ v = u)
    BY <2>4, <1>4, <1>5 DEF ErrorsHaveCause
  <2> QED
    BY <2>3, <2>4
<1>9. FailureHasCause'
  BY <1>5 DEF FailureHasCause, groupVars, Dead, Listable
<1> QED
  BY <1>7, <1>8, <1>9

\* Giving up throws what was recorded; an ESRCH is of no thread that is listed.
LEMMA GiveUpCauses ==
  ASSUME TypeOK, Causes, NEW t \in Tracers, NEW u \in Tids, GiveUp(t, u)
  PROVE  Causes'
<1> USE DEF TypeOK, GroupTypeOK, Causes, GiveUp, groupVars
<1>1. AttachedWereBorn' /\ TracedByAllowed' /\ ZombiesAreTraced' /\ TidsAreNew'
  BY DEF AttachedWereBorn, TracedByAllowed, ZombiesAreTraced, TidsAreNew
<1>2. ErrorsHaveCause'
  BY DEF ErrorsHaveCause, MayBeRefused, Dead
<1>3. error_by_tid[t][u] # "ESRCH" /\ (error_by_tid[t][u] = "EPERM" => MayBeRefused(t))
  BY DEF ErrorsHaveCause, Visits
<1>4. FailureHasCause'
  BY <1>3, SMTT(40) DEF FailureHasCause, MayBeRefused, Errno, Dead, Listable
<1> QED
  BY <1>1, <1>2, <1>4

\* A detached thread runs, a thread whose end was reported is gone.
LEMMA LetGoCauses ==
  ASSUME TypeOK, Causes, NEW t \in Tracers,
         WaitReturns(t) \/ \E u \in Tids : DetachOne(t, u)
  PROVE  Causes'
<1> USE ThreadGroupAssumption DEF TypeOK, GroupTypeOK, ThreadState, Causes
<1>1. /\ UNCHANGED <<tids, d_tids, error_by_tid, thrown>>
      /\ \/ UNCHANGED groupVars
         \/ \E u \in Tids :
              /\ \/ thread[u] = "stopped" /\ thread' = [thread EXCEPT ![u] = "running"]
                 \/ thread[u] = "zombie" /\ thread' = [thread EXCEPT ![u] = IF u = Pid THEN "zombie" ELSE "gone"]
              /\ tracedBy' = [tracedBy EXCEPT ![u] = NoTracer]
  BY DEF WaitReturns, DetachOne, PtraceDetach, ReportExit, Reportable
<1>2. TracedByAllowed'
  BY <1>1 DEF TracedByAllowed, groupVars
<1>3. ZombiesAreTraced'
  <2>1. CASE UNCHANGED groupVars
    BY <2>1 DEF ZombiesAreTraced, groupVars
  <2>2. ASSUME NEW u \in Tids,
               thread'[u] # "zombie" \/ u = Pid,
               \A v \in Tids \ {u} : thread'[v] = thread[v] /\ tracedBy'[v] = tracedBy[v]
        PROVE  ZombiesAreTraced'
    BY <2>2 DEF ZombiesAreTraced
  <2> QED
    BY <1>1, <2>1, <2>2
<1>4. AttachedWereBorn' /\ TidsAreNew' /\ ErrorsHaveCause'
  <2>1. \A u \in Tids : /\ thread[u] # "unborn" => thread'[u] # "unborn"
                        /\ thread[u] = "gone" => thread'[u] = "gone"
                        /\ Dead(u) => Dead(u)'
    BY <1>1 DEF groupVars, Dead
  <2> QED
    BY <1>1, <2>1 DEF AttachedWereBorn, TidsAreNew, ErrorsHaveCause, MayBeRefused
<1>5. FailureHasCause'
  BY <1>1 DEF FailureHasCause, groupVars, Dead, Listable
<1> QED
  BY <1>2, <1>3, <1>4, <1>5

\* Every system call of a tracer.
LEMMA TracerCauses ==
  ASSUME TypeOK, AttachedAreRecorded, Causes, NEW t \in Tracers, TracerNext(t)
  PROVE  Causes'
<1> USE ThreadGroupAssumption
    DEF TypeOK, GroupTypeOK, ThreadState, Causes, AttachedWereBorn, TracedByAllowed,
        ZombiesAreTraced, TidsAreNew, ErrorsHaveCause, FailureHasCause, groupVars, Goto, CallDetach,
        MayBeRefused, Dead, Listable
<1>1. CASE List(t)
  BY <1>1 DEF List, Listed, Live
<1>2. CASE ListFails(t)
  BY <1>2 DEF ListFails
<1>3. ASSUME NEW u \in Tids, GiveUp(t, u) \/ AttachFails(t, u) PROVE Causes'
  BY ONLY <1>3, GiveUpCauses, AttachFailsCauses, TypeOK, AttachedAreRecorded, Causes
<1>4. ASSUME NEW u \in Tids, Attach(t, u) PROVE Causes'
  <2>1. AttachedWereBorn' /\ TracedByAllowed' /\ ZombiesAreTraced'
    BY <1>4 DEF Attach, PtraceAttach, AttachError
  <2>2. TidsAreNew'
    BY <1>4 DEF Attach, PtraceAttach, AttachError
  <2>3. ErrorsHaveCause' /\ FailureHasCause'
    BY <1>4 DEF Attach, PtraceAttach, AttachError
  <2> QED
    BY ONLY <2>1, <2>2, <2>3 DEF Causes
<1>5. ASSUME WaitReturns(t) \/ \E u \in Tids : DetachOne(t, u) PROVE Causes'
  BY ONLY <1>5, LetGoCauses, TypeOK, Causes
<1>6. CASE WaitHasNoChild(t) \/ WaitFails(t) \/ PassEnds(t) \/ DetachReturns(t) \/ Release(t)
  BY <1>6 DEF WaitHasNoChild, WaitFails, PassEnds, DetachReturns, Release
<1> QED
  BY <1>1, <1>2, <1>3, <1>4, <1>5, <1>6 DEF TracerNext

\* The causes hold whatever goes wrong.
LEMMA CausesHold == Spec => []Causes
<1>1. Init => Causes
  BY ThreadGroupAssumption DEF Init, GroupInit, Causes, AttachedWereBorn, TracedByAllowed,
                               ZombiesAreTraced, TidsAreNew, ErrorsHaveCause, FailureHasCause
<1>2. TypeOK /\ AttachedAreRecorded /\ Causes /\ [Next]_vars => Causes'
  <2> SUFFICES ASSUME TypeOK, AttachedAreRecorded, Causes, [Next]_vars PROVE Causes'
    OBVIOUS
  <2>1. CASE UNCHANGED vars
    BY <2>1 DEF vars, groupVars, tracerVars, Causes, AttachedWereBorn, TracedByAllowed,
                ZombiesAreTraced, TidsAreNew, ErrorsHaveCause, FailureHasCause, MayBeRefused, Dead, Listable
  <2>2. CASE Next
    BY <2>2, EnvironmentCauses, TracerCauses DEF Next
  <2> QED
    BY <2>1, <2>2
<1> QED
  BY <1>1, <1>2, TypeCorrect, Recorded, PTL DEF Spec

\* A tracer fails only for a reason, however threads come and go and whatever other
\* captures and the kernel do (process.cpp:166-178).
THEOREM FailureCaused == Spec => []FailureHasCause
<1>1. Causes => FailureHasCause
  BY DEF Causes
<1> QED
  BY <1>1, CausesHold, PTL
=============================================================================
