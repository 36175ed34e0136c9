--------------------------- MODULE ProcessTracer ---------------------------
(***************************************************************************)
(* ProcessTracer of process.cpp: the constructor that stops every thread   *)
(* of a process, the time its owner reads the stopped process, and the     *)
(* destructor that lets the threads go.  get_process_threads runs it       *)
(* without the GIL, so several may run at once (one per t \in Tracers).    *)
(* One step is one system call.                                            *)
(***************************************************************************)
EXTENDS ThreadGroup

VARIABLES
  pc,             \* pc[t]: where tracer t is
  tids,           \* tids[t]: the listed threads the for loop has still to visit
  d_tids,         \* d_tids[t]: the threads t attached to
  error_by_tid,   \* error_by_tid[t][u]: errno of the failed attach to u, or "none"
  found_new_tid,  \* found_new_tid[t]: this pass of the loop tried a new thread
  tid,            \* tid[t]: the loop variable while t waits for it
  undetached,     \* undetached[t]: what detachFromProcess has still to visit
  resume,         \* resume[t]: where t goes after detachFromProcess
  thrown          \* thrown[t]: the error the constructor ended with, or "none"

tracerVars ==
  <<pc, tids, d_tids, error_by_tid, found_new_tid, tid, undetached, resume, thrown>>
vars == <<groupVars, tracerVars>>

Step == {"list", "scan", "wait", "held", "detach", "failed", "released"}
Errno == {"EPERM", "ESRCH"}

TypeOK ==
  /\ GroupTypeOK
  /\ pc \in [Tracers -> Step]
  /\ tids \in [Tracers -> SUBSET Tids]
  /\ d_tids \in [Tracers -> SUBSET Tids]
  /\ error_by_tid \in [Tracers -> [Tids -> Errno \cup {"none"}]]
  /\ found_new_tid \in [Tracers -> BOOLEAN]
  /\ tid \in [Tracers -> Tids]
  /\ undetached \in [Tracers -> SUBSET Tids]
  /\ resume \in [Tracers -> {"scan", "failed", "released"}]
  /\ thrown \in [Tracers -> Errno \cup {"none", "listing"}]

Init ==
  /\ GroupInit
  /\ pc = [t \in Tracers |-> "list"]
  /\ tids = [t \in Tracers |-> {}]
  /\ d_tids = [t \in Tracers |-> {}]
  /\ error_by_tid = [t \in Tracers |-> [u \in Tids |-> "none"]]
  /\ found_new_tid = [t \in Tracers |-> TRUE]
  /\ tid = [t \in Tracers |-> Pid]
  /\ undetached = [t \in Tracers |-> {}]
  /\ resume = [t \in Tracers |-> "released"]
  /\ thrown = [t \in Tracers |-> "none"]

Goto(t, from, to) ==
  /\ pc[t] = from
  /\ pc' = [pc EXCEPT ![t] = to]

\* Entering detachFromProcess, to go on at `next' when its loop is over.
CallDetach(t, from, next) ==
  /\ Goto(t, from, "detach")
  /\ undetached' = [undetached EXCEPT ![t] = d_tids[t]]
  /\ resume' = [resume EXCEPT ![t] = next]

-----------------------------------------------------------------------------
(* The constructor.                                                        *)

\* A pass of the outer loop starts: getProcessTids.  The threads the for loop
\* would skip as already stopped are left out at once: nothing adds the others
\* to d_tids before the loop reaches them.
List(t) ==
  /\ Listable
  /\ Goto(t, "list", "scan")
  /\ tids' = [tids EXCEPT ![t] = Listed \ d_tids[t]]
  /\ found_new_tid' = [found_new_tid EXCEPT ![t] = FALSE]
  /\ UNCHANGED <<groupVars, d_tids, error_by_tid, tid, undetached, resume, thrown>>

\* opendir fails, because the process is gone or for want of a descriptor or of
\* memory: the exception leaves a constructor that detaches from nothing.
ListFails(t) ==
  /\ ~Listable \/ "listing" \in Faults
  /\ Goto(t, "list", "failed")
  /\ thrown' = [thrown EXCEPT ![t] = "listing"]
  /\ UNCHANGED <<groupVars, tids, d_tids, error_by_tid, found_new_tid, tid,
                 undetached, resume>>

\* The kernel lists the main thread first and the others in no order the code
\* relies on.
Visits(t, u) ==
  /\ u \in tids[t]
  /\ Pid \in tids[t] => u = Pid

\* Mutant of GiveUp: the error is thrown with the threads still attached.
GiveUpAttached(t, u) ==
  /\ Visits(t, u)
  /\ error_by_tid[t][u] # "none"
  /\ Goto(t, "scan", "failed")
  /\ thrown' = [thrown EXCEPT ![t] = error_by_tid[t][u]]
  /\ UNCHANGED <<groupVars, tids, d_tids, error_by_tid, found_new_tid, tid, undetached,
                 resume>>

\* The thread could not be attached to in an earlier pass and is listed again.
GiveUp(t, u) ==
  /\ Visits(t, u)
  /\ error_by_tid[t][u] # "none"
  /\ CallDetach(t, "scan", "failed")
  /\ thrown' = [thrown EXCEPT ![t] = error_by_tid[t][u]]
  /\ tids' = [tids EXCEPT ![t] = {}]
  /\ UNCHANGED <<groupVars, d_tids, error_by_tid, found_new_tid, tid>>

Attach(t, u) ==
  /\ Visits(t, u)
  /\ error_by_tid[t][u] = "none"
  /\ PtraceAttach(t, u)
  /\ Goto(t, "scan", "wait")
  /\ found_new_tid' = [found_new_tid EXCEPT ![t] = TRUE]
  /\ d_tids' = [d_tids EXCEPT ![t] = @ \cup {u}]
  /\ tid' = [tid EXCEPT ![t] = u]
  /\ tids' = [tids EXCEPT ![t] = @ \ {u}]
  /\ UNCHANGED <<error_by_tid, undetached, resume, thrown>>

\* Mutant of AttachFails: a failed attempt asks for no further pass.
AttachFailsLastPass(t, u) ==
  /\ pc[t] = "scan"
  /\ Visits(t, u)
  /\ error_by_tid[t][u] = "none"
  /\ AttachError(t, u) # "none"
  /\ error_by_tid' = [error_by_tid EXCEPT ![t][u] = AttachError(t, u)]
  /\ tids' = [tids EXCEPT ![t] = @ \ {u}]
  /\ UNCHANGED <<groupVars, pc, d_tids, found_new_tid, tid, undetached, resume, thrown>>

AttachFails(t, u) ==
  /\ pc[t] = "scan"
  /\ Visits(t, u)
  /\ error_by_tid[t][u] = "none"
  /\ AttachError(t, u) # "none"
  /\ found_new_tid' = [found_new_tid EXCEPT ![t] = TRUE]
  /\ error_by_tid' = [error_by_tid EXCEPT ![t][u] = AttachError(t, u)]
  /\ tids' = [tids EXCEPT ![t] = @ \ {u}]
  /\ UNCHANGED <<groupVars, pc, d_tids, tid, undetached, resume, thrown>>

\* waitpid returns the thread's stop, or its exit: the code looks at neither.
WaitReturns(t) ==
  /\ Goto(t, "wait", "scan")
  /\ \/ thread[tid[t]] = "stopped" /\ UNCHANGED groupVars
     \/ ReportExit(tid[t])
  /\ UNCHANGED <<tids, d_tids, error_by_tid, found_new_tid, tid, undetached, resume,
                 thrown>>

\* Old kernels answer ECHILD for every thread but the main one: not an error.
WaitHasNoChild(t) ==
  /\ t \in Interrupted
  /\ tid[t] # Pid
  /\ Goto(t, "wait", "scan")
  /\ UNCHANGED <<groupVars, tids, d_tids, error_by_tid, found_new_tid, tid, undetached,
                 resume, thrown>>

\* Mutant of WaitFails: the threads are forgotten once they were told to go.
WaitFailsForgets(t) ==
  /\ t \in Interrupted
  /\ CallDetach(t, "wait", "scan")
  /\ d_tids' = [d_tids EXCEPT ![t] = {}]
  /\ UNCHANGED <<groupVars, tids, error_by_tid, found_new_tid, tid, thrown>>

\* Any other failure, such as EINTR, detaches from every thread; the loop then
\* goes on with d_tids as it was.
WaitFails(t) ==
  /\ t \in Interrupted
  /\ CallDetach(t, "wait", "scan")
  /\ UNCHANGED <<groupVars, tids, d_tids, error_by_tid, found_new_tid, tid, thrown>>

\* The for loop is over: another pass if this one tried anything.
PassEnds(t) ==
  /\ tids[t] = {}
  /\ Goto(t, "scan", IF found_new_tid[t] THEN "list" ELSE "held")
  /\ UNCHANGED <<groupVars, tids, d_tids, error_by_tid, found_new_tid, tid, undetached,
                 resume, thrown>>

-----------------------------------------------------------------------------
(* detachFromProcess and the destructor.                                   *)

DetachOne(t, u) ==
  /\ pc[t] = "detach"
  /\ u \in undetached[t]
  /\ PtraceDetach(t, u)
  /\ undetached' = [undetached EXCEPT ![t] = @ \ {u}]
  /\ UNCHANGED <<pc, tids, d_tids, error_by_tid, found_new_tid, tid, resume, thrown>>

DetachReturns(t) ==
  /\ undetached[t] = {}
  /\ Goto(t, "detach", resume[t])
  /\ UNCHANGED <<groupVars, tids, d_tids, error_by_tid, found_new_tid, tid, undetached,
                 resume, thrown>>

\* Mutant of Release: the tracer has no destructor.
ReleaseNothing(t) ==
  /\ Goto(t, "held", "released")
  /\ UNCHANGED <<groupVars, tids, d_tids, error_by_tid, found_new_tid, tid, undetached,
                 resume, thrown>>

\* The owner has read what it wanted and destroys the tracer.
Release(t) ==
  /\ CallDetach(t, "held", "released")
  /\ UNCHANGED <<groupVars, tids, d_tids, error_by_tid, found_new_tid, tid, thrown>>

-----------------------------------------------------------------------------

TracerNext(t) ==
  \/ List(t)
  \/ ListFails(t)
  \/ \E u \in Tids : GiveUp(t, u) \/ Attach(t, u) \/ AttachFails(t, u) \/ DetachOne(t, u)
  \/ WaitReturns(t)
  \/ WaitHasNoChild(t)
  \/ WaitFails(t)
  \/ PassEnds(t)
  \/ DetachReturns(t)
  \/ Release(t)

Environment == GroupNext /\ UNCHANGED tracerVars

Next == Environment \/ \E t \in Tracers : TracerNext(t)

Spec == Init /\ [][Next]_vars

-----------------------------------------------------------------------------
(* What a tracer promises.                                                  *)

Finished(t) == pc[t] \in {"failed", "released"}

\* The tracers whose waitpid never fails, whatever that of the others does.
Reliable == Tracers \ Interrupted

\* While the owner of a tracer reads, no thread of the process runs and every
\* live one is held by that very tracer: the constructor ends only after a pass
\* over the thread list that met no new thread (process.cpp:157-206).  A tracer
\* whose waitpid failed promises neither this nor the next.
NothingRunsWhileHeld ==
  \A t \in Reliable : pc[t] = "held" =>
    \A u \in Tids : Live(u) => thread[u] = "stopped" /\ tracedBy[u] = t

\* A capture that is over, with or without success, holds no live thread any
\* more (detachFromProcess at process.cpp:171 and process.cpp:220).
LetsEverythingGo ==
  \A t \in Reliable : Finished(t) => \A u \in Tids : Live(u) => tracedBy[u] # t

\* Whatever goes wrong, detachFromProcess knows every thread the tracer still
\* holds (the comment at process.cpp:191).
AttachedAreRecorded ==
  \A t \in Tracers, u \in Tids : tracedBy[u] = t => u \in d_tids[t]

\* A tracer fails only because it may not trace the process, because another one
\* does, or because the main thread is dead, and never because threads came and
\* went while it was attaching: the second look at a thread that could not be
\* stopped (process.cpp:166-178) tells the two apart.
FailureHasCause ==
  \A t \in Tracers :
    /\ thrown[t] = "EPERM" =>
         t \in Denied \/ Tracers \ Denied # {t} \/ Dead(Pid)
    /\ thrown[t] = "listing" => ~Listable \/ "listing" \in Faults
    /\ thrown[t] # "ESRCH"

\* When every capture is over the process executes again (docs/process.rst:38),
\* but for what a capture whose waitpid failed may still hold.
ContinuesExecution ==
  (\A t \in Tracers : Finished(t)) =>
    \A u \in Tids : Live(u) => Runs(u) \/ tracedBy[u] \in Interrupted

-----------------------------------------------------------------------------
(* The inductive invariant behind the safety properties, for an environment *)
(* in which the list can be read and no other signal reaches a thread       *)
(* before the SIGSTOP.  It speaks of the reliable tracers; those whose      *)
(* waitpid fails are part of what they have to put up with.                 *)

QuietFaults == {"main_exits", "killed"}

\* Only threads that have started are attached to.
AttachedWereBorn == \A t \in Tracers : \A u \in d_tids[t] : thread[u] # "unborn"

\* A stopped thread is somebody's, and no SIGSTOP is left over for it.
StoppedIsTraced ==
  /\ ~jobStopped
  /\ \A u \in Tids : thread[u] = "stopped" => tracedBy[u] # NoTracer /\ u \notin stopPending

\* A process that has been reaped has no live thread.
ReapedIsEmpty == ~Listable => \A u \in Tids : ~Live(u)

\* Inside the constructor and while the process is held, t has in its grip every
\* live thread it attached to, but for the one it waits for.
Grips(t) ==
  pc[t] \in {"list", "scan", "wait", "held"} =>
    \A u \in d_tids[t] : Live(u) =>
      /\ tracedBy[u] = t
      /\ thread[u] = "stopped" \/ (pc[t] = "wait" /\ u = tid[t])

\* A pass that listed no new thread saw them all, and none has started since.
Covers(t) ==
  /\ pc[t] = "wait" => found_new_tid[t]
  /\ pc[t] = "held" \/ (pc[t] = "scan" /\ ~found_new_tid[t] /\ tids[t] = {}) =>
       \A u \in Tids : Live(u) => u \in d_tids[t]

\* Detaching, t holds only stopped threads that it has still to visit.
LetsGo(t) ==
  pc[t] = "detach" =>
    /\ resume[t] # "scan"
    /\ \A u \in Tids : Live(u) /\ tracedBy[u] = t =>
         thread[u] = "stopped" /\ u \in undetached[t]

IInv ==
  /\ TypeOK
  /\ AttachedAreRecorded
  /\ AttachedWereBorn
  /\ StoppedIsTraced
  /\ ReapedIsEmpty
  /\ \A t \in Reliable : Grips(t) /\ Covers(t) /\ LetsGo(t)
  /\ LetsEverythingGo

=============================================================================
