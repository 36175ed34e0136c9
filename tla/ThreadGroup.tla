---------------------------- MODULE ThreadGroup ----------------------------
(***************************************************************************)
(* The process pystack attaches to, as Linux shows it through ptrace(2),   *)
(* waitpid(2) and /proc/<pid>/task: external to the repository, modelled   *)
(* from how process.cpp uses it.  A thread id is used once: the kernel     *)
(* hands an id out again only after its counter has wrapped around.        *)
(***************************************************************************)
EXTENDS Integers, FiniteSets

CONSTANTS
  Tids,        \* the thread ids the process may ever use: bounds thread creation
  Pid,         \* the thread id of the main thread
  Tracers,     \* the calls that trace the process, each in a thread of its own
  NoTracer,    \* what tracedBy says of a thread nobody traces
  Denied,      \* the tracers that ptrace's permission check refuses
  Interrupted, \* the tracers whose waitpid may fail: EINTR, ECHILD on old kernels
  Faults       \* the optional behaviours of the environment a model switches on

FaultKinds == {"listing", "main_exits", "killed", "signal"}

ASSUME ThreadGroupAssumption ==
  /\ Pid \in Tids
  /\ NoTracer \notin Tracers
  /\ Denied \subseteq Tracers
  /\ Interrupted \subseteq Tracers
  /\ Faults \subseteq FaultKinds

VARIABLES
  thread,       \* thread[u]: the life of thread u
  tracedBy,     \* tracedBy[u]: the tracer that holds thread u
  stopPending,  \* the threads whose tracer's SIGSTOP is still queued
  jobStopped    \* a queued SIGSTOP has put the whole process to sleep

groupVars == <<thread, tracedBy, stopPending, jobStopped>>

ThreadState == {"unborn", "running", "stopped", "zombie", "gone"}

GroupTypeOK ==
  /\ thread \in [Tids -> ThreadState]
  /\ tracedBy \in [Tids -> Tracers \cup {NoTracer}]
  /\ stopPending \subseteq Tids
  /\ jobStopped \in BOOLEAN

Live(u) == thread[u] \in {"running", "stopped"}
Dead(u) == thread[u] \in {"zombie", "gone"}
Runs(u) == thread[u] = "running" /\ ~jobStopped

\* What readdir finds in /proc/<pid>/task, in one snapshot.
Listed == {u \in Tids : Live(u) \/ thread[u] = "zombie"}

\* The directory itself is there until the process has been reaped.
Listable == thread[Pid] # "gone"

\* The main thread and any set of others are running when the capture starts.
GroupInit ==
  /\ \E born \in SUBSET Tids :
       /\ Pid \in born
       /\ thread = [u \in Tids |-> IF u \in born THEN "running" ELSE "unborn"]
  /\ tracedBy = [u \in Tids |-> NoTracer]
  /\ stopPending = {}
  /\ jobStopped = FALSE

-----------------------------------------------------------------------------
(* What the threads of the process do on their own.                        *)

Spawn(u) ==
  /\ \E parent \in Tids : Runs(parent)
  /\ thread[u] = "unborn"
  /\ thread' = [thread EXCEPT ![u] = "running"]
  /\ UNCHANGED <<tracedBy, stopPending, jobStopped>>

\* A thread that ends while it is traced stays a zombie until its tracer waits.
Exit(u) ==
  /\ u # Pid
  /\ Runs(u)
  /\ thread' = [thread EXCEPT ![u] = IF tracedBy[u] = NoTracer THEN "gone" ELSE "zombie"]
  /\ stopPending' = stopPending \ {u}
  /\ UNCHANGED <<tracedBy, jobStopped>>

\* The main thread may end (pthread_exit) while other threads carry on.
MainExits ==
  /\ "main_exits" \in Faults
  /\ Runs(Pid)
  /\ \E u \in Tids \ {Pid} : Live(u)
  /\ thread' = [thread EXCEPT ![Pid] = "zombie"]
  /\ stopPending' = stopPending \ {Pid}
  /\ UNCHANGED <<tracedBy, jobStopped>>

\* exit_group by one of the threads, or SIGKILL by anyone.
Killed ==
  /\ "killed" \in Faults
  /\ \E u \in Tids : Live(u)
  /\ thread' = [u \in Tids |->
       IF ~Live(u) THEN thread[u]
       ELSE IF u = Pid \/ tracedBy[u] # NoTracer THEN "zombie" ELSE "gone"]
  /\ stopPending' = {}
  /\ UNCHANGED <<tracedBy, jobStopped>>

\* The parent reaps the process when its last thread is over and untraced.
Reaped ==
  /\ thread[Pid] = "zombie"
  /\ tracedBy[Pid] = NoTracer
  /\ \A u \in Tids \ {Pid} : thread[u] \in {"unborn", "gone"}
  /\ thread' = [thread EXCEPT ![Pid] = "gone"]
  /\ UNCHANGED <<tracedBy, stopPending, jobStopped>>

\* A traced thread enters ptrace-stop: for its tracer's SIGSTOP, or for another
\* signal that was ahead of it in the thread's queue.
EntersStop(u) ==
  /\ thread[u] = "running"
  /\ tracedBy[u] # NoTracer
  /\ thread' = [thread EXCEPT ![u] = "stopped"]
  /\ \/ stopPending' = stopPending \ {u}
     \/ "signal" \in Faults /\ stopPending' = stopPending
  /\ UNCHANGED <<tracedBy, jobStopped>>

GroupNext ==
  \/ \E u \in Tids : Spawn(u) \/ Exit(u) \/ EntersStop(u)
  \/ MainExits
  \/ Killed
  \/ Reaped

-----------------------------------------------------------------------------
(* The system calls of a tracer.                                           *)

\* The errno with which PTRACE_ATTACH of thread u by tracer t fails.
AttachError(t, u) ==
  IF thread[u] \in {"gone", "unborn"} THEN "ESRCH"
  ELSE IF t \in Denied \/ tracedBy[u] # NoTracer \/ thread[u] = "zombie" THEN "EPERM"
  ELSE "none"

PtraceAttach(t, u) ==
  /\ AttachError(t, u) = "none"
  /\ tracedBy' = [tracedBy EXCEPT ![u] = t]
  /\ stopPending' = stopPending \cup {u}
  /\ UNCHANGED <<thread, jobStopped>>

\* waitpid reports an exit once, and that of the main thread only when it is
\* the last thread of the process.
Reportable(u) ==
  /\ thread[u] = "zombie"
  /\ u = Pid => \A v \in Tids \ {Pid} : thread[v] \in {"unborn", "gone"}

\* The report releases the thread; the main thread is left for its parent.
ReportExit(u) ==
  /\ Reportable(u)
  /\ thread' = [thread EXCEPT ![u] = IF u = Pid THEN "zombie" ELSE "gone"]
  /\ tracedBy' = [tracedBy EXCEPT ![u] = NoTracer]
  /\ UNCHANGED <<stopPending, jobStopped>>

\* PTRACE_DETACH fails (ESRCH) unless the caller traces the thread and the
\* thread is in ptrace-stop.  A SIGSTOP still queued then stops the process.
PtraceDetach(t, u) ==
  IF tracedBy[u] = t /\ thread[u] = "stopped"
    THEN /\ thread' = [thread EXCEPT ![u] = "running"]
         /\ tracedBy' = [tracedBy EXCEPT ![u] = NoTracer]
         /\ jobStopped' = (jobStopped \/ u \in stopPending)
         /\ stopPending' = stopPending \ {u}
    ELSE UNCHANGED groupVars
=============================================================================
