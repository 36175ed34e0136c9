------------------------------ MODULE Capture ------------------------------
(***************************************************************************)
(* get_process_threads (bindings.cpp:674-781): a tracer, unless --no-block *)
(* was given, then the thread ids, the thread states of the interpreter,   *)
(* the native stacks, and the destruction of it all.  Every read meets the *)
(* process as it is at that moment.  Where the interpreter is found is the *)
(* subject of InterpreterDiscovery, and what is read of a frame is that of *)
(* PyFrame; here it only matters whether there is an interpreter.          *)
(***************************************************************************)
EXTENDS ProcessTracer, PythonThreads, SequencesExt

CONSTANT Requests  \* what a user may ask for, of which process

\* stop: not --no-block; native: the stacks asked for; infer: Python before 3.11,
\* whose thread states do not name their thread; found: there is an interpreter;
\* able: the threads that may run Python.
Request ==
  [stop : BOOLEAN, native : {"off", "python", "all"}, infer : BOOLEAN, found : BOOLEAN,
   able : SUBSET Tids]

ASSUME CaptureAssumption ==
  /\ Requests \subseteq Request
  /\ \A r \in Requests : Pid \in r.able

VARIABLES
  request,      \* what was asked for
  stage,        \* stage[t]: what get_process_threads is doing
  manager_tids, \* manager_tids[t]: d_tids of the manager
  addr,         \* addr[t]: the thread state that is read next
  threads,      \* threads[t]: the thread states read, each with its thread id
  unwound,      \* unwound[t]: how many of them have their native stack
  natives,      \* natives[t]: the other threads whose native stack is in the report
  error,        \* error[t]: what get_process_threads threw, or "none"
  stopped       \* stopped[t]: no thread ran when the manager was made (auxiliary)

ownerVars ==
  <<request, stage, manager_tids, addr, threads, unwound, natives, error, stopped>>
captureVars == <<vars, pythonVars, ownerVars>>

Stage == {"trace", "head", "walk", "build", "natives", "collected", "threw", "returned"}
Reason == {"none", "tracer", "listing", "maps", "not_enough", "memory", "tid", "unwind"}

CaptureTypeOK ==
  /\ TypeOK
  /\ PythonTypeOK
  /\ request \in Requests
  /\ stage \in [Tracers -> Stage]
  /\ manager_tids \in [Tracers -> SUBSET Tids]
  /\ addr \in [Tracers -> Tids \cup {None}]
  /\ \A t \in Tracers :
       \A i \in DOMAIN threads[t] :
         /\ threads[t][i] \in [state : Tids, tid : Tids \cup {None}]
         /\ request.infer => threads[t][i].tid \in manager_tids[t] \cup {None}
  /\ unwound \in [Tracers -> Nat]
  /\ natives \in [Tracers -> SUBSET Tids]
  /\ error \in [Tracers -> Reason]
  /\ stopped \in [Tracers -> BOOLEAN]

CaptureInit ==
  /\ Init
  /\ PythonInit
  /\ request \in Requests
  /\ stage = [t \in Tracers |-> "trace"]
  /\ manager_tids = [t \in Tracers |-> {}]
  /\ addr = [t \in Tracers |-> None]
  /\ threads = [t \in Tracers |-> <<>>]
  /\ unwound = [t \in Tracers |-> 0]
  /\ natives = [t \in Tracers |-> {}]
  /\ error = [t \in Tracers |-> "none"]
  /\ stopped = [t \in Tracers |-> FALSE]

\* The memory of the process and the maps of /proc/<pid>/maps go with the main thread.
Readable == Live(Pid)

\* Every thread is stopped, and by t.
IsStopped(t) == \A u \in Tids : Live(u) => thread[u] = "stopped" /\ tracedBy[u] = t

Enter(t, from, to) ==
  /\ stage[t] = from
  /\ stage' = [stage EXCEPT ![t] = to]

\* An exception: it unwinds the block that owns the manager.
Throw(t, from, reason) ==
  /\ Enter(t, from, "threw")
  /\ error' = [error EXCEPT ![t] = reason]
  /\ UNCHANGED <<vars, pythonVars, request, manager_tids, addr, threads, unwound, natives,
                 stopped>>

-----------------------------------------------------------------------------
(* The tracer and the manager.                                             *)

\* The constructor of the tracer runs, or its destructor.
Trace(t) ==
  /\ request.stop
  /\ pc[t] # "held"
  /\ TracerNext(t)
  /\ UNCHANGED <<pythonVars, ownerVars>>

TracerThrows(t) ==
  /\ request.stop
  /\ pc[t] = "failed"
  /\ Throw(t, "trace", "tracer")

\* Mutant of CreateManager: the thread ids are always read anew.
CreateManagerRelisting(t) ==
  /\ IF request.stop THEN pc[t] = "held" ELSE Listable
  /\ Readable
  /\ request.found \/ request.native = "all"
  /\ Enter(t, "trace", IF request.found THEN "head" ELSE "natives")
  /\ \E listed \in SUBSET Listed : manager_tids' = [manager_tids EXCEPT ![t] = listed]
  /\ stopped' = [stopped EXCEPT ![t] = IsStopped(t)]
  /\ UNCHANGED <<vars, pythonVars, request, addr, threads, unwound, natives, error>>

\* The maps are parsed, and the thread ids taken from the tracer if there is one.
CreateManager(t) ==
  /\ IF request.stop THEN pc[t] = "held" ELSE Listable
  /\ Readable
  /\ request.found \/ request.native = "all"
  /\ Enter(t, "trace", IF request.found THEN "head" ELSE "natives")
  /\ manager_tids' = [manager_tids EXCEPT ![t] = IF request.stop THEN d_tids[t] ELSE Listed]
  /\ stopped' = [stopped EXCEPT ![t] = IsStopped(t)]
  /\ UNCHANGED <<vars, pythonVars, request, addr, threads, unwound, natives, error>>

CreateManagerThrows(t) ==
  /\ request.stop => pc[t] = "held"
  /\ \/ ~Readable /\ Throw(t, "trace", "maps")
     \/ ~request.stop /\ "listing" \in Faults /\ Throw(t, "trace", "listing")
     \/ /\ Readable
        /\ ~request.found /\ request.native # "all"
        /\ Throw(t, "trace", "not_enough")

-----------------------------------------------------------------------------
(* getThreadFromInterpreterState and the constructors of PyThread.         *)

ReadHead(t) ==
  /\ Readable
  /\ Enter(t, "head", "walk")
  /\ addr' = [addr EXCEPT ![t] = head]
  /\ UNCHANGED <<vars, pythonVars, request, manager_tids, threads, unwound, natives,
                 error, stopped>>

\* The id in the pthread struct, where the kernel clears it when the thread ends:
\* None is the thread id 0.
PthreadTid(u) == IF Live(u) THEN u ELSE None

\* Mutant of GetThreadTid: any number will do.
GetThreadTidUnchecked(t, u, tid_) ==
  tid_ = IF request.infer THEN PthreadTid(owner[u]) ELSE owner[u]

\* The id must be one that the manager knows, or 0.
GetThreadTid(t, u, tid_) ==
  /\ tid_ = IF request.infer THEN PthreadTid(owner[u]) ELSE owner[u]
  /\ request.infer => tid_ \in manager_tids[t] \cup {None}

\* One constructor of PyThread: the thread state, its id, and on to the next.
ReadThread(t) ==
  /\ Readable
  /\ addr[t] # None
  /\ stage[t] = "walk"
  /\ \E tid_ \in Tids \cup {None} :
       /\ GetThreadTid(t, addr[t], tid_)
       /\ threads' = [threads EXCEPT ![t] = Append(@, [state |-> addr[t], tid |-> tid_])]
  /\ addr' = [addr EXCEPT ![t] = next[addr[t]]]
  /\ UNCHANGED <<vars, pythonVars, request, stage, manager_tids, unwound, natives,
                 error, stopped>>

\* The memory of a process that died, or of a thread state that was freed, or the
\* pthread struct of a thread that ended cannot be read; or the id is not known.
ReadThrows(t) ==
  \/ \E from \in {"head", "walk"} : ~Readable /\ Throw(t, from, "memory")
  \/ /\ Readable
     /\ addr[t] # None
     /\ \/ ~Linked(addr[t]) \/ (request.infer /\ ~Live(owner[addr[t]]))
     /\ Throw(t, "walk", "memory")
  \/ /\ Readable
     /\ addr[t] # None
     /\ ~ \E tid_ \in Tids \cup {None} : GetThreadTid(t, addr[t], tid_)
     /\ Throw(t, "walk", "tid")

WalkEnds(t) ==
  /\ addr[t] = None
  /\ Enter(t, "walk", "build")
  /\ UNCHANGED <<vars, pythonVars, request, manager_tids, addr, threads, unwound, natives,
                 error, stopped>>

-----------------------------------------------------------------------------
(* The native stacks: buildPythonThread and buildNativeThread.             *)

\* The unwinder reads the registers of the thread, which its tracer must hold.
\* Nothing is unwound of a thread with the id 0.
Unwinds(t, u) == u \in {None} \cup {v \in Tids : thread[v] = "stopped" /\ tracedBy[v] = t}

BuildPythonThread(t) ==
  LET n == unwound[t] + 1
  IN /\ stage[t] = "build"
     /\ n \in DOMAIN threads[t]
     /\ request.native # "off" => Unwinds(t, threads[t][n].tid)
     /\ unwound' = [unwound EXCEPT ![t] = n]
     /\ UNCHANGED <<vars, pythonVars, request, stage, manager_tids, addr, threads, natives,
                    error, stopped>>

BuildEnds(t) ==
  /\ unwound[t] = Len(threads[t])
  /\ Enter(t, "build", IF request.native = "all" THEN "natives" ELSE "collected")
  /\ UNCHANGED <<vars, pythonVars, request, manager_tids, addr, threads, unwound, natives,
                 error, stopped>>

\* Mutant of AllTids: the ids of the Python threads stay in.
AllTidsUnfiltered(t) == manager_tids[t]

\* The threads without a thread state.
AllTids(t) == manager_tids[t] \ {threads[t][i].tid : i \in DOMAIN threads[t]}

BuildNativeThread(t, u) ==
  /\ stage[t] = "natives"
  /\ u \in AllTids(t) \ natives[t]
  /\ Unwinds(t, u)
  /\ natives' = [natives EXCEPT ![t] = @ \cup {u}]
  /\ UNCHANGED <<vars, pythonVars, request, stage, manager_tids, addr, threads, unwound,
                 error, stopped>>

NativesEnd(t) ==
  /\ natives[t] = AllTids(t)
  /\ Enter(t, "natives", "collected")
  /\ UNCHANGED <<vars, pythonVars, request, manager_tids, addr, threads, unwound, natives,
                 error, stopped>>

\* A thread that has ended, or is not stopped, has no registers to read.
UnwindThrows(t) ==
  \/ /\ unwound[t] + 1 \in DOMAIN threads[t]
     /\ request.native # "off"
     /\ ~Unwinds(t, threads[t][unwound[t] + 1].tid)
     /\ Throw(t, "build", "unwind")
  \/ /\ \E u \in AllTids(t) \ natives[t] : ~Unwinds(t, u)
     /\ Throw(t, "natives", "unwind")

-----------------------------------------------------------------------------

\* Mutant of Destroy: an exception leaves the manager behind.
DestroyUnlessThrown(t) ==
  /\ stage[t] = "collected"
  /\ request.stop
  /\ Release(t)
  /\ UNCHANGED <<pythonVars, ownerVars>>

\* manager->reset(), or the end of the block: the tracer goes with the manager.
Destroy(t) ==
  /\ stage[t] \in {"collected", "threw"}
  /\ request.stop
  /\ Release(t)
  /\ UNCHANGED <<pythonVars, ownerVars>>

\* What follows needs nothing of the process any more.
ReturnThreads(t) ==
  /\ request.stop => pc[t] = "released"
  /\ Enter(t, "collected", "returned")
  /\ UNCHANGED <<vars, pythonVars, request, manager_tids, addr, threads, unwound, natives,
                 error, stopped>>

OwnerNext(t) ==
  \/ Trace(t)
  \/ TracerThrows(t)
  \/ CreateManager(t)
  \/ CreateManagerThrows(t)
  \/ ReadHead(t)
  \/ ReadThread(t)
  \/ ReadThrows(t)
  \/ WalkEnds(t)
  \/ BuildPythonThread(t)
  \/ BuildEnds(t)
  \/ \E u \in Tids : BuildNativeThread(t, u)
  \/ NativesEnd(t)
  \/ UnwindThrows(t)
  \/ Destroy(t)
  \/ ReturnThreads(t)

Process ==
  \/ GroupNext /\ UNCHANGED pythonVars
  \/ PythonNext(request.able) /\ UNCHANGED groupVars

CaptureNext ==
  \/ Process /\ UNCHANGED <<tracerVars, ownerVars>>
  \/ \E t \in Tracers : OwnerNext(t)

\* System calls return when they can, and a signalled thread stops.
CaptureSpec ==
  /\ CaptureInit
  /\ [][CaptureNext]_captureVars
  /\ \A t \in Tracers : WF_captureVars(OwnerNext(t))
  /\ \A u \in Tids : WF_captureVars(EntersStop(u) /\ UNCHANGED <<tracerVars, pythonVars, ownerVars>>)

-----------------------------------------------------------------------------
(* What a capture promises.                                                *)

\* What a capture of a stopped process reports is the process at that moment: its
\* thread states in their order, each with its thread, and with --native-all every
\* other live thread once (docs/process.rst:38-42, bindings.cpp:711-756).
ReportIsTheProcess ==
  \A t \in Tracers :
    stage[t] = "collected" /\ pc[t] = "held" /\ stopped[t] /\ Readable =>
      /\ request.found =>
           /\ [i \in DOMAIN threads[t] |-> threads[t][i].state] = ThreadStates
           /\ \A i \in DOMAIN threads[t] :
                threads[t][i].tid = IF request.infer THEN PthreadTid(owner[threads[t][i].state])
                                    ELSE owner[threads[t][i].state]
      /\ request.native = "all" =>
           natives[t] = {u \in Tids : Live(u)} \ {threads[t][i].tid : i \in DOMAIN threads[t]}

\* A capture fails only for a reason: its tracer failed for one, the process died,
\* there is no interpreter, a thread state was freed or a thread started under the
\* eyes of a capture that did not stop it, or a thread ended whose native stack was
\* asked for (bindings.cpp:774-780).  In particular no thread of a stopped process
\* is ever taken for a stranger (pythread.cpp:259-262).
ThrowHasCause ==
  /\ FailureHasCause
  /\ \A t \in Tracers : stage[t] = "threw" =>
         CASE error[t] = "tracer" -> pc[t] = "failed"
           [] error[t] \in {"listing", "tid"} -> ~stopped[t]
           [] error[t] = "maps" -> ~Readable
           [] error[t] = "not_enough" -> ~request.found
           [] error[t] = "memory" ->
                 ~stopped[t] \/ ~Readable \/ (request.infer /\ \E u \in Tids : Dead(u))
           [] error[t] = "unwind" -> ~stopped[t] \/ \E u \in Tids : Dead(u)

\* Every capture ends, and lets go of the process, whatever happens on the way.
CaptureEnds ==
  \A t \in Tracers :
    <>(stage[t] \in {"returned", "threw"} /\ (request.stop => Finished(t)))
=============================================================================
