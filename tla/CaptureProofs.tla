---------------------------- MODULE CaptureProofs ----------------------------
(***************************************************************************)
(* Proofs about Capture: a capture uses its tracer as ProcessTracer says,  *)
(* so that what is proved of tracers holds of captures, for every process, *)
(* every set of captures and everything a user may ask for.                *)
(***************************************************************************)
EXTENDS Capture, ProcessTracerProofs, FiniteSetTheorems, WellFoundedInduction

(***************************************************************************)
(* A capture implements its tracer.                                        *)
(***************************************************************************)
\* What a capture does besides its tracer leaves the tracer and the process alone.
LEMMA OwnerStep ==
  ASSUME NEW t \in Tracers, OwnerNext(t)
  PROVE  TracerNext(t) \/ UNCHANGED vars
<1>1. CASE Trace(t)
  BY <1>1 DEF Trace
<1>2. CASE Destroy(t)
  BY <1>2 DEF Destroy, TracerNext
<1>3. CASE \/ TracerThrows(t) \/ CreateManager(t) \/ CreateManagerThrows(t) \/ ReadHead(t)
           \/ ReadThread(t) \/ ReadThrows(t) \/ WalkEnds(t)
  BY <1>3 DEF TracerThrows, CreateManager, CreateManagerThrows, ReadHead, ReadThread,
              ReadThrows, WalkEnds, Throw
<1>4. CASE \/ BuildPythonThread(t) \/ BuildEnds(t) \/ NativesEnd(t) \/ UnwindThrows(t)
           \/ ReturnThreads(t) \/ \E u \in Tids : BuildNativeThread(t, u)
  BY <1>4 DEF BuildPythonThread, BuildEnds, NativesEnd, UnwindThrows, ReturnThreads,
              BuildNativeThread, Throw
<1> QED
  BY <1>1, <1>2, <1>3, <1>4 DEF OwnerNext

\* Every step of a capture is one of its tracer, one of the process, or neither.
LEMMA CaptureStep == [CaptureNext]_captureVars => [Next]_vars
<1>1. ASSUME Process, UNCHANGED <<tracerVars, ownerVars>> PROVE [Next]_vars
  BY <1>1 DEF Process, Next, Environment, vars
<1>2. ASSUME NEW t \in Tracers, OwnerNext(t) PROVE [Next]_vars
  BY <1>2, OwnerStep DEF Next
<1>3. ASSUME UNCHANGED captureVars PROVE [Next]_vars
  BY <1>3 DEF captureVars
<1> QED
  BY <1>1, <1>2, <1>3 DEF CaptureNext

\* A capture, its stages and its exceptions included, implements the tracer alone.
THEOREM ImplementsTracer == CaptureSpec => Spec
<1>1. CaptureInit => Init
  BY DEF CaptureInit
<1> QED
  BY <1>1, CaptureStep, PTL DEF CaptureSpec, Spec

\* No thread that is traced is ever unknown to detachFromProcess, whatever a capture
\* meets on its way (process.cpp:192).
THEOREM CaptureRecorded == CaptureSpec => []AttachedAreRecorded
  BY ImplementsTracer, Recorded, PTL

\* While a capture reads a process that it stopped, nothing of the process runs, even
\* with other captures under way (process.cpp:157-206).
THEOREM CaptureExclusion ==
  Faults \subseteq QuietFaults => (CaptureSpec => []NothingRunsWhileHeld)
<1> SUFFICES ASSUME Faults \subseteq QuietFaults
             PROVE  CaptureSpec => []NothingRunsWhileHeld
  OBVIOUS
<1> QED
  BY ImplementsTracer, Exclusion, PTL

(***************************************************************************)
(* Type correctness.                                                       *)
(***************************************************************************)
\* The inductive invariant: besides the types, thread states are read only once there
\* is a manager, so that its thread ids are those that the ids were compared with.
CaptureTypes ==
  /\ CaptureTypeOK
  /\ threads \in [Tracers -> Seq([state : Tids, tid : Tids \cup {None}])]
  /\ \A t \in Tracers : stage[t] = "trace" => threads[t] = <<>>

\* A capture starts well typed.
LEMMA CaptureInitTypes == CaptureInit => CaptureTypes
<1> SUFFICES ASSUME CaptureInit PROVE CaptureTypes
  OBVIOUS
<1>1. TypeOK
  BY InitType DEF CaptureInit
<1>2. PythonTypeOK
  BY ThreadGroupAssumption DEF CaptureInit, PythonInit, PythonTypeOK
<1> QED
  BY <1>1, <1>2 DEF CaptureInit, CaptureTypes, CaptureTypeOK, Stage, Reason

\* The types that the tracer and CPython are responsible for.
LEMMA OthersTypes == CaptureTypes /\ [CaptureNext]_captureVars => TypeOK' /\ PythonTypeOK'
<1> SUFFICES ASSUME CaptureTypes, [CaptureNext]_captureVars PROVE TypeOK' /\ PythonTypeOK'
  OBVIOUS
<1>1. TypeOK'
  <2>1. TypeOK /\ [Next]_vars
    BY CaptureStep DEF CaptureTypes, CaptureTypeOK
  <2>2. CASE Environment
    BY <2>1, <2>2, EnvironmentType
  <2>3. ASSUME NEW t \in Tracers, TracerNext(t) PROVE TypeOK'
    BY <2>1, <2>3, TracerType
  <2>4. CASE UNCHANGED vars
    BY <2>1, <2>4 DEF vars, groupVars, tracerVars, TypeOK, GroupTypeOK
  <2> QED
    BY <2>1, <2>2, <2>3, <2>4 DEF Next
<1>2. PythonTypeOK'
  <2>1. ASSUME PythonNext(request.able) PROVE PythonTypeOK'
    <3>1. PythonTypeOK /\ request.able \subseteq Tids
      BY CaptureAssumption DEF CaptureTypes, CaptureTypeOK, Request
    <3>2. ASSUME NEW maker \in Tids, NEW u \in Tids, LinkState(maker, u) PROVE PythonTypeOK'
      BY <3>1, <3>2 DEF PythonTypeOK, LinkState
    <3>3. ASSUME NEW u \in Tids, BindState(u) PROVE PythonTypeOK'
      BY <3>1, <3>3 DEF PythonTypeOK, BindState
    <3>4. ASSUME NEW u \in Tids, UnlinkState(u) PROVE PythonTypeOK'
      BY <3>1, <3>4 DEF PythonTypeOK, UnlinkState
    <3> QED
      BY <2>1, <3>1, <3>2, <3>3, <3>4 DEF PythonNext
  <2>2. ASSUME UNCHANGED pythonVars PROVE PythonTypeOK'
    BY <2>2 DEF CaptureTypes, CaptureTypeOK, PythonTypeOK, pythonVars
  <2>3. ASSUME NEW t \in Tracers, OwnerNext(t) PROVE UNCHANGED pythonVars
    BY <2>3 DEF OwnerNext, Trace, Destroy, TracerThrows, CreateManager, CreateManagerThrows,
                ReadHead, ReadThread, ReadThrows, WalkEnds, BuildPythonThread, BuildEnds,
                NativesEnd, UnwindThrows, ReturnThreads, BuildNativeThread, Throw
  <2> QED
    BY <2>1, <2>2, <2>3 DEF CaptureNext, Process, captureVars
<1> QED
  BY <1>1, <1>2

\* What a capture keeps for itself.
OwnerTypes ==
  /\ request \in Requests
  /\ stage \in [Tracers -> Stage]
  /\ manager_tids \in [Tracers -> SUBSET Tids]
  /\ addr \in [Tracers -> Tids \cup {None}]
  /\ \A t \in Tracers :
       \A i \in DOMAIN threads[t] :
         /\ threads[t][i] \in [state : Tids, tid : Tids \cup {None}]
         /\ request.infer => threads[t][i].tid \in manager_tids[t] \cup {None}
  /\ unwound \in [Tracers -> Nat]
  /\ natives \in [Tracers -> SUBSET Tids]
  /\ error \in [Tracers -> Reason]
  /\ stopped \in [Tracers -> BOOLEAN]
  /\ threads \in [Tracers -> Seq([state : Tids, tid : Tids \cup {None}])]
  /\ \A t \in Tracers : stage[t] = "trace" => threads[t] = <<>>

LEMMA SplitTypes == CaptureTypes <=> TypeOK /\ PythonTypeOK /\ OwnerTypes
  BY DEF CaptureTypes, CaptureTypeOK, OwnerTypes

\* An exception changes nothing but the stage and the error.
LEMMA ThrowTypes ==
  ASSUME OwnerTypes, NEW t \in Tracers, NEW from \in Stage, NEW reason \in Reason,
         Throw(t, from, reason)
  PROVE  OwnerTypes'
  BY DEF OwnerTypes, Throw, Enter, Stage

\* Every step of a capture keeps what it keeps for itself in its type.
LEMMA OwnerStepTypes ==
  ASSUME CaptureTypes, NEW t \in Tracers, OwnerNext(t)
  PROVE  OwnerTypes'
<1>0. OwnerTypes /\ TypeOK /\ PythonTypeOK
  BY SplitTypes
<1> USE DEF OwnerTypes, Enter, Stage
<1>1. CASE Trace(t) \/ Destroy(t)
  BY <1>0, <1>1 DEF Trace, Destroy, ownerVars
<1>2. CASE TracerThrows(t) \/ CreateManagerThrows(t) \/ ReadThrows(t) \/ UnwindThrows(t)
  BY <1>0, <1>2, ThrowTypes DEF TracerThrows, CreateManagerThrows, ReadThrows, UnwindThrows, Reason
<1>3. CASE CreateManager(t)
  <2>1. manager_tids' \in [Tracers -> SUBSET Tids]
    BY <1>0, <1>3 DEF CreateManager, TypeOK, Listed
  <2>2. stopped' \in [Tracers -> BOOLEAN]
    BY <1>0, <1>3 DEF CreateManager, IsStopped
  <2>3. threads' = threads /\ request' = request /\ threads[t] = <<>>
    BY <1>0, <1>3 DEF CreateManager
  <2>4. \A s \in Tracers : s # t => manager_tids'[s] = manager_tids[s] /\ stage'[s] = stage[s]
    BY <1>0, <1>3 DEF CreateManager
  <2>5. \A s \in Tracers : \A i \in DOMAIN threads'[s] :
          /\ threads'[s][i] \in [state : Tids, tid : Tids \cup {None}]
          /\ request'.infer => threads'[s][i].tid \in manager_tids'[s] \cup {None}
    <3> SUFFICES ASSUME NEW s \in Tracers, NEW i \in DOMAIN threads[s]
                 PROVE  /\ threads[s][i] \in [state : Tids, tid : Tids \cup {None}]
                        /\ request.infer => threads[s][i].tid \in manager_tids'[s] \cup {None}
      BY <2>3
    <3>1. s # t
      <4>1. DOMAIN <<>> = {}
        OBVIOUS
      <4> QED
        BY <2>3, <4>1
    <3> QED
      BY <1>0, <2>4, <3>1
  <2>6. \A s \in Tracers : stage'[s] = "trace" => threads'[s] = <<>>
    BY <1>0, <2>3, <2>4
  <2>7. stage' \in [Tracers -> Stage]
    BY <1>0, <1>3 DEF CreateManager
  <2> QED
    BY <1>0, <1>3, <2>1, <2>2, <2>3, <2>5, <2>6, <2>7 DEF CreateManager
<1>4. CASE ReadHead(t)
  BY <1>0, <1>4 DEF ReadHead, PythonTypeOK
<1>5. CASE ReadThread(t)
  <2>1. PICK tid_ \in Tids \cup {None} :
          /\ GetThreadTid(t, addr[t], tid_)
          /\ threads' = [threads EXCEPT ![t] = Append(@, [state |-> addr[t], tid |-> tid_])]
    BY <1>5 DEF ReadThread
  <2> DEFINE read == [state |-> addr[t], tid |-> tid_]
  <2>2. read \in [state : Tids, tid : Tids \cup {None}]
    BY <1>0, <1>5 DEF ReadThread
  <2>3. request.infer => tid_ \in manager_tids[t] \cup {None}
    BY <2>1 DEF GetThreadTid
  <2>4. threads' \in [Tracers -> Seq([state : Tids, tid : Tids \cup {None}])]
    <3> DEFINE Read == [state : Tids, tid : Tids \cup {None}]
    <3>1. read \in Read /\ threads \in [Tracers -> Seq(Read)]
      BY <1>0, <2>2
    <3>2. threads' = [threads EXCEPT ![t] = Append(@, read)]
      BY <2>1
    <3> HIDE DEF Read, read
    <3>3. Append(threads[t], read) \in Seq(Read)
      BY <3>1
    <3>4. threads' \in [Tracers -> Seq(Read)]
      BY <3>1, <3>2, <3>3
    <3> QED
      BY <3>4 DEF Read
  <2>5. \A s \in Tracers : \A i \in DOMAIN threads'[s] :
          threads'[s][i] = read \/ (i \in DOMAIN threads[s] /\ threads'[s][i] = threads[s][i])
    BY <1>0, <2>1
  <2>6. \A s \in Tracers : \A i \in DOMAIN threads'[s] :
          /\ threads'[s][i] \in [state : Tids, tid : Tids \cup {None}]
          /\ request.infer => threads'[s][i].tid \in manager_tids[s] \cup {None}
    <3> SUFFICES ASSUME NEW s \in Tracers, NEW i \in DOMAIN threads'[s]
                 PROVE  /\ threads'[s][i] \in [state : Tids, tid : Tids \cup {None}]
                        /\ request.infer => threads'[s][i].tid \in manager_tids[s] \cup {None}
      OBVIOUS
    <3>1. CASE s = t
      BY <1>0, <2>1, <2>2, <2>3, <3>1
    <3>2. CASE s # t
      BY <1>0, <2>1, <3>2
    <3> QED
      BY <3>1, <3>2
  <2>7. addr' \in [Tracers -> Tids \cup {None}]
    BY <1>0, <1>5 DEF ReadThread, PythonTypeOK
  <2> QED
    BY <1>0, <1>5, <2>1, <2>4, <2>6, <2>7 DEF ReadThread
<1>6. CASE WalkEnds(t) \/ BuildEnds(t) \/ NativesEnd(t) \/ ReturnThreads(t)
  BY <1>0, <1>6 DEF WalkEnds, BuildEnds, NativesEnd, ReturnThreads
<1>7. CASE BuildPythonThread(t)
  <2>1. unwound[t] + 1 \in Nat
    BY <1>0
  <2>2. unwound' = [unwound EXCEPT ![t] = unwound[t] + 1]
    BY <1>7 DEF BuildPythonThread
  <2>3. unwound' \in [Tracers -> Nat]
    BY <1>0, <2>1, <2>2
  <2>4. UNCHANGED <<request, stage, manager_tids, addr, threads, natives, error, stopped>>
    BY <1>7 DEF BuildPythonThread
  <2> QED
    BY <1>0, <2>3, <2>4
<1>8. ASSUME NEW u \in Tids, BuildNativeThread(t, u) PROVE OwnerTypes'
  BY <1>0, <1>8 DEF BuildNativeThread
<1> QED
  BY <1>1, <1>2, <1>3, <1>4, <1>5, <1>6, <1>7, <1>8 DEF OwnerNext

\* Every step keeps the types.
LEMMA CaptureTypesStay == CaptureTypes /\ [CaptureNext]_captureVars => CaptureTypes'
<1> SUFFICES ASSUME CaptureTypes, [CaptureNext]_captureVars PROVE CaptureTypes'
  OBVIOUS
<1>1. TypeOK' /\ PythonTypeOK'
  BY OthersTypes
<1>2. ASSUME UNCHANGED ownerVars PROVE OwnerTypes'
  BY <1>2, SplitTypes DEF OwnerTypes, ownerVars
<1>3. OwnerTypes'
  BY <1>2, OwnerStepTypes DEF CaptureNext, captureVars
<1> QED
  BY <1>1, <1>3 DEF CaptureTypes, CaptureTypeOK, OwnerTypes

\* Whatever goes wrong, every variable of a capture keeps its type: in particular,
\* before 3.11, each thread id reported is one of the manager's, or 0
\* (pythread.cpp:256-262).
THEOREM CaptureTypeCorrect == CaptureSpec => []CaptureTypeOK
<1>1. CaptureTypes => CaptureTypeOK
  BY DEF CaptureTypes
<1> QED
  BY <1>1, CaptureInitTypes, CaptureTypesStay, PTL DEF CaptureSpec

(***************************************************************************)
(* CPython's list of thread states.                                        *)
(***************************************************************************)
\* A set of naturals has a least element.
LEMMA LeastNatural ==
  ASSUME NEW T, T \subseteq Nat, T # {}
  PROVE  \E m \in T : \A n \in T : m <= n
<1>1. PICK m \in T : \A n \in T : <<n, m>> \notin OpToRel(<, Nat)
  BY NatLessThanWellFounded, WFMin
<1>2. \A n \in T : ~(n < m)
  BY <1>1 DEF OpToRel
<1> QED
  BY <1>2

\* A list that ends has no thread state twice: what follows a state would follow it
\* again, up to the last one, which nothing follows.
LEMMA ListIsInjective ==
  ASSUME NEW s \in Seq(Tids), IsThreadList(s)
  PROVE  \A i, j \in 1 .. Len(s) : s[i] = s[j] => i = j
<1> DEFINE Twice == {k \in Nat : \E i, j \in 1 .. Len(s) :
                                   i < j /\ s[i] = s[j] /\ k = Len(s) - j}
<1>1. \A i \in 1 .. Len(s) : s[i] \in Tids /\ next[s[i]] = IF i = Len(s) THEN None ELSE s[i + 1]
  BY DEF IsThreadList
<1>2. Twice = {}
  <2> SUFFICES ASSUME Twice # {} PROVE FALSE
    OBVIOUS
  <2>1. PICK k \in Twice : \A l \in Twice : k <= l
    <3>1. Twice \subseteq Nat
      OBVIOUS
    <3> HIDE DEF Twice
    <3> QED
      BY <3>1, LeastNatural
  <2>2. PICK i \in 1 .. Len(s), j \in 1 .. Len(s) : i < j /\ s[i] = s[j] /\ k = Len(s) - j
    BY <2>1
  <2>3. j # Len(s)
    BY <1>1, <2>2, PythonAssumption
  <2>4. /\ i + 1 \in 1 .. Len(s) /\ j + 1 \in 1 .. Len(s) /\ i + 1 < j + 1
        /\ s[i + 1] = s[j + 1]
    BY <1>1, <2>2, <2>3, SMTT(40)
  <2>5. Len(s) - (j + 1) \in Nat /\ Len(s) - (j + 1) < k
    BY <2>2, <2>3
  <2>6. Len(s) - (j + 1) \in Twice
    BY <2>4, <2>5
  <2>7. k <= Len(s) - (j + 1) /\ k \in Nat
    <3>1. k \in Nat
      OBVIOUS
    <3> HIDE DEF Twice
    <3> QED
      BY <2>1, <2>6, <3>1
  <2> QED
    BY <2>5, <2>7
<1>3. ASSUME NEW i \in 1 .. Len(s), NEW j \in 1 .. Len(s), s[i] = s[j], i < j PROVE FALSE
  <2>1. Len(s) - j \in Nat
    OBVIOUS
  <2>2. Len(s) - j \in Twice
    BY <1>3, <2>1
  <2> QED
    BY <1>2, <2>2
<1> QED
  BY <1>3

\* There is only one list: two that agree up to some place agree on the next.
LEMMA ListIsUnique ==
  ASSUME NEW s \in Seq(Tids), NEW r \in Seq(Tids), IsThreadList(s), IsThreadList(r)
  PROVE  s = r
<1> DEFINE Differ == {i \in Nat \ {0} : /\ i <= Len(s) + 1 /\ i <= Len(r) + 1
                                        /\ \/ i = Len(s) + 1 /\ i <= Len(r)
                                           \/ i = Len(r) + 1 /\ i <= Len(s)
                                           \/ i <= Len(s) /\ i <= Len(r) /\ s[i] # r[i]}
<1>1. /\ \A i \in 1 .. Len(s) :
           s[i] \in Tids /\ next[s[i]] = IF i = Len(s) THEN None ELSE s[i + 1]
      /\ \A i \in 1 .. Len(r) :
           r[i] \in Tids /\ next[r[i]] = IF i = Len(r) THEN None ELSE r[i + 1]
      /\ head = IF s = <<>> THEN None ELSE s[1]
      /\ head = IF r = <<>> THEN None ELSE r[1]
  BY DEF IsThreadList
<1>2. Differ = {}
  <2> SUFFICES ASSUME Differ # {} PROVE FALSE
    OBVIOUS
  <2>1. PICK i \in Differ : \A j \in Differ : i <= j
    <3>1. Differ \subseteq Nat
      OBVIOUS
    <3> HIDE DEF Differ
    <3> QED
      BY <3>1, LeastNatural
  <2>2. i # 1
    BY <1>1, <2>1, PythonAssumption
  <2>3. i - 1 \in 1 .. Len(s) /\ i - 1 \in 1 .. Len(r) /\ s[i - 1] = r[i - 1]
    <3>1. i - 1 \in Nat \ {0} /\ i - 1 \notin Differ
      BY <2>1, <2>2, SMTT(40)
    <3> QED
      BY <2>1, <3>1
  <2> QED
    BY <1>1, <2>1, <2>3, PythonAssumption, SMTT(40)
<1>3. Len(s) = Len(r)
  <2>1. CASE Len(s) < Len(r)
    <3>1. Len(s) + 1 \in Differ
      BY <2>1
    <3> QED
      BY <1>2, <3>1
  <2>2. CASE Len(r) < Len(s)
    <3>1. Len(r) + 1 \in Differ
      BY <2>2
    <3> QED
      BY <1>2, <3>1
  <2> QED
    BY <2>1, <2>2
<1>4. \A i \in 1 .. Len(s) : s[i] = r[i]
  BY <1>2, <1>3
<1> QED
  BY <1>3, <1>4

\* The list, if there is one, is what ThreadStates stands for.
LEMMA ListIsThreadStates ==
  ASSUME NEW s \in Seq(Tids), IsThreadList(s)
  PROVE  ThreadStates = s
<1> DEFINE Lists == BoundedSeq(Tids, Cardinality(Tids))
<1>1. IsFiniteSet(Tids) /\ Cardinality(Tids) \in Nat
  BY PythonAssumption, FS_CardinalityType
<1>2. Len(s) <= Cardinality(Tids)
  <2>1. s \in Injection(1 .. Len(s), Tids)
    BY ListIsInjective DEF Injection, IsInjective
  <2>2. Cardinality(1 .. Len(s)) <= Cardinality(Tids)
    BY <1>1, <2>1, FS_Injection
  <2>3. Cardinality(1 .. Len(s)) = Len(s)
    <3>1. 1 \in Int /\ Len(s) \in Int /\ Len(s) >= 0
      OBVIOUS
    <3>2. Cardinality(1 .. Len(s)) = IF 1 > Len(s) THEN 0 ELSE Len(s) - 1 + 1
      BY <3>1, FS_Interval
    <3> QED
      BY <3>1, <3>2
  <2> QED
    BY <2>2, <2>3
<1>3. s \in Lists
  BY <1>1, <1>2 DEF BoundedSeq, SeqOf
<1>4. ThreadStates \in Lists /\ IsThreadList(ThreadStates)
  BY <1>3 DEF ThreadStates
<1>5. ThreadStates \in Seq(Tids)
  BY <1>1, <1>4 DEF BoundedSeq, SeqOf
<1> QED
  BY <1>4, <1>5, ListIsUnique

(***************************************************************************)
(* What is read of a stopped process.                                      *)
(***************************************************************************)
\* CPython's list is sound, and every thread state in it says of which thread it is.
ListIsSound ==
  \E s \in Seq(Tids) : IsThreadList(s) /\ \A i \in DOMAIN s : owner[s[i]] # None

\* Only threads that have started have a thread state, are known to a manager, or are
\* reported.
KnownWereBorn ==
  /\ thread[Pid] # "unborn"
  /\ \A u \in Tids : owner[u] # None => thread[owner[u]] # "unborn"
  /\ \A t \in Tracers :
       /\ \A u \in manager_tids[t] : thread[u] # "unborn"
       /\ \A i \in DOMAIN threads[t] :
            threads[t][i].tid # None => thread[threads[t][i].tid] # "unborn"

\* A capture reads only while its tracer, if it has one, is held.
Ordered(t) ==
  /\ ~request.stop => pc[t] = "list" /\ d_tids[t] = {}
  /\ request.stop /\ stage[t] \in {"head", "walk", "build", "natives"} => pc[t] = "held"
  /\ stage[t] = "trace" => ~stopped[t]
  /\ stage[t] = "head" => threads[t] = <<>>
  /\ stage[t] \in {"trace", "head", "walk", "build"} => natives[t] = {}
  /\ stopped[t] => request.stop
  /\ request.stop /\ stage[t] \in {"collected", "threw", "returned"} =>
       \/ pc[t] \in {"held", "failed", "released"}
       \/ pc[t] = "detach" /\ resume[t] = "released"
  /\ stage[t] = "collected" /\ request.native = "all" => natives[t] = AllTids(t)

\* The thread id that pystack finds in the thread state of u.
TidOf(u) == IF request.infer THEN PthreadTid(owner[u]) ELSE owner[u]

\* What was read so far is the beginning of the list, as it still is, and what is read
\* next is the thread state after it.
Reads(t) ==
  /\ IsStopped(t)
  /\ manager_tids[t] = d_tids[t]
  /\ Len(threads[t]) <= Len(ThreadStates)
  /\ \A i \in DOMAIN threads[t] :
       /\ threads[t][i].state = ThreadStates[i]
       /\ Readable => threads[t][i].tid = TidOf(ThreadStates[i])
  /\ stage[t] = "walk" =>
       addr[t] = IF Len(threads[t]) = Len(ThreadStates) THEN None
                 ELSE ThreadStates[Len(threads[t]) + 1]
  /\ stage[t] \in {"build", "natives", "collected"} /\ request.found =>
       Len(threads[t]) = Len(ThreadStates)
  /\ Readable => \A u \in natives[t] : Live(u)

\* That is so of a process that was stopped, as long as it is held.
Faithful(t) == stopped[t] /\ pc[t] = "held" => Reads(t)

\* What was thrown, and why, as in ThrowHasCause.
Explained(t) ==
  stage[t] = "threw" =>
    /\ error[t] # "none"
    /\ error[t] = "tracer" => pc[t] = "failed"
    /\ error[t] \in {"listing", "tid"} => ~stopped[t]
    /\ error[t] = "maps" => ~Readable
    /\ error[t] = "not_enough" => ~request.found
    /\ error[t] = "memory" =>
         ~stopped[t] \/ ~Readable \/ (request.infer /\ \E u \in Tids : Dead(u))
    /\ error[t] = "unwind" => ~stopped[t] \/ \E u \in Tids : Dead(u)

CaptureInv ==
  /\ ListIsSound
  /\ KnownWereBorn
  /\ \A t \in Tracers : Ordered(t)
  /\ \A t \in Tracers : Faithful(t)
  /\ \A t \in Tracers : Explained(t)

\* A new thread state comes first.
LEMMA LinkKeepsList ==
  ASSUME PythonTypeOK, ListIsSound, NEW maker \in Tids, NEW u \in Tids, LinkState(maker, u)
  PROVE  ListIsSound'
<1>1. PICK s \in Seq(Tids) : IsThreadList(s) /\ \A i \in DOMAIN s : owner[s[i]] # None
  BY DEF ListIsSound
<1>2. PICK r \in Seq(Tids) :
        Len(r) = Len(s) + 1 /\ \A i \in 1 .. Len(r) : r[i] = IF i = 1 THEN u ELSE s[i - 1]
  <2> DEFINE q == [i \in 1 .. Len(s) + 1 |-> IF i = 1 THEN u ELSE s[i - 1]]
  <2>1. q \in Seq(Tids) /\ Len(q) = Len(s) + 1
    OBVIOUS
  <2>2. \A i \in 1 .. Len(q) : q[i] = IF i = 1 THEN u ELSE s[i - 1]
    BY <2>1
  <2> HIDE DEF q
  <2> QED
    BY <2>1, <2>2
<1>3. /\ owner[u] = None /\ head' = u
      /\ \A v \in Tids : next'[v] = IF v = u THEN head ELSE next[v]
      /\ \A v \in Tids : owner'[v] = IF v = u THEN maker ELSE owner[v]
  BY DEF LinkState, PythonTypeOK
<1>4. /\ head = IF s = <<>> THEN None ELSE s[1]
      /\ \A i \in 1 .. Len(s) : /\ s[i] \in Tids /\ s[i] # u /\ owner[s[i]] # None
                              /\ next[s[i]] = IF i = Len(s) THEN None ELSE s[i + 1]
  BY <1>1, <1>3 DEF IsThreadList
<1>5. r # <<>> /\ head' = r[1]
  BY <1>2, <1>3
<1>6. \A i \in 1 .. Len(r) : next'[r[i]] = IF i = Len(r) THEN None ELSE r[i + 1]
  <2> TAKE i \in 1 .. Len(r)
  <2>1. CASE i = 1
    BY <1>2, <1>3, <1>4, <2>1
  <2>2. CASE i # 1
    BY <1>2, <1>3, <1>4, <2>2
  <2> QED
    BY <2>1, <2>2
<1>7. \A i \in 1 .. Len(r) : owner'[r[i]] # None
  BY <1>2, <1>3, <1>4, PythonAssumption
<1>8. IsThreadList(r)'
  BY <1>2, <1>5, <1>6 DEF IsThreadList
<1> QED
  BY <1>2, <1>7, <1>8 DEF ListIsSound

\* A thread state that is freed is taken out of its place.
LEMMA UnlinkKeepsList ==
  ASSUME PythonTypeOK, ListIsSound, NEW u \in Tids, UnlinkState(u)
  PROVE  ListIsSound'
<1>1. PICK s \in Seq(Tids) : IsThreadList(s) /\ \A i \in DOMAIN s : owner[s[i]] # None
  BY DEF ListIsSound
<1>2. ThreadStates = s
  BY <1>1, ListIsThreadStates
<1>3. /\ head = IF s = <<>> THEN None ELSE s[1]
      /\ \A i \in 1 .. Len(s) : /\ s[i] \in Tids /\ owner[s[i]] # None
                              /\ next[s[i]] = IF i = Len(s) THEN None ELSE s[i + 1]
      /\ \A i, j \in 1 .. Len(s) : s[i] = s[j] => i = j
  BY <1>1, ListIsInjective DEF IsThreadList
<1>4. PICK k \in 1 .. Len(s) : s[k] = u
  BY <1>2 DEF UnlinkState, Linked
<1>5. /\ head' = IF head = u THEN next[u] ELSE head
      /\ \A i \in 1 .. Len(s) :
           next'[s[i]] = IF next[s[i]] = u THEN next[u] ELSE next[s[i]]
      /\ owner' = owner
  BY <1>2, <1>3 DEF UnlinkState, Linked
<1>6. PICK r \in Seq(Tids) :
        /\ Len(r) = Len(s) - 1
        /\ \A i \in 1 .. Len(r) : r[i] = IF i < k THEN s[i] ELSE s[i + 1]
  <2> DEFINE q == [i \in 1 .. Len(s) - 1 |-> IF i < k THEN s[i] ELSE s[i + 1]]
  <2>1. q \in Seq(Tids) /\ Len(q) = Len(s) - 1
    OBVIOUS
  <2>2. \A i \in 1 .. Len(q) : q[i] = IF i < k THEN s[i] ELSE s[i + 1]
    BY <2>1
  <2> HIDE DEF q
  <2> QED
    BY <2>1, <2>2
<1>7. head' = IF r = <<>> THEN None ELSE r[1]
  <2>1. 1 \in 1 .. Len(s) /\ head = s[1] /\ s[1] \in Tids /\ s[1] # None
    BY <1>3, <1>4, PythonAssumption
  <2>2. Len(r) = Len(s) - 1 /\ (r = <<>> <=> Len(r) = 0)
    BY <1>6
  <2>3. CASE k = 1
    <3>1. head' = next[s[1]]
      BY <1>4, <1>5, <2>1, <2>3
    <3>2. CASE Len(s) = 1
      BY <1>3, <2>1, <2>2, <3>1, <3>2
    <3>3. CASE Len(s) # 1
      <4>1. next[s[1]] = s[1 + 1]
        BY <1>3, <2>1, <3>3
      <4>2. 1 \in 1 .. Len(r) /\ r[1] = s[1 + 1]
        BY <1>6, <2>1, <2>2, <2>3, <3>3
      <4> QED
        BY <2>2, <3>1, <4>1, <4>2
    <3> QED
      BY <3>2, <3>3
  <2>4. CASE k # 1
    <3>1. s[1] # u
      BY <1>3, <1>4, <2>1, <2>4
    <3>2. 1 \in 1 .. Len(r) /\ r[1] = s[1]
      BY <1>4, <1>6, <2>4
    <3> QED
      BY <1>5, <2>1, <2>2, <3>1, <3>2
  <2> QED
    BY <2>3, <2>4
<1>8. \A i \in 1 .. Len(r) : next'[r[i]] = IF i = Len(r) THEN None ELSE r[i + 1]
  <2> TAKE i \in 1 .. Len(r)
  <2>1. CASE i + 1 < k
    BY <1>3, <1>4, <1>5, <1>6, <2>1
  <2>2. CASE i + 1 = k
    BY <1>3, <1>4, <1>5, <1>6, <2>2
  <2>3. CASE i >= k
    <3>1. r[i] = s[i + 1] /\ i + 1 \in 1 .. Len(s)
      BY <1>6, <2>3
    <3>2. CASE i + 1 = Len(s)
      <4>1. next[s[i + 1]] = None /\ i = Len(r)
        BY <1>3, <1>6, <3>1, <3>2
      <4> QED
        BY <1>5, <3>1, <4>1, PythonAssumption
    <3>3. CASE i + 1 # Len(s)
      <4>1. i + 2 \in 1 .. Len(s) /\ i + 1 \in 1 .. Len(r) /\ i + 2 # k
        BY <1>6, <2>3, <3>3
      <4>2. next[s[i + 1]] = s[i + 2] /\ s[i + 2] # u
        BY <1>3, <1>4, <3>1, <3>3, <4>1
      <4>3. r[i + 1] = s[i + 2]
        BY <1>6, <2>3, <4>1
      <4> QED
        BY <1>5, <1>6, <3>1, <3>3, <4>1, <4>2, <4>3
    <3> QED
      BY <3>2, <3>3
  <2> QED
    BY <2>1, <2>2, <2>3
<1>9. \A i \in 1 .. Len(r) : owner'[r[i]] # None
  <2> TAKE i \in 1 .. Len(r)
  <2>1. i \in 1 .. Len(s) /\ i + 1 \in 1 .. Len(s)
    BY <1>6
  <2> QED
    BY <1>3, <1>5, <1>6, <2>1
<1>10. IsThreadList(r)'
  BY <1>6, <1>7, <1>8 DEF IsThreadList
<1> QED
  BY <1>6, <1>9, <1>10 DEF ListIsSound

\* A step of the process or of another tracer leaves alone what a tracer is about, and
\* neither the born are unborn again nor the dead alive.
LEMMA TracerIsItsOwn ==
  ASSUME TypeOK, NEW s \in Tracers, TracerNext(s)
  PROVE  \A t \in Tracers \ {s} : pc'[t] = pc[t] /\ d_tids'[t] = d_tids[t] /\ resume'[t] = resume[t]
  BY DEF TypeOK, TracerNext, List, ListFails, GiveUp, Attach, AttachFails, DetachOne,
         WaitReturns, WaitHasNoChild, WaitFails, PassEnds, DetachReturns, Release, Goto,
         CallDetach

LEMMA LivesGoOn ==
  ASSUME TypeOK, [Next]_vars, NEW u \in Tids
  PROVE  /\ thread[u] # "unborn" => thread'[u] # "unborn"
         /\ Dead(u) => Dead(u)'
<1> USE ThreadGroupAssumption DEF TypeOK, GroupTypeOK, ThreadState, Dead
<1>1. CASE UNCHANGED vars
  BY <1>1 DEF vars, groupVars
<1>2. CASE Environment
  BY <1>2 DEF Environment, GroupNext, Spawn, Exit, EntersStop, MainExits, Killed, Reaped, Live,
              Runs
<1>3. ASSUME NEW t \in Tracers, TracerNext(t)
      PROVE  /\ thread[u] # "unborn" => thread'[u] # "unborn"
             /\ Dead(u) => Dead(u)'
  BY <1>3 DEF TracerNext, List, ListFails, GiveUp, Attach, PtraceAttach, AttachFails,
              DetachOne, PtraceDetach, WaitReturns, ReportExit, Reportable, WaitHasNoChild,
              WaitFails, PassEnds, DetachReturns, Release, groupVars
<1> QED
  BY <1>1, <1>2, <1>3 DEF Next

\* A process that is held stays as it is, but that it may be killed: its threads do not
\* run, and other tracers cannot touch them.
LEMMA HeldIsFrozen ==
  ASSUME TypeOK, AttachedAreRecorded, [Next]_vars, NEW t \in Tracers,
         pc[t] = "held", pc'[t] = "held", IsStopped(t)
  PROVE  /\ IsStopped(t)'
         /\ d_tids'[t] = d_tids[t]
         /\ Readable' => \A u \in Tids : Live(u)' <=> Live(u)
<1> USE ThreadGroupAssumption
    DEF TypeOK, GroupTypeOK, ThreadState, IsStopped, Live, Readable
<1>1. CASE UNCHANGED vars
  BY <1>1 DEF vars, groupVars, tracerVars
<1>2. CASE Environment
  <2>1. d_tids'[t] = d_tids[t] /\ UNCHANGED tracedBy
    BY <1>2 DEF Environment, tracerVars, GroupNext, Spawn, Exit, EntersStop, MainExits, Killed,
                Reaped
  <2>2. \A u \in Tids : ~Runs(u)
    BY DEF Runs
  <2>3. CASE Killed
    BY <2>1, <2>3 DEF Killed
  <2>4. CASE Reaped
    BY <2>1, <2>4 DEF Reaped
  <2>5. ~ \E u \in Tids : Spawn(u) \/ Exit(u) \/ EntersStop(u)
    BY <2>2 DEF Spawn, Exit, EntersStop, Runs
  <2>6. ~MainExits
    BY <2>2 DEF MainExits
  <2> QED
    BY <1>2, <2>3, <2>4, <2>5, <2>6 DEF Environment, GroupNext
<1>3. ASSUME NEW s \in Tracers, TracerNext(s)
      PROVE  /\ IsStopped(t)'
             /\ d_tids'[t] = d_tids[t]
             /\ Readable' => \A u \in Tids : Live(u)' <=> Live(u)
  <2>1. s # t
    BY <1>3 DEF TracerNext, List, ListFails, GiveUp, Attach, AttachFails, DetachOne, WaitReturns,
                WaitHasNoChild, WaitFails, PassEnds, DetachReturns, Release, Goto, CallDetach
  <2>2. d_tids'[t] = d_tids[t]
    BY <1>3, <2>1, TracerIsItsOwn
  <2>3. ~ \E u \in Tids : Attach(s, u)
    BY DEF Attach, PtraceAttach, AttachError
  <2>4. ASSUME NEW u \in Tids, DetachOne(s, u) PROVE UNCHANGED <<thread, tracedBy>>
    BY <2>1, <2>4 DEF DetachOne, PtraceDetach, groupVars
  <2>5. CASE WaitReturns(s)
    BY <2>2, <2>5 DEF WaitReturns, ReportExit, Reportable, groupVars
  <2>6. ASSUME \/ List(s) \/ ListFails(s) \/ WaitHasNoChild(s) \/ WaitFails(s) \/ PassEnds(s)
               \/ DetachReturns(s) \/ Release(s)
               \/ \E u \in Tids : GiveUp(s, u) \/ AttachFails(s, u)
        PROVE  UNCHANGED <<thread, tracedBy>>
    BY <2>6 DEF List, ListFails, WaitHasNoChild, WaitFails, PassEnds, DetachReturns, Release,
                GiveUp, AttachFails, groupVars
  <2> QED
    BY <1>3, <2>2, <2>3, <2>4, <2>5, <2>6 DEF TracerNext
<1> QED
  BY <1>1, <1>2, <1>3 DEF Next

\* Nor does CPython change anything of it.
LEMMA HeldListIsFrozen ==
  ASSUME CaptureTypes, [CaptureNext]_captureVars, NEW t \in Tracers, IsStopped(t)
  PROVE  UNCHANGED pythonVars
<1>1. request.able \subseteq Tids
  BY CaptureAssumption DEF CaptureTypes, CaptureTypeOK, Request
<1>2. ~PythonNext(request.able)
  BY <1>1 DEF PythonNext, LinkState, BindState, UnlinkState, Runs, IsStopped, Live
<1>3. ASSUME NEW s \in Tracers, OwnerNext(s) PROVE UNCHANGED pythonVars
  BY <1>3 DEF OwnerNext, Trace, Destroy, TracerThrows, CreateManager, CreateManagerThrows,
              ReadHead, ReadThread, ReadThrows, WalkEnds, BuildPythonThread, BuildEnds,
              NativesEnd, UnwindThrows, ReturnThreads, BuildNativeThread, Throw
<1> QED
  BY <1>2, <1>3 DEF CaptureNext, Process, captureVars

\* Whatever CPython does, its list stays sound.
LEMMA ListStaysSound ==
  ASSUME CaptureTypes, ListIsSound, [CaptureNext]_captureVars
  PROVE  ListIsSound'
<1>1. PythonTypeOK /\ request.able \subseteq Tids
  BY CaptureAssumption DEF CaptureTypes, CaptureTypeOK, Request
<1>2. CASE UNCHANGED pythonVars
  BY <1>2 DEF ListIsSound, IsThreadList, pythonVars
<1>3. ASSUME NEW u \in Tids, BindState(u) PROVE ListIsSound'
  <2>1. PICK s \in Seq(Tids) : IsThreadList(s) /\ \A i \in DOMAIN s : owner[s[i]] # None
    BY DEF ListIsSound
  <2>2. IsThreadList(s)'
    BY <1>3, <2>1 DEF BindState, IsThreadList
  <2>3. \A i \in DOMAIN s : owner'[s[i]] # None
    BY <1>1, <1>3, <2>1, PythonAssumption DEF BindState, PythonTypeOK
  <2> QED
    BY <2>2, <2>3 DEF ListIsSound
<1>4. CASE PythonNext(request.able)
  BY <1>1, <1>3, <1>4, LinkKeepsList, UnlinkKeepsList DEF PythonNext
<1>5. ASSUME NEW s \in Tracers, OwnerNext(s) PROVE UNCHANGED pythonVars
  BY <1>5 DEF OwnerNext, Trace, Destroy, TracerThrows, CreateManager, CreateManagerThrows,
              ReadHead, ReadThread, ReadThrows, WalkEnds, BuildPythonThread, BuildEnds,
              NativesEnd, UnwindThrows, ReturnThreads, BuildNativeThread, Throw
<1> QED
  BY <1>2, <1>4, <1>5 DEF CaptureNext, Process, captureVars

\* What a capture keeps for itself changes only in its own steps, and only some of it.
LEMMA OwnerIsItsOwn ==
  ASSUME CaptureTypes, NEW s \in Tracers, OwnerNext(s), NEW t \in Tracers \ {s}
  PROVE  /\ stage'[t] = stage[t] /\ manager_tids'[t] = manager_tids[t] /\ addr'[t] = addr[t]
         /\ threads'[t] = threads[t] /\ natives'[t] = natives[t] /\ error'[t] = error[t]
         /\ stopped'[t] = stopped[t] /\ unwound'[t] = unwound[t]
<1>0. OwnerTypes
  BY SplitTypes
<1> USE DEF OwnerTypes, Enter
<1>1. CASE Trace(s) \/ Destroy(s)
  BY <1>1 DEF Trace, Destroy, ownerVars
<1>2. CASE TracerThrows(s) \/ CreateManagerThrows(s) \/ ReadThrows(s) \/ UnwindThrows(s)
  BY <1>0, <1>2 DEF TracerThrows, CreateManagerThrows, ReadThrows, UnwindThrows, Throw
<1>3. CASE CreateManager(s) \/ ReadHead(s) \/ ReadThread(s) \/ WalkEnds(s)
  BY <1>0, <1>3 DEF CreateManager, ReadHead, ReadThread, WalkEnds
<1>4. CASE \/ BuildPythonThread(s) \/ BuildEnds(s) \/ NativesEnd(s) \/ ReturnThreads(s)
           \/ \E u \in Tids : BuildNativeThread(s, u)
  BY <1>0, <1>4 DEF BuildPythonThread, BuildEnds, NativesEnd, ReturnThreads, BuildNativeThread
<1> QED
  BY <1>1, <1>2, <1>3, <1>4 DEF OwnerNext

\* request never changes.
LEMMA RequestStays == [CaptureNext]_captureVars => request' = request
  BY DEF captureVars, CaptureNext, ownerVars, OwnerNext, Trace, Destroy, TracerThrows,
         CreateManager, CreateManagerThrows, ReadHead, ReadThread, ReadThrows, WalkEnds,
         BuildPythonThread, BuildEnds, NativesEnd, UnwindThrows, ReturnThreads,
         BuildNativeThread, Throw

\* Thread states are made by threads that run, and thread ids read of threads that live.
LEMMA KnownStayBorn ==
  ASSUME CaptureTypes, AttachedWereBorn, KnownWereBorn, [CaptureNext]_captureVars
  PROVE  KnownWereBorn'
<1>0. TypeOK /\ PythonTypeOK /\ OwnerTypes /\ request.able \subseteq Tids
  BY SplitTypes, CaptureAssumption DEF OwnerTypes, Request
<1>1. \A u \in Tids : thread[u] # "unborn" => thread'[u] # "unborn"
  BY <1>0, CaptureStep, LivesGoOn
<1>2. thread'[Pid] # "unborn"
  BY <1>1, ThreadGroupAssumption DEF KnownWereBorn
<1>3. \A u \in Tids : owner'[u] # None => thread'[owner'[u]] # "unborn"
  <2>1. CASE UNCHANGED pythonVars
    BY <1>0, <1>1, <2>1 DEF pythonVars, KnownWereBorn, PythonTypeOK
  <2>2. CASE PythonNext(request.able) /\ UNCHANGED groupVars
    BY <1>0, <1>1, <2>2 DEF PythonNext, LinkState, BindState, UnlinkState, Runs, KnownWereBorn,
                            PythonTypeOK, groupVars
  <2>3. ASSUME NEW s \in Tracers, OwnerNext(s) PROVE UNCHANGED pythonVars
    BY <2>3 DEF OwnerNext, Trace, Destroy, TracerThrows, CreateManager, CreateManagerThrows,
                ReadHead, ReadThread, ReadThrows, WalkEnds, BuildPythonThread, BuildEnds,
                NativesEnd, UnwindThrows, ReturnThreads, BuildNativeThread, Throw
  <2> QED
    BY <2>1, <2>2, <2>3 DEF CaptureNext, Process, captureVars
<1>4. ASSUME NEW t \in Tracers, manager_tids'[t] = manager_tids[t], threads'[t] = threads[t]
      PROVE  /\ \A u \in manager_tids'[t] : thread'[u] # "unborn"
             /\ \A i \in DOMAIN threads'[t] :
                  threads'[t][i].tid # None => thread'[threads'[t][i].tid] # "unborn"
  BY <1>0, <1>1, <1>4 DEF KnownWereBorn, OwnerTypes
<1>5. ASSUME NEW t \in Tracers, OwnerNext(t)
      PROVE  /\ \A u \in manager_tids'[t] : thread'[u] # "unborn"
             /\ \A i \in DOMAIN threads'[t] :
                  threads'[t][i].tid # None => thread'[threads'[t][i].tid] # "unborn"
  <2>1. CASE CreateManager(t)
    <3>1. \A u \in manager_tids'[t] : u \in Tids /\ thread[u] # "unborn"
      BY <1>0, <2>1 DEF CreateManager, AttachedWereBorn, Listed, Live, OwnerTypes, TypeOK
    <3>2. threads'[t] = <<>>
      BY <1>0, <2>1 DEF CreateManager, Enter, OwnerTypes
    <3>3. DOMAIN threads'[t] = {}
      BY <3>2
    <3> QED
      BY <1>1, <3>1, <3>3
  <2>2. CASE ReadThread(t)
    <3>1. PICK tid_ \in Tids \cup {None} :
            /\ GetThreadTid(t, addr[t], tid_)
            /\ threads' = [threads EXCEPT ![t] = Append(@, [state |-> addr[t], tid |-> tid_])]
      BY <2>2 DEF ReadThread
    <3>2. addr[t] \in Tids /\ manager_tids' = manager_tids
      BY <1>0, <2>2 DEF ReadThread, OwnerTypes
    <3>3. tid_ # None => thread'[tid_] # "unborn"
      BY <1>0, <1>1, <3>1, <3>2 DEF GetThreadTid, PthreadTid, KnownWereBorn, PythonTypeOK
    <3>4. \A i \in DOMAIN threads'[t] :
            \/ threads'[t][i].tid = tid_
            \/ i \in DOMAIN threads[t] /\ threads'[t][i] = threads[t][i]
      BY <1>0, <3>1 DEF OwnerTypes
    <3>5. \A i \in DOMAIN threads[t] :
            threads[t][i].tid # None => thread'[threads[t][i].tid] # "unborn"
      BY <1>0, <1>1 DEF KnownWereBorn, OwnerTypes
    <3>6. \A u \in manager_tids'[t] : thread'[u] # "unborn"
      BY <1>0, <1>1, <3>2 DEF KnownWereBorn, OwnerTypes
    <3> QED
      BY <3>3, <3>4, <3>5, <3>6
  <2>3. CASE manager_tids'[t] = manager_tids[t] /\ threads'[t] = threads[t]
    BY <1>4, <2>3
  <2> QED
    BY <1>5, <2>1, <2>2, <2>3
    DEF OwnerNext, Trace, Destroy, ownerVars, TracerThrows, CreateManagerThrows, ReadHead,
        ReadThrows, WalkEnds, BuildPythonThread, BuildEnds, NativesEnd, UnwindThrows,
        ReturnThreads, BuildNativeThread, Throw
<1>6. \A t \in Tracers :
        /\ \A u \in manager_tids'[t] : thread'[u] # "unborn"
        /\ \A i \in DOMAIN threads'[t] :
             threads'[t][i].tid # None => thread'[threads'[t][i].tid] # "unborn"
  <2> TAKE t \in Tracers
  <2>1. CASE UNCHANGED ownerVars
    BY <1>4, <2>1 DEF ownerVars
  <2>2. ASSUME NEW s \in Tracers, OwnerNext(s), s # t
        PROVE  manager_tids'[t] = manager_tids[t] /\ threads'[t] = threads[t]
    BY <2>2, OwnerIsItsOwn
  <2> QED
    BY <1>4, <1>5, <2>1, <2>2 DEF CaptureNext, captureVars
<1> QED
  BY <1>2, <1>3, <1>6 DEF KnownWereBorn

\* The order of things in one capture: what its own steps do to it.
LEMMA OwnerStaysOrdered ==
  ASSUME CaptureTypes, AttachedAreRecorded, NEW t \in Tracers, Ordered(t), OwnerNext(t)
  PROVE  Ordered(t)'
<1>0. OwnerTypes /\ TypeOK /\ request' = request
  BY SplitTypes DEF OwnerNext, Trace, Destroy, ownerVars, TracerThrows, CreateManager,
     CreateManagerThrows, ReadHead, ReadThread, ReadThrows, WalkEnds, BuildPythonThread,
     BuildEnds, NativesEnd, UnwindThrows, ReturnThreads, BuildNativeThread, Throw
<1> USE DEF OwnerTypes, TypeOK, Ordered, AllTids
<1>1. CASE Trace(t)
  <2>1. UNCHANGED ownerVars /\ request.stop /\ pc[t] # "held" /\ TracerNext(t)
    BY <1>1 DEF Trace
  <2>2. stage[t] \notin {"head", "walk", "build", "natives"}
    BY <2>1
  <2>3. pc[t] \in {"failed", "released"} => FALSE
    BY <2>1 DEF TracerNext, List, ListFails, GiveUp, Attach, AttachFails, DetachOne, WaitReturns,
                WaitHasNoChild, WaitFails, PassEnds, DetachReturns, Release, Goto, CallDetach
  <2>4. pc[t] = "detach" =>
          resume'[t] = resume[t] /\ (pc'[t] = "detach" \/ pc'[t] = resume[t])
    BY <1>0, <2>1 DEF TracerNext, List, ListFails, GiveUp, Attach, AttachFails, DetachOne,
                WaitReturns, WaitHasNoChild, WaitFails, PassEnds, DetachReturns, Release, Goto,
                CallDetach
  <2> QED
    BY <1>0, <2>1, <2>2, <2>3, <2>4 DEF ownerVars
<1>2. CASE Destroy(t)
  <2>1. /\ UNCHANGED ownerVars /\ request.stop /\ stage[t] \in {"collected", "threw"}
        /\ pc'[t] = "detach" /\ resume'[t] = "released"
    BY <1>0, <1>2 DEF Destroy, Release, CallDetach, Goto
  <2> QED
    BY <1>0, <2>1 DEF ownerVars
<1>3. CASE TracerThrows(t) \/ CreateManagerThrows(t) \/ ReadThrows(t) \/ UnwindThrows(t)
  <2>1. /\ stage'[t] = "threw"
        /\ UNCHANGED <<vars, stopped>>
        /\ request.stop => pc[t] \in {"held", "failed"}
    BY <1>0, <1>3 DEF TracerThrows, CreateManagerThrows, ReadThrows, UnwindThrows, Throw, Enter
  <2> QED
    BY <1>0, <2>1 DEF vars, tracerVars
<1>4. CASE CreateManager(t)
  <2>1. /\ UNCHANGED vars
        /\ stage'[t] \in {"head", "natives"}
        /\ request.stop => pc[t] = "held"
        /\ threads'[t] = <<>> /\ natives'[t] = {}
        /\ stopped'[t] = IsStopped(t)
        /\ Readable
    BY <1>0, <1>4 DEF CreateManager, Enter
  <2>2. IsStopped(t) => request.stop
    BY <2>1, ThreadGroupAssumption DEF IsStopped, Readable, AttachedAreRecorded
  <2> QED
    BY <1>0, <2>1, <2>2 DEF vars, tracerVars
<1>5. CASE ReadHead(t) \/ ReadThread(t) \/ WalkEnds(t) \/ BuildPythonThread(t)
  BY <1>0, <1>5 DEF ReadHead, ReadThread, WalkEnds, BuildPythonThread, Enter, vars, tracerVars
<1>6. CASE BuildEnds(t) \/ NativesEnd(t) \/ ReturnThreads(t)
  BY <1>0, <1>6 DEF BuildEnds, NativesEnd, ReturnThreads, Enter, vars, tracerVars
<1>7. ASSUME NEW u \in Tids, BuildNativeThread(t, u) PROVE Ordered(t)'
  BY <1>0, <1>7 DEF BuildNativeThread, vars, tracerVars
<1> QED
  BY <1>1, <1>2, <1>3, <1>4, <1>5, <1>6, <1>7 DEF OwnerNext

LEMMA StaysOrdered ==
  ASSUME CaptureTypes, AttachedAreRecorded, \A t \in Tracers : Ordered(t),
         [CaptureNext]_captureVars, NEW t \in Tracers
  PROVE  Ordered(t)'
<1>0. OwnerTypes /\ TypeOK /\ request' = request
  BY SplitTypes, RequestStays
<1>1. ASSUME /\ stage'[t] = stage[t] /\ manager_tids'[t] = manager_tids[t]
             /\ threads'[t] = threads[t] /\ natives'[t] = natives[t]
             /\ stopped'[t] = stopped[t]
             /\ pc'[t] = pc[t] /\ d_tids'[t] = d_tids[t] /\ resume'[t] = resume[t]
      PROVE  Ordered(t)'
  BY <1>0, <1>1 DEF Ordered, AllTids
<1>2. CASE UNCHANGED <<tracerVars, ownerVars>>
  BY <1>1, <1>2 DEF tracerVars, ownerVars
<1>3. CASE OwnerNext(t)
  BY <1>3, OwnerStaysOrdered
<1>4. ASSUME NEW s \in Tracers, OwnerNext(s), s # t PROVE Ordered(t)'
  <2>1. pc'[t] = pc[t] /\ d_tids'[t] = d_tids[t] /\ resume'[t] = resume[t]
    BY <1>0, <1>4, OwnerStep, TracerIsItsOwn DEF vars, tracerVars
  <2> QED
    BY <1>1, <1>4, <2>1, OwnerIsItsOwn
<1> QED
  BY <1>2, <1>3, <1>4 DEF CaptureNext, captureVars, vars

\* While nothing of the process runs, its list and the ids in it stay what they are.
LEMMA ThreadStatesStay ==
  ASSUME UNCHANGED pythonVars
  PROVE  ThreadStates' = ThreadStates
  BY DEF ThreadStates, IsThreadList, pythonVars

\* A sound list is a sequence of threads whose states say of which threads they are.
LEMMA SoundList ==
  ASSUME ListIsSound
  PROVE  /\ ThreadStates \in Seq(Tids) /\ IsThreadList(ThreadStates)
         /\ \A i \in 1 .. Len(ThreadStates) : owner[ThreadStates[i]] # None
<1>1. PICK s \in Seq(Tids) : IsThreadList(s) /\ \A i \in DOMAIN s : owner[s[i]] # None
  BY DEF ListIsSound
<1> QED
  BY <1>1, ListIsThreadStates

\* A capture that starts to read a stopped process has read nothing of it.
LEMMA StartsFaithful ==
  ASSUME CaptureTypes, ListIsSound, NEW t \in Tracers, CreateManager(t), stopped'[t],
         pc[t] = "held", Ordered(t), request.stop
  PROVE  Reads(t)'
<1>0. OwnerTypes
  BY SplitTypes
<1>1. /\ UNCHANGED <<vars, pythonVars>> /\ threads'[t] = <<>> /\ IsStopped(t)
      /\ manager_tids'[t] = d_tids[t] /\ request' = request /\ natives'[t] = natives[t]
      /\ stage'[t] = IF request.found THEN "head" ELSE "natives"
  BY <1>0 DEF CreateManager, Enter, OwnerTypes
<1>2. natives[t] = {}
  BY DEF CreateManager, Enter, Ordered
<1>3. ThreadStates' \in Seq(Tids)
  BY <1>1, ThreadStatesStay, SoundList
<1>4. IsStopped(t)' /\ manager_tids'[t] = d_tids'[t]
  BY <1>1 DEF IsStopped, Live, vars, groupVars, tracerVars
<1>5. Len(threads'[t]) = 0 /\ DOMAIN threads'[t] = {}
  BY <1>1
<1> QED
  BY <1>1, <1>2, <1>3, <1>4, <1>5 DEF Reads

\* Each thing a capture does to a process that stays as it is goes on from there.
LEMMA ReadsOn ==
  ASSUME CaptureTypes, ListIsSound, NEW t \in Tracers, OwnerNext(t), Ordered(t), Reads(t),
         pc[t] = "held", pc'[t] = "held", stage[t] # "trace"
  PROVE  Reads(t)'
<1>0. OwnerTypes /\ PythonTypeOK
  BY SplitTypes
<1> DEFINE S == ThreadStates
<1>1. /\ S \in Seq(Tids) /\ head = IF S = <<>> THEN None ELSE S[1]
      /\ \A i \in 1 .. Len(S) : next[S[i]] = IF i = Len(S) THEN None ELSE S[i + 1]
  BY SoundList DEF IsThreadList
<1>2. ~Trace(t) /\ ~Destroy(t)
  BY <1>0, SplitTypes DEF Trace, Destroy, Release, CallDetach, Goto, TypeOK
<1>3. /\ UNCHANGED <<vars, pythonVars>> /\ request' = request /\ manager_tids'[t] = manager_tids[t]
  BY <1>2 DEF OwnerNext, TracerThrows, CreateManager, CreateManagerThrows, ReadHead, ReadThread,
              ReadThrows, WalkEnds, BuildPythonThread, BuildEnds, NativesEnd, UnwindThrows,
              ReturnThreads, BuildNativeThread, Throw, Enter
<1>4. /\ S' = S /\ Readable' = Readable /\ d_tids' = d_tids /\ IsStopped(t)'
      /\ \A u \in Tids : Live(u)' = Live(u)
      /\ \A u \in Tids : TidOf(u)' = TidOf(u)
  BY <1>3, ThreadStatesStay
  DEF Reads, IsStopped, Readable, Live, TidOf, PthreadTid, vars, groupVars, tracerVars, pythonVars
<1> HIDE DEF S
<1>5. ASSUME /\ Len(threads'[t]) <= Len(S)
             /\ \A i \in DOMAIN threads'[t] :
                  /\ S[i] \in Tids
                  /\ threads'[t][i].state = S[i]
                  /\ Readable => threads'[t][i].tid = TidOf(S[i])
             /\ stage'[t] = "walk" =>
                  addr'[t] = IF Len(threads'[t]) = Len(S) THEN None
                             ELSE S[Len(threads'[t]) + 1]
             /\ stage'[t] \in {"build", "natives", "collected"} /\ request.found =>
                  Len(threads'[t]) = Len(S)
             /\ Readable => \A u \in natives'[t] : u \in Tids /\ Live(u)
      PROVE  Reads(t)'
  <2>1. manager_tids'[t] = d_tids'[t]
    BY <1>3, <1>4 DEF Reads
  <2>2. \A i \in DOMAIN threads'[t] :
          /\ threads'[t][i].state = ThreadStates'[i]
          /\ Readable' => threads'[t][i].tid = TidOf(ThreadStates[i])'
    <3> TAKE i \in DOMAIN threads'[t]
    <3>1. S[i] \in Tids /\ ThreadStates'[i] = S[i]
      BY <1>4, <1>5 DEF S
    <3>2. TidOf(ThreadStates[i])' = TidOf(S[i])
      BY <1>3, <3>1 DEF TidOf, PthreadTid, Live, vars, groupVars, pythonVars
    <3> QED
      BY <1>4, <1>5, <3>1, <3>2
  <2>3. Readable' => \A u \in natives'[t] : Live(u)'
    BY <1>4, <1>5
  <2> QED
    BY <1>3, <1>4, <1>5, <2>1, <2>2, <2>3 DEF Reads, S
<1>6. CASE ReadHead(t)
  <2>1. threads[t] = <<>> /\ threads'[t] = <<>> /\ addr'[t] = head /\ stage'[t] = "walk"
    BY <1>0, <1>6 DEF ReadHead, Enter, Ordered, OwnerTypes
  <2>2. natives'[t] = natives[t]
    BY <1>6 DEF ReadHead
  <2>3. Len(threads'[t]) = 0 /\ DOMAIN threads'[t] = {}
    BY <2>1
  <2>4. addr'[t] = IF 0 = Len(S) THEN None ELSE S[1]
    BY <1>1, <2>1
  <2> QED
    BY <1>0, <1>5, <2>1, <2>2, <2>3, <2>4 DEF Reads, OwnerTypes
<1>7. CASE ReadThread(t)
  <2> DEFINE n == Len(threads[t])
  <2>1. PICK tid_ \in Tids \cup {None} :
          /\ GetThreadTid(t, addr[t], tid_)
          /\ threads' = [threads EXCEPT ![t] = Append(@, [state |-> addr[t], tid |-> tid_])]
    BY <1>7 DEF ReadThread
  <2>2. /\ stage[t] = "walk" /\ stage' = stage /\ natives' = natives
        /\ addr[t] \in Tids /\ addr'[t] = next[addr[t]]
    BY <1>0, <1>7 DEF ReadThread, OwnerTypes
  <2>3. n \in Nat /\ n + 1 <= Len(S) /\ addr[t] = S[n + 1]
    <3>1. n \in Nat /\ n <= Len(S)
      BY <1>0 DEF OwnerTypes, Reads, S
    <3>2. addr[t] = IF n = Len(S) THEN None ELSE S[n + 1]
      BY <2>2 DEF Reads, S
    <3>3. n # Len(S)
      BY <2>2, <3>2, PythonAssumption
    <3> QED
      BY <1>1, <3>1, <3>2, <3>3
  <2>4. tid_ = TidOf(S[n + 1])
    BY <2>1, <2>3 DEF GetThreadTid, TidOf
  <2>5. /\ Len(threads'[t]) = n + 1 /\ DOMAIN threads'[t] = 1 .. n + 1 /\ DOMAIN threads[t] = 1 .. n
        /\ threads'[t][n + 1] = [state |-> addr[t], tid |-> tid_]
        /\ \A i \in 1 .. n : threads'[t][i] = threads[t][i]
    BY <1>0, <2>1 DEF OwnerTypes
  <2>6. \A i \in DOMAIN threads'[t] :
          /\ threads'[t][i].state = S[i]
          /\ Readable => threads'[t][i].tid = TidOf(S[i])
    <3> TAKE i \in DOMAIN threads'[t]
    <3>1. CASE i = n + 1
      BY <2>3, <2>4, <2>5, <3>1
    <3>2. CASE i # n + 1
      <4>1. i \in 1 .. n
        BY <2>3, <2>5, <3>2
      <4> QED
        BY <2>5, <4>1 DEF Reads, S
    <3> QED
      BY <3>1, <3>2
  <2>7. addr'[t] = IF n + 1 = Len(S) THEN None ELSE S[n + 2]
    <3>1. n + 1 \in 1 .. Len(S) /\ (n + 1) + 1 = n + 2
      BY <1>1, <2>3
    <3> QED
      BY <1>1, <2>2, <2>3, <3>1
  <2>8. \A i \in DOMAIN threads'[t] : S[i] \in Tids
    BY <1>1, <2>3, <2>5
  <2> QED
    <3>1. Len(threads'[t]) + 1 = n + 2
      BY <2>3, <2>5
    <3> HIDE DEF n
    <3> QED
      BY <1>0, <1>5, <2>2, <2>3, <2>5, <2>6, <2>7, <2>8, <3>1 DEF Reads, OwnerTypes
<1>8. CASE WalkEnds(t)
  <2>1. /\ addr[t] = None /\ stage[t] = "walk" /\ stage'[t] = "build"
        /\ threads' = threads /\ natives' = natives
    BY <1>0, <1>8 DEF WalkEnds, Enter, OwnerTypes
  <2>2. Len(threads[t]) = Len(S)
    <3>1. Len(threads[t]) \in Nat /\ Len(threads[t]) <= Len(S)
      BY <1>0 DEF OwnerTypes, Reads, S
    <3>2. Len(threads[t]) # Len(S) => S[Len(threads[t]) + 1] \in Tids
      BY <1>1, <3>1
    <3> QED
      BY <2>1, <3>2, PythonAssumption DEF Reads, S
  <2>3. \A i \in DOMAIN threads[t] : S[i] \in Tids
    BY <1>0, <1>1, <2>2 DEF OwnerTypes
  <2> QED
    BY <1>0, <1>5, <2>1, <2>2, <2>3 DEF Reads, OwnerTypes, S
<1>9. ASSUME NEW u \in Tids, BuildNativeThread(t, u) PROVE Reads(t)'
  <2>1. /\ stage' = stage /\ stage[t] = "natives" /\ threads' = threads /\ addr' = addr
        /\ natives'[t] = natives[t] \cup {u} /\ Unwinds(t, u)
    BY <1>0, <1>9 DEF BuildNativeThread, OwnerTypes
  <2>2. Live(u)
    BY <2>1, PythonAssumption DEF Unwinds, Live
  <2>3. natives[t] \subseteq Tids
    BY <1>0 DEF OwnerTypes
  <2> QED
    BY <1>1, <1>3, <1>4, <2>1, <2>2, <2>3 DEF Reads, S
<1>10. CASE \/ BuildPythonThread(t) \/ BuildEnds(t) \/ NativesEnd(t) \/ ReturnThreads(t)
            \/ ReadThrows(t) \/ UnwindThrows(t) \/ CreateManager(t) \/ CreateManagerThrows(t)
            \/ TracerThrows(t)
  <2>1. /\ threads' = threads /\ natives' = natives /\ addr' = addr
        /\ \/ stage'[t] = stage[t]
           \/ stage[t] \in {"build", "natives"} /\ stage'[t] \in {"natives", "collected"}
           \/ stage'[t] \in {"threw", "returned"}
    BY <1>0, <1>10 DEF BuildPythonThread, BuildEnds, NativesEnd, ReturnThreads, ReadThrows,
       UnwindThrows, CreateManager, CreateManagerThrows, TracerThrows, Throw, Enter, OwnerTypes
  <2>2. natives[t] \subseteq Tids /\ \A i \in DOMAIN threads[t] : i \in 1 .. Len(S)
    BY <1>0, <1>1 DEF OwnerTypes, Reads, S
  <2> QED
    BY <1>1, <1>3, <1>4, <2>1, <2>2 DEF Reads, S
<1> QED
  BY <1>2, <1>6, <1>7, <1>8, <1>9, <1>10 DEF OwnerNext

\* What was read of a stopped process stays true of it for as long as it is held.
LEMMA StaysFaithful ==
  ASSUME CaptureTypes, AttachedAreRecorded, ListIsSound, \A t \in Tracers : Ordered(t),
         \A t \in Tracers : Faithful(t), [CaptureNext]_captureVars, NEW t \in Tracers
  PROVE  Faithful(t)'
<1> SUFFICES ASSUME stopped'[t], pc'[t] = "held" PROVE Reads(t)'
  BY DEF Faithful
<1>0. OwnerTypes /\ TypeOK /\ PythonTypeOK /\ request' = request
  BY SplitTypes, RequestStays
<1>1. CASE stopped[t]
  <2>1. request.stop /\ stage[t] # "trace"
    BY <1>1 DEF Ordered
  <2>2. pc[t] = "held"
    <3>1. CASE Trace(t)
      <4>1. pc[t] \in {"failed", "released"} \/ (pc[t] = "detach" /\ resume[t] = "released")
        BY <1>0, <2>1, <3>1 DEF Ordered, Trace, OwnerTypes, Stage
      <4> QED
        BY <1>0, <3>1, <4>1
        DEF Trace, TracerNext, List, ListFails, GiveUp, Attach, AttachFails, DetachOne,
            WaitReturns, WaitHasNoChild, WaitFails, PassEnds, DetachReturns, Release, Goto,
            CallDetach, TypeOK
    <3>2. CASE Destroy(t)
      BY <3>2 DEF Destroy, Release, CallDetach, Goto
    <3>3. ASSUME OwnerNext(t), ~Trace(t), ~Destroy(t) PROVE pc' = pc
      BY <3>3 DEF OwnerNext, TracerThrows, CreateManager, CreateManagerThrows, ReadHead,
                  ReadThread, ReadThrows, WalkEnds, BuildPythonThread, BuildEnds, NativesEnd,
                  UnwindThrows, ReturnThreads, BuildNativeThread, Throw, vars, tracerVars
    <3>4. ASSUME NEW s \in Tracers, OwnerNext(s), s # t PROVE pc'[t] = pc[t]
      BY <1>0, <3>4, OwnerStep, TracerIsItsOwn DEF vars, tracerVars
    <3> QED
      BY <3>1, <3>2, <3>3, <3>4 DEF CaptureNext, captureVars, vars, tracerVars
  <2>3. Reads(t) /\ Ordered(t)
    BY <1>1, <2>2 DEF Faithful
  <2>4. CASE OwnerNext(t)
    BY <2>1, <2>2, <2>3, <2>4, ReadsOn
  <2>5. ASSUME /\ stage'[t] = stage[t] /\ manager_tids'[t] = manager_tids[t]
               /\ addr'[t] = addr[t] /\ threads'[t] = threads[t] /\ natives'[t] = natives[t]
        PROVE  Reads(t)'
    <3>1. [Next]_vars /\ IsStopped(t)
      BY <2>3, CaptureStep DEF Reads
    <3>2. /\ IsStopped(t)' /\ d_tids'[t] = d_tids[t]
          /\ Readable' => \A u \in Tids : Live(u)' <=> Live(u)
      BY <1>0, <2>2, <3>1, HeldIsFrozen
    <3>3. UNCHANGED pythonVars /\ ThreadStates' = ThreadStates
      BY <3>1, HeldListIsFrozen, ThreadStatesStay
    <3>4. Readable' => Readable
      BY <3>2, ThreadGroupAssumption DEF Readable
    <3>5. Readable' => \A u \in Tids : TidOf(u)' = TidOf(u)
      BY <1>0, <3>2, <3>3, PythonAssumption DEF TidOf, PthreadTid, pythonVars, PythonTypeOK, Live
    <3>6. ThreadStates \in Seq(Tids)
      BY SoundList
    <3>7. \A i \in DOMAIN threads'[t] :
            /\ threads'[t][i].state = ThreadStates'[i]
            /\ Readable' => threads'[t][i].tid = TidOf(ThreadStates[i])'
      <4> TAKE i \in DOMAIN threads'[t]
      <4>1. i \in 1 .. Len(ThreadStates)
        BY <1>0, <2>3, <2>5, <3>6 DEF OwnerTypes, Reads
      <4>2. ThreadStates[i] \in Tids /\ ThreadStates'[i] = ThreadStates[i]
        BY <3>3, <3>6, <4>1
      <4>3. Readable' => TidOf(ThreadStates[i])' = TidOf(ThreadStates[i])
        BY <3>5, <4>2 DEF TidOf, PthreadTid, Live
      <4> QED
        BY <2>3, <2>5, <3>4, <4>2, <4>3 DEF Reads
    <3>8. Readable' => \A u \in natives'[t] : Live(u)'
      BY <1>0, <2>3, <2>5, <3>2, <3>4 DEF Reads, OwnerTypes
    <3> QED
      BY <1>0, <2>3, <2>5, <3>2, <3>3, <3>7, <3>8 DEF Reads
  <2> QED
    BY <2>4, <2>5, OwnerIsItsOwn DEF CaptureNext, captureVars, ownerVars
<1>2. CASE ~stopped[t]
  <2>1. CreateManager(t)
    <3>1. ASSUME OwnerNext(t), ~CreateManager(t) PROVE stopped' = stopped
      BY <3>1 DEF OwnerNext, Trace, Destroy, ownerVars, TracerThrows, CreateManagerThrows,
                  ReadHead, ReadThread, ReadThrows, WalkEnds, BuildPythonThread, BuildEnds,
                  NativesEnd, UnwindThrows, ReturnThreads, BuildNativeThread, Throw
    <3> QED
      BY <1>2, <3>1, OwnerIsItsOwn DEF CaptureNext, captureVars, ownerVars
  <2>2. IsStopped(t) /\ Readable
    BY <1>0, <2>1 DEF CreateManager, OwnerTypes
  <2>3. request.stop
    BY <2>2, ThreadGroupAssumption DEF IsStopped, Readable, AttachedAreRecorded, Ordered
  <2> QED
    BY <2>1, <2>3, StartsFaithful DEF CreateManager
<1> QED
  BY <1>0, <1>1, <1>2

\* What goes wrong with a process that was stopped goes wrong because a thread of it died.
LEMMA ThrowsExplained ==
  ASSUME CaptureTypes, AttachedAreRecorded, ListIsSound, KnownWereBorn, NEW t \in Tracers,
         Ordered(t), Faithful(t),
         ReadThrows(t) \/ UnwindThrows(t)
  PROVE  Explained(t)'
<1>0. /\ OwnerTypes /\ TypeOK /\ PythonTypeOK
      /\ UNCHANGED <<vars, pythonVars, request, stopped, threads, manager_tids>>
  BY SplitTypes DEF ReadThrows, UnwindThrows, Throw
<1>1. \A u \in Tids : /\ Dead(u)' <=> Dead(u)
                      /\ thread[u] # "unborn" /\ ~Live(u) => Dead(u)
  BY <1>0 DEF TypeOK, GroupTypeOK, ThreadState, Dead, Live, vars, groupVars
<1>2. Readable' = Readable
  BY <1>0 DEF Readable, Live, vars, groupVars
<1>3. stage[t] \in {"head", "walk", "build", "natives"}
  BY DEF ReadThrows, UnwindThrows, Throw, Enter
<1>4. stopped[t] => request.stop /\ Reads(t)
  BY <1>3 DEF Ordered, Faithful
<1>5. ASSUME stopped[t], addr[t] # None, stage[t] = "walk"
      PROVE  /\ addr[t] \in Tids /\ Linked(addr[t])
             /\ owner[addr[t]] \in Tids /\ thread[owner[addr[t]]] # "unborn"
  <2>1. ThreadStates \in Seq(Tids) /\ \A i \in 1 .. Len(ThreadStates) : owner[ThreadStates[i]] # None
    BY SoundList
  <2>2. Len(threads[t]) \in Nat /\ Len(threads[t]) + 1 \in 1 .. Len(ThreadStates)
    BY <1>0, <1>4, <1>5, <2>1 DEF OwnerTypes, Reads
  <2>3. addr[t] = ThreadStates[Len(threads[t]) + 1]
    BY <1>4, <1>5, <2>2 DEF Reads
  <2> QED
    BY <1>0, <2>1, <2>2, <2>3 DEF Linked, PythonTypeOK, KnownWereBorn
<1>6. ASSUME NEW u \in Tids, stopped[t], Live(u)
      PROVE  Unwinds(t, u) /\ u \in manager_tids[t]
  BY <1>4, <1>6 DEF Reads, IsStopped, Unwinds, AttachedAreRecorded
<1>7. ASSUME NEW from \in {"head", "walk"}, ~Readable, Throw(t, from, "memory")
      PROVE  Explained(t)'
  BY <1>0, <1>2, <1>7 DEF Throw, OwnerTypes, Explained
<1>8. ASSUME addr[t] # None, ~Linked(addr[t]) \/ (request.infer /\ ~Live(owner[addr[t]])),
             Throw(t, "walk", "memory")
      PROVE  Explained(t)'
  <2>1. stage[t] = "walk" /\ error'[t] = "memory"
    BY <1>0, <1>8 DEF Throw, Enter, OwnerTypes
  <2>2. stopped[t] => request.infer /\ \E u \in Tids : Dead(u)
    BY <1>1, <1>5, <1>8, <2>1
  <2> QED
    BY <1>0, <1>1, <2>1, <2>2 DEF Explained
<1>9. ASSUME addr[t] # None, ~ \E tid_ \in Tids \cup {None} : GetThreadTid(t, addr[t], tid_),
             Throw(t, "walk", "tid")
      PROVE  Explained(t)'
  <2>1. stage[t] = "walk" /\ error'[t] = "tid"
    BY <1>0, <1>9 DEF Throw, Enter, OwnerTypes
  <2>2. ASSUME stopped[t] PROVE FALSE
    <3>1. TidOf(addr[t]) \in Tids \cup {None}
      BY <1>5, <1>9, <2>1, <2>2 DEF TidOf, PthreadTid
    <3>2. request.infer => TidOf(addr[t]) \in manager_tids[t] \cup {None}
      BY <1>5, <1>6, <1>9, <2>1, <2>2 DEF TidOf, PthreadTid
    <3> QED
      BY <1>9, <3>1, <3>2 DEF GetThreadTid, TidOf
  <2> QED
    BY <1>0, <2>1, <2>2 DEF Explained
<1>10. ASSUME unwound[t] + 1 \in DOMAIN threads[t],
              ~Unwinds(t, threads[t][unwound[t] + 1].tid), Throw(t, "build", "unwind")
       PROVE  Explained(t)'
  <2> DEFINE u == threads[t][unwound[t] + 1].tid
  <2>1. u \in Tids /\ thread[u] # "unborn"
    BY <1>0, <1>10 DEF OwnerTypes, Unwinds, KnownWereBorn
  <2>2. stopped[t] => Dead(u)
    BY <1>1, <1>6, <1>10, <2>1
  <2>3. error'[t] = "unwind"
    BY <1>0, <1>10 DEF Throw, OwnerTypes
  <2> QED
    BY <1>0, <1>1, <2>1, <2>2, <2>3 DEF Explained
<1>11. ASSUME NEW u \in AllTids(t), ~Unwinds(t, u), Throw(t, "natives", "unwind")
       PROVE  Explained(t)'
  <2>1. u \in Tids /\ thread[u] # "unborn"
    BY <1>0 DEF OwnerTypes, AllTids, KnownWereBorn
  <2>2. stopped[t] => Dead(u)
    BY <1>1, <1>6, <1>11, <2>1
  <2>3. error'[t] = "unwind"
    BY <1>0, <1>11 DEF Throw, OwnerTypes
  <2> QED
    BY <1>0, <1>1, <2>1, <2>2, <2>3 DEF Explained
<1> QED
  BY <1>7, <1>8, <1>9, <1>10, <1>11 DEF ReadThrows, UnwindThrows

\* What explained an exception explains it from then on.
LEMMA StaysExplained ==
  ASSUME CaptureTypes, AttachedAreRecorded, ListIsSound, KnownWereBorn,
         \A t \in Tracers : Ordered(t), \A t \in Tracers : Faithful(t),
         [CaptureNext]_captureVars, NEW t \in Tracers, Explained(t)
  PROVE  Explained(t)'
<1>0. OwnerTypes /\ TypeOK /\ request' = request
  BY SplitTypes, RequestStays
<1>1. ASSUME stage'[t] = stage[t], error'[t] = error[t], stopped'[t] = stopped[t],
             pc[t] = "failed" => pc'[t] = "failed"
      PROVE  Explained(t)'
  <2>1. \A u \in Tids : Dead(u) => Dead(u)'
    BY <1>0, CaptureStep, LivesGoOn
  <2>2. ~Readable => ~Readable'
    <3>1. ~Readable => Dead(Pid)
      BY <1>0, ThreadGroupAssumption
      DEF Readable, Dead, Live, KnownWereBorn, TypeOK, GroupTypeOK, ThreadState
    <3>2. Dead(Pid)' => ~Readable'
      BY DEF Readable, Dead, Live
    <3> QED
      BY <2>1, <3>1, <3>2, ThreadGroupAssumption
  <2> QED
    BY <1>0, <1>1, <2>1, <2>2 DEF Explained
<1>2. ASSUME NEW s \in Tracers, OwnerNext(s), s # t PROVE Explained(t)'
  <2>1. pc'[t] = pc[t]
    BY <1>0, <1>2, OwnerStep, TracerIsItsOwn DEF vars, tracerVars
  <2> QED
    BY <1>1, <1>2, <2>1, OwnerIsItsOwn
<1>3. CASE Trace(t) \/ Destroy(t)
  <2>1. UNCHANGED ownerVars
    BY <1>3 DEF Trace, Destroy
  <2>2. pc[t] # "failed"
    BY <1>3 DEF Trace, Destroy, TracerNext, List, ListFails, GiveUp, Attach, AttachFails,
                DetachOne, WaitReturns, WaitHasNoChild, WaitFails, PassEnds, DetachReturns,
                Release, Goto, CallDetach
  <2> QED
    BY <1>1, <2>1, <2>2 DEF ownerVars
<1>4. CASE ReadThrows(t) \/ UnwindThrows(t)
  BY <1>4, ThrowsExplained
<1>5. CASE TracerThrows(t)
  BY <1>0, <1>5 DEF TracerThrows, Throw, OwnerTypes, Explained, vars, tracerVars
<1>6. CASE CreateManagerThrows(t)
  <2>1. /\ UNCHANGED <<vars, request, stopped>>
        /\ \/ error'[t] = "maps" /\ ~Readable
           \/ error'[t] = "listing" /\ ~request.stop
           \/ error'[t] = "not_enough" /\ ~request.found
    BY <1>0, <1>6 DEF CreateManagerThrows, Throw, OwnerTypes
  <2>2. Readable' = Readable
    BY <2>1 DEF Readable, Live, vars, groupVars
  <2>3. ~request.stop => ~stopped[t]
    BY DEF Ordered
  <2> QED
    BY <2>1, <2>2, <2>3 DEF Explained
<1>7. CASE \/ CreateManager(t) \/ ReadHead(t) \/ ReadThread(t) \/ WalkEnds(t)
           \/ BuildPythonThread(t) \/ BuildEnds(t) \/ NativesEnd(t) \/ ReturnThreads(t)
           \/ \E u \in Tids : BuildNativeThread(t, u)
  <2>1. stage'[t] # "threw"
    BY <1>0, <1>7 DEF CreateManager, ReadHead, ReadThread, WalkEnds, BuildPythonThread, BuildEnds,
                      NativesEnd, ReturnThreads, BuildNativeThread, Enter, OwnerTypes
  <2> QED
    BY <2>1 DEF Explained
<1>8. CASE UNCHANGED <<tracerVars, ownerVars>>
  BY <1>1, <1>8 DEF tracerVars, ownerVars
<1> QED
  BY <1>2, <1>3, <1>4, <1>5, <1>6, <1>7, <1>8 DEF CaptureNext, OwnerNext, captureVars, vars

(***************************************************************************)
(* The invariant, and what follows from it.                                *)
(***************************************************************************)
\* At the start there is one thread state, that of the main thread.
LEMMA CaptureInitInv == CaptureInit => CaptureInv
<1> SUFFICES ASSUME CaptureInit PROVE CaptureInv
  OBVIOUS
<1> USE DEF CaptureInit, Init, GroupInit, PythonInit
<1>1. ListIsSound
  <2>1. <<Pid>> \in Seq(Tids) /\ Len(<<Pid>>) = 1 /\ <<Pid>>[1] = Pid /\ <<Pid>> # <<>>
    BY ThreadGroupAssumption
  <2>2. IsThreadList(<<Pid>>)
    BY <2>1, ThreadGroupAssumption DEF IsThreadList
  <2>3. \A i \in DOMAIN <<Pid>> : owner[<<Pid>>[i]] # None
    BY <2>1, ThreadGroupAssumption, PythonAssumption
  <2> QED
    BY <2>1, <2>2, <2>3 DEF ListIsSound
<1>2. KnownWereBorn
  BY ThreadGroupAssumption DEF KnownWereBorn
<1>3. ASSUME NEW t \in Tracers PROVE Ordered(t) /\ Faithful(t) /\ Explained(t)
  BY DEF Ordered, Faithful, Explained
<1> QED
  BY <1>1, <1>2, <1>3 DEF CaptureInv

\* The invariant is inductive, beside the types and what is known of the tracers.
LEMMA CaptureInvHolds == CaptureSpec => [](CaptureTypes /\ CaptureInv /\ AttachedAreRecorded)
<1>1. /\ CaptureTypes /\ AttachedAreRecorded /\ Causes /\ CaptureInv
      /\ [CaptureNext]_captureVars
      => CaptureInv'
  <2> SUFFICES ASSUME CaptureTypes, AttachedAreRecorded, Causes, CaptureInv,
                      [CaptureNext]_captureVars
               PROVE  CaptureInv'
    OBVIOUS
  <2>1. ListIsSound'
    BY ListStaysSound DEF CaptureInv
  <2>2. KnownWereBorn'
    BY KnownStayBorn DEF CaptureInv, Causes
  <2>3. ASSUME NEW t \in Tracers PROVE Ordered(t)' /\ Faithful(t)' /\ Explained(t)'
    BY StaysOrdered, StaysFaithful, StaysExplained DEF CaptureInv
  <2> QED
    BY <2>1, <2>2, <2>3 DEF CaptureInv
<1>2. CaptureSpec => [](AttachedAreRecorded /\ Causes)
  BY ImplementsTracer, Recorded, CausesHold, PTL
<1> QED
  BY <1>1, <1>2, CaptureInitTypes, CaptureTypesStay, CaptureInitInv, PTL DEF CaptureSpec

\* A capture fails only for a reason.  In particular no thread of a stopped process is
\* ever taken for a stranger (pythread.cpp:259-262), whatever CPython did to its list
\* before and however many captures there are.
THEOREM ThrowsAreCaused == CaptureSpec => []ThrowHasCause
<1>1. CaptureTypes /\ CaptureInv /\ FailureHasCause => ThrowHasCause
  <2> SUFFICES ASSUME CaptureTypes, CaptureInv, FailureHasCause PROVE ThrowHasCause
    OBVIOUS
  <2>1. \A t \in Tracers : error[t] \in Reason /\ Explained(t)
    BY DEF CaptureTypes, CaptureTypeOK, CaptureInv
  <2> QED
    BY <2>1 DEF Explained, Reason, ThrowHasCause
<1> QED
  BY <1>1, CaptureInvHolds, ImplementsTracer, FailureCaused, PTL

\* What a capture of a stopped process reports is that process: every thread state, in
\* order, with its thread, and every other live thread once (docs/process.rst:38-42),
\* for every list that CPython can make of any number of threads.
THEOREM ReportsTheProcess == CaptureSpec => []ReportIsTheProcess
<1>1. CaptureTypes /\ CaptureInv /\ AttachedAreRecorded => ReportIsTheProcess
  <2> SUFFICES ASSUME CaptureTypes, CaptureInv, AttachedAreRecorded, NEW t \in Tracers,
                      stage[t] = "collected", pc[t] = "held", stopped[t], Readable
               PROVE  /\ request.found =>
                           /\ [i \in DOMAIN threads[t] |-> threads[t][i].state] = ThreadStates
                           /\ \A i \in DOMAIN threads[t] :
                                threads[t][i].tid = TidOf(threads[t][i].state)
                      /\ request.native = "all" =>
                           natives[t] = {u \in Tids : Live(u)}
                                          \ {threads[t][i].tid : i \in DOMAIN threads[t]}
    BY DEF ReportIsTheProcess, TidOf
  <2>1. Ordered(t) /\ Reads(t) /\ ListIsSound /\ OwnerTypes
    BY SplitTypes DEF CaptureInv, Faithful
  <2>2. ThreadStates \in Seq(Tids)
    BY <2>1, SoundList
  <2>3. ASSUME request.found
        PROVE  /\ [i \in DOMAIN threads[t] |-> threads[t][i].state] = ThreadStates
               /\ \A i \in DOMAIN threads[t] : threads[t][i].tid = TidOf(threads[t][i].state)
    <3>1. DOMAIN threads[t] = 1 .. Len(threads[t]) /\ Len(threads[t]) = Len(ThreadStates)
      BY <2>1, <2>3 DEF Reads, OwnerTypes
    <3>2. DOMAIN threads[t] = DOMAIN ThreadStates
      BY <2>2, <3>1
    <3>3. ThreadStates = [i \in DOMAIN ThreadStates |-> ThreadStates[i]]
      BY <2>2
    <3> QED
      BY <2>1, <3>2, <3>3 DEF Reads
  <2>4. ASSUME request.native = "all"
        PROVE  natives[t] = {u \in Tids : Live(u)}
                              \ {threads[t][i].tid : i \in DOMAIN threads[t]}
    <3>1. natives[t] = manager_tids[t] \ {threads[t][i].tid : i \in DOMAIN threads[t]}
      BY <2>1, <2>4 DEF Ordered, AllTids
    <3>2. \A u \in Tids : Live(u) => u \in manager_tids[t]
      BY <2>1 DEF Reads, IsStopped, AttachedAreRecorded
    <3>3. \A u \in natives[t] : u \in Tids /\ Live(u)
      BY <2>1 DEF Reads, OwnerTypes
    <3> QED
      BY <3>1, <3>2, <3>3
  <2> QED
    BY <2>3, <2>4
<1> QED
  BY <1>1, CaptureInvHolds, PTL

=============================================================================
