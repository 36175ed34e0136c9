-------------------------- MODULE NormalizeThreads --------------------------
(***************************************************************************)
(* From the frames of the thread states and the native stacks of the OS    *)
(* threads to the lines of the report: buildPythonThread of                *)
(* thread_builder.cpp, normalizeThreads of bindings.cpp and format_thread  *)
(* of traceback_formatter.py.  A frame or a native frame is the position   *)
(* of its entry in the stack.                                              *)
(***************************************************************************)
EXTENDS PythonStacks, Lists, FiniteSets, Functions, TLC

CONSTANTS
  Main,        \* the thread states of the main interpreter
  Orders,      \* the orders in which the interpreters may list all thread states
  Modes,       \* the native modes: "off", "last", "python"
  MaxLost,        \* how many outer frames the unwinder may lose
  MaxUnreadable,  \* how many frames may have code that cannot be read
  MaxIdle,        \* how many thread states without frames a report may include
  None

ASSUME NormalizeAssumption ==
  /\ Main \subseteq TState
  /\ \A order \in Orders : order \in Seq(TState) /\ ToSet(order) = TState /\ IsInjective(order)
  /\ Modes \subseteq {"off", "last", "python"}
  /\ {MaxLost, MaxUnreadable, MaxIdle} \subseteq Nat

VARIABLES
  report  \* the last report, until the target runs on, or None

vars == <<stackVars, report>>

Init == StacksInit /\ report = None

-----------------------------------------------------------------------------
(* Reading one thread state: FrameObject, buildFrameStack, getStackAnchor.  *)

Positions(t) == [i \in 1 .. Len(stack[t]) |-> i]
Kind(t, i) == stack[t][i].kind

\* The chain of frames of s, the innermost first: from 3.12 on with shims.
FrameChain(s) ==
  LET t == TidOf[s]
  IN Reverse(Selected(Positions(t),
       {i \in DOMAIN stack[t] : stack[t][i].of = s /\ (Kind(t, i) = "py" \/ HasShims)}))

\* Frame n of a chain is the first that its eval loop runs, or a shim whose
\* frame has not been pushed yet.
IsEntry(s, chain, n) ==
  LET IsShim(m) == Kind(TidOf[s], chain[m]) = "eval"
  IN IF python_version >= 312 THEN (n < Len(chain) /\ IsShim(n + 1)) \/ (n = 1 /\ IsShim(n))
     ELSE IF python_version >= 311 THEN Kind(TidOf[s], chain[n] - 1) = "eval"
     ELSE TRUE

\* Shims and frames with unreadable code are left out.
BuildFrameStack(s, unreadable) ==
  LET chain == FrameChain(s)
      all == [n \in 1 .. Len(chain) |-> [at |-> chain[n], is_entry |-> IsEntry(s, chain, n)]]
  IN Selected(all, {n \in DOMAIN all :
       Kind(TidOf[s], chain[n]) = "py" /\ <<TidOf[s], chain[n]>> \notin unreadable})

\* The address of the innermost shim, which lies on the C stack and so the lower
\* the further in; before 3.12 that of a frame that lies anywhere on the heap.
StackAnchor(s, heap) ==
  LET chain == FrameChain(s)
      shims == {i \in ToSet(chain) : Kind(TidOf[s], i) = "eval"}
  IN IF chain = <<>> THEN 0
     ELSE IF HasShims THEN MaxDepth + 1 - Max(shims)
     ELSE heap[s]

\* The native frames, the outermost first; the unwinder starts from the innermost.
NativeFrames(t, lost) ==
  LET native == Selected(Positions(t), {i \in DOMAIN stack[t] : Kind(t, i) # "py"})
  IN SubSeq(native, lost + 1, Len(native))

BuildPythonThread(s, mode, lost, unreadable, heap) ==
  [tid |-> TidOf[s],
   state |-> s,
   frames |-> BuildFrameStack(s, unreadable),
   native_frames |-> IF mode = "off" THEN <<>> ELSE NativeFrames(TidOf[s], lost[TidOf[s]]),
   stack_anchor |-> StackAnchor(s, heap)]

-----------------------------------------------------------------------------
(* normalizeThreads.                                                        *)

NumEntryFrames(thread) == Cardinality({n \in DOMAIN thread.frames : thread.frames[n].is_entry})

\* Mutant of SortThreadsByStackAnchor: the innermost comes first.
SortThreadsAscending(data) ==
  LET Place(n) == 1 + Cardinality({m \in DOMAIN data :
                   \/ data[m].stack_anchor < data[n].stack_anchor
                   \/ data[m].stack_anchor = data[n].stack_anchor /\ m < n})
  IN [r \in DOMAIN data |-> data[CHOOSE n \in DOMAIN data : Place(n) = r]]

\* The highest anchor, which is the outermost, first; thread states without
\* frames, which have none, last; and equal ones as they came.
ComesBefore(data, m, n) ==
  \/ data[m].stack_anchor > data[n].stack_anchor
  \/ data[m].stack_anchor = data[n].stack_anchor /\ m < n

Rank(data, n) == 1 + Cardinality({m \in DOMAIN data : ComesBefore(data, m, n)})

SortThreadsByStackAnchor(data) ==
  [r \in DOMAIN data |-> data[CHOOSE n \in DOMAIN data : Rank(data, n) = r]]

IsEvalFrame(t, i) == Kind(t, i) = "eval"

\* Where the eval frames are among the native ones.
EvalIndex(t, native) ==
  Selected([i \in DOMAIN native |-> i], {i \in DOMAIN native : IsEvalFrame(t, native[i])})

\* The cursor behind the first n thread states: their entry frames.
EntriesUpTo(data, n) ==
  LET cursor[m \in 0 .. Len(data)] ==
        IF m = 0 THEN 0 ELSE cursor[m - 1] + NumEntryFrames(data[m])
  IN cursor[n]

\* Where the native frames that the thread states behind the cursor get begin.
SliceEnd(native, eval_index, cursor) ==
  IF cursor < Len(eval_index) THEN eval_index[cursor + 1] - 1 ELSE Len(native)

\* Each thread state gets the native frames from its first eval frame up to that
\* of the next one; the first also gets what is outside of it.
SliceNativeStack(data) ==
  LET native == data[1].native_frames
      eval_index == EvalIndex(data[1].tid, native)
      End(n) == IF EntriesUpTo(data, n) = 0 THEN 0
                ELSE SliceEnd(native, eval_index, EntriesUpTo(data, n))
      Sliced(n) == IF NumEntryFrames(data[n]) = 0 THEN <<>>
                   ELSE SubSeq(native, End(n - 1) + 1, End(n))
  IN IF native = <<>> \/ Len(eval_index) # EntriesUpTo(data, Len(data)) THEN data
     ELSE [n \in DOMAIN data |-> [data[n] EXCEPT !.native_frames = Sliced(n)]]

NormalizeGroup(group, mode) ==
  IF Len(group) = 1 THEN group
  ELSE IF mode = "off" THEN SortThreadsByStackAnchor(group)
  ELSE SliceNativeStack(SortThreadsByStackAnchor(group))

GroupOf(threads, tid) == Selected(threads, {n \in DOMAIN threads : threads[n].tid = tid})

\* Mutant of NormalizeThreads: every thread starts a group.
NormalizeThreadsRegrouped(threads, mode) ==
  FlattenSeq([g \in DOMAIN threads |-> NormalizeGroup(GroupOf(threads, threads[g].tid), mode)])

\* Threads are grouped by tid, in the order in which the tids are first seen.
NormalizeThreads(threads, mode) ==
  LET firsts == Selected([n \in DOMAIN threads |-> n],
                  {n \in DOMAIN threads : \A m \in 1 .. n - 1 : threads[m].tid # threads[n].tid})
  IN FlattenSeq([g \in DOMAIN firsts |->
       NormalizeGroup(GroupOf(threads, threads[firsts[g]].tid), mode)])

-----------------------------------------------------------------------------
(* format_thread.                                                           *)

NumEvalFrames(thread) ==
  Cardinality({n \in DOMAIN thread.native_frames :
                 IsEvalFrame(thread.tid, thread.native_frames[n])})

\* Mutant of AreTheStacksMergeable: more eval frames than entry frames will do.
AreTheStacksRoughlyMergeable(thread) == NumEvalFrames(thread) >= NumEntryFrames(thread)

AreTheStacksMergeable(thread) == NumEvalFrames(thread) = NumEntryFrames(thread)

\* Mutant of NextEntry: the frames an eval loop runs inline are not printed with it.
NextFrame(frames, n) == n + 1

\* The first entry frame after frame n, or the end.
NextEntry(frames, n) ==
  Min({m \in n + 1 .. Len(frames) : frames[m].is_entry} \cup {Len(frames) + 1})

\* What one native frame prints.  An eval frame stands for the Python frame that
\* is next and those after it that are no entry frames.
FormatNativeFrame(acc, tid, i, frames, native_last) ==
  IF IsEvalFrame(tid, i) /\ acc.next > Len(frames) THEN [acc EXCEPT !.asserts = FALSE]
  ELSE IF IsEvalFrame(tid, i)
    THEN [acc EXCEPT
            !.held = <<>>,
            !.lines = @ \o [n \in 1 .. NextEntry(frames, acc.next) - acc.next |->
                              frames[acc.next + n - 1].at],
            !.next = NextEntry(frames, acc.next)]
  ELSE IF native_last THEN [acc EXCEPT !.held = Append(@, i)]
  ELSE [acc EXCEPT !.lines = Append(@, i)]

\* One pass over the native frames; the Python frames are printed from the outermost on.
FormatMergedStacks(thread, native_last) ==
  LET native == thread.native_frames
      after[n \in 0 .. Len(native)] ==
        IF n = 0 THEN [lines |-> <<>>, held |-> <<>>, next |-> 1, asserts |-> TRUE]
        ELSE FormatNativeFrame(after[n - 1], thread.tid, native[n],
                               Reverse(thread.frames), native_last)
      done == after[Len(native)]
  IN [done EXCEPT !.lines = @ \o done.held]

\* The stacks are printed merged if they can be, or else the Python frames alone.
FormatThread(thread, mode) ==
  IF mode # "off" /\ AreTheStacksMergeable(thread)
    THEN LET merged == FormatMergedStacks(thread, mode = "last")
         IN [state |-> thread.state, tid |-> thread.tid, lines |-> merged.lines,
             merged |-> TRUE, asserts |-> merged.asserts]
    ELSE [state |-> thread.state, tid |-> thread.tid,
          lines |-> [n \in DOMAIN thread.frames |-> Reverse(thread.frames)[n].at],
          merged |-> FALSE, asserts |-> TRUE]

-----------------------------------------------------------------------------

\* Before 3.11 only the main interpreter is looked at.
Collected(s, idle) ==
  /\ FrameChain(s) # <<>> \/ s \in idle
  /\ s \in Main \/ python_version >= 311

\* What the unwinder may lose, what may be unreadable, which thread states are
\* there without frames, and where the others' frames may lie.
Losses == {lost \in [Tid -> 0 .. MaxLost] : \A t \in Tid : lost[t] <= Len(NativeFrames(t, 0))}
Unreadable ==
  {u \in SUBSET UNION {{t} \X {i \in DOMAIN stack[t] : Kind(t, i) = "py"} : t \in Tid} :
     Cardinality(u) <= MaxUnreadable}
Idle ==
  {idle \in SUBSET {s \in TState : FrameChain(s) = <<>>} : Cardinality(idle) <= MaxIdle}
Heaps ==
  LET active == IF HasShims THEN {} ELSE {s \in TState : FrameChain(s) # <<>>}
  IN {[s \in TState |-> IF s \in active THEN f[s] ELSE 0] :
        f \in Bijection(active, 1 .. Cardinality(active))}

\* get_process_threads, of a target that does not run meanwhile.
Capture ==
  /\ report = None
  /\ \E order \in Orders, idle \in Idle,
        mode \in Modes, lost \in Losses, unreadable \in Unreadable, heap \in Heaps :
       LET threads == Selected(
             [n \in DOMAIN order |-> BuildPythonThread(order[n], mode, lost, unreadable, heap)],
             {n \in DOMAIN order : Collected(order[n], idle)})
           normal == NormalizeThreads(threads, mode)
       IN report' = [mode |-> mode, lost |-> lost, unreadable |-> unreadable,
                     threads |-> [n \in DOMAIN normal |-> FormatThread(normal[n], mode)]]
  /\ UNCHANGED stackVars

Resume ==
  /\ report # None
  /\ report' = None
  /\ UNCHANGED stackVars

Next ==
  \/ report = None /\ StacksNext /\ UNCHANGED report
  \/ Capture
  \/ Resume

Spec == Init /\ [][Next]_vars

-----------------------------------------------------------------------------
(* What the reader of a report relies on.                                   *)

Line == 1 .. MaxDepth
ThreadReport ==
  [state : TState, tid : Tid, lines : Seq(Line), merged : BOOLEAN, asserts : BOOLEAN]

\* Each thread state is reported once (bindings.cpp:643-671).
TypeOK ==
  /\ StacksTypeOK
  /\ report # None =>
       /\ report.mode \in Modes
       /\ report.threads \in Seq(ThreadReport)
       /\ \A m, n \in DOMAIN report.threads :
            report.threads[m].state = report.threads[n].state => m = n

\* What is printed for OS thread t, over all its thread states.
LinesOf(t) ==
  FlattenSeq([n \in DOMAIN report.threads |->
    IF report.threads[n].tid = t THEN report.threads[n].lines ELSE <<>>])

Reported(s) == s \in Main \/ python_version >= 311

\* Merging never runs out of Python frames (the assert of
\* traceback_formatter.py:130), whatever the unwinder and the reader lost and
\* however the interpreters are interleaved.
NeverRunsOut ==
  report # None => \A n \in DOMAIN report.threads : report.threads[n].asserts

\* Every Python frame that could be read is printed once, merged or not, and no
\* native frame twice: unless both unwinding and reading were incomplete.
EveryFrameOnce ==
  report # None =>
    \A t \in Tid : report.lost[t] = 0 \/ report.unreadable = {} => \A i \in 1 .. Len(stack[t]) :
      LET times == Cardinality({n \in DOMAIN LinesOf(t) : LinesOf(t)[n] = i})
      IN /\ Kind(t, i) = "py" /\ Reported(stack[t][i].of) /\ <<t, i>> \notin report.unreadable
              => times = 1
         /\ Kind(t, i) = "c" /\ report.lost[t] = 0 => times <= 1
         /\ Kind(t, i) = "eval" => times = 0

\* No thread state runs both outside and inside of another one.
Nested(t) ==
  \A i, j, k \in 1 .. Len(stack[t]) :
    i < j /\ j < k /\ stack[t][i].of = stack[t][k].of /\ stack[t][i] # C /\ stack[t][j] # C
      => stack[t][j].of = stack[t][i].of

StatesOn(t) == {stack[t][i].of : i \in 1 .. Len(stack[t])} \ {NoState}

\* In mode "last" only the native calls after the last Python frame of a thread
\* state are shown.
Shown(t, i) ==
  LET evals == {j \in 1 .. Len(stack[t]) : Kind(t, j) = "eval"}
      before == {j \in evals : j < i}
      after == {j \in evals : j > i}
  IN \/ Kind(t, i) = "py"
     \/ Kind(t, i) = "c" /\ report.mode = "python"
     \/ /\ Kind(t, i) = "c" /\ report.mode = "last" /\ before # {}
        /\ after # {} => stack[t][Min(after)].of # stack[t][Max(before)].of

\* The report of a thread whose stacks were read in full is the true order of
\* its calls, through every change of interpreter (docs/overview.rst:18 and
\* docs/multiple_interpreters.rst:104): native calls are where they were made
\* and belong to the interpreter that made them.
MergedIsCallOrder ==
  report # None /\ report.unreadable = {} =>
    \A t \in Tid :
      /\ report.lost[t] = 0
      /\ StatesOn(t) # {}
      /\ Last(stack[t]).kind # "eval"
      /\ \A s \in StatesOn(t) : Reported(s)
      /\ Nested(t)
      /\ HasShims \/ Cardinality(StatesOn(t)) = 1
      => LinesOf(t) = Selected(Positions(t), {i \in DOMAIN stack[t] : Shown(t, i)})

\* Stacks that were read in full are merged, also when an eval loop has been
\* entered whose frame is not there yet (the comment at pyframe.cpp:117-120).
FullStacksMerge ==
  report # None /\ report.mode # "off" /\ report.unreadable = {} =>
    \A n \in DOMAIN report.threads :
      report.lost[report.threads[n].tid] = 0 => report.threads[n].merged
=============================================================================
