------------------------------ MODULE PyThread ------------------------------
(***************************************************************************)
(* pythread.cpp, and buildPythonThread of thread_builder.cpp: how one      *)
(* Python thread of a stopped target is read, from the innermost frame on, *)
(* and what is reported of it: its frames with their positions and their   *)
(* variables, its thread id, and what it does with the GIL and the         *)
(* collector (types.py).  Where its thread state is comes from Capture.    *)
(***************************************************************************)
EXTENDS PyFrame, Lists

CONSTANTS
  Targets,  \* the threads that are read
  Junk      \* what a variable may hold that was not initialized

VARIABLES
  target,  \* the thread
  stage,   \* "frames", "status", "build", "built", "threw"
  chain,   \* the frame objects, the innermost first
  thread,  \* d_tid, d_gil_status and d_gc_status
  current, \* the frame that buildFrameStack is at
  frames   \* the PyFrameData of the report

vars == <<target, stage, chain, thread, current, frames>>

-----------------------------------------------------------------------------
(* What CPython keeps of a thread.                                         *)

\* Up to 3.10 each frame has a call of the evaluation loop to itself.
EvalsAreTyped(t) ==
  LET called == UNION {ToSet(frs) : frs \in ToSet(t.evals)}
  IN /\ t.evals \in Seq(Seq(called))
     /\ t.minor < 11 => \A k \in DOMAIN t.evals : Len(t.evals[k]) <= 1
     /\ \A f \in called :
          /\ f.code.understood \in BOOLEAN
          /\ f.code.understood => f.code.filename # "???"
          /\ CodeIsTyped(t.minor, f.code)
          /\ f.at \in DOMAIN f.code.instrs

ASSUME TargetsAssumption ==
  \A t \in Targets :
    /\ t.minor \in Nat
    /\ t.unreadable_from \in Nat
    /\ EvalsAreTyped(t)
    /\ t.gil \in {"free", "this", "other", "taking"}
    /\ t.former \in {"this", "other"}
    /\ t.symbols \in BOOLEAN
    /\ t.collecting \in BOOLEAN
    /\ t.pthreads \in Seq(Seq({"pid", "tid", "zero", "else"})) \ {<<>>}

\* gil: "free", "this" or "other" holds it, or "taking": another thread has locked it
\* and not yet written its name.  former: who held it last.
LastHolder(t) == IF t.gil \in {"this", "other"} THEN t.gil ELSE t.former
Locked(t) == t.gil # "free"
TstateCurrent(t) == IF t.gil \in {"this", "other"} THEN t.gil ELSE "none"

\* How often the thread is found in _PyRuntime of 3.7.
Hits(t) == Cardinality({k \in 1 .. 2 : <<TstateCurrent(t), LastHolder(t)>>[k] = "this"})

-----------------------------------------------------------------------------
(* The thread id.                                                          *)

\* Up to 3.10 a thread state has the address of the pthread struct of its thread.
\* pthreads: the structs of the threads in the list, this thread's first, as far as
\* they can be read; a word is "pid", "tid", "zero" or something else.
Candidates == <<1, 2>>   \* where the structs of glibc have the tid
MaxWords == 4            \* the words that are searched, 100 in the code

Word(struct, i) == IF i \in DOMAIN struct THEN struct[i] ELSE "unreadable"

\* What can be read: all of the buffer, its half, or a quarter of it.
BufferSize(struct) ==
  Max({0} \cup {n \in {MaxWords, MaxWords \div 2, MaxWords \div 4} : n <= Len(struct)})

KnownOffset(struct) == Filtered(Candidates, LAMBDA c : Word(struct, c) = "pid")

ScannedOffset(struct) ==
  Filtered([i \in 1 .. BufferSize(struct) |-> i], LAMBDA i : struct[i] = "pid")

\* Mutant of FindPthreadTidOffset: only the thread itself is looked at.
FindPthreadTidOffsetHere(t) ==
  LET offsets == KnownOffset(t.pthreads[1]) \o ScannedOffset(t.pthreads[1])
  IN IF offsets = <<>> THEN 0 ELSE Head(offsets)

\* The main thread, whose tid is the pid, may be anywhere in the list; 0 if it is not
\* found, which is where a struct points to itself.
FindPthreadTidOffset(t) ==
  LET known == FlattenSeq([k \in DOMAIN t.pthreads |-> KnownOffset(t.pthreads[k])])
      scanned == FlattenSeq([k \in DOMAIN t.pthreads |-> ScannedOffset(t.pthreads[k])])
      offsets == known \o scanned
  IN IF offsets = <<>> THEN 0 ELSE Head(offsets)

GetThreadTid(t) ==
  IF t.minor >= 11 THEN "tid" ELSE Word(t.pthreads[1], FindPthreadTidOffset(t))

\* A thread id must be one of the process, or 0.
IsThreadId(word) == word \in {"pid", "tid", "zero"}

-----------------------------------------------------------------------------
(* The GIL and the collector.                                              *)

\* Mutant of CalculateGilStatus: the last holder is taken for the holder.
CalculateGilStatusByHolder(t) ==
  IF ~t.symbols THEN "UNKNOWN"
  ELSE IF LastHolder(t) = "this" THEN "HELD" ELSE "NOT_HELD"

\* _PyRuntime, and up to 3.6 _PyThreadState_Current, must be found by name.
CalculateGilStatus(t) ==
  LET held == CASE t.minor >= 12 -> Locked(t) /\ LastHolder(t) = "this"
                [] t.minor \in 8 .. 11 -> TstateCurrent(t) = "this"
                [] t.minor = 7 -> Hits(t) = 2
                [] OTHER -> TstateCurrent(t) = "this"
  IN IF ~t.symbols THEN "UNKNOWN" ELSE IF held THEN "HELD" ELSE "NOT_HELD"

\* The collector is one of the interpreter, and one of the runtime before 3.9.
CalculateGCStatus(t) ==
  IF t.minor >= 9 \/ (t.minor >= 7 /\ t.symbols)
    THEN IF t.collecting THEN "COLLECTING" ELSE "NOT_COLLECTING"
    ELSE "COLLECTING_UNKNOWN"

\* What the report says (types.py): with native frames they tell about the collector,
\* without, whatever is not known not to hold the GIL is said to collect.
GilText(t, th) ==
  CASE th.gil = "HELD" -> "Has the GIL"
    [] th.gil # "HELD" /\ "take_gil" \in t.native -> "Waiting for the GIL"
    [] th.gil # "HELD" /\ "take_gil" \notin t.native /\ "drop_gil" \in t.native ->
         "Dropping the GIL"
    [] OTHER -> ""

SaysCollecting(t, th) ==
  IF t.native # {} THEN "collect" \in t.native
  ELSE th.gc = "COLLECTING" /\ th.gil # "NOT_HELD"

-----------------------------------------------------------------------------
(* Reading a thread.                                                       *)

NoThread == [tid |-> "zero", gil |-> "UNKNOWN", gc |-> "COLLECTING_UNKNOWN"]

Init ==
  /\ target \in Targets
  /\ stage = "frames"
  /\ chain = <<>>
  /\ thread = NoThread
  /\ current = 1
  /\ frames = <<>>

Read == Len(chain) + 1

\* One constructor of FrameObject, which goes on to the previous frame.
ReadFrame ==
  /\ stage = "frames"
  /\ Read \in DOMAIN StackOf(target)
  /\ Readable(target, Read)
  /\ \E junk \in Junk :
       LET frame_no == IF chain = <<>> THEN 0 ELSE NextFrameNo(chain[Len(chain)])
           posinfo == LocationInfo(junk, junk, junk, junk)
       IN chain' = Append(chain, FrameObject(target, Read, frame_no, posinfo))
  /\ UNCHANGED <<target, stage, thread, current, frames>>

\* The first frame must be there; an unreadable one behind it ends the chain.
FramesEnd ==
  /\ stage = "frames"
  /\ Read \in DOMAIN StackOf(target) => ~Readable(target, Read)
  /\ stage' = IF chain = <<>> /\ StackOf(target) # <<>> THEN "threw" ELSE "status"
  /\ UNCHANGED <<target, chain, thread, current, frames>>

\* The rest of the constructor of PyThread.
ReadStatus ==
  /\ stage = "status"
  /\ IsThreadId(GetThreadTid(target))
  /\ stage' = "build"
  /\ thread' = [tid |-> GetThreadTid(target), gil |-> CalculateGilStatus(target),
                gc |-> CalculateGCStatus(target)]
  /\ UNCHANGED <<target, chain, current, frames>>

ReadStatusThrows ==
  /\ stage = "status"
  /\ ~IsThreadId(GetThreadTid(target))
  /\ stage' = "threw"
  /\ UNCHANGED <<target, chain, thread, current, frames>>

AtFrame ==
  /\ stage = "build"
  /\ current \in DOMAIN chain

HasCode == ~chain[current].is_shim /\ chain[current].code.filename # "???"

\* Frames without code are left out.
SkipFrame ==
  /\ AtFrame
  /\ ~HasCode
  /\ current' = current + 1
  /\ UNCHANGED <<target, stage, chain, thread, frames>>

\* One round of buildFrameStack.
BuildFrame ==
  LET frame == chain[current]
      source == StackOf(target)[current]
  IN /\ AtFrame
     /\ HasCode
     /\ source.locals_readable
     /\ frames' = Append(frames,
          [code |-> frame.code, is_entry |-> IsEntry(target, chain, current), at |-> current,
           variables |-> ResolveLocalVariables(target, source)])
     /\ current' = current + 1
     /\ UNCHANGED <<target, stage, chain, thread>>

\* The copy of the variables of a frame is not caught, and ends the report.
BuildFrameThrows ==
  /\ AtFrame
  /\ HasCode
  /\ ~StackOf(target)[current].locals_readable
  /\ stage' = "threw"
  /\ UNCHANGED <<target, chain, thread, current, frames>>

BuildEnds ==
  /\ stage = "build"
  /\ current \notin DOMAIN chain
  /\ stage' = "built"
  /\ UNCHANGED <<target, chain, thread, current, frames>>

Next ==
  \/ ReadFrame
  \/ FramesEnd
  \/ ReadStatus
  \/ ReadStatusThrows
  \/ SkipFrame
  \/ BuildFrame
  \/ BuildFrameThrows
  \/ BuildEnds

Spec == Init /\ [][Next]_vars

-----------------------------------------------------------------------------
(* Positions.                                                              *)

\* A frame is reported at the line that it executes.
LinesAreTheTargets ==
  \A k \in DOMAIN frames :
    LET f == StackOf(target)[frames[k].at]
    IN frames[k].code.location.lineno = LineBefore(f.code, f.at + 1)

\* A frame is reported at the line that it executes and, from 3.11 on, at the columns
\* of its expression, with its last line where the table gives it.
PositionsAreTheTargets ==
  /\ LinesAreTheTargets
  /\ \A k \in DOMAIN frames :
       LET f == StackOf(target)[frames[k].at]
           instr == f.code.instrs[f.at]
           location == frames[k].code.location
           stated == LocationTable(f.code)[f.at].form
       IN target.minor >= 11 /\ instr.line # NoLine =>
            /\ location.column = instr.column
            /\ instr.column = NoColumn \/ location.end_column = instr.end_column
            /\ stated \in {"long", "one_line"} => location.end_lineno = instr.end_line

-----------------------------------------------------------------------------
(* Frames.                                                                 *)

\* Whether the frame is the first that its call of the evaluation loop ran.
OutermostOfEval(t, n) ==
  \E k \in DOMAIN t.evals :
    /\ t.evals[k] # <<>>
    /\ n = Len(FramesTo(t, k)) - (IF t.minor >= 12 THEN 1 ELSE 0)

\* The structs tell the tid: what can be read of one of them has the main thread's,
\* and the pid is nowhere but where the tids are.
TidsAreTold(t) ==
  /\ \E k \in DOMAIN t.pthreads :
       /\ Word(t.pthreads[k], t.tid_at) = "pid"
       /\ t.tid_at \in ToSet(Candidates) \/ Len(t.pthreads[k]) = MaxWords
  /\ \A k \in DOMAIN t.pthreads, i \in 1 .. MaxWords :
       Word(t.pthreads[k], i) = "pid" => i = t.tid_at

\* The tid of the thread where it can be told, and otherwise what no thread has.
TrueTid(t) ==
  IF t.minor >= 11 THEN "tid"
  ELSE IF TidsAreTold(t) THEN Word(t.pthreads[1], t.tid_at) ELSE "untold"

\* The frames of a thread are those of the target, without one missing, up to the
\* first that cannot be read; the ones that are known to be the first of their call
\* of the evaluation loop are marked.  Nothing is reported of a thread only if its
\* innermost frame, its variables or its thread id cannot be read.
FramesAreTheTargets ==
  LET stack == StackOf(target)
      Reported(n) == Readable(target, n) /\ ~stack[n].shim /\ stack[n].code.understood
      expected == Filtered([n \in DOMAIN stack |-> n], Reported)
  IN /\ stage = "built" => [k \in DOMAIN frames |-> frames[k].at] = expected
     /\ \A k \in DOMAIN frames :
          LET n == frames[k].at
          IN frames[k].is_entry <=>
               OutermostOfEval(target, n) /\ (target.minor >= 12 => Readable(target, n + 1))
     /\ stage = "threw" =>
          \/ stack # <<>> /\ ~Readable(target, 1)
          \/ ~IsThreadId(TrueTid(target))
          \/ \E k \in ToSet(expected) : ~stack[k].locals_readable

-----------------------------------------------------------------------------
(* The thread id, the GIL and the collector.                               *)

\* Another thread took the GIL and has not yet put its name on it.
JustTakenFromThis(t) == t.minor >= 12 /\ t.gil = "taking" /\ t.former = "this"

\* What is said of a thread is so: its tid is that of the thread, it is said to have
\* the GIL if and only if it has it, or had it until now;
\* and without native frames it is said to collect only if it does.
StatusIsTheTargets ==
  stage = "built" =>
    /\ TrueTid(target) \in {thread.tid, "untold"}
    /\ target.symbols =>
         (GilText(target, thread) = "Has the GIL"
            <=> target.gil = "this" \/ JustTakenFromThis(target))
    /\ target.native = {} /\ target.symbols =>
         (SaysCollecting(target, thread)
            <=> /\ target.minor >= 7
                /\ target.collecting
                /\ target.gil = "this" \/ JustTakenFromThis(target))
=============================================================================
