------------------------------ MODULE PyFrame ------------------------------
(***************************************************************************)
(* pyframe.cpp: FrameObject, one frame of the stack of a Python thread,    *)
(* with its code and its local variables.  The stack of a target t, as     *)
(* CPython keeps it (external), is made of its evals: the calls of the     *)
(* evaluation loop, the innermost first, each with its frames.             *)
(***************************************************************************)
EXTENDS PyTypes, PyCode

\* A frame of CPython.  code: its code object; at: the instruction that it executes;
\* locals: the addresses of its variables, the arguments first; locals_readable.
\* A shim is what CPython puts under the frames of an eval from 3.12 on; in 3.11 the
\* outermost of them has a flag.
Shim == [shim |-> TRUE, is_entry |-> FALSE]
StackFrame(f, is_entry) ==
  [shim |-> FALSE, is_entry |-> is_entry, code |-> f.code, at |-> f.at, locals |-> f.locals,
   locals_readable |-> f.locals_readable]

EvalFrames(t, frames) ==
  [k \in DOMAIN frames |-> StackFrame(frames[k], t.minor = 11 /\ k = Len(frames))]
    \o (IF t.minor >= 12 THEN <<Shim>> ELSE <<>>)

\* The chain of o_back, from the innermost frame, through the first k evals.
FramesTo(t, k) == FlattenSeq([j \in 1 .. k |-> EvalFrames(t, t.evals[j])])

StackOf(t) == FramesTo(t, Len(t.evals))

\* The frames up to the first that cannot be read.
Readable(t, n) == n < t.unreadable_from

-----------------------------------------------------------------------------

GetIsShim(t, f) == t.minor >= 12 /\ f.shim

\* A code object that cannot be made sense of, or of which a name is not ASCII, is
\* there all the same, and is called "???".
GetCode(t, f, posinfo) ==
  IF f.code.understood
    THEN [filename |-> f.code.filename, scope |-> f.code.name,
          location |-> GetLocationInfo(t, f.code, f.at, posinfo)]
    ELSE [filename |-> "???", scope |-> "???", location |-> LocationInfo(0, 0, 0, 0)]

NoCode == [filename |-> "", scope |-> "", location |-> LocationInfo(0, 0, 0, 0)]

\* The constructor, up to the previous frame: a shim has no code and no number.
FrameObject(t, n, frame_no, posinfo) ==
  LET f == StackOf(t)[n]
      is_shim == GetIsShim(t, f)
  IN [at |-> n, frame_no |-> frame_no, is_shim |-> is_shim,
      code |-> IF is_shim THEN NoCode ELSE GetCode(t, f, posinfo)]

NextFrameNo(frame) == IF frame.is_shim THEN frame.frame_no ELSE frame.frame_no + 1

\* Mutant of IsEntry: the flag of 3.11 is looked for in later versions too.
IsEntryByFlag(t, chain, n) ==
  IF t.minor >= 11 THEN StackOf(t)[n].is_entry ELSE TRUE

\* What follows when the previous frame is there: chain holds the frames read.
IsEntry(t, chain, n) ==
  CASE t.minor >= 12 ->
         \/ n + 1 \in DOMAIN chain /\ chain[n + 1].is_shim
         \/ chain[n].frame_no = 0 /\ chain[n].is_shim
    [] t.minor = 11 -> StackOf(t)[n].is_entry
    [] OTHER -> TRUE

\* The arguments and the other variables that have a value: from the index of the
\* name to the text of the value.
ResolveLocalVariables(t, f) ==
  LET Bound(from, to) == {i \in from .. to : f.locals[i] # Null}
      TextsOf(indices) == [i \in indices |-> ObjectText(t, f.locals[i], MAX_LOCAL_STR_SIZE)]
  IN [arguments |-> TextsOf(Bound(1, f.code.argcount)),
      locals |-> TextsOf(Bound(f.code.argcount + 1, Len(f.locals)))]
=============================================================================
