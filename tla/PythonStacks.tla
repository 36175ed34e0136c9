---------------------------- MODULE PythonStacks ----------------------------
(***************************************************************************)
(* What CPython and C do on the stacks of the OS threads of a target:      *)
(* external to the repository, modelled from how pyframe.cpp, pythread.cpp *)
(* and thread_builder.cpp read it.  An OS thread with several thread       *)
(* states runs several interpreters on one stack.  Each stack is the true  *)
(* order of its calls: C frames, runs of the eval loop, Python frames.     *)
(***************************************************************************)
EXTENDS Integers, Sequences, SequencesExt

CONSTANTS
  TState,    \* the thread states: one interpreter on one OS thread each
  TidOf,     \* TidOf[s]: the OS thread of thread state s
  NoState,   \* whose a C frame is
  Versions,  \* the versions of Python the target may run
  MaxDepth   \* bounds the entries of a stack

Version == {310, 311, 312}

ASSUME StacksAssumption ==
  /\ NoState \notin TState
  /\ DOMAIN TidOf = TState
  /\ Versions \subseteq Version
  /\ MaxDepth \in Nat

VARIABLES
  stack,          \* stack[t]: what thread t is executing, the outermost call first
  python_version  \* the version of the target

stackVars == <<stack, python_version>>

Tid == {TidOf[s] : s \in TState}
Frame == [kind : {"c"}, of : {NoState}] \cup [kind : {"eval", "py"}, of : TState]

StacksTypeOK ==
  /\ DOMAIN stack = Tid
  /\ \A t \in Tid : stack[t] \in Seq(Frame)
  /\ python_version \in Versions

StacksInit ==
  /\ stack = [t \in Tid |-> <<>>]
  /\ python_version \in Versions

\* From 3.12 on the eval loop starts with a shim of its own and pushes the frame
\* it runs later; before, the frame is there when the loop starts.
HasShims == python_version >= 312

\* From 3.11 on a Python function calls another without a new eval loop.
Inlines == python_version >= 311

Top(t, kind, s) ==
  stack[t] # <<>> /\ Last(stack[t]).kind = kind /\ Last(stack[t]).of = s

Push(t, entries) ==
  /\ Len(stack[t]) + Len(entries) <= MaxDepth
  /\ stack' = [stack EXCEPT ![t] = @ \o entries]
  /\ UNCHANGED python_version

C == [kind |-> "c", of |-> NoState]
Eval(s) == [kind |-> "eval", of |-> s]
Py(s) == [kind |-> "py", of |-> s]

CallC(t) ==
  /\ stack[t] # <<>> => Last(stack[t]).kind # "eval"
  /\ Push(t, <<C>>)

\* Only C code switches to another thread state.
CallEval(s) ==
  /\ stack[TidOf[s]] = <<>> \/ Top(TidOf[s], "c", NoState) \/ Top(TidOf[s], "py", s)
  /\ Push(TidOf[s], IF HasShims THEN <<Eval(s)>> ELSE <<Eval(s), Py(s)>>)

PushFrame(s) ==
  /\ Top(TidOf[s], "eval", s)
  /\ Push(TidOf[s], <<Py(s)>>)

CallInline(s) ==
  /\ Inlines
  /\ Top(TidOf[s], "py", s)
  /\ Push(TidOf[s], <<Py(s)>>)

\* A frame that came with its eval loop goes with it.
Pop(t) ==
  LET left == Front(stack[t])
  IN /\ stack[t] # <<>>
     /\ stack' = [stack EXCEPT ![t] =
          IF ~HasShims /\ left # <<>> /\ Last(left).kind = "eval" THEN Front(left) ELSE left]
     /\ UNCHANGED python_version

StacksNext ==
  \/ \E t \in Tid : CallC(t) \/ Pop(t)
  \/ \E s \in TState : CallEval(s) \/ PushFrame(s) \/ CallInline(s)
=============================================================================
