--------------------------- MODULE PythonThreads ---------------------------
(***************************************************************************)
(* The thread states that CPython keeps of the threads of a process, as    *)
(* pythread.cpp reads them: external to the repository.  They are a linked *)
(* list, the newest first.  A thread state is allocated once and named     *)
(* after its thread; it says which OS thread it is of, either by itself    *)
(* (from 3.11 on) or through the pthread struct of that thread.            *)
(***************************************************************************)
EXTENDS ThreadGroup, SequencesExt

CONSTANT None  \* the null pointer

\* Thread ids are bounded (kernel.pid_max), and none of them is 0.
ASSUME PythonAssumption == None \notin Tids /\ IsFiniteSet(Tids)

VARIABLES
  head,   \* the newest thread state, or None
  next,   \* next[u]: the field of the thread state of u; it outlives the state
  owner   \* owner[u]: the thread that the thread state of u says it is of

pythonVars == <<head, next, owner>>

\* s is the list of the thread states, from the newest on.
IsThreadList(s) ==
  /\ head = IF s = <<>> THEN None ELSE s[1]
  /\ \A i \in DOMAIN s : next[s[i]] = IF i = Len(s) THEN None ELSE s[i + 1]

\* There are no more thread states than threads.
ThreadStates == CHOOSE s \in BoundedSeq(Tids, Cardinality(Tids)) : IsThreadList(s)

Linked(u) == \E i \in DOMAIN ThreadStates : ThreadStates[i] = u

PythonTypeOK ==
  /\ head \in Tids \cup {None}
  /\ next \in [Tids -> Tids \cup {None}]
  /\ owner \in [Tids -> Tids \cup {None}]

\* At the start the main thread has a thread state.
PythonInit ==
  /\ head = Pid
  /\ next = [u \in Tids |-> None]
  /\ owner = [u \in Tids |-> IF u = Pid THEN Pid ELSE None]

\* A thread makes a thread state for itself, or for a thread it will start; until
\* that thread runs, the state is taken for one of its maker.
LinkState(maker, u) ==
  /\ Runs(maker)
  /\ owner[u] = None
  /\ u = maker \/ (thread[u] = "unborn" /\ Linked(maker) /\ owner[maker] = maker)
  /\ head' = u
  /\ next' = [next EXCEPT ![u] = head]
  /\ owner' = [owner EXCEPT ![u] = maker]

BindState(u) ==
  /\ Runs(u)
  /\ Linked(u)
  /\ owner[u] # u
  /\ owner' = [owner EXCEPT ![u] = u]
  /\ UNCHANGED <<head, next>>

\* A thread frees its thread state; others that end leave theirs behind.
UnlinkState(u) ==
  /\ u # Pid
  /\ Runs(u)
  /\ Linked(u)
  /\ owner[u] = u
  /\ head' = IF head = u THEN next[u] ELSE head
  /\ next' = [v \in Tids |-> IF Linked(v) /\ next[v] = u THEN next[u] ELSE next[v]]
  /\ UNCHANGED owner

PythonNext(able) ==
  \/ \E maker \in able, u \in able : LinkState(maker, u)
  \/ \E u \in able : BindState(u) \/ UnlinkState(u)
=============================================================================
