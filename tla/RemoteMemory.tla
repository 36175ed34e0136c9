---------------------------- MODULE RemoteMemory ----------------------------
(***************************************************************************)
(* What the readers of pystack expect of copyMemoryFromProcess: one        *)
(* request at a time, answered with bytes the target has really held.      *)
(***************************************************************************)
EXTENDS Integers, Sequences

CONSTANTS
  Addr,      \* the addresses of the target; one stands for a page
  Val,       \* what a readable page may hold
  Unmapped,  \* what mem says of a page that cannot be read
  Lengths,   \* the lengths of the requests
  None

VARIABLES
  mem,      \* the target's memory
  alive,    \* the target has not been killed
  seen,     \* seen[a]: everything page a has been since the capture began
  usable,   \* the operating system lets this process read the target
  request,  \* the request being served, or None
  answer    \* the last answer, or None

vars == <<mem, alive, seen, usable, request, answer>>

Pages(r) == r.addr .. r.addr + r.len - 1
Request == {r \in [addr : Addr, len : Lengths] : Pages(r) \subseteq Addr}

\* What copyMemoryFromProcess returns, or throws.
Data(r, data) == [request |-> r, threw |-> "nothing", data |-> data]
Thrown(r, exception) == [request |-> r, threw |-> exception, data |-> <<>>]

Init ==
  /\ mem \in [Addr -> Val \cup {Unmapped}]
  /\ alive = TRUE
  /\ seen = [a \in Addr |-> {mem[a]}]
  /\ usable \in BOOLEAN
  /\ request = None
  /\ answer = None

Ask ==
  /\ request = None
  /\ request' \in Request
  /\ answer' = None
  /\ UNCHANGED <<mem, alive, seen, usable>>

\* Every page of the answer is one the target held at that address.
Reply ==
  /\ request # None
  /\ usable
  /\ \E data \in [1 .. request.len -> Val] :
       /\ \A i \in 1 .. request.len : data[i] \in seen[request.addr + i - 1]
       /\ answer' = Data(request, data)
  /\ request' = None
  /\ UNCHANGED <<mem, alive, seen, usable>>

\* InvalidRemoteAddress: some page that was asked for could not be read.
Refuse ==
  /\ request # None
  /\ usable
  /\ \E a \in Pages(request) : Unmapped \in seen[a]
  /\ answer' = Thrown(request, "InvalidRemoteAddress")
  /\ request' = None
  /\ UNCHANGED <<mem, alive, seen, usable>>

\* Any other exception: the operating system refuses or the target is dead.
Fail ==
  /\ request # None
  /\ ~usable \/ ~alive
  /\ answer' = Thrown(request, "other")
  /\ request' = None
  /\ UNCHANGED <<mem, alive, seen, usable>>

\* The target writes to, maps and unmaps pages, and may be killed.
TargetSteps ==
  /\ alive
  /\ mem' \in [Addr -> Val \cup {Unmapped}]
  /\ alive' \in BOOLEAN
  /\ seen' = [a \in Addr |-> seen[a] \cup {mem'[a]}]
  /\ UNCHANGED <<usable, request, answer>>

Next == Ask \/ Reply \/ Refuse \/ Fail \/ TargetSteps

Spec == Init /\ [][Next]_vars
=============================================================================
