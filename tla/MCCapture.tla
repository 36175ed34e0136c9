----------------------------- MODULE MCCapture -----------------------------
(* Small thread groups, and the requests worth telling apart.               *)
EXTENDS Capture, TLC

CONSTANTS t1, u1, u2, u3

ThreeTids == {u1, u2, u3}
OneTracer == {t1}

\* With --no-block, and without native stacks (__main__.py:287), all threads may
\* run Python; of a process that is stopped two do.
Stopping ==
  [stop : {TRUE}, native : {"off", "all"}, infer : {TRUE}, found : {TRUE}, able : {{u1, u2}}]
    \cup [stop : {TRUE}, native : {"python"}, infer : {FALSE}, found : {TRUE}, able : {{u1, u2}}]
    \cup [stop : {TRUE}, native : {"off", "all"}, infer : {FALSE}, found : {FALSE}, able : {{u1}}]
Running ==
  [stop : {FALSE}, native : {"off"}, infer : BOOLEAN, found : {TRUE}, able : {ThreeTids}]
SomeRequests == Stopping \cup Running
=============================================================================
