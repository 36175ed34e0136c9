------------------------- MODULE MCNormalizeThreads -------------------------
(* Three interpreters on one OS thread.                                     *)
EXTENDS NormalizeThreads

CONSTANTS main, sub, inner, t1

Three == {main, sub, inner}
OnOneThread == [s \in Three |-> t1]
OneOrder == {<<inner, sub, main>>}
=============================================================================
