-------------------------- MODULE MCProcessTracer --------------------------
(* Small thread groups and sets of tracers for ProcessTracer.               *)
EXTENDS ProcessTracer, TLC

CONSTANTS t1, t2, u1, u2, u3

ThreeTids == {u1, u2, u3}
OneTracer == {t1}
TwoTracers == {t1, t2}
=============================================================================
