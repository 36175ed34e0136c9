-------------------------------- MODULE Lists --------------------------------
(***************************************************************************)
(* What is taken from a list, in its order, and the sum of numbers, as     *)
(* functions that the provers can expand.                                  *)
(***************************************************************************)
EXTENDS Integers, Sequences

Selected(s, Places) ==
  LET taken[n \in 0 .. Len(s)] ==
        IF n = 0 THEN <<>>
        ELSE IF n \in Places THEN Append(taken[n - 1], s[n]) ELSE taken[n - 1]
  IN taken[Len(s)]

\* The entries that pass a test.
Filtered(s, Test(_)) == Selected(s, {n \in DOMAIN s : Test(s[n])})

\* The sum of the first n entries.
SumOfFirst(s, n) ==
  LET sum[k \in 0 .. Len(s)] == IF k = 0 THEN 0 ELSE sum[k - 1] + s[k]
  IN sum[n]
=============================================================================
