--------------------------- MODULE PyThreadProofs ---------------------------
(***************************************************************************)
(* The frames that are reported of a thread are those of the target, at    *)
(* their positions, and what is said of its thread id, the GIL and the     *)
(* collector is so, for every thread of Targets.                           *)
(***************************************************************************)
EXTENDS PyThread, ListsProofs

-----------------------------------------------------------------------------
(* The stack of a target.                                                   *)

\* The frames of the evals of t, as CPython has them on its stack.
Called(t) == UNION {ToSet(frs) : frs \in ToSet(t.evals)}

StackFrames(t) == {StackFrame(f, b) : f \in Called(t), b \in BOOLEAN} \cup {Shim}

EvalLists(t) == [j \in 1 .. Len(t.evals) |-> EvalFrames(t, t.evals[j])]

End(t, k) == Len(FramesTo(t, k))

\* From 3.12 on a shim is under the frames of an eval, in 3.11 its last frame has a flag.
Shims(t) == IF t.minor >= 12 THEN 1 ELSE 0

Flagged(t, frs, j) == t.minor = 11 /\ j = Len(frs)

LEMMA TypedTargets ==
  ASSUME NEW t \in Targets
  PROVE  /\ t.minor \in Nat /\ t.unreadable_from \in Nat
         /\ t.evals \in Seq(Seq(Called(t)))
         /\ Len(t.evals) \in Nat /\ DOMAIN t.evals = 1 .. Len(t.evals)
         /\ t.minor < 11 => \A k \in DOMAIN t.evals : Len(t.evals[k]) <= 1
         /\ \A f \in Called(t) :
              /\ f.code.understood \in BOOLEAN /\ (f.code.understood => f.code.filename # "???")
              /\ CodeIsTyped(t.minor, f.code) /\ f.at \in DOMAIN f.code.instrs
         /\ Shims(t) \in {0, 1} /\ (t.minor >= 12 <=> Shims(t) = 1)
<1>1. /\ t.minor \in Nat /\ t.unreadable_from \in Nat
      /\ EvalsAreTyped(t)
  BY TargetsAssumption
<1>2. /\ t.evals \in Seq(Seq(Called(t)))
      /\ t.minor < 11 => \A k \in DOMAIN t.evals : Len(t.evals[k]) <= 1
      /\ \A f \in Called(t) :
              /\ f.code.understood \in BOOLEAN /\ (f.code.understood => f.code.filename # "???")
              /\ CodeIsTyped(t.minor, f.code) /\ f.at \in DOMAIN f.code.instrs
  BY <1>1 DEF EvalsAreTyped, Called
<1>3. Len(t.evals) \in Nat /\ DOMAIN t.evals = 1 .. Len(t.evals)
  BY <1>2, LenProperties
<1>4. Shims(t) \in {0, 1} /\ (t.minor >= 12 <=> Shims(t) = 1)
  BY <1>1 DEF Shims
<1> QED BY <1>1, <1>2, <1>3, <1>4

\* The frames of one eval, with the shim under them.
LEMMA EvalFramesAre ==
  ASSUME NEW t \in Targets, NEW k \in 1 .. Len(t.evals)
  PROVE  LET frs == t.evals[k]
             all == EvalFrames(t, frs)
         IN /\ Len(frs) \in Nat
            /\ all \in Seq(StackFrames(t))
            /\ Len(all) = Len(frs) + Shims(t)
            /\ \A j \in 1 .. Len(frs) :
                 /\ frs[j] \in Called(t)
                 /\ all[j] = StackFrame(frs[j], Flagged(t, frs, j))
            /\ t.minor >= 12 => all[Len(frs) + 1] = Shim
<1> DEFINE frs == t.evals[k]
           own == [j \in DOMAIN frs |-> StackFrame(frs[j], Flagged(t, frs, j))]
<1>1. frs \in Seq(Called(t)) /\ t.minor \in Nat
      /\ Shims(t) \in {0, 1} /\ (t.minor >= 12 <=> Shims(t) = 1)
  BY TypedTargets, ElementOfSeq
<1> HIDE DEF frs
<1>2. /\ Len(frs) \in Nat /\ DOMAIN frs = 1 .. Len(frs)
      /\ \A j \in 1 .. Len(frs) : frs[j] \in Called(t)
  BY <1>1, LenProperties, ElementOfSeq
<1>3. own \in Seq(StackFrames(t)) /\ Len(own) = Len(frs) /\ DOMAIN own = 1 .. Len(frs)
      /\ \A j \in 1 .. Len(frs) : own[j] = StackFrame(frs[j], Flagged(t, frs, j))
  <2>1. \A j \in 1 .. Len(frs) : StackFrame(frs[j], Flagged(t, frs, j)) \in StackFrames(t)
    <3> TAKE j \in 1 .. Len(frs)
    <3>1. Flagged(t, frs, j) \in BOOLEAN /\ frs[j] \in Called(t)
      BY <1>2 DEF Flagged
    <3> QED BY <3>1 DEF StackFrames
  <2>2. own = [j \in 1 .. Len(frs) |-> StackFrame(frs[j], Flagged(t, frs, j))]
    BY <1>2 DEF own
  <2>3. \A j \in 1 .. Len(frs) : own[j] = StackFrame(frs[j], Flagged(t, frs, j))
    BY <2>2
  <2> HIDE DEF own
  <2>4. own \in Seq(StackFrames(t)) /\ Len(own) = Len(frs) /\ DOMAIN own = 1 .. Len(frs)
    <3> QED BY <1>2, <2>1, <2>2
  <2> QED BY <2>3, <2>4
<1> HIDE DEF own
<1>4. <<Shim>> \in Seq(StackFrames(t)) /\ Len(<<Shim>>) = 1 /\ <<Shim>>[1] = Shim
  BY DEF StackFrames
<1>5. EvalFrames(t, frs) = own \o (IF t.minor >= 12 THEN <<Shim>> ELSE <<>>)
  BY DEF EvalFrames, own, Flagged
<1>6. CASE t.minor >= 12
  <2> DEFINE all == own \o <<Shim>>
  <2>1. /\ all \in Seq(StackFrames(t)) /\ Len(all) = Len(frs) + 1
        /\ \A j \in 1 .. Len(frs) + 1 :
             all[j] = IF j <= Len(frs) THEN own[j] ELSE <<Shim>>[j - Len(frs)]
    <3>1. own \in Seq(StackFrames(t)) /\ <<Shim>> \in Seq(StackFrames(t))
          /\ Len(own) = Len(frs) /\ Len(<<Shim>>) = 1
      BY <1>3, <1>4
    <3> QED BY ONLY <3>1, ConcatProperties
  <2>2. EvalFrames(t, frs) = all
    BY <1>5, <1>6
  <2> HIDE DEF all
  <2>3. \A j \in 1 .. Len(frs) : all[j] = own[j]
    BY <1>2, <2>1
  <2>4. all[Len(frs) + 1] = Shim
    BY <1>2, <1>4, <2>1
  <2>5. Len(all) = Len(frs) + Shims(t)
    BY <1>1, <1>6, <2>1
  <2> QED BY <1>2, <1>3, <1>6, <2>1, <2>2, <2>3, <2>4, <2>5 DEF frs
<1>7. CASE ~(t.minor >= 12)
  <2>1. EvalFrames(t, frs) = own
    <3>1. EvalFrames(t, frs) = own \o <<>>
      BY <1>5, <1>7
    <3> QED BY <1>3, <3>1, ConcatEmptySeq
  <2>2. Len(own) = Len(frs) + Shims(t)
    BY <1>1, <1>2, <1>3, <1>7
  <2> QED BY <1>2, <1>3, <1>7, <2>1, <2>2 DEF frs
<1>8. (t.minor >= 12) \in BOOLEAN
  OBVIOUS
<1> QED BY <1>6, <1>7, <1>8

\* Every frame of the stack is one of an eval or the shim that ends it.
LEMMA StackIs ==
  ASSUME NEW t \in Targets
  PROVE  LET stack == StackOf(t)
             N == Len(t.evals)
         IN /\ stack \in Seq(StackFrames(t)) /\ Len(stack) \in Nat
            /\ DOMAIN stack = 1 .. Len(stack)
            /\ End(t, 0) = 0
            /\ \A k \in 0 .. N : End(t, k) \in Nat
            /\ \A l, m \in 0 .. N : l <= m => End(t, l) <= End(t, m)
            /\ \A k \in 1 .. N :
                 /\ Len(t.evals[k]) \in Nat
                 /\ End(t, k) = End(t, k - 1) + Len(t.evals[k]) + Shims(t)
                 /\ \A j \in 1 .. Len(t.evals[k]) :
                      /\ End(t, k - 1) + j \in 1 .. Len(stack)
                      /\ t.evals[k][j] \in Called(t)
                      /\ stack[End(t, k - 1) + j] =
                           StackFrame(t.evals[k][j], Flagged(t, t.evals[k], j))
                 /\ t.minor >= 12 => End(t, k) \in 1 .. Len(stack) /\ stack[End(t, k)] = Shim
            /\ \A n \in 1 .. Len(stack) :
                 \E k \in 1 .. N :
                   \/ \E j \in 1 .. Len(t.evals[k]) : n = End(t, k - 1) + j
                   \/ t.minor >= 12 /\ n = End(t, k)
<1> DEFINE stack == StackOf(t)
           N == Len(t.evals)
           ss == EvalLists(t)
<1>1. N \in Nat /\ Shims(t) \in {0, 1} /\ (t.minor >= 12 <=> Shims(t) = 1)
  BY TypedTargets
<1>2. /\ ss \in Seq(Seq(StackFrames(t))) /\ Len(ss) = N
      /\ \A k \in 1 .. N : ss[k] = EvalFrames(t, t.evals[k])
  <2>1. \A k \in 1 .. N : EvalFrames(t, t.evals[k]) \in Seq(StackFrames(t))
    BY EvalFramesAre
  <2> HIDE DEF N
  <2>2. ss = [j \in 1 .. N |-> EvalFrames(t, t.evals[j])]
    BY DEF EvalLists, N
  <2> HIDE DEF ss
  <2> QED BY <1>1, <2>1, <2>2
<1> HIDE DEF ss
<1>3. \A k \in 0 .. N : FramesTo(t, k) = FirstLists(ss, k)
  <2> TAKE k \in 0 .. N
  <2>1. \A j \in 1 .. k : j \in 1 .. N
    BY <1>1
  <2>2. [j \in 1 .. k |-> EvalFrames(t, t.evals[j])] = [j \in 1 .. k |-> ss[j]]
    BY <1>2, <2>1
  <2> QED BY <2>2 DEF FramesTo, FirstLists
<1>4. stack = FirstLists(ss, Len(ss)) /\ N \in 0 .. N /\ 0 \in 0 .. N
  BY <1>1, <1>2, <1>3 DEF StackOf
<1>5. /\ Len(FirstLists(ss, 0)) = 0
      /\ \A m \in 0 .. N : FirstLists(ss, m) \in Seq(StackFrames(t)) /\ Len(FirstLists(ss, m)) \in Nat
      /\ \A l, m \in 0 .. N : l <= m => Len(FirstLists(ss, l)) <= Len(FirstLists(ss, m))
      /\ \A m \in 1 .. N : Len(FirstLists(ss, m)) = Len(FirstLists(ss, m - 1)) + Len(ss[m])
      /\ \A m \in 1 .. N : \A j \in 1 .. Len(ss[m]) :
           /\ Len(FirstLists(ss, m - 1)) + j \in 1 .. Len(stack)
           /\ stack[Len(FirstLists(ss, m - 1)) + j] = ss[m][j]
      /\ \A n \in 1 .. Len(stack) : \E m \in 1 .. N : \E j \in 1 .. Len(ss[m]) :
           n = Len(FirstLists(ss, m - 1)) + j
  <2> HIDE DEF stack, N
  <2> DEFINE all == FirstLists(ss, Len(ss))
  <2>1. /\ Len(FirstLists(ss, 0)) = 0
        /\ \A m \in 0 .. Len(ss) :
             FirstLists(ss, m) \in Seq(StackFrames(t)) /\ Len(FirstLists(ss, m)) \in Nat
        /\ \A l, m \in 0 .. Len(ss) :
             l <= m => Len(FirstLists(ss, l)) <= Len(FirstLists(ss, m))
        /\ \A m \in 1 .. Len(ss) :
             Len(FirstLists(ss, m)) = Len(FirstLists(ss, m - 1)) + Len(ss[m])
        /\ \A m \in 1 .. Len(ss) : \A j \in 1 .. Len(ss[m]) :
             /\ Len(FirstLists(ss, m - 1)) + j \in 1 .. Len(all)
             /\ all[Len(FirstLists(ss, m - 1)) + j] = ss[m][j]
        /\ \A n \in 1 .. Len(all) : \E m \in 1 .. Len(ss) : \E j \in 1 .. Len(ss[m]) :
             n = Len(FirstLists(ss, m - 1)) + j
    <3>1. ss \in Seq(Seq(StackFrames(t)))
      BY <1>2
    <3> QED BY ONLY <3>1, FirstListsAre
  <2>2. all = stack /\ Len(ss) = N
    BY <1>2, <1>4
  <2> HIDE DEF all
  <2> QED BY ONLY <2>1, <2>2
<1>6. \A k \in 0 .. N : End(t, k) = Len(FirstLists(ss, k))
  BY <1>3 DEF End
<1>7. \A k \in 1 .. N : k \in 0 .. N /\ k - 1 \in 0 .. N
  BY <1>1
<1>8. stack \in Seq(StackFrames(t)) /\ Len(stack) \in Nat /\ DOMAIN stack = 1 .. Len(stack)
  <2>1. stack \in Seq(StackFrames(t))
    BY <1>2, <1>4, <1>5
  <2> HIDE DEF stack
  <2> QED BY <2>1, LenProperties
<1> HIDE DEF stack, N
<1>9. /\ End(t, 0) = 0 /\ \A k \in 0 .. N : End(t, k) \in Nat
      /\ \A l, m \in 0 .. N : l <= m => End(t, l) <= End(t, m)
  BY <1>4, <1>5, <1>6
<1>10. ASSUME NEW k \in 1 .. N
       PROVE  /\ Len(t.evals[k]) \in Nat
              /\ End(t, k) = End(t, k - 1) + Len(ss[k])
              /\ Len(ss[k]) = Len(t.evals[k]) + Shims(t)
              /\ \A j \in 1 .. Len(ss[k]) :
                   End(t, k - 1) + j \in 1 .. Len(stack) /\ stack[End(t, k - 1) + j] = ss[k][j]
              /\ \A j \in 1 .. Len(t.evals[k]) :
                   /\ t.evals[k][j] \in Called(t)
                   /\ ss[k][j] = StackFrame(t.evals[k][j], Flagged(t, t.evals[k], j))
              /\ t.minor >= 12 => ss[k][Len(t.evals[k]) + 1] = Shim
  <2>1. End(t, k) = Len(FirstLists(ss, k)) /\ End(t, k - 1) = Len(FirstLists(ss, k - 1))
    BY <1>6, <1>7
  <2>2. End(t, k) = End(t, k - 1) + Len(ss[k])
    BY <1>5, <2>1
  <2>3. \A j \in 1 .. Len(ss[k]) :
          End(t, k - 1) + j \in 1 .. Len(stack) /\ stack[End(t, k - 1) + j] = ss[k][j]
    BY <1>5, <2>1
  <2>4. ss[k] = EvalFrames(t, t.evals[k])
    BY <1>2
  <2>5. LET frs == t.evals[k]
            all == EvalFrames(t, frs)
        IN /\ Len(frs) \in Nat
           /\ Len(all) = Len(frs) + Shims(t)
           /\ \A j \in 1 .. Len(frs) :
                frs[j] \in Called(t) /\ all[j] = StackFrame(frs[j], Flagged(t, frs, j))
           /\ t.minor >= 12 => all[Len(frs) + 1] = Shim
    <3>1. k \in 1 .. Len(t.evals)
      BY DEF N
    <3> QED BY ONLY <3>1, t \in Targets, EvalFramesAre
  <2> QED BY ONLY <2>2, <2>3, <2>4, <2>5
<1>11. ASSUME NEW k \in 1 .. N
       PROVE  /\ Len(t.evals[k]) \in Nat
              /\ End(t, k) = End(t, k - 1) + Len(t.evals[k]) + Shims(t)
              /\ \A j \in 1 .. Len(t.evals[k]) :
                   /\ End(t, k - 1) + j \in 1 .. Len(stack)
                   /\ t.evals[k][j] \in Called(t)
                   /\ stack[End(t, k - 1) + j] =
                        StackFrame(t.evals[k][j], Flagged(t, t.evals[k], j))
              /\ t.minor >= 12 => End(t, k) \in 1 .. Len(stack) /\ stack[End(t, k)] = Shim
  <2>1. End(t, k) \in Nat /\ End(t, k - 1) \in Nat
    BY <1>7, <1>9
  <2>2. Len(t.evals[k]) \in Nat /\ Len(ss[k]) = Len(t.evals[k]) + Shims(t)
    BY <1>10
  <2>3. \A j \in 1 .. Len(t.evals[k]) : j \in 1 .. Len(ss[k])
    BY <1>1, <2>2
  <2>4. \A j \in 1 .. Len(t.evals[k]) :
          /\ End(t, k - 1) + j \in 1 .. Len(stack)
          /\ t.evals[k][j] \in Called(t)
          /\ stack[End(t, k - 1) + j] =
               StackFrame(t.evals[k][j], Flagged(t, t.evals[k], j))
    BY <1>10, <2>3
  <2>5. ASSUME t.minor >= 12 PROVE End(t, k) \in 1 .. Len(stack) /\ stack[End(t, k)] = Shim
    <3>1. Len(ss[k]) = Len(t.evals[k]) + 1 /\ Len(ss[k]) \in 1 .. Len(ss[k])
      BY <1>1, <2>2, <2>5
    <3>2. End(t, k - 1) + Len(ss[k]) \in 1 .. Len(stack)
          /\ stack[End(t, k - 1) + Len(ss[k])] = ss[k][Len(ss[k])]
      BY <1>10, <3>1
    <3> QED BY <1>10, <2>5, <3>1, <3>2
  <2>6. End(t, k) = End(t, k - 1) + Len(t.evals[k]) + Shims(t)
    <3>1. End(t, k) = End(t, k - 1) + Len(ss[k])
      BY <1>10
    <3> QED BY <1>1, <2>1, <2>2, <3>1
  <2> QED BY <2>2, <2>4, <2>5, <2>6
<1>12. ASSUME NEW n \in 1 .. Len(stack)
       PROVE  \E k \in 1 .. N :
                \/ \E j \in 1 .. Len(t.evals[k]) : n = End(t, k - 1) + j
                \/ t.minor >= 12 /\ n = End(t, k)
  <2>1. PICK k \in 1 .. N : \E j \in 1 .. Len(ss[k]) : n = Len(FirstLists(ss, k - 1)) + j
    BY <1>5
  <2>2. PICK j \in 1 .. Len(ss[k]) : n = Len(FirstLists(ss, k - 1)) + j
    BY <2>1
  <2>3. n = End(t, k - 1) + j /\ j \in Nat /\ End(t, k - 1) \in Nat
    <3>1. k - 1 \in 0 .. N
      BY <1>7
    <3>2. End(t, k - 1) = Len(FirstLists(ss, k - 1)) /\ End(t, k - 1) \in Nat
      BY <1>6, <1>9, <3>1
    <3> QED BY <2>2, <3>2
  <2>4. Len(t.evals[k]) \in Nat /\ Len(ss[k]) = Len(t.evals[k]) + Shims(t)
        /\ End(t, k) = End(t, k - 1) + Len(ss[k])
    BY <1>10
  <2>5. j \in 1 .. Len(t.evals[k]) \/ (t.minor >= 12 /\ j = Len(ss[k]))
    BY <1>1, <2>3, <2>4
  <2> QED BY <2>3, <2>4, <2>5
<1> QED BY <1>8, <1>9, <1>11, <1>12 DEF stack, N

\* A frame that is no shim is one of its eval, and has its code.
LEMMA FrameIs ==
  ASSUME NEW t \in Targets, NEW n \in 1 .. Len(StackOf(t))
  PROVE  LET f == StackOf(t)[n]
         IN /\ f.shim \in BOOLEAN
            /\ f.shim => t.minor >= 12
            /\ ~f.shim => /\ f.code.understood \in BOOLEAN
                          /\ f.code.understood => f.code.filename # "???"
                          /\ \E g \in Called(t) : f.code = g.code /\ f.at = g.at
                          /\ \E k \in 1 .. Len(t.evals) : \E j \in 1 .. Len(t.evals[k]) :
                               n = End(t, k - 1) + j /\ f.is_entry = Flagged(t, t.evals[k], j)
<1> DEFINE stack == StackOf(t)
<1>1. PICK k \in 1 .. Len(t.evals) :
        \/ \E j \in 1 .. Len(t.evals[k]) : n = End(t, k - 1) + j
        \/ t.minor >= 12 /\ n = End(t, k)
  BY StackIs
<1>2. CASE \E j \in 1 .. Len(t.evals[k]) : n = End(t, k - 1) + j
  <2>1. PICK j \in 1 .. Len(t.evals[k]) : n = End(t, k - 1) + j
    BY <1>2
  <2>2. /\ t.evals[k][j] \in Called(t)
        /\ stack[n] = StackFrame(t.evals[k][j], Flagged(t, t.evals[k], j))
    BY <2>1, StackIs
  <2>3. /\ stack[n].shim = FALSE /\ stack[n].is_entry = Flagged(t, t.evals[k], j)
        /\ stack[n].code = t.evals[k][j].code /\ stack[n].at = t.evals[k][j].at
    BY <2>2 DEF StackFrame
  <2>4. /\ t.evals[k][j].code.understood \in BOOLEAN
        /\ t.evals[k][j].code.understood => t.evals[k][j].code.filename # "???"
    BY <2>2, TypedTargets
  <2> QED BY <2>1, <2>2, <2>3, <2>4
<1>3. CASE t.minor >= 12 /\ n = End(t, k)
  <2>1. stack[n] = Shim
    BY <1>3, StackIs
  <2>2. Shim.shim = TRUE
    BY DEF Shim
  <2> QED BY <1>3, <2>1, <2>2
<1> QED BY <1>1, <1>2, <1>3

\* The frame n of the stack is the j-th of the k-th eval.
IsFrameOf(t, n, k, j) == j \in 1 .. Len(t.evals[k]) /\ n = End(t, k - 1) + j

\* It is so of one eval only.
LEMMA OneEval ==
  ASSUME NEW t \in Targets, NEW n,
         NEW k \in 1 .. Len(t.evals), NEW i, IsFrameOf(t, n, k, i),
         NEW m \in 1 .. Len(t.evals), NEW j, IsFrameOf(t, n, m, j)
  PROVE  k = m /\ i = j
<1> USE DEF IsFrameOf
<1>1. /\ Len(t.evals) \in Nat /\ Shims(t) \in {0, 1}
      /\ k - 1 \in 0 .. Len(t.evals) /\ m - 1 \in 0 .. Len(t.evals)
      /\ k \in 0 .. Len(t.evals) /\ m \in 0 .. Len(t.evals)
  BY TypedTargets
<1>2. /\ End(t, k) \in Nat /\ End(t, k - 1) \in Nat /\ End(t, m) \in Nat /\ End(t, m - 1) \in Nat
      /\ End(t, k) = End(t, k - 1) + Len(t.evals[k]) + Shims(t)
      /\ End(t, m) = End(t, m - 1) + Len(t.evals[m]) + Shims(t)
      /\ Len(t.evals[k]) \in Nat /\ Len(t.evals[m]) \in Nat
  BY <1>1, StackIs
<1>0. /\ i \in Nat /\ j \in Nat /\ 1 <= i /\ 1 <= j /\ Shims(t) \in Nat
      /\ i <= Len(t.evals[k]) /\ j <= Len(t.evals[m])
  <2>1. i \in 1 .. Len(t.evals[k]) /\ j \in 1 .. Len(t.evals[m])
    OBVIOUS
  <2>2. \A l \in Nat : \A x \in 1 .. l : x \in Nat /\ 1 <= x /\ x <= l
    OBVIOUS
  <2> QED BY ONLY <1>1, <1>2, <2>1, <2>2
<1>3. ~(k < m)
  <2> SUFFICES ASSUME k < m PROVE FALSE
    OBVIOUS
  <2>1. k <= m - 1
    BY <1>1
  <2>2. End(t, k) <= End(t, m - 1)
    BY <1>1, <2>1, StackIs
  <2>3. PICK a \in Nat, b \in Nat, x \in Nat, l \in Nat, h \in Nat :
          /\ a = End(t, k - 1) /\ b = End(t, k) /\ x = End(t, m - 1)
          /\ l = Len(t.evals[k]) /\ h = Shims(t)
    BY <1>0, <1>2
  <2>4. b = a + l + h /\ b <= x /\ i <= l /\ a + i = x + j
    BY <1>0, <1>2, <2>2, <2>3
  <2> QED BY ONLY a \in Nat, b \in Nat, x \in Nat, l \in Nat, h \in Nat, i \in Nat, j \in Nat,
                  1 <= i, 1 <= j, <2>4
<1>4. ~(m < k)
  <2> SUFFICES ASSUME m < k PROVE FALSE
    OBVIOUS
  <2>1. m <= k - 1
    BY <1>1
  <2>2. End(t, m) <= End(t, k - 1)
    BY <1>1, <2>1, StackIs
  <2>3. PICK a \in Nat, b \in Nat, x \in Nat, l \in Nat, h \in Nat :
          /\ a = End(t, m - 1) /\ b = End(t, m) /\ x = End(t, k - 1)
          /\ l = Len(t.evals[m]) /\ h = Shims(t)
    BY <1>0, <1>2
  <2>4. b = a + l + h /\ b <= x /\ j <= l /\ a + j = x + i
    BY <1>0, <1>2, <2>2, <2>3
  <2> QED BY ONLY a \in Nat, b \in Nat, x \in Nat, l \in Nat, h \in Nat, i \in Nat, j \in Nat,
                  1 <= i, 1 <= j, <2>4
<1>5. k = m
  BY <1>1, <1>3, <1>4
<1>6. i \in Nat /\ j \in Nat
  OBVIOUS
<1> QED BY <1>2, <1>5, <1>6

\* How the first frame of an eval is known on the stack.
LEMMA OutermostIs ==
  ASSUME NEW t \in Targets, NEW n \in 1 .. Len(StackOf(t)), ~StackOf(t)[n].shim
  PROVE  LET stack == StackOf(t)
         IN /\ t.minor >= 12 =>
                 (OutermostOfEval(t, n) <=> n + 1 \in 1 .. Len(stack) /\ stack[n + 1].shim)
            /\ t.minor = 11 => (OutermostOfEval(t, n) <=> stack[n].is_entry)
            /\ t.minor < 11 => OutermostOfEval(t, n)
<1> DEFINE stack == StackOf(t)
<1>0. PICK k \in 1 .. Len(t.evals) : \E j \in 1 .. Len(t.evals[k]) :
        n = End(t, k - 1) + j /\ stack[n].is_entry = Flagged(t, t.evals[k], j)
  BY FrameIs
<1>1. PICK j \in 1 .. Len(t.evals[k]) :
        n = End(t, k - 1) + j /\ stack[n].is_entry = Flagged(t, t.evals[k], j)
  BY <1>0
<1>2. /\ t.minor \in Nat /\ Len(t.evals) \in Nat /\ DOMAIN t.evals = 1 .. Len(t.evals)
      /\ Shims(t) \in {0, 1} /\ (t.minor >= 12 <=> Shims(t) = 1)
      /\ \A m \in 1 .. Len(t.evals) : t.evals[m] \in Seq(Called(t))
      /\ t.minor < 11 => Len(t.evals[k]) <= 1
  BY TypedTargets, ElementOfSeq
<1>3. \A m \in 1 .. Len(t.evals) : m \in 0 .. Len(t.evals) /\ m - 1 \in 0 .. Len(t.evals)
  BY <1>2
<1>4. \A m \in 1 .. Len(t.evals) :
        /\ End(t, m) \in Nat /\ End(t, m - 1) \in Nat /\ Len(t.evals[m]) \in Nat
        /\ End(t, m) = End(t, m - 1) + Len(t.evals[m]) + Shims(t)
  BY <1>3, StackIs
<1>5. OutermostOfEval(t, n) <=> j = Len(t.evals[k])
  <2>1. OutermostOfEval(t, n) <=>
          \E m \in 1 .. Len(t.evals) : t.evals[m] # <<>> /\ n = End(t, m) - Shims(t)
    BY <1>2 DEF OutermostOfEval, End, Shims
  <2>2. \A m \in 1 .. Len(t.evals) : End(t, m) - Shims(t) = End(t, m - 1) + Len(t.evals[m])
    <3> TAKE m \in 1 .. Len(t.evals)
    <3>1. /\ End(t, m) \in Nat /\ End(t, m - 1) \in Nat /\ Len(t.evals[m]) \in Nat
          /\ End(t, m) = End(t, m - 1) + Len(t.evals[m]) + Shims(t)
      BY <1>4
    <3>2. \A a, b, l, h \in Nat : b = a + l + h => b - h = a + l
      OBVIOUS
    <3>3. Shims(t) \in Nat
      BY <1>2
    <3> QED BY ONLY <3>1, <3>2, <3>3
  <2>3. ASSUME j = Len(t.evals[k]) PROVE OutermostOfEval(t, n)
    <3>1. n = End(t, k) - Shims(t)
      BY <1>1, <2>2, <2>3
    <3>2. t.evals[k] # <<>>
      BY <1>2, EmptySeq
    <3> QED BY <2>1, <3>1, <3>2
  <2>4. ASSUME OutermostOfEval(t, n) PROVE j = Len(t.evals[k])
    <3>1. PICK m \in 1 .. Len(t.evals) : t.evals[m] # <<>> /\ n = End(t, m) - Shims(t)
      BY <2>1, <2>4
    <3>2. Len(t.evals[m]) \in 1 .. Len(t.evals[m]) /\ n = End(t, m - 1) + Len(t.evals[m])
      <4>1. t.evals[m] \in Seq(Called(t)) /\ t.evals[m] # <<>>
        BY <1>2, <3>1
      <4>2. Len(t.evals[m]) \in Nat \ {0}
        BY <4>1, EmptySeq
      <4>3. n = End(t, m - 1) + Len(t.evals[m])
        BY <2>2, <3>1
      <4> QED BY <4>2, <4>3
    <3>3. PICK i \in 1 .. Len(t.evals[m]) : i = Len(t.evals[m])
      BY <3>2
    <3>4. IsFrameOf(t, n, k, j) /\ IsFrameOf(t, n, m, i)
      BY <1>1, <3>2, <3>3 DEF IsFrameOf
    <3>5. k = m /\ j = i
      BY <3>4, OneEval
    <3> QED BY <3>3, <3>5
  <2> QED BY <2>3, <2>4
<1>6. t.minor = 11 => (OutermostOfEval(t, n) <=> stack[n].is_entry)
  BY <1>1, <1>5 DEF Flagged
<1>7. t.minor < 11 => OutermostOfEval(t, n)
  <2>1. Len(t.evals[k]) \in Nat
    BY <1>4
  <2> QED BY <1>2, <1>5, <2>1
<1>8. ASSUME t.minor >= 12
      PROVE  OutermostOfEval(t, n) <=> n + 1 \in 1 .. Len(stack) /\ stack[n + 1].shim
  <2>1. CASE j = Len(t.evals[k])
    <3>1. n + 1 = End(t, k)
      BY <1>1, <1>2, <1>4, <1>8, <2>1
    <3>2. End(t, k) \in 1 .. Len(stack) /\ stack[End(t, k)] = Shim
      BY <1>8, StackIs
    <3>3. Shim.shim = TRUE
      BY DEF Shim
    <3> QED BY <1>5, <2>1, <3>1, <3>2, <3>3
  <2>2. CASE j # Len(t.evals[k])
    <3>1. j + 1 \in 1 .. Len(t.evals[k])
      BY <1>4, <2>2
    <3>2. /\ t.evals[k][j + 1] \in Called(t)
          /\ stack[End(t, k - 1) + (j + 1)] = StackFrame(t.evals[k][j + 1], Flagged(t, t.evals[k], j + 1))
      BY <3>1, StackIs
    <3>3. n + 1 = End(t, k - 1) + (j + 1)
      <4>1. n = End(t, k - 1) + j /\ End(t, k - 1) \in Nat /\ j \in Nat
        BY <1>1, <1>4
      <4>2. \A a, b \in Nat : (a + b) + 1 = a + (b + 1)
        OBVIOUS
      <4> QED BY ONLY <4>1, <4>2
    <3>4. stack[n + 1].shim = FALSE
      BY <3>2, <3>3 DEF StackFrame
    <3> QED BY <1>5, <2>2, <3>4
  <2> QED BY <2>1, <2>2
<1> QED BY <1>6, <1>7, <1>8

-----------------------------------------------------------------------------
(* The thread id.                                                           *)

LEMMA BufferSizeIs ==
  ASSUME NEW S, NEW struct \in Seq(S)
  PROVE  /\ BufferSize(struct) \in Nat
         /\ BufferSize(struct) <= Len(struct) /\ BufferSize(struct) <= MaxWords
         /\ Len(struct) = MaxWords => BufferSize(struct) = MaxWords
<1> DEFINE T == {0} \cup {n \in {MaxWords, MaxWords \div 2, MaxWords \div 4} : n <= Len(struct)}
<1>1. Len(struct) \in Nat /\ MaxWords = 4 /\ MaxWords \div 2 = 2 /\ MaxWords \div 4 = 1
  BY LenProperties DEF MaxWords
<1>2. T = {0} \cup {n \in {1, 2, 4} : n <= Len(struct)}
  BY <1>1
<1>6. BufferSize(struct) = Max(T)
  BY DEF BufferSize
<1> HIDE DEF T
<1>3. T \subseteq Nat /\ \A n \in T : n <= Len(struct) /\ n <= 4
  BY <1>1, <1>2
<1>4. \E m \in T : \A n \in T : m >= n
  <2>1. \A n \in T : n \in {0, 1, 2, 4}
    BY <1>2
  <2>2. 0 \in T /\ \A n \in {1, 2, 4} : n \in T <=> n <= Len(struct)
    BY <1>2
  <2>3. CASE 4 \in T
    BY <2>1, <2>3
  <2>4. CASE 4 \notin T /\ 2 \in T
    BY <2>1, <2>4
  <2>5. CASE 4 \notin T /\ 2 \notin T
    BY <2>1, <2>2, <2>5
  <2> QED BY <2>3, <2>4, <2>5
<1>5. Len(struct) = 4 => 4 \in T
  BY <1>1, <1>2
<1>7. Max(T) \in T /\ \A n \in T : Max(T) >= n
  BY <1>4 DEF Max
<1>8. Max(T) \in Nat /\ Max(T) <= Len(struct) /\ Max(T) <= 4 /\ (Len(struct) = 4 => Max(T) >= 4)
  BY <1>3, <1>5, <1>7
<1> QED BY <1>1, <1>6, <1>8

\* What is found in one struct is where it has the pid.
LEMMA OffsetsOfStructAre ==
  ASSUME NEW S, NEW struct \in Seq(S)
  PROVE  /\ KnownOffset(struct) \in Seq(Nat) /\ ScannedOffset(struct) \in Seq(Nat)
         /\ \A i \in ToSet(KnownOffset(struct)) \cup ToSet(ScannedOffset(struct)) :
              i \in 1 .. MaxWords /\ Word(struct, i) = "pid"
         /\ \A i \in ToSet(Candidates) :
              Word(struct, i) = "pid" => i \in ToSet(KnownOffset(struct))
         /\ Len(struct) = MaxWords =>
              \A i \in 1 .. MaxWords : Word(struct, i) = "pid" => i \in ToSet(ScannedOffset(struct))
<1> DEFINE N == BufferSize(struct)
           words == [i \in 1 .. N |-> i]
           T == {n \in DOMAIN Candidates : Word(struct, Candidates[n]) = "pid"}
           U == {n \in DOMAIN words : struct[words[n]] = "pid"}
<1>1. /\ N \in Nat /\ N <= Len(struct) /\ N <= MaxWords /\ (Len(struct) = MaxWords => N = MaxWords)
      /\ Len(struct) \in Nat /\ DOMAIN struct = 1 .. Len(struct) /\ MaxWords = 4
  BY BufferSizeIs, LenProperties DEF MaxWords
<1> HIDE DEF N
<1>2. Candidates \in Seq(Nat) /\ DOMAIN Candidates = 1 .. 2 /\ Candidates[1] = 1 /\ Candidates[2] = 2
      /\ ToSet(Candidates) = {1, 2}
  <2>1. Candidates \in Seq(Nat) /\ DOMAIN Candidates = 1 .. 2 /\ Candidates[1] = 1
        /\ Candidates[2] = 2
    BY DEF Candidates
  <2> QED BY <2>1 DEF ToSet
<1>3. words \in Seq(Nat) /\ DOMAIN words = 1 .. N /\ \A n \in 1 .. N : words[n] = n
  BY <1>1
<1>4. KnownOffset(struct) = Selected(Candidates, T) /\ ScannedOffset(struct) = Selected(words, U)
  BY DEF KnownOffset, ScannedOffset, Filtered, N
<1>5. T \subseteq DOMAIN Candidates /\ U \subseteq DOMAIN words
  OBVIOUS
<1>6. \A n \in 1 .. 2 : n \in T <=> Word(struct, n) = "pid"
  BY <1>2
<1>7. \A n \in 1 .. N : n \in U <=> struct[n] = "pid"
  BY <1>3
<1> HIDE DEF words, T, U
<1>8. /\ KnownOffset(struct) \in Seq(Nat)
      /\ ToSet(KnownOffset(struct)) = {Candidates[i] : i \in T}
  BY <1>2, <1>4, <1>5, SelectedSet
<1>9. /\ ScannedOffset(struct) \in Seq(Nat)
      /\ ToSet(ScannedOffset(struct)) = {words[i] : i \in U}
  <2>1. words \in Seq(Nat) /\ U \subseteq DOMAIN words /\ ScannedOffset(struct) = Selected(words, U)
    BY <1>3, <1>4, <1>5
  <2> QED BY ONLY <2>1, SelectedSet
<1>10. \A n \in 1 .. 2 : Candidates[n] = n
  BY <1>2
<1>11. ToSet(KnownOffset(struct)) = T
  BY <1>2, <1>5, <1>8, <1>10
<1>12. ToSet(ScannedOffset(struct)) = U
  BY <1>3, <1>5, <1>9
<1>13. \A i \in T : i \in 1 .. MaxWords /\ Word(struct, i) = "pid"
  BY <1>1, <1>2, <1>5, <1>6
<1>14. \A i \in 1 .. N : i \in 1 .. MaxWords /\ Word(struct, i) = struct[i]
  BY <1>1 DEF Word
<1>15. \A i \in U : i \in 1 .. MaxWords /\ Word(struct, i) = "pid"
  BY <1>3, <1>5, <1>7, <1>14
<1>16. ASSUME NEW i \in ToSet(Candidates), Word(struct, i) = "pid"
       PROVE  i \in ToSet(KnownOffset(struct))
  BY <1>2, <1>6, <1>11, <1>16
<1>17. ASSUME Len(struct) = MaxWords, NEW i \in 1 .. MaxWords, Word(struct, i) = "pid"
       PROVE  i \in ToSet(ScannedOffset(struct))
  BY <1>1, <1>7, <1>12, <1>14, <1>17
<1> QED BY <1>8, <1>9, <1>11, <1>12, <1>13, <1>15, <1>16, <1>17

\* Where the structs tell the tid, that is where it is looked for.
LEMMA TidOffsetIs ==
  ASSUME NEW t \in Targets, TidsAreTold(t)
  PROVE  FindPthreadTidOffset(t) = t.tid_at
<1> DEFINE Words == {"pid", "tid", "zero", "else"}
           N == Len(t.pthreads)
           kss == [k \in DOMAIN t.pthreads |-> KnownOffset(t.pthreads[k])]
           sss == [k \in DOMAIN t.pthreads |-> ScannedOffset(t.pthreads[k])]
           known == FlattenSeq(kss)
           scanned == FlattenSeq(sss)
           offsets == known \o scanned
<1>1. t.pthreads \in Seq(Seq(Words))
  BY TargetsAssumption
<1>2. DOMAIN t.pthreads = 1 .. N /\ N \in Nat /\ \A k \in 1 .. N : t.pthreads[k] \in Seq(Words)
  BY <1>1, LenProperties, ElementOfSeq
<1> HIDE DEF N, Words
<1>3. /\ kss \in Seq(Seq(Nat)) /\ DOMAIN kss = 1 .. N
      /\ \A k \in 1 .. N : kss[k] = KnownOffset(t.pthreads[k])
  <2>1. \A k \in 1 .. N : KnownOffset(t.pthreads[k]) \in Seq(Nat)
    BY <1>2, OffsetsOfStructAre
  <2> QED BY <1>2, <2>1
<1>4. /\ sss \in Seq(Seq(Nat)) /\ DOMAIN sss = 1 .. N
      /\ \A k \in 1 .. N : sss[k] = ScannedOffset(t.pthreads[k])
  <2>1. \A k \in 1 .. N : ScannedOffset(t.pthreads[k]) \in Seq(Nat)
    BY <1>2, OffsetsOfStructAre
  <2> QED BY <1>2, <2>1
<1> HIDE DEF kss, sss
<1>5. /\ known \in Seq(Nat) /\ scanned \in Seq(Nat)
      /\ ToSet(known) = UNION {ToSet(kss[k]) : k \in 1 .. N}
      /\ ToSet(scanned) = UNION {ToSet(sss[k]) : k \in 1 .. N}
  BY <1>3, <1>4, FlattenedSet
<1> HIDE DEF known, scanned
<1>6. \A i \in ToSet(known) \cup ToSet(scanned) : i = t.tid_at
  <2> TAKE i \in ToSet(known) \cup ToSet(scanned)
  <2>1. PICK k \in 1 .. N : i \in ToSet(kss[k]) \cup ToSet(sss[k])
    BY <1>5
  <2>2. i \in 1 .. MaxWords /\ Word(t.pthreads[k], i) = "pid"
    BY <1>2, <1>3, <1>4, <2>1, OffsetsOfStructAre
  <2> QED BY <1>2, <2>2 DEF TidsAreTold
<1>7. ToSet(known) \cup ToSet(scanned) # {}
  <2>1. PICK k \in 1 .. N :
          /\ Word(t.pthreads[k], t.tid_at) = "pid"
          /\ t.tid_at \in ToSet(Candidates) \/ Len(t.pthreads[k]) = MaxWords
    BY <1>2 DEF TidsAreTold
  <2>2. CASE t.tid_at \in ToSet(Candidates)
    <3>1. t.tid_at \in ToSet(kss[k])
      BY <1>2, <1>3, <2>1, <2>2, OffsetsOfStructAre
    <3> QED BY <1>5, <3>1
  <2>3. CASE Len(t.pthreads[k]) = MaxWords
    <3>1. t.tid_at \in DOMAIN t.pthreads[k]
      BY <2>1 DEF Word
    <3>2. t.tid_at \in 1 .. MaxWords
      BY <1>2, <2>3, <3>1, LenProperties
    <3>3. t.tid_at \in ToSet(sss[k])
      BY <1>2, <1>4, <2>1, <2>3, <3>2, OffsetsOfStructAre
    <3> QED BY <1>5, <3>3
  <2> QED BY <2>1, <2>2, <2>3
<1>8. /\ offsets \in Seq(Nat) /\ Len(offsets) = Len(known) + Len(scanned)
      /\ \A i \in 1 .. Len(known) + Len(scanned) :
           offsets[i] = IF i <= Len(known) THEN known[i] ELSE scanned[i - Len(known)]
  BY <1>5, ConcatProperties
<1>9. /\ Len(known) \in Nat /\ Len(scanned) \in Nat
      /\ ToSet(known) = {known[i] : i \in 1 .. Len(known)}
      /\ ToSet(scanned) = {scanned[i] : i \in 1 .. Len(scanned)}
  BY <1>5, LenProperties DEF ToSet
<1> HIDE DEF offsets
<1>10. Len(offsets) # 0
  <2> SUFFICES ASSUME Len(offsets) = 0 PROVE FALSE
    OBVIOUS
  <2>1. Len(known) = 0 /\ Len(scanned) = 0
    BY <1>8, <1>9
  <2> QED BY <1>7, <1>9, <2>1
<1>11. offsets # <<>> /\ 1 \in 1 .. Len(known) + Len(scanned)
  BY <1>8, <1>9, <1>10
<1>12. offsets[1] \in ToSet(known) \cup ToSet(scanned)
  <2>1. CASE Len(known) = 0
    <3>1. offsets[1] = scanned[1] /\ 1 \in 1 .. Len(scanned)
      BY <1>8, <1>9, <1>11, <2>1
    <3> QED BY <1>9, <3>1
  <2>2. CASE Len(known) # 0
    <3>1. offsets[1] = known[1] /\ 1 \in 1 .. Len(known)
      BY <1>8, <1>9, <1>11, <2>2
    <3> QED BY <1>9, <3>1
  <2> QED BY <2>1, <2>2
<1>13. FindPthreadTidOffset(t) = offsets[1]
  BY <1>11 DEF FindPthreadTidOffset, offsets, known, scanned, kss, sss
<1> QED BY <1>6, <1>12, <1>13

LEMMA ThreadTidIs ==
  ASSUME NEW t \in Targets
  PROVE  TrueTid(t) \in {GetThreadTid(t), "untold"}
<1>1. t.minor \in Nat
  BY TypedTargets
<1>2. CASE t.minor >= 11
  BY <1>2 DEF TrueTid, GetThreadTid
<1>3. CASE ~(t.minor >= 11) /\ TidsAreTold(t)
  BY <1>3, TidOffsetIs DEF TrueTid, GetThreadTid
<1>4. CASE ~(t.minor >= 11) /\ ~TidsAreTold(t)
  BY <1>4 DEF TrueTid
<1> QED BY <1>2, <1>3, <1>4

-----------------------------------------------------------------------------
(* The GIL and the collector.                                               *)

\* Who holds the GIL, or held it until now, is who is said to hold it.
LEMMA GilStatusIs ==
  ASSUME NEW t \in Targets, t.symbols
  PROVE  CalculateGilStatus(t) =
           IF t.gil = "this" \/ JustTakenFromThis(t) THEN "HELD" ELSE "NOT_HELD"
<1>1. /\ t.minor \in Nat
      /\ t.gil \in {"free", "this", "other", "taking"}
      /\ t.former \in {"this", "other"}
  BY TargetsAssumption
<1> DEFINE held == CASE t.minor >= 12 -> Locked(t) /\ LastHolder(t) = "this"
                     [] t.minor \in 8 .. 11 -> TstateCurrent(t) = "this"
                     [] t.minor = 7 -> Hits(t) = 2
                     [] OTHER -> TstateCurrent(t) = "this"
<1>2. CalculateGilStatus(t) = IF held THEN "HELD" ELSE "NOT_HELD"
  BY DEF CalculateGilStatus
<1>3. TstateCurrent(t) = "this" <=> t.gil = "this"
  BY <1>1 DEF TstateCurrent
<1>4. CASE t.minor >= 12
  <2>1. held <=> Locked(t) /\ LastHolder(t) = "this"
    BY <1>1, <1>4
  <2>2. held <=> t.gil = "this" \/ JustTakenFromThis(t)
    BY <1>1, <1>4, <2>1 DEF Locked, LastHolder, JustTakenFromThis
  <2> QED BY <1>2, <2>2
<1>5. CASE t.minor = 7
  <2> DEFINE hits == {k \in 1 .. 2 : <<TstateCurrent(t), LastHolder(t)>>[k] = "this"}
  <2>1. held <=> Cardinality(hits) = 2
    BY <1>5 DEF Hits
  <2>2. CASE t.gil = "this"
    <3>1. hits = 1 .. 2
      BY <1>3, <2>2 DEF LastHolder
    <3>2. Cardinality(1 .. 2) = 2
      <4>1. 1 \in Int /\ 2 \in Int /\ ~(1 > 2) /\ 2 - 1 + 1 = 2
        OBVIOUS
      <4> QED BY <4>1, FS_Interval
    <3> QED BY <1>2, <2>1, <2>2, <3>1, <3>2
  <2>3. CASE t.gil # "this"
    <3>1. hits \subseteq {2}
      BY <1>3, <2>3
    <3>2. IsFiniteSet({2}) /\ Cardinality({2}) = 1
      BY FS_Singleton
    <3>3. Cardinality(hits) <= 1 /\ Cardinality(hits) \in Nat
      <4> HIDE DEF hits
      <4> QED BY <3>1, <3>2, FS_Subset, FS_CardinalityType
    <3>4. ~held /\ ~JustTakenFromThis(t)
      <4> HIDE DEF hits, held
      <4> QED BY <1>5, <2>1, <3>3 DEF JustTakenFromThis
    <3> QED BY <1>2, <2>3, <3>4
  <2> QED BY <2>2, <2>3
<1>6. CASE ~(t.minor >= 12) /\ t.minor # 7
  <2>1. held <=> TstateCurrent(t) = "this"
    BY <1>1, <1>6
  <2> QED BY <1>2, <1>3, <1>6, <2>1 DEF JustTakenFromThis
<1> QED BY <1>4, <1>5, <1>6

\* What the status of a thread is when its constructor is through.
Status(t) ==
  [tid |-> GetThreadTid(t), gil |-> CalculateGilStatus(t), gc |-> CalculateGCStatus(t)]

LEMMA StatusIsTold ==
  ASSUME NEW t \in Targets
  PROVE  /\ TrueTid(t) \in {Status(t).tid, "untold"}
         /\ t.symbols => (GilText(t, Status(t)) = "Has the GIL"
                            <=> t.gil = "this" \/ JustTakenFromThis(t))
         /\ t.native = {} /\ t.symbols =>
              (SaysCollecting(t, Status(t))
                 <=> /\ t.minor >= 7
                     /\ t.collecting
                     /\ t.gil = "this" \/ JustTakenFromThis(t))
<1>1. t.minor \in Nat /\ t.collecting \in BOOLEAN
  BY TargetsAssumption
<1>2. /\ Status(t).tid = GetThreadTid(t) /\ Status(t).gil = CalculateGilStatus(t)
      /\ Status(t).gc = CalculateGCStatus(t)
  BY DEF Status
<1>3. ASSUME t.symbols
      PROVE  GilText(t, Status(t)) = "Has the GIL" <=> t.gil = "this" \/ JustTakenFromThis(t)
  <2>1. GilText(t, Status(t)) = "Has the GIL" <=> Status(t).gil = "HELD"
    BY DEF GilText
  <2> QED BY <1>2, <1>3, <2>1, GilStatusIs
<1>4. ASSUME t.native = {}, t.symbols
      PROVE  SaysCollecting(t, Status(t))
               <=> t.minor >= 7 /\ t.collecting /\ (t.gil = "this" \/ JustTakenFromThis(t))
  <2>1. Status(t).gil # "NOT_HELD" <=> t.gil = "this" \/ JustTakenFromThis(t)
    BY <1>2, <1>4, GilStatusIs
  <2>2. Status(t).gc = "COLLECTING" <=> t.minor >= 7 /\ t.collecting
    BY <1>1, <1>2, <1>4 DEF CalculateGCStatus
  <2> QED BY <1>4, <2>1, <2>2 DEF SaysCollecting
<1> QED BY <1>2, <1>3, <1>4, ThreadTidIs

-----------------------------------------------------------------------------
(* Positions.                                                               *)

Instr == [units : Nat \ {0}, line : Int, end_line : Int, column : Int, end_column : Int]

LEMMA InstrsAre ==
  ASSUME NEW minor, NEW code, CodeIsTyped(minor, code)
  PROVE  /\ code.instrs \in Seq(Instr) /\ code.firstlineno \in Int
         /\ Len(code.instrs) \in Nat /\ DOMAIN code.instrs = 1 .. Len(code.instrs)
         /\ \A i \in 1 .. Len(code.instrs) : code.instrs[i] \in Instr
<1>1. code.instrs \in Seq(Instr) /\ code.firstlineno \in Int
  BY DEF CodeIsTyped, Instr
<1> QED BY <1>1, LenProperties, ElementOfSeq

\* The line in force goes on until the next one is stated.
LEMMA LinesAre ==
  ASSUME NEW minor, NEW code, CodeIsTyped(minor, code)
  PROVE  LET N == Len(code.instrs)
         IN /\ LineBefore(code, 1) = code.firstlineno
            /\ \A i \in 1 .. N + 1 : LineBefore(code, i) \in Int
            /\ \A i \in 1 .. N :
                 LineBefore(code, i + 1) =
                   IF code.instrs[i].line = NoLine THEN LineBefore(code, i)
                   ELSE code.instrs[i].line
<1> DEFINE N == Len(code.instrs)
           Stated(i) == {j \in 1 .. i - 1 : code.instrs[j].line # NoLine}
<1>1. /\ N \in Nat /\ code.firstlineno \in Int
      /\ \A i \in 1 .. N : code.instrs[i] \in Instr
  BY InstrsAre
<1>2. \A i : LineBefore(code, i) = IF Stated(i) = {} THEN code.firstlineno
                                   ELSE code.instrs[Max(Stated(i))].line
  BY DEF LineBefore
<1> HIDE DEF N
<1>3. Stated(1) = {}
  OBVIOUS
<1>4. ASSUME NEW i \in 1 .. N + 1 PROVE LineBefore(code, i) \in Int
  <2>1. CASE Stated(i) = {}
    BY <1>1, <1>2, <2>1
  <2>2. CASE Stated(i) # {}
    <3>1. i - 1 \in Nat /\ Stated(i) \subseteq 1 .. i - 1 /\ Stated(i) \subseteq 1 .. N
      BY <1>1
    <3> HIDE DEF Stated
    <3>2. Max(Stated(i)) \in 1 .. N
      BY <2>2, <3>1, MaxIs
    <3>3. code.instrs[Max(Stated(i))].line \in Int
      BY <1>1, <3>2 DEF Instr
    <3> QED BY <1>2, <2>2, <3>3
  <2> QED BY <2>1, <2>2
<1>5. ASSUME NEW i \in 1 .. N, code.instrs[i].line = NoLine
      PROVE  LineBefore(code, i + 1) = LineBefore(code, i)
  <2>1. Stated(i + 1) = Stated(i)
    <3>1. \A j : j \in 1 .. (i + 1) - 1 <=> j \in 1 .. i - 1 \/ j = i
      BY <1>1
    <3> QED BY <1>5, <3>1
  <2> QED BY <1>2, <2>1
<1>6. ASSUME NEW i \in 1 .. N, code.instrs[i].line # NoLine
      PROVE  LineBefore(code, i + 1) = code.instrs[i].line
  <2>1. i \in Nat /\ i \in Stated(i + 1) /\ Stated(i + 1) \subseteq 1 .. i
    BY <1>1, <1>6
  <2> HIDE DEF Stated
  <2>2. Max(Stated(i + 1)) \in 1 .. i /\ i <= Max(Stated(i + 1))
    BY <2>1, MaxIs
  <2>3. Max(Stated(i + 1)) = i
    BY <2>1, <2>2
  <2> QED BY <1>2, <2>1, <2>3
<1> QED BY <1>2, <1>3, <1>4, <1>5, <1>6 DEF N

Units(code) == [j \in DOMAIN code.instrs |-> code.instrs[j].units]

\* Where the instructions start.
LEMMA StartsAre ==
  ASSUME NEW minor, NEW code, CodeIsTyped(minor, code)
  PROVE  LET N == Len(code.instrs)
         IN /\ \A n \in 0 .. N : SumOfFirst(Units(code), n) = StartOf(code, n + 1)
            /\ StartOf(code, 1) = 0
            /\ \A i \in 1 .. N + 1 : StartOf(code, i) \in Int /\ StartOf(code, i) >= 0
            /\ \A i \in 1 .. N : StartOf(code, i + 1) = StartOf(code, i) + code.instrs[i].units
            /\ \A i, j \in 1 .. N + 1 : i < j <=> StartOf(code, i) < StartOf(code, j)
<1> DEFINE N == Len(code.instrs)
           u == Units(code)
           Sum(n) == SumOfFirst(u, n)
<1>1. N \in Nat /\ DOMAIN code.instrs = 1 .. N
      /\ \A i \in 1 .. N : code.instrs[i].units \in Nat \ {0}
  BY InstrsAre DEF Instr
<1>2. u \in Seq(Int) /\ Len(u) = N /\ \A k \in 1 .. N : u[k] = code.instrs[k].units
  <2>1. u = [j \in 1 .. N |-> code.instrs[j].units]
    BY <1>1 DEF Units
  <2> HIDE DEF u, N
  <2> QED BY <1>1, <2>1
<1>3. \A i : StartOf(code, i) = Sum(i - 1)
  BY DEF StartOf, Units
<1> HIDE DEF u, N
<1>4. /\ Sum(0) = 0
      /\ \A n \in 0 .. N : Sum(n) \in Int
      /\ \A n \in 1 .. N : Sum(n) = Sum(n - 1) + u[n]
  BY <1>2, SumsAre
<1>5. \A m, n \in 0 .. N : m <= n => Sum(m) <= Sum(n)
  <2>1. \A k \in 1 .. Len(u) : u[k] >= 0
    BY <1>1, <1>2
  <2> QED BY <1>2, <2>1, SumsGrow
<1> HIDE DEF Sum
<1>6. \A n \in 1 .. N : Sum(n - 1) < Sum(n)
  <2> TAKE n \in 1 .. N
  <2>1. n \in 0 .. N /\ n - 1 \in 0 .. N
    BY <1>1
  <2>2. Sum(n) \in Int /\ Sum(n - 1) \in Int /\ u[n] \in Nat \ {0} /\ Sum(n) = Sum(n - 1) + u[n]
    BY <1>1, <1>2, <1>4, <2>1
  <2> QED BY <2>2
<1>7. ASSUME NEW m \in 0 .. N, NEW n \in 0 .. N, m < n PROVE Sum(m) < Sum(n)
  <2>1. m + 1 \in 1 .. N /\ m + 1 \in 0 .. N /\ m + 1 <= n /\ (m + 1) - 1 = m
    BY <1>1, <1>7
  <2>2. Sum(m) < Sum(m + 1)
    BY <1>6, <2>1
  <2>3. Sum(m + 1) <= Sum(n)
    BY <1>5, <2>1
  <2>4. Sum(m) \in Int /\ Sum(m + 1) \in Int /\ Sum(n) \in Int
    BY <1>4, <2>1
  <2> QED BY <2>2, <2>3, <2>4
<1>8. \A n \in 0 .. N : Sum(n) = StartOf(code, n + 1)
  <2> TAKE n \in 0 .. N
  <2>1. (n + 1) - 1 = n
    BY <1>1
  <2> QED BY <1>3, <2>1
<1>9. StartOf(code, 1) = 0
  BY <1>3, <1>4
<1>10. \A i \in 1 .. N + 1 : i - 1 \in 0 .. N
  BY <1>1
<1>11. \A i \in 1 .. N + 1 : StartOf(code, i) \in Int /\ StartOf(code, i) >= 0
  <2> TAKE i \in 1 .. N + 1
  <2>1. 0 \in 0 .. N /\ 0 <= i - 1 /\ i - 1 \in 0 .. N
    BY <1>1, <1>10
  <2>2. Sum(0) <= Sum(i - 1) /\ Sum(i - 1) \in Int
    BY <1>4, <1>5, <2>1
  <2> QED BY <1>3, <1>4, <2>2
<1>12. \A i \in 1 .. N : StartOf(code, i + 1) = StartOf(code, i) + code.instrs[i].units
  <2> TAKE i \in 1 .. N
  <2>1. (i + 1) - 1 = i
    BY <1>1
  <2> QED BY <1>2, <1>3, <1>4, <2>1
<1>13. \A i, j \in 1 .. N + 1 : i < j <=> StartOf(code, i) < StartOf(code, j)
  <2> TAKE i, j \in 1 .. N + 1
  <2>1. /\ i < j => StartOf(code, i) < StartOf(code, j)
        /\ j < i => StartOf(code, j) < StartOf(code, i)
    <3>1. \A m, n \in 1 .. N + 1 : m < n => m - 1 < n - 1
      BY <1>1
    <3> QED BY <1>3, <1>7, <1>10, <3>1
  <2>2. i < j \/ j < i \/ i = j
    BY <1>1
  <2>3. StartOf(code, i) \in Int /\ StartOf(code, j) \in Int
    BY <1>11
  <2> QED BY <2>1, <2>2, <2>3
<1> QED BY <1>8, <1>9, <1>11, <1>12, <1>13 DEF Sum, u, N

\* What a position is before it is known: its fields may hold anything.
PosInfo(X) == [lineno : Int, end_lineno : X, column : X, end_column : X]

\* What is told of an instruction that has a line.
TellsOf(info, instr, form) ==
  instr.line # NoLine =>
    /\ info.column = instr.column
    /\ instr.column = NoColumn \/ info.end_column = instr.end_column
    /\ form \in {"long", "one_line"} => info.end_lineno = instr.end_line

\* An entry goes on from the line that was in force to that of its instruction.
LEMMA EntryReads ==
  ASSUME NEW X, Int \subseteq X, NEW before \in Int, NEW instr \in Instr, NEW info \in PosInfo(X)
  PROVE  LET e == LocationEntry(instr, before)
             r == ReadEntry(info, e)
         IN /\ r \in PosInfo(X)
            /\ info.lineno = before =>
                 /\ r.lineno = IF instr.line = NoLine THEN before ELSE instr.line
                 /\ TellsOf(r, instr, e.form)
<1> DEFINE e == LocationEntry(instr, before)
           r == ReadEntry(info, e)
           delta == instr.line - before
<1>1. /\ instr.line \in Int /\ instr.end_line \in Int /\ instr.column \in Int
      /\ instr.end_column \in Int /\ NoColumn = -1
      /\ info = [lineno |-> info.lineno, end_lineno |-> info.end_lineno,
                 column |-> info.column, end_column |-> info.end_column]
      /\ info.lineno \in Int /\ info.end_lineno \in X /\ info.column \in X /\ info.end_column \in X
  BY DEF Instr, PosInfo, NoColumn
<1>2. delta \in Int /\ before + delta = instr.line
      /\ instr.line + (instr.end_line - instr.line) = instr.end_line
      /\ info.lineno + delta \in Int /\ -1 \in X /\ instr.column \in X /\ instr.end_column \in X
      /\ info.lineno + delta \in X
      /\ info.lineno + delta + (instr.end_line - instr.line) \in X
  BY <1>1
<1>3. /\ e.delta = delta /\ e.lines = instr.end_line - instr.line
      /\ e.column = instr.column /\ e.end_column = instr.end_column
      /\ e.form = CASE instr.line = NoLine -> "none"
                [] instr.line # NoLine /\ instr.column = NoColumn -> "no_columns"
                [] OTHER ->
                     IF instr.end_line # instr.line THEN "long"
                     ELSE IF delta = 0 THEN "short"
                     ELSE IF delta \in 1 .. 2 THEN "one_line" ELSE "long"
  BY DEF LocationEntry
<1>4. \/ e.form = "none" /\ instr.line = NoLine
      \/ e.form = "no_columns" /\ instr.line # NoLine /\ instr.column = NoColumn
      \/ e.form = "long" /\ instr.line # NoLine
      \/ e.form = "one_line" /\ instr.line # NoLine /\ instr.end_line = instr.line
      \/ e.form = "short" /\ instr.line # NoLine /\ delta = 0
  BY <1>3
<1> HIDE DEF e, delta
<1>5. CASE e.form = "none" /\ instr.line = NoLine
  <2>1. r = info
    BY <1>5 DEF ReadEntry
  <2> QED BY <1>5, <2>1 DEF TellsOf, e
<1>6. CASE e.form = "no_columns" /\ instr.line # NoLine /\ instr.column = NoColumn
  <2>1. r = [info EXCEPT !.lineno = @ + e.delta, !.column = -1, !.end_column = -1]
    BY <1>6 DEF ReadEntry
  <2>2. r = [lineno |-> info.lineno + delta, end_lineno |-> info.end_lineno, column |-> -1,
             end_column |-> -1]
    BY <1>1, <1>3, <2>1
  <2> HIDE DEF r
  <2>3. r \in PosInfo(X)
    BY <1>1, <1>2, <2>2 DEF PosInfo
  <2>4. info.lineno = before => r.lineno = instr.line /\ TellsOf(r, instr, e.form)
    BY <1>1, <1>2, <1>6, <2>2 DEF TellsOf
  <2> QED BY <1>6, <2>3, <2>4 DEF r, e
<1>7. CASE e.form = "long" /\ instr.line # NoLine
  <2>1. r = LocationInfo(info.lineno + e.delta, info.lineno + e.delta + e.lines, e.column,
                         e.end_column)
    BY <1>7 DEF ReadEntry
  <2>2. r = [lineno |-> info.lineno + delta,
             end_lineno |-> info.lineno + delta + (instr.end_line - instr.line),
             column |-> instr.column, end_column |-> instr.end_column]
    BY <1>3, <2>1 DEF LocationInfo
  <2> HIDE DEF r
  <2>3. r \in PosInfo(X)
    BY <1>2, <2>2 DEF PosInfo
  <2>4. info.lineno = before => r.lineno = instr.line /\ TellsOf(r, instr, e.form)
    BY <1>2, <1>7, <2>2 DEF TellsOf
  <2> QED BY <1>7, <2>3, <2>4 DEF r, e
<1>8. CASE e.form = "one_line" /\ instr.line # NoLine /\ instr.end_line = instr.line
  <2>1. r = LocationInfo(info.lineno + e.delta, info.lineno + e.delta, e.column, e.end_column)
    BY <1>8 DEF ReadEntry
  <2>2. r = [lineno |-> info.lineno + delta, end_lineno |-> info.lineno + delta,
             column |-> instr.column, end_column |-> instr.end_column]
    BY <1>3, <2>1 DEF LocationInfo
  <2> HIDE DEF r
  <2>3. r \in PosInfo(X)
    BY <1>2, <2>2 DEF PosInfo
  <2>4. info.lineno = before => r.lineno = instr.line /\ TellsOf(r, instr, e.form)
    BY <1>2, <1>8, <2>2 DEF TellsOf
  <2> QED BY <1>8, <2>3, <2>4 DEF r, e
<1>9. CASE e.form = "short" /\ instr.line # NoLine /\ delta = 0
  <2>1. r = [info EXCEPT !.column = e.column, !.end_column = e.end_column]
    BY <1>9 DEF ReadEntry
  <2>2. r = [lineno |-> info.lineno, end_lineno |-> info.end_lineno,
             column |-> instr.column, end_column |-> instr.end_column]
    BY <1>1, <1>3, <2>1
  <2> HIDE DEF r
  <2>3. r \in PosInfo(X)
    BY <1>1, <1>2, <2>2 DEF PosInfo
  <2>4. info.lineno = before => r.lineno = instr.line /\ TellsOf(r, instr, e.form)
    BY <1>1, <1>2, <1>9, <2>2 DEF TellsOf
  <2> QED BY <1>9, <2>3, <2>4 DEF r, e
<1> QED BY <1>4, <1>5, <1>6, <1>7, <1>8, <1>9

\* The recursion of ParseLinetable.
InfosOf(a, table) ==
  LET info[n \in 0 .. Len(table)] == IF n = 0 THEN a ELSE ReadEntry(info[n - 1], table[n])
  IN info

LEMMA InfosAre ==
  ASSUME NEW A, NEW a \in A, NEW table, Len(table) \in Nat,
         \A k \in 1 .. Len(table) : \A r \in A : ReadEntry(r, table[k]) \in A
  PROVE  /\ InfosOf(a, table)[0] = a
         /\ \A k \in 1 .. Len(table) :
              InfosOf(a, table)[k] = ReadEntry(InfosOf(a, table)[k - 1], table[k])
<1> DEFINE N == Len(table)
           step == [k \in 1 .. N |-> [r \in A |-> ReadEntry(r, table[k])]]
           Infos(h) == h = [n \in 0 .. Len(table) |->
                              IF n = 0 THEN a ELSE ReadEntry(h[n - 1], table[n])]
           info == CHOOSE h : Infos(h)
<1>1. \E h : Infos(h)
  <2>1. step \in [1 .. N -> [A -> A]] /\ N \in Nat
    OBVIOUS
  <2>2. PICK f \in [0 .. N -> A] : f[0] = a /\ \A k \in 1 .. N : f[k] = step[k][f[k - 1]]
    <3> HIDE DEF step, N
    <3>1. \E f \in [0 .. N -> A] : Follows(f, N, a, step)
      BY <2>1, RecursionExists
    <3> QED BY <3>1 DEF Follows
  <2>3. \A k \in 1 .. N : k - 1 \in 0 .. N /\ f[k - 1] \in A
    <3>1. N \in Nat /\ f \in [0 .. N -> A]
      BY <2>1
    <3> HIDE DEF N
    <3>2. \A k \in 1 .. N : k - 1 \in 0 .. N
      BY <3>1
    <3> QED BY <3>1, <3>2
  <2>4. \A k \in 1 .. N : f[k] = ReadEntry(f[k - 1], table[k])
    BY <2>2, <2>3
  <2>5. \A k \in 0 .. N : k = 0 \/ k \in 1 .. N
    BY <2>1
  <2>6. f = [n \in 0 .. N |-> f[n]]
    OBVIOUS
  <2>7. \A n \in 0 .. N : f[n] = IF n = 0 THEN a ELSE ReadEntry(f[n - 1], table[n])
    BY <2>2, <2>4, <2>5
  <2>8. Infos(f)
    BY <2>6, <2>7
  <2> QED BY <2>8
<1>2. Infos(info)
  BY <1>1
<1> HIDE DEF info
<1>3. \A n \in 0 .. N : info[n] = IF n = 0 THEN a ELSE ReadEntry(info[n - 1], table[n])
  BY <1>2
<1>4. info[0] = a /\ \A k \in 1 .. N : info[k] = ReadEntry(info[k - 1], table[k])
  <2>1. 0 \in 0 .. N /\ \A k \in 1 .. N : k \in 0 .. N /\ k # 0
    OBVIOUS
  <2> QED BY <1>3, <2>1
<1>5. InfosOf(a, table) = info
  BY DEF InfosOf, info
<1> QED BY <1>4, <1>5

\* From 3.11 on the entry of the instruction is found, and says where it is.
LEMMA LinetableReads ==
  ASSUME NEW minor, NEW code, CodeIsTyped(minor, code), NEW at \in 1 .. Len(code.instrs),
         NEW junk
  PROVE  LET parsed == ParseLinetable(StartOf(code, at), LocationTable(code), code.firstlineno,
                                      LocationInfo(junk, junk, junk, junk))
         IN /\ parsed.found
            /\ parsed.info.lineno = LineBefore(code, at + 1)
            /\ TellsOf(parsed.info, code.instrs[at], LocationTable(code)[at].form)
<1> DEFINE N == Len(code.instrs)
           table == LocationTable(code)
           first == code.firstlineno
           addrq == StartOf(code, at)
           posinfo == LocationInfo(junk, junk, junk, junk)
           lengths == [k \in DOMAIN table |-> table[k].length]
           spanning == {n \in DOMAIN table :
                          SumOfFirst(lengths, n - 1) <= addrq /\ SumOfFirst(lengths, n) > addrq}
           X == Int \cup {junk}
           A == PosInfo(X)
           a == [posinfo EXCEPT !.lineno = first]
           info == InfosOf(a, table)
           parsed == ParseLinetable(addrq, table, first, posinfo)
<1>1. /\ N \in Nat /\ DOMAIN code.instrs = 1 .. N /\ first \in Int
      /\ \A i \in 1 .. N : code.instrs[i] \in Instr
  BY InstrsAre
<1>2. /\ DOMAIN table = 1 .. N /\ Len(table) = N
      /\ \A k \in 1 .. N : /\ table[k] = LocationEntry(code.instrs[k], LineBefore(code, k))
                           /\ table[k].length = code.instrs[k].units
  <2>1. table = [i \in 1 .. N |-> LocationEntry(code.instrs[i], LineBefore(code, i))]
    BY <1>1 DEF LocationTable
  <2> HIDE DEF N, table
  <2>2. DOMAIN table = 1 .. N /\ Len(table) = N
        /\ \A k \in 1 .. N : table[k] = LocationEntry(code.instrs[k], LineBefore(code, k))
    BY <1>1, <2>1
  <2>3. \A instr, before : LocationEntry(instr, before).length = instr.units
    BY DEF LocationEntry
  <2> QED BY <2>2, <2>3
<1>3. parsed = [found |-> spanning # {},
                info |-> info[IF spanning = {} THEN Len(table) ELSE Min(spanning)]]
  BY DEF ParseLinetable, InfosOf
<1> HIDE DEF N, table, parsed, info, posinfo
<1>4. \A n \in 0 .. N : SumOfFirst(lengths, n) = StartOf(code, n + 1)
  <2>1. lengths = Units(code)
    BY <1>1, <1>2 DEF Units
  <2> QED BY <2>1, StartsAre DEF N
<1>5. /\ \A i \in 1 .. N + 1 : StartOf(code, i) \in Int
      /\ \A i, j \in 1 .. N + 1 : i < j <=> StartOf(code, i) < StartOf(code, j)
  BY StartsAre DEF N
<1>6. at \in 1 .. N
  BY DEF N
<1> HIDE DEF lengths, addrq
<1>7. spanning = {at}
  <2>1. ASSUME NEW n \in 1 .. N
        PROVE  SumOfFirst(lengths, n - 1) <= addrq /\ SumOfFirst(lengths, n) > addrq <=> n = at
    <3>1. n - 1 \in 0 .. N /\ n \in 0 .. N /\ (n - 1) + 1 = n
          /\ n \in 1 .. N + 1 /\ n + 1 \in 1 .. N + 1 /\ at \in 1 .. N + 1
      BY <1>1, <1>6
    <3>2. SumOfFirst(lengths, n - 1) = StartOf(code, n)
          /\ SumOfFirst(lengths, n) = StartOf(code, n + 1)
      BY <1>4, <3>1
    <3>3. /\ at < n <=> StartOf(code, at) < StartOf(code, n)
          /\ at < n + 1 <=> StartOf(code, at) < StartOf(code, n + 1)
          /\ StartOf(code, n) \in Int /\ StartOf(code, n + 1) \in Int /\ StartOf(code, at) \in Int
      BY <1>5, <3>1
    <3>4. n = at <=> ~(at < n) /\ at < n + 1
      BY <1>1, <1>6
    <3> QED BY <3>2, <3>3, <3>4 DEF addrq
  <2> QED BY <1>2, <1>6, <2>1
<1>8. parsed.found /\ parsed.info = info[at]
  <2>1. Min({at}) = at
    BY <1>1, <1>6 DEF Min
  <2> HIDE DEF spanning
  <2> QED BY <1>3, <1>7, <2>1
<1>9. /\ \A i \in 1 .. N : LineBefore(code, i) \in Int
      /\ LineBefore(code, 1) = first
      /\ \A i \in 1 .. N : LineBefore(code, i + 1) =
                             IF code.instrs[i].line = NoLine THEN LineBefore(code, i)
                             ELSE code.instrs[i].line
  <2>1. \A i \in 1 .. N : i \in 1 .. N + 1
    BY <1>1
  <2> QED BY <2>1, LinesAre DEF N
<1>10. a \in A /\ a.lineno = first
  <2>1. posinfo = [lineno |-> junk, end_lineno |-> junk, column |-> junk, end_column |-> junk]
    BY DEF posinfo, LocationInfo
  <2>2. a = [lineno |-> first, end_lineno |-> junk, column |-> junk, end_column |-> junk]
    BY <2>1
  <2> QED BY <1>1, <2>2 DEF PosInfo
<1> HIDE DEF a, first
<1>11. Int \subseteq X
  OBVIOUS
<1> HIDE DEF X
<1>12. \A k \in 1 .. N : \A r \in A :
         LET q == ReadEntry(r, table[k])
         IN /\ q \in A
            /\ r.lineno = LineBefore(code, k) =>
                 /\ q.lineno = LineBefore(code, k + 1)
                 /\ TellsOf(q, code.instrs[k], table[k].form)
  <2> TAKE k \in 1 .. N
  <2> TAKE r \in A
  <2>1. code.instrs[k] \in Instr /\ LineBefore(code, k) \in Int /\ r \in PosInfo(X)
        /\ table[k] = LocationEntry(code.instrs[k], LineBefore(code, k))
    BY <1>1, <1>2, <1>9
  <2> DEFINE instr == code.instrs[k]
             before == LineBefore(code, k)
  <2>2. /\ ReadEntry(r, LocationEntry(instr, before)) \in PosInfo(X)
        /\ r.lineno = before =>
             /\ ReadEntry(r, LocationEntry(instr, before)).lineno =
                  IF instr.line = NoLine THEN before ELSE instr.line
             /\ TellsOf(ReadEntry(r, LocationEntry(instr, before)), instr,
                        LocationEntry(instr, before).form)
    <3>1. instr \in Instr /\ before \in Int
      BY <2>1
    <3> HIDE DEF instr, before
    <3> QED BY <1>11, <2>1, <3>1, EntryReads
  <2> QED BY <1>9, <2>1, <2>2
<1> HIDE DEF A
<1>13. /\ info[0] = a
       /\ \A k \in 1 .. N : info[k] = ReadEntry(info[k - 1], table[k])
  <2>1. /\ a \in A /\ Len(table) \in Nat
        /\ \A k \in 1 .. Len(table) : \A r \in A : ReadEntry(r, table[k]) \in A
    BY <1>1, <1>2, <1>10, <1>12
  <2>2. /\ info[0] = a
        /\ \A k \in 1 .. Len(table) : info[k] = ReadEntry(info[k - 1], table[k])
    BY <2>1, InfosAre DEF info
  <2> QED BY <1>2, <2>2
<1> DEFINE Good == {n \in 0 .. N : info[n] \in A /\ info[n].lineno = LineBefore(code, n + 1)}
<1>14. 0 \in Good
  BY <1>1, <1>9, <1>10, <1>13
<1>15. \A n \in 1 .. N : n - 1 \in Good => n \in Good
  <2> TAKE n \in 1 .. N
  <2>1. (n - 1) + 1 = n /\ n \in 0 .. N
    BY <1>1
  <2> QED BY <1>12, <1>13, <2>1
<1>16. 0 .. N \subseteq Good
  <2> HIDE DEF Good
  <2> QED BY <1>1, <1>14, <1>15, StepByStep
<1>17. info[at - 1] \in A /\ info[at - 1].lineno = LineBefore(code, at)
  <2>1. at - 1 \in 0 .. N /\ (at - 1) + 1 = at
    BY <1>1, <1>6
  <2> QED BY <1>16, <2>1
<1>18. info[at].lineno = LineBefore(code, at + 1)
       /\ TellsOf(info[at], code.instrs[at], table[at].form)
  BY <1>6, <1>12, <1>13, <1>17
<1> QED BY <1>8, <1>18 DEF parsed, table, addrq, first, posinfo

\* In 3.10 the first range that reaches beyond the instruction is its own.
LEMMA LineOf310Is ==
  ASSUME NEW code, CodeIsTyped(10, code), NEW at \in 1 .. Len(code.instrs)
  PROVE  LineOf310(code, StartOf(code, at)) = LineBefore(code, at + 1)
<1> DEFINE N == Len(code.instrs)
           first == code.firstlineno
           table == LineTable(code)
           deltas == [k \in DOMAIN table |-> IF table[k][2] = NoLine THEN 0 ELSE table[k][2]]
           reaches == [k \in DOMAIN table |-> table[k][1]]
           lasti == StartOf(code, at)
           over == {n \in DOMAIN table : SumOfFirst(reaches, n) > 2 * lasti}
           Line(i) == LineBefore(code, i)
           Start(i) == StartOf(code, i)
<1>1. /\ N \in Nat /\ DOMAIN code.instrs = 1 .. N /\ first \in Int
      /\ \A i \in 1 .. N : /\ code.instrs[i].units \in Nat \ {0} /\ code.instrs[i].line \in Int
                           /\ table[i][2] = NoLine => code.instrs[i].line = NoLine
  <2>1. \A i \in 1 .. N : code.instrs[i] \in Instr
    BY InstrsAre
  <2>2. N \in Nat /\ DOMAIN code.instrs = 1 .. N /\ first \in Int
    BY InstrsAre
  <2>3. \A i \in 1 .. N : code.instrs[i].units \in Nat \ {0} /\ code.instrs[i].line \in Int
    BY <2>1 DEF Instr
  <2>4. \A i \in DOMAIN code.instrs : table[i][2] = NoLine => code.instrs[i].line = NoLine
    <3> HIDE DEF table
    <3> QED BY DEF CodeIsTyped, table
  <2> HIDE DEF N, table, first
  <2> QED BY <2>2, <2>3, <2>4
<1>2. /\ Line(1) = first
      /\ \A i \in 1 .. N + 1 : Line(i) \in Int
      /\ \A i \in 1 .. N : Line(i + 1) = IF code.instrs[i].line = NoLine THEN Line(i)
                                         ELSE code.instrs[i].line
  BY LinesAre
<1>3. /\ Start(1) = 0
      /\ \A i \in 1 .. N + 1 : Start(i) \in Int
      /\ \A i \in 1 .. N : Start(i + 1) = Start(i) + code.instrs[i].units
      /\ \A i, j \in 1 .. N + 1 : i < j <=> Start(i) < Start(j)
  BY StartsAre
<1>4. at \in 1 .. N
  OBVIOUS
<1>5. LineOf310(code, lasti) =
        first + SumOfFirst(deltas, IF over = {} THEN Len(table) ELSE Min(over))
  BY DEF LineOf310
<1> HIDE DEF N, first, Line, Start
<1>6. /\ DOMAIN table = 1 .. N
      /\ \A k \in 1 .. N :
           /\ table[k][1] = 2 * code.instrs[k].units
           /\ table[k][2] = IF code.instrs[k].line = NoLine THEN NoLine
                            ELSE code.instrs[k].line - Line(k)
  BY <1>1 DEF LineTable, Line
<1> HIDE DEF table
<1>7. /\ reaches \in Seq(Int) /\ Len(reaches) = N
      /\ \A k \in 1 .. N : reaches[k] = 2 * code.instrs[k].units
  <2>1. reaches = [k \in 1 .. N |-> 2 * code.instrs[k].units]
    BY <1>6
  <2>2. \A k \in 1 .. N : 2 * code.instrs[k].units \in Int
    BY <1>1
  <2> HIDE DEF reaches
  <2> QED BY <1>1, <2>1, <2>2
<1>8. /\ deltas \in Seq(Int) /\ Len(deltas) = N
      /\ \A k \in 1 .. N : deltas[k] \in Int /\ Line(k + 1) = Line(k) + deltas[k]
  <2>1. \A k \in 1 .. N : deltas[k] = IF code.instrs[k].line = NoLine THEN 0
                                      ELSE code.instrs[k].line - Line(k)
    BY <1>1, <1>6
  <2>2. \A k \in 1 .. N : deltas[k] \in Int /\ Line(k + 1) = Line(k) + deltas[k]
    <3> TAKE k \in 1 .. N
    <3>0. k \in 1 .. N + 1
      BY <1>1
    <3>1. Line(k) \in Int /\ code.instrs[k].line \in Int
      BY <1>1, <1>2, <3>0
    <3> HIDE DEF deltas
    <3>2. CASE code.instrs[k].line = NoLine
      BY <1>2, <2>1, <3>1, <3>2
    <3>3. CASE code.instrs[k].line # NoLine
      <4>1. \A x, y \in Int : x - y \in Int /\ x = y + (x - y)
        OBVIOUS
      <4> QED BY <1>2, <2>1, <3>1, <3>3, <4>1
    <3> QED BY <3>2, <3>3
  <2>3. deltas = [k \in 1 .. N |-> deltas[k]]
    BY <1>6
  <2> HIDE DEF deltas
  <2>4. deltas \in Seq(Int) /\ Len(deltas) = N
    <3> QED BY <1>1, <2>2, <2>3
  <2> QED BY <2>2, <2>4
<1>9. Len(table) = N
  BY <1>1, <1>6
<1> HIDE DEF reaches, deltas
<1> DEFINE Good == {n \in 0 .. N : /\ SumOfFirst(reaches, n) = 2 * Start(n + 1)
                                   /\ first + SumOfFirst(deltas, n) = Line(n + 1)}
<1>10. 0 \in Good
  <2>1. SumOfFirst(reaches, 0) = 0 /\ SumOfFirst(deltas, 0) = 0
    BY <1>7, <1>8, SumsAre
  <2>2. 0 \in 0 .. N /\ 0 + 1 = 1 /\ 2 * 0 = 0 /\ first + 0 = first
    BY <1>1
  <2> QED BY <1>2, <1>3, <2>1, <2>2
<1>11. ASSUME NEW n \in 1 .. N, n - 1 \in Good PROVE n \in Good
  <2>1. (n - 1) + 1 = n /\ n \in 0 .. N /\ n - 1 \in 0 .. N /\ n \in 1 .. N + 1
    BY <1>1
  <2>2. /\ SumOfFirst(reaches, n) = SumOfFirst(reaches, n - 1) + reaches[n]
        /\ SumOfFirst(deltas, n) = SumOfFirst(deltas, n - 1) + deltas[n]
        /\ SumOfFirst(deltas, n - 1) \in Int
    BY <1>7, <1>8, <2>1, SumsAre
  <2>3. SumOfFirst(reaches, n - 1) = 2 * Start(n) /\ first + SumOfFirst(deltas, n - 1) = Line(n)
    BY <1>11, <2>1
  <2>4. /\ Start(n + 1) = Start(n) + code.instrs[n].units /\ reaches[n] = 2 * code.instrs[n].units
        /\ Line(n + 1) = Line(n) + deltas[n] /\ deltas[n] \in Int /\ Start(n) \in Int
        /\ code.instrs[n].units \in Int /\ first \in Int
    <3>1. code.instrs[n].units \in Int /\ first \in Int
      BY <1>1
    <3>2. Start(n) \in Int /\ Start(n + 1) = Start(n) + code.instrs[n].units
      BY <1>3, <2>1
    <3> QED BY <1>7, <1>8, <3>1, <3>2
  <2>5. SumOfFirst(reaches, n) = 2 * Start(n + 1)
    <3>1. \A x, y \in Int : 2 * x + 2 * y = 2 * (x + y)
      OBVIOUS
    <3> QED BY <2>2, <2>3, <2>4, <3>1
  <2>6. first + SumOfFirst(deltas, n) = Line(n + 1)
    <3>1. \A x, y, z \in Int : x + (y + z) = (x + y) + z
      OBVIOUS
    <3> QED BY <2>2, <2>3, <2>4, <3>1
  <2> QED BY <2>1, <2>5, <2>6
<1>12. 0 .. N \subseteq Good
  <2> HIDE DEF Good
  <2> QED BY <1>1, <1>10, <1>11, StepByStep
<1>13. \A n \in 1 .. N : n \in over <=> at <= n
  <2> TAKE n \in 1 .. N
  <2>1. n \in 0 .. N /\ at \in 1 .. N + 1 /\ n + 1 \in 1 .. N + 1
    BY <1>1, <1>4
  <2>2. SumOfFirst(reaches, n) = 2 * Start(n + 1)
    BY <1>12, <2>1
  <2>3. Start(n + 1) \in Int /\ Start(at) \in Int
        /\ (at < n + 1 <=> Start(at) < Start(n + 1))
    BY <1>3, <2>1
  <2>4. at < n + 1 <=> at <= n
    BY <1>1, <1>4
  <2>5. \A x, y \in Int : 2 * x > 2 * y <=> y < x
    OBVIOUS
  <2>6. n \in over <=> SumOfFirst(reaches, n) > 2 * Start(at)
    BY <1>6 DEF Start
  <2> QED BY <2>2, <2>3, <2>4, <2>5, <2>6
<1>14. over \subseteq 1 .. N /\ at \in over
  BY <1>4, <1>6, <1>13
<1> HIDE DEF over
<1>15. over # {} /\ Min(over) = at
  <2>1. over \subseteq Nat /\ over # {}
    BY <1>1, <1>14
  <2>2. Min(over) \in over /\ \A n \in over : Min(over) <= n
    BY <2>1, MinIs
  <2>3. Min(over) <= at /\ at <= Min(over) /\ Min(over) \in Nat /\ at \in Nat
    BY <1>13, <1>14, <2>1, <2>2
  <2> QED BY <2>1, <2>3
<1>16. LineOf310(code, lasti) = first + SumOfFirst(deltas, at)
  BY <1>5, <1>15
<1>17. at \in 0 .. N
  BY <1>1, <1>4
<1>18. first + SumOfFirst(deltas, at) = Line(at + 1)
  BY <1>12, <1>17
<1> QED BY <1>16, <1>18 DEF Line

\* Up to 3.9: the instructions whose line is another than the last.
ChangedAt(code) ==
  {i \in 1 .. Len(code.instrs) : code.instrs[i].line # LineBefore(code, i)}

ChangesOf(code) == Selected([i \in 1 .. Len(code.instrs) |-> i], ChangedAt(code))

\* The k-th of them, and 0 before the first.
ChangeOf(code, k) == IF k = 0 THEN 0 ELSE ChangesOf(code)[k]

\* A line that does not change stays the same.
LEMMA LineStays ==
  ASSUME NEW code, NEW m \in Nat, NEW n \in Nat, m <= n,
         \A i \in m .. n - 1 : LineBefore(code, i + 1) = LineBefore(code, i)
  PROVE  LineBefore(code, n) = LineBefore(code, m)
<1> DEFINE Good == {d \in 0 .. n - m : LineBefore(code, m + d) = LineBefore(code, m)}
<1>1. n - m \in Nat /\ m + (n - m) = n /\ m + 0 = m
  OBVIOUS
<1>2. 0 \in Good
  BY <1>1
<1>3. ASSUME NEW d \in 1 .. n - m, d - 1 \in Good PROVE d \in Good
  <2>1. m + (d - 1) \in m .. n - 1 /\ (m + (d - 1)) + 1 = m + d /\ d \in 0 .. n - m
    BY <1>1
  <2>2. LineBefore(code, m + d) = LineBefore(code, m + (d - 1))
    BY <2>1
  <2> QED BY <1>3, <2>1, <2>2
<1>4. n - m \in Good
  <2> HIDE DEF Good
  <2>1. 0 .. n - m \subseteq Good
    BY <1>1, <1>2, <1>3, StepByStep
  <2> QED BY <1>1, <2>1
<1> QED BY <1>1, <1>4

\* Between one change and the next the line stays the same.
LEMMA ChangesAre ==
  ASSUME NEW minor, NEW code, CodeIsTyped(minor, code), minor < 10
  PROVE  LET N == Len(code.instrs)
             K == Len(ChangesOf(code))
         IN /\ ChangesOf(code) \in Seq(1 .. N) /\ K \in Nat
            /\ \A k \in 1 .. K : ChangesOf(code)[k] \in 1 .. N
            /\ \A k \in 0 .. K : ChangeOf(code, k) \in 0 .. N
            /\ \A j, k \in 0 .. K : j < k => ChangeOf(code, j) < ChangeOf(code, k)
            /\ \A k \in 0 .. K, n \in 1 .. N + 1 :
                 ChangeOf(code, k) < n /\ (\A j \in k + 1 .. K : n <= ChangeOf(code, j))
                   => LineBefore(code, n) = LineBefore(code, ChangeOf(code, k) + 1)
<1> DEFINE N == Len(code.instrs)
           r == ChangesOf(code)
           K == Len(r)
           P == ChangedAt(code)
           Up(k) == ChangeOf(code, k)
<1>1. /\ N \in Nat /\ DOMAIN code.instrs = 1 .. N
      /\ \A i \in 1 .. N : code.instrs[i].line # NoLine
  BY InstrsAre DEF CodeIsTyped
<1>2. \A i \in 1 .. N : LineBefore(code, i + 1) = code.instrs[i].line
  BY <1>1, LinesAre
<1>3. /\ r \in Seq(1 .. N)
      /\ \A k \in 1 .. Len(r) : r[k] \in P /\ r[k] \in 1 .. N
      /\ \A j, k \in 1 .. Len(r) : j < k => r[j] < r[k]
      /\ \A i \in 1 .. N : i \in P => \E k \in 1 .. Len(r) : r[k] = i
  <2>1. r = Selected([i \in 1 .. N |-> i], P)
    BY DEF ChangesOf
  <2> HIDE DEF N, r, P
  <2> QED BY <1>1, <2>1, PlacesSelected
<1>4. \A i \in 1 .. N : i \notin P => LineBefore(code, i + 1) = LineBefore(code, i)
  BY <1>2 DEF ChangedAt
<1> HIDE DEF N, r, P
<1>5. K \in Nat
  BY <1>3, LenProperties
<1>6. Up(0) = 0 /\ \A k \in 1 .. K : Up(k) = r[k]
  BY <1>5 DEF ChangeOf, r
<1> HIDE DEF Up, K
<1>7. \A k \in 0 .. K : Up(k) \in 0 .. N
  <2> TAKE k \in 0 .. K
  <2>1. k = 0 \/ k \in 1 .. K
    BY <1>5
  <2>2. \A i \in 1 .. N : i \in 0 .. N
    BY <1>1
  <2> QED BY <1>1, <1>3, <1>6, <2>1, <2>2 DEF K
<1>8. \A j, k \in 0 .. K : j < k => Up(j) < Up(k)
  <2> TAKE j, k \in 0 .. K
  <2> SUFFICES ASSUME j < k PROVE Up(j) < Up(k)
    OBVIOUS
  <2>1. k \in 1 .. K /\ (j = 0 \/ j \in 1 .. K)
    BY <1>5
  <2>2. Up(k) = r[k] /\ r[k] \in 1 .. N
    BY <1>3, <1>6, <2>1 DEF K
  <2>3. CASE j = 0
    BY <1>1, <1>6, <2>2, <2>3
  <2>4. CASE j \in 1 .. K
    BY <1>3, <1>6, <2>1, <2>2, <2>4 DEF K
  <2> QED BY <2>1, <2>3, <2>4
<1>9. ASSUME NEW k \in 0 .. K, NEW n \in 1 .. N + 1, Up(k) < n,
             \A j \in k + 1 .. K : n <= Up(j)
      PROVE  LineBefore(code, n) = LineBefore(code, Up(k) + 1)
  <2>1. Up(k) \in Nat /\ n \in Nat /\ Up(k) + 1 <= n /\ Up(k) + 1 \in Nat
    BY <1>1, <1>7, <1>9
  <2>2. ASSUME NEW i \in Up(k) + 1 .. n - 1
        PROVE  LineBefore(code, i + 1) = LineBefore(code, i)
    <3>1. i \in 1 .. N
      BY <1>1, <2>1
    <3>2. i \notin P
      <4> SUFFICES ASSUME i \in P PROVE FALSE
        OBVIOUS
      <4>1. PICK j \in 1 .. K : Up(j) = i
        BY <1>3, <1>6, <3>1 DEF K
      <4>2. j \in 0 .. K /\ j \in Nat /\ k \in Nat
        BY <1>5
      <4>3. k < j
        <5>1. j < k => Up(j) < Up(k)
          BY <1>8, <4>2
        <5>2. ~(i <= Up(k))
          BY <2>1
        <5> QED BY <2>1, <4>1, <4>2, <5>1, <5>2
      <4>4. j \in k + 1 .. K
        BY <1>5, <4>2, <4>3
      <4>5. n <= i
        BY <1>9, <4>1, <4>4
      <4> QED BY <2>1, <4>5
    <3> QED BY <1>4, <3>1, <3>2
  <2> QED BY <2>1, <2>2, LineStays
<1> QED BY <1>3, <1>5, <1>7, <1>8, <1>9 DEF N, r, K, Up

\* Up to 3.9 a change of the line takes effect when its instruction is reached, as long
\* as char holds how far on it is.
LEMMA LineOfLnotabIs ==
  ASSUME NEW minor, NEW code, CodeIsTyped(minor, code), minor < 10,
         NEW at \in 1 .. Len(code.instrs),
         SignedChar => \A k \in DOMAIN Lnotab(code) : Lnotab(code)[k][1] <= 127
  PROVE  LineOfLnotab(code, 2 * StartOf(code, at)) = LineBefore(code, at + 1)
<1> DEFINE N == Len(code.instrs)
           first == code.firstlineno
           r == ChangesOf(code)
           K == Len(r)
           Up(k) == ChangeOf(code, k)
           Line(i) == LineBefore(code, i)
           Start(i) == StartOf(code, i)
           At(k) == IF k = 0 THEN 0 ELSE Start(r[k])
           table == Lnotab(code)
           bytes == [k \in DOMAIN table |-> Char(table[k][1])]
           lines == [k \in DOMAIN table |-> table[k][2]]
           lasti == 2 * Start(at)
           over == {n \in DOMAIN table :
                      SumOfFirst(bytes, n) < 0 \/ SumOfFirst(bytes, n) > lasti}
<1>1. /\ N \in Nat /\ DOMAIN code.instrs = 1 .. N /\ first \in Int
      /\ \A i \in 1 .. N : code.instrs[i].line \in Int /\ code.instrs[i].line # NoLine
  <2>1. \A i \in 1 .. N : code.instrs[i] \in Instr
    BY InstrsAre
  <2>2. N \in Nat /\ DOMAIN code.instrs = 1 .. N /\ first \in Int
    BY InstrsAre
  <2>3. \A i \in DOMAIN code.instrs : code.instrs[i].line # NoLine
    BY DEF CodeIsTyped
  <2> QED BY <2>1, <2>2, <2>3 DEF Instr
<1>2. /\ Line(1) = first
      /\ \A i \in 1 .. N + 1 : Line(i) \in Int
      /\ \A i \in 1 .. N : Line(i + 1) = code.instrs[i].line
  BY <1>1, LinesAre
<1>3. /\ \A i \in 1 .. N + 1 : Start(i) \in Int /\ Start(i) >= 0
      /\ \A i, j \in 1 .. N + 1 : i < j <=> Start(i) < Start(j)
  BY StartsAre
<1>4. /\ r \in Seq(1 .. N) /\ K \in Nat
      /\ \A k \in 1 .. K : r[k] \in 1 .. N /\ Up(k) = r[k]
      /\ Up(0) = 0 /\ \A k \in 0 .. K : Up(k) \in 0 .. N
      /\ \A j, k \in 0 .. K : j < k => Up(j) < Up(k)
      /\ \A k \in 0 .. K, n \in 1 .. N + 1 :
           Up(k) < n /\ (\A j \in k + 1 .. K : n <= Up(j)) => Line(n) = Line(Up(k) + 1)
  <2>1. /\ r \in Seq(1 .. N) /\ K \in Nat
        /\ \A k \in 1 .. K : r[k] \in 1 .. N
        /\ \A k \in 0 .. K : Up(k) \in 0 .. N
        /\ \A j, k \in 0 .. K : j < k => Up(j) < Up(k)
        /\ \A k \in 0 .. K, n \in 1 .. N + 1 :
             Up(k) < n /\ (\A j \in k + 1 .. K : n <= Up(j)) => Line(n) = Line(Up(k) + 1)
    BY ChangesAre
  <2>2. Up(0) = 0 /\ \A k \in 1 .. K : Up(k) = r[k]
    <3>1. \A k \in 1 .. K : k # 0
      BY <2>1
    <3> QED BY <3>1 DEF ChangeOf
  <2> QED BY <2>1, <2>2
<1>5. at \in 1 .. N
  OBVIOUS
<1>6. LineOfLnotab(code, lasti) =
        first + SumOfFirst(lines, IF over = {} THEN Len(table) ELSE Min(over) - 1)
  BY DEF LineOfLnotab
<1>7. /\ table = [k \in DOMAIN r |->
                    LET since == IF k = 1 THEN 0 ELSE Start(r[k - 1])
                    IN <<2 * (Start(r[k]) - since), code.instrs[r[k]].line - Line(r[k])>>]
      /\ SignedChar => \A k \in DOMAIN table : table[k][1] <= 127
  <2> DEFINE places == [i \in DOMAIN code.instrs |-> i]
             Changes(i) == code.instrs[i].line # LineBefore(code, i)
  <2>1. Filtered(places, Changes) = Selected(places, {n \in DOMAIN places : Changes(places[n])})
    BY DEF Filtered
  <2>2. places = [i \in 1 .. N |-> i]
        /\ {n \in DOMAIN places : Changes(places[n])} = ChangedAt(code)
    BY <1>1 DEF ChangedAt
  <2>3. Filtered(places, Changes) = r
    BY <2>1, <2>2 DEF ChangesOf
  <2>4. table = [k \in DOMAIN Filtered(places, Changes) |->
                    LET since == IF k = 1 THEN 0 ELSE Start(Filtered(places, Changes)[k - 1])
                    IN <<2 * (Start(Filtered(places, Changes)[k]) - since),
                         code.instrs[Filtered(places, Changes)[k]].line
                           - Line(Filtered(places, Changes)[k])>>]
    BY DEF Lnotab
  <2> HIDE DEF r
  <2> QED BY <2>3, <2>4
<1> HIDE DEF N, first, Line, Start, Up, r
<1>8. /\ DOMAIN table = 1 .. K /\ Len(table) = K
      /\ \A k \in 1 .. K : /\ table[k][1] = 2 * (At(k) - At(k - 1))
                           /\ table[k][2] = code.instrs[r[k]].line - Line(r[k])
  <2>1. DOMAIN r = 1 .. K
    BY <1>4, LenProperties
  <2>2. \A k \in 1 .. K : (IF k = 1 THEN 0 ELSE Start(r[k - 1])) = At(k - 1) /\ At(k) = Start(r[k])
    BY <1>4
  <2> HIDE DEF table, K, At
  <2>3. DOMAIN table = 1 .. K /\ Len(table) = K
    BY <1>4, <1>7, <2>1
  <2> QED BY <1>7, <2>1, <2>2, <2>3
<1>9. \A k \in 0 .. K : At(k) \in Int /\ At(k) >= 0
  <2> TAKE k \in 0 .. K
  <2>1. k = 0 \/ k \in 1 .. K
    BY <1>4
  <2>2. \A i \in 1 .. N : i \in 1 .. N + 1
    BY <1>1
  <2> QED BY <1>3, <1>4, <2>1, <2>2
<1> HIDE DEF table, K, At
<1>10. \A k \in 1 .. K : k \in 0 .. K /\ k - 1 \in 0 .. K /\ (k - 1) + 1 = k /\ k - 1 < k
  BY <1>4
<1>11. /\ bytes \in Seq(Int) /\ Len(bytes) = K
       /\ \A k \in 1 .. K : bytes[k] = 2 * (At(k) - At(k - 1))
  <2>1. \A k \in 1 .. K : Char(table[k][1]) = 2 * (At(k) - At(k - 1))
                          /\ Char(table[k][1]) \in Int
    <3> TAKE k \in 1 .. K
    <3>1. At(k) \in Int /\ At(k - 1) \in Int
      BY <1>9, <1>10
    <3>2. 2 * (At(k) - At(k - 1)) \in Int
      BY <3>1
    <3>3. table[k][1] = 2 * (At(k) - At(k - 1))
      BY <1>8
    <3>4. ~(SignedChar /\ table[k][1] > 127)
      <4>1. SignedChar => table[k][1] <= 127
        BY <1>7, <1>8
      <4>2. \A x \in Int : x <= 127 => ~(x > 127)
        OBVIOUS
      <4> QED BY <3>2, <3>3, <4>1, <4>2
    <3> QED BY <3>2, <3>3, <3>4 DEF Char
  <2>2. bytes = [k \in 1 .. K |-> Char(table[k][1])]
    BY <1>8
  <2> HIDE DEF bytes
  <2> QED BY <1>4, <2>1, <2>2
<1>12. /\ lines \in Seq(Int) /\ Len(lines) = K
       /\ \A k \in 1 .. K : lines[k] \in Int /\ Line(r[k]) + lines[k] = Line(r[k] + 1)
  <2>1. \A k \in 1 .. K : table[k][2] \in Int /\ Line(r[k]) + table[k][2] = Line(r[k] + 1)
    <3> TAKE k \in 1 .. K
    <3>1. r[k] \in 1 .. N /\ r[k] \in 1 .. N + 1
      BY <1>1, <1>4
    <3>2. Line(r[k]) \in Int /\ code.instrs[r[k]].line \in Int
          /\ Line(r[k] + 1) = code.instrs[r[k]].line
      BY <1>1, <1>2, <3>1
    <3>3. \A x, y \in Int : x - y \in Int /\ y + (x - y) = x
      OBVIOUS
    <3>4. table[k][2] = code.instrs[r[k]].line - Line(r[k])
      BY <1>8
    <3> QED BY <3>2, <3>3, <3>4
  <2>2. lines = [k \in 1 .. K |-> table[k][2]]
    BY <1>8
  <2> HIDE DEF lines
  <2> QED BY <1>4, <2>1, <2>2
<1> HIDE DEF bytes, lines
<1>13. \A k \in 1 .. K : Line(r[k]) = Line(Up(k - 1) + 1)
  <2> TAKE k \in 1 .. K
  <2>1. r[k] \in 1 .. N + 1 /\ Up(k) = r[k] /\ Up(k - 1) < Up(k)
    BY <1>1, <1>4, <1>10
  <2>2. ASSUME NEW j \in (k - 1) + 1 .. K PROVE r[k] <= Up(j)
    <3>1. j \in 0 .. K /\ (j = k \/ k < j) /\ k \in 0 .. K
      BY <1>4, <1>10
    <3>2. Up(j) \in 0 .. N /\ Up(k) \in 0 .. N /\ (k < j => Up(k) < Up(j))
      BY <1>4, <3>1
    <3> QED BY <1>1, <2>1, <3>1, <3>2
  <2> QED BY <1>4, <1>10, <2>1, <2>2
<1> DEFINE Good == {k \in 0 .. K : /\ SumOfFirst(bytes, k) = 2 * At(k)
                                   /\ first + SumOfFirst(lines, k) = Line(Up(k) + 1)}
<1>14. 0 \in Good
  <2>1. SumOfFirst(bytes, 0) = 0 /\ SumOfFirst(lines, 0) = 0
    BY <1>11, <1>12, SumsAre
  <2>2. 0 \in 0 .. K /\ 0 + 1 = 1 /\ 2 * 0 = 0 /\ first + 0 = first /\ At(0) = 0
    BY <1>1, <1>4 DEF At
  <2> QED BY <1>2, <1>4, <2>1, <2>2
<1>15. ASSUME NEW k \in 1 .. K, k - 1 \in Good PROVE k \in Good
  <2>1. /\ SumOfFirst(bytes, k) = SumOfFirst(bytes, k - 1) + bytes[k]
        /\ SumOfFirst(lines, k) = SumOfFirst(lines, k - 1) + lines[k]
        /\ SumOfFirst(lines, k - 1) \in Int
    BY <1>10, <1>11, <1>12, SumsAre
  <2>2. SumOfFirst(bytes, k - 1) = 2 * At(k - 1)
        /\ first + SumOfFirst(lines, k - 1) = Line(Up(k - 1) + 1)
    BY <1>15
  <2>3. SumOfFirst(bytes, k) = 2 * At(k)
    <3>1. At(k) \in Int /\ At(k - 1) \in Int
      BY <1>9, <1>10
    <3>2. \A x, y \in Int : 2 * y + 2 * (x - y) = 2 * x
      OBVIOUS
    <3> QED BY <1>11, <2>1, <2>2, <3>1, <3>2
  <2>4. first + SumOfFirst(lines, k) = Line(Up(k) + 1)
    <3>1. lines[k] \in Int /\ Line(r[k]) + lines[k] = Line(r[k] + 1) /\ Up(k) = r[k]
          /\ Line(r[k]) = Line(Up(k - 1) + 1) /\ first \in Int
      BY <1>1, <1>4, <1>12, <1>13
    <3>2. \A x, y, z \in Int : x + (y + z) = (x + y) + z
      OBVIOUS
    <3> QED BY <2>1, <2>2, <3>1, <3>2
  <2> QED BY <1>10, <2>3, <2>4
<1>16. \A k \in 0 .. K : /\ SumOfFirst(bytes, k) = 2 * At(k)
                         /\ first + SumOfFirst(lines, k) = Line(Up(k) + 1)
  <2>1. 0 .. K \subseteq Good
    <3> HIDE DEF Good
    <3> QED BY <1>4, <1>14, <1>15, StepByStep
  <2> QED BY <2>1
<1> HIDE DEF Good
<1>17. \A k \in 1 .. K : k \in over <=> at < Up(k)
  <2> TAKE k \in 1 .. K
  <2>1. SumOfFirst(bytes, k) = 2 * At(k) /\ At(k) \in Int /\ At(k) >= 0
    BY <1>9, <1>10, <1>16
  <2>2. At(k) = Start(r[k]) /\ r[k] = Up(k)
    BY <1>4 DEF At
  <2>3. r[k] \in 1 .. N + 1 /\ at \in 1 .. N + 1
    BY <1>1, <1>4, <1>5
  <2>4. Start(at) \in Int /\ (at < r[k] <=> Start(at) < Start(r[k]))
    BY <1>3, <2>3
  <2>5. k \in over <=> SumOfFirst(bytes, k) < 0 \/ SumOfFirst(bytes, k) > 2 * Start(at)
    BY <1>8
  <2>6. \A x, y \in Int : x >= 0 => (2 * x < 0 \/ 2 * x > 2 * y <=> y < x)
    OBVIOUS
  <2> QED BY <2>1, <2>2, <2>4, <2>5, <2>6
<1>18. over \subseteq 1 .. K
  BY <1>8
<1> HIDE DEF over
<1> DEFINE e == IF over = {} THEN K ELSE Min(over) - 1
<1>19. /\ e \in 0 .. K /\ Up(e) < at + 1
       /\ \A j \in e + 1 .. K : at + 1 <= Up(j)
  <2>0. \A k \in 0 .. K : Up(k) \in Nat /\ (k \in 1 .. K \/ k = 0)
    BY <1>1, <1>4
  <2>1. CASE over = {}
    <3>1. K \in 0 .. K /\ e = K
      BY <1>4, <2>1
    <3>2. Up(K) < at + 1
      BY <1>4, <1>5, <1>17, <2>0, <2>1, <3>1
    <3>3. e + 1 .. K = {}
      BY <1>4, <3>1
    <3> QED BY <3>1, <3>2, <3>3
  <2>2. CASE over # {}
    <3> DEFINE m == Min(over)
    <3>1. over \subseteq Nat
      BY <1>4, <1>18
    <3>2. m \in over /\ \A n \in over : m <= n
      BY <2>2, <3>1, MinIs
    <3> HIDE DEF m
    <3>3. m \in 1 .. K /\ e = m - 1
      BY <1>18, <2>2, <3>2 DEF m
    <3>4. e \in 0 .. K /\ e < m /\ e + 1 = m
      BY <1>10, <3>3
    <3>5. e \notin over
      BY <1>4, <3>2, <3>3, <3>4
    <3>6. Up(e) < at + 1
      BY <1>4, <1>5, <1>17, <2>0, <3>4, <3>5
    <3>7. ASSUME NEW j \in e + 1 .. K PROVE at + 1 <= Up(j)
      <4>1. j \in 0 .. K /\ m \in 0 .. K /\ (j = m \/ m < j)
        BY <1>4, <3>3, <3>4
      <4>2. at < Up(m)
        BY <1>17, <3>2, <3>3
      <4>3. Up(m) \in Nat /\ Up(j) \in Nat /\ (m < j => Up(m) < Up(j))
        BY <1>4, <2>0, <4>1
      <4>4. at \in Nat
        BY <1>5
      <4> QED BY <4>1, <4>2, <4>3, <4>4
    <3> QED BY <3>4, <3>6, <3>7
  <2> QED BY <2>1, <2>2
<1>20. LineOfLnotab(code, lasti) = first + SumOfFirst(lines, e)
  <2>1. e = IF over = {} THEN Len(table) ELSE Min(over) - 1
    BY <1>8
  <2> HIDE DEF e
  <2> QED BY <1>6, <2>1
<1> HIDE DEF e
<1>21. at + 1 \in 1 .. N + 1
  BY <1>1, <1>5
<1>22. Line(at + 1) = Line(Up(e) + 1)
  BY <1>4, <1>19, <1>21
<1> QED BY <1>16, <1>19, <1>20, <1>22 DEF Line, Start

\* Up to 3.9 a distance of more than 127 bytes is read as a negative number where char is
\* signed.
LinesAreShort ==
  \A t \in Targets : t.minor < 10 /\ SignedChar =>
    \A f \in Called(t) : \A k \in DOMAIN Lnotab(f.code) : Lnotab(f.code)[k][1] <= 127

\* The position of a frame that executes instruction at, with what its table tells.
IsPosition(t, code, at, location) ==
  /\ location.lineno = LineBefore(code, at + 1)
  /\ t.minor >= 11 => TellsOf(location, code.instrs[at], LocationTable(code)[at].form)

LEMMA PositionIs ==
  ASSUME LinesAreShort, NEW t \in Targets, NEW f \in Called(t), NEW junk
  PROVE  IsPosition(t, f.code, f.at,
                    GetLocationInfo(t, f.code, f.at, LocationInfo(junk, junk, junk, junk)))
<1> DEFINE code == f.code
           at == f.at
           posinfo == LocationInfo(junk, junk, junk, junk)
           location == GetLocationInfo(t, code, at, posinfo)
<1>1. t.minor \in Nat /\ CodeIsTyped(t.minor, code) /\ at \in DOMAIN code.instrs
  BY TypedTargets
<1>2. at \in 1 .. Len(code.instrs)
  BY <1>1, InstrsAre
<1>3. CASE t.minor >= 11
  <2> DEFINE parsed == ParseLinetable(StartOf(code, at), LocationTable(code), code.firstlineno,
                                      posinfo)
  <2>1. location = IF parsed.found THEN parsed.info ELSE LocationInfo(0, 0, 0, 0)
    BY <1>3 DEF GetLocationInfo
  <2>2. /\ parsed.found
        /\ parsed.info.lineno = LineBefore(code, at + 1)
        /\ TellsOf(parsed.info, code.instrs[at], LocationTable(code)[at].form)
    <3> HIDE DEF code, at
    <3> QED BY <1>1, <1>2, LinetableReads
  <2> HIDE DEF location, parsed, code, at
  <2>3. IsPosition(t, code, at, location)
    BY <2>1, <2>2 DEF IsPosition
  <2> QED BY <2>3 DEF location, code, at
<1>4. CASE t.minor < 11
  <2> DEFINE line == IF t.minor = 10 THEN LineOf310(code, StartOf(code, at))
                     ELSE LineOfLnotab(code, 2 * StartOf(code, at))
  <2>1. ~(t.minor >= 11)
    BY <1>1, <1>4
  <2>2. location.lineno = line
    <3>1. location = LocationInfo(line, line, 0, 0)
      BY <2>1 DEF GetLocationInfo
    <3> HIDE DEF location, line
    <3> QED BY <3>1 DEF LocationInfo
  <2>3. line = LineBefore(code, at + 1)
    <3>1. CASE t.minor = 10
      <4>1. LineOf310(code, StartOf(code, at)) = LineBefore(code, at + 1)
        <5>1. CodeIsTyped(10, code)
          BY <1>1, <3>1
        <5> HIDE DEF code, at
        <5> QED BY <1>2, <5>1, LineOf310Is
      <4> QED BY <3>1, <4>1
    <3>2. CASE t.minor # 10
      <4>1. t.minor < 10
        BY <1>1, <1>4, <3>2
      <4>2. SignedChar => \A k \in DOMAIN Lnotab(code) : Lnotab(code)[k][1] <= 127
        BY <4>1 DEF LinesAreShort
      <4>3. LineOfLnotab(code, 2 * StartOf(code, at)) = LineBefore(code, at + 1)
        <5> HIDE DEF code, at
        <5> QED BY <1>1, <1>2, <4>1, <4>2, LineOfLnotabIs
      <4> QED BY <3>2, <4>3
    <3> QED BY <3>1, <3>2
  <2> HIDE DEF location, line, code, at
  <2>4. IsPosition(t, code, at, location)
    BY <2>1, <2>2, <2>3 DEF IsPosition
  <2> QED BY <2>4 DEF location, code, at
<1> QED BY <1>1, <1>3, <1>4

-----------------------------------------------------------------------------
(* Reading the frames.                                                      *)

IsSeq(s) == \E S : s \in Seq(S)

LEMMA SeqIs ==
  ASSUME NEW s, IsSeq(s)
  PROVE  Len(s) \in Nat /\ DOMAIN s = 1 .. Len(s)
BY LenProperties DEF IsSeq

LEMMA AppendTo ==
  ASSUME NEW s, IsSeq(s), NEW x
  PROVE  LET r == Append(s, x)
         IN /\ IsSeq(r) /\ Len(r) = Len(s) + 1
            /\ r[Len(s) + 1] = x
            /\ \A k \in 1 .. Len(s) : r[k] = s[k]
<1>1. PICK S : s \in Seq(S)
  BY DEF IsSeq
<1>2. s \in Seq(S \cup {x}) /\ x \in S \cup {x}
  <2>1. Len(s) \in Nat /\ s \in [1 .. Len(s) -> S]
    BY <1>1, LenProperties
  <2>2. s \in [1 .. Len(s) -> S \cup {x}]
    BY <2>1
  <2> QED BY <2>1, <2>2
<1> DEFINE r == Append(s, x)
<1>3. /\ r \in Seq(S \cup {x}) /\ Len(r) = Len(s) + 1
      /\ \A i \in 1 .. Len(s) : r[i] = s[i]
      /\ r[Len(s) + 1] = x
  BY <1>2, AppendProperties
<1> QED BY <1>3 DEF IsSeq

\* What the constructor of FrameObject makes of the frame n.
IsLink(t, n, link) ==
  \E no, junk : link = FrameObject(t, n, no, LocationInfo(junk, junk, junk, junk))

LEMMA LinkIs ==
  ASSUME NEW t \in Targets, NEW n \in 1 .. Len(StackOf(t)), NEW link, IsLink(t, n, link)
  PROVE  LET f == StackOf(t)[n]
         IN /\ f.shim \in BOOLEAN /\ link.is_shim = f.shim
            /\ ~f.shim => (link.code.filename # "???" <=> f.code.understood)
<1> DEFINE f == StackOf(t)[n]
<1>1. PICK no, junk : link = FrameObject(t, n, no, LocationInfo(junk, junk, junk, junk))
  BY DEF IsLink
<1> DEFINE posinfo == LocationInfo(junk, junk, junk, junk)
<1>2. link.is_shim = GetIsShim(t, f)
      /\ link.code = IF GetIsShim(t, f) THEN NoCode ELSE GetCode(t, f, posinfo)
  BY <1>1 DEF FrameObject
<1>3. /\ f.shim \in BOOLEAN
      /\ f.shim => t.minor >= 12
      /\ ~f.shim => f.code.understood \in BOOLEAN
      /\ ~f.shim /\ f.code.understood => f.code.filename # "???"
  BY FrameIs
<1>4. GetIsShim(t, f) = f.shim
  BY <1>3 DEF GetIsShim
<1>5. ASSUME ~f.shim PROVE link.code.filename # "???" <=> f.code.understood
  <2>1. link.code = GetCode(t, f, posinfo)
    BY <1>2, <1>4, <1>5
  <2>2. CASE f.code.understood
    <3>1. link.code.filename = f.code.filename
      BY <2>1, <2>2 DEF GetCode
    <3> QED BY <1>3, <1>5, <2>2, <3>1
  <2>3. CASE ~f.code.understood
    <3>1. link.code.filename = "???"
      BY <2>1, <2>3 DEF GetCode
    <3> QED BY <2>3, <3>1
  <2> QED BY <2>2, <2>3
<1> QED BY <1>2, <1>3, <1>4, <1>5

\* Its code is at the position of the frame.
LEMMA LinkTells ==
  ASSUME LinesAreShort, NEW t \in Targets, NEW n \in 1 .. Len(StackOf(t)),
         NEW link, IsLink(t, n, link),
         ~StackOf(t)[n].shim, StackOf(t)[n].code.understood
  PROVE  IsPosition(t, StackOf(t)[n].code, StackOf(t)[n].at, link.code.location)
<1> DEFINE f == StackOf(t)[n]
<1>1. PICK no, junk : link = FrameObject(t, n, no, LocationInfo(junk, junk, junk, junk))
  BY DEF IsLink
<1> DEFINE posinfo == LocationInfo(junk, junk, junk, junk)
<1>2. PICK g \in Called(t) : f.code = g.code /\ f.at = g.at
  BY FrameIs
<1>3. link.code.location = GetLocationInfo(t, f.code, f.at, posinfo)
  <2>1. ~GetIsShim(t, f)
    BY DEF GetIsShim
  <2>2. link.code = GetCode(t, f, posinfo)
    BY <1>1, <2>1 DEF FrameObject
  <2> HIDE DEF f, posinfo
  <2>3. GetCode(t, f, posinfo).location = GetLocationInfo(t, f.code, f.at, posinfo)
    <3>1. f.code.understood
      BY DEF f
    <3> QED BY <3>1 DEF GetCode
  <2> QED BY <2>2, <2>3
<1>4. IsPosition(t, g.code, g.at, GetLocationInfo(t, g.code, g.at, posinfo))
  BY PositionIs
<1> HIDE DEF posinfo
<1> QED BY <1>2, <1>3, <1>4

\* The frames that are to be reported of t.
Told(t) ==
  {n \in 1 .. Len(StackOf(t)) :
     Readable(t, n) /\ ~StackOf(t)[n].shim /\ StackOf(t)[n].code.understood}

Expected(t) == Selected([n \in 1 .. Len(StackOf(t)) |-> n], Told(t))

LEMMA ExpectedIs ==
  ASSUME NEW t \in Targets
  PROVE  LET r == Expected(t)
         IN /\ r \in Seq(Nat) /\ Rises(r)
            /\ \A k \in 1 .. Len(r) : r[k] \in Told(t)
            /\ \A n \in Told(t) : \E k \in 1 .. Len(r) : r[k] = n
            /\ ToSet(r) = Told(t)
<1> DEFINE d == Len(StackOf(t))
           r == Expected(t)
<1>1. d \in Nat
  BY StackIs
<1>2. Told(t) \subseteq 1 .. d
  BY DEF Told
<1>3. r = Selected([n \in 1 .. d |-> n], Told(t))
  BY DEF Expected
<1> HIDE DEF d, r
<1>4. /\ r \in Seq(1 .. d)
      /\ \A k \in 1 .. Len(r) : r[k] \in Told(t)
      /\ \A j, k \in 1 .. Len(r) : j < k => r[j] < r[k]
      /\ \A n \in 1 .. d : n \in Told(t) => \E k \in 1 .. Len(r) : r[k] = n
  BY <1>1, <1>3, PlacesSelected
<1>5. r \in Seq(Nat)
  <2>1. 1 .. d \subseteq Nat
    BY <1>1
  <2>2. Len(r) \in Nat /\ r \in [1 .. Len(r) -> 1 .. d]
    BY <1>4, LenProperties
  <2>3. r \in [1 .. Len(r) -> Nat]
    BY <2>1, <2>2
  <2> QED BY <2>2, <2>3
<1>6. ToSet(r) = Told(t)
  <2>1. ToSet(r) = {r[k] : k \in 1 .. Len(r)}
    BY <1>5, LenProperties DEF ToSet
  <2> QED BY <1>2, <1>4, <2>1
<1> QED BY <1>2, <1>4, <1>5, <1>6 DEF Rises, r

\* Whether the report marks the frame n as the first of its eval.
Marked(t, n) == OutermostOfEval(t, n) /\ (t.minor >= 12 => Readable(t, n + 1))

\* The chain holds what can be read, without one missing.
ChainIsRead ==
  /\ IsSeq(chain)
  /\ Len(chain) <= Len(StackOf(target))
  /\ \A n \in 1 .. Len(chain) : Readable(target, n) /\ IsLink(target, n, chain[n])

ChainIsWhole ==
  stage # "frames" =>
    ~(Len(chain) + 1 \in 1 .. Len(StackOf(target)) /\ Readable(target, Len(chain) + 1))

\* The report has the frames before the current one.
ReportIsBegun ==
  /\ current \in 1 .. Len(chain) + 1
  /\ stage \in {"frames", "status"} => current = 1
  /\ IsSeq(frames)
  /\ \A k \in 1 .. Len(frames) :
       /\ frames[k].at \in Told(target) /\ frames[k].at < current
       /\ frames[k].is_entry <=> Marked(target, frames[k].at)
       /\ frames[k].code = chain[frames[k].at].code

ReportIsInOrder ==
  /\ \A j, k \in 1 .. Len(frames) : j < k => frames[j].at < frames[k].at
  /\ \A n \in Told(target) : n < current => \E k \in 1 .. Len(frames) : frames[k].at = n
  /\ stage = "built" => current = Len(chain) + 1

StatusIsRead == stage \in {"build", "built"} => thread = Status(target)

\* What ends the report.
ThrewForCause ==
  stage = "threw" =>
    \/ StackOf(target) # <<>> /\ ~Readable(target, 1)
    \/ ~IsThreadId(TrueTid(target))
    \/ \E n \in Told(target) : ~StackOf(target)[n].locals_readable

Inv ==
  /\ target \in Targets
  /\ ChainIsRead
  /\ ChainIsWhole
  /\ ReportIsBegun
  /\ ReportIsInOrder
  /\ StatusIsRead
  /\ ThrewForCause

LEMMA InvBegins == Init => Inv
<1> SUFFICES ASSUME Init PROVE Inv
  OBVIOUS
<1>1. /\ target \in Targets /\ stage = "frames" /\ chain = <<>> /\ current = 1 /\ frames = <<>>
  BY DEF Init
<1>2. Len(StackOf(target)) \in Nat
  BY <1>1, StackIs
<1>3. IsSeq(<<>>) /\ Len(<<>>) = 0
  <2>1. <<>> \in Seq({})
    OBVIOUS
  <2> QED BY <2>1 DEF IsSeq
<1>4. 1 .. 0 = {} /\ 1 \in 1 .. 0 + 1
  OBVIOUS
<1>5. Told(target) \subseteq 1 .. Len(StackOf(target))
  BY DEF Told
<1>6. ChainIsRead
  BY <1>1, <1>2, <1>3, <1>4 DEF ChainIsRead
<1>7. ReportIsBegun
  BY <1>1, <1>3, <1>4 DEF ReportIsBegun
<1>8. ReportIsInOrder
  BY <1>1, <1>2, <1>3, <1>4, <1>5 DEF ReportIsInOrder
<1> QED BY <1>1, <1>6, <1>7, <1>8 DEF Inv, ChainIsWhole, StatusIsRead, ThrewForCause

LEMMA ReadFrameKeeps == Inv /\ ReadFrame => Inv'
<1> SUFFICES ASSUME Inv, ReadFrame PROVE Inv'
  OBVIOUS
<1> DEFINE d == Len(StackOf(target))
           m == Len(chain)
<1>1. /\ target \in Targets /\ stage = "frames"
      /\ target' = target /\ stage' = stage /\ thread' = thread /\ current' = current
      /\ frames' = frames
  BY DEF Inv, ReadFrame
<1>2. DOMAIN StackOf(target) = 1 .. d /\ d \in Nat
  BY <1>1, StackIs
<1>3. m + 1 \in 1 .. d /\ Readable(target, m + 1)
  BY <1>2 DEF ReadFrame, Read
<1>4. \E link : IsLink(target, m + 1, link) /\ chain' = Append(chain, link)
  <2>1. PICK junk \in Junk :
          chain' = Append(chain, FrameObject(target, Read,
                     IF chain = <<>> THEN 0 ELSE NextFrameNo(chain[Len(chain)]),
                     LocationInfo(junk, junk, junk, junk)))
    BY DEF ReadFrame
  <2> QED BY <2>1 DEF IsLink, Read
<1>5. PICK link : IsLink(target, m + 1, link) /\ chain' = Append(chain, link)
  BY <1>4
<1>6. IsSeq(chain) /\ m \in Nat /\ m <= d
      /\ \A n \in 1 .. m : Readable(target, n) /\ IsLink(target, n, chain[n])
  BY SeqIs DEF Inv, ChainIsRead
<1>7. IsSeq(chain') /\ Len(chain') = m + 1 /\ chain'[m + 1] = link
      /\ \A n \in 1 .. m : chain'[n] = chain[n]
  BY <1>5, <1>6, AppendTo
<1>8. ChainIsRead'
  <2>1. ASSUME NEW n \in 1 .. m + 1
        PROVE  Readable(target, n) /\ IsLink(target, n, chain'[n])
    <3>1. n \in 1 .. m \/ n = m + 1
      BY <1>6
    <3>2. CASE n \in 1 .. m
      BY <1>6, <1>7, <3>2
    <3>3. CASE n = m + 1
      BY <1>3, <1>5, <1>7, <3>3
    <3> QED BY <3>1, <3>2, <3>3
  <2>2. m + 1 <= d
    BY <1>3
  <2> QED BY <1>1, <1>7, <2>1, <2>2 DEF ChainIsRead
<1>9. ReportIsBegun'
  <2>1. ReportIsBegun /\ current = 1 /\ 1 \in 1 .. (m + 1) + 1
    BY <1>1, <1>6 DEF Inv, ReportIsBegun
  <2>2. \A k \in 1 .. Len(frames) : FALSE
    <3> TAKE k \in 1 .. Len(frames)
    <3>1. frames[k].at \in 1 .. d /\ frames[k].at < 1
      BY <2>1 DEF ReportIsBegun, Told
    <3> QED BY <1>2, <3>1
  <2> QED BY <1>1, <1>7, <2>1, <2>2 DEF ReportIsBegun
<1>10. ReportIsInOrder'
  BY <1>1 DEF Inv, ReportIsInOrder
<1> QED BY <1>1, <1>8, <1>9, <1>10 DEF Inv, ChainIsWhole, StatusIsRead, ThrewForCause

LEMMA FramesEndKeeps == Inv /\ FramesEnd => Inv'
<1> SUFFICES ASSUME Inv, FramesEnd PROVE Inv'
  OBVIOUS
<1>1. /\ target \in Targets /\ stage = "frames"
      /\ target' = target /\ chain' = chain /\ thread' = thread /\ current' = current
      /\ frames' = frames
      /\ stage' = IF chain = <<>> /\ StackOf(target) # <<>> THEN "threw" ELSE "status"
  BY DEF Inv, FramesEnd
<1>2. DOMAIN StackOf(target) = 1 .. Len(StackOf(target)) /\ Len(StackOf(target)) \in Nat
      /\ StackOf(target) \in Seq(StackFrames(target))
  BY <1>1, StackIs
<1>3. Len(chain) + 1 \in 1 .. Len(StackOf(target)) => ~Readable(target, Len(chain) + 1)
  BY <1>2 DEF FramesEnd, Read
<1>4. stage' \in {"threw", "status"}
  BY <1>1
<1>5. ChainIsRead'
  BY <1>1 DEF Inv, ChainIsRead
<1>6. ChainIsWhole'
  BY <1>1, <1>3 DEF ChainIsWhole
<1>7. ReportIsBegun'
  BY <1>1, <1>4 DEF Inv, ReportIsBegun
<1>8. ReportIsInOrder'
  BY <1>1, <1>4 DEF Inv, ReportIsInOrder
<1>9. ThrewForCause'
  <2> SUFFICES ASSUME stage' = "threw"
               PROVE  StackOf(target) # <<>> /\ ~Readable(target, 1)
    BY <1>1 DEF ThrewForCause
  <2>1. chain = <<>> /\ StackOf(target) # <<>>
    BY <1>1
  <2>2. Len(chain) + 1 = 1
    BY <2>1
  <2>3. 1 \in 1 .. Len(StackOf(target))
    BY <1>2, <2>1, EmptySeq
  <2> QED BY <1>3, <2>1, <2>2, <2>3
<1> QED BY <1>1, <1>4, <1>5, <1>6, <1>7, <1>8, <1>9 DEF Inv, StatusIsRead

LEMMA ReadStatusKeeps == Inv /\ (ReadStatus \/ ReadStatusThrows) => Inv'
<1> SUFFICES ASSUME Inv, ReadStatus \/ ReadStatusThrows PROVE Inv'
  OBVIOUS
<1>1. /\ target \in Targets /\ stage = "status"
      /\ target' = target /\ chain' = chain /\ current' = current /\ frames' = frames
      /\ stage' \in {"build", "threw"}
  BY DEF Inv, ReadStatus, ReadStatusThrows
<1>2. ChainIsRead'
  BY <1>1 DEF Inv, ChainIsRead
<1>3. ChainIsWhole'
  BY <1>1 DEF Inv, ChainIsWhole
<1>4. ReportIsBegun'
  BY <1>1 DEF Inv, ReportIsBegun
<1>5. ReportIsInOrder'
  BY <1>1 DEF Inv, ReportIsInOrder
<1>6. CASE ReadStatus
  <2>1. stage' = "build" /\ thread' = Status(target)
    BY <1>6 DEF ReadStatus, Status
  <2>2. StatusIsRead'
    BY <1>1, <2>1 DEF StatusIsRead
  <2> QED BY <1>1, <1>2, <1>3, <1>4, <1>5, <2>1, <2>2 DEF Inv, ThrewForCause
<1>7. CASE ReadStatusThrows
  <2>1. stage' = "threw" /\ ~IsThreadId(GetThreadTid(target))
    BY <1>7 DEF ReadStatusThrows
  <2>2. ~IsThreadId(TrueTid(target))
    <3>1. TrueTid(target) = GetThreadTid(target) \/ TrueTid(target) = "untold"
      BY <1>1, ThreadTidIs
    <3>2. CASE TrueTid(target) = GetThreadTid(target)
      BY <2>1, <3>2
    <3>3. CASE TrueTid(target) = "untold"
      BY <3>3 DEF IsThreadId
    <3> QED BY <3>1, <3>2, <3>3
  <2> QED BY <1>1, <1>2, <1>3, <1>4, <1>5, <2>1, <2>2 DEF Inv, ThrewForCause, StatusIsRead
<1> QED BY <1>6, <1>7

\* The frame that is built, as it is in the target.
LEMMA FrameAt ==
  ASSUME Inv, AtFrame
  PROVE  /\ target \in Targets /\ stage = "build"
         /\ Len(chain) \in Nat /\ current \in 1 .. Len(chain)
         /\ current \in 1 .. Len(StackOf(target))
         /\ HasCode <=> current \in Told(target)
         /\ HasCode => ~StackOf(target)[current].shim
<1> DEFINE f == StackOf(target)[current]
<1>1. /\ target \in Targets /\ stage = "build"
      /\ Len(chain) \in Nat /\ DOMAIN chain = 1 .. Len(chain)
      /\ Len(chain) <= Len(StackOf(target)) /\ Len(StackOf(target)) \in Nat
  BY SeqIs, StackIs DEF Inv, ChainIsRead, AtFrame
<1>2. current \in 1 .. Len(chain) /\ current \in 1 .. Len(StackOf(target))
  BY <1>1 DEF AtFrame
<1>3. Readable(target, current) /\ IsLink(target, current, chain[current])
  BY <1>2 DEF Inv, ChainIsRead
<1>4. /\ f.shim \in BOOLEAN /\ chain[current].is_shim = f.shim
      /\ ~f.shim => (chain[current].code.filename # "???" <=> f.code.understood)
  BY <1>1, <1>2, <1>3, LinkIs
<1>5. current \in Told(target) <=> ~f.shim /\ f.code.understood
  BY <1>2, <1>3 DEF Told
<1>6. HasCode <=> ~f.shim /\ f.code.understood
  BY <1>4 DEF HasCode
<1> QED BY <1>1, <1>2, <1>5, <1>6

LEMMA SkipFrameKeeps == Inv /\ SkipFrame => Inv'
<1> SUFFICES ASSUME Inv, SkipFrame PROVE Inv'
  OBVIOUS
<1>1. /\ target' = target /\ stage' = stage /\ chain' = chain /\ thread' = thread
      /\ frames' = frames /\ current' = current + 1
      /\ AtFrame /\ ~HasCode
  BY DEF SkipFrame
<1>2. /\ target \in Targets /\ stage = "build"
      /\ Len(chain) \in Nat /\ current \in 1 .. Len(chain)
      /\ current \notin Told(target)
  BY <1>1, FrameAt
<1>3. Told(target) \subseteq Nat
  BY <1>2, StackIs DEF Told
<1>4. ReportIsBegun'
  <2>1. current + 1 \in 1 .. Len(chain) + 1
    BY <1>2
  <2>2. IsSeq(frames) /\ \A k \in 1 .. Len(frames) :
          /\ frames[k].at \in Told(target) /\ frames[k].at < current + 1
          /\ frames[k].is_entry <=> Marked(target, frames[k].at)
          /\ frames[k].code = chain[frames[k].at].code
    <3>1. \A n \in Told(target) : n < current => n < current + 1
      BY <1>2, <1>3
    <3> QED BY <3>1 DEF Inv, ReportIsBegun
  <2> QED BY <1>1, <1>2, <2>1, <2>2 DEF ReportIsBegun
<1>5. ReportIsInOrder'
  <2>1. \A n \in Told(target) : n < current + 1 => n < current
    BY <1>2, <1>3
  <2> QED BY <1>1, <1>2, <2>1 DEF Inv, ReportIsInOrder
<1>6. ChainIsRead' /\ ChainIsWhole'
  BY <1>1 DEF Inv, ChainIsRead, ChainIsWhole
<1>7. StatusIsRead' /\ ThrewForCause'
  BY <1>1, <1>2 DEF Inv, StatusIsRead, ThrewForCause
<1> QED BY <1>1, <1>2, <1>4, <1>5, <1>6, <1>7 DEF Inv

\* A frame is taken for an entry if the report is to mark it.
LEMMA EntryIs ==
  ASSUME Inv, AtFrame, HasCode
  PROVE  IsEntry(target, chain, current) <=> Marked(target, current)
<1> DEFINE stack == StackOf(target)
<1>1. /\ target \in Targets /\ stage = "build"
      /\ Len(chain) \in Nat /\ DOMAIN chain = 1 .. Len(chain) /\ current \in 1 .. Len(chain)
      /\ current \in 1 .. Len(stack) /\ ~stack[current].shim
      /\ target.minor \in Nat /\ Len(stack) \in Nat /\ Len(chain) <= Len(stack)
  BY FrameAt, SeqIs, TypedTargets, StackIs DEF Inv, ChainIsRead
<1>2. /\ target.minor >= 12 =>
           (OutermostOfEval(target, current)
              <=> current + 1 \in 1 .. Len(stack) /\ stack[current + 1].shim)
      /\ target.minor = 11 => (OutermostOfEval(target, current) <=> stack[current].is_entry)
      /\ target.minor < 11 => OutermostOfEval(target, current)
  BY <1>1, OutermostIs
<1>3. CASE target.minor >= 12
  <2>1. IsEntry(target, chain, current) <=>
          current + 1 \in 1 .. Len(chain) /\ chain[current + 1].is_shim
    BY <1>1, <1>3 DEF IsEntry, HasCode
  <2>2. current + 1 \in 1 .. Len(chain) <=>
          current + 1 \in 1 .. Len(stack) /\ Readable(target, current + 1)
    <3>1. CASE current = Len(chain)
      <4>1. ~(current + 1 \in 1 .. Len(stack) /\ Readable(target, current + 1))
        BY <1>1, <3>1 DEF Inv, ChainIsWhole
      <4>2. current + 1 \notin 1 .. Len(chain)
        BY <1>1, <3>1
      <4> QED BY <4>1, <4>2
    <3>2. CASE current # Len(chain)
      <4>1. current + 1 \in 1 .. Len(chain) /\ current + 1 \in 1 .. Len(stack)
        <5>1. \A c, d \in Nat : \A i \in 1 .. c :
                i # c /\ c <= d => i + 1 \in 1 .. c /\ i + 1 \in 1 .. d
          OBVIOUS
        <5> QED BY <1>1, <3>2, <5>1
      <4>2. Readable(target, current + 1)
        BY <4>1 DEF Inv, ChainIsRead
      <4> QED BY <4>1, <4>2
    <3> QED BY <3>1, <3>2
  <2>3. ASSUME current + 1 \in 1 .. Len(chain)
        PROVE  chain[current + 1].is_shim = stack[current + 1].shim
    <3>1. IsLink(target, current + 1, chain[current + 1]) /\ current + 1 \in 1 .. Len(stack)
      BY <2>2, <2>3 DEF Inv, ChainIsRead
    <3> QED BY <1>1, <3>1, LinkIs
  <2> QED BY <1>2, <1>3, <2>1, <2>2, <2>3 DEF Marked
<1>4. CASE target.minor = 11
  <2>1. IsEntry(target, chain, current) = stack[current].is_entry
    BY <1>4 DEF IsEntry
  <2> QED BY <1>2, <1>4, <2>1 DEF Marked
<1>5. CASE target.minor < 11
  <2>1. IsEntry(target, chain, current)
    BY <1>1, <1>5 DEF IsEntry
  <2>2. Marked(target, current)
    BY <1>1, <1>2, <1>5 DEF Marked
  <2> QED BY <2>1, <2>2
<1> QED BY <1>1, <1>3, <1>4, <1>5

LEMMA BuildFrameKeeps == Inv /\ BuildFrame => Inv'
<1> SUFFICES ASSUME Inv, BuildFrame PROVE Inv'
  OBVIOUS
<1> DEFINE c == Len(frames)
           told == [code |-> chain[current].code, is_entry |-> IsEntry(target, chain, current),
                    at |-> current,
                    variables |-> ResolveLocalVariables(target, StackOf(target)[current])]
<1>1. /\ target' = target /\ stage' = stage /\ chain' = chain /\ thread' = thread
      /\ current' = current + 1 /\ frames' = Append(frames, told)
      /\ AtFrame /\ HasCode
  BY DEF BuildFrame
<1>2. /\ told.at = current /\ told.code = chain[current].code
      /\ told.is_entry <=> Marked(target, current)
  <2>1. told.at = current /\ told.is_entry = IsEntry(target, chain, current)
        /\ told.code = chain[current].code
    OBVIOUS
  <2> QED BY <1>1, <2>1, EntryIs
<1> HIDE DEF told
<1>3. /\ target \in Targets /\ stage = "build"
      /\ Len(chain) \in Nat /\ current \in 1 .. Len(chain)
      /\ current \in Told(target)
  BY <1>1, FrameAt
<1>4. Told(target) \subseteq Nat
  BY <1>3, StackIs DEF Told
<1>5. IsSeq(frames) /\ c \in Nat
      /\ \A k \in 1 .. c : /\ frames[k].at \in Told(target) /\ frames[k].at < current
                           /\ frames[k].is_entry <=> Marked(target, frames[k].at)
                           /\ frames[k].code = chain[frames[k].at].code
  BY SeqIs DEF Inv, ReportIsBegun
<1>6. IsSeq(frames') /\ Len(frames') = c + 1 /\ frames'[c + 1] = told
      /\ \A k \in 1 .. c : frames'[k] = frames[k]
  BY <1>1, <1>5, AppendTo
<1> HIDE DEF c
<1>7. \A k \in 1 .. c + 1 : k \in 1 .. c \/ k = c + 1
  BY <1>5
<1>8. ReportIsBegun'
  <2>1. current + 1 \in 1 .. Len(chain) + 1
    BY <1>3
  <2>2. ASSUME NEW k \in 1 .. c + 1
        PROVE  /\ frames'[k].at \in Told(target) /\ frames'[k].at < current + 1
               /\ frames'[k].is_entry <=> Marked(target, frames'[k].at)
               /\ frames'[k].code = chain[frames'[k].at].code
    <3>1. CASE k \in 1 .. c
      <4>1. \A n \in Told(target) : n < current => n < current + 1
        BY <1>3, <1>4
      <4> QED BY <1>5, <1>6, <3>1, <4>1
    <3>2. CASE k = c + 1
      <4>1. current < current + 1
        BY <1>3
      <4> QED BY <1>2, <1>3, <1>6, <3>2, <4>1
    <3> QED BY <1>7, <3>1, <3>2
  <2> QED BY <1>1, <1>3, <1>6, <2>1, <2>2 DEF ReportIsBegun
<1>9. ReportIsInOrder'
  <2>1. ASSUME NEW j \in 1 .. c + 1, NEW k \in 1 .. c + 1, j < k
        PROVE  frames'[j].at < frames'[k].at
    <3>1. j \in 1 .. c
      BY <1>5, <2>1
    <3>2. CASE k \in 1 .. c
      BY <1>6, <2>1, <3>1, <3>2 DEF Inv, ReportIsInOrder, c
    <3>3. CASE k = c + 1
      BY <1>2, <1>5, <1>6, <3>1, <3>3
    <3> QED BY <1>7, <3>2, <3>3
  <2>2. ASSUME NEW n \in Told(target), n < current + 1
        PROVE  \E k \in 1 .. c + 1 : frames'[k].at = n
    <3>1. n < current \/ n = current
      BY <1>3, <1>4, <2>2
    <3>2. CASE n < current
      <4>1. PICK k \in 1 .. c : frames[k].at = n
        BY <3>2 DEF Inv, ReportIsInOrder, c
      <4>2. k \in 1 .. c + 1 /\ frames'[k].at = n
        BY <1>5, <1>6, <4>1
      <4> QED BY <4>2
    <3>3. CASE n = current
      <4>1. c + 1 \in 1 .. c + 1 /\ frames'[c + 1].at = n
        BY <1>2, <1>5, <1>6, <3>3
      <4> QED BY <4>1
    <3> QED BY <3>1, <3>2, <3>3
  <2> QED BY <1>1, <1>3, <1>6, <2>1, <2>2 DEF ReportIsInOrder
<1>10. ChainIsRead' /\ ChainIsWhole'
  BY <1>1 DEF Inv, ChainIsRead, ChainIsWhole
<1>11. StatusIsRead' /\ ThrewForCause'
  BY <1>1, <1>3 DEF Inv, StatusIsRead, ThrewForCause
<1> QED BY <1>1, <1>3, <1>8, <1>9, <1>10, <1>11 DEF Inv

LEMMA BuildEndsKeeps == Inv /\ (BuildFrameThrows \/ BuildEnds) => Inv'
<1> SUFFICES ASSUME Inv, BuildFrameThrows \/ BuildEnds PROVE Inv'
  OBVIOUS
<1>1. /\ target \in Targets /\ stage = "build"
      /\ target' = target /\ chain' = chain /\ thread' = thread /\ current' = current
      /\ frames' = frames
      /\ stage' \in {"threw", "built"}
  BY DEF Inv, BuildFrameThrows, BuildEnds, AtFrame
<1>2. ChainIsRead' /\ ChainIsWhole'
  BY <1>1 DEF Inv, ChainIsRead, ChainIsWhole
<1>3. ReportIsBegun'
  BY <1>1 DEF Inv, ReportIsBegun
<1>4. StatusIsRead'
  BY <1>1 DEF Inv, StatusIsRead
<1>5. CASE BuildFrameThrows
  <2>1. stage' = "threw" /\ AtFrame /\ HasCode /\ ~StackOf(target)[current].locals_readable
    BY <1>5 DEF BuildFrameThrows
  <2>2. current \in Told(target)
    BY <2>1, FrameAt
  <2>3. ThrewForCause'
    BY <1>1, <2>1, <2>2 DEF ThrewForCause
  <2>4. ReportIsInOrder'
    BY <1>1, <2>1 DEF Inv, ReportIsInOrder
  <2> QED BY <1>1, <1>2, <1>3, <1>4, <2>3, <2>4 DEF Inv
<1>6. CASE BuildEnds
  <2>1. stage' = "built" /\ current \notin DOMAIN chain
    BY <1>6 DEF BuildEnds
  <2>2. current = Len(chain) + 1
    <3>1. /\ current \in 1 .. Len(chain) + 1
          /\ Len(chain) \in Nat /\ DOMAIN chain = 1 .. Len(chain)
      BY SeqIs DEF Inv, ReportIsBegun, ChainIsRead
    <3> QED BY <2>1, <3>1
  <2>3. ReportIsInOrder'
    BY <1>1, <2>2 DEF Inv, ReportIsInOrder
  <2>4. ThrewForCause'
    BY <2>1 DEF ThrewForCause
  <2> QED BY <1>1, <1>2, <1>3, <1>4, <2>3, <2>4 DEF Inv
<1> QED BY <1>5, <1>6

LEMMA InvKeeps == Inv /\ [Next]_vars => Inv'
<1> SUFFICES ASSUME Inv, [Next]_vars PROVE Inv'
  OBVIOUS
<1>1. CASE ReadFrame
  BY <1>1, ReadFrameKeeps
<1>2. CASE FramesEnd
  BY <1>2, FramesEndKeeps
<1>3. CASE ReadStatus \/ ReadStatusThrows
  BY <1>3, ReadStatusKeeps
<1>4. CASE SkipFrame
  BY <1>4, SkipFrameKeeps
<1>5. CASE BuildFrame
  BY <1>5, BuildFrameKeeps
<1>6. CASE BuildFrameThrows \/ BuildEnds
  BY <1>6, BuildEndsKeeps
<1>7. CASE UNCHANGED vars
  BY <1>7 DEF vars, Inv, ChainIsRead, ChainIsWhole, ReportIsBegun, ReportIsInOrder,
              StatusIsRead, ThrewForCause
<1> QED BY <1>1, <1>2, <1>3, <1>4, <1>5, <1>6, <1>7 DEF Next

LEMMA InvHolds == Spec => []Inv
BY InvBegins, InvKeeps, PTL DEF Spec

-----------------------------------------------------------------------------

\* What a thread is said to do is so: its tid, that it has the GIL, and that it
\* collects (PyThread's constructor, calculateGilStatus, types.py).
THEOREM StatusIsRight == Spec => []StatusIsTheTargets
<1>1. Inv => StatusIsTheTargets
  <2> SUFFICES ASSUME Inv, stage = "built" PROVE StatusIsTheTargets
    BY DEF StatusIsTheTargets
  <2>1. target \in Targets /\ thread = Status(target)
    BY DEF Inv, StatusIsRead
  <2> QED BY <2>1, StatusIsTold DEF StatusIsTheTargets
<1> QED BY <1>1, InvHolds, PTL

\* What is in the report when it is done is what there is to report.
LEMMA ReportIsWhole ==
  ASSUME Inv, stage = "built"
  PROVE  [k \in DOMAIN frames |-> frames[k].at] = Expected(target)
<1> DEFINE c == Len(frames)
           r == [k \in 1 .. c |-> frames[k].at]
           q == Expected(target)
<1>1. target \in Targets /\ c \in Nat /\ DOMAIN frames = 1 .. c
      /\ Len(chain) \in Nat /\ current = Len(chain) + 1
      /\ Len(chain) <= Len(StackOf(target)) /\ Len(StackOf(target)) \in Nat
  BY SeqIs, StackIs DEF Inv, ChainIsRead, ReportIsBegun, ReportIsInOrder
<1>2. \A k \in 1 .. c : frames[k].at \in Told(target) /\ r[k] = frames[k].at
  BY DEF Inv, ReportIsBegun
<1>3. \A n \in Told(target) : n \in Nat /\ n < current
  <2> TAKE n \in Told(target)
  <2>1. n \in 1 .. Len(StackOf(target)) /\ n < target.unreadable_from
    BY DEF Told, Readable
  <2>2. ~(Len(chain) + 1 \in 1 .. Len(StackOf(target))
            /\ Len(chain) + 1 < target.unreadable_from)
    BY DEF Inv, ChainIsWhole, Readable
  <2>3. target.unreadable_from \in Nat
    BY <1>1, TypedTargets
  <2>4. \A l, d, u \in Nat : \A i \in 1 .. d :
          ~(l + 1 \in 1 .. d /\ l + 1 < u) /\ i < u => i \in Nat /\ i < l + 1
    OBVIOUS
  <2> QED BY <1>1, <2>1, <2>2, <2>3, <2>4
<1>4. r \in Seq(Nat) /\ Len(r) = c
  <2>1. \A k \in 1 .. c : frames[k].at \in Nat
    BY <1>2, <1>3
  <2> HIDE DEF c
  <2> QED BY <1>1, <2>1
<1>5. /\ q \in Seq(Nat) /\ Rises(q)
      /\ \A k \in 1 .. Len(q) : q[k] \in Told(target)
      /\ \A n \in Told(target) : \E k \in 1 .. Len(q) : q[k] = n
  BY <1>1, ExpectedIs
<1>6. Rises(r)
  <2>1. \A j, k \in 1 .. c : j < k => frames[j].at < frames[k].at
    BY DEF Inv, ReportIsInOrder
  <2> QED BY <1>2, <1>4, <2>1 DEF Rises
<1>7. Covers(q, r)
  <2> SUFFICES ASSUME NEW k \in 1 .. Len(r) PROVE \E j \in 1 .. Len(q) : q[j] = r[k]
    BY DEF Covers
  <2>1. r[k] \in Told(target)
    BY <1>2, <1>4
  <2> HIDE DEF q, r, c
  <2> QED BY <1>5, <2>1
<1>8. Covers(r, q)
  <2>1. \A n \in Told(target) : \E k \in 1 .. c : frames[k].at = n
    BY <1>3 DEF Inv, ReportIsInOrder
  <2> SUFFICES ASSUME NEW k \in 1 .. Len(q) PROVE \E j \in 1 .. Len(r) : r[j] = q[k]
    BY DEF Covers
  <2>2. q[k] \in Told(target)
    BY <1>5
  <2>3. PICK j \in 1 .. c : frames[j].at = q[k]
    BY <2>1, <2>2
  <2>4. j \in 1 .. Len(r) /\ r[j] = q[k]
    BY <1>2, <1>4, <2>3
  <2> QED BY <2>4
<1>9. r = q
  <2> HIDE DEF q, r, c
  <2> QED BY <1>4, <1>5, <1>6, <1>7, <1>8, IncreasingListsAreEqual
<1> QED BY <1>1, <1>9

\* The frames that are reported of a thread are those of the target, in their order,
\* without one missing, and marked as the first of their eval where that can be seen;
\* what ends the report is what cannot be read (buildPythonThread, FrameObject).
THEOREM FramesAreRight == Spec => []FramesAreTheTargets
<1>1. Inv => FramesAreTheTargets
  <2> SUFFICES ASSUME Inv PROVE FramesAreTheTargets
    OBVIOUS
  <2> DEFINE stack == StackOf(target)
             Reported(n) == Readable(target, n) /\ ~stack[n].shim /\ stack[n].code.understood
             places == [n \in DOMAIN stack |-> n]
             expected == Filtered(places, Reported)
  <2>1. target \in Targets /\ DOMAIN stack = 1 .. Len(stack) /\ DOMAIN frames = 1 .. Len(frames)
    BY SeqIs, StackIs DEF Inv, ReportIsBegun
  <2>2. expected = Expected(target)
    <3>1. places = [n \in 1 .. Len(stack) |-> n]
      BY <2>1
    <3>2. {n \in DOMAIN places : Reported(places[n])} = Told(target)
      BY <2>1 DEF Told
    <3>3. expected = Selected(places, {n \in DOMAIN places : Reported(places[n])})
      BY DEF Filtered
    <3> QED BY <3>1, <3>2, <3>3 DEF Expected
  <2>3. stage = "built" => [k \in DOMAIN frames |-> frames[k].at] = expected
    BY <2>2, ReportIsWhole
  <2>4. \A k \in DOMAIN frames : frames[k].is_entry <=> Marked(target, frames[k].at)
    BY <2>1 DEF Inv, ReportIsBegun
  <2>5. stage = "threw" =>
          \/ stack # <<>> /\ ~Readable(target, 1)
          \/ ~IsThreadId(TrueTid(target))
          \/ \E k \in ToSet(expected) : ~stack[k].locals_readable
    <3>1. ToSet(expected) = Told(target)
      BY <2>1, <2>2, ExpectedIs
    <3> QED BY <3>1 DEF Inv, ThrewForCause
  <2> HIDE DEF expected
  <2> QED BY <2>3, <2>4, <2>5 DEF FramesAreTheTargets, Marked, expected
<1> QED BY <1>1, InvHolds, PTL

\* A frame is reported at the line that it executes and, from 3.11 on, at the columns of
\* its expression, where no distance up to 3.9 is too long for char (getLocationInfo,
\* parse_linetable).
THEOREM PositionsAreRight ==
  ASSUME LinesAreShort
  PROVE  Spec => []PositionsAreTheTargets
<1>1. Inv => PositionsAreTheTargets
  <2> SUFFICES ASSUME Inv PROVE PositionsAreTheTargets
    OBVIOUS
  <2>1. target \in Targets /\ DOMAIN frames = 1 .. Len(frames)
        /\ Len(chain) \in Nat /\ Len(StackOf(target)) \in Nat /\ Len(chain) <= Len(StackOf(target))
    BY SeqIs, StackIs DEF Inv, ReportIsBegun, ChainIsRead
  <2>2. ASSUME NEW k \in DOMAIN frames
        PROVE  LET f == StackOf(target)[frames[k].at]
               IN IsPosition(target, f.code, f.at, frames[k].code.location)
    <3> DEFINE n == frames[k].at
    <3>1. n \in Told(target) /\ n < current /\ current \in 1 .. Len(chain) + 1
          /\ frames[k].code = chain[n].code
      BY <2>1 DEF Inv, ReportIsBegun
    <3>2. n \in 1 .. Len(StackOf(target)) /\ ~StackOf(target)[n].shim
          /\ StackOf(target)[n].code.understood
      BY <3>1 DEF Told
    <3>3. n \in 1 .. Len(chain)
      BY <2>1, <3>1, <3>2
    <3>4. IsLink(target, n, chain[n])
      BY <3>3 DEF Inv, ChainIsRead
    <3> HIDE DEF n
    <3>5. IsPosition(target, StackOf(target)[n].code, StackOf(target)[n].at, chain[n].code.location)
      BY <2>1, <3>2, <3>4, LinkTells
    <3> QED BY <3>1, <3>5 DEF n
  <2> QED BY <2>2 DEF PositionsAreTheTargets, LinesAreTheTargets, IsPosition, TellsOf
<1> QED BY <1>1, InvHolds, PTL

=============================================================================
