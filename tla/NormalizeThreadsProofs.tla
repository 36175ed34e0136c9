----------------------- MODULE NormalizeThreadsProofs -----------------------
(***************************************************************************)
(* Proofs about NormalizeThreads: what a report of stacks holds, for every *)
(* number of OS threads and thread states, stacks of every depth, whatever *)
(* the unwinder and the reader lose.                                       *)
(***************************************************************************)
EXTENDS NormalizeThreads, ListsProofs

-----------------------------------------------------------------------------
(* Lists turned round.                                                      *)

LEMMA ReverseIs ==
  ASSUME NEW S, NEW s \in Seq(S)
  PROVE  /\ Reverse(s) \in Seq(S) /\ Len(Reverse(s)) = Len(s)
         /\ \A i \in 1 .. Len(s) : /\ Len(s) - i + 1 \in 1 .. Len(s)
                                   /\ Reverse(s)[i] = s[Len(s) - i + 1]
<1>1. Len(s) \in Nat
  OBVIOUS
<1>2. \A i \in 1 .. Len(s) : Len(s) - i + 1 \in 1 .. Len(s)
  BY <1>1
<1>3. \A i \in 1 .. Len(s) : s[Len(s) - i + 1] \in S
  BY <1>2
<1> QED BY <1>1, <1>2, <1>3 DEF Reverse

-----------------------------------------------------------------------------
(* One pass over the native frames.                                         *)

PyFrames(S) == Seq([at : S, is_entry : BOOLEAN])
Printed(S) == [lines : Seq(S), held : Seq(S), next : Nat \ {0}, asserts : BOOLEAN]

LEMMA FramesAre ==
  ASSUME NEW S, NEW frames \in PyFrames(S)
  PROVE  /\ Len(frames) \in Nat /\ DOMAIN frames = 1 .. Len(frames)
         /\ \A k \in 1 .. Len(frames) : frames[k].at \in S /\ frames[k].is_entry \in BOOLEAN
<1> DEFINE F == [at : S, is_entry : BOOLEAN]
<1>1. frames \in Seq(F)
  BY DEF PyFrames
<1>2. \A f \in F : f.at \in S /\ f.is_entry \in BOOLEAN
  OBVIOUS
<1> HIDE DEF F
<1>3. /\ Len(frames) \in Nat /\ DOMAIN frames = 1 .. Len(frames)
      /\ \A k \in 1 .. Len(frames) : frames[k] \in F
  BY <1>1
<1> QED BY <1>2, <1>3

LEMMA NextEntryIs ==
  ASSUME NEW S, NEW frames \in PyFrames(S), NEW n \in 1 .. Len(frames)
  PROVE  /\ NextEntry(frames, n) \in n + 1 .. Len(frames) + 1
         /\ NextEntry(frames, n) <= Len(frames) => frames[NextEntry(frames, n)].is_entry
         /\ \A m \in n + 1 .. NextEntry(frames, n) - 1 : m \in 1 .. Len(frames) /\ ~frames[m].is_entry
<1> DEFINE entries == {m \in n + 1 .. Len(frames) : frames[m].is_entry}
           T == entries \cup {Len(frames) + 1}
<1>1. Len(frames) \in Nat
  BY DEF PyFrames
<1>2. T \subseteq n + 1 .. Len(frames) + 1 /\ T \subseteq Nat /\ T # {}
  BY <1>1
<1>3. Min(T) \in T /\ \A m \in T : Min(T) <= m
  <2> HIDE DEF T
  <2> QED BY <1>2, MinIs
<1>4. NextEntry(frames, n) = Min(T)
  BY DEF NextEntry
<1>5. Min(T) <= Len(frames) => frames[Min(T)].is_entry
  BY <1>1, <1>3
<1>6. ASSUME NEW m \in n + 1 .. Min(T) - 1 PROVE m \in 1 .. Len(frames) /\ ~frames[m].is_entry
  <2>1. Min(T) \in n + 1 .. Len(frames) + 1
    BY <1>2, <1>3
  <2>2. m \in 1 .. Len(frames) /\ m \in n + 1 .. Len(frames) /\ ~(Min(T) <= m)
    <3> HIDE DEF T
    <3> QED BY <1>1, <2>1
  <2>3. m \notin T
    BY <1>3, <2>2
  <2> QED BY <2>2, <2>3
<1> HIDE DEF T
<1> QED BY <1>2, <1>3, <1>4, <1>5, <1>6

LEMMA PrintedFields ==
  ASSUME NEW S, NEW acc \in Printed(S), NEW q \in Seq(S), NEW to \in Nat \ {0}
  PROVE  LET on == [acc EXCEPT !.held = <<>>, !.lines = q, !.next = to]
         IN /\ on \in Printed(S)
            /\ on.lines = q /\ on.held = <<>> /\ on.next = to /\ on.asserts = acc.asserts
<1> DEFINE held == [acc EXCEPT !.held = <<>>]
           lines == [held EXCEPT !.lines = q]
           next == [lines EXCEPT !.next = to]
<1>0. <<>> \in Seq(S)
  OBVIOUS
<1>1. /\ held \in Printed(S) /\ held.held = <<>> /\ held.lines = acc.lines
      /\ held.next = acc.next /\ held.asserts = acc.asserts
  BY <1>0 DEF Printed
<1> HIDE DEF held
<1>2. /\ lines \in Printed(S) /\ lines.held = <<>> /\ lines.lines = q
      /\ lines.next = acc.next /\ lines.asserts = acc.asserts
  BY <1>1 DEF Printed
<1> HIDE DEF lines
<1>3. /\ next \in Printed(S) /\ next.held = <<>> /\ next.lines = q
      /\ next.next = to /\ next.asserts = acc.asserts
  BY <1>2 DEF Printed
<1> QED BY <1>3 DEF held, lines

Printing(acc, q, to) == [acc EXCEPT !.held = <<>>, !.lines = q, !.next = to]

LEMMA PrintingIs ==
  ASSUME NEW S, NEW acc \in Printed(S), NEW q \in Seq(S), NEW to \in Nat \ {0}
  PROVE  LET on == Printing(acc, q, to) IN on.lines = q /\ on.held = <<>> /\ on.next = to
<1> DEFINE held == [acc EXCEPT !.held = <<>>]
           lines == [held EXCEPT !.lines = q]
<1>0. <<>> \in Seq(S)
  OBVIOUS
<1>1. held \in Printed(S) /\ held.held = <<>>
  BY <1>0 DEF Printed
<1>2. Printing(acc, q, to) = [lines EXCEPT !.next = to]
  BY DEF Printing
<1> HIDE DEF held
<1>3. lines \in Printed(S) /\ lines.held = <<>> /\ lines.lines = q
  BY <1>1 DEF Printed
<1> HIDE DEF lines
<1> QED BY <1>2, <1>3 DEF Printed

LEMMA PrintsOn ==
  ASSUME NEW S, NEW frames \in PyFrames(S), NEW acc \in Printed(S), NEW tid, NEW i \in S, NEW last
  PROVE  FormatNativeFrame(acc, tid, i, frames, last) \in Printed(S)
<1>1. CASE ~IsEvalFrame(tid, i)
  <2>1. Append(acc.held, i) \in Seq(S) /\ Append(acc.lines, i) \in Seq(S)
    BY DEF Printed
  <2> QED BY <1>1, <2>1 DEF FormatNativeFrame, Printed
<1>2. CASE IsEvalFrame(tid, i) /\ acc.next > Len(frames)
  BY <1>2 DEF FormatNativeFrame, Printed
<1>3. CASE IsEvalFrame(tid, i) /\ ~(acc.next > Len(frames))
  <2>1. Len(frames) \in Nat /\ acc.next \in Nat \ {0} /\ acc.lines \in Seq(S)
    BY DEF PyFrames, Printed
  <2>2. acc.next \in 1 .. Len(frames)
    BY <1>3, <2>1
  <2> DEFINE to == NextEntry(frames, acc.next)
             more == [n \in 1 .. to - acc.next |-> frames[acc.next + n - 1].at]
  <2>3. to \in acc.next + 1 .. Len(frames) + 1
    BY <2>2, NextEntryIs
  <2> HIDE DEF to
  <2>4. \A n \in 1 .. to - acc.next : acc.next + n - 1 \in 1 .. Len(frames)
    BY <2>1, <2>3
  <2>5. \A k \in 1 .. Len(frames) : frames[k].at \in S
    BY FramesAre
  <2>6. to - acc.next \in Nat /\ to \in Nat \ {0}
    BY <2>1, <2>3
  <2>7. more \in Seq(S)
    BY <2>4, <2>5, <2>6
  <2> HIDE DEF more
  <2>8. acc.lines \o more \in Seq(S)
    BY <2>1, <2>7, ConcatProperties
  <2>9. FormatNativeFrame(acc, tid, i, frames, last) =
          [acc EXCEPT !.held = <<>>, !.lines = @ \o more, !.next = to]
    BY <1>3 DEF FormatNativeFrame, to, more
  <2>10. [acc EXCEPT !.held = <<>>, !.lines = @ \o more, !.next = to] \in Printed(S)
    BY <2>6, <2>8, PrintedFields
  <2> QED BY <2>9, <2>10
<1> QED BY <1>1, <1>2, <1>3

\* The pass goes from one native frame to the next.
Passes(after, native, tid, frames, last) ==
  /\ after[0] = [lines |-> <<>>, held |-> <<>>, next |-> 1, asserts |-> TRUE]
  /\ \A n \in 1 .. Len(native) :
       after[n] = FormatNativeFrame(after[n - 1], tid, native[n], frames, last)

Merges(S, thread, last, after) ==
  LET N == Len(thread.native_frames)
  IN /\ after \in [0 .. N -> Printed(S)]
     /\ Passes(after, thread.native_frames, thread.tid, Reverse(thread.frames), last)
     /\ FormatMergedStacks(thread, last) = [after[N] EXCEPT !.lines = @ \o after[N].held]

LEMMA MergingIs ==
  ASSUME NEW S, NEW thread, thread.native_frames \in Seq(S), thread.frames \in PyFrames(S), NEW last
  PROVE  \E after : Merges(S, thread, last, after)
<1> DEFINE native == thread.native_frames
           frames == Reverse(thread.frames)
           N == Len(native)
           a == [lines |-> <<>>, held |-> <<>>, next |-> 1, asserts |-> TRUE]
           A == Printed(S)
           step == [n \in 1 .. N |-> [acc \in A |->
                      FormatNativeFrame(acc, thread.tid, native[n], frames, last)]]
           Runs(h) == h = [n \in 0 .. N |->
                        IF n = 0 THEN [lines |-> <<>>, held |-> <<>>, next |-> 1, asserts |-> TRUE]
                        ELSE FormatNativeFrame(h[n - 1], thread.tid, native[n],
                                               Reverse(thread.frames), last)]
           run == CHOOSE h : Runs(h)
<1>1. N \in Nat /\ \A n \in 1 .. N : native[n] \in S
  OBVIOUS
<1>2. frames \in PyFrames(S)
  BY ReverseIs DEF PyFrames
<1>3. PICK f \in [0 .. N -> A] : Follows(f, N, a, step)
  <2>1. a \in A
    BY DEF Printed
  <2>2. step \in [1 .. N -> [A -> A]]
    <3>1. \A n \in 1 .. N, acc \in A :
            FormatNativeFrame(acc, thread.tid, native[n], frames, last) \in A
      BY <1>1, <1>2, PrintsOn
    <3> QED BY <3>1
  <2>3. N \in Nat
    BY <1>1
  <2> HIDE DEF a, A, N, step
  <2> QED BY <2>1, <2>2, <2>3, RecursionExists
<1>4. \A n \in 1 .. N : n - 1 \in 0 .. N /\ f[n - 1] \in A /\ n \in 0 .. N /\ n # 0
  <2> HIDE DEF A, N
  <2>1. \A n \in 1 .. N : n - 1 \in 0 .. N /\ n \in 0 .. N /\ n # 0
    BY <1>1 DEF N
  <2> QED BY <2>1
<1>5. \A n \in 1 .. N : f[n] = FormatNativeFrame(f[n - 1], thread.tid, native[n], frames, last)
  BY <1>3, <1>4 DEF Follows
<1>6. \E h : Runs(h)
  <2>1. \A n \in 0 .. N : f[n] =
          IF n = 0 THEN [lines |-> <<>>, held |-> <<>>, next |-> 1, asserts |-> TRUE]
          ELSE FormatNativeFrame(f[n - 1], thread.tid, native[n], Reverse(thread.frames), last)
    <3>1. \A n \in 0 .. N : n = 0 \/ n \in 1 .. N
      BY <1>1
    <3> QED BY <1>3, <1>5, <3>1 DEF Follows
  <2>2. Runs(f)
    BY <2>1
  <2> QED BY <2>2
<1>7. Runs(run)
  BY <1>6
<1>8. FormatMergedStacks(thread, last) = [run[N] EXCEPT !.lines = @ \o run[N].held]
  BY DEF FormatMergedStacks
<1> HIDE DEF run
<1>9. run[0] = a /\ \A n \in 1 .. N :
        run[n] = FormatNativeFrame(run[n - 1], thread.tid, native[n], frames, last)
  <2>1. \A n \in 0 .. N : run[n] =
          IF n = 0 THEN [lines |-> <<>>, held |-> <<>>, next |-> 1, asserts |-> TRUE]
          ELSE FormatNativeFrame(run[n - 1], thread.tid, native[n], Reverse(thread.frames), last)
    BY <1>7
  <2>2. 0 \in 0 .. N
    BY <1>1
  <2> QED BY <1>4, <2>1, <2>2
<1>10. run \in [0 .. N -> A]
  <2> DEFINE Good == {n \in 0 .. N : run[n] \in A}
  <2>1. 0 \in Good
    <3>1. a \in A
      BY DEF Printed
    <3>2. 0 \in 0 .. N
      BY <1>1
    <3> HIDE DEF A, a
    <3> QED BY <1>9, <3>1, <3>2
  <2>2. ASSUME NEW n \in 1 .. N, n - 1 \in Good PROVE n \in Good
    <3>1. FormatNativeFrame(run[n - 1], thread.tid, native[n], frames, last) \in A
      <4>1. run[n - 1] \in A /\ native[n] \in S
        BY <1>1, <2>2
      <4> QED BY <1>2, <4>1, PrintsOn
    <3> QED BY <1>4, <1>9, <3>1
  <2>3. 0 .. N \subseteq Good
    <3> HIDE DEF Good, N
    <3>1. N \in Nat
      BY <1>1 DEF N
    <3> QED BY <2>1, <2>2, <3>1, StepByStep
  <2>4. \A n \in 0 .. N : run[n] \in A
    BY <2>3
  <2>5. run = [n \in 0 .. N |-> run[n]]
    BY <1>7
  <2> HIDE DEF A
  <2> QED BY <2>4, <2>5
<1>11. Passes(run, native, thread.tid, frames, last)
  BY <1>9 DEF Passes
<1>12. Merges(S, thread, last, run)
  BY <1>8, <1>10, <1>11 DEF Merges
<1> QED BY <1>12

\* The places of the entry frames, and of the eval frames among the first k.
Entries(frames) == {n \in 1 .. Len(frames) : frames[n].is_entry}
Evals(tid, native, k) == {n \in 1 .. k : IsEvalFrame(tid, native[n])}

LEMMA EntriesAreFinite ==
  ASSUME NEW S, NEW frames \in PyFrames(S)
  PROVE  /\ IsFiniteSet(Entries(frames)) /\ Cardinality(Entries(frames)) \in Nat
         /\ Reverse(frames) \in PyFrames(S)
         /\ Len(Reverse(frames)) = Len(frames)
         /\ Cardinality(Entries(Reverse(frames))) = Cardinality(Entries(frames))
<1> DEFINE L == Len(frames)
           E == Entries(frames)
           R == Entries(Reverse(frames))
           f == [n \in E |-> L - n + 1]
<1>1. L \in Nat
  BY FramesAre
<1>2. /\ Reverse(frames) \in PyFrames(S) /\ Len(Reverse(frames)) = L
      /\ \A i \in 1 .. L : L - i + 1 \in 1 .. L /\ Reverse(frames)[i] = frames[L - i + 1]
  BY ReverseIs DEF PyFrames
<1>3. IsFiniteSet(E) /\ Cardinality(E) \in Nat
  <2>1. IsFiniteSet(1 .. L) /\ E \in SUBSET (1 .. L)
    BY <1>1, FS_Interval DEF Entries
  <2> HIDE DEF E, L
  <2> QED BY <2>1, FS_Subset, FS_CardinalityType
<1>4. \A n \in 1 .. L : L - (L - n + 1) + 1 = n
  BY <1>1
<1>5. f \in [E -> R]
  <2>1. ASSUME NEW n \in E PROVE L - n + 1 \in R
    <3>1. n \in 1 .. L /\ frames[n].is_entry
      BY DEF Entries
    <3>2. L - n + 1 \in 1 .. L /\ Reverse(frames)[L - n + 1] = frames[n]
      BY <1>2, <1>4, <3>1
    <3> QED BY <1>2, <3>1, <3>2 DEF Entries
  <2> HIDE DEF E, R, L
  <2> QED BY <2>1
<1>6. \A a, b \in E : f[a] = f[b] => a = b
  <2>1. \A a, b \in 1 .. L : L - a + 1 = L - b + 1 => a = b
    BY <1>1
  <2>2. E \subseteq 1 .. L
    BY DEF Entries
  <2> HIDE DEF E, L
  <2> QED BY <2>1, <2>2
<1>7. \A r \in R : \E n \in E : f[n] = r
  <2> SUFFICES ASSUME NEW r \in R PROVE \E n \in E : f[n] = r
    OBVIOUS
  <2>1. r \in 1 .. L /\ Reverse(frames)[r].is_entry
    BY <1>2 DEF Entries
  <2>2. L - r + 1 \in E
    BY <1>2, <2>1 DEF Entries
  <2>3. f[L - r + 1] = r
    BY <1>4, <2>1, <2>2
  <2> QED BY <2>2, <2>3
<1>8. f \in Bijection(E, R)
  <2> HIDE DEF f, E, R
  <2> QED BY <1>5, <1>6, <1>7 DEF Bijection, Injection, Surjection, IsInjective
<1>9. Cardinality(R) = Cardinality(E)
  <2> HIDE DEF f, E, R
  <2>1. ExistsBijection(E, R)
    BY <1>8 DEF ExistsBijection
  <2> QED BY <1>3, <2>1, FS_Bijection
<1> QED BY <1>2, <1>3, <1>9

\* How far the pass has come behind k native frames: each eval frame takes at most one
\* entry frame, and exactly one if the Python frames begin with one.
Ahead(frames, next) == {m \in 1 .. next - 1 : frames[m].is_entry}
Walked(acc, tid, native, k, frames) ==
  LET L == Len(frames)
  IN /\ acc.asserts = TRUE
     /\ acc.next \in 1 .. L + 1
     /\ IsFiniteSet(Ahead(frames, acc.next))
     /\ Cardinality(Ahead(frames, acc.next)) <= Cardinality(Evals(tid, native, k))
     /\ (L > 0 => frames[1].is_entry) =>
          /\ Cardinality(Ahead(frames, acc.next)) = Cardinality(Evals(tid, native, k))
          /\ acc.next <= L => frames[acc.next].is_entry

LEMMA EvalsGrow ==
  ASSUME NEW tid, NEW native, NEW k \in Nat \ {0}
  PROVE  /\ IsFiniteSet(Evals(tid, native, k)) /\ Cardinality(Evals(tid, native, k)) \in Nat
         /\ Cardinality(Evals(tid, native, k - 1)) \in Nat
         /\ Cardinality(Evals(tid, native, k)) =
              IF IsEvalFrame(tid, native[k]) THEN Cardinality(Evals(tid, native, k - 1)) + 1
              ELSE Cardinality(Evals(tid, native, k - 1))
<1> DEFINE E == Evals(tid, native, k)
           B == Evals(tid, native, k - 1)
<1>1. 1 .. k = (1 .. k - 1) \cup {k} /\ k \notin 1 .. k - 1 /\ k - 1 \in Nat
  OBVIOUS
<1>2. IsFiniteSet(1 .. k) /\ E \in SUBSET (1 .. k) /\ B \in SUBSET (1 .. k)
  BY <1>1, FS_Interval DEF Evals
<1>3. IF IsEvalFrame(tid, native[k]) THEN E = B \cup {k} /\ k \notin B ELSE E = B
  BY <1>1 DEF Evals
<1> HIDE DEF E, B
<1>4. IsFiniteSet(E) /\ IsFiniteSet(B)
  BY <1>2, FS_Subset
<1>5. Cardinality(E) \in Nat /\ Cardinality(B) \in Nat
  BY <1>4, FS_CardinalityType
<1>6. Cardinality(E) = IF IsEvalFrame(tid, native[k]) THEN Cardinality(B) + 1 ELSE Cardinality(B)
  BY <1>3, <1>4, FS_AddElement
<1> QED BY <1>4, <1>5, <1>6 DEF E, B

LEMMA WalksOn ==
  ASSUME NEW S, NEW frames \in PyFrames(S), NEW tid, NEW native, NEW k \in Nat \ {0}, NEW last,
         NEW acc \in Printed(S), Walked(acc, tid, native, k - 1, frames),
         native[k] \in S,
         Cardinality(Evals(tid, native, k)) <= Cardinality(Entries(frames))
  PROVE  /\ Walked(FormatNativeFrame(acc, tid, native[k], frames, last), tid, native, k, frames)
         /\ IsEvalFrame(tid, native[k]) => acc.next <= Len(frames)
<1> DEFINE L == Len(frames)
           on == FormatNativeFrame(acc, tid, native[k], frames, last)
<1>1. L \in Nat /\ \A m \in 1 .. L : frames[m].is_entry \in BOOLEAN
  BY FramesAre
<1>2. PICK e \in Nat, b \in Nat, n \in Nat :
        /\ e = Cardinality(Evals(tid, native, k)) /\ b = Cardinality(Evals(tid, native, k - 1))
        /\ n = Cardinality(Entries(frames))
        /\ e = IF IsEvalFrame(tid, native[k]) THEN b + 1 ELSE b
        /\ e <= n
  BY EvalsGrow, EntriesAreFinite
<1>3. PICK a \in Nat : a = Cardinality(Ahead(frames, acc.next))
  BY FS_CardinalityType DEF Walked
<1>4. /\ acc.asserts = TRUE /\ acc.next \in 1 .. L + 1 /\ a <= b
      /\ (L > 0 => frames[1].is_entry) => a = b /\ (acc.next <= L => frames[acc.next].is_entry)
      /\ IsFiniteSet(Ahead(frames, acc.next))
  BY <1>2, <1>3 DEF Walked
<1>5. CASE ~IsEvalFrame(tid, native[k])
  <2>1. on.next = acc.next /\ on.asserts = acc.asserts
    BY <1>5 DEF FormatNativeFrame, Printed
  <2> HIDE DEF on
  <2>2. Walked(on, tid, native, k, frames)
    BY <1>2, <1>3, <1>4, <1>5, <2>1 DEF Walked
  <2> QED BY <1>5, <2>2 DEF on
<1>6. CASE IsEvalFrame(tid, native[k])
  <2>1. acc.next <= L
    <3> SUFFICES ASSUME acc.next = L + 1 PROVE FALSE
      BY <1>1, <1>4
    <3>1. Ahead(frames, acc.next) = Entries(frames)
      <4>1. L + 1 - 1 = L
        BY <1>1
      <4> QED BY <4>1 DEF Ahead, Entries
    <3>2. a = n
      BY <1>2, <1>3, <3>1
    <3> QED BY <1>2, <1>4, <1>6, <3>2
  <2>2. acc.next \in 1 .. L
    BY <1>1, <1>4, <2>1
  <2> DEFINE to == NextEntry(frames, acc.next)
             more == [m \in 1 .. to - acc.next |-> frames[acc.next + m - 1].at]
  <2>3. /\ to \in acc.next + 1 .. L + 1
        /\ to <= L => frames[to].is_entry
        /\ \A m \in acc.next + 1 .. to - 1 : ~frames[m].is_entry
    BY <2>2, NextEntryIs
  <2>4. on = [acc EXCEPT !.held = <<>>, !.lines = @ \o more, !.next = to]
    <3>1. ~(acc.next > L)
      BY <1>1, <2>2
    <3> QED BY <1>6, <3>1 DEF FormatNativeFrame
  <2> HIDE DEF to, more, on
  <2>5. on.next = to /\ on.asserts = acc.asserts
    BY <2>4 DEF Printed
  <2>6. Ahead(frames, to) =
          IF frames[acc.next].is_entry THEN Ahead(frames, acc.next) \cup {acc.next}
          ELSE Ahead(frames, acc.next)
    <3>1. 1 .. to - 1 = (1 .. acc.next - 1) \cup {acc.next} \cup (acc.next + 1 .. to - 1)
      BY <1>1, <2>2, <2>3
    <3> QED BY <2>3, <3>1 DEF Ahead
  <2>7. acc.next \notin Ahead(frames, acc.next)
    <3>1. acc.next \notin 1 .. acc.next - 1
      BY <2>2
    <3> QED BY <3>1 DEF Ahead
  <2>8. /\ IsFiniteSet(Ahead(frames, to))
        /\ Cardinality(Ahead(frames, to)) = IF frames[acc.next].is_entry THEN a + 1 ELSE a
    <3>1. /\ IsFiniteSet(Ahead(frames, acc.next) \cup {acc.next})
          /\ Cardinality(Ahead(frames, acc.next) \cup {acc.next}) = a + 1
      BY <1>3, <1>4, <2>7, FS_AddElement
    <3>2. CASE frames[acc.next].is_entry
      BY <2>6, <3>1, <3>2
    <3>3. CASE ~frames[acc.next].is_entry
      BY <1>3, <1>4, <2>6, <3>3
    <3> QED BY <3>2, <3>3
  <2>9. to \in 1 .. L + 1
    BY <1>1, <2>2, <2>3
  <2>10. IF frames[acc.next].is_entry THEN a + 1 <= e ELSE a <= e
    BY <1>2, <1>4, <1>6
  <2>11. (L > 0 => frames[1].is_entry) => frames[acc.next].is_entry /\ a + 1 = e
    BY <1>2, <1>4, <1>6, <2>1
  <2>12. Walked(on, tid, native, k, frames)
    BY <1>2, <1>4, <2>3, <2>5, <2>8, <2>9, <2>10, <2>11 DEF Walked
  <2> QED BY <2>1, <2>12 DEF on
<1> QED BY <1>5, <1>6

\* Merging never runs out of Python frames, and prints all of them if they begin with
\* an entry frame.
LEMMA MergingEnds ==
  ASSUME NEW S, NEW thread, NEW last,
         thread.native_frames \in Seq(S), thread.frames \in PyFrames(S),
         AreTheStacksMergeable(thread)
  PROVE  \E after :
           LET native == thread.native_frames
               frames == Reverse(thread.frames)
               N == Len(native)
           IN /\ Merges(S, thread, last, after)
              /\ \A k \in 0 .. N : Walked(after[k], thread.tid, native, k, frames)
              /\ (frames # <<>> => frames[1].is_entry) => after[N].next = Len(frames) + 1
<1> DEFINE native == thread.native_frames
           frames == Reverse(thread.frames)
           N == Len(native)
           tid == thread.tid
<1>0. PICK after : Merges(S, thread, last, after)
  BY MergingIs
<1>1. after \in [0 .. N -> Printed(S)] /\ Passes(after, native, tid, frames, last)
  BY <1>0 DEF Merges
<1>2. /\ frames \in PyFrames(S) /\ Len(frames) \in Nat
      /\ IsFiniteSet(Entries(frames)) /\ Cardinality(Entries(frames)) \in Nat
      /\ Cardinality(Entries(frames)) = Cardinality(Entries(thread.frames))
  BY EntriesAreFinite, FramesAre
<1>3. N \in Nat /\ DOMAIN native = 1 .. N /\ \A n \in 1 .. N : native[n] \in S
  OBVIOUS
<1>4. Cardinality(Evals(tid, native, N)) = Cardinality(Entries(frames))
  <2>1. DOMAIN thread.frames = 1 .. Len(thread.frames)
    BY FramesAre
  <2> QED BY <1>2, <1>3, <2>1
          DEF AreTheStacksMergeable, NumEvalFrames, NumEntryFrames, Evals, Entries
<1>5. \A k \in 1 .. N : /\ Cardinality(Evals(tid, native, k)) \in Nat
                        /\ Cardinality(Evals(tid, native, k)) <= Cardinality(Entries(frames))
  <2> TAKE k \in 1 .. N
  <2>1. IsFiniteSet(Evals(tid, native, N)) /\ IsFiniteSet(Evals(tid, native, k))
        /\ Cardinality(Evals(tid, native, k)) \in Nat
    <3>1. N \in Nat \ {0} /\ k \in Nat \ {0}
      BY <1>3
    <3> QED BY <3>1, EvalsGrow
  <2>2. Evals(tid, native, k) \in SUBSET Evals(tid, native, N)
    BY <1>3 DEF Evals
  <2> QED BY <1>4, <2>1, <2>2, FS_Subset
<1> DEFINE Good == {k \in 0 .. N : Walked(after[k], tid, native, k, frames)}
<1> HIDE DEF native, frames, N, tid
<1>6. 0 \in Good
  <2>1. /\ after[0].next = 1 /\ after[0].asserts = TRUE
    BY <1>1 DEF Passes
  <2>2. Ahead(frames, after[0].next) = {} /\ Evals(tid, native, 0) = {}
    BY <2>1 DEF Ahead, Evals
  <2>3. 1 \in 1 .. Len(frames) + 1 /\ (1 <= Len(frames) <=> Len(frames) > 0)
    BY <1>2
  <2>4. Walked(after[0], tid, native, 0, frames)
    <3>1. /\ IsFiniteSet(Ahead(frames, after[0].next))
          /\ Cardinality(Ahead(frames, after[0].next)) = 0
          /\ Cardinality(Evals(tid, native, 0)) = 0
      BY <2>2, FS_EmptySet
    <3> QED BY <2>1, <2>3, <3>1 DEF Walked
  <2> QED BY <1>3, <2>4
<1>7. ASSUME NEW k \in 1 .. N, k - 1 \in Good PROVE k \in Good
  <2>1. k \in Nat \ {0} /\ k \in 0 .. N /\ k - 1 \in 0 .. N
    BY <1>3
  <2>2. after[k] = FormatNativeFrame(after[k - 1], tid, native[k], frames, last)
    BY <1>1, <1>3 DEF Passes, N
  <2>3. after[k - 1] \in Printed(S)
    BY <1>1, <2>1
  <2>4. Walked(after[k - 1], tid, native, k - 1, frames)
    BY <1>7
  <2>5. Walked(after[k], tid, native, k, frames)
    BY <1>2, <1>3, <1>5, <2>1, <2>2, <2>3, <2>4, WalksOn
  <2> QED BY <2>1, <2>5
<1>8. \A k \in 0 .. N : Walked(after[k], tid, native, k, frames)
  <2> HIDE DEF Good
  <2>1. 0 .. N \subseteq Good
    BY <1>3, <1>6, <1>7, StepByStep
  <2> QED BY <2>1 DEF Good
<1>9. ASSUME frames # <<>> => frames[1].is_entry PROVE after[N].next = Len(frames) + 1
  <2>1. Walked(after[N], tid, native, N, frames)
    BY <1>3, <1>8
  <2>2. Len(frames) > 0 => frames[1].is_entry
    BY <1>9
  <2>3. /\ after[N].next \in 1 .. Len(frames) + 1
        /\ Cardinality(Ahead(frames, after[N].next)) = Cardinality(Entries(frames))
        /\ after[N].next <= Len(frames) => frames[after[N].next].is_entry
    BY <1>4, <2>1, <2>2 DEF Walked
  <2> SUFFICES ASSUME after[N].next <= Len(frames) PROVE FALSE
    BY <1>2, <2>3
  <2>4. Ahead(frames, after[N].next) \in SUBSET Entries(frames)
    BY <1>2, <2>3 DEF Ahead, Entries
  <2>5. Ahead(frames, after[N].next) = Entries(frames)
    BY <1>2, <2>3, <2>4, FS_Subset
  <2>6. after[N].next \in Entries(frames) /\ after[N].next \notin Ahead(frames, after[N].next)
    BY <1>2, <2>3 DEF Ahead, Entries
  <2> QED BY <2>5, <2>6
<1>10. /\ \A k \in 0 .. N : Walked(after[k], thread.tid, native, k, frames)
       /\ (frames # <<>> => frames[1].is_entry) => after[N].next = Len(frames) + 1
  BY <1>8, <1>9 DEF tid
<1> QED BY <1>0, <1>10 DEF native, frames, N
-----------------------------------------------------------------------------
(* The stacks: a Python frame lies on what called it, and every call of a   *)
(* thread state on its OS thread.                                           *)

Calls(f, g) == f.of = g.of /\ (f.kind = "eval" \/ (Inlines /\ f.kind = "py"))

CallsAreNested(t) ==
  \A i \in 1 .. Len(stack[t]) : Kind(t, i) = "py" => i > 1 /\ Calls(stack[t][i - 1], stack[t][i])

StatesAreAtHome(t) == \A i \in 1 .. Len(stack[t]) : Kind(t, i) # "c" => TidOf[stack[t][i].of] = t

\* An eval loop that has called anything runs its frame.
EvalsCall(t) == \A i \in 1 .. Len(stack[t]) - 1 : Kind(t, i) = "eval" => Kind(t, i + 1) = "py"

StacksInv ==
  /\ StacksTypeOK
  /\ \A t \in Tid :
       Len(stack[t]) <= MaxDepth /\ CallsAreNested(t) /\ StatesAreAtHome(t) /\ EvalsCall(t)

LEMMA StacksBegin == StacksInit => StacksInv
  BY StacksAssumption DEF StacksInit, StacksInv, StacksTypeOK, CallsAreNested, StatesAreAtHome, EvalsCall

LEMMA FramesOf == /\ C \in Frame
                  /\ \A s \in TState : Eval(s) \in Frame /\ Py(s) \in Frame
                  /\ \A f \in Frame : f.kind \in {"c", "eval", "py"} /\ (f.kind # "c" => f.of \in TState)
  BY DEF C, Eval, Py, Frame

\* What is pushed is called by what it lies on.
LEMMA PushKeeps ==
  ASSUME StacksInv, NEW t \in Tid, NEW entries \in Seq(Frame), Push(t, entries),
         \A k \in 1 .. Len(entries) :
           /\ entries[k].kind # "c" => TidOf[entries[k].of] = t
           /\ entries[k].kind = "py" =>
                IF k = 1 THEN stack[t] # <<>> /\ Calls(Last(stack[t]), entries[1])
                ELSE Calls(entries[k - 1], entries[k])
           /\ entries[k].kind # "py" =>
                IF k = 1 THEN stack[t] = <<>> \/ Last(stack[t]).kind # "eval"
                ELSE entries[k - 1].kind # "eval"
  PROVE  StacksInv'
<1> DEFINE s == stack[t]
           q == s \o entries
           n == Len(s)
<1>1. s \in Seq(Frame) /\ n \in Nat /\ Len(entries) \in Nat /\ DOMAIN stack = Tid
  BY DEF StacksInv, StacksTypeOK
<1>2. /\ q \in Seq(Frame) /\ Len(q) = n + Len(entries)
      /\ \A i \in 1 .. n + Len(entries) : q[i] = IF i <= n THEN s[i] ELSE entries[i - n]
  BY <1>1, ConcatProperties
<1>3. /\ stack' = [stack EXCEPT ![t] = q] /\ UNCHANGED python_version
      /\ n + Len(entries) <= MaxDepth
  BY DEF Push
<1> HIDE DEF q
<1>4. /\ DOMAIN stack' = Tid /\ stack'[t] = q /\ \A u \in Tid : u # t => stack'[u] = stack[u]
  BY <1>1, <1>3
<1>5. \A f, g : Calls(f, g)' <=> Calls(f, g)
  BY <1>3 DEF Calls, Inlines
<1>6. ASSUME NEW i \in 1 .. Len(q), q[i].kind = "py" PROVE i > 1 /\ Calls(q[i - 1], q[i])
  <2>1. CASE i <= n
    <3>1. i \in 1 .. n /\ q[i] = s[i]
      BY <1>1, <1>2, <2>1
    <3>2. i > 1 /\ Calls(s[i - 1], s[i])
      BY <1>6, <3>1 DEF StacksInv, CallsAreNested, Kind
    <3>3. q[i - 1] = s[i - 1]
      <4>1. i - 1 \in 1 .. n + Len(entries) /\ i - 1 <= n
        BY <1>1, <3>1, <3>2
      <4> QED BY <1>2, <4>1
    <3> QED BY <3>1, <3>2, <3>3
  <2>2. CASE i = n + 1
    <3>1. q[i] = entries[1] /\ 1 \in 1 .. Len(entries)
      <4>1. i - n = 1 /\ ~(i <= n) /\ i \in 1 .. n + Len(entries) /\ 1 \in 1 .. Len(entries)
        BY <1>1, <1>2, <2>2
      <4> QED BY <1>2, <4>1
    <3>2. s # <<>> /\ Calls(Last(s), entries[1])
      BY <1>6, <3>1
    <3>3. n # 0
      BY <1>1, <3>2
    <3>4. i > 1 /\ q[i - 1] = s[n]
      <4>1. i - 1 = n /\ n \in 1 .. n + Len(entries) /\ n <= n /\ i > 1
        BY <1>1, <2>2, <3>3
      <4> QED BY <1>2, <4>1
    <3> QED BY <3>1, <3>2, <3>4 DEF Last
  <2>3. CASE i > n + 1
    <3>1. /\ i - n \in 1 .. Len(entries) /\ i - n # 1 /\ i > 1
          /\ i \in 1 .. n + Len(entries) /\ i - 1 \in 1 .. n + Len(entries)
          /\ ~(i <= n) /\ ~(i - 1 <= n) /\ i - 1 - n = i - n - 1
      BY <1>1, <1>2, <2>3
    <3>2. q[i] = entries[i - n] /\ q[i - 1] = entries[i - n - 1]
      BY <1>2, <3>1
    <3> QED BY <1>6, <3>1, <3>2
  <2> QED BY <1>1, <1>2, <2>1, <2>2, <2>3
<1>7. ASSUME NEW i \in 1 .. Len(q), q[i].kind # "c" PROVE TidOf[q[i].of] = t
  <2>1. CASE i <= n
    <3>1. i \in 1 .. n /\ q[i] = s[i]
      BY <1>1, <1>2, <2>1
    <3> QED BY <1>7, <3>1 DEF StacksInv, StatesAreAtHome, Kind
  <2>2. CASE ~(i <= n)
    <3>1. i - n \in 1 .. Len(entries) /\ q[i] = entries[i - n]
      BY <1>1, <1>2, <2>2
    <3> QED BY <1>7, <3>1
  <2> QED BY <2>1, <2>2
<1>8. StacksTypeOK'
  BY <1>2, <1>3, <1>4 DEF StacksInv, StacksTypeOK
<1>9. ASSUME NEW i \in 1 .. Len(q) - 1, q[i].kind = "eval", q[i + 1].kind # "py" PROVE FALSE
  <2>0. i \in 1 .. n + Len(entries) /\ i + 1 \in 1 .. n + Len(entries)
    BY <1>1, <1>2
  <2>1. CASE i + 1 <= n
    <3>1. i \in 1 .. Len(stack[t]) - 1 /\ q[i] = s[i] /\ q[i + 1] = s[i + 1]
      BY <1>1, <1>2, <2>0, <2>1
    <3> QED BY <1>9, <3>1 DEF StacksInv, EvalsCall, Kind
  <2>2. CASE i = n
    <3>1. i + 1 - n = 1 /\ ~(i + 1 <= n) /\ 1 \in 1 .. Len(entries) /\ i <= n /\ n # 0
      BY <1>1, <2>0, <2>2
    <3>2. q[i] = s[n]
      BY <1>2, <2>0, <2>2, <3>1
    <3>3. q[i + 1] = entries[1]
      BY <1>2, <2>0, <3>1
    <3>4. s # <<>>
      BY <1>1, <3>1
    <3> QED BY <1>9, <3>1, <3>2, <3>3, <3>4 DEF Last
  <2>3. CASE i > n
    <3>1. PICK j \in 1 .. n + Len(entries) : j = i + 1
      BY <2>0
    <3>2. PICK k \in 1 .. Len(entries) : k = j - n /\ k # 1 /\ k - 1 = i - n
      <4>1. j - n \in 1 .. Len(entries) /\ j - n # 1 /\ j - n - 1 = i - n
        BY <1>1, <2>0, <2>3, <3>1
      <4> QED BY <4>1
    <3>3. ~(i <= n) /\ ~(j <= n)
      BY <1>1, <2>0, <2>3, <3>1
    <3>4. q[i] = entries[k - 1] /\ q[j] = entries[k]
      BY <1>2, <2>0, <3>2, <3>3
    <3> QED BY <1>9, <3>1, <3>2, <3>4
  <2> QED BY <1>1, <2>0, <2>1, <2>2, <2>3
<1>10. ASSUME NEW u \in Tid
      PROVE  /\ Len(stack'[u]) <= MaxDepth /\ CallsAreNested(u)' /\ StatesAreAtHome(u)'
             /\ EvalsCall(u)'
  <2>1. CASE u = t
    <3>1. EvalsCall(u)'
      BY <1>4, <1>9, <2>1 DEF EvalsCall, Kind
    <3> QED BY <1>2, <1>3, <1>4, <1>5, <1>6, <1>7, <2>1, <3>1 DEF CallsAreNested, StatesAreAtHome, Kind
  <2>2. CASE u # t
    BY <1>4, <1>5, <2>2 DEF StacksInv, CallsAreNested, StatesAreAtHome, EvalsCall, Kind
  <2> QED BY <2>1, <2>2
<1> QED BY <1>8, <1>10 DEF StacksInv

LEMMA PushOneKeeps ==
  ASSUME StacksInv, NEW t \in Tid, NEW f \in Frame, Push(t, <<f>>),
         f.kind # "c" => TidOf[f.of] = t,
         f.kind = "py" => stack[t] # <<>> /\ Calls(Last(stack[t]), f),
         f.kind # "py" => stack[t] = <<>> \/ Last(stack[t]).kind # "eval"
  PROVE  StacksInv'
<1> DEFINE e == <<f>>
<1>1. e \in Seq(Frame) /\ Len(e) = 1 /\ e[1] = f /\ Push(t, e)
  OBVIOUS
<1> HIDE DEF e
<1>2. \A k \in 1 .. Len(e) : k = 1
  BY <1>1
<1>3. \A k \in 1 .. Len(e) :
        /\ e[k].kind # "c" => TidOf[e[k].of] = t
        /\ e[k].kind = "py" =>
             IF k = 1 THEN stack[t] # <<>> /\ Calls(Last(stack[t]), e[1]) ELSE Calls(e[k - 1], e[k])
        /\ e[k].kind # "py" =>
             IF k = 1 THEN stack[t] = <<>> \/ Last(stack[t]).kind # "eval" ELSE e[k - 1].kind # "eval"
  BY <1>1, <1>2
<1> QED BY <1>1, <1>3, PushKeeps

\* What remains of a stack was there.
LEMMA PopKeeps ==
  ASSUME StacksInv, NEW t \in Tid, Pop(t)
  PROVE  StacksInv'
<1> DEFINE s == stack[t]
<1>1. s \in Seq(Frame) /\ s # <<>> /\ Len(s) \in Nat /\ Len(s) # 0 /\ DOMAIN stack = Tid
  BY DEF StacksInv, StacksTypeOK, Pop
<1>2. ASSUME NEW r \in Seq(Frame), r # <<>>
      PROVE  /\ Front(r) \in Seq(Frame) /\ Len(r) \in Nat \ {0} /\ Len(Front(r)) = Len(r) - 1
             /\ \A i \in 1 .. Len(r) - 1 : Front(r)[i] = r[i]
  <2>1. Len(r) \in Nat \ {0}
    BY <1>2
  <2>2. \A i \in 1 .. Len(r) - 1 : i \in 1 .. Len(r) /\ 1 + i - 1 = i
    BY <2>1
  <2>3. \A i \in 1 .. Len(r) - 1 : r[i] \in Frame
    BY <2>2
  <2>4. /\ Front(r) \in Seq(Frame)
        /\ Len(Front(r)) = IF 1 <= Len(r) - 1 THEN Len(r) - 1 - 1 + 1 ELSE 0
        /\ \A i \in 1 .. Len(r) - 1 - 1 + 1 : Front(r)[i] = r[1 + i - 1]
    BY <2>1, <2>3, SubSeqProperties DEF Front
  <2>5. Len(r) - 1 - 1 + 1 = Len(r) - 1 /\ (1 <= Len(r) - 1 \/ Len(r) - 1 = 0)
    <3>1. \A m \in Nat \ {0} : m - 1 - 1 + 1 = m - 1 /\ (1 <= m - 1 \/ m - 1 = 0)
      OBVIOUS
    <3> QED BY ONLY <2>1, <3>1
  <2>6. \A i \in 1 .. Len(r) - 1 : Front(r)[i] = r[i]
    BY <2>2, <2>4, <2>5
  <2> QED BY <2>1, <2>4, <2>5, <2>6
<1> DEFINE left == Front(s)
           q == IF ~HasShims /\ left # <<>> /\ Last(left).kind = "eval" THEN Front(left) ELSE left
<1>3. q \in Seq(Frame) /\ Len(q) \in Nat /\ Len(q) <= Len(s) /\ \A i \in 1 .. Len(q) : q[i] = s[i]
  <2>1. left \in Seq(Frame) /\ Len(left) = Len(s) - 1 /\ \A i \in 1 .. Len(left) : left[i] = s[i]
    BY <1>1, <1>2
  <2>2. CASE q = left
    BY <1>1, <2>1, <2>2
  <2>3. CASE left # <<>> /\ q = Front(left)
    <3>1. /\ q \in Seq(Frame) /\ Len(q) = Len(left) - 1 /\ Len(left) \in Nat \ {0}
          /\ \A i \in 1 .. Len(left) - 1 : q[i] = left[i]
      BY <1>2, <2>1, <2>3
    <3> HIDE DEF left, q
    <3>2. \A i \in 1 .. Len(q) : i \in 1 .. Len(left) /\ i \in 1 .. Len(left) - 1
      BY <3>1
    <3>3. \A i \in 1 .. Len(q) : q[i] = s[i]
      BY <2>1, <3>1, <3>2
    <3> QED BY <1>1, <2>1, <3>1, <3>3
  <2> QED BY <2>2, <2>3
<1>4. stack' = [stack EXCEPT ![t] = q] /\ UNCHANGED python_version
  BY DEF Pop
<1> HIDE DEF q
<1>5. /\ DOMAIN stack' = Tid /\ stack'[t] = q /\ \A u \in Tid : u # t => stack'[u] = stack[u]
  BY <1>1, <1>4
<1>6. \A f, g : Calls(f, g)' <=> Calls(f, g)
  BY <1>4 DEF Calls, Inlines
<1>7. StacksTypeOK'
  BY <1>3, <1>4, <1>5 DEF StacksInv, StacksTypeOK
<1>8. \A i \in 1 .. Len(q) : i \in 1 .. Len(s) /\ (i > 1 => i - 1 \in 1 .. Len(q))
  BY <1>1, <1>3
<1>9. ASSUME NEW u \in Tid
      PROVE  /\ Len(stack'[u]) <= MaxDepth /\ CallsAreNested(u)' /\ StatesAreAtHome(u)'
             /\ EvalsCall(u)'
  <2>1. CASE u = t
    <3>1. Len(q) <= MaxDepth
      BY <1>1, <1>3, StacksAssumption DEF StacksInv
    <3>2. \A i \in 1 .. Len(q) : q[i].kind = "py" => i > 1 /\ Calls(q[i - 1], q[i])
      BY <1>3, <1>8 DEF StacksInv, CallsAreNested, Kind
    <3>3. \A i \in 1 .. Len(q) : q[i].kind # "c" => TidOf[q[i].of] = t
      BY <1>3, <1>8 DEF StacksInv, StatesAreAtHome, Kind
    <3>4. \A i \in 1 .. Len(q) - 1 : q[i].kind = "eval" => q[i + 1].kind = "py"
      <4> TAKE i \in 1 .. Len(q) - 1
      <4>1. i \in 1 .. Len(q) /\ i + 1 \in 1 .. Len(q) /\ i \in 1 .. Len(s) - 1
        BY <1>1, <1>3
      <4>2. q[i] = stack[t][i] /\ q[i + 1] = stack[t][i + 1]
        BY <1>3, <4>1
      <4> QED BY <4>1, <4>2 DEF StacksInv, EvalsCall, Kind
    <3>5. EvalsCall(u)'
      BY <1>5, <2>1, <3>4 DEF EvalsCall, Kind
    <3> QED BY <1>5, <1>6, <2>1, <3>1, <3>2, <3>3, <3>5 DEF CallsAreNested, StatesAreAtHome, Kind
  <2>2. CASE u # t
    BY <1>5, <1>6, <2>2 DEF StacksInv, CallsAreNested, StatesAreAtHome, EvalsCall, Kind
  <2> QED BY <2>1, <2>2
<1> QED BY <1>7, <1>9 DEF StacksInv

LEMMA StacksKeep ==
  ASSUME StacksInv, StacksNext
  PROVE  StacksInv'
<1>1. ASSUME NEW t \in Tid, CallC(t) PROVE StacksInv'
  <2>1. /\ C \in Frame /\ C.kind = "c" /\ Push(t, <<C>>)
        /\ stack[t] = <<>> \/ Last(stack[t]).kind # "eval"
    BY <1>1, FramesOf DEF C, CallC
  <2> QED BY <2>1, PushOneKeeps
<1>2. ASSUME NEW t \in Tid, Pop(t) PROVE StacksInv'
  BY <1>2, PopKeeps
<1>3. ASSUME NEW s \in TState, CallEval(s) PROVE StacksInv'
  <2>1. TidOf[s] \in Tid /\ Eval(s) \in Frame /\ Py(s) \in Frame /\ Calls(Eval(s), Py(s))
        /\ Eval(s).kind = "eval" /\ Eval(s).of = s /\ Py(s).kind = "py" /\ Py(s).of = s
    BY FramesOf DEF Tid, Calls, Eval, Py
  <2>4. stack[TidOf[s]] = <<>> \/ Last(stack[TidOf[s]]).kind # "eval"
    BY <1>3 DEF CallEval, Top
  <2>2. CASE HasShims
    <3>1. Push(TidOf[s], <<Eval(s)>>)
      BY <1>3, <2>2 DEF CallEval
    <3> QED BY <2>1, <2>4, <3>1, PushOneKeeps
  <2>3. CASE ~HasShims
    <3> DEFINE e == <<Eval(s), Py(s)>>
    <3>1. e \in Seq(Frame) /\ Len(e) = 2 /\ e[1] = Eval(s) /\ e[1 + 1] = Py(s)
      BY <2>1
    <3>2. Push(TidOf[s], e)
      BY <1>3, <2>3 DEF CallEval
    <3> HIDE DEF e
    <3>3. \A k \in 1 .. Len(e) : k = 1 \/ (k = 1 + 1 /\ k - 1 = 1)
      BY <3>1
    <3>4. \A k \in 1 .. Len(e) :
            /\ e[k].kind # "c" => TidOf[e[k].of] = TidOf[s]
            /\ e[k].kind = "py" =>
                 IF k = 1 THEN stack[TidOf[s]] # <<>> /\ Calls(Last(stack[TidOf[s]]), e[1])
                 ELSE Calls(e[k - 1], e[k])
            /\ e[k].kind # "py" =>
                 IF k = 1 THEN stack[TidOf[s]] = <<>> \/ Last(stack[TidOf[s]]).kind # "eval"
                 ELSE e[k - 1].kind # "eval"
      BY <2>1, <2>4, <3>1, <3>3
    <3> QED BY <2>1, <3>1, <3>2, <3>4, PushKeeps
  <2> QED BY <2>2, <2>3
<1>4. ASSUME NEW s \in TState, PushFrame(s) \/ CallInline(s) PROVE StacksInv'
  <2>1. TidOf[s] \in Tid /\ Py(s) \in Frame /\ Py(s).kind = "py" /\ Py(s).of = s
    BY FramesOf DEF Tid, Py
  <2>2. /\ Push(TidOf[s], <<Py(s)>>) /\ stack[TidOf[s]] # <<>>
        /\ Calls(Last(stack[TidOf[s]]), Py(s))
    BY <1>4, <2>1 DEF PushFrame, CallInline, Top, Calls
  <2> QED BY <2>1, <2>2, PushOneKeeps
<1> QED BY <1>1, <1>2, <1>3, <1>4 DEF StacksNext
-----------------------------------------------------------------------------
(* Reading one thread state.                                                *)

LEMMA StackOf ==
  ASSUME StacksInv, NEW t \in Tid
  PROVE  /\ stack[t] \in Seq(Frame) /\ Len(stack[t]) \in Nat /\ DOMAIN stack[t] = 1 .. Len(stack[t])
         /\ 1 .. Len(stack[t]) \subseteq Line
         /\ \A i \in 1 .. Len(stack[t]) :
              /\ Kind(t, i) \in {"c", "eval", "py"}
              /\ Kind(t, i) # "c" => stack[t][i].of \in TState /\ TidOf[stack[t][i].of] = t
              /\ Kind(t, i) = "py" => i > 1 /\ Calls(stack[t][i - 1], stack[t][i])
<1>1. stack[t] \in Seq(Frame) /\ Len(stack[t]) \in Nat /\ Len(stack[t]) <= MaxDepth
  BY DEF StacksInv, StacksTypeOK
<1>2. \A i \in 1 .. Len(stack[t]) : stack[t][i] \in Frame
  BY <1>1
<1>3. 1 .. Len(stack[t]) \subseteq Line
  BY <1>1, StacksAssumption DEF Line
<1> QED BY <1>1, <1>2, <1>3, FramesOf DEF StacksInv, CallsAreNested, StatesAreAtHome, Kind

\* What the reader sees of a thread state on the stack.
InChain(s, i) == stack[TidOf[s]][i].of = s /\ (Kind(TidOf[s], i) = "py" \/ HasShims)

LEMMA ChainIs ==
  ASSUME StacksInv, NEW s \in TState
  PROVE  LET d == Len(stack[TidOf[s]])
             chain == FrameChain(s)
         IN /\ chain \in Seq(1 .. d)
            /\ \A k \in 1 .. Len(chain) : chain[k] \in 1 .. d /\ InChain(s, chain[k])
            /\ \A j, k \in 1 .. Len(chain) : j < k => chain[k] < chain[j]
            /\ \A i \in 1 .. d : InChain(s, i) => \E k \in 1 .. Len(chain) : chain[k] = i
<1> DEFINE t == TidOf[s]
           d == Len(stack[t])
           P == {i \in DOMAIN stack[t] : stack[t][i].of = s /\ (Kind(t, i) = "py" \/ HasShims)}
           r == Selected([i \in 1 .. d |-> i], P)
           chain == FrameChain(s)
<1>1. t \in Tid /\ d \in Nat /\ DOMAIN stack[t] = 1 .. d
  BY StackOf DEF Tid
<1>2. /\ r \in Seq(1 .. d)
      /\ \A k \in 1 .. Len(r) : r[k] \in P /\ r[k] \in 1 .. d
      /\ \A j, k \in 1 .. Len(r) : j < k => r[j] < r[k]
      /\ \A i \in 1 .. d : i \in P => \E k \in 1 .. Len(r) : r[k] = i
  <2> HIDE DEF d, P
  <2> QED BY <1>1, PlacesSelected
<1>3. chain = Reverse(r)
  BY DEF FrameChain, Positions
<1>4. \A i \in 1 .. d : i \in P <=> InChain(s, i)
  BY <1>1 DEF InChain
<1> HIDE DEF r, P, chain, d
<1>5. /\ chain \in Seq(1 .. d) /\ Len(chain) = Len(r) /\ Len(r) \in Nat
      /\ \A k \in 1 .. Len(r) : Len(r) - k + 1 \in 1 .. Len(r) /\ chain[k] = r[Len(r) - k + 1]
  BY <1>2, <1>3, ReverseIs
<1>6. \A k \in 1 .. Len(chain) : chain[k] \in 1 .. d /\ InChain(s, chain[k])
  BY <1>2, <1>4, <1>5
<1>7. \A j, k \in 1 .. Len(chain) : j < k => chain[k] < chain[j]
  <2> SUFFICES ASSUME NEW j \in 1 .. Len(r), NEW k \in 1 .. Len(r), j < k PROVE chain[k] < chain[j]
    BY <1>5
  <2>1. Len(r) - k + 1 < Len(r) - j + 1
    BY <1>5
  <2> QED BY <1>2, <1>5, <2>1
<1>8. ASSUME NEW i \in 1 .. d, InChain(s, i) PROVE \E k \in 1 .. Len(chain) : chain[k] = i
  <2>1. PICK k \in 1 .. Len(r) : r[k] = i
    BY <1>2, <1>4, <1>8
  <2>2. Len(r) - k + 1 \in 1 .. Len(r) /\ Len(r) - (Len(r) - k + 1) + 1 = k
    BY <1>5
  <2>3. chain[Len(r) - k + 1] = i
    BY <1>5, <2>1, <2>2
  <2> QED BY <1>5, <2>2, <2>3
<1> QED BY <1>5, <1>6, <1>7, <1>8 DEF d, chain

\* An entry frame is one that an eval loop has called, in every version.
LEMMA EntryIs ==
  ASSUME StacksInv, NEW s \in TState, NEW n \in 1 .. Len(FrameChain(s)),
         Kind(TidOf[s], FrameChain(s)[n]) = "py"
  PROVE  IsEntry(s, FrameChain(s), n) <=> Kind(TidOf[s], FrameChain(s)[n] - 1) = "eval"
<1> DEFINE t == TidOf[s]
           d == Len(stack[t])
           chain == FrameChain(s)
           i == chain[n]
<1>1. t \in Tid /\ d \in Nat
  BY StackOf DEF Tid
<1>2. /\ chain \in Seq(1 .. d) /\ Len(chain) \in Nat
      /\ \A k \in 1 .. Len(chain) : chain[k] \in 1 .. d /\ InChain(s, chain[k])
      /\ \A j, k \in 1 .. Len(chain) : j < k => chain[k] < chain[j]
      /\ \A k \in 1 .. d : InChain(s, k) => \E m \in 1 .. Len(chain) : chain[m] = k
  BY ChainIs
<1>3. i \in 1 .. d /\ stack[t][i].of = s /\ i > 1 /\ Calls(stack[t][i - 1], stack[t][i])
  <2>1. i \in 1 .. d /\ stack[t][i].of = s
    BY <1>2 DEF InChain
  <2> HIDE DEF d, i, t
  <2>2. Kind(t, i) = "py"
    BY DEF i, t
  <2> QED BY <1>1, <2>1, <2>2, StackOf DEF d
<1>4. CASE python_version >= 312
  <2>1. i - 1 \in 1 .. d /\ InChain(s, i - 1)
    <3>1. i - 1 \in 1 .. d
      <4> HIDE DEF d, i
      <4> QED BY <1>1, <1>3
    <3>2. stack[t][i - 1].of = s /\ HasShims
      BY <1>3, <1>4 DEF Calls, HasShims
    <3> QED BY <3>1, <3>2 DEF InChain
  <2>2. PICK m \in 1 .. Len(chain) : chain[m] = i - 1
    BY <1>2, <2>1
  <2>3. m = n + 1
    <3> HIDE DEF chain, d
    <3>1. chain[n] \in Int /\ chain[m] = chain[n] - 1 /\ n \in 1 .. Len(chain)
      BY <1>2, <2>2 DEF chain
    <3>2. ~(m < n) /\ m # n
      BY <1>2, <3>1
    <3>3. ~(n + 1 < m)
      <4> SUFFICES ASSUME n + 1 < m PROVE FALSE
        OBVIOUS
      <4>1. n + 1 \in 1 .. Len(chain) /\ n < n + 1
        BY <1>2, <3>1
      <4>2. chain[n + 1] < chain[n] /\ chain[m] < chain[n + 1] /\ chain[n + 1] \in Int
        BY <1>2, <3>1, <4>1
      <4> QED BY <3>1, <4>2
    <3> QED BY <1>2, <3>1, <3>2, <3>3
  <2>4. n < Len(chain) /\ chain[n + 1] = i - 1
    <3> HIDE DEF chain, i
    <3> QED BY <1>2, <2>2, <2>3 DEF chain
  <2>5. ~(Kind(t, i) = "eval")
    OBVIOUS
  <2> HIDE DEF t, chain
  <2> QED BY <1>4, <2>4, <2>5 DEF IsEntry, t, chain
<1>5. CASE python_version = 311
  BY <1>5 DEF IsEntry
<1>6. CASE python_version = 310
  <2>1. ~Inlines
    BY <1>6 DEF Inlines
  <2>2. Kind(t, i - 1) = "eval"
    BY <1>3, <2>1 DEF Calls, Kind
  <2>3. IsEntry(s, chain, n)
    BY <1>6 DEF IsEntry
  <2> QED BY <2>2, <2>3
<1> QED BY <1>4, <1>5, <1>6, StacksAssumption DEF StacksInv, StacksTypeOK, Version

\* The frames that are read: the Python frames of the thread state, the innermost
\* first, each once, except those with unreadable code.
IsRead(s, unreadable, i) ==
  Kind(TidOf[s], i) = "py" /\ stack[TidOf[s]][i].of = s /\ <<TidOf[s], i>> \notin unreadable

FramesOfState(frames, s, unreadable) ==
  LET d == Len(stack[TidOf[s]])
  IN /\ frames \in PyFrames(1 .. d)
     /\ \A k \in 1 .. Len(frames) :
          /\ IsRead(s, unreadable, frames[k].at)
          /\ frames[k].is_entry <=> Kind(TidOf[s], frames[k].at - 1) = "eval"
     /\ \A j, k \in 1 .. Len(frames) : j < k => frames[k].at < frames[j].at
     /\ \A i \in 1 .. d : IsRead(s, unreadable, i) => \E k \in 1 .. Len(frames) : frames[k].at = i

LEMMA BuiltFramesAre ==
  ASSUME StacksInv, NEW s \in TState, NEW unreadable
  PROVE  FramesOfState(BuildFrameStack(s, unreadable), s, unreadable)
<1> DEFINE t == TidOf[s]
           d == Len(stack[t])
           chain == FrameChain(s)
           F == [at : 1 .. d, is_entry : BOOLEAN]
           all == [n \in 1 .. Len(chain) |-> [at |-> chain[n], is_entry |-> IsEntry(s, chain, n)]]
           P == {n \in DOMAIN all : Kind(t, chain[n]) = "py" /\ <<t, chain[n]>> \notin unreadable}
           r == Selected(all, P)
<1>1. /\ chain \in Seq(1 .. d) /\ Len(chain) \in Nat
      /\ \A k \in 1 .. Len(chain) : chain[k] \in 1 .. d /\ InChain(s, chain[k])
      /\ \A j, k \in 1 .. Len(chain) : j < k => chain[k] < chain[j]
      /\ \A i \in 1 .. d : InChain(s, i) => \E k \in 1 .. Len(chain) : chain[k] = i
  BY ChainIs
<1>2. ASSUME NEW n \in 1 .. Len(chain) PROVE IsEntry(s, chain, n) \in BOOLEAN
  <2> HIDE DEF chain
  <2>1. CASE python_version >= 312
    BY <2>1, Zenon DEF IsEntry
  <2>2. CASE ~(python_version >= 312) /\ python_version >= 311
    BY <2>2 DEF IsEntry
  <2>3. CASE ~(python_version >= 312) /\ ~(python_version >= 311)
    BY <2>3 DEF IsEntry
  <2> QED BY <2>1, <2>2, <2>3
<1>3. /\ all \in Seq(F) /\ Len(all) = Len(chain) /\ DOMAIN all = 1 .. Len(chain)
      /\ \A n \in 1 .. Len(chain) : all[n].at = chain[n] /\ (all[n].is_entry <=> IsEntry(s, chain, n))
  <2>1. \A n \in 1 .. Len(chain) : [at |-> chain[n], is_entry |-> IsEntry(s, chain, n)] \in F
    <3> HIDE DEF chain, d
    <3> QED BY <1>1, <1>2
  <2> HIDE DEF F, chain
  <2>2. \A n \in 1 .. Len(chain) : all[n] = [at |-> chain[n], is_entry |-> IsEntry(s, chain, n)]
    OBVIOUS
  <2>3. all \in Seq(F) /\ Len(all) = Len(chain) /\ DOMAIN all = 1 .. Len(chain)
    BY <1>1, <2>1
  <2> QED BY <2>2, <2>3
<1>4. r = BuildFrameStack(s, unreadable)
  BY DEF BuildFrameStack
<1>5. ASSUME NEW n \in 1 .. Len(chain)
      PROVE  n \in P <=> IsRead(s, unreadable, chain[n])
  BY <1>1, <1>3 DEF IsRead, InChain
<1>6. ASSUME NEW n \in 1 .. Len(chain), n \in P
      PROVE  all[n].is_entry <=> Kind(t, chain[n] - 1) = "eval"
  <2>1. Kind(t, chain[n]) = "py"
    BY <1>6
  <2> QED BY <1>3, <2>1, EntryIs
<1> HIDE DEF all, P, r, chain, F, d, t
<1>7. r \in Seq(F) /\ \E at : TakenFrom(r, all, Len(chain), P, at)
  BY <1>3, SelectedIs DEF r
<1>8. PICK at : TakenFrom(r, all, Len(chain), P, at)
  BY <1>7
<1>9. \A k \in 1 .. Len(r) : at[k] \in P /\ at[k] \in 1 .. Len(chain) /\ r[k] = all[at[k]]
  BY <1>8 DEF TakenFrom
<1>10. \A k \in 1 .. Len(r) : r[k].at = chain[at[k]]
  BY <1>3, <1>9
<1>11. ASSUME NEW k \in 1 .. Len(r)
       PROVE  /\ IsRead(s, unreadable, r[k].at)
              /\ r[k].is_entry <=> Kind(t, r[k].at - 1) = "eval"
  BY <1>3, <1>5, <1>6, <1>9, <1>10
<1>12. ASSUME NEW j \in 1 .. Len(r), NEW k \in 1 .. Len(r), j < k PROVE r[k].at < r[j].at
  <2>1. at[j] < at[k]
    BY <1>8, <1>12 DEF TakenFrom
  <2> QED BY <1>1, <1>9, <1>10, <2>1
<1>13. ASSUME NEW i \in 1 .. d, IsRead(s, unreadable, i) PROVE \E k \in 1 .. Len(r) : r[k].at = i
  <2>1. InChain(s, i)
    BY <1>13 DEF IsRead, InChain
  <2>2. PICK n \in 1 .. Len(chain) : chain[n] = i
    BY <1>1, <2>1
  <2>3. n \in P
    BY <1>5, <1>13, <2>2
  <2>4. PICK k \in 1 .. Len(r) : at[k] = n
    BY <1>8, <2>3 DEF TakenFrom
  <2> QED BY <1>10, <2>2, <2>4
<1>14. r \in PyFrames(1 .. d)
  BY <1>7 DEF PyFrames, F
<1>15. FramesOfState(r, s, unreadable)
  BY <1>11, <1>12, <1>13, <1>14 DEF FramesOfState, d, t
<1> QED BY <1>4, <1>15

\* A thread state with frames has an anchor, and with shims it is that of the innermost.
InnermostEval(s, e) ==
  LET t == TidOf[s]
  IN /\ e \in 1 .. Len(stack[t]) /\ Kind(t, e) = "eval" /\ stack[t][e].of = s
     /\ \A f \in 1 .. Len(stack[t]) : Kind(t, f) = "eval" /\ stack[t][f].of = s => f <= e

LEMMA AnchorIs ==
  ASSUME StacksInv, NEW s \in TState, NEW heap \in Heaps
  PROVE  /\ StackAnchor(s, heap) \in Int
         /\ IF FrameChain(s) = <<>> THEN StackAnchor(s, heap) = 0 ELSE StackAnchor(s, heap) > 0
         /\ FrameChain(s) # <<>> /\ HasShims =>
              \E e : InnermostEval(s, e) /\ StackAnchor(s, heap) = MaxDepth + 1 - e
<1> DEFINE t == TidOf[s]
           d == Len(stack[t])
           chain == FrameChain(s)
           shims == {i \in ToSet(chain) : Kind(t, i) = "eval"}
<1>1. t \in Tid /\ d \in Nat
  BY StackOf DEF Tid
<1>2. /\ chain \in Seq(1 .. d) /\ Len(chain) \in Nat /\ DOMAIN chain = 1 .. Len(chain)
      /\ \A k \in 1 .. Len(chain) : chain[k] \in 1 .. d /\ InChain(s, chain[k])
      /\ \A i \in 1 .. d : InChain(s, i) => \E k \in 1 .. Len(chain) : chain[k] = i
  <2> HIDE DEF chain
  <2>1. /\ chain \in Seq(1 .. d)
        /\ \A k \in 1 .. Len(chain) : chain[k] \in 1 .. d /\ InChain(s, chain[k])
        /\ \A i \in 1 .. d : InChain(s, i) => \E k \in 1 .. Len(chain) : chain[k] = i
    BY ChainIs DEF chain
  <2> QED BY <2>1
<1>3. CASE chain = <<>>
  BY <1>3 DEF StackAnchor
<1>4. CASE chain # <<>> /\ HasShims
  <2>1. shims # {}
    <3> DEFINE calls == {i \in 1 .. d : stack[t][i].of = s}
    <3>1. calls # {}
      <4>1. 1 \in 1 .. Len(chain)
        <5> HIDE DEF chain
        <5> QED BY <1>2, <1>4
      <4>2. chain[1] \in calls
        BY <1>2, <4>1 DEF InChain
      <4> QED BY <4>2
    <3>2. PICK m \in calls : \A n \in calls : m <= n
      <4>1. calls \subseteq Nat
        OBVIOUS
      <4> HIDE DEF calls
      <4> QED BY <3>1, <4>1, LeastOf
    <3>3. m \in 1 .. d /\ stack[t][m].of = s
      OBVIOUS
    <3>4. Kind(t, m) = "eval"
      <4>1. Kind(t, m) # "c"
        <5>1. stack[t][m] \in Frame
          <6>1. stack[t] \in Seq(Frame)
            BY <1>1, StackOf
          <6> QED BY <3>3, <6>1
        <5>2. s # NoState
          BY StacksAssumption
        <5> QED BY <3>3, <5>1, <5>2 DEF Frame, Kind
      <4>2. Kind(t, m) # "py"
        <5> SUFFICES ASSUME Kind(t, m) = "py" PROVE FALSE
          OBVIOUS
        <5>1. m > 1 /\ Calls(stack[t][m - 1], stack[t][m])
          BY <1>1, <3>3, StackOf
        <5>2. m - 1 \in 1 .. d /\ ~(m <= m - 1)
          <6> HIDE DEF d
          <6> QED BY <1>1, <3>3, <5>1
        <5>3. m - 1 \in calls
          BY <3>3, <5>1, <5>2 DEF Calls
        <5> QED BY <3>2, <5>2, <5>3
      <4> QED BY <1>1, <3>3, <4>1, <4>2, StackOf
    <3>5. InChain(s, m)
      BY <1>4, <3>3 DEF InChain
    <3>6. PICK k \in 1 .. Len(chain) : chain[k] = m
      BY <1>2, <3>3, <3>5
    <3>7. m \in ToSet(chain)
      <4> HIDE DEF chain
      <4> QED BY <1>2, <3>6 DEF ToSet
    <3> QED BY <3>4, <3>7
  <2>2. shims \subseteq 1 .. d
    <3> HIDE DEF chain, d
    <3>1. ToSet(chain) \subseteq 1 .. d
      BY <1>2 DEF ToSet
    <3> QED BY <3>1
  <2>3. PICK e \in 1 .. d : e = Max(shims) /\ e \in shims /\ \A f \in shims : f <= e
    <3> HIDE DEF shims, d
    <3> QED BY <1>1, <2>1, <2>2, MaxIs
  <2>4. StackAnchor(s, heap) = MaxDepth + 1 - e
    BY <1>4, <2>3 DEF StackAnchor
  <2>5. \A f \in 1 .. d : Kind(t, f) = "eval" /\ stack[t][f].of = s => f \in shims
    <3> SUFFICES ASSUME NEW f \in 1 .. d, Kind(t, f) = "eval", stack[t][f].of = s
                 PROVE  f \in shims
      OBVIOUS
    <3>1. InChain(s, f)
      BY <1>4 DEF InChain
    <3>2. PICK k \in 1 .. Len(chain) : chain[k] = f
      BY <1>2, <3>1
    <3>3. f \in ToSet(chain)
      <4> HIDE DEF chain
      <4> QED BY <1>2, <3>2 DEF ToSet
    <3> QED BY <3>3
  <2>6. Kind(t, e) = "eval" /\ stack[t][e].of = s
    <3>1. e \in ToSet(chain) /\ Kind(t, e) = "eval"
      BY <2>3
    <3>2. PICK k \in 1 .. Len(chain) : chain[k] = e
      <4> HIDE DEF chain
      <4> QED BY <1>2, <3>1 DEF ToSet
    <3> QED BY <1>2, <3>1, <3>2 DEF InChain
  <2> HIDE DEF shims
  <2>7. InnermostEval(s, e)
    BY <2>3, <2>5, <2>6 DEF InnermostEval
  <2>8. e <= MaxDepth
    <3>1. d <= MaxDepth
      BY <1>1 DEF StacksInv
    <3> HIDE DEF d
    <3> QED BY <1>1, <2>3, <3>1, StacksAssumption
  <2> QED BY <1>4, <2>3, <2>4, <2>7, <2>8, StacksAssumption
<1>5. CASE chain # <<>> /\ ~HasShims
  <2> DEFINE active == IF HasShims THEN {} ELSE {u \in TState : FrameChain(u) # <<>>}
  <2>1. PICK f \in Bijection(active, 1 .. Cardinality(active)) :
          heap = [u \in TState |-> IF u \in active THEN f[u] ELSE 0]
    BY DEF Heaps
  <2>2. f \in [active -> 1 .. Cardinality(active)] /\ s \in active
    BY <1>5 DEF Bijection, Injection
  <2> HIDE DEF active
  <2>3. heap[s] = f[s] /\ f[s] \in Int /\ f[s] > 0
    BY <2>1, <2>2
  <2>4. StackAnchor(s, heap) = heap[s]
    BY <1>5 DEF StackAnchor
  <2> QED BY <1>5, <2>3, <2>4
<1> QED BY <1>3, <1>4, <1>5

\* The native frames, the outermost first, each once; all of them if none is lost.
NativesOf(native, t, lost) ==
  LET d == Len(stack[t])
  IN /\ native \in Seq(1 .. d)
     /\ \A k \in 1 .. Len(native) : Kind(t, native[k]) # "py"
     /\ \A j, k \in 1 .. Len(native) : j < k => native[j] < native[k]
     /\ lost = 0 => \A i \in 1 .. d : Kind(t, i) # "py" => \E k \in 1 .. Len(native) : native[k] = i

LEMMA NativesAre ==
  ASSUME StacksInv, NEW t \in Tid, NEW lost \in Nat
  PROVE  NativesOf(NativeFrames(t, lost), t, lost)
<1> DEFINE d == Len(stack[t])
           P == {i \in DOMAIN stack[t] : Kind(t, i) # "py"}
           r == Selected([i \in 1 .. d |-> i], P)
           q == SubSeq(r, lost + 1, Len(r))
<1>1. d \in Nat /\ DOMAIN stack[t] = 1 .. d
  BY StackOf
<1>2. \A i \in 1 .. d : i \in P <=> Kind(t, i) # "py"
  BY <1>1
<1>3. /\ r \in Seq(1 .. d)
      /\ \A k \in 1 .. Len(r) : r[k] \in P /\ r[k] \in 1 .. d
      /\ \A j, k \in 1 .. Len(r) : j < k => r[j] < r[k]
      /\ \A i \in 1 .. d : i \in P => \E k \in 1 .. Len(r) : r[k] = i
  <2> HIDE DEF d, P
  <2>1. d \in Nat
    BY <1>1
  <2> QED BY ONLY <2>1, PlacesSelected, SMTT(30)
<1>4. NativeFrames(t, lost) = q
  BY DEF NativeFrames, Positions
<1> HIDE DEF P, r, q, d
<1>5. PICK n \in Nat : n = Len(r)
  BY <1>3
<1>6. /\ q \in Seq(1 .. d)
      /\ Len(q) = IF lost + 1 <= n THEN n - (lost + 1) + 1 ELSE 0
      /\ \A i \in 1 .. n - (lost + 1) + 1 : q[i] = r[lost + 1 + i - 1]
  <2>1. \A i \in lost + 1 .. n : i \in 1 .. n
    OBVIOUS
  <2>2. \A i \in lost + 1 .. n : r[i] \in 1 .. d
    BY <1>3, <1>5, <2>1
  <2>3. lost + 1 \in Int /\ n \in Int /\ q = SubSeq(r, lost + 1, n)
    BY <1>5 DEF q
  <2> QED BY <2>2, <2>3, SubSeqProperties
<1>7. \A k \in 1 .. Len(q) : lost + k \in 1 .. Len(r) /\ q[k] = r[lost + k]
  <2> TAKE k \in 1 .. Len(q)
  <2>1. k \in 1 .. n - (lost + 1) + 1 /\ lost + 1 + k - 1 = lost + k /\ lost + k \in 1 .. n
    BY <1>6
  <2> QED BY <1>5, <1>6, <2>1
<1>8. \A k \in 1 .. Len(q) : Kind(t, q[k]) # "py"
  BY <1>2, <1>3, <1>7
<1>9. \A j, k \in 1 .. Len(q) : j < k => q[j] < q[k]
  <2> SUFFICES ASSUME NEW j \in 1 .. Len(q), NEW k \in 1 .. Len(q), j < k PROVE q[j] < q[k]
    OBVIOUS
  <2>1. lost + j < lost + k
    BY <1>6
  <2> QED BY <1>3, <1>7, <2>1
<1>10. ASSUME lost = 0, NEW i \in 1 .. d, Kind(t, i) # "py"
       PROVE  \E k \in 1 .. Len(q) : q[k] = i
  <2>1. PICK k \in 1 .. Len(r) : r[k] = i
    BY <1>2, <1>3, <1>10
  <2>2. k \in 1 .. Len(q) /\ lost + k = k
    BY <1>5, <1>6, <1>10
  <2> QED BY <1>7, <2>1, <2>2
<1>11. NativesOf(q, t, lost)
  BY <1>6, <1>8, <1>9, <1>10 DEF NativesOf, d
<1> QED BY <1>4, <1>11
-----------------------------------------------------------------------------
(* normalizeThreads: what happens to the threads of one group.              *)

Thread ==
  [tid : Tid, state : TState, frames : PyFrames(Line), native_frames : Seq(Line),
   stack_anchor : Int]

\* What normalizeThreads leaves alone.
Same(th, of) == th.tid = of.tid /\ th.state = of.state /\ th.frames = of.frames

\* Sorting gives every thread one place, the higher anchor before the lower one.
SortedFrom(sorted, data, place) ==
  /\ place \in [1 .. Len(data) -> 1 .. Len(data)]
  /\ Len(sorted) = Len(data)
  /\ \A r \in 1 .. Len(data) : sorted[r] = data[place[r]]
  /\ \A q, r \in 1 .. Len(data) : q < r => sorted[q].stack_anchor >= sorted[r].stack_anchor
  /\ \A q, r \in 1 .. Len(data) : place[q] = place[r] => q = r
  /\ \A n \in 1 .. Len(data) : \E r \in 1 .. Len(data) : place[r] = n

LEMMA SortIs ==
  ASSUME NEW data \in Seq(Thread)
  PROVE  /\ SortThreadsByStackAnchor(data) \in Seq(Thread)
         /\ \E place : SortedFrom(SortThreadsByStackAnchor(data), data, place)
<1> DEFINE N == Len(data)
           R == {p \in (1 .. N) \X (1 .. N) : ComesBefore(data, p[1], p[2])}
           rank == [n \in 1 .. N |-> Rank(data, n)]
           place == [r \in 1 .. N |-> CHOOSE n \in 1 .. N : rank[n] = r]
           sorted == SortThreadsByStackAnchor(data)
<1>1. N \in Nat /\ DOMAIN data = 1 .. N /\ \A n \in 1 .. N : data[n] \in Thread
  OBVIOUS
<1>2. \A n \in 1 .. N : data[n].stack_anchor \in Int
  BY <1>1 DEF Thread
<1>3. \A i, j \in 1 .. N : <<i, j>> \in R <=> ComesBefore(data, i, j)
  OBVIOUS
<1> HIDE DEF R
<1>4. \A i \in 1 .. N : <<i, i>> \notin R
  BY <1>2, <1>3 DEF ComesBefore
<1>5. \A i, j \in 1 .. N : i # j => <<i, j>> \in R \/ <<j, i>> \in R
  <2> SUFFICES ASSUME NEW i \in 1 .. N, NEW j \in 1 .. N, i # j
               PROVE  ComesBefore(data, i, j) \/ ComesBefore(data, j, i)
    BY <1>3
  <2>1. data[i].stack_anchor \in Int /\ data[j].stack_anchor \in Int
    BY <1>2
  <2> QED BY <2>1 DEF ComesBefore
<1>6. \A i, j, k \in 1 .. N : <<i, j>> \in R /\ <<j, k>> \in R => <<i, k>> \in R
  <2> SUFFICES ASSUME NEW i \in 1 .. N, NEW j \in 1 .. N, NEW k \in 1 .. N,
                      ComesBefore(data, i, j), ComesBefore(data, j, k)
               PROVE  ComesBefore(data, i, k)
    BY <1>3
  <2>1. /\ data[i].stack_anchor \in Int /\ data[j].stack_anchor \in Int
        /\ data[k].stack_anchor \in Int
    BY <1>2
  <2> QED BY <2>1 DEF ComesBefore
<1>7. \A i \in 1 .. N : rank[i] = 1 + Cardinality({m \in 1 .. N : <<m, i>> \in R})
  <2> TAKE i \in 1 .. N
  <2>1. {m \in 1 .. N : <<m, i>> \in R} = {m \in DOMAIN data : ComesBefore(data, m, i)}
    BY <1>1, <1>3
  <2> QED BY <2>1 DEF Rank
<1> HIDE DEF rank, N
<1>8. /\ \A i \in 1 .. N : rank[i] \in 1 .. N
      /\ \A i, j \in 1 .. N : <<i, j>> \in R => rank[i] < rank[j]
      /\ \A i, j \in 1 .. N : rank[i] = rank[j] => i = j
      /\ \A r \in 1 .. N : \E i \in 1 .. N : rank[i] = r
  <2>1. RankedBy(N, R, rank) /\ N \in Nat
    BY <1>1, <1>4, <1>5, <1>6, <1>7 DEF RankedBy
  <2> HIDE DEF R
  <2>2. InOrder(N, R, rank)
    BY <2>1, RanksAreAnOrder
  <2> QED BY <2>2 DEF InOrder
<1>9. \A r \in 1 .. N : place[r] \in 1 .. N /\ rank[place[r]] = r
  BY <1>8
<1>10. /\ sorted = [r \in 1 .. N |-> data[place[r]]]
  <2>1. \A n \in 1 .. N : rank[n] = Rank(data, n)
    BY DEF rank
  <2> DEFINE At(r) == CHOOSE n \in DOMAIN data : Rank(data, n) = r
  <2>2. sorted = [r \in DOMAIN data |-> data[At(r)]]
    BY DEF SortThreadsByStackAnchor
  <2>3. \A r \in 1 .. N : At(r) = place[r]
    BY <1>1, <2>1
  <2> HIDE DEF At, place, sorted
  <2> QED BY <1>1, <2>2, <2>3
<1> HIDE DEF place, sorted
<1>11. sorted \in Seq(Thread) /\ Len(sorted) = N
  <2>1. \A r \in 1 .. N : data[place[r]] \in Thread
    BY <1>1, <1>9
  <2>2. sorted = [r \in 1 .. N |-> data[place[r]]] /\ N \in Nat
    BY <1>1, <1>10
  <2> DEFINE T == Thread
  <2> HIDE DEF T
  <2>3. sorted \in [1 .. N -> T]
    BY ONLY <2>1, <2>2 DEF T
  <2>4. sorted \in Seq(T) /\ Len(sorted) = N
    BY ONLY <2>2, <2>3
  <2> QED BY <2>4 DEF T
<1>12. place \in [1 .. N -> 1 .. N]
  <2>1. DOMAIN place = 1 .. N /\ place = [r \in 1 .. N |-> place[r]]
    BY DEF place
  <2> QED BY <1>9, <2>1
<1>13. \A q, r \in 1 .. N : place[q] = place[r] => q = r
  BY <1>9
<1>14. \A n \in 1 .. N : \E r \in 1 .. N : place[r] = n
  <2> TAKE n \in 1 .. N
  <2>1. rank[n] \in 1 .. N
    BY <1>8
  <2>2. place[rank[n]] \in 1 .. N /\ rank[place[rank[n]]] = rank[n]
    BY <1>9, <2>1
  <2>3. place[rank[n]] = n
    BY <1>8, <2>2
  <2> QED BY <2>1, <2>3
<1>15. ASSUME NEW q \in 1 .. N, NEW r \in 1 .. N, q < r
       PROVE  sorted[q].stack_anchor >= sorted[r].stack_anchor
  <2>1. PICK i \in 1 .. N, j \in 1 .. N :
          /\ i = place[q] /\ j = place[r] /\ rank[i] = q /\ rank[j] = r
          /\ sorted[q] = data[i] /\ sorted[r] = data[j]
    BY <1>9, <1>10
  <2>2. ~(rank[j] < rank[i]) /\ i # j
    BY <1>1, <1>15, <2>1
  <2>3. ComesBefore(data, i, j)
    BY <1>3, <1>5, <1>8, <2>2
  <2>4. data[i].stack_anchor \in Int /\ data[j].stack_anchor \in Int
    BY <1>2 DEF N
  <2> QED BY <2>1, <2>3, <2>4 DEF ComesBefore
<1>16. SortedFrom(sorted, data, place)
  BY <1>10, <1>11, <1>12, <1>13, <1>14, <1>15 DEF SortedFrom, N
<1> QED BY <1>11, <1>16 DEF sorted

\* The cursor never goes back.
LEMMA CursorIs ==
  ASSUME NEW data \in Seq(Thread)
  PROVE  /\ \A n \in 0 .. Len(data) : EntriesUpTo(data, n) \in Nat
         /\ EntriesUpTo(data, 0) = 0
         /\ \A n \in 1 .. Len(data) : /\ NumEntryFrames(data[n]) \in Nat
                                      /\ EntriesUpTo(data, n)
                                           = EntriesUpTo(data, n - 1) + NumEntryFrames(data[n])
         /\ \A m, n \in 0 .. Len(data) : m <= n => EntriesUpTo(data, m) <= EntriesUpTo(data, n)
<1> DEFINE N == Len(data)
           A == Nat
           step == [n \in 1 .. N |-> [c \in A |-> c + NumEntryFrames(data[n])]]
           Counts(h) == h = [m \in 0 .. N |-> IF m = 0 THEN 0 ELSE h[m - 1] + NumEntryFrames(data[m])]
           cursor == CHOOSE h : Counts(h)
<1>1. N \in Nat /\ \A n \in 1 .. N : data[n] \in Thread
  OBVIOUS
<1>2. ASSUME NEW n \in 1 .. N PROVE NumEntryFrames(data[n]) \in Nat
  <2>1. data[n].frames \in PyFrames(Line)
    BY <1>1 DEF Thread
  <2>2. /\ Cardinality(Entries(data[n].frames)) \in Nat
        /\ DOMAIN data[n].frames = 1 .. Len(data[n].frames)
    BY <2>1, EntriesAreFinite, FramesAre
  <2> QED BY <2>2 DEF NumEntryFrames, Entries
<1>3. PICK f \in [0 .. N -> A] : Follows(f, N, 0, step)
  <2>1. step \in [1 .. N -> [A -> A]]
    BY <1>2
  <2>2. 0 \in A /\ N \in Nat
    BY <1>1
  <2> HIDE DEF A, N, step
  <2> QED BY <2>1, <2>2, RecursionExists
<1>4. \A n \in 1 .. N : n - 1 \in 0 .. N /\ n \in 0 .. N /\ n # 0
  <2> HIDE DEF N
  <2> QED BY <1>1
<1>5. \E h : Counts(h)
  <2>1. \A n \in 1 .. N : f[n] = f[n - 1] + NumEntryFrames(data[n])
    BY <1>3, <1>4 DEF Follows
  <2>2. \A m \in 0 .. N : f[m] = IF m = 0 THEN 0 ELSE f[m - 1] + NumEntryFrames(data[m])
    <3>1. \A m \in 0 .. N : m = 0 \/ m \in 1 .. N
      BY <1>1
    <3> QED BY <1>3, <2>1, <3>1 DEF Follows
  <2>3. Counts(f)
    BY <2>2
  <2> QED BY <2>3
<1>6. Counts(cursor)
  BY <1>5
<1>7. \A n : EntriesUpTo(data, n) = cursor[n]
  BY DEF EntriesUpTo
<1> HIDE DEF cursor
<1>8. cursor[0] = 0 /\ \A n \in 1 .. N : cursor[n] = cursor[n - 1] + NumEntryFrames(data[n])
  <2>1. \A m \in 0 .. N : cursor[m] = IF m = 0 THEN 0 ELSE cursor[m - 1] + NumEntryFrames(data[m])
    BY <1>6
  <2>2. 0 \in 0 .. N
    BY <1>1
  <2> QED BY <1>4, <2>1, <2>2
<1>9. \A n \in 0 .. N : cursor[n] \in Nat
  <2> DEFINE Good == {n \in 0 .. N : cursor[n] \in Nat}
  <2>1. 0 \in Good
    BY <1>1, <1>8
  <2>2. \A n \in 1 .. N : n - 1 \in Good => n \in Good
    BY <1>2, <1>4, <1>8
  <2> HIDE DEF Good, N
  <2>3. 0 .. N \subseteq Good
    BY <1>1, <2>1, <2>2, StepByStep
  <2> QED BY <2>3 DEF Good
<1>10. ASSUME NEW m \in 0 .. N, NEW n \in 0 .. N, m <= n PROVE cursor[m] <= cursor[n]
  <2> DEFINE Good == {k \in 0 .. N : m <= k => cursor[m] <= cursor[k]}
  <2>1. 0 \in Good
    BY <1>1, <1>9
  <2>2. ASSUME NEW k \in 1 .. N, k - 1 \in Good PROVE k \in Good
    <3>1. cursor[k - 1] <= cursor[k] /\ cursor[k - 1] \in Nat /\ cursor[k] \in Nat /\ cursor[m] \in Nat
      BY <1>2, <1>4, <1>8, <1>9
    <3>2. m <= k => m = k \/ m <= k - 1
      BY <1>1
    <3>3. m <= k - 1 => cursor[m] <= cursor[k - 1]
      BY <2>2
    <3>4. m <= k => cursor[m] <= cursor[k]
      BY <3>1, <3>2, <3>3
    <3> QED BY <1>4, <3>4
  <2> HIDE DEF Good, N
  <2>3. 0 .. N \subseteq Good
    BY <1>1, <2>1, <2>2, StepByStep
  <2> QED BY <1>10, <2>3 DEF Good
<1> QED BY <1>2, <1>7, <1>8, <1>9, <1>10
\* The native frames that a thread state gets, and those of all thread states.
Increasing(s) == \A j, k \in 1 .. Len(s) : j < k => s[j] < s[k]
Within(part, s) == \A k \in 1 .. Len(part) : \E j \in 1 .. Len(s) : part[k] = s[j]
Apart(p, q) == \A j \in 1 .. Len(p), k \in 1 .. Len(q) : p[j] # q[k]

LEMMA SliceIs ==
  ASSUME NEW native \in Seq(Line), NEW a \in Nat, NEW b \in 0 .. Len(native)
  PROVE  LET q == SubSeq(native, a + 1, b)
         IN /\ q \in Seq(Line)
            /\ \A k \in 1 .. Len(q) : a + k \in 1 .. b /\ a + k \in 1 .. Len(native)
                                      /\ q[k] = native[a + k]
            /\ \A i \in a + 1 .. b : \E k \in 1 .. Len(q) : i = a + k
<1> DEFINE q == SubSeq(native, a + 1, b)
<1>1. Len(native) \in Nat /\ a + 1 \in Int /\ b \in Int
  OBVIOUS
<1>2. \A i \in a + 1 .. b : native[i] \in Line
  <2>1. \A i \in a + 1 .. b : i \in 1 .. Len(native)
    BY <1>1
  <2> QED BY <2>1
<1>3. /\ q \in Seq(Line)
      /\ Len(q) = IF a + 1 <= b THEN b - (a + 1) + 1 ELSE 0
      /\ \A i \in 1 .. b - (a + 1) + 1 : q[i] = native[a + 1 + i - 1]
  BY <1>1, <1>2, SubSeqProperties
<1> HIDE DEF q
<1>4. ASSUME NEW k \in 1 .. Len(q)
      PROVE  a + k \in 1 .. b /\ a + k \in 1 .. Len(native) /\ q[k] = native[a + k]
  <2>1. k \in 1 .. b - (a + 1) + 1 /\ a + 1 + k - 1 = a + k
    BY <1>1, <1>3
  <2>2. a + k \in 1 .. b /\ a + k \in 1 .. Len(native)
    BY <1>1, <2>1
  <2> QED BY <1>3, <2>1, <2>2
<1>5. ASSUME NEW i \in a + 1 .. b PROVE \E k \in 1 .. Len(q) : i = a + k
  <2>1. i - a \in 1 .. Len(q) /\ i = a + (i - a)
    BY <1>1, <1>3
  <2> QED BY <2>1
<1> QED BY <1>3, <1>4, <1>5 DEF q

\* The eval frames among the native ones, counted.
LEMMA EvalIndexIs ==
  ASSUME NEW tid, NEW native \in Seq(Line)
  PROVE  LET r == EvalIndex(tid, native)
         IN /\ r \in Seq(1 .. Len(native)) /\ Increasing(r)
            /\ Len(r) = Cardinality({n \in DOMAIN native : IsEvalFrame(tid, native[n])})
            /\ \A k \in 1 .. Len(r) : /\ r[k] \in 1 .. Len(native)
                                       /\ IsEvalFrame(tid, native[r[k]])
            /\ \A i \in 1 .. Len(native) : IsEvalFrame(tid, native[i]) =>
                 \E k \in 1 .. Len(r) : r[k] = i
<1> DEFINE P == {n \in DOMAIN native : IsEvalFrame(tid, native[n])}
           d == Len(native)
           r == Selected([i \in 1 .. d |-> i], P)
<1>1. d \in Nat /\ DOMAIN native = 1 .. d
  OBVIOUS
<1>2. EvalIndex(tid, native) = r
  BY <1>1 DEF EvalIndex
<1>3. /\ r \in Seq(1 .. d)
      /\ \A k \in 1 .. Len(r) : r[k] \in P /\ r[k] \in 1 .. d
      /\ \A j, k \in 1 .. Len(r) : j < k => r[j] < r[k]
      /\ \A i \in 1 .. d : i \in P => \E k \in 1 .. Len(r) : r[k] = i
  <2> HIDE DEF d, P
  <2> QED BY <1>1, PlacesSelected
<1>4. P \subseteq 1 .. d /\ \A i \in 1 .. d : i \in P <=> IsEvalFrame(tid, native[i])
  BY <1>1
<1> HIDE DEF r, P, d
<1>5. Cardinality(P) = Len(r)
  <2> DEFINE n == Len(r)
             f == [k \in 1 .. n |-> r[k]]
  <2>1. n \in Nat
    BY <1>3
  <2>2. f \in [1 .. n -> P]
    BY <1>3
  <2>3. \A a, b \in 1 .. n : f[a] = f[b] => a = b
    <3> SUFFICES ASSUME NEW a \in 1 .. n, NEW b \in 1 .. n, a # b PROVE r[a] # r[b]
      OBVIOUS
    <3>1. r[a] < r[b] \/ r[b] < r[a]
      BY <1>3, <2>1
    <3> QED BY <1>3, <3>1
  <2>4. \A i \in P : \E k \in 1 .. n : f[k] = i
    BY <1>3, <1>4
  <2> HIDE DEF f, n
  <2>5. f \in Bijection(1 .. n, P)
    BY <2>2, <2>3, <2>4 DEF Bijection, Injection, Surjection, IsInjective
  <2>6. ExistsBijection(1 .. n, P)
    BY <2>5 DEF ExistsBijection
  <2> QED BY <2>1, <2>6, FS_CountingElements DEF n
<1> QED BY <1>2, <1>3, <1>4, <1>5 DEF Increasing, P, d

\* All threads of a group have the native frames of their OS thread.
Group(data) ==
  /\ data \in Seq(Thread) /\ Len(data) > 0
  /\ \A n \in 1 .. Len(data) :
       data[n].tid = data[1].tid /\ data[n].native_frames = data[1].native_frames
  /\ Increasing(data[1].native_frames)

\* Either every thread keeps all of the native frames, or no two share one.
Split(data, result) ==
  LET native == data[1].native_frames
      N == Len(data)
  IN /\ result \in Seq(Thread) /\ Len(result) = N
     /\ \A n \in 1 .. N : /\ Same(result[n], data[n])
                          /\ Increasing(result[n].native_frames)
                          /\ Within(result[n].native_frames, native)
     /\ \/ /\ \A n \in 1 .. N : result[n].native_frames = native
           /\ native = <<>> \/ NumEvalFrames(data[1]) # EntriesUpTo(data, N)
        \/ /\ NumEvalFrames(data[1]) = EntriesUpTo(data, N)
           /\ \A m, n \in 1 .. N :
                m # n => Apart(result[m].native_frames, result[n].native_frames)

LEMMA SliceNativeStackIs ==
  ASSUME NEW data, Group(data)
  PROVE  Split(data, SliceNativeStack(data))
<1> DEFINE native == data[1].native_frames
           tid == data[1].tid
           N == Len(data)
           eval_index == EvalIndex(tid, native)
           cursor == [n \in 0 .. N |-> EntriesUpTo(data, n)]
           End(n) == IF EntriesUpTo(data, n) = 0 THEN 0
                     ELSE SliceEnd(native, eval_index, EntriesUpTo(data, n))
           Sliced(n) == IF NumEntryFrames(data[n]) = 0 THEN <<>>
                        ELSE SubSeq(native, End(n - 1) + 1, End(n))
           result == [n \in DOMAIN data |-> [data[n] EXCEPT !.native_frames = Sliced(n)]]
<1>1. /\ data \in Seq(Thread) /\ N \in Nat \ {0} /\ DOMAIN data = 1 .. N
      /\ \A n \in 1 .. N : data[n] \in Thread /\ data[n].native_frames = native
  BY DEF Group
<1>2. native \in Seq(Line) /\ Len(native) \in Nat
  <2>1. 1 \in 1 .. N
    BY <1>1
  <2>2. native \in Seq(Line)
    BY <1>1, <2>1 DEF Thread
  <2> QED BY <2>2
<1>3. /\ eval_index \in Seq(1 .. Len(native)) /\ Increasing(eval_index)
      /\ Len(eval_index) \in Nat /\ Len(eval_index) = NumEvalFrames(data[1])
  <2>1. eval_index \in Seq(1 .. Len(native)) /\ Increasing(eval_index)
        /\ Len(eval_index) = Cardinality({n \in DOMAIN native : IsEvalFrame(tid, native[n])})
    BY <1>2, EvalIndexIs
  <2> HIDE DEF eval_index
  <2>2. Len(eval_index) \in Nat
    BY <2>1
  <2> QED BY <2>1, <2>2 DEF NumEvalFrames
<1>4. /\ \A n \in 0 .. N : EntriesUpTo(data, n) \in Nat
      /\ EntriesUpTo(data, 0) = 0
      /\ \A m, n \in 0 .. N : m <= n => EntriesUpTo(data, m) <= EntriesUpTo(data, n)
  BY <1>1, CursorIs
<1>5. CASE native = <<>> \/ Len(eval_index) # EntriesUpTo(data, N)
  <2>1. SliceNativeStack(data) = data
    BY <1>5 DEF SliceNativeStack
  <2>2. Within(native, native)
    BY DEF Within
  <2>3. \A n \in 1 .. N : data[n].native_frames = native /\ Same(data[n], data[n])
    BY <1>1 DEF Same
  <2>4. Increasing(native)
    BY DEF Group
  <2>5. native = <<>> \/ NumEvalFrames(data[1]) # EntriesUpTo(data, N)
    BY <1>3, <1>5
  <2>6. Split(data, data)
    BY <1>1, <2>2, <2>3, <2>4, <2>5 DEF Split
  <2> QED BY <2>1, <2>6
<1>6. CASE ~(native = <<>> \/ Len(eval_index) # EntriesUpTo(data, N))
  <2>1. SliceNativeStack(data) = result
    BY <1>6 DEF SliceNativeStack
  <2> HIDE DEF eval_index
  <2>2. \A c \in Nat : c < Len(eval_index) => /\ c + 1 \in 1 .. Len(eval_index)
                                              /\ eval_index[c + 1] \in 1 .. Len(native)
    <3>1. \A c \in Nat : c < Len(eval_index) => c + 1 \in 1 .. Len(eval_index)
      BY <1>3
    <3> QED BY <1>3, <3>1
  <2>3. \A n \in 0 .. N : End(n) \in 0 .. Len(native)
    <3> SUFFICES ASSUME NEW n \in 0 .. N, NEW c \in Nat, c = EntriesUpTo(data, n)
                 PROVE  (IF c = 0 THEN 0 ELSE SliceEnd(native, eval_index, c)) \in 0 .. Len(native)
      BY <1>4
    <3> QED BY <1>2, <2>2 DEF SliceEnd
  <2>4. \A m, n \in 0 .. N : m <= n => End(m) <= End(n)
    <3> SUFFICES ASSUME NEW m \in 0 .. N, NEW n \in 0 .. N, m <= n,
                        NEW c \in Nat, c = EntriesUpTo(data, m),
                        NEW e \in Nat, e = EntriesUpTo(data, n)
                 PROVE  (IF c = 0 THEN 0 ELSE SliceEnd(native, eval_index, c))
                          <= (IF e = 0 THEN 0 ELSE SliceEnd(native, eval_index, e))
      BY <1>4
    <3>1. c <= e
      BY <1>4
    <3>2. CASE c = 0
      BY <1>2, <2>2, <3>2 DEF SliceEnd
    <3>3. CASE c = e
      BY <1>2, <2>2, <3>3 DEF SliceEnd
    <3>4. CASE c # 0 /\ c < e
      <4>1. CASE e < Len(eval_index)
        <5>1. c < Len(eval_index) /\ c + 1 < e + 1
          BY <1>3, <3>4, <4>1
        <5>2. eval_index[c + 1] < eval_index[e + 1]
          BY <2>2, <4>1, <5>1, <1>3 DEF Increasing
        <5> QED BY <2>2, <3>4, <4>1, <5>1, <5>2 DEF SliceEnd
      <4>2. CASE ~(e < Len(eval_index))
        BY <1>2, <2>2, <3>4, <4>2 DEF SliceEnd
      <4> QED BY <4>1, <4>2
    <3> QED BY <3>1, <3>2, <3>3, <3>4
  <2> HIDE DEF End, native
  <2>5. \A n \in 1 .. N : n \in 0 .. N /\ n - 1 \in 0 .. N
    <3> HIDE DEF N
    <3> QED BY <1>1
  <2>6. ASSUME NEW n \in 1 .. N
        PROVE  /\ Sliced(n) \in Seq(Line)
               /\ \A k \in 1 .. Len(Sliced(n)) :
                    /\ End(n - 1) + k \in 1 .. End(n) /\ End(n - 1) + k \in 1 .. Len(native)
                    /\ Sliced(n)[k] = native[End(n - 1) + k]
    <3>1. End(n - 1) \in 0 .. Len(native) /\ End(n) \in 0 .. Len(native) /\ End(n - 1) \in Nat
      BY <2>3, <2>5
    <3>2. CASE NumEntryFrames(data[n]) = 0
      <4>1. Sliced(n) = <<>>
        BY <3>2
      <4> HIDE DEF Sliced
      <4> QED BY <4>1
    <3>3. CASE NumEntryFrames(data[n]) # 0
      <4>1. Sliced(n) = SubSeq(native, End(n - 1) + 1, End(n))
        BY <3>3
      <4> DEFINE a == End(n - 1)
                 b == End(n)
                 part == Sliced(n)
      <4>2. native \in Seq(Line) /\ a \in Nat /\ b \in 0 .. Len(native)
        BY <1>2, <3>1
      <4>3. part = SubSeq(native, a + 1, b)
        BY <4>1
      <4> HIDE DEF a, b, part, native
      <4>4. /\ part \in Seq(Line)
            /\ \A k \in 1 .. Len(part) : /\ a + k \in 1 .. b /\ a + k \in 1 .. Len(native)
                                         /\ part[k] = native[a + k]
        BY ONLY <4>2, <4>3, SliceIs
      <4> QED BY <4>4 DEF a, b, part
    <3> QED BY <3>2, <3>3
  <2> HIDE DEF Sliced
  <2>7. ASSUME NEW n \in 1 .. N
        PROVE  /\ result[n] \in Thread /\ Same(result[n], data[n])
               /\ result[n].native_frames = Sliced(n)
    <3>1. result[n] = [data[n] EXCEPT !.native_frames = Sliced(n)]
      BY <1>1
    <3>2. data[n] \in Thread /\ Sliced(n) \in Seq(Line)
      BY <1>1, <2>6
    <3> HIDE DEF result
    <3> QED BY <3>1, <3>2 DEF Thread, Same
  <2>8. result \in Seq(Thread) /\ Len(result) = N
    <3>1. result = [n \in 1 .. N |-> result[n]]
      BY <1>1
    <3> HIDE DEF result, N
    <3> QED BY <1>1, <2>7, <3>1
  <2>9. ASSUME NEW n \in 1 .. N
        PROVE  Increasing(Sliced(n)) /\ Within(Sliced(n), native)
    <3>1. \A j, k \in 1 .. Len(Sliced(n)) : j < k => Sliced(n)[j] < Sliced(n)[k]
      <4> SUFFICES ASSUME NEW j \in 1 .. Len(Sliced(n)), NEW k \in 1 .. Len(Sliced(n)), j < k
                   PROVE  Sliced(n)[j] < Sliced(n)[k]
        OBVIOUS
      <4>1. End(n - 1) + j < End(n - 1) + k
        <5>1. End(n - 1) \in Nat
          BY <2>3, <2>5
        <5> QED BY <5>1
      <4>2. native[End(n - 1) + j] < native[End(n - 1) + k]
        BY <2>6, <4>1 DEF Group, Increasing, native
      <4> QED BY <2>6, <4>2
    <3>2. \A k \in 1 .. Len(Sliced(n)) : \E j \in 1 .. Len(native) : Sliced(n)[k] = native[j]
      BY <2>6
    <3> QED BY <3>1, <3>2 DEF Increasing, Within
  <2>10. ASSUME NEW m \in 1 .. N, NEW n \in 1 .. N, m < n,
                NEW j \in 1 .. Len(Sliced(m)), NEW k \in 1 .. Len(Sliced(n))
         PROVE  Sliced(m)[j] # Sliced(n)[k]
    <3>1. End(m) <= End(n - 1) /\ End(m) \in Nat /\ End(n - 1) \in Nat
      <4>1. m <= n - 1
        BY <1>1, <2>10
      <4> QED BY <2>3, <2>4, <2>5, <4>1
    <3>2. End(m - 1) + j \in 1 .. End(m) /\ End(m - 1) + j \in 1 .. Len(native)
          /\ End(n - 1) + k \in 1 .. Len(native)
      BY <2>6
    <3>3. End(m - 1) + j < End(n - 1) + k
      BY <3>1, <3>2
    <3>4. native[End(m - 1) + j] < native[End(n - 1) + k]
      BY <3>2, <3>3 DEF Group, Increasing, native
    <3>5. native[End(m - 1) + j] \in Line
      BY <1>2, <3>2
    <3>6. native[End(m - 1) + j] # native[End(n - 1) + k]
      BY <3>4, <3>5 DEF Line
    <3> QED BY <2>6, <3>6
  <2>11. \A m, n \in 1 .. N : m # n => Apart(Sliced(m), Sliced(n))
    <3> SUFFICES ASSUME NEW m \in 1 .. N, NEW n \in 1 .. N, m # n PROVE Apart(Sliced(m), Sliced(n))
      OBVIOUS
    <3>1. m < n \/ n < m
      BY <1>1
    <3> QED BY <2>10, <3>1 DEF Apart
  <2>12. NumEvalFrames(data[1]) = EntriesUpTo(data, N)
    BY <1>3, <1>6
  <2> HIDE DEF result
  <2>13. Split(data, result)
    BY <2>7, <2>8, <2>9, <2>11, <2>12 DEF Split, native
  <2> QED BY <2>1, <2>13
<1> QED BY <1>5, <1>6
\* The places on the stack of the entry frames of a thread, and of all threads of t.
EntriesAt(th) == {th.frames[k].at : k \in Entries(th.frames)}
EntryPlaces(data, t) == UNION {EntriesAt(data[n]) : n \in {m \in 1 .. Len(data) : data[m].tid = t}}

\* The threads as they were read, with the native frames of their OS threads.
ReadThreads(data, unreadable, natives) ==
  /\ data \in Seq(Thread)
  /\ \A n \in 1 .. Len(data) :
       /\ data[n].tid = TidOf[data[n].state]
       /\ FramesOfState(data[n].frames, data[n].state, unreadable)
       /\ data[n].native_frames = natives[data[n].tid]
       /\ Increasing(data[n].native_frames)
  /\ \A m, n \in 1 .. Len(data) : data[m].state = data[n].state => m = n

LEMMA EntriesAtIs ==
  ASSUME NEW th \in Thread, NEW unreadable, FramesOfState(th.frames, th.state, unreadable)
  PROVE  /\ IsFiniteSet(EntriesAt(th)) /\ Cardinality(EntriesAt(th)) = NumEntryFrames(th)
         /\ NumEntryFrames(th) \in Nat
         /\ \A i \in EntriesAt(th) : /\ i \in 1 .. Len(stack[TidOf[th.state]])
                                     /\ IsRead(th.state, unreadable, i)
                                     /\ Kind(TidOf[th.state], i - 1) = "eval"
<1> DEFINE d == Len(stack[TidOf[th.state]])
           E == Entries(th.frames)
           A == EntriesAt(th)
           f == [k \in E |-> th.frames[k].at]
<1>1. th.frames \in PyFrames(1 .. d)
  BY DEF FramesOfState
<1>2. /\ Len(th.frames) \in Nat /\ DOMAIN th.frames = 1 .. Len(th.frames)
      /\ \A k \in 1 .. Len(th.frames) : th.frames[k].at \in 1 .. d
  <2> HIDE DEF d
  <2> QED BY <1>1, FramesAre
<1>3. IsFiniteSet(E) /\ Cardinality(E) \in Nat /\ Cardinality(E) = NumEntryFrames(th)
  <2> HIDE DEF d
  <2>1. E = {n \in DOMAIN th.frames : th.frames[n].is_entry}
    BY <1>2 DEF Entries
  <2> QED BY <1>1, <2>1, EntriesAreFinite DEF NumEntryFrames
<1>4. E \subseteq 1 .. Len(th.frames)
  BY DEF Entries
<1>5. \A a, b \in E : f[a] = f[b] => a = b
  <2> SUFFICES ASSUME NEW a \in E, NEW b \in E, a # b PROVE th.frames[a].at # th.frames[b].at
    OBVIOUS
  <2> HIDE DEF d, E
  <2>1. a \in 1 .. Len(th.frames) /\ b \in 1 .. Len(th.frames) /\ (a < b \/ b < a)
    BY <1>2, <1>4
  <2>2. th.frames[a].at \in 1 .. d /\ th.frames[b].at \in 1 .. d
    BY <1>2, <2>1
  <2>3. th.frames[a].at < th.frames[b].at \/ th.frames[b].at < th.frames[a].at
    BY <2>1 DEF FramesOfState
  <2> QED BY <2>2, <2>3
<1>6. A = {th.frames[k].at : k \in E}
  BY DEF EntriesAt
<1> HIDE DEF E, A
<1>7. f \in [E -> A] /\ \A a \in A : \E k \in E : f[k] = a
  BY <1>6
<1>8. f \in Bijection(E, A)
  <2> HIDE DEF f
  <2> QED BY <1>5, <1>7 DEF Bijection, Injection, Surjection, IsInjective
<1>9. IsFiniteSet(A) /\ Cardinality(A) = Cardinality(E)
  <2> HIDE DEF f
  <2>1. ExistsBijection(E, A)
    BY <1>8 DEF ExistsBijection
  <2> QED BY <1>3, <2>1, FS_Bijection
<1>10. ASSUME NEW i \in A
       PROVE  /\ i \in 1 .. d /\ IsRead(th.state, unreadable, i)
              /\ Kind(TidOf[th.state], i - 1) = "eval"
  <2>1. PICK k \in E : i = th.frames[k].at
    BY <1>6
  <2>2. k \in 1 .. Len(th.frames) /\ th.frames[k].is_entry
    BY DEF Entries, E
  <2> HIDE DEF d
  <2>3. /\ IsRead(th.state, unreadable, th.frames[k].at)
        /\ Kind(TidOf[th.state], th.frames[k].at - 1) = "eval"
    BY <2>2 DEF FramesOfState
  <2> QED BY <1>2, <2>1, <2>2, <2>3
<1> QED BY <1>3, <1>9, <1>10 DEF A

\* The cursor counts the entry frames of the whole OS thread.
LEMMA EntriesAreCounted ==
  ASSUME NEW data, NEW unreadable, NEW natives, ReadThreads(data, unreadable, natives),
         NEW t, \A n \in 1 .. Len(data) : data[n].tid = t
  PROVE  /\ IsFiniteSet(EntryPlaces(data, t))
         /\ Cardinality(EntryPlaces(data, t)) = EntriesUpTo(data, Len(data))
         /\ \A n \in 0 .. Len(data) :
              LET places == UNION {EntriesAt(data[m]) : m \in 1 .. n}
              IN IsFiniteSet(places) /\ Cardinality(places) = EntriesUpTo(data, n)
<1> DEFINE N == Len(data)
           P(n) == UNION {EntriesAt(data[m]) : m \in 1 .. n}
           Good == {n \in 0 .. N : IsFiniteSet(P(n)) /\ Cardinality(P(n)) = EntriesUpTo(data, n)}
<1>1. data \in Seq(Thread) /\ N \in Nat /\ \A n \in 1 .. N : data[n] \in Thread
  BY DEF ReadThreads
<1>2. \A n \in 1 .. N :
        /\ IsFiniteSet(EntriesAt(data[n])) /\ Cardinality(EntriesAt(data[n])) = NumEntryFrames(data[n])
        /\ NumEntryFrames(data[n]) \in Nat
        /\ \A i \in EntriesAt(data[n]) : stack[t][i].of = data[n].state
  <2> TAKE n \in 1 .. N
  <2>1. data[n] \in Thread /\ FramesOfState(data[n].frames, data[n].state, unreadable)
        /\ TidOf[data[n].state] = t
    BY <1>1 DEF ReadThreads
  <2> QED BY <2>1, EntriesAtIs DEF IsRead
<1>3. /\ \A n \in 0 .. N : EntriesUpTo(data, n) \in Nat
      /\ EntriesUpTo(data, 0) = 0
      /\ \A n \in 1 .. N : EntriesUpTo(data, n) = EntriesUpTo(data, n - 1) + NumEntryFrames(data[n])
  BY <1>1, CursorIs
<1>4. 0 \in Good
  <2>1. P(0) = {} /\ 0 \in 0 .. N
    BY <1>1
  <2> QED BY <1>3, <2>1, FS_EmptySet
<1>5. ASSUME NEW n \in 1 .. N, n - 1 \in Good PROVE n \in Good
  <2>1. P(n) = P(n - 1) \cup EntriesAt(data[n])
    <3>1. 1 .. n = (1 .. n - 1) \cup {n}
      BY <1>1
    <3> QED BY <3>1
  <2>2. P(n - 1) \cap EntriesAt(data[n]) = {}
    <3> SUFFICES ASSUME NEW i \in P(n - 1), i \in EntriesAt(data[n]) PROVE FALSE
      OBVIOUS
    <3>1. PICK m \in 1 .. n - 1 : i \in EntriesAt(data[m])
      OBVIOUS
    <3>2. m \in 1 .. N /\ m # n
      BY <1>1
    <3>3. data[m].state = data[n].state
      BY <1>2, <3>1, <3>2
    <3> QED BY <3>2, <3>3 DEF ReadThreads
  <2>3. IsFiniteSet(P(n - 1)) /\ Cardinality(P(n - 1)) = EntriesUpTo(data, n - 1)
    BY <1>5
  <2>4. n \in 0 .. N /\ n - 1 \in 0 .. N
    BY <1>1
  <2> HIDE DEF P, N
  <2>5. /\ IsFiniteSet(P(n - 1) \cup EntriesAt(data[n]))
        /\ Cardinality(P(n - 1) \cup EntriesAt(data[n]))
             = Cardinality(P(n - 1)) + Cardinality(EntriesAt(data[n]))
                 - Cardinality(P(n - 1) \cap EntriesAt(data[n]))
    BY <1>2, <2>3, FS_Union
  <2>6. Cardinality(P(n - 1) \cap EntriesAt(data[n])) = 0
    BY <2>2, FS_EmptySet
  <2>7. Cardinality(P(n)) = EntriesUpTo(data, n)
    BY <1>2, <1>3, <2>1, <2>3, <2>4, <2>5, <2>6
  <2> QED BY <2>1, <2>4, <2>5, <2>7
<1>6. 0 .. N \subseteq Good
  <2> HIDE DEF Good, N
  <2> QED BY <1>1, <1>4, <1>5, StepByStep
<1>7. EntryPlaces(data, t) = P(N) /\ N \in 0 .. N
  BY <1>1 DEF EntryPlaces
<1> QED BY <1>6, <1>7
\* The result has every thread once, with native frames of its OS thread.
Regrouped(data, result) ==
  /\ result \in Seq(Thread)
  /\ \A n \in 1 .. Len(result) : \E m \in 1 .. Len(data) :
       /\ Same(result[n], data[m])
       /\ Increasing(result[n].native_frames)
       /\ Within(result[n].native_frames, data[m].native_frames)
  /\ \A m \in 1 .. Len(data) : \E n \in 1 .. Len(result) : Same(result[n], data[m])
  /\ \A j, k \in 1 .. Len(result) : result[j].state = result[k].state => j = k

\* The threads of t share no native frame, or each has all of them for a reason.
OfThread(result, t) == {n \in 1 .. Len(result) : result[n].tid = t}
Divided(data, result, mode, t, native) ==
  \/ /\ \A n \in OfThread(result, t) : result[n].native_frames = native
     /\ \/ \A m, n \in OfThread(result, t) : m = n
        \/ mode = "off" \/ native = <<>>
        \/ Cardinality(Evals(t, native, Len(native))) # Cardinality(EntryPlaces(data, t))
  \/ /\ Cardinality(Evals(t, native, Len(native))) = Cardinality(EntryPlaces(data, t))
     /\ \A m, n \in OfThread(result, t) :
          m # n => Apart(result[m].native_frames, result[n].native_frames)

LEMMA SortedIsRead ==
  ASSUME NEW data, NEW unreadable, NEW natives, ReadThreads(data, unreadable, natives),
         NEW sorted \in Seq(Thread), NEW place, SortedFrom(sorted, data, place), NEW t
  PROVE  /\ ReadThreads(sorted, unreadable, natives)
         /\ EntryPlaces(sorted, t) = EntryPlaces(data, t)
<1>1. /\ Len(sorted) = Len(data) /\ data \in Seq(Thread)
      /\ \A r \in 1 .. Len(data) : place[r] \in 1 .. Len(data) /\ sorted[r] = data[place[r]]
      /\ \A q, r \in 1 .. Len(data) : place[q] = place[r] => q = r
      /\ \A n \in 1 .. Len(data) : \E r \in 1 .. Len(data) : place[r] = n
  BY DEF SortedFrom, ReadThreads
<1>2. ReadThreads(sorted, unreadable, natives)
  <2>1. \A n \in 1 .. Len(sorted) :
          /\ sorted[n].tid = TidOf[sorted[n].state]
          /\ FramesOfState(sorted[n].frames, sorted[n].state, unreadable)
          /\ sorted[n].native_frames = natives[sorted[n].tid]
          /\ Increasing(sorted[n].native_frames)
    <3> TAKE n \in 1 .. Len(sorted)
    <3>1. place[n] \in 1 .. Len(data) /\ sorted[n] = data[place[n]]
      BY <1>1
    <3>2. /\ data[place[n]].tid = TidOf[data[place[n]].state]
          /\ FramesOfState(data[place[n]].frames, data[place[n]].state, unreadable)
          /\ data[place[n]].native_frames = natives[data[place[n]].tid]
          /\ Increasing(data[place[n]].native_frames)
      BY <3>1 DEF ReadThreads
    <3> QED BY <3>1, <3>2
  <2>2. \A m, n \in 1 .. Len(sorted) : sorted[m].state = sorted[n].state => m = n
    <3>1. \A m, n \in 1 .. Len(data) : data[m].state = data[n].state => m = n
      BY DEF ReadThreads
    <3> SUFFICES ASSUME NEW m \in 1 .. Len(data), NEW n \in 1 .. Len(data),
                        sorted[m].state = sorted[n].state
                 PROVE  m = n
      BY <1>1
    <3>2. /\ place[m] \in 1 .. Len(data) /\ place[n] \in 1 .. Len(data)
          /\ sorted[m] = data[place[m]] /\ sorted[n] = data[place[n]]
      BY <1>1
    <3>3. data[place[m]].state = data[place[n]].state
      BY <3>2
    <3>4. place[m] = place[n]
      BY <3>1, <3>2, <3>3
    <3> QED BY <1>1, <3>4
  <2> QED BY <2>1, <2>2 DEF ReadThreads
<1>3. EntryPlaces(sorted, t) \subseteq EntryPlaces(data, t)
  <2> SUFFICES ASSUME NEW n \in 1 .. Len(sorted), sorted[n].tid = t, NEW i \in EntriesAt(sorted[n])
               PROVE  i \in EntryPlaces(data, t)
    BY DEF EntryPlaces
  <2>1. place[n] \in 1 .. Len(data) /\ sorted[n] = data[place[n]]
    BY <1>1
  <2> QED BY <2>1 DEF EntryPlaces
<1>4. EntryPlaces(data, t) \subseteq EntryPlaces(sorted, t)
  <2> SUFFICES ASSUME NEW n \in 1 .. Len(data), data[n].tid = t, NEW i \in EntriesAt(data[n])
               PROVE  i \in EntryPlaces(sorted, t)
    BY DEF EntryPlaces
  <2>1. PICK r \in 1 .. Len(data) : place[r] = n
    BY <1>1
  <2>2. r \in 1 .. Len(sorted) /\ sorted[r] = data[n]
    BY <1>1, <2>1
  <2> QED BY <2>2 DEF EntryPlaces
<1> QED BY <1>2, <1>3, <1>4

LEMMA NormalizeGroupIs ==
  ASSUME NEW group, NEW unreadable, NEW natives, NEW mode, NEW t,
         ReadThreads(group, unreadable, natives), Len(group) > 0,
         \A n \in 1 .. Len(group) : group[n].tid = t
  PROVE  /\ Regrouped(group, NormalizeGroup(group, mode))
         /\ Divided(group, NormalizeGroup(group, mode), mode, t, natives[t])
<1> DEFINE N == Len(group)
           native == natives[t]
           sorted == SortThreadsByStackAnchor(group)
<1>1. /\ group \in Seq(Thread) /\ N \in Nat /\ \A n \in 1 .. N : group[n] \in Thread
      /\ \A n \in 1 .. N : group[n].native_frames = native /\ Increasing(group[n].native_frames)
      /\ \A m, n \in 1 .. N : group[m].state = group[n].state => m = n
  BY DEF ReadThreads
<1>2. \A s : Within(s, s)
  BY DEF Within
<1>3. CASE Len(group) = 1
  <2>1. NormalizeGroup(group, mode) = group
    BY <1>3 DEF NormalizeGroup
  <2>2. Regrouped(group, group)
    BY <1>1, <1>2 DEF Regrouped, Same
  <2>3. \A m, n \in OfThread(group, t) : m = n
    BY <1>3 DEF OfThread
  <2>4. \A n \in OfThread(group, t) : group[n].native_frames = native
    BY <1>1 DEF OfThread
  <2>5. Divided(group, group, mode, t, native)
    BY <2>3, <2>4 DEF Divided
  <2> QED BY <2>1, <2>2, <2>5
<1>4. sorted \in Seq(Thread) /\ \E place : SortedFrom(sorted, group, place)
  BY <1>1, SortIs
<1>5. PICK place : SortedFrom(sorted, group, place)
  BY <1>4
<1> HIDE DEF sorted
<1>6. /\ ReadThreads(sorted, unreadable, natives)
      /\ EntryPlaces(sorted, t) = EntryPlaces(group, t)
  BY <1>4, <1>5, SortedIsRead
<1>7. /\ Len(sorted) = N
      /\ \A r \in 1 .. N : place[r] \in 1 .. N /\ sorted[r] = group[place[r]]
      /\ \A n \in 1 .. N : \E r \in 1 .. N : place[r] = n
      /\ \A m, n \in 1 .. N : sorted[m].state = sorted[n].state => m = n
  BY <1>5, <1>6 DEF SortedFrom, ReadThreads
<1>8. ASSUME NEW result \in Seq(Thread), Len(result) = N,
             \A n \in 1 .. N : /\ Same(result[n], sorted[n])
                               /\ Increasing(result[n].native_frames)
                               /\ Within(result[n].native_frames, native)
      PROVE  Regrouped(group, result)
  <2>1. ASSUME NEW n \in 1 .. N
        PROVE  \E m \in 1 .. N : /\ Same(result[n], group[m])
                                 /\ Increasing(result[n].native_frames)
                                 /\ Within(result[n].native_frames, group[m].native_frames)
    <3>1. place[n] \in 1 .. N /\ sorted[n] = group[place[n]]
      BY <1>7
    <3>2. Same(result[n], group[place[n]])
      BY <1>8, <3>1
    <3>3. Within(result[n].native_frames, group[place[n]].native_frames)
      BY <1>1, <1>8, <3>1
    <3> QED BY <1>8, <3>1, <3>2, <3>3
  <2>2. ASSUME NEW m \in 1 .. N PROVE \E n \in 1 .. N : Same(result[n], group[m])
    <3>1. PICK r \in 1 .. N : place[r] = m
      BY <1>7
    <3>2. sorted[r] = group[m]
      BY <1>7, <3>1
    <3> QED BY <1>8, <3>2
  <2>3. \A j, k \in 1 .. N : result[j].state = result[k].state => j = k
    BY <1>7, <1>8 DEF Same
  <2> QED BY <1>8, <2>1, <2>2, <2>3 DEF Regrouped
<1>9. \A n \in 1 .. N : /\ sorted[n].native_frames = native /\ Increasing(sorted[n].native_frames)
                        /\ sorted[n].tid = t
  <2> TAKE n \in 1 .. N
  <2>1. place[n] \in 1 .. N /\ sorted[n] = group[place[n]]
    BY <1>7
  <2> QED BY <1>1, <2>1
<1>10. CASE Len(group) # 1 /\ mode = "off"
  <2>1. NormalizeGroup(group, mode) = sorted
    BY <1>10 DEF NormalizeGroup, sorted
  <2>2. \A n \in 1 .. N : Same(sorted[n], sorted[n])
    BY DEF Same
  <2>3. Regrouped(group, sorted)
    BY <1>2, <1>4, <1>7, <1>8, <1>9, <2>2
  <2>4. Divided(group, sorted, mode, t, native)
    BY <1>7, <1>9, <1>10 DEF Divided, OfThread
  <2> QED BY <2>1, <2>3, <2>4
<1>11. CASE Len(group) # 1 /\ mode # "off"
  <2> DEFINE result == SliceNativeStack(sorted)
  <2>1. NormalizeGroup(group, mode) = result
    BY <1>11 DEF NormalizeGroup, sorted
  <2> HIDE DEF result
  <2>2. 1 \in 1 .. N
    BY <1>1
  <2>3. Group(sorted)
    BY <1>4, <1>7, <1>9, <2>2 DEF Group
  <2>4. Split(sorted, result)
    BY <2>3, SliceNativeStackIs DEF result
  <2>5. sorted[1].native_frames = native /\ sorted[1].tid = t
    BY <1>9, <2>2
  <2>6. /\ result \in Seq(Thread) /\ Len(result) = N
        /\ \A n \in 1 .. N : /\ Same(result[n], sorted[n])
                             /\ Increasing(result[n].native_frames)
                             /\ Within(result[n].native_frames, native)
    BY <1>7, <2>4, <2>5 DEF Split
  <2>7. Regrouped(group, result)
    BY <1>8, <2>6
  <2>8. NumEvalFrames(sorted[1]) = Cardinality(Evals(t, native, Len(native)))
    <3>1. native \in Seq(Line)
      BY <1>1, <2>2 DEF Thread
    <3>2. DOMAIN native = 1 .. Len(native)
      BY <3>1
    <3> QED BY <2>5, <3>2 DEF NumEvalFrames, Evals
  <2>9. EntriesUpTo(sorted, Len(sorted)) = Cardinality(EntryPlaces(group, t))
    BY <1>6, <1>7, <1>9, EntriesAreCounted
  <2>10. \A n \in OfThread(result, t) : n \in 1 .. N
    BY <2>6 DEF OfThread
  <2>11. Divided(group, result, mode, t, native)
    <3>1. CASE \A n \in 1 .. N : result[n].native_frames = native
      <4>1. CASE native = <<>> \/ NumEvalFrames(sorted[1]) # EntriesUpTo(sorted, Len(sorted))
        BY <2>8, <2>9, <2>10, <3>1, <4>1 DEF Divided
      <4>2. CASE /\ NumEvalFrames(sorted[1]) = EntriesUpTo(sorted, Len(sorted))
                 /\ \A m, n \in 1 .. N :
                      m # n => Apart(result[m].native_frames, result[n].native_frames)
        BY <2>8, <2>9, <2>10, <4>2 DEF Divided
      <4> QED BY <1>7, <2>4, <2>5, <4>1, <4>2 DEF Split
    <3>2. CASE /\ NumEvalFrames(sorted[1]) = EntriesUpTo(sorted, Len(sorted))
               /\ \A m, n \in 1 .. N :
                    m # n => Apart(result[m].native_frames, result[n].native_frames)
      BY <2>8, <2>9, <2>10, <3>2 DEF Divided
    <3> QED BY <1>7, <2>4, <2>5, <3>1, <3>2 DEF Split
  <2> QED BY <2>1, <2>7, <2>11
<1> QED BY <1>3, <1>10, <1>11
-----------------------------------------------------------------------------
(* normalizeThreads: the groups.                                            *)

LEMMA GroupOfIs ==
  ASSUME NEW threads, NEW unreadable, NEW natives, ReadThreads(threads, unreadable, natives),
         NEW m \in 1 .. Len(threads)
  PROVE  LET t == threads[m].tid
             group == GroupOf(threads, t)
         IN /\ ReadThreads(group, unreadable, natives) /\ Len(group) \in Nat /\ Len(group) > 0
            /\ \A k \in 1 .. Len(group) :
                 group[k].tid = t /\ \E n \in 1 .. Len(threads) : group[k] = threads[n]
            /\ \A n \in 1 .. Len(threads) :
                 threads[n].tid = t => \E k \in 1 .. Len(group) : group[k] = threads[n]
            /\ EntryPlaces(group, t) = EntryPlaces(threads, t)
<1> DEFINE N == Len(threads)
           t == threads[m].tid
           P == {n \in DOMAIN threads : threads[n].tid = t}
           group == GroupOf(threads, t)
<1>1. threads \in Seq(Thread) /\ N \in Nat /\ DOMAIN threads = 1 .. N
  BY DEF ReadThreads
<1>2. \A n \in 1 .. N : n \in P <=> threads[n].tid = t
  BY <1>1
<1>3. group = Selected(threads, P)
  BY DEF GroupOf
<1> HIDE DEF P, group
<1>4. group \in Seq(Thread) /\ \E at : TakenFrom(group, threads, N, P, at)
  BY <1>1, <1>3, SelectedIs
<1>5. PICK at : TakenFrom(group, threads, N, P, at)
  BY <1>4
<1>6. \A k \in 1 .. Len(group) :
        at[k] \in 1 .. N /\ at[k] \in P /\ group[k] = threads[at[k]] /\ group[k].tid = t
  BY <1>2, <1>5 DEF TakenFrom
<1>7. \A n \in 1 .. N : threads[n].tid = t => \E k \in 1 .. Len(group) : at[k] = n
  BY <1>2, <1>5 DEF TakenFrom
<1>8. Len(group) \in Nat /\ Len(group) > 0
  <2>1. PICK k \in 1 .. Len(group) : at[k] = m
    BY <1>7
  <2> QED BY <1>4, <2>1
<1>9. ReadThreads(group, unreadable, natives)
  <2>1. \A n \in 1 .. Len(group) :
          /\ group[n].tid = TidOf[group[n].state]
          /\ FramesOfState(group[n].frames, group[n].state, unreadable)
          /\ group[n].native_frames = natives[group[n].tid]
          /\ Increasing(group[n].native_frames)
    BY <1>6 DEF ReadThreads
  <2>2. ASSUME NEW j \in 1 .. Len(group), NEW k \in 1 .. Len(group), group[j].state = group[k].state
        PROVE  j = k
    <3>1. /\ at[j] \in 1 .. N /\ at[k] \in 1 .. N
          /\ threads[at[j]].state = threads[at[k]].state
      BY <1>6, <2>2
    <3>2. at[j] = at[k]
      BY <3>1 DEF ReadThreads
    <3>3. ~(at[j] < at[k]) /\ ~(at[k] < at[j])
      BY <3>1, <3>2
    <3>4. ~(j < k) /\ ~(k < j)
      BY <1>5, <3>3 DEF TakenFrom
    <3> QED BY <1>8, <3>4
  <2> QED BY <1>4, <2>1, <2>2 DEF ReadThreads
<1>10. EntryPlaces(group, t) = EntryPlaces(threads, t)
  <2>1. EntryPlaces(group, t) \subseteq EntryPlaces(threads, t)
    <3> SUFFICES ASSUME NEW k \in 1 .. Len(group), group[k].tid = t, NEW i \in EntriesAt(group[k])
                 PROVE  i \in EntryPlaces(threads, t)
      BY DEF EntryPlaces
    <3>1. at[k] \in 1 .. N /\ group[k] = threads[at[k]]
      BY <1>6
    <3> QED BY <3>1 DEF EntryPlaces
  <2>2. EntryPlaces(threads, t) \subseteq EntryPlaces(group, t)
    <3> SUFFICES ASSUME NEW n \in 1 .. N, threads[n].tid = t, NEW i \in EntriesAt(threads[n])
                 PROVE  i \in EntryPlaces(group, t)
      BY DEF EntryPlaces
    <3>1. PICK k \in 1 .. Len(group) : at[k] = n
      BY <1>7
    <3>2. group[k] = threads[n] /\ group[k].tid = t
      BY <1>6, <3>1
    <3> QED BY <3>2 DEF EntryPlaces
  <2> QED BY <2>1, <2>2
<1>11. \A k \in 1 .. Len(group) : group[k].tid = t /\ \E n \in 1 .. N : group[k] = threads[n]
  BY <1>6
<1>12. \A n \in 1 .. N : threads[n].tid = t => \E k \in 1 .. Len(group) : group[k] = threads[n]
  <2> SUFFICES ASSUME NEW n \in 1 .. N, threads[n].tid = t
               PROVE  \E k \in 1 .. Len(group) : group[k] = threads[n]
    OBVIOUS
  <2>1. PICK k \in 1 .. Len(group) : at[k] = n
    BY <1>7
  <2> QED BY <1>6, <2>1
<1> QED BY <1>8, <1>9, <1>10, <1>11, <1>12 DEF group

\* Where the groups begin: the first thread of each OS thread.
IsFirst(threads, n) == \A m \in 1 .. n - 1 : threads[m].tid # threads[n].tid

LEMMA FirstsAre ==
  ASSUME NEW threads \in Seq(Thread)
  PROVE  LET firsts == Selected([n \in DOMAIN threads |-> n],
                         {n \in DOMAIN threads : \A m \in 1 .. n - 1 : threads[m].tid # threads[n].tid})
         IN /\ firsts \in Seq(1 .. Len(threads))
            /\ \A g, h \in 1 .. Len(firsts) : threads[firsts[g]].tid = threads[firsts[h]].tid => g = h
            /\ \A n \in 1 .. Len(threads) :
                 \E g \in 1 .. Len(firsts) : threads[firsts[g]].tid = threads[n].tid
<1> DEFINE N == Len(threads)
           P == {n \in DOMAIN threads : \A m \in 1 .. n - 1 : threads[m].tid # threads[n].tid}
           firsts == Selected([n \in DOMAIN threads |-> n], P)
<1>1. N \in Nat /\ DOMAIN threads = 1 .. N
  OBVIOUS
<1>2. \A n \in 1 .. N : n \in P <=> IsFirst(threads, n)
  BY <1>1 DEF IsFirst
<1> DEFINE r == Selected([n \in 1 .. N |-> n], P)
<1>3. firsts = r
  BY <1>1
<1> HIDE DEF P, firsts, N
<1>4. /\ firsts \in Seq(1 .. N)
      /\ \A k \in 1 .. Len(firsts) : firsts[k] \in P /\ firsts[k] \in 1 .. N
      /\ \A j, k \in 1 .. Len(firsts) : j < k => firsts[j] < firsts[k]
      /\ \A i \in 1 .. N : i \in P => \E k \in 1 .. Len(firsts) : firsts[k] = i
  <2>1. /\ r \in Seq(1 .. N)
        /\ \A k \in 1 .. Len(r) : r[k] \in P /\ r[k] \in 1 .. N
        /\ \A j, k \in 1 .. Len(r) : j < k => r[j] < r[k]
        /\ \A i \in 1 .. N : i \in P => \E k \in 1 .. Len(r) : r[k] = i
    BY <1>1, PlacesSelected
  <2> HIDE DEF r
  <2> QED BY <1>3, <2>1
<1>5. ASSUME NEW g \in 1 .. Len(firsts), NEW h \in 1 .. Len(firsts), g < h
      PROVE  threads[firsts[g]].tid # threads[firsts[h]].tid
  <2>1. firsts[g] < firsts[h] /\ firsts[g] \in 1 .. N /\ firsts[h] \in 1 .. N
    BY <1>4, <1>5
  <2>2. firsts[g] \in 1 .. firsts[h] - 1
    BY <1>1, <2>1
  <2> QED BY <1>2, <1>4, <2>2 DEF IsFirst
<1>6. \A g, h \in 1 .. Len(firsts) : threads[firsts[g]].tid = threads[firsts[h]].tid => g = h
  <2> SUFFICES ASSUME NEW g \in 1 .. Len(firsts), NEW h \in 1 .. Len(firsts), g # h
               PROVE  threads[firsts[g]].tid # threads[firsts[h]].tid
    OBVIOUS
  <2>1. g < h \/ h < g
    BY <1>4
  <2> QED BY <1>5, <2>1
<1>7. ASSUME NEW n \in 1 .. N
      PROVE  \E g \in 1 .. Len(firsts) : threads[firsts[g]].tid = threads[n].tid
  <2> DEFINE T == {m \in 1 .. N : threads[m].tid = threads[n].tid}
  <2>1. T \subseteq Nat /\ T # {}
    OBVIOUS
  <2>2. PICK m \in T : \A k \in T : m <= k
    <3> HIDE DEF T
    <3> QED BY <2>1, LeastOf
  <2>3. m \in 1 .. N /\ threads[m].tid = threads[n].tid
    OBVIOUS
  <2>4. IsFirst(threads, m)
    <3> SUFFICES ASSUME NEW k \in 1 .. m - 1, threads[k].tid = threads[m].tid PROVE FALSE
      BY DEF IsFirst
    <3>1. k \in 1 .. N /\ ~(m <= k)
      BY <1>1, <2>3
    <3>2. k \in T
      BY <2>3, <3>1
    <3> QED BY <2>2, <3>1, <3>2
  <2>5. m \in P
    BY <1>2, <2>3, <2>4
  <2>6. PICK g \in 1 .. Len(firsts) : firsts[g] = m
    BY <1>4, <2>3, <2>5
  <2> QED BY <2>3, <2>6
<1> QED BY <1>4, <1>6, <1>7 DEF firsts, P, N
\* The groups, the nth of which is that of the tid that comes nth, one behind the other.
InGroups(threads, mode, normal, firsts, groups, of, nth) ==
  /\ Len(firsts) \in Nat /\ \A g \in 1 .. Len(firsts) : firsts[g] \in 1 .. Len(threads)
  /\ \A g, h \in 1 .. Len(firsts) : threads[firsts[g]].tid = threads[firsts[h]].tid => g = h
  /\ \A n \in 1 .. Len(threads) :
       \E g \in 1 .. Len(firsts) : threads[firsts[g]].tid = threads[n].tid
  /\ Len(groups) = Len(firsts)
  /\ \A g \in 1 .. Len(firsts) :
       groups[g] = NormalizeGroup(GroupOf(threads, threads[firsts[g]].tid), mode)
  /\ normal \in Seq(Thread) /\ FlatFrom(normal, groups, Len(groups), of, nth)

LEMMA NormalIsFlat ==
  ASSUME NEW threads, NEW unreadable, NEW natives, NEW mode,
         ReadThreads(threads, unreadable, natives)
  PROVE  \E firsts, groups, of, nth :
           InGroups(threads, mode, NormalizeThreads(threads, mode), firsts, groups, of, nth)
<1> DEFINE N == Len(threads)
           firsts == Selected([n \in DOMAIN threads |-> n],
                       {n \in DOMAIN threads : \A m \in 1 .. n - 1 : threads[m].tid # threads[n].tid})
           tidOf(g) == threads[firsts[g]].tid
           groups == [g \in DOMAIN firsts |->
                        NormalizeGroup(GroupOf(threads, threads[firsts[g]].tid), mode)]
           normal == FlattenSeq(groups)
<1>1. threads \in Seq(Thread) /\ N \in Nat
  BY DEF ReadThreads
<1>2. NormalizeThreads(threads, mode) = normal
  BY DEF NormalizeThreads
<1>3. /\ firsts \in Seq(1 .. N)
      /\ \A g, h \in 1 .. Len(firsts) : tidOf(g) = tidOf(h) => g = h
      /\ \A n \in 1 .. N : \E g \in 1 .. Len(firsts) : tidOf(g) = threads[n].tid
  BY <1>1, FirstsAre
<1> HIDE DEF firsts
<1>4. /\ DOMAIN firsts = 1 .. Len(firsts) /\ Len(firsts) \in Nat
      /\ \A g \in 1 .. Len(firsts) : firsts[g] \in 1 .. N
  <2> DEFINE T == 1 .. N
  <2>1. firsts \in Seq(T)
    BY <1>3
  <2> HIDE DEF T
  <2>2. /\ DOMAIN firsts = 1 .. Len(firsts) /\ Len(firsts) \in Nat
        /\ \A g \in 1 .. Len(firsts) : firsts[g] \in T
    BY ONLY <2>1
  <2> QED BY <2>2 DEF T
<1>5. \A g \in 1 .. Len(firsts) : groups[g] = NormalizeGroup(GroupOf(threads, tidOf(g)), mode)
  BY <1>4
<1>6. groups \in Seq(Seq(Thread)) /\ Len(groups) = Len(firsts)
  <2>1. ASSUME NEW g \in 1 .. Len(firsts) PROVE groups[g] \in Seq(Thread)
    <3> DEFINE group == GroupOf(threads, tidOf(g))
    <3>1. /\ ReadThreads(group, unreadable, natives) /\ Len(group) > 0
          /\ \A k \in 1 .. Len(group) : group[k].tid = tidOf(g)
      BY <1>4, GroupOfIs, ZenonT(40)
    <3>2. groups[g] = NormalizeGroup(group, mode)
      BY <1>5
    <3> HIDE DEF group, groups, tidOf
    <3>3. Regrouped(group, NormalizeGroup(group, mode))
      BY <3>1, NormalizeGroupIs
    <3> QED BY <3>2, <3>3 DEF Regrouped
  <2>2. groups = [g \in 1 .. Len(firsts) |-> groups[g]]
    BY <1>4
  <2> HIDE DEF groups
  <2> QED BY <1>4, <2>1, <2>2
<1> HIDE DEF groups, tidOf
<1>7. normal \in Seq(Thread) /\ \E of, nth : FlatFrom(normal, groups, Len(groups), of, nth)
  BY <1>6, FlattenIs
<1>8. PICK of, nth : FlatFrom(normal, groups, Len(groups), of, nth)
  BY <1>7
<1> HIDE DEF normal
<1>9. InGroups(threads, mode, normal, firsts, groups, of, nth)
  BY <1>3, <1>4, <1>5, <1>6, <1>7, <1>8 DEF InGroups, tidOf
<1> QED BY <1>2, <1>9

LEMMA NormalizeThreadsIs ==
  ASSUME NEW threads, NEW unreadable, NEW natives, NEW mode,
         ReadThreads(threads, unreadable, natives)
  PROVE  /\ Regrouped(threads, NormalizeThreads(threads, mode))
         /\ \A t : Divided(threads, NormalizeThreads(threads, mode), mode, t, natives[t])
<1> DEFINE N == Len(threads)
           normal == NormalizeThreads(threads, mode)
<1>1. PICK firsts, groups, of, nth : InGroups(threads, mode, normal, firsts, groups, of, nth)
  BY NormalIsFlat
<1> DEFINE tidOf(g) == threads[firsts[g]].tid
           group(g) == GroupOf(threads, tidOf(g))
<1> HIDE DEF normal
<1>2. threads \in Seq(Thread) /\ N \in Nat
  BY DEF ReadThreads
<1>3. /\ \A g, h \in 1 .. Len(firsts) : tidOf(g) = tidOf(h) => g = h
      /\ \A n \in 1 .. N : \E g \in 1 .. Len(firsts) : tidOf(g) = threads[n].tid
  BY <1>1 DEF InGroups
<1>4. Len(firsts) \in Nat /\ \A g \in 1 .. Len(firsts) : firsts[g] \in 1 .. N
  BY <1>1 DEF InGroups
<1>5. ASSUME NEW g \in 1 .. Len(firsts)
      PROVE  /\ groups[g] = NormalizeGroup(group(g), mode)
             /\ Regrouped(group(g), groups[g])
             /\ Divided(group(g), groups[g], mode, tidOf(g), natives[tidOf(g)])
             /\ EntryPlaces(group(g), tidOf(g)) = EntryPlaces(threads, tidOf(g))
             /\ \A k \in 1 .. Len(group(g)) :
                  group(g)[k].tid = tidOf(g) /\ \E n \in 1 .. N : group(g)[k] = threads[n]
             /\ \A n \in 1 .. N :
                  threads[n].tid = tidOf(g) => \E k \in 1 .. Len(group(g)) : group(g)[k] = threads[n]
  <2>1. groups[g] = NormalizeGroup(GroupOf(threads, tidOf(g)), mode)
    BY <1>1 DEF InGroups
  <2> DEFINE mine == GroupOf(threads, tidOf(g))
  <2>2. /\ ReadThreads(mine, unreadable, natives) /\ Len(mine) \in Nat /\ Len(mine) > 0
        /\ \A k \in 1 .. Len(mine) :
             mine[k].tid = tidOf(g) /\ \E n \in 1 .. Len(threads) : mine[k] = threads[n]
        /\ \A n \in 1 .. Len(threads) :
             threads[n].tid = tidOf(g) => \E k \in 1 .. Len(mine) : mine[k] = threads[n]
        /\ EntryPlaces(mine, tidOf(g)) = EntryPlaces(threads, tidOf(g))
    BY <1>4, GroupOfIs
  <2> HIDE DEF mine, tidOf
  <2>3. /\ Regrouped(mine, NormalizeGroup(mine, mode))
        /\ Divided(mine, NormalizeGroup(mine, mode), mode, tidOf(g), natives[tidOf(g)])
    BY <2>2, NormalizeGroupIs
  <2> QED BY <2>1, <2>2, <2>3 DEF mine
<1>6. Len(groups) = Len(firsts)
  BY <1>1 DEF InGroups
<1> HIDE DEF tidOf
<1>7. normal \in Seq(Thread) /\ Len(normal) \in Nat
  <2>1. normal \in Seq(Thread)
    BY <1>1 DEF InGroups
  <2> QED BY <2>1
<1>8. FlatFrom(normal, groups, Len(groups), of, nth)
  BY <1>1 DEF InGroups
<1>9. \A n \in 1 .. Len(normal) : /\ of[n] \in 1 .. Len(firsts) /\ nth[n] \in 1 .. Len(groups[of[n]])
                                  /\ normal[n] = groups[of[n]][nth[n]] /\ nth[n] \in Nat
  BY <1>6, <1>8 DEF FlatFrom
<1>10. \A g \in 1 .. Len(firsts) : \A k \in 1 .. Len(groups[g]) :
         \E n \in 1 .. Len(normal) : of[n] = g /\ nth[n] = k
  BY <1>6, <1>8 DEF FlatFrom
<1>11. \A j, k \in 1 .. Len(normal) : of[j] = of[k] /\ nth[j] = nth[k] => j = k
  <2> SUFFICES ASSUME NEW j \in 1 .. Len(normal), NEW k \in 1 .. Len(normal), j < k
               PROVE  ~(of[j] = of[k] /\ nth[j] = nth[k])
    BY <1>7
  <2>1. of[j] < of[k] \/ (of[j] = of[k] /\ nth[j] < nth[k])
    BY <1>8 DEF FlatFrom
  <2>2. of[j] \in Int /\ of[k] \in Int /\ nth[j] \in Int /\ nth[k] \in Int
    BY <1>9
  <2> QED BY <2>1, <2>2
<1>12. ASSUME NEW n \in 1 .. Len(normal)
       PROVE  /\ normal[n].tid = tidOf(of[n])
              /\ \E m \in 1 .. N : /\ Same(normal[n], threads[m])
                                   /\ Increasing(normal[n].native_frames)
                                   /\ Within(normal[n].native_frames, threads[m].native_frames)
  <2>1. /\ of[n] \in 1 .. Len(firsts) /\ nth[n] \in 1 .. Len(groups[of[n]])
        /\ normal[n] = groups[of[n]][nth[n]]
    BY <1>9
  <2>2. PICK k \in 1 .. Len(group(of[n])) :
          /\ Same(normal[n], group(of[n])[k])
          /\ Increasing(normal[n].native_frames)
          /\ Within(normal[n].native_frames, group(of[n])[k].native_frames)
    <3>1. Regrouped(group(of[n]), groups[of[n]])
      BY <1>5, <2>1
    <3> HIDE DEF group
    <3> QED BY <2>1, <3>1 DEF Regrouped
  <2>3. PICK m \in 1 .. N : group(of[n])[k] = threads[m]
    BY <1>5, <2>1
  <2>4. group(of[n])[k].tid = tidOf(of[n])
    BY <1>5, <2>1
  <2> QED BY <2>2, <2>3, <2>4 DEF Same
<1>13. ASSUME NEW m \in 1 .. N PROVE \E n \in 1 .. Len(normal) : Same(normal[n], threads[m])
  <2>1. PICK g \in 1 .. Len(firsts) : tidOf(g) = threads[m].tid
    BY <1>3 DEF tidOf
  <2>2. PICK k \in 1 .. Len(group(g)) : group(g)[k] = threads[m]
    BY <1>5, <2>1
  <2>3. PICK j \in 1 .. Len(groups[g]) : Same(groups[g][j], group(g)[k])
    BY <1>5 DEF Regrouped
  <2>4. PICK n \in 1 .. Len(normal) : of[n] = g /\ nth[n] = j
    BY <1>10
  <2>5. normal[n] = groups[g][j]
    BY <1>9, <2>4
  <2> QED BY <2>2, <2>3, <2>5
<1>14. ASSUME NEW j \in 1 .. Len(normal), NEW k \in 1 .. Len(normal),
              normal[j].state = normal[k].state
       PROVE  j = k
  <2>1. normal[j].tid = TidOf[normal[j].state] /\ normal[k].tid = TidOf[normal[k].state]
    BY <1>12 DEF Same, ReadThreads
  <2>2. of[j] = of[k]
    <3>1. tidOf(of[j]) = tidOf(of[k])
      BY <1>12, <1>14, <2>1
    <3> QED BY <1>3, <1>9, <3>1 DEF tidOf
  <2>3. nth[j] = nth[k]
    <3>1. /\ of[j] \in 1 .. Len(firsts)
          /\ nth[j] \in 1 .. Len(groups[of[j]]) /\ nth[k] \in 1 .. Len(groups[of[j]])
          /\ groups[of[j]][nth[j]].state = groups[of[j]][nth[k]].state
      BY <1>9, <1>14, <2>2
    <3> QED BY <1>5, <3>1 DEF Regrouped
  <2> QED BY <1>11, <2>2, <2>3
<1>15. Regrouped(threads, normal)
  BY <1>7, <1>12, <1>13, <1>14 DEF Regrouped
<1>16. ASSUME NEW t PROVE Divided(threads, normal, mode, t, natives[t])
  <2>1. CASE OfThread(normal, t) = {}
    BY <2>1 DEF Divided
  <2>2. CASE OfThread(normal, t) # {}
    <3>1. PICK g \in 1 .. Len(firsts) : tidOf(g) = t
      BY <1>9, <1>12, <2>2 DEF OfThread
    <3>2. \A n \in OfThread(normal, t) :
            /\ n \in 1 .. Len(normal) /\ of[n] = g /\ nth[n] \in OfThread(groups[g], t)
            /\ normal[n] = groups[g][nth[n]]
      <4> TAKE n \in OfThread(normal, t)
      <4>1. n \in 1 .. Len(normal) /\ normal[n].tid = t
        BY DEF OfThread
      <4>2. of[n] = g
        <5>1. tidOf(of[n]) = tidOf(g)
          BY <1>12, <3>1, <4>1
        <5> QED BY <1>3, <1>9, <4>1, <5>1 DEF tidOf
      <4>3. normal[n] = groups[g][nth[n]] /\ nth[n] \in 1 .. Len(groups[g])
        BY <1>9, <4>1, <4>2
      <4> QED BY <4>1, <4>2, <4>3 DEF OfThread
    <3>3. \A m, n \in OfThread(normal, t) : nth[m] = nth[n] => m = n
      BY <1>11, <3>2
    <3>4. /\ Divided(group(g), groups[g], mode, t, natives[t])
          /\ EntryPlaces(group(g), t) = EntryPlaces(threads, t)
      BY <1>5, <3>1
    <3> QED BY <3>2, <3>3, <3>4 DEF Divided
  <2> QED BY <2>1, <2>2
<1> QED BY <1>15, <1>16 DEF normal
-----------------------------------------------------------------------------
(* A report.                                                                *)

Natives(mode, lost) == [t \in Tid |-> IF mode = "off" THEN <<>> ELSE NativeFrames(t, lost[t])]

LEMMA BuiltIs ==
  ASSUME StacksInv, NEW s \in TState, NEW mode, NEW lost \in Losses, NEW unreadable,
         NEW heap \in Heaps
  PROVE  LET th == BuildPythonThread(s, mode, lost, unreadable, heap)
         IN /\ th \in Thread
            /\ th.state = s /\ th.tid = TidOf[s]
            /\ FramesOfState(th.frames, s, unreadable)
            /\ th.native_frames = Natives(mode, lost)[TidOf[s]]
            /\ Increasing(th.native_frames)
            /\ th.stack_anchor = StackAnchor(s, heap)
<1> DEFINE t == TidOf[s]
           d == Len(stack[t])
           frames == BuildFrameStack(s, unreadable)
           native == Natives(mode, lost)[t]
           anchor == StackAnchor(s, heap)
<1>1. t \in Tid /\ 1 .. d \subseteq Line /\ lost[t] \in Nat
  <2>1. t \in Tid
    BY DEF Tid
  <2>2. lost[t] \in Nat
    BY <2>1 DEF Losses
  <2> QED BY <2>1, <2>2, StackOf
<1>2. FramesOfState(frames, s, unreadable)
  BY BuiltFramesAre
<1>3. frames \in PyFrames(Line)
  <2> DEFINE F == [at : 1 .. d, is_entry : BOOLEAN]
             G == [at : Line, is_entry : BOOLEAN]
  <2>1. frames \in Seq(F)
    BY <1>2 DEF FramesOfState, PyFrames
  <2>2. F \subseteq G
    <3> HIDE DEF d
    <3> QED BY <1>1
  <2>3. PyFrames(Line) = Seq(G)
    BY DEF PyFrames
  <2> HIDE DEF frames, d, F, G
  <2>4. frames \in Seq(G)
    BY <2>1, <2>2, SeqMonotonic
  <2> QED BY <2>3, <2>4
<1>4. native \in Seq(Line) /\ Increasing(native)
  <2>1. CASE mode = "off"
    <3>1. native = <<>>
      BY <1>1, <2>1 DEF Natives
    <3> HIDE DEF native
    <3> QED BY <3>1 DEF Increasing
  <2>2. CASE mode # "off"
    <3>1. native = NativeFrames(t, lost[t])
      BY <1>1, <2>2 DEF Natives
    <3> HIDE DEF t, native
    <3>2. NativesOf(native, t, lost[t])
      BY <1>1, <3>1, NativesAre
    <3>3. native \in Seq(1 .. d) /\ Increasing(native)
      BY <3>2 DEF NativesOf, Increasing
    <3> HIDE DEF d
    <3> QED BY <1>1, <3>3, SeqMonotonic
  <2> QED BY <2>1, <2>2
<1>5. anchor \in Int
  BY AnchorIs
<1>6. BuildPythonThread(s, mode, lost, unreadable, heap)
        = [tid |-> t, state |-> s, frames |-> frames, native_frames |-> native,
           stack_anchor |-> anchor]
  BY <1>1 DEF BuildPythonThread, Natives
<1> HIDE DEF t, frames, native, anchor
<1>7. [tid |-> t, state |-> s, frames |-> frames, native_frames |-> native,
       stack_anchor |-> anchor] \in Thread
  BY <1>1, <1>3, <1>4, <1>5 DEF Thread
<1>8. /\ BuildPythonThread(s, mode, lost, unreadable, heap) \in Thread
      /\ BuildPythonThread(s, mode, lost, unreadable, heap).state = s
      /\ BuildPythonThread(s, mode, lost, unreadable, heap).tid = t
      /\ BuildPythonThread(s, mode, lost, unreadable, heap).frames = frames
      /\ BuildPythonThread(s, mode, lost, unreadable, heap).native_frames = native
      /\ BuildPythonThread(s, mode, lost, unreadable, heap).stack_anchor = anchor
  BY <1>6, <1>7
<1> QED BY <1>2, <1>4, <1>8 DEF t, native, anchor

\* What get_process_threads reads.
ThreadsRead(order, idle, mode, lost, unreadable, heap) ==
  Selected([n \in DOMAIN order |-> BuildPythonThread(order[n], mode, lost, unreadable, heap)],
           {n \in DOMAIN order : Collected(order[n], idle)})

LEMMA ReadThreadsAre ==
  ASSUME StacksInv, NEW order \in Orders, NEW idle, NEW mode, NEW lost \in Losses,
         NEW unreadable, NEW heap \in Heaps
  PROVE  LET threads == ThreadsRead(order, idle, mode, lost, unreadable, heap)
         IN /\ ReadThreads(threads, unreadable, Natives(mode, lost))
            /\ \A n \in 1 .. Len(threads) :
                 /\ Collected(threads[n].state, idle)
                 /\ threads[n].stack_anchor = StackAnchor(threads[n].state, heap)
            /\ \A s \in TState :
                 Collected(s, idle) => \E n \in 1 .. Len(threads) : threads[n].state = s
<1> DEFINE N == Len(order)
           all == [n \in DOMAIN order |-> BuildPythonThread(order[n], mode, lost, unreadable, heap)]
           P == {n \in DOMAIN order : Collected(order[n], idle)}
           threads == Selected(all, P)
<1>1. /\ order \in Seq(TState) /\ N \in Nat /\ DOMAIN order = 1 .. N
      /\ \A n \in 1 .. N : order[n] \in TState
      /\ \A m, n \in 1 .. N : order[m] = order[n] => m = n
      /\ \A s \in TState : \E n \in 1 .. N : order[n] = s
  BY NormalizeAssumption DEF ToSet, IsInjective
<1>2. \A n \in 1 .. N : /\ all[n] \in Thread
                        /\ all[n].state = order[n] /\ all[n].tid = TidOf[order[n]]
                        /\ FramesOfState(all[n].frames, order[n], unreadable)
                        /\ all[n].native_frames = Natives(mode, lost)[TidOf[order[n]]]
                        /\ Increasing(all[n].native_frames)
                        /\ all[n].stack_anchor = StackAnchor(order[n], heap)
  <2> TAKE n \in 1 .. N
  <2>1. all[n] = BuildPythonThread(order[n], mode, lost, unreadable, heap) /\ order[n] \in TState
    BY <1>1
  <2> HIDE DEF all
  <2> DEFINE s == order[n]
             th == BuildPythonThread(s, mode, lost, unreadable, heap)
  <2>2. /\ th \in Thread /\ th.state = s /\ th.tid = TidOf[s]
        /\ FramesOfState(th.frames, s, unreadable)
        /\ th.native_frames = Natives(mode, lost)[TidOf[s]]
        /\ Increasing(th.native_frames) /\ th.stack_anchor = StackAnchor(s, heap)
    <3>1. s \in TState
      BY <2>1
    <3> HIDE DEF s
    <3> QED BY <3>1, BuiltIs, SMTT(20)
  <2>3. all[n] = th
    BY <2>1
  <2> HIDE DEF th
  <2> QED BY <2>2, <2>3
<1>3. all \in Seq(Thread) /\ Len(all) = N
  <2>1. all = [n \in 1 .. N |-> all[n]]
    BY <1>1
  <2>2. \A n \in 1 .. N : all[n] \in Thread
    BY <1>2
  <2> DEFINE T == Thread
  <2> HIDE DEF all, N, T
  <2>3. all \in [1 .. N -> T]
    BY ONLY <2>1, <2>2 DEF T
  <2>4. all \in Seq(T) /\ Len(all) = N
    BY ONLY <1>1, <2>3
  <2> QED BY <2>4 DEF T
<1>4. \A n \in 1 .. N : n \in P <=> Collected(order[n], idle)
  BY <1>1
<1> HIDE DEF all, P, N, threads
<1>5. threads \in Seq(Thread) /\ \E at : TakenFrom(threads, all, N, P, at)
  BY <1>3, SelectedIs DEF threads
<1>6. PICK at : TakenFrom(threads, all, N, P, at)
  BY <1>5
<1>7. \A k \in 1 .. Len(threads) : at[k] \in 1 .. N /\ at[k] \in P /\ threads[k] = all[at[k]]
  BY <1>6 DEF TakenFrom
<1>8. ASSUME NEW j \in 1 .. Len(threads), NEW k \in 1 .. Len(threads),
             threads[j].state = threads[k].state
      PROVE  j = k
  <2>1. /\ at[j] \in 1 .. N /\ at[k] \in 1 .. N
        /\ order[at[j]] = threads[j].state /\ order[at[k]] = threads[k].state
    BY <1>2, <1>7
  <2>2. at[j] = at[k]
    BY <1>1, <1>8, <2>1
  <2>3. ~(at[j] < at[k]) /\ ~(at[k] < at[j])
    BY <2>1, <2>2
  <2>4. ~(j < k) /\ ~(k < j)
    BY <1>6, <2>3 DEF TakenFrom
  <2> QED BY <1>5, <2>4
<1>9. \A n \in 1 .. Len(threads) :
        /\ threads[n].tid = TidOf[threads[n].state]
        /\ FramesOfState(threads[n].frames, threads[n].state, unreadable)
        /\ threads[n].native_frames = Natives(mode, lost)[threads[n].tid]
        /\ Increasing(threads[n].native_frames)
  <2> TAKE n \in 1 .. Len(threads)
  <2>1. at[n] \in 1 .. N /\ threads[n] = all[at[n]]
    BY <1>7
  <2> QED BY <1>2, <2>1
<1>10. ReadThreads(threads, unreadable, Natives(mode, lost))
  BY <1>5, <1>8, <1>9 DEF ReadThreads
<1>11. \A n \in 1 .. Len(threads) :
         /\ Collected(threads[n].state, idle)
         /\ threads[n].stack_anchor = StackAnchor(threads[n].state, heap)
  <2> TAKE n \in 1 .. Len(threads)
  <2>1. at[n] \in 1 .. N /\ at[n] \in P /\ threads[n] = all[at[n]]
    BY <1>7
  <2>2. /\ threads[n].state = order[at[n]]
        /\ threads[n].stack_anchor = StackAnchor(order[at[n]], heap)
    BY <1>2, <2>1
  <2> QED BY <1>4, <2>1, <2>2
<1>12. ASSUME NEW s \in TState, Collected(s, idle)
       PROVE  \E n \in 1 .. Len(threads) : threads[n].state = s
  <2>1. PICK m \in 1 .. N : order[m] = s
    BY <1>1
  <2>2. m \in P
    BY <1>4, <1>12, <2>1
  <2>3. PICK k \in 1 .. Len(threads) : at[k] = m
    BY <1>6, <2>2 DEF TakenFrom
  <2>4. threads[k].state = s
    BY <1>2, <1>7, <2>1, <2>3
  <2> QED BY <2>4
<1> QED BY <1>10, <1>11, <1>12 DEF ThreadsRead, threads, all, P

\* Every thread that is printed: its lines are places on the stack, and the assert holds.
LEMMA FormattedIs ==
  ASSUME NEW th \in Thread, NEW mode
  PROVE  /\ FormatThread(th, mode) \in ThreadReport
         /\ FormatThread(th, mode).asserts = TRUE
         /\ FormatThread(th, mode).state = th.state /\ FormatThread(th, mode).tid = th.tid
<1>1. /\ th.native_frames \in Seq(Line) /\ th.frames \in PyFrames(Line)
      /\ th.state \in TState /\ th.tid \in Tid
  BY DEF Thread
<1>2. CASE mode # "off" /\ AreTheStacksMergeable(th)
  <2> DEFINE merged == FormatMergedStacks(th, mode = "last")
             N == Len(th.native_frames)
  <2>1. PICK after :
          /\ Merges(Line, th, mode = "last", after)
          /\ \A k \in 0 .. N : Walked(after[k], th.tid, th.native_frames, k, Reverse(th.frames))
    BY <1>1, <1>2, MergingEnds
  <2>2. N \in 0 .. N
    BY <1>1
  <2>3. after[N] \in Printed(Line) /\ after[N].asserts = TRUE
    BY <2>1, <2>2 DEF Merges, Walked
  <2>4. merged = [after[N] EXCEPT !.lines = @ \o after[N].held]
    BY <2>1 DEF Merges
  <2>5. after[N].lines \o after[N].held \in Seq(Line)
    BY <2>3, ConcatProperties DEF Printed
  <2> HIDE DEF merged, N
  <2>6. merged.lines \in Seq(Line) /\ merged.asserts = TRUE
    BY <2>3, <2>4, <2>5 DEF Printed
  <2>7. FormatThread(th, mode) = [state |-> th.state, tid |-> th.tid, lines |-> merged.lines,
                                  merged |-> TRUE, asserts |-> merged.asserts]
    BY <1>2 DEF FormatThread, merged
  <2>8. [state |-> th.state, tid |-> th.tid, lines |-> merged.lines,
         merged |-> TRUE, asserts |-> merged.asserts] \in ThreadReport
    BY ONLY <1>1, <2>6 DEF ThreadReport
  <2> DEFINE f == FormatThread(th, mode)
  <2> HIDE DEF f
  <2>9. f.asserts = merged.asserts /\ f.state = th.state /\ f.tid = th.tid
    BY ONLY <2>7 DEF f
  <2> QED BY ONLY <2>6, <2>7, <2>8, <2>9 DEF f
<1>3. CASE ~(mode # "off" /\ AreTheStacksMergeable(th))
  <2> DEFINE lines == [n \in DOMAIN th.frames |-> Reverse(th.frames)[n].at]
  <2>1. /\ Len(th.frames) \in Nat /\ DOMAIN th.frames = 1 .. Len(th.frames)
        /\ \A k \in 1 .. Len(th.frames) : Reverse(th.frames)[k].at \in Line
    BY <1>1, EntriesAreFinite, FramesAre
  <2>2. lines \in Seq(Line)
    BY <2>1
  <2>3. FormatThread(th, mode) = [state |-> th.state, tid |-> th.tid, lines |-> lines,
                                  merged |-> FALSE, asserts |-> TRUE]
    BY <1>3 DEF FormatThread
  <2> HIDE DEF lines
  <2>4. [state |-> th.state, tid |-> th.tid, lines |-> lines,
         merged |-> FALSE, asserts |-> TRUE] \in ThreadReport
    BY ONLY <1>1, <2>2 DEF ThreadReport
  <2> DEFINE f == FormatThread(th, mode)
  <2> HIDE DEF f
  <2>5. f.asserts = TRUE /\ f.state = th.state /\ f.tid = th.tid
    BY ONLY <2>3 DEF f
  <2> QED BY ONLY <2>3, <2>4, <2>5 DEF f
<1> QED BY <1>2, <1>3
-----------------------------------------------------------------------------
(* What a merged pass prints: no line twice.                                *)

Distinct(s) == \A j, k \in 1 .. Len(s) : s[j] = s[k] => j = k

\* r has what p has and what q has, once each if they share nothing.
Joined(r, p, q) ==
  /\ \A n \in 1 .. Len(r) : \/ \E k \in 1 .. Len(p) : r[n] = p[k]
                            \/ \E k \in 1 .. Len(q) : r[n] = q[k]
  /\ \A k \in 1 .. Len(p) : \E n \in 1 .. Len(r) : r[n] = p[k]
  /\ \A k \in 1 .. Len(q) : \E n \in 1 .. Len(r) : r[n] = q[k]
  /\ Distinct(p) /\ Distinct(q) /\ Apart(p, q) => Distinct(r)

LEMMA JoinIs ==
  ASSUME NEW S, NEW p \in Seq(S), NEW q \in Seq(S)
  PROVE  p \o q \in Seq(S) /\ Joined(p \o q, p, q)
<1> DEFINE r == p \o q
<1>1. Len(p) \in Nat /\ Len(q) \in Nat
  OBVIOUS
<1>2. /\ r \in Seq(S) /\ Len(r) = Len(p) + Len(q)
      /\ \A n \in 1 .. Len(p) + Len(q) : r[n] = IF n <= Len(p) THEN p[n] ELSE q[n - Len(p)]
  BY ConcatProperties
<1> HIDE DEF r
<1>3. \A n \in 1 .. Len(r) : \/ n \in 1 .. Len(p) /\ r[n] = p[n]
                             \/ n - Len(p) \in 1 .. Len(q) /\ r[n] = q[n - Len(p)]
  BY <1>1, <1>2
<1>4. ASSUME NEW k \in 1 .. Len(p) PROVE \E n \in 1 .. Len(r) : r[n] = p[k]
  <2>1. k \in 1 .. Len(r) /\ r[k] = p[k]
    BY <1>1, <1>2
  <2> QED BY <2>1
<1>5. ASSUME NEW k \in 1 .. Len(q) PROVE \E n \in 1 .. Len(r) : r[n] = q[k]
  <2>1. Len(p) + k \in 1 .. Len(r) /\ ~(Len(p) + k <= Len(p)) /\ Len(p) + k - Len(p) = k
    BY <1>1, <1>2
  <2>2. r[Len(p) + k] = q[k]
    BY <1>2, <2>1
  <2> QED BY <2>1, <2>2
<1>6. ASSUME Distinct(p), Distinct(q), Apart(p, q),
             NEW j \in 1 .. Len(r), NEW k \in 1 .. Len(r), r[j] = r[k]
      PROVE  j = k
  <2>1. CASE j \in 1 .. Len(p) /\ r[j] = p[j]
    BY <1>3, <1>6, <2>1 DEF Distinct, Apart
  <2>2. CASE j - Len(p) \in 1 .. Len(q) /\ r[j] = q[j - Len(p)]
    <3>1. CASE k \in 1 .. Len(p) /\ r[k] = p[k]
      BY <1>6, <2>2, <3>1 DEF Apart
    <3>2. CASE k - Len(p) \in 1 .. Len(q) /\ r[k] = q[k - Len(p)]
      <4>1. j - Len(p) = k - Len(p)
        BY <1>6, <2>2, <3>2 DEF Distinct
      <4> QED BY <1>1, <4>1
    <3> QED BY <1>3, <3>1, <3>2
  <2> QED BY <1>3, <2>1, <2>2
<1>7. Distinct(p) /\ Distinct(q) /\ Apart(p, q) => Distinct(r)
  BY <1>6 DEF Distinct
<1>8. \A n \in 1 .. Len(r) : \/ \E k \in 1 .. Len(p) : r[n] = p[k]
                             \/ \E k \in 1 .. Len(q) : r[n] = q[k]
  BY <1>3
<1>9. Joined(r, p, q)
  BY <1>4, <1>5, <1>7, <1>8 DEF Joined
<1> QED BY <1>2, <1>9 DEF r

\* The Python frames from the outermost on, and native frames among which is none of them.
Disjoint(tid, native, frames) ==
  /\ \A j, k \in 1 .. Len(frames) : j < k => frames[j].at < frames[k].at
  /\ \A k \in 1 .. Len(frames) : Kind(tid, frames[k].at) = "py"
  /\ Increasing(native)
  /\ \A k \in 1 .. Len(native) : Kind(tid, native[k]) \in {"c", "eval"}

IsNative(tid, native, k, i) == Kind(tid, i) = "c" /\ \E j \in 1 .. k : i = native[j]

\* Behind k native frames: the Python frames before the next one are printed, and C
\* frames among the k are printed or held.
Laid(acc, tid, native, k, frames) ==
  /\ acc.next \in 1 .. Len(frames) + 1
  /\ Distinct(acc.lines) /\ Distinct(acc.held) /\ Apart(acc.lines, acc.held)
  /\ \A n \in 1 .. Len(acc.lines) :
       \/ \E m \in 1 .. acc.next - 1 : acc.lines[n] = frames[m].at
       \/ IsNative(tid, native, k, acc.lines[n])
  /\ \A n \in 1 .. Len(acc.held) : IsNative(tid, native, k, acc.held[n])
  /\ \A m \in 1 .. acc.next - 1 : \E n \in 1 .. Len(acc.lines) : acc.lines[n] = frames[m].at
LEMMA LaysOn ==
  ASSUME NEW S, S \subseteq Nat, NEW frames \in PyFrames(S), NEW tid, NEW native \in Seq(S),
         NEW k \in 1 .. Len(native), NEW last, NEW acc \in Printed(S),
         Disjoint(tid, native, frames), Laid(acc, tid, native, k - 1, frames)
  PROVE  Laid(FormatNativeFrame(acc, tid, native[k], frames, last), tid, native, k, frames)
<1> DEFINE i == native[k]
           L == Len(frames)
           Before(j) == IsNative(tid, native, k - 1, j)
           Now(j) == IsNative(tid, native, k, j)
           one == <<i>>
           on == FormatNativeFrame(acc, tid, i, frames, last)
<1>1. /\ k \in Nat /\ k - 1 \in Nat /\ L \in Nat /\ i \in S /\ k \in 1 .. k
      /\ acc.lines \in Seq(S) /\ acc.held \in Seq(S) /\ acc.next \in Nat
      /\ Len(acc.lines) \in Nat /\ Len(acc.held) \in Nat
      /\ acc.next \in 1 .. L + 1
  BY FramesAre DEF Printed, Laid
<1>2. \A j : Before(j) => Now(j) /\ j # i
  <2> TAKE j
  <2>1. ASSUME Before(j) PROVE Now(j) /\ j # i
    <3>1. PICK m \in 1 .. k - 1 : j = native[m]
      BY <2>1 DEF IsNative
    <3>2. m \in 1 .. k /\ m \in 1 .. Len(native) /\ m < k
      BY <1>1, <3>1
    <3>3. i # j
      <4>1. native[m] < native[k]
        BY <3>2 DEF Disjoint, Increasing
      <4>2. native[m] \in Nat /\ native[k] \in Nat
        <5>1. native[m] \in S /\ native[k] \in S
          BY <3>2
        <5> QED BY <5>1
      <4> QED BY <3>1, <4>1, <4>2
    <3> QED BY <2>1, <3>1, <3>2, <3>3 DEF IsNative
  <2> QED BY <2>1
<1>3. \A m \in 1 .. L : frames[m].at \in S /\ Kind(tid, frames[m].at) = "py"
  BY FramesAre DEF Disjoint
<1>4. /\ Distinct(acc.lines) /\ Distinct(acc.held) /\ Apart(acc.lines, acc.held)
      /\ \A n \in 1 .. Len(acc.lines) : \/ \E m \in 1 .. acc.next - 1 : acc.lines[n] = frames[m].at
                                        \/ Before(acc.lines[n])
      /\ \A n \in 1 .. Len(acc.held) : Before(acc.held[n])
      /\ \A m \in 1 .. acc.next - 1 : \E n \in 1 .. Len(acc.lines) : acc.lines[n] = frames[m].at
  BY DEF Laid
<1>5. CASE ~IsEvalFrame(tid, i)
  <2>1. Now(i)
    <3>1. Kind(tid, i) = "c"
      BY <1>5 DEF Disjoint, IsEvalFrame
    <3> QED BY <1>1, <3>1 DEF IsNative
  <2>2. \A n \in 1 .. Len(acc.lines) : acc.lines[n] # i
    <3>1. \A m \in 1 .. acc.next - 1 : frames[m].at # i
      <4>1. \A m \in 1 .. acc.next - 1 : m \in 1 .. L
        BY <1>1
      <4>2. Kind(tid, i) = "c"
        BY <2>1 DEF IsNative
      <4> QED BY <1>3, <4>1, <4>2
    <3> QED BY <1>2, <1>4, <3>1
  <2>3. \A n \in 1 .. Len(acc.held) : acc.held[n] # i
    BY <1>2, <1>4
  <2>4. one \in Seq(S) /\ Distinct(one) /\ Len(one) = 1 /\ one[1] = i
    BY <1>1 DEF Distinct
  <2> HIDE DEF Before, Now, i, L
  <2>5. CASE last
    <3> DEFINE held == acc.held \o one
    <3>1. /\ on.lines = acc.lines /\ on.held = held /\ on.next = acc.next
      BY <1>1, <1>5, <2>5 DEF FormatNativeFrame, Printed
    <3>2. Apart(acc.held, one)
      BY <2>3, <2>4 DEF Apart
    <3>9. Joined(held, acc.held, one)
      BY <1>1, <2>4, JoinIs
    <3> HIDE DEF held, on, one
    <3>3. /\ Distinct(held)
          /\ \A n \in 1 .. Len(held) :
               (\E j \in 1 .. Len(acc.held) : held[n] = acc.held[j]) \/ held[n] = i
      BY <1>4, <2>4, <3>2, <3>9 DEF Joined
    <3>4. Apart(acc.lines, held)
      BY <1>4, <2>2, <3>3 DEF Apart
    <3>5. \A n \in 1 .. Len(held) : Now(held[n])
      BY <1>2, <1>4, <2>1, <3>3
    <3>6. \A n \in 1 .. Len(acc.lines) : \/ \E m \in 1 .. acc.next - 1 : acc.lines[n] = frames[m].at
                                         \/ Now(acc.lines[n])
      BY <1>2, <1>4
    <3>7. Laid(on, tid, native, k, frames)
      BY <1>1, <1>4, <3>1, <3>3, <3>4, <3>5, <3>6 DEF Laid, Now, L
    <3> QED BY <3>7 DEF on, i
  <2>6. CASE ~last
    <3> DEFINE lines == acc.lines \o one
    <3>1. /\ on.lines = lines /\ on.held = acc.held /\ on.next = acc.next
      BY <1>1, <1>5, <2>6 DEF FormatNativeFrame, Printed
    <3>2. Apart(acc.lines, one)
      BY <2>2, <2>4 DEF Apart
    <3>9. Joined(lines, acc.lines, one)
      BY <1>1, <2>4, JoinIs
    <3> HIDE DEF lines, on, one
    <3>3. /\ Distinct(lines)
          /\ \A n \in 1 .. Len(lines) :
               (\E j \in 1 .. Len(acc.lines) : lines[n] = acc.lines[j]) \/ lines[n] = i
          /\ \A j \in 1 .. Len(acc.lines) : \E n \in 1 .. Len(lines) : lines[n] = acc.lines[j]
      BY <1>4, <2>4, <3>2, <3>9 DEF Joined
    <3>4. Apart(lines, acc.held)
      BY <1>4, <2>3, <3>3 DEF Apart
    <3>5. \A n \in 1 .. Len(lines) : \/ \E m \in 1 .. acc.next - 1 : lines[n] = frames[m].at
                                     \/ Now(lines[n])
      BY <1>2, <1>4, <2>1, <3>3
    <3>6. \A n \in 1 .. Len(acc.held) : Now(acc.held[n])
      BY <1>2, <1>4
    <3>7. \A m \in 1 .. acc.next - 1 : \E n \in 1 .. Len(lines) : lines[n] = frames[m].at
      BY <1>4, <3>3
    <3>8. Laid(on, tid, native, k, frames)
      BY <1>1, <1>4, <3>1, <3>3, <3>4, <3>5, <3>6, <3>7 DEF Laid, Now, L
    <3> QED BY <3>8 DEF on, i
  <2> QED BY <2>5, <2>6
<1>6. CASE IsEvalFrame(tid, i) /\ acc.next > L
  <2>1. /\ on.lines = acc.lines /\ on.held = acc.held /\ on.next = acc.next
    BY <1>6 DEF FormatNativeFrame, Printed
  <2> HIDE DEF Before, Now, i, L, on
  <2>2. /\ \A n \in 1 .. Len(acc.lines) : \/ \E m \in 1 .. acc.next - 1 : acc.lines[n] = frames[m].at
                                          \/ Now(acc.lines[n])
        /\ \A n \in 1 .. Len(acc.held) : Now(acc.held[n])
    BY <1>2, <1>4
  <2>3. Laid(on, tid, native, k, frames)
    BY <1>1, <1>4, <2>1, <2>2 DEF Laid, Now, L
  <2> QED BY <2>3 DEF on, i
<1>7. CASE IsEvalFrame(tid, i) /\ ~(acc.next > L)
  <2> DEFINE to == NextEntry(frames, acc.next)
             more == [n \in 1 .. to - acc.next |-> frames[acc.next + n - 1].at]
             lines == acc.lines \o more
  <2>1. acc.next \in 1 .. L
    BY <1>1, <1>7
  <2>2. to \in acc.next + 1 .. L + 1
    BY <2>1, NextEntryIs
  <2>3. on = [acc EXCEPT !.held = <<>>, !.lines = @ \o more, !.next = to]
    BY <1>7 DEF FormatNativeFrame
  <2> HIDE DEF to
  <2>4. \A n \in 1 .. to - acc.next : /\ acc.next + n - 1 \in 1 .. L /\ acc.next + n - 1 \in 1 .. to - 1
                                      /\ ~(acc.next + n - 1 \in 1 .. acc.next - 1)
    BY <2>1, <2>2
  <2>5. to - acc.next \in Nat /\ to \in Nat \ {0} /\ to \in 1 .. L + 1
    BY <1>1, <2>1, <2>2
  <2>6. more \in Seq(S) /\ Len(more) = to - acc.next
        /\ \A n \in 1 .. to - acc.next : more[n] = frames[acc.next + n - 1].at
    <3> DEFINE e == to - acc.next
    <3>1. \A n \in 1 .. e : frames[acc.next + n - 1].at \in S
      BY <1>3, <2>4
    <3>2. e \in Nat
      BY <2>5
    <3> HIDE DEF e
    <3>3. [n \in 1 .. e |-> frames[acc.next + n - 1].at] \in [1 .. e -> S]
      BY <3>1
    <3>4. [n \in 1 .. e |-> frames[acc.next + n - 1].at] \in Seq(S)
          /\ Len([n \in 1 .. e |-> frames[acc.next + n - 1].at]) = e
      BY <3>2, <3>3
    <3> QED BY <3>4 DEF e
  <2> HIDE DEF more
  <2>7. lines \in Seq(S)
    BY <1>1, <2>6, ConcatProperties
  <2>8. on.lines = lines /\ on.held = <<>> /\ on.next = to
    <3> HIDE DEF lines, on
    <3>1. on = Printing(acc, lines, to)
      BY <2>3 DEF lines, Printing
    <3>2. acc \in Printed(S) /\ to \in Nat \ {0} /\ lines \in Seq(S)
      BY <2>5, <2>7
    <3> QED BY ONLY <3>1, <3>2, PrintingIs
  <2>9. \A a, b \in 1 .. L : frames[a].at = frames[b].at => a = b
    <3> TAKE a, b \in 1 .. L
    <3>1. (a < b => frames[a].at < frames[b].at) /\ (b < a => frames[b].at < frames[a].at)
      BY DEF Disjoint
    <3>2. frames[a].at \in Nat /\ frames[b].at \in Nat
      BY <1>3
    <3> QED BY <3>1, <3>2
  <2>10. Distinct(more)
    <3> SUFFICES ASSUME NEW a \in 1 .. Len(more), NEW b \in 1 .. Len(more), more[a] = more[b]
                 PROVE  a = b
      BY DEF Distinct
    <3>1. acc.next + a - 1 = acc.next + b - 1
      <4>1. /\ more[a] = frames[acc.next + a - 1].at /\ acc.next + a - 1 \in 1 .. L
            /\ more[b] = frames[acc.next + b - 1].at /\ acc.next + b - 1 \in 1 .. L
        BY <2>4, <2>6
      <4> HIDE DEF L
      <4>2. frames[acc.next + a - 1].at = frames[acc.next + b - 1].at
        BY <4>1
      <4> QED BY <2>9, <4>1, <4>2
    <3> QED BY <1>1, <2>5, <2>6, <3>1
  <2>11. Apart(acc.lines, more)
    <3> SUFFICES ASSUME NEW a \in 1 .. Len(acc.lines), NEW b \in 1 .. Len(more)
                 PROVE  acc.lines[a] # more[b]
      BY DEF Apart
    <3>1. more[b] = frames[acc.next + b - 1].at /\ acc.next + b - 1 \in 1 .. L
          /\ ~(acc.next + b - 1 \in 1 .. acc.next - 1)
      BY <2>4, <2>6
    <3>2. CASE Before(acc.lines[a])
      BY <1>3, <3>1, <3>2 DEF IsNative
    <3>3. CASE \E m \in 1 .. acc.next - 1 : acc.lines[a] = frames[m].at
      <4>1. PICK m \in 1 .. acc.next - 1 : acc.lines[a] = frames[m].at
        BY <3>3
      <4>2. m \in 1 .. L /\ m # acc.next + b - 1
        BY <1>1, <3>1, <4>1, SMTT(20)
      <4> QED BY <2>9, <3>1, <4>1, <4>2
    <3> QED BY <1>4, <3>2, <3>3
  <2>12. /\ Distinct(lines)
         /\ \A n \in 1 .. Len(lines) : \/ \E j \in 1 .. Len(acc.lines) : lines[n] = acc.lines[j]
                                       \/ \E j \in 1 .. Len(more) : lines[n] = more[j]
         /\ \A j \in 1 .. Len(acc.lines) : \E n \in 1 .. Len(lines) : lines[n] = acc.lines[j]
         /\ \A j \in 1 .. Len(more) : \E n \in 1 .. Len(lines) : lines[n] = more[j]
    <3>1. Joined(lines, acc.lines, more)
      BY <1>1, <2>6, JoinIs
    <3> HIDE DEF lines
    <3> QED BY <1>4, <2>10, <2>11, <3>1 DEF Joined
  <2> HIDE DEF lines, on, Before, Now, i, L
  <2>13. \A n \in 1 .. Len(lines) : \/ \E m \in 1 .. to - 1 : lines[n] = frames[m].at
                                    \/ Now(lines[n])
    <3> TAKE n \in 1 .. Len(lines)
    <3>1. CASE \E j \in 1 .. Len(acc.lines) : lines[n] = acc.lines[j]
      <4>1. 1 .. acc.next - 1 \subseteq 1 .. to - 1
        BY <1>1, <2>1, <2>2
      <4> QED BY <1>2, <1>4, <3>1, <4>1
    <3>2. CASE \E j \in 1 .. Len(more) : lines[n] = more[j]
      BY <2>4, <2>6, <3>2
    <3> QED BY <2>12, <3>1, <3>2
  <2>14. ASSUME NEW m \in 1 .. to - 1 PROVE \E n \in 1 .. Len(lines) : lines[n] = frames[m].at
    <3>1. CASE m \in 1 .. acc.next - 1
      BY <1>4, <2>12, <3>1
    <3>2. CASE ~(m \in 1 .. acc.next - 1)
      <4>1. m - acc.next + 1 \in 1 .. to - acc.next /\ acc.next + (m - acc.next + 1) - 1 = m
        <5>1. to \in Nat /\ m \in Nat
          BY <2>5
        <5>2. m >= acc.next /\ m <= to - 1
          BY <1>1, <3>2, <5>1
        <5> QED BY <1>1, <5>1, <5>2
      <4>2. more[m - acc.next + 1] = frames[m].at
        BY <2>6, <4>1
      <4> DEFINE j == m - acc.next + 1
      <4>3. j \in 1 .. Len(more) /\ more[j] = frames[m].at
        BY <2>6, <4>1, <4>2
      <4> HIDE DEF j
      <4> QED BY <2>12, <4>3
    <3> QED BY <3>1, <3>2
  <2>15. Distinct(on.held) /\ Apart(on.lines, on.held) /\ \A n \in 1 .. Len(on.held) : Now(on.held[n])
    BY <2>8 DEF Distinct, Apart
  <2>16. Laid(on, tid, native, k, frames)
    BY <2>5, <2>8, <2>12, <2>13, <2>14, <2>15 DEF Laid, Now, L
  <2> QED BY <2>16 DEF on, i
<1> QED BY <1>5, <1>6, <1>7
\* The report of a thread has its Python frames and C frames it was given, none twice.
PrintedFrom(r, th, mode, unreadable) ==
  /\ r \in ThreadReport /\ r.asserts = TRUE /\ r.state = th.state /\ r.tid = th.tid
  /\ Distinct(r.lines)
  /\ \A n \in 1 .. Len(r.lines) :
       \/ IsRead(th.state, unreadable, r.lines[n])
       \/ r.merged /\ IsNative(th.tid, th.native_frames, Len(th.native_frames), r.lines[n])
  /\ (r.merged /\ th.frames # <<>> => th.frames[Len(th.frames)].is_entry) =>
        \A k \in 1 .. Len(th.frames) : \E n \in 1 .. Len(r.lines) : r.lines[n] = th.frames[k].at
  /\ r.merged => mode # "off" /\ NumEvalFrames(th) = NumEntryFrames(th)

LEMMA PrintedIs ==
  ASSUME NEW th \in Thread, NEW mode, NEW unreadable,
         th.tid = TidOf[th.state], FramesOfState(th.frames, th.state, unreadable),
         Increasing(th.native_frames),
         \A k \in 1 .. Len(th.native_frames) : Kind(th.tid, th.native_frames[k]) \in {"c", "eval"}
  PROVE  PrintedFrom(FormatThread(th, mode), th, mode, unreadable)
<1> DEFINE r == FormatThread(th, mode)
           native == th.native_frames
           frames == Reverse(th.frames)
           N == Len(native)
           L == Len(th.frames)
<1>1. /\ native \in Seq(Line) /\ th.frames \in PyFrames(Line)
      /\ th.state \in TState /\ th.tid \in Tid
  BY DEF Thread
<1>2. /\ N \in Nat /\ L \in Nat /\ frames \in PyFrames(Line) /\ Len(frames) = L
      /\ Line \subseteq Nat /\ DOMAIN th.frames = 1 .. L
  BY <1>1, EntriesAreFinite, FramesAre DEF Line
<1>3. \A k \in 1 .. L : L - k + 1 \in 1 .. L /\ frames[k] = th.frames[L - k + 1]
  BY <1>1, ReverseIs DEF PyFrames
<1>4. \A k \in 1 .. L : frames[L - k + 1] = th.frames[k]
  <2> TAKE k \in 1 .. L
  <2>1. L - k + 1 \in 1 .. L /\ L - (L - k + 1) + 1 = k
    BY <1>2
  <2> QED BY <1>3, <2>1
<1>5. r \in ThreadReport /\ r.asserts = TRUE /\ r.state = th.state /\ r.tid = th.tid
  BY FormattedIs
<1>6. \A k \in 1 .. L : IsRead(th.state, unreadable, frames[k].at)
  BY <1>3 DEF FramesOfState
<1>7. \A j, k \in 1 .. L : j < k => frames[j].at < frames[k].at
  <2> TAKE j, k \in 1 .. L
  <2>1. /\ frames[j] = th.frames[L - j + 1] /\ frames[k] = th.frames[L - k + 1]
        /\ L - j + 1 \in 1 .. L /\ L - k + 1 \in 1 .. L
    BY <1>3
  <2>2. j < k => L - k + 1 < L - j + 1
    BY <1>2
  <2> QED BY <2>1, <2>2 DEF FramesOfState
<1>8. CASE mode # "off" /\ AreTheStacksMergeable(th)
  <2> DEFINE merged == FormatMergedStacks(th, mode = "last")
             last == (mode = "last")
  <2>1. PICK after :
          /\ Merges(Line, th, mode = "last", after)
          /\ \A k \in 0 .. N : Walked(after[k], th.tid, native, k, frames)
          /\ (frames # <<>> => frames[1].is_entry) => after[N].next = Len(frames) + 1
    BY <1>1, <1>8, MergingEnds
  <2> HIDE DEF native, frames, N, L
  <2>2. after \in [0 .. N -> Printed(Line)] /\ Passes(after, native, th.tid, frames, last)
        /\ merged = [after[N] EXCEPT !.lines = @ \o after[N].held]
    BY <2>1 DEF Merges, native, frames, N
  <2>3. Disjoint(th.tid, native, frames)
    <3>1. \A k \in 1 .. Len(frames) : Kind(th.tid, frames[k].at) = "py"
      BY <1>2, <1>6 DEF IsRead
    <3> QED BY <1>2, <1>7, <3>1 DEF Disjoint, native
  <2> DEFINE Good == {k \in 0 .. N : Laid(after[k], th.tid, native, k, frames)}
  <2>4. 0 \in Good
    <3>1. after[0] = [lines |-> <<>>, held |-> <<>>, next |-> 1, asserts |-> TRUE]
      BY <2>2 DEF Passes
    <3>2. after[0].lines = <<>> /\ after[0].held = <<>> /\ after[0].next = 1
      BY <3>1
    <3>3. Laid(after[0], th.tid, native, 0, frames)
      BY <1>2, <3>2 DEF Laid, Distinct, Apart
    <3> QED BY <1>2, <3>3
  <2>5. ASSUME NEW k \in 1 .. N, k - 1 \in Good PROVE k \in Good
    <3>1. k - 1 \in 0 .. N /\ k \in 0 .. N /\ k \in 1 .. Len(native)
      BY <1>2 DEF N
    <3>2. after[k - 1] \in Printed(Line) /\ Laid(after[k - 1], th.tid, native, k - 1, frames)
      BY <2>2, <2>5, <3>1
    <3>3. after[k] = FormatNativeFrame(after[k - 1], th.tid, native[k], frames, last)
      BY <2>2, <3>1 DEF Passes
    <3>4. native \in Seq(Line)
      BY <1>1 DEF native
    <3>5. Laid(after[k], th.tid, native, k, frames)
      <4> HIDE DEF Good, last
      <4> DEFINE acc == after[k - 1]
      <4>1. acc \in Printed(Line) /\ Laid(acc, th.tid, native, k - 1, frames)
        BY <3>2
      <4> HIDE DEF acc
      <4>2. Laid(FormatNativeFrame(acc, th.tid, native[k], frames, last), th.tid, native, k, frames)
        BY ONLY <1>2, <2>3, <3>1, <3>4, <4>1, LaysOn
      <4> QED BY <3>3, <4>2 DEF acc
    <3> QED BY <3>1, <3>5
  <2>6. N \in Good
    <3> HIDE DEF Good
    <3>1. 0 .. N \subseteq Good
      BY <1>2, <2>4, <2>5, StepByStep
    <3> QED BY <1>2, <3>1
  <2> DEFINE done == after[N]
  <2>7. done \in Printed(Line) /\ Laid(done, th.tid, native, N, frames)
    BY <1>2, <2>2, <2>6
  <2>8. merged = [done EXCEPT !.lines = @ \o done.held]
    BY <2>2
  <2> HIDE DEF done, merged
  <2>9. /\ done.lines \in Seq(Line) /\ done.held \in Seq(Line)
        /\ merged.lines = done.lines \o done.held
    BY <2>7, <2>8 DEF Printed
  <2> DEFINE lines == done.lines \o done.held
  <2>10. Joined(lines, done.lines, done.held)
    BY <2>9, JoinIs
  <2>11. r.lines = lines /\ r.merged = TRUE
    BY <1>8, <2>9 DEF FormatThread, merged, last
  <2> HIDE DEF lines, r
  <2>12. Distinct(lines)
    BY <2>7, <2>10 DEF Joined, Laid
  <2>13. ASSUME NEW n \in 1 .. Len(lines)
         PROVE  \/ IsRead(th.state, unreadable, lines[n])
                \/ IsNative(th.tid, native, N, lines[n])
    <3>1. CASE \E k \in 1 .. Len(done.held) : lines[n] = done.held[k]
      BY <2>7, <3>1 DEF Laid
    <3>2. CASE \E k \in 1 .. Len(done.lines) : lines[n] = done.lines[k]
      <4>1. \/ IsNative(th.tid, native, N, lines[n])
            \/ \E m \in 1 .. done.next - 1 : lines[n] = frames[m].at
        BY <2>7, <3>2 DEF Laid
      <4>2. 1 .. done.next - 1 \subseteq 1 .. L
        BY <1>2, <2>7 DEF Laid
      <4> QED BY <1>6, <4>1, <4>2
    <3> QED BY <2>10, <3>1, <3>2 DEF Joined
  <2>14. ASSUME th.frames # <<>> => th.frames[L].is_entry, NEW k \in 1 .. L
         PROVE  \E n \in 1 .. Len(lines) : lines[n] = th.frames[k].at
    <3>1. frames[1].is_entry
      <4>1. 1 \in 1 .. L /\ L - 1 + 1 = L /\ th.frames # <<>>
        BY <1>2 DEF L
      <4> QED BY <1>3, <2>14, <4>1
    <3>2. done.next = L + 1
      BY <1>2, <2>1, <3>1 DEF done
    <3>3. L - k + 1 \in 1 .. done.next - 1
      BY <1>2, <3>2
    <3>4. PICK m \in 1 .. Len(done.lines) : done.lines[m] = frames[L - k + 1].at
      BY <2>7, <3>3 DEF Laid
    <3>5. done.lines[m] = th.frames[k].at
      BY <1>4, <3>4
    <3> QED BY <2>10, <3>5 DEF Joined
  <2>15. mode # "off" /\ NumEvalFrames(th) = NumEntryFrames(th)
    BY <1>8 DEF AreTheStacksMergeable
  <2>16. PrintedFrom(r, th, mode, unreadable)
    BY <1>5, <2>11, <2>12, <2>13, <2>14, <2>15 DEF PrintedFrom, N, L, native
  <2> QED BY <2>16 DEF r
<1>9. CASE ~(mode # "off" /\ AreTheStacksMergeable(th))
  <2> DEFINE lines == [n \in DOMAIN th.frames |-> Reverse(th.frames)[n].at]
  <2>1. r.lines = lines /\ r.merged = FALSE
    BY <1>9 DEF FormatThread
  <2>2. \A n \in 1 .. L : lines[n] = frames[n].at
    BY <1>2
  <2>3. Len(lines) = L
    BY <1>2
  <2> HIDE DEF r, lines, frames, L
  <2>4. Distinct(lines)
    <3> SUFFICES ASSUME NEW j \in 1 .. L, NEW k \in 1 .. L, lines[j] = lines[k] PROVE j = k
      BY <2>3 DEF Distinct
    <3>1. frames[j].at = frames[k].at /\ frames[j].at \in Nat /\ frames[k].at \in Nat
      BY <1>2, <2>2, FramesAre
    <3>2. ~(j < k) /\ ~(k < j)
      BY <1>7, <3>1
    <3> QED BY <1>2, <3>2
  <2>5. \A n \in 1 .. Len(lines) : IsRead(th.state, unreadable, lines[n])
    BY <1>6, <2>2, <2>3
  <2>6. \A k \in 1 .. L : \E n \in 1 .. Len(lines) : lines[n] = th.frames[k].at
    <3> TAKE k \in 1 .. L
    <3>1. L - k + 1 \in 1 .. L
      BY <1>2
    <3>2. lines[L - k + 1] = th.frames[k].at
      BY <1>4, <2>2, <3>1
    <3> QED BY <2>3, <3>1, <3>2
  <2>7. PrintedFrom(r, th, mode, unreadable)
    BY <1>5, <2>1, <2>4, <2>5, <2>6 DEF PrintedFrom, L
  <2> QED BY <2>7 DEF r
<1> QED BY <1>8, <1>9
-----------------------------------------------------------------------------
(* Which entry frames are read: all, when there are as many as eval frames. *)

\* A Python frame that an eval loop has called, of whichever thread state.
IsEntryPlace(t, i) == Kind(t, i) = "py" /\ Kind(t, i - 1) = "eval"

LEMMA EntriesCover ==
  ASSUME NEW t, NEW native, NativesOf(native, t, 0), NEW E,
         \A i \in E : i \in 1 .. Len(stack[t]) /\ Kind(t, i - 1) = "eval" /\ i > 1,
         Cardinality(E) = Cardinality(Evals(t, native, Len(native))),
         NEW i \in 1 .. Len(stack[t]), i > 1, IsEntryPlace(t, i)
  PROVE  i \in E
<1> DEFINE d == Len(stack[t])
           N == Len(native)
           V == Evals(t, native, N)
           At(j) == CHOOSE n \in 1 .. N : native[n] = j - 1
           f == [j \in E |-> At(j)]
<1>1. /\ native \in Seq(1 .. d) /\ N \in Nat
      /\ \A j \in 1 .. d : Kind(t, j) # "py" => \E k \in 1 .. N : native[k] = j
  BY DEF NativesOf
<1>2. \A j \in 1 .. d : j > 1 /\ Kind(t, j - 1) = "eval" =>
         \E n \in 1 .. N : native[n] = j - 1
  <2> TAKE j \in 1 .. d
  <2> HAVE j > 1 /\ Kind(t, j - 1) = "eval"
  <2>1. j - 1 \in 1 .. d /\ Kind(t, j - 1) # "py"
    <3>1. d \in Nat
      <4>1. d >= 1 /\ j \in Int
        OBVIOUS
      <4> QED OBVIOUS
    <3> QED BY <3>1
  <2> QED BY <1>1, <2>1
<1> HIDE DEF d, N, V, At
<1>3. \A j \in E : j \in 1 .. d /\ Kind(t, j - 1) = "eval" /\ j > 1
  BY DEF d
<1>4. \A j \in E : At(j) \in 1 .. N /\ native[At(j)] = j - 1
  BY <1>2, <1>3 DEF At
<1>5. \A n : n \in V <=> n \in 1 .. N /\ Kind(t, native[n]) = "eval"
  BY DEF V, Evals, IsEvalFrame
<1>6. \A j \in E : At(j) \in V
  BY <1>3, <1>4, <1>5
<1>7. \A j, k \in E : At(j) = At(k) => j = k
  <2> TAKE j, k \in E
  <2> HAVE At(j) = At(k)
  <2>1. j - 1 = k - 1
    BY <1>4
  <2>2. j \in 1 .. d /\ k \in 1 .. d
    BY <1>3
  <2> QED BY <2>1, <2>2
<1>8. f \in Injection(E, V)
  BY <1>6, <1>7 DEF Injection, IsInjective
<1>9. IsFiniteSet(V)
  <2>1. V \in SUBSET (1 .. N)
    BY <1>5
  <2>2. IsFiniteSet(1 .. N)
    BY <1>1, FS_Interval
  <2> QED BY <2>1, <2>2, FS_Subset
<1>10. f \in Surjection(E, V)
  <2>1. Cardinality(E) = Cardinality(V)
    BY DEF V, N
  <2> HIDE DEF f
  <2> QED BY <1>8, <1>9, <2>1, FS_Injection
<1>11. PICK n \in 1 .. N : native[n] = i - 1
  BY <1>2 DEF IsEntryPlace, d
<1>12. n \in V
  BY <1>5, <1>11 DEF IsEntryPlace
<1>13. PICK j \in E : At(j) = n
  BY <1>10, <1>12 DEF Surjection
<1>14. j - 1 = i - 1 /\ j \in 1 .. d
  BY <1>3, <1>4, <1>11, <1>13
<1>15. j = i
  BY <1>14
<1> QED BY <1>15

\* The outermost frame of a thread state whose entry frames are all read is an entry.
LEMMA OutermostIsEntry ==
  ASSUME StacksInv, NEW s \in TState, NEW unreadable, NEW frames,
         FramesOfState(frames, s, unreadable), frames # <<>>,
         \A i \in 1 .. Len(stack[TidOf[s]]) :
           i > 1 /\ IsEntryPlace(TidOf[s], i) /\ stack[TidOf[s]][i].of = s => IsRead(s, unreadable, i)
  PROVE  frames[Len(frames)].is_entry
<1> DEFINE t == TidOf[s]
           d == Len(stack[t])
           L == Len(frames)
           i == frames[L].at
           Own(j) == Kind(t, j) = "py" /\ stack[t][j].of = s
           T == {j \in 1 .. i : \A k \in j .. i : Own(k)}
<1>1. /\ t \in Tid /\ d \in Nat
      /\ \A j \in 1 .. d : Kind(t, j) = "py" => j > 1 /\ Calls(stack[t][j - 1], stack[t][j])
  <2>1. t \in Tid
    BY DEF Tid
  <2> QED BY <2>1, StackOf
<1>2. frames \in PyFrames(1 .. d)
  BY DEF FramesOfState
<1>3. L \in Nat /\ L > 0 /\ L \in 1 .. L /\ \A k \in 1 .. L : frames[k].at \in 1 .. d
  <2> HIDE DEF d
  <2>1. L \in Nat /\ \A k \in 1 .. L : frames[k].at \in 1 .. d
    BY <1>2, FramesAre
  <2>2. L # 0
    BY <1>2 DEF PyFrames
  <2> QED BY <2>1, <2>2
<1>4. /\ IsRead(s, unreadable, i) /\ i \in 1 .. d
      /\ frames[L].is_entry <=> Kind(t, i - 1) = "eval"
  BY <1>3 DEF FramesOfState
<1>5. \A j \in 1 .. d : IsRead(s, unreadable, j) => i <= j
  <2> TAKE j \in 1 .. d
  <2> HAVE IsRead(s, unreadable, j)
  <2>1. PICK k \in 1 .. L : frames[k].at = j
    BY DEF FramesOfState
  <2>2. k < L => frames[L].at < frames[k].at
    BY <1>3 DEF FramesOfState
  <2> HIDE DEF d, L
  <2> QED BY <1>1, <1>3, <2>1, <2>2 DEF i
<1> HIDE DEF d, L, i, t
<1>6. T \subseteq Nat /\ T # {}
  <2>1. Own(i)
    BY <1>4 DEF IsRead, t
  <2>2. \A k \in i .. i : k = i
    BY <1>1, <1>4
  <2>3. i \in T
    BY <1>1, <1>4, <2>1, <2>2
  <2> QED BY <2>3
<1>7. PICK m \in T : \A j \in T : m <= j
  BY <1>6, LeastOf
<1>8. m \in 1 .. i /\ m \in 1 .. d /\ m \in m .. i
  BY <1>1, <1>4
<1>9. Own(m)
  BY <1>8
<1>10. m > 1 /\ Calls(stack[t][m - 1], stack[t][m])
  BY <1>1, <1>8, <1>9
<1>11. Kind(t, m - 1) = "eval"
  <2>1. CASE Kind(t, m - 1) = "py"
    <3>1. Own(m - 1)
      BY <1>9, <1>10, <2>1 DEF Calls
    <3>2. m - 1 \in 1 .. i
      BY <1>1, <1>4, <1>8, <1>10
    <3>3. \A k \in m - 1 .. i : k = m - 1 \/ k \in m .. i
      BY <1>1, <1>4, <1>8
    <3>4. m - 1 \in T
      BY <3>1, <3>2, <3>3
    <3>5. m <= m - 1
      BY <1>7, <3>4
    <3> QED BY <1>6, <3>5
  <2> QED BY <1>10, <2>1 DEF Calls, Kind
<1>12. IsRead(s, unreadable, m)
  BY <1>8, <1>9, <1>10, <1>11 DEF IsEntryPlace, t, d
<1>13. m = i
  BY <1>1, <1>4, <1>5, <1>8, <1>12
<1>14. Kind(t, i - 1) = "eval"
  BY <1>11, <1>13
<1> QED BY <1>4, <1>14 DEF L
-----------------------------------------------------------------------------
(* What a report is of: the threads as they were read, and as they were     *)
(* normalised, and the native frames of the OS threads.                     *)

ReportOf(rep, threads, normal, natives) ==
  /\ rep.mode \in Modes
  /\ rep.threads \in Seq(ThreadReport) /\ Len(rep.threads) = Len(normal)
  /\ ReadThreads(threads, rep.unreadable, natives)
  /\ Regrouped(threads, normal)
  /\ \A t \in Tid : /\ Divided(threads, normal, rep.mode, t, natives[t])
                    /\ NativesOf(natives[t], t, IF rep.mode = "off" THEN 1 ELSE rep.lost[t])
  /\ \A n \in 1 .. Len(normal) :
       PrintedFrom(rep.threads[n], normal[n], rep.mode, rep.unreadable)
  /\ \A t \in Tid : \A i \in 1 .. Len(stack[t]) :
       Kind(t, i) = "py" /\ Reported(stack[t][i].of) =>
         \E n \in 1 .. Len(threads) : threads[n].state = stack[t][i].of

LEMMA NormalIsPrinted ==
  ASSUME StacksInv, NEW threads, NEW normal, NEW natives, NEW mode, NEW unreadable, NEW lost,
         ReadThreads(threads, unreadable, natives), Regrouped(threads, normal),
         \A t \in Tid : NativesOf(natives[t], t, lost[t]),
         NEW n \in 1 .. Len(normal)
  PROVE  PrintedFrom(FormatThread(normal[n], mode), normal[n], mode, unreadable)
<1> DEFINE th == normal[n]
<1>1. PICK m \in 1 .. Len(threads) :
        /\ Same(th, threads[m])
        /\ Increasing(th.native_frames)
        /\ Within(th.native_frames, threads[m].native_frames)
  BY DEF Regrouped
<1>2. th \in Thread
  BY DEF Regrouped
<1> HIDE DEF th
<1>3. /\ threads[m].tid = TidOf[threads[m].state]
      /\ FramesOfState(threads[m].frames, threads[m].state, unreadable)
      /\ threads[m].native_frames = natives[threads[m].tid]
  BY DEF ReadThreads
<1>4. /\ th.tid = TidOf[th.state] /\ FramesOfState(th.frames, th.state, unreadable)
      /\ th.tid = threads[m].tid
  BY <1>1, <1>3 DEF Same
<1>5. th.tid \in Tid
  BY <1>2 DEF Thread
<1>6. ASSUME NEW k \in 1 .. Len(th.native_frames)
      PROVE  Kind(th.tid, th.native_frames[k]) \in {"c", "eval"}
  <2> DEFINE native == natives[th.tid]
  <2>1. PICK j \in 1 .. Len(native) : th.native_frames[k] = native[j]
    BY <1>1, <1>3, <1>4 DEF Within
  <2>2. native \in Seq(1 .. Len(stack[th.tid])) /\ Kind(th.tid, native[j]) # "py"
    BY <1>5 DEF NativesOf
  <2>3. native[j] \in 1 .. Len(stack[th.tid])
    <3> DEFINE d == Len(stack[th.tid])
    <3> HIDE DEF d, native
    <3>1. native \in Seq(1 .. d)
      BY <2>2 DEF d
    <3> QED BY <3>1 DEF d
  <2> HIDE DEF native
  <2>4. Kind(th.tid, native[j]) \in {"c", "eval", "py"}
    BY <1>5, <2>3, StackOf
  <2> QED BY <2>1, <2>2, <2>4
<1>7. PrintedFrom(FormatThread(th, mode), th, mode, unreadable)
  BY <1>1, <1>2, <1>4, <1>6, PrintedIs
<1> QED BY <1>7 DEF th

LEMMA CaptureIs ==
  ASSUME StacksInv, Capture
  PROVE  \E threads, normal, natives : ReportOf(report', threads, normal, natives)
<1>1. PICK order \in Orders, idle \in Idle, mode \in Modes, lost \in Losses,
           unreadable \in Unreadable, heap \in Heaps :
        LET threads == Selected(
              [n \in DOMAIN order |-> BuildPythonThread(order[n], mode, lost, unreadable, heap)],
              {n \in DOMAIN order : Collected(order[n], idle)})
            normal == NormalizeThreads(threads, mode)
        IN report' = [mode |-> mode, lost |-> lost, unreadable |-> unreadable,
                      threads |-> [n \in DOMAIN normal |-> FormatThread(normal[n], mode)]]
  BY Zenon DEF Capture
<1> DEFINE threads == ThreadsRead(order, idle, mode, lost, unreadable, heap)
           normal == NormalizeThreads(threads, mode)
           natives == Natives(mode, lost)
           printed == [n \in DOMAIN normal |-> FormatThread(normal[n], mode)]
<1>2. report' = [mode |-> mode, lost |-> lost, unreadable |-> unreadable, threads |-> printed]
  BY <1>1 DEF ThreadsRead
<1>3. /\ ReadThreads(threads, unreadable, natives)
      /\ \A s \in TState : Collected(s, idle) => \E n \in 1 .. Len(threads) : threads[n].state = s
  <2>1. StacksInv /\ order \in Orders /\ lost \in Losses /\ heap \in Heaps
    OBVIOUS
  <2>2. /\ ReadThreads(threads, unreadable, natives)
        /\ \A n \in 1 .. Len(threads) :
             /\ Collected(threads[n].state, idle)
             /\ threads[n].stack_anchor = StackAnchor(threads[n].state, heap)
        /\ \A s \in TState :
             Collected(s, idle) => \E n \in 1 .. Len(threads) : threads[n].state = s
    BY ONLY <2>1, ReadThreadsAre
  <2> QED BY <2>2
<1> HIDE DEF threads
<1>4. Regrouped(threads, normal) /\ \A t : Divided(threads, normal, mode, t, natives[t])
  BY <1>3, NormalizeThreadsIs
<1> DEFINE omitted == [t \in Tid |-> IF mode = "off" THEN 1 ELSE lost[t]]
<1>5. \A t \in Tid : lost[t] \in Nat
  BY DEF Losses
<1>6. ASSUME NEW t \in Tid PROVE NativesOf(natives[t], t, omitted[t])
  <2>1. CASE mode = "off"
    <3>1. natives[t] = <<>> /\ omitted[t] = 1
      BY <2>1 DEF Natives
    <3> HIDE DEF natives, omitted
    <3> QED BY <3>1 DEF NativesOf
  <2>2. CASE mode # "off"
    <3>1. natives[t] = NativeFrames(t, lost[t]) /\ omitted[t] = lost[t]
      BY <2>2 DEF Natives
    <3> HIDE DEF natives, omitted
    <3> QED BY <1>5, <3>1, NativesAre
  <2> QED BY <2>1, <2>2
<1> HIDE DEF natives, normal, omitted
<1>7. \A n \in 1 .. Len(normal) :
        PrintedFrom(FormatThread(normal[n], mode), normal[n], mode, unreadable)
  BY <1>3, <1>4, <1>6, NormalIsPrinted
<1>8. normal \in Seq(Thread) /\ DOMAIN normal = 1 .. Len(normal) /\ Len(normal) \in Nat
  BY <1>4 DEF Regrouped
<1>9. /\ \A n \in 1 .. Len(normal) : printed[n] = FormatThread(normal[n], mode)
      /\ printed \in Seq(ThreadReport) /\ Len(printed) = Len(normal)
  <2>1. \A n \in 1 .. Len(normal) : FormatThread(normal[n], mode) \in ThreadReport
    BY <1>7 DEF PrintedFrom
  <2> DEFINE N == Len(normal)
             R == ThreadReport
  <2> HIDE DEF N, R
  <2>2. printed = [n \in 1 .. N |-> FormatThread(normal[n], mode)] /\ N \in Nat
    BY <1>8 DEF N
  <2> HIDE DEF printed
  <2>3. printed \in [1 .. N -> R]
    BY <2>1, <2>2 DEF N, R
  <2>4. printed \in Seq(R) /\ Len(printed) = N
    BY ONLY <2>2, <2>3
  <2> QED BY <2>2, <2>4 DEF N, R
<1>10. ASSUME NEW t \in Tid, NEW i \in 1 .. Len(stack[t]),
              Kind(t, i) = "py", Reported(stack[t][i].of)
       PROVE  \E n \in 1 .. Len(threads) : threads[n].state = stack[t][i].of
  <2> DEFINE s == stack[t][i].of
  <2>1. s \in TState /\ TidOf[s] = t
    BY <1>10, StackOf
  <2>2. InChain(s, i)
    BY <1>10, <2>1 DEF InChain
  <2> HIDE DEF s
  <2>3. FrameChain(s) # <<>>
    <3>1. \E k \in 1 .. Len(FrameChain(s)) : FrameChain(s)[k] = i
      BY <2>1, <2>2, ChainIs
    <3> HIDE DEF FrameChain
    <3> QED BY <3>1
  <2>4. Collected(s, idle)
    BY <1>10, <2>3 DEF Collected, Reported, s
  <2> QED BY <1>3, <2>1, <2>4 DEF s
<1> HIDE DEF printed
<1>11. /\ report'.mode = mode /\ report'.lost = lost /\ report'.unreadable = unreadable
       /\ report'.threads = printed
  BY <1>2
<1>12. \A t \in Tid : NativesOf(natives[t], t, IF mode = "off" THEN 1 ELSE lost[t])
  BY <1>6 DEF omitted
<1>13. ReportOf(report', threads, normal, natives)
  BY <1>3, <1>4, <1>7, <1>9, <1>10, <1>11, <1>12 DEF ReportOf
<1> QED BY <1>13
LEMMA NormalIs ==
  ASSUME NEW threads, NEW normal, NEW natives, NEW unreadable,
         ReadThreads(threads, unreadable, natives), Regrouped(threads, normal),
         NEW n \in 1 .. Len(normal)
  PROVE  /\ normal[n] \in Thread /\ normal[n].tid = TidOf[normal[n].state]
         /\ normal[n].tid \in Tid /\ normal[n].state \in TState
         /\ FramesOfState(normal[n].frames, normal[n].state, unreadable)
<1>1. PICK m \in 1 .. Len(threads) : Same(normal[n], threads[m])
  BY DEF Regrouped
<1>2. normal[n] \in Thread
  BY DEF Regrouped
<1>3. /\ threads[m].tid = TidOf[threads[m].state]
      /\ FramesOfState(threads[m].frames, threads[m].state, unreadable)
  BY DEF ReadThreads
<1> DEFINE th == normal[n]
<1> HIDE DEF th
<1>4. th.tid = TidOf[th.state] /\ FramesOfState(th.frames, th.state, unreadable)
  BY <1>1, <1>3 DEF Same, th
<1>5. th \in Thread
  BY <1>2 DEF th
<1>6. th.tid \in Tid /\ th.state \in TState
  BY <1>5 DEF Thread
<1> QED BY <1>4, <1>5, <1>6 DEF th

\* A thread with all native frames that is merged has all entry frames on its stack.
LEMMA FullNativesCover ==
  ASSUME StacksInv, NEW th \in Thread, NEW unreadable, th.tid = TidOf[th.state],
         FramesOfState(th.frames, th.state, unreadable),
         NativesOf(th.native_frames, th.tid, 0), NumEvalFrames(th) = NumEntryFrames(th),
         NEW i \in 1 .. Len(stack[th.tid]), i > 1, IsEntryPlace(th.tid, i)
  PROVE  i \in EntriesAt(th)
<1> DEFINE t == th.tid
           native == th.native_frames
           E == EntriesAt(th)
<1>1. /\ Cardinality(E) = NumEntryFrames(th)
      /\ \A j \in E : /\ j \in 1 .. Len(stack[t]) /\ Kind(t, j - 1) = "eval"
                      /\ IsRead(th.state, unreadable, j)
  BY EntriesAtIs
<1>2. native \in Seq(Line) /\ DOMAIN native = 1 .. Len(native) /\ t \in Tid
  BY DEF Thread
<1>3. Cardinality(E) = Cardinality(Evals(t, native, Len(native)))
  BY <1>1, <1>2 DEF NumEvalFrames, Evals
<1>4. \A j \in E : j > 1
  BY <1>1, <1>2, StackOf DEF IsRead
<1> HIDE DEF E, native, t
<1>5. /\ NativesOf(native, t, 0) /\ i \in 1 .. Len(stack[t]) /\ IsEntryPlace(t, i)
      /\ \A j \in E : j \in 1 .. Len(stack[t]) /\ Kind(t, j - 1) = "eval" /\ j > 1
  BY <1>1, <1>4 DEF native, t
<1>6. i \in E
  BY <1>3, <1>5, EntriesCover
<1> QED BY <1>6 DEF E

LEMMA EntryPlacesAre ==
  ASSUME StacksInv, NEW threads, NEW unreadable, NEW natives,
         ReadThreads(threads, unreadable, natives), NEW t \in Tid, NEW i \in EntryPlaces(threads, t)
  PROVE  /\ i \in 1 .. Len(stack[t]) /\ i > 1 /\ IsEntryPlace(t, i) /\ <<t, i>> \notin unreadable
<1>1. PICK m \in 1 .. Len(threads) : threads[m].tid = t /\ i \in EntriesAt(threads[m])
  BY DEF EntryPlaces
<1> DEFINE th == threads[m]
<1>2. /\ th \in Thread /\ th.tid = TidOf[th.state]
      /\ FramesOfState(th.frames, th.state, unreadable)
  BY DEF ReadThreads
<1> HIDE DEF th
<1>3. i \in EntriesAt(th) /\ t = TidOf[th.state]
  BY <1>1, <1>2 DEF th
<1>4. /\ i \in 1 .. Len(stack[t]) /\ IsRead(th.state, unreadable, i)
      /\ Kind(t, i - 1) = "eval"
  BY <1>2, <1>3, EntriesAtIs
<1>5. Kind(t, i) = "py" /\ <<t, i>> \notin unreadable
  BY <1>3, <1>4 DEF IsRead
<1>6. i > 1
  BY <1>4, <1>5, StackOf
<1> QED BY <1>4, <1>5, <1>6 DEF IsEntryPlace

\* If a thread is merged although nothing native is lost, no entry frame on its OS
\* thread is unreadable.
LEMMA MergedReadsEntries ==
  ASSUME StacksInv, NEW threads, NEW normal, NEW natives, NEW unreadable, NEW mode,
         ReadThreads(threads, unreadable, natives), Regrouped(threads, normal),
         NEW n \in 1 .. Len(normal), NEW t \in Tid, normal[n].tid = t,
         Divided(threads, normal, mode, t, natives[t]), NativesOf(natives[t], t, 0),
         NumEvalFrames(normal[n]) = NumEntryFrames(normal[n]),
         NEW i \in 1 .. Len(stack[t]), i > 1, IsEntryPlace(t, i)
  PROVE  <<t, i>> \notin unreadable
<1> DEFINE th == normal[n]
           native == natives[t]
<1>1. /\ th \in Thread /\ th.tid = TidOf[th.state]
      /\ FramesOfState(th.frames, th.state, unreadable)
  BY NormalIs
<1>2. n \in OfThread(normal, t)
  BY DEF OfThread
<1>3. CASE \A m \in OfThread(normal, t) : normal[m].native_frames = native
  <2>1. th.native_frames = native
    BY <1>2, <1>3
  <2> HIDE DEF th, native
  <2>2. /\ NativesOf(th.native_frames, th.tid, 0) /\ NumEvalFrames(th) = NumEntryFrames(th)
        /\ th.tid = t
    BY <2>1 DEF th, native
  <2>3. i \in EntriesAt(th)
    BY <1>1, <2>2, FullNativesCover
  <2>4. IsRead(th.state, unreadable, i)
    BY <1>1, <2>3, EntriesAtIs
  <2> QED BY <1>1, <2>2, <2>4 DEF IsRead
<1>4. CASE Cardinality(Evals(t, native, Len(native))) = Cardinality(EntryPlaces(threads, t))
  <2> DEFINE E == EntryPlaces(threads, t)
  <2>1. \A j \in E : j \in 1 .. Len(stack[t]) /\ Kind(t, j - 1) = "eval" /\ j > 1
    BY EntryPlacesAre DEF IsEntryPlace
  <2> HIDE DEF native, E
  <2>2. i \in E
    BY <1>4, <2>1, EntriesCover DEF native, E
  <2> QED BY <2>2, EntryPlacesAre DEF E
<1> QED BY <1>3, <1>4 DEF Divided

\* All that is read of a thread is printed, unless both stacks are incomplete.
LEMMA AllIsPrinted ==
  ASSUME StacksInv, NEW rep, NEW threads, NEW normal, NEW natives,
         ReportOf(rep, threads, normal, natives),
         NEW n \in 1 .. Len(normal), NEW t \in Tid, normal[n].tid = t,
         rep.lost[t] = 0 \/ rep.unreadable = {}, NEW k \in 1 .. Len(normal[n].frames)
  PROVE  \E l \in 1 .. Len(rep.threads[n].lines) : rep.threads[n].lines[l] = normal[n].frames[k].at
<1> DEFINE th == normal[n]
           r == rep.threads[n]
<1>1. /\ ReadThreads(threads, rep.unreadable, natives) /\ Regrouped(threads, normal)
      /\ PrintedFrom(r, th, rep.mode, rep.unreadable)
      /\ Divided(threads, normal, rep.mode, t, natives[t])
      /\ NativesOf(natives[t], t, IF rep.mode = "off" THEN 1 ELSE rep.lost[t])
  BY DEF ReportOf
<1>2. /\ th \in Thread /\ th.tid = TidOf[th.state] /\ th.state \in TState
      /\ FramesOfState(th.frames, th.state, rep.unreadable)
  BY <1>1, NormalIs
<1>3. ASSUME r.merged, th.frames # <<>> PROVE th.frames[Len(th.frames)].is_entry
  <2>1. rep.mode # "off" /\ NumEvalFrames(th) = NumEntryFrames(th)
    BY <1>1, <1>3 DEF PrintedFrom
  <2>2. rep.lost[t] = 0 => NativesOf(natives[t], t, 0)
    BY <1>1, <2>1
  <2>3. ASSUME NEW i \in 1 .. Len(stack[t]), i > 1, IsEntryPlace(t, i), stack[t][i].of = th.state
        PROVE  IsRead(th.state, rep.unreadable, i)
    <3>1. <<t, i>> \notin rep.unreadable
      <4>1. CASE rep.unreadable = {}
        BY <4>1
      <4>2. CASE rep.lost[t] = 0
        BY <1>1, <2>1, <2>2, <2>3, <4>2, MergedReadsEntries
      <4> QED BY <4>1, <4>2
    <3> QED BY <1>2, <2>3, <3>1 DEF IsRead, IsEntryPlace
  <2>4. t = TidOf[th.state]
    BY <1>2
  <2> HIDE DEF th, r
  <2>5. \A i \in 1 .. Len(stack[TidOf[th.state]]) :
          i > 1 /\ IsEntryPlace(TidOf[th.state], i) /\ stack[TidOf[th.state]][i].of = th.state
            => IsRead(th.state, rep.unreadable, i)
    BY <2>3, <2>4
  <2> QED BY <1>2, <1>3, <2>5, OutermostIsEntry
<1> HIDE DEF th, r
<1>4. \A j \in 1 .. Len(th.frames) : \E l \in 1 .. Len(r.lines) : r.lines[l] = th.frames[j].at
  BY <1>1, <1>3 DEF PrintedFrom
<1> QED BY <1>4 DEF th, r

\* No native frame is printed by two threads of an OS thread.
LEMMA NativesArePrintedOnce ==
  ASSUME StacksInv, NEW rep, NEW threads, NEW normal, NEW natives,
         ReportOf(rep, threads, normal, natives), NEW t \in Tid, rep.lost[t] = 0,
         NEW m \in OfThread(normal, t), NEW n \in OfThread(normal, t),
         rep.threads[m].merged, rep.threads[n].merged,
         NEW i, IsNative(t, normal[m].native_frames, Len(normal[m].native_frames), i),
         IsNative(t, normal[n].native_frames, Len(normal[n].native_frames), i)
  PROVE  m = n
<1> DEFINE native == natives[t]
           th == normal[m]
<1>1. /\ ReadThreads(threads, rep.unreadable, natives) /\ Regrouped(threads, normal)
      /\ Divided(threads, normal, rep.mode, t, natives[t])
      /\ NativesOf(natives[t], t, IF rep.mode = "off" THEN 1 ELSE rep.lost[t])
  BY DEF ReportOf
<1>2. m \in 1 .. Len(normal) /\ n \in 1 .. Len(normal) /\ th.tid = t
  BY DEF OfThread
<1>3. rep.mode # "off" /\ NumEvalFrames(th) = NumEntryFrames(th)
  BY <1>2 DEF ReportOf, PrintedFrom
<1>4. /\ th \in Thread /\ th.tid = TidOf[th.state]
      /\ FramesOfState(th.frames, th.state, rep.unreadable)
  BY <1>1, <1>2, NormalIs
<1>5. CASE /\ \A j \in OfThread(normal, t) : normal[j].native_frames = native
           /\ native = <<>>
  BY <1>5 DEF IsNative
<1>6. CASE /\ \A j \in OfThread(normal, t) : normal[j].native_frames = native
           /\ Cardinality(Evals(t, native, Len(native))) # Cardinality(EntryPlaces(threads, t))
  <2>1. th.native_frames = native /\ NativesOf(native, t, 0)
    BY <1>1, <1>3, <1>6
  <2> DEFINE E == EntryPlaces(threads, t)
  <2>2. \A j \in E : j \in EntriesAt(th)
    <3> TAKE j \in E
    <3>1. j \in 1 .. Len(stack[t]) /\ j > 1 /\ IsEntryPlace(t, j)
      BY <1>1, EntryPlacesAre
    <3> HIDE DEF th, native
    <3>2. NativesOf(th.native_frames, th.tid, 0)
      BY <1>2, <2>1
    <3> QED BY <1>2, <1>3, <1>4, <3>1, <3>2, FullNativesCover
  <2>3. \A j \in EntriesAt(th) : j \in E
    <3>1. PICK l \in 1 .. Len(threads) : Same(th, threads[l])
      BY <1>1, <1>2 DEF Regrouped
    <3> HIDE DEF th
    <3>2. threads[l].tid = t /\ EntriesAt(threads[l]) = EntriesAt(th)
      BY <1>2, <3>1 DEF Same, EntriesAt
    <3> QED BY <3>2 DEF EntryPlaces
  <2>4. E = EntriesAt(th)
    BY <2>2, <2>3
  <2>5. Cardinality(E) = NumEntryFrames(th)
    <3> HIDE DEF th, E
    <3> QED BY <1>4, <2>4, EntriesAtIs
  <2>6. NumEvalFrames(th) = Cardinality(Evals(t, native, Len(native)))
    <3> HIDE DEF th, native
    <3>1. DOMAIN native = 1 .. Len(native)
      BY <2>1 DEF NativesOf
    <3> QED BY <1>2, <2>1, <3>1 DEF NumEvalFrames, Evals
  <2> QED BY <1>3, <1>6, <2>5, <2>6
<1>7. CASE \A j, k \in OfThread(normal, t) :
             j # k => Apart(normal[j].native_frames, normal[k].native_frames)
  <2> SUFFICES ASSUME m # n PROVE FALSE
    OBVIOUS
  <2> DEFINE p == normal[m].native_frames
             q == normal[n].native_frames
  <2>1. Apart(p, q)
    BY <1>7
  <2>2. (\E j \in 1 .. Len(p) : i = p[j]) /\ (\E k \in 1 .. Len(q) : i = q[k])
    BY DEF IsNative
  <2> HIDE DEF p, q
  <2> QED BY <2>1, <2>2 DEF Apart
<1> QED BY <1>1, <1>3, <1>5, <1>6, <1>7 DEF Divided
-----------------------------------------------------------------------------
(* Every frame is printed once.                                             *)

OnlyOnce(ss, i) ==
  \A g, h \in 1 .. Len(ss) : \A j \in 1 .. Len(ss[g]), k \in 1 .. Len(ss[h]) :
    ss[g][j] = i /\ ss[h][k] = i => g = h /\ j = k

\* How often i is in the flat list, if it is in no list twice and not in two.
LEMMA TimesAre ==
  ASSUME NEW S, NEW ss \in Seq(Seq(S)), NEW i, OnlyOnce(ss, i)
  PROVE  LET flat == FlattenSeq(ss)
             times == Cardinality({n \in DOMAIN flat : flat[n] = i})
         IN /\ times <= 1
            /\ (\E g \in 1 .. Len(ss) : \E k \in 1 .. Len(ss[g]) : ss[g][k] = i) => times = 1
            /\ (\A g \in 1 .. Len(ss) : \A k \in 1 .. Len(ss[g]) : ss[g][k] # i) => times = 0
<1> DEFINE flat == FlattenSeq(ss)
           N == Len(flat)
           X == {n \in DOMAIN flat : flat[n] = i}
<1>1. flat \in Seq(S) /\ \E of, nth : FlatFrom(flat, ss, Len(ss), of, nth)
  BY FlattenIs
<1> HIDE DEF flat
<1>2. PICK of, nth : FlatFrom(flat, ss, Len(ss), of, nth)
  BY <1>1
<1>3. DOMAIN flat = 1 .. N /\ N \in Nat /\ Len(ss) \in Nat
  BY <1>1
<1>4. \A n \in 1 .. N : /\ of[n] \in 1 .. Len(ss) /\ nth[n] \in 1 .. Len(ss[of[n]])
                        /\ flat[n] = ss[of[n]][nth[n]]
  BY <1>2 DEF FlatFrom
<1>5. ASSUME NEW m \in X, NEW n \in X PROVE m = n
  <2>1. m \in 1 .. N /\ n \in 1 .. N /\ flat[m] = i /\ flat[n] = i
    BY <1>3
  <2>2. of[m] = of[n] /\ nth[m] = nth[n]
    <3>1. /\ of[m] \in 1 .. Len(ss) /\ nth[m] \in 1 .. Len(ss[of[m]]) /\ ss[of[m]][nth[m]] = i
          /\ of[n] \in 1 .. Len(ss) /\ nth[n] \in 1 .. Len(ss[of[n]]) /\ ss[of[n]][nth[n]] = i
      BY <1>4, <2>1
    <3> QED BY <3>1 DEF OnlyOnce
  <2>3. of[m] \in 1 .. Len(ss) /\ nth[m] \in Nat
    BY <1>2, <2>1 DEF FlatFrom
  <2>4. ~(m < n) /\ ~(n < m)
    <3>1. /\ m < n => of[m] < of[n] \/ (of[m] = of[n] /\ nth[m] < nth[n])
          /\ n < m => of[n] < of[m] \/ (of[n] = of[m] /\ nth[n] < nth[m])
      BY <1>2, <2>1 DEF FlatFrom
    <3> QED BY <1>3, <2>2, <2>3, <3>1
  <2> QED BY <1>3, <2>1, <2>4
<1>6. X = {} \/ \E n : X = {n}
  BY <1>5
<1>7. (X = {} => Cardinality(X) = 0) /\ (X # {} => Cardinality(X) = 1)
  <2> HIDE DEF X
  <2> QED BY <1>6, FS_EmptySet, FS_Singleton
<1>8. ASSUME NEW g \in 1 .. Len(ss), NEW k \in 1 .. Len(ss[g]), ss[g][k] = i
      PROVE  X # {}
  <2>1. PICK n \in 1 .. N : of[n] = g /\ nth[n] = k
    BY <1>2 DEF FlatFrom
  <2>2. n \in X
    BY <1>3, <1>4, <1>8, <2>1
  <2> QED BY <2>2
<1>9. ASSUME \A g \in 1 .. Len(ss) : \A k \in 1 .. Len(ss[g]) : ss[g][k] # i
      PROVE  X = {}
  BY <1>3, <1>4, <1>9
<1> HIDE DEF X
<1>10. Cardinality(X) <= 1
  BY <1>7
<1> QED BY <1>7, <1>8, <1>9, <1>10 DEF X, flat
LEMMA FramesArePrintedOnce ==
  ASSUME StacksInv, NEW threads, NEW normal, NEW natives,
         ReportOf(report, threads, normal, natives),
         NEW t \in Tid, report.lost[t] = 0 \/ report.unreadable = {},
         NEW i \in 1 .. Len(stack[t])
  PROVE  LET times == Cardinality({n \in DOMAIN LinesOf(t) : LinesOf(t)[n] = i})
         IN /\ Kind(t, i) = "py" /\ Reported(stack[t][i].of) /\ <<t, i>> \notin report.unreadable
                 => times = 1
            /\ Kind(t, i) = "c" /\ report.lost[t] = 0 => times <= 1
            /\ Kind(t, i) = "eval" => times = 0
<1> DEFINE N == Len(normal)
           r(n) == report.threads[n]
           ss == [n \in DOMAIN report.threads |->
                    IF report.threads[n].tid = t THEN report.threads[n].lines ELSE <<>>]
           times == Cardinality({n \in DOMAIN LinesOf(t) : LinesOf(t)[n] = i})
           L == Line
           unreadable == report.unreadable
<1>1. /\ ReadThreads(threads, unreadable, natives) /\ Regrouped(threads, normal)
      /\ report.threads \in Seq(ThreadReport) /\ Len(report.threads) = N
  BY DEF ReportOf
<1>2. N \in Nat /\ DOMAIN report.threads = 1 .. N
  BY <1>1
<1>3. \A n \in 1 .. N : r(n) \in ThreadReport /\ PrintedFrom(r(n), normal[n], report.mode, unreadable)
  BY DEF ReportOf, PrintedFrom
<1>4. \A n \in 1 .. N :
        /\ normal[n] \in Thread /\ normal[n].tid = TidOf[normal[n].state]
        /\ FramesOfState(normal[n].frames, normal[n].state, unreadable)
  BY <1>1, NormalIs
<1>5. ss \in Seq(Seq(L)) /\ Len(ss) = N
  <2>1. \A n \in 1 .. N : r(n).lines \in Seq(Line)
    BY <1>3 DEF ThreadReport
  <2>2. ss = [n \in 1 .. N |-> IF r(n).tid = t THEN r(n).lines ELSE <<>>]
    BY <1>2
  <2>3. \A n \in 1 .. N : ss[n] \in Seq(Line)
    BY <2>1, <2>2
  <2> DEFINE Q == Seq(L)
  <2> HIDE DEF Q, ss, r
  <2>4. ss \in [1 .. N -> Q]
    BY <2>2, <2>3 DEF Q
  <2> QED BY <1>2, <2>4 DEF Q
<1>6. ASSUME NEW n \in 1 .. N, NEW k \in 1 .. Len(ss[n])
      PROVE  /\ normal[n].tid = t /\ n \in OfThread(normal, t)
             /\ k \in 1 .. Len(r(n).lines) /\ ss[n][k] = r(n).lines[k] /\ ss[n] = r(n).lines
             /\ Distinct(ss[n])
             /\ \/ /\ Kind(t, ss[n][k]) = "py" /\ normal[n].state = stack[t][ss[n][k]].of
                \/ /\ r(n).merged
                   /\ IsNative(t, normal[n].native_frames, Len(normal[n].native_frames), ss[n][k])
  <2>1. r(n).tid = t /\ ss[n] = r(n).lines
    <3>1. ss[n] = IF r(n).tid = t THEN r(n).lines ELSE <<>>
      BY <1>2
    <3>2. ss[n] # <<>>
      <4> HIDE DEF ss
      <4> QED OBVIOUS
    <3> QED BY <3>1, <3>2
  <2> HIDE DEF ss, r
  <2>2. normal[n].tid = t /\ Distinct(r(n).lines)
    BY <1>3, <2>1 DEF PrintedFrom
  <2>3. t = TidOf[normal[n].state]
    BY <1>4, <2>2
  <2>4. \/ IsRead(normal[n].state, unreadable, ss[n][k])
        \/ /\ r(n).merged
           /\ IsNative(t, normal[n].native_frames, Len(normal[n].native_frames), ss[n][k])
    BY <1>3, <2>1, <2>2 DEF PrintedFrom
  <2>5. n \in OfThread(normal, t)
    BY <2>2 DEF OfThread
  <2> QED BY <2>1, <2>2, <2>3, <2>4, <2>5 DEF IsRead
<1>7. times = Cardinality({n \in DOMAIN FlattenSeq(ss) : FlattenSeq(ss)[n] = i})
  BY DEF LinesOf
<1> HIDE DEF ss, times, r, L
<1>8. ASSUME Kind(t, i) = "py"
      PROVE  /\ OnlyOnce(ss, i)
             /\ Reported(stack[t][i].of) /\ <<t, i>> \notin unreadable =>
                  \E g \in 1 .. Len(ss) : \E k \in 1 .. Len(ss[g]) : ss[g][k] = i
  <2>1. ASSUME NEW g \in 1 .. N, NEW j \in 1 .. Len(ss[g]), ss[g][j] = i
        PROVE  normal[g].state = stack[t][i].of
    BY <1>6, <1>8, <2>1 DEF IsNative
  <2>2. \A g, h \in 1 .. N : normal[g].state = normal[h].state => g = h
    BY <1>1 DEF Regrouped
  <2>3. OnlyOnce(ss, i)
    <3> SUFFICES ASSUME NEW g \in 1 .. N, NEW h \in 1 .. N,
                        NEW j \in 1 .. Len(ss[g]), NEW k \in 1 .. Len(ss[h]),
                        ss[g][j] = i, ss[h][k] = i
                 PROVE  g = h /\ j = k
      BY <1>5 DEF OnlyOnce
    <3>1. g = h
      BY <2>1, <2>2
    <3>2. Distinct(ss[g])
      BY <1>6
    <3> QED BY <3>1, <3>2 DEF Distinct
  <2>4. ASSUME Reported(stack[t][i].of), <<t, i>> \notin unreadable
        PROVE  \E g \in 1 .. Len(ss) : \E k \in 1 .. Len(ss[g]) : ss[g][k] = i
    <3>1. PICK m \in 1 .. Len(threads) : threads[m].state = stack[t][i].of
      BY <1>8, <2>4 DEF ReportOf
    <3>2. PICK n \in 1 .. N : Same(normal[n], threads[m])
      BY <1>1 DEF Regrouped
    <3>3. normal[n].state = stack[t][i].of
      BY <3>1, <3>2 DEF Same
    <3>4. TidOf[normal[n].state] = t
      BY <1>8, <3>3, StackOf
    <3>5. normal[n].tid = t /\ FramesOfState(normal[n].frames, normal[n].state, unreadable)
      BY <1>4, <3>4
    <3>6. IsRead(normal[n].state, unreadable, i)
      BY <1>8, <2>4, <3>3, <3>4 DEF IsRead
    <3>7. PICK k \in 1 .. Len(normal[n].frames) : normal[n].frames[k].at = i
      BY <3>4, <3>5, <3>6 DEF FramesOfState
    <3>8. PICK l \in 1 .. Len(r(n).lines) : r(n).lines[l] = i
      <4>1. \E l \in 1 .. Len(report.threads[n].lines) :
              report.threads[n].lines[l] = normal[n].frames[k].at
        <5>1. /\ StacksInv /\ ReportOf(report, threads, normal, natives)
              /\ n \in 1 .. Len(normal) /\ t \in Tid /\ normal[n].tid = t
              /\ report.lost[t] = 0 \/ report.unreadable = {}
              /\ k \in 1 .. Len(normal[n].frames)
          BY <3>5
        <5> DEFINE rep == report
        <5> HIDE DEF rep
        <5>2. /\ StacksInv /\ ReportOf(rep, threads, normal, natives)
              /\ n \in 1 .. Len(normal) /\ t \in Tid /\ normal[n].tid = t
              /\ rep.lost[t] = 0 \/ rep.unreadable = {}
              /\ k \in 1 .. Len(normal[n].frames)
          BY <5>1 DEF rep
        <5>3. \E l \in 1 .. Len(rep.threads[n].lines) :
                rep.threads[n].lines[l] = normal[n].frames[k].at
          BY ONLY <5>2, AllIsPrinted
        <5> QED BY <5>3 DEF rep
      <4> QED BY <3>7, <4>1 DEF r
    <3>9. ss[n] = r(n).lines
      <4>1. r(n).tid = t
        BY <1>3, <3>5 DEF PrintedFrom
      <4> QED BY <1>2, <4>1 DEF ss, r
    <3> QED BY <1>5, <3>8, <3>9
  <2> QED BY <2>3, <2>4
<1>9. ASSUME Kind(t, i) = "c", report.lost[t] = 0 PROVE OnlyOnce(ss, i)
  <2> SUFFICES ASSUME NEW g \in 1 .. N, NEW h \in 1 .. N,
                      NEW j \in 1 .. Len(ss[g]), NEW k \in 1 .. Len(ss[h]),
                      ss[g][j] = i, ss[h][k] = i
               PROVE  g = h /\ j = k
    BY <1>5 DEF OnlyOnce
  <2>1. /\ r(g).merged /\ g \in OfThread(normal, t)
        /\ IsNative(t, normal[g].native_frames, Len(normal[g].native_frames), i)
    BY <1>6, <1>9
  <2>2. /\ r(h).merged /\ h \in OfThread(normal, t)
        /\ IsNative(t, normal[h].native_frames, Len(normal[h].native_frames), i)
    BY <1>6, <1>9
  <2>3. g = h
    BY <1>9, <2>1, <2>2, NativesArePrintedOnce DEF r
  <2>4. Distinct(ss[g])
    BY <1>6
  <2> QED BY <2>3, <2>4 DEF Distinct
<1>10. ASSUME Kind(t, i) = "eval"
       PROVE  \A g \in 1 .. Len(ss) : \A k \in 1 .. Len(ss[g]) : ss[g][k] # i
  <2> SUFFICES ASSUME NEW g \in 1 .. N, NEW k \in 1 .. Len(ss[g]), ss[g][k] = i PROVE FALSE
    BY <1>5
  <2>1. Kind(t, ss[g][k]) = "py" \/ Kind(t, ss[g][k]) = "c"
    BY <1>6 DEF IsNative
  <2> QED BY <1>10, <2>1
<1>11. Kind(t, i) = "py" /\ Reported(stack[t][i].of) /\ <<t, i>> \notin unreadable => times = 1
  <2> SUFFICES ASSUME Kind(t, i) = "py", Reported(stack[t][i].of), <<t, i>> \notin unreadable
               PROVE  times = 1
    OBVIOUS
  <2>1. OnlyOnce(ss, i) /\ \E g \in 1 .. Len(ss) : \E k \in 1 .. Len(ss[g]) : ss[g][k] = i
    BY <1>8
  <2> QED BY <1>5, <1>7, <2>1, TimesAre
<1>12. Kind(t, i) = "c" /\ report.lost[t] = 0 => times <= 1
  BY <1>5, <1>7, <1>9, TimesAre
<1>13. ASSUME Kind(t, i) = "eval" PROVE times = 0
  <2>1. OnlyOnce(ss, i)
    BY <1>10, <1>13 DEF OnlyOnce
  <2> QED BY <1>5, <1>7, <1>10, <1>13, <2>1, TimesAre
<1> QED BY <1>11, <1>12, <1>13 DEF times
-----------------------------------------------------------------------------
(* What a merged pass prints: the true order of the calls.                  *)

IsFrame(frames, i) == \E m \in 1 .. Len(frames) : frames[m].at = i
IsAmong(native, i) == \E j \in 1 .. Len(native) : native[j] = i

\* The Python frames from the outermost on and the native frames of one thread state:
\* its eval frames, each right before the entry frame it runs, and what it called.
Fits(tid, native, frames) ==
  /\ \A m, n \in 1 .. Len(frames) : m < n => frames[m].at < frames[n].at
  /\ \A m \in 1 .. Len(frames) : Kind(tid, frames[m].at) = "py"
  /\ Increasing(native)
  /\ \A j \in 1 .. Len(native) : Kind(tid, native[j]) \in {"c", "eval"}
  /\ \A m \in 1 .. Len(frames) :
       frames[m].is_entry <=> \E j \in 1 .. Len(native) : /\ native[j] = frames[m].at - 1
                                                          /\ Kind(tid, native[j]) = "eval"
  /\ \A j \in 1 .. Len(native) :
       Kind(tid, native[j]) = "eval" => \E m \in 1 .. Len(frames) : frames[m].at = native[j] + 1
  /\ \A m \in 1 .. Len(frames) : \E j \in 1 .. Len(native) :
       /\ Kind(tid, native[j]) = "eval" /\ native[j] < frames[m].at
       /\ \A l \in 1 .. Len(native) : native[l] < frames[m].at => native[l] <= native[j]

\* What lies before all native frames behind the first k.
Past(native, k, i) == \A j \in k + 1 .. Len(native) : i < native[j]

IsC(tid, native, i) == Kind(tid, i) = "c" /\ IsAmong(native, i)

Told(acc, tid, native, k, frames, last) ==
  /\ acc.next \in 1 .. Len(frames) + 1
  /\ \A m \in 1 .. Len(frames) : m < acc.next <=> Past(native, k, frames[m].at)
  /\ Increasing(acc.lines) /\ Increasing(acc.held)
  /\ \A i : IsAmong(acc.lines, i) <=>
       Past(native, k, i) /\ (IsFrame(frames, i) \/ (~last /\ IsC(tid, native, i)))
  /\ \A i : IsAmong(acc.held, i) <=>
       /\ Past(native, k, i) /\ last /\ IsC(tid, native, i)
       /\ \A j \in 1 .. k : Kind(tid, native[j]) = "eval" => native[j] < i

\* Two increasing lists, one behind the other.
LEMMA IncreasingJoin ==
  ASSUME NEW p \in Seq(Nat), NEW q \in Seq(Nat), Increasing(p), Increasing(q),
         \A i, j : IsAmong(p, i) /\ IsAmong(q, j) => i < j
  PROVE  /\ p \o q \in Seq(Nat) /\ Increasing(p \o q)
         /\ \A i : IsAmong(p \o q, i) <=> IsAmong(p, i) \/ IsAmong(q, i)
<1> DEFINE r == p \o q
<1>1. Len(p) \in Nat /\ Len(q) \in Nat
  OBVIOUS
<1>2. /\ r \in Seq(Nat) /\ Len(r) = Len(p) + Len(q)
      /\ \A n \in 1 .. Len(p) + Len(q) : r[n] = IF n <= Len(p) THEN p[n] ELSE q[n - Len(p)]
  BY ConcatProperties
<1>3. Joined(r, p, q)
  BY JoinIs
<1> HIDE DEF r
<1>4. \A i : IsAmong(r, i) <=> IsAmong(p, i) \/ IsAmong(q, i)
  BY <1>3 DEF Joined, IsAmong
<1>5. ASSUME NEW j \in 1 .. Len(r), NEW k \in 1 .. Len(r), j < k PROVE r[j] < r[k]
  <2>1. CASE k <= Len(p)
    <3>1. j \in 1 .. Len(p) /\ k \in 1 .. Len(p) /\ r[j] = p[j] /\ r[k] = p[k]
      BY <1>1, <1>2, <1>5, <2>1
    <3> QED BY <1>5, <3>1 DEF Increasing
  <2>2. CASE j <= Len(p) /\ ~(k <= Len(p))
    <3>1. j \in 1 .. Len(p) /\ k - Len(p) \in 1 .. Len(q) /\ r[j] = p[j] /\ r[k] = q[k - Len(p)]
      BY <1>1, <1>2, <2>2
    <3> QED BY <3>1 DEF IsAmong
  <2>3. CASE ~(j <= Len(p))
    <3>1. /\ j - Len(p) \in 1 .. Len(q) /\ k - Len(p) \in 1 .. Len(q) /\ j - Len(p) < k - Len(p)
          /\ r[j] = q[j - Len(p)] /\ r[k] = q[k - Len(p)]
      BY <1>1, <1>2, <1>5, <2>3, SMTT(20)
    <3> QED BY <3>1 DEF Increasing
  <2> QED BY <2>1, <2>2, <2>3
<1>6. Increasing(r)
  BY <1>5 DEF Increasing
<1> QED BY <1>2, <1>4, <1>6 DEF r

\* An increasing list and one more.
LEMMA IncreasingAppend ==
  ASSUME NEW p \in Seq(Nat), Increasing(p), NEW x \in Nat, \A i : IsAmong(p, i) => i < x
  PROVE  /\ Append(p, x) \in Seq(Nat) /\ Increasing(Append(p, x))
         /\ \A i : IsAmong(Append(p, x), i) <=> IsAmong(p, i) \/ i = x
<1> DEFINE q == <<x>>
<1>1. q \in Seq(Nat) /\ Len(q) = 1 /\ q[1] = x
  OBVIOUS
<1>2. Append(p, x) = p \o q
  OBVIOUS
<1> HIDE DEF q
<1>3. Increasing(q) /\ \A i : IsAmong(q, i) <=> i = x
  BY <1>1 DEF Increasing, IsAmong
<1>4. \A i, j : IsAmong(p, i) /\ IsAmong(q, j) => i < j
  BY <1>3
<1> QED BY <1>1, <1>2, <1>3, <1>4, IncreasingJoin

LEMMA PastIs ==
  ASSUME NEW native \in Seq(Nat), Increasing(native), NEW k \in 1 .. Len(native)
  PROVE  /\ \A i : Past(native, k - 1, i) <=> Past(native, k, i) /\ i < native[k]
         /\ \A j \in 1 .. Len(native) : Past(native, k, native[j]) <=> j <= k
<1>1. Len(native) \in Nat /\ k - 1 + 1 = k
  OBVIOUS
<1>2. \A j \in k - 1 + 1 .. Len(native) : j = k \/ j \in k + 1 .. Len(native)
  BY <1>1
<1>3. k \in k - 1 + 1 .. Len(native) /\ \A j \in k + 1 .. Len(native) : j \in k - 1 + 1 .. Len(native)
  BY <1>1
<1>4. \A i : Past(native, k - 1, i) <=> Past(native, k, i) /\ i < native[k]
  BY <1>2, <1>3 DEF Past
<1>5. ASSUME NEW j \in 1 .. Len(native) PROVE Past(native, k, native[j]) <=> j <= k
  <2>1. CASE j <= k
    <3>1. \A l \in k + 1 .. Len(native) : l \in 1 .. Len(native) /\ j < l
      BY <1>1, <2>1
    <3> QED BY <2>1, <3>1 DEF Past, Increasing
  <2>2. CASE ~(j <= k)
    <3>1. j \in k + 1 .. Len(native) /\ native[j] \in Nat
      BY <1>1, <2>2
    <3>2. ~(native[j] < native[j])
      BY <3>1
    <3> QED BY <2>2, <3>1, <3>2 DEF Past
  <2> QED BY <2>1, <2>2
<1> QED BY <1>4, <1>5

\* A C frame has no Python frame right behind it.
LEMMA TellsCall ==
  ASSUME NEW S, S \subseteq Nat, NEW frames \in PyFrames(S), NEW tid, NEW native \in Seq(S),
         NEW k \in 1 .. Len(native), NEW last \in BOOLEAN, NEW acc \in Printed(S),
         Fits(tid, native, frames), Told(acc, tid, native, k - 1, frames, last),
         Kind(tid, native[k]) = "c"
  PROVE  Told(FormatNativeFrame(acc, tid, native[k], frames, last), tid, native, k, frames, last)
<1> DEFINE x == native[k]
           L == Len(frames)
           on == FormatNativeFrame(acc, tid, x, frames, last)
<1>1. /\ native \in Seq(Nat) /\ Increasing(native) /\ Len(native) \in Nat /\ x \in Nat
      /\ \A j \in 1 .. Len(native) : native[j] \in Nat
  <2>1. native \in Seq(Nat)
    BY SeqMonotonic
  <2> QED BY <2>1 DEF Fits
<1>2. L \in Nat /\ \A m \in 1 .. L : frames[m].at \in Nat
  BY FramesAre
<1>3. /\ \A i : Past(native, k - 1, i) <=> Past(native, k, i) /\ i < x
      /\ \A j \in 1 .. Len(native) : Past(native, k, native[j]) <=> j <= k
  BY <1>1, PastIs
<1> HIDE DEF x, L
<1>4. \A j \in 1 .. Len(native) : (j < k => native[j] < x) /\ (j = k => native[j] = x)
  BY <1>1 DEF Increasing, x
<1>5. ASSUME NEW m \in 1 .. L, Past(native, k, frames[m].at) PROVE frames[m].at < x
  <2>1. PICK j \in 1 .. Len(native) :
          /\ Kind(tid, native[j]) = "eval" /\ native[j] < frames[m].at
          /\ \A l \in 1 .. Len(native) : native[l] < frames[m].at => native[l] <= native[j]
    BY DEF Fits, L
  <2>2. j <= k
    <3>1. CASE j > k
      <4>1. j \in k + 1 .. Len(native)
        BY <1>1, <3>1
      <4>2. frames[m].at < native[j]
        BY <1>5, <4>1 DEF Past
      <4> QED BY <1>1, <1>2, <2>1, <4>2
    <3> QED BY <1>1, <3>1
  <2>3. j # k
    BY <2>1 DEF x
  <2>4. native[j] < x
    BY <1>1, <1>4, <2>2, <2>3
  <2>5. frames[m].at # x
    <3>1. Kind(tid, frames[m].at) = "py"
      BY DEF Fits, L
    <3> QED BY <3>1 DEF x
  <2>6. ~(x < frames[m].at)
    BY <1>1, <2>1, <2>4 DEF x
  <2> QED BY <1>1, <1>2, <2>5, <2>6
<1>6. \A m \in 1 .. L : Past(native, k, frames[m].at) <=> Past(native, k - 1, frames[m].at)
  BY <1>3, <1>5
<1>7. \A i : IsFrame(frames, i) => (Past(native, k, i) <=> Past(native, k - 1, i))
  BY <1>6 DEF IsFrame, L
<1>8. \A i : IsC(tid, native, i) => (Past(native, k, i) <=> Past(native, k - 1, i) \/ i = x)
  <2> TAKE i
  <2> HAVE IsC(tid, native, i)
  <2>1. PICK j \in 1 .. Len(native) : native[j] = i
    BY DEF IsC, IsAmong
  <2>2. Past(native, k, i) <=> j <= k
    BY <1>3, <2>1
  <2>3. j <= k => j = k \/ i < x
    BY <1>1, <1>4, <2>1
  <2>4. i = x => Past(native, k, i)
    BY <1>1, <1>3 DEF x
  <2> QED BY <1>3, <1>4, <2>1, <2>2, <2>3, <2>4
<1>9. IsC(tid, native, x) /\ Past(native, k, x)
  BY <1>1, <1>3 DEF IsC, IsAmong, x
<1>10. /\ acc.next \in 1 .. L + 1
       /\ \A m \in 1 .. L : m < acc.next <=> Past(native, k, frames[m].at)
       /\ Increasing(acc.lines) /\ Increasing(acc.held)
       /\ acc.lines \in Seq(Nat) /\ acc.held \in Seq(Nat)
  <2>1. acc.lines \in Seq(S) /\ acc.held \in Seq(S)
    BY DEF Printed
  <2>2. acc.lines \in Seq(Nat) /\ acc.held \in Seq(Nat)
    BY <2>1, SeqMonotonic
  <2> QED BY <1>6, <2>2 DEF Told, L
<1>11. /\ \A i : IsAmong(acc.lines, i) <=>
            Past(native, k - 1, i) /\ (IsFrame(frames, i) \/ (~last /\ IsC(tid, native, i)))
       /\ \A i : IsAmong(acc.held, i) <=>
            /\ Past(native, k - 1, i) /\ last /\ IsC(tid, native, i)
            /\ \A j \in 1 .. k - 1 : Kind(tid, native[j]) = "eval" => native[j] < i
  BY DEF Told
<1>12. ASSUME NEW i
       PROVE  (\A j \in 1 .. k - 1 : Kind(tid, native[j]) = "eval" => native[j] < i)
                <=> (\A j \in 1 .. k : Kind(tid, native[j]) = "eval" => native[j] < i)
  <2>1. \A j \in 1 .. k : j = k \/ j \in 1 .. k - 1
    BY <1>1
  <2>2. \A j \in 1 .. k - 1 : j \in 1 .. k
    BY <1>1
  <2> QED BY <2>1, <2>2
<1>13. \A j \in 1 .. k : Kind(tid, native[j]) = "eval" => native[j] < x
  <2> TAKE j \in 1 .. k
  <2>1. j \in 1 .. Len(native) /\ (j = k \/ j < k)
    BY <1>1
  <2> QED BY <1>4, <2>1 DEF x
<1>14. ~IsEvalFrame(tid, x)
  BY DEF IsEvalFrame, x
<1>15. CASE last
  <2> DEFINE h == Append(acc.held, x)
  <2>1. on = [acc EXCEPT !.held = h]
    BY <1>14, <1>15 DEF FormatNativeFrame
  <2>2. \A i : IsAmong(acc.held, i) => i < x
    BY <1>3, <1>11
  <2>3. /\ h \in Seq(Nat) /\ Increasing(h)
        /\ \A i : IsAmong(h, i) <=> IsAmong(acc.held, i) \/ i = x
    BY <1>1, <1>10, <2>2, IncreasingAppend
  <2> HIDE DEF h, on
  <2>4. on.held = h /\ on.lines = acc.lines /\ on.next = acc.next
    BY <2>1 DEF Printed
  <2>5. \A i : IsAmong(on.lines, i) <=>
          Past(native, k, i) /\ (IsFrame(frames, i) \/ (~last /\ IsC(tid, native, i)))
    BY <1>7, <1>11, <1>15, <2>4
  <2>6. \A i : IsAmong(on.held, i) <=>
          /\ Past(native, k, i) /\ last /\ IsC(tid, native, i)
          /\ \A j \in 1 .. k : Kind(tid, native[j]) = "eval" => native[j] < i
    <3> TAKE i
    <3>1. CASE i = x
      BY <1>9, <1>13, <1>15, <2>3, <2>4, <3>1
    <3>2. CASE i # x
      BY <1>8, <1>11, <1>12, <2>3, <2>4, <3>2
    <3> QED BY <3>1, <3>2
  <2>7. Told(on, tid, native, k, frames, last)
    BY <1>10, <2>3, <2>4, <2>5, <2>6 DEF Told, L
  <2> QED BY <2>7 DEF on, x
<1>16. CASE ~last
  <2> DEFINE q == Append(acc.lines, x)
  <2>1. on = [acc EXCEPT !.lines = q]
    BY <1>14, <1>16 DEF FormatNativeFrame
  <2>2. \A i : IsAmong(acc.lines, i) => i < x
    BY <1>3, <1>11
  <2>3. /\ q \in Seq(Nat) /\ Increasing(q)
        /\ \A i : IsAmong(q, i) <=> IsAmong(acc.lines, i) \/ i = x
    BY <1>1, <1>10, <2>2, IncreasingAppend
  <2> HIDE DEF q, on
  <2>4. on.held = acc.held /\ on.lines = q /\ on.next = acc.next
    BY <2>1 DEF Printed
  <2>5. \A i : IsAmong(on.lines, i) <=>
          Past(native, k, i) /\ (IsFrame(frames, i) \/ (~last /\ IsC(tid, native, i)))
    <3> TAKE i
    <3>1. CASE i = x
      BY <1>9, <1>16, <2>3, <2>4, <3>1
    <3>2. CASE i # x
      BY <1>7, <1>8, <1>11, <2>3, <2>4, <3>2
    <3> QED BY <3>1, <3>2
  <2>6. \A i : IsAmong(on.held, i) <=>
          /\ Past(native, k, i) /\ last /\ IsC(tid, native, i)
          /\ \A j \in 1 .. k : Kind(tid, native[j]) = "eval" => native[j] < i
    BY <1>11, <1>16, <2>4
  <2>7. Told(on, tid, native, k, frames, last)
    BY <1>10, <2>3, <2>4, <2>5, <2>6 DEF Told, L
  <2> QED BY <2>7 DEF on, x
<1> QED BY <1>15, <1>16

\* An eval frame has its entry frame right behind it, which is next, and the frames that its
\* eval loop runs inline up to the next eval frame.
LEMMA TellsEval ==
  ASSUME NEW S, S \subseteq Nat, NEW frames \in PyFrames(S), NEW tid, NEW native \in Seq(S),
         NEW k \in 1 .. Len(native), NEW last \in BOOLEAN, NEW acc \in Printed(S),
         Fits(tid, native, frames), Told(acc, tid, native, k - 1, frames, last),
         Kind(tid, native[k]) = "eval"
  PROVE  Told(FormatNativeFrame(acc, tid, native[k], frames, last), tid, native, k, frames, last)
<1> DEFINE x == native[k]
           L == Len(frames)
           from == acc.next
           to == NextEntry(frames, from)
           more == [n \in 1 .. to - from |-> frames[from + n - 1].at]
           on == FormatNativeFrame(acc, tid, x, frames, last)
<1>1. /\ native \in Seq(Nat) /\ Increasing(native) /\ Len(native) \in Nat /\ x \in Nat
      /\ \A j \in 1 .. Len(native) : native[j] \in Nat
  <2>1. native \in Seq(Nat)
    BY SeqMonotonic
  <2>2. Len(native) \in Nat /\ \A j \in 1 .. Len(native) : native[j] \in Nat
    BY <2>1
  <2>3. x \in Nat
    BY <2>2
  <2> QED BY <2>1, <2>2, <2>3 DEF Fits
<1>2. L \in Nat /\ \A m \in 1 .. L : frames[m].at \in S /\ frames[m].at \in Nat
  BY FramesAre
<1>3. /\ \A i : Past(native, k - 1, i) <=> Past(native, k, i) /\ i < x
      /\ \A j \in 1 .. Len(native) : Past(native, k, native[j]) <=> j <= k
  BY <1>1, PastIs
<1> HIDE DEF x, L
<1>4. /\ \A j \in 1 .. Len(native) : (j < k => native[j] < x) /\ (j > k => x < native[j])
      /\ \A j, l \in 1 .. Len(native) : native[j] <= native[l] => j <= l
  <2>1. \A j \in 1 .. Len(native) : (j < k => native[j] < x) /\ (j > k => x < native[j])
    BY <1>1 DEF Increasing, x
  <2>2. ASSUME NEW j \in 1 .. Len(native), NEW l \in 1 .. Len(native), native[j] <= native[l], l < j
        PROVE  FALSE
    <3>1. native[l] < native[j]
      BY <1>1, <2>2 DEF Increasing
    <3> QED BY <1>1, <2>2, <3>1
  <2>3. \A j, l \in 1 .. Len(native) : native[j] <= native[l] => j <= l
    <3> SUFFICES ASSUME NEW j \in 1 .. Len(native), NEW l \in 1 .. Len(native),
                        native[j] <= native[l]
                 PROVE  j <= l
      OBVIOUS
    <3> QED BY <1>1, <2>2
  <2> QED BY <2>1, <2>3
<1>5. /\ \A m, n \in 1 .. L : m < n => frames[m].at < frames[n].at
      /\ \A m \in 1 .. L : Kind(tid, frames[m].at) = "py"
      /\ \A m \in 1 .. L : frames[m].is_entry <=>
           \E j \in 1 .. Len(native) : native[j] = frames[m].at - 1 /\ Kind(tid, native[j]) = "eval"
      /\ \A j \in 1 .. Len(native) :
           Kind(tid, native[j]) = "eval" => \E m \in 1 .. L : frames[m].at = native[j] + 1
      /\ \A m \in 1 .. L : \E j \in 1 .. Len(native) :
           /\ Kind(tid, native[j]) = "eval" /\ native[j] < frames[m].at
           /\ \A l \in 1 .. Len(native) : native[l] < frames[m].at => native[l] <= native[j]
  BY DEF Fits, L
<1>6. \A m, n \in 1 .. L : frames[m].at <= frames[n].at => m <= n
  <2> SUFFICES ASSUME NEW m \in 1 .. L, NEW n \in 1 .. L, frames[m].at <= frames[n].at, n < m
               PROVE  FALSE
    BY <1>2
  <2>1. frames[n].at < frames[m].at
    BY <1>5
  <2> QED BY <1>2, <2>1
<1>7. /\ from \in 1 .. L + 1
      /\ \A m \in 1 .. L : m < from <=> Past(native, k - 1, frames[m].at)
      /\ Increasing(acc.lines)
      /\ \A i : IsAmong(acc.lines, i) <=>
           Past(native, k - 1, i) /\ (IsFrame(frames, i) \/ (~last /\ IsC(tid, native, i)))
      /\ acc.lines \in Seq(S) /\ acc.lines \in Seq(Nat)
  <2>1. acc.lines \in Seq(S)
    BY DEF Printed
  <2>2. acc.lines \in Seq(Nat)
    BY <2>1, SeqMonotonic
  <2> QED BY <2>1, <2>2 DEF Told, L
<1> HIDE DEF from
\* The next frame is that of this eval frame.
<1>8. from \in 1 .. L /\ frames[from].at = x + 1
  <2>1. PICK m \in 1 .. L : frames[m].at = x + 1
    BY <1>5 DEF x
  <2>2. ~(m < from)
    BY <1>1, <1>3, <1>7, <2>1
  <2>3. from \in 1 .. L
    BY <1>2, <1>7, <2>2
  <2>4. ~(from < m)
    <3> SUFFICES ASSUME from < m PROVE FALSE
      OBVIOUS
    <3>1. frames[from].at < x + 1 /\ frames[from].at # x
      BY <1>5, <2>1, <2>3 DEF x
    <3>2. frames[from].at < x
      BY <1>1, <1>2, <2>3, <3>1
    <3>3. Past(native, k, frames[from].at)
      <4>1. \A j \in k + 1 .. Len(native) : j \in 1 .. Len(native) /\ j > k
        BY <1>1
      <4>2. \A j \in k + 1 .. Len(native) : frames[from].at < native[j]
        BY <1>1, <1>2, <1>4, <2>3, <3>2, <4>1
      <4> QED BY <4>2 DEF Past
    <3>4. from < from
      BY <1>3, <1>7, <2>3, <3>2, <3>3
    <3> QED BY <1>2, <2>3, <3>4
  <2>5. m = from
    BY <1>2, <2>2, <2>3, <2>4
  <2> QED BY <2>1, <2>5
<1>9. /\ to \in from + 1 .. L + 1
      /\ to <= L => frames[to].is_entry
      /\ \A m \in from + 1 .. to - 1 : m \in 1 .. L /\ ~frames[m].is_entry
  BY <1>8, NextEntryIs DEF L
<1> HIDE DEF to
<1>10. ASSUME NEW m \in 1 .. L PROVE m < to <=> Past(native, k, frames[m].at)
  <2>1. ASSUME m < to PROVE Past(native, k, frames[m].at)
    <3> SUFFICES ASSUME NEW j \in k + 1 .. Len(native), ~(frames[m].at < native[j]) PROVE FALSE
      BY DEF Past
    <3>1. j \in 1 .. Len(native) /\ j > k
      BY <1>1
    <3>2. native[j] < frames[m].at
      <4>1. native[j] # frames[m].at
        <5>1. Kind(tid, native[j]) \in {"c", "eval"}
          BY <3>1 DEF Fits
        <5> QED BY <1>5, <5>1
      <4> QED BY <1>1, <1>2, <3>1, <4>1
    <3>3. PICK l \in 1 .. Len(native) :
            Kind(tid, native[l]) = "eval" /\ native[l] < frames[m].at /\ native[j] <= native[l]
      BY <1>5, <3>1, <3>2
    <3>4. l > k /\ x < native[l]
      <4>1. j <= l
        BY <1>4, <3>1, <3>3
      <4>2. l > k
        BY <1>1, <3>1, <4>1
      <4> QED BY <1>4, <4>2
    <3>5. PICK n \in 1 .. L : frames[n].at = native[l] + 1
      BY <1>5, <3>3
    <3>6. n <= m
      <4>1. frames[n].at <= frames[m].at
        BY <1>1, <1>2, <3>3, <3>5, SMTT(20)
      <4> QED BY <1>6, <4>1
    <3>7. ~(n <= from)
      <4> SUFFICES ASSUME n <= from PROVE FALSE
        OBVIOUS
      <4>1. frames[n].at <= frames[from].at
        <5>1. n = from \/ n < from
          BY <1>2, <1>8
        <5>2. n = from \/ frames[n].at < frames[from].at
          BY <1>5, <1>8, <5>1
        <5> QED BY <1>2, <1>8, <5>2
      <4>2. native[l] + 1 <= x + 1
        BY <1>8, <3>5, <4>1
      <4>3. x \in Nat /\ native[l] \in Nat
        BY <1>1, <3>3
      <4> QED BY <3>4, <4>2, <4>3
    <3>8. n \in from + 1 .. to - 1
      BY <1>2, <1>8, <1>9, <2>1, <3>6, <3>7
    <3>9. native[l] = frames[n].at - 1
      BY <1>1, <3>5
    <3> QED BY <1>5, <1>9, <3>3, <3>8, <3>9
  <2>2. ASSUME ~(m < to) PROVE ~Past(native, k, frames[m].at)
    <3>1. to \in 1 .. L /\ to <= m
      BY <1>2, <1>8, <1>9, <2>2
    <3>2. PICK j \in 1 .. Len(native) :
            native[j] = frames[to].at - 1 /\ Kind(tid, native[j]) = "eval"
      BY <1>2, <1>5, <1>9, <3>1, SMTT(20)
    <3>3. frames[from].at < frames[to].at
      BY <1>2, <1>5, <1>8, <1>9, <3>1
    <3>4. x < native[j]
      <4>1. x + 1 < frames[to].at /\ frames[to].at \in Nat
        BY <1>2, <1>8, <3>1, <3>3
      <4> QED BY <1>1, <3>2, <4>1
    <3>5. j \in k + 1 .. Len(native)
      <4>1. ~(j < k) /\ j # k
        BY <1>1, <1>4, <3>4 DEF x
      <4> QED BY <1>1, <4>1
    <3>6. frames[to].at <= frames[m].at
      <4>1. to = m \/ frames[to].at < frames[m].at
        BY <1>2, <1>5, <3>1
      <4> QED BY <1>2, <3>1, <4>1
    <3>7. ~(frames[m].at < native[j])
      BY <1>1, <1>2, <3>1, <3>2, <3>6, SMTT(20)
    <3> QED BY <3>5, <3>7 DEF Past
  <2> QED BY <2>1, <2>2
<1>11. /\ more \in Seq(S) /\ more \in Seq(Nat) /\ Len(more) = to - from /\ to - from \in Nat
       /\ \A n \in 1 .. to - from : from + n - 1 \in 1 .. L /\ more[n] = frames[from + n - 1].at
  <2>1. to - from \in Nat /\ \A n \in 1 .. to - from : from + n - 1 \in 1 .. L
    BY <1>2, <1>8, <1>9
  <2>2. \A n \in 1 .. to - from : frames[from + n - 1].at \in S
    BY <1>2, <2>1
  <2>3. more \in Seq(S) /\ Len(more) = to - from
    BY <2>1, <2>2
  <2>4. more \in Seq(Nat)
    <3> HIDE DEF more
    <3> QED BY <2>3, SeqMonotonic
  <2> QED BY <2>1, <2>3, <2>4
<1> HIDE DEF more
<1>12. \A i : IsAmong(more, i) <=> \E m \in 1 .. L : ~(m < from) /\ m < to /\ frames[m].at = i
  <2> TAKE i
  <2>1. ASSUME IsAmong(more, i)
        PROVE  \E m \in 1 .. L : ~(m < from) /\ m < to /\ frames[m].at = i
    <3>1. PICK n \in 1 .. to - from : more[n] = i
      BY <1>11, <2>1 DEF IsAmong
    <3>2. ~(from + n - 1 < from) /\ from + n - 1 < to
      BY <1>8, <1>9, <1>11
    <3> QED BY <1>11, <3>1, <3>2
  <2>2. ASSUME NEW m \in 1 .. L, ~(m < from), m < to, frames[m].at = i PROVE IsAmong(more, i)
    <3>1. PICK n \in 1 .. to - from : from + n - 1 = m
      <4>1. m - from + 1 \in 1 .. to - from /\ from + (m - from + 1) - 1 = m
        BY <1>2, <1>8, <1>9, <2>2
      <4> QED BY <4>1
    <3>2. n \in 1 .. Len(more) /\ more[n] = i
      BY <1>11, <2>2, <3>1
    <3> QED BY <3>2 DEF IsAmong
  <2> QED BY <2>1, <2>2
<1>13. Increasing(more)
  <2> SUFFICES ASSUME NEW m \in 1 .. to - from, NEW n \in 1 .. to - from, m < n
               PROVE  more[m] < more[n]
    BY <1>11 DEF Increasing
  <2>1. from + m - 1 < from + n - 1
    BY <1>8
  <2> QED BY <1>5, <1>11, <2>1
<1>14. \A i, j : IsAmong(acc.lines, i) /\ IsAmong(more, j) => i < j
  <2> SUFFICES ASSUME NEW i, NEW j, IsAmong(acc.lines, i), IsAmong(more, j) PROVE i < j
    OBVIOUS
  <2>1. i < x /\ i \in Nat
    <3>1. \E n \in 1 .. Len(acc.lines) : acc.lines[n] = i
      BY DEF IsAmong
    <3> QED BY <1>3, <1>7, <3>1
  <2>2. PICK m \in 1 .. L : ~(m < from) /\ frames[m].at = j
    BY <1>12
  <2>3. m = from \/ frames[from].at < frames[m].at
    <3>1. from \in 1 .. L /\ (m = from \/ from < m)
      BY <1>2, <1>8, <2>2
    <3> QED BY <1>5, <3>1
  <2> QED BY <1>1, <1>2, <1>8, <2>1, <2>2, <2>3
<1> DEFINE q == acc.lines \o more
<1>15. /\ q \in Seq(Nat) /\ Increasing(q)
       /\ \A i : IsAmong(q, i) <=> IsAmong(acc.lines, i) \/ IsAmong(more, i)
  BY <1>7, <1>11, <1>13, <1>14, IncreasingJoin
<1>16. q \in Seq(S)
  BY <1>7, <1>11, ConcatProperties
<1>17. on = Printing(acc, q, to)
  <2>1. IsEvalFrame(tid, x) /\ ~(from > Len(frames))
    BY <1>2, <1>8 DEF IsEvalFrame, x, L
  <2> QED BY <2>1 DEF FormatNativeFrame, Printing, more, to, from
<1> HIDE DEF q, on
<1>18. on.lines = q /\ on.held = <<>> /\ on.next = to
  <2>1. to \in Nat \ {0}
    BY <1>2, <1>8, <1>9
  <2> QED BY <1>16, <1>17, <2>1, PrintingIs
<1>19. \A i : IsC(tid, native, i) => (Past(native, k, i) <=> Past(native, k - 1, i)) /\ ~IsFrame(frames, i)
                                     /\ ~(Past(native, k, i) /\ x < i)
  <2> SUFFICES ASSUME NEW i, IsC(tid, native, i)
               PROVE  /\ Past(native, k, i) <=> Past(native, k - 1, i)
                      /\ ~IsFrame(frames, i) /\ ~(Past(native, k, i) /\ x < i)
    OBVIOUS
  <2>1. PICK j \in 1 .. Len(native) : native[j] = i
    BY DEF IsC, IsAmong
  <2>2. j # k
    BY <2>1 DEF IsC
  <2>3. Past(native, k, i) <=> j <= k
    BY <1>3, <2>1
  <2>4. Past(native, k, i) => i < x
    BY <1>1, <1>4, <2>1, <2>2, <2>3
  <2>5. ~IsFrame(frames, i)
    BY <1>5 DEF IsFrame, IsC, L
  <2> QED BY <1>1, <1>3, <2>1, <2>4, <2>5
<1>20. ASSUME NEW i
       PROVE  IsAmong(q, i) <=>
                Past(native, k, i) /\ (IsFrame(frames, i) \/ (~last /\ IsC(tid, native, i)))
  <2>1. CASE IsFrame(frames, i)
    <3>1. PICK m \in 1 .. L : frames[m].at = i
      BY <2>1 DEF IsFrame, L
    <3>2. IsAmong(acc.lines, i) <=> m < from
      BY <1>7, <2>1, <3>1
    <3>3. IsAmong(more, i) <=> ~(m < from) /\ m < to
      <4>1. \A n \in 1 .. L : frames[n].at = i => n = m
        <5> SUFFICES ASSUME NEW n \in 1 .. L, frames[n].at = i PROVE n = m
          OBVIOUS
        <5>1. n <= m /\ m <= n
          BY <1>2, <1>6, <3>1
        <5> QED BY <1>2, <5>1
      <4> QED BY <1>12, <3>1, <4>1
    <3>4. m < from => m < to
      BY <1>2, <1>8, <1>9
    <3>5. Past(native, k, i) <=> m < to
      BY <1>10, <3>1
    <3> QED BY <1>15, <2>1, <3>2, <3>3, <3>4, <3>5
  <2>2. CASE ~IsFrame(frames, i)
    <3>1. ~IsAmong(more, i)
      BY <1>12, <2>2 DEF IsFrame, L
    <3> QED BY <1>7, <1>15, <1>19, <2>2, <3>1
  <2> QED BY <2>1, <2>2
<1>21. ASSUME NEW i
       PROVE  IsAmong(<<>>, i) <=>
                /\ Past(native, k, i) /\ last /\ IsC(tid, native, i)
                /\ \A j \in 1 .. k : Kind(tid, native[j]) = "eval" => native[j] < i
  <2>1. ~IsAmong(<<>>, i)
    BY DEF IsAmong
  <2>2. k \in 1 .. k
    BY <1>1
  <2>3. ~(/\ Past(native, k, i) /\ IsC(tid, native, i)
          /\ \A j \in 1 .. k : Kind(tid, native[j]) = "eval" => native[j] < i)
    BY <1>19, <2>2 DEF x
  <2> QED BY <2>1, <2>3
<1>22. Increasing(<<>>)
  BY DEF Increasing
<1>23. to \in 1 .. L + 1
  BY <1>2, <1>8, <1>9
<1>24. Told(on, tid, native, k, frames, last)
  BY <1>10, <1>15, <1>18, <1>20, <1>21, <1>22, <1>23 DEF Told, L
<1> QED BY <1>24 DEF on, x

\* What one thread state prints, if its stacks are merged.
InOrderOf(lines, tid, native, frames, last) ==
  /\ lines \in Seq(Nat) /\ Increasing(lines)
  /\ \A i : IsAmong(lines, i) <=>
       \/ IsFrame(frames, i)
       \/ /\ IsC(tid, native, i)
          /\ last => \A j \in 1 .. Len(native) : Kind(tid, native[j]) = "eval" => native[j] < i

LEMMA MergedOrder ==
  ASSUME NEW S, S \subseteq Nat, NEW thread, NEW last \in BOOLEAN,
         thread.native_frames \in Seq(S), thread.frames \in PyFrames(S),
         Fits(thread.tid, thread.native_frames, Reverse(thread.frames))
  PROVE  InOrderOf(FormatMergedStacks(thread, last).lines, thread.tid, thread.native_frames,
                   Reverse(thread.frames), last)
<1> DEFINE native == thread.native_frames
           frames == Reverse(thread.frames)
           tid == thread.tid
           N == Len(native)
           L == Len(frames)
           merged == FormatMergedStacks(thread, last)
<1>1. PICK after : Merges(S, thread, last, after)
  BY MergingIs
<1>2. /\ after \in [0 .. N -> Printed(S)] /\ Passes(after, native, tid, frames, last)
      /\ merged = [after[N] EXCEPT !.lines = @ \o after[N].held]
  BY <1>1 DEF Merges
<1>3. frames \in PyFrames(S) /\ native \in Seq(S) /\ Fits(tid, native, frames)
  BY EntriesAreFinite
<1> HIDE DEF native, frames, tid, N, merged, L
<1>4. /\ L \in Nat /\ \A m \in 1 .. L : frames[m].at \in Nat
  BY <1>3, FramesAre DEF L
<1>5. N \in Nat /\ \A j \in 1 .. N : native[j] \in S /\ native[j] \in Nat
  <2>1. native \in Seq(Nat)
    BY <1>3, SeqMonotonic
  <2>2. N \in Nat /\ \A j \in 1 .. N : native[j] \in Nat
    BY <2>1 DEF N
  <2>3. \A j \in 1 .. N : native[j] \in S
    BY <1>3 DEF N
  <2> QED BY <2>2, <2>3
<1>6. /\ \A m \in 1 .. L : Kind(tid, frames[m].at) = "py"
      /\ \A m \in 1 .. L : \E j \in 1 .. N :
           /\ Kind(tid, native[j]) = "eval" /\ native[j] < frames[m].at
           /\ \A l \in 1 .. N : native[l] < frames[m].at => native[l] <= native[j]
      /\ \A j \in 1 .. N : Kind(tid, native[j]) \in {"c", "eval"}
  BY <1>3 DEF Fits, L, N
<1> DEFINE Good == {k \in 0 .. N : Told(after[k], tid, native, k, frames, last)}
<1>7. 0 \in Good
  <2>1. after[0] = [lines |-> <<>>, held |-> <<>>, next |-> 1, asserts |-> TRUE]
    BY <1>2 DEF Passes
  <2>2. after[0].lines = <<>> /\ after[0].held = <<>> /\ after[0].next = 1
    BY <2>1
  <2>3. ASSUME NEW i, IsFrame(frames, i) \/ IsC(tid, native, i) PROVE ~Past(native, 0, i)
    <3>1. PICK j \in 1 .. N : native[j] <= i /\ i \in Nat
      <4>1. CASE IsFrame(frames, i)
        <5>1. PICK m \in 1 .. L : frames[m].at = i
          BY <4>1 DEF IsFrame, L
        <5> QED BY <1>4, <1>5, <1>6, <5>1
      <4>2. CASE IsC(tid, native, i)
        <5>1. PICK j \in 1 .. N : native[j] = i
          BY <4>2 DEF IsC, IsAmong, N
        <5> QED BY <1>5, <5>1
      <4> QED BY <2>3, <4>1, <4>2
    <3>2. j \in 0 + 1 .. Len(native) /\ ~(i < native[j])
      BY <1>5, <3>1 DEF N
    <3> QED BY <3>2 DEF Past
  <2>4. \A m \in 1 .. L : ~(m < 1) /\ IsFrame(frames, frames[m].at)
    BY <1>4 DEF IsFrame, L
  <2>5. Increasing(<<>>) /\ \A i : ~IsAmong(<<>>, i)
    BY DEF Increasing, IsAmong
  <2>6. 1 \in 1 .. L + 1 /\ 0 \in 0 .. N
    BY <1>4, <1>5
  <2>7. \A m \in 1 .. L : m < 1 <=> Past(native, 0, frames[m].at)
    BY <2>3, <2>4
  <2>8. Told(after[0], tid, native, 0, frames, last)
    BY <2>2, <2>3, <2>5, <2>6, <2>7 DEF Told, L
  <2> QED BY <2>6, <2>8
<1>8. ASSUME NEW k \in 1 .. N, k - 1 \in Good PROVE k \in Good
  <2>1. k \in 0 .. N /\ k - 1 \in 0 .. N /\ k \in 1 .. Len(native)
    BY <1>5 DEF N
  <2>2. after[k] = FormatNativeFrame(after[k - 1], tid, native[k], frames, last)
    BY <1>2, <2>1 DEF Passes
  <2>3. after[k - 1] \in Printed(S) /\ Told(after[k - 1], tid, native, k - 1, frames, last)
    BY <1>2, <1>8, <2>1
  <2> DEFINE acc == after[k - 1]
  <2> HIDE DEF acc
  <2>4. acc \in Printed(S) /\ Told(acc, tid, native, k - 1, frames, last)
    BY <2>3 DEF acc
  <2>5. Told(FormatNativeFrame(acc, tid, native[k], frames, last), tid, native, k, frames, last)
    <3>1. Kind(tid, native[k]) = "c" \/ Kind(tid, native[k]) = "eval"
      BY <1>6
    <3> QED BY <1>3, <2>1, <2>4, <3>1, TellsCall, TellsEval
  <2> QED BY <2>1, <2>2, <2>5 DEF acc
<1>9. Told(after[N], tid, native, N, frames, last)
  <2> HIDE DEF Good
  <2>1. 0 .. N \subseteq Good
    BY <1>5, <1>7, <1>8, StepByStep
  <2> QED BY <1>5, <2>1 DEF Good
<1> DEFINE acc == after[N]
<1>10. acc \in Printed(S)
  BY <1>2, <1>5
<1> HIDE DEF acc
<1>11. acc.lines \in Seq(S) /\ acc.held \in Seq(S)
  BY <1>10 DEF Printed
<1>12. acc.lines \in Seq(Nat) /\ acc.held \in Seq(Nat)
  BY <1>11, SeqMonotonic
<1>13. \A i : Past(native, N, i)
  BY <1>5 DEF Past, N
<1>14. /\ Increasing(acc.lines) /\ Increasing(acc.held)
       /\ \A i : IsAmong(acc.lines, i) <=> IsFrame(frames, i) \/ (~last /\ IsC(tid, native, i))
       /\ \A i : IsAmong(acc.held, i) <=>
            /\ last /\ IsC(tid, native, i)
            /\ \A j \in 1 .. N : Kind(tid, native[j]) = "eval" => native[j] < i
  BY <1>9, <1>13 DEF Told, acc
<1>15. \A i, h : IsAmong(acc.lines, i) /\ IsAmong(acc.held, h) => i < h
  <2> SUFFICES ASSUME NEW i, NEW h, IsAmong(acc.lines, i), IsAmong(acc.held, h) PROVE i < h
    OBVIOUS
  <2>1. PICK m \in 1 .. L : frames[m].at = i
    BY <1>14 DEF IsFrame, L
  <2>2. PICK l \in 1 .. N : native[l] = h /\ Kind(tid, h) = "c"
    BY <1>14 DEF IsC, IsAmong, N
  <2>3. PICK j \in 1 .. N :
          /\ Kind(tid, native[j]) = "eval" /\ native[j] < frames[m].at
          /\ \A n \in 1 .. N : native[n] < frames[m].at => native[n] <= native[j]
    BY <1>6
  <2>4. native[j] < h
    BY <1>14, <2>3
  <2>5. ~(h < i)
    BY <1>4, <1>5, <2>1, <2>2, <2>3, <2>4
  <2>6. h # i
    BY <1>6, <2>1, <2>2
  <2> QED BY <1>4, <1>5, <2>1, <2>2, <2>5, <2>6
<1> DEFINE q == acc.lines \o acc.held
<1>16. /\ q \in Seq(Nat) /\ Increasing(q)
       /\ \A i : IsAmong(q, i) <=> IsAmong(acc.lines, i) \/ IsAmong(acc.held, i)
  BY <1>12, <1>14, <1>15, IncreasingJoin
<1>17. merged.lines = q
  BY <1>2, <1>10 DEF acc, Printed
<1> HIDE DEF q
<1>18. InOrderOf(q, tid, native, frames, last)
  BY <1>14, <1>16 DEF InOrderOf, N
<1> QED BY <1>17, <1>18 DEF merged, tid, native, frames

\* Each eval frame has one entry frame.
LEMMA FittingIsMergeable ==
  ASSUME NEW S, S \subseteq Nat, NEW thread,
         thread.native_frames \in Seq(S), thread.frames \in PyFrames(S),
         Fits(thread.tid, thread.native_frames, Reverse(thread.frames))
  PROVE  AreTheStacksMergeable(thread)
<1> DEFINE native == thread.native_frames
           frames == Reverse(thread.frames)
           tid == thread.tid
           N == Len(native)
           L == Len(frames)
           E == Evals(tid, native, N)
           R == Entries(frames)
           f == [j \in E |-> CHOOSE m \in 1 .. L : frames[m].at = native[j] + 1]
<1>1. /\ frames \in PyFrames(S) /\ native \in Seq(S) /\ Fits(tid, native, frames)
      /\ Cardinality(R) = Cardinality(Entries(thread.frames))
  BY EntriesAreFinite
<1>2. DOMAIN thread.frames = 1 .. Len(thread.frames) /\ DOMAIN native = 1 .. N /\ N \in Nat
  BY FramesAre
<1>3. NumEntryFrames(thread) = Cardinality(R) /\ NumEvalFrames(thread) = Cardinality(E)
  BY <1>1, <1>2 DEF NumEntryFrames, NumEvalFrames, Entries, Evals
<1> HIDE DEF native, frames, tid
<1>4. L \in Nat /\ \A m \in 1 .. L : frames[m].at \in Nat
  BY <1>1, FramesAre
<1>5. \A j \in 1 .. N : native[j] \in Nat
  <2>1. native \in Seq(Nat)
    BY <1>1, SeqMonotonic
  <2> QED BY <2>1
<1>6. /\ \A j \in E : j \in 1 .. N /\ Kind(tid, native[j]) = "eval"
      /\ \A j \in 1 .. N : Kind(tid, native[j]) = "eval" => j \in E
      /\ \A m \in R : m \in 1 .. L /\ frames[m].is_entry
      /\ \A m \in 1 .. L : frames[m].is_entry => m \in R
  BY DEF Evals, IsEvalFrame, Entries
<1>7. IsFiniteSet(E)
  <2>1. E \subseteq 1 .. N /\ IsFiniteSet(1 .. N)
    BY <1>2, FS_Interval DEF Evals
  <2> QED BY <2>1, FS_Subset
<1> HIDE DEF E, R
<1>8. \A j \in E : f[j] \in 1 .. L /\ frames[f[j]].at = native[j] + 1
  BY <1>1, <1>6 DEF Fits
<1> HIDE DEF f
<1>9. \A m \in 1 .. L : frames[m].is_entry <=>
        \E j \in 1 .. N : native[j] = frames[m].at - 1 /\ Kind(tid, native[j]) = "eval"
  BY <1>1 DEF Fits
<1>10. \A j \in E : f[j] \in R
  <2> TAKE j \in E
  <2>1. native[j] = frames[f[j]].at - 1
    BY <1>4, <1>5, <1>6, <1>8
  <2> QED BY <1>6, <1>8, <1>9, <2>1
<1>11. \A j, k \in E : f[j] = f[k] => j = k
  <2> SUFFICES ASSUME NEW j \in E, NEW k \in E, f[j] = f[k] PROVE j = k
    OBVIOUS
  <2>1. native[j] = native[k] /\ j \in 1 .. N /\ k \in 1 .. N
    BY <1>5, <1>6, <1>8, SMTT(20)
  <2>2. ~(j < k) /\ ~(k < j)
    BY <1>1, <1>5, <2>1 DEF Fits, Increasing
  <2> QED BY <2>1, <2>2
<1>12. \A m \in R : \E j \in E : f[j] = m
  <2> SUFFICES ASSUME NEW m \in R PROVE \E j \in E : f[j] = m
    OBVIOUS
  <2>1. PICK j \in E : native[j] = frames[m].at - 1
    BY <1>6, <1>9
  <2>2. f[j] \in 1 .. L /\ m \in 1 .. L /\ frames[f[j]].at = frames[m].at
    BY <1>4, <1>6, <1>8, <2>1
  <2>3. ~(f[j] < m) /\ ~(m < f[j])
    <3>1. \A a, b \in 1 .. L : a < b => frames[a].at < frames[b].at
      BY <1>1 DEF Fits
    <3>2. /\ f[j] < m => frames[f[j]].at < frames[m].at
          /\ m < f[j] => frames[m].at < frames[f[j]].at
      BY <2>2, <3>1
    <3> QED BY <1>4, <2>2, <3>2
  <2> QED BY <1>4, <2>2, <2>3
<1>13. f \in Bijection(E, R)
  <2>1. f \in [E -> R]
    BY <1>10 DEF f
  <2> QED BY <1>11, <1>12, <2>1 DEF Bijection, Injection, Surjection, IsInjective
<1>14. Cardinality(R) = Cardinality(E)
  <2>1. ExistsBijection(E, R)
    BY <1>13 DEF ExistsBijection
  <2> QED BY <1>7, <2>1, FS_Bijection
<1> QED BY <1>3, <1>14 DEF AreTheStacksMergeable
-----------------------------------------------------------------------------
(* The calls on a stack that is read in full, each in an eval loop.         *)

\* The eval loop in which call i is made is one of s; or it is made outside of all.
RunsIn(t, i, s) ==
  \E e \in 1 .. i : /\ Kind(t, e) = "eval" /\ stack[t][e].of = s
                    /\ \A f \in 1 .. i : Kind(t, f) = "eval" => f <= e
Outside(t, i) == \A e \in 1 .. i : Kind(t, e) # "eval"

\* Every eval loop has its frame right behind it, unless it has just been entered.
LEMMA EvalsHaveFrames ==
  ASSUME StacksInv, NEW t \in Tid, Last(stack[t]).kind # "eval",
         NEW e \in 1 .. Len(stack[t]), Kind(t, e) = "eval"
  PROVE  /\ e + 1 \in 1 .. Len(stack[t]) /\ e + 1 > 1
         /\ Kind(t, e + 1) = "py" /\ stack[t][e + 1].of = stack[t][e].of
<1> DEFINE d == Len(stack[t])
<1>1. d \in Nat
  BY StackOf
<1>2. e # d
  BY DEF Last, Kind
<1> HIDE DEF d
<1>3. e \in 1 .. d - 1 /\ e + 1 \in 1 .. d /\ e + 1 > 1
  BY <1>1, <1>2 DEF d
<1>4. Kind(t, e + 1) = "py"
  BY <1>3 DEF StacksInv, EvalsCall, d
<1>5. PICK i \in 1 .. d : i = e + 1
  BY <1>3
<1>6. Calls(stack[t][i - 1], stack[t][i])
  BY <1>4, <1>5, StackOf DEF d
<1>7. i - 1 = e
  BY <1>1, <1>5 DEF d
<1>8. stack[t][e].of = stack[t][i].of
  BY <1>6, <1>7 DEF Calls
<1> QED BY <1>3, <1>4, <1>5, <1>8 DEF d

\* Between the eval loop of a Python frame and the frame there are Python frames only.
LEMMA FramesHaveEvals ==
  ASSUME StacksInv, NEW t \in Tid, NEW i \in 1 .. Len(stack[t]), Kind(t, i) = "py"
  PROVE  \E e \in 1 .. Len(stack[t]) :
           /\ e < i /\ Kind(t, e) = "eval" /\ stack[t][e].of = stack[t][i].of
           /\ \A f \in 1 .. Len(stack[t]) : e < f /\ f <= i => Kind(t, f) = "py"
<1> DEFINE d == Len(stack[t])
           s == stack[t][i].of
           Own(j) == Kind(t, j) = "py" /\ stack[t][j].of = s
           T == {j \in 1 .. i : \A k \in j .. i : Own(k)}
<1>1. d \in Nat /\ \A j \in 1 .. d : Kind(t, j) = "py" => j > 1 /\ Calls(stack[t][j - 1], stack[t][j])
  BY StackOf
<1> HIDE DEF d
<1>2. i \in 1 .. d /\ Own(i) /\ i \in 1 .. i
  BY <1>1 DEF d
<1>3. i \in T
  <2>1. \A k \in i .. i : k = i
    BY <1>1, <1>2
  <2> HIDE DEF Own
  <2> QED BY <1>2, <2>1
<1>4. PICK m \in T : \A j \in T : m <= j
  <2>1. T \subseteq Nat /\ T # {}
    BY <1>3
  <2> HIDE DEF T
  <2> QED BY <2>1, LeastOf
<1>5. m \in 1 .. i /\ m \in 1 .. d /\ \A k \in m .. i : Own(k)
  BY <1>1, <1>2, <1>4
<1>6. Own(m) /\ m > 1 /\ Calls(stack[t][m - 1], stack[t][m])
  <2>1. m \in m .. i
    BY <1>1, <1>2, <1>5
  <2>2. Own(m)
    BY <1>5, <2>1
  <2> QED BY <1>1, <1>5, <2>2
<1>7. PICK e \in 1 .. d : e = m - 1
  BY <1>1, <1>5, <1>6
<1>8. stack[t][e].of = s /\ Kind(t, e) \in {"eval", "py"}
  BY <1>6, <1>7 DEF Calls, Kind
<1>9. Kind(t, e) # "py"
  <2> SUFFICES ASSUME Kind(t, e) = "py" PROVE FALSE
    OBVIOUS
  <2>1. Own(e) /\ e \in 1 .. i /\ ~(m <= e)
    BY <1>1, <1>2, <1>5, <1>7, <1>8
  <2>2. \A k \in e .. i : k = e \/ k \in m .. i
    BY <1>1, <1>2, <1>5, <1>7
  <2>3. \A k \in e .. i : Own(k)
    <3> HIDE DEF Own
    <3> QED BY <1>5, <2>1, <2>2
  <2>4. e \in T
    BY <2>1, <2>3
  <2> QED BY <1>4, <2>1, <2>4
<1>10. \A f \in 1 .. d : e < f /\ f <= i => f \in m .. i
  BY <1>1, <1>2, <1>5, <1>7
<1>11. e < i
  BY <1>1, <1>2, <1>5, <1>7
<1> QED BY <1>5, <1>8, <1>9, <1>10, <1>11 DEF d, s

\* A Python frame runs in an eval loop of its own thread state.
LEMMA FramesRunIn ==
  ASSUME StacksInv, NEW t \in Tid, NEW i \in 1 .. Len(stack[t]), Kind(t, i) = "py"
  PROVE  RunsIn(t, i, stack[t][i].of)
<1> DEFINE d == Len(stack[t])
<1>1. d \in Nat
  BY StackOf
<1>2. PICK e \in 1 .. d :
        /\ e < i /\ Kind(t, e) = "eval" /\ stack[t][e].of = stack[t][i].of
        /\ \A f \in 1 .. d : e < f /\ f <= i => Kind(t, f) = "py"
  BY FramesHaveEvals
<1> HIDE DEF d
<1>3. \A f \in 1 .. i : f \in 1 .. d /\ f <= i
  BY <1>1 DEF d
<1>4. \A f \in 1 .. i : Kind(t, f) = "eval" => f <= e
  <2> SUFFICES ASSUME NEW f \in 1 .. i, Kind(t, f) = "eval", ~(f <= e) PROVE FALSE
    OBVIOUS
  <2>1. e < f
    BY <1>1, <1>2, <1>3
  <2> QED BY <1>2, <1>3, <2>1
<1>5. e \in 1 .. i
  BY <1>1, <1>2
<1> QED BY <1>2, <1>4, <1>5 DEF RunsIn

\* The frames of a thread state from the outermost on.
LEMMA TurnedFramesAre ==
  ASSUME NEW s, NEW unreadable, NEW frames, FramesOfState(frames, s, unreadable)
  PROVE  LET d == Len(stack[TidOf[s]])
             turned == Reverse(frames)
         IN /\ turned \in PyFrames(1 .. d)
            /\ \A m \in 1 .. Len(turned) :
                 /\ turned[m].at \in 1 .. d /\ IsRead(s, unreadable, turned[m].at)
                 /\ turned[m].is_entry <=> Kind(TidOf[s], turned[m].at - 1) = "eval"
            /\ \A m, n \in 1 .. Len(turned) : m < n => turned[m].at < turned[n].at
            /\ \A i \in 1 .. d : IsRead(s, unreadable, i) =>
                 \E m \in 1 .. Len(turned) : turned[m].at = i
<1> DEFINE d == Len(stack[TidOf[s]])
           F == [at : 1 .. d, is_entry : BOOLEAN]
           turned == Reverse(frames)
           L == Len(frames)
<1>1. /\ frames \in Seq(F) /\ frames \in PyFrames(1 .. d)
      /\ \A k \in 1 .. L : /\ IsRead(s, unreadable, frames[k].at)
                           /\ frames[k].is_entry <=> Kind(TidOf[s], frames[k].at - 1) = "eval"
      /\ \A j, k \in 1 .. L : j < k => frames[k].at < frames[j].at
      /\ \A i \in 1 .. d : IsRead(s, unreadable, i) => \E k \in 1 .. L : frames[k].at = i
  BY DEF FramesOfState, PyFrames
<1> HIDE DEF d, F
<1>2. /\ turned \in Seq(F) /\ Len(turned) = L
      /\ \A i \in 1 .. L : L - i + 1 \in 1 .. L /\ turned[i] = frames[L - i + 1]
  BY <1>1, ReverseIs
<1>3. L \in Nat /\ \A k \in 1 .. L : frames[k].at \in 1 .. d
  BY <1>1, FramesAre
<1> HIDE DEF turned, L
<1>4. \A m \in 1 .. L : /\ turned[m].at \in 1 .. d /\ IsRead(s, unreadable, turned[m].at)
                        /\ turned[m].is_entry <=> Kind(TidOf[s], turned[m].at - 1) = "eval"
  BY <1>1, <1>2, <1>3
<1>5. ASSUME NEW m \in 1 .. L, NEW n \in 1 .. L, m < n PROVE turned[m].at < turned[n].at
  <2>1. L - n + 1 < L - m + 1
    BY <1>3, <1>5
  <2> QED BY <1>1, <1>2, <2>1
<1>6. ASSUME NEW i \in 1 .. d, IsRead(s, unreadable, i) PROVE \E m \in 1 .. L : turned[m].at = i
  <2>1. PICK k \in 1 .. L : frames[k].at = i
    BY <1>1, <1>6
  <2>2. PICK m \in 1 .. L : m = L - k + 1 /\ L - m + 1 = k
    BY <1>3
  <2> QED BY <1>2, <2>1, <2>2
<1>7. turned \in PyFrames(1 .. d)
  BY <1>2 DEF PyFrames, F
<1> QED BY <1>2, <1>4, <1>5, <1>6, <1>7 DEF d, turned

\* The native frames of one thread state: its eval frames and no others.
NativesOfState(native, s) ==
  LET d == Len(stack[TidOf[s]])
  IN /\ native \in Seq(1 .. d) /\ Increasing(native)
     /\ \A i \in 1 .. d : IsAmong(native, i) => Kind(TidOf[s], i) # "py"
     /\ \A e \in 1 .. d : Kind(TidOf[s], e) = "eval" =>
          (IsAmong(native, e) <=> stack[TidOf[s]][e].of = s)

LEMMA StateFits ==
  ASSUME StacksInv, NEW s \in TState, Last(stack[TidOf[s]]).kind # "eval",
         NEW frames, FramesOfState(frames, s, {}), NEW native, NativesOfState(native, s)
  PROVE  Fits(TidOf[s], native, Reverse(frames))
<1> DEFINE t == TidOf[s]
           d == Len(stack[t])
           turned == Reverse(frames)
           L == Len(turned)
           N == Len(native)
<1>1. t \in Tid /\ d \in Nat
  BY StackOf DEF Tid
<1>2. /\ turned \in PyFrames(1 .. d)
      /\ \A m \in 1 .. L : /\ turned[m].at \in 1 .. d /\ IsRead(s, {}, turned[m].at)
                           /\ turned[m].is_entry <=> Kind(t, turned[m].at - 1) = "eval"
      /\ \A m, n \in 1 .. L : m < n => turned[m].at < turned[n].at
      /\ \A i \in 1 .. d : IsRead(s, {}, i) => \E m \in 1 .. L : turned[m].at = i
  BY TurnedFramesAre
<1>3. /\ native \in Seq(1 .. d) /\ Increasing(native)
      /\ \A i \in 1 .. d : IsAmong(native, i) => Kind(t, i) # "py"
      /\ \A e \in 1 .. d : Kind(t, e) = "eval" => (IsAmong(native, e) <=> stack[t][e].of = s)
  BY DEF NativesOfState
<1> HIDE DEF turned, d
<1>4. \A j \in 1 .. N : native[j] \in 1 .. d /\ IsAmong(native, native[j])
  <2>1. \A j \in 1 .. N : native[j] \in 1 .. d
    <3> DEFINE D == 1 .. d
    <3> HIDE DEF D
    <3>1. native \in Seq(D)
      BY <1>3 DEF D
    <3>2. \A j \in 1 .. Len(native) : native[j] \in D
      BY ONLY <3>1
    <3> QED BY <3>2 DEF D
  <2>2. \A j \in 1 .. N : IsAmong(native, native[j])
    BY DEF IsAmong
  <2> QED BY <2>1, <2>2
<1>5. \A j \in 1 .. N : Kind(t, native[j]) \in {"c", "eval"}
  <2> TAKE j \in 1 .. N
  <2>1. Kind(t, native[j]) \in {"c", "eval", "py"}
    BY <1>1, <1>4, StackOf DEF d
  <2> QED BY <1>3, <1>4, <2>1
<1>6. \A m \in 1 .. L : Kind(t, turned[m].at) = "py" /\ stack[t][turned[m].at].of = s
  BY <1>2 DEF IsRead
<1>7. ASSUME NEW m \in 1 .. L
      PROVE  turned[m].is_entry <=> \E j \in 1 .. N : /\ native[j] = turned[m].at - 1
                                                      /\ Kind(t, native[j]) = "eval"
  <2>1. turned[m].is_entry <=> Kind(t, turned[m].at - 1) = "eval"
    BY <1>2
  <2>2. ASSUME Kind(t, turned[m].at - 1) = "eval" PROVE \E j \in 1 .. N : native[j] = turned[m].at - 1
    <3> DEFINE i == turned[m].at
    <3>1. i \in 1 .. d /\ Kind(t, i) = "py" /\ stack[t][i].of = s
      BY <1>2, <1>6
    <3> HIDE DEF i
    <3>2. i > 1 /\ Calls(stack[t][i - 1], stack[t][i])
      BY <1>1, <3>1, StackOf DEF d
    <3>3. PICK e \in 1 .. d : e = i - 1
      BY <1>1, <3>1, <3>2
    <3>4. stack[t][e].of = s /\ Kind(t, e) = "eval"
      BY <2>2, <3>1, <3>2, <3>3 DEF Calls, i
    <3>5. IsAmong(native, e)
      BY <1>3, <3>4
    <3> QED BY <3>3, <3>5 DEF IsAmong, i
  <2> QED BY <2>1, <2>2
<1>8. ASSUME NEW j \in 1 .. N, Kind(t, native[j]) = "eval"
      PROVE  \E m \in 1 .. L : turned[m].at = native[j] + 1
  <2>1. native[j] \in 1 .. d /\ stack[t][native[j]].of = s
    BY <1>3, <1>4, <1>8
  <2>2. PICK i \in 1 .. d : i = native[j] + 1 /\ Kind(t, i) = "py" /\ stack[t][i].of = s
    BY <1>1, <1>8, <2>1, EvalsHaveFrames DEF d
  <2>3. IsRead(s, {}, i)
    BY <2>2 DEF IsRead
  <2> QED BY <1>2, <2>2, <2>3
<1>9. ASSUME NEW m \in 1 .. L
       PROVE  \E j \in 1 .. N : /\ Kind(t, native[j]) = "eval" /\ native[j] < turned[m].at
                                /\ \A l \in 1 .. N : native[l] < turned[m].at => native[l] <= native[j]
  <2> DEFINE i == turned[m].at
  <2>1. i \in 1 .. d /\ Kind(t, i) = "py" /\ stack[t][i].of = s
    BY <1>2, <1>6
  <2> HIDE DEF i
  <2>2. PICK e \in 1 .. d : /\ e < i /\ Kind(t, e) = "eval" /\ stack[t][e].of = s
                            /\ \A f \in 1 .. d : e < f /\ f <= i => Kind(t, f) = "py"
    BY <1>1, <2>1, FramesHaveEvals DEF d
  <2>3. PICK j \in 1 .. N : native[j] = e
    BY <1>3, <2>2 DEF IsAmong
  <2>4. ASSUME NEW l \in 1 .. N, native[l] < i PROVE native[l] <= e
    <3>1. native[l] \in 1 .. d /\ Kind(t, native[l]) # "py"
      BY <1>4, <1>5
    <3> QED BY <1>1, <2>1, <2>2, <2>4, <3>1
  <2> QED BY <2>2, <2>3, <2>4 DEF i
<1>10. Fits(t, native, turned)
  BY <1>2, <1>3, <1>5, <1>6, <1>7, <1>8, <1>9 DEF Fits
<1> QED BY <1>10 DEF turned

\* What format_thread prints of a thread state whose stacks are read in full.
PrintsInOrder(lines, s, native, mode) ==
  LET t == TidOf[s]
  IN /\ lines \in Seq(Nat) /\ Increasing(lines)
     /\ \A i : IsAmong(lines, i) <=>
          /\ i \in 1 .. Len(stack[t])
          /\ \/ Kind(t, i) = "py" /\ stack[t][i].of = s
             \/ /\ mode # "off" /\ Kind(t, i) = "c" /\ IsAmong(native, i)
                /\ mode = "last" => \A e \in 1 .. Len(stack[t]) :
                     Kind(t, e) = "eval" /\ stack[t][e].of = s => e < i

LEMMA FormattedInOrder ==
  ASSUME StacksInv, NEW th \in Thread, NEW mode, th.tid = TidOf[th.state],
         FramesOfState(th.frames, th.state, {}), Last(stack[th.tid]).kind # "eval",
         mode # "off" => NativesOfState(th.native_frames, th.state)
  PROVE  PrintsInOrder(FormatThread(th, mode).lines, th.state, th.native_frames, mode)
<1> DEFINE s == th.state
           t == TidOf[s]
           d == Len(stack[t])
           native == th.native_frames
           turned == Reverse(th.frames)
           L == Len(turned)
           lines == FormatThread(th, mode).lines
<1>1. /\ s \in TState /\ native \in Seq(Line) /\ th.frames \in PyFrames(Line) /\ th.tid = t
      /\ Line \subseteq Nat
  BY DEF Thread, Line
<1>2. t \in Tid /\ d \in Nat /\ 1 .. d \subseteq Line
  BY <1>1, StackOf DEF Tid
<1>3. /\ turned \in PyFrames(1 .. d)
      /\ \A m \in 1 .. L : turned[m].at \in 1 .. d /\ IsRead(s, {}, turned[m].at)
      /\ \A m, n \in 1 .. L : m < n => turned[m].at < turned[n].at
      /\ \A i \in 1 .. d : IsRead(s, {}, i) => \E m \in 1 .. L : turned[m].at = i
  BY TurnedFramesAre
<1>4. \A i : IsFrame(turned, i) <=> i \in 1 .. d /\ Kind(t, i) = "py" /\ stack[t][i].of = s
  BY <1>3 DEF IsFrame, IsRead
<1>5. CASE mode = "off"
  <2>1. FormatThread(th, mode) =
          [state |-> s, tid |-> th.tid, lines |-> [n \in DOMAIN th.frames |-> turned[n].at],
           merged |-> FALSE, asserts |-> TRUE]
    BY <1>5 DEF FormatThread
  <2>2. lines = [n \in DOMAIN th.frames |-> turned[n].at]
    BY <2>1
  <2>3. DOMAIN th.frames = 1 .. L /\ L \in Nat
    <3>1. Len(turned) = Len(th.frames) /\ Len(th.frames) \in Nat
          /\ DOMAIN th.frames = 1 .. Len(th.frames)
      BY <1>1, EntriesAreFinite, FramesAre
    <3> QED BY <3>1
  <2> HIDE DEF lines, turned, L, d
  <2>4. \A n \in 1 .. L : turned[n].at \in Nat
    BY <1>2, <1>3 DEF d
  <2>5. lines \in Seq(Nat) /\ Len(lines) = L /\ \A n \in 1 .. L : lines[n] = turned[n].at
    BY <2>2, <2>3, <2>4
  <2>6. Increasing(lines)
    BY <1>3, <2>5 DEF Increasing
  <2>7. \A i : IsAmong(lines, i) <=> IsFrame(turned, i)
    BY <2>5 DEF IsAmong, IsFrame, L
  <2>8. PrintsInOrder(lines, s, native, mode)
    BY <1>4, <1>5, <2>5, <2>6, <2>7 DEF PrintsInOrder, d
  <2> QED BY <2>8 DEF lines
<1>6. CASE mode # "off"
  <2>1. NativesOfState(native, s)
    BY <1>6
  <2>2. Fits(t, native, turned)
    BY <1>1, <2>1, StateFits
  <2>3. AreTheStacksMergeable(th)
    BY <1>1, <2>2, FittingIsMergeable
  <2> DEFINE merged == FormatMergedStacks(th, mode = "last")
  <2>4. FormatThread(th, mode) =
          [state |-> s, tid |-> th.tid, lines |-> merged.lines,
           merged |-> TRUE, asserts |-> merged.asserts]
    BY <1>6, <2>3 DEF FormatThread
  <2>5. lines = merged.lines
    BY <2>4
  <2>6. InOrderOf(merged.lines, t, native, turned, mode = "last")
    BY <1>1, <2>2, MergedOrder
  <2> HIDE DEF lines, merged, turned, native, d
  <2>7. /\ native \in Seq(1 .. d)
        /\ \A e \in 1 .. d : Kind(t, e) = "eval" => (IsAmong(native, e) <=> stack[t][e].of = s)
    BY <2>1 DEF NativesOfState, d
  <2>8. \A j \in 1 .. Len(native) : native[j] \in 1 .. d
    <3> DEFINE D == 1 .. d
    <3> HIDE DEF D
    <3>1. native \in Seq(D)
      BY <2>7 DEF D
    <3>2. \A j \in 1 .. Len(native) : native[j] \in D
      BY ONLY <3>1
    <3> QED BY <3>2 DEF D
  <2>9. \A i : (\A j \in 1 .. Len(native) : Kind(t, native[j]) = "eval" => native[j] < i) <=>
               (\A e \in 1 .. d : Kind(t, e) = "eval" /\ stack[t][e].of = s => e < i)
    <3>1. \A j \in 1 .. Len(native) : Kind(t, native[j]) = "eval" => stack[t][native[j]].of = s
      BY <2>7, <2>8 DEF IsAmong
    <3>2. \A e \in 1 .. d : Kind(t, e) = "eval" /\ stack[t][e].of = s =>
            \E j \in 1 .. Len(native) : native[j] = e
      BY <2>7 DEF IsAmong
    <3> QED BY <2>8, <3>1, <3>2
  <2>10. \A i : IsC(t, native, i) <=> Kind(t, i) = "c" /\ i \in 1 .. d /\ IsAmong(native, i)
    BY <2>8 DEF IsC, IsAmong
  <2>11. PrintsInOrder(lines, s, native, mode)
    BY <1>4, <1>6, <2>5, <2>6, <2>9, <2>10 DEF PrintsInOrder, InOrderOf, d
  <2> QED BY <2>11 DEF lines, native
<1> QED BY <1>5, <1>6
-----------------------------------------------------------------------------
(* The order of the thread states: the anchors tell it.                     *)

\* The stacks of t are such that a report without losses shows all of its calls in order.
ReadInFull(t) ==
  /\ StatesOn(t) # {} /\ Last(stack[t]).kind # "eval" /\ \A s \in StatesOn(t) : Reported(s)
  /\ Nested(t) /\ (HasShims \/ Cardinality(StatesOn(t)) = 1)

EvalOf(t, e, s) == e \in 1 .. Len(stack[t]) /\ Kind(t, e) = "eval" /\ stack[t][e].of = s

\* What is on a stack has an eval loop there, and only that has frames.
LEMMA StatesOnAre ==
  ASSUME StacksInv, NEW t \in Tid
  PROVE  /\ \A s \in StatesOn(t) : s \in TState /\ TidOf[s] = t /\ \E e : EvalOf(t, e, s)
         /\ \A e, s : EvalOf(t, e, s) => s \in StatesOn(t)
<1> DEFINE d == Len(stack[t])
<1>1. /\ d \in Nat
      /\ \A i \in 1 .. d : /\ stack[t][i] \in Frame /\ Kind(t, i) \in {"c", "eval", "py"}
                           /\ Kind(t, i) # "c" => stack[t][i].of \in TState /\ TidOf[stack[t][i].of] = t
  <2>1. stack[t] \in Seq(Frame)
    BY StackOf
  <2> QED BY <2>1, StackOf
<1>2. ASSUME NEW s \in StatesOn(t) PROVE s \in TState /\ TidOf[s] = t /\ \E e : EvalOf(t, e, s)
  <2>1. PICK i \in 1 .. d : stack[t][i].of = s /\ s # NoState
    BY <1>2 DEF StatesOn
  <2>2. Kind(t, i) # "c"
    <3>1. stack[t][i] \in Frame
      BY <1>1
    <3> QED BY <2>1, <3>1, FramesOf DEF Frame, Kind
  <2>3. Kind(t, i) = "eval" \/ Kind(t, i) = "py"
    BY <1>1, <2>2
  <2>4. CASE Kind(t, i) = "eval"
    BY <1>1, <2>1, <2>2, <2>4 DEF EvalOf
  <2>5. CASE Kind(t, i) = "py"
    <3>1. PICK e \in 1 .. d : Kind(t, e) = "eval" /\ stack[t][e].of = stack[t][i].of
      BY <2>5, FramesHaveEvals
    <3> QED BY <1>1, <2>1, <2>2, <3>1 DEF EvalOf
  <2> QED BY <2>3, <2>4, <2>5
<1>3. ASSUME NEW e, NEW s, EvalOf(t, e, s) PROVE s \in StatesOn(t)
  <2>1. e \in 1 .. d /\ Kind(t, e) # "c" /\ stack[t][e].of = s
    BY <1>3 DEF EvalOf
  <2>2. s \in TState
    BY <1>1, <2>1
  <2>3. s # NoState
    BY <2>2, StacksAssumption
  <2> QED BY <2>1, <2>3 DEF StatesOn
<1> QED BY <1>2, <1>3

LEMMA ChainHasEval ==
  ASSUME StacksInv, NEW s \in TState, Last(stack[TidOf[s]]).kind # "eval"
  PROVE  FrameChain(s) # <<>> <=> \E e : EvalOf(TidOf[s], e, s)
<1> DEFINE t == TidOf[s]
           d == Len(stack[t])
           chain == FrameChain(s)
<1>1. t \in Tid /\ d \in Nat
  BY StackOf DEF Tid
<1>2. /\ chain \in Seq(1 .. d) /\ Len(chain) \in Nat
      /\ \A k \in 1 .. Len(chain) : chain[k] \in 1 .. d /\ InChain(s, chain[k])
      /\ \A i \in 1 .. d : InChain(s, i) => \E k \in 1 .. Len(chain) : chain[k] = i
  <2> HIDE DEF chain
  <2>1. /\ chain \in Seq(1 .. d)
        /\ \A k \in 1 .. Len(chain) : chain[k] \in 1 .. d /\ InChain(s, chain[k])
        /\ \A i \in 1 .. d : InChain(s, i) => \E k \in 1 .. Len(chain) : chain[k] = i
    BY ChainIs DEF chain
  <2> QED BY <2>1
<1> HIDE DEF chain
<1>3. ASSUME chain # <<>> PROVE \E e : EvalOf(t, e, s)
  <2>1. 1 \in 1 .. Len(chain)
    BY <1>2, <1>3
  <2>2. PICK i \in 1 .. d : InChain(s, i)
    BY <1>2, <2>1
  <2>3. stack[t][i].of = s /\ s # NoState
    BY <2>2, StacksAssumption DEF InChain
  <2>4. s \in StatesOn(t)
    BY <2>3 DEF StatesOn
  <2> QED BY <1>1, <2>4, StatesOnAre
<1>4. ASSUME NEW e, EvalOf(t, e, s) PROVE chain # <<>>
  <2>1. PICK i \in 1 .. d : Kind(t, i) = "py" /\ stack[t][i].of = s
    BY <1>1, <1>4, EvalsHaveFrames DEF EvalOf
  <2>2. InChain(s, i)
    BY <2>1 DEF InChain
  <2>3. PICK k \in 1 .. Len(chain) : chain[k] = i
    BY <1>2, <2>2
  <2> QED BY <1>2, <2>3
<1> QED BY <1>3, <1>4 DEF chain

\* The higher anchor is that of the thread state that was called first.
LEMMA AnchorsTellOrder ==
  ASSUME StacksInv, NEW t \in Tid, ReadInFull(t), NEW heap \in Heaps,
         NEW r \in TState, NEW s \in TState, TidOf[r] = t, TidOf[s] = t, r # s,
         StackAnchor(r, heap) >= StackAnchor(s, heap),
         NEW e, NEW f, EvalOf(t, e, r), EvalOf(t, f, s)
  PROVE  e < f
<1> DEFINE d == Len(stack[t])
<1>1. d \in Nat /\ Last(stack[t]).kind # "eval" /\ Nested(t)
  BY StackOf DEF ReadInFull
<1>2. HasShims
  <2> SUFFICES ASSUME ~HasShims PROVE FALSE
    OBVIOUS
  <2>1. Cardinality(StatesOn(t)) = 1
    BY DEF ReadInFull
  <2>2. IsFiniteSet(StatesOn(t))
    <3> DEFINE D == 1 .. d
               all == {stack[t][i].of : i \in D}
               of == [i \in D |-> stack[t][i].of]
    <3>1. IsFiniteSet(D)
      BY <1>1, FS_Interval
    <3>2. StatesOn(t) \subseteq all
      BY DEF StatesOn
    <3> HIDE DEF D
    <3>3. of \in Surjection(D, all)
      BY DEF Surjection
    <3> HIDE DEF of, all
    <3>4. IsFiniteSet(all)
      BY <3>1, <3>3, FS_Surjection
    <3> QED BY <3>2, <3>4, FS_Subset
  <2>3. \E x : StatesOn(t) = {x}
    BY <2>1, <2>2, FS_Singleton
  <2>4. r \in StatesOn(t) /\ s \in StatesOn(t)
    BY StatesOnAre
  <2> QED BY <2>3, <2>4
<1>3. FrameChain(r) # <<>> /\ FrameChain(s) # <<>>
  BY <1>1, ChainHasEval
<1>4. PICK last_r : InnermostEval(r, last_r) /\ StackAnchor(r, heap) = MaxDepth + 1 - last_r
  BY <1>2, <1>3, AnchorIs
<1>5. PICK last_s : InnermostEval(s, last_s) /\ StackAnchor(s, heap) = MaxDepth + 1 - last_s
  BY <1>2, <1>3, AnchorIs
<1>6. /\ last_r \in 1 .. d /\ last_s \in 1 .. d /\ e \in 1 .. d /\ f \in 1 .. d
      /\ e <= last_r
      /\ Kind(t, e) = "eval" /\ Kind(t, f) = "eval" /\ Kind(t, last_s) = "eval"
      /\ stack[t][e].of = r /\ stack[t][f].of = s /\ stack[t][last_r].of = r /\ stack[t][last_s].of = s
  BY <1>4, <1>5 DEF InnermostEval, EvalOf
<1> HIDE DEF d
<1>7. last_r <= last_s
  <2>1. MaxDepth \in Nat
    BY StacksAssumption
  <2>2. MaxDepth + 1 - last_r >= MaxDepth + 1 - last_s
    BY <1>4, <1>5
  <2> QED BY <1>1, <1>6, <2>1, <2>2
<1>8. last_r # last_s /\ e # f
  BY <1>6
<1>9. ~(f < e)
  <2> SUFFICES ASSUME f < e PROVE FALSE
    OBVIOUS
  <2>1. e < last_s
    BY <1>1, <1>6, <1>7, <1>8
  <2>2. stack[t][f] # C /\ stack[t][e] # C
    BY <1>6 DEF C, Kind
  <2>3. stack[t][e].of = stack[t][f].of
    BY <1>1, <1>6, <2>1, <2>2 DEF Nested, d
  <2> QED BY <1>6, <2>3
<1> QED BY <1>1, <1>6, <1>8, <1>9

\* The threads have the anchors of their thread states, and all thread states on the stack
\* of t are there.
Anchored(data, t, heap) ==
  /\ \A n \in 1 .. Len(data) : data[n].stack_anchor = StackAnchor(data[n].state, heap)
  /\ \A s \in StatesOn(t) : \E n \in OfThread(data, t) : data[n].state = s

\* The threads of t are in the order of their calls, with one that has calls first, and all
\* thread states on the stack of t are there.
InOrderOfCalls(list, t) ==
  /\ \A m, n \in OfThread(list, t) : m < n =>
       \A e, f : EvalOf(t, e, list[m].state) /\ EvalOf(t, f, list[n].state) => e < f
  /\ \A n \in OfThread(list, t) :
       (\A m \in OfThread(list, t) : n <= m) => \E e : EvalOf(t, e, list[n].state)
  /\ \A s \in StatesOn(t) : \E n \in OfThread(list, t) : list[n].state = s

LEMMA SortedInOrder ==
  ASSUME StacksInv, NEW t \in Tid, ReadInFull(t), NEW heap \in Heaps,
         NEW data, NEW unreadable, NEW natives, ReadThreads(data, unreadable, natives),
         Anchored(data, t, heap),
         \A q, r \in 1 .. Len(data) : q < r => data[q].stack_anchor >= data[r].stack_anchor
  PROVE  InOrderOfCalls(data, t)
<1>1. /\ data \in Seq(Thread) /\ Len(data) \in Nat
      /\ \A n \in OfThread(data, t) : /\ n \in 1 .. Len(data) /\ data[n].state \in TState
                                      /\ TidOf[data[n].state] = t
                                      /\ data[n].stack_anchor = StackAnchor(data[n].state, heap)
      /\ \A m, n \in 1 .. Len(data) : data[m].state = data[n].state => m = n
  <2>1. data \in Seq(Thread)
    BY DEF ReadThreads
  <2>2. \A n \in 1 .. Len(data) : data[n] \in Thread
    BY <2>1
  <2>3. \A n \in 1 .. Len(data) : data[n].state \in TState
    BY <2>2 DEF Thread
  <2> QED BY <2>1, <2>3 DEF ReadThreads, OfThread, Anchored
<1>2. ASSUME NEW m \in OfThread(data, t), NEW n \in OfThread(data, t), m < n,
             NEW e, NEW f, EvalOf(t, e, data[m].state), EvalOf(t, f, data[n].state)
      PROVE  e < f
  <2>1. data[m].state # data[n].state
    <3>1. m # n
      BY <1>1, <1>2
    <3> QED BY <1>1, <3>1
  <2>2. StackAnchor(data[m].state, heap) >= StackAnchor(data[n].state, heap)
    BY <1>1, <1>2
  <2> QED BY <1>1, <1>2, <2>1, <2>2, AnchorsTellOrder
<1>3. ASSUME NEW n \in OfThread(data, t), \A m \in OfThread(data, t) : n <= m
      PROVE  \E e : EvalOf(t, e, data[n].state)
  <2>1. PICK s \in StatesOn(t) : TRUE
    BY DEF ReadInFull
  <2>2. PICK m \in OfThread(data, t) : data[m].state = s
    BY DEF Anchored
  <2>3. s \in TState /\ TidOf[s] = t /\ \E e : EvalOf(t, e, s)
    BY StatesOnAre
  <2>4. Last(stack[t]).kind # "eval"
    BY DEF ReadInFull
  <2>5. FrameChain(s) # <<>>
    BY <2>3, <2>4, ChainHasEval
  <2>6. StackAnchor(s, heap) \in Int /\ StackAnchor(s, heap) > 0
    BY <2>3, <2>5, AnchorIs
  <2>7. StackAnchor(data[n].state, heap) \in Int
        /\ StackAnchor(data[n].state, heap) >= StackAnchor(s, heap)
    <3>1. StackAnchor(data[n].state, heap) \in Int
      BY <1>1, AnchorIs
    <3>2. m = n \/ n < m
      BY <1>1, <1>3, <2>2
    <3>3. CASE m = n
      BY <2>2, <3>1, <3>3
    <3>4. CASE n < m
      <4>1. data[n].stack_anchor >= data[m].stack_anchor
        BY <1>1, <2>2, <3>4
      <4> QED BY <1>1, <2>2, <3>1, <4>1
    <3> QED BY <3>2, <3>3, <3>4
  <2>8. FrameChain(data[n].state) # <<>>
    <3>1. StackAnchor(data[n].state, heap) # 0
      BY <2>6, <2>7
    <3> QED BY <1>1, <3>1, AnchorIs
  <2> QED BY <1>1, <2>4, <2>8, ChainHasEval
<1> QED BY <1>2, <1>3 DEF InOrderOfCalls, Anchored
-----------------------------------------------------------------------------
(* SliceNativeStack: the cursor behind a thread state is at the next one's  *)
(* eval frames.                                                             *)

\* A set of numbers without gaps from 1 on is as long as it is large.
LEMMA InitialSegment ==
  ASSUME NEW M \in Nat, NEW K, K \subseteq 1 .. M,
         \A k \in K : \A l \in 1 .. M : l < k => l \in K
  PROVE  K = 1 .. Cardinality(K) /\ Cardinality(K) \in 0 .. M
<1>1. CASE K = {}
  <2>1. Cardinality(K) = 0
    BY <1>1, FS_EmptySet
  <2> QED BY <1>1, <2>1
<1>2. CASE K # {}
  <2>1. PICK m \in K : \A k \in K : k <= m
    BY <1>2, MaxIs
  <2>2. m \in 1 .. M /\ K = 1 .. m
    <3>1. \A k \in K : k \in 1 .. m
      BY <2>1
    <3>2. \A k \in 1 .. m : k \in K
      <4> TAKE k \in 1 .. m
      <4>1. k \in 1 .. M /\ (k = m \/ k < m)
        BY <2>1
      <4> QED BY <2>1, <4>1
    <3> QED BY <2>1, <3>1, <3>2
  <2>3. Cardinality(1 .. m) = m
    BY <2>2, FS_Interval
  <2> QED BY <2>2, <2>3
<1> QED BY <1>1, <1>2

\* The entry frames of a thread state are those right behind its eval loops.
LEMMA EntriesFollowEvals ==
  ASSUME StacksInv, NEW th \in Thread, FramesOfState(th.frames, th.state, {}),
         Last(stack[TidOf[th.state]]).kind # "eval"
  PROVE  \A i : i \in EntriesAt(th) <=>
           \E e : EvalOf(TidOf[th.state], e, th.state) /\ i = e + 1
<1> DEFINE s == th.state
           t == TidOf[s]
           d == Len(stack[t])
           frames == th.frames
<1>1. /\ s \in TState /\ t \in Tid /\ d \in Nat /\ frames \in PyFrames(1 .. d)
      /\ \A k \in 1 .. Len(frames) : frames[k].at \in 1 .. d
  <2>1. s \in TState /\ frames \in PyFrames(1 .. d)
    BY DEF Thread, FramesOfState
  <2>2. t \in Tid
    BY <2>1 DEF Tid
  <2>3. d \in Nat
    BY <2>2, StackOf
  <2> HIDE DEF frames, s, t, d
  <2> QED BY <2>1, <2>2, <2>3, FramesAre
<1>2. /\ \A k \in 1 .. Len(frames) :
           /\ IsRead(s, {}, frames[k].at)
           /\ frames[k].is_entry <=> Kind(t, frames[k].at - 1) = "eval"
      /\ \A i \in 1 .. d : IsRead(s, {}, i) => \E k \in 1 .. Len(frames) : frames[k].at = i
  BY DEF FramesOfState
<1>3. ASSUME NEW i \in EntriesAt(th) PROVE \E e : EvalOf(t, e, s) /\ i = e + 1
  <2>1. PICK k \in 1 .. Len(frames) : frames[k].is_entry /\ frames[k].at = i
    BY <1>3 DEF EntriesAt, Entries
  <2>2. i \in 1 .. d /\ Kind(t, i) = "py" /\ stack[t][i].of = s /\ Kind(t, i - 1) = "eval"
    BY <1>1, <1>2, <2>1 DEF IsRead
  <2>3. i > 1 /\ Calls(stack[t][i - 1], stack[t][i])
    BY <1>1, <2>2, StackOf
  <2>4. PICK e \in 1 .. d : e = i - 1
    <3> HIDE DEF d
    <3> QED BY <1>1, <2>2, <2>3
  <2>5. i = e + 1
    BY <1>1, <2>2, <2>4
  <2> QED BY <2>2, <2>3, <2>4, <2>5 DEF EvalOf, Calls
<1>4. ASSUME NEW e, EvalOf(t, e, s) PROVE e + 1 \in EntriesAt(th)
  <2>1. PICK i \in 1 .. d : i = e + 1 /\ Kind(t, i) = "py" /\ stack[t][i].of = s
    BY <1>1, <1>4, EvalsHaveFrames DEF EvalOf
  <2>2. PICK k \in 1 .. Len(frames) : frames[k].at = i
    BY <1>2, <2>1 DEF IsRead
  <2>3. i - 1 = e
    BY <1>4, <2>1 DEF EvalOf
  <2>4. frames[k].is_entry
    BY <1>2, <1>4, <2>2, <2>3 DEF EvalOf
  <2> QED BY <2>1, <2>2, <2>4 DEF EntriesAt, Entries
<1> QED BY <1>3, <1>4 DEF s, t

\* The state whose eval loop is the kth.
StateAt(t, native, k) == stack[t][native[EvalIndex(t, native)[k]]].of

LEMMA EvalIndexCovers ==
  ASSUME StacksInv, NEW t \in Tid, NEW native, NativesOf(native, t, 0)
  PROVE  LET E == EvalIndex(t, native)
         IN /\ native \in Seq(Line) /\ Increasing(native) /\ Increasing(E) /\ Len(E) \in Nat
            /\ \A k \in 1 .. Len(E) : E[k] \in 1 .. Len(native) /\ EvalOf(t, native[E[k]], StateAt(t, native, k))
            /\ \A e, s : EvalOf(t, e, s) => \E k \in 1 .. Len(E) : native[E[k]] = e /\ StateAt(t, native, k) = s
            /\ \A k, l \in 1 .. Len(E) : k < l <=> native[E[k]] < native[E[l]]
<1> DEFINE E == EvalIndex(t, native)
           d == Len(stack[t])
<1>1. /\ native \in Seq(1 .. d) /\ Increasing(native)
      /\ \A i \in 1 .. d : Kind(t, i) # "py" => \E k \in 1 .. Len(native) : native[k] = i
  BY DEF NativesOf, Increasing
<1>2. 1 .. d \subseteq Line
  BY StackOf
<1>3. /\ native \in Seq(Line) /\ \A j \in 1 .. Len(native) : native[j] \in 1 .. d
      /\ Len(native) \in Nat
  <2> DEFINE D == 1 .. d
  <2>1. native \in Seq(D) /\ D \subseteq Line
    BY <1>1, <1>2
  <2> HIDE DEF D
  <2>2. native \in Seq(Line)
    BY ONLY <2>1, SeqMonotonic
  <2>3. \A j \in 1 .. Len(native) : native[j] \in D
    BY ONLY <2>1
  <2>4. Len(native) \in Nat
    BY <2>2
  <2> QED BY <2>2, <2>3, <2>4 DEF D
<1>4. /\ E \in Seq(1 .. Len(native)) /\ Increasing(E)
      /\ \A k \in 1 .. Len(E) : E[k] \in 1 .. Len(native) /\ Kind(t, native[E[k]]) = "eval"
      /\ \A i \in 1 .. Len(native) : Kind(t, native[i]) = "eval" => \E k \in 1 .. Len(E) : E[k] = i
  BY <1>3, EvalIndexIs DEF IsEvalFrame
<1> HIDE DEF E
<1>5. Len(E) \in Nat
  BY <1>4
<1>6. \A k \in 1 .. Len(E) : E[k] \in 1 .. Len(native) /\ EvalOf(t, native[E[k]], StateAt(t, native, k))
  BY <1>3, <1>4 DEF EvalOf, StateAt, E
<1>7. ASSUME NEW e, NEW s, EvalOf(t, e, s)
      PROVE  \E k \in 1 .. Len(E) : native[E[k]] = e /\ StateAt(t, native, k) = s
  <2>1. e \in 1 .. d /\ Kind(t, e) = "eval" /\ stack[t][e].of = s
    BY <1>7 DEF EvalOf
  <2>2. PICK i \in 1 .. Len(native) : native[i] = e
    BY <1>1, <2>1
  <2>3. PICK k \in 1 .. Len(E) : E[k] = i
    BY <1>4, <2>1, <2>2
  <2> QED BY <2>1, <2>2, <2>3 DEF StateAt, E
<1>8. ASSUME NEW k \in 1 .. Len(E), NEW l \in 1 .. Len(E), k < l PROVE native[E[k]] < native[E[l]]
  <2>1. E[k] < E[l]
    BY <1>4, <1>8 DEF Increasing
  <2> QED BY <1>1, <1>4, <2>1 DEF Increasing
<1>9. \A k \in 1 .. Len(E) : native[E[k]] \in Nat /\ k \in Nat
  BY <1>3, <1>6
<1>10. ASSUME NEW k \in 1 .. Len(E), NEW l \in 1 .. Len(E)
       PROVE  k < l <=> native[E[k]] < native[E[l]]
  <2>1. k < l \/ k = l \/ l < k
    BY <1>9
  <2>2. k = l => ~(native[E[k]] < native[E[l]])
    BY <1>9
  <2>3. l < k => ~(native[E[k]] < native[E[l]])
    BY <1>8, <1>9
  <2> QED BY <1>8, <1>9, <2>1, <2>2, <2>3
<1> QED BY <1>1, <1>3, <1>4, <1>5, <1>6, <1>7, <1>10 DEF E

\* The eval frames of the first n threads, and how many there are.
FirstEvals(t, native, data, n) ==
  {k \in 1 .. Len(EvalIndex(t, native)) :
     \E m \in 1 .. n : StateAt(t, native, k) = data[m].state}

LEMMA FirstEvalsAreCounted ==
  ASSUME StacksInv, NEW t \in Tid, Last(stack[t]).kind # "eval",
         NEW data, NEW natives, ReadThreads(data, {}, natives),
         \A n \in 1 .. Len(data) : data[n].tid = t,
         NEW native, NativesOf(native, t, 0), NEW n \in 0 .. Len(data)
  PROVE  Cardinality(FirstEvals(t, native, data, n)) = EntriesUpTo(data, n)
<1> DEFINE E == EvalIndex(t, native)
           K == FirstEvals(t, native, data, n)
           places == UNION {EntriesAt(data[m]) : m \in 1 .. n}
           f == [k \in K |-> native[E[k]] + 1]
<1>1. /\ native \in Seq(Line) /\ Len(E) \in Nat
      /\ \A k \in 1 .. Len(E) : E[k] \in 1 .. Len(native) /\ EvalOf(t, native[E[k]], StateAt(t, native, k))
      /\ \A e, s : EvalOf(t, e, s) => \E k \in 1 .. Len(E) : native[E[k]] = e /\ StateAt(t, native, k) = s
      /\ \A k, l \in 1 .. Len(E) : k < l <=> native[E[k]] < native[E[l]]
  BY EvalIndexCovers
<1>2. IsFiniteSet(places) /\ Cardinality(places) = EntriesUpTo(data, n)
  BY EntriesAreCounted
<1>3. \A m \in 1 .. n : m \in 1 .. Len(data)
  <2>1. data \in Seq(Thread)
    BY DEF ReadThreads
  <2>2. Len(data) \in Nat
    BY <2>1
  <2> QED BY <2>2
<1>4. ASSUME NEW m \in 1 .. n
      PROVE  \A i : i \in EntriesAt(data[m]) <=> \E e : EvalOf(t, e, data[m].state) /\ i = e + 1
  <2>1. data \in Seq(Thread) /\ m \in 1 .. Len(data)
    BY <1>3 DEF ReadThreads
  <2>2. data[m] \in Thread
    BY <2>1
  <2>3. FramesOfState(data[m].frames, data[m].state, {}) /\ TidOf[data[m].state] = t
    BY <2>1 DEF ReadThreads
  <2> QED BY <2>2, <2>3, EntriesFollowEvals
<1> HIDE DEF E
<1>5. /\ \A k \in K : k \in 1 .. Len(E) /\ \E m \in 1 .. n : StateAt(t, native, k) = data[m].state
      /\ \A k \in 1 .. Len(E) : \A m \in 1 .. n : StateAt(t, native, k) = data[m].state => k \in K
  BY DEF FirstEvals, E
<1> HIDE DEF K
<1>6. \A k \in K : native[E[k]] \in Nat /\ k \in Nat
  <2> TAKE k \in K
  <2>1. EvalOf(t, native[E[k]], StateAt(t, native, k)) /\ k \in 1 .. Len(E)
    BY <1>1, <1>5
  <2> QED BY <1>1, <2>1 DEF EvalOf
<1>7. ASSUME NEW k \in K PROVE f[k] \in places
  <2>1. PICK m \in 1 .. n : StateAt(t, native, k) = data[m].state
    BY <1>5
  <2>2. EvalOf(t, native[E[k]], data[m].state)
    BY <1>1, <1>5, <2>1
  <2>3. native[E[k]] + 1 \in EntriesAt(data[m])
    BY <1>4, <2>2
  <2> QED BY <2>3
<1>8. ASSUME NEW i \in places PROVE \E k \in K : f[k] = i
  <2>1. PICK m \in 1 .. n : i \in EntriesAt(data[m])
    OBVIOUS
  <2>2. PICK e : EvalOf(t, e, data[m].state) /\ i = e + 1
    BY <1>4, <2>1
  <2>3. PICK k \in 1 .. Len(E) : native[E[k]] = e /\ StateAt(t, native, k) = data[m].state
    BY <1>1, <2>2
  <2>4. k \in K
    BY <1>5, <2>3
  <2> QED BY <2>2, <2>3, <2>4
<1>9. ASSUME NEW k \in K, NEW l \in K, f[k] = f[l] PROVE k = l
  <2>1. native[E[k]] = native[E[l]]
    BY <1>6, <1>9
  <2>2. k \in 1 .. Len(E) /\ l \in 1 .. Len(E)
    BY <1>5
  <2>3. /\ k < l <=> native[E[k]] < native[E[l]]
        /\ l < k <=> native[E[l]] < native[E[k]]
    BY <1>1, <2>2
  <2> HIDE DEF f
  <2>4. ~(native[E[k]] < native[E[l]]) /\ ~(native[E[l]] < native[E[k]])
    BY <1>6, <2>1
  <2> QED BY <1>6, <2>3, <2>4
<1> HIDE DEF places
<1>10. f \in Bijection(K, places)
  <2>1. f \in [K -> places]
    BY <1>7
  <2> HIDE DEF f
  <2> QED BY <1>8, <1>9, <2>1 DEF Bijection, Injection, Surjection, IsInjective
<1>11. IsFiniteSet(K)
  <2>1. K \subseteq 1 .. Len(E) /\ IsFiniteSet(1 .. Len(E))
    BY <1>1, <1>5, FS_Interval
  <2> QED BY <2>1, FS_Subset
<1> HIDE DEF f
<1>12. Cardinality(places) = Cardinality(K)
  <2>1. ExistsBijection(K, places)
    BY <1>10 DEF ExistsBijection
  <2> QED BY <1>11, <2>1, FS_Bijection
<1> QED BY <1>2, <1>12 DEF K

\* The eval frames behind the cursor of one thread state up to its own are its own.
LEMMA EvalsAreSliced ==
  ASSUME StacksInv, NEW t \in Tid, Last(stack[t]).kind # "eval",
         NEW data, NEW natives, ReadThreads(data, {}, natives), Len(data) > 0,
         \A n \in 1 .. Len(data) : data[n].tid = t, InOrderOfCalls(data, t),
         NEW native, NativesOf(native, t, 0)
  PROVE  LET M == Len(EvalIndex(t, native))
         IN /\ M = EntriesUpTo(data, Len(data))
            /\ \A n \in 0 .. Len(data) : EntriesUpTo(data, n) \in 0 .. M
            /\ EntriesUpTo(data, 0) = 0 /\ EntriesUpTo(data, 1) > 0
            /\ \A k \in 1 .. M : \A n \in 1 .. Len(data) :
                 StateAt(t, native, k) = data[n].state <=>
                   EntriesUpTo(data, n - 1) < k /\ k <= EntriesUpTo(data, n)
<1> DEFINE E == EvalIndex(t, native)
           M == Len(E)
           N == Len(data)
           c(n) == EntriesUpTo(data, n)
           K(n) == FirstEvals(t, native, data, n)
<1>1. /\ M \in Nat
      /\ \A k \in 1 .. M : EvalOf(t, native[E[k]], StateAt(t, native, k))
      /\ \A e, s : EvalOf(t, e, s) => \E k \in 1 .. M : native[E[k]] = e /\ StateAt(t, native, k) = s
      /\ \A k, l \in 1 .. M : k < l <=> native[E[k]] < native[E[l]]
  BY EvalIndexCovers
<1>2. /\ data \in Seq(Thread) /\ N \in Nat /\ OfThread(data, t) = 1 .. N
      /\ \A m, n \in 1 .. N : data[m].state = data[n].state => m = n
  <2>1. data \in Seq(Thread)
    BY DEF ReadThreads
  <2> QED BY <2>1 DEF ReadThreads, OfThread
<1> HIDE DEF E, N, M
<1>3. /\ \A m, n \in 1 .. N : m < n =>
           \A e, f : EvalOf(t, e, data[m].state) /\ EvalOf(t, f, data[n].state) => e < f
      /\ \A n \in 1 .. N : (\A m \in 1 .. N : n <= m) => \E e : EvalOf(t, e, data[n].state)
      /\ \A s \in StatesOn(t) : \E n \in 1 .. N : data[n].state = s
  BY <1>2 DEF InOrderOfCalls
<1>4. \A n \in 0 .. N : Cardinality(K(n)) = c(n)
  BY FirstEvalsAreCounted DEF N
<1>5. \A n \in 0 .. N : \A k : k \in K(n) <=>
        k \in 1 .. M /\ \E m \in 1 .. n : StateAt(t, native, k) = data[m].state
  BY DEF FirstEvals, E, M
<1> HIDE DEF K, c
<1>6. \A k \in 1 .. M : \E n \in 1 .. N : StateAt(t, native, k) = data[n].state
  <2> TAKE k \in 1 .. M
  <2>1. StateAt(t, native, k) \in StatesOn(t)
    BY <1>1, StatesOnAre
  <2> QED BY <1>3, <2>1
<1>7. ASSUME NEW n \in 0 .. N, NEW k \in K(n), NEW l \in 1 .. M, l < k PROVE l \in K(n)
  <2>1. k \in 1 .. M
    BY <1>5
  <2>2. PICK m \in 1 .. n : StateAt(t, native, k) = data[m].state
    BY <1>5
  <2>3. PICK q \in 1 .. N : StateAt(t, native, l) = data[q].state
    BY <1>6
  <2>4. m \in 1 .. N
    BY <1>2
  <2>5. ~(m < q)
    <3> SUFFICES ASSUME m < q PROVE FALSE
      OBVIOUS
    <3>1. native[E[k]] < native[E[l]]
      <4>1. EvalOf(t, native[E[k]], data[m].state) /\ EvalOf(t, native[E[l]], data[q].state)
        BY <1>1, <2>1, <2>2, <2>3
      <4> QED BY <1>3, <2>4, <4>1
    <3>2. k < l
      BY <1>1, <2>1, <3>1
    <3> QED BY <1>7, <2>1, <3>2
  <2>6. q \in 1 .. n
    BY <1>2, <2>4, <2>5
  <2> QED BY <1>5, <2>3, <2>6
<1>8. ASSUME NEW n \in 0 .. N PROVE K(n) = 1 .. c(n) /\ c(n) \in 0 .. M
  <2>1. K(n) \subseteq 1 .. M
    BY <1>5
  <2> DEFINE L == K(n)
  <2>2. \A k \in L : \A l \in 1 .. M : l < k => l \in L
    BY <1>7
  <2>3. L \subseteq 1 .. M /\ Cardinality(L) = c(n)
    BY <1>4, <2>1
  <2> HIDE DEF L
  <2>4. L = 1 .. c(n) /\ c(n) \in 0 .. M
    BY <1>1, <2>2, <2>3, InitialSegment, ZenonT(40)
  <2> QED BY <2>4 DEF L
<1>9. c(N) = M
  <2>1. N \in 0 .. N
    BY <1>2
  <2>2. \A k \in 1 .. M : k \in K(N)
    BY <1>5, <1>6, <2>1
  <2>3. c(N) \in 0 .. M /\ \A k \in 1 .. M : k \in 1 .. c(N)
    BY <1>8, <2>1, <2>2
  <2> QED BY <1>1, <2>3
<1>10. ASSUME NEW k \in 1 .. M, NEW n \in 1 .. N
       PROVE  StateAt(t, native, k) = data[n].state <=> c(n - 1) < k /\ k <= c(n)
  <2>1. n \in 0 .. N /\ n - 1 \in 0 .. N
    BY <1>2
  <2>2. \A m \in 0 .. N : k \in K(m) <=> k <= c(m)
    BY <1>1, <1>8
  <2>3. StateAt(t, native, k) = data[n].state <=> k \in K(n) /\ k \notin K(n - 1)
    <3>1. ASSUME StateAt(t, native, k) = data[n].state PROVE k \in K(n) /\ k \notin K(n - 1)
      <4>1. n \in 1 .. n
        BY <1>2
      <4>2. \A m \in 1 .. n - 1 : m \in 1 .. N /\ m # n
        BY <1>2
      <4>3. \A m \in 1 .. n - 1 : data[m].state # data[n].state
        BY <1>2, <4>2
      <4>4. k \in K(n)
        BY <1>5, <2>1, <3>1, <4>1
      <4>5. k \notin K(n - 1)
        BY <1>5, <2>1, <3>1, <4>3
      <4> QED BY <4>4, <4>5
    <3>2. ASSUME k \in K(n), k \notin K(n - 1) PROVE StateAt(t, native, k) = data[n].state
      <4>1. PICK m \in 1 .. n : StateAt(t, native, k) = data[m].state
        BY <1>5, <2>1, <3>2
      <4>2. m \notin 1 .. n - 1
        BY <1>5, <2>1, <3>2, <4>1
      <4>3. m = n
        BY <1>2, <4>2
      <4> QED BY <4>1, <4>3
    <3> QED BY <3>1, <3>2
  <2>4. c(n - 1) \in Nat /\ k \in Nat
    BY <1>8, <2>1
  <2> QED BY <2>1, <2>2, <2>3, <2>4
<1>11. c(0) = 0 /\ c(1) > 0
  <2>1. c(0) = 0
    BY <1>2, CursorIs DEF c
  <2>2. 1 \in 1 .. N /\ 1 \in 0 .. N /\ \A m \in 1 .. N : 1 <= m
    BY <1>2 DEF N
  <2>3. PICK e : EvalOf(t, e, data[1].state)
    BY <1>3, <2>2
  <2>4. PICK k \in 1 .. M : StateAt(t, native, k) = data[1].state
    BY <1>1, <2>3
  <2>5. k <= c(1) /\ c(1) \in Nat
    BY <1>8, <1>10, <2>2, <2>4
  <2> QED BY <2>1, <2>5
<1> QED BY <1>8, <1>9, <1>10, <1>11 DEF M, E, N, c

\* The eval frames up to a native frame tell in which eval loop it was called.
LEMMA LoopIs ==
  ASSUME StacksInv, NEW t \in Tid, NEW native, NativesOf(native, t, 0), NEW q \in 1 .. Len(native)
  PROVE  LET E == EvalIndex(t, native)
         IN \E k \in 0 .. Len(E) :
              /\ \A l \in 1 .. Len(E) : E[l] <= q <=> l <= k
              /\ k = 0 <=> Outside(t, native[q])
              /\ \A s : RunsIn(t, native[q], s) <=> k # 0 /\ StateAt(t, native, k) = s
<1> DEFINE E == EvalIndex(t, native)
           M == Len(E)
           d == Len(stack[t])
           i == native[q]
           K == {l \in 1 .. M : E[l] <= q}
<1>1. /\ native \in Seq(Line) /\ Increasing(native) /\ Increasing(E) /\ M \in Nat
      /\ \A k \in 1 .. M : E[k] \in 1 .. Len(native) /\ EvalOf(t, native[E[k]], StateAt(t, native, k))
      /\ \A e, s : EvalOf(t, e, s) => \E k \in 1 .. M : native[E[k]] = e /\ StateAt(t, native, k) = s
      /\ \A k, l \in 1 .. M : k < l <=> native[E[k]] < native[E[l]]
  BY EvalIndexCovers
<1>2. d \in Nat /\ Len(native) \in Nat /\ i \in 1 .. d
  <2>1. native \in Seq(1 .. d) /\ d \in Nat
    BY StackOf DEF NativesOf
  <2> DEFINE D == 1 .. d
  <2> HIDE DEF D
  <2>2. native \in Seq(D)
    BY <2>1 DEF D
  <2>3. native[q] \in D /\ Len(native) \in Nat
    BY ONLY <2>2, q \in 1 .. Len(native)
  <2> QED BY <2>1, <2>3 DEF D
<1> HIDE DEF E, M, i, d
<1>3. \A l \in 1 .. M : /\ E[l] \in Nat /\ native[E[l]] \in 1 .. d /\ E[l] \in 1 .. Len(native)
                        /\ Kind(t, native[E[l]]) = "eval"
                        /\ stack[t][native[E[l]]].of = StateAt(t, native, l)
  <2>1. \A l \in 1 .. M : E[l] \in 1 .. Len(native) /\ EvalOf(t, native[E[l]], StateAt(t, native, l))
    BY <1>1
  <2> QED BY <2>1, <1>2 DEF EvalOf, d
<1>4. \A l \in 1 .. M : E[l] <= q <=> native[E[l]] <= i
  <2> TAKE l \in 1 .. M
  <2>1. E[l] < q \/ E[l] = q \/ q < E[l]
    BY <1>2, <1>3
  <2>2. E[l] < q => native[E[l]] < i
    BY <1>1, <1>3 DEF Increasing, i
  <2>3. q < E[l] => i < native[E[l]]
    BY <1>1, <1>3 DEF Increasing, i
  <2>4. E[l] = q => native[E[l]] = i
    BY DEF i
  <2> QED BY <1>2, <1>3, <2>1, <2>2, <2>3, <2>4
<1>5. PICK k \in 0 .. M : \A l \in 1 .. M : E[l] <= q <=> l <= k
  <2>1. \A k \in K : \A l \in 1 .. M : l < k => l \in K
    <3> SUFFICES ASSUME NEW k \in 1 .. M, E[k] <= q, NEW l \in 1 .. M, l < k PROVE E[l] <= q
      OBVIOUS
    <3>1. E[l] < E[k]
      BY <1>1 DEF Increasing, M
    <3> QED BY <1>2, <1>3, <3>1
  <2>2. \A l \in 1 .. M : E[l] <= q <=> l \in K
    OBVIOUS
  <2>3. K \subseteq 1 .. M
    OBVIOUS
  <2> HIDE DEF K
  <2>4. K = 1 .. Cardinality(K) /\ Cardinality(K) \in 0 .. M
    BY <1>1, <2>1, <2>3, InitialSegment
  <2>5. \A l \in 1 .. M : l \in K <=> l <= Cardinality(K)
    BY <1>1, <2>4
  <2> QED BY <2>2, <2>4, <2>5
\* Every eval loop up to the frame is one of the first k.
<1>6. ASSUME NEW e \in 1 .. i, Kind(t, e) = "eval"
      PROVE  \E l \in 1 .. M : l <= k /\ native[E[l]] = e /\ StateAt(t, native, l) = stack[t][e].of
  <2>1. e \in 1 .. d
    BY <1>2
  <2>2. EvalOf(t, e, stack[t][e].of)
    BY <1>6, <2>1 DEF EvalOf, d
  <2>3. PICK l \in 1 .. M : native[E[l]] = e /\ StateAt(t, native, l) = stack[t][e].of
    BY <1>1, <2>2
  <2>4. E[l] <= q
    BY <1>2, <1>4, <2>3
  <2> QED BY <1>5, <2>3, <2>4
<1>7. CASE k = 0
  <2>1. \A e \in 1 .. i : Kind(t, e) # "eval"
    BY <1>1, <1>6, <1>7
  <2>2. Outside(t, i) /\ \A s : ~RunsIn(t, i, s)
    BY <2>1 DEF Outside, RunsIn
  <2> QED BY <1>5, <1>7, <2>2 DEF E, M, i
<1>8. CASE k # 0
  <2> DEFINE last == native[E[k]]
  <2>1. k \in 1 .. M /\ E[k] <= q
    BY <1>1, <1>5, <1>8
  <2>2. /\ last \in 1 .. i /\ Kind(t, last) = "eval" /\ stack[t][last].of = StateAt(t, native, k)
    BY <1>2, <1>3, <1>4, <2>1
  <2>3. \A e \in 1 .. i : Kind(t, e) = "eval" => e <= last
    <3> SUFFICES ASSUME NEW e \in 1 .. i, Kind(t, e) = "eval" PROVE e <= last
      OBVIOUS
    <3>1. PICK l \in 1 .. M : l <= k /\ native[E[l]] = e
      BY <1>6
    <3>2. l = k \/ l < k
      BY <2>1, <3>1
    <3>3. l < k => native[E[l]] < native[E[k]]
      BY <1>1, <2>1
    <3> QED BY <1>2, <2>2, <3>1, <3>2, <3>3
  <2> HIDE DEF last
  <2>4. ~Outside(t, i)
    BY <2>2 DEF Outside
  <2>5. ASSUME NEW s PROVE RunsIn(t, i, s) <=> StateAt(t, native, k) = s
    <3>1. ASSUME RunsIn(t, i, s) PROVE StateAt(t, native, k) = s
      <4>1. PICK e \in 1 .. i : /\ Kind(t, e) = "eval" /\ stack[t][e].of = s
                                /\ \A f \in 1 .. i : Kind(t, f) = "eval" => f <= e
        BY <3>1 DEF RunsIn
      <4>2. e <= last /\ last <= e
        BY <2>2, <2>3, <4>1
      <4>3. e = last
        BY <1>2, <2>2, <4>2
      <4> QED BY <2>2, <4>1, <4>3
    <3>2. ASSUME StateAt(t, native, k) = s PROVE RunsIn(t, i, s)
      BY <2>2, <2>3, <3>2 DEF RunsIn
    <3> QED BY <3>1, <3>2
  <2> QED BY <1>5, <1>8, <2>4, <2>5 DEF E, M, i
<1> QED BY <1>7, <1>8

\* The threads of t have the native frames of their calls; what is called outside of all eval
\* loops is with the first.
GetsCalls(list, t) ==
  \A n \in OfThread(list, t) : \A i :
    IsAmong(list[n].native_frames, i) <=>
      /\ i \in 1 .. Len(stack[t]) /\ Kind(t, i) # "py"
      /\ \/ RunsIn(t, i, list[n].state)
         \/ Outside(t, i) /\ \A m \in OfThread(list, t) : n <= m

LEMMA SlicedByCall ==
  ASSUME StacksInv, NEW t \in Tid, Last(stack[t]).kind # "eval",
         NEW data, NEW natives, ReadThreads(data, {}, natives), Len(data) > 0,
         \A n \in 1 .. Len(data) : data[n].tid = t, InOrderOfCalls(data, t),
         NativesOf(natives[t], t, 0)
  PROVE  GetsCalls(SliceNativeStack(data), t)
<1> DEFINE native == data[1].native_frames
           N == Len(data)
           E == EvalIndex(t, native)
           M == Len(E)
           c(n) == EntriesUpTo(data, n)
           End(n) == IF c(n) = 0 THEN 0 ELSE SliceEnd(native, E, c(n))
           Sliced(n) == IF NumEntryFrames(data[n]) = 0 THEN <<>>
                        ELSE SubSeq(native, End(n - 1) + 1, End(n))
           result == [n \in DOMAIN data |-> [data[n] EXCEPT !.native_frames = Sliced(n)]]
           d == Len(stack[t])
<1>1. /\ data \in Seq(Thread) /\ N \in Nat /\ 1 \in 1 .. N /\ DOMAIN data = 1 .. N
      /\ \A n \in 1 .. N : data[n] \in Thread
      /\ \A n \in 0 .. N : n # 0 => n \in 1 .. N /\ n - 1 \in 0 .. N
      /\ \A n \in 1 .. N : n \in 0 .. N /\ n - 1 \in 0 .. N
  <2>1. data \in Seq(Thread)
    BY DEF ReadThreads
  <2> QED BY <2>1
<1>2. data[1].tid = t /\ native = natives[t] /\ NativesOf(native, t, 0)
  BY <1>1 DEF ReadThreads
<1> HIDE DEF native
<1>3. /\ M = c(N)
      /\ \A n \in 0 .. N : c(n) \in 0 .. M
      /\ c(0) = 0 /\ c(1) > 0
      /\ \A k \in 1 .. M : \A n \in 1 .. N :
           StateAt(t, native, k) = data[n].state <=> c(n - 1) < k /\ k <= c(n)
  BY <1>2, EvalsAreSliced, SMTT(20)
<1>4. /\ native \in Seq(Line) /\ M \in Nat
      /\ \A k \in 1 .. M : E[k] \in 1 .. Len(native)
  BY <1>2, EvalIndexCovers
<1>5. Len(native) \in Nat
  BY <1>4
<1>6. \A n \in 1 .. N : c(n) = c(n - 1) + NumEntryFrames(data[n]) /\ NumEntryFrames(data[n]) \in Nat
  BY <1>1, CursorIs
<1>7. \A m, n \in 0 .. N : m <= n => c(m) <= c(n)
  BY <1>1, CursorIs
<1>8. SliceNativeStack(data) = result
  <2>1. native # <<>>
    <3>1. 1 \in 1 .. M
      BY <1>1, <1>3, <1>4
    <3>2. E[1] \in 1 .. Len(native)
      BY <1>4, <3>1
    <3> QED BY <3>2
  <2> HIDE DEF E
  <2>2. Len(E) = EntriesUpTo(data, Len(data))
    BY <1>3
  <2>3. E = EvalIndex(data[1].tid, data[1].native_frames)
    BY <1>2 DEF E, native
  <2> QED BY <2>1, <2>2, <2>3 DEF SliceNativeStack, native
<1> HIDE DEF E, c, N
<1>9. \A n \in 0 .. N : End(n) \in 0 .. Len(native)
  <2> SUFFICES ASSUME NEW n \in 0 .. N, NEW x \in 0 .. M, x = c(n)
               PROVE  (IF x = 0 THEN 0 ELSE SliceEnd(native, E, x)) \in 0 .. Len(native)
    BY <1>3
  <2>1. CASE x < M
    <3>1. x + 1 \in 1 .. M
      BY <1>4, <2>1
    <3>2. E[x + 1] \in 1 .. Len(native)
      BY <1>4, <3>1
    <3> QED BY <1>5, <2>1, <3>2 DEF SliceEnd
  <2>2. CASE ~(x < M)
    BY <1>5, <2>2 DEF SliceEnd
  <2> QED BY <2>1, <2>2
\* A native frame lies before the cursor's if its eval loop does.
<1>10. ASSUME NEW q \in 1 .. Len(native), NEW k \in 0 .. M, \A l \in 1 .. M : E[l] <= q <=> l <= k,
              NEW n \in 0 .. N
       PROVE  q <= End(n) <=> c(n) # 0 /\ k <= c(n)
  <2> SUFFICES ASSUME NEW x \in 0 .. M, x = c(n)
               PROVE  q <= (IF x = 0 THEN 0 ELSE SliceEnd(native, E, x)) <=> x # 0 /\ k <= x
    BY <1>3
  <2>1. CASE x = 0
    BY <1>5, <2>1
  <2>2. CASE x # 0 /\ x < M
    <3>1. x + 1 \in 1 .. M
      BY <1>4, <2>2
    <3>2. E[x + 1] \in 1 .. Len(native) /\ (E[x + 1] <= q <=> x + 1 <= k)
      BY <1>4, <1>10, <3>1
    <3>3. SliceEnd(native, E, x) = E[x + 1] - 1
      BY <2>2 DEF SliceEnd
    <3> QED BY <1>4, <1>5, <2>2, <3>2, <3>3
  <2>3. CASE x # 0 /\ ~(x < M)
    <3>1. SliceEnd(native, E, x) = Len(native)
      BY <2>3 DEF SliceEnd
    <3> QED BY <1>4, <1>5, <2>3, <3>1
  <2> QED BY <2>1, <2>2, <2>3
<1> HIDE DEF End, M
<1>11. ASSUME NEW n \in 1 .. N
       PROVE  /\ Sliced(n) \in Seq(Line)
              /\ \A i : IsAmong(Sliced(n), i) <=>
                   /\ NumEntryFrames(data[n]) # 0
                   /\ \E q \in 1 .. Len(native) : End(n - 1) < q /\ q <= End(n) /\ native[q] = i
  <2>1. CASE NumEntryFrames(data[n]) = 0
    <3>1. Sliced(n) = <<>>
      BY <2>1
    <3> HIDE DEF Sliced
    <3> QED BY <2>1, <3>1 DEF IsAmong
  <2>2. CASE NumEntryFrames(data[n]) # 0
    <3> DEFINE a == End(n - 1)
               b == End(n)
               part == SubSeq(native, a + 1, b)
    <3>1. Sliced(n) = part
      BY <2>2
    <3>2. native \in Seq(Line) /\ a \in Nat /\ b \in 0 .. Len(native)
      BY <1>1, <1>4, <1>9
    <3>3. /\ part \in Seq(Line)
          /\ \A k \in 1 .. Len(part) : /\ a + k \in 1 .. b /\ a + k \in 1 .. Len(native)
                                       /\ part[k] = native[a + k]
          /\ \A i \in a + 1 .. b : \E k \in 1 .. Len(part) : i = a + k
      <4> HIDE DEF a, b
      <4> QED BY ONLY <3>2, SliceIs
    <3> HIDE DEF a, b, part, Sliced
    <3>4. ASSUME NEW i, IsAmong(part, i)
          PROVE  \E q \in 1 .. Len(native) : a < q /\ q <= b /\ native[q] = i
      <4>1. PICK k \in 1 .. Len(part) : part[k] = i
        BY <3>4 DEF IsAmong
      <4>2. PICK q \in 1 .. Len(native) : q = a + k /\ q \in 1 .. b /\ native[q] = i
        BY <3>3, <4>1
      <4>3. a < q /\ q <= b
        BY <3>2, <4>2
      <4> QED BY <4>2, <4>3
    <3>5. ASSUME NEW i, NEW q \in 1 .. Len(native), a < q, q <= b, native[q] = i
          PROVE  IsAmong(part, i)
      <4>1. q \in a + 1 .. b
        BY <3>2, <3>5
      <4>2. PICK k \in 1 .. Len(part) : q = a + k
        BY <3>3, <4>1
      <4>3. part[k] = i
        BY <3>3, <3>5, <4>2
      <4> QED BY <4>3 DEF IsAmong
    <3>6. \A i : IsAmong(part, i) <=> \E q \in 1 .. Len(native) : a < q /\ q <= b /\ native[q] = i
      BY <3>4, <3>5
    <3> QED BY <2>2, <3>1, <3>3, <3>6 DEF a, b
  <2> QED BY <2>1, <2>2
<1> HIDE DEF Sliced
<1>12. \A n \in 1 .. N : /\ result[n].native_frames = Sliced(n) /\ result[n].state = data[n].state
                         /\ result[n].tid = t
  <2> TAKE n \in 1 .. N
  <2>1. result[n] = [data[n] EXCEPT !.native_frames = Sliced(n)] /\ data[n] \in Thread /\ data[n].tid = t
    BY <1>1 DEF N
  <2> HIDE DEF result
  <2> QED BY <2>1 DEF Thread
<1>13. OfThread(result, t) = 1 .. N
  <2>1. Len(result) = N
    BY <1>1
  <2> HIDE DEF result
  <2> QED BY <1>12, <2>1 DEF OfThread
<1> HIDE DEF result
<1>14. /\ native \in Seq(1 .. d) /\ \A q \in 1 .. Len(native) : native[q] \in 1 .. d
       /\ \A q \in 1 .. Len(native) : Kind(t, native[q]) # "py"
       /\ \A i \in 1 .. d : Kind(t, i) # "py" => \E q \in 1 .. Len(native) : native[q] = i
  <2>1. native \in Seq(1 .. d)
    BY <1>2 DEF NativesOf
  <2> DEFINE D == 1 .. d
  <2>2. \A q \in 1 .. Len(native) : native[q] \in D
    <3>1. native \in Seq(D)
      BY <2>1
    <3> HIDE DEF D
    <3> QED BY ONLY <3>1
  <2> QED BY <1>2, <2>1, <2>2 DEF NativesOf
<1>15. ASSUME NEW n \in 1 .. N, NEW q \in 1 .. Len(native)
       PROVE  NumEntryFrames(data[n]) # 0 /\ End(n - 1) < q /\ q <= End(n) <=>
                RunsIn(t, native[q], data[n].state) \/ (Outside(t, native[q]) /\ n = 1)
  <2>1. PICK k \in 0 .. M : /\ \A l \in 1 .. M : E[l] <= q <=> l <= k
                            /\ k = 0 <=> Outside(t, native[q])
                            /\ \A s : RunsIn(t, native[q], s) <=> k # 0 /\ StateAt(t, native, k) = s
    <3>1. NativesOf(native, t, 0)
      BY <1>2
    <3> HIDE DEF native
    <3> QED BY <3>1, LoopIs DEF E, M
  <2>2. /\ n \in 0 .. N /\ n - 1 \in 0 .. N
        /\ End(n - 1) \in Nat /\ End(n) \in Nat /\ c(n - 1) \in 0 .. M /\ c(n) \in 0 .. M
    BY <1>1, <1>3, <1>9
  <2>3. /\ q <= End(n) <=> c(n) # 0 /\ k <= c(n)
        /\ q <= End(n - 1) <=> c(n - 1) # 0 /\ k <= c(n - 1)
    BY <1>10, <2>1, <2>2
  <2>4. NumEntryFrames(data[n]) # 0 <=> c(n - 1) < c(n)
    BY <1>6, <2>2
  <2>5. NumEntryFrames(data[n]) # 0 /\ End(n - 1) < q /\ q <= End(n) <=>
          c(n - 1) < c(n) /\ k <= c(n) /\ (c(n - 1) = 0 \/ c(n - 1) < k)
    <3>1. End(n - 1) < q <=> ~(q <= End(n - 1))
      BY <2>2
    <3> QED BY <2>2, <2>3, <2>4, <3>1
  <2>6. CASE k = 0
    <3>1. c(n - 1) = 0 /\ c(n - 1) < c(n) <=> n = 1
      <4>1. CASE n = 1
        BY <1>3, <4>1
      <4>2. CASE n # 1
        <5>1. 1 <= n - 1 /\ 1 \in 0 .. N
          BY <1>1, <4>2
        <5>2. c(1) <= c(n - 1) /\ c(1) \in 0 .. M
          BY <1>3, <1>7, <2>2, <5>1
        <5> QED BY <1>3, <2>2, <4>2, <5>2
      <4> QED BY <4>1, <4>2
    <3> QED BY <2>1, <2>2, <2>5, <2>6, <3>1
  <2>7. CASE k # 0
    <3>1. k \in 1 .. M
      BY <2>7
    <3>2. StateAt(t, native, k) = data[n].state <=> c(n - 1) < k /\ k <= c(n)
      BY <1>3, <3>1
    <3>3. c(n - 1) < c(n) /\ k <= c(n) /\ (c(n - 1) = 0 \/ c(n - 1) < k) <=>
            c(n - 1) < k /\ k <= c(n)
      BY <2>2, <3>1
    <3> QED BY <2>1, <2>5, <2>7, <3>2, <3>3
  <2> QED BY <2>6, <2>7
<1>16. ASSUME NEW n \in 1 .. N, NEW i
       PROVE  IsAmong(Sliced(n), i) <=>
                /\ i \in 1 .. d /\ Kind(t, i) # "py"
                /\ RunsIn(t, i, data[n].state) \/ (Outside(t, i) /\ n = 1)
  <2>1. IsAmong(Sliced(n), i) <=>
          \E q \in 1 .. Len(native) :
            /\ native[q] = i
            /\ NumEntryFrames(data[n]) # 0 /\ End(n - 1) < q /\ q <= End(n)
    BY <1>11
  <2>2. (i \in 1 .. d /\ Kind(t, i) # "py") <=> \E q \in 1 .. Len(native) : native[q] = i
    BY <1>14
  <2> QED BY <1>15, <2>1, <2>2
<1>17. \A n \in 1 .. N : (\A m \in 1 .. N : n <= m) <=> n = 1
  BY <1>1
<1>18. GetsCalls(result, t)
  BY <1>12, <1>13, <1>16, <1>17 DEF GetsCalls
<1> QED BY <1>8, <1>18
-----------------------------------------------------------------------------
(* normalizeThreads: the threads of an OS thread in the order of calls.     *)

\* Every call is made in the eval loop of one thread state on the stack, or outside of all.
LEMMA CallsRunIn ==
  ASSUME StacksInv, NEW t \in Tid, NEW i \in 1 .. Len(stack[t]), ~Outside(t, i)
  PROVE  \E s \in StatesOn(t) : RunsIn(t, i, s)
<1> DEFINE T == {e \in 1 .. i : Kind(t, e) = "eval"}
<1>1. Len(stack[t]) \in Nat
  BY StackOf
<1>2. i \in Nat /\ T \subseteq 1 .. i /\ T # {}
  BY <1>1 DEF Outside
<1>3. PICK e \in T : \A f \in T : f <= e
  <2> HIDE DEF T
  <2> QED BY <1>2, MaxIs
<1>4. e \in 1 .. Len(stack[t])
  BY <1>1, <1>3
<1>5. EvalOf(t, e, stack[t][e].of)
  BY <1>3, <1>4 DEF EvalOf
<1>6. stack[t][e].of \in StatesOn(t)
  BY <1>5, StatesOnAre
<1>7. RunsIn(t, i, stack[t][e].of)
  BY <1>3 DEF RunsIn
<1> QED BY <1>6, <1>7

\* The order is one of thread states.
LEMMA OrderStays ==
  ASSUME NEW t, NEW data, NEW list, InOrderOfCalls(data, t), Len(list) = Len(data),
         \A n \in 1 .. Len(data) : Same(list[n], data[n])
  PROVE  InOrderOfCalls(list, t)
<1>1. \A n \in 1 .. Len(data) : list[n].state = data[n].state /\ list[n].tid = data[n].tid
  BY DEF Same
<1>2. OfThread(list, t) = OfThread(data, t)
  BY <1>1 DEF OfThread
<1>3. \A n \in OfThread(data, t) : list[n].state = data[n].state
  BY <1>1 DEF OfThread
<1> QED BY <1>2, <1>3 DEF InOrderOfCalls

LEMMA GroupIsInOrder ==
  ASSUME StacksInv, NEW t \in Tid, ReadInFull(t), NEW heap \in Heaps, NEW mode,
         NEW group, NEW natives, ReadThreads(group, {}, natives), Len(group) > 0,
         \A n \in 1 .. Len(group) : group[n].tid = t, Anchored(group, t, heap),
         mode # "off" => NativesOf(natives[t], t, 0)
  PROVE  /\ InOrderOfCalls(NormalizeGroup(group, mode), t)
         /\ mode # "off" => GetsCalls(NormalizeGroup(group, mode), t)
<1> DEFINE N == Len(group)
           sorted == SortThreadsByStackAnchor(group)
           d == Len(stack[t])
<1>1. /\ group \in Seq(Thread) /\ N \in Nat /\ 1 \in 1 .. N /\ OfThread(group, t) = 1 .. N
      /\ \A n \in 1 .. N : group[n] \in Thread /\ group[n].native_frames = natives[t]
      /\ Last(stack[t]).kind # "eval"
  <2>1. group \in Seq(Thread)
    BY DEF ReadThreads
  <2> QED BY <2>1 DEF ReadThreads, OfThread, ReadInFull
<1>2. CASE N = 1
  <2>1. NormalizeGroup(group, mode) = group
    BY <1>2 DEF NormalizeGroup
  <2>2. \A q, r \in 1 .. Len(group) : q < r => group[q].stack_anchor >= group[r].stack_anchor
    <3>1. \A q, r \in 1 .. Len(group) : ~(q < r)
      BY <1>2
    <3> QED BY <3>1
  <2>3. InOrderOfCalls(group, t)
    BY <2>2, SortedInOrder
  <2>4. ASSUME mode # "off" PROVE GetsCalls(group, t)
    <3>1. \A n \in 1 .. N : n = 1
      BY <1>2
    <3> DEFINE native == natives[t]
    <3>2. /\ native \in Seq(1 .. d)
          /\ \A q \in 1 .. Len(native) : Kind(t, native[q]) # "py"
          /\ \A i \in 1 .. d : Kind(t, i) # "py" => \E q \in 1 .. Len(native) : native[q] = i
      BY <2>4 DEF NativesOf
    <3>3. \A q \in 1 .. Len(native) : native[q] \in 1 .. d
      <4> DEFINE D == 1 .. d
      <4>1. native \in Seq(D)
        BY <3>2
      <4> HIDE DEF D, native
      <4>2. \A q \in 1 .. Len(native) : native[q] \in D
        BY ONLY <4>1
      <4> QED BY <4>2 DEF D
    <3> HIDE DEF native, d
    <3>4. \A i : IsAmong(native, i) <=> i \in 1 .. d /\ Kind(t, i) # "py"
      BY <3>2, <3>3 DEF IsAmong
    <3>5. ASSUME NEW i \in 1 .. d PROVE RunsIn(t, i, group[1].state) \/ Outside(t, i)
      <4> SUFFICES ASSUME ~Outside(t, i) PROVE RunsIn(t, i, group[1].state)
        OBVIOUS
      <4>1. PICK s \in StatesOn(t) : RunsIn(t, i, s)
        BY CallsRunIn DEF d
      <4>2. PICK n \in OfThread(group, t) : group[n].state = s
        BY DEF Anchored
      <4>3. n = 1
        BY <1>1, <3>1, <4>2
      <4> QED BY <4>1, <4>2, <4>3
    <3>6. \A n \in 1 .. N : \A m \in 1 .. N : n <= m
      BY <1>1, <3>1
    <3>7. \A n \in 1 .. N : group[n].native_frames = native /\ n = 1
      BY <1>1, <3>1 DEF native
    <3> QED BY <1>1, <3>4, <3>5, <3>6, <3>7 DEF GetsCalls, d
  <2> QED BY <2>1, <2>3, <2>4
<1>3. CASE N # 1
  <2>1. sorted \in Seq(Thread) /\ \E place : SortedFrom(sorted, group, place)
    BY <1>1, SortIs
  <2>2. PICK place : SortedFrom(sorted, group, place)
    BY <2>1
  <2> HIDE DEF sorted
  <2>3. ReadThreads(sorted, {}, natives)
    BY <2>1, <2>2, SortedIsRead
  <2>4. /\ Len(sorted) = N
        /\ \A r \in 1 .. N : place[r] \in 1 .. N /\ sorted[r] = group[place[r]]
        /\ \A q, r \in 1 .. N : q < r => sorted[q].stack_anchor >= sorted[r].stack_anchor
        /\ \A n \in 1 .. N : \E r \in 1 .. N : place[r] = n
    BY <2>2 DEF SortedFrom
  <2>5. \A r \in 1 .. N : sorted[r].tid = t
    BY <2>4
  <2>6. Anchored(sorted, t, heap)
    <3>1. OfThread(sorted, t) = 1 .. N
      BY <2>4, <2>5 DEF OfThread
    <3>2. \A r \in 1 .. N : sorted[r].stack_anchor = StackAnchor(sorted[r].state, heap)
      BY <2>4, SMTT(20) DEF Anchored
    <3>3. \A s \in StatesOn(t) : \E r \in 1 .. N : sorted[r].state = s
      <4> TAKE s \in StatesOn(t)
      <4>1. PICK n \in 1 .. N : group[n].state = s
        BY <1>1 DEF Anchored
      <4>2. PICK r \in 1 .. N : place[r] = n
        BY <2>4
      <4> QED BY <2>4, <4>1, <4>2
    <3> QED BY <2>4, <3>1, <3>2, <3>3 DEF Anchored
  <2>7. InOrderOfCalls(sorted, t)
    BY <2>3, <2>4, <2>6, SortedInOrder
  <2>8. CASE mode = "off"
    <3>1. NormalizeGroup(group, mode) = sorted
      BY <1>3, <2>8 DEF NormalizeGroup, sorted
    <3> QED BY <2>7, <2>8, <3>1
  <2>9. CASE mode # "off"
    <3> DEFINE result == SliceNativeStack(sorted)
    <3>1. NormalizeGroup(group, mode) = result
      BY <1>3, <2>9 DEF NormalizeGroup, sorted
    <3>2. Len(sorted) > 0 /\ \A n \in 1 .. Len(sorted) : sorted[n].tid = t
      BY <1>1, <2>4, <2>5
    <3>3. GetsCalls(result, t)
      BY <1>1, <2>3, <2>7, <2>9, <3>2, SlicedByCall
    <3>4. Split(sorted, result)
      <4>1. Group(sorted)
        <5>1. \A n \in 1 .. N : sorted[n].native_frames = natives[t] /\ Increasing(sorted[n].native_frames)
          <6> TAKE n \in 1 .. N
          <6>1. n \in 1 .. Len(sorted)
            BY <2>4
          <6> HIDE DEF N
          <6>2. sorted[n].native_frames = natives[sorted[n].tid] /\ Increasing(sorted[n].native_frames)
            BY <2>3, <6>1 DEF ReadThreads
          <6> QED BY <2>5, <6>2
        <5> QED BY <1>1, <2>1, <2>4, <2>5, <3>2, <5>1 DEF Group
      <4> QED BY <4>1, SliceNativeStackIs
    <3> HIDE DEF result
    <3>5. Len(result) = Len(sorted) /\ \A n \in 1 .. Len(sorted) : Same(result[n], sorted[n])
      BY <3>4 DEF Split
    <3>6. InOrderOfCalls(result, t)
      BY <2>7, <3>5, OrderStays
    <3> QED BY <3>1, <3>3, <3>6
  <2> QED BY <2>8, <2>9
<1> QED BY <1>2, <1>3

\* The threads of t are one group, in its order.
Placed(normal, list, t, nth) ==
  /\ OfThread(list, t) = 1 .. Len(list)
  /\ \A n \in OfThread(normal, t) : nth[n] \in 1 .. Len(list) /\ normal[n] = list[nth[n]]
  /\ \A m, n \in OfThread(normal, t) : m <= n <=> nth[m] <= nth[n]
  /\ \A k \in 1 .. Len(list) : \E n \in OfThread(normal, t) : nth[n] = k

LEMMA ThreadsArePlaced ==
  ASSUME NEW threads, NEW unreadable, NEW natives, NEW mode,
         ReadThreads(threads, unreadable, natives), NEW i \in 1 .. Len(threads)
  PROVE  LET t == threads[i].tid
         IN \E nth : Placed(NormalizeThreads(threads, mode),
                            NormalizeGroup(GroupOf(threads, t), mode), t, nth)
<1> DEFINE normal == NormalizeThreads(threads, mode)
           t == threads[i].tid
<1>1. PICK firsts, groups, of, nth : InGroups(threads, mode, normal, firsts, groups, of, nth)
  BY NormalIsFlat
<1> DEFINE tidOf(g) == threads[firsts[g]].tid
           group(g) == GroupOf(threads, tidOf(g))
<1> HIDE DEF normal
<1>2. /\ \A g \in 1 .. Len(firsts) : firsts[g] \in 1 .. Len(threads)
      /\ \A g, h \in 1 .. Len(firsts) : tidOf(g) = tidOf(h) => g = h
      /\ Len(groups) = Len(firsts) /\ Len(firsts) \in Nat
      /\ \A g \in 1 .. Len(firsts) : groups[g] = NormalizeGroup(group(g), mode)
      /\ normal \in Seq(Thread)
  BY <1>1 DEF InGroups
<1>3. PICK h \in 1 .. Len(firsts) : tidOf(h) = t
  BY <1>1 DEF InGroups
<1>4. FlatFrom(normal, groups, Len(groups), of, nth)
  BY <1>1 DEF InGroups
<1>5. /\ \A n \in 1 .. Len(normal) : /\ of[n] \in 1 .. Len(firsts) /\ nth[n] \in 1 .. Len(groups[of[n]])
                                     /\ normal[n] = groups[of[n]][nth[n]]
      /\ \A j, k \in 1 .. Len(normal) :
           j < k => of[j] < of[k] \/ (of[j] = of[k] /\ nth[j] < nth[k])
      /\ \A g \in 1 .. Len(firsts) : \A k \in 1 .. Len(groups[g]) :
           \E n \in 1 .. Len(normal) : of[n] = g /\ nth[n] = k
  <2>1. Len(groups) = Len(firsts)
    BY <1>2
  <2> HIDE DEF tidOf, group
  <2>2. \A n \in 1 .. Len(normal) : /\ of[n] \in 1 .. Len(firsts) /\ nth[n] \in 1 .. Len(groups[of[n]])
                                    /\ normal[n] = groups[of[n]][nth[n]]
    BY <1>4, <2>1 DEF FlatFrom
  <2>3. \A j, k \in 1 .. Len(normal) :
          j < k => of[j] < of[k] \/ (of[j] = of[k] /\ nth[j] < nth[k])
    BY <1>4 DEF FlatFrom
  <2>4. \A g \in 1 .. Len(firsts) : \A k \in 1 .. Len(groups[g]) :
          \E n \in 1 .. Len(normal) : of[n] = g /\ nth[n] = k
    BY <1>4, <2>1 DEF FlatFrom
  <2> QED BY <2>2, <2>3, <2>4
<1>6. ASSUME NEW g \in 1 .. Len(firsts), NEW k \in 1 .. Len(groups[g])
      PROVE  groups[g][k].tid = tidOf(g)
  <2> DEFINE mine == GroupOf(threads, tidOf(g))
  <2>1. /\ ReadThreads(mine, unreadable, natives) /\ Len(mine) > 0
        /\ \A n \in 1 .. Len(mine) : mine[n].tid = tidOf(g)
    <3>1. firsts[g] \in 1 .. Len(threads)
      BY <1>2
    <3> QED BY <3>1, GroupOfIs, ZenonT(40)
  <2>2. groups[g] = NormalizeGroup(mine, mode)
    BY <1>2
  <2> HIDE DEF mine, tidOf, group
  <2>3. Regrouped(mine, groups[g])
    BY <2>1, <2>2, NormalizeGroupIs
  <2> QED BY <1>6, <2>1, <2>3 DEF Regrouped, Same
<1> DEFINE list == groups[h]
<1>7. list = NormalizeGroup(GroupOf(threads, t), mode)
  BY <1>2, <1>3
<1>8. ASSUME NEW n \in OfThread(normal, t)
      PROVE  /\ n \in 1 .. Len(normal) /\ n \in Nat /\ of[n] = h
             /\ nth[n] \in 1 .. Len(list) /\ normal[n] = list[nth[n]]
  <2>1. n \in 1 .. Len(normal) /\ normal[n].tid = t
    BY DEF OfThread
  <2>2. tidOf(of[n]) = tidOf(h)
    <3>1. /\ of[n] \in 1 .. Len(firsts) /\ nth[n] \in 1 .. Len(groups[of[n]])
          /\ normal[n] = groups[of[n]][nth[n]]
      BY <1>5, <2>1
    <3>2. normal[n].tid = tidOf(of[n])
      BY <1>6, <3>1
    <3> QED BY <1>3, <2>1, <3>2
  <2>3. of[n] = h
    BY <1>2, <1>5, <2>1, <2>2
  <2> QED BY <1>5, <2>1, <2>3
<1>9. \A k \in 1 .. Len(list) : list[k].tid = t
  BY <1>3, <1>6
<1>10. OfThread(list, t) = 1 .. Len(list)
  BY <1>9 DEF OfThread
<1>11. ASSUME NEW m \in OfThread(normal, t), NEW n \in OfThread(normal, t), m < n
       PROVE  nth[m] < nth[n]
  <2>1. of[m] < of[n] \/ nth[m] < nth[n]
    BY <1>5, <1>8, <1>11
  <2>2. ~(h < h)
    BY <1>2
  <2> QED BY <1>8, <2>1, <2>2
<1>12. ASSUME NEW m \in OfThread(normal, t), NEW n \in OfThread(normal, t)
       PROVE  m <= n <=> nth[m] <= nth[n]
  <2>1. m \in Nat /\ n \in Nat /\ nth[m] \in Int /\ nth[n] \in Int
    BY <1>8
  <2>2. m < n \/ m = n \/ n < m
    BY <2>1
  <2> QED BY <1>11, <2>1, <2>2
<1>13. ASSUME NEW k \in 1 .. Len(list) PROVE \E n \in OfThread(normal, t) : nth[n] = k
  <2>1. PICK n \in 1 .. Len(normal) : of[n] = h /\ nth[n] = k
    BY <1>5
  <2>2. normal[n].tid = t
    BY <1>5, <1>9, <2>1, SMTT(20)
  <2> QED BY <2>1, <2>2 DEF OfThread
<1>14. Placed(normal, list, t, nth)
  BY <1>8, <1>10, <1>12, <1>13 DEF Placed
<1> QED BY <1>7, <1>14 DEF normal

LEMMA NormalIsInOrder ==
  ASSUME StacksInv, NEW t \in Tid, ReadInFull(t), NEW heap \in Heaps, NEW mode,
         NEW threads, NEW natives, ReadThreads(threads, {}, natives), Anchored(threads, t, heap),
         mode # "off" => NativesOf(natives[t], t, 0)
  PROVE  /\ InOrderOfCalls(NormalizeThreads(threads, mode), t)
         /\ mode # "off" => GetsCalls(NormalizeThreads(threads, mode), t)
<1> DEFINE normal == NormalizeThreads(threads, mode)
           group == GroupOf(threads, t)
           list == NormalizeGroup(group, mode)
<1>1. PICK i \in 1 .. Len(threads) : threads[i].tid = t
  <2>1. PICK s \in StatesOn(t) : TRUE
    BY DEF ReadInFull
  <2> QED BY <2>1 DEF Anchored, OfThread
<1>2. PICK nth : Placed(normal, list, t, nth)
  BY <1>1, ThreadsArePlaced
<1>3. /\ ReadThreads(group, {}, natives) /\ Len(group) > 0
      /\ \A k \in 1 .. Len(group) :
           group[k].tid = t /\ \E n \in 1 .. Len(threads) : group[k] = threads[n]
      /\ \A n \in 1 .. Len(threads) :
           threads[n].tid = t => \E k \in 1 .. Len(group) : group[k] = threads[n]
  BY <1>1, GroupOfIs, ZenonT(40)
<1> HIDE DEF normal, group
<1>4. Anchored(group, t, heap)
  <2>1. OfThread(group, t) = 1 .. Len(group)
    BY <1>3 DEF OfThread
  <2>2. \A k \in 1 .. Len(group) : group[k].stack_anchor = StackAnchor(group[k].state, heap)
    BY <1>3 DEF Anchored
  <2>3. \A s \in StatesOn(t) : \E k \in 1 .. Len(group) : group[k].state = s
    <3> TAKE s \in StatesOn(t)
    <3>1. PICK n \in 1 .. Len(threads) : threads[n].tid = t /\ threads[n].state = s
      BY DEF Anchored, OfThread
    <3> QED BY <1>3, <3>1
  <2> QED BY <2>1, <2>2, <2>3 DEF Anchored
<1>5. InOrderOfCalls(list, t) /\ (mode # "off" => GetsCalls(list, t))
  BY <1>3, <1>4, GroupIsInOrder
<1> HIDE DEF list
<1>6. /\ OfThread(list, t) = 1 .. Len(list)
      /\ \A n \in OfThread(normal, t) : nth[n] \in 1 .. Len(list) /\ normal[n] = list[nth[n]]
      /\ \A m, n \in OfThread(normal, t) : m <= n <=> nth[m] <= nth[n]
      /\ \A k \in 1 .. Len(list) : \E n \in OfThread(normal, t) : nth[n] = k
  BY <1>2 DEF Placed
<1>7. \A n \in OfThread(normal, t) :
        (\A m \in OfThread(normal, t) : n <= m) <=> (\A k \in 1 .. Len(list) : nth[n] <= k)
  BY <1>6
<1>8. ASSUME NEW m \in OfThread(normal, t), NEW n \in OfThread(normal, t), m < n
      PROVE  nth[m] < nth[n]
  <2>1. m \in Int /\ n \in Int /\ nth[m] \in Int /\ nth[n] \in Int
    BY <1>6 DEF OfThread
  <2>2. nth[m] <= nth[n] /\ ~(nth[n] <= nth[m])
    BY <1>6, <1>8, <2>1
  <2> QED BY <2>1, <2>2
<1>9. InOrderOfCalls(normal, t)
  <2>1. /\ \A m, n \in 1 .. Len(list) : m < n =>
             \A e, f : EvalOf(t, e, list[m].state) /\ EvalOf(t, f, list[n].state) => e < f
        /\ \A n \in 1 .. Len(list) :
             (\A m \in 1 .. Len(list) : n <= m) => \E e : EvalOf(t, e, list[n].state)
        /\ \A s \in StatesOn(t) : \E n \in 1 .. Len(list) : list[n].state = s
    BY <1>5, <1>6 DEF InOrderOfCalls
  <2>2. \A m, n \in OfThread(normal, t) : m < n =>
          \A e, f : EvalOf(t, e, normal[m].state) /\ EvalOf(t, f, normal[n].state) => e < f
    <3> SUFFICES ASSUME NEW m \in OfThread(normal, t), NEW n \in OfThread(normal, t), m < n
                 PROVE  \A e, f : EvalOf(t, e, normal[m].state) /\ EvalOf(t, f, normal[n].state)
                                    => e < f
      OBVIOUS
    <3>1. nth[m] < nth[n] /\ nth[m] \in 1 .. Len(list) /\ nth[n] \in 1 .. Len(list)
          /\ normal[m] = list[nth[m]] /\ normal[n] = list[nth[n]]
      BY <1>6, <1>8
    <3> QED BY <2>1, <3>1
  <2>3. \A n \in OfThread(normal, t) :
          (\A m \in OfThread(normal, t) : n <= m) => \E e : EvalOf(t, e, normal[n].state)
    BY <1>6, <1>7, <2>1
  <2>4. \A s \in StatesOn(t) : \E n \in OfThread(normal, t) : normal[n].state = s
    <3> TAKE s \in StatesOn(t)
    <3>1. PICK k \in 1 .. Len(list) : list[k].state = s
      BY <2>1
    <3>2. PICK n \in OfThread(normal, t) : nth[n] = k
      BY <1>6
    <3> QED BY <1>6, <3>1, <3>2
  <2> QED BY <2>2, <2>3, <2>4 DEF InOrderOfCalls
<1>10. ASSUME mode # "off" PROVE GetsCalls(normal, t)
  <2> SUFFICES ASSUME NEW n \in OfThread(normal, t), NEW i0
               PROVE  IsAmong(normal[n].native_frames, i0) <=>
                        /\ i0 \in 1 .. Len(stack[t]) /\ Kind(t, i0) # "py"
                        /\ \/ RunsIn(t, i0, normal[n].state)
                           \/ Outside(t, i0) /\ \A m \in OfThread(normal, t) : n <= m
    BY DEF GetsCalls
  <2>1. nth[n] \in OfThread(list, t) /\ normal[n] = list[nth[n]]
    BY <1>6
  <2>2. IsAmong(list[nth[n]].native_frames, i0) <=>
          /\ i0 \in 1 .. Len(stack[t]) /\ Kind(t, i0) # "py"
          /\ \/ RunsIn(t, i0, list[nth[n]].state)
             \/ Outside(t, i0) /\ \A k \in OfThread(list, t) : nth[n] <= k
    BY <1>5, <1>10, <2>1 DEF GetsCalls
  <2> QED BY <1>6, <1>7, <2>1, <2>2
<1> QED BY <1>9, <1>10 DEF normal
-----------------------------------------------------------------------------
(* What the threads of one OS thread print together.                        *)

\* Shown, of a report in this mode.
ShownIn(mode, t, i) ==
  LET evals == {j \in 1 .. Len(stack[t]) : Kind(t, j) = "eval"}
      before == {j \in evals : j < i}
      after == {j \in evals : j > i}
  IN \/ Kind(t, i) = "py"
     \/ Kind(t, i) = "c" /\ mode = "python"
     \/ /\ Kind(t, i) = "c" /\ mode = "last" /\ before # {}
        /\ after # {} => stack[t][Min(after)].of # stack[t][Max(before)].of

\* In mode "last" a call is shown if its thread state runs no eval loop after it.
LEMMA ShownIs ==
  ASSUME StacksInv, NEW t \in Tid, Nested(t), NEW i \in 1 .. Len(stack[t]), Kind(t, i) = "c"
  PROVE  /\ Outside(t, i) => ~ShownIn("last", t, i)
         /\ \A s : RunsIn(t, i, s) =>
              (ShownIn("last", t, i) <=> \A e : EvalOf(t, e, s) => e < i)
<1> DEFINE d == Len(stack[t])
           evals == {j \in 1 .. d : Kind(t, j) = "eval"}
           before == {j \in evals : j < i}
           after == {j \in evals : j > i}
<1>1. d \in Nat
  BY StackOf
<1> HIDE DEF d
<1>2. ShownIn("last", t, i) <=>
        /\ before # {}
        /\ after # {} => stack[t][Min(after)].of # stack[t][Max(before)].of
  BY DEF ShownIn, d
<1>3. ASSUME Outside(t, i) PROVE before = {}
  <2> SUFFICES ASSUME NEW e \in before PROVE FALSE
    OBVIOUS
  <2>1. e \in 1 .. i /\ Kind(t, e) = "eval"
    BY <1>1 DEF d
  <2> QED BY <1>3, <2>1 DEF Outside
<1>4. ASSUME NEW s, RunsIn(t, i, s)
      PROVE  ShownIn("last", t, i) <=> \A e : EvalOf(t, e, s) => e < i
  <2>1. PICK last \in 1 .. i : /\ Kind(t, last) = "eval" /\ stack[t][last].of = s
                               /\ \A f \in 1 .. i : Kind(t, f) = "eval" => f <= last
    BY <1>4 DEF RunsIn
  <2>2. last < i /\ last \in 1 .. d /\ i \in 1 .. d
    <3>1. last # i
      BY <2>1
    <3> QED BY <1>1, <3>1 DEF d
  <2>3. last \in before /\ \A f \in before : f <= last
    <3>1. \A f \in before : f \in 1 .. i /\ Kind(t, f) = "eval"
      BY <1>1, <2>2
    <3> QED BY <2>1, <2>2, <3>1
  <2>4. Max(before) = last
    <3>1. before \subseteq 1 .. d /\ before # {}
      BY <2>3
    <3> HIDE DEF before
    <3>2. Max(before) \in before /\ \A f \in before : f <= Max(before)
      BY <1>1, <3>1, MaxIs
    <3>3. Max(before) <= last /\ last <= Max(before) /\ Max(before) \in 1 .. d
      BY <2>3, <3>1, <3>2
    <3> QED BY <1>1, <2>2, <3>3
  <2>5. after # {} => Min(after) \in after /\ \A f \in after : Min(after) <= f
    <3>1. after \subseteq Nat
      OBVIOUS
    <3> HIDE DEF after
    <3> QED BY <3>1, MinIs
  <2>6. ASSUME \A e : EvalOf(t, e, s) => e < i, after # {}
        PROVE  stack[t][Min(after)].of # s
    <3>1. PICK m \in 1 .. d : m = Min(after) /\ Kind(t, m) = "eval" /\ m > i
      BY <2>5, <2>6
    <3> HIDE DEF after
    <3>2. ~EvalOf(t, m, s)
      BY <1>1, <2>2, <2>6, <3>1
    <3> QED BY <3>1, <3>2 DEF EvalOf, d
  <2>7. ASSUME after # {} => stack[t][Min(after)].of # s, NEW e, EvalOf(t, e, s), ~(e < i)
        PROVE  FALSE
    <3>1. e \in 1 .. d /\ Kind(t, e) = "eval" /\ stack[t][e].of = s
      BY <2>7 DEF EvalOf, d
    <3>2. e # i
      BY <3>1
    <3>3. e \in after
      BY <1>1, <2>2, <2>7, <3>1, <3>2
    <3>4. PICK m \in 1 .. d : /\ m = Min(after) /\ Kind(t, m) = "eval" /\ m > i /\ m <= e
                              /\ stack[t][m].of # s
      BY <2>5, <2>7, <3>3
    <3>5. last < m /\ m < e
      <4>1. m # e
        BY <3>1, <3>4
      <4> QED BY <1>1, <2>2, <3>1, <3>4, <4>1
    <3>6. stack[t][last] # C /\ stack[t][m] # C
      BY <2>1, <3>4 DEF C, Kind
    <3>7. stack[t][m].of = stack[t][last].of
      BY <2>1, <2>2, <3>1, <3>5, <3>6 DEF Nested, d
    <3> QED BY <2>1, <3>4, <3>7
  <2>8. before # {}
    BY <2>3
  <2> HIDE DEF before, after
  <2> QED BY <1>2, <2>1, <2>4, <2>6, <2>7, <2>8
<1> QED BY <1>2, <1>3, <1>4

\* An eval loop is run by its thread state.
LEMMA EvalsRunIn ==
  ASSUME StacksInv, NEW t \in Tid, NEW e \in 1 .. Len(stack[t]), Kind(t, e) = "eval"
  PROVE  ~Outside(t, e) /\ \A s : RunsIn(t, e, s) <=> stack[t][e].of = s
<1>1. Len(stack[t]) \in Nat
  BY StackOf
<1>2. e \in 1 .. e /\ \A f \in 1 .. e : f <= e
  BY <1>1
<1>3. ~Outside(t, e)
  BY <1>2 DEF Outside
<1>4. ASSUME NEW s, RunsIn(t, e, s) PROVE stack[t][e].of = s
  <2>1. PICK f \in 1 .. e : /\ stack[t][f].of = s
                            /\ \A g \in 1 .. e : Kind(t, g) = "eval" => g <= f
    BY <1>4 DEF RunsIn
  <2>2. f = e
    BY <1>1, <1>2, <2>1
  <2> QED BY <2>1, <2>2
<1>5. \A s : stack[t][e].of = s => RunsIn(t, e, s)
  BY <1>2 DEF RunsIn
<1> QED BY <1>3, <1>4, <1>5

\* Two increasing lists of the same numbers are the same.
LEMMA StartsAlike ==
  ASSUME NEW p \in Seq(Nat), NEW q \in Seq(Nat), Increasing(p), Increasing(q),
         \A i : IsAmong(p, i) <=> IsAmong(q, i)
  PROVE  Len(p) <= Len(q) /\ \A k \in 1 .. Len(p) : p[k] = q[k]
<1> DEFINE Good == {k \in 0 .. Len(p) : k <= Len(q) /\ \A j \in 1 .. k : p[j] = q[j]}
<1>1. /\ Len(p) \in Nat /\ Len(q) \in Nat
      /\ \A k \in 1 .. Len(p) : p[k] \in Nat
      /\ \A k \in 1 .. Len(q) : q[k] \in Nat
  OBVIOUS
<1>2. 0 \in Good
  BY <1>1
<1>3. ASSUME NEW k \in 1 .. Len(p), k - 1 \in Good PROVE k \in Good
  <2>1. k - 1 <= Len(q) /\ \A j \in 1 .. k - 1 : p[j] = q[j]
    BY <1>3
  <2>2. PICK l \in 1 .. Len(q) : q[l] = p[k]
    BY DEF IsAmong
  <2>3. k <= l
    <3> SUFFICES ASSUME ~(k <= l) PROVE FALSE
      OBVIOUS
    <3>1. l \in 1 .. k - 1 /\ l \in 1 .. Len(p) /\ l < k
      BY <1>1
    <3>2. p[l] < p[k] /\ p[l] = q[l]
      BY <2>1, <3>1 DEF Increasing
    <3> QED BY <1>1, <2>2, <3>2
  <2>4. k \in 1 .. Len(q)
    BY <1>1, <2>3
  <2>5. PICK m \in 1 .. Len(p) : p[m] = q[k]
    BY <2>4 DEF IsAmong
  <2>6. k <= m
    <3> SUFFICES ASSUME ~(k <= m) PROVE FALSE
      OBVIOUS
    <3>1. m \in 1 .. k - 1 /\ m \in 1 .. Len(q) /\ m < k
      BY <1>1, <2>4
    <3>2. q[m] < q[k] /\ p[m] = q[m]
      BY <2>1, <2>4, <3>1 DEF Increasing
    <3> QED BY <1>1, <2>4, <2>5, <3>2
  <2>7. q[k] <= q[l]
    <3>1. k = l \/ k < l
      BY <1>1, <2>3
    <3>2. k < l => q[k] < q[l]
      BY <2>4 DEF Increasing
    <3> QED BY <1>1, <2>4, <3>1, <3>2
  <2>8. p[k] <= p[m]
    <3>1. k = m \/ k < m
      BY <1>1, <2>6
    <3>2. k < m => p[k] < p[m]
      BY DEF Increasing
    <3> QED BY <1>1, <3>1, <3>2
  <2>9. p[k] = q[k]
    BY <1>1, <2>2, <2>4, <2>5, <2>7, <2>8
  <2>10. \A j \in 1 .. k : j = k \/ j \in 1 .. k - 1
    BY <1>1
  <2>11. k \in 0 .. Len(p) /\ k <= Len(q) /\ \A j \in 1 .. k : p[j] = q[j]
    BY <1>1, <2>1, <2>4, <2>9, <2>10, SMTT(20)
  <2> QED BY <2>11
<1>4. 0 .. Len(p) \subseteq Good
  <2> HIDE DEF Good
  <2> QED BY <1>1, <1>2, <1>3, StepByStep
<1>5. Len(p) \in Good
  BY <1>1, <1>4
<1> QED BY <1>5

LEMMA SameList ==
  ASSUME NEW p \in Seq(Nat), NEW q \in Seq(Nat), Increasing(p), Increasing(q),
         \A i : IsAmong(p, i) <=> IsAmong(q, i)
  PROVE  p = q
<1>1. Len(p) <= Len(q) /\ Len(q) <= Len(p) /\ \A k \in 1 .. Len(p) : p[k] = q[k]
  BY StartsAlike
<1>2. Len(p) = Len(q)
  BY <1>1
<1> QED BY <1>1, <1>2, SMTT(20)

\* What thread n of a list prints: its frames and, in the modes that show them, its calls.
PrintsCalls(lines, list, n, t, mode) ==
  LET s == list[n].state
  IN /\ lines \in Seq(Nat) /\ Increasing(lines)
     /\ \A i : IsAmong(lines, i) <=>
          /\ i \in 1 .. Len(stack[t])
          /\ \/ Kind(t, i) = "py" /\ stack[t][i].of = s
             \/ /\ mode # "off" /\ Kind(t, i) = "c"
                /\ RunsIn(t, i, s) \/ (Outside(t, i) /\ \A m \in OfThread(list, t) : n <= m)
                /\ mode = "last" => \A e : EvalOf(t, e, s) => e < i

LEMMA ThreadPrints ==
  ASSUME StacksInv, NEW t \in Tid, Last(stack[t]).kind # "eval", NEW mode,
         NEW normal \in Seq(Thread), NEW n \in OfThread(normal, t),
         normal[n].tid = TidOf[normal[n].state],
         FramesOfState(normal[n].frames, normal[n].state, {}),
         Increasing(normal[n].native_frames), mode # "off" => GetsCalls(normal, t)
  PROVE  PrintsCalls(FormatThread(normal[n], mode).lines, normal, n, t, mode)
<1> DEFINE th == normal[n]
           s == th.state
           native == th.native_frames
           d == Len(stack[t])
           first == \A m \in OfThread(normal, t) : n <= m
           lines == FormatThread(th, mode).lines
<1>1. th \in Thread /\ th.tid = t /\ TidOf[s] = t /\ s \in TState
  <2>1. n \in 1 .. Len(normal) /\ normal[n].tid = t
    BY DEF OfThread
  <2>2. normal[n] \in Thread
    BY <2>1
  <2> QED BY <2>1, <2>2 DEF Thread
<1>2. d \in Nat
  BY StackOf
<1>3. ASSUME mode # "off"
      PROVE  \A i : IsAmong(native, i) <=>
               /\ i \in 1 .. d /\ Kind(t, i) # "py"
               /\ RunsIn(t, i, s) \/ (Outside(t, i) /\ first)
  BY <1>3 DEF GetsCalls
<1>4. ASSUME mode # "off" PROVE NativesOfState(native, s)
  <2>1. native \in Seq(Line)
    BY <1>1 DEF Thread
  <2>2. \A j \in 1 .. Len(native) : native[j] \in 1 .. d
    BY <1>3, <1>4 DEF IsAmong
  <2> DEFINE D == 1 .. d
             w == native
  <2>3. w \in Seq(D)
    <3>1. w \in Seq(Line) /\ \A j \in 1 .. Len(w) : w[j] \in D
      BY <2>1, <2>2
    <3> HIDE DEF D, w
    <3>2. Len(w) \in Nat /\ w = [j \in 1 .. Len(w) |-> w[j]]
      BY ONLY <3>1
    <3> QED BY ONLY <3>1, <3>2
  <2>4. \A e \in 1 .. d : Kind(t, e) = "eval" => (IsAmong(native, e) <=> stack[t][e].of = s)
    <3> SUFFICES ASSUME NEW e \in 1 .. d, Kind(t, e) = "eval"
                 PROVE  IsAmong(native, e) <=> stack[t][e].of = s
      OBVIOUS
    <3>1. ~Outside(t, e) /\ (RunsIn(t, e, s) <=> stack[t][e].of = s)
      BY EvalsRunIn
    <3> QED BY <1>3, <1>4, <3>1
  <2>5. \A i \in 1 .. d : IsAmong(native, i) => Kind(t, i) # "py"
    BY <1>3, <1>4
  <2> QED BY <1>1, <2>3, <2>4, <2>5 DEF NativesOfState
<1>5. PrintsInOrder(lines, s, native, mode)
  BY <1>1, <1>4, FormattedInOrder
<1> HIDE DEF lines, native, first
<1>6. \A i : (\A e \in 1 .. d : Kind(t, e) = "eval" /\ stack[t][e].of = s => e < i)
               <=> (\A e : EvalOf(t, e, s) => e < i)
  BY DEF EvalOf
<1>7. ASSUME NEW i
      PROVE  IsAmong(lines, i) <=>
               /\ i \in 1 .. d
               /\ \/ Kind(t, i) = "py" /\ stack[t][i].of = s
                  \/ /\ mode # "off" /\ Kind(t, i) = "c"
                     /\ RunsIn(t, i, s) \/ (Outside(t, i) /\ first)
                     /\ mode = "last" => \A e : EvalOf(t, e, s) => e < i
  <2>1. IsAmong(lines, i) <=>
          /\ i \in 1 .. d
          /\ \/ Kind(t, i) = "py" /\ stack[t][i].of = s
             \/ /\ mode # "off" /\ Kind(t, i) = "c" /\ IsAmong(native, i)
                /\ mode = "last" => \A e : EvalOf(t, e, s) => e < i
    BY <1>1, <1>5, <1>6 DEF PrintsInOrder
  <2>2. mode # "off" /\ Kind(t, i) = "c" /\ i \in 1 .. d =>
          (IsAmong(native, i) <=> RunsIn(t, i, s) \/ (Outside(t, i) /\ first))
    BY <1>3
  <2> QED BY <2>1, <2>2
<1>8. lines \in Seq(Nat) /\ Increasing(lines)
  BY <1>5 DEF PrintsInOrder
<1> QED BY <1>7, <1>8 DEF PrintsCalls, lines, first

\* The threads print, one after the other, what is shown of the stack.
LEMMA ThreadsPrintInOrder ==
  ASSUME StacksInv, NEW t \in Tid, ReadInFull(t), NEW mode \in {"off", "last", "python"},
         NEW list, InOrderOfCalls(list, t), NEW lines,
         \A n \in OfThread(list, t) : PrintsCalls(lines[n], list, n, t, mode)
  PROVE  /\ \A i : (\E n \in OfThread(list, t) : IsAmong(lines[n], i))
                     <=> i \in 1 .. Len(stack[t]) /\ ShownIn(mode, t, i)
         /\ \A m, n \in OfThread(list, t) : m < n =>
              \A i, j : IsAmong(lines[m], i) /\ IsAmong(lines[n], j) => i < j
<1> DEFINE d == Len(stack[t])
           first(n) == \A m \in OfThread(list, t) : n <= m
           s(n) == list[n].state
<1>1. /\ d \in Nat /\ Nested(t)
      /\ \A i \in 1 .. d : /\ Kind(t, i) \in {"c", "eval", "py"}
                           /\ Kind(t, i) # "c" => stack[t][i].of \in TState
  BY StackOf DEF ReadInFull
<1>2. \A n \in OfThread(list, t) : n \in Nat
  BY DEF OfThread
<1>3. ASSUME NEW n \in OfThread(list, t), NEW i
      PROVE  IsAmong(lines[n], i) <=>
               /\ i \in 1 .. d
               /\ \/ Kind(t, i) = "py" /\ stack[t][i].of = s(n)
                  \/ /\ mode # "off" /\ Kind(t, i) = "c"
                     /\ RunsIn(t, i, s(n)) \/ (Outside(t, i) /\ first(n))
                     /\ mode = "last" => \A e : EvalOf(t, e, s(n)) => e < i
  BY DEF PrintsCalls
<1>4. /\ \A m, n \in OfThread(list, t) : m < n =>
           \A e, f : EvalOf(t, e, s(m)) /\ EvalOf(t, f, s(n)) => e < f
      /\ \A n \in OfThread(list, t) : first(n) => \E e : EvalOf(t, e, s(n))
      /\ \A u \in StatesOn(t) : \E n \in OfThread(list, t) : s(n) = u
  BY DEF InOrderOfCalls
<1>5. \E n \in OfThread(list, t) : first(n)
  <2> DEFINE T == OfThread(list, t)
  <2>1. T # {} /\ T \subseteq Nat
    BY <1>2, <1>4 DEF ReadInFull
  <2> HIDE DEF T
  <2>2. PICK n \in T : \A m \in T : n <= m
    BY <2>1, LeastOf
  <2> QED BY <2>2 DEF T
<1> HIDE DEF first, s, d
\* The call is made in an eval loop of the thread state, or else outside by the first.
<1>6. ASSUME NEW n \in OfThread(list, t), NEW i, IsAmong(lines[n], i)
      PROVE  i \in 1 .. d /\ (RunsIn(t, i, s(n)) \/ (Outside(t, i) /\ first(n)))
  <2>1. CASE i \in 1 .. d /\ Kind(t, i) = "py" /\ stack[t][i].of = s(n)
    BY <2>1, FramesRunIn DEF d
  <2>2. CASE ~(i \in 1 .. d /\ Kind(t, i) = "py" /\ stack[t][i].of = s(n))
    BY <1>3, <1>6, <2>2
  <2> QED BY <2>1, <2>2
<1>7. ASSUME NEW m \in OfThread(list, t), NEW n \in OfThread(list, t), m < n,
             NEW i, NEW j, IsAmong(lines[m], i), IsAmong(lines[n], j)
      PROVE  i < j
  <2>1. i \in 1 .. d /\ j \in 1 .. d /\ ~first(n)
    <3>1. ~(n <= m)
      BY <1>2, <1>7
    <3> QED BY <1>6, <1>7, <3>1 DEF first
  <2>2. RunsIn(t, j, s(n))
    BY <1>6, <1>7, <2>1
  <2>3. PICK f \in 1 .. j : Kind(t, f) = "eval" /\ stack[t][f].of = s(n)
    BY <2>2 DEF RunsIn
  <2>4. f \in 1 .. d /\ f <= j
    BY <1>1, <2>1, <2>3
  <2> SUFFICES ASSUME ~(i < j) PROVE FALSE
    OBVIOUS
  <2>5. f \in 1 .. i
    BY <1>1, <2>1, <2>3, <2>4
  <2>6. ~Outside(t, i)
    BY <2>3, <2>5 DEF Outside
  <2>7. RunsIn(t, i, s(m))
    BY <1>6, <1>7, <2>6
  <2>8. PICK e \in 1 .. i : /\ Kind(t, e) = "eval" /\ stack[t][e].of = s(m)
                            /\ \A g \in 1 .. i : Kind(t, g) = "eval" => g <= e
    BY <2>7 DEF RunsIn
  <2>9. f <= e /\ e \in 1 .. d
    BY <1>1, <2>1, <2>3, <2>5, <2>8
  <2>10. EvalOf(t, e, s(m)) /\ EvalOf(t, f, s(n))
    BY <2>3, <2>4, <2>8, <2>9 DEF EvalOf, d
  <2>11. e < f
    BY <1>4, <1>7, <2>10
  <2> QED BY <1>1, <2>4, <2>9, <2>11
<1>8. ASSUME NEW n \in OfThread(list, t), NEW i, IsAmong(lines[n], i)
      PROVE  i \in 1 .. d /\ ShownIn(mode, t, i)
  <2>1. CASE Kind(t, i) = "py"
    BY <1>6, <1>8, <2>1 DEF ShownIn
  <2>2. CASE Kind(t, i) # "py"
    <3>1. /\ i \in 1 .. d /\ mode # "off" /\ Kind(t, i) = "c"
          /\ RunsIn(t, i, s(n)) \/ (Outside(t, i) /\ first(n))
          /\ mode = "last" => \A e : EvalOf(t, e, s(n)) => e < i
      BY <1>3, <1>8, <2>2
    <3>2. CASE mode = "python"
      BY <3>1, <3>2 DEF ShownIn
    <3>3. CASE mode = "last"
      <4>1. ~(Outside(t, i) /\ first(n))
        <5> SUFFICES ASSUME Outside(t, i), first(n) PROVE FALSE
          OBVIOUS
        <5>1. PICK e : EvalOf(t, e, s(n))
          BY <1>4
        <5>2. e < i /\ e \in 1 .. d /\ Kind(t, e) = "eval"
          BY <3>1, <3>3, <5>1 DEF EvalOf, d
        <5>3. e \in 1 .. i
          BY <1>1, <3>1, <5>2
        <5> QED BY <5>2, <5>3 DEF Outside
      <4>2. RunsIn(t, i, s(n))
        BY <3>1, <4>1
      <4>3. ShownIn("last", t, i)
        BY <1>1, <3>1, <3>3, <4>2, ShownIs DEF d
      <4> QED BY <3>1, <3>3, <4>3
    <3> QED BY <3>1, <3>2, <3>3
  <2> QED BY <2>1, <2>2
<1>9. ASSUME NEW i \in 1 .. d, ShownIn(mode, t, i)
      PROVE  \E n \in OfThread(list, t) : IsAmong(lines[n], i)
  <2>1. CASE Kind(t, i) = "py"
    <3>1. stack[t][i].of \in StatesOn(t)
      <4>1. stack[t][i].of \in TState
        BY <1>1, <2>1
      <4>2. stack[t][i].of # NoState
        BY <4>1, StacksAssumption
      <4> QED BY <4>2 DEF StatesOn, d
    <3>2. PICK n \in OfThread(list, t) : s(n) = stack[t][i].of
      BY <1>4, <3>1
    <3> QED BY <1>3, <2>1, <3>2
  <2>2. CASE Kind(t, i) # "py" /\ Outside(t, i)
    <3>1. Kind(t, i) = "c" /\ mode = "python"
      <4>1. Kind(t, i) = "c" /\ mode \in {"python", "last"}
        BY <1>9, <2>2 DEF ShownIn
      <4>2. mode # "last"
        BY <1>1, <1>9, <2>2, <4>1, ShownIs DEF d
      <4> QED BY <4>1, <4>2
    <3>2. PICK n \in OfThread(list, t) : first(n)
      BY <1>5
    <3> QED BY <1>3, <2>2, <3>1, <3>2
  <2>3. CASE Kind(t, i) # "py" /\ ~Outside(t, i)
    <3>1. Kind(t, i) = "c" /\ mode \in {"python", "last"}
      BY <1>9, <2>3 DEF ShownIn
    <3>2. PICK u \in StatesOn(t) : RunsIn(t, i, u)
      BY <2>3, CallsRunIn DEF d
    <3>3. PICK n \in OfThread(list, t) : s(n) = u
      BY <1>4
    <3>4. mode = "last" => \A e : EvalOf(t, e, s(n)) => e < i
      BY <1>1, <1>9, <3>1, <3>2, <3>3, ShownIs DEF d
    <3> QED BY <1>3, <3>1, <3>2, <3>3, <3>4
  <2> QED BY <2>1, <2>2, <2>3
<1> QED BY <1>7, <1>8, <1>9 DEF d

-----------------------------------------------------------------------------
(* The lines of an OS thread are its calls in their order.                  *)

\* Increasing lists one after the other, each behind the one before, are one such list.
LEMMA FlatInOrder ==
  ASSUME NEW ss \in Seq(Seq(Nat)), \A g \in 1 .. Len(ss) : Increasing(ss[g]),
         \A g, h \in 1 .. Len(ss) : g < h =>
           \A i, j : IsAmong(ss[g], i) /\ IsAmong(ss[h], j) => i < j
  PROVE  /\ FlattenSeq(ss) \in Seq(Nat) /\ Increasing(FlattenSeq(ss))
         /\ \A i : IsAmong(FlattenSeq(ss), i) <=> \E g \in 1 .. Len(ss) : IsAmong(ss[g], i)
<1> DEFINE r == FlattenSeq(ss)
           N == Len(ss)
<1>1. r \in Seq(Nat) /\ \E of, nth : FlatFrom(r, ss, N, of, nth)
  BY FlattenIs
<1>2. PICK of, nth : FlatFrom(r, ss, N, of, nth)
  BY <1>1
<1> HIDE DEF r
<1>3. \A n \in 1 .. Len(r) : /\ of[n] \in 1 .. N /\ nth[n] \in 1 .. Len(ss[of[n]])
                             /\ r[n] = ss[of[n]][nth[n]]
  BY <1>2 DEF FlatFrom
<1>4. \A n \in 1 .. Len(r) : IsAmong(ss[of[n]], r[n])
  BY <1>3 DEF IsAmong
<1>5. ASSUME NEW j \in 1 .. Len(r), NEW k \in 1 .. Len(r), j < k PROVE r[j] < r[k]
  <2>1. of[j] < of[k] \/ (of[j] = of[k] /\ nth[j] < nth[k])
    BY <1>2, <1>5 DEF FlatFrom
  <2>2. CASE of[j] < of[k]
    BY <1>3, <1>4, <2>2
  <2>3. CASE of[j] = of[k] /\ nth[j] < nth[k]
    <3> DEFINE g == of[j]
    <3>1. /\ g \in 1 .. N /\ nth[j] \in 1 .. Len(ss[g]) /\ nth[k] \in 1 .. Len(ss[g])
          /\ r[j] = ss[g][nth[j]] /\ r[k] = ss[g][nth[k]]
      BY <1>3, <2>3
    <3> HIDE DEF g
    <3>2. Increasing(ss[g])
      BY <3>1
    <3> QED BY <2>3, <3>1, <3>2 DEF Increasing
  <2> QED BY <2>1, <2>2, <2>3
<1>6. ASSUME NEW i, NEW g \in 1 .. N, IsAmong(ss[g], i) PROVE IsAmong(r, i)
  <2>1. PICK k \in 1 .. Len(ss[g]) : ss[g][k] = i
    BY <1>6 DEF IsAmong
  <2>2. PICK n \in 1 .. Len(r) : of[n] = g /\ nth[n] = k
    BY <1>2 DEF FlatFrom
  <2>3. r[n] = i
    BY <1>3, <2>1, <2>2
  <2> QED BY <2>3 DEF IsAmong
<1>7. ASSUME NEW i, IsAmong(r, i) PROVE \E g \in 1 .. N : IsAmong(ss[g], i)
  <2>1. PICK n \in 1 .. Len(r) : r[n] = i
    BY <1>7 DEF IsAmong
  <2> QED BY <1>3, <1>4, <2>1
<1>8. Increasing(r)
  BY <1>5 DEF Increasing
<1> QED BY <1>1, <1>6, <1>7, <1>8 DEF r

LEMMA LinesAreInOrder ==
  ASSUME StacksInv, NEW t \in Tid, ReadInFull(t), NEW mode \in {"off", "last", "python"},
         NEW threads, NEW normal, NEW natives, ReadThreads(threads, {}, natives),
         Regrouped(threads, normal), InOrderOfCalls(normal, t),
         mode # "off" => GetsCalls(normal, t)
  PROVE  FlattenSeq([n \in 1 .. Len(normal) |->
           IF normal[n].tid = t THEN FormatThread(normal[n], mode).lines ELSE <<>>])
         = Selected(Positions(t), {i \in DOMAIN stack[t] : ShownIn(mode, t, i)})
<1> DEFINE N == Len(normal)
           d == Len(stack[t])
           lines == [n \in 1 .. N |->
             IF normal[n].tid = t THEN FormatThread(normal[n], mode).lines ELSE <<>>]
           P == {i \in DOMAIN stack[t] : ShownIn(mode, t, i)}
           q == Selected([i \in 1 .. d |-> i], P)
<1>1. normal \in Seq(Thread) /\ N \in Nat
  BY DEF Regrouped
<1>2. \A n \in OfThread(normal, t) : n \in 1 .. N /\ normal[n].tid = t
  BY DEF OfThread
<1>3. ASSUME NEW n \in OfThread(normal, t) PROVE PrintsCalls(lines[n], normal, n, t, mode)
  <2>1. Last(stack[t]).kind # "eval"
    BY DEF ReadInFull
  <2>2. /\ normal[n].tid = TidOf[normal[n].state]
        /\ FramesOfState(normal[n].frames, normal[n].state, {})
    BY <1>2, NormalIs
  <2>3. Increasing(normal[n].native_frames)
    BY <1>2 DEF Regrouped
  <2>4. lines[n] = FormatThread(normal[n], mode).lines
    BY <1>2
  <2>5. PrintsCalls(FormatThread(normal[n], mode).lines, normal, n, t, mode)
    BY <1>1, <2>1, <2>2, <2>3, ThreadPrints
  <2> QED BY <2>4, <2>5
<1>4. \A n \in 1 .. N : n \notin OfThread(normal, t) => lines[n] = <<>>
  BY DEF OfThread
<1>5. \A n \in 1 .. N : lines[n] \in Seq(Nat) /\ Increasing(lines[n])
  <2> TAKE n \in 1 .. N
  <2> HIDE DEF lines
  <2>1. CASE n \in OfThread(normal, t)
    BY <1>3, <2>1 DEF PrintsCalls
  <2>2. CASE n \notin OfThread(normal, t)
    <3>1. lines[n] = <<>> /\ <<>> \in Seq(Nat) /\ Len(<<>>) = 0
      BY <1>4, <2>2
    <3>2. Increasing(<<>>)
      BY <3>1 DEF Increasing
    <3> QED BY <3>1, <3>2
  <2> QED BY <2>1, <2>2
<1>6. \A n \in 1 .. N : \A i : IsAmong(lines[n], i) => n \in OfThread(normal, t)
  <2> HIDE DEF lines
  <2> QED BY <1>4 DEF IsAmong
<1>7. lines \in Seq(Seq(Nat)) /\ Len(lines) = N
  <2>1. lines = [n \in 1 .. N |-> lines[n]]
    OBVIOUS
  <2> HIDE DEF lines, N
  <2>2. lines \in [1 .. N -> Seq(Nat)]
    BY ONLY <1>5, <2>1
  <2> DEFINE S == Seq(Nat)
  <2> HIDE DEF S
  <2>3. lines \in [1 .. N -> S]
    BY <2>2 DEF S
  <2>4. lines \in Seq(S) /\ Len(lines) = N
    BY ONLY <1>1, <2>3
  <2> QED BY <2>4 DEF S
<1> HIDE DEF lines, N
<1>8. /\ \A i : (\E n \in OfThread(normal, t) : IsAmong(lines[n], i))
                  <=> i \in 1 .. d /\ ShownIn(mode, t, i)
      /\ \A m, n \in OfThread(normal, t) : m < n =>
           \A i, j : IsAmong(lines[m], i) /\ IsAmong(lines[n], j) => i < j
  BY <1>3, ThreadsPrintInOrder
<1>9. \A g, h \in 1 .. Len(lines) : g < h =>
        \A i, j : IsAmong(lines[g], i) /\ IsAmong(lines[h], j) => i < j
  BY <1>6, <1>7, <1>8
<1>10. /\ FlattenSeq(lines) \in Seq(Nat) /\ Increasing(FlattenSeq(lines))
       /\ \A i : IsAmong(FlattenSeq(lines), i) <=> \E g \in 1 .. N : IsAmong(lines[g], i)
  BY <1>5, <1>7, <1>9, FlatInOrder
<1>11. d \in Nat /\ DOMAIN stack[t] = 1 .. d
  BY StackOf
<1>12. \A i \in 1 .. d : i \in P <=> ShownIn(mode, t, i)
  BY <1>11
<1>13. /\ q \in Seq(1 .. d)
       /\ \A k \in 1 .. Len(q) : q[k] \in P /\ q[k] \in 1 .. d
       /\ \A j, k \in 1 .. Len(q) : j < k => q[j] < q[k]
       /\ \A i \in 1 .. d : i \in P => \E k \in 1 .. Len(q) : q[k] = i
  <2> HIDE DEF d, P
  <2>1. d \in Nat
    BY <1>11
  <2> QED BY <2>1, PlacesSelected
<1>14. q = Selected(Positions(t), P)
  BY DEF Positions
<1> HIDE DEF P, q
<1>15. q \in Seq(Nat) /\ Increasing(q)
  <2>1. 1 .. d \subseteq Nat
    BY <1>11
  <2> HIDE DEF d
  <2>2. q \in Seq(Nat)
    BY <1>13, <2>1, SeqMonotonic
  <2> QED BY <1>13, <2>2 DEF Increasing
<1>16. \A i : IsAmong(q, i) <=> i \in 1 .. d /\ ShownIn(mode, t, i)
  BY <1>12, <1>13 DEF IsAmong
<1>17. \A i : IsAmong(FlattenSeq(lines), i) <=> IsAmong(q, i)
  <2>1. \A i : (\E g \in 1 .. N : IsAmong(lines[g], i))
                 <=> \E n \in OfThread(normal, t) : IsAmong(lines[n], i)
    BY <1>2, <1>6 DEF N
  <2> QED BY <1>8, <1>10, <1>16, <2>1
<1>18. FlattenSeq(lines) = q
  BY <1>10, <1>15, <1>17, SameList
<1> QED BY <1>14, <1>18 DEF lines, N, P

\* The threads that are read have the anchors of their thread states, and all on the
\* stack of a thread whose states are all looked at are there.
LEMMA ReadAnchorsAre ==
  ASSUME StacksInv, NEW t \in Tid, ReadInFull(t), NEW order \in Orders, NEW idle, NEW mode,
         NEW lost \in Losses, NEW unreadable, NEW heap \in Heaps
  PROVE  LET threads == ThreadsRead(order, idle, mode, lost, unreadable, heap)
         IN /\ ReadThreads(threads, unreadable, Natives(mode, lost)) /\ Anchored(threads, t, heap)
<1> DEFINE threads == ThreadsRead(order, idle, mode, lost, unreadable, heap)
<1>1. /\ ReadThreads(threads, unreadable, Natives(mode, lost))
      /\ \A n \in 1 .. Len(threads) : threads[n].stack_anchor = StackAnchor(threads[n].state, heap)
      /\ \A s \in TState : Collected(s, idle) => \E n \in 1 .. Len(threads) : threads[n].state = s
  BY ReadThreadsAre, SMTT(20)
<1> HIDE DEF threads
<1>2. ASSUME NEW s \in StatesOn(t)
      PROVE  \E n \in OfThread(threads, t) : threads[n].state = s
  <2>1. s \in TState /\ TidOf[s] = t /\ \E e : EvalOf(t, e, s)
    BY <1>2, StatesOnAre
  <2>2. Last(stack[t]).kind # "eval" /\ Reported(s)
    BY <1>2 DEF ReadInFull
  <2>3. FrameChain(s) # <<>>
    BY <2>1, <2>2, ChainHasEval
  <2>4. Collected(s, idle)
    BY <2>2, <2>3 DEF Collected, Reported
  <2>5. PICK n \in 1 .. Len(threads) : threads[n].state = s
    BY <1>1, <2>1, <2>4
  <2>6. threads[n].tid = t
    BY <1>1, <2>1, <2>5 DEF ReadThreads
  <2> QED BY <2>5, <2>6 DEF OfThread
<1>3. Anchored(threads, t, heap)
  BY <1>1, <1>2 DEF Anchored
<1> QED BY <1>1, <1>3 DEF threads

\* What a report prints for thread t is its calls in their order.
PrintsCallOrder(rep, t) ==
  FlattenSeq([n \in DOMAIN rep.threads |->
    IF rep.threads[n].tid = t THEN rep.threads[n].lines ELSE <<>>])
  = Selected(Positions(t), {i \in DOMAIN stack[t] : ShownIn(rep.mode, t, i)})

ReportIsCallOrder ==
  report # None /\ report.unreadable = {} =>
    \A t \in Tid : report.lost[t] = 0 /\ ReadInFull(t) => PrintsCallOrder(report, t)

LEMMA CallOrderIs == MergedIsCallOrder <=> ReportIsCallOrder
<1>1. \A t, i : Shown(t, i) <=> ShownIn(report.mode, t, i)
  BY DEF Shown, ShownIn
<1>2. \A t : {i \in DOMAIN stack[t] : Shown(t, i)} = {i \in DOMAIN stack[t] : ShownIn(report.mode, t, i)}
  BY <1>1
<1>3. \A t : LinesOf(t) = Selected(Positions(t), {i \in DOMAIN stack[t] : Shown(t, i)})
               <=> PrintsCallOrder(report, t)
  BY <1>2 DEF LinesOf, PrintsCallOrder
<1>4. \A t : (/\ report.lost[t] = 0
              /\ StatesOn(t) # {}
              /\ Last(stack[t]).kind # "eval"
              /\ \A s \in StatesOn(t) : Reported(s)
              /\ Nested(t)
              /\ HasShims \/ Cardinality(StatesOn(t)) = 1) <=> report.lost[t] = 0 /\ ReadInFull(t)
  BY DEF ReadInFull
<1> QED BY <1>3, <1>4 DEF MergedIsCallOrder, ReportIsCallOrder

\* The stacks stay as they are while a report is made.
LEMMA CallOrderStays ==
  ASSUME UNCHANGED stackVars, NEW t
  PROVE  /\ ReadInFull(t)' <=> ReadInFull(t)
         /\ PrintsCallOrder(report, t)' <=> PrintsCallOrder(report', t)
<1>1. stack' = stack /\ python_version' = python_version
  BY DEF stackVars
<1>2. \A i : Kind(t, i)' = Kind(t, i)
  BY <1>1 DEF Kind
<1>3. StatesOn(t)' = StatesOn(t)
  BY <1>1 DEF StatesOn
<1>4. Nested(t)' <=> Nested(t)
  BY <1>1 DEF Nested
<1>5. (HasShims' <=> HasShims) /\ \A s : Reported(s)' <=> Reported(s)
  BY <1>1 DEF HasShims, Reported
<1>6. ReadInFull(t)' <=> ReadInFull(t)
  BY <1>1, <1>3, <1>4, <1>5 DEF ReadInFull
<1>7. Positions(t)' = Positions(t)
  BY <1>1 DEF Positions
<1>8. \A mode, i : ShownIn(mode, t, i)' <=> ShownIn(mode, t, i)
  BY <1>1, <1>2 DEF ShownIn
<1>9. {i \in DOMAIN stack[t] : ShownIn(report.mode, t, i)}'
        = {i \in DOMAIN stack[t] : ShownIn(report'.mode, t, i)}
  BY <1>1, <1>8
<1>10. PrintsCallOrder(report, t)' <=> PrintsCallOrder(report', t)
  BY <1>7, <1>9 DEF PrintsCallOrder
<1> QED BY <1>6, <1>10

LEMMA CapturedInOrder ==
  ASSUME StacksInv, Capture
  PROVE  MergedIsCallOrder'
<1>1. PICK order \in Orders, idle \in Idle, mode \in Modes, lost \in Losses,
           unreadable \in Unreadable, heap \in Heaps :
        LET threads == Selected(
              [n \in DOMAIN order |-> BuildPythonThread(order[n], mode, lost, unreadable, heap)],
              {n \in DOMAIN order : Collected(order[n], idle)})
            normal == NormalizeThreads(threads, mode)
        IN report' = [mode |-> mode, lost |-> lost, unreadable |-> unreadable,
                      threads |-> [n \in DOMAIN normal |-> FormatThread(normal[n], mode)]]
  BY Zenon DEF Capture
<1> DEFINE threads == ThreadsRead(order, idle, mode, lost, unreadable, heap)
           normal == NormalizeThreads(threads, mode)
           natives == Natives(mode, lost)
           printed == [n \in DOMAIN normal |-> FormatThread(normal[n], mode)]
           rep == report'
<1>2. rep = [mode |-> mode, lost |-> lost, unreadable |-> unreadable, threads |-> printed]
  BY <1>1 DEF ThreadsRead
<1> HIDE DEF printed
<1>3. /\ rep.mode = mode /\ rep.lost = lost /\ rep.unreadable = unreadable
      /\ rep.threads = printed
  BY <1>2
<1>4. mode \in {"off", "last", "python"}
  BY NormalizeAssumption
<1> HIDE DEF threads, rep
<1>5. ASSUME NEW t \in Tid, unreadable = {}, lost[t] = 0, ReadInFull(t)
      PROVE  PrintsCallOrder(rep, t)
  <2>1. ReadThreads(threads, {}, natives) /\ Anchored(threads, t, heap)
    <3>1. ReadThreads(threads, unreadable, natives) /\ Anchored(threads, t, heap)
      BY <1>5, ReadAnchorsAre DEF threads
    <3> QED BY <1>5, <3>1
  <2>2. Regrouped(threads, normal)
    BY <2>1, NormalizeThreadsIs
  <2>3. mode # "off" => NativesOf(natives[t], t, 0)
    <3> SUFFICES ASSUME mode # "off" PROVE NativesOf(natives[t], t, 0)
      OBVIOUS
    <3>1. natives[t] = NativeFrames(t, lost[t])
      BY DEF Natives
    <3> HIDE DEF natives
    <3> QED BY <1>5, <3>1, NativesAre
  <2> HIDE DEF natives
  <2>4. InOrderOfCalls(normal, t) /\ (mode # "off" => GetsCalls(normal, t))
    BY <1>5, <2>1, <2>3, NormalIsInOrder
  <2> HIDE DEF normal
  <2>5. normal \in Seq(Thread) /\ DOMAIN normal = 1 .. Len(normal)
    BY <2>2 DEF Regrouped
  <2>6. FlattenSeq([n \in 1 .. Len(normal) |->
          IF normal[n].tid = t THEN FormatThread(normal[n], mode).lines ELSE <<>>])
        = Selected(Positions(t), {i \in DOMAIN stack[t] : ShownIn(mode, t, i)})
    BY <1>4, <1>5, <2>1, <2>2, <2>4, LinesAreInOrder
  <2>7. /\ DOMAIN printed = 1 .. Len(normal)
        /\ \A n \in 1 .. Len(normal) : printed[n] = FormatThread(normal[n], mode)
    BY <2>5 DEF printed
  <2>8. \A n \in 1 .. Len(normal) : printed[n].tid = normal[n].tid
    <3> TAKE n \in 1 .. Len(normal)
    <3>1. normal[n] \in Thread
      BY <2>5
    <3>2. FormatThread(normal[n], mode).tid = normal[n].tid
      BY <3>1, FormattedIs
    <3> QED BY <2>7, <3>2
  <2>9. [n \in DOMAIN printed |-> IF printed[n].tid = t THEN printed[n].lines ELSE <<>>]
          = [n \in 1 .. Len(normal) |->
               IF normal[n].tid = t THEN FormatThread(normal[n], mode).lines ELSE <<>>]
    BY <2>7, <2>8
  <2> QED BY <1>3, <2>6, <2>9 DEF PrintsCallOrder
<1>6. UNCHANGED stackVars
  BY DEF Capture
<1>7. ASSUME NEW t \in Tid, rep.unreadable = {}, rep.lost[t] = 0, ReadInFull(t)'
      PROVE  PrintsCallOrder(report, t)'
  <2>1. PrintsCallOrder(rep, t)
    BY <1>3, <1>5, <1>6, <1>7, CallOrderStays
  <2> QED BY <1>6, <2>1, CallOrderStays DEF rep
<1>8. ReportIsCallOrder'
  BY <1>7 DEF rep, ReportIsCallOrder
<1>9. MergedIsCallOrder' <=> ReportIsCallOrder'
  BY CallOrderIs, PTL
<1> QED BY <1>8, <1>9

-----------------------------------------------------------------------------
(* The theorems.  A report is made of stacks that do not change while it is *)
(* there, so that what holds of the stacks when it is made still does.      *)

ReportInv ==
  /\ StacksInv
  /\ report # None => \E threads, normal, natives : ReportOf(report, threads, normal, natives)

LEMMA ReportStays ==
  ASSUME UNCHANGED stackVars, NEW threads, NEW normal, NEW natives,
         ReportOf(report', threads, normal, natives)
  PROVE  ReportOf(report, threads, normal, natives)'
<1> DEFINE rep == report'
<1> HIDE DEF rep
<1>1. stack' = stack /\ python_version' = python_version
  BY DEF stackVars
<1>2. \A t, i : Kind(t, i)' = Kind(t, i)
  BY <1>1 DEF Kind
<1>3. /\ rep.mode \in Modes
      /\ rep.threads \in Seq(ThreadReport) /\ Len(rep.threads) = Len(normal)
      /\ ReadThreads(threads, rep.unreadable, natives)
      /\ Regrouped(threads, normal)
      /\ \A t \in Tid : /\ Divided(threads, normal, rep.mode, t, natives[t])
                        /\ NativesOf(natives[t], t, IF rep.mode = "off" THEN 1 ELSE rep.lost[t])
      /\ \A n \in 1 .. Len(normal) :
           PrintedFrom(rep.threads[n], normal[n], rep.mode, rep.unreadable)
      /\ \A t \in Tid : \A i \in 1 .. Len(stack[t]) :
           Kind(t, i) = "py" /\ Reported(stack[t][i].of) =>
             \E n \in 1 .. Len(threads) : threads[n].state = stack[t][i].of
  BY DEF ReportOf, rep
<1>4. \A frames, s, u : FramesOfState(frames, s, u)' <=> FramesOfState(frames, s, u)
  BY <1>1, <1>2 DEF FramesOfState, IsRead
<1>5. \A s, u, i : IsRead(s, u, i)' <=> IsRead(s, u, i)
  BY <1>1, <1>2 DEF IsRead
<1>6. \A t, native, k : Evals(t, native, k)' = Evals(t, native, k)
  BY <1>2 DEF Evals, IsEvalFrame
<1>7. \A native, t, lost : NativesOf(native, t, lost)' <=> NativesOf(native, t, lost)
  BY <1>1, <1>2 DEF NativesOf
<1>8. \A t, native, k, i : IsNative(t, native, k, i)' <=> IsNative(t, native, k, i)
  BY <1>2 DEF IsNative
<1>9. \A th : NumEvalFrames(th)' = NumEvalFrames(th)
  BY <1>2 DEF NumEvalFrames, IsEvalFrame
<1>10. ReadThreads(threads, report.unreadable, natives)'
  BY <1>3, <1>4 DEF ReadThreads, rep
<1>11. \A t \in Tid : Divided(threads, normal, report.mode, t, natives[t])'
  BY <1>3, <1>6 DEF Divided, rep
<1>12. \A t \in Tid : NativesOf(natives[t], t, IF report.mode = "off" THEN 1 ELSE report.lost[t])'
  BY <1>3, <1>7 DEF rep
<1>13. \A n \in 1 .. Len(normal) :
         PrintedFrom(report.threads[n], normal[n], report.mode, report.unreadable)'
  BY <1>3, <1>5, <1>8, <1>9 DEF PrintedFrom, rep
<1>14. (\A t \in Tid : \A i \in 1 .. Len(stack[t]) :
          Kind(t, i) = "py" /\ Reported(stack[t][i].of) =>
            \E n \in 1 .. Len(threads) : threads[n].state = stack[t][i].of)'
  BY <1>1, <1>2, <1>3 DEF Reported
<1> QED BY <1>3, <1>10, <1>11, <1>12, <1>13, <1>14 DEF ReportOf, rep

LEMMA StacksStay ==
  ASSUME StacksInv, UNCHANGED stackVars
  PROVE  StacksInv'
<1>1. stack' = stack /\ python_version' = python_version
  BY DEF stackVars
<1>2. \A t, i : Kind(t, i)' = Kind(t, i)
  BY <1>1 DEF Kind
<1>3. \A f, g : Calls(f, g)' <=> Calls(f, g)
  BY <1>1 DEF Calls, Inlines
<1>4. StacksTypeOK'
  BY <1>1 DEF StacksInv, StacksTypeOK
<1>5. ASSUME NEW t \in Tid
      PROVE  (/\ Len(stack[t]) <= MaxDepth /\ CallsAreNested(t) /\ StatesAreAtHome(t)
              /\ EvalsCall(t))'
  BY <1>1, <1>2, <1>3 DEF StacksInv, CallsAreNested, StatesAreAtHome, EvalsCall
<1> QED BY <1>4, <1>5 DEF StacksInv

LEMMA ReportBegins == Init => ReportInv
BY StacksBegin DEF Init, ReportInv

LEMMA ReportKeeps ==
  ASSUME ReportInv, [Next]_vars
  PROVE  ReportInv'
<1>1. CASE report = None /\ StacksNext /\ UNCHANGED report
  <2>1. StacksInv'
    BY <1>1, StacksKeep DEF ReportInv
  <2> QED BY <1>1, <2>1 DEF ReportInv
<1>2. CASE Capture
  <2>1. StacksInv /\ UNCHANGED stackVars
    BY <1>2 DEF ReportInv, Capture
  <2>2. PICK threads, normal, natives : ReportOf(report', threads, normal, natives)
    BY <1>2, <2>1, CaptureIs
  <2>3. ReportOf(report, threads, normal, natives)'
    BY <2>1, <2>2, ReportStays
  <2> QED BY <2>1, <2>3, StacksStay DEF ReportInv
<1>3. CASE Resume
  <2>1. StacksInv /\ UNCHANGED stackVars /\ report' = None
    BY <1>3 DEF ReportInv, Resume
  <2> QED BY <2>1, StacksStay DEF ReportInv
<1>4. CASE UNCHANGED vars
  <2>1. StacksInv /\ UNCHANGED stackVars /\ report' = report
    BY <1>4 DEF ReportInv, vars
  <2>2. ASSUME report # None PROVE (\E threads, normal, natives : ReportOf(report, threads, normal, natives))'
    <3>1. PICK threads, normal, natives : ReportOf(report, threads, normal, natives)
      BY <2>2 DEF ReportInv
    <3>2. ReportOf(report', threads, normal, natives)
      BY <2>1, <3>1
    <3>3. ReportOf(report, threads, normal, natives)'
      BY <2>1, <3>2, ReportStays
    <3> QED BY <3>3
  <2> QED BY <2>1, <2>2, StacksStay DEF ReportInv
<1> QED BY <1>1, <1>2, <1>3, <1>4 DEF Next

LEMMA ReportHolds == Spec => []ReportInv
<1>1. ReportInv /\ [Next]_vars => ReportInv'
  BY ReportKeeps
<1> QED BY <1>1, ReportBegins, PTL DEF Spec

\* The stacks are stacks of frames, and a report has one report of each thread state
\* at most (the groups of normalizeThreads, bindings.cpp:643-671).
THEOREM TypeCorrect == Spec => []TypeOK
<1>1. ReportInv => TypeOK
  <2> SUFFICES ASSUME ReportInv PROVE TypeOK
    OBVIOUS
  <2>1. StacksTypeOK
    BY DEF ReportInv, StacksInv
  <2>2. ASSUME report # None
        PROVE  /\ report.mode \in Modes /\ report.threads \in Seq(ThreadReport)
               /\ \A m, n \in DOMAIN report.threads :
                    report.threads[m].state = report.threads[n].state => m = n
    <3>1. PICK threads, normal, natives : ReportOf(report, threads, normal, natives)
      BY <2>2 DEF ReportInv
    <3>2. /\ report.mode \in Modes /\ report.threads \in Seq(ThreadReport)
          /\ DOMAIN report.threads = 1 .. Len(normal)
      BY <3>1 DEF ReportOf
    <3>3. \A n \in 1 .. Len(normal) : report.threads[n].state = normal[n].state
      BY <3>1 DEF ReportOf, PrintedFrom
    <3>4. \A m, n \in 1 .. Len(normal) : normal[m].state = normal[n].state => m = n
      BY <3>1 DEF ReportOf, Regrouped
    <3> QED BY <3>2, <3>3, <3>4
  <2> QED BY <2>1, <2>2 DEF TypeOK
<1> QED BY <1>1, ReportHolds, PTL

\* Merging never asks for a Python frame behind the last one, whatever the unwinder and
\* the reader lose (the assert of traceback_formatter.py:130): a thread is merged only
\* with as many eval frames as entry frames, and each eval frame takes one at most.
THEOREM MergingHasFrames == Spec => []NeverRunsOut
<1>1. ReportInv => NeverRunsOut
  <2> SUFFICES ASSUME ReportInv, report # None
               PROVE  \A n \in DOMAIN report.threads : report.threads[n].asserts
    BY DEF NeverRunsOut
  <2>1. PICK threads, normal, natives : ReportOf(report, threads, normal, natives)
    BY DEF ReportInv
  <2>2. DOMAIN report.threads = 1 .. Len(normal)
    BY <2>1 DEF ReportOf
  <2>3. \A n \in 1 .. Len(normal) : report.threads[n].asserts = TRUE
    BY <2>1 DEF ReportOf, PrintedFrom
  <2> QED BY <2>2, <2>3
<1> QED BY <1>1, ReportHolds, PTL

\* Over all thread states of an OS thread, every Python frame that could be read is
\* printed once and no native frame twice, unless both unwinding and reading were
\* incomplete (normalizeThreads of bindings.cpp and format_thread).
THEOREM FramesOnce == Spec => []EveryFrameOnce
<1>1. ReportInv => EveryFrameOnce
  <2> SUFFICES ASSUME ReportInv, report # None, NEW t \in Tid,
                      report.lost[t] = 0 \/ report.unreadable = {}, NEW i \in 1 .. Len(stack[t])
               PROVE  LET times == Cardinality({n \in DOMAIN LinesOf(t) : LinesOf(t)[n] = i})
                      IN /\ Kind(t, i) = "py" /\ Reported(stack[t][i].of)
                            /\ <<t, i>> \notin report.unreadable => times = 1
                         /\ Kind(t, i) = "c" /\ report.lost[t] = 0 => times <= 1
                         /\ Kind(t, i) = "eval" => times = 0
    BY DEF EveryFrameOnce
  <2>1. StacksInv
    BY DEF ReportInv
  <2>2. PICK threads, normal, natives : ReportOf(report, threads, normal, natives)
    BY DEF ReportInv
  <2> QED BY <2>1, <2>2, FramesArePrintedOnce
<1> QED BY <1>1, ReportHolds, PTL

\* A thread whose two stacks were read in full is printed as the one call stack it is
\* (docs/overview.rst:18), and through every change of interpreter
\* (docs/multiple_interpreters.rst:104): the sort and the slices of normalizeThreads
\* (bindings.cpp:540-672) and the merging of format_thread (traceback_formatter.py:114-153)
\* put each call after its caller and none of another interpreter in between.
THEOREM MergedInOrder == Spec => []MergedIsCallOrder
<1>1. Init => MergedIsCallOrder
  BY DEF Init, MergedIsCallOrder
<1>2. ASSUME ReportInv, MergedIsCallOrder, [Next]_vars PROVE MergedIsCallOrder'
  <2>1. CASE report = None /\ StacksNext /\ UNCHANGED report
    BY <2>1 DEF MergedIsCallOrder
  <2>2. CASE Capture
    BY <1>2, <2>2, CapturedInOrder DEF ReportInv
  <2>3. CASE Resume
    BY <2>3 DEF Resume, MergedIsCallOrder
  <2>4. CASE UNCHANGED vars
    <3>1. UNCHANGED stackVars /\ report' = report
      BY <2>4 DEF vars
    <3>2. ReportIsCallOrder
      BY <1>2, CallOrderIs
    <3>3. ASSUME NEW t, PrintsCallOrder(report, t) PROVE PrintsCallOrder(report, t)'
      BY <3>1, <3>3, CallOrderStays
    <3>4. \A t : ReadInFull(t)' => ReadInFull(t)
      BY <3>1, CallOrderStays
    <3>5. ReportIsCallOrder'
      BY <3>1, <3>2, <3>3, <3>4 DEF ReportIsCallOrder
    <3>6. MergedIsCallOrder' <=> ReportIsCallOrder'
      BY CallOrderIs, PTL
    <3> QED BY <3>5, <3>6
  <2> QED BY <1>2, <2>1, <2>2, <2>3, <2>4 DEF Next
<1> QED BY <1>1, <1>2, ReportHolds, PTL DEF Spec
=============================================================================
