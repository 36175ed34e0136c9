----------------------------- MODULE ListsProofs -----------------------------
(***************************************************************************)
(* What lists built step by step hold: Selected, FlattenSeq, sums and      *)
(* lists put in order by the number of what comes before.  An induction    *)
(* over the steps is an argument about the least one that fails.           *)
(***************************************************************************)
EXTENDS Lists, SequencesExt, SequenceTheorems, FiniteSetTheorems,
        WellFoundedInduction, TLAPS

\* A set of naturals has a least element.
LEMMA LeastOf ==
  ASSUME NEW T, T \subseteq Nat, T # {}
  PROVE  \E m \in T : \A n \in T : m <= n
<1>1. PICK m \in T : \A n \in T : <<n, m>> \notin OpToRel(<, Nat)
  BY NatLessThanWellFounded, WFMin
<1>2. \A n \in T : ~(n < m)
  BY <1>1 DEF OpToRel
<1> QED BY <1>2

LEMMA MinIs ==
  ASSUME NEW T, T \subseteq Nat, T # {}
  PROVE  Min(T) \in T /\ \A n \in T : Min(T) <= n
<1>1. \E m \in T : \A n \in T : m <= n
  BY LeastOf
<1> QED BY <1>1 DEF Min

LEMMA MaxIs ==
  ASSUME NEW d \in Nat, NEW T, T \subseteq 1 .. d, T # {}
  PROVE  Max(T) \in T /\ \A n \in T : n <= Max(T)
<1> DEFINE U == {d - n : n \in T}
<1>1. U \subseteq Nat /\ U # {}
  <2>1. \A n \in T : d - n \in Nat
    OBVIOUS
  <2>2. PICK n \in T : TRUE
    OBVIOUS
  <2>3. d - n \in U
    OBVIOUS
  <2> QED BY <2>1, <2>3
<1>2. PICK u \in U : \A v \in U : u <= v
  <2> HIDE DEF U
  <2> QED BY <1>1, LeastOf
<1>3. PICK m \in T : u = d - m
  OBVIOUS
<1>4. \A n \in T : d - n \in U
  OBVIOUS
<1>5. \A n \in T : d - m <= d - n
  BY <1>2, <1>3, <1>4
<1>6. \A n \in T : m >= n
  BY <1>5
<1>7. Max(T) \in T /\ \A n \in T : Max(T) >= n
  BY <1>6 DEF Max
<1> QED BY <1>7

\* What holds at zero and goes on from each step to the next holds of all steps.
LEMMA StepByStep ==
  ASSUME NEW n \in Nat, NEW Good, 0 \in Good,
         \A k \in 1 .. n : k - 1 \in Good => k \in Good
  PROVE  0 .. n \subseteq Good
<1> DEFINE Bad == {k \in 0 .. n : k \notin Good}
<1>1. Bad = {}
  <2> SUFFICES ASSUME Bad # {} PROVE FALSE
    OBVIOUS
  <2>1. PICK m \in Bad : \A k \in Bad : m <= k
    <3>1. Bad \subseteq Nat
      OBVIOUS
    <3> HIDE DEF Bad
    <3> QED BY <3>1, LeastOf
  <2>2. m \in 1 .. n /\ m \notin Good
    BY <2>1
  <2>3. m - 1 \in 0 .. n /\ ~(m <= m - 1)
    BY <2>2
  <2>4. m - 1 \in Good
    BY <2>1, <2>3
  <2> QED BY <2>2, <2>4
<1> QED BY <1>1

\* f has its first value from a, and each next one by a step from the last.
Follows(f, n, a, step) == f[0] = a /\ \A k \in 1 .. n : f[k] = step[k][f[k - 1]]

LEMMA RecursionExists ==
  ASSUME NEW n \in Nat, NEW A, NEW a \in A, NEW step \in [1 .. n -> [A -> A]]
  PROVE  \E f \in [0 .. n -> A] : Follows(f, n, a, step)
<1> DEFINE UpTo(m, f) == /\ f \in [0 .. m -> A]
                         /\ f[0] = a
                         /\ \A k \in 1 .. m : f[k] = step[k][f[k - 1]]
           Good == {m \in 0 .. n : \E f : UpTo(m, f)}
<1>1. 0 \in Good
  <2>1. UpTo(0, [k \in 0 .. 0 |-> a])
    OBVIOUS
  <2>2. 0 \in 0 .. n
    OBVIOUS
  <2> HIDE DEF UpTo
  <2> QED BY <2>1, <2>2
<1>2. ASSUME NEW m \in 1 .. n, m - 1 \in Good PROVE m \in Good
  <2>1. PICK f : UpTo(m - 1, f)
    BY <1>2
  <2>2. m - 1 \in 0 .. m - 1 /\ f[m - 1] \in A
    BY <2>1
  <2> DEFINE g == [k \in 0 .. m |-> IF k = m THEN step[m][f[m - 1]] ELSE f[k]]
  <2>3. g \in [0 .. m -> A]
    <3>1. step[m][f[m - 1]] \in A
      BY <2>2
    <3>2. \A k \in 0 .. m : k # m => f[k] \in A
      BY <2>1
    <3> QED BY <3>1, <3>2
  <2>4. g[0] = a
    BY <2>1
  <2>5. ASSUME NEW k \in 1 .. m PROVE g[k] = step[k][g[k - 1]]
    <3>1. k - 1 \in 0 .. m /\ k - 1 # m
      OBVIOUS
    <3>2. g[k - 1] = f[k - 1]
      BY <3>1
    <3>3. CASE k = m
      BY <3>2, <3>3
    <3>4. CASE k # m
      <4>1. k \in 1 .. m - 1
        BY <3>4
      <4>2. f[k] = step[k][f[k - 1]]
        BY <2>1, <4>1
      <4> QED BY <3>2, <3>4, <4>2
    <3> QED BY <3>3, <3>4
  <2>6. UpTo(m, g)
    BY <2>3, <2>4, <2>5
  <2> HIDE DEF g, UpTo
  <2> QED BY <2>6
<1>3. n \in Good
  <2> HIDE DEF Good
  <2>1. \A m \in 1 .. n : m - 1 \in Good => m \in Good
    BY <1>2
  <2>2. 0 .. n \subseteq Good
    BY <1>1, <2>1, StepByStep
  <2> QED BY <2>2
<1> QED BY <1>3 DEF Follows

-----------------------------------------------------------------------------
(* Selected: the elements at some places, in their order.                   *)

\* at tells the place in s of each element of the list r, which was taken from the
\* first n.
TakenFrom(r, s, n, Places, at) ==
  /\ at \in [1 .. Len(r) -> Places \cap (1 .. n)]
  /\ \A k \in 1 .. Len(r) : r[k] = s[at[k]]
  /\ \A j, k \in 1 .. Len(r) : j < k => at[j] < at[k]
  /\ \A i \in Places \cap (1 .. n) : \E k \in 1 .. Len(r) : at[k] = i

LEMMA TakeOne ==
  ASSUME NEW S, NEW s \in Seq(S), NEW Places, NEW n \in 1 .. Len(s), NEW r \in Seq(S), NEW at,
         TakenFrom(r, s, n - 1, Places, at)
  PROVE  /\ n \notin Places => TakenFrom(r, s, n, Places, at)
         /\ n \in Places =>
              \E to : TakenFrom(Append(r, s[n]), s, n, Places, to)
<1>1. Len(r) \in Nat /\ n \in Nat /\ n - 1 \in Nat
  OBVIOUS
<1>2. 1 .. n = (1 .. n - 1) \cup {n}
  BY <1>1
<1>3. CASE n \notin Places
  <2>1. Places \cap (1 .. n) = Places \cap (1 .. n - 1)
    BY <1>2, <1>3
  <2> QED BY <1>3, <2>1 DEF TakenFrom
<1>4. CASE n \in Places
  <2> DEFINE q == Append(r, s[n])
             to == [k \in 1 .. Len(r) + 1 |-> IF k = Len(r) + 1 THEN n ELSE at[k]]
  <2>1. s[n] \in S
    OBVIOUS
  <2>2. /\ q \in Seq(S) /\ Len(q) = Len(r) + 1
        /\ \A k \in 1 .. Len(r) + 1 : q[k] = IF k = Len(r) + 1 THEN s[n] ELSE r[k]
    BY <2>1
  <2>3. \A k \in 1 .. Len(r) : at[k] \in Places /\ at[k] \in 1 .. n - 1 /\ at[k] \in 1 .. n
    BY <1>2 DEF TakenFrom
  <2>4. to \in [1 .. Len(q) -> Places \cap (1 .. n)]
    <3>1. n \in 1 .. n
      BY <1>1
    <3>2. \A k \in 1 .. Len(r) + 1 : k # Len(r) + 1 => k \in 1 .. Len(r)
      BY <1>1
    <3> QED BY <1>4, <2>2, <2>3, <3>1, <3>2
  <2>5. ASSUME NEW k \in 1 .. Len(q) PROVE q[k] = s[to[k]]
    <3>1. k # Len(r) + 1 => k \in 1 .. Len(r)
      BY <1>1, <2>2
    <3> QED BY <2>2, <3>1 DEF TakenFrom
  <2>6. ASSUME NEW j \in 1 .. Len(q), NEW k \in 1 .. Len(q), j < k PROVE to[j] < to[k]
    <3>1. j \in 1 .. Len(r) /\ (k # Len(r) + 1 => k \in 1 .. Len(r))
      BY <1>1, <2>2, <2>6
    <3>2. CASE k = Len(r) + 1
      <4>1. to[j] = at[j] /\ to[k] = n /\ at[j] \in 1 .. n - 1
        BY <1>1, <2>2, <2>3, <3>1, <3>2
      <4> QED BY <1>1, <4>1
    <3>3. CASE k # Len(r) + 1
      <4>1. to[j] = at[j] /\ to[k] = at[k] /\ at[j] < at[k]
        BY <1>1, <2>2, <2>6, <3>1, <3>3 DEF TakenFrom
      <4> QED BY <4>1
    <3> QED BY <3>2, <3>3
  <2>7. ASSUME NEW i \in Places \cap (1 .. n) PROVE \E k \in 1 .. Len(q) : to[k] = i
    <3>1. CASE i = n
      <4>1. Len(r) + 1 \in 1 .. Len(q) /\ to[Len(r) + 1] = n
        BY <1>1, <2>2
      <4> QED BY <3>1, <4>1
    <3>2. CASE i # n
      <4>1. PICK k \in 1 .. Len(r) : at[k] = i
        BY <1>2, <3>2 DEF TakenFrom
      <4>2. k \in 1 .. Len(q) /\ to[k] = i
        BY <1>1, <2>2, <4>1
      <4> QED BY <4>2
    <3> QED BY <3>1, <3>2
  <2>8. TakenFrom(q, s, n, Places, to)
    BY <2>4, <2>5, <2>6, <2>7 DEF TakenFrom
  <2> HIDE DEF to
  <2> QED BY <1>4, <2>8
<1> QED BY <1>3, <1>4

\* The list that is selected has what is at the places, once each, in their order.
LEMMA SelectedIs ==
  ASSUME NEW S, NEW s \in Seq(S), NEW Places
  PROVE  /\ Selected(s, Places) \in Seq(S)
         /\ \E at : TakenFrom(Selected(s, Places), s, Len(s), Places, at)
<1>0. Len(s) \in Nat /\ <<>> \in Seq(S)
  OBVIOUS
<1> DEFINE N == Len(s)
           step == [k \in 1 .. N |-> [r \in Seq(S) |-> IF k \in Places THEN Append(r, s[k]) ELSE r]]
           Takes(h) == h = [n \in 0 .. Len(s) |->
                              IF n = 0 THEN <<>>
                              ELSE IF n \in Places THEN Append(h[n - 1], s[n]) ELSE h[n - 1]]
           taken == CHOOSE h : Takes(h)
<1>1. \E h : Takes(h)
  <2>1. step \in [1 .. N -> [Seq(S) -> Seq(S)]]
    <3>1. \A k \in 1 .. N : s[k] \in S
      OBVIOUS
    <3>2. \A k \in 1 .. N, r \in Seq(S) : Append(r, s[k]) \in Seq(S)
      BY <3>1
    <3> QED BY <3>2
  <2>2. PICK f \in [0 .. N -> Seq(S)] : f[0] = <<>> /\ \A k \in 1 .. N : f[k] = step[k][f[k - 1]]
    <3> DEFINE A == Seq(S)
    <3>1. N \in Nat /\ <<>> \in A /\ step \in [1 .. N -> [A -> A]]
      BY <1>0, <2>1
    <3> HIDE DEF step, N, A
    <3>2. \E f \in [0 .. N -> A] : Follows(f, N, <<>>, step)
      BY <3>1, RecursionExists
    <3> QED BY <3>2 DEF A, Follows
  <2>3. \A k \in 1 .. N : k - 1 \in 0 .. N /\ f[k - 1] \in Seq(S)
    BY <1>0
  <2>4. \A k \in 1 .. N : f[k] = IF k \in Places THEN Append(f[k - 1], s[k]) ELSE f[k - 1]
    BY <2>2, <2>3
  <2>5. \A k \in 0 .. N : k = 0 \/ k \in 1 .. N
    BY <1>0
  <2>6. f = [n \in 0 .. N |-> f[n]]
    OBVIOUS
  <2>7. \A n \in 0 .. N : f[n] = IF n = 0 THEN <<>>
                                 ELSE IF n \in Places THEN Append(f[n - 1], s[n]) ELSE f[n - 1]
    BY <2>2, <2>4, <2>5
  <2>8. Takes(f)
    BY <2>6, <2>7
  <2> QED BY <2>8
<1>2. Takes(taken)
  BY <1>1
<1>3. Selected(s, Places) = taken[N]
  BY DEF Selected
<1> HIDE DEF taken
<1>4. /\ taken[0] = <<>>
      /\ \A k \in 1 .. N : taken[k] = IF k \in Places THEN Append(taken[k - 1], s[k]) ELSE taken[k - 1]
  <2>1. \A n \in 0 .. N : taken[n] = IF n = 0 THEN <<>>
                                 ELSE IF n \in Places THEN Append(taken[n - 1], s[n]) ELSE taken[n - 1]
    BY <1>2
  <2>2. 0 \in 0 .. N /\ \A k \in 1 .. N : k \in 0 .. N /\ k # 0
    BY <1>0
  <2> QED BY <2>1, <2>2
<1> DEFINE Good == {n \in 0 .. N : taken[n] \in Seq(S) /\ \E at : TakenFrom(taken[n], s, n, Places, at)}
<1>5. 0 \in Good
  <2>1. TakenFrom(<<>>, s, 0, Places, [k \in 1 .. 0 |-> 0])
    BY DEF TakenFrom
  <2>2. taken[0] \in Seq(S) /\ 0 \in 0 .. N
    BY <1>0, <1>4
  <2>3. \E at : TakenFrom(taken[0], s, 0, Places, at)
    BY <1>4, <2>1, Zenon
  <2> QED BY <2>2, <2>3
<1>6. ASSUME NEW n \in 1 .. N, n - 1 \in Good PROVE n \in Good
  <2>1. PICK at : TakenFrom(taken[n - 1], s, n - 1, Places, at)
    BY <1>6
  <2>2. taken[n - 1] \in Seq(S) /\ s[n] \in S /\ n \in 0 .. N
    BY <1>6
  <2>3. CASE n \notin Places
    <3>1. TakenFrom(taken[n - 1], s, n, Places, at)
      BY <2>1, <2>2, <2>3, TakeOne
    <3> QED BY <1>4, <2>2, <2>3, <3>1
  <2>4. CASE n \in Places
    <3>1. PICK to : TakenFrom(Append(taken[n - 1], s[n]), s, n, Places, to)
      BY <2>1, <2>2, <2>4, TakeOne
    <3>2. Append(taken[n - 1], s[n]) \in Seq(S)
      BY <2>2
    <3> QED BY <1>4, <2>2, <2>4, <3>1, <3>2
  <2> QED BY <2>3, <2>4
<1>7. N \in Good
  <2> HIDE DEF Good, N
  <2>1. \A n \in 1 .. N : n - 1 \in Good => n \in Good
    BY <1>6
  <2>2. N \in Nat
    BY <1>0 DEF N
  <2>3. 0 .. N \subseteq Good
    BY <1>5, <2>1, <2>2, StepByStep
  <2> QED BY <2>2, <2>3
<1> QED BY <1>3, <1>7

\* The places of the entries that pass are all that Filtered keeps.
LEMMA SelectedSet ==
  ASSUME NEW S, NEW s \in Seq(S), NEW T, T \subseteq DOMAIN s
  PROVE  /\ Selected(s, T) \in Seq(S)
         /\ ToSet(Selected(s, T)) = {s[i] : i \in T}
<1>1. /\ Selected(s, T) \in Seq(S)
      /\ \E at : TakenFrom(Selected(s, T), s, Len(s), T, at)
  BY SelectedIs
<1> DEFINE r == Selected(s, T)
<1> HIDE DEF r
<1>2. PICK at : TakenFrom(r, s, Len(s), T, at)
  BY <1>1 DEF r
<1>3. r \in Seq(S)
  BY <1>1 DEF r
<1>4. /\ \A i \in DOMAIN r : \E k \in T : r[i] = s[k]
      /\ \A k \in T : \E i \in DOMAIN r : r[i] = s[k]
  <2>1. DOMAIN r = 1 .. Len(r) /\ DOMAIN s = 1 .. Len(s)
    BY <1>3
  <2>2. \A i \in 1 .. Len(r) : at[i] \in T /\ r[i] = s[at[i]]
    BY <1>2 DEF TakenFrom
  <2>3. \A k \in T : \E i \in 1 .. Len(r) : at[i] = k
    BY <1>2, <2>1 DEF TakenFrom
  <2> QED BY <2>1, <2>2, <2>3
<1>5. ToSet(r) = {s[i] : i \in T}
  BY <1>4 DEF ToSet
<1> QED BY <1>3, <1>5 DEF r

\* The places themselves, in a list.
LEMMA PlacesSelected ==
  ASSUME NEW d \in Nat, NEW P
  PROVE  LET r == Selected([i \in 1 .. d |-> i], P)
         IN /\ r \in Seq(1 .. d)
            /\ \A k \in 1 .. Len(r) : r[k] \in P /\ r[k] \in 1 .. d
            /\ \A j, k \in 1 .. Len(r) : j < k => r[j] < r[k]
            /\ \A i \in 1 .. d : i \in P => \E k \in 1 .. Len(r) : r[k] = i
<1> DEFINE s == [i \in 1 .. d |-> i]
           r == Selected(s, P)
<1>1. s \in Seq(1 .. d) /\ Len(s) = d /\ \A i \in 1 .. d : s[i] = i
  OBVIOUS
<1> HIDE DEF s, r
<1>2. r \in Seq(1 .. d) /\ \E at : TakenFrom(r, s, d, P, at)
  BY <1>1, SelectedIs DEF r
<1>3. PICK at : TakenFrom(r, s, d, P, at)
  BY <1>2
<1>4. \A k \in 1 .. Len(r) : at[k] \in P /\ at[k] \in 1 .. d /\ r[k] = at[k]
  BY <1>1, <1>3 DEF TakenFrom
<1>5. \A i \in 1 .. d : i \in P => \E k \in 1 .. Len(r) : at[k] = i
  BY <1>3 DEF TakenFrom
<1>6. \A j, k \in 1 .. Len(r) : j < k => at[j] < at[k]
  BY <1>3 DEF TakenFrom
<1>7. /\ r \in Seq(1 .. d)
      /\ \A k \in 1 .. Len(r) : r[k] \in P /\ r[k] \in 1 .. d
      /\ \A j, k \in 1 .. Len(r) : j < k => r[j] < r[k]
      /\ \A i \in 1 .. d : i \in P => \E k \in 1 .. Len(r) : r[k] = i
  BY <1>2, <1>4, <1>5, <1>6
<1> QED BY <1>7 DEF r, s

\* Two lists of numbers that increase and have the same members are one.
Rises(s) == \A j, k \in 1 .. Len(s) : j < k => s[j] < s[k]

Covers(r, q) == \A k \in 1 .. Len(q) : \E j \in 1 .. Len(r) : r[j] = q[k]

LEMMA FirstDifference ==
  ASSUME NEW r \in Seq(Nat), NEW q \in Seq(Nat), Rises(r), Rises(q), Covers(q, r),
         NEW k \in 1 .. Len(r), k \in 1 .. Len(q), r[k] < q[k],
         \A m \in 1 .. k - 1 : r[m] = q[m]
  PROVE  FALSE
<1>1. PICK j \in 1 .. Len(q) : q[j] = r[k]
  BY DEF Covers
<1>2. /\ Len(r) \in Nat /\ Len(q) \in Nat /\ k \in Nat /\ j \in Nat
      /\ r[k] \in Nat /\ q[k] \in Nat /\ q[j] \in Nat
  BY ElementOfSeq
<1>3. j < k
  <2> SUFFICES ASSUME ~(j < k) PROVE FALSE
    OBVIOUS
  <2>1. j = k \/ k < j
    BY <1>2
  <2>2. k < j => q[k] < q[j]
    BY DEF Rises
  <2> QED BY <1>1, <1>2, <2>1, <2>2
<1>4. j \in 1 .. k - 1 /\ j \in 1 .. Len(r)
  BY <1>2, <1>3
<1>5. r[j] < r[k]
  BY <1>3, <1>4 DEF Rises
<1>6. r[j] = q[j]
  BY <1>4
<1> QED BY <1>1, <1>2, <1>5, <1>6

LEMMA NotShorter ==
  ASSUME NEW r \in Seq(Nat), NEW q \in Seq(Nat), Rises(q), Covers(r, q),
         \A k \in 1 .. Len(r) : k \in 1 .. Len(q) => r[k] = q[k]
  PROVE  ~(Len(r) < Len(q))
<1> SUFFICES ASSUME Len(r) < Len(q) PROVE FALSE
  OBVIOUS
<1>1. Len(r) \in Nat /\ Len(q) \in Nat /\ Len(q) \in 1 .. Len(q)
  BY LenProperties
<1>2. PICK j \in 1 .. Len(r) : r[j] = q[Len(q)]
  BY <1>1 DEF Covers
<1>3. j \in 1 .. Len(q) /\ j < Len(q)
  BY ONLY <1>1, <1>2, Len(r) < Len(q), j \in 1 .. Len(r)
<1>4. q[j] < q[Len(q)] /\ q[j] = q[Len(q)]
  BY <1>1, <1>2, <1>3 DEF Rises
<1>5. q[j] \in Nat
  BY <1>3, ElementOfSeq
<1> QED BY ONLY <1>4, <1>5

LEMMA IncreasingListsAreEqual ==
  ASSUME NEW r \in Seq(Nat), NEW q \in Seq(Nat), Rises(r), Rises(q), Covers(r, q), Covers(q, r)
  PROVE  r = q
<1> DEFINE Bad == {k \in 1 .. Len(r) : k \in 1 .. Len(q) /\ r[k] # q[k]}
<1>1. Bad = {}
  <2> SUFFICES ASSUME Bad # {} PROVE FALSE
    OBVIOUS
  <2>1. PICK k \in Bad : \A m \in Bad : k <= m
    <3>1. Bad \subseteq Nat
      OBVIOUS
    <3> HIDE DEF Bad
    <3> QED BY <3>1, LeastOf
  <2>2. k \in 1 .. Len(r) /\ k \in 1 .. Len(q) /\ r[k] # q[k]
    BY <2>1
  <2>3. \A m \in 1 .. k - 1 : r[m] = q[m] /\ q[m] = r[m]
    <3> SUFFICES ASSUME NEW m \in 1 .. k - 1, r[m] # q[m] PROVE FALSE
      OBVIOUS
    <3>1. Len(r) \in Nat /\ Len(q) \in Nat
      BY LenProperties
    <3>2. m \in 1 .. Len(r) /\ m \in 1 .. Len(q) /\ ~(k <= m)
      BY <2>2, <3>1
    <3>3. m \in Bad
      BY <3>2
    <3> QED BY <2>1, <3>2, <3>3
  <2>4. r[k] \in Nat /\ q[k] \in Nat
    BY <2>2, ElementOfSeq
  <2>5. r[k] < q[k] \/ q[k] < r[k]
    BY ONLY <2>2, <2>4
  <2> HIDE DEF Bad
  <2>6. ~(r[k] < q[k])
    BY <2>2, <2>3, FirstDifference
  <2>7. ~(q[k] < r[k])
    BY <2>2, <2>3, FirstDifference
  <2> QED BY <2>5, <2>6, <2>7
<1>2. \A k \in 1 .. Len(r) : k \in 1 .. Len(q) => r[k] = q[k]
  BY <1>1
<1>3. \A k \in 1 .. Len(q) : k \in 1 .. Len(r) => q[k] = r[k]
  BY <1>1
<1>4. ~(Len(r) < Len(q))
  BY <1>2, NotShorter
<1>5. ~(Len(q) < Len(r))
  BY <1>3, NotShorter
<1>6. Len(r) = Len(q)
  <2>1. Len(r) \in Nat /\ Len(q) \in Nat
    BY LenProperties
  <2> QED BY ONLY <1>4, <1>5, <2>1
<1> HIDE DEF Bad
<1>7. \A k \in 1 .. Len(r) : r[k] = q[k]
  BY <1>2, <1>6
<1> QED BY <1>6, <1>7, SeqEqual

-----------------------------------------------------------------------------
(* FlattenSeq: the lists of a list, one behind the other.                   *)

\* Element n of r is element nth[n] of list of[n]; r has the first m lists.
FlatFrom(r, ss, m, of, nth) ==
  /\ of \in [1 .. Len(r) -> 1 .. m] /\ nth \in [1 .. Len(r) -> Nat]
  /\ \A n \in 1 .. Len(r) : nth[n] \in 1 .. Len(ss[of[n]]) /\ r[n] = ss[of[n]][nth[n]]
  /\ \A j, k \in 1 .. Len(r) :
       j < k => of[j] < of[k] \/ (of[j] = of[k] /\ nth[j] < nth[k])
  /\ \A g \in 1 .. m : \A k \in 1 .. Len(ss[g]) :
       \E n \in 1 .. Len(r) : of[n] = g /\ nth[n] = k

LEMMA TakeList ==
  ASSUME NEW S, NEW ss \in Seq(Seq(S)), NEW m \in 1 .. Len(ss), NEW r \in Seq(S), NEW of, NEW nth,
         FlatFrom(r, ss, m - 1, of, nth)
  PROVE  \E of2, nth2 : FlatFrom(r \o ss[m], ss, m, of2, nth2)
<1>0. ss[m] \in Seq(S)
  OBVIOUS
<1>1. Len(r) \in Nat /\ Len(ss[m]) \in Nat /\ m \in Nat /\ m - 1 \in Nat
  BY <1>0
<1> DEFINE q == r \o ss[m]
           of2 == [n \in 1 .. Len(r) + Len(ss[m]) |-> IF n <= Len(r) THEN of[n] ELSE m]
           nth2 == [n \in 1 .. Len(r) + Len(ss[m]) |-> IF n <= Len(r) THEN nth[n] ELSE n - Len(r)]
<1>2. /\ Len(q) = Len(r) + Len(ss[m])
      /\ \A n \in 1 .. Len(r) + Len(ss[m]) :
           q[n] = IF n <= Len(r) THEN r[n] ELSE ss[m][n - Len(r)]
  BY <1>0, ConcatProperties
<1>3. \A n \in 1 .. Len(r) + Len(ss[m]) :
        /\ n <= Len(r) => n \in 1 .. Len(r) /\ of2[n] = of[n] /\ nth2[n] = nth[n]
        /\ ~(n <= Len(r)) => /\ n - Len(r) \in 1 .. Len(ss[m])
                             /\ of2[n] = m /\ nth2[n] = n - Len(r)
  BY <1>1
<1>4. \A n \in 1 .. Len(r) : of[n] \in 1 .. m - 1 /\ of[n] \in 1 .. m /\ of[n] < m /\ nth[n] \in Nat
  <2>1. \A g \in 1 .. m - 1 : g \in 1 .. m /\ g < m
    BY <1>1
  <2> QED BY <2>1 DEF FlatFrom
<1>5. of2 \in [1 .. Len(q) -> 1 .. m] /\ nth2 \in [1 .. Len(q) -> Nat]
  <2>1. m \in 1 .. m
    BY <1>1
  <2>2. \A n \in 1 .. Len(r) + Len(ss[m]) : of2[n] \in 1 .. m /\ nth2[n] \in Nat
    BY <1>1, <1>3, <1>4, <2>1
  <2> QED BY <1>2, <2>2
<1> HIDE DEF of2, nth2, q
<1>6. ASSUME NEW n \in 1 .. Len(q)
      PROVE  nth2[n] \in 1 .. Len(ss[of2[n]]) /\ q[n] = ss[of2[n]][nth2[n]]
  <2>1. CASE n <= Len(r)
    <3>1. n \in 1 .. Len(r) /\ of2[n] = of[n] /\ nth2[n] = nth[n] /\ q[n] = r[n]
      BY <1>2, <1>3, <2>1
    <3> QED BY <3>1 DEF FlatFrom
  <2>2. CASE ~(n <= Len(r))
    BY <1>2, <1>3, <2>2
  <2> QED BY <2>1, <2>2
<1>7. ASSUME NEW j \in 1 .. Len(q), NEW k \in 1 .. Len(q), j < k
      PROVE  of2[j] < of2[k] \/ (of2[j] = of2[k] /\ nth2[j] < nth2[k])
  <2>1. CASE k <= Len(r)
    <3>1. /\ j \in 1 .. Len(r) /\ of2[j] = of[j] /\ nth2[j] = nth[j]
          /\ k \in 1 .. Len(r) /\ of2[k] = of[k] /\ nth2[k] = nth[k]
      <4>1. j <= Len(r) /\ j \in 1 .. Len(r) + Len(ss[m]) /\ k \in 1 .. Len(r) + Len(ss[m])
        BY <1>1, <1>2, <1>7, <2>1
      <4> QED BY <1>3, <2>1, <4>1
    <3> QED BY <1>7, <3>1 DEF FlatFrom
  <2>2. CASE j <= Len(r) /\ ~(k <= Len(r))
    <3>1. of2[k] = m /\ of2[j] = of[j] /\ j \in 1 .. Len(r)
      BY <1>2, <1>3, <2>2
    <3> QED BY <1>4, <3>1
  <2>3. CASE ~(j <= Len(r)) /\ ~(k <= Len(r))
    <3>1. of2[k] = m /\ of2[j] = m /\ nth2[k] = k - Len(r) /\ nth2[j] = j - Len(r)
      BY <1>2, <1>3, <2>3
    <3>2. j - Len(r) < k - Len(r)
      BY <1>1, <1>2, <1>7
    <3> QED BY <3>1, <3>2
  <2>4. j <= Len(r) \/ ~(k <= Len(r))
    BY <1>1, <1>2, <1>7
  <2> QED BY <2>1, <2>2, <2>3, <2>4
<1>8. ASSUME NEW g \in 1 .. m, NEW k \in 1 .. Len(ss[g])
      PROVE  \E n \in 1 .. Len(q) : of2[n] = g /\ nth2[n] = k
  <2>1. CASE g = m
    <3>1. Len(r) + k \in 1 .. Len(q) /\ ~(Len(r) + k <= Len(r)) /\ Len(r) + k - Len(r) = k
      BY <1>1, <1>2, <2>1
    <3>2. of2[Len(r) + k] = m /\ nth2[Len(r) + k] = k
      BY <1>2, <1>3, <3>1
    <3> QED BY <2>1, <3>1, <3>2
  <2>2. CASE g # m
    <3>1. g \in 1 .. m - 1
      BY <1>1, <2>2
    <3>2. PICK n \in 1 .. Len(r) : of[n] = g /\ nth[n] = k
      BY <3>1 DEF FlatFrom
    <3>3. n \in 1 .. Len(q) /\ n <= Len(r)
      BY <1>1, <1>2
    <3> QED BY <1>2, <1>3, <3>2, <3>3
  <2> QED BY <2>1, <2>2
<1>9. FlatFrom(q, ss, m, of2, nth2)
  BY <1>5, <1>6, <1>7, <1>8 DEF FlatFrom
<1> QED BY <1>9 DEF q

\* The flat list has every element of every list once, in their order.

\* FlattenSeq puts one list behind the other.
JoinedUp(h, ss) ==
  \A i \in 1 .. Len(ss) : h[i] = IF i = 1 THEN ss[i] ELSE h[i - 1] \o ss[i]

LEMMA FlattenUnfolds ==
  ASSUME NEW S, NEW ss \in Seq(Seq(S)), ss # <<>>
  PROVE  \E h : JoinedUp(h, ss) /\ FlattenSeq(ss) = h[Len(ss)]
<1>0. Len(ss) \in Nat /\ Len(ss) # 0 /\ \A k \in 1 .. Len(ss) : ss[k] \in Seq(S)
  BY EmptySeq
<1> DEFINE N == Len(ss)
           A == Seq(S)
           step == [k \in 1 .. N |-> [r \in A |-> r \o ss[k]]]
           Flat(h) == h = [i \in 1 .. N |-> IF i = 1 THEN ss[i] ELSE h[i - 1] \o ss[i]]
           flatten == CHOOSE h : Flat(h)
<1>1. \E h : Flat(h)
  <2>1. step \in [1 .. N -> [A -> A]]
    <3>1. \A k \in 1 .. N, r \in A : r \o ss[k] \in A
      BY <1>0, ConcatProperties
    <3> QED BY <3>1
  <2>2. PICK f \in [0 .. N -> A] : Follows(f, N, <<>>, step)
    <3>1. N \in Nat /\ <<>> \in A
      BY <1>0
    <3> HIDE DEF N, A, step
    <3> QED BY <2>1, <3>1, RecursionExists
  <2>3. \A k \in 1 .. N : k - 1 \in 0 .. N /\ f[k - 1] \in A
    <3>1. N \in Nat
      BY <1>0
    <3> HIDE DEF N, A
    <3>2. \A k \in 1 .. N : k - 1 \in 0 .. N
      BY <3>1
    <3> QED BY <3>2
  <2>4. \A k \in 1 .. N : f[k] = f[k - 1] \o ss[k]
    BY <2>2, <2>3 DEF Follows
  <2>5. 1 \in 1 .. N /\ f[1] = ss[1]
    <3>1. 1 \in 1 .. N /\ f[0] = <<>>
      BY <1>0, <2>2 DEF Follows
    <3>2. f[1] = f[1 - 1] \o ss[1]
      <4> HIDE DEF N
      <4> QED BY <2>4, <3>1
    <3>3. <<>> \o ss[1] = ss[1]
      BY <1>0, <3>1, ConcatEmptySeq
    <3>4. f[1 - 1] = f[0]
      <4>1. 1 - 1 = 0
        OBVIOUS
      <4> QED BY ONLY <4>1
    <3>5. f[1] = <<>> \o ss[1]
      BY ONLY <3>1, <3>2, <3>4
    <3> QED BY ONLY <3>1, <3>3, <3>5
  <2> DEFINE h == [i \in 1 .. N |-> f[i]]
  <2>6. \A i \in 1 .. N : h[i] = IF i = 1 THEN ss[i] ELSE h[i - 1] \o ss[i]
    <3> TAKE i \in 1 .. N
    <3>1. CASE i = 1
      BY <2>5, <3>1
    <3>2. CASE i # 1
      <4>1. i - 1 \in 1 .. N
        BY <1>0, <3>2
      <4> QED BY <2>4, <3>2, <4>1
    <3> QED BY <3>1, <3>2
  <2>7. Flat(h)
    BY <2>6
  <2> QED BY <2>7
<1>2. Flat(flatten)
  BY <1>1
<1>3. FlattenSeq(ss) = flatten[N]
  BY <1>0 DEF FlattenSeq
<1> HIDE DEF flatten
<1>4. JoinedUp(flatten, ss)
  BY <1>2 DEF JoinedUp
<1> QED BY <1>3, <1>4

LEMMA FlattenIs ==
  ASSUME NEW S, NEW ss \in Seq(Seq(S))
  PROVE  /\ FlattenSeq(ss) \in Seq(S)
         /\ \E of, nth : FlatFrom(FlattenSeq(ss), ss, Len(ss), of, nth)
<1>0. Len(ss) \in Nat /\ <<>> \in Seq(S) /\ \A k \in 1 .. Len(ss) : ss[k] \in Seq(S)
  OBVIOUS
<1>1. FlatFrom(<<>>, ss, 0, [k \in 1 .. 0 |-> 0], [k \in 1 .. 0 |-> 0])
  BY DEF FlatFrom
<1>2. CASE Len(ss) = 0
  <2>1. FlattenSeq(ss) = <<>>
    BY <1>2 DEF FlattenSeq
  <2> QED BY <1>0, <1>1, <1>2, <2>1
<1>3. CASE Len(ss) # 0
  <2> DEFINE N == Len(ss)
             A == Seq(S)
  <2>1. ss # <<>>
    BY <1>3
  <2>2. PICK flatten : JoinedUp(flatten, ss) /\ FlattenSeq(ss) = flatten[Len(ss)]
    BY <2>1, FlattenUnfolds
  <2>3. FlattenSeq(ss) = flatten[N]
    BY <2>2
  <2>4. \A i \in 1 .. N : flatten[i] = IF i = 1 THEN ss[i] ELSE flatten[i - 1] \o ss[i]
    BY <2>2 DEF JoinedUp
  <2> DEFINE r(i) == IF i = 0 THEN <<>> ELSE flatten[i]
             Good == {i \in 0 .. N : r(i) \in A /\ \E of, nth : FlatFrom(r(i), ss, i, of, nth)}
  <2>5. 0 \in Good
    <3>1. r(0) = <<>> /\ 0 \in 0 .. N /\ <<>> \in A
      BY <1>0
    <3>2. \E of, nth : FlatFrom(<<>>, ss, 0, of, nth)
      BY <1>1, Zenon
    <3> QED BY <3>1, <3>2
  <2>6. ASSUME NEW i \in 1 .. N, i - 1 \in Good PROVE i \in Good
    <3>1. r(i) = r(i - 1) \o ss[i]
      <4>1. CASE i = 1
        <5>1. <<>> \o ss[1] = ss[1]
          BY <1>0, <1>3, ConcatEmptySeq
        <5> QED BY <2>4, <4>1, <5>1
      <4>2. CASE i # 1
        <5>1. i - 1 # 0 /\ i # 0
          BY <4>2
        <5> QED BY <2>4, <4>2, <5>1
      <4> QED BY <4>1, <4>2
    <3>2. r(i - 1) \in Seq(S) /\ ss[i] \in Seq(S) /\ i \in 0 .. N /\ i \in 1 .. Len(ss)
      BY <1>0, <2>6
    <3>3. PICK of, nth : FlatFrom(r(i - 1), ss, i - 1, of, nth)
      BY <2>6
    <3>4. \E of2, nth2 : FlatFrom(r(i - 1) \o ss[i], ss, i, of2, nth2)
      <4> HIDE DEF r
      <4> QED BY <3>2, <3>3, TakeList
    <3>5. r(i - 1) \o ss[i] \in Seq(S)
      BY <3>2, ConcatProperties
    <3> HIDE DEF r
    <3> QED BY <3>1, <3>2, <3>4, <3>5
  <2>7. N \in Good
    <3> HIDE DEF Good, N
    <3>1. \A k \in 1 .. N : k - 1 \in Good => k \in Good
      BY <2>6
    <3>2. N \in Nat
      BY <1>0 DEF N
    <3>3. 0 .. N \subseteq Good
      BY <2>5, <3>1, <3>2, StepByStep
    <3> QED BY <3>2, <3>3
  <2>8. r(N) = flatten[N]
    BY <1>3
  <2> QED BY <2>3, <2>7, <2>8
<1> QED BY <1>2, <1>3

LEMMA FlattenedSet ==
  ASSUME NEW S, NEW ss \in Seq(Seq(S))
  PROVE  /\ FlattenSeq(ss) \in Seq(S)
         /\ ToSet(FlattenSeq(ss)) = UNION {ToSet(ss[k]) : k \in DOMAIN ss}
<1> DEFINE r == FlattenSeq(ss)
<1>1. r \in Seq(S) /\ \E of, nth : FlatFrom(r, ss, Len(ss), of, nth)
  BY FlattenIs
<1> HIDE DEF r
<1>2. PICK of, nth : FlatFrom(r, ss, Len(ss), of, nth)
  BY <1>1
<1>3. /\ DOMAIN r = 1 .. Len(r) /\ DOMAIN ss = 1 .. Len(ss)
      /\ \A k \in 1 .. Len(ss) : DOMAIN ss[k] = 1 .. Len(ss[k])
  BY <1>1, LenProperties, ElementOfSeq
<1>4. \A n \in 1 .. Len(r) : /\ of[n] \in 1 .. Len(ss)
                             /\ nth[n] \in 1 .. Len(ss[of[n]])
                             /\ r[n] = ss[of[n]][nth[n]]
  BY <1>2 DEF FlatFrom
<1>5. ASSUME NEW x \in ToSet(r) PROVE \E k \in DOMAIN ss : x \in ToSet(ss[k])
  <2>1. PICK n \in 1 .. Len(r) : x = r[n]
    BY <1>3, <1>5 DEF ToSet
  <2> QED BY <1>3, <1>4, <2>1 DEF ToSet
<1>6. ASSUME NEW k \in DOMAIN ss, NEW x \in ToSet(ss[k]) PROVE x \in ToSet(r)
  <2>1. PICK i \in 1 .. Len(ss[k]) : x = ss[k][i]
    BY <1>3, <1>6 DEF ToSet
  <2>2. PICK n \in 1 .. Len(r) : of[n] = k /\ nth[n] = i
    BY <1>2, <1>3, <2>1 DEF FlatFrom
  <2> QED BY <1>3, <1>4, <2>1, <2>2 DEF ToSet
<1>7. ToSet(r) = UNION {ToSet(ss[k]) : k \in DOMAIN ss}
  BY <1>5, <1>6
<1> QED BY <1>1, <1>7 DEF r

\* The first m lists, and where the next one begins behind them.
FirstLists(ss, m) == FlattenSeq([j \in 1 .. m |-> ss[j]])

LEMMA FirstListsStep ==
  ASSUME NEW S, NEW ss \in Seq(Seq(S)), NEW m \in 1 .. Len(ss)
  PROVE  FirstLists(ss, m) = FirstLists(ss, m - 1) \o ss[m]
<1> DEFINE s == [j \in 1 .. m |-> ss[j]]
           r == [j \in 1 .. m - 1 |-> ss[j]]
<1>0. /\ Len(ss) \in Nat /\ m \in Nat /\ m - 1 \in Nat /\ m # 0 /\ m <= Len(ss)
      /\ m \in 1 .. m
  OBVIOUS
<1>1. /\ Len(ss) \in Nat /\ m \in Nat /\ m - 1 \in Nat /\ m # 0 /\ m <= Len(ss)
      /\ \A j \in 1 .. m : j \in 1 .. Len(ss) /\ ss[j] \in Seq(S)
  BY <1>0, ElementOfSeq
<1>2. s \in Seq(Seq(S)) /\ Len(s) = m /\ s # <<>> /\ \A j \in 1 .. m : s[j] = ss[j]
  <2>1. s \in Seq(Seq(S)) /\ Len(s) = m /\ \A j \in 1 .. m : s[j] = ss[j]
    BY <1>1
  <2> HIDE DEF s
  <2> QED BY <1>0, <2>1, EmptySeq
<1>3. r \in Seq(Seq(S)) /\ Len(r) = m - 1 /\ \A j \in 1 .. m - 1 : r[j] = ss[j]
  BY <1>1
<1> HIDE DEF s, r
<1>4. PICK h : JoinedUp(h, s) /\ FlattenSeq(s) = h[m]
  BY <1>2, FlattenUnfolds
<1>5. \A j \in 1 .. m : h[j] = IF j = 1 THEN ss[j] ELSE h[j - 1] \o ss[j]
  BY <1>2, <1>4 DEF JoinedUp
<1>6. CASE m = 1
  <2>1. Len(r) = 0 /\ r = <<>>
    BY <1>3, <1>6, EmptySeq
  <2>2. FlattenSeq(r) = <<>>
    BY <2>1 DEF FlattenSeq
  <2>3. 1 \in 1 .. m /\ h[1] = ss[1] /\ <<>> \o ss[1] = ss[1]
    BY <1>1, <1>5, <1>6, ConcatEmptySeq
  <2> QED BY <1>4, <1>6, <2>2, <2>3 DEF FirstLists, s, r
<1>7. CASE m # 1
  <2>1. r # <<>> /\ m - 1 \in 1 .. m /\ m - 1 # 0
    BY <1>1, <1>3, <1>7, EmptySeq
  <2>2. PICK g : JoinedUp(g, r) /\ FlattenSeq(r) = g[m - 1]
    BY <1>3, <2>1, FlattenUnfolds
  <2>3. \A j \in 1 .. m - 1 : g[j] = IF j = 1 THEN ss[j] ELSE g[j - 1] \o ss[j]
    BY <1>3, <2>2 DEF JoinedUp
  <2> DEFINE Good == {j \in 0 .. m - 1 : j = 0 \/ g[j] = h[j]}
  <2>4. ASSUME NEW j \in 1 .. m - 1, j - 1 \in Good PROVE j \in Good
    <3>1. j \in 1 .. m /\ j \in 0 .. m - 1
      BY <1>1
    <3>2. CASE j = 1
      BY <1>5, <2>3, <3>1, <3>2
    <3>3. CASE j # 1
      <4>1. g[j - 1] = h[j - 1]
        BY <2>4, <3>1, <3>3
      <4>2. g[j] = g[j - 1] \o ss[j] /\ h[j] = h[j - 1] \o ss[j]
        BY <1>5, <2>3, <3>1, <3>3
      <4> QED BY <3>1, <4>1, <4>2
    <3> QED BY <3>2, <3>3
  <2>5. 0 .. m - 1 \subseteq Good
    <3>1. 0 \in Good
      BY <1>1
    <3> HIDE DEF Good
    <3> QED BY <1>1, <2>4, <3>1, StepByStep
  <2>6. g[m - 1] = h[m - 1]
    BY <1>1, <2>1, <2>5
  <2>7. m \in 1 .. m /\ h[m] = h[m - 1] \o ss[m]
    BY <1>0, <1>5, <1>7
  <2> QED BY <1>4, <2>2, <2>6, <2>7 DEF FirstLists, s, r
<1> QED BY <1>6, <1>7

\* Each element of the lists has its place behind the lists before its own.
LEMMA FirstListsAre ==
  ASSUME NEW S, NEW ss \in Seq(Seq(S))
  PROVE  LET End(m) == Len(FirstLists(ss, m))
             all == FirstLists(ss, Len(ss))
         IN /\ End(0) = 0
            /\ \A m \in 0 .. Len(ss) : FirstLists(ss, m) \in Seq(S) /\ End(m) \in Nat
            /\ \A m \in 1 .. Len(ss) : End(m) = End(m - 1) + Len(ss[m])
            /\ \A l, m \in 0 .. Len(ss) : l <= m => End(l) <= End(m)
            /\ \A m \in 1 .. Len(ss) : \A j \in 1 .. Len(ss[m]) :
                 End(m - 1) + j \in 1 .. Len(all) /\ all[End(m - 1) + j] = ss[m][j]
            /\ \A n \in 1 .. Len(all) :
                 \E m \in 1 .. Len(ss) : \E j \in 1 .. Len(ss[m]) : n = End(m - 1) + j
<1> DEFINE N == Len(ss)
           End(m) == Len(FirstLists(ss, m))
           Placed(m) == \A l \in 1 .. m : \A j \in 1 .. Len(ss[l]) :
             /\ End(l - 1) + j \in 1 .. End(m)
             /\ FirstLists(ss, m)[End(l - 1) + j] = ss[l][j]
           Found(m) == \A n \in 1 .. End(m) :
             \E l \in 1 .. m : \E j \in 1 .. Len(ss[l]) : n = End(l - 1) + j
           Good == {m \in 0 .. N : /\ FirstLists(ss, m) \in Seq(S)
                                   /\ \A l \in 0 .. m : End(l) \in Nat /\ End(l) <= End(m)
                                   /\ Placed(m)
                                   /\ Found(m)}
<1>0. N \in Nat /\ \A m \in 1 .. N : ss[m] \in Seq(S) /\ Len(ss[m]) \in Nat
  OBVIOUS
<1>1. FirstLists(ss, 0) = <<>> /\ End(0) = 0
  <2> DEFINE e == [j \in 1 .. 0 |-> ss[j]]
  <2>1. e = <<>> /\ Len(e) = 0
    OBVIOUS
  <2> HIDE DEF e
  <2>2. FlattenSeq(e) = <<>>
    BY <2>1 DEF FlattenSeq
  <2> QED BY <2>2 DEF FirstLists, e
<1>2. 0 \in Good
  <2>1. FirstLists(ss, 0) \in Seq(S) /\ \A l \in 0 .. 0 : l = 0
    <3>1. FirstLists(ss, 0) \in Seq(S)
      BY <1>1, EmptySeq
    <3> QED BY <3>1
  <2>2. 1 .. 0 = {}
    OBVIOUS
  <2> QED BY <1>0, <1>1, <2>1, <2>2
<1>3. ASSUME NEW m \in 1 .. N, m - 1 \in Good PROVE m \in Good
  <2> DEFINE r == FirstLists(ss, m - 1)
             q == FirstLists(ss, m)
  <2>1. /\ r \in Seq(S) /\ m - 1 \in 0 .. N /\ Len(r) \in Nat
        /\ \A l \in 0 .. m - 1 : End(l) \in Nat /\ End(l) <= Len(r)
        /\ Placed(m - 1) /\ Found(m - 1)
    BY <1>3
  <2>2. q = r \o ss[m] /\ ss[m] \in Seq(S) /\ Len(ss[m]) \in Nat
    BY <1>0, FirstListsStep
  <2>3. /\ q \in Seq(S)
        /\ Len(q) = Len(r) + Len(ss[m])
        /\ \A n \in 1 .. Len(r) + Len(ss[m]) :
             q[n] = IF n <= Len(r) THEN r[n] ELSE ss[m][n - Len(r)]
    <3> HIDE DEF r, q
    <3> QED BY <2>1, <2>2, ConcatProperties
  <2>4. End(m - 1) = Len(r) /\ End(m) = Len(q)
    OBVIOUS
  <2>5. m \in Nat /\ m - 1 \in Nat /\ \A l \in 0 .. m : l = m \/ l \in 0 .. m - 1
    BY <1>0
  <2>6. \A l \in 1 .. m : l = m \/ l \in 1 .. m - 1
    BY <1>0
  <2>7. \A l \in 0 .. m : End(l) \in Nat /\ End(l) <= End(m)
    <3> HIDE DEF r, q, End
    <3> QED BY <2>1, <2>2, <2>3, <2>4, <2>5
  <2>8. Placed(m)
    <3> SUFFICES ASSUME NEW l \in 1 .. m, NEW j \in 1 .. Len(ss[l])
                 PROVE  End(l - 1) + j \in 1 .. Len(q) /\ q[End(l - 1) + j] = ss[l][j]
      BY <2>4
    <3>1. CASE l = m
      <4>1. j \in Nat /\ j \in 1 .. Len(ss[m]) /\ End(l - 1) = Len(r)
        BY <2>2, <3>1
      <4> HIDE DEF r, q, End
      <4>2. Len(r) + j \in 1 .. Len(r) + Len(ss[m]) /\ ~(Len(r) + j <= Len(r))
            /\ (Len(r) + j) - Len(r) = j
        BY <2>1, <2>2, <4>1
      <4>3. q[Len(r) + j] = ss[m][(Len(r) + j) - Len(r)]
        BY <2>3, <4>2
      <4> QED BY <2>3, <3>1, <4>1, <4>2, <4>3
    <3>2. CASE l \in 1 .. m - 1
      <4>1. End(l - 1) + j \in 1 .. Len(r) /\ r[End(l - 1) + j] = ss[l][j]
        BY <2>1, <2>4, <3>2
      <4> HIDE DEF r, q, End
      <4> QED BY <2>1, <2>2, <2>3, <4>1
    <3> QED BY <2>6, <3>1, <3>2
  <2>9. Found(m)
    <3> SUFFICES ASSUME NEW n \in 1 .. Len(q)
                 PROVE  \E l \in 1 .. m : \E j \in 1 .. Len(ss[l]) : n = End(l - 1) + j
      BY <2>4
    <3>1. CASE n <= Len(r)
      <4>1. n \in 1 .. Len(r)
        <5> HIDE DEF r, q
        <5> QED BY <2>1, <3>1
      <4>2. PICK l \in 1 .. m - 1 : \E j \in 1 .. Len(ss[l]) : n = End(l - 1) + j
        BY <2>1, <2>4, <4>1
      <4>3. l \in 1 .. m
        BY <2>5
      <4> QED BY <4>2, <4>3
    <3>2. CASE ~(n <= Len(r))
      <4>1. n - Len(r) \in 1 .. Len(ss[m]) /\ n = Len(r) + (n - Len(r))
        <5> HIDE DEF r, q
        <5> QED BY <2>1, <2>2, <2>3, <3>2
      <4>2. m \in 1 .. m
        BY <1>0
      <4>3. n = End(m - 1) + (n - Len(r))
        BY <2>4, <4>1
      <4> HIDE DEF r, q, End
      <4> QED BY <4>1, <4>2, <4>3
    <3> QED BY <3>1, <3>2
  <2>10. m \in 0 .. N
    BY <1>0
  <2> HIDE DEF Placed, Found, End, N
  <2> QED BY <2>3, <2>7, <2>8, <2>9, <2>10
<1>4. 0 .. N \subseteq Good
  <2> HIDE DEF Good, N
  <2> QED BY <1>0, <1>2, <1>3, StepByStep
<1>5. \A m \in 0 .. N : FirstLists(ss, m) \in Seq(S) /\ End(m) \in Nat
  BY <1>4
<1>6. \A m \in 1 .. N : End(m) = End(m - 1) + Len(ss[m])
  <2> TAKE m \in 1 .. N
  <2>1. FirstLists(ss, m - 1) \in Seq(S) /\ ss[m] \in Seq(S)
    BY <1>0, <1>5
  <2>2. FirstLists(ss, m) = FirstLists(ss, m - 1) \o ss[m]
    BY FirstListsStep
  <2> QED BY <2>1, <2>2, ConcatProperties
<1>7. \A l, m \in 0 .. N : l <= m => End(l) <= End(m)
  <2> SUFFICES ASSUME NEW l \in 0 .. N, NEW m \in 0 .. N, l <= m PROVE End(l) <= End(m)
    OBVIOUS
  <2>1. m \in Good /\ l \in 0 .. m
    <3> HIDE DEF Good, N
    <3> QED BY <1>0, <1>4
  <2> QED BY <2>1
<1>8. N \in Good
  <2> HIDE DEF Good, N
  <2> QED BY <1>0, <1>4
<1>9. Placed(N) /\ Found(N)
  BY <1>8
<1> HIDE DEF Good
<1> QED BY <1>1, <1>5, <1>6, <1>7, <1>9

-----------------------------------------------------------------------------
(* Sums.                                                                    *)

\* A sum grows by each entry.
LEMMA SumsAre ==
  ASSUME NEW s \in Seq(Int)
  PROVE  /\ SumOfFirst(s, 0) = 0
         /\ \A n \in 0 .. Len(s) : SumOfFirst(s, n) \in Int
         /\ \A n \in 1 .. Len(s) : SumOfFirst(s, n) = SumOfFirst(s, n - 1) + s[n]
<1> DEFINE N == Len(s)
           step == [k \in 1 .. N |-> [r \in Int |-> r + s[k]]]
           Sums(h) == h = [k \in 0 .. Len(s) |-> IF k = 0 THEN 0 ELSE h[k - 1] + s[k]]
           sum == CHOOSE h : Sums(h)
<1>0. N \in Nat /\ \A k \in 1 .. N : s[k] \in Int
  OBVIOUS
<1>1. \E h \in [0 .. N -> Int] : Sums(h)
  <2>1. step \in [1 .. N -> [Int -> Int]]
    BY <1>0
  <2>2. PICK f \in [0 .. N -> Int] : f[0] = 0 /\ \A k \in 1 .. N : f[k] = step[k][f[k - 1]]
    <3> DEFINE A == Int
    <3>1. N \in Nat /\ 0 \in A /\ step \in [1 .. N -> [A -> A]]
      BY <1>0, <2>1
    <3> HIDE DEF step, N, A
    <3>2. \E f \in [0 .. N -> A] : Follows(f, N, 0, step)
      BY <3>1, RecursionExists
    <3> QED BY <3>2 DEF A, Follows
  <2>3. \A k \in 1 .. N : k - 1 \in 0 .. N /\ f[k - 1] \in Int
    BY <1>0
  <2>4. \A k \in 1 .. N : f[k] = f[k - 1] + s[k]
    BY <2>2, <2>3
  <2>5. \A k \in 0 .. N : k = 0 \/ k \in 1 .. N
    BY <1>0
  <2>6. f = [k \in 0 .. N |-> f[k]]
    OBVIOUS
  <2>7. \A k \in 0 .. N : f[k] = IF k = 0 THEN 0 ELSE f[k - 1] + s[k]
    BY <2>2, <2>4, <2>5
  <2>8. Sums(f)
    BY <2>6, <2>7
  <2> QED BY <2>8
<1>2. Sums(sum)
  BY <1>1
<1>3. \A n : SumOfFirst(s, n) = sum[n]
  BY DEF SumOfFirst
<1> HIDE DEF sum
<1>4. \A k \in 0 .. N : sum[k] = IF k = 0 THEN 0 ELSE sum[k - 1] + s[k]
  BY <1>2
<1>5. sum[0] = 0 /\ \A k \in 1 .. N : sum[k] = sum[k - 1] + s[k]
  <2>1. 0 \in 0 .. N /\ \A k \in 1 .. N : k \in 0 .. N /\ k # 0
    BY <1>0
  <2> QED BY <1>4, <2>1
<1> DEFINE Good == {n \in 0 .. N : sum[n] \in Int}
<1>6. 0 \in Good
  BY <1>0, <1>5
<1>7. \A n \in 1 .. N : n - 1 \in Good => n \in Good
  BY <1>0, <1>5
<1>8. 0 .. N \subseteq Good
  <2> HIDE DEF Good, N
  <2> QED BY <1>0, <1>6, <1>7, StepByStep
<1> QED BY <1>3, <1>5, <1>8

\* A sum of what is not negative does not fall.
LEMMA SumsGrow ==
  ASSUME NEW s \in Seq(Int), \A k \in 1 .. Len(s) : s[k] >= 0
  PROVE  \A m, n \in 0 .. Len(s) : m <= n => SumOfFirst(s, m) <= SumOfFirst(s, n)
<1> DEFINE N == Len(s)
           Sum(n) == SumOfFirst(s, n)
<1>0. N \in Nat /\ \A k \in 1 .. N : s[k] \in Int /\ s[k] >= 0
  OBVIOUS
<1>1. /\ \A n \in 0 .. N : Sum(n) \in Int
      /\ \A n \in 1 .. N : Sum(n) = Sum(n - 1) + s[n]
  BY SumsAre
<1> HIDE DEF Sum, N
<1> SUFFICES ASSUME NEW m \in 0 .. N PROVE \A n \in 0 .. N : m <= n => Sum(m) <= Sum(n)
  BY DEF Sum, N
<1> DEFINE Good == {n \in 0 .. N : m <= n => Sum(m) <= Sum(n)}
<1>2. 0 \in Good
  <2>1. m <= 0 => m = 0
    OBVIOUS
  <2>2. 0 \in 0 .. N /\ Sum(0) \in Int
    BY <1>0, <1>1
  <2> QED BY <2>1, <2>2
<1>3. ASSUME NEW n \in 1 .. N, n - 1 \in Good PROVE n \in Good
  <2>1. n \in 0 .. N /\ n - 1 \in 0 .. N
    BY <1>0
  <2>2. /\ Sum(n) \in Int /\ Sum(n - 1) \in Int /\ Sum(m) \in Int
        /\ Sum(n) = Sum(n - 1) + s[n] /\ s[n] \in Int /\ s[n] >= 0
    BY <1>0, <1>1, <2>1
  <2>3. CASE m <= n - 1
    <3>1. Sum(m) <= Sum(n - 1)
      BY <1>3, <2>3
    <3> QED BY <2>1, <2>2, <3>1
  <2>4. CASE ~(m <= n - 1)
    <3>1. m <= n => m = n
      BY <2>4
    <3> QED BY <2>1, <2>2, <3>1
  <2> QED BY <2>3, <2>4
<1>4. 0 .. N \subseteq Good
  <2> HIDE DEF Good
  <2> QED BY <1>0, <1>2, <1>3, StepByStep
<1> QED BY <1>4

-----------------------------------------------------------------------------
(* Lists put in order: the place of an element is the number of those that  *)
(* come before it.                                                          *)

\* R is a total order of 1 .. n, and rank counts what comes before.
RankedBy(n, R, rank) ==
  /\ \A i \in 1 .. n : <<i, i>> \notin R
  /\ \A i, j \in 1 .. n : i # j => <<i, j>> \in R \/ <<j, i>> \in R
  /\ \A i, j, k \in 1 .. n : <<i, j>> \in R /\ <<j, k>> \in R => <<i, k>> \in R
  /\ \A i \in 1 .. n : rank[i] = 1 + Cardinality({m \in 1 .. n : <<m, i>> \in R})

\* Each place is taken once, and in the order R.
InOrder(n, R, rank) ==
  /\ \A i \in 1 .. n : rank[i] \in 1 .. n
  /\ \A i, j \in 1 .. n : <<i, j>> \in R => rank[i] < rank[j]
  /\ \A i, j \in 1 .. n : rank[i] = rank[j] => i = j
  /\ \A r \in 1 .. n : \E i \in 1 .. n : rank[i] = r

LEMMA RanksAreAnOrder ==
  ASSUME NEW n \in Nat, NEW R, NEW rank, RankedBy(n, R, rank)
  PROVE  InOrder(n, R, rank)
<1> USE DEF RankedBy
<1> DEFINE Below(i) == {m \in 1 .. n : <<m, i>> \in R}
<1>1. IsFiniteSet(1 .. n) /\ Cardinality(1 .. n) = n
  BY FS_Interval
<1>2. ASSUME NEW i \in 1 .. n
      PROVE  /\ IsFiniteSet(Below(i)) /\ Cardinality(Below(i)) \in Nat
             /\ IsFiniteSet(Below(i) \cup {i})
             /\ Cardinality(Below(i) \cup {i}) = Cardinality(Below(i)) + 1
             /\ rank[i] = 1 + Cardinality(Below(i))
  <2>1. Below(i) \in SUBSET (1 .. n) /\ i \notin Below(i)
    OBVIOUS
  <2>2. rank[i] = 1 + Cardinality(Below(i))
    OBVIOUS
  <2> HIDE DEF Below
  <2>3. IsFiniteSet(Below(i))
    BY <1>1, <2>1, FS_Subset
  <2> QED BY <2>1, <2>2, <2>3, FS_CardinalityType, FS_AddElement
<1>3. \A i \in 1 .. n : rank[i] \in 1 .. n
  <2> TAKE i \in 1 .. n
  <2>1. Below(i) \cup {i} \in SUBSET (1 .. n)
    OBVIOUS
  <2> HIDE DEF Below
  <2>2. Cardinality(Below(i) \cup {i}) <= n
    BY <1>1, <2>1, FS_Subset
  <2>3. PICK c \in Nat : c = Cardinality(Below(i))
    BY <1>2
  <2>4. rank[i] = 1 + c /\ c + 1 <= n
    BY <1>2, <2>2, <2>3
  <2> QED BY <2>4
<1>4. \A i, j \in 1 .. n : <<i, j>> \in R => rank[i] < rank[j]
  <2> SUFFICES ASSUME NEW i \in 1 .. n, NEW j \in 1 .. n, <<i, j>> \in R
               PROVE  rank[i] < rank[j]
    OBVIOUS
  <2>1. Below(i) \cup {i} \in SUBSET Below(j)
    OBVIOUS
  <2> HIDE DEF Below
  <2>2. Cardinality(Below(i) \cup {i}) <= Cardinality(Below(j))
    BY <1>2, <2>1, FS_Subset
  <2>3. PICK c \in Nat, d \in Nat : c = Cardinality(Below(i)) /\ d = Cardinality(Below(j))
    BY <1>2
  <2>4. rank[i] = 1 + c /\ rank[j] = 1 + d /\ c + 1 <= d
    BY <1>2, <2>2, <2>3
  <2> QED BY <2>4
<1>5. \A i, j \in 1 .. n : rank[i] = rank[j] => i = j
  <2> SUFFICES ASSUME NEW i \in 1 .. n, NEW j \in 1 .. n, i # j PROVE rank[i] # rank[j]
    OBVIOUS
  <2>1. rank[i] < rank[j] \/ rank[j] < rank[i]
    BY <1>4
  <2> QED BY <1>3, <2>1
<1>6. \A r \in 1 .. n : \E i \in 1 .. n : rank[i] = r
  <2> DEFINE f == [i \in 1 .. n |-> rank[i]]
  <2>1. f \in [1 .. n -> 1 .. n] /\ \A i, j \in 1 .. n : f[i] = f[j] => i = j
    BY <1>3, <1>5
  <2>2. f \in Injection(1 .. n, 1 .. n)
    <3> HIDE DEF f
    <3> QED BY <2>1 DEF Injection, IsInjective
  <2>3. f \in Surjection(1 .. n, 1 .. n)
    <3> HIDE DEF f
    <3> QED BY <1>1, <2>2, FS_Injection
  <2>4. \A r \in 1 .. n : \E i \in 1 .. n : f[i] = r
    <3> HIDE DEF f
    <3> QED BY <2>1, <2>3 DEF Surjection
  <2> QED BY <2>4
<1> QED BY <1>3, <1>4, <1>5, <1>6 DEF InOrder
=============================================================================
