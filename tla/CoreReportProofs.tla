-------------------------- MODULE CoreReportProofs --------------------------
(***************************************************************************)
(* Proofs about CoreReport: what is read from a core and told of it, for   *)
(* every core and all files of the machine that pystack runs on.           *)
(***************************************************************************)
EXTENDS CoreReport, ListsProofs

-----------------------------------------------------------------------------
(* Lists: the first entry that passes a test, the entries that do, sorting. *)

\* What FirstMatch returns.
LEMMA FirstIs ==
  ASSUME NEW S, NEW s \in Seq(S), NEW T, T \subseteq DOMAIN s, T # {}
  PROVE  Min(T) \in T /\ s[Min(T)] \in S
<1>1. T \subseteq Nat
  OBVIOUS
<1>2. Min(T) \in T
  BY <1>1, MinIs
<1> QED BY <1>2

\* Sorting gives every entry one place, in the order of the addresses.
SortedFrom(sorted, maps, place) ==
  /\ place \in [1 .. Len(maps) -> 1 .. Len(maps)]
  /\ Len(sorted) = Len(maps)
  /\ \A r \in 1 .. Len(maps) : sorted[r] = maps[place[r]]
  /\ \A q, r \in 1 .. Len(maps) : place[q] = place[r] => q = r
  /\ \A n \in 1 .. Len(maps) : \E r \in 1 .. Len(maps) : place[r] = n
  /\ \A q, r \in 1 .. Len(maps) : q < r => sorted[q].start <= sorted[r].start

LEMMA SortedIs ==
  ASSUME NEW S, NEW maps \in Seq(S), \A m \in S : m.start \in Nat
  PROVE  /\ Sorted(maps) \in Seq(S)
         /\ \E place : SortedFrom(Sorted(maps), maps, place)
<1> DEFINE N == Len(maps)
           R == {p \in (1 .. N) \X (1 .. N) : ComesBefore(maps, p[1], p[2])}
           rank == [n \in 1 .. N |-> Rank(maps, n)]
           place == [r \in 1 .. N |-> CHOOSE n \in 1 .. N : rank[n] = r]
           sorted == Sorted(maps)
<1>1. N \in Nat /\ DOMAIN maps = 1 .. N /\ \A n \in 1 .. N : maps[n] \in S
  OBVIOUS
<1>2. \A n \in 1 .. N : maps[n].start \in Nat
  BY <1>1
<1>3. \A i, j \in 1 .. N : <<i, j>> \in R <=> ComesBefore(maps, i, j)
  OBVIOUS
<1> HIDE DEF R
<1>4. \A i \in 1 .. N : <<i, i>> \notin R
  BY <1>2, <1>3 DEF ComesBefore
<1>5. \A i, j \in 1 .. N : i # j => <<i, j>> \in R \/ <<j, i>> \in R
  <2> SUFFICES ASSUME NEW i \in 1 .. N, NEW j \in 1 .. N, i # j
               PROVE  ComesBefore(maps, i, j) \/ ComesBefore(maps, j, i)
    BY <1>3
  <2>1. maps[i].start \in Nat /\ maps[j].start \in Nat
    BY <1>2
  <2> QED BY <2>1 DEF ComesBefore
<1>6. \A i, j, k \in 1 .. N : <<i, j>> \in R /\ <<j, k>> \in R => <<i, k>> \in R
  <2> SUFFICES ASSUME NEW i \in 1 .. N, NEW j \in 1 .. N, NEW k \in 1 .. N,
                      ComesBefore(maps, i, j), ComesBefore(maps, j, k)
               PROVE  ComesBefore(maps, i, k)
    BY <1>3
  <2>1. maps[i].start \in Nat /\ maps[j].start \in Nat /\ maps[k].start \in Nat
    BY <1>2
  <2> QED BY <2>1 DEF ComesBefore
<1>7. \A i \in 1 .. N : rank[i] = 1 + Cardinality({m \in 1 .. N : <<m, i>> \in R})
  <2> TAKE i \in 1 .. N
  <2>1. {m \in 1 .. N : <<m, i>> \in R} = {m \in DOMAIN maps : ComesBefore(maps, m, i)}
    BY <1>1, <1>3
  <2> QED BY <2>1 DEF Rank
<1> HIDE DEF rank, N
<1>8. /\ \A i \in 1 .. N : rank[i] \in 1 .. N
      /\ \A i, j \in 1 .. N : <<i, j>> \in R => rank[i] < rank[j]
      /\ \A i, j \in 1 .. N : rank[i] = rank[j] => i = j
      /\ \A r \in 1 .. N : \E i \in 1 .. N : rank[i] = r
  <2>1. RankedBy(N, R, rank) /\ N \in Nat
    BY <1>1, <1>4, <1>5, <1>6, <1>7 DEF RankedBy
  <2> HIDE DEF R
  <2>2. InOrder(N, R, rank)
    BY <2>1, RanksAreAnOrder
  <2> QED BY <2>2 DEF InOrder
<1>9. \A r \in 1 .. N : place[r] \in 1 .. N /\ rank[place[r]] = r
  BY <1>8
<1>10. /\ sorted = [r \in 1 .. N |-> maps[place[r]]]
  <2>1. \A n \in 1 .. N : rank[n] = Rank(maps, n)
    BY DEF rank
  <2> DEFINE At(r) == CHOOSE n \in DOMAIN maps : Rank(maps, n) = r
  <2>2. sorted = [r \in DOMAIN maps |-> maps[At(r)]]
    BY DEF Sorted
  <2>3. \A r \in 1 .. N : At(r) = place[r]
    BY <1>1, <2>1
  <2> HIDE DEF At, place, sorted
  <2> QED BY <1>1, <2>2, <2>3
<1> HIDE DEF place, sorted
<1>11. sorted \in Seq(S) /\ Len(sorted) = N
  <2>1. \A r \in 1 .. N : maps[place[r]] \in S
    BY <1>1, <1>9
  <2>2. sorted \in [1 .. N -> S]
    BY <1>10, <2>1
  <2> QED BY ONLY <1>1, <1>10, <2>2
<1>12. place \in [1 .. N -> 1 .. N]
  <2>1. DOMAIN place = 1 .. N /\ place = [r \in 1 .. N |-> place[r]]
    BY DEF place
  <2> QED BY <1>9, <2>1
<1>13. \A q, r \in 1 .. N : place[q] = place[r] => q = r
  BY <1>9
<1>14. \A n \in 1 .. N : \E r \in 1 .. N : place[r] = n
  <2> TAKE n \in 1 .. N
  <2>1. rank[n] \in 1 .. N
    BY <1>8
  <2>2. place[rank[n]] \in 1 .. N /\ rank[place[rank[n]]] = rank[n]
    BY <1>9, <2>1
  <2>3. place[rank[n]] = n
    BY <1>8, <2>2
  <2> QED BY <2>1, <2>3
<1>15. ASSUME NEW q \in 1 .. N, NEW r \in 1 .. N, q < r
       PROVE  sorted[q].start <= sorted[r].start
  <2>1. place[q] \in 1 .. N /\ place[r] \in 1 .. N /\ rank[place[q]] = q /\ rank[place[r]] = r
    BY <1>9
  <2>2. ~ (rank[place[r]] < rank[place[q]])
    BY <1>1, <1>15, <2>1
  <2>3. <<place[r], place[q]>> \notin R
    BY <1>8, <2>1, <2>2
  <2>4. ~ ComesBefore(maps, place[r], place[q])
    BY <1>3, <2>1, <2>3
  <2>5. ~ (maps[place[r]].start < maps[place[q]].start)
    BY <2>4 DEF ComesBefore
  <2>6. maps[place[q]].start \in Nat /\ maps[place[r]].start \in Nat
    BY <1>2, <2>1
  <2> QED BY <1>10, <2>5, <2>6
<1>16. SortedFrom(sorted, maps, place)
  BY <1>10, <1>11, <1>12, <1>13, <1>14, <1>15 DEF SortedFrom, N
<1> QED BY <1>11, <1>16 DEF sorted

-----------------------------------------------------------------------------
(* The process: its regions.                                                *)

\* An address is in one region at most, and that is the one that RegionOf finds.
LEMMA RegionOfIs ==
  ASSUME NEW c, RegionsAreApart(c), NEW addr \in Nat
  PROVE  /\ RegionOf(c, addr) # Null =>
              RegionOf(c, addr) \in ToSet(c.regions) /\ ContainsAddr(RegionOf(c, addr), addr)
         /\ \A r \in ToSet(c.regions) : ContainsAddr(r, addr) => RegionOf(c, addr) = r
<1> DEFINE T == {i \in DOMAIN c.regions : ContainsAddr(c.regions[i], addr)}
<1>1. c.regions \in Seq(Region)
  BY DEF RegionsAreApart
<1>2. RegionOf(c, addr) = IF T = {} THEN Null ELSE c.regions[Min(T)]
  BY DEF RegionOf, FirstMatch
<1>3. T # {} => Min(T) \in T
  BY <1>1, FirstIs
<1>4. \A r \in Region : r.start \in Nat /\ r.end \in Nat
  BY DEF Region
<1>5. ASSUME NEW i \in T, NEW j \in T PROVE i = j
  <2>1. /\ c.regions[i].start \in Nat /\ c.regions[i].end \in Nat
        /\ c.regions[j].start \in Nat /\ c.regions[j].end \in Nat
        /\ i \in Nat /\ j \in Nat
    BY <1>1, <1>4
  <2>2. /\ i < j => c.regions[i].end <= c.regions[j].start
        /\ j < i => c.regions[j].end <= c.regions[i].start
    BY DEF RegionsAreApart
  <2>3. /\ c.regions[i].start <= addr /\ addr < c.regions[i].end
        /\ c.regions[j].start <= addr /\ addr < c.regions[j].end
    BY DEF ContainsAddr
  <2> QED BY <2>1, <2>2, <2>3
<1>6. \A r \in ToSet(c.regions) : ContainsAddr(r, addr) => \E i \in T : r = c.regions[i]
  BY DEF ToSet
<1>7. T # {} => c.regions[Min(T)] \in ToSet(c.regions) /\ ContainsAddr(c.regions[Min(T)], addr)
  BY <1>3 DEF ToSet
<1> HIDE DEF T
<1> QED BY <1>2, <1>3, <1>5, <1>6, <1>7

-----------------------------------------------------------------------------
(* The modules.                                                             *)

\* Searching again changes nothing.
LEMMA LocatedIs ==
  ASSUME NEW disk, NEW search \in Seq(STRING) \cup {Null}, NEW lib \in Path
  PROVE  /\ LocateLibrary(disk, search, lib) \in Path
         /\ LocateLibrary(disk, search, LocateLibrary(disk, search, lib))
              = LocateLibrary(disk, search, lib)
<1> DEFINE T(p) == {k \in DOMAIN search : Exists(disk, [dir |-> search[k], name |-> p.name])}
           Dirs(p) == IF search = Null THEN <<>> ELSE Selected(search, T(p))
           located == LocateLibrary(disk, search, lib)
<1>1. ASSUME NEW p PROVE Dirs(p) \in Seq(STRING)
  <2>1. CASE search = Null
    BY <2>1
  <2>2. CASE search # Null
    BY <2>2, SelectedSet
  <2> QED BY <2>1, <2>2
<1>2. ASSUME NEW p
      PROVE  LocateLibrary(disk, search, p) =
               IF Dirs(p) = <<>> THEN p ELSE [dir |-> Head(Dirs(p)), name |-> p.name]
  BY DEF LocateLibrary, Filtered
<1>3. lib.name \in STRING
  BY DEF Path
<1>4. CASE Dirs(lib) = <<>>
  BY <1>2, <1>4
<1>5. CASE Dirs(lib) # <<>>
  <2>1. Head(Dirs(lib)) \in STRING
    <3> DEFINE d == Dirs(lib)
    <3>1. d \in Seq(STRING) /\ d # <<>>
      BY <1>1, <1>5
    <3> HIDE DEF d
    <3>2. Head(d) \in STRING
      BY <3>1
    <3> QED BY <3>2 DEF d
  <2>2. located = [dir |-> Head(Dirs(lib)), name |-> lib.name]
    BY <1>2, <1>5
  <2>3. located \in Path /\ located.name = lib.name
    BY <1>3, <2>1, <2>2 DEF Path
  <2>4. Dirs(located) = Dirs(lib)
    BY <2>3
  <2> QED BY <1>2, <1>5, <2>2, <2>3, <2>4
<1> QED BY <1>4, <1>5

\* A module begins where a file does, and ends with the extent of the file that was
\* mapped, unless it names another that is there.
ModuleOf(c, m) ==
  \E f \in ToSet(c.regions) :
    /\ IsFirstOfImage(f)
    /\ m.start = f.start
    /\ (m.path \in DOMAIN c.disk => c.disk[m.path].elf = f.image) =>
         m.end = f.start + Image[f.image].extent

\* Every file has one, and those that are not there are known to be missing.
EveryFileIn(c, modules) ==
  \A f \in ToSet(c.regions) :
    IsFirstOfImage(f) => \E m \in ToSet(modules) : m.start = f.start

LEMMA DwflModulesAre ==
  ASSUME NEW c, RegionsAreApart(c), NEW exe \in Path \cup {Null}
  PROVE  /\ DwflModules(c, exe) \in Seq(Module)
         /\ \A m \in ToSet(DwflModules(c, exe)) :
              \E f \in ToSet(c.regions) : /\ IsFirstOfImage(f)
                                          /\ m.start = f.start
                                          /\ m.end = f.start + Image[f.image].extent
                                          /\ exe = Null => m.path = f.path
         /\ EveryFileIn(c, DwflModules(c, exe))
<1> DEFINE T == {i \in DOMAIN c.regions : IsFirstOfImage(c.regions[i])}
           starts == Selected(c.regions, T)
           P(r) == IF r.path = c.program /\ exe # Null THEN exe ELSE r.path
           modules == [k \in DOMAIN starts |->
                         [start |-> starts[k].start,
                          end |-> starts[k].start + Image[starts[k].image].extent,
                          path |-> P(starts[k])]]
<1>1. c.regions \in Seq(Region)
  BY DEF RegionsAreApart
<1>2. starts \in Seq(Region) /\ ToSet(starts) = {c.regions[i] : i \in T}
  BY <1>1, SelectedSet
<1>3. modules = DwflModules(c, exe)
  BY DEF DwflModules, Filtered
<1>4. ASSUME NEW k \in DOMAIN starts
      PROVE  starts[k] \in ToSet(c.regions) /\ IsFirstOfImage(starts[k]) /\ starts[k] \in Region
  <2>1. starts[k] \in ToSet(starts)
    BY DEF ToSet
  <2>2. \A i \in T : c.regions[i] \in ToSet(c.regions) /\ IsFirstOfImage(c.regions[i])
    BY DEF ToSet
  <2>3. starts[k] \in Region
    BY <1>2
  <2> HIDE DEF starts, T
  <2> QED BY <1>2, <2>1, <2>2, <2>3
<1>10. ASSUME NEW f \in ToSet(c.regions), IsFirstOfImage(f)
       PROVE  \E k \in DOMAIN starts : starts[k] = f
  <2>1. \E i \in T : f = c.regions[i]
    BY <1>10 DEF ToSet
  <2>2. f \in ToSet(starts)
    BY <1>2, <2>1
  <2> HIDE DEF starts, T
  <2> QED BY <2>2 DEF ToSet
<1> HIDE DEF starts, T
<1>5. ASSUME NEW k \in DOMAIN starts PROVE modules[k] \in Module
  <2>1. /\ starts[k].image # Null /\ starts[k].image \in DOMAIN Image \cup {Null}
        /\ starts[k].start \in Nat /\ starts[k].path \in Path
    BY <1>4 DEF IsFirstOfImage, RegionsAreApart, Region
  <2>2. Image[starts[k].image].extent \in Nat
    BY <2>1, CoreFileAssumption
  <2>3. P(starts[k]) \in Path
    BY <2>1
  <2> HIDE DEF P
  <2> QED BY <2>1, <2>2, <2>3 DEF Module
<1>6. DOMAIN modules = DOMAIN starts
  OBVIOUS
<1>7. \A k \in DOMAIN starts : /\ modules[k].start = starts[k].start
                                /\ modules[k].end = starts[k].start + Image[starts[k].image].extent
  OBVIOUS
<1>12. \A k \in DOMAIN starts : exe = Null => modules[k].path = starts[k].path
  OBVIOUS
<1> HIDE DEF modules
<1>8. modules \in Seq(Module)
  <2>1. DOMAIN starts = 1 .. Len(starts) /\ Len(starts) \in Nat
    BY <1>2
  <2>2. modules = [k \in 1 .. Len(starts) |-> modules[k]]
    BY <1>6, <2>1 DEF modules
  <2> DEFINE M == Module
  <2>3. \A k \in 1 .. Len(starts) : modules[k] \in M
    BY <1>5, <2>1
  <2> HIDE DEF M
  <2>4. modules \in [1 .. Len(starts) -> M]
    BY <2>2, <2>3
  <2>5. modules \in Seq(M)
    BY ONLY <2>1, <2>4
  <2> QED BY <2>5 DEF M
<1>9. \A m \in ToSet(modules) : \E k \in DOMAIN starts : m = modules[k]
  BY <1>6 DEF ToSet
<1>11. EveryFileIn(c, modules)
  <2>1. \A k \in DOMAIN starts : modules[k] \in ToSet(modules)
    BY <1>6 DEF ToSet
  <2> QED BY <1>7, <1>10, <2>1 DEF EveryFileIn
<1>13. ASSUME NEW m \in ToSet(modules)
       PROVE  \E f \in ToSet(c.regions) : /\ IsFirstOfImage(f)
                                          /\ m.start = f.start
                                          /\ m.end = f.start + Image[f.image].extent
                                          /\ exe = Null => m.path = f.path
  <2>1. PICK k \in DOMAIN starts : m = modules[k]
    BY <1>9
  <2> QED BY <1>4, <1>7, <1>12, <2>1
<1> QED BY <1>3, <1>8, <1>11, <1>13

LEMMA ResolvedAre ==
  ASSUME NEW c, RegionsAreApart(c), DiskIsTyped(c.disk), NEW exe \in Path,
         NEW search \in Seq(STRING) \cup {Null},
         ResolveLibraries(c, exe, search).error = Null
  PROVE  LET modules == ResolveLibraries(c, exe, search).modules
         IN /\ modules \in Seq(Module)
            /\ \A m \in ToSet(modules) :
                 ModuleOf(c, [m EXCEPT !.path = LocateLibrary(c.disk, search, m.path)])
            /\ EveryFileIn(c, modules)
            /\ \A m \in ToSet(modules) :
                 ~Exists(c.disk, LocateLibrary(c.disk, search, m.path)) =>
                   LocateLibrary(c.disk, search, m.path) \in ResolveLibraries(c, exe, search).missing
<1> DEFINE mods == DwflModules(c, exe)
           Located(m) == IF exe = Null \/ search = Null THEN m.path
                         ELSE LocateLibrary(c.disk, search, m.path)
           Moves(m) == Exists(c.disk, Located(m)) /\ Located(m) # m.path
           moved == Selected(mods, {k \in DOMAIN mods : Moves(mods[k])})
           stays == Selected(mods, {k \in DOMAIN mods : ~Moves(mods[k])})
           ImageOf(m) == c.disk[Located(m)].elf
           anew == [i \in DOMAIN moved |->
                      [start |-> moved[i].start, path |-> Located(moved[i]),
                       end |-> moved[i].start + Image[ImageOf(moved[i])].extent]]
<1>1. /\ mods \in Seq(Module)
      /\ \A m \in ToSet(mods) :
           \E f \in ToSet(c.regions) : /\ IsFirstOfImage(f)
                                       /\ m.start = f.start
                                       /\ m.end = f.start + Image[f.image].extent
      /\ EveryFileIn(c, mods)
  BY DwflModulesAre
<1> DEFINE missing == {Located(m) : m \in {m \in ToSet(mods) : ~Exists(c.disk, Located(m))}}
<1>2. /\ ResolveLibraries(c, exe, search).modules = stays \o anew
      /\ ResolveLibraries(c, exe, search).missing = missing
      /\ \A i \in DOMAIN moved : ImageOf(moved[i]) # Script
  <2> DEFINE broken == \E i \in DOMAIN moved : ImageOf(moved[i]) = Script
  <2>1. ResolveLibraries(c, exe, search) =
          IF broken THEN [NoModules EXCEPT !.error = "failed to report ELF modules"]
          ELSE [error |-> Null, modules |-> stays \o anew, missing |-> missing]
    BY DEF ResolveLibraries, Filtered
  <2>2. [NoModules EXCEPT !.error = "failed to report ELF modules"].error # Null
    <3>1. [NoModules EXCEPT !.error = "failed to report ELF modules"].error
            = "failed to report ELF modules"
      BY DEF NoModules
    <3>2. "failed to report ELF modules" # Null
      BY CoreAssumption DEF Errors
    <3> QED BY <3>1, <3>2
  <2> HIDE DEF broken, stays, anew, missing
  <2>3. ~broken
    BY <2>1, <2>2
  <2>4. /\ ResolveLibraries(c, exe, search).modules = stays \o anew
        /\ ResolveLibraries(c, exe, search).missing = missing
    BY <2>1, <2>3
  <2> QED BY <2>3, <2>4 DEF broken
<1>3. \A m \in Module : m.path \in Path /\ m.start \in Nat
  BY DEF Module
<1>4. ASSUME NEW m \in Module
      PROVE  /\ Located(m) \in Path
             /\ LocateLibrary(c.disk, search, m.path) = Located(m)
             /\ LocateLibrary(c.disk, search, Located(m)) = Located(m)
  <2>1. exe # Null
    BY CoreFileAssumption
  <2>2. m.path \in Path
    BY <1>3
  <2>3. search = Null => LocateLibrary(c.disk, search, m.path) = m.path
    BY DEF LocateLibrary
  <2> QED BY <2>1, <2>2, <2>3, LocatedIs
<1> HIDE DEF Located
<1>5. /\ moved \in Seq(Module) /\ ToSet(moved) = {mods[k] : k \in {k \in DOMAIN mods : Moves(mods[k])}}
      /\ stays \in Seq(Module) /\ ToSet(stays) = {mods[k] : k \in {k \in DOMAIN mods : ~Moves(mods[k])}}
  <2> DEFINE M == Module
  <2>1. mods \in Seq(M)
    BY <1>1
  <2> HIDE DEF M, mods, Moves
  <2> QED BY <2>1, SelectedSet DEF M
<1>6. /\ \A i \in DOMAIN moved : moved[i] \in ToSet(mods) /\ Moves(moved[i]) /\ moved[i] \in Module
      /\ \A m \in ToSet(stays) : m \in ToSet(mods) /\ ~Moves(m) /\ m \in Module
  <2>1. \A k \in DOMAIN mods : mods[k] \in ToSet(mods) /\ mods[k] \in Module
    BY <1>1 DEF ToSet
  <2> DEFINE M == Module
  <2> HIDE DEF moved, stays, mods, Moves
  <2>2. \A i \in DOMAIN moved : moved[i] \in ToSet(moved)
    BY DEF ToSet
  <2>3. moved \in Seq(M)
    BY <1>5
  <2> HIDE DEF M
  <2>4. \A i \in DOMAIN moved : moved[i] \in M
    BY <2>3
  <2> QED BY <1>5, <2>1, <2>2, <2>4 DEF M
<1>7. ASSUME NEW i \in DOMAIN moved
      PROVE  /\ anew[i] \in Module
             /\ anew[i].path = Located(moved[i])
             /\ anew[i].start = moved[i].start
             /\ anew[i].end = moved[i].start + Image[ImageOf(moved[i])].extent
  <2>1. ImageOf(moved[i]) \in DOMAIN Image
    BY <1>2, <1>6 DEF DiskIsTyped, Exists
  <2>2. Image[ImageOf(moved[i])].extent \in Nat
    BY <2>1, CoreFileAssumption
  <2>3. moved[i].start \in Nat /\ Located(moved[i]) \in Path
    BY <1>3, <1>4, <1>6
  <2> HIDE DEF moved
  <2> QED BY <2>2, <2>3 DEF Module
<1>8. stays \o anew \in Seq(Module) /\ ToSet(stays \o anew) = ToSet(stays) \cup {anew[i] : i \in DOMAIN moved}
  <2> DEFINE M == Module
             N == Len(moved)
  <2>1. N \in Nat /\ DOMAIN moved = 1 .. N
    BY <1>5
  <2>2. anew = [i \in 1 .. N |-> anew[i]] /\ \A i \in 1 .. N : anew[i] \in M
    BY <1>7, <2>1
  <2>3. stays \in Seq(M)
    BY <1>5
  <2> HIDE DEF M, N, anew, stays, moved
  <2>4. anew \in [1 .. N -> M]
    BY <2>2
  <2>5. anew \in Seq(M) /\ Len(anew) = N /\ DOMAIN anew = 1 .. N
    BY ONLY <2>1, <2>4
  <2>6. stays \o anew \in Seq(M)
    BY <2>3, <2>5
  <2>7. ToSet(stays \o anew) = ToSet(stays) \cup ToSet(anew)
    <3> DEFINE s == stays \o anew
               K == Len(stays)
    <3>1. K \in Nat /\ DOMAIN stays = 1 .. K /\ DOMAIN s = 1 .. K + N
      BY <2>1, <2>3, <2>5, SMTT(30)
    <3>2. \A i \in 1 .. K + N : s[i] = IF i <= K THEN stays[i] ELSE anew[i - K]
      BY <2>1, <2>3, <2>5, <3>1
    <3> HIDE DEF s, K
    <3>3. \A i \in 1 .. K + N : s[i] \in ToSet(stays) \cup ToSet(anew)
      <4> TAKE i \in 1 .. K + N
      <4>1. i <= K => i \in 1 .. K
        BY <3>1
      <4>2. ~(i <= K) => i - K \in 1 .. N
        BY <2>1, <3>1
      <4> QED BY <2>5, <3>1, <3>2, <4>1, <4>2 DEF ToSet
    <3>4. \A i \in 1 .. K : i \in 1 .. K + N /\ s[i] = stays[i]
      BY <2>1, <3>1, <3>2
    <3>5. \A i \in 1 .. N : i + K \in 1 .. K + N /\ s[i + K] = anew[i]
      BY <2>1, <3>1, <3>2
    <3>6. \A x \in ToSet(s) : x \in ToSet(stays) \cup ToSet(anew)
      BY <3>1, <3>3 DEF ToSet
    <3>7. \A x \in ToSet(stays) : x \in ToSet(s)
      BY <3>1, <3>4 DEF ToSet
    <3>8. \A x \in ToSet(anew) : x \in ToSet(s)
      BY <2>5, <3>1, <3>5 DEF ToSet
    <3>9. ToSet(s) = ToSet(stays) \cup ToSet(anew)
      BY <3>6, <3>7, <3>8
    <3> QED BY <3>9 DEF s
  <2>8. ToSet(anew) = {anew[i] : i \in DOMAIN moved}
    BY <2>1, <2>5 DEF ToSet
  <2> QED BY <2>6, <2>7, <2>8 DEF M
<1>9. ASSUME NEW m \in ToSet(stays)
      PROVE  ModuleOf(c, [m EXCEPT !.path = LocateLibrary(c.disk, search, m.path)])
  <2> DEFINE n == [m EXCEPT !.path = LocateLibrary(c.disk, search, m.path)]
  <2>1. m \in ToSet(mods) /\ ~Moves(m) /\ m \in Module
    BY <1>6
  <2>2. n.start = m.start /\ n.end = m.end /\ n.path = Located(m)
    BY <1>4, <2>1 DEF Module
  <2>3. PICK f \in ToSet(c.regions) : /\ IsFirstOfImage(f)
                                      /\ m.start = f.start
                                      /\ m.end = f.start + Image[f.image].extent
    BY <1>1, <2>1
  <2> HIDE DEF n
  <2>4. ModuleOf(c, n)
    BY <2>2, <2>3 DEF ModuleOf
  <2> QED BY <2>4 DEF n
<1>10. ASSUME NEW i \in DOMAIN moved
       PROVE  ModuleOf(c, [anew[i] EXCEPT !.path = LocateLibrary(c.disk, search, anew[i].path)])
  <2> DEFINE m == anew[i]
             n == [m EXCEPT !.path = LocateLibrary(c.disk, search, m.path)]
  <2>1. /\ m \in Module /\ m.path = Located(moved[i]) /\ m.start = moved[i].start
        /\ m.end = moved[i].start + Image[ImageOf(moved[i])].extent
        /\ moved[i] \in Module /\ moved[i] \in ToSet(mods)
    BY <1>6, <1>7
  <2> HIDE DEF m
  <2>2. n.start = m.start /\ n.end = m.end /\ n.path = Located(moved[i])
    BY <1>4, <2>1 DEF Module
  <2>3. PICK f \in ToSet(c.regions) : IsFirstOfImage(f) /\ moved[i].start = f.start
    BY <1>1, <2>1
  <2>5. Located(moved[i]) \in DOMAIN c.disk
    BY <1>6 DEF Exists
  <2> HIDE DEF n, moved, mods
  <2>4. ModuleOf(c, n)
    BY <2>1, <2>2, <2>3, <2>5 DEF ModuleOf
  <2> QED BY <2>4 DEF n, m
<1>11. ASSUME NEW f \in ToSet(c.regions), IsFirstOfImage(f)
       PROVE  \E m \in ToSet(stays) \cup {anew[i] : i \in DOMAIN moved} : m.start = f.start
  <2>1. PICK m \in ToSet(mods) : m.start = f.start
    BY <1>1, <1>11 DEF EveryFileIn
  <2>2. PICK k \in DOMAIN mods : m = mods[k]
    BY <2>1 DEF ToSet
  <2> HIDE DEF mods, Moves
  <2>3. CASE Moves(m)
    <3>1. m \in ToSet(moved)
      BY <1>5, <2>2, <2>3
    <3> HIDE DEF moved
    <3>2. PICK i \in DOMAIN moved : moved[i] = m
      BY <3>1 DEF ToSet
    <3> HIDE DEF anew
    <3> QED BY <1>7, <2>1, <3>2
  <2>4. CASE ~Moves(m)
    <3>1. m \in ToSet(stays)
      BY <1>5, <2>2, <2>4
    <3> QED BY <2>1, <3>1
  <2> QED BY <2>3, <2>4
<1>12. ASSUME NEW m \in ToSet(stays), ~Exists(c.disk, LocateLibrary(c.disk, search, m.path))
       PROVE  LocateLibrary(c.disk, search, m.path) \in missing
  <2>1. m \in ToSet(mods) /\ LocateLibrary(c.disk, search, m.path) = Located(m)
    BY <1>4, <1>6
  <2> QED BY <1>12, <2>1
<1>13. ASSUME NEW i \in DOMAIN moved
       PROVE  Exists(c.disk, LocateLibrary(c.disk, search, anew[i].path))
  <2>1. Moves(moved[i]) /\ moved[i] \in Module /\ anew[i].path = Located(moved[i])
    BY <1>6, <1>7
  <2> HIDE DEF anew, moved
  <2> QED BY <1>4, <2>1
<1> HIDE DEF stays, anew, moved, missing
<1>14. EveryFileIn(c, stays \o anew)
  BY <1>8, <1>11 DEF EveryFileIn
<1>15. \A m \in ToSet(stays \o anew) :
         ~Exists(c.disk, LocateLibrary(c.disk, search, m.path)) =>
           LocateLibrary(c.disk, search, m.path) \in missing
  BY <1>8, <1>12, <1>13
<1>16. \A m \in ToSet(stays \o anew) :
         ModuleOf(c, [m EXCEPT !.path = LocateLibrary(c.disk, search, m.path)])
  BY <1>8, <1>9, <1>10
<1> QED BY <1>2, <1>8, <1>14, <1>15, <1>16

\* What populateMaps makes of them.
LEMMA InformationIs ==
  ASSUME NEW c, RegionsAreApart(c), DiskIsTyped(c.disk), NEW exe \in Path,
         NEW search \in Seq(STRING) \cup {Null},
         ResolveLibraries(c, exe, search).error = Null
  PROVE  LET info == ModuleInformation(c, search, ResolveLibraries(c, exe, search).modules)
         IN /\ info \in Seq(Module)
            /\ \A m \in ToSet(info) : ModuleOf(c, m)
            /\ EveryFileIn(c, info)
            /\ \A m \in ToSet(info) :
                 ~Exists(c.disk, m.path) => m.path \in ResolveLibraries(c, exe, search).missing
<1> DEFINE modules == ResolveLibraries(c, exe, search).modules
           Moved(m) == [m EXCEPT !.path = LocateLibrary(c.disk, search, m.path)]
           info == ModuleInformation(c, search, modules)
           N == Len(modules)
           M == Module
           missing == ResolveLibraries(c, exe, search).missing
<1>1. /\ modules \in Seq(M)
      /\ \A m \in ToSet(modules) : ModuleOf(c, Moved(m))
      /\ EveryFileIn(c, modules)
      /\ \A m \in ToSet(modules) :
           ~Exists(c.disk, LocateLibrary(c.disk, search, m.path)) =>
             LocateLibrary(c.disk, search, m.path) \in missing
  BY ResolvedAre
<1> HIDE DEF modules, missing
<1>2. N \in Nat /\ DOMAIN modules = 1 .. N /\ \A i \in 1 .. N : modules[i] \in M
  BY <1>1
<1>3. \A m \in M : Moved(m) \in M
  <2> SUFFICES ASSUME NEW m \in Module PROVE Moved(m) \in Module
    OBVIOUS
  <2>1. LocateLibrary(c.disk, search, m.path) \in Path
    BY LocatedIs DEF Module
  <2> QED BY <2>1 DEF Module
<1>4. info = [i \in 1 .. N |-> Moved(modules[i])]
  BY <1>2 DEF ModuleInformation
<1>9. \A m \in M : Moved(m).start = m.start /\ Moved(m).path = LocateLibrary(c.disk, search, m.path)
  BY DEF Module
<1> HIDE DEF Moved, info, N, M
<1>5. info \in [1 .. N -> M] /\ \A i \in 1 .. N : info[i] = Moved(modules[i])
  BY <1>2, <1>3, <1>4
<1>6. info \in Seq(M) /\ DOMAIN info = 1 .. N
  BY ONLY <1>2, <1>5
<1>7. \A i \in 1 .. N : modules[i] \in ToSet(modules)
  BY <1>2 DEF ToSet
<1>8. \A m \in ToSet(info) : ModuleOf(c, m)
  BY <1>1, <1>5, <1>6, <1>7 DEF ToSet
<1>10. EveryFileIn(c, info)
  <2>1. \A i \in 1 .. N : info[i] \in ToSet(info) /\ info[i].start = modules[i].start
    BY <1>2, <1>5, <1>6, <1>9 DEF ToSet
  <2>2. \A m \in ToSet(modules) : \E i \in 1 .. N : m = modules[i]
    BY <1>2 DEF ToSet
  <2> QED BY <1>1, <2>1, <2>2 DEF EveryFileIn
<1>11. \A m \in ToSet(info) : ~Exists(c.disk, m.path) => m.path \in missing
  <2>1. \A m \in ToSet(info) : \E i \in 1 .. N : m = Moved(modules[i])
    BY <1>5, <1>6 DEF ToSet
  <2> QED BY <1>1, <1>2, <1>7, <1>9, <2>1
<1> QED BY <1>6, <1>8, <1>10, <1>11 DEF modules, info, M, missing

-----------------------------------------------------------------------------
(* The maps.                                                                *)

\* What a list of maps is: one map of each of some regions, in their order.
MapOf(r, m) ==
  m.start = r.start /\ m.end = r.end /\ m.filesize = r.dumped /\ m.offset = r.at

InOrderOf(maps) ==
  \A i, j \in DOMAIN maps : i < j => maps[i].end <= maps[j].start

SegmentOf(r) ==
  [start |-> r.start, end |-> r.end, filesize |-> r.dumped, offset |-> r.at, flags |-> r.flags]

LEMMA SegmentsAre ==
  ASSUME NEW c, RegionsAreApart(c)
  PROVE  /\ Segments(c) \in Seq({SegmentOf(r) : r \in ToSet(c.regions)})
         /\ InOrderOf(Segments(c))
         /\ \A r \in ToSet(c.regions) :
              r.dumped > 0 \/ ~c.omits => SegmentOf(r) \in ToSet(Segments(c))
<1> DEFINE S == {SegmentOf(r) : r \in ToSet(c.regions)}
           N == Len(c.regions)
           all == [i \in DOMAIN c.regions |->
                     [start |-> c.regions[i].start, end |-> c.regions[i].end,
                      filesize |-> c.regions[i].dumped, offset |-> c.regions[i].at,
                      flags |-> c.regions[i].flags]]
           T == {i \in DOMAIN all : ~c.omits \/ all[i].filesize > 0}
           segments == Segments(c)
<1>1. segments = Selected(all, T)
  BY DEF Segments, Filtered
<1>2. c.regions \in Seq(Region) /\ N \in Nat /\ DOMAIN c.regions = 1 .. N
  BY DEF RegionsAreApart
<1>3. /\ DOMAIN all = 1 .. N
      /\ \A i \in 1 .. N : all[i] = SegmentOf(c.regions[i]) /\ c.regions[i] \in ToSet(c.regions)
  BY <1>2 DEF SegmentOf, ToSet
<1>4. \A r : /\ SegmentOf(r).start = r.start /\ SegmentOf(r).end = r.end
             /\ SegmentOf(r).filesize = r.dumped
  BY DEF SegmentOf
<1>5. all \in Seq(S) /\ Len(all) = N
  <2>1. all = [i \in 1 .. N |-> all[i]]
    BY <1>2
  <2>2. \A i \in 1 .. N : all[i] \in S
    BY <1>3
  <2> HIDE DEF all, S, N
  <2>3. all \in [1 .. N -> S]
    BY <2>1, <2>2
  <2> QED BY ONLY <1>2, <1>3, <2>3
<1> HIDE DEF all, S, T, segments
<1>6. /\ segments \in Seq(S)
      /\ \E at : TakenFrom(segments, all, Len(all), T, at)
  BY <1>1, <1>5, SelectedIs
<1>7. PICK at : TakenFrom(segments, all, N, T, at)
  BY <1>5, <1>6
<1>8. Len(segments) \in Nat /\ DOMAIN segments = 1 .. Len(segments)
  BY <1>6
<1>9. /\ \A k \in 1 .. Len(segments) : at[k] \in 1 .. N /\ segments[k] = all[at[k]]
      /\ \A j, k \in 1 .. Len(segments) : j < k => at[j] < at[k]
      /\ \A i \in T \cap (1 .. N) : \E k \in 1 .. Len(segments) : segments[k] = all[i]
  <2> USE <1>7 DEF TakenFrom
  <2>1. \A k \in 1 .. Len(segments) : at[k] \in T \cap (1 .. N)
    OBVIOUS
  <2> QED BY <2>1
<1>10. InOrderOf(segments)
  <2> SUFFICES ASSUME NEW i \in 1 .. Len(segments), NEW j \in 1 .. Len(segments), i < j
               PROVE  segments[i].end <= segments[j].start
    BY <1>8 DEF InOrderOf
  <2>1. at[i] \in 1 .. N /\ at[j] \in 1 .. N /\ at[i] < at[j]
    BY <1>9
  <2>2. c.regions[at[i]].end <= c.regions[at[j]].start
    BY <1>2, <2>1 DEF RegionsAreApart
  <2>3. segments[i] = all[at[i]] /\ segments[j] = all[at[j]]
    BY <1>9
  <2>4. segments[i].end = c.regions[at[i]].end /\ segments[j].start = c.regions[at[j]].start
    BY <1>3, <1>4, <2>1, <2>3
  <2> QED BY <2>2, <2>4
<1>11. ASSUME NEW r \in ToSet(c.regions), r.dumped > 0 \/ ~c.omits
       PROVE  SegmentOf(r) \in ToSet(segments)
  <2>1. PICK i \in 1 .. N : r = c.regions[i]
    BY <1>2 DEF ToSet
  <2>2. i \in T \cap (1 .. N)
    BY <1>3, <1>4, <1>11, <2>1 DEF T
  <2>3. PICK k \in 1 .. Len(segments) : segments[k] = all[i]
    BY <1>9, <2>2
  <2> QED BY <1>3, <1>8, <2>1, <2>3 DEF ToSet
<1> QED BY <1>6, <1>10, <1>11 DEF S, segments

LEMMA MemoryMapsAre ==
  ASSUME NEW c, RegionsAreApart(c), NEW info \in Seq(Module)
  PROVE  LET maps == MemoryMaps(c, info)
         IN /\ maps \in Seq(Map)
            /\ InOrderOf(maps)
            /\ \A m \in ToSet(maps) : \E r \in ToSet(c.regions) : MapOf(r, m)
            /\ \A r \in ToSet(c.regions) :
                 r.dumped > 0 \/ ~c.omits => \E m \in ToSet(maps) : MapOf(r, m)
<1> DEFINE S == {SegmentOf(r) : r \in ToSet(c.regions)}
           segments == Segments(c)
           N == Len(segments)
           Of(s) == FirstMatch(info, LAMBDA m : s.start >= m.start /\ s.end <= m.end)
           P(s) == IF Of(s) = Null THEN NoPath ELSE Of(s).path
           Made(s) == [start |-> s.start, end |-> s.end, filesize |-> s.filesize,
                       offset |-> s.offset, flags |-> s.flags, path |-> P(s)]
           maps == MemoryMaps(c, info)
<1>1. /\ segments \in Seq(S)
      /\ InOrderOf(segments)
      /\ \A r \in ToSet(c.regions) :
           r.dumped > 0 \/ ~c.omits => SegmentOf(r) \in ToSet(segments)
  BY SegmentsAre
<1>2. maps = [i \in DOMAIN segments |-> Made(segments[i])]
  BY DEF MemoryMaps
<1>3. ASSUME NEW s PROVE P(s) \in Path \cup {NoPath}
  <2> DEFINE T == {i \in DOMAIN info : s.start >= info[i].start /\ s.end <= info[i].end}
  <2>1. Of(s) = IF T = {} THEN Null ELSE info[Min(T)]
    BY DEF FirstMatch
  <2>2. T # {} => info[Min(T)] \in Module
    BY FirstIs
  <2> HIDE DEF T, Of
  <2>3. Of(s) # Null => Of(s) \in Module
    BY <2>1, <2>2
  <2> QED BY <2>3 DEF Module
<1> HIDE DEF P
<1>4. ASSUME NEW r \in ToSet(c.regions)
      PROVE  LET m == Made(SegmentOf(r)) IN m \in Map /\ MapOf(r, m)
  <2>1. r \in Region
    BY DEF RegionsAreApart, ToSet
  <2>2. P(SegmentOf(r)) \in Path \cup {NoPath}
    BY <1>3
  <2>3. SegmentOf(r).start = r.start /\ SegmentOf(r).end = r.end /\ SegmentOf(r).flags = r.flags
        /\ SegmentOf(r).filesize = r.dumped /\ SegmentOf(r).offset = r.at
    BY DEF SegmentOf
  <2>4. /\ r.start \in Nat /\ r.end \in Nat /\ r.dumped \in Nat /\ r.at \in Nat
        /\ r.flags \in SUBSET {"r", "w", "x"}
    BY <2>1 DEF Region
  <2>5. Made(SegmentOf(r)) \in Map
    BY <2>2, <2>3, <2>4 DEF Map
  <2>6. MapOf(r, Made(SegmentOf(r)))
    BY <2>3 DEF MapOf
  <2> QED BY <2>5, <2>6
<1>5. \A s : Made(s).start = s.start /\ Made(s).end = s.end
  OBVIOUS
<1> HIDE DEF Made, segments, maps, S
<1>6. N \in Nat /\ DOMAIN segments = 1 .. N /\ \A i \in 1 .. N : segments[i] \in S
  BY <1>1
<1>7. DOMAIN maps = 1 .. N /\ \A i \in 1 .. N : maps[i] = Made(segments[i])
  BY <1>2, <1>6
<1>8. \A s \in S : \E r \in ToSet(c.regions) : s = SegmentOf(r)
  BY DEF S
<1>9. maps \in Seq(Map)
  <2> DEFINE M == Map
  <2>1. \A i \in 1 .. N : maps[i] \in M
    BY <1>4, <1>6, <1>7, <1>8
  <2>2. maps = [i \in 1 .. N |-> maps[i]]
    BY <1>2, <1>6
  <2> HIDE DEF M, N
  <2>3. maps \in [1 .. N -> M]
    BY <2>1, <2>2
  <2>4. maps \in Seq(M)
    BY ONLY <1>6, <2>3
  <2> QED BY <2>4 DEF M
<1>10. InOrderOf(maps)
  BY <1>1, <1>5, <1>6, <1>7 DEF InOrderOf
<1>11. \A m \in ToSet(maps) : \E r \in ToSet(c.regions) : MapOf(r, m)
  <2> SUFFICES ASSUME NEW i \in 1 .. N PROVE \E r \in ToSet(c.regions) : MapOf(r, maps[i])
    BY <1>7 DEF ToSet
  <2>1. PICK r \in ToSet(c.regions) : segments[i] = SegmentOf(r)
    BY <1>6, <1>8
  <2> QED BY <1>4, <1>7, <2>1
<1>12. ASSUME NEW r \in ToSet(c.regions), r.dumped > 0 \/ ~c.omits
       PROVE  \E m \in ToSet(maps) : MapOf(r, m)
  <2>1. PICK i \in 1 .. N : segments[i] = SegmentOf(r)
    BY <1>1, <1>6, <1>12 DEF ToSet
  <2>2. maps[i] \in ToSet(maps)
    BY <1>7 DEF ToSet
  <2> QED BY <1>4, <1>7, <2>1, <2>2
<1> QED BY <1>9, <1>10, <1>11, <1>12 DEF maps

\* The notes of a type are those of a segment that can be read.
LEMMA NoteDataIs ==
  ASSUME NEW c, NotesAreTrue(c), NEW type
  PROVE  \/ GetNoteData(c, type) = <<>>
         \/ \E k \in DOMAIN c.notes :
              /\ c.notes[k] # Null
              /\ c.notes[k] \in Seq(ToSet(c.notes[k]))
              /\ GetNoteData(c, type) =
                   Selected(c.notes[k], {i \in DOMAIN c.notes[k] :
                                           c.notes[k][i].core /\ c.notes[k][i].type = type})
<1> DEFINE T == {k \in DOMAIN c.notes : c.notes[k] # Null}
           readable == FirstMatch(c.notes, LAMBDA segment : segment # Null)
           Kept(s) == Selected(s, {i \in DOMAIN s : s[i].core /\ s[i].type = type})
<1>1. readable = IF T = {} THEN Null ELSE c.notes[Min(T)]
  BY DEF FirstMatch
<1>2. GetNoteData(c, type) = IF readable = Null THEN <<>> ELSE Kept(readable)
  BY DEF GetNoteData, Filtered
<1>3. c.notes \in Seq(ToSet(c.notes))
  BY DEF NotesAreTrue
<1>4. T # {} => Min(T) \in T
  <2> DEFINE S == ToSet(c.notes)
  <2>1. c.notes \in Seq(S) /\ T \subseteq DOMAIN c.notes
    BY <1>3
  <2> HIDE DEF S, T
  <2> QED BY <2>1, FirstIs
<1>5. \A k \in T : k \in DOMAIN c.notes /\ c.notes[k] # Null /\ c.notes[k] \in Seq(ToSet(c.notes[k]))
  BY DEF NotesAreTrue
<1> HIDE DEF T, readable
<1>6. CASE T = {}
  BY <1>1, <1>2, <1>6
<1>7. CASE T # {}
  <2>1. readable = c.notes[Min(T)] /\ Min(T) \in T
    BY <1>1, <1>4, <1>7
  <2>2. GetNoteData(c, type) = Kept(c.notes[Min(T)])
    BY <1>2, <1>5, <2>1
  <2> QED BY <1>5, <2>1, <2>2
<1> QED BY <1>6, <1>7

\* The entries of one note.
LEMMA NoteIs ==
  ASSUME NEW desc, desc.count \in Nat, desc.names \in Seq(Path),
         desc.table \in Seq([start : Nat, end : Nat, offset : Nat])
  PROVE  LET maps == ParseCoreFileNote(desc).maps
         IN /\ maps \in Seq(Map)
            /\ \A i \in DOMAIN maps :
                 /\ i \in DOMAIN desc.table
                 /\ maps[i].start = desc.table[i].start
                 /\ maps[i].end = desc.table[i].end
                 /\ maps[i].filesize = 0
<1> DEFINE E == [start : Nat, end : Nat, offset : Nat]
           two == {desc.count, Len(desc.names) + 1}
           maps == ParseCoreFileNote(desc).maps
<1>1. Len(desc.table) \in Nat /\ DOMAIN desc.table = 1 .. Len(desc.table)
      /\ \A i \in 1 .. Len(desc.table) : desc.table[i] \in E
  <2>1. desc.table \in Seq(E)
    OBVIOUS
  <2> HIDE DEF E
  <2> QED BY <2>1
<1>2. Len(desc.names) \in Nat /\ \A i \in 1 .. Len(desc.names) : desc.names[i] \in Path
  OBVIOUS
<1>3. CASE desc.count > Len(desc.table)
  <2>1. maps = <<>>
    BY <1>3 DEF ParseCoreFileNote
  <2> QED BY <2>1
<1>4. CASE ~(desc.count > Len(desc.table))
  <2> DEFINE read == Min(two)
  <2>1. read \in two /\ \A n \in two : read <= n
    <3>1. two \subseteq Nat /\ two # {}
      BY <1>2
    <3> HIDE DEF two
    <3> QED BY <3>1, MinIs
  <2>2. read \in Nat /\ read <= Len(desc.table)
    BY <1>1, <1>2, <1>4, <2>1
  <2>3. maps = [i \in 1 .. read |-> FileEntry(desc, i)]
    BY <1>4 DEF ParseCoreFileNote
  <2>4. ASSUME NEW i \in 1 .. read
        PROVE  /\ FileEntry(desc, i) \in Map
               /\ i \in 1 .. Len(desc.table)
               /\ FileEntry(desc, i).start = desc.table[i].start
               /\ FileEntry(desc, i).end = desc.table[i].end
               /\ FileEntry(desc, i).filesize = 0
    <3>1. i \in 1 .. Len(desc.table)
      BY <1>1, <2>2
    <3>2. desc.table[i].start \in Nat /\ desc.table[i].end \in Nat /\ desc.table[i].offset \in Nat
      BY <1>1, <3>1
    <3>3. (IF i <= Len(desc.names) THEN desc.names[i] ELSE Garbage) \in Path
      BY <1>2, <2>2, CoreFileAssumption
    <3> HIDE DEF E, read, two
    <3>4. FileEntry(desc, i) \in Map
      BY <3>2, <3>3 DEF FileEntry, Map
    <3> QED BY <3>1, <3>4 DEF FileEntry
  <2> DEFINE M == Map
  <2> HIDE DEF M, read, maps
  <2>5. maps \in [1 .. read -> M]
    BY <2>3, <2>4 DEF M
  <2>6. maps \in Seq(M) /\ DOMAIN maps = 1 .. read
    BY ONLY <2>2, <2>5
  <2> QED BY <1>1, <2>3, <2>4, <2>6 DEF M, maps
<1> QED BY <1>3, <1>4

\* What NT_FILE names: ranges of mapped files, none twice, of which nothing was dumped here.
LEMMA MappedFilesAre ==
  ASSUME NEW c, NotesAreTrue(c), MappedFilesAreTrue(c)
  PROVE  LET maps == ExtractMappedFiles(c)
         IN /\ maps \in Seq(Map)
            /\ \A m \in ToSet(maps) :
                 /\ m.filesize = 0
                 /\ \E r \in ToSet(c.regions) :
                      m.start = r.start /\ m.end = r.end /\ r.path # NoPath
            /\ \A i, j \in DOMAIN maps : maps[i].start = maps[j].start => i = j
<1> DEFINE notes == GetNoteData(c, "NT_FILE")
           parsed == [k \in DOMAIN notes |-> ParseCoreFileNote(notes[k].desc)]
           good == {k \in DOMAIN notes : parsed[k].ok}
           read == IF good = {} THEN Len(notes) ELSE Min(good)
           ss == [k \in 1 .. read |-> parsed[k].maps]
           maps == ExtractMappedFiles(c)
<1>1. maps = FlattenSeq(ss)
  BY DEF ExtractMappedFiles
\* There is one note at most.
<1>2. /\ notes \in Seq(ToSet(notes)) /\ Len(notes) \in {0, 1}
      /\ \A k \in DOMAIN notes : NamesRegions(c, notes[k].desc)
  <2>1. CASE notes = <<>>
    <3> HIDE DEF notes
    <3>1. Len(<<>>) = 0 /\ DOMAIN <<>> = {} /\ <<>> \in Seq(ToSet(notes))
      OBVIOUS
    <3> QED BY <2>1, <3>1
  <2>2. CASE notes # <<>>
    <3>1. PICK k \in DOMAIN c.notes :
            /\ c.notes[k] # Null
            /\ c.notes[k] \in Seq(ToSet(c.notes[k]))
            /\ notes = Selected(c.notes[k], {i \in DOMAIN c.notes[k] :
                                  c.notes[k][i].core /\ c.notes[k][i].type = "NT_FILE"})
      BY <2>2, NoteDataIs
    <3> DEFINE s == c.notes[k]
               S == ToSet(s)
               T == {i \in DOMAIN s : s[i].core /\ s[i].type = "NT_FILE"}
    <3>2. /\ \A i, j \in T : i = j
          /\ \A i \in T : NamesRegions(c, s[i].desc)
      BY <3>1 DEF MappedFilesAreTrue
    <3>3. s \in Seq(S) /\ notes = Selected(s, T)
      BY <3>1
    <3> HIDE DEF s, S, T, notes
    <3>4. notes \in Seq(S) /\ \E at : TakenFrom(notes, s, Len(s), T, at)
      BY <3>3, SelectedIs
    <3>5. PICK at : TakenFrom(notes, s, Len(s), T, at)
      BY <3>4
    <3>6. /\ \A n \in 1 .. Len(notes) : at[n] \in T /\ notes[n] = s[at[n]]
          /\ \A m, n \in 1 .. Len(notes) : m < n => at[m] < at[n]
      BY <3>5 DEF TakenFrom
    <3>7. Len(notes) \in Nat /\ DOMAIN notes = 1 .. Len(notes)
      BY <3>4
    <3>8. T \subseteq Nat
      BY <3>3 DEF T
    <3>9. Len(notes) \in {0, 1}
      <4> SUFFICES ASSUME Len(notes) > 1 PROVE FALSE
        BY <3>7
      <4>1. 1 \in 1 .. Len(notes) /\ 2 \in 1 .. Len(notes)
        BY <3>7
      <4>2. at[1] \in T /\ at[2] \in T /\ at[1] < at[2]
        BY <3>6, <4>1
      <4>3. at[1] = at[2] /\ at[1] \in Nat
        BY <3>2, <3>8, <4>2
      <4> QED BY <4>2, <4>3
    <3>10. notes \in Seq(ToSet(notes))
      <4>1. \A n \in 1 .. Len(notes) : notes[n] \in ToSet(notes)
        BY <3>7 DEF ToSet
      <4>2. notes \in [1 .. Len(notes) -> ToSet(notes)]
        BY <3>4, <3>7, <4>1
      <4> QED BY ONLY <3>7, <4>2
    <3> QED BY <3>2, <3>6, <3>7, <3>9, <3>10
  <2> QED BY <2>1, <2>2
<1> HIDE DEF notes
<1>3. Len(notes) \in Nat /\ DOMAIN notes = 1 .. Len(notes)
  BY <1>2
<1>4. good # {} => Min(good) \in 1 .. Len(notes)
  <2>1. good \subseteq 1 .. Len(notes)
    BY <1>3
  <2> HIDE DEF good
  <2>2. good \subseteq Nat
    BY <1>3, <2>1
  <2>3. good # {} => Min(good) \in good
    BY <2>2, MinIs
  <2> QED BY <2>1, <2>3
<1>5. read \in {0, 1} /\ 1 .. read \subseteq DOMAIN notes
  <2> HIDE DEF good
  <2> QED BY <1>2, <1>3, <1>4
<1>6. ASSUME NEW k \in DOMAIN notes
      PROVE  LET q == parsed[k].maps
                 table == notes[k].desc.table
             IN /\ q \in Seq(Map)
                /\ \A i \in DOMAIN q : /\ i \in DOMAIN table
                                       /\ q[i].start = table[i].start
                                       /\ q[i].end = table[i].end
                                       /\ q[i].filesize = 0
  <2> DEFINE desc == notes[k].desc
  <2>1. desc.count \in Nat /\ desc.names \in Seq(Path)
        /\ desc.table \in Seq([start : Nat, end : Nat, offset : Nat])
    BY <1>2 DEF NamesRegions
  <2>2. parsed[k] = ParseCoreFileNote(desc)
    OBVIOUS
  <2> HIDE DEF desc, parsed
  <2>3. LET q == ParseCoreFileNote(desc).maps
        IN /\ q \in Seq(Map)
           /\ \A i \in DOMAIN q : /\ i \in DOMAIN desc.table
                                  /\ q[i].start = desc.table[i].start
                                  /\ q[i].end = desc.table[i].end
                                  /\ q[i].filesize = 0
    BY <2>1, NoteIs
  <2> QED BY <2>2, <2>3 DEF desc
<1> HIDE DEF parsed, read, maps
<1>7. ss \in Seq(Seq(Map)) /\ Len(ss) = read /\ \A k \in 1 .. read : ss[k] = parsed[k].maps
  <2> DEFINE M == Seq(Map)
  <2>1. \A k \in 1 .. read : parsed[k].maps \in M
    BY <1>5, <1>6
  <2> HIDE DEF M
  <2>2. ss \in [1 .. read -> M] /\ read \in Nat
    BY <1>5, <2>1
  <2>3. ss \in Seq(M) /\ Len(ss) = read
    BY ONLY <2>2
  <2> QED BY <2>3 DEF M
<1> HIDE DEF ss
<1>8. maps \in Seq(Map) /\ \E of, nth : FlatFrom(maps, ss, Len(ss), of, nth)
  BY <1>1, <1>7, FlattenIs
<1>9. PICK of, nth : FlatFrom(maps, ss, read, of, nth)
  BY <1>7, <1>8
<1>10. Len(maps) \in Nat /\ DOMAIN maps = 1 .. Len(maps)
  BY <1>8
<1>11. /\ of \in [1 .. Len(maps) -> 1 .. read] /\ nth \in [1 .. Len(maps) -> Nat]
       /\ \A n \in 1 .. Len(maps) : nth[n] \in 1 .. Len(ss[of[n]]) /\ maps[n] = ss[of[n]][nth[n]]
       /\ \A j, k \in 1 .. Len(maps) :
            j < k => of[j] < of[k] \/ (of[j] = of[k] /\ nth[j] < nth[k])
  BY <1>9 DEF FlatFrom
<1>12. ASSUME NEW n \in 1 .. Len(maps)
       PROVE  LET table == notes[1].desc.table
              IN /\ of[n] = 1 /\ 1 \in DOMAIN notes
                 /\ nth[n] \in DOMAIN table
                 /\ maps[n].start = table[nth[n]].start
                 /\ maps[n].end = table[nth[n]].end
                 /\ maps[n].filesize = 0
  <2>1. of[n] \in 1 .. read
    BY <1>11
  <2>2. of[n] = 1 /\ 1 \in DOMAIN notes /\ read = 1
    BY <1>5, <2>1
  <2>3. ss[1] = parsed[1].maps /\ ss[1] \in Seq(Map)
    BY <1>6, <1>7, <2>2
  <2>4. nth[n] \in DOMAIN ss[1] /\ maps[n] = ss[1][nth[n]]
    BY <1>11, <2>2, <2>3
  <2> QED BY <1>6, <2>2, <2>3, <2>4
<1>13. ASSUME NEW m \in ToSet(maps)
       PROVE  /\ m.filesize = 0
              /\ \E r \in ToSet(c.regions) :
                   m.start = r.start /\ m.end = r.end /\ r.path # NoPath
  <2>1. PICK n \in 1 .. Len(maps) : m = maps[n]
    BY <1>10 DEF ToSet
  <2>2. notes[1].desc.table[nth[n]] \in ToSet(notes[1].desc.table)
    BY <1>12 DEF ToSet
  <2>3. NamesRegions(c, notes[1].desc)
    BY <1>2, <1>12
  <2>4. \E r \in ToSet(c.regions) : /\ notes[1].desc.table[nth[n]].start = r.start
                                     /\ notes[1].desc.table[nth[n]].end = r.end
                                     /\ r.path # NoPath
    BY <2>2, <2>3 DEF NamesRegions
  <2> QED BY <1>12, <2>1, <2>4
<1>14. ASSUME NEW i \in 1 .. Len(maps), NEW j \in 1 .. Len(maps), maps[i].start = maps[j].start
       PROVE  i = j
  <2> DEFINE table == notes[1].desc.table
  <2>1. nth[i] = nth[j] /\ of[i] = 1 /\ of[j] = 1
    <3>1. NamesRegions(c, notes[1].desc)
      BY <1>2, <1>12
    <3>2. \A m, n \in DOMAIN table : table[m].start = table[n].start => m = n
      BY <3>1 DEF NamesRegions
    <3>3. /\ of[i] = 1 /\ of[j] = 1 /\ nth[i] \in DOMAIN table /\ nth[j] \in DOMAIN table
          /\ maps[i].start = table[nth[i]].start /\ maps[j].start = table[nth[j]].start
      BY <1>12
    <3> HIDE DEF table
    <3> QED BY <1>14, <3>2, <3>3
  <2>2. ~(i < j) /\ ~(j < i)
    BY <1>11, <2>1
  <2> QED BY <2>2
<1> QED BY <1>8, <1>10, <1>13, <1>14 DEF maps

\* What is told of the end: its signal, and of who sent it what a note says.
TellsOf(c, info) ==
  /\ info \in FailureInfo
  /\ info.si_signo = c.crash.si_signo
  /\ info.failed_addr # 0 => c.crash.si_signo \in Faulting /\ c.crash.si_code > 0
  /\ info.sender_pid # 0 => info.sender_pid = c.crash.word

LEMMA FailureIs ==
  ASSUME NEW c, NotesAreTrue(c)
  PROVE  TellsOf(c, ExtractFailureInfo(c))
<1> DEFINE T == {k \in DOMAIN c.notes : c.notes[k] # Null}
           notes == c.notes[Min(T)]
           Of(type) == {i \in DOMAIN notes : notes[i].core /\ notes[i].type = type}
           Data(type) == GetNoteData(c, type)
           W(type) == {i \in DOMAIN Data(type) : Data(type)[i].desc.sized}
           Sized(type) == FirstMatch(Data(type), LAMBDA n : n.desc.sized)
<1>1. /\ Min(T) \in T /\ notes \in Seq(ToSet(notes))
      /\ \E n \in ToSet(notes) : n.core /\ n.type = "NT_PRSTATUS" /\ n.desc.sized
      /\ \A n \in ToSet(notes) : TellsTheEnd(c, n)
  <2> DEFINE S == ToSet(c.notes)
  <2>1. c.notes \in Seq(S) /\ T \subseteq DOMAIN c.notes /\ T # {}
    BY DEF NotesAreTrue
  <2>2. Min(T) \in T
    <3> HIDE DEF S, T
    <3> QED BY <2>1, FirstIs
  <2>3. \A k \in T : /\ c.notes[k] \in Seq(ToSet(c.notes[k]))
                     /\ \E n \in ToSet(c.notes[k]) : n.core /\ n.type = "NT_PRSTATUS" /\ n.desc.sized
                     /\ \A n \in ToSet(c.notes[k]) : TellsTheEnd(c, n)
    BY DEF NotesAreTrue
  <2> HIDE DEF T
  <2> QED BY <2>2, <2>3
<1>2. ASSUME NEW type PROVE Data(type) = Selected(notes, Of(type))
  <2>1. FirstMatch(c.notes, LAMBDA segment : segment # Null) = IF T = {} THEN Null ELSE notes
    BY DEF FirstMatch
  <2>2. notes # Null /\ T # {}
    BY <1>1
  <2> HIDE DEF T, notes
  <2>3. FirstMatch(c.notes, LAMBDA segment : segment # Null) = notes
    BY <2>1, <2>2
  <2> QED BY <2>2, <2>3 DEF GetNoteData, Filtered
<1> HIDE DEF T, notes, Data
<1>3. ASSUME NEW type
      PROVE  /\ Data(type) \in Seq(ToSet(notes))
             /\ ToSet(Data(type)) = {notes[i] : i \in Of(type)}
  BY <1>1, <1>2, SelectedSet
<1>4. ASSUME NEW type, Sized(type) # Null
      PROVE  /\ TellsTheEnd(c, Sized(type)) /\ Sized(type).core
             /\ Sized(type).type = type /\ Sized(type).desc.sized
  <2> DEFINE S == ToSet(notes)
             d == Data(type)
  <2>1. Sized(type) = IF W(type) = {} THEN Null ELSE d[Min(W(type))]
    BY DEF FirstMatch
  <2>2. W(type) # {} /\ Sized(type) = d[Min(W(type))]
    <3> HIDE DEF W, Sized, d
    <3> QED BY <1>4, <2>1
  <2>3. W(type) \subseteq DOMAIN d /\ d \in Seq(S)
    BY <1>3
  <2>4. Min(W(type)) \in W(type)
    <3> HIDE DEF W, S, d
    <3> QED BY <2>2, <2>3, FirstIs
  <2>5. d[Min(W(type))].desc.sized /\ d[Min(W(type))] \in ToSet(d)
    BY <2>4 DEF ToSet
  <2>6. PICK i \in Of(type) : Sized(type) = notes[i]
    <3>1. ToSet(d) = {notes[i] : i \in Of(type)}
      BY <1>3
    <3> HIDE DEF d, Sized, Of
    <3> QED BY <2>2, <2>5, <3>1
  <2> HIDE DEF d, Sized
  <2>7. notes[i] \in ToSet(notes)
    BY <2>6 DEF ToSet
  <2> QED BY <1>1, <2>2, <2>5, <2>6, <2>7
<1>5. Sized("NT_PRSTATUS") # Null
  <2> DEFINE S == ToSet(notes)
             d == Data("NT_PRSTATUS")
             V == W("NT_PRSTATUS")
  <2>1. Sized("NT_PRSTATUS") = IF V = {} THEN Null ELSE d[Min(V)]
    BY DEF FirstMatch
  <2>2. PICK i \in DOMAIN notes : notes[i].core /\ notes[i].type = "NT_PRSTATUS" /\ notes[i].desc.sized
    BY <1>1 DEF ToSet
  <2>3. notes[i] \in ToSet(d)
    BY <1>3, <2>2
  <2>4. V # {}
    BY <2>2, <2>3 DEF ToSet
  <2>5. V \subseteq DOMAIN d /\ d \in Seq(S)
    BY <1>3
  <2>6. d[Min(V)] \in S
    <3> HIDE DEF V, d, S
    <3> QED BY <2>4, <2>5, FirstIs
  <2>7. \A n \in S : n # Null
    BY <1>1 DEF TellsTheEnd
  <2> HIDE DEF V, d, S, Sized
  <2> QED BY <2>1, <2>4, <2>6, <2>7
<1>6. ExtractFailureInfo(c) = IF Sized("NT_SIGINFO") # Null THEN ParseCoreSiginfo(Sized("NT_SIGINFO").desc)
                              ELSE IF Sized("NT_PRSTATUS") # Null
                                   THEN ParseCorePrstatus(Sized("NT_PRSTATUS").desc)
                                   ELSE NoCrash
  BY DEF ExtractFailureInfo, Data
<1> HIDE DEF Sized
<1>7. c.crash.si_signo \in STRING /\ c.crash.si_code \in Int /\ c.crash.word \in Int
  BY DEF NotesAreTrue
<1>8. CASE Sized("NT_SIGINFO") # Null
  <2> DEFINE desc == Sized("NT_SIGINFO").desc
             info == ParseCoreSiginfo(desc)
  <2>1. /\ desc.si_signo = c.crash.si_signo /\ desc.si_code = c.crash.si_code
        /\ desc.word = c.crash.word
    BY <1>4, <1>8 DEF TellsTheEnd
  <2> HIDE DEF desc
  <2>2. info \in FailureInfo /\ info.si_signo = desc.si_signo
        /\ info.failed_addr = (IF desc.si_code > 0 /\ desc.si_signo \in Faulting THEN desc.word ELSE 0)
        /\ info.sender_pid = (IF desc.si_code = 0 THEN desc.word ELSE 0)
    BY <1>7, <2>1 DEF ParseCoreSiginfo, FailureInfo
  <2>3. ExtractFailureInfo(c) = info
    BY <1>6, <1>8 DEF desc
  <2> HIDE DEF info
  <2> QED BY <2>1, <2>2, <2>3 DEF TellsOf
<1>9. CASE Sized("NT_SIGINFO") = Null
  <2> DEFINE desc == Sized("NT_PRSTATUS").desc
             info == ParseCorePrstatus(desc)
  <2>1. desc.si_signo = c.crash.si_signo /\ desc.si_code \in Int
    BY <1>4, <1>5 DEF TellsTheEnd
  <2> HIDE DEF desc
  <2>2. info \in FailureInfo /\ info.si_signo = desc.si_signo
        /\ info.failed_addr = 0 /\ info.sender_pid = 0
    BY <1>7, <2>1 DEF ParseCorePrstatus, FailureInfo
  <2>3. ExtractFailureInfo(c) = info
    BY <1>5, <1>6, <1>9 DEF desc
  <2> HIDE DEF info
  <2> QED BY <2>1, <2>2, <2>3 DEF TellsOf
<1> QED BY <1>8, <1>9

\* All maps of a core: in order, each of a region, and of a region of which something
\* was dumped there is the map that says so.
MapsAre(c, maps) ==
  /\ maps \in Seq(Map)
  /\ InOrderOf(maps)
  /\ \A m \in ToSet(maps) :
       \E r \in ToSet(c.regions) :
         m.start = r.start /\ m.end = r.end /\ (m.filesize # 0 => MapOf(r, m))
  /\ \A r \in ToSet(c.regions) : r.dumped > 0 => \E m \in ToSet(maps) : MapOf(r, m)

\* What NT_FILE says of them.
MappedAre(c, mapped) ==
  /\ mapped \in Seq(Map)
  /\ \A m \in ToSet(mapped) :
       /\ m.filesize = 0
       /\ \E r \in ToSet(c.regions) : m.start = r.start /\ m.end = r.end /\ r.path # NoPath
  /\ \A i, j \in DOMAIN mapped : mapped[i].start = mapped[j].start => i = j

LEMMA MapIs ==
  ASSUME NEW m \in Map, NEW p \in Path \cup {NoPath}
  PROVE  /\ [m EXCEPT !.path = p] \in Map
         /\ [m EXCEPT !.path = p].start = m.start
         /\ [m EXCEPT !.path = p].end = m.end
         /\ [m EXCEPT !.path = p].filesize = m.filesize
         /\ [m EXCEPT !.path = p].offset = m.offset
  BY DEF Map

LEMMA PathOfSegmentsIs ==
  ASSUME NEW memory \in Seq(Map), NEW missing, NEW disk, NEW path \in Path \cup {NoPath}
  PROVE  PathOfSegments(missing, memory, disk, path) \in Path \cup {NoPath}
<1> DEFINE wanted == {Resolved(disk, m.path) : m \in {m \in ToSet(missing) : m.path # NoPath}}
           T == {i \in DOMAIN memory : /\ memory[i].path # NoPath
                                      /\ Exists(disk, memory[i].path)
                                      /\ disk[memory[i].path].real \in wanted
                                      /\ disk[memory[i].path].real = Resolved(disk, path)}
           segments == Selected(memory, T)
           M == Map
<1>1. PathOfSegments(missing, memory, disk, path) =
        IF segments = <<>> THEN path ELSE Last(segments).path
  BY DEF PathOfSegments, Filtered
<1>2. segments \in Seq(M)
  <2> HIDE DEF T, M
  <2>1. memory \in Seq(M)
    BY DEF M
  <2> QED BY <2>1, SelectedIs
<1> HIDE DEF segments, M
<1>3. segments # <<>> => Last(segments) \in M
  BY <1>2 DEF Last
<1> QED BY <1>1, <1>3 DEF M, Map

\* Another path than that it is given is one with the same canonical path.
LEMMA PathOfSegmentsKeeps ==
  ASSUME NEW memory \in Seq(Map), NEW missing, NEW disk, NEW path \in Path \cup {NoPath}
  PROVE  LET p == PathOfSegments(missing, memory, disk, path)
         IN p = path \/ (Exists(disk, p) /\ p # NoPath /\ disk[p].real = Resolved(disk, path))
<1> DEFINE wanted == {Resolved(disk, m.path) : m \in {m \in ToSet(missing) : m.path # NoPath}}
           T == {i \in DOMAIN memory : /\ memory[i].path # NoPath
                                      /\ Exists(disk, memory[i].path)
                                      /\ disk[memory[i].path].real \in wanted
                                      /\ disk[memory[i].path].real = Resolved(disk, path)}
           segments == Selected(memory, T)
           M == Map
<1>1. PathOfSegments(missing, memory, disk, path) =
        IF segments = <<>> THEN path ELSE Last(segments).path
  BY DEF PathOfSegments, Filtered
<1>2. segments \in Seq(M) /\ ToSet(segments) = {memory[i] : i \in T}
  <2>1. memory \in Seq(M) /\ T \subseteq DOMAIN memory
    OBVIOUS
  <2> HIDE DEF T, M
  <2> QED BY <2>1, SelectedSet
<1>3. \A i \in T : /\ memory[i].path # NoPath
                   /\ Exists(disk, memory[i].path)
                   /\ disk[memory[i].path].real = Resolved(disk, path)
  OBVIOUS
<1> HIDE DEF segments, M, T
<1>4. segments # <<>> => Last(segments) \in ToSet(segments)
  BY <1>2 DEF Last, ToSet
<1> QED BY <1>1, <1>2, <1>3, <1>4

\* A list of maps is made of the segments and of the files that they miss, each under
\* the path that its file has among the segments.
MadeOf(map, missing, memory, disk, m) ==
  /\ map.start = m.start
  /\ map.path = IF m.path = NoPath THEN NoPath ELSE PathOfSegments(missing, memory, disk, m.path)

MadeFrom(maps, missing, memory, disk) ==
  /\ \A i \in DOMAIN maps : \E m \in ToSet(memory) \cup ToSet(missing) :
       MadeOf(maps[i], missing, memory, disk, m)
  /\ \A m \in ToSet(memory) : \E i \in DOMAIN maps : MadeOf(maps[i], missing, memory, disk, m)

\* No two regions begin at the same address, or overlap.
LEMMA ApartIs ==
  ASSUME NEW c, RegionsAreApart(c)
  PROVE  /\ \A r \in ToSet(c.regions) : r.start \in Nat /\ r.end \in Nat /\ r.start < r.end
         /\ \A q, r \in ToSet(c.regions) : q.start <= r.start => q = r \/ q.end <= r.start
<1>1. c.regions \in Seq(Region) /\ \A r \in Region : r.start \in Nat /\ r.end \in Nat
  BY DEF RegionsAreApart, Region
<1>2. \A r \in ToSet(c.regions) : r \in Region /\ r.start < r.end
  BY <1>1 DEF ToSet, RegionsAreApart
<1>3. ASSUME NEW q \in ToSet(c.regions), NEW r \in ToSet(c.regions), q.start <= r.start
      PROVE  q = r \/ q.end <= r.start
  <2>1. PICK i \in DOMAIN c.regions : q = c.regions[i]
    BY DEF ToSet
  <2>2. PICK j \in DOMAIN c.regions : r = c.regions[j]
    BY DEF ToSet
  <2>3. i \in Nat /\ j \in Nat
    BY <1>1
  <2>4. /\ i < j => q.end <= r.start
        /\ j < i => r.end <= q.start
    BY <2>1, <2>2 DEF RegionsAreApart
  <2>5. q.start \in Nat /\ q.end \in Nat /\ r.start \in Nat /\ r.end \in Nat /\ r.start < r.end
    BY <1>1, <1>2
  <2> QED BY <1>3, <2>1, <2>2, <2>3, <2>4, <2>5
<1> QED BY <1>1, <1>2, <1>3

\* No two of the maps that are put in order begin at the same address.
LEMMA CoreMapsAre ==
  ASSUME NEW c, RegionsAreApart(c), NEW memory, MapsAre(c, memory),
         NEW mapped, MappedAre(c, mapped), NEW disk
  PROVE  LET maps == ParseCoreFileMaps(mapped, memory, disk)
         IN /\ MapsAre(c, maps)
            /\ MadeFrom(maps, MissingMappedFiles(mapped, memory), memory, disk)
<1> DEFINE M == Map
           ranges == {<<m.start, m.end>> : m \in ToSet(memory)}
           T == {i \in DOMAIN mapped : <<mapped[i].start, mapped[i].end>> \notin ranges}
           missing == Selected(mapped, T)
           all == memory \o missing
           sorted == Sorted(all)
           P(p) == PathOfSegments(missing, memory, disk, p)
           maps == ParseCoreFileMaps(mapped, memory, disk)
           K == Len(memory)
           L == Len(missing)
           N == K + L
<1>1. /\ memory \in Seq(M) /\ InOrderOf(memory) /\ mapped \in Seq(M)
  BY DEF MapsAre, MappedAre
<1>2. \A m \in M : m.start \in Nat /\ m.end \in Nat /\ m.path \in Path \cup {NoPath}
  BY DEF Map
<1>3. missing \in Seq(M) /\ \E at : TakenFrom(missing, mapped, Len(mapped), T, at)
  <2> HIDE DEF M, T
  <2> QED BY <1>1, SelectedIs
<1>4. maps = [i \in DOMAIN sorted |-> IF sorted[i].path = NoPath THEN sorted[i]
                                     ELSE [sorted[i] EXCEPT !.path = P(@)]]
  BY DEF ParseCoreFileMaps, MissingMappedFiles, Filtered
<1>5. ASSUME NEW m \in M PROVE P(m.path) \in Path \cup {NoPath}
  <2> HIDE DEF missing
  <2> QED BY <1>1, <1>2, PathOfSegmentsIs
<1>6. PICK at : TakenFrom(missing, mapped, Len(mapped), T, at)
  BY <1>3
<1> HIDE DEF M, P, missing, maps
<1>7. /\ K \in Nat /\ DOMAIN memory = 1 .. K /\ L \in Nat /\ DOMAIN missing = 1 .. L
      /\ all \in Seq(M) /\ Len(all) = N /\ N \in Nat /\ DOMAIN all = 1 .. N
      /\ \A i \in 1 .. K : all[i] = memory[i]
      /\ \A i \in 1 .. L : all[K + i] = missing[i]
      /\ \A i \in 1 .. N : i \in 1 .. K \/ (i - K \in 1 .. L /\ all[i] = missing[i - K])
  BY <1>1, <1>3
<1>8. /\ \A i \in 1 .. L : at[i] \in DOMAIN mapped /\ at[i] \in T /\ missing[i] = mapped[at[i]]
      /\ \A i, j \in 1 .. L : i < j => at[i] < at[j]
  <2>1. /\ \A i \in 1 .. L : at[i] \in T /\ missing[i] = mapped[at[i]]
        /\ \A i, j \in 1 .. L : i < j => at[i] < at[j]
    BY <1>6 DEF TakenFrom
  <2> QED BY <2>1
<1>9. DOMAIN mapped \subseteq Nat
  BY <1>1
<1> DEFINE In(r, m) == m.start = r.start /\ m.end = r.end
<1>10. ASSUME NEW i \in 1 .. K
       PROVE  \E r \in ToSet(c.regions) : In(r, memory[i]) /\ (memory[i].filesize # 0 => MapOf(r, memory[i]))
  <2>1. memory[i] \in ToSet(memory)
    BY <1>7 DEF ToSet
  <2>2. \A m \in ToSet(memory) :
          \E r \in ToSet(c.regions) : In(r, m) /\ (m.filesize # 0 => MapOf(r, m))
    BY ONLY MapsAre(c, memory) DEF MapsAre
  <2> HIDE DEF In, K
  <2> QED BY <2>1, <2>2
<1>11. ASSUME NEW i \in 1 .. L
       PROVE  /\ \E r \in ToSet(c.regions) : In(r, missing[i])
              /\ missing[i].filesize = 0
              /\ \A m \in ToSet(memory) : missing[i].start # m.start \/ missing[i].end # m.end
  <2>1. missing[i] = mapped[at[i]] /\ mapped[at[i]] \in ToSet(mapped) /\ at[i] \in T
    BY <1>8 DEF ToSet
  <2>2. <<missing[i].start, missing[i].end>> \notin ranges
    BY <2>1
  <2>3. \A m \in ToSet(memory) : <<m.start, m.end>> \in ranges
    OBVIOUS
  <2> QED BY <2>1, <2>2, <2>3 DEF MappedAre
<1>12. \A i \in 1 .. N : \E r \in ToSet(c.regions) :
         In(r, all[i]) /\ (all[i].filesize # 0 => MapOf(r, all[i]))
  <2> TAKE i \in 1 .. N
  <2> HIDE DEF all, In, K, L, N
  <2>1. CASE i \in 1 .. K
    BY <1>7, <1>10, <2>1
  <2>2. CASE i - K \in 1 .. L /\ all[i] = missing[i - K]
    BY <1>11, <2>2
  <2> QED BY <1>7, <2>1, <2>2
<1>13. /\ \A r \in ToSet(c.regions) : r.start \in Nat /\ r.end \in Nat /\ r.start < r.end
       /\ \A q, r \in ToSet(c.regions) : q.start <= r.start => q = r \/ q.end <= r.start
  BY ApartIs
<1>14. \A i, j \in 1 .. K : i < j => all[i].start # all[j].start
  <2> SUFFICES ASSUME NEW i \in 1 .. K, NEW j \in 1 .. K, i < j
               PROVE  memory[i].start # memory[j].start
    BY <1>7
  <2>1. memory[i].end <= memory[j].start
    BY <1>7 DEF MapsAre, InOrderOf
  <2>2. memory[i].start < memory[i].end /\ memory[i].start \in Nat /\ memory[i].end \in Nat
    BY <1>10, <1>13
  <2>3. memory[j].start \in Nat
    BY <1>10, <1>13
  <2> QED BY <2>1, <2>2, <2>3
<1>15. \A i, j \in 1 .. L : i < j => missing[i].start # missing[j].start
  <2> SUFFICES ASSUME NEW i \in 1 .. L, NEW j \in 1 .. L, i < j, missing[i].start = missing[j].start
               PROVE  FALSE
    OBVIOUS
  <2>1. at[i] \in DOMAIN mapped /\ at[j] \in DOMAIN mapped /\ at[i] < at[j]
    BY <1>8
  <2>2. at[i] = at[j]
    BY <1>8, <2>1 DEF MappedAre
  <2> QED BY <1>9, <2>1, <2>2
<1>16. \A i \in 1 .. K, j \in 1 .. L : memory[i].start # missing[j].start
  <2> SUFFICES ASSUME NEW i \in 1 .. K, NEW j \in 1 .. L, memory[i].start = missing[j].start
               PROVE  FALSE
    OBVIOUS
  <2>1. PICK q \in ToSet(c.regions) : In(q, memory[i])
    BY <1>10
  <2>2. PICK r \in ToSet(c.regions) : In(r, missing[j])
    BY <1>11
  <2>3. q = r
    <3>1. q.start = r.start
      BY <2>1, <2>2
    <3> QED BY ONLY <1>13, <3>1, q \in ToSet(c.regions), r \in ToSet(c.regions)
  <2>4. memory[i] \in ToSet(memory)
    BY <1>7 DEF ToSet
  <2> QED BY <1>11, <2>1, <2>2, <2>3, <2>4
<1>17. \A i, j \in 1 .. N : i < j => all[i].start # all[j].start
  <2> SUFFICES ASSUME NEW i \in 1 .. N, NEW j \in 1 .. N, i < j PROVE all[i].start # all[j].start
    OBVIOUS
  <2>1. CASE i \in 1 .. K /\ j \in 1 .. K
    BY <1>14, <2>1
  <2>2. CASE i \in 1 .. K /\ j \notin 1 .. K
    BY <1>7, <1>16, <2>2
  <2>3. CASE i \notin 1 .. K
    <3>1. j \notin 1 .. K /\ i - K \in 1 .. L /\ j - K \in 1 .. L /\ i - K < j - K
      BY <1>7, <2>3
    <3> HIDE DEF all
    <3> QED BY <1>7, <1>15, <2>3, <3>1
  <2> QED BY <2>1, <2>2, <2>3
<1> HIDE DEF all, sorted, In, K, L, N
<1>18. sorted \in Seq(M) /\ \E place : SortedFrom(sorted, all, place)
  BY <1>2, <1>7, SortedIs DEF sorted
<1>19. PICK place : SortedFrom(sorted, all, place)
  BY <1>18
<1>20. /\ DOMAIN sorted = 1 .. N
       /\ \A r \in 1 .. N : place[r] \in 1 .. N /\ sorted[r] = all[place[r]] /\ sorted[r] \in M
       /\ \A q, r \in 1 .. N : place[q] = place[r] => q = r
       /\ \A n \in 1 .. N : \E r \in 1 .. N : place[r] = n
       /\ \A q, r \in 1 .. N : q < r => sorted[q].start <= sorted[r].start
  <2>1. Len(sorted) = N /\ DOMAIN sorted = 1 .. N
    BY <1>7, <1>18, <1>19 DEF SortedFrom
  <2>2. \A r \in 1 .. N : sorted[r] \in M
    BY <1>18, <2>1
  <2> QED BY <1>7, <1>19, <2>1, <2>2 DEF SortedFrom
<1>21. ASSUME NEW i \in 1 .. N
       PROVE  /\ maps[i] \in M /\ maps[i].start = sorted[i].start /\ maps[i].end = sorted[i].end
              /\ maps[i].filesize = sorted[i].filesize /\ maps[i].offset = sorted[i].offset
  <2>1. sorted[i] \in Map /\ P(sorted[i].path) \in Path \cup {NoPath}
    BY <1>5, <1>20 DEF M
  <2>2. maps[i] = IF sorted[i].path = NoPath THEN sorted[i]
                  ELSE [sorted[i] EXCEPT !.path = P(sorted[i].path)]
    BY <1>4, <1>20
  <2> QED BY <2>1, <2>2, MapIs DEF M
<1>22. maps \in Seq(M) /\ DOMAIN maps = 1 .. N
  <2>1. maps \in [1 .. N -> M]
    <3>1. maps = [i \in 1 .. N |-> maps[i]]
      BY <1>4, <1>20
    <3> QED BY <1>21, <3>1
  <2> QED BY ONLY <1>7, <2>1
<1>23. \A i \in 1 .. N : \E r \in ToSet(c.regions) :
         In(r, maps[i]) /\ (maps[i].filesize # 0 => MapOf(r, maps[i]))
  <2> TAKE i \in 1 .. N
  <2>1. PICK r \in ToSet(c.regions) :
          In(r, all[place[i]]) /\ (all[place[i]].filesize # 0 => MapOf(r, all[place[i]]))
    BY <1>12, <1>20
  <2> DEFINE m == maps[i]
             n == all[place[i]]
  <2>2. m.start = n.start /\ m.end = n.end /\ m.filesize = n.filesize /\ m.offset = n.offset
    BY <1>20, <1>21
  <2> HIDE DEF m, n
  <2>3. In(r, m) /\ (m.filesize # 0 => MapOf(r, m))
    BY <2>1, <2>2 DEF In, MapOf, n
  <2> QED BY <2>3 DEF m
<1>24. InOrderOf(maps)
  <2> SUFFICES ASSUME NEW i \in 1 .. N, NEW j \in 1 .. N, i < j PROVE maps[i].end <= maps[j].start
    BY <1>22 DEF InOrderOf
  <2>1. maps[i].start <= maps[j].start
    BY <1>20, <1>21
  <2>2. maps[i].start # maps[j].start
    <3>1. place[i] # place[j] /\ place[i] \in 1 .. N /\ place[j] \in 1 .. N
      <4>1. N \in Nat
        BY <1>7
      <4>2. i # j
        BY <4>1
      <4> QED BY <1>20, <4>2
    <3>2. all[place[i]].start # all[place[j]].start
      BY <1>7, <1>17, <3>1
    <3>3. maps[i].start = sorted[i].start /\ maps[j].start = sorted[j].start
      BY <1>21
    <3>4. sorted[i] = all[place[i]] /\ sorted[j] = all[place[j]]
      BY <1>20
    <3> QED BY <3>2, <3>3, <3>4
  <2>3. PICK q \in ToSet(c.regions) : In(q, maps[i])
    BY <1>23
  <2>4. PICK r \in ToSet(c.regions) : In(r, maps[j])
    BY <1>23
  <2> QED BY <1>13, <2>1, <2>2, <2>3, <2>4 DEF In
<1>25. ASSUME NEW r \in ToSet(c.regions), r.dumped > 0
       PROVE  \E m \in ToSet(maps) : MapOf(r, m)
  <2>1. PICK i \in 1 .. K : MapOf(r, memory[i])
    BY <1>7, <1>25 DEF MapsAre, ToSet
  <2>2. i \in 1 .. N /\ all[i] = memory[i]
    BY <1>7 DEF N
  <2>3. PICK n \in 1 .. N : place[n] = i
    BY <1>20, <2>2
  <2>4. MapOf(r, maps[n])
    BY <1>20, <1>21, <2>1, <2>2, <2>3, SMTT(30) DEF MapOf
  <2> QED BY <1>22, <2>4 DEF ToSet
<1>26. \A m \in ToSet(maps) : \E r \in ToSet(c.regions) :
         m.start = r.start /\ m.end = r.end /\ (m.filesize # 0 => MapOf(r, m))
  BY <1>22, <1>23 DEF ToSet, In
<1>27. ASSUME NEW i \in 1 .. N
       PROVE  MadeOf(maps[i], missing, memory, disk, all[place[i]])
  <2>1. sorted[i] \in Map /\ P(sorted[i].path) \in Path \cup {NoPath}
    BY <1>5, <1>20 DEF M
  <2>2. maps[i] = IF sorted[i].path = NoPath THEN sorted[i]
                  ELSE [sorted[i] EXCEPT !.path = P(sorted[i].path)]
    BY <1>4, <1>20
  <2>3. maps[i].path = IF sorted[i].path = NoPath THEN NoPath ELSE P(sorted[i].path)
    BY <2>1, <2>2 DEF Map
  <2>4. maps[i].start = sorted[i].start /\ sorted[i] = all[place[i]]
    BY <1>20, <1>21
  <2> QED BY <2>3, <2>4 DEF MadeOf, P
<1>28. MadeFrom(maps, missing, memory, disk)
  <2>1. \A i \in 1 .. N : all[i] \in ToSet(memory) \cup ToSet(missing)
    BY <1>7 DEF ToSet
  <2>2. \A i \in 1 .. N : \E m \in ToSet(memory) \cup ToSet(missing) :
          MadeOf(maps[i], missing, memory, disk, m)
    BY <1>20, <1>27, <2>1
  <2>3. ASSUME NEW m \in ToSet(memory)
        PROVE  \E i \in 1 .. N : MadeOf(maps[i], missing, memory, disk, m)
    <3>1. PICK k \in 1 .. K : m = memory[k]
      BY <1>7 DEF ToSet
    <3>2. k \in 1 .. N /\ all[k] = m
      BY <1>7, <3>1 DEF N
    <3>3. PICK i \in 1 .. N : place[i] = k
      BY <1>20, <3>2
    <3> QED BY <1>27, <3>2, <3>3
  <2> QED BY <1>22, <2>2, <2>3 DEF MadeFrom
<1>29. missing = MissingMappedFiles(mapped, memory)
  BY DEF missing, MissingMappedFiles, Filtered
<1> QED BY <1>22, <1>24, <1>25, <1>26, <1>28, <1>29 DEF MapsAre, M, maps

\* The maps of the manager.
LEMMA ManagerMapsAre ==
  ASSUME NEW c, IsCore(c), NEW info \in Seq(Module)
  PROVE  LET memory == MemoryMaps(c, info)
             mapped == ExtractMappedFiles(c)
             maps == ParseCoreFileMaps(mapped, memory, c.disk)
         IN /\ MapsAre(c, maps)
            /\ MadeFrom(maps, MissingMappedFiles(mapped, memory), memory, c.disk)
<1> DEFINE memory == MemoryMaps(c, info)
           mapped == ExtractMappedFiles(c)
<1>1. RegionsAreApart(c) /\ NotesAreTrue(c) /\ MappedFilesAreTrue(c)
  BY DEF IsCore
<1>2. /\ memory \in Seq(Map)
      /\ InOrderOf(memory)
      /\ \A m \in ToSet(memory) : \E r \in ToSet(c.regions) : MapOf(r, m)
      /\ \A r \in ToSet(c.regions) :
           r.dumped > 0 \/ ~c.omits => \E m \in ToSet(memory) : MapOf(r, m)
  BY <1>1, MemoryMapsAre
<1>3. MappedAre(c, mapped)
  BY <1>1, MappedFilesAre DEF MappedAre
<1> HIDE DEF memory, mapped
<1>4. \A m \in ToSet(memory) : \E r \in ToSet(c.regions) :
        m.start = r.start /\ m.end = r.end /\ (m.filesize # 0 => MapOf(r, m))
  BY <1>2 DEF MapOf
<1>5. MapsAre(c, memory)
  BY <1>2, <1>4 DEF MapsAre
<1>6. LET maps == ParseCoreFileMaps(mapped, memory, c.disk)
      IN /\ MapsAre(c, maps)
         /\ MadeFrom(maps, MissingMappedFiles(mapped, memory), memory, c.disk)
  BY <1>1, <1>3, <1>5, CoreMapsAre
<1> QED BY <1>6 DEF memory, mapped

-----------------------------------------------------------------------------
(* Reads.                                                                   *)

\* What is asked for is found in the core if it was dumped, where it was dumped.
LEMMA LocationInCoreIs ==
  ASSUME NEW c, RegionsAreApart(c), NEW maps, MapsAre(c, maps), NEW addr \in Nat
  PROVE  LET r == RegionOf(c, addr)
         IN GetMemoryLocationFromCore(maps, addr) =
              IF InCore(r, addr) THEN (r.at - r.start) + addr ELSE Null
<1> DEFINE T == {i \in DOMAIN maps : /\ maps[i].start <= addr
                                     /\ addr < maps[i].start + maps[i].filesize
                                     /\ maps[i].filesize # 0 /\ maps[i].offset # 0}
           M == Map
           R == ToSet(c.regions)
           Found == FirstMatch(maps, LAMBDA m : /\ m.start <= addr /\ addr < m.start + m.filesize
                                               /\ m.filesize # 0 /\ m.offset # 0)
           region == RegionOf(c, addr)
<1>1. Found = IF T = {} THEN Null ELSE maps[Min(T)]
  BY DEF FirstMatch
<1>2. GetMemoryLocationFromCore(maps, addr) =
        IF Found = Null THEN Null ELSE (Found.offset - Found.start) + addr
  BY DEF GetMemoryLocationFromCore
<1>3. maps \in Seq(M)
  BY DEF MapsAre
<1>4. T # {} => Min(T) \in T /\ maps[Min(T)] \in M
  <2> HIDE DEF M
  <2>1. T \subseteq DOMAIN maps
    OBVIOUS
  <2> HIDE DEF T
  <2> QED BY <1>3, <2>1, FirstIs
<1>5. \A r \in R : /\ r.start \in Nat /\ r.end \in Nat /\ r.dumped \in Nat /\ r.at \in Nat \ {0}
                   /\ r.start + r.dumped <= r.end
  <2>1. \A r \in R : r \in Region
    BY DEF RegionsAreApart, ToSet
  <2> QED BY <2>1 DEF RegionsAreApart, Region
<1>6. /\ region # Null => region \in R /\ ContainsAddr(region, addr)
      /\ \A r \in R : ContainsAddr(r, addr) => region = r
  BY RegionOfIs
<1>7. Null \notin M
  BY CoreFileAssumption DEF M
<1>8. ASSUME NEW i \in T
      PROVE  InCore(region, addr) /\ MapOf(region, maps[i])
  <2>1. maps[i] \in ToSet(maps) /\ maps[i].filesize # 0
    BY DEF ToSet
  <2>2. PICK r \in R : MapOf(r, maps[i])
    BY <2>1 DEF MapsAre
  <2>3. r.start <= addr /\ addr < r.start + r.dumped
    BY <2>2 DEF MapOf
  <2>4. region = r
    BY <1>5, <1>6, <2>3 DEF ContainsAddr
  <2>5. region # Null
    <3>1. r \in Region
      BY DEF RegionsAreApart, ToSet
    <3> QED BY <2>4, <3>1, CoreFileAssumption
  <2> HIDE DEF region
  <2> QED BY <2>2, <2>3, <2>4, <2>5 DEF InCore
<1>9. ASSUME InCore(region, addr) PROVE T # {}
  <2>1. region \in R /\ region.start <= addr /\ addr < region.start + region.dumped
    BY <1>6, <1>9 DEF InCore, ContainsAddr
  <2> HIDE DEF region
  <2>2. region.dumped > 0
    BY <1>5, <2>1
  <2>3. PICK m \in ToSet(maps) : MapOf(region, m)
    BY <2>1, <2>2 DEF MapsAre
  <2>4. PICK i \in DOMAIN maps : m = maps[i]
    BY <2>3 DEF ToSet
  <2>5. m.filesize # 0 /\ m.offset # 0
    BY <1>5, <2>1, <2>2, <2>3 DEF MapOf
  <2> QED BY <2>1, <2>3, <2>4, <2>5 DEF MapOf
<1> HIDE DEF T, Found, region, M
<1>10. CASE T = {}
  BY <1>1, <1>2, <1>9, <1>10 DEF region
<1>11. CASE T # {}
  <2>1. Found = maps[Min(T)] /\ Found # Null /\ Min(T) \in T
    BY <1>1, <1>4, <1>7, <1>11
  <2>2. InCore(region, addr) /\ MapOf(region, Found)
    BY <1>8, <2>1
  <2> QED BY <1>2, <2>1, <2>2 DEF MapOf, region
<1> QED BY <1>10, <1>11

\* A cell of the core is what the region held of which it was dumped.
LEMMA CoreCellIs ==
  ASSUME NEW c, RegionsAreApart(c), NEW r \in ToSet(c.regions), NEW offset \in Nat,
         r.at <= offset, offset < r.at + r.dumped
  PROVE  CoreCell(c, offset) = Held(r, r.start + (offset - r.at))
<1> DEFINE T == {i \in DOMAIN c.regions : c.regions[i].at <= offset
                                          /\ offset < c.regions[i].at + c.regions[i].dumped}
           At == FirstMatch(c.regions, LAMBDA q : q.at <= offset /\ offset < q.at + q.dumped)
<1>1. At = IF T = {} THEN Null ELSE c.regions[Min(T)]
  BY DEF FirstMatch
<1>2. CoreCell(c, offset) =
        IF At = Null THEN <<"header", offset>> ELSE Held(At, At.start + (offset - At.at))
  BY DEF CoreCell
<1>3. c.regions \in Seq(Region)
  BY DEF RegionsAreApart
<1>4. PICK i \in DOMAIN c.regions : r = c.regions[i]
  BY DEF ToSet
<1>5. i \in T
  BY <1>4
<1>6. ASSUME NEW j \in T PROVE j = i
  <2>1. j \in DOMAIN c.regions /\ c.regions[j] \in Region /\ c.regions[i] \in Region
    BY <1>3
  <2>2. /\ c.regions[j].at \in Nat /\ c.regions[j].dumped \in Nat
        /\ c.regions[i].at \in Nat /\ c.regions[i].dumped \in Nat
    BY <2>1 DEF Region
  <2>3. i \in Nat /\ j \in Nat
    BY <1>3, <2>1
  <2>4. /\ i < j => c.regions[i].at + c.regions[i].dumped <= c.regions[j].at
        /\ j < i => c.regions[j].at + c.regions[j].dumped <= c.regions[i].at
    BY <2>1 DEF RegionsAreApart
  <2>5. /\ c.regions[j].at <= offset /\ offset < c.regions[j].at + c.regions[j].dumped
        /\ c.regions[i].at <= offset /\ offset < c.regions[i].at + c.regions[i].dumped
    BY <1>5
  <2> HIDE DEF T
  <2> QED BY <2>2, <2>3, <2>4, <2>5
<1>7. T \subseteq DOMAIN c.regions
  OBVIOUS
<1> HIDE DEF T, At
<1>8. Min(T) = i
  BY <1>3, <1>5, <1>6, <1>7, FirstIs
<1>9. At = r /\ r # Null
  BY <1>1, <1>3, <1>4, <1>5, <1>8, CoreFileAssumption
<1> QED BY <1>2, <1>9

\* The module for an address, and the file it begins with.
LibOf(libs, addr) == FirstMatch(libs, LAMBDA m : ContainsAddr(m, addr))

FileIn(c, libs, addr) ==
  LET lib == LibOf(libs, addr)
  IN IF lib = Null THEN [image |-> Null, path |-> Null]
     ELSE [image |-> RegionOf(c, lib.start).image, path |-> lib.path]

IsTheFile(c, libs, addr) ==
  LET file == FileIn(c, libs, addr)
  IN file.path # Null /\ Exists(c.disk, file.path) /\ c.disk[file.path].elf = file.image

IsAnotherFile(c, libs, addr) ==
  LET file == FileIn(c, libs, addr)
  IN file.path # Null /\ Exists(c.disk, file.path) /\ c.disk[file.path].elf # file.image

ModulesAre(c, libs) == libs \in Seq(Module) /\ \A m \in ToSet(libs) : ModuleOf(c, m)

\* A module begins with the file f.
BeginsWith(c, libs, addr, f) ==
  LET lib == LibOf(libs, addr)
  IN /\ f \in ToSet(c.regions) /\ IsFirstOfImage(f) /\ lib.start = f.start
     /\ FileIn(c, libs, addr) = [image |-> f.image, path |-> lib.path]
     /\ IsTheFile(c, libs, addr) => lib.end = f.start + Image[f.image].extent

LEMMA LibOfIs ==
  ASSUME NEW c, RegionsAreApart(c), NEW libs, ModulesAre(c, libs), NEW addr \in Nat,
         LibOf(libs, addr) # Null
  PROVE  LET lib == LibOf(libs, addr)
         IN /\ lib \in Module /\ lib \in ToSet(libs) /\ ContainsAddr(lib, addr)
            /\ \E f : BeginsWith(c, libs, addr, f)
<1> DEFINE T == {i \in DOMAIN libs : ContainsAddr(libs[i], addr)}
           lib == LibOf(libs, addr)
           M == Module
<1>1. lib = IF T = {} THEN Null ELSE libs[Min(T)]
  BY DEF LibOf, FirstMatch
<1>2. libs \in Seq(M) /\ T \subseteq DOMAIN libs
  BY DEF ModulesAre
<1>3. T # {} /\ lib = libs[Min(T)]
  <2> HIDE DEF T
  <2> QED BY <1>1
<1>4. Min(T) \in T /\ libs[Min(T)] \in M
  <2> HIDE DEF T, M
  <2> QED BY <1>2, <1>3, FirstIs
<1>5. libs[Min(T)] \in ToSet(libs) /\ ContainsAddr(libs[Min(T)], addr)
  BY <1>4 DEF ToSet
<1> HIDE DEF T, lib
<1>6. lib \in Module /\ lib \in ToSet(libs) /\ ContainsAddr(lib, addr) /\ ModuleOf(c, lib)
      /\ lib # Null
  BY <1>3, <1>4, <1>5 DEF ModulesAre, lib
<1>7. PICK f \in ToSet(c.regions) :
        /\ IsFirstOfImage(f)
        /\ lib.start = f.start
        /\ (lib.path \in DOMAIN c.disk => c.disk[lib.path].elf = f.image) =>
             lib.end = f.start + Image[f.image].extent
  BY <1>6 DEF ModuleOf
<1>8. f.start \in Nat /\ f.end \in Nat /\ f.start < f.end
  <2>1. f \in Region
    BY DEF RegionsAreApart, ToSet
  <2> QED BY <2>1 DEF RegionsAreApart, Region
<1>9. RegionOf(c, lib.start) = f
  BY <1>7, <1>8, RegionOfIs DEF ContainsAddr
<1>10. FileIn(c, libs, addr) = [image |-> f.image, path |-> lib.path]
  BY <1>6, <1>9 DEF FileIn, lib
<1>11. BeginsWith(c, libs, addr, f)
  BY <1>7, <1>10 DEF BeginsWith, lib, IsTheFile, Exists
<1> QED BY <1>6, <1>11 DEF lib

\* The cache holds the headers of files that are there.
CacheIsTrue(disk, cache) ==
  \A p \in DOMAIN cache : /\ Exists(disk, p)
                          /\ disk[p].elf # Script
                          /\ cache[p] = Image[disk[p].elf].segments

LEMMA InitLoadSegmentsIs ==
  ASSUME NEW disk, NEW cache, CacheIsTrue(disk, cache), NEW p
  PROVE  LET new == InitLoadSegments(disk, p, cache)
         IN /\ CacheIsTrue(disk, new)
            /\ DOMAIN cache \subseteq DOMAIN new
            /\ Exists(disk, p) /\ disk[p].elf # Script => p \in DOMAIN new
<1> DEFINE segments == Image[disk[p].elf].segments
           new == With(cache, p, segments)
<1>1. CASE ~(Exists(disk, p) /\ disk[p].elf # Script)
  BY <1>1 DEF InitLoadSegments
<1>2. CASE Exists(disk, p) /\ disk[p].elf # Script
  <2>1. InitLoadSegments(disk, p, cache) = new
    BY <1>2 DEF InitLoadSegments
  <2>2. /\ DOMAIN new = DOMAIN cache \cup {p}
        /\ \A q \in DOMAIN new : new[q] = IF q = p THEN segments ELSE cache[q]
    BY DEF With
  <2> HIDE DEF new
  <2>3. CacheIsTrue(disk, new)
    BY <1>2, <2>2 DEF CacheIsTrue
  <2> QED BY <1>2, <2>1, <2>2, <2>3
<1> QED BY <1>1, <1>2

\* The segment that is at an address of a module of an ELF file, if there is one.
VaddrOf(lib, i, addr) == addr - lib.start + Image[i].segments[1].vaddr

IsAt(s, vaddr) == vaddr >= s.vaddr /\ vaddr < s.vaddr + s.size

FoundInFile(c, libs, addr, elf) ==
  LET lib == LibOf(libs, addr)
      i == c.disk[lib.path].elf
      vaddr == VaddrOf(lib, i, addr)
  IN /\ lib # Null /\ Exists(c.disk, lib.path) /\ i # Script
     /\ elf.path = lib.path
     /\ \E s \in ToSet(Image[i].segments) :
          IsAt(s, vaddr) /\ elf.offset = (vaddr - s.vaddr) + s.offset

NotInFile(c, libs, addr) ==
  LET lib == LibOf(libs, addr)
      i == c.disk[lib.path].elf
  IN lib # Null /\ Exists(c.disk, lib.path) /\ i # Script =>
       \A s \in ToSet(Image[i].segments) : ~IsAt(s, VaddrOf(lib, i, addr))

LEMMA LocationInFileIs ==
  ASSUME NEW c, RegionsAreApart(c), DiskIsTyped(c.disk), NEW libs, ModulesAre(c, libs),
         NEW addr \in Nat, NEW cache, CacheIsTrue(c.disk, cache)
  PROVE  LET elf == GetMemoryLocationFromElf(c.disk, libs, cache, addr)
         IN /\ CacheIsTrue(c.disk, elf.cache)
            /\ elf.path # Null => FoundInFile(c, libs, addr, elf)
            /\ elf.path = Null => NotInFile(c, libs, addr)
<1> DEFINE lib == LibOf(libs, addr)
           known == IF lib.path \in DOMAIN cache THEN cache
                    ELSE InitLoadSegments(c.disk, lib.path, cache)
           segments == known[lib.path]
           vaddr == addr - lib.start + segments[1].vaddr
           segment == FirstMatch(segments, LAMBDA s : vaddr >= s.vaddr /\ vaddr < s.vaddr + s.size)
           elf == GetMemoryLocationFromElf(c.disk, libs, cache, addr)
           T == {k \in DOMAIN segments : vaddr >= segments[k].vaddr
                                         /\ vaddr < segments[k].vaddr + segments[k].size}
           i == c.disk[lib.path].elf
<1> SUFFICES /\ CacheIsTrue(c.disk, elf.cache)
             /\ elf.path # Null => FoundInFile(c, libs, addr, elf)
             /\ elf.path = Null => NotInFile(c, libs, addr)
  OBVIOUS
<1>1. elf = IF lib = Null THEN [path |-> Null, offset |-> 0, cache |-> cache]
            ELSE IF lib.path \notin DOMAIN known THEN [path |-> Null, offset |-> 0, cache |-> known]
            ELSE IF segment = Null THEN [path |-> Null, offset |-> 0, cache |-> known]
            ELSE [path |-> lib.path, cache |-> known,
                  offset |-> (vaddr - segment.vaddr) + segment.offset]
  BY DEF GetMemoryLocationFromElf, LibOf, ContainsAddr
<1>2. segment = IF T = {} THEN Null ELSE segments[Min(T)]
  BY DEF FirstMatch
<1>3. /\ CacheIsTrue(c.disk, known)
      /\ lib.path \in DOMAIN known <=> Exists(c.disk, lib.path) /\ i # Script
  <2> DEFINE new == InitLoadSegments(c.disk, lib.path, cache)
  <2>1. /\ CacheIsTrue(c.disk, new)
        /\ Exists(c.disk, lib.path) /\ i # Script => lib.path \in DOMAIN new
    BY InitLoadSegmentsIs
  <2> HIDE DEF new
  <2>2. /\ CacheIsTrue(c.disk, known)
        /\ Exists(c.disk, lib.path) /\ i # Script => lib.path \in DOMAIN known
    BY <2>1 DEF new
  <2> HIDE DEF known
  <2> QED BY <2>2 DEF CacheIsTrue
<1> HIDE DEF elf, known, segment
<1>4. CASE lib = Null
  BY <1>1, <1>4 DEF NotInFile
<1>5. CASE lib # Null /\ lib.path \notin DOMAIN known
  BY <1>1, <1>3, <1>5 DEF NotInFile
<1>6. CASE lib # Null /\ lib.path \in DOMAIN known
  <2>1. Exists(c.disk, lib.path) /\ i \in DOMAIN Image /\ i # Script
    BY <1>3, <1>6 DEF DiskIsTyped, Exists
  <2>2. segments = Image[i].segments
    BY <1>3, <1>6 DEF CacheIsTrue
  <2> DEFINE S == Segment
  <2>3. segments \in Seq(S) /\ Null \notin S
    BY <2>1, <2>2, CoreFileAssumption
  <2>4. T \subseteq DOMAIN segments
    OBVIOUS
  <2>5. vaddr = VaddrOf(lib, i, addr)
    BY <2>2 DEF VaddrOf
  <2> HIDE DEF lib, segments, i, vaddr, S
  <2>6. ToSet(segments) = {segments[k] : k \in DOMAIN segments}
    BY DEF ToSet
  <2>7. T = {k \in DOMAIN segments : IsAt(segments[k], vaddr)}
    BY DEF IsAt
  <2> HIDE DEF T
  <2>8. CASE T = {}
    <3>1. \A s \in ToSet(segments) : ~IsAt(s, vaddr)
      BY <2>6, <2>7, <2>8
    <3>2. elf.path = Null /\ elf.cache = known
      BY <1>1, <1>2, <1>6, <2>8
    <3> QED BY <1>3, <2>2, <2>5, <3>1, <3>2 DEF NotInFile, lib, i
  <2>9. CASE T # {}
    <3>1. Min(T) \in T /\ segments[Min(T)] \in S
      BY <2>3, <2>4, <2>9, FirstIs
    <3>2. segment = segments[Min(T)] /\ segment # Null
      BY <1>2, <2>3, <2>9, <3>1
    <3>3. segment \in ToSet(segments) /\ IsAt(segment, vaddr)
      BY <2>6, <2>7, <3>1, <3>2
    <3>4. elf.path = lib.path /\ elf.cache = known
          /\ elf.offset = (vaddr - segment.vaddr) + segment.offset
      BY <1>1, <1>6, <3>2
    <3>5. lib.path # Null
      <4>1. lib \in Module
        BY <1>6, LibOfIs DEF lib
      <4> QED BY <4>1, CoreFileAssumption DEF Module
    <3>6. \E s \in ToSet(segments) : IsAt(s, vaddr) /\ elf.offset = (vaddr - s.vaddr) + s.offset
      BY <3>3, <3>4
    <3>7. FoundInFile(c, libs, addr, elf)
      BY <1>6, <2>1, <2>2, <2>5, <3>4, <3>6 DEF FoundInFile, lib, i
    <3> QED BY <1>3, <3>4, <3>5, <3>7
  <2> QED BY <2>8, <2>9
<1> QED BY <1>4, <1>5, <1>6

\* Where a segment is loaded is where the module has it.
LEMMA SegmentIs ==
  ASSUME NEW i \in DOMAIN Image, NEW s \in ToSet(Image[i].segments)
  PROVE  /\ s.vaddr \in Nat /\ s.offset \in Nat /\ s.size \in Nat
         /\ s.offset + s.size <= Image[i].size /\ Image[i].size \in Nat
         /\ Image[i].segments[1].vaddr \in Nat /\ Image[i].extent \in Nat
<1> DEFINE segments == Image[i].segments
           S == Segment
<1>1. segments \in Seq(S) \ {<<>>}
  BY CoreFileAssumption
<1>2. s.offset + s.size <= Image[i].size /\ Image[i].size \in Nat /\ Image[i].extent \in Nat
  BY CoreFileAssumption
<1>3. s \in ToSet(segments)
  OBVIOUS
<1> HIDE DEF segments, S
<1>4. segments[1] \in S
  BY <1>1
<1>5. s \in S
  BY <1>1, <1>3 DEF ToSet
<1> QED BY <1>2, <1>4, <1>5 DEF S, Segment, segments

\* What is mapped of a file is in the file.
LEMMA RegionIsInFile ==
  ASSUME NEW c, RegionsAreApart(c), FilesAreLoaded(c), NEW r \in ToSet(c.regions), r.image # Null,
         NEW a \in r.start .. r.end - 1
  PROVE  /\ r.image \in DOMAIN Image
         /\ r.offset + (a - r.start) < Image[r.image].size
         /\ \E f \in ToSet(c.regions) : \E s \in ToSet(Image[f.image].segments) :
              /\ IsFirstOfImage(f) /\ f.image = r.image
              /\ f.start <= a /\ a < f.start + Image[f.image].extent
              /\ IsLoadedAt(f, s, a)
<1>1. PICK f \in {r_1 \in ToSet(c.regions) : IsFirstOfImage(r_1)} :
        /\ f.image = r.image
        /\ f.start <= a /\ a < f.start + Image[f.image].extent
        /\ \E s \in ToSet(Image[f.image].segments) : IsLoadedAt(f, s, a)
  BY DEF FilesAreLoaded
<1>2. f \in ToSet(c.regions) /\ IsFirstOfImage(f)
  BY <1>1
<1>3. PICK s \in ToSet(Image[f.image].segments) : IsLoadedAt(f, s, a)
  BY <1>1
<1>4. /\ r \in Region /\ f \in Region
  BY <1>2 DEF RegionsAreApart, ToSet
<1>5. f.image \in DOMAIN Image /\ f.start \in Nat /\ r.start \in Nat /\ r.end \in Nat /\ r.offset \in Nat
  BY <1>1, <1>4 DEF Region
<1>6. /\ s.vaddr \in Nat /\ s.offset \in Nat /\ s.size \in Nat
      /\ s.offset + s.size <= Image[f.image].size /\ Image[f.image].size \in Nat
      /\ Image[f.image].segments[1].vaddr \in Nat
  BY <1>5, SegmentIs
<1>7. LoadedAt(f, s) \in Int /\ LoadedAt(f, s) <= a /\ a < LoadedAt(f, s) + s.size
  BY <1>3, <1>5, <1>6 DEF LoadedAt, IsLoadedAt
<1>8. a \in LoadedAt(f, s) .. LoadedAt(f, s) + s.size - 1
  BY <1>5, <1>6, <1>7
<1>9. PICK q \in ToSet(c.regions) :
        /\ ContainsAddr(q, a)
        /\ q.image = f.image
        /\ q.offset + (a - q.start) = s.offset + (a - LoadedAt(f, s))
  BY <1>1, <1>8 DEF FilesAreLoaded
<1>10. q = r
  <2>1. ContainsAddr(r, a) /\ a \in Nat
    BY <1>5 DEF ContainsAddr
  <2> QED BY <1>9, <2>1, RegionOfIs
<1>11. r.offset + (a - r.start) < Image[r.image].size
  BY <1>1, <1>5, <1>6, <1>7, <1>9, <1>10
<1> QED BY <1>1, <1>2, <1>3, <1>5, <1>11

LEMMA FileIsTheRegions ==
  ASSUME NEW c, RegionsAreApart(c), FilesAreLoaded(c), NEW libs, ModulesAre(c, libs),
         NEW addr \in Nat, IsTheFile(c, libs, addr)
  PROVE  LET lib == LibOf(libs, addr)
             region == RegionOf(c, addr)
         IN /\ c.disk[lib.path].elf \in DOMAIN Image
            /\ \A elf : FoundInFile(c, libs, addr, elf) =>
                 /\ region # Null /\ region.image = c.disk[lib.path].elf
                 /\ elf.offset = region.offset + (addr - region.start)
            /\ region # Null /\ region.image # Null => ~NotInFile(c, libs, addr)
<1> DEFINE lib == LibOf(libs, addr)
           region == RegionOf(c, addr)
           i == c.disk[lib.path].elf
           vaddr == VaddrOf(lib, i, addr)
<1>1. lib # Null
  BY DEF IsTheFile, FileIn
<1>2. lib \in Module /\ ContainsAddr(lib, addr) /\ \E f : BeginsWith(c, libs, addr, f)
  BY <1>1, LibOfIs
<1>3. PICK f : BeginsWith(c, libs, addr, f)
  BY <1>2
<1> HIDE DEF lib
<1>4. /\ f \in ToSet(c.regions) /\ IsFirstOfImage(f) /\ lib.start = f.start
      /\ Exists(c.disk, lib.path) /\ i = f.image /\ lib.end = f.start + Image[f.image].extent
  BY <1>3 DEF BeginsWith, IsTheFile, lib
<1>5. \A r \in ToSet(c.regions) : /\ r \in Region /\ r.start \in Nat /\ r.end \in Nat
                                  /\ r.start < r.end
                                  /\ r.image # Null => r.image \in DOMAIN Image
  <2>1. \A r \in ToSet(c.regions) : r \in Region /\ r.start < r.end
    BY DEF RegionsAreApart, ToSet
  <2> QED BY <2>1 DEF Region
<1>6. i \in DOMAIN Image /\ f.start \in Nat /\ i # Script
  BY <1>4, <1>5, CoreFileAssumption DEF IsFirstOfImage
<1>7. ASSUME NEW s \in ToSet(Image[i].segments)
      PROVE  /\ IsAt(s, vaddr) <=> IsLoadedAt(f, s, addr)
             /\ vaddr - s.vaddr = addr - LoadedAt(f, s)
             /\ LoadedAt(f, s) \in Int /\ s.offset \in Nat /\ s.size \in Nat
  <2>1. /\ s.vaddr \in Nat /\ s.size \in Nat /\ s.offset \in Nat
        /\ Image[i].segments[1].vaddr \in Nat
    BY <1>6, SegmentIs
  <2> QED BY <1>4, <1>6, <2>1 DEF VaddrOf, LoadedAt, IsLoadedAt, IsAt
<1> HIDE DEF i, vaddr
<1>8. ASSUME NEW elf, FoundInFile(c, libs, addr, elf)
      PROVE  /\ region # Null /\ region.image = i
             /\ elf.offset = region.offset + (addr - region.start)
  <2>1. PICK s \in ToSet(Image[i].segments) :
          IsAt(s, vaddr) /\ elf.offset = (vaddr - s.vaddr) + s.offset
    BY <1>8 DEF FoundInFile, lib, i, vaddr
  <2>2. LoadedAt(f, s) <= addr /\ addr < LoadedAt(f, s) + s.size
    BY <1>7, <2>1 DEF IsLoadedAt
  <2>3. addr \in LoadedAt(f, s) .. LoadedAt(f, s) + s.size - 1
    BY <1>7, <2>2
  <2>4. PICK r \in ToSet(c.regions) :
          /\ ContainsAddr(r, addr)
          /\ r.image = f.image
          /\ r.offset + (addr - r.start) = s.offset + (addr - LoadedAt(f, s))
    BY <1>4, <2>3 DEF FilesAreLoaded
  <2>5. region = r
    BY <2>4, RegionOfIs
  <2>6. r # Null
    BY <1>5, CoreFileAssumption
  <2>7. elf.offset = s.offset + (addr - LoadedAt(f, s))
    BY <1>7, <2>1
  <2> QED BY <1>4, <2>4, <2>5, <2>6, <2>7
<1>9. ASSUME region # Null, region.image # Null PROVE ~NotInFile(c, libs, addr)
  <2>1. region \in ToSet(c.regions) /\ ContainsAddr(region, addr)
    BY <1>9, RegionOfIs
  <2> HIDE DEF region
  <2>2. addr \in region.start .. region.end - 1
    BY <1>5, <2>1 DEF ContainsAddr
  <2>3. PICK g \in ToSet(c.regions) : \E s \in ToSet(Image[g.image].segments) :
          /\ IsFirstOfImage(g) /\ g.image = region.image
          /\ g.start <= addr /\ addr < g.start + Image[g.image].extent
          /\ IsLoadedAt(g, s, addr)
    BY <1>9, <2>1, <2>2, RegionIsInFile
  <2>4. PICK s \in ToSet(Image[g.image].segments) : IsLoadedAt(g, s, addr)
    BY <2>3
  <2>5. /\ g.image \in DOMAIN Image /\ g.start \in Nat
        /\ Image[g.image].extent \in Nat /\ Image[f.image].extent \in Nat
    BY <1>4, <1>5, <1>6, <2>3, CoreFileAssumption DEF IsFirstOfImage
  <2>6. f.start <= addr /\ addr < f.start + Image[f.image].extent
    BY <1>2, <1>4 DEF ContainsAddr, lib
  <2>7. /\ f.start < g.start => f.start + Image[f.image].extent <= g.start
        /\ g.start < f.start => g.start + Image[g.image].extent <= f.start
    BY <1>4, <2>3 DEF FilesAreLoaded
  <2>8. f.start = g.start
    BY <1>6, <2>3, <2>5, <2>6, <2>7
  <2>9. f = g
    <3>1. ContainsAddr(f, f.start) /\ ContainsAddr(g, f.start)
      BY <1>4, <1>5, <2>3, <2>8 DEF ContainsAddr
    <3> QED BY <1>4, <1>6, <2>3, <3>1, RegionOfIs
  <2>10. s \in ToSet(Image[i].segments) /\ IsAt(s, vaddr)
    BY <1>4, <1>7, <2>9, <2>4
  <2> QED BY <1>1, <1>4, <1>6, <2>10 DEF NotInFile, lib, i, vaddr
<1> QED BY <1>6, <1>8, <1>9 DEF i, lib

\* What AnswersAreTheCrashs and RefusedIsUnknown say of one read.
TrueAnswer(c, libs, addr, len, cells) ==
  LET region == RegionOf(c, addr)
      part == {i \in 1 .. len : addr + i - 1 < PartEnd(region, addr)}
  IN \/ IsAnotherFile(c, libs, addr) /\ ~InCore(region, addr)
     \/ /\ InCore(region, addr) \/ IsTheFile(c, libs, addr)
        /\ \A i \in part : cells[i] = Held(region, addr + i - 1)

TrueRefusal(c, libs, addr, len) ==
  LET region == RegionOf(c, addr)
  IN IF InCore(region, addr)
     THEN addr + len > region.start + region.dumped
     ELSE \/ region = Null \/ region.image = Null
          \/ ~IsTheFile(c, libs, addr)

LEMMA HeldIs ==
  ASSUME NEW r \in Region, NEW a \in Int
  PROVE  Held(r, a) \in Cell
<1>1. r.image = Null \/ r.image \in DOMAIN Image
  BY DEF Region
<1>2. r.offset \in Nat /\ r.start \in Nat
  BY DEF Region
<1>3. <<"own", a>> \in Cell
  BY DEF Cell
<1>4. r.image \in DOMAIN Image => <<r.image, r.offset + (a - r.start)>> \in Cell
  BY <1>2 DEF Cell
<1> QED BY <1>1, <1>3, <1>4 DEF Held

LEMMA CellIs ==
  ASSUME NEW c, RegionsAreApart(c), NEW offset \in Nat
  PROVE  CoreCell(c, offset) \in Cell
<1> DEFINE At == FirstMatch(c.regions, LAMBDA q : q.at <= offset /\ offset < q.at + q.dumped)
           T == {i \in DOMAIN c.regions : c.regions[i].at <= offset
                                          /\ offset < c.regions[i].at + c.regions[i].dumped}
<1>1. At = IF T = {} THEN Null ELSE c.regions[Min(T)]
  BY DEF FirstMatch
<1>2. CoreCell(c, offset) =
        IF At = Null THEN <<"header", offset>> ELSE Held(At, At.start + (offset - At.at))
  BY DEF CoreCell
<1>3. c.regions \in Seq(Region) /\ T \subseteq DOMAIN c.regions
  BY DEF RegionsAreApart
<1>4. T # {} => c.regions[Min(T)] \in Region
  <2> HIDE DEF T
  <2> QED BY <1>3, FirstIs
<1> HIDE DEF T, At
<1>5. At # Null => Held(At, At.start + (offset - At.at)) \in Cell
  <2> SUFFICES ASSUME At # Null PROVE Held(At, At.start + (offset - At.at)) \in Cell
    OBVIOUS
  <2>1. At \in Region
    BY <1>1, <1>4
  <2>2. At.start \in Nat /\ At.at \in Nat
    BY <2>1 DEF Region
  <2>3. At.start + (offset - At.at) \in Int
    BY <2>2
  <2> QED BY <2>1, <2>3, HeldIs
<1>6. <<"header", offset>> \in Cell
  BY DEF Cell
<1> QED BY <1>2, <1>5, <1>6

\* A read from the core itself.
LEMMA ReadInCoreIs ==
  ASSUME NEW c, RegionsAreApart(c), NEW libs, NEW addr \in Nat, NEW len \in 1 .. MaxRead,
         InCore(RegionOf(c, addr), addr)
  PROVE  LET r == RegionOf(c, addr)
             offset == (r.at - r.start) + addr
             cells == [i \in 1 .. len |-> CoreCell(c, offset + i - 1)]
         IN /\ offset \in Nat
            /\ cells \in [1 .. len -> Cell]
            /\ TrueAnswer(c, libs, addr, len, cells)
            /\ len > c.size \/ offset > c.size - len => TrueRefusal(c, libs, addr, len)
<1> DEFINE r == RegionOf(c, addr)
           offset == (r.at - r.start) + addr
           cells == [i \in 1 .. len |-> CoreCell(c, offset + i - 1)]
<1> HIDE DEF r
<1>1. r \in ToSet(c.regions) /\ r.start <= addr /\ addr < r.start + r.dumped
  <2>1. r # Null /\ addr < r.start + r.dumped
    BY DEF InCore, r
  <2> QED BY <2>1, RegionOfIs DEF r, ContainsAddr
<1>2. /\ r \in Region /\ r.at + r.dumped <= c.size /\ r.start + r.dumped <= r.end /\ c.size \in Nat
  BY <1>1 DEF RegionsAreApart, ToSet
<1>3. r.start \in Nat /\ r.end \in Nat /\ r.dumped \in Nat /\ r.at \in Nat
  BY <1>2 DEF Region
<1>4. len \in Nat /\ len >= 1
  BY CoreAssumption
<1>5. offset \in Nat
  BY <1>1, <1>3
<1>6. ASSUME NEW i \in 1 .. len PROVE CoreCell(c, offset + i - 1) \in Cell
  <2>1. offset + i - 1 \in Nat
    BY <1>4, <1>5
  <2> HIDE DEF offset
  <2> QED BY <2>1, CellIs
<1>7. ASSUME NEW i \in 1 .. len, addr + i - 1 < PartEnd(r, addr)
      PROVE  cells[i] = Held(r, addr + i - 1)
  <2>1. addr + i - 1 < r.start + r.dumped
    BY <1>7 DEF PartEnd, r
  <2>2. offset + i - 1 \in Nat /\ r.at <= offset + i - 1 /\ offset + i - 1 < r.at + r.dumped
    BY <1>1, <1>3, <1>4, <2>1
  <2>3. r.start + ((offset + i - 1) - r.at) = addr + i - 1
    BY <1>3, <1>4
  <2> DEFINE at == offset + i - 1
  <2>4. CoreCell(c, at) = Held(r, r.start + (at - r.at))
    <3>1. at \in Nat /\ r.at <= at /\ at < r.at + r.dumped
      BY <2>2
    <3> HIDE DEF at
    <3> QED BY <1>1, <3>1, CoreCellIs
  <2> QED BY <2>3, <2>4
<1> HIDE DEF cells
<1>8. TrueAnswer(c, libs, addr, len, cells)
  BY <1>7 DEF TrueAnswer, r
<1>9. ASSUME len > c.size \/ offset > c.size - len PROVE TrueRefusal(c, libs, addr, len)
  <2>1. addr + len > r.start + r.dumped
    BY <1>1, <1>2, <1>3, <1>4, <1>9
  <2> QED BY <2>1 DEF TrueRefusal, r
<1>10. cells \in [1 .. len -> Cell]
  BY <1>6 DEF cells
<1> QED BY <1>5, <1>8, <1>9, <1>10 DEF cells, r

\* A read from a file.
LEMMA ReadInFileIs ==
  ASSUME NEW c, RegionsAreApart(c), FilesAreLoaded(c), DiskIsTyped(c.disk),
         NEW libs, ModulesAre(c, libs), NEW addr \in Nat, NEW len \in 1 .. MaxRead,
         ~InCore(RegionOf(c, addr), addr), NEW elf, FoundInFile(c, libs, addr, elf)
  PROVE  LET cells == FileCells(c.disk, elf.path, elf.offset, len)
         IN /\ cells \in [1 .. len -> Cell]
            /\ TrueAnswer(c, libs, addr, len, cells)
<1> DEFINE lib == LibOf(libs, addr)
           region == RegionOf(c, addr)
           i == c.disk[lib.path].elf
           cells == FileCells(c.disk, elf.path, elf.offset, len)
<1> HIDE DEF lib, region, cells
<1>1. lib # Null /\ Exists(c.disk, lib.path) /\ i \in DOMAIN Image /\ elf.path = lib.path
  BY DEF FoundInFile, lib, DiskIsTyped, Exists
<1>2. lib \in Module /\ ContainsAddr(lib, addr) /\ lib.path # Null
  <2>1. lib \in Module /\ ContainsAddr(lib, addr)
    BY <1>1, LibOfIs DEF lib
  <2> QED BY <2>1, CoreFileAssumption DEF Module
<1>3. len \in Nat /\ len >= 1
  BY CoreAssumption
<1>4. cells = [n \in 1 .. len |-> IF elf.offset + n - 1 < Image[i].size
                                  THEN <<i, elf.offset + n - 1>> ELSE Unset]
  BY <1>1 DEF FileCells, cells
<1>5. elf.offset \in Int
  <2>1. PICK s \in ToSet(Image[i].segments) :
          elf.offset = (VaddrOf(lib, i, addr) - s.vaddr) + s.offset
    BY DEF FoundInFile, lib
  <2>2. /\ s.vaddr \in Nat /\ s.offset \in Nat /\ Image[i].segments[1].vaddr \in Nat
    BY <1>1, SegmentIs
  <2>3. lib.start \in Nat
    BY <1>2 DEF Module
  <2> QED BY <2>1, <2>2, <2>3 DEF VaddrOf
<1>6. cells \in [1 .. len -> Cell]
  <2>1. \A n \in 1 .. len : <<i, elf.offset + n - 1>> \in Cell
    BY <1>1, <1>3, <1>5 DEF Cell
  <2>2. Unset \in Cell
    BY DEF Cell
  <2> HIDE DEF i
  <2> QED BY <1>4, <2>1, <2>2
<1>7. FileIn(c, libs, addr).path = lib.path
  BY <1>1 DEF FileIn, lib
<1>8. CASE ~IsTheFile(c, libs, addr)
  <2>1. IsAnotherFile(c, libs, addr)
    BY <1>1, <1>2, <1>7, <1>8 DEF IsTheFile, IsAnotherFile
  <2> QED BY <1>6, <2>1 DEF TrueAnswer, cells
<1>9. CASE IsTheFile(c, libs, addr)
  <2>1. /\ region # Null /\ region.image = i
        /\ elf.offset = region.offset + (addr - region.start)
    BY <1>9, FileIsTheRegions DEF lib, region
  <2>2. region \in ToSet(c.regions) /\ ContainsAddr(region, addr)
    BY <2>1, RegionOfIs DEF region
  <2>3. /\ region \in Region
        /\ region.image # Null /\ "w" \in region.flags =>
             region.dumped = 0 \/ region.start + region.dumped = region.end
    BY <2>2 DEF RegionsAreApart, ToSet
  <2>4. /\ region.start \in Nat /\ region.end \in Nat /\ region.dumped \in Nat /\ region.offset \in Nat
        /\ region.start <= addr /\ addr < region.end
    BY <2>2, <2>3 DEF Region, ContainsAddr
  <2>5. region.image # Null
    BY <1>1, <2>1, CoreFileAssumption
  <2>6. region.start + region.dumped <= addr
    BY <2>1, <2>4 DEF InCore, region
  <2>7. ~("w" \in region.flags /\ region.dumped > 0)
    BY <2>3, <2>4, <2>5, <2>6
  <2>8. ASSUME NEW n \in 1 .. len, addr + n - 1 < PartEnd(region, addr)
        PROVE  cells[n] = Held(region, addr + n - 1)
    <3> DEFINE a == addr + n - 1
    <3>1. a \in region.start .. region.end - 1
      BY <1>3, <2>4, <2>8 DEF PartEnd, region
    <3>2. region.offset + (a - region.start) < Image[region.image].size
      <4> HIDE DEF a
      <4> QED BY <2>2, <2>5, <3>1, RegionIsInFile
    <3>3. elf.offset + n - 1 = region.offset + (a - region.start)
      BY <1>3, <2>1, <2>4
    <3>4. Held(region, a) = <<region.image, region.offset + (a - region.start)>>
      BY <2>5, <2>7 DEF Held
    <3>5. cells[n] = IF elf.offset + n - 1 < Image[i].size
                     THEN <<i, elf.offset + n - 1>> ELSE Unset
      BY <1>4
    <3> HIDE DEF i
    <3> QED BY <2>1, <3>2, <3>3, <3>4, <3>5
  <2>9. TrueAnswer(c, libs, addr, len, cells)
    BY <1>9, <2>8 DEF TrueAnswer, region
  <2> QED BY <1>6, <2>9 DEF cells
<1> QED BY <1>8, <1>9

LEMMA ReadIs ==
  ASSUME NEW c, IsCore(c), NEW maps, MapsAre(c, maps), NEW libs, ModulesAre(c, libs),
         NEW addr \in Nat, NEW len \in 1 .. MaxRead, NEW cache, CacheIsTrue(c.disk, cache)
  PROVE  LET read == CopyMemoryFromProcess(c, maps, libs, cache, addr, len)
         IN /\ CacheIsTrue(c.disk, read.cache)
            /\ read.cells # Null =>
                 read.cells \in [1 .. len -> Cell] /\ TrueAnswer(c, libs, addr, len, read.cells)
            /\ read.cells = Null => TrueRefusal(c, libs, addr, len)
<1> DEFINE r == RegionOf(c, addr)
           offset == GetMemoryLocationFromCore(maps, addr)
           elf == GetMemoryLocationFromElf(c.disk, libs, cache, addr)
           read == CopyMemoryFromProcess(c, maps, libs, cache, addr, len)
           InC == [i \in 1 .. len |-> CoreCell(c, offset + i - 1)]
           InF == FileCells(c.disk, elf.path, elf.offset, len)
           Good == /\ CacheIsTrue(c.disk, read.cache)
                   /\ read.cells # Null =>
                        read.cells \in [1 .. len -> Cell] /\ TrueAnswer(c, libs, addr, len, read.cells)
                   /\ read.cells = Null => TrueRefusal(c, libs, addr, len)
<1> SUFFICES Good
  OBVIOUS
<1>1. read = IF offset # Null
             THEN IF len > c.size \/ offset > c.size - len
                  THEN [cells |-> Null, cache |-> cache]
                  ELSE [cells |-> InC, cache |-> cache]
             ELSE IF elf.path = Null THEN [cells |-> Null, cache |-> elf.cache]
             ELSE [cells |-> InF, cache |-> elf.cache]
  BY DEF CopyMemoryFromProcess, Refused
<1>2. RegionsAreApart(c) /\ FilesAreLoaded(c) /\ DiskIsTyped(c.disk)
  BY DEF IsCore
<1>3. offset = IF InCore(r, addr) THEN (r.at - r.start) + addr ELSE Null
  BY <1>2, LocationInCoreIs
<1>4. \A n \in 1 .. MaxRead : Null \notin [1 .. n -> Cell]
  BY CoreAssumption
<1> HIDE DEF read, offset, elf, r
<1>5. CASE InCore(r, addr)
  <2>1. offset = (r.at - r.start) + addr
    BY <1>3, <1>5
  <2>2. /\ offset \in Nat
        /\ InC \in [1 .. len -> Cell]
        /\ TrueAnswer(c, libs, addr, len, InC)
        /\ len > c.size \/ offset > c.size - len => TrueRefusal(c, libs, addr, len)
    BY <1>2, <1>5, <2>1, ReadInCoreIs DEF r
  <2>3. offset # Null
    BY <2>2, CoreFileAssumption
  <2> HIDE DEF InC
  <2>4. CASE len > c.size \/ offset > c.size - len
    <3>1. read.cells = Null /\ read.cache = cache
      BY <1>1, <2>3, <2>4
    <3> QED BY <2>2, <2>4, <3>1
  <2>5. CASE ~(len > c.size \/ offset > c.size - len)
    <3>1. read.cells = InC /\ read.cache = cache
      BY <1>1, <2>3, <2>5
    <3>2. InC # Null
      BY <1>4, <2>2
    <3> QED BY <2>2, <3>1, <3>2
  <2> QED BY <2>4, <2>5
<1>6. CASE ~InCore(r, addr)
  <2>1. offset = Null
    BY <1>3, <1>6
  <2>2. /\ CacheIsTrue(c.disk, elf.cache)
        /\ elf.path # Null => FoundInFile(c, libs, addr, elf)
        /\ elf.path = Null => NotInFile(c, libs, addr)
    BY <1>2, LocationInFileIs DEF elf
  <2>3. CASE elf.path = Null
    <3>1. read.cells = Null /\ read.cache = elf.cache
      BY <1>1, <2>1, <2>3
    <3>2. r # Null /\ r.image # Null => ~IsTheFile(c, libs, addr)
      BY <1>2, <2>2, <2>3, FileIsTheRegions DEF r
    <3>3. TrueRefusal(c, libs, addr, len)
      BY <1>6, <3>2 DEF TrueRefusal, r
    <3> QED BY <2>2, <3>1, <3>3
  <2>4. CASE elf.path # Null
    <3>1. InF \in [1 .. len -> Cell] /\ TrueAnswer(c, libs, addr, len, InF)
      BY <1>2, <1>6, <2>2, <2>4, ReadInFileIs DEF r
    <3> HIDE DEF InF
    <3>2. read.cells = InF /\ read.cache = elf.cache
      BY <1>1, <2>1, <2>4
    <3>3. InF # Null
      BY <1>4, <3>1
    <3> QED BY <2>2, <3>1, <3>2, <3>3
  <2> QED BY <2>3, <2>4
<1> QED BY <1>5, <1>6

-----------------------------------------------------------------------------
(* The run.                                                                 *)

\* What the maps are for is found, or an exception says why not.
LEMMA ParsedIs ==
  ASSUME NEW maps \in Seq(Map), NEW binary, NEW load_points, NEW disk
  PROVE  LET parsed == ParseMapInformation(binary, maps, load_points, disk)
         IN /\ parsed.error \in Errors \cup {Null}
            /\ parsed.error = Null => parsed.info # NoMaps
<1> DEFINE parsed == ParseMapInformation(binary, maps, load_points, disk)
           names == {LibraryOf(maps, i) : i \in DOMAIN maps}
           T == {i \in DOMAIN maps : LibraryOf(maps, i) = binary.name}
           own == Selected(maps, T)
           U == {i \in DOMAIN own : own[i].path # NoPath}
           named == FirstMatch(own, LAMBDA m : m.path # NoPath)
           M == Map
<1>1. GetBaseMap(own) # Null \/ binary.name \notin names
  <2>1. CASE binary.name \in names
    <3>1. T # {} /\ T \subseteq DOMAIN maps /\ maps \in Seq(M)
      BY <2>1
    <3> HIDE DEF T, M
    <3>2. own \in Seq(M) /\ ToSet(own) = {maps[i] : i \in T}
      BY <3>1, SelectedSet
    <3> HIDE DEF own
    <3>3. own # <<>>
      <4>1. ToSet(<<>>) = {}
        BY DEF ToSet
      <4> QED BY <3>1, <3>2, <4>1
    <3>4. named = IF U = {} THEN Null ELSE own[Min(U)]
      BY DEF FirstMatch
    <3>5. U # {} => own[Min(U)] \in M
      <4>1. U \subseteq DOMAIN own
        OBVIOUS
      <4> HIDE DEF U
      <4> QED BY <3>2, <4>1, FirstIs
    <3>6. Head(own) \in M
      BY <3>2, <3>3
    <3>7. GetBaseMap(own) = IF named = Null THEN Head(own) ELSE named
      BY DEF GetBaseMap
    <3> HIDE DEF named, U
    <3>8. GetBaseMap(own) \in M
      BY <3>4, <3>5, <3>6, <3>7
    <3> QED BY <3>8, CoreFileAssumption DEF M
  <2> QED BY <2>1
<1> DEFINE libpythons == names \cap LibpythonName
           elf_name == IF libpythons = {} THEN binary.name
                       ELSE CHOOSE name \in libpythons : TRUE
           elf_maps == MapsOfLibrary(maps, elf_name)
           load_point == IF elf_name \in DOMAIN load_points THEN load_points[elf_name] ELSE 2^30
           located == GetBss(elf_maps, load_point, disk)
           bss == IF located # Null THEN located
                  ELSE FirstMatch(elf_maps, LAMBDA m : m.path = NoPath /\ "r" \in m.flags)
           info == [heap |-> IF HeapName \in names
                             THEN Head(MapsOfLibrary(maps, HeapName)) ELSE Null,
                    bss |-> bss,
                    python |-> GetBaseMap(own),
                    libpython |-> IF libpythons = {} THEN Null ELSE GetBaseMap(elf_maps)]
           many == \E a, b \in libpythons : a # b
<1>2. parsed = IF binary.name \notin names
               THEN [error |-> "no maps for the executable", info |-> NoMaps]
               ELSE IF many
               THEN [error |-> "multiple libpython", info |-> NoMaps]
               ELSE [error |-> Null, info |-> info]
  BY DEF ParseMapInformation, MapsOfLibrary
<1>3. info.python = GetBaseMap(own) /\ NoMaps.python = Null
  BY DEF NoMaps
<1>4. /\ "no maps for the executable" \in Errors /\ "no maps for the executable" # Null
      /\ "multiple libpython" \in Errors /\ "multiple libpython" # Null
  BY CoreAssumption DEF Errors
<1> HIDE DEF parsed, info, many, names, own
<1> SUFFICES /\ parsed.error \in Errors \cup {Null}
             /\ parsed.error = Null => parsed.info # NoMaps
  BY DEF parsed
<1> QED BY <1>1, <1>2, <1>3, <1>4

\* The modules of the run are those of its executable, and what is printed of the end is
\* what the notes tell.
IsAnalyzed ==
  pc \in {"manager", "reading"} =>
    /\ analyzer = ResolveLibraries(core, executable, arguments.search)
    /\ analyzer.error = Null
    /\ failure_info = Printed(ExtractFailureInfo(core))
    /\ arguments.native => analyzer.missing \subseteq missing_modules

IsManager ==
  pc = "reading" =>
    /\ ModulesAre(core, d_shared_libs) /\ EveryFileIn(core, d_shared_libs)
    /\ \A m \in ToSet(d_shared_libs) : ~Exists(core.disk, m.path) => m.path \in analyzer.missing
    /\ MapsAre(core, d_memory_maps)

\* Nothing is read before there is a manager.
IsRead ==
  /\ CacheIsTrue(core.disk, d_elf_load_segments_cache)
  /\ pc # "reading" => request = NoRequest /\ answer = Null
  /\ answer # Null =>
       TrueAnswer(core, d_shared_libs, request.addr, request.len, answer)
  /\ request # NoRequest /\ answer = Null =>
       TrueRefusal(core, d_shared_libs, request.addr, request.len)

CoreInv ==
  /\ IsCore(core) /\ arguments \in Arguments
  /\ TypeOK
  /\ IsAnalyzed
  /\ IsManager
  /\ IsRead

LEMMA AddressesAre ==
  ASSUME NEW c, RegionsAreApart(c)
  PROVE  Last(c.regions).end \in Nat
<1> DEFINE R == Region
<1>1. c.regions \in Seq(R) \ {<<>>}
  BY DEF RegionsAreApart
<1> HIDE DEF R
<1>2. Last(c.regions) \in R
  BY <1>1 DEF Last
<1> QED BY <1>2 DEF R, Region

LEMMA ErrorsAre == \A e \in Errors : e # Null
  BY CoreAssumption

LEMMA InitCore == Init => CoreInv
<1> SUFFICES ASSUME Init PROVE CoreInv
  OBVIOUS
<1> USE DEF Init
<1>1. PICK case \in Cases : core = case[1] /\ arguments = case[2]
  OBVIOUS
<1>2. IsCore(core) /\ arguments \in Arguments
  BY <1>1, CoreAssumption
<1>3. 0 \in Addresses
  BY <1>2, AddressesAre DEF Addresses, IsCore
<1>4. request.addr = 0
  BY DEF NoRequest
<1>5. TypeOK
  BY <1>3, <1>4 DEF TypeOK
<1>6. CacheIsTrue(core.disk, d_elf_load_segments_cache)
  <2>1. DOMAIN d_elf_load_segments_cache = {}
    OBVIOUS
  <2> QED BY <2>1 DEF CacheIsTrue
<1>7. IsAnalyzed /\ IsManager /\ IsRead
  BY <1>6 DEF IsAnalyzed, IsManager, IsRead
<1> QED BY <1>2, <1>5, <1>7 DEF CoreInv

\* Before there is a manager nothing of it changes, and nothing is read.
LEMMA BeforeReading ==
  ASSUME CoreInv, UNCHANGED <<world, manager, reads>>,
         pc # "reading", pc' # "reading",
         pc' \in {"analyze", "manager", "failed"},
         error' \in Errors \cup {Null}, (error' # Null) <=> (pc' = "failed"),
         pc' \in {"analyze", "manager"} => Exists(core.disk, executable'),
         pc' = "manager" => IsElf(executable') /\ IsAnalyzed'
  PROVE  CoreInv'
<1>1. UNCHANGED <<core, arguments, d_shared_libs, d_memory_maps, map_info,
                  d_elf_load_segments_cache, request, answer>>
  BY DEF world, manager, reads
<1>2. (IsCore(core) /\ arguments \in Arguments)'
  BY <1>1 DEF CoreInv
<1>3. map_info = NoMaps /\ request.addr \in Addresses /\ answer = Null /\ request = NoRequest
      /\ CacheIsTrue(core.disk, d_elf_load_segments_cache)
  BY DEF CoreInv, TypeOK, IsRead
<1>4. TypeOK'
  BY <1>1, <1>3 DEF TypeOK, Addresses, IsElf
<1>5. IsManager' /\ IsRead'
  BY <1>1, <1>3 DEF IsManager, IsRead
<1>6. IsAnalyzed'
  BY DEF IsAnalyzed
<1> QED BY <1>2, <1>4, <1>5, <1>6 DEF CoreInv

LEMMA DetectExecutableKeeps ==
  ASSUME CoreInv, DetectExecutable
  PROVE  CoreInv'
<1> DEFINE modules == ResolveLibraries(core, Null, Null).modules
           maps == MemoryMaps(core, ModuleInformation(core, Null, modules))
           extracted == ExtractExecutable(core, maps)
           first_map == FirstMatch(ParseCoreFileMaps(ExtractMappedFiles(core), maps, core.disk),
                                   LAMBDA m : m.path # NoPath)
           detected == IF IsElf(extracted.path) THEN extracted.path
                       ELSE IF first_map = Null THEN extracted.path
                       ELSE IF IsElf(first_map.path) THEN first_map.path
                       ELSE extracted.path
<1>1. /\ pc = "executable"
      /\ \/ extracted.error # Null /\ Fail(extracted.error)
         \/ /\ executable' = detected
            /\ \/ Exists(core.disk, detected) /\ pc' = "analyze" /\ UNCHANGED error
               \/ Fail("detected executable not found")
      /\ UNCHANGED <<world, analyzer, failure_info, missing_modules, manager, reads>>
  BY DEF DetectExecutable
<1>2. extracted.error \in Errors \cup {Null}
  BY DEF ExtractExecutable, Errors
<1> HIDE DEF extracted, detected
<1>3. error = Null
  BY <1>1 DEF CoreInv, TypeOK
<1>4. "detected executable not found" \in Errors
  BY DEF Errors
<1>5. CASE extracted.error # Null /\ Fail(extracted.error)
  BY <1>1, <1>2, <1>5, BeforeReading DEF Fail
<1>6. CASE executable' = detected /\ Exists(core.disk, detected) /\ pc' = "analyze" /\ UNCHANGED error
  BY <1>1, <1>3, <1>6, BeforeReading
<1>7. CASE Fail("detected executable not found")
  BY <1>1, <1>4, <1>7, ErrorsAre, BeforeReading DEF Fail
<1> QED BY <1>1, <1>5, <1>6, <1>7

LEMMA TakeExecutableKeeps ==
  ASSUME CoreInv, TakeExecutable
  PROVE  CoreInv'
<1>1. /\ pc = "executable"
      /\ \/ Exists(core.disk, executable) /\ pc' = "analyze" /\ UNCHANGED error
         \/ Fail("executable does not exist")
      /\ UNCHANGED <<world, found, manager, reads>>
  BY DEF TakeExecutable
<1>2. error = Null /\ executable' = executable
  BY <1>1 DEF CoreInv, TypeOK, found
<1>3. "executable does not exist" \in Errors
  BY DEF Errors
<1>4. CASE Exists(core.disk, executable) /\ pc' = "analyze" /\ UNCHANGED error
  BY <1>1, <1>2, <1>4, BeforeReading
<1>5. CASE Fail("executable does not exist")
  BY <1>1, <1>3, <1>5, ErrorsAre, BeforeReading DEF Fail
<1> QED BY <1>1, <1>4, <1>5

LEMMA AnalyzeCoreKeeps ==
  ASSUME CoreInv, AnalyzeCore
  PROVE  CoreInv'
<1> DEFINE resolved == ResolveLibraries(core, executable, arguments.search)
           info == ExtractFailureInfo(core)
<1>1. /\ pc = "analyze"
      /\ \/ resolved.error # Null /\ Fail(resolved.error)
         \/ /\ resolved.error = Null
            /\ analyzer' = resolved
            /\ failure_info' = Printed(info)
            /\ \/ /\ IsElf(executable) /\ pc' = "manager" /\ UNCHANGED error
                  /\ arguments.native => resolved.missing \subseteq missing_modules'
               \/ Fail("invalid executable")
      /\ UNCHANGED <<world, executable, manager, reads>>
  BY DEF AnalyzeCore, MissingModules
<1>2. resolved.error \in Errors \cup {Null}
  BY DEF ResolveLibraries, NoModules, Errors
<1>3. error = Null /\ Exists(core.disk, executable) /\ executable' = executable
      /\ core' = core /\ arguments' = arguments
  BY <1>1 DEF CoreInv, TypeOK, world
<1>4. "invalid executable" \in Errors
  BY DEF Errors
<1> HIDE DEF resolved, info
<1>5. CASE resolved.error # Null /\ Fail(resolved.error)
  BY <1>1, <1>2, <1>5, BeforeReading DEF Fail
<1>6. CASE /\ resolved.error = Null /\ analyzer' = resolved /\ failure_info' = Printed(info)
           /\ IsElf(executable) /\ pc' = "manager" /\ UNCHANGED error
           /\ arguments.native => resolved.missing \subseteq missing_modules'
  <2>1. IsAnalyzed'
    BY <1>3, <1>6 DEF IsAnalyzed, resolved, info
  <2>2. IsElf(executable')
    BY <1>3, <1>6
  <2> QED BY <1>1, <1>3, <1>6, <2>1, <2>2, BeforeReading
<1>7. CASE Fail("invalid executable")
  BY <1>1, <1>4, <1>7, ErrorsAre, BeforeReading DEF Fail
<1> QED BY <1>1, <1>5, <1>6, <1>7

LEMMA CreateManagerKeeps ==
  ASSUME CoreInv, CreateManager
  PROVE  CoreInv'
<1> DEFINE info == ModuleInformation(core, arguments.search, analyzer.modules)
           maps == ParseCoreFileMaps(ExtractMappedFiles(core), MemoryMaps(core, info), core.disk)
           parsed == ParseMapInformation(executable, maps, LoadPointByModule(info), core.disk)
<1>1. /\ pc = "manager"
      /\ \/ parsed.error # Null /\ Fail(parsed.error) /\ UNCHANGED manager
         \/ /\ parsed.error = Null
            /\ pc' = "reading"
            /\ d_shared_libs' = info
            /\ d_memory_maps' = maps
            /\ map_info' = parsed.info
            /\ UNCHANGED error
      /\ UNCHANGED <<world, found, reads>>
  BY DEF CreateManager
<1>2. /\ core' = core /\ arguments' = arguments /\ executable' = executable
      /\ analyzer' = analyzer /\ failure_info' = failure_info
      /\ missing_modules' = missing_modules
      /\ d_elf_load_segments_cache' = d_elf_load_segments_cache
      /\ request' = request /\ answer' = answer
  BY <1>1 DEF world, found, reads
<1>3. /\ IsCore(core) /\ arguments \in Arguments
      /\ error = Null /\ Exists(core.disk, executable) /\ IsElf(executable)
      /\ analyzer = ResolveLibraries(core, executable, arguments.search)
      /\ analyzer.error = Null
  BY <1>1 DEF CoreInv, TypeOK, IsAnalyzed
<1>4. /\ RegionsAreApart(core) /\ DiskIsTyped(core.disk)
      /\ executable \in Path /\ arguments.search \in Seq(STRING) \cup {Null}
  BY <1>3 DEF IsCore, DiskIsTyped, Exists, Arguments
<1>5. /\ info \in Seq(Module) /\ ModulesAre(core, info) /\ EveryFileIn(core, info)
      /\ \A m \in ToSet(info) : ~Exists(core.disk, m.path) => m.path \in analyzer.missing
  BY <1>3, <1>4, InformationIs DEF ModulesAre
<1>6. MapsAre(core, maps)
  <2> HIDE DEF info
  <2> QED BY <1>3, <1>5, ManagerMapsAre
<1>7. parsed.error \in Errors \cup {Null} /\ (parsed.error = Null => parsed.info # NoMaps)
  <2>1. maps \in Seq(Map)
    BY <1>6 DEF MapsAre
  <2> DEFINE points == LoadPointByModule(info)
  <2> HIDE DEF maps, points
  <2> QED BY <2>1, ParsedIs
<1> HIDE DEF info, maps, parsed
<1>8. CASE parsed.error # Null /\ Fail(parsed.error) /\ UNCHANGED manager
  BY <1>1, <1>7, <1>8, BeforeReading DEF Fail
<1>9. CASE /\ parsed.error = Null /\ pc' = "reading"
           /\ d_shared_libs' = info /\ d_memory_maps' = maps /\ map_info' = parsed.info
           /\ UNCHANGED error
  <2>1. request = NoRequest /\ answer = Null /\ request.addr \in Addresses
        /\ CacheIsTrue(core.disk, d_elf_load_segments_cache)
    BY <1>1 DEF CoreInv, TypeOK, IsRead
  <2>2. TypeOK'
    BY <1>2, <1>3, <1>7, <1>9, <2>1 DEF TypeOK, IsElf, Addresses
  <2>3. IsAnalyzed'
    BY <1>1, <1>2 DEF CoreInv, IsAnalyzed
  <2>4. IsManager'
    BY <1>2, <1>5, <1>6, <1>9 DEF IsManager
  <2>5. IsRead'
    BY <1>2, <2>1 DEF IsRead
  <2> QED BY <1>2, <1>3, <2>2, <2>3, <2>4, <2>5 DEF CoreInv
<1> QED BY <1>1, <1>8, <1>9

LEMMA ReadKeeps ==
  ASSUME CoreInv, NEW addr \in Addresses, NEW len \in 1 .. MaxRead, Read(addr, len)
  PROVE  CoreInv'
<1> DEFINE read == CopyMemoryFromProcess(core, d_memory_maps, d_shared_libs,
                                         d_elf_load_segments_cache, addr, len)
<1>1. /\ pc = "reading"
      /\ request' = [addr |-> addr, len |-> len]
      /\ answer' = read.cells
      /\ d_elf_load_segments_cache' = read.cache
      /\ UNCHANGED <<world, pc, error, found, manager>>
  BY DEF Read
<1>2. /\ core' = core /\ arguments' = arguments /\ executable' = executable
      /\ analyzer' = analyzer /\ failure_info' = failure_info
      /\ missing_modules' = missing_modules
      /\ d_shared_libs' = d_shared_libs /\ d_memory_maps' = d_memory_maps
      /\ map_info' = map_info /\ pc' = pc /\ error' = error
  BY <1>1 DEF world, found, manager
<1>3. /\ IsCore(core) /\ MapsAre(core, d_memory_maps) /\ ModulesAre(core, d_shared_libs)
      /\ CacheIsTrue(core.disk, d_elf_load_segments_cache)
  BY <1>1 DEF CoreInv, IsManager, IsRead
<1>4. addr \in Nat
  BY <1>3, AddressesAre DEF Addresses, IsCore
<1>5. /\ CacheIsTrue(core.disk, read.cache)
      /\ read.cells # Null =>
           read.cells \in [1 .. len -> Cell] /\ TrueAnswer(core, d_shared_libs, addr, len, read.cells)
      /\ read.cells = Null => TrueRefusal(core, d_shared_libs, addr, len)
  BY <1>3, <1>4, ReadIs
<1> HIDE DEF read
<1>6. request'.addr = addr /\ request'.len = len
  BY <1>1
<1>7. IsRead'
  BY <1>1, <1>2, <1>5, <1>6 DEF IsRead
<1>8. TypeOK'
  <2>1. TypeOK
    BY DEF CoreInv
  <2>2. answer' # Null => DOMAIN answer' = 1 .. request'.len
    BY <1>1, <1>5, <1>6
  <2> QED BY <1>2, <1>6, <2>1, <2>2 DEF TypeOK, IsElf, Addresses
<1>9. IsAnalyzed' /\ IsManager'
  BY <1>2 DEF CoreInv, IsAnalyzed, IsManager
<1> QED BY <1>2, <1>3, <1>7, <1>8, <1>9 DEF CoreInv

LEMMA NextKeepsCore == CoreInv /\ [Next]_vars => CoreInv'
<1> SUFFICES ASSUME CoreInv, [Next]_vars PROVE CoreInv'
  OBVIOUS
<1>1. CASE DetectExecutable
  BY <1>1, DetectExecutableKeeps
<1>2. CASE TakeExecutable
  BY <1>2, TakeExecutableKeeps
<1>3. CASE AnalyzeCore
  BY <1>3, AnalyzeCoreKeeps
<1>4. CASE CreateManager
  BY <1>4, CreateManagerKeeps
<1>5. CASE \E addr \in Addresses, len \in 1 .. MaxRead : Read(addr, len)
  BY <1>5, ReadKeeps
<1>6. CASE UNCHANGED vars
  <2>1. /\ core' = core /\ arguments' = arguments /\ pc' = pc /\ error' = error
        /\ executable' = executable /\ analyzer' = analyzer /\ failure_info' = failure_info
        /\ missing_modules' = missing_modules
        /\ d_shared_libs' = d_shared_libs /\ d_memory_maps' = d_memory_maps
        /\ map_info' = map_info /\ request' = request /\ answer' = answer
        /\ d_elf_load_segments_cache' = d_elf_load_segments_cache
    BY <1>6 DEF vars, world, found, manager, reads
  <2>2. TypeOK'
    BY <2>1 DEF CoreInv, TypeOK, IsElf, Addresses
  <2>3. IsAnalyzed' /\ IsManager' /\ IsRead'
    BY <2>1 DEF CoreInv, IsAnalyzed, IsManager, IsRead
  <2> QED BY <2>1, <2>2, <2>3 DEF CoreInv
<1> QED BY <1>1, <1>2, <1>3, <1>4, <1>5, <1>6 DEF Next

LEMMA CoreSpec == Spec => []CoreInv
<1>1. Init => CoreInv
  BY InitCore
<1>2. CoreInv /\ [Next]_vars => CoreInv'
  BY NextKeepsCore
<1> QED BY <1>1, <1>2, PTL DEF Spec

-----------------------------------------------------------------------------
(* The executable that is found.                                            *)

\* Each module of a core whose executable is not known yet is a file that was mapped,
\* under the path that it was mapped from.
FileOf(f, m) ==
  /\ IsFirstOfImage(f)
  /\ m.start = f.start
  /\ m.end = f.start + Image[f.image].extent
  /\ m.path = f.path

AreTheFiles(c, modules) ==
  /\ modules \in Seq(Module)
  /\ \A m \in ToSet(modules) : \E f \in ToSet(c.regions) : FileOf(f, m)
  /\ EveryFileIn(c, modules)

UnknownModules(c) == ModuleInformation(c, Null, ResolveLibraries(c, Null, Null).modules)

\* None of them is looked for elsewhere.
LEMMA NoneIsRemapped ==
  ASSUME NEW c, RegionsAreApart(c)
  PROVE  AreTheFiles(c, ResolveLibraries(c, Null, Null).modules)
<1> DEFINE mods == DwflModules(c, Null)
           Located(m) == IF Null = Null \/ Null = Null THEN m.path
                         ELSE LocateLibrary(c.disk, Null, m.path)
           Moves(m) == Exists(c.disk, Located(m)) /\ Located(m) # m.path
           moved == Selected(mods, {k \in DOMAIN mods : Moves(mods[k])})
           stays == Selected(mods, {k \in DOMAIN mods : ~Moves(mods[k])})
           ImageOf(m) == c.disk[Located(m)].elf
           anew == [i \in DOMAIN moved |->
                      [start |-> moved[i].start, path |-> Located(moved[i]),
                       end |-> moved[i].start + Image[ImageOf(moved[i])].extent]]
           missing == {Located(m) : m \in {m \in ToSet(mods) : ~Exists(c.disk, Located(m))}}
           broken == \E i \in DOMAIN moved : ImageOf(moved[i]) = Script
           M == Module
<1>1. AreTheFiles(c, mods)
  BY DwflModulesAre DEF AreTheFiles, FileOf
<1>2. ResolveLibraries(c, Null, Null) =
        IF broken THEN [NoModules EXCEPT !.error = "failed to report ELF modules"]
        ELSE [error |-> Null, modules |-> stays \o anew, missing |-> missing]
  BY DEF ResolveLibraries, Filtered
<1>3. \A m : ~Moves(m)
  OBVIOUS
<1> HIDE DEF Moves, Located, M, mods
<1>4. mods \in Seq(M)
  BY <1>1 DEF AreTheFiles, M
<1>5. /\ moved \in Seq(M) /\ ToSet(moved) = {}
      /\ stays \in Seq(M) /\ ToSet(stays) = ToSet(mods)
  <2>1. /\ {k \in DOMAIN mods : Moves(mods[k])} = {}
        /\ {k \in DOMAIN mods : ~Moves(mods[k])} = DOMAIN mods
    BY <1>3
  <2>2. {mods[k] : k \in DOMAIN mods} = ToSet(mods)
    BY DEF ToSet
  <2>3. moved \in Seq(M) /\ ToSet(moved) = {}
    BY <1>4, <2>1, SelectedSet
  <2>4. stays \in Seq(M) /\ ToSet(stays) = {mods[k] : k \in DOMAIN mods}
    BY <1>4, <2>1, SelectedSet
  <2> QED BY <2>2, <2>3, <2>4
<1> HIDE DEF moved, stays
<1>6. DOMAIN moved = {}
  BY <1>5 DEF ToSet
<1>7. ~broken
  BY <1>6
<1>8. anew = <<>>
  BY <1>6
<1> HIDE DEF anew, broken, missing
<1>9. ResolveLibraries(c, Null, Null).modules = stays
  BY <1>2, <1>5, <1>7, <1>8
<1>10. EveryFileIn(c, stays)
  BY <1>1, <1>5 DEF AreTheFiles, EveryFileIn
<1> QED BY <1>1, <1>5, <1>9, <1>10 DEF AreTheFiles, M

LEMMA UnknownModulesAre ==
  ASSUME NEW c, RegionsAreApart(c)
  PROVE  AreTheFiles(c, UnknownModules(c))
<1> DEFINE modules == ResolveLibraries(c, Null, Null).modules
           Moved(m) == [m EXCEPT !.path = LocateLibrary(c.disk, Null, m.path)]
           info == UnknownModules(c)
           N == Len(modules)
           M == Module
<1>1. AreTheFiles(c, modules)
  BY NoneIsRemapped
<1>2. \A m \in M : Moved(m) = m
  BY DEF LocateLibrary, Module
<1> HIDE DEF modules
<1>3. modules \in Seq(M) /\ N \in Nat /\ DOMAIN modules = 1 .. N
  BY <1>1 DEF AreTheFiles
<1>4. info = [i \in 1 .. N |-> Moved(modules[i])]
  BY <1>3 DEF UnknownModules, ModuleInformation, modules
<1> HIDE DEF M, N, Moved, info
<1>5. \A i \in 1 .. N : Moved(modules[i]) = modules[i]
  BY <1>2, <1>3
<1>6. info = modules
  <2>1. info = [i \in 1 .. N |-> modules[i]]
    BY <1>4, <1>5
  <2> QED BY <1>3, <2>1
<1> QED BY <1>1, <1>6 DEF info

\* The module of the program covers its first region, and no other one begins below.
LEMMA ProgramIsFirst ==
  ASSUME NEW c, RegionsAreApart(c), FilesAreLoaded(c),
         NEW first \in ToSet(c.regions), ComesFirst(c, first)
  PROVE  /\ IsFirstOfImage(first)
         /\ first.end <= first.start + Image[first.image].extent
         /\ \A f \in ToSet(c.regions) : IsFirstOfImage(f) => first.start <= f.start
<1>1. /\ \A r \in ToSet(c.regions) : r.start \in Nat /\ r.end \in Nat /\ r.start < r.end
      /\ \A q, r \in ToSet(c.regions) : q.start <= r.start => q = r \/ q.end <= r.start
  BY ApartIs
<1>2. \A r \in ToSet(c.regions) : r.image # Null => first.start <= r.start
  <2>1. \A r \in ToSet(c.regions) : r.image # Null => r.path # NoPath
    BY CoreFileAssumption DEF RegionsAreApart
  <2> QED BY <2>1 DEF ComesFirst
<1>3. \A f \in ToSet(c.regions) : IsFirstOfImage(f) => first.start <= f.start
  BY <1>2 DEF IsFirstOfImage
<1>4. first.image # Null
  BY DEF ComesFirst
<1>5. \A a \in first.start .. first.end - 1 :
        \E f \in ToSet(c.regions) : /\ IsFirstOfImage(f)
                                    /\ f.image = first.image
                                    /\ f.start <= a /\ a < f.start + Image[f.image].extent
  BY <1>4 DEF FilesAreLoaded
<1>6. IsFirstOfImage(first)
  <2>1. first.start \in first.start .. first.end - 1
    BY <1>1
  <2>2. PICK f \in ToSet(c.regions) : IsFirstOfImage(f) /\ f.start <= first.start
    BY <1>5, <2>1
  <2>3. f.start = first.start
    BY <1>1, <1>3, <2>2
  <2>4. f = first
    <3>1. ~(f.end <= first.start)
      BY <1>1, <2>3
    <3> QED BY <1>1, <2>2, <3>1
  <2> QED BY <2>2, <2>4
<1>7. first.end <= first.start + Image[first.image].extent
  <2>1. first.end - 1 \in first.start .. first.end - 1
    BY <1>1
  <2>2. PICK f \in ToSet(c.regions) :
          /\ IsFirstOfImage(f) /\ f.image = first.image
          /\ f.start <= first.end - 1 /\ first.end - 1 < f.start + Image[f.image].extent
    BY <1>5, <2>1
  <2>3. f = first
    <3>1. first.start <= f.start
      BY <1>3, <2>2
    <3>2. ~(first.end <= f.start)
      BY <1>1, <2>2
    <3> QED BY <1>1, <3>1, <3>2
  <2>4. Image[first.image].extent \in Nat
    <3>1. first \in Region
      BY DEF RegionsAreApart, ToSet
    <3>2. first.image \in DOMAIN Image
      BY <1>4, <3>1 DEF Region
    <3> QED BY <3>2, CoreFileAssumption
  <2> QED BY <1>1, <2>2, <2>3, <2>4
<1> QED BY <1>3, <1>6, <1>7

\* The segment that the program begins with has its path, and none below has one.
BeginsAt(first, maps) ==
  /\ \A m \in ToSet(maps) : m.path # NoPath => first.start <= m.start
  /\ \A m \in ToSet(maps) : m.start = first.start => m.end = first.end /\ m.path = first.path
  /\ \E m \in ToSet(maps) : m.start = first.start

LEMMA SegmentsBegin ==
  ASSUME NEW c, RegionsAreApart(c), FilesAreLoaded(c),
         NEW first \in ToSet(c.regions), ComesFirst(c, first)
  PROVE  BeginsAt(first, MemoryMaps(c, UnknownModules(c)))
<1> DEFINE info == UnknownModules(c)
           segments == Segments(c)
           M == Module
           Of(s) == FirstMatch(info, LAMBDA m : s.start >= m.start /\ s.end <= m.end)
           P(s) == IF Of(s) = Null THEN NoPath ELSE Of(s).path
           Made(s) == [start |-> s.start, end |-> s.end, filesize |-> s.filesize,
                       offset |-> s.offset, flags |-> s.flags, path |-> P(s)]
           maps == MemoryMaps(c, info)
<1>1. /\ info \in Seq(M)
      /\ \A m \in ToSet(info) : \E f \in ToSet(c.regions) : FileOf(f, m)
      /\ EveryFileIn(c, info)
  BY UnknownModulesAre DEF AreTheFiles
<1>2. /\ maps \in Seq(Map)
      /\ \A m \in ToSet(maps) : \E r \in ToSet(c.regions) : MapOf(r, m)
      /\ \A r \in ToSet(c.regions) :
           r.dumped > 0 \/ ~c.omits => \E m \in ToSet(maps) : MapOf(r, m)
  BY <1>1, MemoryMapsAre
<1>3. maps = [i \in DOMAIN segments |-> Made(segments[i])]
  BY DEF MemoryMaps
<1>4. /\ IsFirstOfImage(first)
      /\ first.end <= first.start + Image[first.image].extent
      /\ \A f \in ToSet(c.regions) : IsFirstOfImage(f) => first.start <= f.start
  BY ProgramIsFirst
<1>5. /\ \A r \in ToSet(c.regions) : r.start \in Nat /\ r.end \in Nat /\ r.start < r.end
      /\ \A q, r \in ToSet(c.regions) : q.start <= r.start => q = r \/ q.end <= r.start
  BY ApartIs
<1>6. ASSUME NEW q \in ToSet(c.regions), NEW r \in ToSet(c.regions), q.start = r.start
      PROVE  q = r
  BY <1>5, <1>6
<1>7. \A m \in ToSet(info) : m.start \in Nat /\ m.end \in Nat
  <2>1. \A m \in M : m.start \in Nat /\ m.end \in Nat
    BY DEF Module
  <2> HIDE DEF M, info
  <2>2. \A m \in ToSet(info) : m \in M
    BY <1>1 DEF ToSet
  <2> QED BY <2>1, <2>2
\* The module of a segment contains it.
<1>8. ASSUME NEW s, Of(s) # Null
      PROVE  /\ Of(s) \in ToSet(info)
             /\ s.start >= Of(s).start /\ s.end <= Of(s).end
  <2> DEFINE T == {i \in DOMAIN info : s.start >= info[i].start /\ s.end <= info[i].end}
  <2>1. Of(s) = IF T = {} THEN Null ELSE info[Min(T)]
    BY DEF FirstMatch
  <2>2. T # {}
    BY <1>8, <2>1
  <2> HIDE DEF Of, info, M
  <2>3. Min(T) \in T
    BY <1>1, <2>2, FirstIs
  <2>4. Of(s) = info[Min(T)]
    BY <2>1, <2>2
  <2> QED BY <2>3, <2>4 DEF ToSet
<1>9. ASSUME NEW s, NEW m \in ToSet(info), s.start >= m.start, s.end <= m.end
      PROVE  Of(s) # Null
  <2> DEFINE T == {i \in DOMAIN info : s.start >= info[i].start /\ s.end <= info[i].end}
  <2>1. Of(s) = IF T = {} THEN Null ELSE info[Min(T)]
    BY DEF FirstMatch
  <2>2. T # {}
    BY <1>9 DEF ToSet
  <2> HIDE DEF Of, info
  <2>3. Min(T) \in T /\ info[Min(T)] \in M
    BY <1>1, <2>2, FirstIs
  <2>4. Null \notin M
    BY CoreFileAssumption
  <2> QED BY <2>1, <2>2, <2>3, <2>4
<1> HIDE DEF Of, info, maps, segments
<1>10. ASSUME NEW m \in ToSet(maps)
       PROVE  \E s : m.start = s.start /\ m.end = s.end /\ m.path = P(s)
  <2>1. PICK i \in DOMAIN segments : m = Made(segments[i])
    BY <1>3 DEF ToSet
  <2> QED BY <2>1
<1>11. ASSUME NEW m \in ToSet(maps), m.path # NoPath PROVE first.start <= m.start
  <2>1. PICK s : m.start = s.start /\ m.end = s.end /\ m.path = P(s)
    BY <1>10
  <2>2. Of(s) # Null
    BY <1>11, <2>1
  <2>3. PICK f \in ToSet(c.regions) : FileOf(f, Of(s))
    BY <1>1, <1>8, <2>2
  <2>4. first.start <= f.start /\ Of(s).start = f.start /\ m.start >= Of(s).start
    BY <1>4, <1>8, <2>1, <2>2, <2>3 DEF FileOf
  <2>5. m.start \in Nat
    BY <1>2, <1>5 DEF MapOf
  <2> QED BY <1>5, <2>4, <2>5
<1>12. ASSUME NEW m \in ToSet(maps), m.start = first.start
       PROVE  m.end = first.end /\ m.path = first.path
  <2>1. PICK s : m.start = s.start /\ m.end = s.end /\ m.path = P(s)
    BY <1>10
  <2>2. m.end = first.end
    BY <1>2, <1>6, <1>12 DEF MapOf
  <2>3. PICK n \in ToSet(info) : n.start = first.start
    BY <1>1, <1>4 DEF EveryFileIn
  <2>4. PICK g \in ToSet(c.regions) : FileOf(g, n)
    BY <1>1
  <2>5. g = first
    BY <1>6, <2>3, <2>4 DEF FileOf
  <2>6. s.start >= n.start /\ s.end <= n.end
    BY <1>4, <1>5, <1>12, <2>1, <2>2, <2>3, <2>4, <2>5 DEF FileOf
  <2>7. Of(s) # Null
    BY <1>9, <2>6
  <2>8. PICK f \in ToSet(c.regions) : FileOf(f, Of(s))
    BY <1>1, <1>8, <2>7
  <2>9. f.start <= first.start /\ first.start <= f.start
    BY <1>4, <1>5, <1>8, <1>12, <2>1, <2>7, <2>8 DEF FileOf
  <2>10. f = first
    BY <1>5, <1>6, <2>9
  <2>11. m.path = Of(s).path
    BY <2>1, <2>7
  <2> QED BY <2>2, <2>8, <2>10, <2>11 DEF FileOf
<1>13. \E m \in ToSet(maps) : m.start = first.start
  BY <1>2 DEF MapOf, ComesFirst
<1> QED BY <1>11, <1>12, <1>13 DEF BeginsAt, maps, info

\* What NT_FILE adds lies above the region that the program begins with.
LEMMA MissingAreAbove ==
  ASSUME NEW c, RegionsAreApart(c), NEW first \in ToSet(c.regions), ComesFirst(c, first),
         NEW memory, BeginsAt(first, memory), NEW mapped, MappedAre(c, mapped)
  PROVE  \A m \in ToSet(MissingMappedFiles(mapped, memory)) :
           first.start <= m.start /\ m.start # first.start
<1> DEFINE ranges == {<<m.start, m.end>> : m \in ToSet(memory)}
           T == {i \in DOMAIN mapped : <<mapped[i].start, mapped[i].end>> \notin ranges}
           missing == MissingMappedFiles(mapped, memory)
           M == Map
<1>1. missing = Selected(mapped, T)
  BY DEF MissingMappedFiles, Filtered
<1>2. ToSet(missing) = {mapped[i] : i \in T}
  <2>1. mapped \in Seq(M) /\ T \subseteq DOMAIN mapped
    BY DEF MappedAre
  <2> HIDE DEF T, M
  <2> QED BY <1>1, <2>1, SelectedSet
<1>3. ASSUME NEW i \in T
      PROVE  first.start <= mapped[i].start /\ mapped[i].start # first.start
  <2>1. mapped[i] \in ToSet(mapped)
    BY DEF ToSet
  <2>2. PICK r \in ToSet(c.regions) :
          mapped[i].start = r.start /\ mapped[i].end = r.end /\ r.path # NoPath
    BY <2>1 DEF MappedAre
  <2>3. first.start <= mapped[i].start
    BY <2>2 DEF ComesFirst
  <2>4. PICK m \in ToSet(memory) : m.start = first.start /\ m.end = first.end
    BY DEF BeginsAt
  <2>5. mapped[i].start = first.start => mapped[i].end = first.end
    <3>1. r.start = first.start => r = first
      <4>1. /\ \A q \in ToSet(c.regions) : q.start \in Nat /\ q.end \in Nat /\ q.start < q.end
            /\ \A p, q \in ToSet(c.regions) : p.start <= q.start => p = q \/ p.end <= q.start
        BY ApartIs
      <4> HIDE DEF T
      <4> QED BY <4>1
    <3> QED BY <2>2, <3>1
  <2>6. <<m.start, m.end>> \in ranges
    OBVIOUS
  <2>7. <<mapped[i].start, mapped[i].end>> \notin ranges
    OBVIOUS
  <2> HIDE DEF T, ranges
  <2> QED BY <2>3, <2>4, <2>5, <2>6, <2>7
<1> HIDE DEF T, missing
<1> QED BY <1>2, <1>3 DEF missing

\* The first map that has a path is the program's.
LEMMA FirstMapIs ==
  ASSUME NEW c, IsCore(c), NEW first \in ToSet(c.regions), ComesFirst(c, first),
         IsStillThere(c, first.image)
  PROVE  LET memory == MemoryMaps(c, UnknownModules(c))
             maps == ParseCoreFileMaps(ExtractMappedFiles(c), memory, c.disk)
             first_map == FirstMatch(maps, LAMBDA m : m.path # NoPath)
         IN /\ first_map # Null
            /\ Exists(c.disk, first_map.path)
            /\ c.disk[first_map.path].elf = first.image
<1> DEFINE memory == MemoryMaps(c, UnknownModules(c))
           mapped == ExtractMappedFiles(c)
           missing == MissingMappedFiles(mapped, memory)
           maps == ParseCoreFileMaps(mapped, memory, c.disk)
           first_map == FirstMatch(maps, LAMBDA m : m.path # NoPath)
           T == {i \in DOMAIN maps : maps[i].path # NoPath}
           M == Map
<1>1. RegionsAreApart(c) /\ FilesAreLoaded(c) /\ NotesAreTrue(c) /\ MappedFilesAreTrue(c)
  BY DEF IsCore
<1>2. UnknownModules(c) \in Seq(Module)
  BY <1>1, UnknownModulesAre DEF AreTheFiles
<1>3. MapsAre(c, maps) /\ MadeFrom(maps, missing, memory, c.disk)
  BY <1>2, ManagerMapsAre
<1>4. BeginsAt(first, memory)
  BY <1>1, SegmentsBegin
<1>5. MappedAre(c, mapped)
  BY <1>1, MappedFilesAre DEF MappedAre
<1>6. memory \in Seq(Map)
  BY <1>1, <1>2, MemoryMapsAre
<1> HIDE DEF memory, mapped
<1>7. \A m \in ToSet(missing) : first.start <= m.start /\ m.start # first.start
  BY <1>1, <1>4, <1>5, MissingAreAbove
<1>8. first_map = IF T = {} THEN Null ELSE maps[Min(T)]
  BY DEF FirstMatch
<1> HIDE DEF maps, missing, first_map
<1>9. first.path \in Path /\ first.path # NoPath /\ first.start \in Nat
  <2>1. first \in Region
    BY <1>1 DEF RegionsAreApart, ToSet
  <2>2. first.path \in Path
    BY <1>1 DEF RegionsAreApart, ComesFirst
  <2> QED BY <2>1, <2>2, CoreFileAssumption DEF Region
\* It has a path,
<1>10. PICK j \in DOMAIN maps : maps[j].start = first.start /\ maps[j].path # NoPath
  <2>1. PICK m \in ToSet(memory) : m.start = first.start /\ m.path = first.path
    BY <1>4 DEF BeginsAt
  <2>2. PICK j \in DOMAIN maps : MadeOf(maps[j], missing, memory, c.disk, m)
    BY <1>3, <2>1 DEF MadeFrom
  <2> DEFINE p == PathOfSegments(missing, memory, c.disk, first.path)
  <2>3. p # NoPath
    BY <1>6, <1>9, PathOfSegmentsKeeps
  <2>4. maps[j].start = first.start /\ maps[j].path = p
    BY <1>9, <2>1, <2>2 DEF MadeOf
  <2> HIDE DEF p
  <2> QED BY <2>3, <2>4
\* no map below it does,
<1>11. ASSUME NEW i \in DOMAIN maps, maps[i].path # NoPath PROVE first.start <= maps[i].start
  <2>1. PICK m \in ToSet(memory) \cup ToSet(missing) : MadeOf(maps[i], missing, memory, c.disk, m)
    BY <1>3 DEF MadeFrom
  <2>2. maps[i].start = m.start /\ m.path # NoPath
    BY <1>11, <2>1 DEF MadeOf
  <2> QED BY <1>4, <1>7, <2>2 DEF BeginsAt
<1>12. /\ maps \in Seq(Map) /\ InOrderOf(maps)
       /\ \A i \in DOMAIN maps : maps[i] \in Map /\ maps[i].start < maps[i].end
  <2>1. maps \in Seq(Map) /\ InOrderOf(maps)
    BY <1>3 DEF MapsAre
  <2>2. ASSUME NEW i \in DOMAIN maps PROVE maps[i].start < maps[i].end
    <3>1. maps[i] \in ToSet(maps)
      BY DEF ToSet
    <3>2. \E r \in ToSet(c.regions) : maps[i].start = r.start /\ maps[i].end = r.end
      BY <1>3, <3>1 DEF MapsAre
    <3> QED BY <1>1, <3>2, ApartIs
  <2>3. \A i \in DOMAIN maps : maps[i] \in Map
    <3> HIDE DEF M
    <3>1. maps \in Seq(M)
      BY <2>1 DEF M
    <3>2. \A i \in DOMAIN maps : maps[i] \in M
      BY <3>1
    <3> QED BY <3>2 DEF M
  <2> QED BY <2>1, <2>2, <2>3
\* so it is the first one that does.
<1>13. Min(T) = j
  <2> DEFINE k == Min(T)
  <2>1. j \in T /\ T \subseteq Nat
    BY <1>10, <1>12
  <2>2. k \in T /\ k <= j /\ k \in Nat /\ j \in Nat
    BY <2>1, MinIs
  <2> HIDE DEF k
  <2>3. k \in DOMAIN maps /\ maps[k].path # NoPath
    BY <2>2
  <2>4. CASE k < j
    <3>1. maps[k].end <= maps[j].start
      BY <1>12, <2>3, <2>4 DEF InOrderOf
    <3>2. first.start <= maps[k].start /\ maps[k].start < maps[k].end
      BY <1>11, <1>12, <2>3
    <3>3. maps[k].start \in Nat /\ maps[k].end \in Nat
      BY <1>12, <2>3 DEF Map
    <3> QED BY <1>9, <1>10, <3>1, <3>2, <3>3
  <2> QED BY <2>2, <2>4 DEF k
<1>14. first_map = maps[j]
  BY <1>8, <1>10, <1>13
\* Its path is the program's, or is one of the same file.
<1>15. PICK m \in ToSet(memory) \cup ToSet(missing) : MadeOf(maps[j], missing, memory, c.disk, m)
  BY <1>3 DEF MadeFrom
<1>16. m.start = first.start
  BY <1>10, <1>15 DEF MadeOf
<1>17. m.path = first.path
  BY <1>4, <1>7, <1>16 DEF BeginsAt
<1> DEFINE p == PathOfSegments(missing, memory, c.disk, first.path)
<1>18. maps[j].path = p
  BY <1>9, <1>15, <1>17 DEF MadeOf
<1>19. p = first.path \/ (Exists(c.disk, p) /\ c.disk[p].real = Resolved(c.disk, first.path))
  BY <1>6, <1>9, PathOfSegmentsKeeps
<1> HIDE DEF p
<1>20. Exists(c.disk, p) /\ c.disk[p].elf = first.image
  BY <1>19 DEF IsStillThere, ComesFirst, Exists, Resolved
<1>21. first_map # Null
  BY <1>12, <1>14, CoreFileAssumption
<1> QED BY <1>14, <1>18, <1>20, <1>21 DEF first_map, maps, memory, mapped

\* Where it is left to be found, it can be, and is what the process ran.
IsDetected ==
  /\ arguments.executable = Null => NamesItsProgram(core)
  /\ DetectedIsTheTargets

LEMMA RanIs ==
  ASSUME NEW c, NEW first \in ToSet(c.regions), ComesFirst(c, first)
  PROVE  (CHOOSE r \in ToSet(c.regions) : r.path = c.program).image = first.image
<1>1. \E r \in ToSet(c.regions) : r.path = c.program
  BY DEF ComesFirst
<1> QED BY <1>1 DEF ComesFirst

LEMMA DetectExecutableFinds ==
  ASSUME CoreInv, IsDetected, DetectExecutable
  PROVE  IsDetected'
<1> DEFINE memory == MemoryMaps(core, UnknownModules(core))
           extracted == ExtractExecutable(core, memory)
           first_map == FirstMatch(ParseCoreFileMaps(ExtractMappedFiles(core), memory, core.disk),
                                   LAMBDA m : m.path # NoPath)
           detected == IF IsElf(extracted.path) THEN extracted.path
                       ELSE IF first_map = Null THEN extracted.path
                       ELSE IF IsElf(first_map.path) THEN first_map.path
                       ELSE extracted.path
<1>1. /\ arguments.executable = Null
      /\ \/ pc' = "failed"
         \/ extracted.error = Null /\ executable' = detected
      /\ core' = core /\ arguments' = arguments
  BY DEF DetectExecutable, Fail, world, UnknownModules
<1>2. extracted.error = Null => extracted.path \in {core.execfn, Garbage}
  <2>1. "no AT_EXECFN" # Null /\ "no map for AT_EXECFN" # Null
    BY CoreAssumption DEF Errors
  <2> QED BY <2>1 DEF ExtractExecutable
<1>3. NamesItsProgram(core)
  BY <1>1 DEF IsDetected
<1>4. PICK first \in ToSet(core.regions) : ComesFirst(core, first) /\ IsStillThere(core, first.image)
  BY <1>3 DEF NamesItsProgram
<1>5. /\ first_map # Null
      /\ Exists(core.disk, first_map.path)
      /\ core.disk[first_map.path].elf = first.image
  BY <1>4, FirstMapIs DEF CoreInv
<1> HIDE DEF extracted, first_map
<1>6. first.image # Script
  <2>1. core.regions \in Seq(Region)
    BY DEF CoreInv, IsCore, RegionsAreApart
  <2>2. first \in Region
    BY <2>1 DEF ToSet
  <2>3. first.image \in DOMAIN Image
    BY <1>4, <2>2 DEF Region, ComesFirst
  <2> QED BY <2>3, CoreFileAssumption
<1>7. extracted.error = Null /\ IsElf(extracted.path) => core.disk[extracted.path].elf = first.image
  BY <1>2, <1>4 DEF IsElf, IsStillThere
<1>8. extracted.error = Null => core.disk[detected].elf = first.image
  BY <1>5, <1>6, <1>7 DEF IsElf
<1> HIDE DEF detected
<1>9. (CHOOSE r \in ToSet(core.regions) : r.path = core.program).image = first.image
  BY <1>4, RanIs
<1>10. DetectedIsTheTargets'
  BY <1>1, <1>8, <1>9 DEF DetectedIsTheTargets
<1> QED BY <1>1, <1>3, <1>10 DEF IsDetected

LEMMA NextKeepsDetected == CoreInv /\ IsDetected /\ [Next]_vars => IsDetected'
<1> SUFFICES ASSUME CoreInv, IsDetected, [Next]_vars PROVE IsDetected'
  OBVIOUS
<1>1. CASE DetectExecutable
  BY <1>1, DetectExecutableFinds
<1>2. CASE TakeExecutable
  BY <1>2 DEF TakeExecutable, IsDetected, DetectedIsTheTargets, world
<1>3. CASE AnalyzeCore
  <2>1. /\ pc = "analyze"
        /\ core' = core /\ arguments' = arguments /\ executable' = executable
    BY <1>3 DEF AnalyzeCore, world
  <2> QED BY <2>1 DEF IsDetected, DetectedIsTheTargets
<1>4. CASE CreateManager
  <2>1. /\ pc = "manager"
        /\ core' = core /\ arguments' = arguments /\ executable' = executable
    BY <1>4 DEF CreateManager, world, found
  <2> QED BY <2>1 DEF IsDetected, DetectedIsTheTargets
<1>5. CASE \E addr \in Addresses, len \in 1 .. MaxRead : Read(addr, len)
  <2>1. UNCHANGED <<core, arguments, executable, pc>>
    BY <1>5 DEF Read, world, found
  <2> QED BY <2>1 DEF IsDetected, DetectedIsTheTargets
<1>6. CASE UNCHANGED vars
  <2>1. UNCHANGED <<core, arguments, executable, pc>>
    BY <1>6 DEF vars, world, found
  <2> QED BY <2>1 DEF IsDetected, DetectedIsTheTargets
<1> QED BY <1>1, <1>2, <1>3, <1>4, <1>5, <1>6 DEF Next

LEMMA InitDetected == Init => IsDetected
<1> SUFFICES ASSUME Init PROVE IsDetected
  OBVIOUS
<1>1. PICK case \in Cases : core = case[1] /\ arguments = case[2]
  BY DEF Init
<1>2. pc = "executable"
  BY DEF Init
<1> QED BY <1>1, <1>2, ProgramAssumption DEF IsDetected, DetectedIsTheTargets

-----------------------------------------------------------------------------
(* What the runs check, for every core.                                     *)

\* A stage is reached with what the stages before it have found (__main__.py:293-346).
THEOREM TypesOfCore == Spec => []TypeOK
<1>1. CoreInv => TypeOK
  BY DEF CoreInv
<1> QED BY <1>1, CoreSpec, PTL

\* What is read is what the process held when it died, from the core or from its
\* files, whatever was read before (mem.cpp:363-502).
THEOREM CoreAnswers == Spec => []AnswersAreTheCrashs
<1>1. CoreInv => AnswersAreTheCrashs
  BY DEF CoreInv, IsRead, AnswersAreTheCrashs, TrueAnswer, HasFile, HasItsFile, HasOtherFile,
         FileAt, FileIn, LibOf, IsTheFile, IsAnotherFile
<1> QED BY <1>1, CoreSpec, PTL

\* What is refused is nowhere, or the file of another build (mem.cpp:363-502).
THEOREM CoreRefusals == Spec => []RefusedIsUnknown
<1>1. CoreInv => RefusedIsUnknown
  BY DEF CoreInv, IsRead, RefusedIsUnknown, TrueRefusal, HasFile, HasItsFile,
         FileAt, FileIn, LibOf, IsTheFile
<1> QED BY <1>1, CoreSpec, PTL

\* A read that fails because a file is not there fails for a file that was named as
\* missing before, where native frames are asked for (elf_common.cpp:161-211,
\* bindings.cpp:213-245).
THEOREM CoreAbsentees == Spec => []AbsentFilesAreReported
<1>1. CoreInv => AbsentFilesAreReported
  <2> DEFINE a == request.addr
             region == RegionOf(core, a)
             lib == LibOf(d_shared_libs, a)
  <2> SUFFICES ASSUME CoreInv, arguments.native, request # NoRequest, answer = Null,
                      region # Null, ~InCore(region, a), region.image # Null,
                      ~HasOtherFile(a), ~IsReplaced(region)
               PROVE  FileAt(a).path.name \in {p.name : p \in missing_modules}
    BY DEF AbsentFilesAreReported
  <2>1. /\ RegionsAreApart(core) /\ FilesAreLoaded(core)
        /\ ModulesAre(core, d_shared_libs) /\ EveryFileIn(core, d_shared_libs)
        /\ \A m \in ToSet(d_shared_libs) : ~Exists(core.disk, m.path) => m.path \in analyzer.missing
        /\ analyzer.missing \subseteq missing_modules
        /\ TrueRefusal(core, d_shared_libs, a, request.len)
    BY DEF CoreInv, IsCore, IsRead, IsManager, IsAnalyzed
  <2>2. a \in Nat
    BY <2>1, AddressesAre DEF CoreInv, TypeOK, Addresses
  <2>3. region \in ToSet(core.regions) /\ ContainsAddr(region, a)
    BY <2>1, <2>2, RegionOfIs
  <2>4. region.start \in Nat /\ region.end \in Nat
    <3>1. region \in Region
      BY <2>1, <2>3 DEF RegionsAreApart, ToSet
    <3> QED BY <3>1 DEF Region
  <2>5. a \in region.start .. region.end - 1
    BY <2>2, <2>3, <2>4 DEF ContainsAddr
  <2>6. PICK f \in ToSet(core.regions) :
          /\ IsFirstOfImage(f) /\ f.image = region.image
          /\ f.start <= a /\ a < f.start + Image[f.image].extent
    BY <2>1, <2>3, <2>5 DEF FilesAreLoaded
  <2>7. PICK m \in ToSet(d_shared_libs) : m.start = f.start
    BY <2>1, <2>6 DEF EveryFileIn
  <2>8. \A g \in ToSet(core.regions) :
          g.start \in Nat /\ (g.start = m.start => RegionOf(core, m.start) = g)
    <3> TAKE g \in ToSet(core.regions)
    <3>1. g.start \in Nat /\ g.end \in Nat /\ g.start < g.end
      <4>1. g \in Region
        BY <2>1 DEF RegionsAreApart, ToSet
      <4> QED BY <2>1, <4>1 DEF RegionsAreApart, Region
    <3> QED BY <2>1, <3>1, RegionOfIs DEF ContainsAddr
  <2>9. RegionOf(core, m.start) = f
    BY <2>7, <2>8
  <2>10. Exists(core.disk, m.path) => core.disk[m.path].elf = f.image
    BY <2>6, <2>9 DEF IsReplaced
  <2>11. m.end = f.start + Image[f.image].extent
    <3>1. ModuleOf(core, m)
      BY <2>1 DEF ModulesAre
    <3> QED BY <2>8, <2>9, <2>10, <3>1 DEF ModuleOf, Exists
  <2>12. ContainsAddr(m, a)
    BY <2>6, <2>7, <2>11 DEF ContainsAddr
  <2>13. lib # Null
    <3> DEFINE T == {i \in DOMAIN d_shared_libs : ContainsAddr(d_shared_libs[i], a)}
               M == Module
    <3>1. lib = IF T = {} THEN Null ELSE d_shared_libs[Min(T)]
      BY DEF LibOf, FirstMatch
    <3>2. d_shared_libs \in Seq(M) /\ T \subseteq DOMAIN d_shared_libs
      BY <2>1 DEF ModulesAre
    <3>3. T # {}
      BY <2>12 DEF ToSet
    <3> HIDE DEF T, M, lib
    <3>4. d_shared_libs[Min(T)] \in M
      BY <3>2, <3>3, FirstIs
    <3> QED BY <3>1, <3>3, <3>4, CoreFileAssumption DEF M
  <2>14. lib \in Module /\ lib \in ToSet(d_shared_libs)
    BY <2>1, <2>2, <2>13, LibOfIs
  <2>15. FileAt(a).path = lib.path /\ FileIn(core, d_shared_libs, a).path = lib.path
    BY <2>13 DEF FileAt, FileIn, LibOf
  <2>16. lib.path # Null
    BY <2>14, CoreFileAssumption DEF Module
  <2>17. ~IsTheFile(core, d_shared_libs, a) /\ ~IsAnotherFile(core, d_shared_libs, a)
    BY <2>1 DEF TrueRefusal, HasOtherFile, HasFile, HasItsFile, FileAt, FileIn, LibOf, IsAnotherFile
  <2>18. ~Exists(core.disk, lib.path)
    BY <2>15, <2>16, <2>17 DEF IsTheFile, IsAnotherFile
  <2>19. lib.path \in missing_modules
    BY <2>1, <2>14, <2>18
  <2> QED BY <2>15, <2>19
<1> QED BY <1>1, CoreSpec, PTL

\* The maps of the manager are apart, and none of what was dumped is without one
\* (maps_parser.cpp:73-153, corefile.cpp:282-350).
THEOREM CoreMaps == Spec => []MapsArePartition
<1>1. CoreInv => MapsArePartition
  <2> SUFFICES ASSUME CoreInv, IsMade PROVE
        /\ \A i, j \in DOMAIN d_memory_maps :
             i < j => d_memory_maps[i].end <= d_memory_maps[j].start
        /\ \A r \in ToSet(core.regions) :
             r.dumped > 0 => \E m \in ToSet(d_memory_maps) : m.start = r.start /\ m.end = r.end
    BY DEF MapsArePartition
  <2>1. MapsAre(core, d_memory_maps)
    BY DEF CoreInv, IsManager, IsMade
  <2> QED BY <2>1 DEF MapsAre, InOrderOf, MapOf
<1> QED BY <1>1, CoreSpec, PTL

\* The executable that is found is the file that the process ran, if the program was
\* mapped below every other file and is still where it was: also for a script, for a
\* name that leads nowhere, and if AT_EXECFN points to something else
\* (__main__.py:348-374, corefile.cpp:173-204).
THEOREM CoreDetects == Spec => []DetectedIsTheTargets
<1>1. Init => IsDetected
  BY InitDetected
<1>2. CoreInv /\ IsDetected /\ [Next]_vars => IsDetected'
  BY NextKeepsDetected
<1>3. IsDetected => DetectedIsTheTargets
  BY DEF IsDetected
<1> QED BY <1>1, <1>2, <1>3, CoreSpec, PTL DEF Spec

\* The end of the process is told as it was (corefile.cpp:239-277,352-379,
\* __main__.py:318-337).
THEOREM CoreCause == Spec => []CauseIsTheCrashs
<1>1. CoreInv => CauseIsTheCrashs
  <2> SUFFICES ASSUME CoreInv, pc \in {"manager", "reading"} PROVE CauseIsTheCrashs
    BY DEF CauseIsTheCrashs
  <2> DEFINE info == ExtractFailureInfo(core)
  <2>1. failure_info = Printed(info)
    BY DEF CoreInv, IsAnalyzed
  <2>2. TellsOf(core, info)
    BY FailureIs DEF CoreInv, IsCore
  <2>3. core.crash.si_signo \notin {"segmentation fault", "generated on demand"}
    BY DEF CoreInv, IsCore, NotesAreTrue
  <2>4. info # Null
    BY <2>2, CoreFileAssumption DEF TellsOf
  <2> HIDE DEF info
  <2>5. CASE failure_info = Null
    <3>1. info.si_signo \in Unnamed
      BY <2>1, <2>4, <2>5 DEF Printed
    <3> QED BY <2>2, <2>5, <3>1 DEF TellsOf, CauseIsTheCrashs
  <2>6. CASE failure_info # Null
    <3>1. failure_info = info
      BY <2>1, <2>6 DEF Printed
    <3> QED BY <2>2, <2>3, <2>6, <3>1 DEF TellsOf, CauseIsTheCrashs, ReportedCause
  <2> QED BY <2>5, <2>6
<1> QED BY <1>1, CoreSpec, PTL
=============================================================================
