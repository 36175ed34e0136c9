-------------------- MODULE InterpreterDiscoveryProofs ---------------------
(* The version that pystack settles on is the target's, the table of offsets *)
(* that it uses is complete and fits, what it finds are the target's         *)
(* interpreters, the report of them is complete, and an error has a cause:   *)
(* for any target, any memory of it and any failures of reads.               *)
EXTENDS InterpreterDiscovery, SequenceTheorems, FiniteSetTheorems, WellFoundedInduction, TLAPS

-----------------------------------------------------------------------------
(* What validateDebugOffsets and clampSizes establish together.              *)

\* Max of a set that has a member and a bound is that of the definition.
LEMMA MaxOfBounded ==
  ASSUME NEW S, S \subseteq Nat, S # {}, NEW bound \in Nat, \A x \in S : x <= bound
  PROVE  Max(S) \in S /\ \A x \in S : Max(S) >= x
<1> DEFINE Below(x) == 1 .. (bound - x)
           T == {Below(x) : x \in S}
<1>1. T # {} /\ T \subseteq FiniteSubsetsOf(Nat)
  <2>1. ASSUME NEW x \in S PROVE Below(x) \in SUBSET Nat /\ IsFiniteSet(Below(x))
    <3>1. x \in Nat /\ bound - x \in Int
      OBVIOUS
    <3>2. IsFiniteSet(Below(x))
      BY <3>1, FS_Interval
    <3> QED BY <3>1, <3>2
  <2> HIDE DEF Below
  <2> QED BY <2>1 DEF FiniteSubsetsOf
<1>2. PICK m \in T : \A n \in T : <<n, m>> \notin StrictSubsetOrdering(Nat)
  BY <1>1, FS_StrictSubsetOrderingWellFounded, WFMin
<1>3. PICK a \in S : m = Below(a)
  OBVIOUS
<1>4. ASSUME NEW x \in S PROVE a >= x
  <2> SUFFICES ASSUME x > a PROVE FALSE
    OBVIOUS
  <2>1. Below(x) \in T /\ Below(x) \in SUBSET Nat /\ m \in SUBSET Nat
    BY <1>3
  <2>2. Below(x) \subseteq m /\ bound - a \in m /\ bound - a \notin Below(x)
    BY <1>3
  <2>3. <<Below(x), m>> \in StrictSubsetOrdering(Nat)
    BY <2>1, <2>2 DEF StrictSubsetOrdering
  <2> QED BY <1>2, <2>1, <2>3
<1> QED BY <1>4 DEF Max

\* Every structure has a field, and a field belongs to one structure.
LEMMA StructsHaveFields ==
  /\ \A s \in Struct : Fields[s] # {}
  /\ \A s \in Struct : {s} \X Fields[s] \subseteq Field
  /\ \A f \in Field : f[1] \in Struct /\ f \in {f[1]} \X Fields[f[1]]
<1>1. \A s \in Struct : Fields[s] # {}
  BY DEF Struct, Fields
<1>2. \A s \in Struct : {s} \X Fields[s] \subseteq Field
  BY DEF Field
<1>3. \A f \in Field : f[1] \in Struct /\ f \in {f[1]} \X Fields[f[1]]
  BY DEF Field
<1> QED BY <1>1, <1>2, <1>3

\* With a table that is valid, what is copied of a structure, once the sizes are
\* clamped, holds each of its fields and is a part of the structure: getField
\* does not abort (process.cpp:1110-1318, structure.h).
THEOREM ValidTableFits ==
  ASSUME NEW t \in Table, ValidateDebugOffsets(t)
  PROVE  /\ \A f \in Field : ~GetFieldAborts(ClampSizes(t), f)
         /\ \A s \in Struct : ClampSizes(t).size[s] <= t.size[s]
<1> DEFINE ends(s) == {FieldEnd(t, f) : f \in {s} \X Fields[s]}
<1>1. \A f \in Field : /\ t.offset[f] \in Nat
                       /\ Width[f] \in Nat \ {0}
                       /\ FieldEnd(t, f) <= t.size[f[1]]
                       /\ FieldEnd(t, f) \in Nat
                       /\ t.size[f[1]] \in Nat
  BY WidthAssumption, StructsHaveFields DEF Table, ValidateDebugOffsets, InBounds, FieldEnd
<1>2. \A s \in Struct : /\ Max(ends(s)) \in ends(s)
                        /\ \A x \in ends(s) : Max(ends(s)) >= x
                        /\ \A x \in ends(s) : x <= t.size[s]
  <2> SUFFICES ASSUME NEW s \in Struct
               PROVE  /\ Max(ends(s)) \in ends(s)
                      /\ \A x \in ends(s) : Max(ends(s)) >= x
                      /\ \A x \in ends(s) : x <= t.size[s]
    OBVIOUS
  <2>1. PICK n \in Fields[s] : TRUE
    BY StructsHaveFields
  <2>2. <<s, n>> \in Field /\ t.size[s] \in Nat
    BY <2>1, <1>1, StructsHaveFields
  <2>3. FieldEnd(t, <<s, n>>) \in ends(s)
    BY <2>1
  <2>4. ASSUME NEW x \in ends(s) PROVE x \in Nat /\ x <= t.size[s]
    <3>1. PICK k \in Fields[s] : x = FieldEnd(t, <<s, k>>)
      OBVIOUS
    <3>2. <<s, k>> \in Field
      BY StructsHaveFields
    <3> QED BY <1>1, <3>1, <3>2
  <2> HIDE DEF ends
  <2> QED BY <2>2, <2>3, <2>4, MaxOfBounded
<1>3. ClampSizes(t).size = [s \in Struct |-> Max(ends(s))] /\ ClampSizes(t).offset = t.offset
  BY DEF ClampSizes, Table
<1>4. ASSUME NEW f \in Field PROVE ~GetFieldAborts(ClampSizes(t), f)
  <2>1. f[1] \in Struct /\ FieldEnd(t, f) \in ends(f[1])
    BY StructsHaveFields
  <2>2. Max(ends(f[1])) >= FieldEnd(t, f)
    BY <2>1, <1>2
  <2>3. Max(ends(f[1])) \in Nat
    BY <2>1, <1>1, <1>2, StructsHaveFields
  <2>4. ClampSizes(t).size[f[1]] = Max(ends(f[1]))
    BY <1>3, <2>1
  <2> HIDE DEF ends
  <2> QED BY <1>1, <1>3, <2>2, <2>3, <2>4 DEF GetFieldAborts, FieldEnd
<1>5. ASSUME NEW s \in Struct PROVE ClampSizes(t).size[s] <= t.size[s]
  <2> HIDE DEF ends
  <2> QED BY <1>2, <1>3
<1> QED BY <1>4, <1>5
-----------------------------------------------------------------------------
(* The target, and what each step of the discovery relies on.               *)

OffsetsUnset == d_debug_offsets_addr = Null /\ d_debug_offsets = Null

Unset == d_version = 0 /\ d_py_v = 0 /\ OffsetsUnset

Settled == d_version = version /\ d_py_v = version

\* What holds of the target: what passes for a table in its memory is its own.
TargetInv ==
  /\ version \in Versions
  /\ version_word \in {version, 0}
  /\ \A p \in Place : debug[p].version \in Nat /\ debug[p].table \in TableName
  /\ maps \in Seq(Place)
  /\ \A p \in Place : debug[p].cookie /\ IsValid[debug[p].table] =>
       debug[p].version = version /\ debug[p].free_threaded = (version \in FreeThreaded)
  /\ version >= 313 => debug["runtime"].free_threaded = (version \in FreeThreaded)

\* The offsets come with their address, are valid, and with d_is_free_threaded.
OffsetsInv ==
  /\ (d_debug_offsets = Null) = (d_debug_offsets_addr = Null)
  /\ d_debug_offsets # Null =>
       /\ d_debug_offsets \in TableName
       /\ IsValid[d_debug_offsets]
       /\ d_is_free_threaded = (version \in FreeThreaded)

\* What each read relies on from those before it.
PcInv ==
  /\ pc \in {"cookie", "hex", "load", "warn"} => pyruntime_addr \in Place
  /\ pc \in {"hex", "load", "warn"} => debug[pyruntime_addr].cookie
  /\ pc \in {"locate", "cookie", "hex", "detect"} => Unset
  /\ pc = "load" => OffsetsUnset /\ d_version = debug[pyruntime_addr].version
                                 /\ d_py_v = d_version
  /\ pc = "warn" => OffsetsUnset /\ Settled /\ IsValid[debug[pyruntime_addr].table]
  /\ pc = "version" => Unset \/ (Settled /\ d_debug_offsets # Null)
  /\ Initialized => Settled /\ (version >= 314 => d_debug_offsets # Null)

IInv == TargetInv /\ OffsetsInv /\ PcInv
-----------------------------------------------------------------------------
LEMMA InitIInv == Init => IInv
<1> SUFFICES ASSUME Init PROVE IInv
  OBVIOUS
<1>1. TargetInv
  <2>1. debug["runtime"] \in RuntimeHeaders(version) /\ debug["copy"] \in CopyHeaders(version)
    BY DEF Init
  <2>2. version \in Nat /\ Reported \subseteq TableName /\ Copies \subseteq Header
    BY DiscoveryAssumption DEF Init
  <2>3. debug["runtime"].version \in Nat /\ debug["runtime"].table \in TableName
    BY <2>1, <2>2 DEF RuntimeHeaders
  <2>4. debug["copy"].version \in Nat /\ debug["copy"].table \in TableName
    BY <2>1, <2>2 DEF CopyHeaders, Header
  <2>5. version_word \in {version, 0} /\ maps \in Seq(Place)
    <3>1. <<"runtime", "copy">> \in Seq(Place) /\ <<"copy", "runtime">> \in Seq(Place)
      BY DEF Place
    <3>2. version_word \in {version, 0}
      BY DEF Init
    <3>3. maps = <<"runtime", "copy">> \/ maps = <<"copy", "runtime">>
      BY DEF Init
    <3> QED BY <3>1, <3>2, <3>3
  <2>6. \A p \in Place : debug[p].cookie /\ IsValid[debug[p].table] =>
          debug[p].version = version /\ debug[p].free_threaded = (version \in FreeThreaded)
    BY <2>1 DEF Place, RuntimeHeaders, CopyHeaders
  <2>7. version >= 313 => debug["runtime"].free_threaded = (version \in FreeThreaded)
    BY <2>1 DEF RuntimeHeaders, HasDebugOffsets
  <2> QED BY <2>3, <2>4, <2>5, <2>6, <2>7 DEF TargetInv, Init, Place
<1>2. OffsetsInv
  BY DEF Init, OffsetsInv
<1>3. PcInv
  BY DEF Init, PcInv, Unset, OffsetsUnset, Initialized
<1> QED BY <1>1, <1>2, <1>3 DEF IInv

\* The target does not change.
LEMMA TargetStays == TargetInv /\ UNCHANGED targetVars => TargetInv'
BY DEF TargetInv, targetVars

\* What is rejected leaves nothing behind.
LEMMA RejectIInv ==
  ASSUME IInv, RejectDebugOffsets, UNCHANGED targetVars
  PROVE  IInv'
<1>1. TargetInv'
  BY TargetStays DEF IInv
<1>2. OffsetsInv'
  BY DEF RejectDebugOffsets, OffsetsInv
<1>3. PcInv'
  BY DEF RejectDebugOffsets, Goto, PcInv, Unset, OffsetsUnset, Initialized
<1> QED BY <1>1, <1>2, <1>3 DEF IInv

\* Nor does a read that fails.
LEMMA ReadFailsIInv ==
  ASSUME IInv, NEW p, ReadFails(p), UNCHANGED targetVars
  PROVE  IInv'
<1>1. CASE RejectDebugOffsets
  BY <1>1, RejectIInv
<1>2. CASE Goto("error") /\ UNCHANGED versionVars
  <2>1. TargetInv'
    BY TargetStays DEF IInv
  <2>2. OffsetsInv'
    BY <1>2 DEF IInv, OffsetsInv, versionVars, targetVars
  <2>3. PcInv'
    BY <1>2 DEF Goto, PcInv, Initialized
  <2> QED BY <2>1, <2>2, <2>3 DEF IInv
<1> QED BY <1>1, <1>2 DEF ReadFails

\* A version that is the target's may be settled on.
LEMMA InitializeIInv ==
  ASSUME IInv, InitializeVersion(version), UNCHANGED targetVars
  PROVE  IInv'
<1>1. TargetInv'
  BY TargetStays DEF IInv
<1>2. OffsetsInv'
  BY DEF IInv, OffsetsInv, InitializeVersion, targetVars
<1>3. PcInv'
  BY DEF PcInv, InitializeVersion, SetPythonVersion, Goto, Initialized, Settled, targetVars
<1> QED BY <1>1, <1>2, <1>3 DEF IInv

LEMMA LocateIInv == IInv /\ LocateDebugOffsets => IInv'
<1> SUFFICES ASSUME IInv, LocateDebugOffsets PROVE IInv'
  OBVIOUS
<1>1. TargetInv' /\ OffsetsInv'
  BY TargetStays DEF LocateDebugOffsets, IInv, OffsetsInv, versionVars, targetVars
<1>2. pyruntime_addr' \in Place \cup {Null}
  <2>1. FindDebugOffsetsFromMaps \subseteq Place \cup {Null}
    BY DEF FindDebugOffsetsFromMaps, IInv, TargetInv
  <2> QED BY <2>1 DEF LocateDebugOffsets, Place
<1>3. PcInv'
  BY <1>2 DEF LocateDebugOffsets, Goto, IInv, PcInv, Unset, OffsetsUnset, Initialized,
              versionVars, targetVars
<1> QED BY <1>1, <1>3 DEF IInv

LEMMA ReadCookieIInv == IInv /\ ReadCookie => IInv'
<1> SUFFICES ASSUME IInv, ReadCookie PROVE IInv'
  OBVIOUS
<1>1. CASE ReadFails(pyruntime_addr)
  BY <1>1, ReadFailsIInv DEF ReadCookie
<1>2. CASE /\ Goto(IF debug[pyruntime_addr].cookie THEN "hex" ELSE "version")
           /\ UNCHANGED versionVars
  <2>1. TargetInv' /\ OffsetsInv'
    BY <1>2, TargetStays DEF ReadCookie, IInv, OffsetsInv, versionVars, targetVars
  <2>2. PcInv'
    BY <1>2 DEF ReadCookie, Goto, IInv, PcInv, Unset, OffsetsUnset, Initialized,
                versionVars, targetVars
  <2> QED BY <2>1, <2>2 DEF IInv
<1> QED BY <1>1, <1>2 DEF ReadCookie

LEMMA ReadVersionHexIInv == IInv /\ ReadVersionHex => IInv'
<1> SUFFICES ASSUME IInv, ReadVersionHex PROVE IInv'
  OBVIOUS
<1> DEFINE v == debug[pyruntime_addr].version
<1>0. UNCHANGED targetVars /\ UNCHANGED pyruntime_addr /\ pc = "hex"
  BY DEF ReadVersionHex
<1>1. CASE ReadFails(pyruntime_addr)
  BY <1>0, <1>1, ReadFailsIInv
<1>2. CASE RejectDebugOffsets
  BY <1>0, <1>2, RejectIInv
<1>3. CASE /\ SetPythonVersion(v) /\ Goto("load")
           /\ UNCHANGED <<d_debug_offsets_addr, d_debug_offsets, d_is_free_threaded>>
  <2>1. TargetInv' /\ OffsetsInv'
    BY <1>0, <1>3, TargetStays DEF IInv, OffsetsInv, targetVars
  <2>2. PcInv'
    BY <1>0, <1>3 DEF SetPythonVersion, Goto, IInv, PcInv, Unset, OffsetsUnset, Initialized,
                      targetVars
  <2> QED BY <2>1, <2>2 DEF IInv
<1> QED BY <1>1, <1>2, <1>3 DEF ReadVersionHex

\* A structure that is accepted brings the target's own version and table.
LEMMA UseIInv ==
  ASSUME IInv, pyruntime_addr \in Place, Settled, debug[pyruntime_addr].cookie,
         IsValid[debug[pyruntime_addr].table], UseDebugOffsets(pyruntime_addr),
         UNCHANGED targetVars
  PROVE  IInv'
<1> DEFINE h == debug[pyruntime_addr]
<1>1. h.table \in TableName /\ h.free_threaded = (version \in FreeThreaded)
  BY DEF IInv, TargetInv
<1>2. pyruntime_addr # Null /\ h.table # Null
  BY <1>1, DiscoveryAssumption
<1>3. TargetInv'
  BY TargetStays DEF IInv
<1>4. OffsetsInv'
  BY <1>1, <1>2 DEF UseDebugOffsets, OffsetsInv, targetVars
<1>5. PcInv'
  BY <1>2 DEF UseDebugOffsets, Goto, PcInv, Settled, Initialized, targetVars
<1> QED BY <1>3, <1>4, <1>5 DEF IInv

LEMMA LoadIInv == IInv /\ LoadDebugOffsets => IInv'
<1> SUFFICES ASSUME IInv, LoadDebugOffsets PROVE IInv'
  OBVIOUS
<1> DEFINE h == debug[pyruntime_addr]
           accepted == h.cookie /\ h.version = d_version /\ IsValid[h.table]
<1>0. UNCHANGED targetVars /\ UNCHANGED pyruntime_addr /\ pc = "load"
      /\ pyruntime_addr \in Place
  BY DEF LoadDebugOffsets, IInv, PcInv
<1>1. CASE ReadFails(pyruntime_addr)
  BY <1>0, <1>1, ReadFailsIInv
<1>2. CASE RejectDebugOffsets
  BY <1>0, <1>2, RejectIInv
<1>3. ASSUME accepted PROVE Settled
  BY <1>0, <1>3 DEF IInv, TargetInv, PcInv, Settled
<1>4. CASE accepted /\ UseDebugOffsets(pyruntime_addr)
  BY <1>0, <1>3, <1>4, UseIInv
<1>5. CASE accepted /\ Goto("warn") /\ UNCHANGED versionVars
  <2>1. TargetInv' /\ OffsetsInv'
    BY <1>0, <1>5, TargetStays DEF IInv, OffsetsInv, versionVars, targetVars
  <2>2. PcInv'
    BY <1>0, <1>3, <1>5 DEF Goto, IInv, PcInv, OffsetsUnset, Settled, Initialized, versionVars,
                            targetVars
  <2> QED BY <2>1, <2>2 DEF IInv
<1> QED BY <1>1, <1>2, <1>4, <1>5 DEF LoadDebugOffsets

LEMMA WarnIInv == IInv /\ WarnIfOffsetsAreMismatched => IInv'
<1> SUFFICES ASSUME IInv, WarnIfOffsetsAreMismatched PROVE IInv'
  OBVIOUS
<1>1. CASE ReadFails(pyruntime_addr)
  BY <1>1, ReadFailsIInv DEF WarnIfOffsetsAreMismatched
<1>2. CASE UseDebugOffsets(pyruntime_addr)
  BY <1>2, UseIInv DEF WarnIfOffsetsAreMismatched, IInv, PcInv
<1> QED BY <1>1, <1>2 DEF WarnIfOffsetsAreMismatched

LEMMA FindVersionIInv == IInv /\ FindPythonVersion => IInv'
<1> SUFFICES ASSUME IInv, FindPythonVersion PROVE IInv'
  OBVIOUS
<1>0. UNCHANGED targetVars /\ pc = "version" /\ version # 0
  BY DiscoveryAssumption DEF FindPythonVersion, IInv, TargetInv
<1>1. CASE d_py_v # 0 /\ InitializeVersion(d_version)
  <2>1. d_version = version
    BY <1>0, <1>1 DEF IInv, PcInv, Unset, Settled
  <2> QED BY <1>0, <1>1, <2>1, InitializeIInv
<1>2. CASE version_word # 0 /\ InitializeVersion(version_word)
  <2>1. version_word = version
    BY <1>2 DEF IInv, TargetInv
  <2> QED BY <1>0, <1>2, <2>1, InitializeIInv
<1>3. CASE d_py_v = 0 /\ pc' \in {"detect", "error"} /\ UNCHANGED versionVars
  <2>1. TargetInv' /\ OffsetsInv'
    BY <1>0, <1>3, TargetStays DEF IInv, OffsetsInv, versionVars, targetVars
  <2>2. Unset
    BY <1>0, <1>3 DEF IInv, PcInv, Settled
  <2>3. PcInv'
    BY <1>3, <2>2 DEF PcInv, Unset, OffsetsUnset, Initialized, versionVars
  <2> QED BY <2>1, <2>3 DEF IInv
<1> QED BY <1>1, <1>2, <1>3 DEF FindPythonVersion, Goto

LEMMA GetVersionIInv == IInv /\ GetVersionForProcess => IInv'
<1> SUFFICES ASSUME IInv, GetVersionForProcess PROVE IInv'
  OBVIOUS
<1>1. CASE InitializeVersion(version)
  BY <1>1, InitializeIInv DEF GetVersionForProcess
<1>2. CASE Goto("error") /\ UNCHANGED versionVars
  <2>1. TargetInv' /\ OffsetsInv'
    BY <1>2, TargetStays DEF GetVersionForProcess, IInv, OffsetsInv, versionVars, targetVars
  <2>2. PcInv'
    BY <1>2 DEF Goto, PcInv, Initialized
  <2> QED BY <2>1, <2>2 DEF IInv
<1> QED BY <1>1, <1>2 DEF GetVersionForProcess

\* The search and the walk leave the version and the offsets alone.
LEMMA SearchIInv ==
  ASSUME IInv, Initialized, UNCHANGED targetVars, UNCHANGED versionVars,
         pc' = pc \/ pc' \in {"search", "walk", "done", "not_enough", "error"}
  PROVE  IInv'
<1>1. TargetInv' /\ OffsetsInv'
  BY TargetStays DEF IInv, OffsetsInv, versionVars, targetVars
<1>2. PcInv'
  BY DEF IInv, PcInv, Initialized, Settled, versionVars, targetVars
<1> QED BY <1>1, <1>2 DEF IInv

\* Every step of the search preserves the invariant.
LEMMA NextIInv == IInv /\ [Next]_vars => IInv'
<1> SUFFICES ASSUME IInv, [Next]_vars PROVE IInv'
  OBVIOUS
<1>1. CASE LocateDebugOffsets \/ ReadCookie \/ ReadVersionHex \/ LoadDebugOffsets
           \/ WarnIfOffsetsAreMismatched
  BY <1>1, LocateIInv, ReadCookieIInv, ReadVersionHexIInv, LoadIInv, WarnIInv
<1>2. CASE FindPythonVersion \/ GetVersionForProcess
  BY <1>2, FindVersionIInv, GetVersionIInv
<1>3. CASE LogInterpreterStatus \/ TryMethod \/ NothingFound
  <2>1. Initialized /\ UNCHANGED targetVars /\ UNCHANGED versionVars
    BY <1>3 DEF LogInterpreterStatus, TryMethod, NothingFound, Initialized
  <2>2. pc' = pc \/ pc' \in {"search", "walk", "done", "not_enough", "error"}
    BY <1>3 DEF LogInterpreterStatus, TryMethod, NothingFound, Goto
  <2> QED BY <2>1, <2>2, SearchIInv
<1>4. CASE SkipInterpreter \/ BuildThreadsFromInterpreter \/ WalkFails \/ WalkEnds
  <2>1. Initialized /\ UNCHANGED targetVars /\ UNCHANGED versionVars
    BY <1>4 DEF SkipInterpreter, BuildThreadsFromInterpreter, WalkFails, WalkEnds, Initialized
  <2>2. pc' = pc \/ pc' \in {"search", "walk", "done", "not_enough", "error"}
    BY <1>4 DEF SkipInterpreter, BuildThreadsFromInterpreter, WalkFails, WalkEnds, Goto
  <2> QED BY <2>1, <2>2, SearchIInv
<1>5. CASE Die \/ UNCHANGED vars
  <2>1. TargetInv' /\ OffsetsInv'
    BY <1>5, TargetStays DEF Die, vars, IInv, OffsetsInv, versionVars, targetVars
  <2>2. PcInv'
    BY <1>5 DEF Die, vars, IInv, PcInv, Unset, OffsetsUnset, Settled, Initialized,
                versionVars, targetVars
  <2> QED BY <2>1, <2>2 DEF IInv
<1> QED BY <1>1, <1>2, <1>3, <1>4, <1>5 DEF Next

LEMMA Invariance == Spec => []IInv
BY InitIInv, NextIInv, PTL DEF Spec
-----------------------------------------------------------------------------
\* However the version was found, it is the target's, whatever is in its memory,
\* whichever reads failed, and wherever a rejected table came from
\* (process.cpp:712-819).
THEOREM VersionCorrect == Spec => []VersionIsTheTargets
<1>1. IInv => VersionIsTheTargets
  BY DEF IInv, PcInv, Settled, VersionIsTheTargets
<1> QED BY <1>1, Invariance, PTL

\* The offsets from memory and their address are set together, 3.14 is never read
\* without them, and d_is_free_threaded is the target's (process.cpp:1451-1470).
THEOREM OffsetsComplete == Spec => []OffsetsAreComplete
<1>1. IInv => OffsetsAreComplete
  <2> SUFFICES ASSUME IInv, Initialized PROVE OffsetsAreComplete
    BY DEF OffsetsAreComplete
  <2>1. d_version = version /\ version \in Nat
    BY DiscoveryAssumption DEF IInv, TargetInv, PcInv, Settled
  <2>2. (d_debug_offsets = Null) = (d_debug_offsets_addr = Null)
    BY DEF IInv, OffsetsInv
  <2>3. ASSUME d_version >= 314
        PROVE  d_debug_offsets # Null /\ d_is_free_threaded = debug["runtime"].free_threaded
    BY <2>1, <2>3 DEF IInv, TargetInv, OffsetsInv, PcInv
  <2> QED BY <2>2, <2>3 DEF OffsetsAreComplete
<1> QED BY <1>1, Invariance, PTL

\* A table that was accepted fits, for all widths of the fields and all tables:
\* getField never aborts with it and nothing is copied from outside of a structure
\* (process.cpp:1095-1318).
THEOREM AcceptedTablesFit == Spec => []AcceptedOffsetsFit
<1>1. IInv => AcceptedOffsetsFit
  <2> SUFFICES ASSUME IInv, d_debug_offsets # Null PROVE AcceptedOffsetsFit
    BY DEF AcceptedOffsetsFit
  <2> DEFINE n == d_debug_offsets
  <2>1. n \in TableName /\ IsValid[n]
    BY DEF IInv, OffsetsInv
  <2>2. Copied[n] \in Table
    <3>1. Copied[n] = CopyDebugOffsets(TableOf[n], StaticTable)
      BY <2>1 DEF Copied
    <3>2. TableOf[n] \in Table /\ StaticTable \in Table
      BY <2>1, DiscoveryAssumption
    <3> QED BY <3>1, <3>2 DEF CopyDebugOffsets, Table
  <2>3. ValidateDebugOffsets(Copied[n]) /\ Loaded[n] = ClampSizes(Copied[n])
    BY <2>1 DEF IsValid, Loaded
  <2> QED BY <2>2, <2>3, ValidTableFits DEF AcceptedOffsetsFit
<1> QED BY <1>1, Invariance, PTL
-----------------------------------------------------------------------------
(* The search and the walk.                                                 *)

\* The target and the request, as the search sees them.
SearchedInv ==
  /\ interpreters \in Lists
  /\ content \in [Scanned -> Seq(Word)]
  /\ request \in Request
  /\ maps = <<"runtime", "copy">> \/ maps = <<"copy", "runtime">>
  /\ \A p \in Place : debug[p].free_threaded \in BOOLEAN
  /\ version >= 313 => debug["runtime"].cookie /\ debug["runtime"].version = version

\* Why a target that has a table may be read without one.
Excused ==
  \/ ~alive
  \/ "runtime" \in unreadable
  \/ ~IsValid[debug["runtime"].table]
  \/ "_PyRuntime" \notin symbols /\ ~elf /\ maps = <<"copy", "runtime">>

\* Without such a reason the runtime is the candidate and its table is loaded.
CandidateInv ==
  version >= 314 /\ ~Excused =>
    /\ pc \in {"cookie", "hex", "load", "warn"} => pyruntime_addr = "runtime"
    /\ pc \in {"version", "detect"} => d_debug_offsets # Null

\* The methods that have been tried have found nothing.
TriedInv ==
  /\ todo \subseteq request.methods
  /\ pc \notin {"search", "walk", "done", "not_enough", "error"} => todo = request.methods
  /\ pc = "not_enough" => todo = {}
  /\ alive /\ pc \in {"search", "not_enough"} =>
       \A m \in request.methods \ todo : Found[m] \in {Null, Exception}

\* What has been reported lies between the interpreter that was found and `head'.
Walked ==
  IF version >= 311
    THEN \E k \in DOMAIN interpreters : \E n \in k .. Len(interpreters) + 1 :
           /\ reported = SubSeq(interpreters, k, n - 1)
           /\ head = IF n > Len(interpreters) THEN Null ELSE interpreters[n]
           /\ HeadIsKnown => k = 1
    ELSE reported = IF head = Null THEN <<Last(interpreters)>> ELSE <<>>

WalkInv ==
  /\ head # Null => head \in ToSet(interpreters)
  /\ pc \notin {"walk", "done", "error"} => head = Null /\ reported = <<>>
  /\ pc = "walk" => Walked
  /\ pc = "done" => reported = <<>> \/ (head = Null /\ Walked)
  /\ reported \in Seq(Interpreter)

DiscoveryInv ==
  SearchedInv /\ CandidateInv /\ TriedInv /\ WalkInv /\ ErrorHasCause

\* Min of a set of naturals is its least element.
LEMMA LeastIndex ==
  ASSUME NEW T, T \subseteq Nat, T # {}
  PROVE  Min(T) \in T /\ \A n \in T : Min(T) <= n
<1>1. PICK m \in T : \A n \in T : <<n, m>> \notin OpToRel(<, Nat)
  BY NatLessThanWellFounded, WFMin
<1>2. \A n \in T : ~(n < m)
  BY <1>1 DEF OpToRel
<1>3. \A n \in T : m <= n
  BY <1>2
<1>4. \E x \in T : \A y \in T : x =< y
  BY <1>3
<1> QED BY <1>4 DEF Min

\* The next method is one of those left, and the first of them in the order.
LEMMA NextInOrder ==
  ASSUME todo \subseteq Method, todo # {}
  PROVE  /\ NextMethod \in todo
         /\ NextMethod \in {"bss", "anonymous_maps", "heap"} =>
              todo \cap {"debug_offsets", "elf_data", "symbols"} = {}
<1> DEFINE I == {i \in 1 .. Len(MethodOrder) : MethodOrder[i] \in todo}
<1>1. /\ Len(MethodOrder) = 6
      /\ MethodOrder[1] = "debug_offsets" /\ MethodOrder[2] = "elf_data"
      /\ MethodOrder[3] = "symbols" /\ MethodOrder[4] = "bss"
      /\ MethodOrder[5] = "anonymous_maps" /\ MethodOrder[6] = "heap"
  BY DEF MethodOrder
<1>2. I \subseteq Nat /\ I # {}
  <2>1. PICK m \in todo : m \in Method
    OBVIOUS
  <2>2. PICK i \in 1 .. 6 : MethodOrder[i] = m
    <3>1. m \in {MethodOrder[1], MethodOrder[2], MethodOrder[3], MethodOrder[4], MethodOrder[5],
                 MethodOrder[6]}
      BY <1>1, <2>1, Zenon DEF Method
    <3>2. \A i \in {1, 2, 3, 4, 5, 6} : i \in 1 .. 6
      OBVIOUS
    <3> QED BY <3>1, <3>2
  <2> QED BY <1>1, <2>1, <2>2
<1>3. NextMethod = MethodOrder[Min(I)]
  BY <1>2 DEF NextMethod, SelectInSeq
<1> HIDE DEF I
<1>4. Min(I) \in I /\ \A i \in I : Min(I) <= i
  BY <1>2, LeastIndex
<1>5. PICK m \in I : m = Min(I)
  BY <1>4
<1>6. m \in 1 .. 6 /\ MethodOrder[m] \in todo /\ \A i \in 1 .. 3 : MethodOrder[i] \in todo => m <= i
  BY <1>1, <1>4, <1>5 DEF I
<1> QED BY <1>1, <1>3, <1>5, <1>6

\* A scan stops at the first word that passes the checks.
LEMMA FirstIsValid ==
  ASSUME NEW S, NEW words \in Seq(S)
  PROVE  \/ FirstValid(words) = Null
         \/ \E i \in DOMAIN words :
              FirstValid(words) = words[i] /\ IsValidInterpreterState(words[i])
<1> DEFINE I == {i \in 1 .. Len(words) : IsValidInterpreterState(words[i])}
<1>1. CASE I = {}
  BY <1>1 DEF FirstValid, SelectInSeq
<1>2. CASE I # {}
  <2>1. I \subseteq Nat
    OBVIOUS
  <2>2. SelectInSeq(words, IsValidInterpreterState) = Min(I)
    BY <1>2 DEF SelectInSeq
  <2> HIDE DEF I
  <2>3. Min(I) \in I
    BY <1>2, <2>1, LeastIndex
  <2>4. PICK m \in I : m = Min(I)
    BY <2>3
  <2>5. m \in 1 .. Len(words) /\ m # 0 /\ IsValidInterpreterState(words[m])
    BY DEF I
  <2>6. FirstValid(words) = words[m]
    BY <2>2, <2>4, <2>5 DEF FirstValid
  <2> QED BY <2>5, <2>6
<1> QED BY <1>1, <1>2

\* Each check tells what is no interpreter from what is one.
LEMMA ValidIsInterpreter ==
  ASSUME NEW w \in Word, IsValidInterpreterState(w)
  PROVE  w \in ToSet(interpreters)
BY DEF Word, IsValidInterpreterState, Passes, Check

\* The list of interpreters is a list of addresses without repetitions.
LEMMA ListOfInterpreters ==
  ASSUME SearchedInv
  PROVE  /\ interpreters \in Seq(Interpreter) /\ Len(interpreters) \in Nat \ {0}
         /\ DOMAIN interpreters = 1 .. Len(interpreters)
         /\ Head(interpreters) = interpreters[1]
         /\ ToSet(interpreters) \subseteq Interpreter
         /\ \A i, j \in 1 .. Len(interpreters) : interpreters[i] = interpreters[j] => i = j
<1>1. interpreters \in Seq(Interpreter) /\ interpreters # <<>> /\ IsInjective(interpreters)
  BY DiscoveryAssumption DEF SearchedInv
<1>2. Len(interpreters) \in Nat \ {0} /\ DOMAIN interpreters = 1 .. Len(interpreters)
      /\ Head(interpreters) = interpreters[1]
  BY <1>1, EmptySeq
<1>3. \A i \in 1 .. Len(interpreters) : interpreters[i] \in Interpreter
  BY <1>1
<1> QED BY <1>1, <1>2, <1>3 DEF ToSet, IsInjective

Findings == {Null, Exception} \cup ToSet(interpreters)

\* A search of one area finds an interpreter, nothing, or throws.
LEMMA ScanFinds ==
  ASSUME SearchedInv, NEW a \in Scanned
  PROVE  ScanMemoryArea(a) \in Findings /\ ValidWords(a) \subseteq Findings
<1>1. content[a] \in Seq(Word)
  BY DEF SearchedInv
<1>2. \A i \in DOMAIN content[a] : content[a][i] \in Word
  BY <1>1
<1>3. FirstValid(content[a]) \in Findings
  <2>1. CASE FirstValid(content[a]) = Null
    BY <2>1 DEF Findings
  <2>2. CASE \E i \in DOMAIN content[a] : FirstValid(content[a]) = content[a][i]
                                          /\ IsValidInterpreterState(content[a][i])
    BY <1>2, <2>2, ValidIsInterpreter DEF Findings
  <2> QED BY <1>1, <2>1, <2>2, FirstIsValid, Zenon
<1>4. ValidWords(a) \subseteq Findings
  BY <1>2, ValidIsInterpreter DEF ValidWords, Findings, ToSet
<1> QED BY <1>3, <1>4 DEF ScanMemoryArea, Findings

\* So does the scan of the anonymous maps.
LEMMA MapsFind ==
  ASSUME SearchedInv
  PROVE  ScanAllAnonymousMaps \in Findings
<1> DEFINE I == {i \in 1 .. Len(AnonymousMaps) : ScanMemoryArea(AnonymousMaps[i]) # Null}
           last == SelectInSeq(AnonymousMaps, LAMBDA m : ScanMemoryArea(m) # Null)
<1>1. CASE I = {}
  <2>1. last = 0
    BY <1>1 DEF SelectInSeq
  <2> QED BY <2>1 DEF ScanAllAnonymousMaps, Findings
<1>2. CASE I # {}
  <2>1. I \subseteq Nat
    OBVIOUS
  <2>2. last = Min(I)
    BY <1>2 DEF SelectInSeq
  <2>3. Min(I) \in I
    <3> HIDE DEF I
    <3> QED BY <1>2, <2>1, LeastIndex
  <2> HIDE DEF I, last
  <2>4. PICK m \in I : m = last
    BY <2>2, <2>3
  <2>5. m \in 1 .. Len(AnonymousMaps) /\ m # 0
    BY DEF I
  <2>6. AnonymousMaps[m] \in Scanned
    BY <2>5, DiscoveryAssumption DEF Scanned, Anonymous
  <2>7. ScanAllAnonymousMaps = ScanMemoryArea(AnonymousMaps[m])
    BY <2>4, <2>5 DEF ScanAllAnonymousMaps, last
  <2> QED BY <2>6, <2>7, ScanFinds
<1> QED BY <1>1, <1>2

\* From the runtime the first interpreter of the list is found.
LEMMA RuntimeFinds ==
  ASSUME SearchedInv
  PROVE  FindFromPyRuntime \in {Null, Exception, Head(interpreters)}
<1> DEFINE w == Head(interpreters)
<1>1. <<w>> \in Seq({w}) /\ DOMAIN <<w>> = {1} /\ <<w>>[1] = w
  OBVIOUS
<1> HIDE DEF w
<1>2. FirstValid(<<w>>) \in {Null, w}
  BY <1>1, FirstIsValid, Zenon
<1> QED BY <1>2 DEF FindFromPyRuntime, w

\* Any method finds an interpreter, finds nothing, or throws, of a dead target too.
LEMMA ResultsAreFindings ==
  ASSUME SearchedInv, NEW m \in Method
  PROVE  Found[m] \in Findings /\ Results(m) \subseteq Findings
<1>1. Head(interpreters) \in Findings
  BY ListOfInterpreters DEF Findings, ToSet
<1>2. FindFromPyRuntime \in Findings
  BY <1>1, RuntimeFinds DEF Findings
<1>3. Null \in Findings /\ Exception \in Findings
  BY DEF Findings
<1>4. "bss" \in Scanned /\ "heap" \in Scanned /\ Anonymous \subseteq Scanned
  BY DEF Scanned
<1>5. Found[m] \in Findings
  <2>1. ScanMemoryArea("bss") \in Findings /\ ScanMemoryArea("heap") \in Findings
    BY <1>4, ScanFinds
  <2> QED BY <1>2, <1>3, <2>1, MapsFind DEF Method, Found
<1>6. \A a \in Areas[m] : ValidWords(a) \subseteq Findings
  <2>1. Areas[m] \subseteq Scanned
    BY <1>4 DEF Method, Areas
  <2> QED BY <2>1, ScanFinds
<1> QED BY <1>3, <1>5, <1>6 DEF Results

\* If the head of the list is known, what is found is the head of the list.
LEMMA HeadIsFound ==
  ASSUME IInv, SearchedInv, TriedInv, pc = "search", todo # {}, HeadIsKnown,
         NEW r \in Results(NextMethod), r \notin {Null, Exception}
  PROVE  r = Head(interpreters)
<1>1. NextMethod \in todo /\ NextMethod \in Method /\ r = Found[NextMethod]
  <2>1. todo \subseteq Method
    BY DEF SearchedInv, TriedInv, Request
  <2> QED BY <2>1, NextInOrder DEF HeadIsKnown, Results
<1>2. FindFromPyRuntime = Head(interpreters)
  <2> DEFINE w == Head(interpreters)
  <2>1. w \in Interpreter /\ w \notin unreadable /\ "runtime" \notin unreadable
    BY ListOfInterpreters DEF HeadIsKnown, ToSet
  <2>2. IsValidInterpreterState(w)
    BY <2>1, DiscoveryAssumption
       DEF IsValidInterpreterState, Passes, Check, IInv, PcInv, Initialized, Settled
  <2> HIDE DEF w
  <2>3. FirstValid(<<w>>) = w
    <3> DEFINE I == {i \in 1 .. Len(<<w>>) : IsValidInterpreterState(<<w>>[i])}
    <3>1. I = {1}
      BY <2>2
    <3>2. Min(I) = 1
      <4>1. {1} \subseteq Nat /\ {1} # {}
        OBVIOUS
      <4>2. Min({1}) \in {1}
        BY <4>1, LeastIndex
      <4> QED BY <3>1, <4>2
    <3> QED BY <3>1, <3>2 DEF FirstValid, SelectInSeq
  <2> QED BY <2>1, <2>3 DEF FindFromPyRuntime, w
<1>3. Head(interpreters) \notin {Null, Exception}
  BY ListOfInterpreters, DiscoveryAssumption DEF ToSet
<1>4. CASE NextMethod \in {"debug_offsets", "elf_data", "symbols"}
  BY <1>1, <1>2, <1>4 DEF Found
<1>5. CASE NextMethod \in {"bss", "anonymous_maps", "heap"}
  <2>1. "elf_data" \notin todo /\ "symbols" \notin todo
    <3>1. todo \subseteq Method
      BY DEF SearchedInv, TriedInv, Request
    <3> QED BY <1>5, <3>1, NextInOrder
  <2>2. CASE elf /\ "elf_data" \in request.methods
    <3>1. Found["elf_data"] = Head(interpreters)
      BY <1>2, <2>2 DEF Found
    <3> QED BY <1>3, <2>1, <2>2, <3>1 DEF TriedInv, HeadIsKnown
  <2>3. CASE /\ symbols \cap {"_PyRuntime", "interp_head"} # {}
             /\ "symbols" \in request.methods
    <3>1. Found["symbols"] = Head(interpreters)
      BY <1>2, <2>3 DEF Found
    <3> QED BY <1>3, <2>1, <2>3, <3>1 DEF TriedInv, HeadIsKnown
  <2> QED BY <2>2, <2>3 DEF HeadIsKnown
<1> QED BY <1>1, <1>4, <1>5 DEF Method

\* The list is followed in its order.
LEMMA NextOfList ==
  ASSUME SearchedInv, NEW n \in 1 .. Len(interpreters)
  PROVE  GetNextInterpreter(interpreters[n])
           = IF n = Len(interpreters) THEN Null ELSE interpreters[n + 1]
<1> DEFINE i == CHOOSE i \in DOMAIN interpreters : interpreters[i] = interpreters[n]
<1>1. i = n
  BY ListOfInterpreters
<1>2. GetNextInterpreter(interpreters[n])
        = IF i = Len(interpreters) THEN Null ELSE interpreters[i + 1]
  BY Zenon DEF GetNextInterpreter
<1> HIDE DEF i
<1> QED BY <1>1, <1>2

-----------------------------------------------------------------------------
(* The steps.                                                               *)

LEMMA InitDiscovery == Init => DiscoveryInv
<1> SUFFICES ASSUME Init PROVE DiscoveryInv
  OBVIOUS
<1>1. SearchedInv
  <2>1. content \in [Scanned -> Seq(Word)]
    <3>1. content \in [Scanned -> Seq(Interpreter \cup Check)]
          /\ \A a \in Scanned : ToSet(content[a]) \subseteq Word
      BY DiscoveryAssumption DEF Init
    <3>2. ASSUME NEW a \in Scanned PROVE content[a] \in Seq(Word)
      <4>1. content[a] \in Seq(Interpreter \cup Check) /\ ToSet(content[a]) \subseteq Word
        BY <3>1
      <4>2. \A i \in 1 .. Len(content[a]) : content[a][i] \in Word
        BY <4>1 DEF ToSet
      <4> QED BY <4>1, <4>2, SeqDef
    <3> QED BY <3>1, <3>2
  <2>2. interpreters \in Lists /\ request \in Request
    BY DiscoveryAssumption DEF Init
  <2>3. maps = <<"runtime", "copy">> \/ maps = <<"copy", "runtime">>
    BY DEF Init
  <2> DEFINE h == debug["runtime"]
  <2>0. /\ h.cookie = HasDebugOffsets(version)
        /\ h.version = IF HasDebugOffsets(version) THEN version ELSE 0
        /\ h.free_threaded = (version \in FreeThreaded)
    <3>1. h \in RuntimeHeaders(version)
      BY DEF Init
    <3> QED BY <3>1 DEF RuntimeHeaders
  <2>4. \A p \in Place : debug[p].free_threaded \in BOOLEAN
    <3>1. h.free_threaded \in BOOLEAN
      BY <2>0
    <3>2. debug["copy"].free_threaded \in BOOLEAN
      BY DiscoveryAssumption DEF Init, CopyHeaders, Header
    <3> QED BY <3>1, <3>2 DEF Place
  <2>5. version >= 313 => debug["runtime"].cookie /\ debug["runtime"].version = version
    BY <2>0 DEF HasDebugOffsets
  <2> QED BY <2>1, <2>2, <2>3, <2>4, <2>5 DEF SearchedInv
<1>2. CandidateInv /\ TriedInv /\ WalkInv /\ ErrorHasCause
  BY DEF Init, CandidateInv, TriedInv, WalkInv, ErrorHasCause
<1> QED BY <1>1, <1>2 DEF DiscoveryInv

\* The target does not change.
LEMMA SearchedStays == SearchedInv /\ UNCHANGED targetVars => SearchedInv'
BY DEF SearchedInv, targetVars, Word

\* Before the search nothing has been tried or reported.
LEMMA Before ==
  ASSUME DiscoveryInv, UNCHANGED <<targetVars, searchVars>>,
         pc \in {"locate", "cookie", "hex", "load", "warn", "version", "detect", "status"},
         pc' \in {"cookie", "hex", "load", "warn", "version", "detect", "status", "search", "error"}
  PROVE  SearchedInv' /\ TriedInv' /\ WalkInv'
<1>1. SearchedInv'
  BY SearchedStays DEF DiscoveryInv
<1>2. TriedInv' /\ WalkInv'
  BY DEF DiscoveryInv, TriedInv, WalkInv, targetVars, searchVars
<1> QED BY <1>1, <1>2

\* A read fails of a target that is dead, or at a place that cannot be read.
LEMMA FailureHasReason ==
  /\ \A x : ReadOutcomes(x) # {"ok"} => ~alive \/ x \in unreadable
  /\ \A x : "failed" \in ReadOutcomes(x) => ~alive
  /\ \A x : "ok" \in ReadOutcomes(x) <=> x \notin unreadable
  /\ \A x : alive /\ x \notin unreadable => ReadOutcomes(x) = {"ok"}
BY DEF ReadOutcomes

\* An excuse stays.
LEMMA ExcusedStays ==
  ASSUME Excused, UNCHANGED targetVars, UNCHANGED alive
  PROVE  Excused'
BY DEF Excused, targetVars

\* What excuses that no table is used is a cause of an error of 3.14 and later.
LEMMA ExcusedIsCause ==
  ASSUME Excused, version >= 314, UNCHANGED targetVars, UNCHANGED alive
  PROVE  ErrorHasCause'
BY DEF Excused, ErrorHasCause, targetVars

LEMMA LocateDiscovery == IInv /\ DiscoveryInv /\ LocateDebugOffsets => DiscoveryInv'
<1> SUFFICES ASSUME IInv, DiscoveryInv, LocateDebugOffsets PROVE DiscoveryInv'
  OBVIOUS
<1>1. pc = "locate" /\ pc' \in {"cookie", "version"} /\ UNCHANGED <<targetVars, alive, searchVars>>
  BY DEF LocateDebugOffsets, Goto
<1>2. SearchedInv' /\ TriedInv' /\ WalkInv'
  BY <1>1, Before
<1>3. ASSUME version >= 314, ~Excused PROVE pyruntime_addr' = "runtime"
  <2>1. CASE "_PyRuntime" \in symbols \/ elf
    BY <2>1 DEF LocateDebugOffsets
  <2>2. CASE ~("_PyRuntime" \in symbols \/ elf)
    <3>1. maps = <<"runtime", "copy">> /\ alive /\ "runtime" \notin unreadable
      BY <1>3, <2>2 DEF Excused, DiscoveryInv, SearchedInv
    <3>2. DOMAIN maps = {1, 2} /\ maps[1] = "runtime"
      BY <3>1
    <3> DEFINE found == {i \in DOMAIN maps : /\ "ok" \in ReadOutcomes(maps[i])
                                             /\ ScanMemoryAreaForDebugOffsets(maps[i])}
               first == {i \in found : \A j \in found : i <= j}
    <3>3. 1 \in found /\ found \subseteq {1, 2}
      <4>1. version \in Nat
        BY DiscoveryAssumption DEF IInv, TargetInv
      <4>2. "ok" \in ReadOutcomes("runtime")
        BY <3>1, FailureHasReason
      <4>3. ScanMemoryAreaForDebugOffsets("runtime")
        BY <1>3, <4>1
           DEF DiscoveryInv, SearchedInv, ScanMemoryAreaForDebugOffsets, HasDebugOffsets
      <4> QED BY <3>2, <4>2, <4>3
    <3>4. FindDebugOffsetsFromMaps = {maps[i] : i \in first} \cup {a \in {Null} : found = {} \/ ~alive}
      BY DEF FindDebugOffsetsFromMaps
    <3> HIDE DEF found
    <3>5. first = {1}
      <4>1. \A i \in found : 1 <= i /\ (i <= 1 => i = 1)
        BY <3>3
      <4> QED BY <3>3, <4>1
    <3> HIDE DEF first
    <3>6. FindDebugOffsetsFromMaps = {"runtime"}
      BY <3>1, <3>2, <3>3, <3>4, <3>5
    <3> QED BY <2>2, <3>6 DEF LocateDebugOffsets
  <2> QED BY <2>1, <2>2
<1>4. CandidateInv'
  <2>1. ASSUME version >= 314, ~Excused PROVE pc' = "cookie" /\ pyruntime_addr' = "runtime"
    BY <1>3, <2>1, DiscoveryAssumption DEF LocateDebugOffsets, Goto, Place
  <2> QED BY <1>1, <2>1, ExcusedStays DEF CandidateInv, targetVars
<1>5. ErrorHasCause'
  BY <1>1 DEF ErrorHasCause
<1> QED BY <1>2, <1>4, <1>5 DEF DiscoveryInv

\* Of a target that has a table and no excuse, the runtime can be read.
LEMMA RuntimeReads ==
  ASSUME ~Excused
  PROVE  alive /\ ReadOutcomes("runtime") = {"ok"}
BY FailureHasReason DEF Excused

LEMMA ReadHeaderDiscovery ==
  ASSUME IInv, DiscoveryInv, ReadCookie \/ ReadVersionHex
  PROVE  DiscoveryInv'
<1>1. /\ pc \in {"cookie", "hex"} /\ pc' \in {"hex", "load", "version", "error"}
      /\ UNCHANGED <<targetVars, alive, searchVars, pyruntime_addr>>
  BY DEF ReadCookie, ReadVersionHex, ReadFails, RejectDebugOffsets, Goto
<1>2. SearchedInv' /\ TriedInv' /\ WalkInv'
  BY <1>1, Before
<1>3. CandidateInv'
  <2>1. ASSUME version >= 314, ~Excused PROVE pc' \in {"hex", "load"} /\ pyruntime_addr' = "runtime"
    <3>1. pyruntime_addr = "runtime" /\ ReadOutcomes("runtime") = {"ok"}
      BY <1>1, <2>1, RuntimeReads DEF DiscoveryInv, CandidateInv
    <3>2. version \in Nat /\ debug["runtime"].cookie /\ HasDebugOffsets(debug["runtime"].version)
      BY <2>1, DiscoveryAssumption
         DEF IInv, TargetInv, DiscoveryInv, SearchedInv, HasDebugOffsets
    <3> QED BY <1>1, <3>1, <3>2 DEF ReadCookie, ReadVersionHex, ReadFails, Goto
  <2> QED BY <1>1, <2>1, ExcusedStays DEF CandidateInv, targetVars
<1>4. ErrorHasCause'
  <2>1. pc' = "error" => ~alive
    BY FailureHasReason DEF ReadCookie, ReadVersionHex, ReadFails, RejectDebugOffsets, Goto
  <2> QED BY <1>1, <2>1 DEF ErrorHasCause
<1> QED BY <1>2, <1>3, <1>4 DEF DiscoveryInv

LEMMA ReadTableDiscovery ==
  ASSUME IInv, DiscoveryInv, LoadDebugOffsets \/ WarnIfOffsetsAreMismatched
  PROVE  DiscoveryInv'
<1>1. /\ pc \in {"load", "warn"} /\ pc' \in {"warn", "version", "error"}
      /\ UNCHANGED <<targetVars, alive, searchVars, pyruntime_addr>>
  BY DEF LoadDebugOffsets, WarnIfOffsetsAreMismatched, ReadFails, RejectDebugOffsets,
         UseDebugOffsets, Goto
<1>2. SearchedInv' /\ TriedInv' /\ WalkInv'
  BY <1>1, Before
<1>3. CandidateInv'
  <2>1. ASSUME version >= 314, ~Excused PROVE pc' = "version" /\ d_debug_offsets' # Null
    <3>1. pyruntime_addr = "runtime" /\ ReadOutcomes("runtime") = {"ok"}
      BY <1>1, <2>1, RuntimeReads DEF DiscoveryInv, CandidateInv
    <3>2. /\ version \in Nat /\ debug["runtime"].cookie /\ debug["runtime"].version = version
          /\ IsValid[debug["runtime"].table]
      BY <2>1, DiscoveryAssumption DEF IInv, TargetInv, DiscoveryInv, SearchedInv, Excused
    <3>3. pc = "load" => d_version = version
      BY <3>1, <3>2 DEF IInv, PcInv
    <3>4. UseDebugOffsets("runtime")
      BY <1>1, <2>1, <3>1, <3>2, <3>3
         DEF LoadDebugOffsets, WarnIfOffsetsAreMismatched, ReadFails
    <3>5. debug["runtime"].table # Null
      BY DiscoveryAssumption DEF IInv, TargetInv, Place
    <3> QED BY <3>4, <3>5 DEF UseDebugOffsets, Goto
  <2> QED BY <1>1, <2>1, ExcusedStays DEF CandidateInv, targetVars
<1>4. ErrorHasCause'
  <2>1. pc' = "error" => ~alive
    BY FailureHasReason
       DEF LoadDebugOffsets, WarnIfOffsetsAreMismatched, ReadFails, RejectDebugOffsets,
           UseDebugOffsets, Goto
  <2> QED BY <1>1, <2>1 DEF ErrorHasCause
<1> QED BY <1>2, <1>3, <1>4 DEF DiscoveryInv

\* A version is refused only for the want of a table.
LEMMA InitializeDiscovery ==
  ASSUME IInv, DiscoveryInv, pc \in {"version", "detect"}, InitializeVersion(version),
         UNCHANGED <<targetVars, alive, searchVars>>
  PROVE  DiscoveryInv'
<1>1. pc' \in {"status", "error"}
  BY DEF InitializeVersion, Goto
<1>2. SearchedInv' /\ TriedInv' /\ WalkInv'
  BY <1>1, Before
<1>3. CandidateInv'
  BY <1>1 DEF CandidateInv
<1>4. ErrorHasCause'
  <2>1. CASE pc' = "error"
    <3>1. version >= 314 /\ d_debug_offsets = Null
      BY <2>1 DEF InitializeVersion, Goto
    <3>2. Excused
      BY <3>1 DEF DiscoveryInv, CandidateInv
    <3> QED BY <3>1, <3>2, ExcusedIsCause
  <2>2. CASE pc' # "error"
    BY <2>2 DEF ErrorHasCause
  <2> QED BY <2>1, <2>2
<1> QED BY <1>2, <1>3, <1>4 DEF DiscoveryInv

LEMMA FindVersionDiscovery == IInv /\ DiscoveryInv /\ FindPythonVersion => DiscoveryInv'
<1> SUFFICES ASSUME IInv, DiscoveryInv, FindPythonVersion PROVE DiscoveryInv'
  OBVIOUS
<1>1. pc = "version" /\ version # 0 /\ UNCHANGED <<targetVars, alive, searchVars>>
  BY DiscoveryAssumption DEF FindPythonVersion, IInv, TargetInv
<1>2. CASE d_py_v # 0 /\ InitializeVersion(d_version)
  <2>1. d_version = version
    BY <1>1, <1>2 DEF IInv, PcInv, Unset, Settled
  <2> QED BY <1>1, <1>2, <2>1, InitializeDiscovery
<1>3. CASE version_word # 0 /\ InitializeVersion(version_word)
  <2>1. version_word = version
    BY <1>3 DEF IInv, TargetInv
  <2> QED BY <1>1, <1>3, <2>1, InitializeDiscovery
<1>4. CASE d_py_v = 0 /\ UNCHANGED versionVars
           /\ \/ pc' = "detect"
              \/ pc' = "error" /\ "failed" \in ReadOutcomes("Py_Version")
  <2>1. SearchedInv' /\ TriedInv' /\ WalkInv'
    BY <1>1, <1>4, Before
  <2>2. CandidateInv'
    <3>1. version >= 314 => Excused
      BY <1>1, <1>4 DEF DiscoveryInv, CandidateInv, IInv, PcInv, Unset, OffsetsUnset, Settled
    <3> QED BY <1>1, <3>1, ExcusedStays DEF CandidateInv, targetVars
  <2>3. ErrorHasCause'
    BY <1>1, <1>4, FailureHasReason DEF ErrorHasCause
  <2> QED BY <2>1, <2>2, <2>3 DEF DiscoveryInv
<1> QED BY <1>2, <1>3, <1>4 DEF FindPythonVersion, Goto

LEMMA GetVersionDiscovery == IInv /\ DiscoveryInv /\ GetVersionForProcess => DiscoveryInv'
<1> SUFFICES ASSUME IInv, DiscoveryInv, GetVersionForProcess PROVE DiscoveryInv'
  OBVIOUS
<1>1. pc = "detect" /\ UNCHANGED <<targetVars, alive, searchVars>>
  BY DEF GetVersionForProcess
<1>2. CASE InitializeVersion(version)
  BY <1>1, <1>2, InitializeDiscovery
<1>3. CASE /\ "bss" \in hints => ReadOutcomes("bss") # {"ok"}
           /\ "name" \notin hints
           /\ pc' = "error"
           /\ UNCHANGED versionVars
  <2>1. SearchedInv' /\ TriedInv' /\ WalkInv'
    BY <1>1, <1>3, Before
  <2>2. CandidateInv'
    BY <1>3 DEF CandidateInv
  <2>3. d_version' = 0
    BY <1>1, <1>3 DEF IInv, PcInv, Unset, versionVars
  <2>4. ErrorHasCause'
    BY <1>1, <1>3, <2>3, FailureHasReason DEF ErrorHasCause, targetVars
  <2> QED BY <2>1, <2>2, <2>4 DEF DiscoveryInv
<1> QED BY <1>2, <1>3 DEF GetVersionForProcess, Goto

LEMMA StatusDiscovery == IInv /\ DiscoveryInv /\ LogInterpreterStatus => DiscoveryInv'
<1> SUFFICES ASSUME IInv, DiscoveryInv, LogInterpreterStatus PROVE DiscoveryInv'
  OBVIOUS
<1>1. /\ pc = "status" /\ UNCHANGED <<targetVars, alive, searchVars>>
      /\ \/ pc' = "search"
         \/ pc' = "error" /\ ReadOutcomes("runtime") # {"ok"}
  BY DEF LogInterpreterStatus, Goto
<1>2. SearchedInv' /\ WalkInv' /\ TriedInv'
  BY <1>1, Before
<1>3. CandidateInv' /\ ErrorHasCause'
  BY <1>1, FailureHasReason DEF CandidateInv, ErrorHasCause, targetVars
<1> QED BY <1>2, <1>3 DEF DiscoveryInv

\* What the methods find depends on the target and its version alone.
LEMMA FoundStays ==
  ASSUME UNCHANGED <<targetVars, versionVars>>
  PROVE  Found' = Found
<1>1. /\ interpreters' = interpreters /\ content' = content /\ unreadable' = unreadable
      /\ version' = version /\ d_version' = d_version /\ elf' = elf /\ symbols' = symbols
      /\ d_debug_offsets_addr' = d_debug_offsets_addr
  BY DEF targetVars, versionVars
<1>2. ASSUME NEW words PROVE FirstValid(words)' = FirstValid(words)
  BY <1>1, Zenon DEF FirstValid, SelectInSeq, IsValidInterpreterState, Passes
<1>3. FindFromPyRuntime' = FindFromPyRuntime
  BY <1>1, <1>2 DEF FindFromPyRuntime
<1>4. ASSUME NEW a PROVE ScanMemoryArea(a)' = ScanMemoryArea(a)
  BY <1>1, <1>2 DEF ScanMemoryArea
<1>5. ScanAllAnonymousMaps' = ScanAllAnonymousMaps
  BY <1>4, Zenon DEF ScanAllAnonymousMaps, SelectInSeq
<1> QED BY <1>1, <1>3, <1>4, <1>5 DEF Found

\* A method that finds nothing is one less to try; what one finds is where the walk
\* begins.
LEMMA TryDiscovery == IInv /\ DiscoveryInv /\ TryMethod => DiscoveryInv'
<1> SUFFICES ASSUME IInv, DiscoveryInv, TryMethod PROVE DiscoveryInv'
  OBVIOUS
<1> USE DEF DiscoveryInv
<1>1. /\ pc = "search" /\ todo # {} /\ todo \subseteq Method
      /\ UNCHANGED <<targetVars, alive, versionVars, reported>>
  BY DEF TryMethod, TriedInv, SearchedInv, Request
<1>2. PICK r \in Results(NextMethod) :
        \/ r \in {Null, Exception} /\ todo' = todo \ {NextMethod} /\ UNCHANGED <<pc, head>>
        \/ r \notin {Null, Exception} /\ head' = r /\ pc' = "walk" /\ UNCHANGED todo
  BY DEF TryMethod, Goto
<1>3. NextMethod \in todo /\ NextMethod \in Method
  BY <1>1, NextInOrder
<1>4. SearchedInv'
  BY <1>1, SearchedStays
<1>5. CandidateInv' /\ ErrorHasCause'
  BY <1>1, <1>2 DEF CandidateInv, ErrorHasCause
<1>6. \A m \in request.methods : Found'[m] = Found[m]
  BY <1>1, FoundStays
<1>7. CASE r \in {Null, Exception} /\ todo' = todo \ {NextMethod} /\ UNCHANGED <<pc, head>>
  <2>1. alive => Found[NextMethod] \in {Null, Exception}
    BY <1>2, <1>7 DEF Results
  <2>2. TriedInv'
    BY <1>1, <1>6, <1>7, <2>1 DEF TriedInv, targetVars
  <2>3. WalkInv'
    BY <1>1, <1>7 DEF WalkInv, targetVars
  <2> QED BY <1>4, <1>5, <2>2, <2>3
<1>8. CASE r \notin {Null, Exception} /\ head' = r /\ pc' = "walk" /\ UNCHANGED todo
  <2>1. TriedInv'
    BY <1>1, <1>8 DEF TriedInv, targetVars
  <2>2. r \in ToSet(interpreters)
    BY <1>3, <1>8, ResultsAreFindings DEF Findings
  <2>3. PICK k \in 1 .. Len(interpreters) : interpreters[k] = r
    BY <2>2, ListOfInterpreters DEF ToSet
  <2>4. HeadIsKnown => k = 1
    <3>1. HeadIsKnown => r = interpreters[1]
      BY <1>1, <1>2, <1>8, HeadIsFound, ListOfInterpreters
    <3>2. 1 \in 1 .. Len(interpreters)
      BY ListOfInterpreters
    <3> QED BY <2>3, <3>1, <3>2, ListOfInterpreters
  <2>5. HeadIsKnown' => HeadIsKnown
    BY <1>1 DEF HeadIsKnown, targetVars
  <2>6. reported' = <<>> /\ head' = interpreters[k] /\ interpreters' = interpreters
        /\ version' = version
    BY <1>1, <1>8, <2>3 DEF WalkInv, targetVars
  <2>7. Walked'
    <3>1. /\ k \in DOMAIN interpreters /\ k \in k .. Len(interpreters) + 1
          /\ ~(k > Len(interpreters)) /\ Len(interpreters) \in Nat
      BY ListOfInterpreters
    <3>2. SubSeq(interpreters, k, k - 1) = <<>>
      BY <3>1, ListOfInterpreters
    <3>3. head' # Null
      BY <1>8
    <3> QED BY <2>4, <2>5, <2>6, <3>1, <3>2, <3>3 DEF Walked
  <2>8. WalkInv'
    BY <1>8, <2>2, <2>6, <2>7 DEF WalkInv
  <2> QED BY <1>4, <1>5, <2>1, <2>8
<1> QED BY <1>2, <1>7, <1>8

\* The walk takes the interpreters one after the other from where it began.
LEMMA StepDiscovery ==
  ASSUME IInv, DiscoveryInv, SkipInterpreter \/ BuildThreadsFromInterpreter
  PROVE  DiscoveryInv'
<1> USE DEF DiscoveryInv
<1>0. Len(interpreters) \in Nat
  BY ListOfInterpreters
<1>1. /\ pc = "walk" /\ pc' = "walk" /\ head # Null /\ head' = GetNextInterpreter(head)
      /\ UNCHANGED <<targetVars, alive, versionVars, todo>>
  BY DEF SkipInterpreter, BuildThreadsFromInterpreter
<1>2. SearchedInv' /\ TriedInv'
  BY <1>1, SearchedStays DEF TriedInv, targetVars
<1>3. CandidateInv' /\ ErrorHasCause'
  BY <1>1 DEF CandidateInv, ErrorHasCause
<1>4. /\ interpreters \in Seq(Interpreter) /\ Len(interpreters) \in Nat \ {0}
      /\ DOMAIN interpreters = 1 .. Len(interpreters)
      /\ \A i \in 1 .. Len(interpreters) : interpreters[i] \in Interpreter
      /\ \A i, j \in 1 .. Len(interpreters) : interpreters[i] = interpreters[j] => i = j
      /\ Null \notin Interpreter
  BY ListOfInterpreters, DiscoveryAssumption
<1>5. d_version = version /\ interpreters' = interpreters /\ version' = version
  BY <1>1 DEF IInv, PcInv, Initialized, Settled, targetVars
<1>6. HeadIsKnown' => HeadIsKnown
  BY <1>1 DEF HeadIsKnown, targetVars
<1>7. PICK p \in 1 .. Len(interpreters) : head = interpreters[p]
  BY <1>1, <1>4 DEF WalkInv, ToSet
<1>8. head' = IF p = Len(interpreters) THEN Null ELSE interpreters[p + 1]
  BY <1>1, <1>7, NextOfList
<1>9. head' = Null <=> p = Len(interpreters)
  <2>1. p # Len(interpreters) => p + 1 \in 1 .. Len(interpreters)
    BY <1>0
  <2> QED BY <1>4, <1>8, <2>1
<1>10. head' # Null => head' \in ToSet(interpreters)
  <2>1. p # Len(interpreters) => p + 1 \in 1 .. Len(interpreters)
    BY <1>0
  <2> QED BY <1>4, <1>8, <2>1 DEF ToSet
<1>11. CASE SkipInterpreter
  <2>1. version < 311 /\ UNCHANGED reported /\ head' # Null /\ ~(version >= 311)
    BY <1>1, <1>5, <1>11, DiscoveryAssumption DEF SkipInterpreter, IInv, TargetInv
  <2>2. reported = <<>>
    BY <1>1, <2>1 DEF WalkInv, Walked
  <2>3. Walked'
    BY <1>5, <2>1, <2>2 DEF Walked
  <2> QED BY <1>1, <1>2, <1>3, <1>5, <1>10, <2>1, <2>3 DEF WalkInv
<1>12. CASE BuildThreadsFromInterpreter
  <2>1. reported' = Append(reported, head) /\ reported' \in Seq(Interpreter)
    BY <1>4, <1>7, <1>12 DEF BuildThreadsFromInterpreter, WalkInv
  <2>2. CASE version >= 311
    <3>1. PICK k \in DOMAIN interpreters : \E n \in k .. Len(interpreters) + 1 :
            /\ reported = SubSeq(interpreters, k, n - 1)
            /\ head = IF n > Len(interpreters) THEN Null ELSE interpreters[n]
            /\ HeadIsKnown => k = 1
      BY <1>1, <2>2 DEF WalkInv, Walked
    <3>2. PICK n \in k .. Len(interpreters) + 1 :
            /\ reported = SubSeq(interpreters, k, n - 1)
            /\ head = IF n > Len(interpreters) THEN Null ELSE interpreters[n]
            /\ HeadIsKnown => k = 1
      BY <3>1
    <3>3. n \in 1 .. Len(interpreters) /\ k \in 1 .. Len(interpreters) /\ k <= n
      BY <1>1, <1>4, <3>1, <3>2
    <3>4. n = p
      BY <1>4, <1>7, <3>2, <3>3
    <3>5. reported' = SubSeq(interpreters, k, n)
      <4>1. n - 1 \in k - 1 .. Len(interpreters) /\ n \in k .. Len(interpreters)
        BY <1>4, <3>3
      <4>2. SubSeq(interpreters, k, n) = SubSeq(interpreters, k, n - 1) \o <<interpreters[n]>>
        BY <1>4, <3>3, <4>1, SubSeqRecursiveSecond
      <4>3. reported \in Seq(Interpreter) /\ head \in Interpreter
        BY <1>4, <1>7 DEF WalkInv
      <4>4. Append(reported, head) = reported \o <<head>>
        BY <4>3, AppendIsConcat
      <4> QED BY <1>7, <2>1, <3>2, <3>4, <4>2, <4>4
    <3>6. /\ n + 1 \in k .. Len(interpreters) + 1 /\ (n + 1) - 1 = n
          /\ (n + 1 > Len(interpreters) <=> n = Len(interpreters))
      BY <1>0, <3>3
    <3>7. head' = IF n + 1 > Len(interpreters) THEN Null ELSE interpreters[n + 1]
      BY <1>8, <3>4, <3>6
    <3>8. Walked'
      <4>1. \E m \in k .. Len(interpreters) + 1 :
              /\ reported' = SubSeq(interpreters, k, m - 1)
              /\ head' = IF m > Len(interpreters) THEN Null ELSE interpreters[m]
              /\ HeadIsKnown' => k = 1
        BY <1>6, <3>2, <3>5, <3>6, <3>7
      <4> QED BY <1>5, <2>2, <4>1 DEF Walked
    <3> QED BY <1>1, <1>2, <1>3, <1>5, <1>10, <2>1, <3>8 DEF WalkInv
  <2>3. CASE ~(version >= 311)
    <3>1. p = Len(interpreters) /\ head' = Null
      BY <1>1, <1>5, <1>9, <1>12, <2>3, DiscoveryAssumption
         DEF BuildThreadsFromInterpreter, IInv, TargetInv
    <3>2. reported = <<>>
      BY <1>1, <2>3 DEF WalkInv, Walked
    <3>3. reported' = <<Last(interpreters)>>
      BY <1>7, <2>1, <3>1, <3>2 DEF Last
    <3>4. Walked'
      BY <1>5, <2>3, <3>1, <3>3 DEF Walked
    <3> QED BY <1>1, <1>2, <1>3, <1>5, <2>1, <3>1, <3>4 DEF WalkInv
  <2> QED BY <2>2, <2>3
<1> QED BY <1>11, <1>12

\* The ends of the search and of the walk.
LEMMA EndDiscovery ==
  ASSUME IInv, DiscoveryInv, NothingFound \/ WalkFails \/ WalkEnds
  PROVE  DiscoveryInv'
<1> USE DEF DiscoveryInv
<1>1. /\ pc \in {"search", "walk"} /\ pc' \in {"done", "not_enough", "error"}
      /\ UNCHANGED <<targetVars, alive, versionVars, searchVars>>
  BY DEF NothingFound, WalkFails, WalkEnds, Goto
<1>2. SearchedInv' /\ CandidateInv'
  BY <1>1, SearchedStays DEF CandidateInv
<1>3. TriedInv'
  <2>1. \A m \in request.methods : Found'[m] = Found[m]
    BY <1>1, FoundStays
  <2>2. pc' = "not_enough" => pc = "search" /\ todo = {}
    BY DEF NothingFound, WalkFails, WalkEnds, Goto
  <2> QED BY <1>1, <2>1, <2>2 DEF TriedInv, targetVars, searchVars
<1>4. WalkInv'
  <2>1. Walked => Walked'
    BY <1>1 DEF Walked, HeadIsKnown, targetVars, searchVars
  <2>2. /\ pc = "search" => head = Null /\ reported = <<>>
        /\ pc' = "done" /\ pc = "walk" => head = Null
        /\ pc' = "not_enough" => pc = "search"
    BY DEF WalkInv, NothingFound, WalkFails, WalkEnds, Goto
  <2> QED BY <1>1, <2>1, <2>2 DEF WalkInv, targetVars, searchVars
<1>5. ErrorHasCause'
  <2>1. pc' = "error" => head \in ToSet(interpreters) /\ ReadOutcomes(head) # {"ok"}
    BY DEF NothingFound, WalkFails, WalkEnds, Goto, WalkInv
  <2> QED BY <1>1, <2>1, FailureHasReason DEF ErrorHasCause, targetVars
<1> QED BY <1>2, <1>3, <1>4, <1>5

\* The death of the target excuses everything.
LEMMA DieDiscovery == DiscoveryInv /\ Die => DiscoveryInv'
<1> SUFFICES ASSUME DiscoveryInv, Die PROVE DiscoveryInv'
  OBVIOUS
<1> USE DEF DiscoveryInv
<1>1. ~alive' /\ UNCHANGED <<targetVars, pc, pyruntime_addr, versionVars, searchVars>>
  BY DEF Die
<1>2. SearchedInv' /\ CandidateInv' /\ TriedInv' /\ ErrorHasCause'
  BY <1>1, SearchedStays
     DEF CandidateInv, Excused, TriedInv, ErrorHasCause, targetVars, searchVars
<1>3. WalkInv'
  <2>1. Walked => Walked'
    BY <1>1 DEF Walked, HeadIsKnown, targetVars, searchVars
  <2> QED BY <1>1, <2>1 DEF WalkInv, targetVars, searchVars
<1> QED BY <1>2, <1>3

\* Every step preserves the invariant of the search and the walk.
LEMMA NextDiscovery == IInv /\ DiscoveryInv /\ [Next]_vars => DiscoveryInv'
<1>1. ASSUME DiscoveryInv, UNCHANGED vars PROVE DiscoveryInv'
  <2>1. UNCHANGED <<targetVars, alive, pc, pyruntime_addr, versionVars, searchVars>>
    BY <1>1 DEF vars
  <2>2. SearchedInv' /\ CandidateInv' /\ ErrorHasCause'
    BY <1>1, <2>1, SearchedStays
       DEF DiscoveryInv, CandidateInv, Excused, ErrorHasCause, targetVars, versionVars
  <2>3. TriedInv'
    BY <1>1, <2>1, FoundStays DEF DiscoveryInv, TriedInv, targetVars, searchVars
  <2>4. WalkInv'
    <3>1. Walked => Walked'
      BY <2>1 DEF Walked, HeadIsKnown, targetVars, searchVars
    <3> QED BY <1>1, <2>1, <3>1 DEF DiscoveryInv, WalkInv, targetVars, searchVars
  <2> QED BY <2>2, <2>3, <2>4 DEF DiscoveryInv
<1> QED BY <1>1, LocateDiscovery, ReadHeaderDiscovery, ReadTableDiscovery, FindVersionDiscovery,
           GetVersionDiscovery, StatusDiscovery, TryDiscovery, StepDiscovery, EndDiscovery,
           DieDiscovery DEF Next

LEMMA DiscoveryHolds == Spec => []DiscoveryInv
BY InitDiscovery, NextDiscovery, Invariance, PTL DEF Spec

\* What a search finds is an interpreter of the target, whatever else there is in
\* the areas that are searched (process.cpp:278-369).
THEOREM FindsInterpreters == Spec => []OnlyInterpretersAreFound
<1>1. DiscoveryInv => OnlyInterpretersAreFound
  BY DEF DiscoveryInv, WalkInv, OnlyInterpretersAreFound
<1> QED BY <1>1, DiscoveryHolds, PTL

\* When nothing is found, each of the methods that were asked for was tried and found
\* nothing itself: none was given up for what another threw (thread_builder.cpp:173-196).
THEOREM MethodsAreIndependent == Spec => []FailuresStayInTheirMethod
<1>1. DiscoveryInv => FailuresStayInTheirMethod
  BY DEF DiscoveryInv, TriedInv, FailuresStayInTheirMethod
<1> QED BY <1>1, DiscoveryHolds, PTL

\* The rest of a sequence is a suffix of it.
LEMMA RestIsSuffix ==
  ASSUME NEW S, NEW s \in Seq(S), NEW k \in 1 .. Len(s)
  PROVE  IsSuffix(SubSeq(s, k, Len(s)), s)
<1> DEFINE b == SubSeq(s, k, Len(s))
           r == Reverse(b)
           t == Reverse(s)
<1>1. Len(s) \in Nat /\ k \in Int /\ \A j \in k .. Len(s) : s[j] \in S
  OBVIOUS
<1>2. /\ b \in Seq(S) /\ Len(b) = IF k <= Len(s) THEN Len(s) - k + 1 ELSE 0
      /\ \A j \in 1 .. Len(s) - k + 1 : b[j] = s[k + j - 1]
  BY <1>1, SubSeqProperties
<1> HIDE DEF b
<1>3. Len(b) \in Nat /\ Len(b) = Len(s) - k + 1 /\ Len(b) <= Len(s)
  BY <1>1, <1>2
<1>4. /\ r = [j \in 1 .. Len(b) |-> b[(Len(b) - j) + 1]] /\ Len(r) = Len(b)
      /\ t = [j \in 1 .. Len(s) |-> s[(Len(s) - j) + 1]] /\ Len(t) = Len(s)
  BY <1>1, <1>3 DEF Reverse
<1>5. ASSUME NEW j \in 1 .. Len(b) PROVE r[j] = t[j] /\ r[j] \in S
  <2>1. PICK i \in 1 .. Len(s) - k + 1 : i = (Len(b) - j) + 1
    <3>1. (Len(b) - j) + 1 \in 1 .. Len(b) /\ Len(b) = Len(s) - k + 1
      BY <1>3
    <3> QED BY <3>1
  <2>2. b[(Len(b) - j) + 1] = s[(Len(s) - j) + 1]
    <3>1. b[i] = s[k + i - 1]
      BY <1>2
    <3>2. k + i - 1 = (Len(s) - j) + 1
      BY <1>1, <1>3, <2>1
    <3> QED BY <2>1, <3>1, <3>2
  <2>3. j \in 1 .. Len(s) /\ (Len(s) - j) + 1 \in 1 .. Len(s)
    BY <1>1, <1>3
  <2> QED BY <1>4, <2>2, <2>3
<1>6. SubSeq(r, 1, Len(b)) = SubSeq(t, 1, Len(b))
  <2> HIDE DEF r, t
  <2>1. \A j \in 1 .. Len(b) : r[j] \in S /\ t[j] \in S
    BY <1>5
  <2>2. /\ SubSeq(r, 1, Len(b)) \in Seq(S) /\ SubSeq(t, 1, Len(b)) \in Seq(S)
        /\ Len(SubSeq(r, 1, Len(b))) = Len(b) /\ Len(SubSeq(t, 1, Len(b))) = Len(b)
        /\ \A j \in 1 .. Len(b) : SubSeq(r, 1, Len(b))[j] = r[j] /\ SubSeq(t, 1, Len(b))[j] = t[j]
    BY <1>3, <2>1, SubSeqProperties
  <2> QED BY <1>5, <2>2, SeqEqual
<1> QED BY <1>3, <1>4, <1>6 DEF IsSuffix, IsPrefix, b

\* A report is never cut short: from 3.11 on it goes from the interpreter that was
\* found to the end of the list, and from its beginning if that was known; before, it
\* is the main interpreter (bindings.cpp:716-731).
THEOREM ReportsAreComplete == Spec => []ReportIsComplete
<1>1. DiscoveryInv => ReportIsComplete
  <2> SUFFICES ASSUME DiscoveryInv, pc = "done", reported # <<>>
               PROVE  IF version >= 311
                        THEN /\ IsSuffix(reported, interpreters)
                             /\ HeadIsKnown => reported = interpreters
                        ELSE reported = <<Last(interpreters)>>
    BY DEF ReportIsComplete
  <2>1. head = Null /\ Walked
    BY DEF DiscoveryInv, WalkInv
  <2>2. /\ interpreters \in Seq(Interpreter) /\ DOMAIN interpreters = 1 .. Len(interpreters)
        /\ \A i \in 1 .. Len(interpreters) : interpreters[i] # Null
        /\ Len(interpreters) \in Nat
    BY ListOfInterpreters, DiscoveryAssumption DEF DiscoveryInv
  <2>3. CASE version >= 311
    <3>1. PICK k \in 1 .. Len(interpreters) : \E n \in k .. Len(interpreters) + 1 :
            /\ reported = SubSeq(interpreters, k, n - 1)
            /\ head = IF n > Len(interpreters) THEN Null ELSE interpreters[n]
            /\ HeadIsKnown => k = 1
      BY <2>1, <2>2, <2>3 DEF Walked
    <3>2. PICK n \in k .. Len(interpreters) + 1 :
            /\ reported = SubSeq(interpreters, k, n - 1)
            /\ head = IF n > Len(interpreters) THEN Null ELSE interpreters[n]
            /\ HeadIsKnown => k = 1
      BY <3>1
    <3>3. n > Len(interpreters)
      <4>1. n <= Len(interpreters) => n \in 1 .. Len(interpreters)
        BY <2>2
      <4> QED BY <2>1, <2>2, <3>2, <4>1
    <3>4. n - 1 = Len(interpreters)
      BY <2>2, <3>3
    <3>5. reported = SubSeq(interpreters, k, Len(interpreters))
      BY <3>2, <3>4
    <3>6. IsSuffix(reported, interpreters)
      BY <2>2, <3>5, RestIsSuffix
    <3>7. HeadIsKnown => reported = interpreters
      BY <2>2, <3>2, <3>5, SubSeqFull
    <3> QED BY <2>3, <3>6, <3>7
  <2>4. CASE ~(version >= 311)
    BY <2>1, <2>4 DEF Walked
  <2> QED BY <2>3, <2>4
<1> QED BY <1>1, DiscoveryHolds, PTL

\* An error has a cause in the target: it is dead, its runtime or an interpreter cannot
\* be read, nothing tells its version, or its table is missing or not valid.
THEOREM ErrorsAreCaused == Spec => []ErrorHasCause
<1>1. DiscoveryInv => ErrorHasCause
  BY DEF DiscoveryInv
<1> QED BY <1>1, DiscoveryHolds, PTL

-----------------------------------------------------------------------------
(* Types.                                                                   *)

LEMMA NextTypes == IInv /\ DiscoveryInv /\ TypeOK /\ [Next]_vars => TypeOK'
<1> SUFFICES ASSUME IInv, DiscoveryInv, TypeOK, [Next]_vars PROVE TypeOK'
  OBVIOUS
<1>0. DiscoveryInv' /\ IInv'
  BY NextDiscovery, NextIInv
<1>1. todo' \subseteq Method /\ head' \in Interpreter \cup {Null} /\ reported' \in Seq(Interpreter)
  <2>1. SearchedInv' /\ TriedInv' /\ WalkInv'
    BY <1>0 DEF DiscoveryInv
  <2>2. todo' \subseteq Method
    BY <2>1 DEF SearchedInv, TriedInv, Request
  <2>3. ToSet(interpreters)' \subseteq Interpreter
    <3>1. interpreters' \in Seq(Interpreter)
      BY <2>1, DiscoveryAssumption DEF SearchedInv
    <3> QED BY <3>1 DEF ToSet
  <2> QED BY <2>1, <2>2, <2>3 DEF WalkInv
<1> DEFINE VersionTypes ==
             /\ d_version \in Nat
             /\ d_py_v \in {0, d_version}
             /\ d_debug_offsets_addr \in Place \cup {Null}
             /\ d_debug_offsets \in TableName \cup {Null}
             /\ d_is_free_threaded \in BOOLEAN \cup {Null}
           Pcs == {"locate", "cookie", "hex", "load", "warn", "version", "detect", "status",
                   "search", "walk", "done", "not_enough", "error"}
<1>2. VersionTypes /\ pc \in Pcs /\ alive \in BOOLEAN /\ pyruntime_addr \in Place \cup {Null}
  BY DEF TypeOK
<1>3. UNCHANGED versionVars => VersionTypes'
  BY <1>2 DEF versionVars
<1>4. RejectDebugOffsets => VersionTypes' /\ pc' \in Pcs
  BY <1>2 DEF RejectDebugOffsets, Goto
<1>5. ASSUME NEW x, ReadFails(x) PROVE VersionTypes' /\ pc' \in Pcs
  BY <1>3, <1>4, <1>5 DEF ReadFails, Goto
<1>6. ASSUME pyruntime_addr \in Place, UseDebugOffsets(pyruntime_addr)
      PROVE  VersionTypes' /\ pc' \in Pcs
  <2>1. debug[pyruntime_addr].table \in TableName /\ debug[pyruntime_addr].free_threaded \in BOOLEAN
    BY <1>6 DEF IInv, TargetInv, DiscoveryInv, SearchedInv
  <2> QED BY <1>2, <1>6, <2>1 DEF UseDebugOffsets, Goto
<1>7. ASSUME NEW v \in Nat, InitializeVersion(v) PROVE VersionTypes' /\ pc' \in Pcs
  BY <1>2, <1>7 DEF InitializeVersion, SetPythonVersion, Goto
<1>8. CASE LocateDebugOffsets
  <2>1. pyruntime_addr' \in Place \cup {Null}
    <3>1. FindDebugOffsetsFromMaps \subseteq Place \cup {Null}
      BY DEF FindDebugOffsetsFromMaps, IInv, TargetInv
    <3> QED BY <1>8, <3>1 DEF LocateDebugOffsets, Place
  <2> QED BY <1>1, <1>2, <1>3, <1>8, <2>1 DEF LocateDebugOffsets, Goto, TypeOK
<1>9. CASE ReadCookie
  <2>1. VersionTypes' /\ pc' \in Pcs
    BY <1>3, <1>5, <1>9 DEF ReadCookie, Goto
  <2> QED BY <1>1, <1>2, <1>9, <2>1 DEF ReadCookie, TypeOK
<1>10. CASE ReadVersionHex
  <2>1. pyruntime_addr \in Place /\ debug[pyruntime_addr].version \in Nat
    BY <1>10 DEF ReadVersionHex, IInv, PcInv, TargetInv
  <2>2. VersionTypes' /\ pc' \in Pcs
    BY <1>2, <1>4, <1>5, <1>10, <2>1 DEF ReadVersionHex, SetPythonVersion, Goto
  <2> QED BY <1>1, <1>2, <1>10, <2>2 DEF ReadVersionHex, TypeOK
<1>11. CASE LoadDebugOffsets \/ WarnIfOffsetsAreMismatched
  <2>1. pyruntime_addr \in Place /\ UNCHANGED <<alive, pyruntime_addr>>
    BY <1>11 DEF LoadDebugOffsets, WarnIfOffsetsAreMismatched, IInv, PcInv
  <2>2. VersionTypes' /\ pc' \in Pcs
    BY <1>3, <1>4, <1>5, <1>6, <1>11, <2>1
       DEF LoadDebugOffsets, WarnIfOffsetsAreMismatched, Goto
  <2> QED BY <1>1, <1>2, <2>1, <2>2 DEF TypeOK
<1>12. CASE FindPythonVersion \/ GetVersionForProcess
  <2>1. version \in Nat /\ version_word \in Nat /\ d_version \in Nat
    BY <1>2, DiscoveryAssumption DEF IInv, TargetInv
  <2>2. VersionTypes' /\ pc' \in Pcs
    BY <1>3, <1>7, <1>12, <2>1 DEF FindPythonVersion, GetVersionForProcess, Goto
  <2>3. UNCHANGED <<alive, pyruntime_addr>>
    BY <1>12 DEF FindPythonVersion, GetVersionForProcess
  <2> QED BY <1>1, <1>2, <2>2, <2>3 DEF TypeOK
<1>13. CASE \/ LogInterpreterStatus \/ TryMethod \/ NothingFound \/ SkipInterpreter
            \/ BuildThreadsFromInterpreter \/ WalkFails \/ WalkEnds \/ Die \/ UNCHANGED vars
  <2>1. pc' \in Pcs /\ alive' \in BOOLEAN /\ UNCHANGED <<pyruntime_addr, versionVars>>
    <3>1. CASE LogInterpreterStatus \/ NothingFound \/ WalkFails \/ WalkEnds
      BY <1>2, <3>1 DEF LogInterpreterStatus, NothingFound, WalkFails, WalkEnds, Goto
    <3>2. CASE TryMethod
      BY <1>2, <3>2 DEF TryMethod, Goto
    <3>3. CASE SkipInterpreter \/ BuildThreadsFromInterpreter
      BY <1>2, <3>3 DEF SkipInterpreter, BuildThreadsFromInterpreter
    <3>4. CASE Die
      BY <1>2, <3>4 DEF Die
    <3>5. CASE UNCHANGED vars
      BY <1>2, <3>5 DEF vars
    <3> QED BY <1>13, <3>1, <3>2, <3>3, <3>4, <3>5
  <2> QED BY <1>1, <1>2, <1>3, <2>1 DEF TypeOK
<1> QED BY <1>8, <1>9, <1>10, <1>11, <1>12, <1>13 DEF Next

\* Type correctness.
THEOREM TypeCorrect == Spec => []TypeOK
<1>1. Init => TypeOK
  BY DiscoveryAssumption DEF Init, TypeOK, Request
<1> QED BY <1>1, NextTypes, DiscoveryHolds, Invariance, PTL DEF Spec
=============================================================================
