------------------------ MODULE InterpreterDiscovery ------------------------
(***************************************************************************)
(* From the memory of a target to its interpreters: which Python it runs   *)
(* and with which table of offsets to read it (process.cpp,                *)
(* version_detector.cpp), where its interpreters are (thread_builder.cpp), *)
(* and the walk over them (bindings.cpp).  The target does not change      *)
(* while it is read, but it may die, and parts of it cannot be read.       *)
(***************************************************************************)
EXTENDS DebugOffsets, Sequences, SequencesExt

CONSTANTS
  Versions,       \* what the target may run, 100 * major + minor
  FreeThreaded,   \* those of them that are builds without the GIL
  Interpreter,    \* the addresses of interpreter states
  Lists,          \* the interpreters of the target, the main one last
  AnonymousMaps,  \* its anonymous maps, in their order
  Contents,       \* the words in the areas that are searched
  TableName, TableOf,  \* the tables there may be in memory, by name
  StaticTable,    \* the table of version.cpp
  Reported,       \* the names of those that a target may report
  Copies,         \* what another structure may hold, see Header
  Requests,       \* what pystack is asked for, see Request
  Hints,          \* what may tell the version: text in the bss, the names of files
  Unreadable,     \* the sets of places that together cannot be read
  Null

\* isValidInterpreterState looks at five things.  A word that is not the address
\* of an interpreter may pass all but one of them, and is named after that one.
Check == {"mapped", "readable", "tstate_head", "interp", "dictionaries"}

\* How a method may end beside its result.
Exception == "exception"

Anonymous == {AnonymousMaps[i] : i \in DOMAIN AnonymousMaps}
Scanned == Anonymous \cup {"bss", "heap"}

\* Where a structure with a cookie may be: in the runtime, or in a copy elsewhere.
Place == {"runtime", "copy"}
Header == [cookie : BOOLEAN, version : Nat, table : TableName, free_threaded : BOOLEAN]

Method ==
  {"debug_offsets", "elf_data", "symbols", "bss", "anonymous_maps", "heap"}
Request == [methods : SUBSET Method, native_all : BOOLEAN]

Readable == Place \cup Scanned \cup Interpreter \cup {"Py_Version"}

ASSUME DiscoveryAssumption ==
  /\ Versions \subseteq Nat \ {0}
  /\ FreeThreaded \subseteq {v \in Versions : v >= 313}
  /\ Interpreter \cap (Check \cup {Null}) = {}
  /\ Lists \subseteq Seq(Interpreter) \ {<<>>}
  /\ \A l \in Lists : IsInjective(l)
  /\ AnonymousMaps \in Seq(Anonymous)
  /\ Contents \subseteq [Scanned -> Seq(Interpreter \cup Check)]
  /\ TableOf \in [TableName -> Table]
  /\ StaticTable \in Table
  /\ Reported \subseteq TableName
  /\ Copies \subseteq Header
  /\ Requests \subseteq Request
  /\ Hints \subseteq SUBSET {"bss", "name"}
  /\ Unreadable \subseteq SUBSET Readable
  /\ Null \notin TableName \cup Place \cup {Exception}
  /\ Null \notin BOOLEAN
  /\ Exception \notin Interpreter

VARIABLES
  version, interpreters, content,  \* the target
  debug,        \* what is at each Place
  maps,         \* the order of the maps that hold them
  version_word, \* what the variable Py_Version holds
  symbols, elf, hints,  \* what its files tell: symbols, sections, names
  unreadable,   \* the places that cannot be read
  alive,
  request,
  pc,
  pyruntime_addr,  \* the candidate that is being looked at
  d_version,       \* d_major and d_minor, 0 if not set
  d_py_v,          \* the version whose static table is used, 0 for none
  d_debug_offsets_addr,
  d_debug_offsets,  \* the name of the table that was loaded
  d_is_free_threaded,
  todo,            \* the methods asked for and not tried yet
  head,            \* the interpreter that is looked at, or Null
  reported         \* the interpreters whose threads have been collected

targetVars == <<version, interpreters, content, debug, maps, version_word,
                symbols, elf, hints, unreadable, request>>
versionVars == <<d_version, d_py_v, d_debug_offsets_addr, d_debug_offsets,
                 d_is_free_threaded>>
searchVars == <<todo, head, reported>>
vars == <<targetVars, alive, pc, pyruntime_addr, versionVars, searchVars>>
-----------------------------------------------------------------------------
\* What is left of an interpreter that has ended fails a check as well.
Word == ToSet(interpreters) \cup Check

\* The order in which getInterpreterStateAddr tries the methods.
MethodOrder ==
  <<"debug_offsets", "elf_data", "symbols", "bss", "anonymous_maps", "heap">>

\* The symbols that a Python of version v has, if they were not stripped.
SymbolsOf(v) ==
  {s \in {"_PyRuntime", "interp_head", "Py_Version"} :
     /\ s = "_PyRuntime" => v >= 307
     /\ s = "interp_head" => v < 307
     /\ s = "Py_Version" => v >= 311}

\* loadDebugOffsets, of a table in memory: what it becomes, and whether it is valid.
Copied == [n \in TableName |-> CopyDebugOffsets(TableOf[n], StaticTable)]
Loaded == [n \in TableName |-> ClampSizes(Copied[n])]
IsValid == [n \in TableName |-> ValidateDebugOffsets(Copied[n])]

\* A version number that is sane, and one of a version that has the table.
HasDebugOffsets(v) == v >= 313

\* The runtime has a table from 3.13 on.
RuntimeHeaders(v) ==
  {[cookie |-> HasDebugOffsets(v),
    version |-> IF HasDebugOffsets(v) THEN v ELSE 0,
    table |-> t,
    free_threaded |-> v \in FreeThreaded] : t \in Reported}

\* A copy may hold anything, but one that passes for a table is the target's own.
CopyHeaders(v) ==
  {h \in Copies : h.cookie /\ IsValid[h.table] =>
                     h.version = v /\ h.free_threaded = (v \in FreeThreaded)}

Init ==
  /\ version \in Versions
  /\ interpreters \in Lists
  /\ content \in {c \in Contents : \A a \in Scanned : ToSet(c[a]) \subseteq Word}
  /\ debug \in [runtime : RuntimeHeaders(version), copy : CopyHeaders(version)]
  /\ maps \in IF debug["copy"].cookie THEN {<<"copy", "runtime">>, <<"runtime", "copy">>}
                                      ELSE {<<"runtime", "copy">>}
  /\ symbols \in SUBSET SymbolsOf(version)
  /\ version_word \in IF "Py_Version" \in symbols THEN {version, 0} ELSE {version}
  /\ elf \in IF version >= 310 THEN BOOLEAN ELSE {FALSE}
  /\ hints \in Hints
  /\ unreadable \in Unreadable
  /\ alive = TRUE
  /\ request \in Requests
  /\ pc = "locate"
  /\ pyruntime_addr = Null
  /\ d_version = 0
  /\ d_py_v = 0
  /\ d_debug_offsets_addr = Null
  /\ d_debug_offsets = Null
  /\ d_is_free_threaded = Null
  /\ todo = request.methods
  /\ head = Null
  /\ reported = <<>>
-----------------------------------------------------------------------------
(* The target.  A read throws RemoteMemCopyError ("invalid") or, of a target *)
(* that is dead, something else ("failed"); what is cached can still be read.*)

ReadOutcomes(x) ==
  {r \in {"ok", "invalid", "failed"} :
     /\ r = "ok" => x \notin unreadable
     /\ r = "invalid" => x \in unreadable \/ ~alive
     /\ r = "failed" => ~alive}

Die ==
  /\ alive
  /\ alive' = FALSE
  /\ UNCHANGED <<targetVars, pc, pyruntime_addr, versionVars, searchVars>>
-----------------------------------------------------------------------------
(* The version: setPythonVersionFromDebugOffsets, one action for each read.  *)

Goto(label) == pc' = label

ScanMemoryAreaForDebugOffsets(p) == debug[p].cookie /\ HasDebugOffsets(debug[p].version)

\* Maps that cannot be read are left out.  That the target dies between two of
\* them makes no other outcome possible than that it dies before or after.
FindDebugOffsetsFromMaps ==
  LET found == {i \in DOMAIN maps :
                  /\ "ok" \in ReadOutcomes(maps[i])
                  /\ ScanMemoryAreaForDebugOffsets(maps[i])}
      first == {i \in found : \A j \in found : i <= j}
  IN {maps[i] : i \in first} \cup {a \in {Null} : found = {} \/ ~alive}

LocateDebugOffsets ==
  /\ pc = "locate"
  /\ pyruntime_addr' \in
       IF "_PyRuntime" \in symbols \/ elf THEN {"runtime"} ELSE FindDebugOffsetsFromMaps
  /\ Goto(IF pyruntime_addr' = Null THEN "version" ELSE "cookie")
  /\ UNCHANGED <<targetVars, alive, versionVars, searchVars>>

\* Mutant of RejectDebugOffsets: the version of what is rejected stays.
RejectOffsetsOnly ==
  /\ d_debug_offsets_addr' = Null
  /\ d_debug_offsets' = Null
  /\ Goto("version")
  /\ UNCHANGED <<d_version, d_py_v, d_is_free_threaded>>

RejectDebugOffsets ==
  /\ d_version' = 0
  /\ d_py_v' = 0
  /\ d_debug_offsets_addr' = Null
  /\ d_debug_offsets' = Null
  /\ Goto("version")
  /\ UNCHANGED d_is_free_threaded

\* Only RemoteMemCopyError is caught here.
ReadFails(x) ==
  \/ "invalid" \in ReadOutcomes(x) /\ RejectDebugOffsets
  \/ "failed" \in ReadOutcomes(x) /\ Goto("error") /\ UNCHANGED versionVars

ReadCookie ==
  /\ pc = "cookie"
  /\ \/ /\ "ok" \in ReadOutcomes(pyruntime_addr)
        /\ Goto(IF debug[pyruntime_addr].cookie THEN "hex" ELSE "version")
        /\ UNCHANGED versionVars
     \/ ReadFails(pyruntime_addr)
  /\ UNCHANGED <<targetVars, alive, pyruntime_addr, searchVars>>

\* Mutant of SetPythonVersion: the numbers are not set.
SetTableOnly(v) ==
  /\ d_py_v' = v
  /\ UNCHANGED d_version

SetPythonVersion(v) ==
  /\ d_version' = v
  /\ d_py_v' = v

ReadVersionHex ==
  LET v == debug[pyruntime_addr].version
  IN /\ pc = "hex"
     /\ \/ /\ "ok" \in ReadOutcomes(pyruntime_addr)
           /\ IF HasDebugOffsets(v)
                THEN /\ SetPythonVersion(v)
                     /\ Goto("load")
                     /\ UNCHANGED <<d_debug_offsets_addr, d_debug_offsets, d_is_free_threaded>>
                ELSE RejectDebugOffsets
        \/ ReadFails(pyruntime_addr)
     /\ UNCHANGED <<targetVars, alive, pyruntime_addr, searchVars>>

UseDebugOffsets(p) ==
  /\ d_debug_offsets_addr' = p
  /\ d_debug_offsets' = debug[p].table
  /\ d_is_free_threaded' = debug[p].free_threaded
  /\ Goto("version")
  /\ UNCHANGED <<d_version, d_py_v>>

\* The whole structure is read again and its header compared with d_version.
LoadDebugOffsets ==
  LET h == debug[pyruntime_addr]
      accepted == h.cookie /\ h.version = d_version /\ IsValid[h.table]
  IN /\ pc = "load"
     /\ \/ /\ "ok" \in ReadOutcomes(pyruntime_addr)
           /\ \/ ~accepted /\ RejectDebugOffsets
              \/ accepted /\ d_version >= 314 /\ UseDebugOffsets(pyruntime_addr)
              \/ accepted /\ d_version < 314 /\ Goto("warn") /\ UNCHANGED versionVars
        \/ ReadFails(pyruntime_addr)
     /\ UNCHANGED <<targetVars, alive, pyruntime_addr, searchVars>>

\* Before 3.14 the structure is read once more, to compare the tables in the log.
WarnIfOffsetsAreMismatched ==
  /\ pc = "warn"
  /\ \/ "ok" \in ReadOutcomes(pyruntime_addr) /\ UseDebugOffsets(pyruntime_addr)
     \/ ReadFails(pyruntime_addr)
  /\ UNCHANGED <<targetVars, alive, pyruntime_addr, searchVars>>
-----------------------------------------------------------------------------
(* The version: findPythonVersion, getVersionForProcess, initializeVersion.  *)

\* Mutant of InitializeVersion: 3.14 without debug offsets is let pass.
InitializeAnyVersion(v) ==
  /\ SetPythonVersion(v)
  /\ Goto("status")
  /\ UNCHANGED <<d_debug_offsets_addr, d_debug_offsets, d_is_free_threaded>>

\* The end of initializeVersion.
InitializeVersion(v) ==
  /\ SetPythonVersion(v)
  /\ Goto(IF d_debug_offsets = Null /\ v >= 314 THEN "error" ELSE "status")
  /\ UNCHANGED <<d_debug_offsets_addr, d_debug_offsets, d_is_free_threaded>>

\* Mutant of FindPythonVersion: that Py_Version cannot be read is an error.
FindPythonVersionOrFail ==
  /\ pc = "version"
  /\ \/ d_py_v # 0 /\ InitializeVersion(d_version)
     \/ /\ d_py_v = 0
        /\ "Py_Version" \in symbols /\ version_word # 0
        /\ "ok" \in ReadOutcomes("Py_Version")
        /\ InitializeVersion(version_word)
     \/ /\ d_py_v = 0
        /\ "Py_Version" \notin symbols \/ version_word = 0
        /\ Goto("detect")
        /\ UNCHANGED versionVars
     \/ /\ d_py_v = 0 /\ "Py_Version" \in symbols
        /\ ReadOutcomes("Py_Version") # {"ok"}
        /\ Goto("error")
        /\ UNCHANGED versionVars
  /\ UNCHANGED <<targetVars, alive, pyruntime_addr, searchVars>>

FindPythonVersion ==
  /\ pc = "version"
  /\ \/ d_py_v # 0 /\ InitializeVersion(d_version)
     \/ /\ d_py_v = 0
        /\ "Py_Version" \in symbols /\ version_word # 0
        /\ "ok" \in ReadOutcomes("Py_Version")
        /\ InitializeVersion(version_word)
     \/ /\ d_py_v = 0
        /\ \/ "Py_Version" \notin symbols
           \/ version_word = 0
           \/ "invalid" \in ReadOutcomes("Py_Version")
        /\ Goto("detect")
        /\ UNCHANGED versionVars
     \/ /\ d_py_v = 0 /\ "Py_Version" \in symbols
        /\ "failed" \in ReadOutcomes("Py_Version")
        /\ Goto("error")
        /\ UNCHANGED versionVars
  /\ UNCHANGED <<targetVars, alive, pyruntime_addr, searchVars>>

\* Every failure to read the bss is caught; the names of the library and of the
\* binary, and what the binary prints, are one hint.
GetVersionForProcess ==
  /\ pc = "detect"
  /\ \/ /\ \/ "bss" \in hints /\ "ok" \in ReadOutcomes("bss")
           \/ "name" \in hints
        /\ InitializeVersion(version)
     \/ /\ "bss" \in hints => ReadOutcomes("bss") # {"ok"}
        /\ "name" \notin hints
        /\ Goto("error")
        /\ UNCHANGED versionVars
  /\ UNCHANGED <<targetVars, alive, pyruntime_addr, searchVars>>

\* get_process_threads asks isInterpreterActive, for the log, and only then; an
\* exception ends it.
LogInterpreterStatus ==
  /\ pc = "status"
  /\ \/ /\ request.native_all \/ "_PyRuntime" \notin symbols \/ "ok" \in ReadOutcomes("runtime")
        /\ Goto("search")
     \/ /\ ~request.native_all /\ "_PyRuntime" \in symbols
        /\ ReadOutcomes("runtime") # {"ok"}
        /\ Goto("error")
  /\ UNCHANGED <<targetVars, alive, pyruntime_addr, versionVars, searchVars>>
-----------------------------------------------------------------------------
(* The search: getInterpreterStateAddr.                                      *)

\* With the offsets of another version every check fails.
Passes(w, check) == d_version = version /\ w # check

\* Mutant of IsValidInterpreterState: the thread state need not point back.
HasThreadAndDictionaries(w) ==
  /\ Passes(w, "mapped")
  /\ Passes(w, "readable") /\ w \notin unreadable
  /\ Passes(w, "tstate_head")
  /\ Passes(w, "dictionaries")

IsValidInterpreterState(w) ==
  /\ Passes(w, "mapped")
  /\ Passes(w, "readable") /\ w \notin unreadable
  /\ Passes(w, "tstate_head")
  /\ Passes(w, "interp")
  /\ Passes(w, "dictionaries")

FirstValid(words) ==
  LET first == SelectInSeq(words, IsValidInterpreterState)
  IN IF first = 0 THEN Null ELSE words[first]

ScanMemoryArea(area) ==
  IF area \in unreadable THEN Exception ELSE FirstValid(content[area])

\* The first map that throws ends the scan of all of them.
ScanAllAnonymousMaps ==
  LET last == SelectInSeq(AnonymousMaps, LAMBDA m : ScanMemoryArea(m) # Null)
  IN IF last = 0 THEN Null ELSE ScanMemoryArea(AnonymousMaps[last])

FindFromPyRuntime ==
  IF "runtime" \in unreadable THEN Exception ELSE FirstValid(<<Head(interpreters)>>)

\* What each method finds in a target that lives.
Found ==
  [debug_offsets  |-> IF d_debug_offsets_addr = "runtime" /\ FindFromPyRuntime # Exception
                        THEN FindFromPyRuntime ELSE Null,
   elf_data       |-> IF elf THEN FindFromPyRuntime ELSE Null,
   symbols        |-> IF symbols \cap {"_PyRuntime", "interp_head"} # {}
                        THEN FindFromPyRuntime ELSE Null,
   bss            |-> ScanMemoryArea("bss"),
   anonymous_maps |-> ScanAllAnonymousMaps,
   heap           |-> ScanMemoryArea("heap")]

Areas ==
  [debug_offsets |-> {}, elf_data |-> {}, symbols |-> {},
   bss |-> {"bss"}, anonymous_maps |-> Anonymous, heap |-> {"heap"}]

ValidWords(area) == {w \in ToSet(content[area]) : IsValidInterpreterState(w)}

\* In a target that dies any read may fail, during a validation also.
Results(m) ==
  IF alive THEN {Found[m]}
           ELSE {Found[m], Null, Exception} \cup UNION {ValidWords(a) : a \in Areas[m]}

NextMethod == MethodOrder[SelectInSeq(MethodOrder, LAMBDA m : m \in todo)]

\* Mutant of TryMethod: a method that throws is the last.
TryMethodsUntilOneThrows ==
  /\ pc = "search"
  /\ todo # {}
  /\ \E r \in Results(NextMethod) :
       \/ /\ r \in {Null, Exception}
          /\ todo' = IF r = Exception THEN {} ELSE todo \ {NextMethod}
          /\ UNCHANGED <<pc, head>>
       \/ /\ r \notin {Null, Exception}
          /\ head' = r
          /\ Goto("walk")
          /\ UNCHANGED todo
  /\ UNCHANGED <<targetVars, alive, pyruntime_addr, versionVars, reported>>

TryMethod ==
  /\ pc = "search"
  /\ todo # {}
  /\ \E r \in Results(NextMethod) :
       \/ /\ r \in {Null, Exception}
          /\ todo' = todo \ {NextMethod}
          /\ UNCHANGED <<pc, head>>
       \/ /\ r \notin {Null, Exception}
          /\ head' = r
          /\ Goto("walk")
          /\ UNCHANGED todo
  /\ UNCHANGED <<targetVars, alive, pyruntime_addr, versionVars, reported>>

\* --native-all reports the native threads alone.
NothingFound ==
  /\ pc = "search"
  /\ todo = {}
  /\ Goto(IF request.native_all THEN "done" ELSE "not_enough")
  /\ UNCHANGED <<targetVars, alive, pyruntime_addr, versionVars, searchVars>>
-----------------------------------------------------------------------------
(* The walk over the interpreters in get_process_threads.                    *)

GetNextInterpreter(i) ==
  LET n == CHOOSE n \in DOMAIN interpreters : interpreters[n] = i
  IN IF n = Len(interpreters) THEN Null ELSE interpreters[n + 1]

\* Before 3.11 all interpreters but the main one are passed over.
SkipInterpreter ==
  /\ pc = "walk" /\ head # Null
  /\ "ok" \in ReadOutcomes(head)
  /\ GetNextInterpreter(head) # Null
  /\ d_version < 311
  /\ head' = GetNextInterpreter(head)
  /\ UNCHANGED <<targetVars, alive, pc, pyruntime_addr, versionVars, todo, reported>>

BuildThreadsFromInterpreter ==
  /\ pc = "walk" /\ head # Null
  /\ "ok" \in ReadOutcomes(head)
  /\ GetNextInterpreter(head) = Null \/ d_version >= 311
  /\ reported' = Append(reported, head)
  /\ head' = GetNextInterpreter(head)
  /\ UNCHANGED <<targetVars, alive, pc, pyruntime_addr, versionVars, todo>>

\* Mutant of WalkFails: what has been collected is reported.
WalkStops ==
  /\ pc = "walk" /\ head # Null
  /\ ReadOutcomes(head) # {"ok"}
  /\ Goto("done")
  /\ UNCHANGED <<targetVars, alive, pyruntime_addr, versionVars, searchVars>>

WalkFails ==
  /\ pc = "walk" /\ head # Null
  /\ ReadOutcomes(head) # {"ok"}
  /\ Goto("error")
  /\ UNCHANGED <<targetVars, alive, pyruntime_addr, versionVars, searchVars>>

WalkEnds ==
  /\ pc = "walk" /\ head = Null
  /\ Goto("done")
  /\ UNCHANGED <<targetVars, alive, pyruntime_addr, versionVars, searchVars>>

Next ==
  \/ LocateDebugOffsets \/ ReadCookie \/ ReadVersionHex
  \/ LoadDebugOffsets \/ WarnIfOffsetsAreMismatched
  \/ FindPythonVersion \/ GetVersionForProcess \/ LogInterpreterStatus
  \/ TryMethod \/ NothingFound
  \/ SkipInterpreter \/ BuildThreadsFromInterpreter \/ WalkFails \/ WalkEnds
  \/ Die

Spec == Init /\ [][Next]_vars
-----------------------------------------------------------------------------
\* Every variable of the search has a value of its type.
TypeOK ==
  /\ pc \in {"locate", "cookie", "hex", "load", "warn", "version", "detect", "status",
            "search", "walk", "done", "not_enough", "error"}
  /\ alive \in BOOLEAN
  /\ pyruntime_addr \in Place \cup {Null}
  /\ d_version \in Nat
  /\ d_py_v \in {0, d_version}
  /\ d_debug_offsets_addr \in Place \cup {Null}
  /\ d_debug_offsets \in TableName \cup {Null}
  /\ d_is_free_threaded \in BOOLEAN \cup {Null}
  /\ todo \subseteq Method
  /\ head \in Interpreter \cup {Null}
  /\ reported \in Seq(Interpreter)

Initialized == pc \in {"status", "search", "walk", "done", "not_enough"}

\* However the version was found, and whichever reads failed on the way, it is
\* the target's: a structure that was rejected after its version had been taken
\* (process.cpp:743) leaves nothing of it behind.
VersionIsTheTargets == Initialized => d_version = version /\ d_py_v = version

\* The offsets from memory are there with their address or not at all, 3.14 and
\* later are never read without them (process.cpp:1465), and d_is_free_threaded,
\* which no constructor sets, is only read once it was set (process.cpp:574).
OffsetsAreComplete ==
  Initialized =>
    /\ (d_debug_offsets = Null) = (d_debug_offsets_addr = Null)
    /\ d_version >= 314 =>
         /\ d_debug_offsets # Null
         /\ d_is_free_threaded = debug["runtime"].free_threaded

\* With a table that was accepted no field lies outside of what is copied of its
\* structure, where getField aborts, and nothing is copied from outside of the
\* structure (process.cpp:1110-1200).  o_id of py_is, which the code copies and
\* neither checks nor clamps, is not among Fields.
AcceptedOffsetsFit ==
  d_debug_offsets # Null =>
    /\ \A f \in Field : ~GetFieldAborts(Loaded[d_debug_offsets], f)
    /\ \A s \in Struct : Loaded[d_debug_offsets].size[s] <= Copied[d_debug_offsets].size[s]

\* What a search finds is an interpreter of the target: no check of
\* isValidInterpreterState can be left out.
OnlyInterpretersAreFound == head # Null => head \in ToSet(interpreters)

\* A method that throws costs only what it would have found itself
\* (thread_builder.cpp:178-184).
FailuresStayInTheirMethod ==
  pc = "not_enough" /\ alive =>
    \A m \in request.methods : Found[m] \in {Null, Exception}

\* A method that starts at the head of the list of interpreters can be used.
HeadIsKnown ==
  /\ alive
  /\ \/ elf /\ "elf_data" \in request.methods
     \/ symbols \cap {"_PyRuntime", "interp_head"} # {} /\ "symbols" \in request.methods
  /\ {"runtime", Head(interpreters)} \cap unreadable = {}

\* A report is never cut short, not by a read that fails either.  From 3.11 on it
\* has all interpreters in their order, from the one that was found on, which is
\* the first if the head of their list is known; before, the main one alone
\* (bindings.cpp:716-726).
ReportIsComplete ==
  pc = "done" /\ reported # <<>> =>
    IF version >= 311
      THEN /\ IsSuffix(reported, interpreters)
           /\ HeadIsKnown => reported = interpreters
      ELSE reported = <<Last(interpreters)>>

\* An error has one of these causes.  Unreadable maps, heap and copies are none,
\* and an interpreter that cannot be read is one only for the walk.
ErrorHasCause ==
  pc = "error" =>
    \/ ~alive
    \/ "runtime" \in unreadable
    \/ unreadable \cap ToSet(interpreters) # {}
    \/ d_version = 0 /\ "name" \notin hints /\ ("bss" \in hints => "bss" \in unreadable)
    \/ version >= 314 /\
         \/ ~IsValid[debug["runtime"].table]
         \/ "_PyRuntime" \notin symbols /\ ~elf /\ maps = <<"copy", "runtime">>

\* --exhaustive finds any interpreter that a readable area refers to: "If any of
\* the previous steps fail, we continue with the next memory chunk until we find
\* the PyInterpreterState or we run out of chunks" (process.cpp:315-316).
SearchRunsOutOfChunks ==
  pc = "not_enough" /\ alive =>
    \A m \in request.methods : \A a \in Areas[m] \ unreadable : ValidWords(a) = {}
=============================================================================
