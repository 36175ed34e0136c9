----------------------------- MODULE CoreReport -----------------------------
(***************************************************************************)
(* pystack core (process_core in __main__.py): find the executable, say    *)
(* why the process died, check the modules, build the manager of the core  *)
(* (CoreFileProcessManager), and read through it.  The core and the files  *)
(* do not change.                                                          *)
(***************************************************************************)
EXTENDS CoreMemory

CONSTANTS
  Cases,     \* the cores, see CoreFile, with what the command line gives for
             \* each: [executable, search, native], Null for neither of the first two
  Unnamed,   \* the signals that Python's signal.Signals has no name for
  MaxRead    \* bounds the cells of one read

Arguments == [executable : Path \cup {Null}, search : Seq(STRING) \cup {Null}, native : BOOLEAN]

Errors ==
  {"no AT_EXECFN", "no map for AT_EXECFN", "detected executable not found",
   "executable does not exist", "failed to report ELF modules", "invalid executable",
   "no maps for the executable", "multiple libpython"}

ASSUME CoreAssumption ==
  /\ Null \notin Errors
  /\ \A case \in Cases : IsCore(case[1]) /\ case[2] \in Arguments
  /\ MaxRead \in Nat
  /\ \A len \in 1..MaxRead : Null \notin [1..len -> Cell]

\* Where the executable is left to be found, it can be.
ASSUME ProgramAssumption ==
  \A case \in Cases : case[2].executable = Null => NamesItsProgram(case[1])

VARIABLES
  core, arguments,
  pc,
  error,          \* what ended the run
  executable,
  analyzer,       \* the modules and the missing ones, as ResolveLibraries gives them
  failure_info,   \* what was printed about the end of the process, Null for nothing
  missing_modules, \* what was printed as missing
  d_shared_libs,  \* of the manager: its modules,
  d_memory_maps,  \* its maps,
  map_info,       \* what they are for,
  d_elf_load_segments_cache,
  request,        \* the last read, [addr, len]
  answer          \* its cells, Null if it was refused

world == <<core, arguments>>
found == <<executable, analyzer, failure_info, missing_modules>>
manager == <<d_shared_libs, d_memory_maps, map_info>>
reads == <<d_elf_load_segments_cache, request, answer>>
vars == <<world, pc, error, found, manager, reads>>

NoRequest == [addr |-> 0, len |-> 0]

Init ==
  /\ \E case \in Cases : core = case[1] /\ arguments = case[2]
  /\ pc = "executable"
  /\ error = Null
  /\ executable = arguments.executable
  /\ analyzer = NoModules
  /\ failure_info = Null
  /\ missing_modules = {}
  /\ d_shared_libs = <<>>
  /\ d_memory_maps = <<>>
  /\ map_info = NoMaps
  /\ d_elf_load_segments_cache = <<>>
  /\ request = NoRequest
  /\ answer = Null

Fail(what) == pc' = "failed" /\ error' = what

IsElf(path) == /\ Exists(core.disk, path)
               /\ core.disk[path].elf # Script

\* Mutant of DetectExecutable: what AT_EXECFN names is taken as it is.
DetectExecutableByName ==
  LET modules == ResolveLibraries(core, Null, Null).modules
      maps == MemoryMaps(core, ModuleInformation(core, Null, modules))
      extracted == ExtractExecutable(core, maps)
  IN /\ pc = "executable"
     /\ arguments.executable = Null
     /\ extracted.error = Null
     /\ executable' = extracted.path
     /\ IF Exists(core.disk, extracted.path)
        THEN pc' = "analyze" /\ UNCHANGED error
        ELSE Fail("detected executable not found")
     /\ UNCHANGED <<world, analyzer, failure_info, missing_modules, manager, reads>>

\* With no executable given: what AT_EXECFN names, or, if that is no ELF file,
\* the first map of the core that has a path, if that is one.
DetectExecutable ==
  LET modules == ResolveLibraries(core, Null, Null).modules
      maps == MemoryMaps(core, ModuleInformation(core, Null, modules))
      extracted == ExtractExecutable(core, maps)
      first_map == FirstMatch(ParseCoreFileMaps(ExtractMappedFiles(core), maps, core.disk),
                              LAMBDA m : m.path # NoPath)
      detected == IF IsElf(extracted.path) THEN extracted.path
                  ELSE IF first_map = Null THEN extracted.path
                  ELSE IF IsElf(first_map.path) THEN first_map.path
                  ELSE extracted.path
  IN /\ pc = "executable"
     /\ arguments.executable = Null
     /\ \/ /\ extracted.error # Null
           /\ Fail(extracted.error)
           /\ UNCHANGED executable
        \/ /\ extracted.error = Null
           /\ executable' = detected
           /\ IF Exists(core.disk, detected)
              THEN pc' = "analyze" /\ UNCHANGED error
              ELSE Fail("detected executable not found")
     /\ UNCHANGED <<world, analyzer, failure_info, missing_modules, manager, reads>>

\* Mutant of TakeExecutable: the file is not looked for.
TakeExecutableUnseen ==
  /\ pc = "executable"
  /\ arguments.executable # Null
  /\ pc' = "analyze"
  /\ UNCHANGED <<world, error, found, manager, reads>>

TakeExecutable ==
  /\ pc = "executable"
  /\ arguments.executable # Null
  /\ IF Exists(core.disk, executable)
     THEN pc' = "analyze" /\ UNCHANGED error
     ELSE Fail("executable does not exist")
  /\ UNCHANGED <<world, found, manager, reads>>

\* Mutant of AnalyzeCore: with a search path nothing is taken to be missing.
AnalyzeCoreSearched ==
  LET resolved == ResolveLibraries(core, executable, arguments.search)
  IN /\ pc = "analyze"
     /\ resolved.error = Null
     /\ analyzer' = resolved
     /\ failure_info' = ExtractFailureInfo(core)
     /\ missing_modules' =
          IF arguments.native /\ arguments.search = Null THEN resolved.missing ELSE {}
     /\ IF IsElf(executable)
        THEN pc' = "manager" /\ UNCHANGED error
        ELSE Fail("invalid executable")
     /\ UNCHANGED <<world, executable, manager, reads>>

\* What is printed: why the process died, unless an exception that is suppressed
\* ends the printing; and, if native frames are asked for, the modules whose file
\* is not there.
Printed(info) ==
  IF info.failed_addr = 0 /\ info.si_signo \in Unnamed THEN Null ELSE info

MissingModules(resolved, maps) ==
  LET paths == {m.path : m \in ToSet(maps)} \ {NoPath}
      named == {p.name : p \in resolved.missing}
  IN resolved.missing \cup {p \in paths : ~Exists(core.disk, p) /\ p.name \notin named}

AnalyzeCore ==
  LET resolved == ResolveLibraries(core, executable, arguments.search)
      info == ModuleInformation(core, arguments.search, resolved.modules)
  IN /\ pc = "analyze"
     /\ \/ /\ resolved.error # Null
           /\ Fail(resolved.error)
           /\ UNCHANGED <<analyzer, failure_info, missing_modules>>
        \/ /\ resolved.error = Null
           /\ analyzer' = resolved
           /\ failure_info' = Printed(ExtractFailureInfo(core))
           /\ IF IsElf(executable)
              THEN /\ pc' = "manager"
                   /\ missing_modules' = IF arguments.native
                                         THEN MissingModules(resolved, MemoryMaps(core, info))
                                         ELSE {}
                   /\ UNCHANGED error
              ELSE Fail("invalid executable") /\ UNCHANGED missing_modules
     /\ UNCHANGED <<world, executable, manager, reads>>

\* The last module of a name gives the load point of that name.
LoadPointByModule(info) ==
  [name \in {m.path.name : m \in ToSet(info)} |->
     Last(Filtered(info, LAMBDA m : m.path.name = name)).start]

CreateManager ==
  LET info == ModuleInformation(core, arguments.search, analyzer.modules)
      maps == ParseCoreFileMaps(ExtractMappedFiles(core), MemoryMaps(core, info), core.disk)
      parsed == ParseMapInformation(executable, maps, LoadPointByModule(info), core.disk)
  IN /\ pc = "manager"
     /\ IF parsed.error # Null
        THEN Fail(parsed.error) /\ UNCHANGED manager
        ELSE /\ pc' = "reading"
             /\ d_shared_libs' = info
             /\ d_memory_maps' = maps
             /\ map_info' = parsed.info
             /\ UNCHANGED error
     /\ UNCHANGED <<world, found, reads>>

Read(addr, len) ==
  LET read == CopyMemoryFromProcess(core, d_memory_maps, d_shared_libs,
                                    d_elf_load_segments_cache, addr, len)
  IN /\ pc = "reading"
     /\ request' = [addr |-> addr, len |-> len]
     /\ answer' = read.cells
     /\ d_elf_load_segments_cache' = read.cache
     /\ UNCHANGED <<world, pc, error, found, manager>>

\* The addresses of the process, and one behind them.
Addresses == 0..Last(core.regions).end

Next ==
  \/ DetectExecutable
  \/ TakeExecutable
  \/ AnalyzeCore
  \/ CreateManager
  \/ \E addr \in Addresses, len \in 1..MaxRead : Read(addr, len)

Spec == Init /\ [][Next]_vars

-----------------------------------------------------------------------------
\* What __main__.py prints about the end of the process.
ReportedCause(info) ==
  IF info.failed_addr # 0 THEN "segmentation fault"
  ELSE IF info.si_signo # "none" THEN info.si_signo
  ELSE "generated on demand"

\* The file that the manager has for an address, and whether it is the one that
\* the process had mapped there.
FileAt(addr) ==
  LET lib == FirstMatch(d_shared_libs, LAMBDA m : ContainsAddr(m, addr))
  IN IF lib = Null THEN [image |-> Null, path |-> Null]
     ELSE [image |-> RegionOf(core, lib.start).image, path |-> lib.path]

HasFile(addr) == FileAt(addr).path # Null /\ Exists(core.disk, FileAt(addr).path)
HasItsFile(addr) == HasFile(addr) /\ core.disk[FileAt(addr).path].elf = FileAt(addr).image
HasOtherFile(addr) == HasFile(addr) /\ ~HasItsFile(addr)

InCore(region, addr) == region # Null /\ addr < region.start + region.dumped

\* Where what was found for an address ends: with what was dumped of its
\* region, or with the region.
PartEnd(region, addr) ==
  IF InCore(region, addr) THEN region.start + region.dumped ELSE region.end

\* A stage is reached with what the stages before it have found.
TypeOK ==
  /\ pc \in {"executable", "analyze", "manager", "reading", "failed"}
  /\ error \in Errors \cup {Null}
  /\ (error # Null) <=> (pc = "failed")
  /\ pc \in {"analyze", "manager", "reading"} => Exists(core.disk, executable)
  /\ pc \in {"manager", "reading"} => IsElf(executable)
  /\ (map_info = NoMaps) <=> (pc # "reading")
  /\ request.addr \in Addresses
  /\ answer # Null => DOMAIN answer = 1..request.len

\* An answer is what the process held when it died, up to the end of the part
\* in which the read starts, whatever was read before; unless the file was
\* replaced by one of another build (mem.cpp:363-502).
AnswersAreTheCrashs ==
  answer # Null =>
    LET region == RegionOf(core, request.addr)
        part == {i \in 1..request.len :
                   request.addr + i - 1 < PartEnd(region, request.addr)}
    IN \/ HasOtherFile(request.addr) /\ ~InCore(region, request.addr)
       \/ /\ InCore(region, request.addr) \/ HasItsFile(request.addr)
          /\ \A i \in part : answer[i] = Held(region, request.addr + i - 1)

\* A read is refused only if what it asks for is neither in the core nor in a file
\* that the analysis has, or if the core ends before it (mem.cpp:363-502).
RefusedIsUnknown ==
  (request # NoRequest /\ answer = Null) =>
    LET region == RegionOf(core, request.addr)
    IN IF InCore(region, request.addr)
       THEN request.addr + request.len > region.start + region.dumped
       ELSE \/ region = Null \/ region.image = Null
            \/ ~HasItsFile(request.addr)

\* The file of a region has been replaced by one of another build, which may end earlier.
IsReplaced(region) ==
  \E m \in ToSet(d_shared_libs) :
    /\ RegionOf(core, m.start).image = region.image
    /\ Exists(core.disk, m.path)
    /\ core.disk[m.path].elf # region.image

\* A file whose absence makes a read fail was named as missing before, if native
\* frames were asked for (elf_common.cpp:161-211, bindings.cpp:213-245).
AbsentFilesAreReported ==
  (arguments.native /\ request # NoRequest /\ answer = Null) =>
    LET region == RegionOf(core, request.addr)
    IN \/ region = Null
       \/ InCore(region, request.addr)
       \/ region.image = Null
       \/ HasOtherFile(request.addr)
       \/ IsReplaced(region)
       \/ FileAt(request.addr).path.name \in {p.name : p \in missing_modules}

-----------------------------------------------------------------------------
\* The process when it lived: its maps as /proc lists them, its files where they were.
LiveMaps ==
  [i \in DOMAIN core.regions |->
     LET r == core.regions[i]
     IN [start |-> r.start, end |-> r.end, filesize |-> r.end - r.start,
         offset |-> r.offset, flags |-> r.flags, path |-> r.path]]

OriginalFiles ==
  [p \in {r.path : r \in {r \in ToSet(core.regions) : r.image # Null}} |->
     LET r == CHOOSE r \in ToSet(core.regions) : r.path = p /\ r.image # Null
     IN [real |-> p, elf |-> r.image, bss |-> Image[r.image].bss]]

Live == ParseMapInformation(core.program, LiveMaps, ComputedLoadPoints(LiveMaps), OriginalFiles)

\* The manager has been made; it stays as it is when it is read from.
IsMade == pc = "reading" /\ request = NoRequest

\* The core and its notes account for every region of the process.
IsCovered == \A r \in ToSet(core.regions) : \E m \in ToSet(d_memory_maps) : m.start = r.start

SameRange(a, b) ==
  \/ a = Null /\ b = Null
  \/ a # Null /\ b # Null /\ a.start = b.start /\ a.end = b.end

\* What the maps of a core are taken for is what the maps of the process would
\* have been taken for, if its files are where they were (maps_parser.cpp:73-328);
\* of a file found elsewhere, a map that only the notes know keeps the old path.
CoreAgreesWithLive ==
  (/\ IsMade
   /\ IsCovered
   /\ \A r \in ToSet(core.regions) :
        r.image # Null => HasItsFile(r.start) /\ Exists(core.disk, r.path)
   /\ arguments.executable \in {Null, core.program}
   /\ executable.name = core.program.name) =>
    /\ Live.error = Null
    /\ SameRange(map_info.python, Live.info.python)
    /\ SameRange(map_info.libpython, Live.info.libpython)
    /\ SameRange(map_info.bss, Live.info.bss)

\* Each region that the core or its notes name is in one map, and no two maps
\* overlap (maps_parser.cpp:73-153, corefile.cpp:282-350).
MapsArePartition ==
  IsMade =>
    /\ \A i, j \in DOMAIN d_memory_maps :
         i < j => d_memory_maps[i].end <= d_memory_maps[j].start
    /\ \A r \in ToSet(core.regions) :
         r.dumped > 0 => \E m \in ToSet(d_memory_maps) : m.start = r.start /\ m.end = r.end

\* The executable that is found is the file that the process ran, under whatever
\* name, also when it was started as a script or AT_EXECFN leads nowhere
\* (__main__.py:348-374, corefile.cpp:173-204).
DetectedIsTheTargets ==
  (arguments.executable = Null /\ pc \in {"analyze", "manager", "reading"}) =>
    LET ran == CHOOSE r \in ToSet(core.regions) : r.path = core.program
    IN core.disk[executable].elf = ran.image

\* The end of the process is told as it was, if its signal has a name: the signal
\* and who sent it, or the address, as far as a note says; a segmentation fault
\* only where the kernel raised the signal (corefile.cpp:239-277,352-379,
\* __main__.py:318-337).
CauseIsTheCrashs ==
  pc \in {"manager", "reading"} =>
    LET cause == ReportedCause(failure_info)
    IN IF failure_info = Null THEN core.crash.si_signo \in Unnamed
       ELSE /\ cause = "segmentation fault" =>
                 core.crash.si_signo \in Faulting /\ core.crash.si_code > 0
            /\ cause \notin {"segmentation fault", "generated on demand"} =>
                 cause = core.crash.si_signo
            /\ cause = "generated on demand" => core.crash.si_signo = "none"
            /\ failure_info.sender_pid # 0 => failure_info.sender_pid = core.crash.word
=============================================================================
