------------------------------ MODULE CoreFile ------------------------------
(***************************************************************************)
(* What a core file says (corefile.cpp, the core half of elf_common.cpp).  *)
(* A pure module.  A core is a record:                                     *)
(*   regions   the memory of the process at its end, in the order of       *)
(*             addresses: [start, end, path, image, offset, flags, dumped, *)
(*             at], of which the first dumped cells are in the core, at at *)
(*   size      of the core                                                 *)
(*   omits     whether regions with nothing dumped have no segment         *)
(*   notes     its PT_NOTE segments: each a sequence of notes [core, type, *)
(*             desc], or Null if it cannot be read                         *)
(*   program   the path of the executable                                  *)
(*   execfn    what the string at AT_EXECFN says                           *)
(*   disk      the files of the machine that pystack runs on               *)
(* A cell is a page of memory, or the piece of a file with one's content.  *)
(***************************************************************************)
EXTENDS MapsParser

CONSTANTS
  Image,        \* Image[i]: the PT_LOAD headers of ELF file i, [vaddr, offset, size], and its extent
  Script,       \* the content of an executable that is no ELF file
  Garbage       \* a file name read behind the end of a note

(***************************************************************************)
(* The process, and what the kernel or gcore writes: external.             *)
(***************************************************************************)

\* What an address of a region held: what the process wrote, or its file.
Held(region, addr) ==
  IF region.image = Null \/ ("w" \in region.flags /\ region.dumped > 0)
  THEN <<"own", addr>>
  ELSE <<region.image, region.offset + (addr - region.start)>>

RegionOf(core, addr) ==
  FirstMatch(core.regions, LAMBDA r : ContainsAddr(r, addr))

Path == [dir : STRING, name : STRING]
Region == [start : Nat, end : Nat, path : Path \cup {NoPath}, image : DOMAIN Image \cup {Null},
           offset : Nat, flags : SUBSET {"r", "w", "x"}, dumped : Nat, at : Nat \ {0}]

\* Regions lie one behind the other, and in the core what was dumped of them.  A file's
\* data that was written to is dumped as a whole.
RegionsAreApart(core) ==
  /\ core.regions \in Seq(Region) \ {<<>>}
  /\ core.size \in Nat
  /\ \A i, j \in DOMAIN core.regions :
       i < j => /\ core.regions[i].end <= core.regions[j].start
                /\ core.regions[i].at + core.regions[i].dumped <= core.regions[j].at
  /\ \A r \in ToSet(core.regions) :
       /\ r.start < r.end
       /\ r.start + r.dumped <= r.end
       /\ r.at + r.dumped <= core.size
       /\ r.image # Null => r.path \in Path
       /\ r.image # Null /\ "w" \in r.flags => r.dumped = 0 \/ r.start + r.dumped = r.end

\* A file is mapped from its beginning on.
IsFirstOfImage(region) == region.image # Null /\ region.offset = 0

\* Where a segment of the file that begins with a region is loaded.
LoadedAt(first, segment) ==
  first.start + segment.vaddr - Image[first.image].segments[1].vaddr

IsLoadedAt(first, segment, addr) ==
  LoadedAt(first, segment) <= addr /\ addr < LoadedAt(first, segment) + segment.size

\* Every cell of a segment is mapped where its header says, nothing else of a file is,
\* and files keep out of each other's extents.
FilesAreLoaded(core) ==
  LET firsts == {r \in ToSet(core.regions) : IsFirstOfImage(r)}
      segments(f) == ToSet(Image[f.image].segments)
  IN /\ \A f \in firsts : \A s \in segments(f) :
          \A a \in LoadedAt(f, s) .. LoadedAt(f, s) + s.size - 1 :
            \E r \in ToSet(core.regions) :
              /\ ContainsAddr(r, a)
              /\ r.image = f.image
              /\ r.offset + (a - r.start) = s.offset + (a - LoadedAt(f, s))
     /\ \A r \in ToSet(core.regions) : r.image # Null =>
          \A a \in r.start .. r.end - 1 :
            \E f \in firsts : /\ f.image = r.image
                             /\ f.start <= a /\ a < f.start + Image[f.image].extent
                             /\ \E s \in segments(f) : IsLoadedAt(f, s, a)
     /\ \A f, g \in firsts : f.start < g.start => f.start + Image[f.image].extent <= g.start

\* The notes that can be read, whole or not, are about this end; NT_PRSTATUS is always there.
TellsTheEnd(core, note) ==
  /\ note # Null
  /\ note.core /\ note.type \in {"NT_PRSTATUS", "NT_SIGINFO"} /\ note.desc.sized =>
       note.desc.si_signo = core.crash.si_signo /\ note.desc.si_code \in Int
  /\ note.core /\ note.type = "NT_SIGINFO" /\ note.desc.sized =>
       note.desc.si_code = core.crash.si_code /\ note.desc.word = core.crash.word

NotesAreTrue(core) ==
  LET readable == {k \in DOMAIN core.notes : core.notes[k] # Null}
  IN /\ core.crash \in [si_signo : STRING \ {"segmentation fault", "generated on demand"},
                        si_code : Int, word : Int]
     /\ core.notes \in Seq(ToSet(core.notes))
     /\ readable # {}
     /\ \A k \in readable :
          /\ core.notes[k] \in Seq(ToSet(core.notes[k]))
          /\ \E n \in ToSet(core.notes[k]) : n.core /\ n.type = "NT_PRSTATUS" /\ n.desc.sized
          /\ \A n \in ToSet(core.notes[k]) : TellsTheEnd(core, n)

\* There is one NT_FILE, whole or not, and its entries are the ranges of mapped files.
NamesRegions(core, desc) ==
  /\ desc.count \in Nat
  /\ desc.table \in Seq([start : Nat, end : Nat, offset : Nat])
  /\ desc.names \in Seq(Path)
  /\ \A e \in ToSet(desc.table) :
       \E r \in ToSet(core.regions) : e.start = r.start /\ e.end = r.end /\ r.path # NoPath
  /\ \A m, n \in DOMAIN desc.table :
       desc.table[m].start = desc.table[n].start => m = n

MappedFilesAreTrue(core) ==
  \A k \in DOMAIN core.notes : core.notes[k] # Null =>
    LET files == {i \in DOMAIN core.notes[k] :
                    core.notes[k][i].core /\ core.notes[k][i].type = "NT_FILE"}
    IN /\ \A i, j \in files : i = j
       /\ \A i \in files : NamesRegions(core, core.notes[k][i].desc)

\* The files of the machine that pystack runs on.
DiskIsTyped(disk) ==
  DOMAIN disk \subseteq Path /\ \A p \in DOMAIN disk : disk[p].elf \in DOMAIN Image \cup {Script}

IsCore(core) ==
  /\ RegionsAreApart(core)
  /\ FilesAreLoaded(core)
  /\ NotesAreTrue(core)
  /\ MappedFilesAreTrue(core)
  /\ DiskIsTyped(core.disk)
  /\ core.execfn \in Path

\* The program is mapped below every other file, from a region on whose first page,
\* with the ELF header, is in the core, and its path is that of no other file.
ComesFirst(core, first) ==
  /\ first.path = core.program /\ first.image # Null
  /\ first.dumped > 0 \/ ~core.omits
  /\ \A r \in ToSet(core.regions) :
       /\ r.path # NoPath => first.start <= r.start
       /\ r.path = core.program => r.image = first.image

\* Its file is where it was; two paths with one canonical path are one file; and what
\* the process was started as, if that is there, is the program or a script that it runs.
IsStillThere(core, image) ==
  /\ Exists(core.disk, core.program) /\ core.disk[core.program].elf = image
  /\ \A p, q \in DOMAIN core.disk :
       core.disk[p].real = core.disk[q].real => core.disk[p].elf = core.disk[q].elf
  /\ Exists(core.disk, core.execfn) => core.disk[core.execfn].elf \in {image, Script}
  /\ ~Exists(core.disk, Garbage)

\* A core whose executable can be told without being given.
NamesItsProgram(core) ==
  \E first \in ToSet(core.regions) : ComesFirst(core, first) /\ IsStillThere(core, first.image)

Segment == [vaddr : Nat, offset : Nat, size : Nat]
Map == [start : Nat, end : Nat, filesize : Nat, offset : Nat,
        flags : SUBSET {"r", "w", "x"}, path : Path \cup {NoPath}]
Module == [start : Nat, end : Nat, path : Path]
FailureInfo == [si_signo : STRING, si_code : Int, failed_addr : Int, sender_pid : Int]

ASSUME CoreFileAssumption ==
  /\ NoPath \notin Path
  /\ Null \notin Int \cup Path \cup Region \cup Map \cup Module \cup Segment \cup FailureInfo
  /\ Null \notin DOMAIN Image /\ Script \notin DOMAIN Image
  /\ Garbage \in Path
  /\ \A i \in DOMAIN Image :
       /\ Image[i].segments \in Seq(Segment) \ {<<>>}
       /\ Image[i].extent \in Nat
       /\ Image[i].size \in Nat
       /\ \A s \in ToSet(Image[i].segments) : s.offset + s.size <= Image[i].size

\* The PT_LOAD headers.
Segments(core) ==
  LET all == [i \in DOMAIN core.regions |->
                [start |-> core.regions[i].start, end |-> core.regions[i].end,
                 filesize |-> core.regions[i].dumped, offset |-> core.regions[i].at,
                 flags |-> core.regions[i].flags]]
  IN Filtered(all, LAMBDA s : ~core.omits \/ s.filesize > 0)

\* The cell of the core at an offset, counted from zero.
CoreCell(core, offset) ==
  LET at == FirstMatch(core.regions, LAMBDA r : r.at <= offset /\ offset < r.at + r.dumped)
  IN IF at = Null THEN <<"header", offset>> ELSE Held(at, at.start + (offset - at.at))

\* The files that libdwfl finds in the core: each from its first map on, as
\* far as its image extends; the program under the path it is told.
DwflModules(core, executable) ==
  LET starts == Filtered(core.regions, IsFirstOfImage)
  IN [k \in DOMAIN starts |->
        [start |-> starts[k].start, end |-> starts[k].start + Image[starts[k].image].extent,
         path |-> IF starts[k].path = core.program /\ executable # Null
                  THEN executable ELSE starts[k].path]]

(***************************************************************************)
(* CoreFileAnalyzer: the modules, relocated to the search path.            *)
(***************************************************************************)

\* search is the list of directories, Null if there is none.
LocateLibrary(disk, search, lib) ==
  LET dirs == IF search = Null THEN <<>>
              ELSE Filtered(search, LAMBDA d : Exists(disk, [dir |-> d, name |-> lib.name]))
  IN IF dirs = <<>> THEN lib ELSE [dir |-> Head(dirs), name |-> lib.name]

NoModules == [error |-> Null, modules |-> <<>>, missing |-> {}]

\* A module whose file is elsewhere is dropped and reported anew, behind the others;
\* that throws if what is there is no ELF file.
ResolveLibraries(core, executable, search) ==
  LET modules == DwflModules(core, executable)
      located(m) == IF executable = Null \/ search = Null THEN m.path
                    ELSE LocateLibrary(core.disk, search, m.path)
      remapped(m) == Exists(core.disk, located(m)) /\ located(m) # m.path
      moved == Filtered(modules, remapped)
      image(m) == core.disk[located(m)].elf
  IN IF \E i \in DOMAIN moved : image(moved[i]) = Script
     THEN [NoModules EXCEPT !.error = "failed to report ELF modules"]
     ELSE [error |-> Null,
           modules |-> Filtered(modules, LAMBDA m : ~remapped(m))
                         \o [i \in DOMAIN moved |->
                               [start |-> moved[i].start, path |-> located(moved[i]),
                                end |-> moved[i].start + Image[image(moved[i])].extent]],
           missing |-> {located(m) : m \in {m \in ToSet(modules) : ~Exists(core.disk, located(m))}}]

\* populateMaps: each segment with the module that contains all of it.
ModuleInformation(core, search, modules) ==
  [i \in DOMAIN modules |->
     [modules[i] EXCEPT !.path = LocateLibrary(core.disk, search, @)]]

MemoryMaps(core, module_info) ==
  LET segments == Segments(core)
      module(s) == FirstMatch(module_info, LAMBDA m : s.start >= m.start /\ s.end <= m.end)
  IN [i \in DOMAIN segments |->
        [start |-> segments[i].start, end |-> segments[i].end,
         filesize |-> segments[i].filesize, offset |-> segments[i].offset,
         flags |-> segments[i].flags,
         path |-> IF module(segments[i]) = Null THEN NoPath ELSE module(segments[i]).path]]

(***************************************************************************)
(* Notes.                                                                  *)
(***************************************************************************)

\* The notes of a type, of the first PT_NOTE segment that can be read.
GetNoteData(core, type) ==
  LET readable == FirstMatch(core.notes, LAMBDA segment : segment # Null)
  IN IF readable = Null THEN <<>>
     ELSE Filtered(readable, LAMBDA note : note.core /\ note.type = type)

\* An NT_FILE note counts its entries, which are followed by as many names.  The
\* entry whose name is missing gets what is behind the note, and ends the parse.
FileEntry(desc, i) ==
  [start |-> desc.table[i].start, end |-> desc.table[i].end, filesize |-> 0,
   offset |-> desc.table[i].offset, flags |-> {},
   path |-> IF i <= Len(desc.names) THEN desc.names[i] ELSE Garbage]

ParseCoreFileNote(desc) ==
  IF desc.count > Len(desc.table) THEN [ok |-> FALSE, maps |-> <<>>]
  ELSE LET read == Min({desc.count, Len(desc.names) + 1})
       IN [ok |-> desc.count <= Len(desc.names),
           maps |-> [i \in 1..read |-> FileEntry(desc, i)]]

\* The notes up to the first good one; what a bad one gave before it failed stays.
ExtractMappedFiles(core) ==
  LET notes == GetNoteData(core, "NT_FILE")
      parsed == [k \in DOMAIN notes |-> ParseCoreFileNote(notes[k].desc)]
      good == {k \in DOMAIN notes : parsed[k].ok}
      read == IF good = {} THEN Len(notes) ELSE Min(good)
  IN FlattenSeq([k \in 1..read |-> parsed[k].maps])

NoCrash == [si_signo |-> "none", si_code |-> 0, failed_addr |-> 0, sender_pid |-> 0]
Faulting == {"SIGILL", "SIGFPE", "SIGSEGV", "SIGBUS"}

\* Mutant of ParseCoreSiginfo: a fault is told by its signal alone.
ParseCoreSiginfoBySignal(desc) ==
  [si_signo |-> desc.si_signo, si_code |-> desc.si_code,
   failed_addr |-> IF desc.si_signo \in Faulting THEN desc.word ELSE 0,
   sender_pid |-> IF desc.si_code = 0 THEN desc.word ELSE 0]

\* What follows the code depends on who sent the signal: the kernel or a process.
ParseCoreSiginfo(desc) ==
  [si_signo |-> desc.si_signo, si_code |-> desc.si_code,
   failed_addr |-> IF desc.si_code > 0 /\ desc.si_signo \in Faulting THEN desc.word ELSE 0,
   sender_pid |-> IF desc.si_code = 0 THEN desc.word ELSE 0]

ParseCorePrstatus(desc) ==
  [si_signo |-> desc.si_signo, si_code |-> desc.si_code, failed_addr |-> 0, sender_pid |-> 0]

\* NT_SIGINFO says more; NT_PRSTATUS is always there.  A note of another size is skipped.
ExtractFailureInfo(core) ==
  LET sized(type) == FirstMatch(GetNoteData(core, type), LAMBDA n : n.desc.sized)
  IN IF sized("NT_SIGINFO") # Null THEN ParseCoreSiginfo(sized("NT_SIGINFO").desc)
     ELSE IF sized("NT_PRSTATUS") # Null THEN ParseCorePrstatus(sized("NT_PRSTATUS").desc)
     ELSE NoCrash

\* The value of AT_EXECFN, 0 if there is none.  The sections of type SHT_NOTE
\* come first, but libelf does not take their data for an auxiliary vector.
FindExecFn(core) ==
  LET note == FirstMatch(GetNoteData(core, "NT_AUXV"), LAMBDA n : n.desc.execfn # 0)
  IN IF note = Null THEN 0 ELSE note.desc.execfn

\* The string that AT_EXECFN points to, read from the file of the core; garbage
\* if what is there is not that string.
ExtractExecutable(core, d_maps) ==
  LET addr == FindExecFn(core)
      map == FirstMatch(d_maps, LAMBDA m : m.start <= addr /\ addr <= m.end)
      location == addr - map.start + map.offset
  IN IF addr = 0 THEN [error |-> "no AT_EXECFN", path |-> Null]
     ELSE IF map = Null THEN [error |-> "no map for AT_EXECFN", path |-> Null]
     ELSE [error |-> Null,
           path |-> IF CoreCell(core, location) = <<"own", addr>> THEN core.execfn ELSE Garbage]
=============================================================================
