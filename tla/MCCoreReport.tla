---------------------------- MODULE MCCoreReport ----------------------------
(* Cores of a small process: a program, a library, anonymous memory, a stack. *)
EXTENDS CoreReport


PathOf(dir, name) == [dir |-> dir, name |-> name]
Program == PathOf("/usr/bin", "python")
GarbagePath == PathOf("", "garbage")
Libpython == {"libpython"}

\* An executable linked to its addresses, a library with a hole between its
\* segments, and the same library from another build.
Images ==
  [exe |-> [segments |-> <<[vaddr |-> 2, offset |-> 0, size |-> 2],
                           [vaddr |-> 4, offset |-> 2, size |-> 1]>>,
            extent |-> 4, size |-> 3, bss |-> [corrected_addr |-> 3, size |-> 1]],
   lib |-> [segments |-> <<[vaddr |-> 0, offset |-> 0, size |-> 1],
                           [vaddr |-> 2, offset |-> 1, size |-> 1]>>,
            extent |-> 4, size |-> 2, bss |-> [corrected_addr |-> 3, size |-> 1]],
   old |-> [segments |-> <<[vaddr |-> 0, offset |-> 0, size |-> 2]>>,
            extent |-> 4, size |-> 2, bss |-> Null]]

RegionAt(start, end, path, image, offset, flags, dumped) ==
  [start |-> start, end |-> end, path |-> path, image |-> image, offset |-> offset,
   flags |-> flags, dumped |-> dumped]

\* What is dumped follows the headers of the core, region by region.
HeaderCells == 1
DumpedBefore(regions, i) ==
  FoldLeft(LAMBDA sum, r : sum + r.dumped, HeaderCells, SubSeq(regions, 1, i - 1))
LaidOut(regions) ==
  [i \in DOMAIN regions |-> regions[i] @@ [at |-> DumpedBefore(regions, i)]]

\* headers: whether the first page of a file is dumped; written: whether the
\* data of the library was written to.
Regions(name, headers, written) ==
  LET lib == PathOf("/usr/lib", name)
  IN <<RegionAt(2, 4, Program, "exe", 0, {"r", "x"}, headers),
       RegionAt(4, 5, Program, "exe", 2, {"r", "w"}, 1),
       RegionAt(5, 6, NoPath, Null, 0, {"r", "w"}, 1),
       RegionAt(6, 7, PathOf("", HeapName), Null, 0, {"r", "w"}, 1),
       RegionAt(8, 9, lib, "lib", 0, {"r", "x"}, headers),
       RegionAt(10, 11, lib, "lib", 1, {"r", "w"}, written),
       RegionAt(11, 12, NoPath, Null, 0, {"r", "w"}, 1),
       RegionAt(12, 13, NoPath, Null, 0, {"r", "w"}, 1),
       RegionAt(14, 16, PathOf("", "[stack]"), Null, 0, {"r", "w"}, 2)>>

Note(type, desc) == [core |-> TRUE, type |-> type, desc |-> desc]

\* NT_FILE as the kernel writes it, with a count that is too large, with the last name cut off.
Mapped(regions) == SelectSeq(regions, LAMBDA r : r.image # Null)
FileNote(regions, kind) ==
  LET mapped == Mapped(regions)
      names == [i \in DOMAIN mapped |-> mapped[i].path]
  IN [count |-> IF kind = "count" THEN Len(mapped) + 1 ELSE Len(mapped),
      table |-> [i \in DOMAIN mapped |->
                   [start |-> mapped[i].start, end |-> mapped[i].end,
                    offset |-> mapped[i].offset]],
      names |-> IF kind = "cut" THEN Front(names) ELSE names]

Crashes ==
  {[si_signo |-> "SIGSEGV", si_code |-> 1, word |-> 3],
   [si_signo |-> "SIGBUS", si_code |-> 0, word |-> 7],
   [si_signo |-> "SIGABRT", si_code |-> -6, word |-> 5],
   [si_signo |-> "SIGRTMIN+1", si_code |-> -6, word |-> 5],
   [si_signo |-> "none", si_code |-> 0, word |-> 0]}
Crashed(crash, sized) == crash @@ [sized |-> sized]

Notes(regions, kind, crash, sized, execfn) ==
  [i \in 1..3 |->
     CASE i = 1 -> Note("NT_PRSTATUS", Crashed(crash, TRUE))
       [] i = 2 -> Note("NT_SIGINFO", Crashed(crash, sized))
       [] i = 3 -> Note("NT_AUXV", [execfn |-> execfn])]
  \o IF kind = "none" THEN <<>> ELSE <<Note("NT_FILE", FileNote(regions, kind))>>

File(path, elf) ==
  path :> [real |-> path, elf |-> elf, bss |-> IF elf = Script THEN Null ELSE Images[elf].bss]
Venv == PathOf("/venv/bin", "python3")
Shebang == PathOf("/usr/bin", "pytest")

\* The files: all there; the library gone; elsewhere; another build,
\* or what is no ELF file, first in the search path.
Disk(name, kind) ==
  File(Program, "exe") @@ File(Shebang, Script)
  @@ (Venv :> [real |-> Program, elf |-> "exe", bss |-> Images["exe"].bss])
  @@ CASE kind = "there" -> File(PathOf("/usr/lib", name), "lib")
       [] kind = "gone" -> <<>>
       [] kind = "elsewhere" -> File(PathOf("/bundle", name), "lib")
       [] kind = "replaced" -> File(PathOf("/usr/lib", name), "lib") @@ File(PathOf("/bundle", name), "old")
       [] kind = "script" -> File(PathOf("/usr/lib", name), "lib") @@ File(PathOf("/bundle", name), Script)

Core(name, headers, written, omits, note, crash, sized, execaddr, execfn, disk) ==
  LET regions == LaidOut(Regions(name, headers, written))
  IN [regions |-> regions, size |-> DumpedBefore(regions, Len(regions) + 1),
      omits |-> omits, program |-> Program, crash |-> crash, execfn |-> execfn,
      notes |-> <<Null, Notes(regions, note, crash, sized, execaddr)>>,
      disk |-> Disk(name, disk)]

Segv == [si_signo |-> "SIGSEGV", si_code |-> 1, word |-> 3]

Args(file, dirs) == [executable |-> file, search |-> dirs, native |-> TRUE]
Pythons == [Args(Program, Null) EXCEPT !.native = FALSE]
SearchPath == <<"/none", "/bundle">>

\* What was dumped, where the files are now; what the notes say, how the process
\* was started; which executable is given; why it died.
FewCases ==
  {<<Core(name, headers, written, omits, "whole", Segv, TRUE, 15, Program, disk), Args(Program, search)>> :
     name \in {"libpython", "libc"}, headers \in 0..1, written \in 0..1, omits \in BOOLEAN,
     disk \in {"there", "gone", "elsewhere", "replaced", "script"}, search \in {Null, SearchPath}}
  \cup {<<Core("libpython", 1, 1, omits, note, Segv, TRUE, execaddr, execfn, "there"), Args(Null, Null)>> :
     omits \in BOOLEAN, note \in {"whole", "none", "count", "cut"}, execaddr \in {0, 3, 13, 15},
     execfn \in {Program, Venv, Shebang, GarbagePath}}
  \cup {<<Core("libpython", 0, 1, omits, "whole", Segv, TRUE, 15, Program, "there"), Args(e, Null)>> :
     omits \in BOOLEAN, e \in {Venv, Shebang, PathOf("/usr/bin", "none")}}
  \cup {<<Core("libpython", 1, 1, FALSE, "whole", crash, sized, 15, Program, "there"), Pythons>> :
     crash \in Crashes, sized \in BOOLEAN}
=============================================================================
