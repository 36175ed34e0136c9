----------------------------- MODULE MapsParser -----------------------------
(***************************************************************************)
(* Which maps of a target belong to Python (maps_parser.cpp): the binary,  *)
(* libpython, the bss of whichever of them holds the interpreter, the      *)
(* heap.  A pure module: the maps come from /proc or from a core, the      *)
(* files are those of the machine that pystack runs on.                    *)
(*                                                                         *)
(* A path is [dir, name].  disk[p] describes the file at p: real is its    *)
(* canonical path, bss its section .bss as [corrected_addr, size] or Null. *)
(***************************************************************************)
EXTENDS Integers, Sequences, SequencesExt, TLC, Lists

CONSTANTS
  NoPath,         \* the path of an anonymous map
  LibpythonName,  \* the names of files that contain "libpython"
  Null

\* The name of the kernel's map of the heap in /proc/<pid>/maps.
HeapName == "[heap]"

Exists(disk, path) == path \in DOMAIN disk

\* fs::canonical with the code's fallback for a file that is not there.
Resolved(disk, path) == IF Exists(disk, path) THEN disk[path].real ELSE path

(***************************************************************************)
(* Maps of a core: its segments, and the files of NT_FILE whose range is   *)
(* not that of a segment.  A file known under two paths gets the one its   *)
(* segments have.                                                          *)
(***************************************************************************)
\* Mutant of MissingMappedFiles: none is known.
AllMappedFiles(mapped_files, memory_maps) == mapped_files

MissingMappedFiles(mapped_files, memory_maps) ==
  LET ranges == {<<m.start, m.end>> : m \in ToSet(memory_maps)}
  IN Filtered(mapped_files, LAMBDA m : <<m.start, m.end>> \notin ranges)

PathOfSegments(missing, memory_maps, disk, path) ==
  LET wanted == {Resolved(disk, m.path) : m \in {m \in ToSet(missing) : m.path # NoPath}}
      segments == Filtered(memory_maps,
                    LAMBDA m : /\ m.path # NoPath
                               /\ Exists(disk, m.path)
                               /\ disk[m.path].real \in wanted
                               /\ disk[m.path].real = Resolved(disk, path))
  IN IF segments = <<>> THEN path ELSE Last(segments).path

\* Sorted by their addresses, of which no two are the same in a core whose notes are true.
ComesBefore(maps, m, n) ==
  \/ maps[m].start < maps[n].start
  \/ maps[m].start = maps[n].start /\ m < n

Rank(maps, n) == 1 + Cardinality({m \in DOMAIN maps : ComesBefore(maps, m, n)})

Sorted(maps) ==
  [r \in DOMAIN maps |-> maps[CHOOSE n \in DOMAIN maps : Rank(maps, n) = r]]

\* Mutant of ParseCoreFileMaps: they are not put in order.
ParseCoreFileMapsUnsorted(mapped_files, memory_maps, disk) ==
  LET missing == MissingMappedFiles(mapped_files, memory_maps)
  IN memory_maps \o missing

ParseCoreFileMaps(mapped_files, memory_maps, disk) ==
  LET missing == MissingMappedFiles(mapped_files, memory_maps)
      all_maps == Sorted(memory_maps \o missing)
  IN [i \in DOMAIN all_maps |->
        IF all_maps[i].path = NoPath THEN all_maps[i]
        ELSE [all_maps[i] EXCEPT
                !.path = PathOfSegments(missing, memory_maps, disk, @)]]

(***************************************************************************)
(* What the maps are for.  A map without a path belongs to the file of the *)
(* map before it.                                                          *)
(***************************************************************************)
LibraryOf(maps, i) ==
  LET named == {k \in 1..i : maps[k].path # NoPath}
  IN IF named = {} THEN "" ELSE maps[Max(named)].path.name

MapsOfLibrary(maps, name) ==
  Selected(maps, {i \in DOMAIN maps : LibraryOf(maps, i) = name})

\* The lowest address of any map of a file with that name.
ComputedLoadPoints(maps) ==
  LET of(name) == {m.start : m \in {m \in ToSet(maps) : m.path # NoPath /\ m.path.name = name}}
  IN [name \in {m.path.name : m \in {m \in ToSet(maps) : m.path # NoPath}} |-> Min(of(name))]

FirstMatch(maps, Test(_)) ==
  LET matches == {i \in DOMAIN maps : Test(maps[i])}
  IN IF matches = {} THEN Null ELSE maps[Min(matches)]

ContainsAddr(map, addr) == map.start <= addr /\ addr < map.end

GetBaseMap(maps) ==
  LET named == FirstMatch(maps, LAMBDA m : m.path # NoPath)
  IN IF named = Null THEN Head(maps) ELSE named

\* The section .bss where it was loaded, if a map of the file holds its start.
GetBss(elf_maps, load_point, disk) ==
  LET binary == GetBaseMap(elf_maps)
      known == /\ binary.path # NoPath
               /\ Exists(disk, binary.path)
               /\ disk[binary.path].bss # Null
      start == load_point + disk[binary.path].bss.corrected_addr
      size == disk[binary.path].bss.size
      map == FirstMatch(elf_maps, LAMBDA m : ContainsAddr(m, start))
  IN IF ~known THEN Null
     ELSE IF map = Null THEN Null
     ELSE [start |-> start, end |-> start + size, filesize |-> size,
           offset |-> map.offset + (start - map.start), flags |-> {}, path |-> NoPath]

NoMaps == [heap |-> Null, bss |-> Null, python |-> Null, libpython |-> Null]

\* The result, or the exception as error.
ParseMapInformation(binary, maps, load_points, disk) ==
  LET names == {LibraryOf(maps, i) : i \in DOMAIN maps}
      libpythons == names \cap LibpythonName
      elf_name == IF libpythons = {} THEN binary.name
                  ELSE CHOOSE name \in libpythons : TRUE
      elf_maps == MapsOfLibrary(maps, elf_name)
      load_point == IF elf_name \in DOMAIN load_points THEN load_points[elf_name]
                    ELSE 2^30  \* UINTPTR_MAX: in no map
      found == GetBss(elf_maps, load_point, disk)
      bss == IF found # Null THEN found
             ELSE FirstMatch(elf_maps, LAMBDA m : m.path = NoPath /\ "r" \in m.flags)
  IN IF binary.name \notin names
     THEN [error |-> "no maps for the executable", info |-> NoMaps]
     ELSE IF \E a, b \in libpythons : a # b
     THEN [error |-> "multiple libpython", info |-> NoMaps]
     ELSE [error |-> Null,
           info |->
             [heap |-> IF HeapName \in names
                       THEN Head(MapsOfLibrary(maps, HeapName)) ELSE Null,
              bss |-> bss,
              python |-> GetBaseMap(MapsOfLibrary(maps, binary.name)),
              libpython |-> IF libpythons = {} THEN Null ELSE GetBaseMap(elf_maps)]]

\* The file that holds the interpreter: what getMainMap of process.cpp chooses.
MainMap(info) == IF info.libpython # Null THEN info.libpython ELSE info.python
=============================================================================
