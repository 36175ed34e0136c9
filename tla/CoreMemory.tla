----------------------------- MODULE CoreMemory -----------------------------
(***************************************************************************)
(* Reads from a core (mem.cpp:294-513): from the part of a segment that is *)
(* in the core, or else from the ELF file that was mapped there.  A pure   *)
(* module; the PT_LOAD headers of the files that were opened are cached,   *)
(* and the cache goes in and comes out of each read.                       *)
(***************************************************************************)
EXTENDS CoreFile

CONSTANT Unset  \* a byte of the destination that nothing was copied to

Cell == (({"own", "header"} \cup DOMAIN Image) \X Int) \cup {Unset}

Refused(cache) == [cells |-> Null, cache |-> cache]

\* Mutant of GetMemoryLocationFromCore: all of the map is taken to be in the core.
GetMemoryLocationOfMap(d_vmaps, addr) ==
  LET map == FirstMatch(d_vmaps, LAMBDA m : ContainsAddr(m, addr) /\ m.offset # 0)
  IN IF map = Null THEN Null ELSE (map.offset - map.start) + addr

\* The map whose part in the core holds the address.
GetMemoryLocationFromCore(d_vmaps, addr) ==
  LET map == FirstMatch(d_vmaps, LAMBDA m : /\ m.start <= addr /\ addr < m.start + m.filesize
                                            /\ m.filesize # 0 /\ m.offset # 0)
  IN IF map = Null THEN Null ELSE (map.offset - map.start) + addr

With(cache, filename, segments) ==
  [p \in DOMAIN cache \cup {filename} |-> IF p = filename THEN segments ELSE cache[p]]

\* Mutant of InitLoadSegments: the first header only.
InitLoadSegment(disk, filename, cache) ==
  IF ~Exists(disk, filename) THEN cache
  ELSE IF disk[filename].elf = Script THEN cache
  ELSE With(cache, filename, SubSeq(Image[disk[filename].elf].segments, 1, 1))

\* Only a file that can be opened and has such headers gets into the cache.
InitLoadSegments(disk, filename, cache) ==
  IF ~Exists(disk, filename) THEN cache
  ELSE IF disk[filename].elf = Script THEN cache
  ELSE With(cache, filename, Image[disk[filename].elf].segments)

\* The place in the file, found from the addresses that its headers give.
GetMemoryLocationFromElf(disk, d_shared_libs, cache, addr) ==
  LET lib == FirstMatch(d_shared_libs, LAMBDA m : m.start <= addr /\ addr < m.end)
      known == IF lib.path \in DOMAIN cache THEN cache
               ELSE InitLoadSegments(disk, lib.path, cache)
      segments == known[lib.path]
      symbol_vaddr == addr - lib.start + segments[1].vaddr
      segment == FirstMatch(segments, LAMBDA s : /\ symbol_vaddr >= s.vaddr
                                                 /\ symbol_vaddr < s.vaddr + s.size)
  IN IF lib = Null THEN [path |-> Null, offset |-> 0, cache |-> cache]
     ELSE IF lib.path \notin DOMAIN known THEN [path |-> Null, offset |-> 0, cache |-> known]
     ELSE IF segment = Null THEN [path |-> Null, offset |-> 0, cache |-> known]
     ELSE [path |-> lib.path, cache |-> known,
           offset |-> (symbol_vaddr - segment.vaddr) + segment.offset]

\* Cells of a file on disk; what is behind its end is not read.
FileCells(disk, path, offset, len) ==
  [i \in 1..len |->
     IF offset + i - 1 < Image[disk[path].elf].size
     THEN <<disk[path].elf, offset + i - 1>> ELSE Unset]

CopyMemoryFromProcess(core, d_vmaps, d_shared_libs, cache, addr, len) ==
  LET offset == GetMemoryLocationFromCore(d_vmaps, addr)
      elf == GetMemoryLocationFromElf(core.disk, d_shared_libs, cache, addr)
  IN IF offset # Null
     THEN IF len > core.size \/ offset > core.size - len
          THEN Refused(cache)
          ELSE [cells |-> [i \in 1..len |-> CoreCell(core, offset + i - 1)], cache |-> cache]
     ELSE IF elf.path = Null THEN Refused(elf.cache)
     ELSE [cells |-> FileCells(core.disk, elf.path, elf.offset, len), cache |-> elf.cache]
=============================================================================
