------------------------ MODULE ProcessMemoryManager ------------------------
(***************************************************************************)
(* ProcessMemoryManager of mem.cpp: the memory of a live process, read     *)
(* with process_vm_readv or through /proc/<pid>/mem, whole maps at a time  *)
(* into an LRUCache.  One step is the copy of one page, so that a target   *)
(* that is not stopped (--no-block) can change under a read.               *)
(***************************************************************************)
EXTENDS LRUCache, FiniteSets

CONSTANTS
  Addr, Val, Unmapped, Lengths, None,  \* as in RemoteMemory
  d_vmaps,     \* the maps of /proc/<pid>/maps, as records [addr, len]
  Platforms,   \* what the operating system may offer, see Platform
  TargetRuns   \* the target has not been stopped

\* vm_readv: how process_vm_readv answers; opens: /proc/<pid>/mem can be opened;
\* no_readv: _PYSTACK_NO_PROCESS_VM_READV is in the environment.
Platform ==
  [vm_readv : {"works", "EPERM", "ENOSYS"}, opens : BOOLEAN, no_readv : BOOLEAN]

Area == [addr : Nat, len : Nat \ {0}]
Pages(r) == r.addr .. r.addr + r.len - 1

ASSUME MemoryAssumption ==
  /\ Addr \subseteq Nat
  /\ Lengths \subseteq Nat \ {0}
  /\ Unmapped \notin Val
  /\ d_vmaps \subseteq Area
  /\ \A m \in d_vmaps : Pages(m) \subseteq Addr
  /\ \A m, n \in d_vmaps : m # n => Pages(m) \cap Pages(n) = {}
  /\ Platforms \subseteq Platform
  /\ TargetRuns \in BOOLEAN
  /\ None \notin Area

VARIABLES
  mem, alive, seen,  \* the target, as in RemoteMemory
  platform,          \* what this system offers
  d_memfile,         \* /proc/<pid>/mem is open
  pc,                \* where copyMemoryFromProcess is
  request,           \* its arguments, or None
  chunk,             \* the arguments of readChunk
  via,               \* how readChunk reads
  buf,               \* what it has read
  answer             \* what the last call returned or threw, or None

targetVars == <<mem, alive, seen>>
callVars == <<pc, request, chunk, via, buf, answer>>
vars == <<cacheVars, targetVars, platform, d_memfile, callVars>>

Request == {r \in [addr : Addr, len : Lengths] : Pages(r) \subseteq Addr}

Init ==
  /\ CacheInit
  /\ mem \in [Addr -> Val \cup {Unmapped}]
  /\ alive = TRUE
  /\ seen = [a \in Addr |-> {mem[a]}]
  /\ platform \in Platforms
  /\ d_memfile = FALSE
  /\ pc = "idle"
  /\ request = None
  /\ chunk = None
  /\ via = "readv"
  /\ buf = <<>>
  /\ answer = None

-----------------------------------------------------------------------------
(* The target.                                                             *)

Remembers == seen' = [a \in Addr |-> seen[a] \cup {mem'[a]}]

\* A page is written, mapped or unmapped.
TargetWrites ==
  /\ TargetRuns /\ alive
  /\ \E a \in Addr, v \in Val \cup {Unmapped} : mem' = [mem EXCEPT ![a] = v]
  /\ Remembers
  /\ UNCHANGED <<alive, cacheVars, platform, d_memfile, callVars>>

TargetDies ==
  /\ alive
  /\ alive' = FALSE
  /\ mem' = [a \in Addr |-> Unmapped]
  /\ Remembers
  /\ UNCHANGED <<cacheVars, platform, d_memfile, callVars>>

-----------------------------------------------------------------------------
(* copyMemoryFromProcess.                                                  *)

\* The maps that hold the first and the last byte of the request.
VMapsOf(r) ==
  {m \in d_vmaps : r.addr \in Pages(m) /\ r.addr + r.len - 1 \in Pages(m)}

\* Mutant of Cacheable: the size of the map is not looked at.
CacheableAnySize(m) == m \in VMapsOf(request)

Cacheable(m) == m \in VMapsOf(request) /\ can_fit(m.len)

CopyMemoryFromProcess(r) ==
  /\ pc = "idle"
  /\ request' = r
  /\ answer' = None
  /\ pc' = "lookup"
  /\ UNCHANGED <<cacheVars, targetVars, platform, d_memfile, chunk, via, buf>>

\* readChunk chooses the way to read each time it is called.
CallReadChunk(r, for) ==
  /\ chunk' = r
  /\ via' = IF d_memfile \/ platform.no_readv THEN "memfile" ELSE "readv"
  /\ buf' = <<>>
  /\ pc' = for

Return(threw, data) ==
  /\ answer' = [request |-> request, threw |-> threw, data |-> data]
  /\ pc' = "idle"
  /\ request' = None
  /\ chunk' = None
  /\ buf' = <<>>
  /\ UNCHANGED via

\* Mutant of Slice: the offset of the request in the map is forgotten.
SliceOfStart(pages, start) == SubSeq(pages, 1, request.len)

\* What was asked for of the pages read from `start' on.
Slice(pages, start) ==
  SubSeq(pages, request.addr - start + 1, request.addr - start + request.len)

Hit(m) ==
  /\ pc = "lookup"
  /\ Cacheable(m)
  /\ exists(m.addr)
  /\ Get(m.addr)
  /\ Return("nothing", Slice(d_cache[m.addr], m.addr))
  /\ UNCHANGED <<targetVars, platform, d_memfile>>

\* The whole map is read first.
Miss(m) ==
  /\ pc = "lookup"
  /\ Cacheable(m)
  /\ ~exists(m.addr)
  /\ CallReadChunk(m, "fill")
  /\ UNCHANGED <<cacheVars, targetVars, platform, d_memfile, request, answer>>

\* No map holds the request, or the map is too large to be kept.
Bypass ==
  /\ pc = "lookup"
  /\ \A m \in d_vmaps : ~Cacheable(m)
  /\ CallReadChunk(request, "direct")
  /\ UNCHANGED <<cacheVars, targetVars, platform, d_memfile, request, answer>>

\* The map has been read: it is put into the cache and the answer taken from it.
FillEnds ==
  /\ pc = "fill"
  /\ Len(buf) = chunk.len
  /\ PutThenGet(chunk.addr, buf)
  /\ Return("nothing", Slice(buf, chunk.addr))
  /\ UNCHANGED <<targetVars, platform, d_memfile>>

DirectEnds ==
  /\ pc = "direct"
  /\ Len(buf) = chunk.len
  /\ Return("nothing", buf)
  /\ UNCHANGED <<cacheVars, targetVars, platform, d_memfile>>

-----------------------------------------------------------------------------
(* readChunk.                                                              *)

Reading == pc \in {"fill", "direct"} /\ Len(buf) < chunk.len

\* Mutant of InvalidRemoteAddress: the failure to read the map is passed on.
InvalidRemoteAddressThrown == Return("InvalidRemoteAddress", <<>>)

\* Mutant of InvalidRemoteAddress: the map is read again.
InvalidRemoteAddressRetried ==
  /\ CallReadChunk(chunk, pc)
  /\ UNCHANGED <<request, answer>>

\* Only InvalidRemoteAddress is caught, and only while a map is being read: the
\* request is then read on its own.
InvalidRemoteAddress ==
  \/ /\ pc = "fill"
     /\ CallReadChunk(request, "direct")
     /\ UNCHANGED <<request, answer>>
  \/ /\ pc = "direct"
     /\ Return("InvalidRemoteAddress", <<>>)

\* process_vm_readv fails for the whole process: it is gone, or out of reach.
ReadvFails ==
  /\ Reading
  /\ via = "readv"
  /\ platform.vm_readv = "EPERM" \/ (platform.vm_readv = "works" /\ ~alive)
  /\ Return("other", <<>>)
  /\ UNCHANGED <<cacheVars, targetVars, platform, d_memfile>>

\* A kernel without process_vm_readv: the chunk is read anew through the file.
ReadvMissing ==
  /\ Reading
  /\ via = "readv"
  /\ platform.vm_readv = "ENOSYS"
  /\ via' = "memfile"
  /\ buf' = <<>>
  /\ UNCHANGED <<cacheVars, targetVars, platform, d_memfile, pc, request, chunk, answer>>

\* The file is opened once and stays open.
OpenMemFile ==
  /\ Reading
  /\ via = "memfile"
  /\ ~d_memfile
  /\ IF platform.opens /\ alive
       THEN d_memfile' = TRUE /\ UNCHANGED callVars
       ELSE Return("other", <<>>) /\ UNCHANGED d_memfile
  /\ UNCHANGED <<cacheVars, targetVars, platform>>

Reads ==
  \/ via = "readv" /\ platform.vm_readv = "works" /\ alive
  \/ via = "memfile" /\ d_memfile

\* Mutant of ReadPage: a short read is not noticed.
ReadPageUnchecked ==
  /\ Reading
  /\ Reads
  /\ buf' = Append(buf, mem[chunk.addr + Len(buf)])
  /\ UNCHANGED <<cacheVars, targetVars, platform, d_memfile, pc, request, chunk, via, answer>>

ReadPage ==
  /\ Reading
  /\ Reads
  /\ mem[chunk.addr + Len(buf)] # Unmapped
  /\ buf' = Append(buf, mem[chunk.addr + Len(buf)])
  /\ UNCHANGED <<cacheVars, targetVars, platform, d_memfile, pc, request, chunk, via, answer>>

\* EFAULT, or a short read of the file.
ReadFaults ==
  /\ Reading
  /\ Reads
  /\ mem[chunk.addr + Len(buf)] = Unmapped
  /\ InvalidRemoteAddress
  /\ UNCHANGED <<cacheVars, targetVars, platform, d_memfile>>

-----------------------------------------------------------------------------

Serve ==
  \/ \E m \in d_vmaps : Hit(m) \/ Miss(m)
  \/ Bypass \/ FillEnds \/ DirectEnds
  \/ ReadvFails \/ ReadvMissing \/ OpenMemFile \/ ReadPage \/ ReadFaults

Next ==
  \/ TargetWrites
  \/ TargetDies
  \/ \E r \in Request : CopyMemoryFromProcess(r)
  \/ Serve

Spec == Init /\ [][Next]_vars

\* A call runs to its end: nothing in it waits for the target.
FairSpec == Spec /\ WF_vars(Serve)

-----------------------------------------------------------------------------
(* What the readers rely on.                                                *)

Exception == {"nothing", "InvalidRemoteAddress", "other"}

TypeOK ==
  /\ d_cache_list \in Seq([key : Nat, size : Nat])
  /\ \A k \in DOMAIN d_cache : d_cache[k] \in Seq(Val)
  /\ d_size \in Nat
  /\ mem \in [Addr -> Val \cup {Unmapped}]
  /\ alive \in BOOLEAN
  /\ seen \in [Addr -> SUBSET (Val \cup {Unmapped})]
  /\ platform \in Platforms
  /\ d_memfile \in BOOLEAN
  /\ pc \in {"idle", "lookup", "fill", "direct"}
  /\ request \in Request \cup {None}
  /\ chunk \in Area \cup {None}
  /\ via \in {"readv", "memfile"}
  /\ buf \in Seq(Val)
  /\ answer = None \/ answer \in [request : Request, threw : Exception, data : Seq(Val)]

\* The hash table and the list hold the same maps, each once, with the size that
\* was read; d_size is what they add up to and stays within the capacity
\* (LRUCache::put, mem.cpp:120-145, as copyMemoryFromProcess calls it).
CacheWellFormed ==
  /\ \A i, j \in DOMAIN d_cache_list :
       d_cache_list[i].key = d_cache_list[j].key => i = j
  /\ Keys(d_cache_list) = DOMAIN d_cache
  /\ \A i \in DOMAIN d_cache_list :
       d_cache_list[i].size = Len(d_cache[d_cache_list[i].key])
  /\ d_size = SizeOf(d_cache_list)
  /\ d_size <= CACHE_CAPACITY

\* A map that is being read will fit: the eviction loop (mem.cpp:136-140) never
\* takes the back of an empty list, and put never drops the value get is to find.
EvictionIsDefined ==
  pc = "fill" =>
    /\ can_fit(chunk.len)
    /\ Room(Without(d_cache_list, chunk.addr), chunk.len) # {}

\* What is cached is what was used last: get and put keep the list in the order
\* of use and evict from its end.
MostRecentlyUsedStay ==
  [i \in DOMAIN d_cache_list |-> d_cache_list[i].key]
    = SubSeq(recent, 1, Len(d_cache_list))

\* Of a target that is stopped and has not been killed, every answer is what the
\* memory holds now, however old the cached map is; and a request is refused
\* only for a page that cannot be read (docs/process.rst:38-42).
AnswersAreCurrent ==
  ~TargetRuns /\ alive /\ answer # None =>
    /\ answer.threw = "nothing" =>
         answer.data = [i \in 1 .. answer.request.len |-> mem[answer.request.addr + i - 1]]
    /\ answer.threw = "InvalidRemoteAddress" =>
         \E a \in Pages(answer.request) : mem[a] = Unmapped

\* The manager is the uncached memory of RemoteMemory: it answers with pages the
\* target really held at the addresses asked for, whether it was stopped or not,
\* and throws only for a reason.
Usable ==
  IF platform.no_readv \/ platform.vm_readv = "ENOSYS"
    THEN platform.opens
    ELSE platform.vm_readv = "works"

Uncached == INSTANCE RemoteMemory WITH usable <- Usable
ImplementsRemoteMemory == Uncached!Spec

\* Every call returns or throws, whatever the target does meanwhile.
EveryCallEnds == (request # None) ~> (request = None)
=============================================================================
