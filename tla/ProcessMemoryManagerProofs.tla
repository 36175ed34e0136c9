--------------------- MODULE ProcessMemoryManagerProofs ---------------------
(***************************************************************************)
(* The memory manager, cache and all, is the uncached memory of            *)
(* RemoteMemory, and of a stopped target its answers are current: for any  *)
(* address space, maps, cache capacity, platforms and lengths of requests. *)
(***************************************************************************)
EXTENDS ProcessMemoryManager, SequenceTheorems, WellFoundedInduction, TLAPS

(* The inductive invariant.  Whatever the manager keeps of the target, it   *)
(* read: each cached or buffered page has been in the target at the address *)
(* it is kept for.                                                          *)

Genuine(pages, start) ==
  /\ pages \in Seq(Val)
  /\ \A i \in 1 .. Len(pages) : start + i - 1 \in Addr /\ pages[i] \in seen[start + i - 1]

TargetInv ==
  /\ mem \in [Addr -> Val \cup {Unmapped}]
  /\ seen \in [Addr -> SUBSET (Val \cup {Unmapped})]
  /\ alive \in BOOLEAN
  /\ \A a \in Addr : mem[a] \in seen[a]
  /\ ~TargetRuns /\ alive => \A a \in Addr : seen[a] = {mem[a]}

\* A cached map is genuine and whole.
CacheInv ==
  /\ \A k \in DOMAIN d_cache : Genuine(d_cache[k], k) /\ Usable
  /\ \A m \in d_vmaps : m.addr \in DOMAIN d_cache => Len(d_cache[m.addr]) = m.len

\* A chunk that is being read is a map that holds the request, or the request.
CallInv ==
  /\ pc \in {"idle", "lookup", "fill", "direct"}
  /\ IF pc = "idle" THEN request = None ELSE request \in Request
  /\ pc = "fill" => chunk \in VMapsOf(request)
  /\ pc = "direct" => chunk = request
  /\ pc \in {"fill", "direct"} =>
       /\ Genuine(buf, chunk.addr)
       /\ Len(buf) <= chunk.len
       /\ Len(buf) > 0 => Usable

\* The file is only used where process_vm_readv is missing or not wanted.
PlatformInv ==
  /\ platform \in Platform
  /\ d_memfile \in BOOLEAN
  /\ d_memfile => platform.opens /\ (platform.no_readv \/ platform.vm_readv = "ENOSYS")
  /\ pc \in {"fill", "direct"} =>
       \/ via = "readv" /\ ~platform.no_readv
       \/ via = "memfile" /\ (platform.no_readv \/ platform.vm_readv = "ENOSYS")

AnswerInv ==
  answer # None =>
    /\ answer.threw = "nothing" =>
         /\ answer.data \in [1 .. answer.request.len -> Val]
         /\ \A i \in 1 .. answer.request.len :
              /\ answer.request.addr + i - 1 \in Addr
              /\ answer.data[i] \in seen[answer.request.addr + i - 1]
    /\ answer.threw = "InvalidRemoteAddress" =>
         \E a \in Pages(answer.request) : a \in Addr /\ Unmapped \in seen[a]

IInv == TargetInv /\ CacheInv /\ CallInv /\ PlatformInv /\ AnswerInv

-----------------------------------------------------------------------------
(* Facts about maps and requests.                                           *)

\* Requests and maps are areas, and lie in the address space.
LEMMA Areas ==
  /\ \A r \in Request : r \in Area /\ Pages(r) \subseteq Addr
  /\ \A m \in d_vmaps : m \in Area /\ Pages(m) \subseteq Addr
BY MemoryAssumption DEF Request, Area

\* No two maps start at the same address.
LEMMA StartsDiffer ==
  ASSUME NEW m \in d_vmaps, NEW n \in d_vmaps, m.addr = n.addr
  PROVE  m = n
<1>1. m.addr \in Pages(m) /\ n.addr \in Pages(n)
  BY Areas DEF Area, Pages
<1> QED BY <1>1, MemoryAssumption

\* What SubSeq returns.
LEMMA SubSeqIsSlice ==
  ASSUME NEW S, NEW s \in Seq(S), NEW n \in Nat \ {0}, NEW k \in Nat \ {0},
         n + k - 1 <= Len(s)
  PROVE  /\ SubSeq(s, n, n + k - 1) \in [1 .. k -> S]
         /\ \A i \in 1 .. k :
              SubSeq(s, n, n + k - 1)[i] = s[n + i - 1] /\ n + i - 1 \in 1 .. Len(s)
<1>1. \A i \in 1 .. k : n + i - 1 \in 1 .. Len(s)
  OBVIOUS
<1>2. SubSeq(s, n, n + k - 1) = [i \in 1 .. k |-> s[n + i - 1]]
  <2>1. 1 .. (n + k - 1) - n + 1 = 1 .. k
    OBVIOUS
  <2>2. \A i \in 1 .. k : i + n - 1 = n + i - 1
    OBVIOUS
  <2> QED BY <1>1, <2>1, <2>2
<1>3. \A j \in 1 .. Len(s) : s[j] \in S
  OBVIOUS
<1>4. [i \in 1 .. k |-> s[n + i - 1]] \in [1 .. k -> S]
  BY <1>1, <1>3
<1> QED BY <1>1, <1>2, <1>4

\* The slice of a whole genuine map that a request asks for is genuine.
LEMMA SliceIsGenuine ==
  ASSUME NEW r \in Request, request = r, NEW m \in VMapsOf(r),
         NEW pages, Genuine(pages, m.addr), Len(pages) = m.len
  PROVE  /\ Slice(pages, m.addr) \in [1 .. r.len -> Val]
         /\ \A i \in 1 .. r.len :
              /\ r.addr + i - 1 \in Addr
              /\ Slice(pages, m.addr)[i] \in seen[r.addr + i - 1]
<1>1. /\ r.addr \in Nat /\ r.len \in Nat \ {0} /\ m.addr \in Nat /\ m.len \in Nat \ {0}
      /\ r.addr >= m.addr /\ r.addr + r.len <= m.addr + m.len
  BY Areas DEF VMapsOf, Pages, Area
<1>2. PICK n \in Nat \ {0} : n = r.addr - m.addr + 1
  BY <1>1
<1>3. PICK k \in Nat \ {0} : k = r.len
  BY <1>1
<1>4. /\ Slice(pages, m.addr) \in [1 .. k -> Val]
      /\ \A i \in 1 .. k :
           Slice(pages, m.addr)[i] = pages[n + i - 1] /\ n + i - 1 \in 1 .. Len(pages)
  <2>1. pages \in Seq(Val)
    BY DEF Genuine
  <2>2. n + k - 1 <= Len(pages) /\ r.addr - m.addr + r.len = n + k - 1
    BY <1>1, <1>2, <1>3, SMTT(40)
  <2>3. Slice(pages, m.addr) = SubSeq(pages, n, n + k - 1)
    BY <1>2, <2>2 DEF Slice
  <2> QED BY <2>1, <2>2, <2>3, SubSeqIsSlice
<1>5. ASSUME NEW i \in 1 .. k
      PROVE  /\ r.addr + i - 1 \in Addr
             /\ Slice(pages, m.addr)[i] \in seen[r.addr + i - 1]
  <2>1. m.addr + (n + i - 1) - 1 = r.addr + i - 1
    BY <1>1, <1>2, SMTT(40)
  <2> QED BY <2>1, <1>4 DEF Genuine
<1> QED BY <1>3, <1>4, <1>5

-----------------------------------------------------------------------------
(* The invariant holds at first and every action preserves it.              *)

\* A manager starts with an empty cache and no call.
LEMMA InitInv == Init => IInv
<1> SUFFICES ASSUME Init PROVE IInv
  OBVIOUS
<1>1. TargetInv
  BY DEF Init, TargetInv
<1>2. CacheInv
  <2>1. DOMAIN d_cache = {}
    BY DEF Init, CacheInit
  <2> QED BY <2>1 DEF CacheInv
<1>3. CallInv /\ PlatformInv /\ AnswerInv
  BY MemoryAssumption DEF Init, CallInv, PlatformInv, AnswerInv
<1> QED BY <1>1, <1>2, <1>3 DEF IInv

\* What was genuine stays so while the target is only remembered better.
LEMMA TargetSafe ==
  ASSUME IInv, TargetWrites \/ TargetDies
  PROVE  IInv'
<1> USE DEF IInv
<1>1. /\ mem' \in [Addr -> Val \cup {Unmapped}]
      /\ seen' = [a \in Addr |-> seen[a] \cup {mem'[a]}]
      /\ alive' \in BOOLEAN
      /\ TargetRuns \/ ~alive'
      /\ UNCHANGED <<cacheVars, platform, d_memfile, callVars>>
  BY DEF TargetInv, TargetWrites, TargetDies, Remembers
<1>2. \A a \in Addr : seen[a] \subseteq seen'[a]
  BY <1>1
<1>3. TargetInv'
  BY <1>1 DEF TargetInv
<1>4. ASSUME NEW pages, NEW start, Genuine(pages, start)
      PROVE  /\ pages \in Seq(Val)
             /\ \A i \in 1 .. Len(pages) :
                  start + i - 1 \in Addr /\ pages[i] \in seen'[start + i - 1]
  BY <1>2, <1>4 DEF Genuine
<1>5. CacheInv'
  BY <1>1, <1>4 DEF CacheInv, Genuine, Usable, cacheVars
<1>6. CallInv'
  BY <1>1, <1>4 DEF CallInv, Genuine, Usable, callVars, VMapsOf
<1>7. PlatformInv'
  BY <1>1 DEF PlatformInv, callVars
<1>8. AnswerInv'
  BY <1>1, <1>2 DEF AnswerInv, callVars
<1> QED BY <1>3, <1>5, <1>6, <1>7, <1>8

\* A call begins.
LEMMA CopySafe ==
  ASSUME IInv, NEW r \in Request, CopyMemoryFromProcess(r)
  PROVE  IInv'
<1> USE DEF IInv, CopyMemoryFromProcess
<1>1. TargetInv'
  BY DEF TargetInv, targetVars
<1>2. CacheInv'
  BY DEF CacheInv, Genuine, Usable, cacheVars, targetVars
<1>3. CallInv' /\ PlatformInv' /\ AnswerInv'
  BY DEF CallInv, PlatformInv, AnswerInv
<1> QED BY <1>1, <1>2, <1>3

\* The answer is a slice of the cached map, which is whole and genuine.
LEMMA HitSafe ==
  ASSUME IInv, NEW m \in d_vmaps, Hit(m)
  PROVE  IInv'
<1> USE DEF IInv, Hit, Return
<1>1. TargetInv'
  BY DEF TargetInv, targetVars
<1>2. CacheInv'
  BY DEF CacheInv, Genuine, Usable, Get, targetVars
<1>3. CallInv' /\ PlatformInv'
  BY DEF CallInv, PlatformInv
<1>4. request \in Request /\ m \in VMapsOf(request)
  BY DEF CallInv, Cacheable
<1>5. Genuine(d_cache[m.addr], m.addr) /\ Len(d_cache[m.addr]) = m.len
  BY DEF CacheInv, exists
<1>6. AnswerInv'
  BY <1>4, <1>5, SliceIsGenuine DEF AnswerInv, targetVars
<1> QED BY <1>1, <1>2, <1>3, <1>6

\* A chunk is chosen, and nothing of it read yet.
LEMMA MissSafe ==
  ASSUME IInv, NEW m \in d_vmaps, Miss(m)
  PROVE  IInv'
<1> USE DEF IInv, Miss, CallReadChunk
<1>1. TargetInv'
  BY DEF TargetInv, targetVars
<1>2. CacheInv'
  BY DEF CacheInv, Genuine, Usable, cacheVars, targetVars
<1>3. CallInv'
  <2>1. m \in VMapsOf(request) /\ m.len \in Nat
    BY Areas DEF Cacheable, Area
  <2> QED BY <2>1 DEF CallInv, Genuine, VMapsOf
<1>4. PlatformInv' /\ AnswerInv'
  BY DEF PlatformInv, AnswerInv, targetVars
<1> QED BY <1>1, <1>2, <1>3, <1>4

\* A request in no map that fits is read as it is.
LEMMA BypassSafe ==
  ASSUME IInv, Bypass
  PROVE  IInv'
<1> USE DEF IInv, Bypass, CallReadChunk
<1>1. TargetInv'
  BY DEF TargetInv, targetVars
<1>2. CacheInv'
  BY DEF CacheInv, Genuine, Usable, cacheVars, targetVars
<1>3. CallInv'
  <2>1. request \in Request /\ request.len \in Nat
    BY Areas DEF CallInv, Area
  <2> QED BY <2>1 DEF CallInv, Genuine
<1>4. PlatformInv' /\ AnswerInv'
  BY DEF PlatformInv, AnswerInv, targetVars
<1> QED BY <1>1, <1>2, <1>3, <1>4

\* What is put into the cache is the map that was read; the rest of the cache
\* loses entries only.
LEMMA FillEndsSafe ==
  ASSUME IInv, FillEnds
  PROVE  IInv'
<1> USE DEF IInv, FillEnds, Return
<1>1. TargetInv'
  BY DEF TargetInv, targetVars
<1>2. /\ request \in Request /\ chunk \in VMapsOf(request) /\ chunk \in d_vmaps
      /\ Genuine(buf, chunk.addr) /\ Len(buf) = chunk.len
      /\ Usable
  <2>1. chunk \in VMapsOf(request) /\ chunk \in d_vmaps
    BY DEF CallInv, VMapsOf
  <2>2. chunk.len \in Nat \ {0}
    BY <2>1, Areas DEF Area
  <2> QED BY <2>1, <2>2 DEF CallInv
<1>3. CacheInv'
  <2>1. /\ DOMAIN d_cache' \subseteq DOMAIN d_cache \cup {chunk.addr}
        /\ \A k \in DOMAIN d_cache' :
             d_cache'[k] = IF k = chunk.addr THEN buf ELSE d_cache[k]
    BY DEF PutThenGet
  <2>2. \A k \in DOMAIN d_cache' : Genuine(d_cache'[k], k) /\ Usable
    BY <2>1, <1>2 DEF CacheInv
  <2>3. ASSUME NEW m \in d_vmaps, m.addr \in DOMAIN d_cache'
        PROVE  Len(d_cache'[m.addr]) = m.len
    BY <2>1, <2>3, <1>2, StartsDiffer DEF CacheInv
  <2> QED BY <2>2, <2>3 DEF CacheInv, Genuine, Usable, targetVars
<1>4. CallInv' /\ PlatformInv'
  BY DEF CallInv, PlatformInv
<1>5. AnswerInv'
  BY <1>2, SliceIsGenuine DEF AnswerInv, targetVars
<1> QED BY <1>1, <1>3, <1>4, <1>5

\* The pages read for the request alone are the answer.
LEMMA DirectEndsSafe ==
  ASSUME IInv, DirectEnds
  PROVE  IInv'
<1> USE DEF IInv, DirectEnds, Return
<1>1. TargetInv'
  BY DEF TargetInv, targetVars
<1>2. CacheInv'
  BY DEF CacheInv, Genuine, Usable, cacheVars, targetVars
<1>3. CallInv' /\ PlatformInv'
  BY DEF CallInv, PlatformInv
<1>4. AnswerInv'
  <2>1. Genuine(buf, request.addr) /\ Len(buf) = request.len
    BY DEF CallInv
  <2> QED BY <2>1 DEF Genuine, AnswerInv, targetVars
<1> QED BY <1>1, <1>2, <1>3, <1>4

\* The failures that end a call with another exception, and the second way in.
LEMMA ReadvSafe ==
  ASSUME IInv, ReadvFails \/ ReadvMissing \/ OpenMemFile
  PROVE  IInv'
<1> USE DEF IInv
<1>1. UNCHANGED <<cacheVars, targetVars, platform>>
  BY DEF ReadvFails, ReadvMissing, OpenMemFile
<1>2. TargetInv'
  BY <1>1 DEF TargetInv, targetVars
<1>3. CacheInv'
  BY <1>1 DEF CacheInv, Genuine, Usable, cacheVars, targetVars
<1>4. CASE ReadvFails
  BY <1>1, <1>2, <1>3, <1>4
     DEF ReadvFails, Return, CallInv, PlatformInv, AnswerInv
<1>5. CASE ReadvMissing
  <2>1. chunk \in Area
    BY <1>5, Areas DEF ReadvMissing, Reading, CallInv, VMapsOf
  <2>2. CallInv'
    BY <1>1, <1>5, <2>1 DEF ReadvMissing, Reading, CallInv, Genuine, Usable, Area, targetVars
  <2>3. PlatformInv' /\ AnswerInv'
    BY <1>1, <1>5 DEF ReadvMissing, PlatformInv, AnswerInv, targetVars
  <2> QED BY <1>2, <1>3, <2>2, <2>3
<1>6. CASE OpenMemFile
  <2>1. CASE platform.opens /\ alive
    <3>1. CallInv'
      BY <1>1, <1>6, <2>1 DEF OpenMemFile, CallInv, Genuine, Usable, callVars, targetVars
    <3>2. PlatformInv' /\ AnswerInv'
      BY <1>1, <1>6, <2>1
         DEF OpenMemFile, Reading, PlatformInv, AnswerInv, callVars, targetVars
    <3> QED BY <1>2, <1>3, <3>1, <3>2
  <2>2. CASE ~(platform.opens /\ alive)
    BY <1>1, <1>2, <1>3, <1>6, <2>2
       DEF OpenMemFile, Return, CallInv, PlatformInv, AnswerInv
  <2> QED BY <2>1, <2>2
<1> QED BY <1>4, <1>5, <1>6

\* A chunk that is being read lies in the address space, and the page that is
\* read next lies in the chunk.
LEMMA NextPage ==
  ASSUME IInv, Reading
  PROVE  /\ chunk.addr \in Nat /\ chunk.len \in Nat \ {0}
         /\ Len(buf) \in Nat /\ buf \in Seq(Val)
         /\ chunk.addr + Len(buf) \in Pages(chunk)
         /\ chunk.addr + Len(buf) \in Addr
<1>1. chunk \in Area /\ Pages(chunk) \subseteq Addr
  BY Areas DEF Reading, IInv, CallInv, VMapsOf
<1>2. buf \in Seq(Val) /\ Len(buf) \in Nat /\ Len(buf) < chunk.len
  BY DEF Reading, IInv, CallInv, Genuine
<1>3. chunk.addr + Len(buf) \in Pages(chunk)
  BY <1>1, <1>2 DEF Area, Pages
<1> QED BY <1>1, <1>2, <1>3 DEF Area

\* To read is to be on a usable system.
LEMMA ReadsUsable ==
  ASSUME IInv, Reading, Reads
  PROVE  Usable
BY DEF IInv, Reading, Reads, PlatformInv, Platform, Usable

\* The page that is appended is one the target holds at that address.
LEMMA ReadPageSafe ==
  ASSUME IInv, ReadPage
  PROVE  IInv'
<1> USE DEF ReadPage
<1>1. TargetInv'
  BY DEF IInv, TargetInv, targetVars
<1>2. CacheInv'
  BY DEF IInv, CacheInv, Genuine, Usable, cacheVars, targetVars
<1>3. PlatformInv' /\ AnswerInv'
  BY DEF IInv, PlatformInv, AnswerInv, targetVars
<1>4. CallInv'
  <2> DEFINE a == chunk.addr + Len(buf)
  <2>1. /\ chunk.addr \in Nat /\ chunk.len \in Nat \ {0}
        /\ Len(buf) \in Nat /\ buf \in Seq(Val) /\ a \in Addr
    BY NextPage
  <2>2. mem[a] \in Val /\ mem[a] \in seen[a]
    BY <2>1 DEF IInv, TargetInv
  <2>3. /\ buf' \in Seq(Val)
        /\ Len(buf') = Len(buf) + 1
        /\ \A i \in 1 .. Len(buf) : buf'[i] = buf[i]
        /\ buf'[Len(buf) + 1] = mem[a]
    BY <2>1, <2>2
  <2>4. Genuine(buf', chunk.addr)
    <3> SUFFICES ASSUME NEW i \in 1 .. Len(buf) + 1
                 PROVE  chunk.addr + i - 1 \in Addr /\ buf'[i] \in seen[chunk.addr + i - 1]
      BY <2>3 DEF Genuine
    <3>1. CASE i \in 1 .. Len(buf)
      BY <2>3, <3>1 DEF IInv, CallInv, Genuine, Reading
    <3>2. CASE i = Len(buf) + 1
      <4>1. chunk.addr + i - 1 = a
        BY <2>1, <3>2
      <4> QED BY <2>1, <2>2, <2>3, <3>2, <4>1
    <3> QED BY <2>1, <3>1, <3>2
  <2>5. Len(buf') <= chunk.len
    BY <2>1, <2>3 DEF Reading
  <2> QED BY <2>4, <2>5, ReadsUsable DEF IInv, CallInv, Genuine, Usable, Reading, targetVars
<1> QED BY <1>1, <1>2, <1>3, <1>4 DEF IInv

\* A page that cannot be read sends a fill to the direct read, or ends the call.
LEMMA ReadFaultsSafe ==
  ASSUME IInv, ReadFaults
  PROVE  IInv'
<1> USE DEF ReadFaults
<1>1. TargetInv'
  BY DEF IInv, TargetInv, targetVars
<1>2. CacheInv'
  BY DEF IInv, CacheInv, Genuine, Usable, cacheVars, targetVars
<1>3. CASE pc = "fill"
  <2>1. request \in Request /\ request.len \in Nat
    BY <1>3, Areas DEF IInv, CallInv, Area
  <2>2. CallReadChunk(request, "direct") /\ UNCHANGED <<request, answer>>
    BY <1>3 DEF InvalidRemoteAddress
  <2> QED BY <1>1, <1>2, <2>1, <2>2
          DEF IInv, CallReadChunk, CallInv, Genuine, PlatformInv, AnswerInv, targetVars
<1>4. CASE pc = "direct"
  <2>1. Return("InvalidRemoteAddress", <<>>)
    BY <1>4 DEF InvalidRemoteAddress
  <2>2. CallInv' /\ PlatformInv'
    BY <2>1 DEF IInv, Return, CallInv, PlatformInv
  <2>3. chunk.addr + Len(buf) \in Pages(request) /\ chunk.addr + Len(buf) \in Addr
    BY <1>4, NextPage DEF IInv, CallInv
  <2>4. Unmapped \in seen[chunk.addr + Len(buf)]
    BY <2>3 DEF IInv, TargetInv
  <2>5. AnswerInv'
    BY <2>1, <2>3, <2>4 DEF Return, AnswerInv, targetVars
  <2> QED BY <1>1, <1>2, <2>2, <2>5 DEF IInv
<1> QED BY <1>3, <1>4 DEF Reading

\* A step of a call is one of the actions above.
LEMMA ServeSafe == IInv /\ Serve => IInv'
BY HitSafe, MissSafe, BypassSafe, FillEndsSafe, DirectEndsSafe, ReadvSafe, ReadPageSafe,
   ReadFaultsSafe DEF Serve

\* Every step of the target or of a call preserves the invariant.
LEMMA NextSafe == IInv /\ [Next]_vars => IInv'
<1>1. ASSUME IInv, UNCHANGED vars PROVE IInv'
  BY <1>1 DEF vars, cacheVars, targetVars, callVars, IInv, TargetInv, CacheInv, CallInv,
              PlatformInv, AnswerInv, Genuine, Usable, VMapsOf
<1> QED BY <1>1, TargetSafe, CopySafe, ServeSafe DEF Next

\* The invariant of the manager: all that it caches, buffers and answers are
\* pages the target held where they are said to come from.
THEOREM Invariance == Spec => []IInv
BY InitInv, NextSafe, PTL DEF Spec

\* Of a stopped target, answers from the cache are as good as answers from the
\* memory, whatever the maps and however small the cache (mem.cpp:252-283).
THEOREM Current == Spec => []AnswersAreCurrent
<1>1. IInv => AnswersAreCurrent
  <2> SUFFICES ASSUME IInv, ~TargetRuns, alive, answer # None
               PROVE  /\ answer.threw = "nothing" =>
                           answer.data = [i \in 1 .. answer.request.len |->
                                            mem[answer.request.addr + i - 1]]
                      /\ answer.threw = "InvalidRemoteAddress" =>
                           \E a \in Pages(answer.request) : mem[a] = Unmapped
    BY DEF AnswersAreCurrent
  <2>1. \A a \in Addr : seen[a] = {mem[a]}
    BY DEF IInv, TargetInv
  <2> QED BY <2>1 DEF IInv, AnswerInv
<1> QED BY <1>1, Invariance, PTL

-----------------------------------------------------------------------------
(* Refinement.                                                              *)

\* What the platform offers settles whether the memory can be read.
LEMMA UsableIsBoolean ==
  ASSUME platform \in Platform
  PROVE  Usable \in BOOLEAN
BY DEF Platform, Usable

\* A manager that has just been made is an uncached memory nobody asked yet.
LEMMA InitRefines == Init => Uncached!Init
<1> SUFFICES ASSUME Init PROVE Uncached!Init
  OBVIOUS
<1>1. Usable \in BOOLEAN
  BY UsableIsBoolean, MemoryAssumption DEF Init
<1> QED BY <1>1 DEF Init, Uncached!Init

\* A call that is under way is a request that is being served.
LEMMA Serving ==
  ASSUME IInv, pc # "idle"
  PROVE  request \in Request /\ request # None
BY Areas, MemoryAssumption DEF IInv, CallInv

\* An answer with pages is a reply.
LEMMA ReplyRefines ==
  ASSUME IInv, pc # "idle", Usable, NEW data \in [1 .. request.len -> Val],
         \A i \in 1 .. request.len : data[i] \in seen[request.addr + i - 1],
         Return("nothing", data), UNCHANGED <<targetVars, platform>>
  PROVE  Uncached!Reply
BY Serving DEF Return, Uncached!Reply, Uncached!Data, Usable, targetVars

\* Each step of a call serves the request, or is invisible to the caller.
LEMMA ServeRefines ==
  ASSUME IInv, Serve
  PROVE  [Uncached!Next]_(Uncached!vars)
<1> DEFINE Invisible == UNCHANGED <<mem, alive, seen, platform, request, answer>>
<1>0. ASSUME Invisible PROVE [Uncached!Next]_(Uncached!vars)
  BY <1>0 DEF Usable, Uncached!vars
<1>1. CASE \E m \in d_vmaps : Hit(m)
  <2> PICK m \in d_vmaps : Hit(m)
    BY <1>1
  <2>1. request \in Request /\ m \in VMapsOf(request)
    BY DEF Hit, Cacheable, IInv, CallInv
  <2>2. Genuine(d_cache[m.addr], m.addr) /\ Len(d_cache[m.addr]) = m.len /\ Usable
    BY DEF Hit, exists, IInv, CacheInv
  <2>3. Uncached!Reply
    BY <2>1, <2>2, SliceIsGenuine, ReplyRefines DEF Hit
  <2> QED BY <2>3 DEF Uncached!Next
<1>2. CASE FillEnds
  <2>1. /\ request \in Request /\ chunk \in VMapsOf(request)
        /\ Genuine(buf, chunk.addr) /\ Len(buf) = chunk.len
    BY <1>2 DEF FillEnds, IInv, CallInv
  <2>2. chunk.len \in Nat \ {0}
    BY <2>1, Areas DEF VMapsOf, Area
  <2>3. Usable
    BY <1>2, <2>2 DEF FillEnds, IInv, CallInv
  <2>4. Uncached!Reply
    BY <1>2, <2>1, <2>3, SliceIsGenuine, ReplyRefines DEF FillEnds
  <2> QED BY <2>4 DEF Uncached!Next
<1>3. CASE DirectEnds
  <2>1. /\ request \in Request /\ Genuine(buf, request.addr) /\ Len(buf) = request.len
    BY <1>3 DEF DirectEnds, IInv, CallInv
  <2>2. request.len \in Nat \ {0}
    BY <2>1, Areas DEF Area
  <2>3. Usable
    BY <1>3, <2>1, <2>2 DEF DirectEnds, IInv, CallInv
  <2>4. buf \in [1 .. request.len -> Val]
    BY <2>1 DEF Genuine
  <2>5. Uncached!Reply
    BY <1>3, <2>1, <2>3, <2>4, ReplyRefines DEF DirectEnds, Genuine
  <2> QED BY <2>5 DEF Uncached!Next
<1>4. CASE ReadvFails
  <2>1. ~Usable \/ ~alive
    BY <1>4 DEF ReadvFails, Reading, IInv, PlatformInv, Usable
  <2>2. Uncached!Fail
    BY <1>4, <2>1, Serving
       DEF ReadvFails, Reading, Return, Uncached!Fail, Uncached!Thrown, Usable, targetVars
  <2> QED BY <2>2 DEF Uncached!Next
<1>5. CASE OpenMemFile
  <2>1. CASE platform.opens /\ alive
    <3>1. Invisible
      BY <1>5, <2>1 DEF OpenMemFile, callVars, targetVars
    <3> QED BY <3>1, <1>0
  <2>2. CASE ~(platform.opens /\ alive)
    <3>1. ~Usable \/ ~alive
      BY <1>5, <2>2 DEF OpenMemFile, Reading, IInv, PlatformInv, Usable
    <3>2. Uncached!Fail
      BY <1>5, <2>2, <3>1, Serving
         DEF OpenMemFile, Reading, Return, Uncached!Fail, Uncached!Thrown, Usable, targetVars
    <3> QED BY <3>2 DEF Uncached!Next
  <2> QED BY <2>1, <2>2
<1>6. CASE ReadFaults
  <2>1. CASE pc = "fill"
    <3>1. Invisible
      BY <1>6, <2>1 DEF ReadFaults, InvalidRemoteAddress, targetVars
    <3> QED BY <3>1, <1>0
  <2>2. CASE pc = "direct"
    <3>1. chunk.addr + Len(buf) \in Pages(request) /\ chunk.addr + Len(buf) \in Addr
      BY <1>6, <2>2, NextPage DEF ReadFaults, IInv, CallInv
    <3>2. Unmapped \in seen[chunk.addr + Len(buf)]
      BY <1>6, <3>1 DEF ReadFaults, IInv, TargetInv
    <3>3. Usable
      BY <1>6, ReadsUsable DEF ReadFaults
    <3>4. Uncached!Refuse
      BY <1>6, <2>2, <3>1, <3>2, <3>3, Serving
         DEF ReadFaults, InvalidRemoteAddress, Return, Uncached!Refuse, Uncached!Thrown,
             Uncached!Pages, Pages, Usable, targetVars
    <3> QED BY <3>4 DEF Uncached!Next
  <2> QED BY <1>6, <2>1, <2>2 DEF ReadFaults, Reading
<1>7. CASE (\E m \in d_vmaps : Miss(m)) \/ Bypass \/ ReadvMissing \/ ReadPage
  <2>1. Invisible
    BY <1>7 DEF Miss, Bypass, ReadvMissing, ReadPage, targetVars
  <2> QED BY <2>1, <1>0
<1> QED BY <1>1, <1>2, <1>3, <1>4, <1>5, <1>6, <1>7 DEF Serve

\* Every step of the manager is one of the uncached memory, or none.
LEMMA NextRefines ==
  ASSUME IInv, [Next]_vars
  PROVE  [Uncached!Next]_(Uncached!vars)
<1>1. CASE TargetWrites \/ TargetDies
  <2>1. Uncached!TargetSteps
    BY <1>1 DEF TargetWrites, TargetDies, Remembers, IInv, TargetInv, callVars, Usable,
                Uncached!TargetSteps
  <2> QED BY <2>1 DEF Uncached!Next
<1>2. CASE \E r \in Request : CopyMemoryFromProcess(r)
  <2>1. Uncached!Ask
    BY <1>2 DEF CopyMemoryFromProcess, IInv, CallInv, targetVars, Usable, Request, Pages,
                Uncached!Ask, Uncached!Request, Uncached!Pages
  <2> QED BY <2>1 DEF Uncached!Next
<1>3. CASE Serve
  BY <1>3, ServeRefines
<1>4. CASE UNCHANGED vars
  BY <1>4 DEF vars, targetVars, callVars, Usable, Uncached!vars
<1> QED BY <1>1, <1>2, <1>3, <1>4 DEF Next

\* The manager implements the uncached memory: a reader cannot tell a cached
\* answer from a fresh read, for any maps, lengths, capacity and platform, and
\* whether or not the target runs (mem.cpp:185-283).
THEOREM Refinement == Spec => ImplementsRemoteMemory
<1>1. IInv /\ [Next]_vars => [Uncached!Next]_(Uncached!vars)
  BY NextRefines
<1> QED BY <1>1, InitRefines, Invariance, PTL
        DEF Spec, ImplementsRemoteMemory, Uncached!Spec

-----------------------------------------------------------------------------
(* The sizes of a list of the cache add up.                                 *)

Node == [key : Nat, size : Nat]

\* f[n] is the sum of the first n sizes.
AddsUp(f, list) ==
  /\ f[0] = 0
  /\ \A n \in 1 .. Len(list) : f[n] = f[n - 1] + list[n].size

Sums(f, list) == f \in [0 .. Len(list) -> Nat] /\ AddsUp(f, list)

\* A set of naturals has a least element.
LEMMA LeastNatural ==
  ASSUME NEW T, T \subseteq Nat, T # {}
  PROVE  \E m \in T : \A n \in T : m <= n
<1>1. PICK m \in T : \A n \in T : <<n, m>> \notin OpToRel(<, Nat)
  BY NatLessThanWellFounded, WFMin
<1>2. \A n \in T : ~(n < m)
  BY <1>1 DEF OpToRel
<1> QED BY <1>2

\* Sums exist: those of a prefix extend to the next node.
LEMMA SumsExist ==
  ASSUME NEW list \in Seq(Node)
  PROVE  \E f : Sums(f, list)
<1> DEFINE Prefix(n, f) ==
             /\ f \in [0 .. n -> Nat]
             /\ f[0] = 0
             /\ \A k \in 1 .. n : f[k] = f[k - 1] + list[k].size
           Without_ == {n \in Nat : n <= Len(list) /\ ~ \E f : Prefix(n, f)}
<1>1. Without_ = {}
  <2> SUFFICES ASSUME Without_ # {} PROVE FALSE
    OBVIOUS
  <2>1. PICK m \in Without_ : \A n \in Without_ : m <= n
    <3>1. Without_ \subseteq Nat
      OBVIOUS
    <3> HIDE DEF Without_
    <3> QED BY <3>1, LeastNatural
  <2>2. m # 0
    <3>1. Prefix(0, [k \in 0 .. 0 |-> 0])
      OBVIOUS
    <3> QED BY <2>1, <3>1
  <2>3. m \in 1 .. Len(list) /\ m - 1 \in Nat /\ m - 1 <= Len(list) /\ ~(m <= m - 1)
    BY <2>1, <2>2
  <2>4. PICK f : Prefix(m - 1, f)
    <3>1. m - 1 \notin Without_
      <4> HIDE DEF Without_
      <4> QED BY <2>1, <2>3
    <3> QED BY <2>3, <3>1
  <2>5. list[m].size \in Nat
    <3>1. list[m] \in Node
      BY <2>3
    <3> QED BY <3>1 DEF Node
  <2> DEFINE g == [k \in 0 .. m |-> IF k = m THEN f[m - 1] + list[m].size ELSE f[k]]
  <2>6. Prefix(m, g)
    <3>1. g \in [0 .. m -> Nat] /\ g[0] = 0
      BY <2>2, <2>3, <2>4, <2>5
    <3>2. ASSUME NEW k \in 1 .. m PROVE g[k] = g[k - 1] + list[k].size
      <4>1. k - 1 \in 0 .. m /\ k - 1 # m
        OBVIOUS
      <4>2. CASE k = m
        BY <4>1, <4>2
      <4>3. CASE k # m
        BY <2>4, <4>1, <4>3
      <4> QED BY <4>2, <4>3
    <3> QED BY <3>1, <3>2
  <2> QED BY <2>1, <2>6
<1>2. Len(list) \notin Without_
  BY <1>1
<1> QED BY <1>2 DEF Sums, AddsUp

\* And there is only one way to add up.
LEMMA SumsAgree ==
  ASSUME NEW list \in Seq(Node), NEW f, NEW g, AddsUp(f, list), AddsUp(g, list)
  PROVE  \A n \in 0 .. Len(list) : f[n] = g[n]
<1> USE DEF AddsUp
<1> DEFINE Differ == {n \in Nat : n <= Len(list) /\ f[n] # g[n]}
<1>1. Differ = {}
  <2> SUFFICES ASSUME Differ # {} PROVE FALSE
    OBVIOUS
  <2>1. PICK m \in Differ : \A n \in Differ : m <= n
    <3>1. Differ \subseteq Nat
      OBVIOUS
    <3> HIDE DEF Differ
    <3> QED BY <3>1, LeastNatural
  <2>2. m \in 1 .. Len(list)
    BY <2>1
  <2>3. m - 1 \in Nat /\ m - 1 \notin Differ
    BY <2>1, <2>2
  <2>4. f[m - 1] = g[m - 1]
    BY <2>2, <2>3
  <2> QED BY <2>1, <2>2, <2>4
<1> QED BY <1>1

\* What SizeOf computes is the last of the sums.
LEMMA SizeIsSum ==
  ASSUME NEW list \in Seq(Node), NEW f, Sums(f, list)
  PROVE  SizeOf(list) = f[Len(list)] /\ SizeOf(list) \in Nat
<1> DEFINE Adds(h) == h = [n \in 0 .. Len(list) |-> IF n = 0 THEN 0 ELSE h[n - 1] + list[n].size]
           sum == CHOOSE h : Adds(h)
<1>1. Adds(f)
  <2>1. f = [n \in 0 .. Len(list) |-> f[n]]
    BY DEF Sums, AddsUp
  <2>2. \A n \in 0 .. Len(list) : f[n] = IF n = 0 THEN 0 ELSE f[n - 1] + list[n].size
    BY DEF Sums, AddsUp
  <2> QED BY <2>1, <2>2
<1>2. Adds(sum)
  BY <1>1
<1>3. SizeOf(list) = sum[Len(list)]
  BY DEF SizeOf
<1>4. AddsUp(sum, list)
  <2> HIDE DEF sum
  <2>1. Len(list) \in Nat
    OBVIOUS
  <2> QED BY <1>2, <2>1 DEF AddsUp
<1> HIDE DEF sum
<1>5. sum[Len(list)] = f[Len(list)]
  <2>1. \A n \in 0 .. Len(list) : f[n] = sum[n]
    BY <1>4, SumsAgree DEF Sums
  <2>2. Len(list) \in 0 .. Len(list)
    OBVIOUS
  <2> QED BY <2>1, <2>2
<1> QED BY <1>3, <1>5 DEF Sums, AddsUp

\* The size of two lists in a row is the sum of theirs.
LEMMA SizeOfConcat ==
  ASSUME NEW s \in Seq(Node), NEW r \in Seq(Node)
  PROVE  SizeOf(s \o r) = SizeOf(s) + SizeOf(r)
<1>1. PICK f : Sums(f, s)
  BY SumsExist
<1>2. PICK g : Sums(g, r)
  BY SumsExist
<1>3. s \o r \in Seq(Node) /\ Len(s \o r) = Len(s) + Len(r) /\ Len(s) \in Nat /\ Len(r) \in Nat
  BY ConcatProperties
<1> DEFINE h == [n \in 0 .. Len(s) + Len(r) |->
                   IF n <= Len(s) THEN f[n] ELSE f[Len(s)] + g[n - Len(s)]]
<1>4. Sums(h, s \o r)
  <2>1. h \in [0 .. Len(s \o r) -> Nat] /\ h[0] = 0
    <3>1. \A n \in 0 .. Len(s) : f[n] \in Nat
      BY <1>1 DEF Sums, AddsUp
    <3>2. \A n \in 0 .. Len(r) : g[n] \in Nat
      BY <1>2 DEF Sums, AddsUp
    <3>3. ASSUME NEW n \in 0 .. Len(s) + Len(r)
          PROVE  (IF n <= Len(s) THEN f[n] ELSE f[Len(s)] + g[n - Len(s)]) \in Nat
      <4>1. CASE n <= Len(s)
        BY <1>3, <3>1, <4>1
      <4>2. CASE n > Len(s)
        <5>1. n - Len(s) \in 0 .. Len(r) /\ Len(s) \in 0 .. Len(s)
          BY <1>3, <4>2
        <5> QED BY <1>3, <3>1, <3>2, <4>2, <5>1
      <4> QED BY <1>3, <4>1, <4>2
    <3>4. f[0] = 0
      BY <1>1 DEF Sums, AddsUp
    <3> QED BY <1>3, <3>3, <3>4
  <2>2. ASSUME NEW n \in 1 .. Len(s \o r) PROVE h[n] = h[n - 1] + (s \o r)[n].size
    <3>1. (s \o r)[n] = IF n <= Len(s) THEN s[n] ELSE r[n - Len(s)]
      BY <1>3, ConcatProperties
    <3>2. n \in Nat /\ n - 1 \in 0 .. Len(s) + Len(r) /\ n \in 0 .. Len(s) + Len(r)
      BY <1>3
    <3>3. CASE n <= Len(s)
      BY <1>1, <1>3, <3>1, <3>2, <3>3 DEF Sums, AddsUp
    <3>4. CASE n > Len(s)
      <4>1. n - Len(s) \in 1 .. Len(r) /\ (n - 1) - Len(s) = (n - Len(s)) - 1
        BY <1>3, <3>4
      <4>2. g[n - Len(s)] = g[(n - 1) - Len(s)] + r[n - Len(s)].size
        BY <1>2, <4>1 DEF Sums, AddsUp
      <4>3. h[n - 1] = f[Len(s)] + g[(n - 1) - Len(s)]
        <5>1. CASE n - 1 = Len(s)
          <6>1. g[(n - 1) - Len(s)] = 0 /\ f[Len(s)] \in Nat
            BY <1>1, <1>2, <1>3, <5>1 DEF Sums, AddsUp
          <6> QED BY <1>3, <3>2, <5>1, <6>1
        <5>2. CASE n - 1 > Len(s)
          BY <1>3, <3>2, <5>2
        <5> QED BY <1>3, <3>4, <5>1, <5>2
      <4>4. f[Len(s)] \in Nat /\ g[(n - 1) - Len(s)] \in Nat /\ r[n - Len(s)].size \in Nat
        <5>1. f[Len(s)] \in Nat /\ g[(n - 1) - Len(s)] \in Nat
          <6>1. (n - 1) - Len(s) \in 0 .. Len(r) /\ Len(s) \in 0 .. Len(s)
            BY <1>3, <3>4, <4>1
          <6> QED BY <1>1, <1>2, <6>1 DEF Sums
        <5>2. r[n - Len(s)] \in Node
          BY <4>1
        <5> QED BY <5>1, <5>2 DEF Node
      <4>5. h[n] = f[Len(s)] + g[n - Len(s)] /\ (s \o r)[n] = r[n - Len(s)]
        BY <1>3, <3>1, <3>2, <3>4
      <4> HIDE DEF h
      <4> QED BY <4>2, <4>3, <4>4, <4>5
    <3> QED BY <1>3, <3>2, <3>3, <3>4
  <2> QED BY <2>1, <2>2 DEF Sums, AddsUp
<1>5. h[Len(s) + Len(r)] = f[Len(s)] + g[Len(r)]
  <2>1. CASE Len(r) = 0
    BY <1>1, <1>2, <1>3, <2>1 DEF Sums, AddsUp
  <2>2. CASE Len(r) # 0
    BY <1>3, <2>2
  <2> QED BY <2>1, <2>2
<1> HIDE DEF h
<1> QED BY <1>1, <1>2, <1>3, <1>4, <1>5, SizeIsSum

LEMMA SizeOfOne ==
  ASSUME NEW node \in Node
  PROVE  SizeOf(<<node>>) = node.size /\ SizeOf(<<>>) = 0 /\ <<node>> \in Seq(Node)
<1>1. <<node>> \in Seq(Node) /\ <<>> \in Seq(Node) /\ Len(<<node>>) = 1 /\ Len(<<>>) = 0
  OBVIOUS
<1>2. Sums([n \in 0 .. 1 |-> IF n = 0 THEN 0 ELSE node.size], <<node>>)
  BY <1>1 DEF Sums, AddsUp, Node
<1>3. Sums([n \in 0 .. 0 |-> 0], <<>>)
  BY <1>1 DEF Sums, AddsUp
<1> QED BY <1>1, <1>2, <1>3, SizeIsSum

-----------------------------------------------------------------------------
(* The order of the list.                                                   *)

\* What is left of a list without its first nodes.
LEMMA RestOfList ==
  ASSUME NEW S, NEW s \in Seq(S), NEW n \in 0 .. Len(s)
  PROVE  /\ SubSeq(s, n + 1, Len(s)) \in Seq(S)
         /\ Len(SubSeq(s, n + 1, Len(s))) = Len(s) - n
         /\ \A j \in 1 .. Len(s) - n : SubSeq(s, n + 1, Len(s))[j] = s[n + j]
<1> DEFINE b == SubSeq(s, n + 1, Len(s))
<1>1. Len(s) \in Nat /\ n \in Nat /\ n <= Len(s) /\ \A j \in n + 1 .. Len(s) : s[j] \in S
  OBVIOUS
<1>2. /\ b \in Seq(S) /\ Len(b) = IF n + 1 <= Len(s) THEN Len(s) - (n + 1) + 1 ELSE 0
      /\ \A j \in 1 .. Len(s) - (n + 1) + 1 : b[j] = s[(n + 1) + j - 1]
  BY <1>1, SubSeqProperties
<1> HIDE DEF b
<1>3. Len(b) = Len(s) - n
  BY <1>1, <1>2
<1>4. ASSUME NEW j \in 1 .. Len(s) - n PROVE b[j] = s[n + j]
  <2>1. j \in 1 .. Len(s) - (n + 1) + 1 /\ (n + 1) + j - 1 = n + j
    BY <1>1
  <2> QED BY <1>2, <2>1
<1> QED BY <1>2, <1>3, <1>4 DEF b

Moved(s, i) == <<s[i]>> \o RemoveAt(s, i)

\* To move what is at some place to the front shifts what was before it.
LEMMA MovedToFront ==
  ASSUME NEW S, NEW s \in Seq(S), NEW i \in 1 .. Len(s)
  PROVE  /\ Moved(s, i) \in Seq(S)
         /\ Len(Moved(s, i)) = Len(s)
         /\ \A j \in 1 .. Len(s) :
              Moved(s, i)[j] = IF j = 1 THEN s[i] ELSE IF j <= i THEN s[j - 1] ELSE s[j]
<1> DEFINE a == SubSeq(s, 1, i - 1)
           b == SubSeq(s, i + 1, Len(s))
<1>1. Len(s) \in Nat /\ i \in Nat /\ 1 <= i /\ i <= Len(s) /\ \A j \in 1 .. Len(s) : s[j] \in S
  OBVIOUS
<1>2. /\ a \in Seq(S) /\ Len(a) = i - 1
      /\ \A j \in 1 .. i - 1 : a[j] = s[j]
  BY <1>1, SubSeqProperties
<1>3. /\ b \in Seq(S) /\ Len(b) = Len(s) - i
      /\ \A j \in 1 .. Len(s) - i : b[j] = s[j + i]
  <2>1. i \in 0 .. Len(s)
    BY <1>1
  <2>2. \A j \in 1 .. Len(s) - i : i + j = j + i
    BY <1>1
  <2> QED BY <2>1, <2>2, RestOfList
<1>4. RemoveAt(s, i) = a \o b
  BY DEF RemoveAt
<1> HIDE DEF a, b
<1>5. /\ a \o b \in Seq(S) /\ Len(a \o b) = Len(s) - 1
      /\ \A j \in 1 .. Len(s) - 1 : (a \o b)[j] = IF j <= i - 1 THEN s[j] ELSE s[j + 1]
  <2>1. /\ a \o b \in Seq(S) /\ Len(a \o b) = Len(a) + Len(b)
        /\ \A j \in 1 .. Len(a) + Len(b) :
             (a \o b)[j] = IF j <= Len(a) THEN a[j] ELSE b[j - Len(a)]
    BY <1>2, <1>3, ConcatProperties
  <2>2. ASSUME NEW j \in 1 .. Len(s) - 1
        PROVE  (a \o b)[j] = IF j <= i - 1 THEN s[j] ELSE s[j + 1]
    <3>1. CASE j <= i - 1
      BY <1>1, <1>2, <1>3, <2>1, <3>1
    <3>2. CASE j > i - 1
      <4>1. j - (i - 1) \in 1 .. Len(s) - i /\ (j - (i - 1)) + i = j + 1
        BY <1>1, <3>2
      <4>2. j \in 1 .. Len(a) + Len(b) /\ ~(j <= Len(a))
        BY <1>1, <1>2, <1>3, <3>2
      <4>3. (a \o b)[j] = b[j - (i - 1)]
        BY <1>2, <2>1, <4>2
      <4>4. b[j - (i - 1)] = s[j + 1]
        BY <1>3, <4>1
      <4> QED BY <3>2, <4>3, <4>4
    <3>3. j <= i - 1 \/ j > i - 1
      BY <1>1
    <3> QED BY <3>1, <3>2, <3>3
  <2> QED BY <1>1, <1>2, <1>3, <2>1, <2>2
<1>6. <<s[i]>> \in Seq(S) /\ Len(<<s[i]>>) = 1 /\ <<s[i]>>[1] = s[i]
  BY <1>1
<1>7. /\ <<s[i]>> \o (a \o b) \in Seq(S) /\ Len(<<s[i]>> \o (a \o b)) = 1 + (Len(s) - 1)
      /\ \A j \in 1 .. 1 + (Len(s) - 1) :
           (<<s[i]>> \o (a \o b))[j] = IF j <= 1 THEN <<s[i]>>[j] ELSE (a \o b)[j - 1]
  BY <1>5, <1>6, ConcatProperties
<1>8. ASSUME NEW j \in 1 .. Len(s)
      PROVE  (<<s[i]>> \o (a \o b))[j] = IF j = 1 THEN s[i] ELSE IF j <= i THEN s[j - 1] ELSE s[j]
  <2>1. CASE j = 1
    BY <1>1, <1>6, <1>7, <2>1
  <2>2. CASE j # 1
    <3>1. j - 1 \in 1 .. Len(s) - 1 /\ (j - 1) + 1 = j /\ (j - 1 <= i - 1 <=> j <= i)
      BY <1>1, <2>2
    <3>2. (<<s[i]>> \o (a \o b))[j] = (a \o b)[j - 1]
      BY <1>1, <1>7, <2>2
    <3>3. (a \o b)[j - 1] = IF j <= i THEN s[j - 1] ELSE s[j]
      BY <1>5, <3>1
    <3> QED BY <2>2, <3>2, <3>3
  <2> QED BY <2>1, <2>2
<1>9. Moved(s, i) = <<s[i]>> \o (a \o b)
  BY <1>4 DEF Moved
<1> QED BY <1>1, <1>7, <1>8, <1>9

\* Nothing is added to a list, or lost of it, when a node moves to its front.
LEMMA MovedSize ==
  ASSUME NEW list \in Seq(Node), NEW i \in 1 .. Len(list)
  PROVE  SizeOf(Moved(list, i)) = SizeOf(list)
<1> DEFINE a == SubSeq(list, 1, i - 1)
           b == SubSeq(list, i + 1, Len(list))
<1>1. list[i] \in Node /\ Len(list) \in Nat
  OBVIOUS
<1>2. a \in Seq(Node) /\ b \in Seq(Node)
  <2>1. \A j \in 1 .. Len(list) : list[j] \in Node
    OBVIOUS
  <2> QED BY <1>1, <2>1, SubSeqProperties
<1>3. <<list[i]>> \in Seq(Node) /\ <<list[i]>> \o b \in Seq(Node) /\ a \o b \in Seq(Node)
  BY <1>1, <1>2, SizeOfOne, ConcatProperties
<1>4. list = a \o (<<list[i]>> \o b)
  <2>1. SubSeq(list, i, Len(list)) = <<list[i]>> \o b
    BY <1>1, SubSeqRecursiveFirst
  <2>2. /\ 1 \in 1 .. Len(list) + 1 /\ i - 1 \in 1 - 1 .. Len(list)
        /\ Len(list) \in i - 1 .. Len(list) /\ (i - 1) + 1 = i
    BY <1>1
  <2>3. a \o SubSeq(list, i, Len(list)) = SubSeq(list, 1, Len(list))
    BY <2>2, ConcatAdjacentSubSeq
  <2> QED BY <2>1, <2>3, SubSeqFull
<1>5. RemoveAt(list, i) = a \o b
  BY DEF RemoveAt
<1> HIDE DEF a, b
<1>6. SizeOf(a) \in Nat /\ SizeOf(b) \in Nat /\ SizeOf(<<list[i]>>) \in Nat
  BY <1>2, <1>3, SumsExist, SizeIsSum
<1>7. SizeOf(list) = SizeOf(a) + (SizeOf(<<list[i]>>) + SizeOf(b))
  BY <1>2, <1>3, <1>4, SizeOfConcat
<1>8. SizeOf(<<list[i]>> \o (a \o b)) = SizeOf(<<list[i]>>) + (SizeOf(a) + SizeOf(b))
  BY <1>2, <1>3, SizeOfConcat
<1> QED BY <1>5, <1>6, <1>7, <1>8 DEF Moved

-----------------------------------------------------------------------------
(* The inductive invariant of the cache.  It needs one of its callers: a map *)
(* is only put under a key that is not there, and only if it fits.           *)

CacheOrdered ==
  /\ d_cache_list \in Seq(Node)
  /\ recent \in Seq(Nat)
  /\ \A i, j \in 1 .. Len(recent) : recent[i] = recent[j] => i = j
  /\ Len(d_cache_list) <= Len(recent)
  /\ \A i \in 1 .. Len(d_cache_list) : d_cache_list[i].key = recent[i]
  /\ Keys(d_cache_list) = DOMAIN d_cache
  /\ \A i \in 1 .. Len(d_cache_list) : d_cache_list[i].size = Len(d_cache[d_cache_list[i].key])
  /\ d_size = SizeOf(d_cache_list)
  /\ d_size <= CACHE_CAPACITY

Filling == pc = "fill" => chunk.addr \notin DOMAIN d_cache /\ can_fit(chunk.len)

\* There is nothing in a new cache.
LEMMA InitOrdered == Init => CacheOrdered /\ Filling
<1> SUFFICES ASSUME Init PROVE CacheOrdered /\ Filling
  OBVIOUS
<1>1. /\ d_cache_list \in Seq(Node) /\ recent \in Seq(Nat)
      /\ Len(d_cache_list) = 0 /\ Len(recent) = 0
  BY DEF Init, CacheInit
<1>2. Keys(d_cache_list) = {} /\ DOMAIN d_cache = {}
  BY DEF Init, CacheInit, Keys
<1>3. [key |-> 0, size |-> 0] \in Node
  BY DEF Node
<1>4. SizeOf(d_cache_list) = 0
  BY <1>3, SizeOfOne DEF Init, CacheInit
<1> QED BY <1>1, <1>2, <1>4, CapacityAssumption DEF Init, CacheInit, CacheOrdered, Filling

\* A key that was never used comes first; one that was moves there from its place.
LEMMA UsedIsOrdered ==
  ASSUME recent \in Seq(Nat), \A i, j \in 1 .. Len(recent) : recent[i] = recent[j] => i = j,
         NEW key \in Nat
  PROVE  /\ Used(key) \in Seq(Nat)
         /\ \A i, j \in 1 .. Len(Used(key)) : Used(key)[i] = Used(key)[j] => i = j
         /\ \A p \in 1 .. Len(recent) : recent[p] = key =>
              /\ Used(key) = Moved(recent, p)
              /\ Len(Used(key)) = Len(recent)
         /\ (~ \E p \in 1 .. Len(recent) : recent[p] = key) =>
              Len(Used(key)) = Len(recent) + 1
         /\ Used(key)[1] = key
         /\ \A j \in 1 .. Len(recent) :
              (\A i \in 1 .. j : recent[i] # key) => Used(key)[j + 1] = recent[j]
<1>0. Len(recent) \in Nat /\ DOMAIN recent = 1 .. Len(recent)
  OBVIOUS
<1>1. CASE \E p \in 1 .. Len(recent) : recent[p] = key
  <2>1. PICK p \in 1 .. Len(recent) : recent[p] = key
    BY <1>1
  <2>2. (CHOOSE i \in DOMAIN recent : recent[i] = key) = p
    BY <1>0, <2>1
  <2>3. Used(key) = Moved(recent, p)
    BY <1>0, <2>1, <2>2 DEF Used, Moved
  <2>4. /\ Used(key) \in Seq(Nat) /\ Len(Used(key)) = Len(recent)
        /\ \A j \in 1 .. Len(recent) :
             Used(key)[j] = IF j = 1 THEN recent[p]
                            ELSE IF j <= p THEN recent[j - 1] ELSE recent[j]
    <3>1. /\ Moved(recent, p) \in Seq(Nat) /\ Len(Moved(recent, p)) = Len(recent)
          /\ \A j \in 1 .. Len(recent) :
               Moved(recent, p)[j] = IF j = 1 THEN recent[p]
                                     ELSE IF j <= p THEN recent[j - 1] ELSE recent[j]
      BY MovedToFront, Zenon
    <3> QED BY <2>3, <3>1
  <2>5. ASSUME NEW i \in 1 .. Len(recent), NEW j \in 1 .. Len(recent), Used(key)[i] = Used(key)[j]
        PROVE  i = j
    <3>1. PICK k \in 1 .. Len(recent) :
            Used(key)[i] = recent[k] /\ k = IF i = 1 THEN p ELSE IF i <= p THEN i - 1 ELSE i
      <4>1. CASE i = 1
        BY <2>4, <4>1
      <4>2. CASE i # 1 /\ i <= p
        <5>1. i - 1 \in 1 .. Len(recent)
          BY <1>0, <4>2
        <5> QED BY <2>4, <4>2, <5>1
      <4>3. CASE i # 1 /\ ~(i <= p)
        BY <2>4, <4>3
      <4> QED BY <4>1, <4>2, <4>3
    <3>2. PICK l \in 1 .. Len(recent) :
            Used(key)[j] = recent[l] /\ l = IF j = 1 THEN p ELSE IF j <= p THEN j - 1 ELSE j
      <4>1. CASE j = 1
        BY <2>4, <4>1
      <4>2. CASE j # 1 /\ j <= p
        <5>1. j - 1 \in 1 .. Len(recent)
          BY <1>0, <4>2
        <5> QED BY <2>4, <4>2, <5>1
      <4>3. CASE j # 1 /\ ~(j <= p)
        BY <2>4, <4>3
      <4> QED BY <4>1, <4>2, <4>3
    <3>3. k = l
      BY <2>5, <3>1, <3>2
    <3> QED BY <1>0, <3>1, <3>2, <3>3
  <2>6. ASSUME NEW j \in 1 .. Len(recent), \A i \in 1 .. j : recent[i] # key
        PROVE  Used(key)[j + 1] = recent[j]
    <3>1. p > j
      BY <1>0, <2>1, <2>6
    <3>2. j + 1 \in 1 .. Len(recent) /\ j + 1 # 1 /\ j + 1 <= p /\ (j + 1) - 1 = j
      BY <1>0, <3>1
    <3> QED BY <2>4, <3>2
  <2>7. Used(key)[1] = key
    <3>1. 1 \in 1 .. Len(recent)
      BY <1>0, <2>1
    <3> QED BY <2>1, <2>4, <3>1
  <2>8. \A q \in 1 .. Len(recent) : recent[q] = key => q = p
    BY <2>1
  <2> QED BY <1>1, <2>3, <2>4, <2>5, <2>6, <2>7, <2>8
<1>2. CASE ~ \E p \in 1 .. Len(recent) : recent[p] = key
  <2>1. Used(key) = <<key>> \o recent
    BY <1>0, <1>2 DEF Used
  <2>2. <<key>> \in Seq(Nat) /\ Len(<<key>>) = 1 /\ <<key>>[1] = key
    OBVIOUS
  <2>3. /\ Used(key) \in Seq(Nat) /\ Len(Used(key)) = 1 + Len(recent)
        /\ \A j \in 1 .. 1 + Len(recent) :
             Used(key)[j] = IF j <= 1 THEN <<key>>[j] ELSE recent[j - 1]
    BY <2>1, <2>2, ConcatProperties
  <2>4. Used(key)[1] = key
    BY <1>0, <2>2, <2>3
  <2>5. \A j \in 1 .. Len(recent) : Used(key)[j + 1] = recent[j]
    <3> TAKE j \in 1 .. Len(recent)
    <3>1. j + 1 \in 1 .. 1 + Len(recent) /\ ~(j + 1 <= 1) /\ (j + 1) - 1 = j
      BY <1>0
    <3> QED BY <2>3, <3>1
  <2>6. \A j \in 1 .. Len(Used(key)) : j # 1 => j - 1 \in 1 .. Len(recent) /\ Used(key)[j] = recent[j - 1]
    BY <1>0, <2>3
  <2>7. ASSUME NEW i \in 1 .. Len(Used(key)), NEW j \in 1 .. Len(Used(key)),
               Used(key)[i] = Used(key)[j]
        PROVE  i = j
    <3>1. CASE i = 1 /\ j = 1
      BY <3>1
    <3>2. CASE (i = 1 /\ j # 1) \/ (i # 1 /\ j = 1)
      BY <1>2, <2>4, <2>6, <2>7, <3>2
    <3>3. CASE i # 1 /\ j # 1
      <4>1. i - 1 = j - 1
        BY <2>6, <2>7, <3>3
      <4> QED BY <1>0, <2>3, <4>1
    <3> QED BY <3>1, <3>2, <3>3
  <2>8. Len(Used(key)) = Len(recent) + 1
    BY <1>0, <2>3
  <2> QED BY <1>2, <2>3, <2>4, <2>5, <2>7, <2>8
<1> QED BY <1>1, <1>2

\* A hit moves the node of the map and its key to the front of both lists.
LEMMA GetOrdered ==
  ASSUME CacheOrdered, NEW key \in Nat, Get(key)
  PROVE  CacheOrdered'
<1>1. PICK i \in 1 .. Len(d_cache_list) : d_cache_list[i].key = key
  <2>1. key \in Keys(d_cache_list)
    BY DEF Get, exists, CacheOrdered
  <2>2. d_cache_list \in Seq(Node)
    BY DEF CacheOrdered
  <2> QED BY <2>1, <2>2 DEF Keys
<1>2. /\ Len(d_cache_list) \in Nat /\ DOMAIN d_cache_list = 1 .. Len(d_cache_list)
      /\ Len(recent) \in Nat /\ i \in 1 .. Len(recent) /\ recent[i] = key
  BY <1>1 DEF CacheOrdered
<1>3. Place(d_cache_list, key) = i
  <2>1. \A j \in 1 .. Len(d_cache_list) : d_cache_list[j].key = key => j = i
    BY <1>1, <1>2 DEF CacheOrdered
  <2> QED BY <1>1, <1>2, <2>1 DEF Place
<1>4. d_cache_list' = Moved(d_cache_list, i)
  <2>1. key \in Keys(d_cache_list)
    BY <1>1, <1>2 DEF Keys
  <2> QED BY <1>3, <2>1 DEF Get, Without, Moved
<1>5. /\ d_cache_list' \in Seq(Node) /\ Len(d_cache_list') = Len(d_cache_list)
      /\ \A j \in 1 .. Len(d_cache_list) :
           d_cache_list'[j] = IF j = 1 THEN d_cache_list[i]
                              ELSE IF j <= i THEN d_cache_list[j - 1] ELSE d_cache_list[j]
  <2>1. d_cache_list \in Seq(Node)
    BY DEF CacheOrdered
  <2>2. /\ Moved(d_cache_list, i) \in Seq(Node) /\ Len(Moved(d_cache_list, i)) = Len(d_cache_list)
        /\ \A j \in 1 .. Len(d_cache_list) :
             Moved(d_cache_list, i)[j]
               = IF j = 1 THEN d_cache_list[i]
                 ELSE IF j <= i THEN d_cache_list[j - 1] ELSE d_cache_list[j]
    BY <2>1, MovedToFront, Zenon
  <2> QED BY <1>4, <2>2
<1>6. recent' = Used(key) /\ recent' = Moved(recent, i)
  BY <1>2, UsedIsOrdered DEF Get, CacheOrdered
<1>7. /\ recent' \in Seq(Nat) /\ Len(recent') = Len(recent)
      /\ \A j \in 1 .. Len(recent) :
           recent'[j] = IF j = 1 THEN recent[i] ELSE IF j <= i THEN recent[j - 1] ELSE recent[j]
  <2>1. recent \in Seq(Nat)
    BY DEF CacheOrdered
  <2>2. /\ Moved(recent, i) \in Seq(Nat) /\ Len(Moved(recent, i)) = Len(recent)
        /\ \A j \in 1 .. Len(recent) :
             Moved(recent, i)[j] = IF j = 1 THEN recent[i]
                                   ELSE IF j <= i THEN recent[j - 1] ELSE recent[j]
    BY <1>2, <2>1, MovedToFront, Zenon
  <2> QED BY <1>6, <2>2
<1>8. \A j, k \in 1 .. Len(recent') : recent'[j] = recent'[k] => j = k
  <2>1. \A j, k \in 1 .. Len(Used(key)) : Used(key)[j] = Used(key)[k] => j = k
    BY UsedIsOrdered DEF CacheOrdered
  <2> QED BY <1>6, <2>1
<1>9. \A j \in 1 .. Len(d_cache_list) : d_cache_list'[j].key = recent'[j]
  <2> TAKE j \in 1 .. Len(d_cache_list)
  <2>1. j \in 1 .. Len(recent) /\ (j # 1 => j - 1 \in 1 .. Len(d_cache_list))
    BY <1>2 DEF CacheOrdered
  <2>2. \A k \in 1 .. Len(d_cache_list) : d_cache_list[k].key = recent[k]
    BY DEF CacheOrdered
  <2>3. CASE j = 1
    BY <1>5, <1>7, <2>1, <2>2, <2>3
  <2>4. CASE j # 1 /\ j <= i
    BY <1>5, <1>7, <2>1, <2>2, <2>4
  <2>5. CASE j # 1 /\ ~(j <= i)
    BY <1>5, <1>7, <2>1, <2>2, <2>5
  <2> QED BY <2>3, <2>4, <2>5
<1>10. /\ \A j \in 1 .. Len(d_cache_list) : \E k \in 1 .. Len(d_cache_list) :
             d_cache_list'[j] = d_cache_list[k]
       /\ \A k \in 1 .. Len(d_cache_list) : \E j \in 1 .. Len(d_cache_list) :
             d_cache_list'[j] = d_cache_list[k]
  <2>1. ASSUME NEW j \in 1 .. Len(d_cache_list)
        PROVE  \E k \in 1 .. Len(d_cache_list) : d_cache_list'[j] = d_cache_list[k]
    <3>1. j # 1 => j - 1 \in 1 .. Len(d_cache_list)
      BY <1>2
    <3> QED BY <1>5, <3>1
  <2>2. ASSUME NEW k \in 1 .. Len(d_cache_list)
        PROVE  \E j \in 1 .. Len(d_cache_list) : d_cache_list'[j] = d_cache_list[k]
    <3>1. CASE k = i
      <4>1. 1 \in 1 .. Len(d_cache_list)
        BY <1>2
      <4> QED BY <1>5, <3>1, <4>1
    <3>2. CASE k < i
      <4>1. k + 1 \in 1 .. Len(d_cache_list) /\ k + 1 # 1 /\ k + 1 <= i /\ (k + 1) - 1 = k
        BY <1>2, <3>2
      <4> QED BY <1>5, <4>1
    <3>3. CASE k > i
      <4>1. k # 1 /\ ~(k <= i)
        BY <1>2, <3>3
      <4> QED BY <1>5, <4>1
    <3> QED BY <1>2, <3>1, <3>2, <3>3
  <2> QED BY <2>1, <2>2
<1>11. UNCHANGED <<d_cache, d_size>>
  BY DEF Get
<1>12. Keys(d_cache_list)' = DOMAIN d_cache'
  <2>1. DOMAIN d_cache_list' = 1 .. Len(d_cache_list)
    BY <1>5
  <2>2. {d_cache_list'[j].key : j \in 1 .. Len(d_cache_list)}
          = {d_cache_list[j].key : j \in 1 .. Len(d_cache_list)}
    <3> DEFINE N == 1 .. Len(d_cache_list)
    <3>1. /\ \A j \in N : \E k \in N : d_cache_list'[j].key = d_cache_list[k].key
          /\ \A k \in N : \E j \in N : d_cache_list'[j].key = d_cache_list[k].key
      BY <1>10
    <3> HIDE DEF N
    <3>2. ASSUME NEW k, \E j \in N : k = d_cache_list'[j].key
          PROVE  \E j \in N : k = d_cache_list[j].key
      BY <3>1, <3>2, Zenon
    <3>3. ASSUME NEW k, \E j \in N : k = d_cache_list[j].key
          PROVE  \E j \in N : k = d_cache_list'[j].key
      BY <3>1, <3>3, Zenon
    <3> QED BY <3>2, <3>3 DEF N
  <2> QED BY <1>2, <1>11, <2>1, <2>2 DEF Keys, CacheOrdered
<1>13. \A j \in 1 .. Len(d_cache_list) : d_cache_list'[j].size = Len(d_cache'[d_cache_list'[j].key])
  <2> TAKE j \in 1 .. Len(d_cache_list)
  <2>1. PICK k \in 1 .. Len(d_cache_list) : d_cache_list'[j] = d_cache_list[k]
    BY <1>10
  <2> QED BY <1>11, <2>1 DEF CacheOrdered
<1>14. d_size' = SizeOf(d_cache_list')
  BY <1>4, <1>11, MovedSize DEF CacheOrdered
<1> QED BY <1>5, <1>7, <1>8, <1>9, <1>11, <1>12, <1>13, <1>14 DEF CacheOrdered

\* The eviction loop ends: there is room at the latest when the list is empty.
LEMMA RoomEnds ==
  ASSUME CacheOrdered, NEW size \in Nat, can_fit(size)
  PROVE  /\ 0 \in Room(d_cache_list, size)
         /\ Max(Room(d_cache_list, size)) \in Room(d_cache_list, size)
<1>1. d_cache_list \in Seq(Node) /\ Len(d_cache_list) \in Nat /\ SizeOf(d_cache_list) \in Nat
      /\ d_size = SizeOf(d_cache_list)
  BY SumsExist, SizeIsSum DEF CacheOrdered
<1>2. SubSeq(d_cache_list, 0 + 1, Len(d_cache_list)) = d_cache_list
  BY <1>1, SubSeqFull
<1>3. 0 \in Room(d_cache_list, size)
  <2> DEFINE z == SizeOf(SubSeq(d_cache_list, 0 + 1, Len(d_cache_list)))
  <2>1. d_size - z + size = size
    <3>1. z = d_size
      BY <1>1, <1>2, Zenon
    <3> HIDE DEF z
    <3> QED BY <1>1, <3>1
  <2>2. 0 \in 0 .. Len(d_cache_list) /\ size <= CACHE_CAPACITY
    BY <1>1, CapacityAssumption DEF can_fit
  <2> QED BY <2>1, <2>2 DEF Room
<1> DEFINE R == Room(d_cache_list, size)
           Rest == {Len(d_cache_list) - n : n \in R}
<1>4. R \subseteq 0 .. Len(d_cache_list)
  BY DEF Room
<1> HIDE DEF R
<1>5. Rest \subseteq Nat /\ Rest # {}
  BY <1>1, <1>3, <1>4 DEF R
<1>6. PICK r \in Rest : \A q \in Rest : r <= q
  <2> HIDE DEF Rest
  <2> QED BY <1>5, LeastNatural
<1>7. PICK m \in R : r = Len(d_cache_list) - m
  OBVIOUS
<1>8. \A n \in R : m >= n
  <2> TAKE n \in R
  <2>1. r <= Len(d_cache_list) - n
    BY <1>6
  <2> QED BY <1>1, <1>4, <1>7, <2>1
<1>9. \E x \in R : \A y \in R : x >= y
  BY <1>7, <1>8
<1> QED BY <1>3, <1>9 DEF R, Max

\* A map that is put in comes first, and as much of the end of the list goes as it takes.
LEMMA PutOrdered ==
  ASSUME CacheOrdered, NEW key \in Nat, NEW value, Len(value) \in Nat,
         key \notin DOMAIN d_cache, PutThenGet(key, value)
  PROVE  CacheOrdered'
<1> DEFINE list == d_cache_list
           node == [key |-> key, size |-> Len(value)]
<1>1. /\ list \in Seq(Node) /\ Len(list) \in Nat /\ DOMAIN list = 1 .. Len(list)
      /\ node \in Node /\ \A i \in 1 .. Len(list) : list[i] \in Node
      /\ recent \in Seq(Nat) /\ Len(recent) \in Nat /\ Len(list) <= Len(recent)
  <2>1. node \in Node
    BY DEF Node
  <2> QED BY <2>1 DEF CacheOrdered
<1>2. Without(list, key) = list
  BY DEF Without, CacheOrdered
<1>3. PICK kept \in 0 .. Len(list) :
        /\ kept = Max(Room(list, Len(value)))
        /\ d_size - SizeOf(SubSeq(list, kept + 1, Len(list))) + Len(value) <= CACHE_CAPACITY
  <2>1. Max(Room(list, Len(value))) \in Room(list, Len(value))
    BY RoomEnds DEF PutThenGet
  <2> QED BY <2>1 DEF Room
<1> DEFINE left == SubSeq(list, 1, kept)
           evicted == SubSeq(list, kept + 1, Len(list))
<1>4. /\ d_cache_list' = <<node>> \o left
      /\ d_cache' = [k \in (DOMAIN d_cache \ Keys(evicted)) \cup {key} |->
                      IF k = key THEN value ELSE d_cache[k]]
      /\ d_size' = d_size - SizeOf(evicted) + Len(value)
      /\ recent' = Used(key)
  BY <1>2, <1>3, Zenon DEF PutThenGet
<1>5. /\ left \in Seq(Node) /\ Len(left) = kept
      /\ \A j \in 1 .. kept : left[j] = list[j]
  <2>1. \A j \in 1 .. kept : list[j] \in Node
    BY <1>1
  <2>2. /\ left \in Seq(Node) /\ Len(left) = IF 1 <= kept THEN kept - 1 + 1 ELSE 0
        /\ \A j \in 1 .. kept - 1 + 1 : left[j] = list[1 + j - 1]
    BY <2>1, SubSeqProperties
  <2> HIDE DEF left
  <2> QED BY <2>2
<1>6. /\ evicted \in Seq(Node) /\ Len(evicted) = Len(list) - kept
      /\ \A j \in 1 .. Len(list) - kept : evicted[j] = list[kept + j]
  BY <1>1, RestOfList, Zenon
<1>7. list = left \o evicted
  <2>1. /\ 1 \in 1 .. Len(list) + 1 /\ kept \in 1 - 1 .. Len(list) /\ Len(list) \in kept .. Len(list)
    BY <1>1
  <2>2. left \o evicted = SubSeq(list, 1, Len(list))
    BY <1>1, <2>1, ConcatAdjacentSubSeq
  <2> QED BY <1>1, <2>2, SubSeqFull
<1> HIDE DEF left, evicted
<1>8. /\ d_cache_list' \in Seq(Node) /\ Len(d_cache_list') = kept + 1
      /\ d_cache_list'[1] = node
      /\ \A j \in 1 .. kept : d_cache_list'[j + 1] = list[j]
  <2>1. <<node>> \in Seq(Node) /\ Len(<<node>>) = 1 /\ <<node>>[1] = node
    BY <1>1
  <2> HIDE DEF node
  <2>2. /\ d_cache_list' \in Seq(Node) /\ Len(d_cache_list') = 1 + kept
        /\ \A j \in 1 .. 1 + kept :
             d_cache_list'[j] = IF j <= 1 THEN <<node>>[j] ELSE left[j - 1]
    BY <1>4, <1>5, <2>1, ConcatProperties
  <2>3. d_cache_list'[1] = node
    BY <1>5, <2>1, <2>2
  <2>4. ASSUME NEW j \in 1 .. kept PROVE d_cache_list'[j + 1] = list[j]
    <3>1. j + 1 \in 1 .. 1 + kept /\ ~(j + 1 <= 1) /\ (j + 1) - 1 = j
      OBVIOUS
    <3> QED BY <1>5, <2>2, <3>1
  <2> QED BY <2>2, <2>3, <2>4
<1>9. \A i \in 1 .. Len(list) : list[i].key # key /\ list[i].key \in DOMAIN d_cache
  BY <1>1 DEF CacheOrdered, Keys
<1>10. /\ recent' \in Seq(Nat)
       /\ \A i, j \in 1 .. Len(recent') : recent'[i] = recent'[j] => i = j
       /\ recent'[1] = key
       /\ \A j \in 1 .. Len(list) : recent'[j + 1] = recent[j]
       /\ kept + 1 <= Len(recent')
  <2>1. \A i \in 1 .. Len(list) : recent[i] # key
    BY <1>1, <1>9 DEF CacheOrdered
  <2>2. /\ Used(key) \in Seq(Nat) /\ Used(key)[1] = key
        /\ \A i, j \in 1 .. Len(Used(key)) : Used(key)[i] = Used(key)[j] => i = j
    BY UsedIsOrdered DEF CacheOrdered
  <2>3. ASSUME NEW j \in 1 .. Len(list) PROVE Used(key)[j + 1] = recent[j]
    <3>1. j \in 1 .. Len(recent) /\ \A i \in 1 .. j : recent[i] # key
      BY <1>1, <2>1
    <3> QED BY <3>1, UsedIsOrdered DEF CacheOrdered
  <2>4. kept + 1 <= Len(Used(key))
    <3>1. CASE \E p \in 1 .. Len(recent) : recent[p] = key
      <4>1. PICK p \in 1 .. Len(recent) : recent[p] = key
        BY <3>1
      <4>2. Len(Used(key)) = Len(recent) /\ p \notin 1 .. Len(list)
        BY <2>1, <4>1, UsedIsOrdered DEF CacheOrdered
      <4> QED BY <1>1, <4>2
    <3>2. CASE ~ \E p \in 1 .. Len(recent) : recent[p] = key
      <4>1. Len(Used(key)) = Len(recent) + 1
        BY <3>2, UsedIsOrdered DEF CacheOrdered
      <4> QED BY <1>1, <4>1
    <3> QED BY <3>1, <3>2
  <2> QED BY <1>4, <2>2, <2>3, <2>4
<1>11. \A i \in 1 .. kept + 1 : i # 1 => i - 1 \in 1 .. kept /\ d_cache_list'[i] = list[i - 1]
                                       /\ recent'[i] = recent[i - 1]
  <2> TAKE i \in 1 .. kept + 1
  <2>1. i # 1 => i - 1 \in 1 .. kept /\ i - 1 \in 1 .. Len(list) /\ (i - 1) + 1 = i
    BY <1>1
  <2> QED BY <1>8, <1>10, <2>1
<1>12. \A i \in 1 .. kept + 1 : d_cache_list'[i].key = recent'[i]
  <2> TAKE i \in 1 .. kept + 1
  <2>1. CASE i = 1
    BY <1>8, <1>10, <2>1
  <2>2. CASE i # 1
    <3>1. i - 1 \in 1 .. kept /\ d_cache_list'[i] = list[i - 1] /\ recent'[i] = recent[i - 1]
      BY <1>11, <2>2
    <3>2. \A j \in 1 .. Len(list) : list[j].key = recent[j]
      BY DEF CacheOrdered
    <3>3. i - 1 \in 1 .. Len(list)
      BY <1>1, <3>1
    <3>4. list[i - 1].key = recent[i - 1]
      BY <3>2, <3>3
    <3> QED BY <3>1, <3>4
  <2> QED BY <2>1, <2>2
<1>13. \A k : k \in Keys(evicted) <=> \E i \in kept + 1 .. Len(list) : k = list[i].key
  <2>1. DOMAIN evicted = 1 .. Len(list) - kept
    BY <1>6
  <2>2. \A j \in 1 .. Len(list) - kept : kept + j \in kept + 1 .. Len(list)
    BY <1>1
  <2>3. \A i \in kept + 1 .. Len(list) :
          i - kept \in 1 .. Len(list) - kept /\ evicted[i - kept] = list[i]
    <3> TAKE i \in kept + 1 .. Len(list)
    <3>1. i - kept \in 1 .. Len(list) - kept /\ kept + (i - kept) = i
      BY <1>1
    <3> QED BY <1>6, <3>1
  <2>4. ASSUME NEW k, k \in Keys(evicted) PROVE \E i \in kept + 1 .. Len(list) : k = list[i].key
    BY <1>6, <2>1, <2>2, <2>4 DEF Keys
  <2>5. ASSUME NEW k, NEW i \in kept + 1 .. Len(list), k = list[i].key PROVE k \in Keys(evicted)
    BY <2>1, <2>3, <2>5 DEF Keys
  <2> QED BY <2>4, <2>5
<1>14. \A i \in 1 .. kept : list[i].key \notin Keys(evicted)
  <2> TAKE i \in 1 .. kept
  <2>1. \A j \in kept + 1 .. Len(list) : list[i].key # list[j].key
    BY <1>1 DEF CacheOrdered
  <2> QED BY <1>13, <2>1
<1>15. \A k : k \in Keys(d_cache_list)' <=> k \in DOMAIN d_cache'
  <2>1. DOMAIN d_cache' = (DOMAIN d_cache \ Keys(evicted)) \cup {key}
    BY <1>4
  <2>2. DOMAIN d_cache_list' = 1 .. kept + 1
    BY <1>8
  <2>3. ASSUME NEW i \in 1 .. kept + 1 PROVE d_cache_list'[i].key \in DOMAIN d_cache'
    <3>1. CASE i = 1
      BY <1>8, <2>1, <3>1
    <3>2. CASE i # 1
      <4>1. i - 1 \in 1 .. Len(list)
        BY <1>1, <1>11, <3>2
      <4> QED BY <1>9, <1>11, <1>14, <2>1, <3>2, <4>1
    <3> QED BY <3>1, <3>2
  <2>4. ASSUME NEW k \in DOMAIN d_cache' PROVE \E i \in 1 .. kept + 1 : k = d_cache_list'[i].key
    <3>1. CASE k = key
      <4>1. 1 \in 1 .. kept + 1
        OBVIOUS
      <4> QED BY <1>8, <3>1, <4>1
    <3>2. CASE k # key
      <4>1. k \in DOMAIN d_cache /\ k \notin Keys(evicted)
        BY <2>1, <3>2
      <4>2. PICK i \in 1 .. Len(list) : k = list[i].key
        BY <1>1, <4>1 DEF CacheOrdered, Keys
      <4>3. i \in 1 .. kept
        BY <1>1, <1>13, <4>1, <4>2
      <4>4. i + 1 \in 1 .. kept + 1 /\ d_cache_list'[i + 1] = list[i]
        BY <1>8, <4>3
      <4> QED BY <4>2, <4>4
    <3> QED BY <3>1, <3>2
  <2> QED BY <2>2, <2>3, <2>4 DEF Keys
<1>16. \A i \in 1 .. kept + 1 : d_cache_list'[i].size = Len(d_cache'[d_cache_list'[i].key])
  <2> TAKE i \in 1 .. kept + 1
  <2>1. CASE i = 1
    BY <1>4, <1>8, <2>1
  <2>2. CASE i # 1
    <3>1. i - 1 \in 1 .. Len(list) /\ d_cache_list'[i] = list[i - 1]
      BY <1>1, <1>11, <2>2
    <3>2. /\ list[i - 1].key # key /\ list[i - 1].key \notin Keys(evicted)
          /\ list[i - 1].key \in DOMAIN d_cache
      BY <1>9, <1>11, <1>14, <2>2, <3>1
    <3>3. d_cache'[list[i - 1].key] = d_cache[list[i - 1].key]
      BY <1>4, <3>2
    <3> QED BY <3>1, <3>3 DEF CacheOrdered
  <2> QED BY <2>1, <2>2
<1>17. d_size' = SizeOf(d_cache_list') /\ d_size' <= CACHE_CAPACITY
  <2>1. SizeOf(left) \in Nat /\ SizeOf(evicted) \in Nat
    BY <1>5, <1>6, SumsExist, SizeIsSum
  <2>2. d_size = SizeOf(left) + SizeOf(evicted)
    BY <1>5, <1>6, <1>7, SizeOfConcat DEF CacheOrdered
  <2>3. SizeOf(<<node>>) = Len(value) /\ <<node>> \in Seq(Node)
    BY <1>1, SizeOfOne
  <2> HIDE DEF node
  <2>4. SizeOf(d_cache_list') = Len(value) + SizeOf(left)
    BY <1>4, <1>5, <2>3, SizeOfConcat
  <2> QED BY <1>3, <1>4, <2>1, <2>2, <2>4 DEF evicted
<1> QED BY <1>8, <1>10, <1>12, <1>15, <1>16, <1>17 DEF CacheOrdered

\* Steps that leave the cache alone and do not begin to fill it.
LEMMA CacheUntouched ==
  ASSUME CacheOrdered, Filling, UNCHANGED cacheVars,
         pc' # "fill" \/ (pc = "fill" /\ UNCHANGED chunk)
  PROVE  CacheOrdered' /\ Filling'
<1>1. CacheOrdered'
  BY DEF CacheOrdered, cacheVars, Keys, SizeOf
<1>2. Filling'
  BY DEF Filling, cacheVars, can_fit
<1> QED BY <1>1, <1>2

\* A map is only read to be put in when it is not there and will fit; a hit and the
\* end of a fill keep the cache in order; nothing else touches it.
LEMMA ServeOrdered ==
  ASSUME IInv, CacheOrdered, Filling, Serve
  PROVE  CacheOrdered' /\ Filling'
<1>1. ASSUME NEW m \in d_vmaps, Hit(m) PROVE CacheOrdered' /\ Filling'
  <2>1. m.addr \in Nat
    BY Areas DEF Area
  <2>2. Get(m.addr) /\ pc' = "idle"
    BY <1>1 DEF Hit, Return
  <2> QED BY <2>1, <2>2, GetOrdered DEF Filling
<1>2. ASSUME NEW m \in d_vmaps, Miss(m) PROVE CacheOrdered' /\ Filling'
  <2>1. CacheOrdered'
    BY <1>2 DEF Miss, CacheOrdered, cacheVars, Keys, SizeOf
  <2>2. Filling'
    BY <1>2 DEF Miss, CallReadChunk, Cacheable, exists, Filling, cacheVars, can_fit
  <2> QED BY <2>1, <2>2
<1>3. CASE FillEnds
  <2>1. chunk.addr \in Nat /\ chunk.len \in Nat
    BY <1>3, Areas DEF IInv, CallInv, VMapsOf, FillEnds, Area
  <2>2. CacheOrdered'
    BY <1>3, <2>1, PutOrdered DEF FillEnds, Filling
  <2> QED BY <1>3, <2>2 DEF FillEnds, Return, Filling
<1>4. CASE Bypass \/ DirectEnds \/ ReadvFails \/ ReadvMissing \/ OpenMemFile \/ ReadPage
  <2>1. UNCHANGED cacheVars /\ (pc' # "fill" \/ (pc = "fill" /\ UNCHANGED chunk))
    BY <1>4 DEF Bypass, DirectEnds, ReadvFails, ReadvMissing, OpenMemFile, ReadPage,
                Reading, Return, CallReadChunk, callVars
  <2> QED BY <2>1, CacheUntouched
<1>5. CASE ReadFaults
  <2>1. UNCHANGED cacheVars /\ pc' # "fill"
    BY <1>5 DEF ReadFaults, InvalidRemoteAddress, Return, CallReadChunk
  <2> QED BY <2>1, CacheUntouched
<1> QED BY <1>1, <1>2, <1>3, <1>4, <1>5 DEF Serve

\* Every step keeps the cache in order.
LEMMA NextOrdered == IInv /\ CacheOrdered /\ Filling /\ [Next]_vars => CacheOrdered' /\ Filling'
<1> SUFFICES ASSUME IInv, CacheOrdered, Filling, [Next]_vars
             PROVE  CacheOrdered' /\ Filling'
  OBVIOUS
<1>1. CASE TargetWrites \/ TargetDies \/ UNCHANGED vars
  <2>1. UNCHANGED cacheVars /\ UNCHANGED <<pc, chunk>>
    BY <1>1 DEF TargetWrites, TargetDies, vars, callVars
  <2> QED BY <2>1, CacheUntouched
<1>2. ASSUME NEW r \in Request, CopyMemoryFromProcess(r) PROVE CacheOrdered' /\ Filling'
  <2>1. UNCHANGED cacheVars /\ pc' # "fill"
    BY <1>2 DEF CopyMemoryFromProcess
  <2> QED BY <2>1, CacheUntouched
<1> QED BY <1>1, <1>2, ServeOrdered DEF Next

\* The cache is in order at all times.
LEMMA CacheIsOrdered == Spec => [](CacheOrdered /\ Filling)
<1>1. Init => CacheOrdered /\ Filling
  BY InitOrdered
<1> QED BY <1>1, NextOrdered, Invariance, PTL DEF Spec

\* The list, the table and the size agree, and the size is within the capacity,
\* whatever is read in whatever order (LRUCache::put, mem.cpp:120-145).
THEOREM CacheHolds == Spec => []CacheWellFormed
<1>1. CacheOrdered => CacheWellFormed
  <2> SUFFICES ASSUME CacheOrdered PROVE CacheWellFormed
    OBVIOUS
  <2>1. DOMAIN d_cache_list = 1 .. Len(d_cache_list)
    BY DEF CacheOrdered
  <2>2. ASSUME NEW i \in 1 .. Len(d_cache_list), NEW j \in 1 .. Len(d_cache_list),
               d_cache_list[i].key = d_cache_list[j].key
        PROVE  i = j
    <3>1. i \in 1 .. Len(recent) /\ j \in 1 .. Len(recent) /\ recent[i] = recent[j]
      BY <2>2 DEF CacheOrdered
    <3> QED BY <3>1 DEF CacheOrdered
  <2> QED BY <2>1, <2>2 DEF CacheOrdered, CacheWellFormed
<1> QED BY <1>1, CacheIsOrdered, PTL

\* When a map has been read there is room for it, at the latest in an empty list:
\* the eviction loop ends (mem.cpp:136-140).
THEOREM EvictionEnds == Spec => []EvictionIsDefined
<1>1. IInv /\ CacheOrdered /\ Filling => EvictionIsDefined
  <2> SUFFICES ASSUME IInv, CacheOrdered, Filling, pc = "fill" PROVE EvictionIsDefined
    BY DEF EvictionIsDefined
  <2>1. chunk.addr \notin Keys(d_cache_list) /\ can_fit(chunk.len)
    BY DEF Filling, CacheOrdered
  <2>2. chunk.len \in Nat
    BY Areas DEF IInv, CallInv, VMapsOf, Area
  <2>3. 0 \in Room(d_cache_list, chunk.len)
    BY <2>1, <2>2, RoomEnds
  <2> QED BY <2>1, <2>3 DEF EvictionIsDefined, Without
<1> QED BY <1>1, CacheIsOrdered, Invariance, PTL

\* The list is the beginning of the order of use: what was used last stays.
THEOREM LastUsedStay == Spec => []MostRecentlyUsedStay
<1>1. CacheOrdered => MostRecentlyUsedStay
  <2> SUFFICES ASSUME CacheOrdered PROVE MostRecentlyUsedStay
    OBVIOUS
  <2> DEFINE n == Len(d_cache_list)
  <2>1. n \in Nat /\ n <= Len(recent) /\ Len(recent) \in Nat /\ DOMAIN d_cache_list = 1 .. n
    BY DEF CacheOrdered
  <2>2. SubSeq(recent, 1, n) = [i \in 1 .. n |-> recent[i]]
    BY <2>1 DEF CacheOrdered
  <2>3. [i \in 1 .. n |-> d_cache_list[i].key] = [i \in 1 .. n |-> recent[i]]
    BY DEF CacheOrdered
  <2> QED BY <2>1, <2>2, <2>3 DEF MostRecentlyUsedStay
<1> QED BY <1>1, CacheIsOrdered, PTL

-----------------------------------------------------------------------------
(* Types.                                                                   *)

CallTypes ==
  /\ platform \in Platforms
  /\ request \in Request \cup {None}
  /\ chunk \in Area \cup {None}
  /\ via \in {"readv", "memfile"}
  /\ buf \in Seq(Val)
  /\ answer = None \/ answer \in [request : Request, threw : Exception, data : Seq(Val)]

\* A call returns a sequence of pages, or throws and returns none.
LEMMA ReturnTypes ==
  ASSUME CallTypes, request \in Request, UNCHANGED platform,
         NEW threw \in Exception, NEW data \in Seq(Val), Return(threw, data)
  PROVE  CallTypes'
BY DEF CallTypes, Return

\* What a request asks for of a map is a sequence of pages.
LEMMA SliceType ==
  ASSUME IInv, request \in Request, NEW m \in VMapsOf(request),
         NEW pages, Genuine(pages, m.addr), Len(pages) = m.len
  PROVE  Slice(pages, m.addr) \in Seq(Val)
<1>1. PICK r \in Request : r = request
  OBVIOUS
<1>2. PICK n \in Nat : n = r.len
  BY Areas DEF Area
<1>3. Slice(pages, m.addr) \in [1 .. n -> Val]
  BY <1>1, <1>2, SliceIsGenuine
<1> QED BY <1>3

\* The steps of a call keep the types.
LEMMA ServeTypes ==
  ASSUME IInv, CallTypes, Serve
  PROVE  CallTypes'
<1>0. pc # "idle" => request \in Request
  BY DEF IInv, CallInv
<1>1. ASSUME NEW m \in d_vmaps, Hit(m) PROVE CallTypes'
  <2>1. m \in VMapsOf(request) /\ request \in Request
    BY <1>0, <1>1 DEF Hit, Cacheable
  <2>2. Genuine(d_cache[m.addr], m.addr) /\ Len(d_cache[m.addr]) = m.len
    BY <1>1 DEF Hit, exists, IInv, CacheInv
  <2>3. Slice(d_cache[m.addr], m.addr) \in Seq(Val) /\ "nothing" \in Exception
    BY <2>1, <2>2, SliceType DEF Exception
  <2> QED BY <1>1, <2>1, <2>3, ReturnTypes DEF Hit
<1>2. ASSUME NEW m \in d_vmaps, Miss(m) PROVE CallTypes'
  BY <1>2, Areas DEF Miss, CallReadChunk, CallTypes
<1>3. CASE Bypass
  <2>1. request \in Area
    BY <1>0, <1>3, Areas DEF Bypass
  <2> QED BY <1>3, <2>1 DEF Bypass, CallReadChunk, CallTypes
<1>4. CASE FillEnds
  <2>1. chunk \in VMapsOf(request) /\ request \in Request /\ Genuine(buf, chunk.addr)
    BY <1>0, <1>4 DEF FillEnds, IInv, CallInv
  <2>2. Slice(buf, chunk.addr) \in Seq(Val) /\ "nothing" \in Exception
    BY <1>4, <2>1, SliceType DEF FillEnds, Exception
  <2> QED BY <1>4, <2>1, <2>2, ReturnTypes DEF FillEnds
<1>5. CASE DirectEnds
  <2>1. buf \in Seq(Val) /\ "nothing" \in Exception
    BY DEF CallTypes, Exception
  <2> QED BY <1>0, <1>5, <2>1, ReturnTypes DEF DirectEnds
<1>6. <<>> \in Seq(Val) /\ {"other", "InvalidRemoteAddress"} \subseteq Exception
  BY DEF Exception
<1>7. CASE ReadvFails
  BY <1>0, <1>6, <1>7, ReturnTypes DEF ReadvFails, Reading
<1>8. CASE ReadvMissing
  BY <1>8 DEF ReadvMissing, CallTypes
<1>9. CASE OpenMemFile
  <2>1. CASE UNCHANGED callVars
    BY <1>9, <2>1 DEF OpenMemFile, callVars, CallTypes
  <2>2. CASE Return("other", <<>>)
    BY <1>0, <1>6, <1>9, <2>2, ReturnTypes DEF OpenMemFile, Reading
  <2> QED BY <1>9, <2>1, <2>2 DEF OpenMemFile
<1>10. CASE ReadPage
  <2>1. mem[chunk.addr + Len(buf)] \in Val
    BY <1>10, NextPage DEF ReadPage, IInv, TargetInv
  <2> QED BY <1>10, <2>1 DEF ReadPage, CallTypes
<1>11. CASE ReadFaults
  <2>1. CASE Return("InvalidRemoteAddress", <<>>)
    BY <1>0, <1>6, <1>11, <2>1, ReturnTypes DEF ReadFaults, Reading
  <2>2. CASE CallReadChunk(request, "direct") /\ UNCHANGED <<request, answer>>
    <3>1. request \in Area
      BY <1>0, <1>11, Areas DEF ReadFaults, Reading
    <3> QED BY <1>11, <2>2, <3>1 DEF ReadFaults, CallReadChunk, CallTypes
  <2> QED BY <1>11, <2>1, <2>2 DEF ReadFaults, InvalidRemoteAddress
<1> QED BY <1>1, <1>2, <1>3, <1>4, <1>5, <1>7, <1>8, <1>9, <1>10, <1>11 DEF Serve

\* Every step keeps the types.
LEMMA NextTypes == IInv /\ CallTypes /\ [Next]_vars => CallTypes'
<1>1. ASSUME CallTypes, TargetWrites \/ TargetDies \/ UNCHANGED vars PROVE CallTypes'
  BY <1>1 DEF TargetWrites, TargetDies, vars, callVars, CallTypes
<1>2. ASSUME CallTypes, NEW r \in Request, CopyMemoryFromProcess(r) PROVE CallTypes'
  BY <1>2 DEF CopyMemoryFromProcess, CallTypes
<1> QED BY <1>1, <1>2, ServeTypes DEF Next

\* Type correctness.
THEOREM TypeCorrect == Spec => []TypeOK
<1>1. Init => CallTypes
  BY DEF Init, CallTypes
<1>2. IInv /\ CacheOrdered /\ CallTypes => TypeOK
  <2> SUFFICES ASSUME IInv, CacheOrdered, CallTypes PROVE TypeOK
    OBVIOUS
  <2>1. d_cache_list \in Seq(Node) /\ \A k \in DOMAIN d_cache : d_cache[k] \in Seq(Val)
    BY DEF CacheOrdered, IInv, CacheInv, Genuine
  <2>2. d_size \in Nat
    BY SumsExist, SizeIsSum DEF CacheOrdered
  <2> QED BY <2>1, <2>2 DEF TypeOK, Node, CallTypes, IInv, TargetInv, PlatformInv, CallInv
<1> QED BY <1>1, <1>2, NextTypes, CacheIsOrdered, Invariance, PTL DEF Spec
=============================================================================
