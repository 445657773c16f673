----------------------------- MODULE MCKernel -----------------------------
(***************************************************************************)
(* Instances for TLC of the kernel's parts besides processes and channels, *)
(* and of the volume of the file system.  A behaviour runs one part,       *)
(* chosen at the start; the variables of the others are 0, or stay in      *)
(* their first state.  A property of a part is that module's property,     *)
(* asked of the behaviours that run it.                                    *)
(* Inputs on which the code departs from what it says of itself are        *)
(* excepted by the properties, or left out; README.md lists them one by    *)
(* one (section 5).                                                        *)
(***************************************************************************)
EXTENDS Memory, HeapFreeList, Volume, Futex, Grants, TLC

CONSTANTS
    Parts,   \* the parts of this run
    t1, t2, t3, t4, t5, a1, a2

VARIABLE part   \* the part of the system that runs in this behaviour

-----------------------------------------------------------------------------
(* Physical memory, address spaces, fork, exec, brk, shared memory and     *)
(* device leases: few pages, so that allocations fail.  The first slot may *)
(* have a second thread.                                                   *)
SecondThread == [t \in Thread |-> IF t = 3 THEN 1 ELSE t]
MemoryMixes == {{"fork", "thread", "brk"}, {"fork", "shm"}, {"fork", "exec", "mmio"}}

-----------------------------------------------------------------------------
(* The kernel heap and the user allocator, with four layouts.              *)
HeapLayouts ==
    {[size |-> 1, align |-> 1], [size |-> 3, align |-> 2], [size |-> 2, align |-> 4],
     [size |-> 5, align |-> 8]}

-----------------------------------------------------------------------------
(* The ZFS volume: files of one and two blocks, one snapshot, and a crash  *)
(* or a failing write at any block.                                        *)
VolPaths == {<<"a">>, <<"b">>, <<"a", "x">>, <<"b", "x">>}
VolContents == {<<"p">>, <<"q", "r">>}
VolumeMixes ==
    {[ops |-> {"write", "remove", "snap"}, paths |-> {<<"a">>}, gens |-> 4],
     [ops |-> {"write", "remove", "dir", "rename"}, paths |-> VolPaths, gens |-> 3]}

-----------------------------------------------------------------------------
(* UserMutex: three threads of one process and two of another, with the    *)
(* mutex at the same address; a table that holds two of them.              *)
TwoProcesses == [t \in Threads |-> IF t \in {t1, t2, t3} THEN a1 ELSE a2]
ThreadsOfAProcess == Permutations({t1, t2}) \cup Permutations({t4, t5})

-----------------------------------------------------------------------------
(* The capability book: three pids, two grants, one session at a time, all *)
(* set in the configuration.                                               *)

-----------------------------------------------------------------------------
(* The SMMU: ten pages, so that allocations fail, a stream table with an   *)
(* entry for one of two requester ids, two domains, and one command given  *)
(* up.                                                                     *)
VARIABLES ioready, iofree, strtab, stecache, s2, tlb, cmdq, doms, next_domain,
          dmabufs, iocall, owed, iobudget
iommuVars == <<ioready, iofree, strtab, stecache, s2, tlb, cmdq, doms,
               next_domain, dmabufs, iocall, owed, iobudget>>

IO_PAGES == 10
STREAM_PAGES == 2
STREAM_ENTRIES == 1
Sid == {0, 1}
IOVA_PAGES == 3
L3_SPAN == 2
CMDQ_ENTRIES == 2
MaxDomain == 2
MaxDma == 3
MaxLate == 1

Io == INSTANCE Iommu

-----------------------------------------------------------------------------
(* Loading images: two libraries fit.  /m and /n have library b at         *)
(* different addresses, and find f in c and in b; /o needs three           *)
(* libraries, /p and d have two segments in a page, /r has an undefined    *)
(* symbol, /s and /t are no images.  The tables of a file lie in its first *)
(* page.                                                                   *)
VARIABLES lelf, shared, lframe, lproc, contested, leaked, lbudget
loaderVars == <<lelf, shared, lframe, lproc, contested, leaked, lbudget>>

PAGE == 4
PIE_ALIGN == 8
PIE_BASE_MIN == 8
PIE_CEILING == 24
LIB_BASE == 32
LIB_SLOT == 8
MAX_LOADED_LIBRARIES == 2
MAX_SEGMENTS == 2
MAX_RELOCATIONS == 2
MAX_NEEDED == 2
MAX_SYMBOLS == 2
SYM_ENT == 2
RELA_ENT == 2
DYN_ENT == 2
PHDR_ENT == 1
MaxVa == 63
Loading == {1, 2}
Ph(type, va, off, fsz, msz, x) ==
    [p_type |-> type, vaddr |-> va, offset |-> off, filesz |-> fsz, memsz |-> msz,
     x |-> x, w |-> FALSE]
Tag(t, v) == [tag |-> t, val |-> v]
Sym(n, v, d) == [name |-> n, value |-> v, defined |-> d, binding |-> "GLOBAL"]
NullSym == [Sym(0, 0, FALSE) EXCEPT !.binding = "LOCAL"]
Rela(o, t, s, a) == [offset |-> o, typ |-> t, sym |-> s, addend |-> a]
DataAt(va) == <<Ph("LOAD", va, 4, 2, 3, FALSE)>>
Strings == <<"", "b", "c", "a", "f", "d", "g", "e">>
ElfFile(type, more, needed, syms, relas) ==
    [magic |-> TRUE, e_type |-> type, ehsize |-> 1, len |-> 12, entry |-> 1, phentsize |-> 1,
     phoff |-> 1,
     phdrs |-> <<Ph("LOAD", 0, 0, 4, 4, TRUE)>> \o more \o <<Ph("DYNAMIC", 0, 0, 4, 4, FALSE)>>,
     dyn |-> [i \in DOMAIN needed |-> Tag("NEEDED", needed[i])]
             \o <<Tag("STRTAB", 0), Tag("STRSZ", 8), Tag("SYMTAB", 1), Tag("HASH", 2),
                  Tag("RELA", 3), Tag("RELASZ", 2 * Len(relas)), Tag("NULL", 0),
                  Tag("RELASZ", 1)>>,
     data |-> 0 :> Strings @@ 1 :> <<NullSym>> \o syms @@ 2 :> <<1, Len(syms) + 1>> @@ 3 :> relas]
Uses(n) == <<Sym(n, 0, FALSE)>>
Rootfs ==
    "/m" :> ElfFile("DYN", <<>>, <<2, 1>>, Uses(4),
                    <<Rela(2, "RELATIVE", 0, 2), Rela(3, "JUMP_SLOT", 1, 0)>>)
    @@ "/n" :> ElfFile("EXEC", <<>>, <<3>>, <<>>, <<>>)
    @@ "/o" :> ElfFile("EXEC", <<>>, <<3, 2>>, <<>>, <<>>)
    @@ "/p" :> ElfFile("EXEC", DataAt(3), <<>>, <<>>, <<>>)
    @@ "/q" :> ElfFile("EXEC", <<>>, <<5>>, <<>>, <<>>)
    @@ "/r" :> ElfFile("EXEC", <<>>, <<2>>, Uses(6), <<Rela(3, "GLOB_DAT", 1, 0)>>)
    @@ "/s" :> [ElfFile("EXEC", <<>>, <<>>, <<>>, <<>>) EXCEPT !.entry = 9]
    @@ "/t" :> ElfFile("EXEC", <<>>, <<>>, <<>>, <<Rela(3, "COPY", 1, 0)>>)
    @@ "/u" :> ElfFile("EXEC", <<>>, <<7>>, <<>>, <<>>)
    @@ "/v" :> ElfFile("EXEC", <<>>, <<2, 7>>, <<>>, <<>>)
    @@ "a" :> ElfFile("DYN", DataAt(4), <<1>>, Uses(4), <<Rela(4, "GLOB_DAT", 1, 0)>>)
    @@ "b" :> ElfFile("DYN", DataAt(4), <<>>, <<Sym(4, 2, TRUE)>>,
                      <<Rela(4, "ABS64", 1, 1), Rela(5, "RELATIVE", 0, 3)>>)
    @@ "c" :> ElfFile("DYN", <<>>, <<>>, <<Sym(4, 1, TRUE)>>, <<>>)
    @@ "d" :> ElfFile("DYN", DataAt(3), <<>>, <<>>, <<>>)
    @@ "e" :> ElfFile("DYN", <<>>, <<>>, <<>>,
                      <<Rela(2, "RELATIVE", 0, 1), Rela(3, "RELATIVE", 0, 2)>>)
Mains == {"/m", "/n", "/o", "/p", "/q", "/r", "/s", "/t", "/u", "/v"}
\* The last one has text relocations in a library at two addresses.
LoadMixes ==
    {[mains |-> {"/m", "/n"}, frames |-> 8, loads |-> 2, faults |-> 0],
     [mains |-> {"/n"}, frames |-> 7, loads |-> 2, faults |-> 1],
     [mains |-> {"/n", "/p", "/r"}, frames |-> 7, loads |-> 2, faults |-> 0],
     [mains |-> {"/n", "/o", "/q", "/s", "/t"}, frames |-> 5, loads |-> 2, faults |-> 0],
     [mains |-> {"/u", "/v"}, frames |-> 5, loads |-> 3, faults |-> 0]}

Ld == INSTANCE Loader

-----------------------------------------------------------------------------
(* The parts a behaviour does not run are absent from it, or at rest.      *)
NoMemory ==
    /\ mm = 0 /\ proc = 0 /\ nextPid = 0 /\ regions = 0 /\ maps = 0
    /\ nextId = 0 /\ leases = 0 /\ op = 0 /\ reaping = 0 /\ raced = 0
    /\ Calls = 0 /\ calls = 0
NoHeap ==
    /\ heap = 0 /\ live = 0 /\ heap_kind = 0
NoIommu ==
    /\ ioready = 0 /\ iofree = 0 /\ strtab = 0 /\ stecache = 0 /\ s2 = 0
    /\ tlb = 0 /\ cmdq = 0 /\ doms = 0 /\ next_domain = 0 /\ dmabufs = 0
    /\ iocall = 0 /\ owed = 0 /\ iobudget = 0
NoLoader ==
    /\ lelf = 0 /\ shared = 0 /\ lframe = 0 /\ lproc = 0 /\ contested = 0 /\ leaked = 0
    /\ lbudget = 0

Init ==
    /\ part \in Parts
    /\ IF part = "Memory" THEN MemInit ELSE NoMemory
    /\ IF part = "Heap" THEN HeapInit ELSE NoHeap
    /\ VolInit
    /\ part # "Volume" => vmix = CHOOSE m \in VolMixes : TRUE
    /\ FutexInit
    /\ GrantInit
    /\ IF part = "Iommu" THEN Io!IommuInit ELSE NoIommu
    /\ IF part = "Loader" THEN Ld!LoaderInit ELSE NoLoader

MemoryRuns ==
    part = "Memory" /\ UNCHANGED <<part, heapVars, volVars, futexVars,
                                  grantVars, iommuVars, loaderVars>>
HeapRuns ==
    part = "Heap" /\ UNCHANGED <<part, memVars, volVars, futexVars, grantVars,
                                iommuVars, loaderVars>>
VolumeRuns ==
    part = "Volume" /\ UNCHANGED <<part, memVars, heapVars, futexVars,
                                  grantVars, iommuVars, loaderVars>>
FutexRuns ==
    part = "Futex" /\ UNCHANGED <<part, memVars, heapVars, volVars, grantVars,
                                 iommuVars, loaderVars>>
GrantsRuns ==
    part = "Grants" /\ UNCHANGED <<part, memVars, heapVars, volVars, futexVars,
                                  iommuVars, loaderVars>>
IommuRuns ==
    part = "Iommu" /\ UNCHANGED <<part, memVars, heapVars, volVars, futexVars,
                                 grantVars, loaderVars>>
LoaderRuns ==
    part = "Loader" /\ UNCHANGED <<part, memVars, heapVars, volVars, futexVars,
                                  grantVars, iommuVars>>

Next ==
    \/ MemoryRuns /\ MemNext
    \/ HeapRuns /\ HeapNext
    \/ VolumeRuns /\ VolNext
    \/ FutexRuns /\ FutexNext
    \/ GrantsRuns /\ GrantNext
    \/ IommuRuns /\ Io!IommuNext
    \/ LoaderRuns /\ Ld!LoaderNext

vars == <<part, memVars, heapVars, volVars, futexVars, grantVars,
          iommuVars, loaderVars>>

Spec == Init /\ [][Next]_vars

-----------------------------------------------------------------------------
(* The variables of the running part have their types, and the futex       *)
(* table, the ledgers and the allocators keep their capacities.            *)
TypeOK ==
    /\ part \in Parts
    /\ part = "Memory" => MemTypeOK
    /\ part = "Volume" => VolTypeOK
    /\ part = "Futex" => FutexTypeOK
    /\ part = "Grants" => GrantTypeOK
    /\ part = "Iommu" => Io!IommuTypeOK
    /\ part = "Loader" => Ld!LoaderTypeOK

(* A page's reference count is the number of leaves, tables, shared-memory *)
(* objects and operations in progress that hold it, one more when the      *)
(* cache of library pages does (process.rs:2016-2018), but for the pages   *)
(* that Memory counts as lost; it is busy exactly while referenced, and no *)
(* assertion of free_page has fired.                                       *)
FramesExact ==
    /\ part = "Memory" => FramesAccounted
    /\ part = "Loader" => Ld!LibraryPagesCounted

(* What a process and a device reach is their own.  A page that a process  *)
(* writes without a fault is mapped nowhere else, whatever fork, faults,   *)
(* exec and exit happened before (clone_user_address_space,                *)
(* resolve_cow_fault); the images of a process are linked for its own      *)
(* space although their read-only pages are shared (load_dynamic_runtime); *)
(* and the SMMU translates to live buffers only (iommu.rs).  Excepted are  *)
(* a page two threads raced for (paging.rs:1264), a text word two loads    *)
(* relocated (process.rs:2137) and what an owed invalidation covers        *)
(* (iommu.rs:489).                                                         *)
MemoryIsolated ==
    /\ part = "Memory" => PrivateWrites
    /\ part = "Loader" => Ld!ImagesLinked
    /\ part = "Iommu" => Io!DmaConfined

(* The heap never corrupts itself: its blocks tile the region, the free    *)
(* list names each free block once, free neighbours are merged, and every  *)
(* pointer handed out passes the checks of dealloc (heap_free_list.rs).    *)
HeapConsistent == part = "Heap" => HeapSound
=============================================================================
