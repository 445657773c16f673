------------------------------- MODULE Iommu -------------------------------
(***************************************************************************)
(* The SMMUv3 domain manager (microkernel iommu.rs).  A driver that opts   *)
(* in gets a domain for its requester id and DMA buffers mapped in it; the *)
(* SMMU caches stream table entries and translations whenever the device   *)
(* accesses memory, and forgets them only when it executes an invalidation *)
(* from the command queue.  One call at a time, as the boot-time self test *)
(* makes them; the SMMU and the device run between its steps.              *)
(***************************************************************************)
EXTENDS Integers, Sequences, FiniteSets, FiniteSetsExt, TLC

CONSTANTS
  IO_PAGES,        \* physical pages 1 .. IO_PAGES
  STREAM_PAGES,    \* pages of the stream table, a power of two: its alignment
  STREAM_ENTRIES,  \* requester ids the stream table has entries for
  Sid,             \* requester ids of the devices
  IOVA_PAGES,      \* pages of the window DMA_IOVA_BASE .. DMA_IOVA_END
  L3_SPAN,         \* IOVA pages one L3 table translates (512)
  CMDQ_ENTRIES,
  MaxDomain, MaxDma, MaxLate   \* bounds: domains, buffers, commands given up

VARIABLES
  ioready,     \* READY, or "failed" when init gave up
  iofree,      \* free physical pages
  strtab,      \* stream table: requester id -> entry
  stecache,    \* the SMMU's copies of entries
  s2,          \* root page -> its L2 and L3 tables and its leaves
  tlb,         \* the SMMU's cached translations
  cmdq,        \* [slots, prod, reg, cons]: cmd_prod and the two registers
  doms,        \* DOMAINS
  next_domain, \* NEXT_DOMAIN
  dmabufs,     \* DmaBuffers the driver holds
  iocall,      \* the call under way
  owed,        \* history: invalidations the SMMU did not execute when they were due
  iobudget

iommuVars == <<ioready, iofree, strtab, stecache, s2, tlb, cmdq, doms, next_domain,
               dmabufs, iocall, owed, iobudget>>

IoPage == 1 .. IO_PAGES
Iova == 0 .. IOVA_PAGES - 1
L3Index == 0 .. (IOVA_PAGES - 1) \div L3_SPAN
Bypass == [root |-> 0, vmid |-> 0]
Uncached == [root |-> -1, vmid |-> 0]
EmptyTable == [l2 |-> 0, l3 |-> [k \in L3Index |-> 0], leaf |-> [i \in Iova |-> 0]]
Idle == [pc |-> "idle"]

-----------------------------------------------------------------------------
(* Pages. *)

Runs(n) == {p \in IoPage : p .. p + n - 1 \subseteq iofree}
alloc_page == Min(iofree)

\* A run long enough to hold an aligned one; what lies before and after it is
\* given back.
alloc_aligned_pages(pages, align) ==
  LET raw == Min(Runs(pages + align - 1)) IN
  ((raw + align - 1) \div align) * align

TablePages(root) ==
  {root} \cup (({s2[root].l2} \cup {s2[root].l3[k] : k \in L3Index}) \ {0})

\* free_s2_tables: the L3 tables, the L2 table and the root.
free_s2_tables(root) == iofree \cup TablePages(root)

-----------------------------------------------------------------------------
(* init: the stream table with every requester id in bypass, the queues, and *)
(* CR0.  Without memory, or without the SMMU's acknowledgement, it gives up.  *)

wait_ack == {TRUE, FALSE}

iommu_init ==
  /\ ioready = "off"
  /\ \E ack \in wait_ack :
       IF Runs(2 * STREAM_PAGES - 1) = {} THEN ioready' = "failed" /\ UNCHANGED iofree
       ELSE LET stream == alloc_aligned_pages(STREAM_PAGES, STREAM_PAGES)
                left == iofree \ (stream .. stream + STREAM_PAGES - 1)
                queues == {p \in left : Cardinality({q \in left : q < p}) < 2} IN
            /\ iofree' = left \ queues
            /\ ioready' = IF Cardinality(queues) = 2 /\ ack THEN "ready" ELSE "failed"
  /\ UNCHANGED <<strtab, stecache, s2, tlb, cmdq, doms, next_domain, dmabufs, iocall,
                 owed, iobudget>>

-----------------------------------------------------------------------------
(* The command queue. *)

Wrap(i) == i % (2 * CMDQ_ENTRIES)

\* cmdq_submit writes the command and the producer register, ...  After a
\* command was given up cmd_prod lags: once the SMMU has consumed that one, the
\* next passes at once and is never executed.
cmdq_submit ==
  /\ iocall.pc = "submit"
  /\ cmdq' = [cmdq EXCEPT !.slots[cmdq.prod % CMDQ_ENTRIES] = Head(iocall.todo),
                          !.reg = Wrap(cmdq.prod + 1)]
  /\ iocall' = [iocall EXCEPT !.pc = "wait"]
  /\ owed' = IF cmdq.cons = Wrap(cmdq.prod + 1) THEN owed \cup {Head(iocall.todo)} ELSE owed
  /\ UNCHANGED <<ioready, iofree, strtab, stecache, s2, tlb, doms, next_domain, dmabufs,
                 iobudget>>

\* ... then waits until the consumer has passed it.
CommandPassed ==
  /\ iocall.pc = "wait" /\ cmdq.cons = Wrap(cmdq.prod + 1)
  /\ cmdq' = [cmdq EXCEPT !.prod = Wrap(@ + 1)]
  /\ iocall' = [iocall EXCEPT !.todo = Tail(@), !.pc = IF Len(iocall.todo) = 1 THEN iocall.then ELSE "submit"]
  /\ UNCHANGED <<ioready, iofree, strtab, stecache, s2, tlb, doms, next_domain, dmabufs,
                 owed, iobudget>>

\* invalidate_ste, invalidate_vmid: the command, then a CMD_SYNC.
Invalidate(cmd, then) == [pc |-> "submit", todo |-> << cmd, [op |-> "sync", of |-> 0] >>, then |-> then]

Cfgi(sid) == [op |-> "cfgi", of |-> sid]
Tlbi(vmid) == [op |-> "tlbi", of |-> vmid]

\* The SMMU executes the next command.
SmmuConsumes ==
  /\ cmdq.cons # cmdq.reg
  /\ LET cmd == cmdq.slots[cmdq.cons % CMDQ_ENTRIES] IN
     /\ stecache' = IF cmd.op = "cfgi" THEN [stecache EXCEPT ![cmd.of] = Uncached] ELSE stecache
     /\ tlb' = IF cmd.op = "tlbi" THEN {e \in tlb : e.vmid # cmd.of} ELSE tlb
     /\ owed' = owed \ {cmd}
  /\ cmdq' = [cmdq EXCEPT !.cons = Wrap(@ + 1)]
  /\ UNCHANGED <<ioready, iofree, strtab, s2, doms, next_domain, dmabufs, iocall, iobudget>>

-----------------------------------------------------------------------------
(* create_domain. *)

DomainOf(id) == CHOOSE d \in doms : d.id = id
VmidOf(id) == ((id - 1) % 65534) + 1

\* A requester id outside the table: the root page is given back.
create_domain_invalid(sid) ==
  /\ iocall = Idle /\ ioready = "ready" /\ next_domain <= MaxDomain
  /\ iofree # {} /\ sid >= STREAM_ENTRIES
  /\ next_domain' = next_domain + 1
  /\ UNCHANGED <<ioready, iofree, strtab, stecache, s2, tlb, cmdq, doms, dmabufs, iocall,
                 owed, iobudget>>

create_domain(sid) ==
  /\ iocall = Idle /\ ioready = "ready" /\ next_domain <= MaxDomain
  /\ sid < STREAM_ENTRIES /\ \A d \in doms : d.sid # sid
  /\ iofree # {}
  /\ iofree' = iofree \ {alloc_page}
  /\ s2' = [s2 EXCEPT ![alloc_page] = EmptyTable]
  /\ next_domain' = next_domain + 1
  /\ strtab' = [strtab EXCEPT ![sid] = [root |-> alloc_page, vmid |-> VmidOf(next_domain)]]
  /\ iocall' = Invalidate(Cfgi(sid), "push") @@
               [dom |-> [id |-> next_domain, sid |-> sid, vmid |-> VmidOf(next_domain), root |-> alloc_page,
                         maps |-> {}]]
  /\ UNCHANGED <<ioready, stecache, tlb, cmdq, doms, dmabufs, owed, iobudget>>

PushDomain ==
  /\ iocall.pc = "push"
  /\ doms' = doms \cup {iocall.dom} /\ iocall' = Idle
  /\ UNCHANGED <<ioready, iofree, strtab, stecache, s2, tlb, cmdq, next_domain, dmabufs,
                 owed, iobudget>>

-----------------------------------------------------------------------------
(* alloc_dma: contiguous pages, then map_contiguous. *)

Slots(m) == m.iova .. m.iova + m.pages - 1

\* From a candidate that collides with a mapping the search goes on at its end.
choose_iova(maps, pages) ==
  LET Colliding(c) == {m \in maps : Slots(m) \cap (c .. c + pages - 1) # {}}
      From[c \in 0 .. IOVA_PAGES] ==
        IF c + pages > IOVA_PAGES THEN -1
        ELSE IF Colliding(c) = {} THEN c
        ELSE LET m == CHOOSE m \in Colliding(c) : TRUE IN From[m.iova + m.pages]
  IN From[0]

alloc_dma(id, pages) ==
  /\ iocall = Idle /\ iobudget.dma < MaxDma
  /\ iobudget' = [iobudget EXCEPT !.dma = @ + 1]
  /\ Runs(pages) # {}
  /\ LET base == Min(Runs(pages))
         iova == choose_iova(DomainOf(id).maps, pages) IN
     /\ iova # -1
     /\ iofree' = iofree \ (base .. base + pages - 1)
     /\ iocall' = [pc |-> "map", dom |-> DomainOf(id), done |-> 0,
                   m |-> [iova |-> iova, phys |-> base, pages |-> pages]]
  /\ UNCHANGED <<ioready, strtab, stecache, s2, tlb, cmdq, doms, next_domain, dmabufs, owed>>

\* s2_map_page: a missing L2 or L3 table is allocated, or there is no memory.
NewTables(t, k) == (IF t.l2 = 0 THEN 1 ELSE 0) + (IF t.l3[k] = 0 THEN 1 ELSE 0)
s2_map_page ==
  LET root == iocall.dom.root
      i == iocall.m.iova + iocall.done
      k == i \div L3_SPAN
      t == s2[root]
      l2 == IF t.l2 = 0 THEN alloc_page ELSE t.l2
      l3 == IF t.l3[k] = 0 THEN Min(iofree \ {l2}) ELSE t.l3[k] IN
  /\ iocall.pc = "map" /\ iocall.done < iocall.m.pages
  /\ Cardinality(iofree) >= NewTables(t, k)
  /\ s2' = [s2 EXCEPT ![root] = [l2 |-> l2, l3 |-> [@.l3 EXCEPT ![k] = l3],
                                 leaf |-> [@.leaf EXCEPT ![i] = iocall.m.phys + iocall.done]]]
  /\ iofree' = iofree \ {l2, l3}
  /\ iocall' = [iocall EXCEPT !.done = @ + 1]
  /\ UNCHANGED <<ioready, strtab, stecache, tlb, cmdq, doms, next_domain, dmabufs,
                 owed, iobudget>>

Unmapped(root, slots) ==
  [s2 EXCEPT ![root].leaf = [i \in Iova |-> IF i \in slots THEN 0 ELSE @[i]]]

\* No memory for a table: the leaves made so far are taken back, and alloc_dma
\* gives the pages back.  An L2 table that was made stays.  No invalidation is
\* sent, although the device may have used the leaves.
map_contiguous_fails ==
  LET root == iocall.dom.root
      m == iocall.m
      k == (m.iova + iocall.done) \div L3_SPAN
      t == s2[root]
      l2 == IF t.l2 = 0 /\ iofree # {} THEN alloc_page ELSE t.l2 IN
  /\ iocall.pc = "map" /\ iocall.done < m.pages
  /\ Cardinality(iofree) < NewTables(t, k)
  /\ s2' = [Unmapped(root, Slots(m)) EXCEPT ![root].l2 = l2]
  /\ iofree' = (iofree \ {l2}) \cup (m.phys .. m.phys + m.pages - 1)
  /\ owed' = owed \cup {Tlbi(iocall.dom.vmid) : n \in 1 .. iocall.done}
  /\ iocall' = Idle
  /\ UNCHANGED <<ioready, strtab, stecache, tlb, cmdq, doms, next_domain, dmabufs, iobudget>>

Replace(d, maps) == (doms \ {d}) \cup {[d EXCEPT !.maps = maps]}

map_contiguous ==
  /\ iocall.pc = "map" /\ iocall.done = iocall.m.pages
  /\ doms' = Replace(iocall.dom, iocall.dom.maps \cup {iocall.m})
  /\ iocall' = Invalidate(Tlbi(iocall.dom.vmid), "mapped") @@ [dom |-> iocall.dom, m |-> iocall.m]
  /\ UNCHANGED <<ioready, iofree, strtab, stecache, s2, tlb, cmdq, next_domain, dmabufs,
                 owed, iobudget>>

BufferOf(c) == [dom |-> c.dom.id, iova |-> c.m.iova, phys |-> c.m.phys, pages |-> c.m.pages]
DmaMapped ==
  /\ iocall.pc = "mapped"
  /\ dmabufs' = dmabufs \cup {BufferOf(iocall)} /\ iocall' = Idle
  /\ UNCHANGED <<ioready, iofree, strtab, stecache, s2, tlb, cmdq, doms, next_domain,
                 owed, iobudget>>

-----------------------------------------------------------------------------
(* free_dma and destroy_domain. *)

unmap(b) ==
  LET d == DomainOf(b.dom)
      m == [iova |-> b.iova, phys |-> b.phys, pages |-> b.pages] IN
  /\ iocall = Idle
  /\ doms' = Replace(d, d.maps \ {m})
  /\ s2' = Unmapped(d.root, Slots(m))
  /\ dmabufs' = dmabufs \ {b}
  /\ iocall' = Invalidate(Tlbi(d.vmid), "release") @@ [dom |-> d, m |-> m]
  /\ UNCHANGED <<ioready, iofree, strtab, stecache, tlb, cmdq, next_domain, owed, iobudget>>

free_dma ==
  /\ iocall.pc = "release"
  /\ iofree' = iofree \cup (iocall.m.phys .. iocall.m.phys + iocall.m.pages - 1)
  /\ iocall' = Idle
  /\ UNCHANGED <<ioready, strtab, stecache, s2, tlb, cmdq, doms, next_domain, dmabufs,
                 owed, iobudget>>

\* Busy while the domain has mappings.
destroy_domain(d) ==
  /\ iocall = Idle /\ d.maps = {}
  /\ doms' = doms \ {d}
  /\ strtab' = [strtab EXCEPT ![d.sid] = Bypass]
  /\ iocall' = Invalidate(Cfgi(d.sid), "tables") @@ [dom |-> d]
  /\ UNCHANGED <<ioready, iofree, stecache, s2, tlb, cmdq, next_domain, dmabufs, owed,
                 iobudget>>

FreeTables ==
  /\ iocall.pc = "tables"
  /\ iofree' = free_s2_tables(iocall.dom.root)
  /\ iocall' = Idle
  /\ UNCHANGED <<ioready, strtab, stecache, s2, tlb, cmdq, doms, next_domain, dmabufs,
                 owed, iobudget>>

-----------------------------------------------------------------------------
(* The SMMU is too slow for the poll: Hardware.  create_domain puts the     *)
(* entry back in bypass and frees the root; alloc_dma frees the pages, the  *)
(* mapping stays; free_dma and destroy_domain return, their pages are lost. *)
(* What create_domain takes back it does not invalidate again.              *)

Hardware ==
  /\ iocall.pc = "wait" /\ cmdq.cons # Wrap(cmdq.prod + 1)
  /\ iobudget.late < MaxLate
  /\ iobudget' = [iobudget EXCEPT !.late = @ + 1]
  /\ owed' = owed \cup (IF iocall.then = "push" THEN {Cfgi(iocall.dom.sid)}
                         ELSE {Head(iocall.todo)})
  /\ strtab' = IF iocall.then = "push" THEN [strtab EXCEPT ![iocall.dom.sid] = Bypass] ELSE strtab
  /\ iofree' = CASE iocall.then = "push" -> iofree \cup {iocall.dom.root}
                 [] iocall.then = "mapped" -> iofree \cup (iocall.m.phys .. iocall.m.phys + iocall.m.pages - 1)
                 [] OTHER -> iofree
  /\ iocall' = Idle
  /\ UNCHANGED <<ioready, stecache, s2, tlb, cmdq, doms, next_domain, dmabufs>>

-----------------------------------------------------------------------------
(* The device accesses memory at any time, addresses it no longer has       *)
(* included; the SMMU keeps the entry and the translation it used.          *)

Dma(sid, i) ==
  LET ste == IF stecache[sid] # Uncached THEN stecache[sid] ELSE strtab[sid]
      pa == s2[ste.root].leaf[i]
      hit == \E e \in tlb : e.vmid = ste.vmid /\ e.iova = i IN
  /\ ioready = "ready" /\ sid < STREAM_ENTRIES
  /\ stecache' = [stecache EXCEPT ![sid] = ste]
  /\ tlb' = IF ste = Bypass \/ hit \/ pa = 0 THEN tlb
            ELSE tlb \cup {[vmid |-> ste.vmid, iova |-> i, pa |-> pa]}
  /\ UNCHANGED <<ioready, iofree, strtab, s2, cmdq, doms, next_domain, dmabufs, iocall,
                 owed, iobudget>>

-----------------------------------------------------------------------------
IommuInit ==
  /\ ioready = "off" /\ iofree \in {n .. IO_PAGES : n \in IoPage}
  /\ strtab = [s \in Sid |-> Bypass] /\ stecache = [s \in Sid |-> Uncached]
  /\ s2 = [p \in {0} \cup IoPage |-> EmptyTable] /\ tlb = {}
  /\ cmdq = [slots |-> [k \in 0 .. CMDQ_ENTRIES - 1 |-> Cfgi(0)], prod |-> 0, reg |-> 0, cons |-> 0]
  /\ doms = {} /\ next_domain = 1 /\ dmabufs = {} /\ iocall = Idle
  /\ owed = {} /\ iobudget = [dma |-> 0, late |-> 0]

\* The calls the self test makes, in any order that a driver may make them.
Driver ==
  \/ \E s \in Sid : create_domain(s) \/ create_domain_invalid(s)
  \/ \E d \in doms : \E n \in 1 .. 2 : alloc_dma(d.id, n)
  \/ \E b \in dmabufs : unmap(b)
  \/ \E d \in doms : destroy_domain(d)

IommuNext ==
  \/ iommu_init \/ Driver
  \/ cmdq_submit \/ CommandPassed \/ Hardware
  \/ PushDomain \/ s2_map_page \/ map_contiguous_fails \/ map_contiguous \/ DmaMapped
  \/ free_dma \/ FreeTables
  \/ SmmuConsumes \/ \E s \in Sid : \E i \in Iova : Dma(s, i)

IommuSpec == IommuInit /\ [][IommuNext]_iommuVars

-----------------------------------------------------------------------------
IommuTypeOK ==
  /\ ioready \in {"off", "failed", "ready"} /\ iofree \subseteq IoPage
  /\ cmdq.prod \in 0 .. 2 * CMDQ_ENTRIES - 1 /\ cmdq.cons \in 0 .. 2 * CMDQ_ENTRIES - 1
  /\ Cardinality(doms) <= Cardinality(Sid) /\ next_domain \in 1 .. MaxDomain + 1
  /\ \A c \in owed : c.op \in {"cfgi", "tlbi", "sync"}

Live == doms \cup (IF "dom" \in DOMAIN iocall THEN {iocall.dom} ELSE {})
Pages(m) == m.phys .. m.phys + m.pages - 1

\* The buffers the driver has, or that are being mapped or unmapped, ...
Held(vmid) ==
  {[iova |-> b.iova, phys |-> b.phys, pages |-> b.pages] :
     b \in {b \in dmabufs : VmidOf(b.dom) = vmid}} \cup
  (IF "m" \in DOMAIN iocall /\ iocall.dom.vmid = vmid THEN {iocall.m} ELSE {})
\* ... and the mappings that stay when alloc_dma fails in its invalidation.
Stranded(d) == d.maps \ Held(d.vmid)

(* DMA stays where the driver was given it, as long as the SMMU executes   *)
(* what it is told (iommu.rs:730-731: "without leaking a physical page or  *)
(* stale translation").  The device of a domain never goes past its table, *)
(* an entry the SMMU uses has the root of a live domain, and a cached      *)
(* translation leads to a page of a buffer mapped at that address or being *)
(* unmapped; each unless the invalidation it hangs on is owed: given up    *)
(* (:489), skipped after one that was, or not sent when a mapping is taken *)
(* back half made (:441-453), and only until the SMMU executes one.  A     *)
(* mapping that alloc_dma left behind is excepted for good.  Whatever is   *)
(* owed, no root, table or buffer is free or serves twice.                 *)
DmaConfined ==
  /\ \A s \in Sid : \A ste \in {strtab[s], stecache[s]} \ {Bypass, Uncached} :
       \/ \E d \in Live : d.root = ste.root /\ d.vmid = ste.vmid /\ d.sid = s
       \/ ste # strtab[s] /\ Cfgi(s) \in owed
  /\ \A d \in doms :
       \/ stecache[d.sid] \in {Uncached, [root |-> d.root, vmid |-> d.vmid]}
       \/ Cfgi(d.sid) \in owed
  /\ \A d \in Live : \A e \in {e \in tlb : e.vmid = d.vmid} :
       \/ \E m \in Held(d.vmid) : e.iova \in Slots(m) /\ e.pa = m.phys + (e.iova - m.iova)
       \/ \E m \in Stranded(d) : e.iova \in Slots(m)
       \/ Tlbi(d.vmid) \in owed
  /\ \A d \in doms :
       /\ TablePages(d.root) \cap iofree = {}
       /\ \A b \in dmabufs : Pages(b) \cap (iofree \cup TablePages(d.root)) = {}
       /\ \A m, n \in d.maps : m # n => Slots(m) \cap Slots(n) = {}
  /\ \A b, c \in dmabufs : b # c => Pages(b) \cap Pages(c) = {}
=============================================================================
