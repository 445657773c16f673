------------------------------- MODULE Memory -------------------------------
(***************************************************************************)
(* The owners of physical memory: processes with address spaces (spawn,    *)
(* fork, exec, brk, copy-on-write faults, exit), shared-memory objects     *)
(* (microkernel/src/shm.rs), device leases (syscalls.rs) and the boot file *)
(* system pages every process maps (rootfs.rs).                            *)
(*                                                                         *)
(* A thread runs one operation at a time.  Operations that drop a lock     *)
(* between two steps take one action per locked step, so the steps of      *)
(* threads on different CPUs interleave: the fault handler reads a page's  *)
(* reference count, allocates, frees and updates the leaf in four steps;   *)
(* shared-memory map, release and grant check under one lock and commit    *)
(* under another; a reaped process is forgotten table first, hooks next,   *)
(* address space last.  The handler takes no lock of the space, so threads *)
(* of one process race in it; raced names the pages that suffer.           *)
(***************************************************************************)
EXTENDS Paging

CONSTANTS
    Slot,               \* process table slots
    Thread,             \* threads that can run
    SlotOf,             \* the process each thread belongs to
    CallMixes,          \* groups of system calls a behaviour may use together
    MaxCalls,           \* bound: system calls and faults of a behaviour
    MaxPid,             \* bound: processes ever created
    MaxRegionId,        \* bound: shared-memory objects ever created
    MAX_REGIONS,        \* shm.rs: objects that may exist
    MAX_MAPPINGS        \* shm.rs: mappings that may exist

VARIABLES
    mm,         \* the memory state of module Paging
    proc,       \* proc[s]: the record in slot s
    nextPid,    \* NEXT_PID
    regions,    \* REGIONS
    maps,       \* MAPPINGS
    nextId,     \* NEXT_ID
    leases,     \* MMIO_LEASES: references of the space's lease
    op,         \* op[t]: the operation thread t is in the middle of
    reaping,    \* records taken out of the table and not yet forgotten
    raced,      \* history: pages whose count a race of two threads has spoilt
    Calls,      \* the groups of calls of this behaviour
    calls       \* calls made so far

memVars == <<mm, proc, nextPid, regions, maps, nextId, leases, op, reaping,
             raced, Calls, calls>>

Pid == 1 .. MaxPid
NoProc == [pid |-> 0, st |-> "none", space |-> 0, brk |-> 0]
Idle == [pc |-> "idle"]
Absent == [pc |-> "absent"]                 \* a thread that was not created
Main(t) == \A u \in Thread : SlotOf[u] = SlotOf[t] => t <= u

(* The boot file system is copied into contiguous pages once, at boot, and  *)
(* the cache keeps the base reference.                                      *)
BootPages == alloc_contiguous(init(1), 1)
bootfs == BootPages.page

MemInit ==
    /\ mm = [a |-> BootPages.a, tab |-> [s \in Spaces |-> EmptyTables],
             pte |-> [s \in Spaces |-> EmptyLeaves], lost |-> [p \in Page |-> 0], panic |-> FALSE]
    /\ proc = [s \in Slot |-> NoProc]
    /\ nextPid = 1
    /\ regions = {}
    /\ maps = {}
    /\ nextId = 1
    /\ leases = [s \in Space |-> 0]
    /\ op = [t \in Thread |-> IF Main(t) THEN Idle ELSE Absent]
    /\ reaping = {}
    /\ raced = {}
    /\ Calls \in CallMixes
    /\ calls = 0

Live(s) == proc[s].st = "live"
PidLive(pid) == \E s \in Slot : proc[s].pid = pid
FirstFree(s) == proc[s].st = "none" /\ \A x \in Slot : x < s => proc[x].st # "none"
Unused(s) == (\A x \in Slot : proc[x].space # s) /\ (\A x \in reaping : x.space # s)
FreshSpace(s) == Unused(s) /\ \A x \in Space : x < s => ~Unused(x)
Runs(t) == Live(SlotOf[t]) /\ op[t] = Idle
MyPid(t) == proc[SlotOf[t]].pid
MySpace(t) == proc[SlotOf[t]].space

---------------------------------------------------------------------------
(* Program images: text, stack and the shared boot file system, mapped in   *)
(* this order into a new space (spawn_user_from_bootfs, exec_load).         *)
retain_and_map_ro(r, s) ==
    LET y == install_leaf_descriptor(Retain(r.M, bootfs), s, BOOTFS, Leaf(bootfs, "ro"))
    IN IF ~r.ok THEN r ELSE IF y.ok THEN y ELSE Err(Free(y.M, bootfs))

BuildImage(M, s) ==
    retain_and_map_ro(MapFresh(MapFresh(create_user_address_space(M, s), s, TEXT, "ro"),
                               s, STACK, "rw"), s)

(* Every page of space s is forgotten: the error return of spawn leaves the *)
(* function before the half-built space is handed to anyone, and an exit    *)
(* without a living parent drops the space it took from its record.         *)
Abandon(M, s) ==
    [M EXCEPT !.lost = [p \in Page |-> IF p = NoPage THEN 0 ELSE
                           @[p] + Cardinality({va \in Owned(M, s) : M.pte[s][va].pa = p})
                                + Cardinality({t \in Table : M.tab[s][t] = p})],
              !.tab[s] = EmptyTables, !.pte[s] = EmptyLeaves]

spawn_user_from_bootfs(s, sp) ==
    /\ FirstFree(s) /\ nextPid <= MaxPid /\ FreshSpace(sp)
    /\ create_user_address_space(mm, sp).ok     \* AddressSpace::new panics otherwise
    /\ LET r == BuildImage(mm, sp)
       IN IF r.ok
          THEN /\ mm' = r.M
               /\ proc' = [proc EXCEPT ![s] = [pid |-> nextPid, st |-> "live",
                                               space |-> sp, brk |-> 0]]
          ELSE /\ mm' = Abandon(r.M, sp)
               /\ proc' = [proc EXCEPT ![s] = [pid |-> nextPid, st |-> "stillborn",
                                               space |-> 0, brk |-> 0]]
    /\ nextPid' = nextPid + 1
    /\ UNCHANGED <<regions, maps, nextId, leases, op, reaping>>

fork(t, s, sp) ==
    /\ Runs(t) /\ FirstFree(s) /\ nextPid <= MaxPid /\ FreshSpace(sp)
    /\ LET r == clone_user_address_space(mm, MySpace(t), sp)
       IN /\ mm' = r.M
          /\ proc' = IF ~r.ok THEN proc
                     ELSE [proc EXCEPT ![s] = [pid |-> nextPid, st |-> "live", space |-> sp,
                                               brk |-> proc[SlotOf[t]].brk]]
    /\ nextPid' = nextPid + 1
    /\ UNCHANGED <<regions, maps, nextId, leases, op, reaping>>

(* exec: the new image is complete before the old one goes.                 *)
exec_load(t, sp) ==
    /\ Runs(t) /\ FreshSpace(sp) /\ create_user_address_space(mm, sp).ok
    /\ \A u \in Thread : SlotOf[u] = SlotOf[t] => u = t \/ op[u] = Absent
    /\ LET r == BuildImage(mm, sp)
           old == MySpace(t)
       IN IF r.ok
          THEN /\ mm' = destroy_user_address_space(r.M, old)
               /\ proc' = [proc EXCEPT ![SlotOf[t]].space = sp, ![SlotOf[t]].brk = 0]
               /\ leases' = [leases EXCEPT ![old] = 0]
          ELSE /\ mm' = destroy_user_address_space(r.M, sp)
               /\ UNCHANGED <<proc, leases>>
    /\ UNCHANGED <<nextPid, regions, maps, nextId, op, reaping>>

(* thread_create: u shares the space of its creator.                        *)
thread_create(t, u) ==
    /\ Runs(t) /\ SlotOf[u] = SlotOf[t] /\ op[u] = Absent
    /\ op' = [op EXCEPT ![u] = Idle]
    /\ UNCHANGED <<mm, proc, nextPid, regions, maps, nextId, leases, reaping>>

(* brk to n heap pages.                                                     *)
sys_brk(t, n) ==
    /\ Runs(t) /\ n # proc[SlotOf[t]].brk
    /\ LET cur == proc[SlotOf[t]].brk
           grown == map_heap_region(mm, MySpace(t), {HEAP[i] : i \in cur + 1 .. n})
       IN IF n > cur
          THEN /\ mm' = grown.M
               /\ proc' = IF grown.ok THEN [proc EXCEPT ![SlotOf[t]].brk = n] ELSE proc
          ELSE /\ mm' = clear_user_leaf_range(mm, MySpace(t), {HEAP[i] : i \in n + 1 .. cur})
               /\ proc' = [proc EXCEPT ![SlotOf[t]].brk = n]
    /\ UNCHANGED <<nextPid, regions, maps, nextId, leases, op, reaping>>

---------------------------------------------------------------------------
(* handle_cow_fault: a write to a COW page.                                 *)
Steps(t, o) == op' = [op EXCEPT ![t] = o]
Finish(t) == Steps(t, Idle)

cow_read(t, va) ==
    /\ Runs(t)
    /\ LET leaf == mm.pte[MySpace(t)][va]
       IN /\ leaf.class = "cow"
          /\ Steps(t, [pc |-> IF ref_count(mm.a, leaf.pa) > 1 THEN "cow_alloc" ELSE "cow_update",
                       va |-> va, old |-> leaf.pa, new |-> leaf.pa])
    /\ UNCHANGED <<mm, proc, nextPid, regions, maps, nextId, leases, reaping>>

(* Without a page for the copy the fault is not handled, and the process    *)
(* is terminated by the signal (Exit below).                                *)
cow_alloc(t) ==
    /\ op[t].pc = "cow_alloc"
    /\ LET x == alloc_page(mm.a)
       IN IF x.ok
          THEN /\ mm' = [mm EXCEPT !.a = x.a]
               /\ Steps(t, [op[t] EXCEPT !.pc = "cow_free", !.new = x.page])
          ELSE Finish(t) /\ UNCHANGED mm
    /\ UNCHANGED <<proc, nextPid, regions, maps, nextId, leases, reaping>>

cow_free(t) ==
    /\ op[t].pc = "cow_free"
    /\ mm' = Free(mm, op[t].old)
    /\ Steps(t, [op[t] EXCEPT !.pc = "cow_update"])
    /\ UNCHANGED <<proc, nextPid, regions, maps, nextId, leases, reaping>>

cow_update(t) ==
    /\ op[t].pc = "cow_update"
    /\ mm' = [mm EXCEPT !.pte[MySpace(t)][op[t].va] = Leaf(op[t].new, "rw")]
    /\ Finish(t)
    /\ UNCHANGED <<proc, nextPid, regions, maps, nextId, leases, reaping>>

(* The pages of a thread in the handler whose leaf another thread of its    *)
(* process handles at the same time, has replaced, or has shared by a fork  *)
(* after the count was read.                                                *)
InHandler(t) == op[t].pc \in {"cow_alloc", "cow_free", "cow_update"}
Racing(t) ==
    \/ \E u \in Thread \ {t} : SlotOf[u] = SlotOf[t] /\ InHandler(u) /\ op[u].va = op[t].va
    \/ mm.pte[MySpace(t)][op[t].va].pa # op[t].old
    \/ op[t].pc = "cow_update" /\ op[t].new = op[t].old /\ ref_count(mm.a, op[t].old) # 1
    \/ op[t].old \in raced
Raced == raced \cup UNION {{op[t].old, op[t].new} : t \in {u \in Thread : InHandler(u) /\ Racing(u)}}

---------------------------------------------------------------------------
(* Device leases: one hardware mapping per space, counted.                  *)
acquire_mmio(t) ==
    /\ Runs(t) /\ leases[MySpace(t)] < 2        \* bound: references of a lease
    /\ LET s == MySpace(t)
           r == install_leaf_descriptor(mm, s, MMIO, Leaf(NoPage, "device"))
       IN IF leases[s] > 0
          THEN leases' = [leases EXCEPT ![s] = @ + 1] /\ UNCHANGED mm
          ELSE /\ mm' = r.M
               /\ leases' = IF r.ok THEN [leases EXCEPT ![s] = 1] ELSE leases
    /\ UNCHANGED <<proc, nextPid, regions, maps, nextId, op, reaping>>

release_mmio(t) ==
    /\ Runs(t) /\ leases[MySpace(t)] > 0
    /\ leases' = [leases EXCEPT ![MySpace(t)] = @ - 1]
    /\ mm' = IF leases[MySpace(t)] > 1 THEN mm
             ELSE unmap_user_device_range(mm, MySpace(t), {MMIO})
    /\ UNCHANGED <<proc, nextPid, regions, maps, nextId, op, reaping>>

---------------------------------------------------------------------------
(* Shared-memory objects of one page.                                       *)
Region(id) == CHOOSE r \in regions : r.id = id
HasRegion(id) == \E r \in regions : r.id = id
holder(r, pid) == r.holders[pid] > 0
SetHolder(r, pid, n) == (regions \ {r}) \cup {[r EXCEPT !.holders[pid] = n]}

create_check(t) ==
    /\ Runs(t) /\ Cardinality(regions) < MAX_REGIONS
    /\ nextId + Cardinality({u \in Thread : op[u].pc = "create"}) <= MaxRegionId
    /\ Steps(t, [pc |-> "create"])
    /\ UNCHANGED <<mm, proc, nextPid, regions, maps, nextId, leases, reaping>>

create(t) ==
    /\ op[t].pc = "create"
    /\ LET x == alloc_page(mm.a)
       IN IF ~x.ok
          THEN Finish(t) /\ UNCHANGED <<mm, regions, nextId>>
          ELSE /\ mm' = [mm EXCEPT !.a = x.a]
               /\ nextId' = nextId + 1
               /\ regions' = regions \cup
                    {[id |-> nextId, owner |-> MyPid(t), page |-> x.page,
                      holders |-> [p \in Pid |-> IF p = MyPid(t) THEN 1 ELSE 0]]}
               /\ Steps(t, [pc |-> "map", id |-> nextId, creating |-> TRUE])
    /\ UNCHANGED <<proc, nextPid, maps, leases, reaping>>

map(t, id) ==
    /\ Runs(t)
    /\ ~ \E m \in maps : m.pid = MyPid(t) /\ m.id = id
    /\ Steps(t, [pc |-> "map", id |-> id, creating |-> FALSE])
    /\ UNCHANGED <<mm, proc, nextPid, regions, maps, nextId, leases, reaping>>

(* First address of the window not under a recorded mapping of the process. *)
Candidates(pid) == {va \in Range(SHM) : ~ \E m \in maps : m.pid = pid /\ m.va = va}

MapFails(t) ==
    Steps(t, IF op[t].creating THEN [pc |-> "destroy", id |-> op[t].id] ELSE Idle)

map_pages(t) ==
    /\ op[t].pc = "map"
    /\ IF ~HasRegion(op[t].id) \/ Candidates(MyPid(t)) = {}
       THEN MapFails(t) /\ UNCHANGED mm
       ELSE LET r == Region(op[t].id)
                va == CHOOSE v \in Candidates(MyPid(t)) :
                          \A w \in Candidates(MyPid(t)) : v <= w
                y == install_leaf_descriptor(Retain(mm, r.page), MySpace(t), va,
                                             Leaf(r.page, "rw"))
            IN IF ~holder(r, MyPid(t)) THEN MapFails(t) /\ UNCHANGED mm
               ELSE IF y.ok
               THEN /\ mm' = y.M
                    /\ Steps(t, [pc |-> "record", id |-> op[t].id, va |-> va,
                                 creating |-> op[t].creating])
               ELSE mm' = Free(y.M, r.page) /\ MapFails(t)
    /\ UNCHANGED <<proc, nextPid, regions, maps, nextId, leases, reaping>>

map_record(t) ==
    /\ op[t].pc = "record"
    /\ IF Cardinality(maps) >= MAX_MAPPINGS
       THEN /\ mm' = clear_user_leaf_range(mm, MySpace(t), {op[t].va})
            /\ MapFails(t) /\ UNCHANGED maps
       ELSE /\ maps' = maps \cup {[pid |-> MyPid(t), id |-> op[t].id, va |-> op[t].va]}
            /\ Finish(t) /\ UNCHANGED mm
    /\ UNCHANGED <<proc, nextPid, regions, nextId, leases, reaping>>

destroy_if_owner_only(t) ==
    /\ op[t].pc = "destroy"
    /\ IF HasRegion(op[t].id)
       THEN /\ mm' = Free(mm, Region(op[t].id).page)
            /\ regions' = regions \ {Region(op[t].id)}
       ELSE UNCHANGED <<mm, regions>>
    /\ Finish(t)
    /\ UNCHANGED <<proc, nextPid, maps, nextId, leases, reaping>>

retain(t, id) ==
    /\ Runs(t) /\ HasRegion(id)
    /\ Region(id).holders[MyPid(t)] = 1         \* bound: references of a holder
    /\ regions' = SetHolder(Region(id), MyPid(t), 2)
    /\ UNCHANGED <<mm, proc, nextPid, maps, nextId, leases, op, reaping>>

grant_check(t, id, target) ==
    /\ Runs(t) /\ PidLive(target)
    /\ Steps(t, [pc |-> "grant", id |-> id, target |-> target])
    /\ UNCHANGED <<mm, proc, nextPid, regions, maps, nextId, leases, reaping>>

grant(t) ==
    /\ op[t].pc = "grant"
    /\ regions' = IF /\ HasRegion(op[t].id)
                     /\ Region(op[t].id).owner = MyPid(t)
                     /\ Region(op[t].id).holders[op[t].target] < 2
                  THEN SetHolder(Region(op[t].id), op[t].target,
                                 Region(op[t].id).holders[op[t].target] + 1)
                  ELSE regions
    /\ Finish(t)
    /\ UNCHANGED <<mm, proc, nextPid, maps, nextId, leases, reaping>>

release(t, id) ==
    /\ Runs(t) /\ HasRegion(id) /\ holder(Region(id), MyPid(t))
    /\ LET n == Region(id).holders[MyPid(t)]
       IN /\ regions' = SetHolder(Region(id), MyPid(t), n - 1)
          /\ Steps(t, [pc |-> IF n > 1 THEN "reap" ELSE "unmap", id |-> id])
    /\ UNCHANGED <<mm, proc, nextPid, maps, nextId, leases, reaping>>

unmap_pid_handle(t) ==
    /\ op[t].pc = "unmap"
    /\ LET mine == {m \in maps : m.pid = MyPid(t) /\ m.id = op[t].id}
       IN /\ maps' = maps \ mine
          /\ mm' = clear_user_leaf_range(mm, MySpace(t), {m.va : m \in mine})
    /\ Steps(t, [op[t] EXCEPT !.pc = "reap"])
    /\ UNCHANGED <<proc, nextPid, regions, nextId, leases, reaping>>

Unheld(r) == \A p \in Pid : r.holders[p] = 0
ReapRegions(dead) ==
    /\ regions' = regions \ dead
    /\ mm' = FreeAll(mm, {r.page : r \in dead})

reap_empty(t) ==
    /\ op[t].pc = "reap"
    /\ ReapRegions({r \in regions : r.id = op[t].id /\ Unheld(r)})
    /\ Finish(t)
    /\ UNCHANGED <<proc, nextPid, maps, nextId, leases, reaping>>

---------------------------------------------------------------------------
(* Death.  An exiting process with a living parent frees its space at once  *)
(* and stays as a zombie record; one without drops the space and is reaped. *)
(* The space goes with the last thread.                                     *)
AllIdle(s) == \A t \in Thread : SlotOf[t] = s => op[t] \in {Idle, Absent}
ThreadsEnd(s) == op' = [t \in Thread |-> IF SlotOf[t] # s THEN op[t]
                                         ELSE IF Main(t) THEN Idle ELSE Absent]

exit_zombie(s) ==
    /\ Live(s) /\ AllIdle(s)
    /\ mm' = destroy_user_address_space(mm, proc[s].space)
    /\ leases' = [leases EXCEPT ![proc[s].space] = 0]
    /\ proc' = [proc EXCEPT ![s].st = "zombie", ![s].space = 0]
    /\ ThreadsEnd(s)
    /\ UNCHANGED <<nextPid, regions, maps, nextId, reaping>>

Forgetting(s, sp) ==
    reaping' = reaping \cup {[pid |-> proc[s].pid, space |-> sp, pc |-> "maps", empty |-> {}]}

exit_reap(s) ==
    /\ Live(s) /\ AllIdle(s)
    /\ mm' = Abandon(mm, proc[s].space)
    /\ leases' = [leases EXCEPT ![proc[s].space] = 0]
    /\ Forgetting(s, 0)
    /\ proc' = [proc EXCEPT ![s] = NoProc]
    /\ ThreadsEnd(s)
    /\ UNCHANGED <<nextPid, regions, maps, nextId>>

(* A zombie delivered to its waiting parent, or taken along when its parent *)
(* is reaped: no hook runs, its pid stays in the tables of shm.             *)
zombie_removed(s) ==
    /\ proc[s].st = "zombie"
    /\ proc' = [proc EXCEPT ![s] = NoProc]
    /\ UNCHANGED <<mm, nextPid, regions, maps, nextId, leases, op, reaping>>

(* full_reap of a live (svc 2) or stillborn process, and waitpid collecting *)
(* a zombie: the record is gone, its pid still has to be forgotten.         *)
take_record(s) ==
    /\ proc[s].st \in {"live", "zombie", "stillborn"} /\ AllIdle(s)
    /\ Forgetting(s, proc[s].space)
    /\ proc' = [proc EXCEPT ![s] = NoProc]
    /\ ThreadsEnd(s)
    /\ UNCHANGED <<mm, nextPid, regions, maps, nextId, leases>>

Reaper(x, y) == reaping' = (reaping \ {x}) \cup y

on_process_gone(x) ==
    \/ /\ x.pc = "maps"
       /\ maps' = {m \in maps : m.pid # x.pid}
       /\ Reaper(x, {[x EXCEPT !.pc = "holders"]})
       /\ UNCHANGED <<mm, regions, leases>>
    \/ /\ x.pc = "holders"
       /\ regions' = {[r EXCEPT !.holders[x.pid] = 0] : r \in regions}
       /\ Reaper(x, {[x EXCEPT !.pc = "reap",
                               !.empty = {r.id : r \in {q \in regions' : Unheld(q)}}]})
       /\ UNCHANGED <<mm, maps, leases>>
    \/ /\ x.pc = "reap"
       /\ ReapRegions({r \in regions : r.id \in x.empty /\ Unheld(r)})
       /\ Reaper(x, IF x.space = 0 THEN {} ELSE {[x EXCEPT !.pc = "destroy", !.empty = {}]})
       /\ UNCHANGED <<maps, leases>>
    \/ /\ x.pc = "destroy"
       /\ mm' = destroy_user_address_space(mm, x.space)
       /\ leases' = [leases EXCEPT ![x.space] = 0]
       /\ Reaper(x, {})
       /\ UNCHANGED <<maps, regions>>

Reap(x) == on_process_gone(x) /\ UNCHANGED <<proc, nextPid, nextId, op>>

---------------------------------------------------------------------------
(* The start of a system call or a fault.                                   *)
Call(t) ==
    \/ \E va \in VA : cow_read(t, va)
    \/ "thread" \in Calls /\ \E u \in Thread : thread_create(t, u)
    \/ "fork" \in Calls /\ \E s \in Slot, sp \in Space : fork(t, s, sp)
    \/ "exec" \in Calls /\ \E sp \in Space : exec_load(t, sp)
    \/ "brk" \in Calls /\ \E n \in 0 .. Len(HEAP) : sys_brk(t, n)
    \/ "mmio" \in Calls /\ (acquire_mmio(t) \/ release_mmio(t))
    \/ /\ "shm" \in Calls
       /\ \/ create_check(t)
          \/ \E id \in 1 .. nextId - 1 :
               \/ map(t, id) \/ retain(t, id) \/ release(t, id)
               \/ \E p \in Pid : grant_check(t, id, p)

(* The later steps of the ones that take several.                           *)
Continue(t) ==
    \/ cow_alloc(t) \/ cow_free(t) \/ cow_update(t)
    \/ create(t) \/ map_pages(t) \/ map_record(t) \/ destroy_if_owner_only(t)
    \/ grant(t) \/ unmap_pid_handle(t) \/ reap_empty(t)

MemNext ==
    /\ UNCHANGED Calls /\ raced' = Raced
    /\ \/ \E t \in Thread : Call(t) /\ calls < MaxCalls /\ calls' = calls + 1
       \/ /\ UNCHANGED calls
          /\ \/ \E t \in Thread : Continue(t)
             \/ \E s \in Slot, sp \in Space : spawn_user_from_bootfs(s, sp)
             \/ \E s \in Slot : \/ exit_zombie(s) \/ exit_reap(s) \/ take_record(s)
                                \/ zombie_removed(s)
             \/ \E x \in reaping : Reap(x)

MemSpec == MemInit /\ [][MemNext]_memVars

---------------------------------------------------------------------------
MemTypeOK ==
    /\ mm.a \in Allocator
    /\ mm.tab \in [Spaces -> [Table -> Page]]
    /\ \A s \in Spaces, va \in VA : \/ mm.pte[s][va] = NoLeaf
                                    \/ /\ mm.pte[s][va].pa \in Page
                                       /\ mm.pte[s][va].class \in LeafClass
    /\ \A s \in Slot : proc[s].st \in {"none", "live", "zombie", "stillborn"}
    /\ \A m \in maps : m.pid \in Pid /\ m.va \in Range(SHM)

(* The page a leaf holds a reference on: while a fault handler is between   *)
(* freeing the old page and updating the leaf, the new one.                 *)
HeldBy(s, va) ==
    LET busy == {t \in Thread : /\ op[t].pc = "cow_update" /\ MySpace(t) = s
                                /\ op[t].va = va}
    IN IF busy = {} THEN mm.pte[s][va].pa ELSE op[CHOOSE t \in busy : TRUE].new

References(p, held, tables) ==
    Cardinality({h \in held : h[2] = p}) + Cardinality({h \in tables : h[2] = p})
    + Cardinality({r \in regions : r.page = p})
    + Cardinality({t \in Thread : op[t].pc = "cow_free" /\ op[t].new = p})
    + Cardinality({p} \cap {bootfs})
    + mm.lost[p]

(* Physical memory is accounted for exactly: at every moment the reference  *)
(* count of a page is the number of leaves, tables, shared-memory objects   *)
(* and operations in progress that hold it, a page is busy exactly when it  *)
(* is reserved or referenced, the free counter is right, and no assertion   *)
(* of free_page (double free, underflow) has fired.  No frame is freed      *)
(* while mapped, and a reference is leaked only where the code drops it     *)
(* (mm.lost: the error returns of spawn and map_zero_region, and the space  *)
(* of a process that exits without a living parent, process.rs:1559-1570).  *)
(* A page that two threads of a process fault on at once is excepted        *)
(* (Raced): the handler has no lock of the space (paging.rs:1264).          *)
FramesAccounted ==
    /\ mm.panic => Raced # {}
    /\ LET held == {<<x, HeldBy(x[1], x[2])>> :
                       x \in {y \in Spaces \X VA : mm.pte[y[1]][y[2]] # NoLeaf}}
           tables == {<<x, mm.tab[x[1]][x[2]]>> : x \in Spaces \X Table}
       IN \A p \in Page \ ({NoPage} \cup Raced) : mm.a.refs[p] = References(p, held, tables)
    /\ mm.a.busy = {NoPage} \cup {p \in Page : mm.a.refs[p] > 0}
    /\ mm.a.free = TotalPages - Cardinality(mm.a.busy)

(* Copy-on-write isolation: a leaf through which a process writes without a *)
(* fault, outside the shared-memory window, is the only leaf that maps its  *)
(* page, in every space; so fork, faults, exec and exit in any order never  *)
(* let one process write what another one reads, unless two threads of a    *)
(* process raced for that page.                                             *)
PrivateWrites ==
    LET spoilt == Raced
        held == [x \in Space \X VA |-> HeldBy(x[1], x[2])]
    IN \A s \in Space, va \in VA \ Range(SHM) :
         mm.pte[s][va].class = "rw" /\ mm.pte[s][va].pa \notin spoilt =>
             \A x \in Space \X VA : held[x] = mm.pte[s][va].pa => x = <<s, va>>
=============================================================================
