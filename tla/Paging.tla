------------------------------- MODULE Paging -------------------------------
(***************************************************************************)
(* User address spaces: microkernel/src/mm/paging.rs, table_walk.rs and    *)
(* address_space.rs over the page allocator of module Phys.  A memory      *)
(* state M has                                                             *)
(*   a      the allocator,                                                 *)
(*   tab    for each space, the page of each page table it has built,      *)
(*   pte    for each space, the leaf descriptor of each page address,      *)
(*   lost   for each page, the references whose owner forgot them,         *)
(*   panic  an assertion of the allocator has failed.                      *)
(* The address layout keeps one or two pages of each of the windows the    *)
(* kernel maps: text, heap (brk), device leases, shared memory, the        *)
(* boot file system and the stack, in ascending order.                     *)
(***************************************************************************)
EXTENDS Phys, SequencesExt

CONSTANTS Space     \* address spaces that can exist; 0 is one being built

TEXT == 1
HEAP == <<2, 3>>
MMIO == 4
SHM == <<5, 6>>
BOOTFS == 7
STACK == 8
VA == 1 .. 8

Table == {"l0", "l1", "l2_0", "text", "heap", "mmio", "shm",
          "l2_2", "bootfs", "l2_3", "stack"}

(* The tables below the ones every space starts with, on the way to a page. *)
TablePath(va) ==
    CASE va = TEXT -> <<"text">>
      [] va \in Range(HEAP) -> <<"heap">>
      [] va = MMIO -> <<"mmio">>
      [] va \in Range(SHM) -> <<"shm">>
      [] va = BOOTFS -> <<"l2_2", "bootfs">>
      [] va = STACK -> <<"l2_3", "stack">>

LeafClass == {"rw", "cow", "ro", "device"}
NoLeaf == [pa |-> NoPage, class |-> "none"]
Leaf(pa, class) == [pa |-> pa, class |-> class]
EmptyTables == [t \in Table |-> NoPage]
EmptyLeaves == [va \in VA |-> NoLeaf]

Spaces == Space \cup {0}
Ok(M) == [ok |-> TRUE, M |-> M]
Err(M) == [ok |-> FALSE, M |-> M]
Ascending(S) == SelectSeq([i \in 1 .. TotalPages |-> i], LAMBDA i : i \in S)

Free(M, p) ==
    IF MayFree(M.a, p) THEN [M EXCEPT !.a = free_page(@, p)]
    ELSE [M EXCEPT !.panic = TRUE]

Retain(M, p) == [M EXCEPT !.a = retain_page(@, p)]

FreeAll(M, pages) == FoldLeft(Free, M, Ascending(pages))

(* ensure_child_table / ensure_user_leaf_table: build one missing table.    *)
Tabled(M, s, t, x) ==
    IF x.ok THEN Ok([M EXCEPT !.a = x.a, !.tab[s][t] = x.page]) ELSE Err(M)

ensure_child_table(r, s, t) ==
    IF ~r.ok \/ r.M.tab[s][t] # NoPage THEN r
    ELSE Tabled(r.M, s, t, alloc_page(r.M.a))

EnsurePath(M, s, path) ==
    IF Len(path) = 1 THEN ensure_child_table(Ok(M), s, path[1])
    ELSE ensure_child_table(ensure_child_table(Ok(M), s, path[1]), s, path[2])

SetLeaf(r, s, va, leaf) ==
    IF ~r.ok \/ r.M.pte[s][va] # NoLeaf THEN Err(r.M)
    ELSE Ok([r.M EXCEPT !.pte[s][va] = leaf])

install_leaf_descriptor(M, s, va, leaf) ==
    SetLeaf(EnsurePath(M, s, TablePath(va)), s, va, leaf)

(* The page x just allocated is mapped at va; if it cannot be, the caller's *)
(* error path decides what becomes of it.                                   *)
MapPage(M, s, va, class, x) ==
    IF ~x.ok THEN Err(M)
    ELSE install_leaf_descriptor([M EXCEPT !.a = x.a], s, va, Leaf(x.page, class))

(* map_zero_region and the ELF loader return the map error without giving   *)
(* the page back: it is lost.                                               *)
OrLose(r, x) ==
    IF r.ok \/ ~x.ok THEN r ELSE Err([r.M EXCEPT !.lost[x.page] = @ + 1])

MapFresh(r, s, va, class) ==
    IF ~r.ok THEN r
    ELSE OrLose(MapPage(r.M, s, va, class, alloc_page(r.M.a)), alloc_page(r.M.a))

TablePages(M, s) == {M.tab[s][t] : t \in Table} \ {NoPage}

(* The root, L1 and private low L2 tables; all or nothing.                  *)
OrUndo(r, s) ==
    IF r.ok THEN r
    ELSE Err([FreeAll(r.M, TablePages(r.M, s)) EXCEPT !.tab[s] = EmptyTables])

create_user_address_space(M, s) ==
    OrUndo(ensure_child_table(
               ensure_child_table(ensure_child_table(Ok(M), s, "l0"), s, "l1"), s, "l2_0"), s)

(* Every leaf the space owns and every table goes back; a device page is    *)
(* not the allocator's.                                                     *)
Owned(M, s) == {va \in VA : M.pte[s][va].class \in LeafClass \ {"device"}}

destroy_user_address_space(M, s) ==
    [FreeAll(FoldLeft(LAMBDA K, va : Free(K, K.pte[s][va].pa), M, Ascending(Owned(M, s))),
             TablePages(M, s))
        EXCEPT !.tab[s] = EmptyTables, !.pte[s] = EmptyLeaves]

(* clear_user_leaf_range: the leaf is cleared, then its page returned.      *)
ClearLeaf(M, s, va) ==
    IF M.pte[s][va] = NoLeaf THEN M
    ELSE Free([M EXCEPT !.pte[s][va] = NoLeaf], M.pte[s][va].pa)

clear_user_leaf_range(M, s, vas) ==
    FoldLeft(LAMBDA K, va : ClearLeaf(K, s, va), M, Ascending(vas))

unmap_user_device_range(M, s, vas) ==
    [M EXCEPT !.pte[s] = [va \in VA |-> IF va \in vas THEN NoLeaf ELSE @[va]]]

(* Mutant: the page at hand is forgotten.                                   *)
OrForget(r, x) == r

(* brk growth: one fresh zero page per address; a failure gives back the    *)
(* page at hand and then everything this call mapped.                       *)
OrFree(r, x) == IF r.ok \/ ~x.ok THEN r ELSE Err(Free(r.M, x.page))

GrowHeap(r, s, va) ==
    IF ~r.ok THEN r
    ELSE OrFree(MapPage(r.M, s, va, "rw", alloc_page(r.M.a)), alloc_page(r.M.a))

OrUnmap(r, s, vas) == IF r.ok THEN r ELSE Err(clear_user_leaf_range(r.M, s, vas))

map_heap_region(M, s, vas) ==
    OrUnmap(FoldLeft(LAMBDA r, va : GrowHeap(r, s, va), Ok(M), Ascending(vas)), s,
            {va \in vas : M.pte[s][va] = NoLeaf})

(* Mutant: the parent goes on writing through its own leaf.                 *)
CowChild(r, p, va, leaf) == IF r.ok THEN r ELSE Err(Free(r.M, leaf.pa))

(* One leaf of the parent p shared with the child c.  Writable pages become *)
(* read-only and COW on both sides, read-only ones are shared as they are,  *)
(* device leases are not inherited.                                         *)
CowBoth(r, p, va, leaf) ==
    IF r.ok THEN Ok([r.M EXCEPT !.pte[p][va] = leaf]) ELSE Err(Free(r.M, leaf.pa))

ShareLeaf(r, p, c, va, leaf) ==
    IF ~r.ok \/ leaf.class \in {"none", "device"} THEN r
    ELSE CowBoth(install_leaf_descriptor(Retain(r.M, leaf.pa), c, va, leaf), p, va, leaf)

Shared(leaf) == IF leaf.class = "rw" THEN [leaf EXCEPT !.class = "cow"] ELSE leaf

(* fork: on failure the half-built child is destroyed; the parent's leaves  *)
(* already turned COW stay so.                                              *)
OrDestroy(r, s) == IF r.ok THEN r ELSE Err(destroy_user_address_space(r.M, s))

CloneLeaves(r, p, c) ==
    IF ~r.ok THEN r
    ELSE OrDestroy(FoldLeft(LAMBDA x, va : ShareLeaf(x, p, c, va, Shared(x.M.pte[p][va])),
                            r, Ascending(VA)), c)

clone_user_address_space(M, p, c) == CloneLeaves(create_user_address_space(M, c), p, c)
=============================================================================
