---------------------------- MODULE HeapFreeList ----------------------------
(***************************************************************************)
(* The free-list allocator behind the kernel heap (heap_free_list.rs,      *)
(* heap.rs) and behind the heap of every user process (useralloc).  The    *)
(* two are the same algorithm and differ in how a request is rounded and   *)
(* in what they do with a pointer that fails their checks.                 *)
(*                                                                         *)
(* Memory is an array of 8-byte words.  A free block holds its size with   *)
(* the free flag in its first and in its last word and the next free block *)
(* in its second; a used block holds its size in the first and last word   *)
(* and, just below the pointer handed out, its own start.  What the owner  *)
(* writes into its payload is Junk, which read as a header or as a footer  *)
(* would be the size of a free block.                                      *)
(***************************************************************************)
EXTENDS Integers, FiniteSets, Sequences

CONSTANTS
    HeapWords,      \* size of the region, in words (a multiple of 2)
    Layouts         \* requests: [size, align], in words

VARIABLES
    heap,           \* [mem, head]: the words of the region and the list head
    live,           \* what has been handed out: [ptr, words]
    heap_kind       \* "kernel" | "user": which of the two allocators this is

heapVars == <<heap, live, heap_kind>>

HEAP_ALIGN == 2
HEADER == 2
FOOTER == 1
MIN_FREE == HEADER + HEAP_ALIGN + FOOTER
Nil == 0
Start == 2                     \* HEAP_AREA is 16-byte aligned, and no more
End == Start + HeapWords
Word == Start .. End - 1

FreeWord(size) == 2 * size + 1              \* size | FREE_FLAG
UsedWord(size) == 2 * size
IsFree(w) == w % 2 = 1
SizeOf(w) == w \div 2
Junk == FreeWord(4)

align_up(v, a) == ((v + a - 1) \div a) * a

(* write_header + write_footer of a free block, and of a used one with its  *)
(* back pointer.  All the other words of a block are its owner's, or what a *)
(* former owner left there.                                                 *)
FreeBlock(mem, b, size, next) ==
    [w \in Word |-> CASE w \in {b, b + size - FOOTER} -> FreeWord(size)
                      [] w = b + 1 -> next
                      [] w \in b + 2 .. b + size - 2 -> Junk
                      [] OTHER -> mem[w]]
UsedBlock(mem, b, size, ptr) ==
    [w \in Word |-> CASE w \in {b, b + size - FOOTER} -> UsedWord(size)
                      [] w = ptr - 1 -> b
                      [] w \in b + 1 .. b + size - 2 -> Junk
                      [] OTHER -> mem[w]]

(* init_region; ensure_init.                                                *)
init_region == [mem |-> FreeBlock([w \in Word |-> 0], Start, HeapWords, Nil), head |-> Start]

RECURSIVE ListFrom(_, _)
ListFrom(mem, b) == IF b = Nil THEN <<>> ELSE <<b>> \o ListFrom(mem, mem[b + 1])
FreeList(h) == ListFrom(h.mem, h.head)

-----------------------------------------------------------------------------
(* alloc / alloc_locked: first fit along the list.                          *)
Align(l) == IF l.align > HEAP_ALIGN THEN l.align ELSE HEAP_ALIGN
Payload(l) == align_up(l.size, IF heap_kind = "kernel" THEN Align(l) ELSE HEAP_ALIGN)
Pad(b, l) == (Align(l) - ((b + HEADER) % Align(l))) % Align(l)
Used(b, l) == align_up(HEADER + Pad(b, l) + Payload(l) + FOOTER, HEAP_ALIGN)
Fits(h, l) == {i \in DOMAIN FreeList(h) :
                 SizeOf(h.mem[FreeList(h)[i]]) >= Used(FreeList(h)[i], l)}

Unlink(h, list, i) ==
    IF i = 1 THEN [h EXCEPT !.head = h.mem[list[1] + 1]]
    ELSE [h EXCEPT !.mem[list[i - 1] + 1] = h.mem[list[i] + 1]]

(* Mutant: a tail too small to be a block belongs to nobody.                *)
LeaveTail(h, b, size, l) ==
    IF size - Used(b, l) >= MIN_FREE
    THEN [mem |-> UsedBlock(FreeBlock(h.mem, b + Used(b, l), size - Used(b, l), h.head),
                            b, Used(b, l), b + HEADER + Pad(b, l)),
          head |-> b + Used(b, l)]
    ELSE [h EXCEPT !.mem = UsedBlock(h.mem, b, Used(b, l), b + HEADER + Pad(b, l))]

(* The remainder becomes the head of the list when it is large enough to be *)
(* a block, and part of the allocation when it is not.                      *)
Commit(h, b, size, l) ==
    IF size - Used(b, l) >= MIN_FREE
    THEN [mem |-> UsedBlock(FreeBlock(h.mem, b + Used(b, l), size - Used(b, l), h.head),
                            b, Used(b, l), b + HEADER + Pad(b, l)),
          head |-> b + Used(b, l)]
    ELSE [h EXCEPT !.mem = UsedBlock(h.mem, b, size, b + HEADER + Pad(b, l))]

alloc(l) ==
    /\ \E i \in Fits(heap, l) :
         /\ \A j \in Fits(heap, l) : i <= j
         /\ \E b \in {FreeList(heap)[i]} :
              /\ heap' = Commit(Unlink(heap, FreeList(heap), i), b, SizeOf(heap.mem[b]), l)
              /\ live' = live \cup {[ptr |-> b + HEADER + Pad(b, l), words |-> l.size]}
    /\ UNCHANGED heap_kind

-----------------------------------------------------------------------------
(* dealloc / dealloc_locked.                                                *)
Block(h, p) == h.mem[p - 1]
PrevFree(h, b) == b >= Start + HEADER /\ IsFree(h.mem[b - FOOTER])
MergedStart(h, b) == IF PrevFree(h, b) THEN b - SizeOf(h.mem[b - FOOTER]) ELSE b

(* The kernel merges with a following block only when more than a header    *)
(* remains above it, the user heap when at least a header does.             *)
NextFree(h, n) ==
    /\ IF heap_kind = "kernel" THEN n + HEADER < End ELSE n + HEADER <= End
    /\ IsFree(h.mem[n])
MergedEnd(h, n) == IF NextFree(h, n) THEN n + SizeOf(h.mem[n]) ELSE n

(* Every node inside the merged range leaves the list, the others keep      *)
(* their order, and the merged block becomes the head.                      *)
Relinked(mem, kept) ==
    [w \in Word |-> IF \E i \in DOMAIN kept : w = kept[i] + 1
                    THEN (LET i == CHOOSE i \in DOMAIN kept : w = kept[i] + 1
                          IN  IF i = Len(kept) THEN Nil ELSE kept[i + 1])
                    ELSE mem[w]]
MergeInto(h, from, to, kept) ==
    [mem |-> FreeBlock(Relinked(h.mem, kept), from, to - from,
                       IF kept = <<>> THEN Nil ELSE kept[1]),
     head |-> from]
Release(h, from, to) ==
    MergeInto(h, from, to, SelectSeq(FreeList(h), LAMBDA b : b < from \/ b >= to))

(* What dealloc verifies before it frees: the kernel asserts it, the user   *)
(* heap ignores a pointer that fails.                                       *)
DeallocChecks(h, p) ==
    /\ Block(h, p) \in Word /\ Block(h, p) + HEADER <= p
    /\ ~IsFree(h.mem[Block(h, p)])
    /\ SizeOf(h.mem[Block(h, p)]) >= MIN_FREE
    /\ Block(h, p) + SizeOf(h.mem[Block(h, p)]) <= End

dealloc(r) ==
    /\ r \in live
    /\ \E b \in {Block(heap, r.ptr)} :
         heap' = Release(heap, MergedStart(heap, b), MergedEnd(heap, b + SizeOf(heap.mem[b])))
    /\ live' = live \ {r}
    /\ UNCHANGED heap_kind

HeapInit ==
    /\ heap = init_region
    /\ live = {}
    /\ heap_kind \in {"kernel", "user"}

HeapNext == (\E l \in Layouts : alloc(l)) \/ (\E r \in live : dealloc(r))

HeapSpec == HeapInit /\ [][HeapNext]_heapVars

-----------------------------------------------------------------------------
(* The blocks found by stepping from each header to the next.               *)
RECURSIVE BlocksFrom(_, _)
BlocksFrom(mem, b) ==
    IF b >= End \/ SizeOf(mem[b]) = 0 THEN {b}
    ELSE {b} \cup BlocksFrom(mem, b + SizeOf(mem[b]))
Blocks == BlocksFrom(heap.mem, Start)

(* The heap never corrupts itself, whatever its owners write into what they *)
(* hold and in whatever order they free it (heap_free_list.rs asserts it in *)
(* pieces: "corrupt next block", "corrupted back pointer", "double free").  *)
(* The blocks tile the region and header and footer of each agree; the free *)
(* list names every free block once; no two free blocks are adjacent; every *)
(* pointer handed out lies in a used block of its own, clear of its header  *)
(* and footer, and passes the checks of dealloc.                            *)
HeapSound ==
    /\ End \in Blocks
    /\ \A b \in Blocks \ {End} :
         /\ heap.mem[b + SizeOf(heap.mem[b]) - FOOTER] = heap.mem[b]
         /\ IsFree(heap.mem[b]) =>
              /\ \E i \in DOMAIN FreeList(heap) : FreeList(heap)[i] = b
              /\ b + SizeOf(heap.mem[b]) = End \/ ~IsFree(heap.mem[b + SizeOf(heap.mem[b])])
    /\ Len(FreeList(heap)) = Cardinality({b \in Blocks \ {End} : IsFree(heap.mem[b])})
    /\ Cardinality({b \in Blocks \ {End} : ~IsFree(heap.mem[b])}) = Cardinality(live)
    /\ \A r \in live :
         /\ DeallocChecks(heap, r.ptr)
         /\ Block(heap, r.ptr) \in Blocks
         /\ r.ptr + r.words <= Block(heap, r.ptr) + SizeOf(heap.mem[Block(heap, r.ptr)]) - FOOTER
=============================================================================
