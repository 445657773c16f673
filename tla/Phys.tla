-------------------------------- MODULE Phys --------------------------------
(***************************************************************************)
(* The physical page allocator of microkernel/src/mm/phys_bitmap.rs: one   *)
(* busy bit and one reference count per page, a free counter, and the      *)
(* cursor that remembers the bitmap word of the last allocation.  Every    *)
(* operation runs under the MM spin lock of mm/phys.rs, so each is an      *)
(* operator from the allocator's state to its next state.  A page is named *)
(* by its number relative to RAM_BASE; page 0 is never handed out, and     *)
(* stands for "no page" in a result.                                       *)
(***************************************************************************)
EXTENDS Naturals, FiniteSets, Sequences

CONSTANTS
    TotalPages,     \* pages of RAM the bitmap describes
    WordBits        \* pages per bitmap word (64 in the code)

ASSUME PagesAssumption == TotalPages \in Nat \ {0} /\ WordBits \in Nat \ {0}

NoPage == 0
Page == 0 .. TotalPages - 1

Allocator == [busy: SUBSET Page, refs: [Page -> Nat], free: Nat,
              cursor: Nat, reserved: Nat]

init(reserved) ==
    LET least == IF reserved > 1 THEN reserved ELSE 1
        reserve == IF TotalPages < least THEN TotalPages ELSE least
    IN [busy |-> 0 .. reserve - 1, refs |-> [p \in Page |-> 0],
        free |-> TotalPages - reserve, cursor |-> 0, reserved |-> reserve]

(* The allocatable clear bits of one bitmap word.                           *)
FreeInWord(a, index) ==
    {p \in Page : p \div WordBits = index /\ p >= a.reserved /\ p \notin a.busy}

Lowest(S) == CHOOSE p \in S : \A q \in S : p <= q

TakePage(a, page) ==
    [ok |-> TRUE, page |-> page,
     a |-> [a EXCEPT !.busy = @ \cup {page}, !.refs[page] = 1, !.free = @ - 1,
                     !.cursor = page \div WordBits]]

(* The lowest clear bit of the word.                                        *)
try_alloc_in_word(a, clear) ==
    IF clear = {} THEN [ok |-> FALSE, a |-> a, page |-> NoPage]
    ELSE TakePage(a, Lowest(clear))

(* The cursor's word if it has a clear bit, otherwise the first word that   *)
(* has one, which holds the lowest clear bit of all.                        *)
alloc_page(a) ==
    IF FreeInWord(a, a.cursor) # {} THEN try_alloc_in_word(a, FreeInWord(a, a.cursor))
    ELSE try_alloc_in_word(a, {p \in Page : p >= a.reserved /\ p \notin a.busy})

(* First run of count clear pages, scanning from page 1.                    *)
ClearRuns(a, count) ==
    {s \in 1 .. TotalPages - count : \A p \in s .. s + count - 1 : p \notin a.busy}

TakeRun(a, run) ==
    [ok |-> TRUE, page |-> Lowest(run),
     a |-> [a EXCEPT !.busy = @ \cup run, !.free = @ - Cardinality(run),
                     !.refs = [p \in Page |-> IF p \in run THEN 1 ELSE @[p]]]]

alloc_contiguous(a, count) ==
    IF count = 0 \/ ClearRuns(a, count) = {}
    THEN [ok |-> FALSE, a |-> a, page |-> NoPage]
    ELSE TakeRun(a, Lowest(ClearRuns(a, count)) .. Lowest(ClearRuns(a, count)) + count - 1)

(* free_page drops one reference; the last one returns the page.  It is     *)
(* only called on a page that is busy and referenced: anything else is the  *)
(* assertion of free_page, a kernel panic.                                  *)
MayFree(a, p) == p >= a.reserved /\ p \in a.busy /\ a.refs[p] >= 1

free_page(a, p) ==
    IF a.refs[p] = 1
    THEN [a EXCEPT !.refs[p] = 0, !.busy = @ \ {p}, !.free = @ + 1]
    ELSE [a EXCEPT !.refs[p] = @ - 1]

(* Likewise retain_page panics unless the page is busy, outside the         *)
(* reserved ones, and its u16 count has room.                               *)
MaxRefs == 65535

MayRetain(a, p) == p >= a.reserved /\ p \in a.busy /\ a.refs[p] < MaxRefs

retain_page(a, p) == [a EXCEPT !.refs[p] = @ + 1]

ref_count(a, p) == a.refs[p]

(* A clear page is withdrawn for good: busy, with no reference.             *)
mark_busy(a, p) ==
    IF p >= TotalPages \/ p \in a.busy THEN a
    ELSE [a EXCEPT !.busy = @ \cup {p}, !.refs[p] = 0, !.free = @ - 1]
=============================================================================
