-------------------------------- MODULE Boot --------------------------------
(***************************************************************************)
(* One machine over many boots: the UEFI loader (bootloader-uefi), which   *)
(* counts failed boots in boot.env, falls back to recovery, places the     *)
(* kernel (KASLR) and the bundle and tells the kernel which memory is      *)
(* free; the kernel's take-over of that memory (mm/phys.rs, rootfs.rs);    *)
(* bootctl, which marks a boot as good; and the crash log (debug/pstore.rs)*)
(* that a faulting kernel writes and the next loader prints.               *)
(*                                                                         *)
(* Physical memory is BPages pages.  A byte of the crash log is its number *)
(* in the order of writing.  The machine may be reset at any moment.       *)
(***************************************************************************)
EXTENDS Naturals, Sequences, FiniteSets, SequencesExt

CONSTANTS
  BPages,              \* number of pages of memory
  PstorePage,          \* the page of the crash log window
  KaslrStart, KaslrEnd,\* the pages the kernel may be placed in
  KernelSpan,          \* pages of the kernel image
  SINK_CAPACITY,       \* regions that fit the loader's memory_map_sink
  MAX_MEMMAP_REGIONS,  \* regions the kernel accepts
  LEGACY_LOW_RESERVE,  \* pages kept by total_bytes-only initialisation
  MIN_PLAUSIBLE_MEMORY, MAX_PLAUSIBLE_MEMORY, FALLBACK_MEMORY_BYTES, \* in pages
  MAX_FAILURES,
  RING_LEN, SEQ_MAX,   \* the crash log ring and the limit of its counter
  BMixes               \* workloads: [conv, places, boots, lines, variants, env, sinks]

VARIABLES
  bpc,        \* where the machine is
  bvariant,   \* "Normal" or "Recovery"
  benv,       \* boot.env: [failures, success]; {} when empty or absent
  bmem,       \* page -> "conv", "resv", "pstore", "image", "bundle", "entries"
  bbytes,     \* memory_bytes, as the loader reports it
  bsink,      \* the regions written to the kernel: a sequence of sets of pages
  bfree,      \* pages the kernel's allocator may hand out
  pst,        \* crash log window: [magic, seq, wr, ring]
  pw,         \* the writer: [at, first, k, len]
  unmarked,   \* normal attempts since bootctl last ran
  ctl,        \* bootctl: "idle" or "truncated"
  bbudget, bmix

bVars == <<bpc, bvariant, benv, bmem, bbytes, bsink, bfree, pst, pw, unmarked, ctl, bbudget,
           bmix>>
memVars == <<bmem, bbytes, bsink, bfree>>
logVars == <<pst, pw>>

Page == 0 .. BPages - 1
Idle == [at |-> "idle", first |-> 1, k |-> 0, len |-> 0]

-----------------------------------------------------------------------------
(* The crash log. *)

\* Start and number of the bytes that are replayed.
read_plan(seq, wr) ==
  LET n == IF seq < RING_LEN THEN seq ELSE RING_LEN IN
  [start |-> (wr + RING_LEN - n) % RING_LEN, n |-> n]

Replay ==
  LET plan == read_plan(pst.seq, pst.wr) IN
  [i \in 1 .. plan.n |-> pst.ring[(plan.start + i - 1) % RING_LEN]]

\* A line of len bytes is appended; a window without magic is initialised first.
append(len) ==
  /\ bpc = "fault" /\ pw.at = "idle" /\ bbudget.lines > 0
  /\ bbudget' = [bbudget EXCEPT !.lines = @ - 1]
  /\ pw' = [pw EXCEPT !.at = IF pst.magic THEN "data" ELSE "init_seq", !.k = 0, !.len = len]
  /\ UNCHANGED <<bpc, bvariant, benv, memVars, pst, unmarked, ctl, bmix>>

\* Each store in turn: seq, wr and magic of a fresh window, the bytes, then wr
\* and, last, seq.
InitSeq == pw.at = "init_seq" /\ pst' = [pst EXCEPT !.seq = 0] /\ pw' = [pw EXCEPT !.at = "init_wr"]
InitWr == pw.at = "init_wr" /\ pst' = [pst EXCEPT !.wr = 0] /\ pw' = [pw EXCEPT !.at = "init_magic"]
InitMagic ==
  pw.at = "init_magic" /\ pst' = [pst EXCEPT !.magic = TRUE] /\ pw' = [pw EXCEPT !.at = "data"]
write_ring ==
  /\ pw.at = "data"
  /\ pst' = [pst EXCEPT !.ring[(pst.wr + pw.k) % RING_LEN] = pw.first + pw.k]
  /\ pw' = [pw EXCEPT !.k = @ + 1, !.at = IF pw.k + 1 = pw.len THEN "wr" ELSE "data"]
NewSeq == IF pst.seq + pw.len > SEQ_MAX THEN SEQ_MAX ELSE pst.seq + pw.len
commit_header ==
  \/ /\ pw.at = "wr"
     /\ pst' = [pst EXCEPT !.wr = (@ + pw.len) % RING_LEN] /\ pw' = [pw EXCEPT !.at = "seq"]
  \/ /\ pw.at = "seq"
     /\ pst' = [pst EXCEPT !.seq = NewSeq]
     /\ pw' = [pw EXCEPT !.at = "idle", !.first = @ + pw.len]

\* The fault path: a few lines, then PSCI SYSTEM_RESET (Reset below).
kernel_sync_fault ==
  /\ bpc \in {"bootfs", "run"} /\ bbudget.lines > 0 /\ bpc' = "fault"
  /\ UNCHANGED <<bvariant, benv, memVars, logVars, unmarked, ctl, bbudget, bmix>>
LogStep ==
  /\ bpc = "fault"
  /\ InitSeq \/ InitWr \/ InitMagic \/ write_ring \/ commit_header
  /\ UNCHANGED <<bpc, bvariant, benv, memVars, unmarked, ctl, bbudget, bmix>>

-----------------------------------------------------------------------------
(* Reset and power. *)

\* Memory keeps its content over a reset and loses it with the power.
Reset(lost) ==
  /\ bpc # "off" /\ bbudget.boots > 0
  /\ bpc' = "off"
  /\ pst' = [pst EXCEPT !.magic = @ /\ ~lost]
  /\ ctl' = "idle"
  /\ UNCHANGED <<bvariant, benv, memVars, pw, unmarked, bbudget, bmix>>

\* The loader prints the log (Replay), clears its magic and reserves the window,
\* which fails when the firmware holds it.
recover_previous ==
  /\ bpc = "off" /\ bbudget.boots > 0
  /\ bbudget' = [bbudget EXCEPT !.boots = @ - 1]
  /\ bpc' = "state"
  /\ pst' = [pst EXCEPT !.magic = FALSE]
  /\ pw' = [Idle EXCEPT !.first = pw.first + (IF pw.at = "idle" THEN 0 ELSE pw.len)]
  /\ bmem' = [p \in Page |-> IF p \notin bmix.conv THEN "resv"
                             ELSE IF p = PstorePage THEN "pstore" ELSE "conv"]
  /\ bbytes' = 0 /\ bsink' = <<>> /\ bfree' = {}
  /\ UNCHANGED <<bvariant, benv, unmarked, ctl, bmix>>

-----------------------------------------------------------------------------
(* Failure counting. *)

DefaultState == [failures |-> 0, success |-> FALSE]
\* A missing or empty file reads as the default.
load == IF benv = {} THEN DefaultState ELSE CHOOSE s \in benv : TRUE
consume_success_flag(s) == IF s.success THEN DefaultState ELSE s
should_force_recovery(s) == s.failures >= MAX_FAILURES /\ ~s.success
record_attempt(s, variant) ==
  IF variant = "Recovery" THEN s
  ELSE [success |-> FALSE,
        failures |-> IF s.failures < MAX_FAILURES THEN s.failures + 1 ELSE s.failures]

\* Where the loader was started from decides the variant.
detect_variant == bmix.variants
\* boot.env is written ("rw"), skipped on read-only media ("ro") or not writable at
\* all, which ends the attempt ("err").  write_file does not truncate, but this text
\* and bootctl's have one length: failures is a single digit.
persist(s) ==
  CASE bmix.env = "rw" -> benv' = {s} /\ bpc' = "kernel"
    [] bmix.env = "ro" -> UNCHANGED benv /\ bpc' = "kernel"
    [] bmix.env = "err" -> UNCHANGED benv /\ bpc' = "failed"

\* The attempt is counted before anything is loaded.
BootState ==
  /\ bpc = "state"
  /\ \E detected \in detect_variant :
       LET s == consume_success_flag(load)
           v == IF detected = "Normal" /\ should_force_recovery(s) THEN "Recovery" ELSE detected IN
       /\ bvariant' = v
       /\ persist(record_attempt(s, v))
       /\ unmarked' = IF v = "Normal" /\ bmix.env # "err" THEN unmarked + 1 ELSE unmarked
  /\ UNCHANGED <<memVars, logVars, ctl, bbudget, bmix>>

-----------------------------------------------------------------------------
(* Loading. *)

Take(pages, what) == [p \in Page |-> IF p \in pages THEN what ELSE bmem[p]]
Slots == KaslrEnd - KaslrStart - KernelSpan + 1
ImageAt(idx) == KaslrStart + idx .. KaslrStart + idx + KernelSpan - 1
Fits(idx) == \A p \in ImageAt(idx) : bmem[p] = "conv"

\* From a random slot on, cyclically, the first one that is free; without one the
\* boot fails.
load_pie_with_kaslr ==
  /\ bpc = "kernel"
  /\ \E first \in 0 .. Slots - 1 :
       LET Free == {a \in 0 .. Slots - 1 : Fits((first + a) % Slots)} IN
       IF Free = {} THEN bpc' = "failed" /\ UNCHANGED bmem
       ELSE LET a == CHOOSE a \in Free : \A b \in Free : a <= b IN
            bpc' = "rootfs" /\ bmem' = Take(ImageAt((first + a) % Slots), "image")
  /\ UNCHANGED <<bvariant, benv, bbytes, bsink, bfree, logVars, unmarked, ctl, bbudget, bmix>>

\* The bundle is read into firmware pool memory.
load_rootfs_image ==
  /\ bpc = "rootfs"
  /\ \E p \in bmix.places :
       bmem[p] = "conv" /\ bmem' = Take({p}, "bundle") /\ bpc' = "prepare"
  /\ UNCHANGED <<bvariant, benv, bbytes, bsink, bfree, logVars, unmarked, ctl, bbudget, bmix>>

\* A missing or malformed bundle or kernel ends the attempt.
LoadFails ==
  /\ bpc \in {"kernel", "rootfs", "prepare"} /\ bpc' = "failed"
  /\ UNCHANGED <<bvariant, benv, memVars, logVars, unmarked, ctl, bbudget, bmix>>

Conv == {p \in Page : bmem[p] = "conv"}
RunStarts == {p \in Conv : p = 0 \/ p - 1 \notin Conv}
RunFrom(p) == {q \in Conv : q >= p /\ p .. q \subseteq Conv}
collect_usable_memory ==
  LET Sizes == {Cardinality(RunFrom(p)) : p \in RunStarts} IN
  IF Sizes = {} THEN 0 ELSE CHOOSE n \in Sizes : \A m \in Sizes : m <= n

\* The size of the largest block is patched in; then the entry table of the bundle
\* takes one more page.
patch_kernel_rootfs ==
  /\ bpc = "prepare"
  /\ bbytes' = collect_usable_memory
  /\ \E p \in bmix.places :
       bmem[p] = "conv" /\ bmem' = Take({p}, "entries") /\ bpc' = "sink"
  /\ UNCHANGED <<bvariant, benv, bsink, bfree, logVars, unmarked, ctl, bbudget, bmix>>

\* The firmware's descriptors of conventional memory, in the order it gives them,
\* which need not be ascending.
Descriptors(map) ==
  {[i \in DOMAIN s |-> [start |-> s[i], end |-> s[i] + Cardinality(RunFrom(s[i]))]] :
     s \in IF map = "sorted" THEN {SetToSortSeq(RunStarts, <)} ELSE SetToSeqs(RunStarts)}

\* One that starts at or below the end of the last region gives that its own end;
\* a region that would end before it starts is empty.
Merge(regions, d) ==
  IF regions # <<>> /\ d.start <= Last(regions).end
    THEN [regions EXCEPT ![Len(regions)].end = IF d.end > Last(regions).start THEN d.end ELSE Last(regions).start]
    ELSE Append(regions, d)

\* As many regions as the sink holds, as sets of pages.
Regions(descs) ==
  LET merged == FoldLeft(Merge, <<>>, descs) IN
  [i \in {i \in DOMAIN merged : i <= SINK_CAPACITY} |-> {p \in Page : merged[i].start <= p /\ p < merged[i].end}]

\* The firmware may refuse the map ("none"); the sink then stays empty.
fill_memory_map_sink ==
  /\ bpc = "sink" /\ bpc' = "jump"
  /\ \E map \in bmix.sinks :
       IF map = "none" THEN bsink' = <<>> ELSE \E descs \in Descriptors(map) : bsink' = Regions(descs)
  /\ UNCHANGED <<bvariant, benv, bmem, bbytes, bfree, logVars, unmarked, ctl, bbudget, bmix>>

-----------------------------------------------------------------------------
(* The kernel takes over. *)

read_memory_map_sink == Len(bsink) \in 1 .. MAX_MEMMAP_REGIONS
Image == {p \in Page : bmem[p] = "image"}
init_from_regions_exact ==
  UNION {bsink[i] : i \in DOMAIN bsink} \ (Image \cup {PstorePage})
memory_bytes_of ==
  IF bbytes \in MIN_PLAUSIBLE_MEMORY .. MAX_PLAUSIBLE_MEMORY THEN bbytes
  ELSE FALLBACK_MEMORY_BYTES
\* Without the table: memory_bytes from the first page on.
legacy_init ==
  {p \in Page : LEGACY_LOW_RESERVE <= p /\ p < memory_bytes_of} \ (Image \cup {PstorePage})

init_with_kernel_range ==
  /\ bpc = "jump" /\ bpc' = "bootfs"
  /\ bfree' = IF read_memory_map_sink THEN init_from_regions_exact ELSE legacy_init
  /\ UNCHANGED <<bvariant, benv, bmem, bbytes, bsink, logVars, unmarked, ctl, bbudget, bmix>>

\* rootfs::init copies the bundle into pages of its own; none free is a panic.
build_bootfs_cache ==
  /\ bpc = "bootfs"
  /\ IF bfree = {} THEN bpc' = "failed" /\ UNCHANGED bfree
     ELSE /\ bfree' = bfree \ {CHOOSE p \in bfree : \A q \in bfree : p <= q}
          /\ bpc' = "run"
  /\ UNCHANGED <<bvariant, benv, bmem, bbytes, bsink, logVars, unmarked, ctl, bbudget, bmix>>

\* bootctl rewrites boot.env: the file is truncated, then written.
mark_boot_success ==
  /\ bpc = "run"
  /\ \/ ctl = "idle" /\ ctl' = "truncated" /\ benv' = {}
     \/ /\ ctl = "truncated" /\ ctl' = "idle"
        /\ benv' = {[failures |-> 0, success |-> TRUE]}
  /\ unmarked' = 0
  /\ UNCHANGED <<bpc, bvariant, memVars, logVars, bbudget, bmix>>

-----------------------------------------------------------------------------
BInit ==
  /\ bmix \in BMixes
  /\ bpc = "off" /\ bvariant = "Normal"
  /\ benv = {DefaultState}
  /\ bmem = [p \in Page |-> "resv"] /\ bbytes = 0 /\ bsink = <<>> /\ bfree = {}
  /\ pst = [magic |-> FALSE, seq |-> 0, wr |-> 0, ring |-> [i \in 0 .. RING_LEN - 1 |-> 0]]
  /\ pw = Idle
  /\ unmarked = 0 /\ ctl = "idle"
  /\ bbudget = [boots |-> bmix.boots, lines |-> bmix.lines]

BNext ==
  \/ \E len \in 1 .. 2 : append(len)
  \/ LogStep \/ kernel_sync_fault \/ \E lost \in BOOLEAN : Reset(lost)
  \/ recover_previous \/ BootState
  \/ load_pie_with_kaslr \/ load_rootfs_image \/ LoadFails \/ patch_kernel_rootfs
  \/ fill_memory_map_sink \/ init_with_kernel_range \/ build_bootfs_cache
  \/ mark_boot_success

BSpec == BInit /\ [][BNext]_bVars

-----------------------------------------------------------------------------
BTypeOK ==
  /\ bpc \in {"off", "state", "kernel", "rootfs", "prepare", "sink", "jump", "bootfs", "run",
              "fault", "failed"}
  /\ \A s \in benv : s.failures \in 0 .. MAX_FAILURES
  /\ bfree \subseteq Page
  /\ pst.seq \in 0 .. SEQ_MAX /\ pst.wr \in 0 .. RING_LEN - 1

\* "detected {} consecutive failed boots; falling back to recovery" (main.rs:56):
\* however boots, crashes, resets and bootctl alternate, a normal system is never
\* started more than MAX_FAILURES times in a row without bootctl having run, unless
\* boot.env is read-only and nothing is counted.
RecoveryReached ==
  bmix.env # "ro" =>
  (bvariant = "Normal" /\ bpc \notin {"off", "state"} => unmarked <= MAX_FAILURES)

\* "the boot memory-map sink excludes its LoaderData pages from the kernel
\* allocator" (boot_info.rs:178-179): no page that the kernel may hand out is one of
\* the kernel image, of the crash log, of the firmware, or of the bundle and its table,
\* in whatever order the firmware lists its memory.  When the kernel gets no table it
\* accepts, only its image and the crash log are kept out: the total is counted from
\* the first page on, whatever lies there (phys.rs:188-209).
HandoffSafe ==
  \A p \in bfree : \/ bmem[p] = "conv"
                   \/ ~read_memory_map_sink /\ bmem[p] \in {"resv", "bundle", "entries"}

\* The bytes the next loader would print end without a gap in the last committed
\* byte, or in the line whose write offset is already stored; a reset in the middle
\* of a line costs at most the oldest bytes, as many as the line has (pstore.rs:21-25,
\* seq is stored last).
PstoreTail ==
  LET R == Replay
      c == pw.first - 1
      last == IF pw.at = "seq" THEN c + pw.len ELSE c
      keep == IF pw.at = "idle" THEN Len(R)
              ELSE IF Len(R) <= RING_LEN - pw.len THEN Len(R) ELSE RING_LEN - pw.len IN
  pst.magic => \A i \in 0 .. keep - 1 : R[Len(R) - i] = last - i

\* "半途复位的残段恰好落在旧读窗口之外 … 旧 seq 读不出脏尾" (pstore.rs:24-25): what is
\* replayed after a reset in the middle of a line holds no byte of it.
\* It fails when the ring is full: README.md, section 5.
PstoreUntorn ==
  pst.magic /\ pw.at = "data" => \A i \in DOMAIN Replay : Replay[i] < pw.first
=============================================================================
