----------------------------- MODULE VirtioBlk -----------------------------
(***************************************************************************)
(* The virtio block device of ZeroOS: the split virtqueue and transport    *)
(* negotiation of microkernel/src/drivers/virtio.rs, the polled driver of  *)
(* drivers/virtio/blk.rs and the backend selection of drivers/mod.rs.      *)
(*                                                                         *)
(* The driver keeps ONE request header, one status byte and one bounce     *)
(* buffer, which the device reads and writes by DMA when it executes a     *)
(* request, not when the driver submits it.  A caller that waits longer    *)
(* than IO_TIMEOUT_NS gives its request up: `inflight' is cleared and      *)
(* `discard_next' set, while the device may still execute the request.     *)
(*                                                                         *)
(* A sector is one value, a chunk (MAX_TRANSFER bytes) is one sector.  A   *)
(* device that reports success has moved the whole chunk.                  *)
(***************************************************************************)
EXTENDS Naturals, Sequences

CONSTANTS
    VbCaller,     \* kernel threads that issue block system calls
    VbLba,        \* sector numbers, an interval of Nat that starts at 0
    VbVal,        \* sector contents the callers write
    VbDisk,       \* [VbLba -> what the disk holds at boot]
    VbMixes       \* [ops, lbas, sizes, calls, devs, callers, timeouts]: what one
                  \* behaviour does; timeouts bounds the waits that run into IO_TIMEOUT_NS

NoVal == "zero"
Pattern == "pattern"
SELF_TEST_LBA == 0

VARIABLES
    vb,        \* STATE of blk.rs: ready, healthy, inflight, discard_next, last_status
    dma,       \* the memory shared with the device: header, bounce, status byte, ring counts
    vdev,      \* the device: profile, requests it has fetched, disk, pending interrupt
    vcall,     \* [VbCaller -> the call in progress]
    nvdisk,    \* the disk of the NVMe fallback, when the machine has one
    want,      \* history: the values a sector may legitimately hold
    vtimeouts, vcalls, vmix

vbVars == << vb, dma, vdev, vcall, nvdisk, want, vtimeouts, vcalls, vmix >>

-----------------------------------------------------------------------------
(* Transport (virtio.rs).  A device profile says what the registers offer. *)

probe_device(d) == d.magic /\ d.version \in {1, 2} /\ d.is_blk

negotiate_features(d) == d.version = 2 => d.version_1 /\ d.features_ok

IsPowerOfTwo(n) == n \in {2 ^ k : k \in 0 .. 15}

\* The ring has the driver's size N cut to the device's maximum; a legacy PCI
\* ring cannot be cut.
QueueSize(d, N) == IF d.legacy_pci \/ d.qmax < N THEN d.qmax ELSE N

configure_queue(d, N) ==
    /\ d.version = 2 => ~d.queue_ready
    /\ d.qmax # 0
    /\ d.legacy_pci => d.qmax <= N
    /\ IsPowerOfTwo(QueueSize(d, N))

QUEUE_SIZE == 16

\* push: one more available element, whose descriptor chain is always head 0.
Pushed(m) == [m EXCEPT !.avail = @ + 1]

-----------------------------------------------------------------------------
(* The driver's request path, each operator one critical section of STATE. *)

Idle == [pc |-> "idle", op |-> "none", lba |-> 0, data |-> << >>,
         got |-> << >>, res |-> "none", test |-> FALSE, mixed |-> FALSE, exact |-> TRUE]

\* prepare_request: fills the shared header, bounce buffer and status byte.
prepare_request(m, op, lba, data) ==
    Pushed([m EXCEPT !.op = op, !.lba = lba, !.status = 255,
                     !.bounce = IF op = "write" THEN data ELSE @])

Submitted(b) == [b EXCEPT !.last_status = 255, !.inflight = TRUE]

\* Mutant: the late element of a request given up is not told apart.
poll_any(b, m) ==
    << IF m.used = 0 THEN b
       ELSE [b EXCEPT !.last_status = m.status, !.inflight = FALSE],
       [m EXCEPT !.used = 0] >>

\* poll_completion_locked: drains the used ring; one element is dropped when a
\* timed-out request is outstanding.  <<driver, shared memory>> after it.
poll_completion_locked(b, m) ==
    LET dropped == IF b.discard_next /\ m.used > 0 THEN 1 ELSE 0
    IN  << IF m.used = dropped
           THEN [b EXCEPT !.discard_next = @ /\ dropped = 0]
           ELSE [b EXCEPT !.discard_next = @ /\ dropped = 0,
                          !.last_status = m.status, !.inflight = FALSE],
           [m EXCEPT !.used = 0] >>

\* finish_result: a non-zero status byte is a device error.
finish_result(b) == IF b.last_status = 0 THEN "ok" ELSE "DeviceError"

-----------------------------------------------------------------------------
(* Backend selection (drivers/mod.rs). *)

is_ready == vb.ready /\ vb.healthy

select_block_backend(virtio_ready, nvme_ready) ==
    IF virtio_ready THEN "virtio" ELSE IF nvme_ready THEN "nvme" ELSE "none"

block_backend_kind == select_block_backend(is_ready, vdev.prof.nvme)

-----------------------------------------------------------------------------
(* A call: the chunk loop of read_blocks / write_blocks. *)

Set(c, r) == vcall' = [vcall EXCEPT ![c] = r]

\* The outcome of a call as far as the history is concerned: a write that
\* succeeded fixes its sectors, one that failed or was mixed up with another
\* request leaves them undefined.
Anything == VbVal \cup {NoVal, Pattern} \cup {VbDisk[l] : l \in VbLba}
After(call, res) ==
    [l \in VbLba |->
        IF call.op = "write" /\ \E i \in 1 .. Len(call.data) : l = call.lba + i - 1
        THEN IF res = "ok" /\ ~call.mixed THEN {call.data[l - call.lba + 1]} ELSE Anything
        ELSE want[l]]

\* self_test: write the pattern, read it back, compare; only then healthy.
self_test(call, res) ==
    IF res = "ok" /\ call.op = "write"
    THEN [next |-> [Idle EXCEPT !.pc = "wait_idle", !.op = "read", !.test = TRUE,
                                !.lba = SELF_TEST_LBA, !.data = << NoVal >>],
          healthy |-> FALSE]
    ELSE [next |-> Idle,
          healthy |-> res = "ok" /\ call.got = << Pattern >>]

\* A call returns `res'; the boot-time self test goes on with its next step.
Return(c, call, b, res) ==
    /\ IF call.test
       THEN /\ Set(c, self_test(call, res).next)
            /\ vb' = [b EXCEPT !.healthy = self_test(call, res).healthy]
       ELSE Set(c, [call EXCEPT !.pc = "idle", !.res = res]) /\ vb' = b
    /\ want' = After(call, res)

\* drivers::init and blk::init on caller `c': probing, negotiation and the
\* queue are checked in turn; every failure leaves the device not ready.
init(c) ==
    /\ vcall[c].pc = "boot"
    /\ LET d == vdev.prof IN
       IF probe_device(d) /\ negotiate_features(d) /\ configure_queue(d, QUEUE_SIZE)
       THEN /\ vb' = [vb EXCEPT !.ready = TRUE]
            /\ Set(c, [Idle EXCEPT !.pc = "wait_idle", !.op = "write", !.test = TRUE,
                                   !.lba = SELF_TEST_LBA, !.data = << Pattern >>])
       ELSE vb' = vb /\ Set(c, Idle)
    /\ UNCHANGED << dma, vdev, nvdisk, want, vtimeouts, vcalls, vmix >>

Booted == \A c \in VbCaller : vcall[c].pc # "boot" /\ ~vcall[c].test

\* The sequences a caller of this mix may transfer.
Buffers == UNION {[1 .. n -> VbVal] : n \in vmix.sizes}
InRange(lba, data) == \A i \in 1 .. Len(data) : lba + i - 1 \in VbLba

\* block_read / block_write through the virtio backend.
StartVirtio(c) ==
    /\ Booted /\ vcall[c].pc = "idle" /\ c \in vmix.callers /\ vcalls < vmix.calls
    /\ block_backend_kind = "virtio"
    /\ \E op \in vmix.ops, lba \in vmix.lbas, data \in Buffers :
         /\ InRange(lba, data)
         /\ Set(c, [Idle EXCEPT !.pc = "wait_idle", !.op = op, !.lba = lba, !.data = data])
    /\ vcalls' = vcalls + 1
    /\ UNCHANGED << vb, dma, vdev, nvdisk, want, vtimeouts, vmix >>

\* The same calls when the virtio device did not pass: the fallback serves
\* them, or they fail with NotReady.
StartFallback(c) ==
    /\ Booted /\ vcall[c].pc = "idle" /\ c \in vmix.callers /\ vcalls < vmix.calls
    /\ \E lba \in vmix.lbas, v \in VbVal, op \in vmix.ops :
         \/ /\ block_backend_kind = "nvme" /\ op = "write"
            /\ nvdisk' = [nvdisk EXCEPT ![lba] = v]
            /\ want' = [want EXCEPT ![lba] = {v}]
            /\ Set(c, [Idle EXCEPT !.op = op, !.lba = lba, !.data = << v >>, !.res = "ok"])
         \/ /\ block_backend_kind = "nvme" /\ op = "read"
            /\ Set(c, [Idle EXCEPT !.op = op, !.lba = lba, !.data = << v >>, !.res = "ok",
                                   !.got = << nvdisk[lba] >>, !.exact = nvdisk[lba] \in want[lba]])
            /\ UNCHANGED << nvdisk, want >>
         \/ /\ block_backend_kind = "none"
            /\ Set(c, [Idle EXCEPT !.op = op, !.lba = lba, !.res = "NotReady"])
            /\ UNCHANGED << nvdisk, want >>
    /\ vcalls' = vcalls + 1
    /\ UNCHANGED << vb, dma, vdev, vtimeouts, vmix >>

\* wait_idle found no request in flight, or harvested it.
wait_idle(c) ==
    /\ vcall[c].pc = "wait_idle"
    /\ LET p == IF vb.inflight THEN poll_completion_locked(vb, dma) ELSE << vb, dma >> IN
       /\ ~p[1].inflight
       /\ vb' = p[1] /\ dma' = p[2]
    /\ Set(c, [vcall[c] EXCEPT !.pc = "prepare"])
    /\ UNCHANGED << vdev, nvdisk, want, vtimeouts, vcalls, vmix >>

\* wait_idle ran into its deadline.
WaitIdleBusy(c) ==
    /\ vcall[c].pc = "wait_idle" /\ vb.inflight /\ dma.used = 0
    /\ vtimeouts < vmix.timeouts /\ vtimeouts' = vtimeouts + 1
    /\ Return(c, vcall[c], vb, "Busy")
    /\ UNCHANGED << dma, vdev, nvdisk, vcalls, vmix >>

\* Calls of other CPUs that use the header and the bounce buffer, and requests
\* given up that the device still has or has just ended.
Others(c) == {d \in VbCaller \ {c} : vcall[d].pc \in {"wait", "giveup", "copy"}}
Late == dma.avail + Len(vdev.fetched) + dma.used
LateRead == /\ dma.avail > 0 => dma.op = "read"
            /\ \A i \in DOMAIN vdev.fetched : vdev.fetched[i].op = "read"

\* The driver copes with one late element, when it knows of it and no write of
\* the device's is under way, in either direction.
Clean(c) ==
    /\ Others(c) = {}
    /\ Late > 0 => /\ Late = 1 /\ vb.discard_next
                   /\ dma.used = 1 \/ (LateRead /\ vcall[c].op = "read")

\* The lock is taken again and the next chunk submitted, whatever another CPU
\* has submitted since wait_idle and whatever the device still has.
Prepare(c) ==
    LET call == vcall[c]
        i == Len(call.got) + 1
    IN  /\ call.pc = "prepare"
        /\ dma' = prepare_request(dma, call.op, call.lba + i - 1, call.data[i])
        /\ vb' = Submitted(vb)
        /\ vcall' = [d \in VbCaller |->
                       IF d = c THEN [call EXCEPT !.pc = "wait", !.mixed = @ \/ ~Clean(c)]
                       ELSE [vcall[d] EXCEPT !.mixed = @ \/ d \in Others(c)]]
        /\ UNCHANGED << vdev, nvdisk, want, vtimeouts, vcalls, vmix >>

\* wait_for_completion: the result is cached by the interrupt, or polled.
wait_for_completion(c) ==
    /\ vcall[c].pc = "wait"
    /\ LET p == IF vb.inflight THEN poll_completion_locked(vb, dma) ELSE << vb, dma >> IN
       /\ ~p[1].inflight
       /\ dma' = p[2]
       /\ IF finish_result(p[1]) = "ok"
          THEN /\ vb' = p[1] /\ Set(c, [vcall[c] EXCEPT !.pc = "copy"])
               /\ UNCHANGED want
          ELSE Return(c, vcall[c], p[1], "DeviceError")
    /\ UNCHANGED << vdev, nvdisk, vtimeouts, vcalls, vmix >>

\* The polls that find only the element of a request given up.
PollDiscards(c) ==
    /\ vcall[c].pc \in {"wait_idle", "wait"} /\ vb.inflight /\ dma.used > 0
    /\ LET p == poll_completion_locked(vb, dma) IN
       p[1].inflight /\ vb' = p[1] /\ dma' = p[2]
    /\ UNCHANGED << vdev, vcall, nvdisk, want, vtimeouts, vcalls, vmix >>

\* The 2 s deadline: the last poll found nothing, ...
Timeout(c) ==
    /\ vcall[c].pc = "wait" /\ vb.inflight /\ dma.used = 0
    /\ vtimeouts < vmix.timeouts /\ vtimeouts' = vtimeouts + 1
    /\ Set(c, [vcall[c] EXCEPT !.pc = "giveup"])
    /\ UNCHANGED << vb, dma, vdev, nvdisk, want, vcalls, vmix >>

\* ... so the request is given up, its completion to be discarded, even when
\* another CPU has harvested it meanwhile.
GiveUp(c) ==
    /\ vcall[c].pc = "giveup"
    /\ Return(c, vcall[c], [vb EXCEPT !.inflight = FALSE, !.discard_next = TRUE], "DeviceError")
    /\ UNCHANGED << dma, vdev, nvdisk, vtimeouts, vcalls, vmix >>

\* The bounce buffer is copied out; the loop goes on or the call returns.  What a
\* read gets is compared with the history here.
CopyOut(c) ==
    LET call == vcall[c]
        done == [call EXCEPT !.got = Append(@, dma.bounce),
                   !.exact = @ /\ (call.op = "read" => dma.bounce \in want[call.lba + Len(call.got)])]
    IN
    /\ vcall[c].pc = "copy"
    /\ IF Len(done.got) < Len(done.data)
       THEN Set(c, [done EXCEPT !.pc = "wait_idle"]) /\ UNCHANGED << vb, want >>
       ELSE Return(c, done, vb, "ok")
    /\ UNCHANGED << dma, vdev, nvdisk, vtimeouts, vcalls, vmix >>

\* irq_handler: acknowledges the cause, then polls.
irq_handler ==
    /\ vdev.irq /\ vb.ready
    /\ vdev' = [vdev EXCEPT !.irq = FALSE]
    /\ vb' = poll_completion_locked(vb, dma)[1] /\ dma' = poll_completion_locked(vb, dma)[2]
    /\ UNCHANGED << vcall, nvdisk, want, vtimeouts, vcalls, vmix >>

-----------------------------------------------------------------------------
(* The device (external): fetches a chain, reading the header as it is now, *)
(* and later moves the data and publishes the used element, in order.       *)

DevFetch ==
    /\ dma.avail > 0
    /\ dma' = [dma EXCEPT !.avail = @ - 1]
    /\ vdev' = [vdev EXCEPT !.fetched = Append(@, [op |-> dma.op, lba |-> dma.lba])]
    /\ UNCHANGED << vb, vcall, nvdisk, want, vtimeouts, vcalls, vmix >>

\* `store' is "keeps", "loses" (acknowledges writes it drops) or "fails".
DevFinish ==
    /\ vdev.fetched # << >>
    /\ LET r == Head(vdev.fetched)
           good == vdev.prof.store # "fails"
       IN  /\ dma' = [dma EXCEPT !.used = @ + 1,
                                 !.status = IF good THEN 0 ELSE 1,
                                 !.bounce = IF good /\ r.op = "read" THEN vdev.disk[r.lba] ELSE @]
           /\ vdev' = [vdev EXCEPT !.fetched = Tail(@), !.irq = TRUE,
                         !.disk = IF r.op = "write" /\ vdev.prof.store = "keeps"
                                  THEN [@ EXCEPT ![r.lba] = dma.bounce] ELSE @]
    /\ UNCHANGED << vb, vcall, nvdisk, want, vtimeouts, vcalls, vmix >>

-----------------------------------------------------------------------------
VbInit ==
    /\ vmix \in VbMixes
    /\ vb = [ready |-> FALSE, healthy |-> FALSE, inflight |-> FALSE,
             discard_next |-> FALSE, last_status |-> 255]
    /\ dma = [op |-> "none", lba |-> 0, bounce |-> NoVal, status |-> 0, avail |-> 0, used |-> 0]
    /\ \E d \in vmix.devs :
         vdev = [prof |-> d, fetched |-> << >>, disk |-> VbDisk, irq |-> FALSE]
    /\ nvdisk = VbDisk
    /\ vcall = [c \in VbCaller |-> [Idle EXCEPT !.pc = IF c = 1 THEN "boot" ELSE "idle"]]
    /\ want = [l \in VbLba |-> {VbDisk[l]}]
    /\ vtimeouts = 0 /\ vcalls = 0

VbNext ==
    \/ \E c \in VbCaller :
         \/ init(c) \/ StartVirtio(c) \/ StartFallback(c) \/ wait_idle(c) \/ WaitIdleBusy(c)
         \/ Prepare(c) \/ wait_for_completion(c) \/ PollDiscards(c) \/ Timeout(c)
         \/ GiveUp(c) \/ CopyOut(c)
    \/ irq_handler \/ DevFetch \/ DevFinish

VbSpec == VbInit /\ [][VbNext]_vbVars

-----------------------------------------------------------------------------
VbTypeOK ==
    /\ vb.last_status \in {0, 1, 255} /\ {vb.ready, vb.healthy, vb.inflight, vb.discard_next} \subseteq BOOLEAN
    /\ dma.bounce \in Anything /\ dma.avail \in Nat /\ dma.used \in Nat
    /\ \A c \in VbCaller : vcall[c].pc \in {"boot", "idle", "wait_idle", "prepare", "wait", "giveup", "copy"}

\* A read that returns Ok has read what the disk holds: the value of the last
\* successful write to each sector.  It must survive a request given up at the
\* deadline, whose completion arrives during a later call ("late completion
\* elements are dropped on either path, so that they cannot pollute the result
\* of the next request", blk.rs:393-394), interrupts racing with the poll, and
\* a device that acknowledges writes it loses, which the self test must keep
\* from being selected (blk.rs:157-162, drivers/mod.rs:148-153).
\* Excepted are calls that were mixed up with another request, since there is one
\* header and one bounce buffer: two CPUs whose requests overlap (STATE is dropped
\* between wait_idle and prepare_request, blk.rs:245-254 and 288-302), a write next
\* to a request given up that the device still has, and a second one given up
\* (discard_next is one bit).
VbReadsExact ==
    \A c \in VbCaller :
       vcall[c].pc = "idle" /\ vcall[c].res = "ok" /\ vcall[c].op = "read" =>
          vcall[c].mixed \/ vcall[c].exact
=============================================================================
