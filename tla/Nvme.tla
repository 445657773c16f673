-------------------------------- MODULE Nvme --------------------------------
(***************************************************************************)
(* The NVMe driver of ZeroOS (microkernel/src/drivers/nvme.rs): one I/O    *)
(* queue pair, bounce buffer and PRP list per IO_PATHS slot, polled        *)
(* completions matched by command id, read-modify-write of native blocks   *)
(* larger than 512 bytes, and the recovery that follows a command which    *)
(* ran into its deadline: Abort, deletion of the queues, CC.EN reset,      *)
(* re-initialisation, PCIe function reset as the last resort.              *)
(*                                                                         *)
(* Every IoPath ever built has a number (its memory); a command names the  *)
(* path it was submitted on, and the device reads or writes that path's    *)
(* bounce buffer when it executes the command.  A native block is two      *)
(* sectors.                                                                *)
(***************************************************************************)
EXTENDS Naturals, Sequences, FiniteSets

CONSTANTS
    NvCpu,        \* CPUs 0 .. n-1, each inside at most one block system call
    NvBlock,      \* native blocks
    NvVal,        \* sector contents
    MaxPath,      \* how many IoPaths may be built in one behaviour
    NvMixes       \* [ops, blk, calls, timeouts, errors, resets, prof]: one behaviour's calls,
                  \* blk[c] the blocks CPU c addresses

Sector == {0, 1}
Blank == [s \in Sector |-> "zero"]
NoPath == 0
NoCpu == 99

VARIABLES
    nst,        \* STATE: ready, admin (the admin queue's number, 0 for None), io_count
    slock,      \* the CPU that holds STATE's lock, or NoCpu
    io_paths,   \* IO_PATHS: slot -> path number or NoPath
    plock,      \* slot -> the CPU that holds the slot's lock
    pmem,       \* path number -> next_cid, bounce buffer, posted completions
    ndev,       \* controller: admin queue, live queues, commands per path, disk
    ncpu,       \* CPU -> its system call
    recovery_needed,
    npaths,     \* paths built so far
    nwant,      \* history: the values each sector may legitimately hold.  A call's `old'
                \* are those of its sector when it began, its `exact' says that what
                \* it copied out was one of these or of those at its end
    nraced,     \* history: blocks that two paths were updating at once
    nbudget,    \* calls, timeouts, failed commands and failed resets so far
    nmix

nvVars == << nst, slock, io_paths, plock, pmem, ndev, ncpu, recovery_needed, npaths,
             nwant, nraced, nbudget, nmix >>

Slots == 0 .. Cardinality(NvCpu) - 1
PathNo == 1 .. MaxPath

-----------------------------------------------------------------------------
(* Controller initialisation. *)

\* The namespaces init_controller keeps; the first one becomes active.
Supported(nss) == SelectSeq(nss, LAMBDA n : n.nsze # 0 /\ n.lbads \in 9 .. 12)

\* init_controller up to the queues: page size, CC.EN off and on, Identify.
EnableOk(prof) == prof.mpsmin = 0 /\ prof.identify /\ Supported(prof.nss) # << >>

\* Number of Queues: the request is cut to what the controller grants.
GrantedQueues(prof) ==
    IF prof.nq = 0 THEN 1
    ELSE IF prof.nq < Cardinality(NvCpu) THEN prof.nq ELSE Cardinality(NvCpu)

\* Does the active namespace need the 512-byte shim?
Shim(prof) == Head(Supported(prof.nss)).lbads > 9

path_index(c, io_count) == c % (IF io_count = 0 THEN 1 ELSE io_count)

FreshMem == [next_cid |-> 1, bounce |-> Blank, cq |-> << >>, sq |-> << >>]

\* IoPath::new for path p, and the queue pair created on the controller.
Build(p) == pmem' = [pmem EXCEPT ![p] = FreshMem]

-----------------------------------------------------------------------------
(* Submitting and completing a command. *)

Rest == [pc |-> "idle", op |-> "none", blk |-> 0, off |-> 0, val |-> "zero", slot |-> 0,
         path |-> NoPath, cid |-> 0, old |-> {}, exact |-> TRUE, res |-> "none",
         todo |-> 0, adm |-> 0, flr |-> FALSE]
SetCpu(c, r) == ncpu' = [ncpu EXCEPT ![c] = r]
Spend(field) == nbudget' = [nbudget EXCEPT ![field] = @ + 1]

\* submit, first half: the entry is written and the doorbell rung.  A path
\* whose queue the controller has dropped accepts the entry and never answers.
Submit(m, p, kind, call) ==
    [m EXCEPT ![p].next_cid = @ + 1,
              ![p].sq = Append(@, [cid |-> m[p].next_cid, kind |-> kind,
                                    blk |-> call.blk, off |-> call.off])]

\* submit, second half: the posted entry must carry the command's id and status 0.
OwnCompletion(entry, cid) == entry.cid = cid /\ entry.ok

\* The command's result is a whole-block bounce buffer; what transfer does next.
\* "shim": the sector read is copied out or patched into the block.
Patched(call, bounce) == [bounce EXCEPT ![call.off] = call.val]

\* transfer: io_meta (STATE is locked only for the copy), range checks.
Begin(c) ==
    /\ ncpu[c].pc = "idle" /\ slock = NoCpu /\ nbudget.calls < nmix.calls /\ Spend("calls")
    /\ \E op \in nmix.ops, b \in nmix.blk[c], o \in Sector, v \in NvVal :
         LET call == [Rest EXCEPT !.op = op, !.blk = b, !.off = o, !.val = v] IN
         IF nst.ready
         THEN /\ SetCpu(c, [call EXCEPT !.pc = "lock", !.slot = path_index(c, nst.io_count),
                                     !.old = nwant[b][o]])
              /\ nwant' = IF op = "write" THEN [nwant EXCEPT ![b][o] = @ \cup {v}] ELSE nwant
         ELSE /\ SetCpu(c, [call EXCEPT !.pc = IF op = "flush" THEN "idle" ELSE "failed",
                                        !.res = "NotReady"])
              /\ UNCHANGED nwant
    /\ UNCHANGED << nst, slock, io_paths, plock, pmem, ndev, recovery_needed, npaths, nmix >>

\* The slot's lock is taken and the first command submitted: flush, the block
\* read of a sector transfer, or the direct write of a 512-byte namespace.
LockPath(c) ==
    LET call == ncpu[c]
        p == io_paths[call.slot]
        direct == call.op = "write" /\ ~Shim(nmix.prof)
    IN  /\ call.pc = "lock" /\ plock[call.slot] = NoCpu
        /\ IF p = NoPath
           THEN /\ SetCpu(c, [call EXCEPT !.pc = IF call.op = "flush" THEN "idle" ELSE "failed",
                                          !.res = "NotReady"])
                /\ UNCHANGED << plock, pmem >>
           ELSE /\ plock' = [plock EXCEPT ![call.slot] = c]
                /\ pmem' = Submit(IF direct THEN [pmem EXCEPT ![p].bounce = Patched(call, @)] ELSE pmem,
                                  p, IF call.op = "flush" THEN "flush"
                                     ELSE IF direct THEN "write_sector" ELSE "read", call)
                /\ SetCpu(c, [call EXCEPT !.pc = IF direct \/ call.op = "flush" THEN "last" ELSE "first",
                                          !.path = p, !.cid = pmem[p].next_cid])
        /\ UNCHANGED << nst, slock, io_paths, ndev, recovery_needed, npaths, nwant, nbudget, nmix >>

\* A call that failed drops its lock; read and write go on to the recovery.
Fail(c, call, res, m) ==
    /\ plock' = [plock EXCEPT ![call.slot] = NoCpu]
    /\ pmem' = m
    /\ SetCpu(c, [call EXCEPT !.pc = IF call.op = "flush" THEN "idle" ELSE "failed", !.res = res])

Finish(c, call, m) ==
    /\ plock' = [plock EXCEPT ![call.slot] = NoCpu]
    /\ pmem' = m
    /\ SetCpu(c, [call EXCEPT !.pc = "idle", !.res = "ok"])
    /\ nwant' = IF call.op = "write" THEN [nwant EXCEPT ![call.blk][call.off] = {call.val}] ELSE nwant

\* A completion is found: the loop body of transfer after submit_native.
Completed(c) ==
    LET call == ncpu[c]
        p == call.path
        m == [pmem EXCEPT ![p].cq = Tail(@)]
    IN  /\ call.pc \in {"first", "last"} /\ pmem[p].cq # << >>
        /\ CASE ~OwnCompletion(Head(pmem[p].cq), call.cid) ->
                  Fail(c, call, "DeviceError", m) /\ UNCHANGED nwant
             [] OwnCompletion(Head(pmem[p].cq), call.cid) /\ call.pc = "first" /\ call.op = "write" ->
                  /\ pmem' = Submit([m EXCEPT ![p].bounce = Patched(call, @)], p, "write", call)
                  /\ SetCpu(c, [call EXCEPT !.pc = "last", !.cid = pmem[p].next_cid])
                  /\ UNCHANGED << plock, nwant >>
             [] OTHER -> Finish(c, [call EXCEPT !.exact = call.op = "read" =>
                                        pmem[p].bounce[call.off] \in call.old \cup nwant[call.blk][call.off],
                                                    !.old = {}], m)
        /\ UNCHANGED << nst, slock, io_paths, ndev, recovery_needed, npaths, nbudget, nmix >>

\* The 2 s deadline of submit.  A command whose queue is gone always ends here.
TimedOut(c) ==
    LET call == ncpu[c] IN
    /\ call.pc \in {"first", "last"} /\ pmem[call.path].cq = << >>
    /\ IF call.path \in ndev.live
       THEN nbudget.timeouts < nmix.timeouts /\ Spend("timeouts") ELSE UNCHANGED nbudget
    /\ recovery_needed' = TRUE
    /\ Fail(c, call, "Busy", pmem)
    /\ UNCHANGED << nst, slock, io_paths, ndev, npaths, nwant, nmix >>

-----------------------------------------------------------------------------
(* Recovery. *)

\* recover_after_timeout: one CPU wins the flag; the others return the error.
Recover(c) ==
    /\ ncpu[c].pc = "failed"
    /\ recovery_needed' = FALSE
    /\ SetCpu(c, [ncpu[c] EXCEPT !.pc = IF recovery_needed THEN "abort" ELSE "idle"])
    /\ UNCHANGED << nst, slock, io_paths, plock, pmem, ndev, npaths, nwant, nbudget, nmix >>

\* abort_command under STATE's lock: the controller may or may not drop the
\* command.  An admin queue the controller no longer uses times out, which
\* raises the flag again.
abort_command(c) ==
    /\ ncpu[c].pc = "abort" /\ slock = NoCpu
    /\ recovery_needed' = (recovery_needed \/ (nst.ready /\ nst.admin # ndev.admin))
    /\ \/ UNCHANGED pmem
       \/ /\ nst.ready /\ nst.admin = ndev.admin /\ ncpu[c].path \in ndev.live
          /\ pmem' = [pmem EXCEPT ![ncpu[c].path].sq = SelectSeq(@, LAMBDA e : e.cid # ncpu[c].cid)]
    /\ SetCpu(c, [ncpu[c] EXCEPT !.pc = "shutdown"])
    /\ UNCHANGED << nst, slock, io_paths, plock, ndev, npaths, nwant, nbudget, nmix >>

\* shutdown: STATE stays locked from here to ShutdownEnd; SQs and CQs are
\* deleted first.  With STATE already torn down it returns at once.
ShutdownBegin(c) ==
    /\ ncpu[c].pc = "shutdown" /\ slock = NoCpu
    /\ IF ~nst.ready /\ nst.admin = 0
       THEN /\ SetCpu(c, [ncpu[c] EXCEPT !.pc = "enable", !.flr = FALSE])
            /\ UNCHANGED << slock, nst, ndev >>
       ELSE /\ slock' = c
            /\ nst' = [nst EXCEPT !.ready = FALSE]
            /\ ndev' = [ndev EXCEPT !.live = IF nst.admin = ndev.admin
                                             THEN @ \ {io_paths[s] : s \in 0 .. nst.io_count - 1} ELSE @]
            /\ SetCpu(c, [ncpu[c] EXCEPT !.pc = "take", !.todo = 0])
    /\ UNCHANGED << io_paths, plock, pmem, recovery_needed, npaths, nwant, nbudget, nmix >>

\* The slots are emptied one by one, each under its lock: a CPU that still
\* polls a command keeps the slot until its own deadline.
ShutdownTake(c) ==
    LET s == ncpu[c].todo IN
    /\ ncpu[c].pc = "take" /\ s \in Slots /\ plock[s] = NoCpu
    /\ io_paths' = [io_paths EXCEPT ![s] = NoPath]
    /\ pmem' = IF io_paths[s] = NoPath THEN pmem ELSE [pmem EXCEPT ![io_paths[s]] = FreshMem]
    /\ SetCpu(c, [ncpu[c] EXCEPT !.todo = s + 1])
    /\ UNCHANGED << nst, slock, plock, ndev, recovery_needed, npaths, nwant, nbudget, nmix >>

\* CC.EN is cleared: the controller forgets every queue and command.
Reset(adm) == [ndev EXCEPT !.live = {}, !.admin = adm]
ShutdownEnd(c) ==
    /\ ncpu[c].pc = "take" /\ ncpu[c].todo \notin Slots
    /\ nst' = [nst EXCEPT !.io_count = 0, !.admin = 0]
    /\ ndev' = Reset(0)
    /\ slock' = NoCpu
    /\ SetCpu(c, [ncpu[c] EXCEPT !.pc = "enable", !.flr = FALSE])
    /\ UNCHANGED << io_paths, plock, pmem, recovery_needed, npaths, nwant, nbudget, nmix >>

\* init_controller, first part, without any lock: reset, admin queue, Identify.
\* A failure leads to the PCIe function reset and one more attempt.
Enable(c) ==
    /\ ncpu[c].pc = "enable"
    /\ \/ /\ EnableOk(nmix.prof)
          /\ ndev' = [Reset(ndev.admins + 1) EXCEPT !.admins = @ + 1]
          /\ SetCpu(c, [ncpu[c] EXCEPT !.pc = "queues", !.todo = 0, !.adm = ndev.admins + 1])
          /\ UNCHANGED nbudget
       \/ /\ IF EnableOk(nmix.prof) THEN nbudget.resets < nmix.resets /\ Spend("resets") ELSE UNCHANGED nbudget
          /\ ndev' = Reset(0)
          /\ SetCpu(c, [ncpu[c] EXCEPT !.pc = IF ncpu[c].flr THEN "idle" ELSE "enable", !.flr = TRUE])
    /\ UNCHANGED << nst, slock, io_paths, plock, pmem, recovery_needed, npaths, nwant, nmix >>

\* init_controller, the queue loop: an admin command of a controller that was
\* reset by someone else times out and ends the loop.
CreateQueue(c) ==
    LET s == ncpu[c].todo IN
    /\ ncpu[c].pc = "queues" /\ s < GrantedQueues(nmix.prof)
    /\ IF ndev.admin = ncpu[c].adm
       THEN /\ plock[s] = NoCpu /\ npaths < MaxPath
            /\ npaths' = npaths + 1
            /\ Build(npaths + 1)
            /\ io_paths' = [io_paths EXCEPT ![s] = npaths + 1]
            /\ ndev' = [ndev EXCEPT !.live = @ \cup {npaths + 1}]
            /\ SetCpu(c, [ncpu[c] EXCEPT !.todo = s + 1])
            /\ UNCHANGED recovery_needed
       ELSE /\ recovery_needed' = TRUE
            /\ SetCpu(c, [ncpu[c] EXCEPT !.pc = IF s = 0 THEN (IF ncpu[c].flr THEN "idle" ELSE "enable")
                                                ELSE "publish", !.flr = @ \/ s = 0])
            /\ UNCHANGED << npaths, pmem, io_paths, ndev >>
    /\ UNCHANGED << nst, slock, plock, nwant, nbudget, nmix >>

QueuesDone(c) ==
    /\ ncpu[c].pc = "queues" /\ ncpu[c].todo = GrantedQueues(nmix.prof)
    /\ SetCpu(c, [ncpu[c] EXCEPT !.pc = "publish"])
    /\ UNCHANGED << nst, slock, io_paths, plock, pmem, ndev, recovery_needed, npaths, nwant, nbudget, nmix >>

\* *STATE.lock() = fresh
Publish(c) ==
    /\ ncpu[c].pc = "publish" /\ slock = NoCpu
    /\ nst' = [ready |-> TRUE, admin |-> ncpu[c].adm, io_count |-> ncpu[c].todo]
    /\ SetCpu(c, [ncpu[c] EXCEPT !.pc = "idle"])
    /\ UNCHANGED << slock, io_paths, plock, pmem, ndev, recovery_needed, npaths, nwant, nbudget, nmix >>

-----------------------------------------------------------------------------
(* The controller (external): executes the oldest command of a live queue,  *)
(* or answers it with an error status and moves nothing.                    *)
DevExecute ==
    \E p \in ndev.live, ok \in BOOLEAN :
      /\ pmem[p].sq # << >>
      /\ LET e == Head(pmem[p].sq) IN
         /\ pmem' = [pmem EXCEPT ![p].sq = Tail(@), ![p].cq = Append(@, [cid |-> e.cid, ok |-> ok]),
                       ![p].bounce = IF e.kind = "read" /\ ok THEN ndev.disk[e.blk] ELSE @]
         /\ ndev' = [ndev EXCEPT !.disk =
                       CASE e.kind = "write" /\ ok -> [@ EXCEPT ![e.blk] = pmem[p].bounce]
                         [] e.kind = "write_sector" /\ ok ->
                              [@ EXCEPT ![e.blk][e.off] = pmem[p].bounce[e.off]]
                         [] OTHER -> @]
      /\ IF ok THEN UNCHANGED nbudget ELSE nbudget.errors < nmix.errors /\ Spend("errors")
      /\ UNCHANGED << nst, slock, io_paths, plock, ncpu, recovery_needed, npaths, nwant, nmix >>

-----------------------------------------------------------------------------
\* init: CPU 0 initialises the controller (through the steps of a recovery
\* whose shutdown finds nothing); the QEMU controller is then recovered once.
NvInit ==
    /\ nmix \in NvMixes
    /\ nst = [ready |-> FALSE, admin |-> 0, io_count |-> 0] /\ slock = NoCpu
    /\ io_paths = [s \in Slots |-> NoPath] /\ plock = [s \in Slots |-> NoCpu]
    /\ pmem = [p \in PathNo |-> FreshMem]
    /\ ndev = [admin |-> 0, admins |-> 0, live |-> {}, disk |-> [b \in NvBlock |-> Blank]]
    /\ ncpu = [c \in NvCpu |-> [Rest EXCEPT !.pc = IF c = 0 THEN "shutdown" ELSE "idle"]]
    /\ recovery_needed = FALSE /\ npaths = 0
    /\ nwant = [b \in NvBlock |-> [s \in Sector |-> {"zero"}]]
    /\ nraced = {}
    /\ nbudget = [calls |-> 0, timeouts |-> 0, errors |-> 0, resets |-> 0]

\* The paths on which a read-modify-write of block b is going on: a CPU is at it,
\* or its write was given up and the controller still has it.
Updating(b) ==
    {ncpu[c].path : c \in {d \in NvCpu : ncpu[d].op = "write" /\ ncpu[d].blk = b
                                          /\ ncpu[d].pc \in {"first", "last"}}}
    \cup {p \in ndev.live : \E i \in DOMAIN pmem[p].sq :
                               pmem[p].sq[i].kind = "write" /\ pmem[p].sq[i].blk = b}

NvStep ==
    \/ \E c \in NvCpu :
         \/ Begin(c) \/ LockPath(c) \/ Completed(c) \/ TimedOut(c) \/ Recover(c) \/ abort_command(c)
         \/ ShutdownBegin(c) \/ ShutdownTake(c) \/ ShutdownEnd(c) \/ Enable(c) \/ CreateQueue(c)
         \/ QueuesDone(c) \/ Publish(c)
    \/ DevExecute

NvNext ==
    /\ NvStep
    /\ nraced' = nraced \cup {b \in NvBlock : Cardinality(Updating(b)) > 1 /\ Shim(nmix.prof)}

NvSpec == NvInit /\ [][NvNext]_nvVars

-----------------------------------------------------------------------------
NvTypeOK ==
    /\ nst.ready \in BOOLEAN /\ nst.io_count \in 0 .. Cardinality(NvCpu)
    /\ \A s \in Slots : io_paths[s] \in 0 .. MaxPath /\ plock[s] \in NvCpu \cup {NoCpu}
    /\ ndev.live \subseteq PathNo /\ slock \in NvCpu \cup {NoCpu}

\* No acknowledged sector is lost and no neighbour is disturbed: each sector of
\* the disk, and each sector a read returned, holds the last acknowledged value
\* or one of a write that failed or is still going on.  "Writes preserve
\* untouched sectors via RMW" (nvme.rs:771), across stale completions, commands
\* given up at their deadline or answered with an error (nvme.rs:323), and a
\* controller reset under other CPUs' feet.  Excepted are native blocks that two
\* queue pairs update at once: nothing orders the two read-modify-writes of
\* nvme.rs:771-783, and one of them is lost.
NvSectorsKept ==
    /\ \A b \in NvBlock \ nraced, s \in Sector : ndev.disk[b][s] \in nwant[b][s]
    /\ \A c \in NvCpu : ncpu[c].exact \/ ncpu[c].blk \in nraced
=============================================================================
