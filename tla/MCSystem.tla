----------------------------- MODULE MCSystem -----------------------------
(***************************************************************************)
(* Instances for TLC of the cores and their interrupts, the drivers, the   *)
(* services, the boot loader and the package tools.  None of them calls    *)
(* another except through the interfaces its own module models, so a       *)
(* behaviour runs one part, chosen at the start; the variables of the      *)
(* others are 0.  A property of a part is that module's property, asked of *)
(* the behaviours that run the part.                                       *)
(* A "mix" is the script a behaviour is bounded by: the calls clients may  *)
(* make and the faults that may happen.  Where the code departs from what  *)
(* it says of itself the property has an exception, or the mixes leave the *)
(* case out; README.md lists both, one by one (section 5).                 *)
(***************************************************************************)
EXTENDS Integers, Sequences, TLC

CONSTANT Parts   \* the parts of this run

VARIABLE part   \* the part of the system that runs in this behaviour

-----------------------------------------------------------------------------
(* The cores and the interrupt controller: up to three processing elements *)
(* in the order of the MADT or of the UEFI tables, kernels with and        *)
(* without an ITS, two devices with MSI or MSI-X.  The last mixes: calls   *)
(* not supported; one CPU; a slow secondary; a refused one; the boot PE    *)
(* not first; secondaries only in the UEFI tables, or legacy; a GICv2; a   *)
(* PE with an Aff3.                                                        *)
VARIABLES spc, topo, logical, requested, online, multi_core, eager, pes,
          live, frames, own, runq, sbudget, smix, gpc, version, its, hw,
          prop, rd, handlers, job, msi, timer, pend, unhandled, gbudget
coresVars == <<spc, topo, logical, requested, online, multi_core, eager, pes,
               live, frames, own, runq, sbudget, smix, gpc, version, its,
               hw, prop, rd, handlers, job, msi, timer, pend, unhandled,
               gbudget>>

Pe(n) == <<0, 0, 0, n>>
Far == <<1, 0, 0, 0>>
Mpidr == {Pe(0), Pe(1), Pe(2), Far}
MAX_CPUS == 3
MaxFp == 2
LPI_BASE == 100
MaxLpi == 105
GDev == {1, 2}
Slot == {1, 2, 3}
TwoCores ==
    [boot |-> Pe(0), present |-> {Pe(0), Pe(1)}, madt |-> <<Pe(0), Pe(1)>>, uefi |-> <<>>,
     fids |-> {64, 32}, deny |-> {}, slow |-> FALSE, launch |-> {}, ops |-> {}, fp |-> 0,
     traps |-> 0, gicr |-> TRUE, gicc |-> FALSE, its |-> TRUE, kind |-> <<"msix", "msi">>,
     drivers |-> {}, again |-> {}, faults |-> 0, raises |-> 0, ticks |-> 0, kicks |-> 0]
SmpMixes ==
    {[TwoCores EXCEPT !.launch = {1, 2}, !.ops = {"exit", "exec", "fork", "spawn"}, !.fp = 2,
                      !.traps = 3, !.its = FALSE],
     [TwoCores EXCEPT !.launch = {1, 2}, !.traps = 2, !.drivers = {1, 2}, !.again = {1, 2}],
     [TwoCores EXCEPT !.drivers = {1, 2}, !.faults = 1, !.raises = 1],
     [TwoCores EXCEPT !.launch = {1}, !.traps = 1, !.drivers = {1}, !.again = {1}, !.faults = 1,
                      !.raises = 1],
     [TwoCores EXCEPT !.present = Mpidr, !.madt = <<Pe(0), Pe(2), Pe(1)>>, !.launch = {1},
                      !.traps = 2, !.ticks = 2, !.kicks = 1, !.fids = {32}],
     [TwoCores EXCEPT !.madt = <<>>, !.uefi = <<Pe(0), Pe(1)>>, !.fids = {}, !.gicc = TRUE,
                      !.drivers = {1}],
     [TwoCores EXCEPT !.madt = <<Pe(0)>>, !.present = {Pe(0)}, !.launch = {1, 2}, !.fp = 1,
                      !.traps = 2],
     [TwoCores EXCEPT !.slow = TRUE, !.launch = {1, 2}, !.fp = 1, !.traps = 2],
     [TwoCores EXCEPT !.present = Mpidr \ {Far}, !.madt = <<Pe(0), Pe(1), Pe(2)>>, !.deny = {Pe(1)},
                      !.launch = {1}, !.traps = 1, !.kicks = 1],
     [TwoCores EXCEPT !.madt = <<Pe(1), Pe(0)>>, !.launch = {1}, !.traps = 1, !.kicks = 1,
                      !.drivers = {1}, !.raises = 1],
     [TwoCores EXCEPT !.madt = <<Pe(0)>>, !.uefi = <<Pe(0), Pe(1)>>, !.launch = {1}, !.traps = 1,
                      !.kicks = 1, !.ticks = 1],
     [TwoCores EXCEPT !.madt = <<>>, !.launch = {1}, !.traps = 1, !.kicks = 1],
     [TwoCores EXCEPT !.present = Mpidr \ {Far}, !.madt = <<Pe(0), Pe(2), Pe(1)>>, !.gicc = TRUE,
                      !.launch = {1}, !.traps = 1, !.kicks = 1, !.ticks = 1],
     [TwoCores EXCEPT !.present = {Pe(0), Far}, !.madt = <<Pe(0), Far>>, !.launch = {1},
                      !.traps = 1, !.kicks = 1, !.ticks = 1]}

Gi == INSTANCE Gic

-----------------------------------------------------------------------------
(* zfsd and libfsclient: two clients, a table of two descriptors, a bulk   *)
(* buffer of two units.  A mix bounds the calls and the paths they name.   *)
VARIABLES zfsd, fs_req, fs_resp, cl, shm, fscalls, fsmix, touched
filesVars == <<zfsd, fs_req, fs_resp, cl, shm, fscalls, fsmix, touched>>

FsClient == {1, 2}
FsPath == {<<"a">>, <<"d">>, <<"d", "a">>}
MAX_DESCRIPTORS == 2
FsCapacity == 1
BULK == 2
FsMix(ops, paths, calls) == [ops |-> ops, paths |-> paths, calls |-> calls]
FsMixes ==
    {FsMix({"read_file", "write"}, {<<"a">>}, 2),
     FsMix({"read_file", "write_shared", "die"}, {<<"a">>, <<>>}, 2),
     FsMix({"open", "read", "vt_write", "close"}, {<<"a">>}, 3),
     FsMix({"create", "vt_write", "rename"}, {<<"a">>, <<"d", "a">>}, 3),
     FsMix({"mkdir", "rmdir", "unlink", "list", "rename"}, {<<"d">>, <<"a">>, <<"a", "..">>}, 2),
     FsMix({"open", "snapshot", "unlink"}, {<<"a">>}, 2)}

Fs == INSTANCE FsService

-----------------------------------------------------------------------------
(* virtio-blk: devices that fail each step of the bring-up, then one caller *)
(* or two, with at most one request that times out.                        *)
VARIABLES vb, dma, vdev, vcall, nvdisk, want, vtimeouts, vcalls, vmix
virtioBlkVars == <<vb, dma, vdev, vcall, nvdisk, want, vtimeouts, vcalls, vmix>>

VbCaller == {1, 2}
VbLba == {0, 1, 2}
VbVal == {"a", "b"}
VbDisk == <<"one", "two">> @@ (0 :> "old")
VbGood == [magic |-> TRUE, version |-> 2, is_blk |-> TRUE, version_1 |-> TRUE, features_ok |-> TRUE,
           qmax |-> 16, queue_ready |-> FALSE, legacy_pci |-> FALSE, store |-> "keeps",
           nvme |-> FALSE]
VbFaulty ==
    {[VbGood EXCEPT !.magic = FALSE], [VbGood EXCEPT !.version_1 = FALSE, !.nvme = TRUE],
     [VbGood EXCEPT !.features_ok = FALSE],
     [VbGood EXCEPT !.legacy_pci = TRUE, !.version = 1, !.qmax = 32],
     [VbGood EXCEPT !.qmax = 0], [VbGood EXCEPT !.qmax = 3], [VbGood EXCEPT !.store = "loses"],
     [VbGood EXCEPT !.store = "loses", !.nvme = TRUE],
     [VbGood EXCEPT !.store = "fails", !.nvme = TRUE],
     [VbGood EXCEPT !.version = 1, !.version_1 = FALSE, !.nvme = TRUE]}
VbMix(ops, lbas, sizes, calls, devs, callers, timeouts) ==
    [ops |-> ops, lbas |-> lbas, sizes |-> sizes, calls |-> calls, devs |-> devs,
     callers |-> callers, timeouts |-> timeouts]
VbMixes ==
    {VbMix({"read", "write"}, {1}, {1}, 2, VbFaulty, {1}, 0),
     VbMix({"read", "write"}, {1, 2}, {1, 2}, 3, {VbGood}, {1}, 0),
     VbMix({"read"}, {1, 2}, {1, 2}, 3, {VbGood}, {1}, 1),
     VbMix({"read", "write"}, {1, 2}, {1}, 3, {VbGood}, {1}, 2),
     VbMix({"read", "write"}, {1, 2}, {1}, 2, {VbGood}, {1, 2}, 1)}

Vb == INSTANCE VirtioBlk

-----------------------------------------------------------------------------
(* nvme: two CPUs over one to four queue pairs; controllers whose namespaces *)
(* do or do not suit, a request that times out, resets that fail.          *)
VARIABLES nst, slock, io_paths, plock, pmem, ndev, ncpu, recovery_needed,
          npaths, nwant, nraced, nbudget, nmix
nvmeVars == <<nst, slock, io_paths, plock, pmem, ndev, ncpu, recovery_needed,
              npaths, nwant, nraced, nbudget, nmix>>

NvCpu == {0, 1}
NvBlock == {1, 2}
NvVal == {"a"}
MaxPath == 6
NvNs(nsze, lbads) == [nsze |-> nsze, lbads |-> lbads]
NvThree == <<NvNs(0, 12), NvNs(1, 13), NvNs(8, 12)>>
NvMix(ops, blk0, blk1, calls, timeouts, errors, resets, nq, nss) ==
    [ops |-> ops, blk |-> (0 :> blk0 @@ 1 :> blk1), calls |-> calls, timeouts |-> timeouts,
     errors |-> errors, resets |-> resets, prof |-> [mpsmin |-> 0, identify |-> TRUE, nss |-> nss, nq |-> nq]]
NvMixes ==
    {NvMix({"write", "read"}, {1}, {1}, 3, 0, 1, 0, 1, NvThree),
     NvMix({"write"}, {1}, {2}, 2, 1, 0, 1, 4, NvThree),
     NvMix({"write", "read"}, {1}, {1, 2}, 3, 0, 0, 0, 4, NvThree),
     NvMix({"write"}, {1}, {2}, 2, 0, 1, 0, 0, <<NvNs(8, 9)>>),
     NvMix({"write"}, {1}, {}, 1, 0, 0, 0, 1, <<NvNs(0, 9)>>),
     NvMix({"write", "flush"}, {1}, {}, 3, 1, 0, 2, 1, NvThree)}

Nv == INSTANCE Nvme

-----------------------------------------------------------------------------
(* fsd: four table slots, sectors of two bytes, a crash at any write.      *)
VARIABLES fup, fvol, ffds, next_fd, fdisk, fcmd, fleft, fbudget, fmix
fsdVars == <<fup, fvol, ffds, next_fd, fdisk, fcmd, fleft, fbudget, fmix>>

FdByte == {"x"}
MAX_FILES == 4
SECTOR == 2
FILE_BYTES == 3
LongPath == {<<"l">>, <<"m">>}
FdMix(cmds, paths, calls, crashes, ioerrs, backend) ==
    [cmds |-> cmds, paths |-> paths, calls |-> calls, crashes |-> crashes, ioerrs |-> ioerrs,
     backend |-> backend, files |-> <<<<"b">>, <<"c">>, <<"a">>>>]
FdMixes ==
    {FdMix({"open", "write", "read", "close", "unlink"}, {<<"a">>, <<"d">>}, 4, 1, 0, "disk"),
     FdMix({"open", "mkdir", "rmdir", "rename", "unlink", "list"},
           {<<"a">>, <<"d">>, <<"d", "a">>, <<"d", "..">>}, 4, 1, 0, "blank"),
     FdMix({"open", "write"}, {<<"a">>}, 3, 1, 1, "disk"),
     FdMix({"open", "rename", "unlink", "write"}, {<<"a">>, <<"l">>, <<"m">>}, 3, 1, 0, "files"),
     FdMix({"open"}, {<<"a">>}, 1, 0, 0, "none")}

Fd == INSTANCE Fsd

-----------------------------------------------------------------------------
(* netd, virtio-net and a peer: sequence numbers modulo 8 that wrap within *)
(* the stream, a receive buffer of two bytes, a lost or a duplicated frame. *)
VARIABLES nd, nic, wire, host, ncli, reqs, due, ndbudget, ndmix
netdVars == <<nd, nic, wire, host, ncli, reqs, due, ndbudget, ndmix>>

NdClient == {1, 2}
NET_REQ_CAP == 1
SEQ == 8
TCP_RX_CAP == 2
TCP_SYN_RETRY_LIMIT == 2
SOCKET_MAX == 2
PENDING_MAX == 1
ARP_CACHE_MAX == 2
UDP_RX == 1
RxSlots == {1, 2}
PEER_ISS == 6
Stream == <<"a", "b", "c">>
NdMix(ops, bound, far, losses, dups, sends, calls) ==
    [clients |-> {1}, ops |-> ops, bound |-> bound, far |-> far, losses |-> losses, dups |-> dups, sends |-> sends,
     calls |-> calls]
NdMixes ==
    {NdMix({"status", "udp_open", "udp_recv", "udp_send"}, FALSE, FALSE, 0, 0, 0, 3),
     NdMix({"connect", "recv", "recv_shm"}, TRUE, TRUE, 0, 1, 2, 2),
     NdMix({"connect", "state", "send"}, TRUE, FALSE, 1, 0, 0, 3),
     NdMix({"ping"}, TRUE, FALSE, 0, 0, 1, 2),
     NdMix({"connect"}, FALSE, TRUE, 0, 0, 0, 2),
     [NdMix({"status", "recv_shm"}, TRUE, FALSE, 0, 0, 0, 5) EXCEPT !.clients = NdClient]}

Nd == INSTANCE Netd

-----------------------------------------------------------------------------
(* securityd: three users whose records straddle a sector boundary, a crash *)
(* and a failing write.                                                    *)
VARIABLES users, authz, mirror, kgrants, udisk, sdpc, durable, uwritten, sdbudget,
          sdmix
securitydVars == <<users, authz, mirror, kgrants, udisk, sdpc, durable,
                   uwritten, sdbudget, sdmix>>

SdClient == {1, 2}
UserName == {"root", "bob", "eve"}
LineLen == [root |-> 4, bob |-> 4, eve |-> 3]
SdSector == 4
USERDB_RECORD_SECTORS == 3
USER_CAPACITY == 3
AUTH_CAPACITY == 1
CAP_LEDGER_CAP == 1
SdUser(name, role) == [name |-> name, pw |-> 1, role |-> role]
Defaults == <<SdUser("root", "admin")>>
SdTwo == Append(Defaults, SdUser("bob", "user"))
SdThree == Append(SdTwo, SdUser("eve", "user"))
SdMix(ops, start, calls, crashes, ioerrs) ==
    [ops |-> ops, start |-> start, calls |-> calls, crashes |-> crashes, ioerrs |-> ioerrs]
SdMixes ==
    {SdMix({"verify", "add", "delete"}, SdTwo, 4, 1, 0),
     SdMix({"verify", "passwd", "delete"}, SdThree, 4, 1, 0),
     SdMix({"verify", "issue", "revoke"}, <<>>, 5, 1, 0),
     SdMix({"verify", "add"}, <<>>, 3, 0, 1),
     SdMix({"verify", "add", "delete"}, SdTwo, 3, 1, 1)}

Sd == INSTANCE Securityd WITH SECTOR <- SdSector

-----------------------------------------------------------------------------
(* launchd and service-controller: one registered service of the boot list *)
(* and two others, a table that the third or the fourth name fills, a      *)
(* death and a failing spawn.                                              *)
VARIABLES procs, sltable, slboot, sctable, svreq, svresp, svcli, svid,
          svbudget, svmix
servicesVars == <<procs, sltable, slboot, sctable, svreq, svresp, svcli, svid,
                  svbudget, svmix>>

SvName == {"fsd", "netd", "webtest", "audiod"}
SvRegistered == {"fsd", "netd", "webtest"}
KNOWN_SERVICES == <<"fsd", "audiod">>
SERVICE_TABLE_CAP == 3
MAX_SERVICES == 1
SvClient == {1, 2}
SvDepth == 1
SvMix(ops, calls, deaths, fails) ==
    [ops |-> ops, calls |-> calls, deaths |-> deaths, fails |-> fails]
SvMixes ==
    {SvMix({"spawn", "list"}, 4, 1, 1), SvMix({"start", "report", "query"}, 3, 0, 0),
     SvMix({"restart", "start"}, 2, 1, 1)}

Sv == INSTANCE Services

-----------------------------------------------------------------------------
(* xhci: a hub in a hub with a keyboard behind it, three device slots, a   *)
(* device that comes, goes or fails during its enumeration.                *)
VARIABLES xon, xstack, xdevs, xhubs, xslots, xarmed, xevents, xplug, xchange,
          xbudget, xmix
xhciVars == <<xon, xstack, xdevs, xhubs, xslots, xarmed, xevents, xplug,
              xchange, xbudget, xmix>>

XPorts == 2
XSlots == 3
MAX_EVENTS_PER_POLL == 2
XLoc == {<<1>>, <<1, 1>>, <<1, 1, 1>>, <<1, 2>>}
XKind ==
    [l \in XLoc |-> CASE l \in {<<1>>, <<1, 1>>} -> "hub"
                      [] l = <<1, 1, 1>> -> "hid"
                      [] l = <<1, 2>> -> "other"]
XMix(start, plugs, unplugs, faults, reports, hse) ==
    [start |-> start, plugs |-> plugs, unplugs |-> unplugs, faults |-> faults,
     reports |-> reports, hse |-> hse]
XMixes ==
    {XMix({<<1>>, <<1, 1>>, <<1, 1, 1>>}, 1, 1, 1, 0, 0), XMix({<<1>>, <<1, 2>>}, 2, 1, 1, 0, 0),
     XMix({<<1>>, <<1, 1>>, <<1, 1, 1>>}, 0, 1, 0, 2, 1)}

Xh == INSTANCE Xhci

-----------------------------------------------------------------------------
(* The keyboard, the serial line, inputd and the terminal, with rings of two *)
(* entries and a bus of one, so that each of them overflows.               *)
VARIABLES kbd, vq, iring, con, uart, inbus, indpc, gui, heard, spelled,
          inbudget, inmix
inputVars == <<kbd, vq, iring, con, uart, inbus, indpc, gui, heard, spelled,
               inbudget, inmix>>

InKey == {"a", "1"}
InLetter == {"a"}
QN == 1
RING == 2
CAP == 3
RXBUF == 2
BUS == 1
InRaw(kind, code, value) == [kind |-> kind, code |-> code, value |-> value]
Pointer == {InRaw("abs", "x", 1), InRaw("syn", "", 0), InRaw("key", "btn", 1)}
Keyboard == {InRaw("key", k, v) : k \in {"a", "lshift"}, v \in 0 .. 2}
            \cup {InRaw("key", "caps", v) : v \in 0 .. 1}
InMix(strokes, raws, moves, serial) ==
    [strokes |-> strokes, raws |-> raws, moves |-> moves, serial |-> serial]
InMixes == {InMix(4, {}, 0, 0), InMix(2, Pointer, 2, 0), InMix(0, Keyboard, 3, 0),
            InMix(2, {InRaw("key", "lshift", 0), InRaw("key", "lshift", 1)}, 2, 0), InMix(1, {}, 0, 3)}

Inp == INSTANCE Input

-----------------------------------------------------------------------------
(* windowserver: a screen of 3 by 2 pixels, windows that overlap, lie partly *)
(* off the screen or are moved by the pointer.                             *)
VARIABLES wins, wnext, wfocus, pointer, dragging, dirty, frame, wreply, wdown,
          wbudget, wmix
windowsVars == <<wins, wnext, wfocus, pointer, dragging, dirty, frame, wreply, wdown,
                 wbudget, wmix>>

WsWidth == 3
WsHeight == 2
ABS_MAX == 4
MAX_WINDOWS == 3
WsClient == {1, 2}
WsRect(x, y, w, h) == [x |-> x, y |-> y, w |-> w, h |-> h]
WsRects ==
    {WsRect(0, 0, 2, 1), WsRect(0, 0, 1, 2), WsRect(1, 1, 2, 2), WsRect(-1, 0, 2, 2)}
WsMix(ops, calls) == [ops |-> ops, calls |-> calls]
WsMixes ==
    {WsMix({"create", "destroy", "geometry"}, 3), WsMix({"create", "submit", "raise"}, 3),
     WsMix({"create", "submit", "geometry"}, 3),
     WsMix({"create", "pointer"}, 3), WsMix({"pointer"}, 5)}

Ws == INSTANCE Compositor

-----------------------------------------------------------------------------
(* The loader, the kernel entry and pstore: memory maps of 14 pages whose  *)
(* kernel image, pstore page and slide fall on every side of each other.   *)
VARIABLES bpc, bvariant, benv, bmem, bbytes, bsink, bfree, pst, pw, unmarked,
          ctl, bbudget, bmix
bootingVars == <<bpc, bvariant, benv, bmem, bbytes, bsink, bfree, pst, pw,
                 unmarked, ctl, bbudget, bmix>>

BPages == 14
PstorePage == 1
KaslrStart == 3
KaslrEnd == 8
KernelSpan == 2
SINK_CAPACITY == 5
MAX_MEMMAP_REGIONS == 4
LEGACY_LOW_RESERVE == 1
MIN_PLAUSIBLE_MEMORY == 2
MAX_PLAUSIBLE_MEMORY == 5
FALLBACK_MEMORY_BYTES == 4
MAX_FAILURES == 3
RING_LEN == 3
SEQ_MAX == 5
BMix(conv, places, boots, lines, variants, env, sinks) ==
    [conv |-> conv, places |-> places, boots |-> boots, lines |-> lines, variants |-> variants,
     env |-> env, sinks |-> sinks]
BMixes ==
    {BMix(1..11, {2, 5, 7, 10}, 1, 0, {"Normal"}, "rw", {"sorted", "any"}),
     BMix(1..11, {2, 3, 10, 11}, 1, 0, {"Normal"}, "ro", {"none"}),
     BMix((1..11) \ {6}, {2, 4, 5}, 1, 0, {"Normal"}, "err", {"sorted"}),
     BMix({1, 3, 4, 9, 10, 11}, {9, 10}, 7, 0, {"Normal", "Recovery"}, "rw", {"sorted"}),
     BMix({0, 3, 4, 9, 10, 11}, {9, 10}, 2, 5, {"Normal"}, "rw", {"sorted"}),
     BMix({1, 3, 9, 10, 11}, {9, 10}, 1, 5, {"Normal"}, "rw", {"sorted"}),
     BMix({1, 3, 4, 6, 9, 10, 11}, {9, 10, 11}, 1, 0, {"Normal"}, "rw", {"any", "none"})}

Bt == INSTANCE Boot

-----------------------------------------------------------------------------
(* The host's package tools and the device's pkgd: bundles in two versions, *)
(* two identifiers of one bundle name and one identifier under two names,  *)
(* origins and keys that are trusted, foreign or missing, a crash.  A path *)
(* is a sequence of components and a component a sequence of letters.      *)
VARIABLES hrepo, htrust, happs, hstore, htool, hbudget, dpc, dapps, dold,
          dtemp, dreg, dreply, dkept, dbudget, pkmix
packagesVars == <<hrepo, htrust, happs, hstore, htool, hbudget, dpc, dapps,
                  dold, dtemp, dreg, dreply, dkept, dbudget, pkmix>>

MainPath == <<<<4>>>>
ConfigPath == <<<<6>>>>
PkAsset == <<<<3>>, <<5>>>>
MAX_HTTP_RESPONSE == 9
PKG_TRUST_ORIGIN == "zero"
PKG_ZERO_OS_KEY == "k"
PkSome(v) == [kind |-> "some", v |-> v]
PkNone == [kind |-> "none"]
PkBundle(id, ver, storage, extra, config, code) ==
    [name |-> id, id |-> id, version |-> ver, storage |-> storage,
     files |-> [p \in {MainPath} \cup config \cup extra |-> IF p = ConfigPath THEN id ELSE code]]
PkOld == PkBundle(1, 1, <<3>>, {PkAsset}, {ConfigPath}, 11)
PkNew == PkBundle(1, 2, <<>>, {}, {ConfigPath}, 12)
PkOther == PkBundle(2, 1, <<3, 1>>, {}, {ConfigPath}, 13)
PkBare == PkBundle(3, 1, <<3>>, {}, {}, 13)
PkClash == PkBundle(3, 1, <<3, 2>>, {}, {ConfigPath}, 13)
PkAlias == [PkOther EXCEPT !.name = 1, !.version = 2]
PkRenamed == [PkNew EXCEPT !.name = 2]
PkMix(onhost, hosts, bundles, origins, keys, room, faults, crashes, asks) ==
    [host |-> onhost, hosts |-> hosts, bundles |-> bundles, origins |-> origins, keys |-> keys,
     frames |-> room, faults |-> faults, crashes |-> crashes, reqs |-> asks]
PkMixes ==
    {PkMix(TRUE, 4, {PkOld, PkNew, PkBare}, {PkNone, PkSome("zero")}, {PkSome("k"), PkNone},
           {"close"}, 0, 0, 0),
     PkMix(TRUE, 4, {PkOther, PkClash}, {PkNone}, {PkNone}, {"close"}, 0, 0, 0),
     PkMix(FALSE, 2, {PkOld, PkNew}, {PkSome("zero")}, {PkSome("k")}, {"close", "chunked"}, 2, 1, 3),
     PkMix(FALSE, 2, {PkNew, PkOther}, {PkSome("zero"), PkSome("o"), PkNone},
           {PkSome("k"), PkSome("z"), PkNone}, {"length"}, 0, 0, 3),
     PkMix(FALSE, 2, {PkOld, PkAlias}, {PkSome("zero")}, {PkSome("k")}, {"length"}, 1, 0, 3),
     PkMix(FALSE, 2, {PkOld, PkRenamed}, {PkSome("zero")}, {PkSome("k")}, {"length"}, 1, 1, 3)}

Pk == INSTANCE Pkg

-----------------------------------------------------------------------------
(* virtio-gpu: two clients and two backing blocks; refused commands, a killed *)
(* client, and a response that comes after the driver gave up.             *)
VARIABLES gst, gop, gq, gresp, gdev, gheap, gcli, gtag, ghalf, gpubudget, gpumix
gpuVars == <<gst, gop, gq, gresp, gdev, gheap, gcli, gtag, ghalf, gpubudget, gpumix>>

GClient == {1, 2}
GBlock == {1, 2}
GpuMix(virgl, refusals, timeouts, kills, flushes, clients) ==
    [virgl |-> virgl, refusals |-> refusals, timeouts |-> timeouts, kills |-> kills,
     flushes |-> flushes, clients |-> clients]
GpuMixes ==
    {GpuMix(TRUE, 2, 0, 0, 0, {1}), GpuMix(TRUE, 1, 0, 1, 0, {1, 2}),
     GpuMix(FALSE, 1, 1, 0, 2, {1})}

Gp == INSTANCE Gpu

-----------------------------------------------------------------------------
(* virtio-snd and audiod: up to three players of two periods each, refused *)
(* commands, failed and slow transfers, jack events.                       *)
VARIABLES snd, sop, pcm, cq, tx, evq, played, audiod, areq, aresp, atest,
          reported, illegal, sndhist, sndbudget, sndmix
soundVars == <<snd, sop, pcm, cq, tx, evq, played, audiod, areq, aresp, atest,
               reported, illegal, sndhist, sndbudget, sndmix>>

ATest == {1, 2, 3}
Periods == 2
EventBufs == 2
SoundMix(n, ops, stereo, refusals, errors, slow, lazy, events) ==
    [tests |-> 1..n, ops |-> ops, stereo |-> stereo, refusals |-> refusals, errors |-> errors,
     slow |-> slow, lazy |-> lazy, events |-> events]
SoundMixes ==
    {SoundMix(3, {"play"}, TRUE, 1, 0, 0, 0, 0), SoundMix(2, {"play"}, TRUE, 2, 0, 0, 0, 0),
     SoundMix(2, {"play"}, TRUE, 0, 1, 1, 0, 0), SoundMix(2, {"play", "stop"}, TRUE, 1, 0, 1, 0, 1),
     SoundMix(2, {"play", "stop"}, TRUE, 0, 0, 0, 1, 0), SoundMix(2, {"play"}, TRUE, 0, 0, 1, 1, 0),
     SoundMix(1, {"play", "stop"}, FALSE, 0, 0, 0, 0, 0)}

So == INSTANCE Sound

-----------------------------------------------------------------------------
(* The framebuffer console and the shell's line editor: a screen of 13 by 6 *)
(* units, so that rows wrap and the screen scrolls, on one CPU or several. *)
VARIABLES kpc, console, foreground, hostfb, writer, shline, comp, stray,
          disbudget, dismix
displayVars == <<kpc, console, foreground, hostfb, writer, shline, comp,
                 stray, disbudget, dismix>>

FbWidth == 13
FbHeight == 6
LineMax == 5
HistoryCap == 2
DisMix(gpu, flip, smp, keys, nkeys, wides, log, svc, presents) ==
    [gpu |-> gpu, flip |-> flip, smp |-> smp, keys |-> keys, nkeys |-> nkeys, wides |-> wides,
     log |-> log, svc |-> svc, presents |-> presents]
DisplayMixes ==
    {DisMix(TRUE, FALSE, FALSE, {"a", "bs", "\n"}, 4, 0, 1, 1, 1),
     DisMix(FALSE, TRUE, FALSE, {"a", "bs", "\n"}, 5, 0, 4, 0, 0),
     DisMix(FALSE, TRUE, FALSE, {"a"}, 2, 0, 0, 0, 1),
     DisMix(TRUE, FALSE, FALSE, {"c", "h", "\n"}, 5, 0, 0, 0, 0),
     DisMix(TRUE, FALSE, FALSE, {"lead", "cont", "a", "bs"}, 6, 1, 0, 0, 0),
     DisMix(TRUE, FALSE, TRUE, {"a"}, 1, 0, 1, 2, 0),
     DisMix(FALSE, FALSE, TRUE, {"a", "\n"}, 2, 0, 1, 1, 0)}

Ds == INSTANCE Display

-----------------------------------------------------------------------------
(* The parts a behaviour does not run are absent from it.                 *)
NoCores ==
    /\ spc = 0 /\ topo = 0 /\ logical = 0 /\ requested = 0 /\ online = 0
    /\ multi_core = 0 /\ eager = 0 /\ pes = 0 /\ live = 0 /\ frames = 0
    /\ own = 0 /\ runq = 0 /\ sbudget = 0 /\ smix = 0 /\ gpc = 0
    /\ version = 0 /\ its = 0 /\ hw = 0 /\ prop = 0 /\ rd = 0 /\ handlers = 0
    /\ job = 0 /\ msi = 0 /\ timer = 0 /\ pend = 0 /\ unhandled = 0
    /\ gbudget = 0
NoFiles ==
    /\ zfsd = 0 /\ fs_req = 0 /\ fs_resp = 0 /\ cl = 0 /\ shm = 0
    /\ fscalls = 0 /\ fsmix = 0 /\ touched = 0
NoVirtioBlk ==
    /\ vb = 0 /\ dma = 0 /\ vdev = 0 /\ vcall = 0 /\ nvdisk = 0 /\ want = 0
    /\ vtimeouts = 0 /\ vcalls = 0 /\ vmix = 0
NoNvme ==
    /\ nst = 0 /\ slock = 0 /\ io_paths = 0 /\ plock = 0 /\ pmem = 0
    /\ ndev = 0 /\ ncpu = 0 /\ recovery_needed = 0 /\ npaths = 0 /\ nwant = 0
    /\ nraced = 0 /\ nbudget = 0 /\ nmix = 0
NoFsd ==
    /\ fup = 0 /\ fvol = 0 /\ ffds = 0 /\ next_fd = 0 /\ fdisk = 0 /\ fcmd = 0
    /\ fleft = 0 /\ fbudget = 0 /\ fmix = 0
NoNetd ==
    /\ nd = 0 /\ nic = 0 /\ wire = 0 /\ host = 0 /\ ncli = 0 /\ reqs = 0
    /\ due = 0 /\ ndbudget = 0 /\ ndmix = 0
NoSecurityd ==
    /\ users = 0 /\ authz = 0 /\ mirror = 0 /\ kgrants = 0 /\ udisk = 0
    /\ sdpc = 0 /\ durable = 0 /\ uwritten = 0 /\ sdbudget = 0 /\ sdmix = 0
NoServices ==
    /\ procs = 0 /\ sltable = 0 /\ slboot = 0 /\ sctable = 0 /\ svreq = 0
    /\ svresp = 0 /\ svcli = 0 /\ svid = 0 /\ svbudget = 0 /\ svmix = 0
NoXhci ==
    /\ xon = 0 /\ xstack = 0 /\ xdevs = 0 /\ xhubs = 0 /\ xslots = 0
    /\ xarmed = 0 /\ xevents = 0 /\ xplug = 0 /\ xchange = 0 /\ xbudget = 0
    /\ xmix = 0
NoInput ==
    /\ kbd = 0 /\ vq = 0 /\ iring = 0 /\ con = 0 /\ uart = 0 /\ inbus = 0
    /\ indpc = 0 /\ gui = 0 /\ heard = 0 /\ spelled = 0 /\ inbudget = 0
    /\ inmix = 0
NoWindows ==
    /\ wins = 0 /\ wnext = 0 /\ wfocus = 0 /\ pointer = 0 /\ dragging = 0
    /\ dirty = 0 /\ frame = 0 /\ wreply = 0 /\ wdown = 0 /\ wbudget = 0 /\ wmix = 0
NoBooting ==
    /\ bpc = 0 /\ bvariant = 0 /\ benv = 0 /\ bmem = 0 /\ bbytes = 0
    /\ bsink = 0 /\ bfree = 0 /\ pst = 0 /\ pw = 0 /\ unmarked = 0 /\ ctl = 0
    /\ bbudget = 0 /\ bmix = 0
NoPackages ==
    /\ hrepo = 0 /\ htrust = 0 /\ happs = 0 /\ hstore = 0 /\ htool = 0
    /\ hbudget = 0 /\ dpc = 0 /\ dapps = 0 /\ dold = 0 /\ dtemp = 0
    /\ dreg = 0 /\ dreply = 0 /\ dkept = 0 /\ dbudget = 0 /\ pkmix = 0
NoGpu ==
    /\ gst = 0 /\ gop = 0 /\ gq = 0 /\ gresp = 0 /\ gdev = 0 /\ gheap = 0
    /\ gcli = 0 /\ gtag = 0 /\ ghalf = 0 /\ gpubudget = 0 /\ gpumix = 0
NoSound ==
    /\ snd = 0 /\ sop = 0 /\ pcm = 0 /\ cq = 0 /\ tx = 0 /\ evq = 0 /\ played = 0
    /\ audiod = 0 /\ areq = 0 /\ aresp = 0 /\ atest = 0 /\ reported = 0
    /\ illegal = 0 /\ sndhist = 0 /\ sndbudget = 0 /\ sndmix = 0
NoDisplay ==
    /\ kpc = 0 /\ console = 0 /\ foreground = 0 /\ hostfb = 0 /\ writer = 0
    /\ shline = 0 /\ comp = 0 /\ stray = 0 /\ disbudget = 0 /\ dismix = 0

Init ==
    /\ part \in Parts
    /\ IF part = "Cores" THEN Gi!GicInit ELSE NoCores
    /\ IF part = "Files" THEN Fs!FsInit ELSE NoFiles
    /\ IF part = "VirtioBlk" THEN Vb!VbInit ELSE NoVirtioBlk
    /\ IF part = "Nvme" THEN Nv!NvInit ELSE NoNvme
    /\ IF part = "Fsd" THEN Fd!FdInit ELSE NoFsd
    /\ IF part = "Netd" THEN Nd!NdInit ELSE NoNetd
    /\ IF part = "Securityd" THEN Sd!SdInit ELSE NoSecurityd
    /\ IF part = "Services" THEN Sv!SvInit ELSE NoServices
    /\ IF part = "Xhci" THEN Xh!XInit ELSE NoXhci
    /\ IF part = "Input" THEN Inp!InInit ELSE NoInput
    /\ IF part = "Windows" THEN Ws!WsInit ELSE NoWindows
    /\ IF part = "Booting" THEN Bt!BInit ELSE NoBooting
    /\ IF part = "Packages" THEN Pk!PkInit ELSE NoPackages
    /\ IF part = "Gpu" THEN Gp!GpuInit ELSE NoGpu
    /\ IF part = "Sound" THEN So!SoundInit ELSE NoSound
    /\ IF part = "Display" THEN Ds!DisInit ELSE NoDisplay

CoresRuns ==
    part = "Cores" /\ UNCHANGED <<part, filesVars, virtioBlkVars, nvmeVars,
                                  fsdVars, netdVars, securitydVars,
                                  servicesVars, xhciVars, inputVars,
                                  windowsVars, bootingVars, packagesVars,
                                  gpuVars, soundVars, displayVars>>
FilesRuns ==
    part = "Files" /\ UNCHANGED <<part, coresVars, virtioBlkVars, nvmeVars,
                                  fsdVars, netdVars, securitydVars,
                                  servicesVars, xhciVars, inputVars,
                                  windowsVars, bootingVars, packagesVars,
                                  gpuVars, soundVars, displayVars>>
VirtioBlkRuns ==
    part = "VirtioBlk" /\ UNCHANGED <<part, coresVars, filesVars, nvmeVars,
                                      fsdVars, netdVars, securitydVars,
                                      servicesVars, xhciVars, inputVars,
                                      windowsVars, bootingVars, packagesVars,
                                      gpuVars, soundVars, displayVars>>
NvmeRuns ==
    part = "Nvme" /\ UNCHANGED <<part, coresVars, filesVars, virtioBlkVars,
                                 fsdVars, netdVars, securitydVars,
                                 servicesVars, xhciVars, inputVars,
                                 windowsVars, bootingVars, packagesVars,
                                 gpuVars, soundVars, displayVars>>
FsdRuns ==
    part = "Fsd" /\ UNCHANGED <<part, coresVars, filesVars, virtioBlkVars,
                                nvmeVars, netdVars, securitydVars,
                                servicesVars, xhciVars, inputVars,
                                windowsVars, bootingVars, packagesVars,
                                gpuVars, soundVars, displayVars>>
NetdRuns ==
    part = "Netd" /\ UNCHANGED <<part, coresVars, filesVars, virtioBlkVars,
                                 nvmeVars, fsdVars, securitydVars,
                                 servicesVars, xhciVars, inputVars,
                                 windowsVars, bootingVars, packagesVars,
                                 gpuVars, soundVars, displayVars>>
SecuritydRuns ==
    part = "Securityd" /\ UNCHANGED <<part, coresVars, filesVars,
                                      virtioBlkVars, nvmeVars, fsdVars,
                                      netdVars, servicesVars, xhciVars,
                                      inputVars, windowsVars, bootingVars,
                                      packagesVars, gpuVars, soundVars,
                                      displayVars>>
ServicesRuns ==
    part = "Services" /\ UNCHANGED <<part, coresVars, filesVars,
                                     virtioBlkVars, nvmeVars, fsdVars,
                                     netdVars, securitydVars, xhciVars,
                                     inputVars, windowsVars, bootingVars,
                                     packagesVars, gpuVars, soundVars,
                                     displayVars>>
XhciRuns ==
    part = "Xhci" /\ UNCHANGED <<part, coresVars, filesVars, virtioBlkVars,
                                 nvmeVars, fsdVars, netdVars, securitydVars,
                                 servicesVars, inputVars, windowsVars,
                                 bootingVars, packagesVars, gpuVars,
                                 soundVars, displayVars>>
InputRuns ==
    part = "Input" /\ UNCHANGED <<part, coresVars, filesVars, virtioBlkVars,
                                  nvmeVars, fsdVars, netdVars, securitydVars,
                                  servicesVars, xhciVars, windowsVars,
                                  bootingVars, packagesVars, gpuVars,
                                  soundVars, displayVars>>
WindowsRuns ==
    part = "Windows" /\ UNCHANGED <<part, coresVars, filesVars,
                                    virtioBlkVars, nvmeVars, fsdVars,
                                    netdVars, securitydVars, servicesVars,
                                    xhciVars, inputVars, bootingVars,
                                    packagesVars, gpuVars, soundVars,
                                    displayVars>>
BootingRuns ==
    part = "Booting" /\ UNCHANGED <<part, coresVars, filesVars,
                                    virtioBlkVars, nvmeVars, fsdVars,
                                    netdVars, securitydVars, servicesVars,
                                    xhciVars, inputVars, windowsVars,
                                    packagesVars, gpuVars, soundVars,
                                    displayVars>>
PackagesRuns ==
    part = "Packages" /\ UNCHANGED <<part, coresVars, filesVars,
                                     virtioBlkVars, nvmeVars, fsdVars,
                                     netdVars, securitydVars, servicesVars,
                                     xhciVars, inputVars, windowsVars,
                                     bootingVars, gpuVars, soundVars,
                                     displayVars>>
GpuRuns ==
    part = "Gpu" /\ UNCHANGED <<part, coresVars, filesVars, virtioBlkVars,
                                nvmeVars, fsdVars, netdVars, securitydVars,
                                servicesVars, xhciVars, inputVars,
                                windowsVars, bootingVars, packagesVars,
                                soundVars, displayVars>>
SoundRuns ==
    part = "Sound" /\ UNCHANGED <<part, coresVars, filesVars, virtioBlkVars,
                                  nvmeVars, fsdVars, netdVars, securitydVars,
                                  servicesVars, xhciVars, inputVars,
                                  windowsVars, bootingVars, packagesVars,
                                  gpuVars, displayVars>>
DisplayRuns ==
    part = "Display" /\ UNCHANGED <<part, coresVars, filesVars,
                                    virtioBlkVars, nvmeVars, fsdVars,
                                    netdVars, securitydVars, servicesVars,
                                    xhciVars, inputVars, windowsVars,
                                    bootingVars, packagesVars, gpuVars,
                                    soundVars>>

Next ==
    \/ CoresRuns /\ Gi!GicNext
    \/ FilesRuns /\ Fs!FsNext
    \/ VirtioBlkRuns /\ Vb!VbNext
    \/ NvmeRuns /\ Nv!NvNext
    \/ FsdRuns /\ Fd!FdNext
    \/ NetdRuns /\ Nd!NdNext
    \/ SecuritydRuns /\ Sd!SdNext
    \/ ServicesRuns /\ Sv!SvNext
    \/ XhciRuns /\ Xh!XNext
    \/ InputRuns /\ Inp!InNext
    \/ WindowsRuns /\ Ws!WsNext
    \/ BootingRuns /\ Bt!BNext
    \/ PackagesRuns /\ Pk!PkNext
    \/ GpuRuns /\ Gp!GpuNext
    \/ SoundRuns /\ So!SoundNext
    \/ DisplayRuns /\ Ds!DisNext

vars == <<part, coresVars, filesVars, virtioBlkVars, nvmeVars, fsdVars,
          netdVars, securitydVars, servicesVars, xhciVars, inputVars,
          windowsVars, bootingVars, packagesVars, gpuVars, soundVars,
          displayVars>>

Spec == Init /\ [][Next]_vars

-----------------------------------------------------------------------------
(* The variables of the running part have their types, and its tables, queues *)
(* and caches keep their capacities.                                       *)
TypeOK ==
    /\ part \in Parts
    /\ part = "Cores" => Gi!GicTypeOK
    /\ part = "Files" => Fs!FsTypeOK
    /\ part = "VirtioBlk" => Vb!VbTypeOK
    /\ part = "Nvme" => Nv!NvTypeOK
    /\ part = "Fsd" => Fd!FdTypeOK
    /\ part = "Netd" => Nd!NdTypeOK
    /\ part = "Securityd" => Sd!SdTypeOK
    /\ part = "Services" => Sv!SvTypeOK
    /\ part = "Xhci" => Xh!XTypeOK
    /\ part = "Input" => Inp!InTypeOK
    /\ part = "Windows" => Ws!WsTypeOK
    /\ part = "Booting" => Bt!BTypeOK
    /\ part = "Packages" => Pk!PkTypeOK
    /\ part = "Gpu" => Gp!GpuTypeOK
    /\ part = "Sound" => So!SoundTypeOK
    /\ part = "Display" => Ds!DisTypeOK


(* zfsd and its clients: the reply a client takes answers its own last request *)
(* although all of them share one channel ("A targeted envelope cannot be  *)
(* stolen by another FS client", fs-zfs lib.rs:34), and a read_file that   *)
(* succeeds while nobody changes the volume returns the file, every unit once *)
(* and in order.                                                           *)
FsExact ==
    /\ part = "Files" => Fs!RepliesPair
    /\ part = "Files" => Fs!ReadFileExact

(* The block drivers: a virtio-blk read that returns Ok has read the last value *)
(* successfully written, after requests given up at their deadline too     *)
(* (blk.rs:393-394); no NVMe sector loses an acknowledged value or is disturbed *)
(* by its neighbour's read-modify-write (nvme.rs:771), across stale completions *)
(* and controller resets.  Excepted are requests mixed up in virtio-blk's one *)
(* header and bounce buffer, and NVMe blocks two queue pairs update at once. *)
DiskIntact ==
    /\ part = "VirtioBlk" => Vb!VbReadsExact
    /\ part = "Nvme" => Nv!NvSectorsKept

(* Were power to fail now, each file of fsd's disk would be as before or as *)
(* after the command under way, in a sound tree (fsd lib.rs:460-483, 723-725), *)
(* and securityd would read the database of a verified save or of one made *)
(* since (securityd lib.rs:822-825), but for records that straddle two chunks *)
(* of fsd's table, and saves cut short or longer before (securityd:846-848). *)
CrashDurable ==
    /\ part = "Fsd" => Fd!FdCrashAtomic
    /\ part = "Securityd" => Sd!UserdbDurable

(* netd: what a client has read of a connection is the beginning of what the *)
(* peer sent, whatever was lost, duplicated or reordered, and the peer has never *)
(* been told that more arrived: "Advance ACK only over bytes actually retained" *)
(* (netd lib.rs:466-469).  A bulk receive that returned has revoked its grant, *)
(* unless NET_REQ was full (libnetclient lib.rs:52).                       *)
NetStreamExact == part = "Netd" => Nd!NetStreamExact

(* launchd: never two copies of a service, however starting it failed before *)
(* ("a repeated spawn would make a second process", launchd lib.rs:361-362), and *)
(* the copy that runs is the one its row names, but for a service asked for *)
(* while the table was full (launchd lib.rs:132).                          *)
OneInstance == part = "Services" => Sv!OneInstance

(* xhci: after any plugging, unplugging, failed transfer and recovery a slot *)
(* belongs to one device, a device is behind a hub the driver still has, and a *)
(* hub counts a port as taken exactly when a device is registered behind it *)
(* (xhci.rs:880-884).                                                      *)
UsbTreeSound == part = "Xhci" => Xh!UsbTreeSound

(* The terminal gets the text that was typed, in order, each key shifted if *)
(* a shift key was down in its report, except after one of two shift keys came *)
(* up (console_input.rs:64-67); a full ring loses the newest bytes, never  *)
(* unread ones (virtio/input.rs:150-152, console_input.rs:34-35).          *)
TerminalText == part = "Input" => Inp!TerminalText



(* An application that was installed and not removed is there, under its name *)
(* or as .old, with exactly the files of one published, signed bundle of its *)
(* identifier, whichever call fails and wherever the machine stops (libpkg *)
(* install_bytes), unless another identifier was installed under its name; *)
(* no two applications of the host share a data directory                  *)
(* (allocate_app_storage).                                                 *)
InstalledExact == part = "Packages" => Pk!InstalledExact

(* The tables of the GPU and sound drivers stay in step with the devices through *)
(* refused commands, killed processes and slow transfers: backing stores are *)
(* never shared, a context outlives its resources (gpu.rs:664), no PCM command *)
(* is sent that the stream's state does not allow, and a period reported as *)
(* played was played (sound.rs:230); but for a resource half destroyed     *)
(* (gpu.rs:783-790), after a control command given up on (sound.rs:187-193), and *)
(* for a period queued behind a late one (sound.rs:245).                   *)
MediaInStep ==
    /\ part = "Gpu" => Gp!GpuInStep
    /\ part = "Sound" => So!SoundFaithful
=============================================================================
