-------------------------------- MODULE Fsd --------------------------------
(***************************************************************************)
(* The block-backed file server of servers/fsd/src/lib.rs on top of the    *)
(* chunk protocol of servers/blkdrv/src/lib.rs.                            *)
(*                                                                         *)
(* A fixed table of slots (path, size) is kept in memory and written to    *)
(* one superblock sector; slot i owns a fixed run of data sectors.  A      *)
(* sector is written through blkdrv in chunks of 104 bytes, each a         *)
(* read-modify-write of its own, so power can fail between two of them:    *)
(* the superblock's chunks hold the names and sizes of different slots     *)
(* (NameChunk, SizeChunk), and a long name may lie in two of them.  One    *)
(* client at a time is served (the server's stated discipline).            *)
(*                                                                         *)
(* A path is a sequence of segments; a byte is one of a few values.        *)
(***************************************************************************)
EXTENDS Naturals, Sequences, FiniteSets

CONSTANTS
    FdByte,      \* contents of one byte
    MAX_FILES,   \* slots, and descriptors
    SECTOR,      \* bytes of a sector (of a file)
    FILE_BYTES,  \* capacity of a slot
    LongPath,    \* paths of 13 to 23 bytes
    FdMixes      \* [cmds, paths, calls, crashes, ioerrs, backend, files]: one behaviour's share

VARIABLES
    fup,         \* is the server process running?
    fvol,        \* VOLUME and MOUNT_OK: attempted, degraded, ok, slots
    ffds,        \* FDS: descriptor index -> [id, slot, offset], id 0 when free
    next_fd,
    fdisk,       \* the disk: formatted, recs (slot records), data
    fcmd,        \* the command being executed: remaining disk writes and its outcome
    fleft,       \* history: free slots whose size on the disk was not cleared
    fbudget, fmix

fdVars == << fup, fvol, ffds, next_fd, fdisk, fcmd, fleft, fbudget, fmix >>

Slot == 1 .. MAX_FILES
EMPTY == [used |-> FALSE, dir |-> FALSE, name |-> << >>, size |-> 0]
Blank == [used |-> FALSE, dir |-> FALSE, name |-> << >>, rest |-> << >>, size |-> 0]
NoFd == [id |-> 0, slot |-> 1, offset |-> 0]

\* The chunk of the superblock sector that holds a slot's name and its size
\* (records of 40 bytes from byte 12, chunks of 104 bytes).  Of a name that
\* crosses a boundary the first bytes are in NameChunk, the rest in SizeChunk.
NameChunk(i) == (12 + 40 * (i - 1)) \div 104
SizeChunk(i) == (12 + 40 * (i - 1) + 24) \div 104
Crossing(i) == (12 + 40 * (i - 1) + 23) \div 104 # NameChunk(i)
SuperChunks == [k \in 1 .. SizeChunk(MAX_FILES) + 1 |-> k - 1]

-----------------------------------------------------------------------------
(* Paths. *)

normalize_path(p) == p # << >> /\ \A i \in 1 .. Len(p) : p[i] \notin {"", ".", ".."}

split_parent(p) == SubSeq(p, 1, Len(p) - 1)

matches(slots, p) == {i \in Slot : slots[i].used /\ ~slots[i].dir /\ slots[i].name = p}
matches_dir(slots, p) == {i \in Slot : slots[i].used /\ slots[i].dir /\ slots[i].name = p}
parent_exists(slots, d) == d = << >> \/ matches_dir(slots, d) # {}
path_taken(slots, p) == matches(slots, p) \cup matches_dir(slots, p) # {}

IsUnder(q, p) == Len(q) > Len(p) /\ SubSeq(q, 1, Len(p)) = p
First(S) == CHOOSE i \in S : \A j \in S : i <= j
FreeSlots(slots) == {i \in Slot : ~slots[i].used}

-----------------------------------------------------------------------------
(* Disk writes.  A command's effect on the disk is a sequence of chunks.    *)

\* persist_super_locked: the whole table, unused slots as zeroes.  `rest' is the
\* part of a long name behind the chunk boundary, known by the whole name.
OnDisk(slots) ==
    [i \in Slot |-> IF ~slots[i].used THEN Blank
                    ELSE [used |-> TRUE, dir |-> slots[i].dir, name |-> slots[i].name,
                          rest |-> IF Crossing(i) /\ slots[i].name \in LongPath THEN slots[i].name ELSE << >>,
                          size |-> slots[i].size]]
persist_super_locked(slots) ==
    [k \in 1 .. Len(SuperChunks) |-> [kind |-> "super", chunk |-> SuperChunks[k],
                                      recs |-> OnDisk(slots), slot |-> 1, at |-> 0, byte |-> "zero"]]

DataChunk(i, at, b) == [kind |-> "data", chunk |-> 0, recs |-> OnDisk([j \in Slot |-> EMPTY]),
                        slot |-> i, at |-> at, byte |-> b]

\* One CMD_WRITE_CHUNK: blkdrv reads the sector, patches it and writes it.
cmd_write_chunk(d, w) ==
    IF w.kind = "data" THEN [d EXCEPT !.data[w.slot][w.at] = w.byte]
    ELSE [d EXCEPT !.formatted = @ \/ w.chunk = 0,
                   !.recs = [i \in Slot |->
                      LET named == IF NameChunk(i) = w.chunk
                                   THEN [w.recs[i] EXCEPT !.size = d.recs[i].size, !.rest = d.recs[i].rest]
                                   ELSE d.recs[i]
                      IN  IF SizeChunk(i) = w.chunk
                          THEN [named EXCEPT !.size = w.recs[i].size, !.rest = w.recs[i].rest] ELSE named]]

\* The slot a record stands for when it is read back: the two parts of its name
\* may be of two different names.
TornName == << "torn" >>
Torn(rec, i) == rec.used /\ Crossing(i) /\ rec.name \in LongPath /\ rec.rest # rec.name
Loaded(recs) ==
    [i \in Slot |-> IF ~recs[i].used THEN EMPTY
                    ELSE [used |-> TRUE, dir |-> recs[i].dir, size |-> recs[i].size,
                          name |-> IF Torn(recs[i], i) THEN TornName ELSE recs[i].name]]

-----------------------------------------------------------------------------
(* Commands: the outcome of a handler is a record of what it leaves.        *)

Outcome(code, slots, fds, nfd, writes) ==
    [pc |-> "busy", code |-> code, slots |-> slots, fds |-> fds, nfd |-> nfd, writes |-> writes]
Refuse(code) == Outcome(code, fvol.slots, ffds, next_fd, << >>)
Saved(slots) == Outcome("ok", slots, ffds, next_fd, persist_super_locked(slots))

\* The descriptor half of cmd_open: the file stays created when none is free.
OpenFd(i, slots, writes) ==
    LET free == {f \in Slot : ffds[f].id = 0} IN
    IF free = {} THEN Outcome("no_descriptor", slots, ffds, next_fd, writes)
    ELSE Outcome("ok", slots,
                 [ffds EXCEPT ![First(free)] = [id |-> next_fd, slot |-> i, offset |-> 0]],
                 next_fd + 1, writes)

Created(i, p, dir) == [fvol.slots EXCEPT ![i] = [used |-> TRUE, dir |-> dir, name |-> p, size |-> 0]]

cmd_open(p, create) ==
    IF matches(fvol.slots, p) # {} THEN OpenFd(First(matches(fvol.slots, p)), fvol.slots, << >>)
    ELSE IF ~create \/ ~parent_exists(fvol.slots, split_parent(p)) \/ path_taken(fvol.slots, p)
    THEN Refuse("not_found")
    ELSE IF FreeSlots(fvol.slots) = {} THEN Refuse("no_descriptor")
    ELSE LET i == First(FreeSlots(fvol.slots)) IN
         OpenFd(i, Created(i, p, FALSE), persist_super_locked(Created(i, p, FALSE)))

FdOf(id) == {f \in Slot : ffds[f].id = id /\ id # 0}

\* Mutant: the size reaches the superblock before the data its sectors.
SizeFirst(f, data) ==
    LET d == ffds[f]
        end == d.offset + Len(data)
        slots == [fvol.slots EXCEPT ![d.slot].size = IF end > @ THEN end ELSE @]
    IN  Outcome("ok", slots, [ffds EXCEPT ![f].offset = end], next_fd,
                persist_super_locked(slots) \o [k \in 1 .. Len(data) |-> DataChunk(d.slot, d.offset + k - 1, data[k])])

\* cmd_write within one sector: data first, then the size if the file grew.
\* The descriptor names a slot, whatever file the slot holds by now.
WriteAt(f, data) ==
    LET d == ffds[f]
        end == d.offset + Len(data)
        grows == end > fvol.slots[d.slot].size
        slots == IF grows THEN [fvol.slots EXCEPT ![d.slot].size = end] ELSE fvol.slots
    IN  Outcome("ok", slots, [ffds EXCEPT ![f].offset = end], next_fd,
                [k \in 1 .. Len(data) |-> DataChunk(d.slot, d.offset + k - 1, data[k])]
                \o (IF grows THEN persist_super_locked(slots) ELSE << >>))

\* A write over a sector boundary indexes the sector buffer out of range and
\* ends the server.
Crosses(f, data) == ffds[f].offset \div SECTOR # (ffds[f].offset + Len(data) - 1) \div SECTOR

cmd_write(id, data) ==
    IF FdOf(id) = {} THEN Refuse("no_descriptor")
    ELSE IF ffds[First(FdOf(id))].offset + Len(data) > FILE_BYTES THEN Refuse("invalid")
    ELSE IF Crosses(First(FdOf(id)), data) THEN Refuse("panic")
    ELSE WriteAt(First(FdOf(id)), data)

\* cmd_read: one byte; the offset stops at the size.
cmd_read(id) ==
    IF FdOf(id) = {} THEN Refuse("no_descriptor")
    ELSE LET f == First(FdOf(id))
             n == IF fvol.slots[ffds[f].slot].size > ffds[f].offset THEN 1 ELSE 0
         IN  Outcome("ok", fvol.slots, [ffds EXCEPT ![f].offset = @ + n], next_fd, << >>)

cmd_close(id) ==
    IF FdOf(id) = {} THEN Refuse("no_descriptor")
    ELSE Outcome("ok", fvol.slots, [ffds EXCEPT ![First(FdOf(id))] = NoFd], next_fd, << >>)

cmd_mkdir(p) ==
    IF ~parent_exists(fvol.slots, split_parent(p)) \/ path_taken(fvol.slots, p) THEN Refuse("invalid")
    ELSE IF FreeSlots(fvol.slots) = {} THEN Refuse("no_descriptor")
    ELSE Saved(Created(First(FreeSlots(fvol.slots)), p, TRUE))

Emptied(S) == [fvol.slots EXCEPT ![First(S)] = EMPTY]

cmd_rmdir(p) ==
    IF matches_dir(fvol.slots, p) = {} THEN Refuse("not_found")
    ELSE IF \E i \in Slot : fvol.slots[i].used /\ IsUnder(fvol.slots[i].name, p) THEN Refuse("invalid")
    ELSE Saved(Emptied(matches_dir(fvol.slots, p)))

cmd_rename(p, q) ==
    IF matches(fvol.slots, p) = {} THEN Refuse("not_found")
    ELSE IF path_taken(fvol.slots, q) \/ p = q THEN Refuse("invalid")
    ELSE IF ~parent_exists(fvol.slots, split_parent(q)) THEN Refuse("not_found")
    ELSE Saved([fvol.slots EXCEPT ![First(matches(fvol.slots, p))].name = q])

cmd_unlink(p) ==
    IF matches(fvol.slots, p) = {} THEN Refuse("not_found") ELSE Saved(Emptied(matches(fvol.slots, p)))

\* cmd_list only reads.
cmd_list(p) == IF p # << >> /\ matches_dir(fvol.slots, p) = {} THEN Refuse("not_found") ELSE Refuse("ok")

-----------------------------------------------------------------------------
(* The server. *)

Rest == [Refuse("none") EXCEPT !.pc = "idle"]
Spend(x) == fbudget' = [fbudget EXCEPT ![x] = @ + 1]

\* ensure_mounted, on the first request: degraded without a device, otherwise
\* the table is loaded, or a foreign volume formatted.
ensure_mounted ==
    /\ fup /\ ~fvol.attempted /\ fcmd.pc = "idle"
    /\ LET tried == [fvol EXCEPT !.attempted = TRUE] IN
       CASE fmix.backend = "none" -> fvol' = [tried EXCEPT !.degraded = TRUE] /\ UNCHANGED fcmd
         [] fmix.backend # "none" /\ fdisk.formatted ->
              fvol' = [tried EXCEPT !.ok = TRUE, !.slots = Loaded(fdisk.recs)] /\ UNCHANGED fcmd
         [] OTHER -> /\ fvol' = [tried EXCEPT !.ok = TRUE]
                     /\ fcmd' = Outcome("mount", [i \in Slot |-> EMPTY], ffds, next_fd,
                                        persist_super_locked([i \in Slot |-> EMPTY]))
    /\ UNCHANGED << fup, ffds, next_fd, fdisk, fleft, fbudget, fmix >>

\* handle_request: malformed paths and a degraded volume are refused first.
Handle(paths, out) ==
    IF ~fvol.ok \/ fvol.degraded THEN Refuse("device")
    ELSE IF \E p \in paths : ~normalize_path(p) THEN Refuse("invalid") ELSE out

Ids == 0 .. next_fd
handle_request ==
    /\ fup /\ fvol.attempted /\ fcmd.pc = "idle" /\ fbudget.calls < fmix.calls /\ Spend("calls")
    /\ \/ "open" \in fmix.cmds /\ \E p \in fmix.paths, c \in BOOLEAN : fcmd' = Handle({p}, cmd_open(p, c))
       \/ "write" \in fmix.cmds /\ \E id \in Ids, n \in 1 .. 2, b \in FdByte :
             fcmd' = Handle({}, cmd_write(id, [k \in 1 .. n |-> b]))
       \/ "read" \in fmix.cmds /\ \E id \in Ids : fcmd' = Handle({}, cmd_read(id))
       \/ "close" \in fmix.cmds /\ \E id \in Ids : fcmd' = Handle({}, cmd_close(id))
       \/ "mkdir" \in fmix.cmds /\ \E p \in fmix.paths : fcmd' = Handle({p}, cmd_mkdir(p))
       \/ "rmdir" \in fmix.cmds /\ \E p \in fmix.paths : fcmd' = Handle({p}, cmd_rmdir(p))
       \/ "rename" \in fmix.cmds /\ \E p, q \in fmix.paths : fcmd' = Handle({p, q}, cmd_rename(p, q))
       \/ "unlink" \in fmix.cmds /\ \E p \in fmix.paths : fcmd' = Handle({p}, cmd_unlink(p))
       \/ "list" \in fmix.cmds /\ \E p \in fmix.paths : fcmd' = Handle({p}, cmd_list(p))
    /\ UNCHANGED << fup, fvol, ffds, next_fd, fdisk, fleft, fmix >>

\* The next chunk reaches the disk.
ChunkDone ==
    /\ fup /\ fcmd.pc = "busy" /\ fcmd.writes # << >>
    /\ fdisk' = cmd_write_chunk(fdisk, Head(fcmd.writes))
    /\ fcmd' = [fcmd EXCEPT !.writes = Tail(@)]
    /\ fleft' = {i \in fleft : Head(fcmd.writes).kind = "data" \/ Head(fcmd.writes).chunk # SizeChunk(i)}
    /\ UNCHANGED << fup, fvol, ffds, next_fd, fbudget, fmix >>

\* The device refuses the chunk.  A failed data write is reported and leaves
\* the tables alone; a failed superblock write is only logged.
ChunkFails ==
    /\ fup /\ fcmd.pc = "busy" /\ fcmd.writes # << >> /\ fbudget.ioerrs < fmix.ioerrs /\ Spend("ioerrs")
    /\ fcmd' = IF Head(fcmd.writes).kind = "data" THEN Refuse("device") ELSE [fcmd EXCEPT !.writes = << >>]
    /\ UNCHANGED << fup, fvol, ffds, next_fd, fdisk, fleft, fmix >>

\* respond: the tables take their new values.
respond ==
    /\ fup /\ fcmd.pc = "busy" /\ fcmd.writes = << >>
    /\ fup' = (fcmd.code # "panic")
    /\ fvol' = [fvol EXCEPT !.slots = fcmd.slots]
    /\ ffds' = fcmd.fds /\ next_fd' = fcmd.nfd
    /\ fcmd' = [Rest EXCEPT !.slots = fcmd.slots, !.fds = fcmd.fds, !.nfd = fcmd.nfd]
    /\ UNCHANGED << fdisk, fleft, fbudget, fmix >>

\* Power fails; the memory is gone, the next boot starts the server afresh.
Unmounted == [attempted |-> FALSE, degraded |-> FALSE, ok |-> FALSE, slots |-> [i \in Slot |-> EMPTY]]
NoFds == [f \in Slot |-> NoFd]
NoCommand == [pc |-> "idle", code |-> "none", slots |-> [i \in Slot |-> EMPTY], fds |-> NoFds,
              nfd |-> 1, writes |-> << >>]
Crash ==
    /\ fbudget.crashes < fmix.crashes /\ Spend("crashes")
    /\ fup' = TRUE /\ fvol' = Unmounted /\ ffds' = NoFds /\ next_fd' = 1 /\ fcmd' = NoCommand
    /\ fleft' = {i \in Slot : ~fdisk.recs[i].used /\ fdisk.recs[i].size # 0}
    /\ UNCHANGED << fdisk, fmix >>

\* The disk a behaviour starts with: an empty volume, a foreign one, or one with
\* three files.
StartSlots ==
    [i \in Slot |-> IF fmix.backend = "files" /\ i <= Len(fmix.files)
                    THEN [used |-> TRUE, dir |-> FALSE, name |-> fmix.files[i], size |-> 1] ELSE EMPTY]
FdInit ==
    /\ fmix \in FdMixes
    /\ fup = TRUE /\ fvol = Unmounted /\ ffds = NoFds /\ next_fd = 1 /\ fcmd = NoCommand
    /\ fdisk = [formatted |-> fmix.backend \in {"disk", "files"}, recs |-> OnDisk(StartSlots),
                data |-> [i \in Slot |-> [k \in 0 .. FILE_BYTES - 1 |-> "zero"]]]
    /\ fleft = {}
    /\ fbudget = [calls |-> 0, crashes |-> 0, ioerrs |-> 0]

FdNext == ensure_mounted \/ handle_request \/ ChunkDone \/ ChunkFails \/ respond \/ Crash

FdSpec == FdInit /\ [][FdNext]_fdVars

-----------------------------------------------------------------------------
FdTypeOK ==
    /\ fup \in BOOLEAN /\ fcmd.pc \in {"idle", "busy"}
    /\ \A i \in Slot : fvol.slots[i].size \in 0 .. FILE_BYTES /\ fdisk.recs[i].size \in 0 .. FILE_BYTES
    /\ \A f \in Slot : ffds[f].slot \in Slot

\* What a volume holds: its directories and the contents of its files.
View(recs, data) ==
    {[dir |-> recs[i].dir, name |-> recs[i].name, bytes |-> [k \in 0 .. recs[i].size - 1 |-> data[i][k]]] :
        i \in {j \in Slot : recs[j].used}}

\* A file written chunk by chunk: what it will hold once the remaining chunks
\* are on the disk, whichever of them have been written.
RECURSIVE Replayed(_, _)
Replayed(d, writes) == IF writes = << >> THEN d ELSE Replayed(cmd_write_chunk(d, Head(writes)), Tail(writes))

\* Slots whose record on the disk two chunks of two moments make up.
Straddling == {i \in Slot : Torn(fdisk.recs[i], i) \/ i \in fleft}

\* The bytes a file had before or will have are the only ones a size exposes:
\* at every instant, were power to fail, each file and directory on the disk is
\* one of the table before the command or of the table after it, and the tree
\* is sound: no path twice, no entry without its directory.  cmd_write puts the
\* data down before the size (lib.rs:460-483), and "the atomicity of rename is
\* guaranteed by the single-sector read-modify-write" (lib.rs:723-725).
\* Excepted is a record that straddles the 104-byte chunks (lib.rs:856-875): a long
\* name of which one part is written, and a slot whose size outlived an unlink
\* cut short until it is written again.
FdCrashAtomic ==
    fvol.ok /\ fbudget.ioerrs = 0 =>
       LET after == Replayed(fdisk, fcmd.writes)
           now == [i \in Slot |-> IF i \in Straddling THEN EMPTY ELSE Loaded(fdisk.recs)[i]]
       IN
       /\ fcmd.pc = "idle" => View(Loaded(fdisk.recs), fdisk.data) = View(fvol.slots, fdisk.data)
       /\ View(now, fdisk.data) \subseteq
             View(fvol.slots, fdisk.data) \cup View(Loaded(after.recs), after.data)
       /\ \A i, j \in Slot : i # j /\ now[i].used /\ now[j].used => now[i].name # now[j].name
       /\ \A i \in Slot : now[i].used =>
             parent_exists(Loaded(fdisk.recs), split_parent(now[i].name))
=============================================================================
