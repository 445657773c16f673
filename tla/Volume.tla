------------------------------- MODULE Volume -------------------------------
(***************************************************************************)
(* The ZFS volume of libs/zfs-core (volume.rs, metadata.rs, allocator.rs,  *)
(* directory.rs, snapshot.rs) on a disk that can lose power between any    *)
(* two block writes and can fail any of them.                              *)
(*                                                                         *)
(* An operation writes its data blocks, then the whole namespace into the  *)
(* metadata bank the next generation selects: payload blocks first, header *)
(* last.  Each block write is one action.  A payload block is represented  *)
(* by the namespace it is a part of; the header's CRC matches exactly when *)
(* all the payload blocks come from the namespace the header was written   *)
(* for.  Inode numbers and times carry no control and are left out, and so *)
(* is the in-memory journal, which nothing reads back.                     *)
(***************************************************************************)
EXTENDS Naturals, Sequences, FiniteSetsExt

CONSTANTS
    Path,           \* canonical paths, as sequences of names
    Contents,       \* file contents, as sequences of block contents
    DataBlocks,     \* blocks past RESERVED_END
    BankCapacity,   \* size of the namespaces that fit a bank
    VolMixes,       \* bound: [ops, paths, gens], the operations a behaviour uses,
                    \* the paths it names and the metadata generations it writes
    MaxSnapshots,   \* bound: snapshots alive
    MaxFaults       \* bound: failed writes and crashes

ASSUME VolumeAssumption ==
    /\ Path \subseteq Seq(STRING) /\ Contents \subseteq Seq(STRING)
    /\ DataBlocks \subseteq Nat
    /\ \A m \in VolMixes : m.paths \subseteq Path /\ m.gens \in Nat \ {0}
    /\ MaxFaults \in Nat

VARIABLES
    sb,             \* block 0 holds a superblock
    bank,           \* bank[0 | 1]: payload blocks and header of banks B and A
    data,           \* data[b]: contents of block b
    vstate,         \* "down" | "mounting" | "up"
    vdir,           \* DirectoryIndex: path -> entry
    used,           \* BlockAllocator bitmap
    gen,            \* metadata_generation
    snaps,          \* SnapshotManager.snapshots
    vop,            \* the operation in progress
    faults,
    vmix,           \* the mix of this behaviour
    restored        \* restore_snapshot has run (history)

diskVars == <<sb, bank, data>>
volVars == <<sb, bank, data, vstate, vdir, used, gen, snaps, vop, faults, vmix,
             restored>>

NoEntry == [kind |-> "none"]
File(bs) == [kind |-> "file", blocks |-> bs]
Dir == [kind |-> "dir"]
EmptyDir == [p \in Path |-> NoEntry]
BlocksOf(e) == IF e.kind = "file" THEN {e.blocks[i] : i \in DOMAIN e.blocks} ELSE {}
Referenced(d) == UNION {BlocksOf(d[p]) : p \in Path}
Entries(d) == {p \in Path : d[p].kind # "none"}
Blank == [pay |-> <<EmptyDir, EmptyDir>>, hdr |-> [gen |-> 0, crc |-> EmptyDir]]
Quiet == [pc |-> "none"]

VolInit ==
    /\ sb = FALSE
    /\ bank = [k \in {0, 1} |-> Blank]
    /\ data = [b \in DataBlocks |-> "zero"]
    /\ vstate = "down"
    /\ vdir = EmptyDir /\ used = {} /\ gen = 0 /\ snaps = <<>>
    /\ vop = Quiet
    /\ faults = 0
    /\ vmix \in VolMixes
    /\ restored = FALSE

-----------------------------------------------------------------------------
(* load_bank: the header has the magic and the payload its CRC.             *)
load_bank(k) == bank[k].hdr.gen > 0 /\ \A i \in 1 .. 2 : bank[k].pay[i] = bank[k].hdr.crc

(* load: the valid bank with the higher generation; A when they tie.        *)
Better(j, k) == bank[j].hdr.gen > bank[k].hdr.gen \/ (bank[j].hdr.gen = bank[k].hdr.gen /\ j = 1)
load == {k \in {0, 1} : load_bank(k) /\ (load_bank(1 - k) => Better(k, 1 - k))}

(* store: an odd generation goes to bank A.                                 *)
Target(g) == (g + 1) % 2

(* What an operation does to the volume in memory when its namespace has    *)
(* been stored, and when it has not.                                        *)
Store(newdir, done, undo) ==
    [pc |-> "store", dir |-> newdir, done |-> done, undo |-> undo, i |-> 1]

(* encode: an entry takes room for its path and for each of its blocks.     *)
EncodedSize(d) == MapThenSumSet(LAMBDA p : Len(p) + Cardinality(BlocksOf(d[p])), Entries(d))

(* persist_metadata; encode and store refuse a namespace that is too large  *)
(* before they write.                                                       *)
persist_metadata(newdir, done, undo) ==
    IF EncodedSize(newdir) > BankCapacity
    THEN vop' = Quiet /\ used' = undo
    ELSE vop' = Store(newdir, done, undo) /\ UNCHANGED used

store_payload ==
    /\ vop.pc = "store" /\ vop.i <= 2
    /\ bank' = [bank EXCEPT ![Target(gen)].pay[vop.i] = vop.dir]
    /\ vop' = [vop EXCEPT !.i = vop.i + 1]
    /\ UNCHANGED <<sb, data, vstate, vdir, used, gen, snaps, faults, vmix, restored>>

store_header ==
    /\ vop.pc = "store" /\ vop.i = 3
    /\ bank' = [bank EXCEPT ![Target(gen)].hdr = [gen |-> gen + 1, crc |-> vop.dir]]
    /\ gen' = gen + 1
    /\ vdir' = vop.dir
    /\ used' = vop.done
    /\ vstate' = "up"
    /\ vop' = Quiet
    /\ UNCHANGED <<sb, data, snaps, faults, vmix, restored>>

-----------------------------------------------------------------------------
(* mount: what the better bank says, its blocks marked used; a volume with  *)
(* no superblock or no bank is seeded before it is up.                      *)
mount ==
    /\ vstate = "down"
    /\ IF load = {}
       THEN vdir' = EmptyDir /\ used' = {} /\ gen' = 0
       ELSE \E k \in load : /\ vdir' = bank[k].pay[1]
                            /\ used' = Referenced(bank[k].pay[1])
                            /\ gen' = bank[k].hdr.gen
    /\ snaps' = <<>>
    /\ vop' = IF ~sb THEN [pc |-> "super"]
              ELSE IF load = {} THEN Store(EmptyDir, {}, {}) ELSE Quiet
    /\ vstate' = IF ~sb \/ load = {} THEN "mounting" ELSE "up"
    /\ UNCHANGED <<diskVars, faults, vmix, restored>>

persist_superblock ==
    /\ vop.pc = "super"
    /\ sb' = TRUE
    /\ vop' = IF gen = 0 THEN Store(vdir, {}, {}) ELSE Quiet
    /\ vstate' = IF gen = 0 THEN "mounting" ELSE "up"
    /\ UNCHANGED <<bank, data, vdir, used, gen, snaps, faults, vmix, restored>>

(* Bound: a behaviour is followed up to its first restore_snapshot, after    *)
(* which no property says anything.                                          *)
MayCall(o) == vstate = "up" /\ vop = Quiet /\ gen < vmix.gens /\ ~restored /\ o \in vmix.ops

(* allocate: the lowest free block, n times, so the n lowest in their order; *)
(* none when there are not as many.                                         *)
allocate(n) ==
    {bs \in [1 .. n -> DataBlocks \ used] :
        /\ \A i, j \in 1 .. n : i < j => bs[i] < bs[j]
        /\ \A b \in DataBlocks \ used :
             (\E i \in 1 .. n : bs[i] = b) \/ (\A i \in 1 .. n : bs[i] < b)}

(* Mutant: the blocks are freed although a snapshot refers to them.         *)
AllOf(bs, ss) == bs

(* Blocks of an entry that leaves the namespace and no snapshot refers to.  *)
Unreferenced(bs, ss) == {b \in bs : \A i \in DOMAIN ss : b \notin Referenced(ss[i].dir)}

(* Mutant: the blocks of the entry that was there are freed with the        *)
(* allocation of the new ones.                                              *)
FreeEarly(p, c) ==
    /\ MayCall("write")
    /\ \E bs \in allocate(Len(c)) :
         /\ used' = (used \ BlocksOf(vdir[p])) \cup {bs[i] : i \in DOMAIN bs}
         /\ vop' = [pc |-> "data", path |-> p, c |-> c, blocks |-> bs, i |-> 1]
    /\ UNCHANGED <<diskVars, vstate, vdir, gen, snaps, faults, vmix, restored>>

(* write_file: new blocks are allocated and written while the old directory *)
(* stays authoritative; the old blocks are freed after the commit.          *)
write_file(p, c) ==
    /\ MayCall("write")
    /\ \E bs \in allocate(Len(c)) :
         /\ used' = used \cup {bs[i] : i \in DOMAIN bs}
         /\ vop' = [pc |-> "data", path |-> p, c |-> c, blocks |-> bs, i |-> 1]
    /\ UNCHANGED <<diskVars, vstate, vdir, gen, snaps, faults, vmix, restored>>

write_block ==
    /\ vop.pc = "data" /\ vop.i <= Len(vop.c)
    /\ data' = [data EXCEPT ![vop.blocks[vop.i]] = vop.c[vop.i]]
    /\ vop' = [vop EXCEPT !.i = vop.i + 1]
    /\ UNCHANGED <<sb, bank, vstate, vdir, used, gen, snaps, faults, vmix, restored>>

write_commit ==
    /\ vop.pc = "data" /\ vop.i > Len(vop.c)
    /\ persist_metadata([vdir EXCEPT ![vop.path] = File(vop.blocks)],
                        used \ Unreferenced(BlocksOf(vdir[vop.path]), snaps),
                        used \ {vop.blocks[i] : i \in DOMAIN vop.blocks})
    /\ UNCHANGED <<diskVars, vstate, vdir, gen, snaps, faults, vmix, restored>>

remove_file(p) ==
    /\ MayCall("remove") /\ vdir[p].kind = "file"
    /\ persist_metadata([vdir EXCEPT ![p] = NoEntry],
                        used \ Unreferenced(BlocksOf(vdir[p]), snaps), used)
    /\ UNCHANGED <<diskVars, vstate, vdir, gen, snaps, faults, vmix, restored>>

create_dir(p) ==
    /\ MayCall("dir") /\ vdir[p].kind = "none"
    /\ persist_metadata([vdir EXCEPT ![p] = Dir], used, used)
    /\ UNCHANGED <<diskVars, vstate, vdir, gen, snaps, faults, vmix, restored>>

Under(p, q) == Len(q) > Len(p) /\ SubSeq(q, 1, Len(p)) = p

remove_dir(p) ==
    /\ MayCall("dir") /\ vdir[p].kind = "dir"
    /\ \A q \in Entries(vdir) : ~Under(p, q)
    /\ persist_metadata([vdir EXCEPT ![p] = NoEntry], used, used)
    /\ UNCHANGED <<diskVars, vstate, vdir, gen, snaps, faults, vmix, restored>>

(* rename_path: a directory moves with its subtree, in one commit; a        *)
(* destination that exists refuses the whole rename.                        *)
Dest(p, q, r) == q \o SubSeq(r, Len(p) + 1, Len(r))
Moves(p) == {p} \cup IF vdir[p].kind = "dir" THEN {r \in Entries(vdir) : Under(p, r)} ELSE {}
Renamed(p, q) ==
    [r \in Path |-> IF \E s \in Moves(p) : Dest(p, q, s) = r
                    THEN vdir[CHOOSE s \in Moves(p) : Dest(p, q, s) = r]
                    ELSE IF r \in Moves(p) THEN NoEntry ELSE vdir[r]]

rename_path(p, q) ==
    /\ MayCall("rename") /\ p # q
    /\ vdir[p].kind # "none"
    /\ \A s \in Moves(p) : Dest(p, q, s) \in Path /\ vdir[Dest(p, q, s)].kind = "none"
    /\ persist_metadata(Renamed(p, q), used, used)
    /\ UNCHANGED <<diskVars, vstate, vdir, gen, snaps, faults, vmix, restored>>

-----------------------------------------------------------------------------
ReadFile(e) ==
    IF e.kind # "file" THEN e
    ELSE [kind |-> "file", bytes |-> [i \in DOMAIN e.blocks |-> data[e.blocks[i]]]]
ReadAll(d) == [p \in Path |-> ReadFile(d[p])]

(* "seen" is what the snapshot's files held when it was taken (history).    *)
(* Journal::record never fails.                                             *)
create_snapshot ==
    /\ MayCall("snap") /\ Len(snaps) < MaxSnapshots
    /\ snaps' = Append(snaps, [used |-> used, dir |-> vdir, seen |-> ReadAll(vdir)])
    /\ UNCHANGED <<diskVars, vstate, vdir, used, gen, vop, faults, vmix, restored>>

restore_snapshot(i) ==
    /\ MayCall("snap") /\ i \in DOMAIN snaps
    /\ used' = snaps[i].used
    /\ vdir' = snaps[i].dir
    /\ restored' = TRUE
    /\ UNCHANGED <<diskVars, vstate, gen, snaps, vop, faults, vmix>>

Without(i) == SubSeq(snaps, 1, i - 1) \o SubSeq(snaps, i + 1, Len(snaps))
delete_snapshot(i) ==
    /\ MayCall("snap") /\ i \in DOMAIN snaps
    /\ used' = used \ (Unreferenced(Referenced(snaps[i].dir), Without(i)) \ Referenced(vdir))
    /\ snaps' = Without(i)
    /\ UNCHANGED <<diskVars, vstate, vdir, gen, vop, faults, vmix, restored>>

-----------------------------------------------------------------------------
(* A block write fails: the operation undoes its allocation and reports.    *)
(* It has not reached the disk; one that has: README.md, section 5.         *)
WriteFails ==
    /\ vop # Quiet /\ faults < MaxFaults
    /\ faults' = faults + 1
    /\ used' = CASE vop.pc = "data" -> used \ {vop.blocks[i] : i \in DOMAIN vop.blocks}
                 [] vop.pc = "store" -> vop.undo
                 [] OTHER -> used
    /\ vop' = Quiet
    /\ vstate' = IF vstate = "up" THEN "up" ELSE "down"
    /\ UNCHANGED <<diskVars, vdir, gen, snaps, vmix, restored>>

(* Power is lost: memory is gone, the disk is as the last write left it.    *)
Crash ==
    /\ vstate # "down" /\ faults < MaxFaults
    /\ faults' = faults + 1
    /\ vstate' = "down" /\ vop' = Quiet
    /\ vdir' = EmptyDir /\ used' = {} /\ gen' = 0 /\ snaps' = <<>>
    /\ UNCHANGED <<diskVars, vmix, restored>>

VolNext ==
    \/ mount \/ persist_superblock \/ store_payload \/ store_header
    \/ \E p \in vmix.paths : \/ \E c \in Contents : write_file(p, c)
                             \/ remove_file(p) \/ create_dir(p) \/ remove_dir(p)
                             \/ \E q \in vmix.paths : rename_path(p, q)
    \/ write_block \/ write_commit
    \/ create_snapshot
    \/ \E i \in 1 .. MaxSnapshots : restore_snapshot(i) \/ delete_snapshot(i)
    \/ WriteFails \/ Crash

VolSpec == VolInit /\ [][VolNext]_volVars

-----------------------------------------------------------------------------
VolTypeOK ==
    /\ sb \in BOOLEAN /\ restored \in BOOLEAN
    /\ vstate \in {"down", "mounting", "up"}
    /\ gen \in 0 .. vmix.gens /\ faults \in 0 .. MaxFaults
    /\ used \subseteq DataBlocks
    /\ \A p \in Path : BlocksOf(vdir[p]) \subseteq DataBlocks

(* What mounting the disk as it stands would find.                          *)
Recovered == IF load = {} THEN EmptyDir ELSE bank[CHOOSE k \in load : TRUE].pay[1]

(* What the disk promises: after restore_snapshot, nothing.                 *)
Durable == IF restored THEN [p \in Path |-> [kind |-> "unspecified"]] ELSE ReadAll(Recovered)

Contract == INSTANCE VolumeContract WITH durable <- Durable

(* The volume implements VolumeContract: whatever block write the power     *)
(* fails at, a mount finds the files of the last committed operation, whole *)
(* ("after a crash either old or new path is visible, never a half-renamed  *)
(* entry", volume.rs:441; "an interrupted write leaves the previous bank    *)
(* authoritative", metadata.rs:55).                                         *)
VolumeIsAtomic == Contract!Spec

(* Between operations the files read through the directory in memory are    *)
(* the ones a mount would find, after failed writes too, and every snapshot *)
(* still reads as it did when it was taken, although its blocks are shared  *)
(* with the live files that were overwritten or removed since.              *)
ViewsAgree ==
    vstate = "up" /\ vop = Quiet /\ ~restored =>
        /\ ReadAll(vdir) = ReadAll(Recovered)
        /\ \A i \in DOMAIN snaps : ReadAll(snaps[i].dir) = snaps[i].seen

(* "Only after metadata bank commit succeeds may old blocks be returned to  *)
(* the live allocator" (volume.rs:267): a block the committed namespace     *)
(* refers to is never free.                                                 *)
(* It fails after restore_snapshot: README.md, section 5.                   *)
CommittedBlocksAllocated ==
    vstate = "up" => Referenced(Recovered) \subseteq used
=============================================================================
