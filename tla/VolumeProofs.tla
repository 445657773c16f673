---------------------------- MODULE VolumeProofs ----------------------------
(***************************************************************************)
(* Theorems about Volume, for every set of paths, of contents and of       *)
(* blocks, any number of generations, snapshots, failed writes and         *)
(* crashes: it implements VolumeContract, and the views of it agree.       *)
(***************************************************************************)
EXTENDS Volume, TLAPS

-----------------------------------------------------------------------------
(* The types: a directory entry, a namespace, what a data block may hold,  *)
(* what a namespace reads as, a metadata bank, the operations in progress  *)
(* and a snapshot.                                                         *)
Entry == {NoEntry, Dir} \cup [kind : {"file"}, blocks : Seq(DataBlocks)]
Namespace == [Path -> Entry]
Bytes == {"zero"} \cup UNION {{c[i] : i \in DOMAIN c} : c \in Contents}
View == [Path -> {NoEntry, Dir} \cup [kind : {"file"}, bytes : Seq(Bytes)]]
Bank == [pay : [1 .. 2 -> Namespace], hdr : [gen : Nat, crc : Namespace]]
DataOp == [pc : {"data"}, path : Path, c : Contents, blocks : Seq(DataBlocks), i : Nat \ {0}]
StoreOp == [pc : {"store"}, dir : Namespace, done : SUBSET DataBlocks,
            undo : SUBSET DataBlocks, i : 1 .. 3]
VolOps == {Quiet, [pc |-> "super"]} \cup DataOp \cup StoreOp
Snapshot == [used : SUBSET DataBlocks, dir : Namespace, seen : View]

(* The variables have their types.                                         *)
VolTypes ==
    /\ sb \in BOOLEAN /\ restored \in BOOLEAN
    /\ bank \in [{0, 1} -> Bank]
    /\ data \in [DataBlocks -> Bytes]
    /\ vstate \in {"down", "mounting", "up"}
    /\ vdir \in Namespace
    /\ used \in SUBSET DataBlocks
    /\ gen \in Nat /\ faults \in 0 .. MaxFaults
    /\ snaps \in Seq(Snapshot)
    /\ vop \in VolOps
    /\ vmix \in VolMixes

(* What the files of d hold on a disk whose data blocks are m.             *)
ReadEntry(m, e) ==
    IF e.kind # "file" THEN e
    ELSE [kind |-> "file", bytes |-> [i \in DOMAIN e.blocks |-> m[e.blocks[i]]]]
Read(m, d) == [p \in Path |-> ReadEntry(m, d[p])]

(* No block belongs to two files of d.                                     *)
Unshared(d) == \A p, q \in Path : p # q => BlocksOf(d[p]) \cap BlocksOf(d[q]) = {}

(* Everything that the live directory or a snapshot refers to is in bs.    *)
SnapsIn(bs) == \A i \in DOMAIN snaps : Referenced(snaps[i].dir) \subseteq bs
KeptIn(bs) == Referenced(vdir) \subseteq bs /\ SnapsIn(bs)

(* The banks after a payload block of bank k, and after its header, are    *)
(* written.                                                                *)
WithPayload(B, k, i, d) ==
    [B EXCEPT ![k] = [B[k] EXCEPT !.pay = [B[k].pay EXCEPT ![i] = d]]]
WithHeader(B, k, g, d) == [B EXCEPT ![k] = [B[k] EXCEPT !.hdr = [gen |-> g, crc |-> d]]]

(* load_bank and load, of the banks B, and the namespace a mount finds.    *)
Whole(B, k) == B[k].hdr.gen > 0 /\ \A i \in 1 .. 2 : B[k].pay[i] = B[k].hdr.crc
Loaded(B) ==
    {k \in {0, 1} : /\ Whole(B, k)
                    /\ Whole(B, 1 - k) => \/ B[k].hdr.gen > B[1 - k].hdr.gen
                                          \/ B[k].hdr.gen = B[1 - k].hdr.gen /\ k = 1}
Found(B) == IF Loaded(B) = {} THEN EmptyDir ELSE B[CHOOSE k \in Loaded(B) : TRUE].pay[1]

(* An odd generation is in bank A; the bank with the greater one is whole. *)
Sound(B) ==
    \A k \in {0, 1} : /\ B[k].hdr.gen > 0 => B[k].hdr.gen % 2 = k
                      /\ B[k].hdr.gen > B[1 - k].hdr.gen => Whole(B, k)

(* g is the greater of the two generations.                                *)
Newest(B, g) == (\A k \in {0, 1} : B[k].hdr.gen <= g) /\ (\E k \in {0, 1} : B[k].hdr.gen = g)

(* What the disk holds.                                                    *)
Banks ==
    /\ Sound(bank)
    /\ \A k \in {0, 1} : bank[k].hdr.gen <= vmix.gens
    /\ ~restored => Unshared(Found(bank))

(* A mounted volume continues the newer bank, and its directory is that    *)
(* bank's namespace.                                                       *)
Mounted ==
    vstate # "down" =>
      /\ Newest(bank, gen)
      /\ ~restored => vdir = Found(bank)

(* What a stored namespace may do to the files: one operation of the       *)
(* contract, or nothing.                                                   *)
Relocated(d, p, q, M) ==
    [r \in Path |-> IF \E s \in M : Dest(p, q, s) = r
                    THEN d[CHOOSE s \in M : Dest(p, q, s) = r]
                    ELSE IF r \in M THEN NoEntry ELSE d[r]]
Written(old, new) == \E p \in Path, c \in Contents :
                       new = [old EXCEPT ![p] = [kind |-> "file", bytes |-> c]]
Removed(old, new) == \E p \in Path : old[p] # NoEntry /\ new = [old EXCEPT ![p] = NoEntry]
MadeDir(old, new) == \E p \in Path : old[p] = NoEntry /\ new = [old EXCEPT ![p] = Dir]
Below(old, p) == IF old[p] # Dir THEN {p}
                 ELSE {p} \cup {r \in Path : Under(p, r) /\ old[r] # NoEntry}
Moved(old, new) == \E p, q \in Path : /\ old[p] # NoEntry /\ old[q] = NoEntry
                                      /\ new = Relocated(old, p, q, Below(old, p))
OneOperation(old, new) ==
    old = new \/ Written(old, new) \/ Removed(old, new) \/ MadeDir(old, new) \/ Moved(old, new)

(* A namespace that may be stored: once it is the directory, the blocks of *)
(* "done" hold its files and those of the snapshots; if it is not stored,  *)
(* those of "undo" hold the files there were; and a mount that finds it    *)
(* has seen one whole operation.                                           *)
Commits(newdir, done, undo) ==
    /\ Unshared(newdir)
    /\ Referenced(newdir) \subseteq done /\ SnapsIn(done)
    /\ KeptIn(undo)
    /\ OneOperation(Read(data, vdir), Read(data, newdir))

(* An operation runs on a mounted volume that may write one more           *)
(* generation; the payload blocks it has stored are of its namespace.  A   *)
(* volume being seeded has no snapshot.                                    *)
Working ==
    /\ gen <= vmix.gens
    /\ vstate = "mounting" => snaps = <<>>
    /\ vop # Quiet => vstate # "down"
    /\ vop.pc = "super" => vstate = "mounting"
    /\ vop.pc = "data" => vstate = "up" /\ gen < vmix.gens
    /\ vop.pc = "store" => /\ gen < vmix.gens
                           /\ \A i \in 1 .. 2 : i < vop.i => bank[Target(gen)].pay[i] = vop.dir

(* The blocks write_file has allocated are distinct, used, referred to by  *)
(* nothing else, and hold what has been written of the contents.           *)
FreshBlocks ==
    /\ DOMAIN vop.blocks = DOMAIN vop.c
    /\ \A i, j \in DOMAIN vop.blocks : vop.blocks[i] = vop.blocks[j] => i = j
    /\ \A i \in DOMAIN vop.blocks : vop.blocks[i] \in used
    /\ KeptIn(used \ {vop.blocks[i] : i \in DOMAIN vop.blocks})
    /\ \A i \in DOMAIN vop.blocks : i < vop.i => data[vop.blocks[i]] = vop.c[i]

(* What is referred to is allocated, and a snapshot reads as it did.       *)
Blocks ==
    vstate # "down" /\ ~restored =>
      /\ KeptIn(used)
      /\ \A i \in DOMAIN snaps : Read(data, snaps[i].dir) = snaps[i].seen
      /\ vop.pc = "data" => FreshBlocks
      /\ vop.pc = "store" => Commits(vop.dir, vop.done, vop.undo)

(* The inductive invariant.                                                *)
VolInv == VolTypes /\ Banks /\ Mounted /\ Working /\ Blocks

-----------------------------------------------------------------------------
(* load picks the bank with the greater generation.                        *)
LEMMA FoundTop ==
    ASSUME NEW B \in [{0, 1} -> Bank], Sound(B), NEW k \in {0, 1},
           B[k].hdr.gen > B[1 - k].hdr.gen
    PROVE  Loaded(B) = {k} /\ Found(B) = B[k].pay[1] /\ Found(B) \in Namespace
<1>1. 1 - k \in {0, 1} /\ 1 - (1 - k) = k
  OBVIOUS
<1>2. B[k].hdr.gen \in Nat /\ B[1 - k].hdr.gen \in Nat
  BY Zenon, <1>1 DEF Bank
<1>3. Whole(B, k)
  BY Zenon DEF Sound
<1>4. k \in Loaded(B)
  BY Zenon, <1>2, <1>3 DEF Loaded
<1>5. 1 - k \notin Loaded(B)
  BY <1>1, <1>2, <1>3 DEF Loaded
<1>6. Loaded(B) \subseteq {k, 1 - k}
  BY DEF Loaded
<1>7. Loaded(B) = {k}
  BY Zenon, <1>4, <1>5, <1>6
<1>8. (CHOOSE j \in Loaded(B) : TRUE) = k
  BY Zenon, <1>7
<1>9. B[k].pay[1] \in Namespace
  BY DEF Bank
<1> QED BY Zenon, <1>7, <1>8, <1>9 DEF Found

(* Generations that tie are both 0: there is no bank to load.              *)
LEMMA FoundNone ==
    ASSUME NEW B \in [{0, 1} -> Bank], Sound(B), B[0].hdr.gen = B[1].hdr.gen
    PROVE  /\ B[0].hdr.gen = 0 /\ Loaded(B) = {} /\ Found(B) = EmptyDir
           /\ Found(B) \in Namespace
<1>1. B[0].hdr.gen \in Nat
  BY Zenon DEF Bank
<1>2. B[0].hdr.gen = 0
  BY <1>1 DEF Sound
<1>3. \A k \in {0, 1} : ~Whole(B, k)
  <2> TAKE k \in {0, 1}
  <2>1. B[k].hdr.gen = 0
    BY <1>2, Zenon
  <2>2. ~(B[k].hdr.gen > 0)
    BY <2>1
  <2> QED BY Zenon, <2>2 DEF Whole
<1>4. Loaded(B) = {}
  BY Zenon, <1>3 DEF Loaded
<1>5. EmptyDir \in Namespace
  BY Zenon DEF EmptyDir, Namespace, Entry
<1> QED BY Zenon, <1>2, <1>4, <1>5 DEF Found

(* The bank that store writes is not the one with the present generation.  *)
LEMMA OtherBank ==
    ASSUME NEW g \in Nat
    PROVE  /\ Target(g) \in {0, 1} /\ 1 - Target(g) \in {0, 1} /\ Target(g) # g % 2
           /\ 1 - Target(g) = g % 2 /\ 1 - (1 - Target(g)) = Target(g)
           /\ (g + 1) % 2 = Target(g)
BY DEF Target

(* Until the header is written, the bank that store does not write stays   *)
(* the newer one.                                                          *)
LEMMA OldBankOnTop ==
    ASSUME NEW B \in [{0, 1} -> Bank], Sound(B), NEW g \in Nat, Newest(B, g)
    PROVE  \/ g = 0 /\ B[0].hdr.gen = 0 /\ B[1].hdr.gen = 0
           \/ g > 0 /\ B[1 - Target(g)].hdr.gen = g /\ B[Target(g)].hdr.gen < g
<1>1. B[0].hdr.gen \in Nat /\ B[1].hdr.gen \in Nat
  BY Zenon DEF Bank
<1>2. PICK k \in {0, 1} : B[k].hdr.gen = g
  BY Zenon DEF Newest
<1>3. B[1 - k].hdr.gen <= g
  BY DEF Newest
<1>4. CASE g = 0
  BY <1>1, <1>3, <1>4 DEF Newest
<1>5. CASE g > 0
  <2>1. g % 2 = k
    BY Zenon, <1>2, <1>5 DEF Sound
  <2>2. k = 1 - Target(g) /\ 1 - k = Target(g)
    BY Zenon, <2>1, OtherBank
  <2>3. B[1 - k].hdr.gen # g
    BY <2>1, <1>5 DEF Sound
  <2> QED BY <1>1, <1>2, <1>3, <1>5, <2>2, <2>3
<1> QED BY <1>4, <1>5

(* A payload block of the next generation changes nothing a mount finds    *)
(* ("an interrupted write leaves the previous bank authoritative",         *)
(* metadata.rs:55).                                                        *)
LEMMA PayloadStored ==
    ASSUME NEW B \in [{0, 1} -> Bank], Sound(B), NEW g \in Nat, Newest(B, g),
           NEW i \in 1 .. 2, NEW d \in Namespace, NEW C,
           C = WithPayload(B, Target(g), i, d)
    PROVE  /\ C \in [{0, 1} -> Bank] /\ Sound(C) /\ Newest(C, g) /\ Found(C) = Found(B)
           /\ \A k \in {0, 1} : C[k].hdr.gen = B[k].hdr.gen
           /\ C[Target(g)].pay = [B[Target(g)].pay EXCEPT ![i] = d]
<1> DEFINE t == Target(g)
<1>1. t \in {0, 1} /\ 1 - t \in {0, 1} /\ 1 - (1 - t) = t /\ t # 1 - t
  BY Zenon, OtherBank
<1>2. B[t] \in Bank
  BY Zenon, <1>1
<1>3. C = [B EXCEPT ![t] = [B[t] EXCEPT !.pay = [B[t].pay EXCEPT ![i] = d]]]
  BY Zenon DEF WithPayload
<1> HIDE DEF t
<1>4. [B[t].pay EXCEPT ![i] = d] \in [1 .. 2 -> Namespace]
  BY Zenon, <1>2 DEF Bank
<1>5. [B[t] EXCEPT !.pay = [B[t].pay EXCEPT ![i] = d]] \in Bank
  BY Zenon, <1>2, <1>4 DEF Bank
<1>6. C \in [{0, 1} -> Bank]
  BY <1>1, <1>3, <1>5
<1>7. C[1 - t] = B[1 - t]
  BY Zenon, <1>1, <1>3
<1>8. C[t].hdr = B[t].hdr /\ C[t].pay = [B[t].pay EXCEPT ![i] = d]
  BY <1>1, <1>2, <1>3 DEF Bank
<1>9. \A k \in {0, 1} : C[k].hdr = B[k].hdr
  BY Zenon, <1>1, <1>7, <1>8
<1>10. Newest(C, g)
  BY Zenon, <1>9 DEF Newest
<1>11. \A k \in {0, 1} : 1 - k \in {0, 1}
  OBVIOUS
<1>12. CASE g = 0 /\ B[0].hdr.gen = 0 /\ B[1].hdr.gen = 0
  <2>1. Sound(C)
    BY <1>9, <1>11, <1>12 DEF Sound
  <2>2. Found(B) = EmptyDir /\ Found(C) = EmptyDir
    BY Zenon, <2>1, <1>6, <1>9, <1>12, FoundNone
  <2> QED BY Zenon, <2>1, <2>2, <1>6, <1>8, <1>9, <1>10 DEF t
<1>13. CASE g > 0 /\ B[1 - t].hdr.gen = g /\ B[t].hdr.gen < g
  <2>0. B[t].hdr.gen \in Nat
    BY Zenon, <1>2 DEF Bank
  <2>1. Whole(B, 1 - t)
    BY Zenon, <1>1, <1>13 DEF Sound
  <2>2. Whole(C, 1 - t)
    BY Zenon, <2>1, <1>7 DEF Whole
  <2>3. ASSUME NEW k \in {0, 1}
        PROVE  /\ C[k].hdr.gen > 0 => C[k].hdr.gen % 2 = k
               /\ C[k].hdr.gen > C[1 - k].hdr.gen => Whole(C, k)
    <3>1. C[k].hdr.gen > 0 => C[k].hdr.gen % 2 = k
      BY Zenon, <1>9 DEF Sound
    <3>2. k = t \/ k = 1 - t
      BY Zenon, <1>1
    <3>3. k = t => ~(C[k].hdr.gen > C[1 - k].hdr.gen)
      BY <1>1, <1>9, <1>13, <2>0
    <3> QED BY Zenon, <3>1, <3>2, <3>3, <2>2
  <2>4. Sound(C)
    BY Zenon, <2>3 DEF Sound
  <2>5. B[1 - t].hdr.gen > B[1 - (1 - t)].hdr.gen /\ C[1 - t].hdr.gen > C[1 - (1 - t)].hdr.gen
    BY Zenon, <1>1, <1>9, <1>13, <2>0
  <2>6. Found(B) = B[1 - t].pay[1] /\ Found(C) = C[1 - t].pay[1]
    BY Zenon, <2>4, <2>5, <1>1, <1>6, FoundTop
  <2> QED BY Zenon, <2>4, <2>6, <1>6, <1>7, <1>8, <1>9, <1>10 DEF t
<1> QED BY Zenon, <1>12, <1>13, OldBankOnTop DEF t

(* The header makes the stored namespace the one a mount finds.            *)
LEMMA HeaderStored ==
    ASSUME NEW B \in [{0, 1} -> Bank], Sound(B), NEW g \in Nat, Newest(B, g),
           NEW d \in Namespace, NEW C,
           \A i \in 1 .. 2 : B[Target(g)].pay[i] = d,
           C = WithHeader(B, Target(g), g + 1, d)
    PROVE  /\ C \in [{0, 1} -> Bank] /\ Sound(C) /\ Newest(C, g + 1) /\ Found(C) = d
           /\ \A k \in {0, 1} : C[k].hdr.gen \in {B[k].hdr.gen, g + 1}
<1> DEFINE t == Target(g)
<1>1. t \in {0, 1} /\ 1 - t \in {0, 1} /\ 1 - (1 - t) = t /\ t # 1 - t
  BY Zenon, OtherBank
<1>2. B[t] \in Bank
  BY Zenon, <1>1
<1>3. C = [B EXCEPT ![t] = [B[t] EXCEPT !.hdr = [gen |-> g + 1, crc |-> d]]]
  BY Zenon DEF WithHeader
<1>4. (g + 1) % 2 = t
  BY Zenon, OtherBank
<1>5. \A i \in 1 .. 2 : B[t].pay[i] = d
  BY Zenon
<1> HIDE DEF t
<1>6. [B[t] EXCEPT !.hdr = [gen |-> g + 1, crc |-> d]] \in Bank
  BY <1>2 DEF Bank
<1>7. C \in [{0, 1} -> Bank]
  BY <1>1, <1>3, <1>6
<1>8. C[1 - t] = B[1 - t]
  BY Zenon, <1>1, <1>3
<1>9. C[t].hdr = [gen |-> g + 1, crc |-> d] /\ C[t].pay = B[t].pay
  BY <1>1, <1>2, <1>3 DEF Bank
<1>10. C[t].hdr.gen = g + 1 /\ C[t].hdr.crc = d
  BY <1>9
<1>11. Whole(C, t)
  BY <1>5, <1>9, <1>10 DEF Whole
<1>12. C[1 - t].hdr.gen <= g /\ C[1 - t].hdr.gen \in Nat
  BY Zenon, <1>1, <1>7, <1>8 DEF Newest, Bank
<1>13. ASSUME NEW k \in {0, 1}
       PROVE  /\ C[k].hdr.gen > 0 => C[k].hdr.gen % 2 = k
              /\ C[k].hdr.gen > C[1 - k].hdr.gen => Whole(C, k)
  <2>1. CASE k = t
    BY Zenon, <2>1, <1>4, <1>10, <1>11
  <2>2. CASE k = 1 - t
    <3>1. C[k].hdr.gen > 0 => C[k].hdr.gen % 2 = k
      BY Zenon, <2>2, <1>8 DEF Sound
    <3>2. ~(C[k].hdr.gen > C[1 - k].hdr.gen)
      BY <2>2, <1>1, <1>10, <1>12
    <3> QED BY Zenon, <3>1, <3>2
  <2> QED BY Zenon, <2>1, <2>2, <1>1
<1>14. Sound(C)
  BY Zenon, <1>13 DEF Sound
<1>15. C[t].hdr.gen > C[1 - t].hdr.gen
  BY <1>10, <1>12
<1>16. Found(C) = C[t].pay[1]
  BY Zenon, <1>1, <1>7, <1>14, <1>15, FoundTop
<1>17. Found(C) = d
  BY <1>5, <1>9, <1>16
<1>18. \A k \in {0, 1} : C[k].hdr.gen <= g + 1 /\ C[k].hdr.gen \in {B[k].hdr.gen, g + 1}
  <2> TAKE k \in {0, 1}
  <2>1. CASE k = t
    BY <2>1, <1>10
  <2>2. CASE k = 1 - t
    BY <2>2, <1>8, <1>12
  <2> QED BY Zenon, <2>1, <2>2, <1>1
<1>19. Newest(C, g + 1)
  BY Zenon, <1>1, <1>10, <1>18 DEF Newest
<1> QED BY Zenon, <1>7, <1>14, <1>17, <1>18, <1>19

(* What a namespace reads as has its type.                                 *)
LEMMA ReadTyped ==
    ASSUME NEW m \in [DataBlocks -> Bytes], NEW d \in Namespace
    PROVE  Read(m, d) \in View
<1>1. ASSUME NEW p \in Path
      PROVE  ReadEntry(m, d[p]) \in {NoEntry, Dir} \cup [kind : {"file"}, bytes : Seq(Bytes)]
  <2>1. CASE d[p] \in {NoEntry, Dir}
    BY <2>1 DEF ReadEntry, NoEntry, Dir
  <2>2. CASE d[p] \in [kind : {"file"}, blocks : Seq(DataBlocks)]
    <3>1. d[p].kind = "file" /\ d[p].blocks \in Seq(DataBlocks)
      BY Zenon, <2>2
    <3>2. [i \in DOMAIN d[p].blocks |-> m[d[p].blocks[i]]] \in Seq(Bytes)
      BY <3>1
    <3> QED BY Zenon, <3>1, <3>2 DEF ReadEntry
  <2> QED BY Zenon, <2>1, <2>2 DEF Namespace, Entry
<1> QED BY Zenon, <1>1 DEF Read, View

(* A block a namespace does not refer to is no part of what it reads as.   *)
LEMMA ReadElsewhere ==
    ASSUME NEW m, NEW n, NEW d \in Namespace, \A b \in Referenced(d) : n[b] = m[b]
    PROVE  Read(n, d) = Read(m, d)
<1>1. ASSUME NEW p \in Path PROVE ReadEntry(n, d[p]) = ReadEntry(m, d[p])
  <2>1. CASE d[p].kind # "file"
    BY Zenon, <2>1 DEF ReadEntry
  <2>2. CASE d[p].kind = "file"
    <3>1. \A i \in DOMAIN d[p].blocks : n[d[p].blocks[i]] = m[d[p].blocks[i]]
      BY <2>2 DEF Referenced, BlocksOf
    <3>2. [i \in DOMAIN d[p].blocks |-> n[d[p].blocks[i]]]
            = [i \in DOMAIN d[p].blocks |-> m[d[p].blocks[i]]]
      BY Zenon, <3>1
    <3> QED BY Zenon, <2>2, <3>2 DEF ReadEntry
  <2> QED BY Zenon, <2>1, <2>2
<1> QED BY Zenon, <1>1 DEF Read

(* ReadAll reads the data blocks of the disk.                              *)
LEMMA ReadIs == ASSUME NEW d PROVE ReadAll(d) = Read(data, d)
BY Zenon DEF ReadAll, ReadFile, Read, ReadEntry

(* One entry of a namespace replaced, as write_file, remove_file,          *)
(* create_dir and remove_dir do.                                           *)
LEMMA Replaced ==
    ASSUME NEW d \in Namespace, Unshared(d), NEW p \in Path, NEW e \in Entry,
           BlocksOf(e) \cap Referenced(d) = {}
    PROVE  /\ [d EXCEPT ![p] = e] \in Namespace
           /\ Unshared([d EXCEPT ![p] = e])
           /\ \A b \in Referenced([d EXCEPT ![p] = e]) :
                 b \in BlocksOf(e) \/ (b \in Referenced(d) /\ b \notin BlocksOf(d[p]))
           /\ \A m : Read(m, [d EXCEPT ![p] = e]) = [Read(m, d) EXCEPT ![p] = ReadEntry(m, e)]
<1> DEFINE n == [d EXCEPT ![p] = e]
<1>1. n \in Namespace
  BY Zenon DEF Namespace
<1>2. n[p] = e /\ \A q \in Path \ {p} : n[q] = d[q]
  BY Zenon DEF Namespace
<1>3. \A q \in Path : BlocksOf(d[q]) \subseteq Referenced(d)
  BY Zenon DEF Referenced
<1> HIDE DEF n
<1>4. ASSUME NEW q \in Path, NEW r \in Path, q # r
      PROVE  BlocksOf(n[q]) \cap BlocksOf(n[r]) = {}
  <2>1. CASE q = p
    BY Zenon, <2>1, <1>2, <1>3, <1>4
  <2>2. CASE r = p
    BY Zenon, <2>2, <1>2, <1>3, <1>4
  <2>3. CASE q # p /\ r # p
    BY Zenon, <2>3, <1>2, <1>4 DEF Unshared
  <2> QED BY Zenon, <2>1, <2>2, <2>3
<1>5. ASSUME NEW b \in Referenced(n)
      PROVE  b \in BlocksOf(e) \/ (b \in Referenced(d) /\ b \notin BlocksOf(d[p]))
  <2>1. PICK q \in Path : b \in BlocksOf(n[q])
    BY Zenon DEF Referenced
  <2>2. CASE q = p
    BY Zenon, <2>1, <2>2, <1>2
  <2>3. CASE q # p
    <3>1. b \in BlocksOf(d[q])
      BY Zenon, <2>1, <2>3, <1>2
    <3> QED BY Zenon, <2>3, <3>1, <1>3 DEF Unshared
  <2> QED BY Zenon, <2>2, <2>3
<1>6. ASSUME NEW m PROVE Read(m, n) = [Read(m, d) EXCEPT ![p] = ReadEntry(m, e)]
  BY <1>2, Zenon DEF Read
<1> QED BY <1>1, <1>4, <1>5, <1>6, Zenon DEF n, Unshared

(* Entries of a namespace moved, as rename_path does: no file is doubled   *)
(* or lost, whatever paths their destinations are.                         *)
LEMMA Relocation ==
    ASSUME NEW d \in Namespace, Unshared(d), NEW p \in Path, NEW q \in Path,
           NEW M \in SUBSET Path
    PROVE  /\ Relocated(d, p, q, M) \in Namespace
           /\ Unshared(Relocated(d, p, q, M))
           /\ Referenced(Relocated(d, p, q, M)) \subseteq Referenced(d)
           /\ \A m : Read(m, Relocated(d, p, q, M)) = Relocated(Read(m, d), p, q, M)
<1> DEFINE n == Relocated(d, p, q, M)
           Src(r) == CHOOSE s \in M : Dest(p, q, s) = r
           To(r) == \E s \in M : Dest(p, q, s) = r
<1>1. \A r \in Path : n[r] = IF To(r) THEN d[Src(r)] ELSE IF r \in M THEN NoEntry ELSE d[r]
  BY Zenon DEF Relocated
<1>2. \A r \in Path : To(r) => Src(r) \in M /\ Src(r) \in Path /\ Dest(p, q, Src(r)) = r
  BY Zenon
<1>3. DOMAIN n = Path /\ n = [r \in Path |-> n[r]]
  BY Zenon DEF Relocated
<1>4. \A m : \A r \in Path :
        Relocated(Read(m, d), p, q, M)[r]
          = IF To(r) THEN Read(m, d)[Src(r)] ELSE IF r \in M THEN NoEntry ELSE Read(m, d)[r]
  BY Zenon DEF Relocated
<1>5. \A m : Relocated(Read(m, d), p, q, M)
               = [r \in Path |-> Relocated(Read(m, d), p, q, M)[r]]
  BY Zenon DEF Relocated
<1> HIDE DEF n, Src, To
<1>6. NoEntry \in Entry /\ BlocksOf(NoEntry) = {}
  BY Zenon DEF Entry, NoEntry, BlocksOf
<1>7. n \in Namespace
  BY Zenon, <1>1, <1>2, <1>3, <1>6 DEF Namespace
<1>8. ASSUME NEW r \in Path
      PROVE  \/ BlocksOf(n[r]) = {}
             \/ To(r) /\ BlocksOf(n[r]) = BlocksOf(d[Src(r)])
             \/ ~To(r) /\ r \notin M /\ BlocksOf(n[r]) = BlocksOf(d[r])
  BY Zenon, <1>1, <1>6
<1>9. ASSUME NEW r \in Path, NEW s \in Path, r # s
      PROVE  BlocksOf(n[r]) \cap BlocksOf(n[s]) = {}
  <2>1. CASE BlocksOf(n[r]) = {} \/ BlocksOf(n[s]) = {}
    BY Zenon, <2>1
  <2>2. CASE BlocksOf(n[r]) # {} /\ BlocksOf(n[s]) # {}
    <3> DEFINE x == IF To(r) THEN Src(r) ELSE r
               y == IF To(s) THEN Src(s) ELSE s
    <3>1. BlocksOf(n[r]) = BlocksOf(d[x]) /\ BlocksOf(n[s]) = BlocksOf(d[y])
      BY Zenon, <2>2, <1>8
    <3>2. (To(r) \/ r \notin M) /\ (To(s) \/ s \notin M)
      BY Zenon, <2>2, <1>8
    <3>3. x # y /\ x \in Path /\ y \in Path
      BY Zenon, <3>2, <1>2, <1>9
    <3> QED BY Zenon, <3>1, <3>3 DEF Unshared
  <2> QED BY Zenon, <2>1, <2>2
<1>10. Referenced(n) \subseteq Referenced(d)
  <2> SUFFICES ASSUME NEW r \in Path, NEW b \in BlocksOf(n[r]) PROVE b \in Referenced(d)
    BY Zenon DEF Referenced
  <2>1. \E s \in Path : b \in BlocksOf(d[s])
    BY Zenon, <1>2, <1>8
  <2> QED BY Zenon, <2>1 DEF Referenced
<1>11. ASSUME NEW m PROVE Read(m, n) = Relocated(Read(m, d), p, q, M)
  <2>1. \A r \in Path : Read(m, d)[r] = ReadEntry(m, d[r])
    BY Zenon DEF Read
  <2>2. ReadEntry(m, NoEntry) = NoEntry
    BY Zenon DEF ReadEntry, NoEntry
  <2>3. ASSUME NEW r \in Path PROVE ReadEntry(m, n[r]) = Relocated(Read(m, d), p, q, M)[r]
    BY Zenon, <1>1, <1>2, <1>4, <2>1, <2>2
  <2> QED BY <2>3, <1>5, ZenonT(30) DEF Read
<1> QED BY Zenon, <1>7, <1>9, <1>10, <1>11 DEF n, Unshared

(* The label of the operation in progress tells its kind.                  *)
LEMMA OpKinds ==
    ASSUME NEW o \in VolOps
    PROVE  /\ o.pc \in {"none", "super", "data", "store"}
           /\ o.pc = "none" <=> o = Quiet
           /\ o.pc = "super" => o = [pc |-> "super"]
           /\ o.pc = "data" => o \in DataOp
           /\ o.pc = "store" => o \in StoreOp
BY DEF VolOps, Quiet, DataOp, StoreOp

(* The empty namespace.                                                    *)
LEMMA Empty ==
    /\ EmptyDir \in Namespace /\ Unshared(EmptyDir) /\ Referenced(EmptyDir) = {}
<1>1. EmptyDir \in Namespace
  BY Zenon DEF EmptyDir, Namespace, Entry
<1>2. \A p \in Path : BlocksOf(EmptyDir[p]) = {}
  BY Zenon DEF EmptyDir, NoEntry, BlocksOf
<1> QED BY Zenon, <1>1, <1>2 DEF Unshared, Referenced

(* A namespace refers to data blocks.                                      *)
LEMMA ReferencedTyped ==
    ASSUME NEW d \in Namespace PROVE Referenced(d) \in SUBSET DataBlocks
<1> SUFFICES ASSUME NEW p \in Path, NEW b \in BlocksOf(d[p]) PROVE b \in DataBlocks
  BY Zenon DEF Referenced
<1>1. d[p].kind = "file"
  BY Zenon DEF BlocksOf
<1>2. d[p].blocks \in Seq(DataBlocks)
  BY <1>1 DEF Namespace, Entry, NoEntry, Dir
<1> QED BY <1>1, <1>2 DEF BlocksOf

(* The bounds of a behaviour.                                              *)
LEMMA MixTyped ==
    ASSUME VolTypes PROVE vmix.gens \in Nat \ {0} /\ vmix.paths \subseteq Path
BY Zenon, VolumeAssumption DEF VolTypes

(* mount finds the namespace of the newer bank, or seeds an empty one.     *)
LEMMA MountInv == ASSUME VolInv, mount PROVE VolInv'
<1>0. VolTypes /\ Banks /\ Mounted /\ Working
  BY Zenon DEF VolInv
<1>1. load = Loaded(bank)
  BY Zenon DEF load, Loaded, load_bank, Whole, Better
<1>2. bank \in [{0, 1} -> Bank] /\ Sound(bank)
  BY Zenon, <1>0 DEF VolTypes, Banks
<1>3. bank[0].hdr.gen \in Nat /\ bank[1].hdr.gen \in Nat
  BY Zenon, <1>2 DEF Bank
<1> DEFINE Finds == /\ vdir' = Found(bank) /\ used' = Referenced(Found(bank))
                    /\ Found(bank) \in Namespace
                    /\ \E k \in {0, 1} : gen' = bank[k].hdr.gen
                    /\ Newest(bank, gen')
                    /\ load = {} => gen' = 0 /\ Found(bank) = EmptyDir
<1>4. ASSUME bank[0].hdr.gen = bank[1].hdr.gen PROVE Finds
  <2>1. load = {} /\ Found(bank) = EmptyDir /\ bank[0].hdr.gen = 0
    BY Zenon, <1>1, <1>2, <1>4, FoundNone
  <2>2. vdir' = EmptyDir /\ used' = {} /\ gen' = 0
    BY Zenon, <2>1 DEF mount
  <2>3. Newest(bank, gen')
    <3>1. \A k \in {0, 1} : bank[k].hdr.gen = 0
      BY <1>4, <2>1, Zenon
    <3> QED BY <3>1, <2>2 DEF Newest
  <2> QED BY Zenon, <2>1, <2>2, <2>3, Empty
<1>5. ASSUME NEW k \in {0, 1}, bank[k].hdr.gen > bank[1 - k].hdr.gen PROVE Finds
  <2>1. load = {k} /\ Found(bank) = bank[k].pay[1] /\ Found(bank) \in Namespace
    BY Zenon, <1>1, <1>2, <1>5, FoundTop
  <2>2. vdir' = bank[k].pay[1] /\ used' = Referenced(bank[k].pay[1]) /\ gen' = bank[k].hdr.gen
    BY Zenon, <2>1 DEF mount
  <2>3. Newest(bank, gen')
    BY <2>2, <1>5, <1>3 DEF Newest
  <2> QED BY Zenon, <2>1, <2>2, <2>3
<1>6. Finds
  <2>1. bank[0].hdr.gen > bank[1 - 0].hdr.gen \/ bank[1].hdr.gen > bank[1 - 1].hdr.gen
        \/ bank[0].hdr.gen = bank[1].hdr.gen
    BY <1>3
  <2> QED BY Zenon, <2>1, <1>4, <1>5
<1> HIDE DEF Finds
<1>7. /\ UNCHANGED <<sb, bank, data, faults, vmix, restored>>
      /\ snaps' = <<>> /\ vstate = "down" /\ vstate' \in {"mounting", "up"}
      /\ \/ vop' = Quiet
         \/ vop' = [pc |-> "super"] /\ vstate' = "mounting"
         \/ vop' = Store(EmptyDir, {}, {}) /\ load = {} /\ vstate' = "mounting"
  BY Zenon DEF mount, diskVars
<1>8. gen' \in Nat /\ gen' <= vmix.gens
  BY Zenon, <1>0, <1>3, <1>6 DEF Finds, Banks
<1>9. Store(EmptyDir, {}, {}) \in StoreOp
  BY Empty DEF Store, StoreOp
<1>10. vop' \in VolOps
  BY Zenon, <1>7, <1>9 DEF VolOps
<1>11. VolTypes'
  BY <1>0, <1>6, <1>7, <1>8, <1>10, ReferencedTyped DEF Finds, VolTypes
<1>12. Banks'
  BY Zenon, <1>0, <1>7 DEF Banks
<1>13. Mounted'
  BY Zenon, <1>6, <1>7 DEF Finds, Mounted
<1>14. vop'.pc # "data" /\ (vop'.pc = "super" => vstate' = "mounting")
  BY <1>7 DEF Quiet, Store
<1>15. vop'.pc = "store" => vop' = Store(EmptyDir, {}, {}) /\ load = {}
  BY <1>7 DEF Quiet
<1>16. Store(EmptyDir, {}, {}).i = 1 /\ Store(EmptyDir, {}, {}).dir = EmptyDir
       /\ Store(EmptyDir, {}, {}).done = {} /\ Store(EmptyDir, {}, {}).undo = {}
  BY Zenon DEF Store
<1>17. Working'
  <2>1. vop'.pc = "store" => gen' < vmix'.gens /\ \A i \in 1 .. 2 : ~(i < vop'.i)
    BY <1>0, <1>6, <1>7, <1>15, <1>16, MixTyped DEF Finds
  <2> QED BY Zenon, <2>1, <1>7, <1>8, <1>14 DEF Working
<1>18. Blocks'
  <2>1. \A bs : SnapsIn(bs)'
    BY <1>7 DEF SnapsIn
  <2>2. KeptIn(used)'
    BY Zenon, <2>1, <1>6 DEF Finds, KeptIn
  <2>3. vop'.pc = "store" => Commits(vop.dir, vop.done, vop.undo)'
    <3> SUFFICES ASSUME vop'.pc = "store" PROVE Commits(vop.dir, vop.done, vop.undo)'
      BY Zenon
    <3>1. vop'.dir = EmptyDir /\ vop'.done = {} /\ vop'.undo = {} /\ vdir' = EmptyDir
      BY Zenon, <1>6, <1>15, <1>16 DEF Finds
    <3> QED BY Zenon, <3>1, <2>1, Empty DEF Commits, KeptIn, OneOperation
  <2>4. \A i \in DOMAIN snaps' : FALSE
    BY <1>7
  <2> QED BY Zenon, <2>2, <2>3, <2>4, <1>14 DEF Blocks
<1> QED BY Zenon, <1>11, <1>12, <1>13, <1>17, <1>18 DEF VolInv

(* persist_superblock, before a new volume is seeded.                      *)
LEMMA SuperblockInv == ASSUME VolInv, persist_superblock PROVE VolInv'
<1>0. VolTypes /\ Banks /\ Mounted /\ Working /\ Blocks
  BY Zenon DEF VolInv
<1>1. vop.pc = "super" /\ vstate = "mounting" /\ snaps = <<>>
  BY Zenon, <1>0 DEF persist_superblock, Working
<1>2. /\ UNCHANGED <<bank, data, vdir, used, gen, snaps, faults, vmix, restored>>
      /\ sb' = TRUE /\ vstate' \in {"mounting", "up"}
      /\ \/ vop' = Quiet
         \/ vop' = Store(vdir, {}, {}) /\ gen = 0
  BY Zenon DEF persist_superblock
<1>3. Store(vdir, {}, {}) \in StoreOp
  BY <1>0 DEF VolTypes, Store, StoreOp
<1>4. VolTypes'
  BY Zenon, <1>0, <1>2, <1>3 DEF VolTypes, VolOps
<1>5. Banks' /\ Mounted'
  BY Zenon, <1>0, <1>1, <1>2 DEF Banks, Mounted
<1>6. vop'.pc # "data" /\ vop'.pc # "super"
  BY <1>2 DEF Quiet, Store
<1>7. vop'.pc = "store" => /\ gen = 0 /\ vop'.i = 1 /\ vop'.dir = vdir
                           /\ vop'.done = {} /\ vop'.undo = {}
  BY <1>2 DEF Quiet, Store
<1>8. Working'
  <2>1. vop'.pc = "store" => gen' < vmix'.gens /\ \A i \in 1 .. 2 : ~(i < vop'.i)
    BY <1>0, <1>2, <1>7, MixTyped
  <2> QED BY Zenon, <2>1, <1>0, <1>1, <1>2, <1>6 DEF Working
<1>9. Blocks'
  <2>1. ASSUME ~restored, vop'.pc = "store" PROVE Commits(vop.dir, vop.done, vop.undo)'
    <3>1. bank \in [{0, 1} -> Bank] /\ Sound(bank) /\ Newest(bank, 0) /\ vdir = Found(bank)
      BY Zenon, <2>1, <1>0, <1>1, <1>7 DEF VolTypes, Banks, Mounted
    <3>2. bank[0].hdr.gen = bank[1].hdr.gen
      BY <3>1, OldBankOnTop
    <3>3. vdir = EmptyDir
      BY Zenon, <3>1, <3>2, FoundNone
    <3>4. \A bs : SnapsIn(bs)'
      BY <1>1, <1>2 DEF SnapsIn
    <3> QED BY Zenon, <3>3, <3>4, <2>1, <1>2, <1>7, Empty DEF Commits, KeptIn, OneOperation
  <2>2. ~restored => KeptIn(used)' /\ \A i \in DOMAIN snaps' : FALSE
    BY <1>0, <1>1, <1>2 DEF Blocks, KeptIn, SnapsIn
  <2> QED BY Zenon, <2>1, <2>2, <1>2, <1>6 DEF Blocks
<1> QED BY Zenon, <1>4, <1>5, <1>8, <1>9 DEF VolInv

(* store writes a payload block into the older bank.                       *)
LEMMA PayloadInv ==
    ASSUME VolInv, store_payload PROVE VolInv' /\ Found(bank') = Found(bank)
<1>0. VolTypes /\ Banks /\ Mounted /\ Working /\ Blocks
  BY Zenon DEF VolInv
<1>1. vop \in StoreOp /\ vop.pc = "store" /\ vop.i \in 1 .. 2
  BY <1>0, OpKinds DEF store_payload, VolTypes, StoreOp
<1>2. vstate # "down" /\ gen < vmix.gens
  BY <1>0, <1>1 DEF Working, Quiet
<1>3. vop' = [vop EXCEPT !.i = vop.i + 1]
      /\ UNCHANGED <<sb, data, vstate, vdir, used, gen, snaps, faults, vmix, restored>>
  BY Zenon DEF store_payload
<1>4. /\ vop' \in StoreOp /\ vop'.pc = "store" /\ vop'.dir = vop.dir /\ vop'.done = vop.done
      /\ vop'.undo = vop.undo /\ vop'.i = vop.i + 1 /\ vop' # Quiet
  BY <1>1, <1>3 DEF StoreOp, Quiet
<1>5. bank' = WithPayload(bank, Target(gen), vop.i, vop.dir)
  BY Zenon DEF store_payload, WithPayload
<1>6. bank \in [{0, 1} -> Bank] /\ Sound(bank) /\ gen \in Nat /\ Newest(bank, gen)
      /\ vop.dir \in Namespace
  BY Zenon, <1>0, <1>1, <1>2 DEF VolTypes, Banks, Mounted, StoreOp
<1>7. /\ bank' \in [{0, 1} -> Bank] /\ Sound(bank') /\ Newest(bank', gen)
      /\ Found(bank') = Found(bank)
      /\ \A k \in {0, 1} : bank'[k].hdr.gen = bank[k].hdr.gen
      /\ bank'[Target(gen)].pay = [bank[Target(gen)].pay EXCEPT ![vop.i] = vop.dir]
  BY <1>1, <1>5, <1>6, PayloadStored
<1>8. VolTypes'
  BY Zenon, <1>0, <1>3, <1>4, <1>7 DEF VolTypes, VolOps
<1>9. Banks'
  BY Zenon, <1>0, <1>3, <1>7 DEF Banks
<1>10. Mounted'
  BY Zenon, <1>0, <1>2, <1>3, <1>7 DEF Mounted
<1>11. Working'
  <2>1. ASSUME NEW j \in 1 .. 2, j < vop.i + 1 PROVE bank'[Target(gen)].pay[j] = vop.dir
    <3>1. bank[Target(gen)].pay \in [1 .. 2 -> Namespace]
      BY Zenon, <1>6, OtherBank DEF Bank
    <3>2. CASE j = vop.i
      BY Zenon, <1>1, <1>7, <3>1, <3>2
    <3>3. CASE j # vop.i
      <4>1. j < vop.i
        BY <1>1, <2>1, <3>3
      <4>2. bank[Target(gen)].pay[j] = vop.dir
        BY Zenon, <1>0, <1>1, <4>1 DEF Working
      <4> QED BY Zenon, <1>7, <3>1, <3>3, <4>2
    <3> QED BY Zenon, <3>2, <3>3
  <2>2. Target(gen)' = Target(gen)
    BY Zenon, <1>3 DEF Target
  <2> QED BY Zenon, <2>1, <2>2, <1>0, <1>2, <1>3, <1>4 DEF Working
<1>12. Blocks'
  <2>1. ASSUME ~restored PROVE Commits(vop.dir, vop.done, vop.undo)'
    BY Zenon, <2>1, <1>0, <1>1, <1>2, <1>3, <1>4 DEF Blocks, Commits, KeptIn, SnapsIn
  <2> QED BY Zenon, <2>1, <1>0, <1>2, <1>3, <1>4 DEF Blocks, KeptIn, SnapsIn
<1> QED BY Zenon, <1>7, <1>8, <1>9, <1>10, <1>11, <1>12 DEF VolInv

(* store writes the header: the namespace is committed.                    *)
LEMMA HeaderInv ==
    ASSUME VolInv, store_header PROVE VolInv' /\ Found(bank') = vop.dir
<1>0. VolTypes /\ Banks /\ Mounted /\ Working /\ Blocks
  BY Zenon DEF VolInv
<1>1. vop \in StoreOp /\ vop.pc = "store" /\ vop.i = 3
  BY Zenon, <1>0, OpKinds DEF store_header, VolTypes
<1>2. vstate # "down" /\ gen < vmix.gens /\ \A i \in 1 .. 2 : bank[Target(gen)].pay[i] = vop.dir
  BY <1>0, <1>1 DEF Working, Quiet
<1>3. /\ gen' = gen + 1 /\ vdir' = vop.dir /\ used' = vop.done /\ vstate' = "up"
      /\ vop' = Quiet /\ UNCHANGED <<sb, data, snaps, faults, vmix, restored>>
  BY Zenon DEF store_header
<1>4. bank' = WithHeader(bank, Target(gen), gen + 1, vop.dir)
  BY Zenon DEF store_header, WithHeader
<1>5. bank \in [{0, 1} -> Bank] /\ Sound(bank) /\ gen \in Nat /\ Newest(bank, gen)
      /\ vop.dir \in Namespace /\ vop.done \in SUBSET DataBlocks
  BY Zenon, <1>0, <1>1, <1>2 DEF VolTypes, Banks, Mounted, StoreOp
<1>6. /\ bank' \in [{0, 1} -> Bank] /\ Sound(bank') /\ Newest(bank', gen + 1)
      /\ Found(bank') = vop.dir
      /\ \A k \in {0, 1} : bank'[k].hdr.gen \in {bank[k].hdr.gen, gen + 1}
  BY <1>2, <1>4, <1>5, HeaderStored
<1>7. ~restored => Commits(vop.dir, vop.done, vop.undo)
  BY Zenon, <1>0, <1>1, <1>2 DEF Blocks
<1>8. gen + 1 <= vmix.gens
  BY <1>0, <1>2, <1>5, MixTyped
<1>9. VolTypes'
  BY <1>0, <1>3, <1>5, <1>6 DEF VolTypes, VolOps
<1>10. Banks'
  BY Zenon, <1>0, <1>3, <1>6, <1>7, <1>8 DEF Banks, Commits
<1>11. Mounted'
  BY Zenon, <1>3, <1>6 DEF Mounted
<1>12. Working'
  BY Zenon, <1>3, <1>8 DEF Working, Quiet
<1>13. Blocks'
  <2>1. ~restored => KeptIn(used)'
    BY Zenon, <1>3, <1>7 DEF Commits, KeptIn, SnapsIn
  <2> QED BY Zenon, <2>1, <1>0, <1>2, <1>3 DEF Blocks, Quiet
<1> QED BY Zenon, <1>6, <1>9, <1>10, <1>11, <1>12, <1>13 DEF VolInv

(* persist_metadata of a namespace that may be stored, which encode may    *)
(* refuse.                                                                 *)
LEMMA CommitInv ==
    ASSUME VolInv, NEW n \in Namespace, NEW done \in SUBSET DataBlocks,
           NEW undo \in SUBSET DataBlocks, persist_metadata(n, done, undo),
           vstate = "up", gen < vmix.gens, ~restored => Commits(n, done, undo),
           UNCHANGED <<diskVars, vstate, vdir, gen, snaps, faults, vmix, restored>>
    PROVE  VolInv'
<1>0. VolTypes /\ Banks /\ Mounted /\ Working /\ Blocks
  BY Zenon DEF VolInv
<1>1. UNCHANGED <<sb, bank, data, vstate, vdir, gen, snaps, faults, vmix, restored>>
  BY Zenon DEF diskVars
<1>2. Banks' /\ Mounted'
  BY <1>0, <1>1 DEF Banks, Mounted
<1>3. CASE vop' = Quiet /\ used' = undo
  <2>1. VolTypes'
    BY Zenon, <1>0, <1>1, <1>3 DEF VolTypes, VolOps
  <2>2. Working'
    BY Zenon, <1>0, <1>1, <1>3 DEF Working, Quiet
  <2>3. ~restored => KeptIn(used)'
    BY Zenon, <1>1, <1>3 DEF Commits, KeptIn, SnapsIn
  <2>4. Blocks'
    <3>1. vop'.pc = "none"
      BY Zenon, <1>3 DEF Quiet
    <3>2. ~restored => \A i \in DOMAIN snaps : Read(data, snaps[i].dir) = snaps[i].seen
      BY Zenon, <1>0 DEF Blocks
    <3> QED BY <1>1, <2>3, <3>1, <3>2 DEF Blocks
  <2> QED BY Zenon, <1>2, <2>1, <2>2, <2>4 DEF VolInv
<1>4. CASE vop' = Store(n, done, undo) /\ used' = used
  <2>1. /\ vop' \in StoreOp /\ vop'.pc = "store" /\ vop'.dir = n /\ vop'.done = done
        /\ vop'.undo = undo /\ vop'.i = 1
    BY <1>4 DEF Store, StoreOp
  <2>2. VolTypes'
    BY Zenon, <1>0, <1>1, <1>4, <2>1 DEF VolTypes, VolOps
  <2>3. Working'
    BY <1>0, <1>1, <2>1 DEF Working
  <2>4. ~restored => Commits(vop.dir, vop.done, vop.undo)'
    BY <1>1, <2>1, Zenon DEF Commits, KeptIn, SnapsIn
  <2>5. ~restored => KeptIn(used)'
    BY Zenon, <1>0, <1>1, <1>4 DEF Blocks, KeptIn, SnapsIn
  <2>6. Blocks'
    BY <1>0, <1>1, <2>1, <2>4, <2>5 DEF Blocks
  <2> QED BY Zenon, <1>2, <2>2, <2>3, <2>6 DEF VolInv
<1> QED BY Zenon, <1>3, <1>4 DEF persist_metadata

(* What the invariant says of a volume that is up.                         *)
LEMMA UpFacts ==
    ASSUME VolInv, vstate = "up", ~restored
    PROVE  vdir \in Namespace /\ Unshared(vdir) /\ KeptIn(used) /\ SnapsIn(used)
BY Zenon DEF VolInv, VolTypes, Banks, Mounted, Blocks, KeptIn

(* A namespace with one entry replaced may be stored, and the blocks of    *)
(* the old entry that no snapshot refers to may be freed with it.          *)
LEMMA EntryCommits ==
    ASSUME VolInv, vstate = "up", ~restored, NEW p \in Path, NEW e \in Entry,
           NEW done \in SUBSET DataBlocks, NEW undo \in SUBSET DataBlocks,
           BlocksOf(e) \cap Referenced(vdir) = {}, BlocksOf(e) \subseteq used,
           used \ Unreferenced(BlocksOf(vdir[p]), snaps) \subseteq done, KeptIn(undo),
           OneOperation(Read(data, vdir), [Read(data, vdir) EXCEPT ![p] = ReadEntry(data, e)])
    PROVE  [vdir EXCEPT ![p] = e] \in Namespace /\ Commits([vdir EXCEPT ![p] = e], done, undo)
<1> DEFINE n == [vdir EXCEPT ![p] = e]
<1>1. vdir \in Namespace /\ Unshared(vdir) /\ Referenced(vdir) \subseteq used /\ SnapsIn(used)
  BY Zenon, UpFacts DEF KeptIn
<1>2. /\ n \in Namespace /\ Unshared(n)
      /\ \A b \in Referenced(n) :
           b \in BlocksOf(e) \/ (b \in Referenced(vdir) /\ b \notin BlocksOf(vdir[p]))
      /\ \A m : Read(m, n) = [Read(m, vdir) EXCEPT ![p] = ReadEntry(m, e)]
  BY <1>1, Replaced, Zenon
<1>3. BlocksOf(vdir[p]) \subseteq Referenced(vdir)
  BY Zenon DEF Referenced
<1> HIDE DEF n
<1>4. Referenced(n) \subseteq done
  BY Zenon, <1>1, <1>2, <1>3 DEF Unreferenced
<1>5. SnapsIn(done)
  BY Zenon, <1>1 DEF SnapsIn, Unreferenced
<1>6. OneOperation(Read(data, vdir), Read(data, n))
  BY Zenon, <1>2
<1> QED BY <1>2, <1>4, <1>5, <1>6, Zenon DEF Commits, n

(* remove_file and remove_dir.                                             *)
LEMMA RemoveInv ==
    ASSUME VolInv, NEW p \in Path, remove_file(p) \/ remove_dir(p) PROVE VolInv'
<1>1. vstate = "up" /\ ~restored /\ gen < vmix.gens /\ vdir[p].kind # "none"
  BY Zenon DEF remove_file, remove_dir, MayCall
<1>2. vdir \in Namespace /\ KeptIn(used) /\ used \in SUBSET DataBlocks
  BY <1>1, UpFacts, Zenon DEF VolInv, VolTypes
<1>3. NoEntry \in Entry /\ BlocksOf(NoEntry) = {} /\ ReadEntry(data, NoEntry) = NoEntry
  BY Zenon DEF Entry, NoEntry, BlocksOf, ReadEntry
<1>4. OneOperation(Read(data, vdir), [Read(data, vdir) EXCEPT ![p] = NoEntry])
  <2>1. Read(data, vdir)[p] # NoEntry
    BY <1>1 DEF Read, ReadEntry, NoEntry
  <2> QED BY Zenon, <2>1 DEF OneOperation, Removed
<1> DEFINE free == used \ Unreferenced(BlocksOf(vdir[p]), snaps)
           n == [vdir EXCEPT ![p] = NoEntry]
<1>5. free \in SUBSET DataBlocks /\ free \subseteq used
  BY Zenon, <1>2
<1>6. n \in Namespace /\ Commits(n, free, used) /\ Commits(n, used, used)
  BY Zenon, <1>1, <1>2, <1>3, <1>4, <1>5, EntryCommits
<1>7. persist_metadata(n, free, used) \/ persist_metadata(n, used, used)
  BY Zenon DEF remove_file, remove_dir
<1>8. UNCHANGED <<diskVars, vstate, vdir, gen, snaps, faults, vmix, restored>>
  BY Zenon DEF remove_file, remove_dir
<1> HIDE DEF n, free
<1> QED BY Zenon, <1>1, <1>2, <1>5, <1>6, <1>7, <1>8, CommitInv

(* create_dir.                                                             *)
LEMMA CreateDirInv == ASSUME VolInv, NEW p \in Path, create_dir(p) PROVE VolInv'
<1>1. vstate = "up" /\ ~restored /\ gen < vmix.gens /\ vdir[p].kind = "none"
  BY Zenon DEF create_dir, MayCall
<1>2. vdir \in Namespace /\ KeptIn(used) /\ used \in SUBSET DataBlocks
  BY Zenon, <1>1, UpFacts DEF VolInv, VolTypes
<1>3. Dir \in Entry /\ BlocksOf(Dir) = {} /\ ReadEntry(data, Dir) = Dir
  BY Zenon DEF Entry, Dir, BlocksOf, ReadEntry
<1>4. OneOperation(Read(data, vdir), [Read(data, vdir) EXCEPT ![p] = Dir])
  <2>1. vdir[p] = NoEntry
    BY <1>1, <1>2 DEF Namespace, Entry, Dir, NoEntry
  <2>2. Read(data, vdir)[p] = NoEntry
    BY <2>1 DEF Read, ReadEntry, NoEntry
  <2> QED BY Zenon, <2>2 DEF OneOperation, MadeDir
<1> DEFINE n == [vdir EXCEPT ![p] = Dir]
<1>5. n \in Namespace /\ Commits(n, used, used)
  BY Zenon, <1>1, <1>2, <1>3, <1>4, EntryCommits
<1>6. persist_metadata(n, used, used)
  BY Zenon DEF create_dir
<1>7. UNCHANGED <<diskVars, vstate, vdir, gen, snaps, faults, vmix, restored>>
  BY Zenon DEF create_dir
<1> HIDE DEF n
<1> QED BY Zenon, <1>1, <1>2, <1>5, <1>6, <1>7, CommitInv

(* rename_path.                                                            *)
LEMMA RenameInv ==
    ASSUME VolInv, NEW p \in Path, NEW q \in Path, rename_path(p, q) PROVE VolInv'
<1>1. vstate = "up" /\ ~restored /\ gen < vmix.gens /\ vdir[p].kind # "none"
  BY Zenon DEF rename_path, MayCall
<1>2. /\ vdir \in Namespace /\ Unshared(vdir) /\ KeptIn(used) /\ SnapsIn(used)
      /\ used \in SUBSET DataBlocks
  BY <1>1, UpFacts, Zenon DEF VolInv, VolTypes
<1>3. p \in Moves(p) /\ Moves(p) \in SUBSET Path
  BY Zenon DEF Moves, Entries
<1>4. Dest(p, q, p) = q
  <2>1. p \in Seq(STRING) /\ q \in Seq(STRING)
    BY Zenon, VolumeAssumption
  <2> QED BY <2>1 DEF Dest
<1>5. vdir[q].kind = "none"
  BY Zenon, <1>3, <1>4 DEF rename_path
<1> DEFINE old == Read(data, vdir)
           n == Relocated(vdir, p, q, Moves(p))
<1>6. Renamed(p, q) = n
  BY Zenon DEF Renamed, Relocated
<1>7. /\ n \in Namespace /\ Unshared(n) /\ Referenced(n) \subseteq Referenced(vdir)
      /\ Read(data, n) = Relocated(old, p, q, Moves(p))
  BY <1>2, <1>3, Relocation
<1>8. \A r \in Path : /\ old[r] = NoEntry <=> vdir[r].kind = "none"
                      /\ old[r] = Dir <=> vdir[r].kind = "dir"
  <2> TAKE r \in Path
  <2>1. old[r] = ReadEntry(data, vdir[r])
    BY Zenon DEF Read
  <2>2. CASE vdir[r] = NoEntry
    BY <2>1, <2>2 DEF ReadEntry, NoEntry, Dir
  <2>3. CASE vdir[r] = Dir
    BY <2>1, <2>3 DEF ReadEntry, NoEntry, Dir
  <2>4. CASE vdir[r] \in [kind : {"file"}, blocks : Seq(DataBlocks)]
    <3>1. vdir[r].kind = "file"
      BY Zenon, <2>4
    <3>2. old[r].kind = "file"
      BY <2>1, <3>1 DEF ReadEntry
    <3> QED BY <3>1, <3>2 DEF NoEntry, Dir
  <2> QED BY Zenon, <1>2, <2>2, <2>3, <2>4 DEF Namespace, Entry
<1>9. Moves(p) = Below(old, p)
  BY Zenon, <1>8 DEF Moves, Entries, Below
<1> HIDE DEF old, n
<1>10. OneOperation(old, Read(data, n))
  <2>1. old[p] # NoEntry /\ old[q] = NoEntry
    BY Zenon, <1>1, <1>5, <1>8
  <2>2. Moved(old, Read(data, n))
    BY Zenon, <2>1, <1>7, <1>9 DEF Moved
  <2> QED BY Zenon, <2>2 DEF OneOperation
<1>11. Commits(n, used, used)
  BY Zenon, <1>2, <1>7, <1>10 DEF Commits, KeptIn, old
<1>12. persist_metadata(n, used, used)
       /\ UNCHANGED <<diskVars, vstate, vdir, gen, snaps, faults, vmix, restored>>
  BY Zenon, <1>6 DEF rename_path
<1> QED BY Zenon, <1>1, <1>2, <1>7, <1>11, <1>12, CommitInv

(* write_file allocates blocks that nothing refers to.                     *)
LEMMA WriteFileInv ==
    ASSUME VolInv, NEW p \in Path, NEW c \in Contents, write_file(p, c) PROVE VolInv'
<1>0. VolTypes /\ Banks /\ Mounted /\ Working /\ Blocks
  BY Zenon DEF VolInv
<1>1. vstate = "up" /\ vop = Quiet /\ ~restored /\ gen < vmix.gens
  BY Zenon DEF write_file, MayCall
<1>2. KeptIn(used) /\ used \in SUBSET DataBlocks /\ vdir \in Namespace
  BY Zenon, <1>0, <1>1, UpFacts DEF VolInv, VolTypes
<1>3. UNCHANGED <<sb, bank, data, vstate, vdir, gen, snaps, faults, vmix, restored>>
  BY Zenon DEF write_file, diskVars
<1>4. PICK bs \in allocate(Len(c)) :
        /\ used' = used \cup {bs[i] : i \in DOMAIN bs}
        /\ vop' = [pc |-> "data", path |-> p, c |-> c, blocks |-> bs, i |-> 1]
  BY Zenon DEF write_file
<1>5. c \in Seq(STRING) /\ Len(c) \in Nat /\ DOMAIN c = 1 .. Len(c)
  BY VolumeAssumption
<1>6. /\ bs \in [1 .. Len(c) -> DataBlocks \ used]
      /\ \A i, j \in 1 .. Len(c) : i < j => bs[i] < bs[j]
  BY Zenon DEF allocate
<1>7. bs \in Seq(DataBlocks) /\ DOMAIN bs = DOMAIN c
  BY <1>5, <1>6
<1>8. \A i \in DOMAIN bs : bs[i] \in DataBlocks \ used /\ bs[i] \in Nat
  BY <1>6, VolumeAssumption, Zenon
<1>9. \A i, j \in DOMAIN bs : bs[i] = bs[j] => i = j
  <2> SUFFICES ASSUME NEW i \in 1 .. Len(c), NEW j \in 1 .. Len(c), bs[i] = bs[j], i # j
               PROVE  FALSE
    BY Zenon, <1>6
  <2>1. i < j \/ j < i
    BY <1>5
  <2>2. bs[i] < bs[j] \/ bs[j] < bs[i]
    BY Zenon, <2>1, <1>6
  <2>3. bs[i] \in Nat /\ bs[j] \in Nat
    BY Zenon, <1>6, <1>8
  <2> QED BY <2>2, <2>3
<1>10. /\ vop' \in DataOp /\ vop'.pc = "data" /\ vop'.c = c /\ vop'.blocks = bs /\ vop'.i = 1
       /\ used' \in SUBSET DataBlocks
  BY <1>2, <1>4, <1>7, <1>8 DEF DataOp
<1>11. VolTypes'
  BY Zenon, <1>0, <1>3, <1>10 DEF VolTypes, VolOps
<1>12. Banks' /\ Mounted'
  BY <1>0, <1>3, Zenon DEF Banks, Mounted
<1>13. Working'
  BY <1>0, <1>1, <1>3, <1>10, Zenon DEF Working
<1>14. used \subseteq used' \ {bs[i] : i \in DOMAIN bs} /\ \A i \in DOMAIN bs : bs[i] \in used'
  BY <1>4, <1>8, Zenon
<1>15. KeptIn(used \ {vop.blocks[i] : i \in DOMAIN vop.blocks})' /\ KeptIn(used)'
  BY <1>2, <1>3, <1>10, <1>14, Zenon DEF KeptIn, SnapsIn
<1>16. FreshBlocks'
  <2>1. \A i \in DOMAIN bs : ~(i < 1)
    BY <1>6
  <2> QED BY Zenon, <2>1, <1>7, <1>9, <1>10, <1>14, <1>15 DEF FreshBlocks
<1>17. Blocks'
  BY Zenon, <1>0, <1>1, <1>3, <1>10, <1>15, <1>16 DEF Blocks
<1> QED BY Zenon, <1>11, <1>12, <1>13, <1>17 DEF VolInv

(* write_file writes a block: neither the committed files nor a snapshot   *)
(* change.                                                                 *)
LEMMA WriteBlockInv ==
    ASSUME VolInv, write_block
    PROVE  VolInv' /\ (~restored => Read(data', vdir) = Read(data, vdir))
<1>0. VolTypes /\ Banks /\ Mounted /\ Working /\ Blocks
  BY Zenon DEF VolInv
<1>1. vop \in DataOp /\ vop.pc = "data" /\ vop.i <= Len(vop.c)
  BY Zenon, <1>0, OpKinds DEF write_block, VolTypes
<1>2. vstate = "up" /\ gen < vmix.gens
  BY Zenon, <1>0, <1>1 DEF Working
<1>3. /\ vop' = [vop EXCEPT !.i = vop.i + 1]
      /\ data' = [data EXCEPT ![vop.blocks[vop.i]] = vop.c[vop.i]]
      /\ UNCHANGED <<sb, bank, vstate, vdir, used, gen, snaps, faults, vmix, restored>>
  BY Zenon DEF write_block
<1>4. /\ vop' \in DataOp /\ vop'.pc = "data" /\ vop'.c = vop.c /\ vop'.blocks = vop.blocks
      /\ vop'.i = vop.i + 1 /\ vop.i \in Nat \ {0}
  BY <1>1, <1>3 DEF DataOp
<1>5. vop.i \in DOMAIN vop.c /\ vop.c[vop.i] \in Bytes
  <2>1. vop.c \in Seq(STRING) /\ vop.c \in Contents
    BY Zenon, <1>1, VolumeAssumption DEF DataOp
  <2>2. vop.i \in DOMAIN vop.c
    BY <2>1, <1>1, <1>4
  <2> QED BY <2>1, <2>2 DEF Bytes
<1>6. data \in [DataBlocks -> Bytes] /\ data' \in [DataBlocks -> Bytes]
  BY <1>0, <1>3, <1>5, Zenon DEF VolTypes
<1>7. VolTypes'
  BY Zenon, <1>0, <1>3, <1>4, <1>6 DEF VolTypes, VolOps
<1>8. Banks' /\ Mounted'
  BY Zenon, <1>0, <1>3 DEF Banks, Mounted
<1>9. Working'
  BY Zenon, <1>0, <1>2, <1>3, <1>4 DEF Working
<1>10. ASSUME ~restored
       PROVE  Blocks' /\ Read(data', vdir) = Read(data, vdir)
  <2> DEFINE b == vop.blocks[vop.i]
  <2>1. /\ FreshBlocks /\ KeptIn(used)
        /\ \A i \in DOMAIN snaps : Read(data, snaps[i].dir) = snaps[i].seen
    BY Zenon, <1>0, <1>1, <1>2, <1>10 DEF Blocks
  <2>2. vop.i \in DOMAIN vop.blocks /\ b \in DataBlocks
    BY <2>1, <1>1, <1>5 DEF FreshBlocks, DataOp
  <2>3. b \notin Referenced(vdir) /\ \A i \in DOMAIN snaps : b \notin Referenced(snaps[i].dir)
    BY <2>1, <2>2 DEF FreshBlocks, KeptIn, SnapsIn
  <2>4. vdir \in Namespace /\ \A i \in DOMAIN snaps : snaps[i].dir \in Namespace
    <3>1. snaps \in Seq(Snapshot) /\ vdir \in Namespace
      BY Zenon, <1>0 DEF VolTypes
    <3>2. \A i \in DOMAIN snaps : snaps[i] \in Snapshot
      BY <3>1
    <3> QED BY Zenon, <3>1, <3>2 DEF Snapshot
  <2>5. data' = [data EXCEPT ![b] = vop.c[vop.i]]
    BY Zenon, <1>3
  <2> HIDE DEF b
  <2>a. \A x \in DataBlocks : x # b => data'[x] = data[x]
    BY Zenon, <2>5, <1>6
  <2>6. Read(data', vdir) = Read(data, vdir)
    <3>1. \A x \in Referenced(vdir) : data'[x] = data[x]
      BY Zenon, <2>3, <2>4, <2>a, ReferencedTyped
    <3> QED BY Zenon, <3>1, <2>4, ReadElsewhere
  <2>7. \A i \in DOMAIN snaps : Read(data', snaps[i].dir) = snaps[i].seen
    <3> TAKE i \in DOMAIN snaps
    <3>1. \A x \in Referenced(snaps[i].dir) : data'[x] = data[x]
      BY Zenon, <2>3, <2>4, <2>a, ReferencedTyped
    <3>2. Read(data', snaps[i].dir) = Read(data, snaps[i].dir)
      BY Zenon, <3>1, <2>4, ReadElsewhere
    <3> QED BY Zenon, <3>2, <2>1
  <2>8. KeptIn(used)' /\ KeptIn(used \ {vop.blocks[i] : i \in DOMAIN vop.blocks})'
    BY <2>1, <1>3, <1>4 DEF FreshBlocks, KeptIn, SnapsIn
  <2>9. ASSUME NEW i \in DOMAIN vop.blocks, i < vop.i + 1
        PROVE  data'[vop.blocks[i]] = vop.c[i]
    <3>1. vop.blocks[i] \in DataBlocks /\ i \in Nat
      BY <1>1 DEF DataOp
    <3>2. CASE i = vop.i
      BY Zenon, <3>1, <3>2, <2>5, <1>6 DEF b
    <3>3. CASE i # vop.i
      <4>1. i < vop.i
        BY <3>1, <3>3, <2>9, <1>4
      <4>2. vop.blocks[i] # b /\ data[vop.blocks[i]] = vop.c[i]
        BY Zenon, <4>1, <3>3, <2>1, <2>2 DEF FreshBlocks, b
      <4> QED BY Zenon, <4>2, <3>1, <2>5, <1>6
    <3> QED BY Zenon, <3>2, <3>3
  <2>10. FreshBlocks'
    BY <2>1, <2>8, <2>9, <1>3, <1>4 DEF FreshBlocks
  <2> QED BY <2>6, <2>7, <2>8, <2>10, <1>3, <1>4, Zenon DEF Blocks
<1>11. restored => Blocks'
  BY Zenon, <1>3 DEF Blocks
<1> QED BY Zenon, <1>7, <1>8, <1>9, <1>10, <1>11 DEF VolInv

(* write_file stores a namespace whose file holds the whole contents.      *)
LEMMA WriteCommitInv == ASSUME VolInv, write_commit PROVE VolInv'
<1>0. VolTypes /\ Banks /\ Mounted /\ Working /\ Blocks
  BY Zenon DEF VolInv
<1>1. vop \in DataOp /\ vop.pc = "data" /\ vop.i > Len(vop.c)
  BY Zenon, <1>0, OpKinds DEF write_commit, VolTypes
<1>2. vstate = "up" /\ gen < vmix.gens /\ used \in SUBSET DataBlocks /\ vdir \in Namespace
  BY Zenon, <1>0, <1>1 DEF Working, VolTypes
<1>3. vop.path \in Path /\ vop.c \in Contents /\ vop.blocks \in Seq(DataBlocks) /\ vop.i \in Nat
  BY Zenon, <1>1 DEF DataOp
<1> DEFINE fresh == {vop.blocks[i] : i \in DOMAIN vop.blocks}
           done == used \ Unreferenced(BlocksOf(vdir[vop.path]), snaps)
           undo == used \ fresh
           n == [vdir EXCEPT ![vop.path] = File(vop.blocks)]
<1>4. persist_metadata(n, done, undo)
      /\ UNCHANGED <<diskVars, vstate, vdir, gen, snaps, faults, vmix, restored>>
  BY Zenon DEF write_commit
<1>5. done \in SUBSET DataBlocks /\ undo \in SUBSET DataBlocks
  BY Zenon, <1>2
<1>6. File(vop.blocks) \in Entry /\ BlocksOf(File(vop.blocks)) = fresh
  BY Zenon, <1>3 DEF File, Entry, BlocksOf
<1>7. n \in Namespace
  BY Zenon, <1>2, <1>3, <1>6 DEF Namespace
<1>8. ASSUME ~restored PROVE Commits(n, done, undo)
  <2>1. FreshBlocks
    BY Zenon, <1>0, <1>1, <1>2, <1>8 DEF Blocks
  <2>2. KeptIn(undo) /\ fresh \subseteq used
    BY <2>1 DEF FreshBlocks
  <2>3. fresh \cap Referenced(vdir) = {}
    BY Zenon, <2>2 DEF KeptIn
  <2>4. ReadEntry(data, File(vop.blocks)) = [kind |-> "file", bytes |-> vop.c]
    <3>1. vop.c \in Seq(STRING)
      BY Zenon, <1>3, VolumeAssumption
    <3>2. \A i \in DOMAIN vop.blocks : i < vop.i
      BY <3>1, <2>1, <1>1, <1>3 DEF FreshBlocks
    <3>3. \A i \in DOMAIN vop.blocks : data[vop.blocks[i]] = vop.c[i]
      BY Zenon, <3>2, <2>1 DEF FreshBlocks
    <3>4. [i \in DOMAIN vop.blocks |-> data[vop.blocks[i]]] = [i \in DOMAIN vop.c |-> vop.c[i]]
      BY Zenon, <3>3, <2>1 DEF FreshBlocks
    <3>5. [i \in DOMAIN vop.c |-> vop.c[i]] = vop.c
      BY <3>1
    <3> QED BY Zenon, <3>4, <3>5 DEF ReadEntry, File
  <2>5. OneOperation(Read(data, vdir),
                     [Read(data, vdir) EXCEPT ![vop.path] = ReadEntry(data, File(vop.blocks))])
    BY Zenon, <2>4, <1>3 DEF OneOperation, Written
  <2> HIDE DEF fresh, undo
  <2> QED BY Zenon, <2>2, <2>3, <2>5, <1>2, <1>3, <1>5, <1>6, <1>8, EntryCommits
<1> HIDE DEF n, done, undo
<1> QED BY Zenon, <1>2, <1>4, <1>5, <1>7, <1>8, CommitInv

(* create_snapshot.                                                        *)
LEMMA CreateSnapshotInv == ASSUME VolInv, create_snapshot PROVE VolInv'
<1>0. VolTypes /\ Banks /\ Mounted /\ Working /\ Blocks
  BY Zenon DEF VolInv
<1>1. vstate = "up" /\ vop = Quiet /\ ~restored
  BY Zenon DEF create_snapshot, MayCall
<1>2. UNCHANGED <<sb, bank, data, vstate, vdir, used, gen, vop, faults, vmix, restored>>
  BY Zenon DEF create_snapshot, diskVars
<1> DEFINE s == [used |-> used, dir |-> vdir, seen |-> Read(data, vdir)]
<1>3. snaps' = Append(snaps, s)
  BY Zenon, ReadIs DEF create_snapshot
<1>4. s \in Snapshot /\ snaps \in Seq(Snapshot)
  BY Zenon, <1>0, ReadTyped DEF VolTypes, Snapshot
<1>5. snaps' \in Seq(Snapshot)
  BY <1>3, <1>4
<1>6. \A i \in DOMAIN snaps' : snaps'[i] = s \/ (i \in DOMAIN snaps /\ snaps'[i] = snaps[i])
  BY <1>3, <1>4
<1>7. s.dir = vdir /\ s.seen = Read(data, vdir)
  BY Zenon
<1> HIDE DEF s
<1>8. VolTypes'
  BY Zenon, <1>0, <1>2, <1>5 DEF VolTypes
<1>9. Banks' /\ Mounted'
  BY <1>0, <1>2, Zenon DEF Banks, Mounted
<1>10. Working'
  BY Zenon, <1>0, <1>1, <1>2 DEF Working, Quiet
<1>11. KeptIn(used)'
  <2>1. KeptIn(used)
    BY Zenon, <1>0, <1>1 DEF Blocks
  <2> QED BY Zenon, <2>1, <1>2, <1>6, <1>7 DEF KeptIn, SnapsIn
<1>12. \A i \in DOMAIN snaps' : Read(data', snaps'[i].dir) = snaps'[i].seen
  BY Zenon, <1>0, <1>1, <1>2, <1>6, <1>7 DEF Blocks
<1>13. Blocks'
  BY Zenon, <1>1, <1>2, <1>11, <1>12 DEF Blocks, Quiet
<1> QED BY Zenon, <1>8, <1>9, <1>10, <1>13 DEF VolInv

(* A slice of a sequence has its type.                                     *)
LEMMA Slice ==
    ASSUME NEW S, NEW s \in Seq(S), NEW m \in 1 .. Len(s) + 1, NEW n \in 0 .. Len(s), m <= n + 1
    PROVE  SubSeq(s, m, n) \in Seq(S)
<1>1. Len(s) \in Nat /\ m \in Nat /\ n \in Nat /\ n - m + 1 \in Nat
  OBVIOUS
<1>2. SubSeq(s, m, n) = [j \in 1 .. n - m + 1 |-> s[m + j - 1]]
  BY <1>1
<1>3. \A j \in 1 .. n - m + 1 : m + j - 1 \in 1 .. Len(s)
  BY <1>1
<1>4. \A j \in 1 .. n - m + 1 : s[m + j - 1] \in S
  BY <1>3
<1>5. [j \in 1 .. n - m + 1 |-> s[m + j - 1]] \in Seq(S)
  BY <1>1, <1>4
<1> QED BY Zenon, <1>2, <1>5

(* s without its element i.                                                *)
Dropped(s, i) == SubSeq(s, 1, i - 1) \o SubSeq(s, i + 1, Len(s))

(* A sequence without one element has its type ...                         *)
LEMMA DroppedTyped ==
    ASSUME NEW S, NEW s \in Seq(S), NEW i \in 1 .. Len(s) PROVE Dropped(s, i) \in Seq(S)
<1>1. i \in Nat /\ Len(s) \in Nat
  OBVIOUS
<1>2. 1 \in 1 .. Len(s) + 1 /\ i - 1 \in 0 .. Len(s) /\ 1 <= (i - 1) + 1
  BY <1>1
<1>3. i + 1 \in 1 .. Len(s) + 1 /\ Len(s) \in 0 .. Len(s) /\ i + 1 <= Len(s) + 1
  BY <1>1
<1>4. SubSeq(s, 1, i - 1) \in Seq(S)
  BY Zenon, <1>2, Slice
<1>5. SubSeq(s, i + 1, Len(s)) \in Seq(S)
  BY Zenon, <1>3, Slice
<1> QED BY <1>4, <1>5 DEF Dropped

(* ... and only elements of the sequence.                                  *)
LEMMA Others ==
    ASSUME NEW S, NEW s \in Seq(S), NEW i \in 1 .. Len(s)
    PROVE  /\ Dropped(s, i) \in Seq(S)
           /\ \A j \in DOMAIN Dropped(s, i) : \E k \in DOMAIN s : Dropped(s, i)[j] = s[k]
<1> DEFINE V == {s[k] : k \in DOMAIN s}
<1>1. s \in Seq(V)
  OBVIOUS
<1> HIDE DEF V
<1>2. Dropped(s, i) \in Seq(V) /\ Dropped(s, i) \in Seq(S)
  BY Zenon, <1>1, DroppedTyped
<1>3. \A j \in DOMAIN Dropped(s, i) : Dropped(s, i)[j] \in V
  BY <1>2
<1> QED BY Zenon, <1>2, <1>3 DEF V

(* delete_snapshot frees no block that something else refers to.           *)
LEMMA DeleteSnapshotInv == ASSUME VolInv, NEW i, delete_snapshot(i) PROVE VolInv'
<1>0. VolTypes /\ Banks /\ Mounted /\ Working /\ Blocks
  BY Zenon DEF VolInv
<1>1. vstate = "up" /\ vop = Quiet /\ ~restored /\ i \in DOMAIN snaps
  BY Zenon DEF delete_snapshot, MayCall
<1>2. UNCHANGED <<sb, bank, data, vstate, vdir, gen, vop, faults, vmix, restored>>
  BY Zenon DEF delete_snapshot, diskVars
<1>3. snaps \in Seq(Snapshot) /\ used \in SUBSET DataBlocks
  BY Zenon, <1>0 DEF VolTypes
<1>4. /\ used' = used \ (Unreferenced(Referenced(snaps[i].dir), snaps') \ Referenced(vdir))
      /\ snaps' = Without(i)
  BY Zenon DEF delete_snapshot
<1>5. /\ snaps' \in Seq(Snapshot)
      /\ \A j \in DOMAIN snaps' : \E k \in DOMAIN snaps : snaps'[j] = snaps[k]
  <2>1. i \in 1 .. Len(snaps)
    BY <1>1, <1>3
  <2>2. snaps' = Dropped(snaps, i)
    BY Zenon, <1>4 DEF Without, Dropped
  <2> QED BY <2>1, <2>2, <1>3, Others
<1>6. VolTypes'
  BY Zenon, <1>0, <1>2, <1>3, <1>4, <1>5 DEF VolTypes
<1>7. Banks' /\ Mounted'
  BY Zenon, <1>0, <1>2 DEF Banks, Mounted
<1>8. Working'
  BY Zenon, <1>0, <1>1, <1>2 DEF Working, Quiet
<1>9. KeptIn(used) /\ \A k \in DOMAIN snaps : Read(data, snaps[k].dir) = snaps[k].seen
  BY Zenon, <1>0, <1>1 DEF Blocks
<1>10. Referenced(vdir) \subseteq used'
  BY Zenon, <1>4, <1>9 DEF KeptIn
<1>11. ASSUME NEW j \in DOMAIN snaps' PROVE Referenced(snaps'[j].dir) \subseteq used'
  <2>1. Referenced(snaps'[j].dir) \subseteq used
    BY Zenon, <1>5, <1>9 DEF KeptIn, SnapsIn
  <2> QED BY Zenon, <2>1, <1>4 DEF Unreferenced
<1>12. KeptIn(used)'
  BY Zenon, <1>2, <1>10, <1>11 DEF KeptIn, SnapsIn
<1>13. \A j \in DOMAIN snaps' : Read(data', snaps'[j].dir) = snaps'[j].seen
  BY Zenon, <1>2, <1>5, <1>9
<1>14. Blocks'
  BY Zenon, <1>1, <1>2, <1>12, <1>13 DEF Blocks, Quiet
<1> QED BY Zenon, <1>6, <1>7, <1>8, <1>14 DEF VolInv

(* restore_snapshot, after which the invariant says little.                *)
LEMMA RestoreSnapshotInv == ASSUME VolInv, NEW i, restore_snapshot(i) PROVE VolInv'
<1>0. VolTypes /\ Banks /\ Mounted /\ Working
  BY Zenon DEF VolInv
<1>1. vstate = "up" /\ vop = Quiet /\ i \in DOMAIN snaps
  BY Zenon DEF restore_snapshot, MayCall
<1>2. /\ UNCHANGED <<sb, bank, data, vstate, gen, snaps, vop, faults, vmix>>
      /\ restored' = TRUE /\ used' = snaps[i].used /\ vdir' = snaps[i].dir
  BY Zenon DEF restore_snapshot, diskVars
<1>3. snaps[i] \in Snapshot
  BY <1>0, <1>1 DEF VolTypes
<1>4. VolTypes'
  BY Zenon, <1>0, <1>2, <1>3 DEF VolTypes, Snapshot
<1>5. Banks' /\ Mounted' /\ Blocks'
  BY <1>0, <1>2, Zenon DEF Banks, Mounted, Blocks
<1>6. Working'
  BY Zenon, <1>0, <1>1, <1>2 DEF Working, Quiet
<1> QED BY Zenon, <1>4, <1>5, <1>6 DEF VolInv

(* A failed write gives back the blocks of the operation, and no other.    *)
LEMMA WriteFailsInv == ASSUME VolInv, WriteFails PROVE VolInv'
<1>0. VolTypes /\ Banks /\ Mounted /\ Working /\ Blocks
  BY Zenon DEF VolInv
<1>1. /\ UNCHANGED <<sb, bank, data, vdir, gen, snaps, vmix, restored>>
      /\ vop' = Quiet /\ vstate' = IF vstate = "up" THEN "up" ELSE "down"
  BY Zenon DEF WriteFails, diskVars
<1>2. faults' \in 0 .. MaxFaults
  BY <1>0, VolumeAssumption DEF WriteFails, VolTypes
<1>3. /\ vop.pc = "data" => used' = used \ {vop.blocks[i] : i \in DOMAIN vop.blocks}
      /\ vop.pc = "store" => used' = vop.undo
      /\ vop.pc = "super" => used' = used
      /\ vop.pc \in {"data", "store", "super"}
  BY Zenon, <1>0, OpKinds DEF WriteFails, VolTypes
<1>4. vop.pc = "store" => vop.undo \in SUBSET DataBlocks
  BY Zenon, <1>0, OpKinds DEF VolTypes, StoreOp
<1>5. used' \in SUBSET DataBlocks
  BY Zenon, <1>0, <1>3, <1>4 DEF VolTypes
<1>6. VolTypes'
  BY Zenon, <1>0, <1>1, <1>2, <1>5 DEF VolTypes, VolOps
<1>7. Banks'
  BY Zenon, <1>0, <1>1 DEF Banks
<1>8. Mounted'
  BY Zenon, <1>0, <1>1 DEF Mounted
<1>9. Working'
  BY Zenon, <1>0, <1>1 DEF Working, Quiet
<1>10. ASSUME vstate = "up", ~restored PROVE KeptIn(used)'
  <2>1. KeptIn(used) /\ (vop.pc = "data" => FreshBlocks)
        /\ (vop.pc = "store" => Commits(vop.dir, vop.done, vop.undo))
    BY Zenon, <1>0, <1>10 DEF Blocks
  <2>2. vop.pc # "super"
    BY Zenon, <1>0, <1>10 DEF Working
  <2>3. CASE vop.pc = "data"
    <3>1. KeptIn(used \ {vop.blocks[i] : i \in DOMAIN vop.blocks})
      BY Zenon, <2>1, <2>3 DEF FreshBlocks
    <3> QED BY Zenon, <3>1, <2>3, <1>1, <1>3 DEF KeptIn, SnapsIn
  <2>4. CASE vop.pc = "store"
    <3>1. KeptIn(vop.undo)
      BY Zenon, <2>1, <2>4 DEF Commits
    <3> QED BY Zenon, <3>1, <2>4, <1>1, <1>3 DEF KeptIn, SnapsIn
  <2> QED BY Zenon, <2>2, <2>3, <2>4, <1>3
<1>11. Blocks'
  BY Zenon, <1>0, <1>1, <1>10 DEF Blocks, Quiet
<1> QED BY Zenon, <1>6, <1>7, <1>8, <1>9, <1>11 DEF VolInv

(* A crash leaves the disk.                                                *)
LEMMA CrashInv == ASSUME VolInv, Crash PROVE VolInv'
<1>0. VolTypes /\ Banks /\ Working
  BY Zenon DEF VolInv
<1>1. /\ UNCHANGED <<sb, bank, data, vmix, restored>> /\ vstate' = "down" /\ vop' = Quiet
      /\ vdir' = EmptyDir /\ used' = {} /\ gen' = 0 /\ snaps' = <<>>
  BY Zenon DEF Crash, diskVars
<1>2. faults' \in 0 .. MaxFaults
  BY <1>0, VolumeAssumption DEF Crash, VolTypes
<1>3. VolTypes'
  BY <1>0, <1>1, <1>2, Empty DEF VolTypes, VolOps
<1>4. Banks' /\ Mounted' /\ Blocks'
  BY Zenon, <1>0, <1>1 DEF Banks, Mounted, Blocks
<1>5. Working'
  BY <1>0, <1>1, MixTyped DEF Working, Quiet
<1> QED BY Zenon, <1>3, <1>4, <1>5 DEF VolInv

(* A blank disk satisfies the invariant.                                   *)
LEMMA VolStarts == ASSUME VolInit PROVE VolInv /\ Found(bank) = EmptyDir
<1>1. Blank \in Bank /\ Blank.hdr.gen = 0
  <2>1. <<EmptyDir, EmptyDir>> \in [1 .. 2 -> Namespace]
    BY Empty
  <2>2. [gen |-> 0, crc |-> EmptyDir] \in [gen : Nat, crc : Namespace]
    BY Zenon, Empty
  <2> QED BY Zenon, <2>1, <2>2 DEF Blank, Bank
<1>2. bank \in [{0, 1} -> Bank] /\ \A k \in {0, 1} : bank[k].hdr.gen = 0
  BY Zenon, <1>1 DEF VolInit
<1>3. Sound(bank)
  <2>1. \A k \in {0, 1} : 1 - k \in {0, 1}
    OBVIOUS
  <2> QED BY <2>1, <1>2 DEF Sound
<1>4. Found(bank) = EmptyDir
  BY Zenon, <1>2, <1>3, FoundNone
<1>5. VolTypes
  <2>1. faults \in 0 .. MaxFaults
    BY VolumeAssumption DEF VolInit
  <2>2. data \in [DataBlocks -> Bytes]
    <3>1. "zero" \in Bytes
      BY Zenon DEF Bytes
    <3>2. data = [b \in DataBlocks |-> "zero"]
      BY Zenon DEF VolInit
    <3> QED BY Zenon, <3>1, <3>2
  <2>3. snaps \in Seq(Snapshot) /\ vop \in VolOps
    BY DEF VolInit, VolOps
  <2>4. /\ sb \in BOOLEAN /\ restored \in BOOLEAN /\ vstate \in {"down", "mounting", "up"}
        /\ vdir \in Namespace /\ used \in SUBSET DataBlocks /\ gen \in Nat /\ vmix \in VolMixes
    BY Zenon, Empty DEF VolInit
  <2> QED BY Zenon, <2>1, <2>2, <2>3, <2>4, <1>2 DEF VolTypes
<1>6. Banks
  BY <1>2, <1>3, <1>4, <1>5, Empty, MixTyped DEF Banks
<1>7. Mounted /\ Blocks
  BY Zenon DEF VolInit, Mounted, Blocks
<1>8. Working
  BY <1>5, MixTyped DEF VolInit, Working, Quiet
<1> QED BY Zenon, <1>4, <1>5, <1>6, <1>7, <1>8 DEF VolInv

(* Every step of the volume preserves the invariant.                       *)
LEMMA VolInductive == ASSUME VolInv, [VolNext]_volVars PROVE VolInv'
<1>1. CASE mount
  BY Zenon, <1>1, MountInv
<1>2. CASE persist_superblock
  BY Zenon, <1>2, SuperblockInv
<1>3. CASE store_payload
  BY Zenon, <1>3, PayloadInv
<1>4. CASE store_header
  BY Zenon, <1>4, HeaderInv
<1>5. vmix.paths \subseteq Path
  BY Zenon, MixTyped DEF VolInv
<1>6. ASSUME NEW p \in vmix.paths, NEW c \in Contents, write_file(p, c) PROVE VolInv'
  BY Zenon, <1>5, <1>6, WriteFileInv
<1>7. ASSUME NEW p \in vmix.paths, remove_file(p) \/ remove_dir(p) PROVE VolInv'
  BY Zenon, <1>5, <1>7, RemoveInv
<1>8. ASSUME NEW p \in vmix.paths, create_dir(p) PROVE VolInv'
  BY Zenon, <1>5, <1>8, CreateDirInv
<1>9. ASSUME NEW p \in vmix.paths, NEW q \in vmix.paths, rename_path(p, q) PROVE VolInv'
  BY Zenon, <1>5, <1>9, RenameInv
<1>10. CASE write_block
  BY Zenon, <1>10, WriteBlockInv
<1>11. CASE write_commit
  BY Zenon, <1>11, WriteCommitInv
<1>12. CASE create_snapshot
  BY Zenon, <1>12, CreateSnapshotInv
<1>13. ASSUME NEW i \in 1 .. MaxSnapshots, restore_snapshot(i) PROVE VolInv'
  BY Zenon, <1>13, RestoreSnapshotInv
<1>14. ASSUME NEW i \in 1 .. MaxSnapshots, delete_snapshot(i) PROVE VolInv'
  BY Zenon, <1>14, DeleteSnapshotInv
<1>15. CASE WriteFails
  BY Zenon, <1>15, WriteFailsInv
<1>16. CASE Crash
  BY Zenon, <1>16, CrashInv
<1>17. CASE UNCHANGED volVars
  <2>1. UNCHANGED <<sb, bank, data, vstate, vdir, used, gen, snaps, vop, faults, vmix, restored>>
    BY Zenon, <1>17 DEF volVars
  <2>2. VolTypes /\ Banks /\ Mounted /\ Working /\ Blocks
    BY Zenon DEF VolInv
  <2>3. VolTypes' /\ Banks' /\ Mounted'
    BY Zenon, <2>1, <2>2 DEF VolTypes, Banks, Mounted
  <2>4. Working'
    BY Zenon, <2>1, <2>2 DEF Working, Target
  <2>5. KeptIn(used) => KeptIn(used)'
    BY Zenon, <2>1 DEF KeptIn, SnapsIn
  <2>6. FreshBlocks => FreshBlocks'
    <3> DEFINE others == used \ {vop.blocks[i] : i \in DOMAIN vop.blocks}
    <3>1. others' = others
      BY Zenon, <2>1
    <3>2. KeptIn(others) => KeptIn(others)'
      BY Zenon, <2>1, <3>1 DEF KeptIn, SnapsIn
    <3> QED
      BY Zenon, <2>1, <3>2 DEF FreshBlocks
  <2>7. Commits(vop.dir, vop.done, vop.undo) => Commits(vop.dir, vop.done, vop.undo)'
    BY Zenon, <2>1 DEF Commits, KeptIn, SnapsIn
  <2>8. Blocks'
    BY <2>1, <2>2, <2>5, <2>6, <2>7, Zenon DEF Blocks
  <2> QED BY Zenon, <2>3, <2>4, <2>8 DEF VolInv
<1> QED BY Zenon, <1>1, <1>2, <1>3, <1>4, <1>6, <1>7, <1>8, <1>9, <1>10, <1>11, <1>12, <1>13, <1>14,
          <1>15, <1>16, <1>17 DEF VolNext

(* VolInv holds in every reachable state of the volume (volume.rs,         *)
(* metadata.rs, allocator.rs, snapshot.rs).                                *)
THEOREM VolumeInvariance == VolSpec => []VolInv
<1>1. VolInit => VolInv
  BY Zenon, VolStarts
<1>2. VolInv /\ [VolNext]_volVars => VolInv'
  BY Zenon, VolInductive
<1> QED BY <1>1, <1>2, PTL DEF VolSpec

(* The volume's variables keep their types: the generation stays within    *)
(* its bound, and the bitmap and the directory name data blocks only.      *)
THEOREM VolumeTypeCorrect == VolSpec => []VolTypeOK
<1>1. VolInv => VolTypeOK
  <2> SUFFICES ASSUME VolInv PROVE VolTypeOK
    BY Zenon
  <2>1. VolTypes /\ gen <= vmix.gens
    BY Zenon DEF VolInv, Working
  <2>2. gen \in 0 .. vmix.gens
    <3>1. gen \in Nat
      BY Zenon, <2>1 DEF VolTypes
    <3>2. vmix.gens \in Nat
      BY Zenon, <2>1, MixTyped
    <3> QED BY <2>1, <3>1, <3>2
  <2>3. \A p \in Path : BlocksOf(vdir[p]) \subseteq DataBlocks
    BY Zenon, <2>1, ReferencedTyped DEF VolTypes, Referenced
  <2> QED BY Zenon, <2>1, <2>2, <2>3 DEF VolTypes, VolTypeOK
<1> QED BY <1>1, VolumeInvariance, PTL

(* Recovered is what the banks of the disk hold.                           *)
LEMMA RecoveredIs == Recovered = Found(bank) /\ Recovered' = Found(bank')
BY Zenon DEF Recovered, Found, load, Loaded, load_bank, Whole, Better

(* Between operations the directory in memory reads as what a mount would  *)
(* find, after failed writes and crashes too, and every snapshot still     *)
(* reads as it did when create_snapshot took it (volume.rs, snapshot.rs).  *)
THEOREM VolumeViewsAgree == VolSpec => []ViewsAgree
<1>1. VolInv => ViewsAgree
  <2> SUFFICES ASSUME VolInv, vstate = "up", vop = Quiet, ~restored
               PROVE  /\ ReadAll(vdir) = ReadAll(Recovered)
                      /\ \A i \in DOMAIN snaps : ReadAll(snaps[i].dir) = snaps[i].seen
    BY Zenon DEF ViewsAgree
  <2>1. vdir = Recovered
    BY Zenon, RecoveredIs DEF VolInv, Mounted
  <2>2. \A i \in DOMAIN snaps : Read(data, snaps[i].dir) = snaps[i].seen
    BY Zenon DEF VolInv, Blocks
  <2> QED BY Zenon, <2>1, <2>2, ReadIs
<1> QED BY <1>1, VolumeInvariance, PTL

(* Until restore_snapshot is first called, a block the committed namespace *)
(* refers to is never free (volume.rs:267).  Afterwards it may be:         *)
(* README.md, section 5.                                                   *)
THEOREM VolumeBlocksAllocated == VolSpec => [](~restored => CommittedBlocksAllocated)
<1>1. VolInv => (~restored => CommittedBlocksAllocated)
  BY Zenon, RecoveredIs DEF VolInv, Mounted, Blocks, KeptIn, CommittedBlocksAllocated
<1> QED BY <1>1, VolumeInvariance, PTL

(* What the contract sees of the volume, before and after a step.          *)
LEMMA DurableIs ==
    /\ Durable = IF restored THEN Contract!Unspecified ELSE Read(data, Found(bank))
    /\ Durable' = IF restored' THEN Contract!Unspecified ELSE Read(data', Found(bank'))
<1>1. ReadAll(Recovered) = Read(data, Found(bank))
  BY Zenon, RecoveredIs, ReadIs
<1>2. ReadAll(Recovered)' = Read(data', Found(bank'))
  BY Zenon, RecoveredIs DEF ReadAll, ReadFile, Read, ReadEntry
<1> QED BY Zenon, <1>1, <1>2 DEF Durable, Contract!Unspecified

(* A namespace that may be stored is one operation of the contract away.   *)
LEMMA OperationAllowed ==
    ASSUME OneOperation(Durable, Durable'), Durable' # Durable
    PROVE  Contract!Write \/ Contract!Remove \/ Contract!MakeDir \/ Contract!Rename
<1>1. CASE Written(Durable, Durable')
  BY <1>1, Zenon DEF Written, Contract!Write
<1>2. CASE Removed(Durable, Durable')
  BY <1>2, Zenon DEF Removed, NoEntry, Contract!Remove, Contract!Nothing
<1>3. CASE MadeDir(Durable, Durable')
  BY <1>3, Zenon DEF MadeDir, NoEntry, Dir, Contract!MakeDir, Contract!Nothing, Contract!Dir
<1>4. CASE Moved(Durable, Durable')
  BY <1>4, Zenon DEF Moved, Relocated, Below, Under, Dest, NoEntry, Dir, Contract!Rename,
              Contract!RenameTo, Contract!Moved, Contract!Below, Contract!Nothing, Contract!Dir
<1> QED BY Zenon, <1>1, <1>2, <1>3, <1>4 DEF OneOperation

(* Every step of the volume is a step of the contract or changes nothing   *)
(* it sees.                                                                *)
LEMMA VolumeSteps ==
    ASSUME VolInv, VolInv', [VolNext]_volVars PROVE Durable' = Durable \/ Contract!Next
<1>1. CASE UNCHANGED <<bank, data, restored>>
  BY Zenon, <1>1, DurableIs
<1>2. CASE store_payload
  <2>1. UNCHANGED <<data, restored>>
    BY Zenon, <1>2 DEF store_payload
  <2> QED BY Zenon, <1>2, <2>1, PayloadInv, DurableIs
<1>3. CASE write_block
  <2>1. UNCHANGED <<bank, restored>> /\ vop.pc = "data"
    BY Zenon, <1>3 DEF write_block
  <2>2. ~restored => vdir = Found(bank)
    BY Zenon, <2>1 DEF VolInv, Working, Mounted
  <2> QED BY Zenon, <1>3, <2>1, <2>2, WriteBlockInv, DurableIs
<1>4. ASSUME ~restored, Durable' # Durable, DOMAIN Durable' = Path,
             Durable' = [p \in Path |-> Durable'[p]]
      PROVE  Durable # Contract!Unspecified
  <2>1. Durable \in View
    <3>1. bank \in [{0, 1} -> Bank] /\ Sound(bank) /\ data \in [DataBlocks -> Bytes]
      BY Zenon DEF VolInv, VolTypes, Banks
    <3>2. bank[0].hdr.gen \in Nat /\ bank[1].hdr.gen \in Nat
      BY Zenon, <3>1 DEF Bank
    <3>3. bank[0].hdr.gen > bank[1 - 0].hdr.gen \/ bank[1].hdr.gen > bank[1 - 1].hdr.gen
          \/ bank[0].hdr.gen = bank[1].hdr.gen
      BY <3>2
    <3>4. Found(bank) \in Namespace
      BY Zenon, <3>1, <3>3, FoundTop, FoundNone
    <3> QED BY Zenon, <3>1, <3>4, <1>4, DurableIs, ReadTyped
  <2>2. PICK p \in Path : Durable[p] # Durable'[p]
    BY Zenon, <2>1, <1>4 DEF View
  <2>3. Durable[p].kind \in {"none", "dir", "file"}
    BY <2>1 DEF View, NoEntry, Dir
  <2>4. Contract!Unspecified[p].kind = "unspecified"
    BY Zenon DEF Contract!Unspecified
  <2> QED BY Zenon, <2>3, <2>4
<1>5. Durable' = [p \in Path |-> Durable'[p]] /\ DOMAIN Durable' = Path
  BY Zenon, DurableIs DEF Contract!Unspecified, Read
<1>6. CASE store_header
  <2>1. UNCHANGED <<data, restored>> /\ vop.pc = "store" /\ vop # Quiet
    BY <1>6 DEF store_header, Quiet
  <2>2. CASE restored
    BY Zenon, <2>1, <2>2, DurableIs
  <2>3. CASE ~restored
    <3>1. vdir = Found(bank) /\ OneOperation(Read(data, vdir), Read(data, vop.dir))
      BY <2>1, <2>3, Zenon DEF VolInv, Working, Mounted, Blocks, Commits
    <3>2. Found(bank') = vop.dir
      BY Zenon, <1>6, HeaderInv
    <3>3. OneOperation(Durable, Durable')
      BY Zenon, <2>1, <2>3, <3>1, <3>2, DurableIs
    <3> QED BY Zenon, <2>3, <3>3, <1>4, <1>5, OperationAllowed DEF Contract!Next
  <2> QED BY Zenon, <2>2, <2>3
<1>7. ASSUME NEW i, restore_snapshot(i) PROVE Durable' = Durable \/ Contract!Next
  <2>1. restored' /\ ~restored
    BY Zenon, <1>7 DEF restore_snapshot, MayCall
  <2>2. Durable' = Contract!Unspecified
    BY Zenon, <2>1, DurableIs
  <2> QED BY Zenon, <2>1, <2>2, <1>4, <1>5 DEF Contract!Next, Contract!Restore
<1> QED BY Zenon, <1>1, <1>2, <1>3, <1>6, <1>7
        DEF VolNext, volVars, diskVars, mount, persist_superblock, write_file, remove_file,
            create_dir, remove_dir, rename_path, write_commit, create_snapshot,
            delete_snapshot, WriteFails, Crash

(* The volume implements VolumeContract: whatever block write the power    *)
(* fails at, and whichever writes fail, a mount finds the files of the     *)
(* last committed operation, whole (volume.rs:441, metadata.rs:55).        *)
THEOREM VolumeImplementsContract == VolSpec => VolumeIsAtomic
<1>1. VolInit => Durable = Contract!Empty
  <2> SUFFICES ASSUME VolInit PROVE Durable = Contract!Empty
    BY Zenon
  <2>1. ~restored /\ Found(bank) = EmptyDir
    BY Zenon, VolStarts DEF VolInit
  <2>2. Read(data, EmptyDir) = Contract!Empty
    BY Zenon DEF Read, ReadEntry, EmptyDir, NoEntry, Contract!Empty, Contract!Nothing
  <2> QED BY Zenon, <2>1, <2>2, DurableIs
<1>2. VolInv /\ VolInv' /\ [VolNext]_volVars => [Contract!Next]_Durable
  BY Zenon, VolumeSteps
<1> QED BY <1>1, <1>2, VolumeInvariance, PTL DEF VolSpec, VolumeIsAtomic, Contract!Spec
=============================================================================
