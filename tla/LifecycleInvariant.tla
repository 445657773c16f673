------------------------- MODULE LifecycleInvariant -------------------------
(***************************************************************************)
(* The inductive invariant of Lifecycle, for every number of CPUs, slots,  *)
(* pids and address spaces: creation, exec, waitpid, the delivery of a     *)
(* result to the waiting parent and the release of a reaped process's      *)
(* space preserve it.                                                      *)
(***************************************************************************)
EXTENDS Lifecycle, TLAPS, NaturalsInduction, WellFoundedInduction

-----------------------------------------------------------------------------
(* What the locals of a CPU look like in each step, and that every pid and *)
(* every space in sight has been handed out.                               *)
KnownPids ==
    /\ \A s \in Slot : table[s].pid < next_pid /\ table[s].parent < next_pid
    /\ \A c \in Cpu : act[c].rec.pid < next_pid

KnownSpaces ==
    /\ \A s \in Slot : table[s].space <= spaces
    /\ \A c \in Cpu : act[c].rec.space <= spaces /\ act[c].casc \subseteq 1 .. spaces

ActShape ==
    \A c \in Cpu : /\ act[c].step \in {"handoff", "release"} => act[c].rec # Hole
                   /\ act[c].step = "reap" => act[c].stack # <<>>
                   /\ act[c].step # "release" => act[c].casc = {}

TypeInv == TypeOK /\ KnownPids /\ KnownSpaces /\ ActShape

(* SpaceOnce without counting.                                             *)
Owns(c, x) ==
    \/ act[c].step \in {"handoff", "release"} /\ act[c].rec.space = x
    \/ x \in act[c].casc

SpaceInv ==
    /\ \A s, t \in Slot : table[s].space # None /\ table[s].space = table[t].space => s = t
    /\ \A s \in Slot, c \in Cpu : table[s].space # None => ~Owns(c, table[s].space)
    /\ \A c, d \in Cpu : \A x \in 1 .. spaces : Owns(c, x) /\ Owns(d, x) => c = d
    /\ \A c \in Cpu : act[c].rec.space \notin act[c].casc
    /\ \A s \in Slot : table[s].space \notin destroyed
    /\ \A c \in Cpu : \A x \in destroyed : ~Owns(c, x)

(* The CPU of an exiting child that took the registration of its parent.   *)
Carries(c) == act[c].step \in {"handoff", "wake"} /\ act[c].parent # None

(* A registration is the sleep of a process other than init, and an        *)
(* adopted process is init's.                                              *)
Registered ==
    \A s \in Slot : /\ table[s].wait # NotWaiting => table[s].state = "Waiting"
                    /\ table[s].state = "Waiting" => table[s].pid # INIT_PID
                    /\ table[s].adopted => table[s].parent = INIT_PID

(* A taken registration is on one CPU, whose parent sleeps on; until the   *)
(* delivery the child is a zombie of that parent.                          *)
Carried ==
    /\ \A c \in Cpu : Carries(c) =>
         \E s \in Slot : /\ table[s].pid = act[c].parent
                         /\ table[s].state = "Waiting" /\ table[s].wait = NotWaiting
    /\ \A c, d \in Cpu : Carries(c) /\ Carries(d) /\ act[c].parent = act[d].parent => c = d
    /\ \A c \in Cpu : Carries(c) /\ act[c].step = "handoff" =>
         LET z == table[act[c].slot]
         IN  z.pid = act[c].rec.pid /\ z.state = "Zombie" /\ z.parent = act[c].parent

(* A process on its way out through full_reap stays as it is, and nobody   *)
(* waits for it, or it vanished.                                           *)
Deserted(s) ==
    \/ table[s].parent = None
    \/ table[s].adopted
    \/ \A k \in Slot : table[k].pid = table[s].parent => table[k].state = "Zombie"
    \/ <<table[s].pid, table[s].parent>> \in vanished

Departing ==
    \A c \in Cpu, s \in Slot :
      act[c].step = "reap" /\ table[s] # Hole /\ table[s].pid = act[c].rec.pid =>
        table[s].state = "Live" /\ Deserted(s)

(* The result of a process that has a record, or has yet to be created,    *)
(* has not been delivered.                                                 *)
Undelivered ==
    /\ \A p \in Pid : delivered[p] <= 1 /\ (p >= next_pid => delivered[p] = 0)
    /\ \A s \in Slot : table[s] # Hole => delivered[table[s].pid] = 0

WaitInv == ~mistaken => Registered /\ Carried /\ Departing /\ Undelivered

IInv == TypeInv /\ SpaceInv /\ WaitInv /\ WaiterHasChild

-----------------------------------------------------------------------------
(* Records and tables.                                                     *)

Table == [Slot -> Record \cup {Hole}]

(* Records that differ in their space at most.                             *)
Same(a, b) ==
    /\ a.pid = b.pid /\ a.parent = b.parent /\ a.tgid = b.tgid /\ a.state = b.state
    /\ a.adopted = b.adopted /\ a.wait = b.wait

(* What the fields of a slot say of each other.                            *)
Fields(r) ==
    /\ r.pid \in Pid \cup {None} /\ r.parent \in Pid \cup {None}
    /\ r.space \in 0 .. MaxSpace /\ r.adopted \in BOOLEAN
    /\ r.wait \in Pid \cup {NotWaiting, AnyChild}
    /\ r.state \in {"Live", "Waiting", "Zombie", "Stray", "Hole"}
    /\ r = Hole <=> r.pid = None
    /\ r = Hole <=> r.state = "Hole"
    /\ r # Hole <=> r \in Record
    /\ r = Hole => r.space = None /\ r.wait = NotWaiting /\ ~r.adopted /\ r.parent = None

LEMMA Numbers ==
    /\ MAX_PROCESSES \in Nat /\ 0 \in Slot /\ 1 \in Slot /\ MaxPid \in Nat /\ MaxSpace \in Nat
    /\ Slot \subseteq Nat /\ Pid \subseteq Nat /\ 0 \notin Pid /\ 2 \in Pid /\ 3 \in Pid
  BY LifecycleAssumption DEF Slot, Pid, INIT_PID

LEMMA RecordFields == ASSUME NEW r \in Record \cup {Hole} PROVE Fields(r)
<1>1. CASE r = Hole
  BY <1>1, Numbers DEF Fields, Hole, None, NotWaiting, AnyChild, Record
<1>2. CASE r \in Record
  BY <1>2, Numbers DEF Fields, Hole, None, NotWaiting, AnyChild, Record
<1> QED BY Zenon, <1>1, <1>2

LEMMA TableFields == ASSUME NEW tbl \in Table PROVE \A s \in Slot : Fields(tbl[s])
  BY Zenon, RecordFields DEF Table

LEMMA ActFields ==
    ASSUME TypeOK
    PROVE  /\ table \in Table /\ \A s \in Slot : Fields(table[s])
           /\ \A c \in Cpu : Fields(act[c].rec)
<1>1. table \in Table
  BY Zenon DEF TypeOK, Table
<1>2. \A c \in Cpu : act[c].rec \in Record \cup {Hole}
  BY Zenon DEF TypeOK, Acts
<1> QED BY Zenon, <1>1, <1>2, TableFields, RecordFields

(* A record with another space is a record.                                *)
SetSpace(tbl, h, x) == [tbl EXCEPT ![h].space = x]

LEMMA SpaceSet ==
    ASSUME NEW tbl \in Table, NEW h \in Slot, tbl[h] # Hole, NEW x \in 0 .. MaxSpace
    PROVE  /\ SetSpace(tbl, h, x) \in Table
           /\ \A s \in Slot : Same(SetSpace(tbl, h, x)[s], tbl[s])
           /\ SetSpace(tbl, h, x)[h].space = x
           /\ \A s \in Slot \ {h} : SetSpace(tbl, h, x)[s] = tbl[s]
<1>1. tbl[h] \in Record
  BY Zenon DEF Table
<1> QED BY Zenon, <1>1 DEF SetSpace, Table, Record, Same

(* The first slot of a set.                                                *)
LEMMA FirstSlot ==
    ASSUME NEW S \in SUBSET Slot, S # {}
    PROVE  Min(S) \in S
<1> DEFINE less == {ss \in Nat \X Nat : ss[1] < ss[2]}
<1>1. IsWellFoundedOn(less, Nat)
  BY NatLessThanWellFounded, Zenon DEF OpToRel
<1>2. S \in SUBSET Nat
  BY Zenon, Numbers
<1>3. PICK x \in S : \A y \in S : ~(<<y, x>> \in less)
  BY <1>1, <1>2, WFMin, Zenon
<1>4. \A y \in Nat : ~(<<y, x>> \in less) => x <= y
  BY <1>2
<1>5. \A y \in S : x <= y
  BY <1>2, <1>3, <1>4, Zenon
<1> QED
  BY Zenon, <1>5 DEF Min

(* transfer_group_space_locked: the space stays with the caller, or goes   *)
(* to a record that has none; nothing else changes.                        *)
Transfer(tbl, rec, new, left) ==
    /\ new \in Table
    /\ \A s \in Slot : Same(new[s], tbl[s])
    /\ \/ left = rec.space /\ new = tbl
       \/ /\ left = None /\ rec.space # None
          /\ \E h \in Slot : /\ tbl[h].pid \notin {None, rec.pid} /\ tbl[h].space = None
                             /\ new[h].space = rec.space
                             /\ \A s \in Slot \ {h} : new[s] = tbl[s]

LEMMA Transferred ==
    ASSUME NEW tbl \in Table, NEW rec \in Record
    PROVE  Transfer(tbl, rec, transfer_group_space(tbl, rec), untransferred(tbl, rec))
<1> DEFINE heirs == group_survivors(tbl, rec)
<1>1. heirs \in SUBSET Slot
  BY Zenon DEF group_survivors
<1>2. rec.space \in 0 .. MaxSpace
  BY Zenon DEF Record
<1>3. \A s \in Slot : Fields(tbl[s])
  BY Zenon, TableFields
<1>4. \A s \in Slot : Same(tbl[s], tbl[s])
  BY Zenon DEF Same
<1>5. CASE heirs = {}
  BY Zenon, <1>4, <1>5 DEF Transfer, transfer_group_space, untransferred
<1>6. CASE heirs # {} /\ rec.space = None
  BY Zenon, <1>4, <1>6 DEF Transfer, transfer_group_space, untransferred
<1>7. CASE heirs # {} /\ rec.space # None
  <2> DEFINE h == Min(heirs)
  <2>1. h \in heirs
    BY Zenon, <1>1, <1>7, FirstSlot
  <2>2. h \in Slot /\ tbl[h] # Hole /\ tbl[h].pid # rec.pid /\ tbl[h].space = None
    BY Zenon, <2>1 DEF group_survivors
  <2>3. tbl[h].pid # None
    BY Zenon, <1>3, <2>2 DEF Fields
  <2> DEFINE new == transfer_group_space(tbl, rec)
  <2>4. new = SetSpace(tbl, h, rec.space)
    BY Zenon, <1>7 DEF transfer_group_space, SetSpace
  <2>5. untransferred(tbl, rec) = None
    BY Zenon, <1>7 DEF untransferred
  <2> HIDE DEF h, new
  <2>6. /\ new \in Table
        /\ \A s \in Slot : Same(new[s], tbl[s])
        /\ new[h].space = rec.space
        /\ \A s \in Slot \ {h} : new[s] = tbl[s]
    BY <1>2, <2>2, <2>4, SpaceSet
  <2>7. Transfer(tbl, rec, new, untransferred(tbl, rec))
    BY Zenon, <1>7, <2>2, <2>3, <2>5, <2>6 DEF Transfer
  <2> QED BY Zenon, <2>7 DEF new
<1> QED BY Zenon, <1>5, <1>6, <1>7

-----------------------------------------------------------------------------
(* Creation.                                                               *)

(* What Insert does: a pid is used up, and a hole may have become the      *)
(* record of a process that has it.                                        *)
Inserted(parent, space, state) ==
    /\ table' \in Table
    /\ next_pid \in Pid /\ next_pid' = next_pid + 1
    /\ \/ table' = table
       \/ \E h \in Slot :
            /\ table[h] = Hole
            /\ table'[h].pid = next_pid /\ table'[h].parent = parent
            /\ table'[h].space = space /\ table'[h].state = state
            /\ ~table'[h].adopted /\ table'[h].wait = NotWaiting
            /\ \A s \in Slot \ {h} : table'[s] = table[s]

LEMMA InsertStep ==
    ASSUME TypeOK, NEW parent \in Pid \cup {None}, NEW tgid, NEW space \in 0 .. MaxSpace,
           NEW state \in {"Live", "Stray"}, HasPid => tgid \in Pid,
           Insert(parent, tgid, space, state)
    PROVE  Inserted(parent, space, state)
<1> DEFINE holes == {s \in Slot : table[s] = Hole}
<1> DEFINE rec == [pid |-> next_pid, parent |-> parent, tgid |-> tgid, state |-> state,
                   adopted |-> FALSE, space |-> space, wait |-> NotWaiting]
<1>1. next_pid \in Pid /\ next_pid' = next_pid + 1 /\ tgid \in Pid
  BY LifecycleAssumption DEF Insert, HasPid, TypeOK, Pid, INIT_PID, SHELL_PID
<1>2. rec \in Record
  BY Zenon, <1>1 DEF Record
<1>3. table \in Table
  BY Zenon DEF TypeOK, Table
<1>4. CASE holes = {}
  <2>1. alloc_table_slot(table) = {}
    BY Zenon, <1>4 DEF alloc_table_slot
  <2>2. table' = table
    BY Zenon, <2>1 DEF Insert
  <2> QED BY Zenon, <1>1, <1>3, <2>2 DEF Inserted
<1>5. CASE holes # {}
  <2> DEFINE h == Min(holes)
  <2>1. h \in Slot /\ table[h] = Hole
    BY Zenon, <1>5, FirstSlot
  <2>2. alloc_table_slot(table) = {h}
    BY Zenon, <1>5 DEF alloc_table_slot
  <2> HIDE DEF h
  <2>3. Min({h}) = h
    BY <2>1, FirstSlot
  <2>4. NewRecord(next_pid, parent, tgid, space, state) = rec
    BY Zenon DEF NewRecord
  <2>5. alloc_table_slot(table) # {} /\ Min(alloc_table_slot(table)) = h
    BY Zenon, <2>2, <2>3
  <2>6. table' = [table EXCEPT ![h] = rec]
    BY Zenon, <2>4, <2>5 DEF Insert
  <2>7. table' \in Table /\ table'[h] = rec /\ \A s \in Slot \ {h} : table'[s] = table[s]
    BY Zenon, <1>2, <1>3, <2>1, <2>6 DEF Table
  <2> QED BY <1>1, <2>1, <2>7 DEF Inserted
<1> QED BY Zenon, <1>4, <1>5

LEMMA CreationTypes ==
    ASSUME TypeInv, NEW parent \in Pid \cup {None}, parent < next_pid, NEW space \in Nat,
           NEW state \in {"Live", "Stray"}, Inserted(parent, space, state), Quiet,
           spaces' \in spaces .. MaxSpace, space <= spaces'
    PROVE  TypeInv'
<1>1. \A s \in Slot : Fields(table[s])
  BY Zenon, ActFields DEF TypeInv
<1>2. KnownPids' /\ KnownSpaces' /\ ActShape'
  <2>0. next_pid \in Nat /\ \A s \in Slot : table[s].pid \in Nat /\ table[s].parent \in Nat
    BY <1>1, Numbers, Zenon DEF Inserted, Fields, None
  <2>1. \A s \in Slot : table'[s].pid < next_pid' /\ table'[s].parent < next_pid'
    BY <2>0 DEF TypeInv, KnownPids, Inserted
  <2>2. \A c \in Cpu : Fields(act[c].rec) /\ act'[c] = act[c]
    BY Zenon, ActFields DEF TypeInv, Quiet
  <2>3. \A c \in Cpu : act'[c].rec.pid < next_pid'
    <3>1. \A c \in Cpu : act[c].rec.pid \in Nat
      BY <2>2, Numbers, Zenon DEF Fields, None
    <3> QED BY <2>0, <2>2, <3>1 DEF TypeInv, KnownPids, Inserted
  <2>4. spaces \in Nat /\ spaces' \in Nat /\ spaces <= spaces'
    BY Numbers DEF TypeInv, TypeOK
  <2>5. \A s \in Slot : table'[s].space <= spaces'
    BY <1>1, <2>4 DEF TypeInv, KnownSpaces, Inserted, Fields
  <2>6. \A c \in Cpu : act'[c].rec.space <= spaces' /\ act'[c].casc \subseteq 1 .. spaces'
    BY <2>2, <2>4 DEF TypeInv, KnownSpaces, Fields
  <2>7. ActShape'
    BY Zenon, <2>2 DEF TypeInv, ActShape
  <2> QED BY Zenon, <2>1, <2>3, <2>5, <2>6, <2>7 DEF KnownPids, KnownSpaces
<1>3. next_pid' \in SHELL_PID + 1 .. MaxPid + 1
  BY LifecycleAssumption DEF TypeInv, TypeOK, Inserted, Pid, INIT_PID, SHELL_PID
<1>4. \A s, t \in Slot : table'[s] # Hole /\ table'[s].pid = table'[t].pid => s = t
  <2>1. \A s \in Slot : table[s].pid # next_pid
    BY <1>1, Numbers DEF TypeInv, KnownPids, Inserted, Fields, None
  <2>2. \A s, t \in Slot : table[s] # Hole /\ table[s].pid = table[t].pid => s = t
    BY Zenon DEF TypeInv, TypeOK
  <2>3. ASSUME NEW s \in Slot, NEW t \in Slot, table'[s] # Hole, table'[s].pid = table'[t].pid
        PROVE  s = t
    <3>1. CASE table' = table
      BY Zenon, <2>2, <2>3, <3>1
    <3>2. ASSUME NEW h \in Slot, table'[h].pid = next_pid,
                 \A r \in Slot \ {h} : table'[r] = table[r]
          PROVE  s = t
      BY Zenon, <2>1, <2>2, <2>3, <3>2
    <3> QED BY Zenon, <3>1, <3>2 DEF Inserted
  <2> QED BY Zenon, <2>3
<1>5. /\ act' \in [Cpu -> Acts] /\ \A c \in Cpu : Len(act'[c].stack) <= MAX_PROCESSES
      /\ delivered' \in [Pid -> Nat]
      /\ ledger' \subseteq Pid
      /\ vanished' \subseteq Pid \X (Pid \cup {None})
      /\ mistaken' \in BOOLEAN
  BY Zenon DEF TypeInv, TypeOK, Quiet
<1>6. spaces' \in 0 .. MaxSpace /\ destroyed' \subseteq 1 .. spaces'
  BY Numbers DEF TypeInv, TypeOK, Quiet
<1>7. TypeOK'
  BY <1>3, <1>4, <1>5, <1>6, Zenon DEF TypeOK, Inserted, Table
<1> QED BY Zenon, <1>2, <1>7 DEF TypeInv

LEMMA CreationSpaces ==
    ASSUME TypeInv, SpaceInv, NEW parent, NEW space \in Nat, NEW state,
           Inserted(parent, space, state), Quiet, spaces' \in spaces .. MaxSpace,
           space = None \/ spaces < space
    PROVE  SpaceInv'
<1>1. (\A s \in Slot : Fields(table[s])) /\ (\A c \in Cpu : Fields(act[c].rec))
  BY Zenon, ActFields DEF TypeInv
<1>2. \A c \in Cpu : \A x : Owns(c, x)' <=> Owns(c, x)
  BY Zenon DEF Owns, Quiet
<1>3. spaces \in Nat /\ \A x \in destroyed : x \in Nat /\ x <= spaces /\ x # None
  BY DEF TypeInv, TypeOK, None
<1>4. \A c \in Cpu, x \in Nat : Owns(c, x) => x <= spaces
  BY <1>3 DEF TypeInv, KnownSpaces, Owns
<1>5. \A s \in Slot : table[s].space \in Nat /\ table[s].space <= spaces
  BY <1>1 DEF Fields, TypeInv, KnownSpaces
<1>6. \A c, d \in Cpu : \A x \in 1 .. spaces' : Owns(c, x) /\ Owns(d, x) => c = d
  BY <1>3, <1>4 DEF SpaceInv
<1>7. UNCHANGED <<act, destroyed>>
  BY Zenon DEF Quiet
<1>8. CASE table' = table
  BY Zenon, <1>2, <1>6, <1>7, <1>8 DEF SpaceInv
<1>9. ASSUME NEW h \in Slot, table[h] = Hole, table'[h].space = space,
             \A s \in Slot \ {h} : table'[s] = table[s]
      PROVE  SpaceInv'
  <2>1. table[h].space = None
    BY Zenon, <1>1, <1>9 DEF Fields
  <2>2. \A s, t \in Slot : table'[s].space # None /\ table'[s].space = table'[t].space => s = t
    BY <1>3, <1>5, <1>9 DEF SpaceInv
  <2>3. \A s \in Slot, c \in Cpu : table'[s].space # None => ~Owns(c, table'[s].space)
    BY <1>3, <1>4, <1>9 DEF SpaceInv
  <2>4. \A s \in Slot : table'[s].space \notin destroyed
    BY <1>3, <1>9, <2>1 DEF SpaceInv
  <2> QED BY Zenon, <1>2, <1>6, <1>7, <2>2, <2>3, <2>4 DEF SpaceInv
<1> QED BY Zenon, <1>8, <1>9 DEF Inserted

LEMMA CreationWaits ==
    ASSUME TypeInv, WaitInv, WaiterHasChild, NEW parent, NEW space,
           NEW state \in {"Live", "Stray"}, Inserted(parent, space, state), Quiet
    PROVE  WaitInv' /\ WaiterHasChild'
<1>1. \A s \in Slot : Fields(table[s])
  BY Zenon, ActFields DEF TypeInv
<1>2. UNCHANGED <<act, delivered, vanished, mistaken>> /\ next_pid \in Nat /\
      next_pid' = next_pid + 1
  BY Zenon, Numbers DEF Quiet, Inserted
<1> SUFFICES ASSUME ~mistaken
             PROVE  Registered' /\ Carried' /\ Departing' /\ Undelivered' /\ WaiterHasChild'
  BY Zenon, <1>2 DEF WaitInv, WaiterHasChild
<1>3. Registered /\ Carried /\ Departing /\ Undelivered
  BY Zenon DEF WaitInv
<1>4. next_pid # INIT_PID /\ next_pid # None
  BY DEF TypeInv, TypeOK, SHELL_PID, INIT_PID, None
<1>5. Undelivered'
  <2>1. \A p \in Pid : p >= next_pid' => p >= next_pid
    BY <1>2, Numbers
  <2>2. next_pid \in Pid /\ next_pid >= next_pid
    BY <1>2 DEF Inserted
  <2>3. \A p \in Pid : delivered'[p] <= 1 /\ (p >= next_pid' => delivered'[p] = 0)
    BY <1>2, <1>3, <2>1, Zenon DEF Undelivered
  <2>4. ASSUME NEW s \in Slot, table'[s] # Hole PROVE delivered[table'[s].pid] = 0
    <3>1. table'[s] = table[s] \/ table'[s].pid = next_pid
      BY Zenon DEF Inserted
    <3>2. delivered[next_pid] = 0
      BY <1>3, <2>2, Zenon DEF Undelivered
    <3> QED BY <1>3, <2>4, <3>1, <3>2, Zenon DEF Undelivered
  <2> QED BY <1>2, <2>3, <2>4, Zenon DEF Undelivered
<1>6. CASE table' = table
  BY <1>2, <1>3, <1>5, <1>6 DEF Registered, Carried, Carries, Departing, Deserted, WaiterHasChild,
     Matching
<1>7. ASSUME NEW h \in Slot, table[h] = Hole, table'[h].pid = next_pid, table'[h].state = state,
             ~table'[h].adopted, table'[h].wait = NotWaiting,
             \A s \in Slot \ {h} : table'[s] = table[s]
      PROVE  Registered' /\ Carried' /\ Departing' /\ WaiterHasChild'
  <2>1. table[h].state = "Hole" /\ table[h].pid = None /\ table'[h] # Hole
    BY Zenon, <1>1, <1>4, <1>7 DEF Fields, Hole
  <2>2. \A s \in Slot : table[s].pid # next_pid /\ table[s].parent # next_pid
    BY <1>2 DEF TypeInv, KnownPids
  <2>3. \A c \in Cpu : act[c].rec.pid # next_pid
    BY <1>2 DEF TypeInv, KnownPids
  <2>4. Registered'
    BY Zenon, <1>3, <1>7 DEF Registered
  <2>5. Carried'
    <3>1. \A c \in Cpu : act[c].slot \in Slot
      BY Zenon DEF TypeInv, TypeOK, Acts
    <3> QED BY <1>2, <1>3, <1>7, <2>1, <3>1 DEF Carried, Carries
  <2>6. Departing'
    BY <1>2, <1>3, <1>7, <2>2, <2>3 DEF Departing, Deserted
  <2>7. WaiterHasChild'
    BY <1>2, <1>7, <2>1 DEF WaiterHasChild, Matching
  <2> QED BY Zenon, <2>4, <2>5, <2>6, <2>7
<1> QED BY Zenon, <1>5, <1>6, <1>7 DEF Inserted

LEMMA Created ==
    ASSUME IInv, NEW parent \in Pid \cup {None}, parent < next_pid, NEW tgid, NEW space \in Nat,
           HasPid => tgid \in Pid, NEW state \in {"Live", "Stray"},
           Insert(parent, tgid, space, state), Quiet,
           \/ space = None /\ spaces' = spaces
           \/ space \in {None, spaces'} /\ NewSpace
    PROVE  IInv'
<1>1. spaces \in 0 .. MaxSpace /\ MaxSpace \in Nat
  BY Zenon, Numbers DEF IInv, TypeInv, TypeOK
<1>2. /\ spaces' \in spaces .. MaxSpace /\ space \in 0 .. MaxSpace /\ space <= spaces'
      /\ space = None \/ spaces < space
  BY <1>1 DEF NewSpace, None
<1>3. Inserted(parent, space, state)
  BY Zenon, <1>2, InsertStep DEF IInv, TypeInv
<1>4. TypeInv'
  BY Zenon, <1>2, <1>3, CreationTypes DEF IInv
<1>5. SpaceInv'
  BY Zenon, <1>2, <1>3, CreationSpaces DEF IInv
<1>6. WaitInv' /\ WaiterHasChild'
  BY Zenon, <1>3, CreationWaits DEF IInv
<1> QED BY Zenon, <1>4, <1>5, <1>6 DEF IInv

(* The caller of a system call has a record.                               *)
LEMMA Caller ==
    ASSUME TypeInv, NEW s \in Slot, CanCall(s)
    PROVE  /\ table[s].state = "Live" /\ table[s] # Hole /\ table[s] \in Record
           /\ table[s].pid \in Pid /\ table[s].tgid \in Pid /\ table[s].pid < next_pid
           /\ \A c \in Cpu : act[c].step # "idle" => act[c].rec.pid # table[s].pid
<1>1. table[s].state = "Live" /\ Fields(table[s])
  BY Zenon, ActFields DEF CanCall, TypeInv
<1>2. table[s] # Hole /\ table[s] \in Record
  BY Zenon, <1>1 DEF Fields
<1>3. \A c \in Cpu : act[c].step # "idle" => act[c].rec.pid # table[s].pid
  BY Zenon DEF CanCall, Leaving
<1> QED BY Zenon, <1>1, <1>2, <1>3 DEF Record, TypeInv, KnownPids

LEMMA CreationInv ==
    ASSUME IInv, NEW s \in Slot,
           \/ fork(s) \/ create_thread(s) \/ spawn_user_from_image(s)
           \/ spawn_user_from_bootfs(s) \/ spawn_user_fails(s)
    PROVE  IInv'
<1>1. CanCall(s)
  BY Zenon DEF fork, create_thread, spawn_user_from_image, spawn_user_from_bootfs, spawn_user_fails,
     spawn_user
<1>2. table[s].pid \in Pid /\ table[s].tgid \in Pid /\ table[s].pid < next_pid
  BY Zenon, <1>1, Caller DEF IInv
<1>3. None < next_pid /\ (HasPid => next_pid \in Pid) /\ None \in Nat
  BY LifecycleAssumption DEF IInv, TypeInv, TypeOK, None, HasPid, Pid, SHELL_PID, INIT_PID
<1>4. NewSpace => spaces' \in Nat
  BY DEF NewSpace, IInv, TypeInv, TypeOK
<1>5. CASE fork(s)
  BY Zenon, <1>2, <1>3, <1>4, <1>5, Created DEF fork
<1>6. CASE create_thread(s)
  BY Zenon, <1>2, <1>3, <1>6, Created DEF create_thread
<1>7. CASE spawn_user_from_image(s)
  BY Zenon, <1>2, <1>3, <1>4, <1>7, Created DEF spawn_user_from_image, spawn_user
<1>8. CASE spawn_user_from_bootfs(s)
  BY Zenon, <1>3, <1>4, <1>8, Created DEF spawn_user_from_bootfs, spawn_user
<1>9. CASE spawn_user_fails(s)
  BY Zenon, <1>3, <1>4, <1>9, Created DEF spawn_user_fails
<1> QED BY Zenon, <1>5, <1>6, <1>7, <1>8, <1>9

-----------------------------------------------------------------------------
(* What most steps have in common.                                         *)

LEMMA Counters ==
    ASSUME TypeOK
    PROVE  /\ next_pid \in Nat /\ next_pid > 3 /\ spaces \in Nat /\ spaces <= MaxSpace
           /\ \A x \in destroyed : x \in Nat /\ x # None /\ x <= spaces
<1>1. next_pid \in SHELL_PID + 1 .. MaxPid + 1 /\ spaces \in 0 .. MaxSpace
  BY Zenon DEF TypeOK
<1>2. \A x \in destroyed : x \in 1 .. spaces
  BY Zenon DEF TypeOK
<1> QED BY <1>1, <1>2, Numbers DEF SHELL_PID, None

LEMMA Freed ==
    ASSUME TypeOK, NEW freed, freed \subseteq 0 .. spaces, Destroy(freed),
           spaces' \in Nat, spaces <= spaces'
    PROVE  destroyed' \subseteq 1 .. spaces'
<1> SUFFICES ASSUME NEW x \in destroyed' PROVE x \in 1 .. spaces'
  BY Zenon
<1>1. x \in destroyed \/ x \in freed \ {None}
  BY Zenon DEF Destroy
<1>2. CASE x \in destroyed
  BY <1>2, Counters DEF None
<1>3. CASE x \in freed /\ x # None
  <2>1. x \in 0 .. spaces
    BY <1>3, Zenon
  <2> QED BY <1>3, <2>1, Counters DEF None
<1> QED BY Zenon, <1>1, <1>2, <1>3

LEMMA IdleAct ==
    /\ Idle \in Acts /\ Idle.step = "idle" /\ Idle.rec = Hole /\ Idle.parent = None
    /\ Idle.casc = {} /\ Len(Idle.stack) = 0 /\ Len(Idle.stack) <= MAX_PROCESSES
  BY Numbers DEF Idle, Acts

LEMMA ResumeAct ==
    ASSUME NEW stack \in Seq(Slot), Len(stack) <= MAX_PROCESSES
    PROVE  LET a == Resume(stack)
           IN  /\ a \in Acts /\ Len(a.stack) <= MAX_PROCESSES
               /\ a.step \in {"idle", "reap"} /\ a.rec = Hole /\ a.casc = {}
               /\ a.step = "reap" => a.stack # <<>>
<1>1. CASE stack = <<>>
  BY Zenon, <1>1, IdleAct, Numbers DEF Resume
<1>2. CASE stack # <<>>
  BY <1>2, Numbers, Zenon DEF Resume, Idle, Acts
<1> QED BY Zenon, <1>1, <1>2

(* The locals of one CPU change.                                           *)
LEMMA OneAct ==
    ASSUME TypeOK, NEW c \in Cpu, NEW a \in Acts, Len(a.stack) <= MAX_PROCESSES,
           act' = [act EXCEPT ![c] = a]
    PROVE  /\ act' \in [Cpu -> Acts] /\ \A d \in Cpu : Len(act'[d].stack) <= MAX_PROCESSES
           /\ act'[c] = a /\ \A d \in Cpu \ {c} : act'[d] = act[d]
  BY Zenon DEF TypeOK

(* A pid stays unique when slots keep their pids or lose them.             *)
LEMMA StillUnique ==
    ASSUME TypeOK, table' \in Table, \A s \in Slot : table'[s].pid \in {table[s].pid, None}
    PROVE  \A s, t \in Slot : table'[s] # Hole /\ table'[s].pid = table'[t].pid => s = t
<1>1. (\A s \in Slot : Fields(table[s])) /\ (\A s \in Slot : Fields(table'[s]))
  BY Zenon, ActFields, TableFields
<1> QED BY <1>1 DEF TypeOK, Fields

(* What a waiter with a registration has, by WaiterHasChild.               *)
Expects(s) ==
    \/ \E k \in Slot : /\ table[k] # Hole /\ table[k].parent = table[s].pid
                        /\ table[s].wait \in {AnyChild, table[k].pid}
                        /\ table[k].state # "Zombie"
    \/ \E v \in vanished : v[2] = table[s].pid /\ table[s].wait \in {AnyChild, v[1]}

OnItsWay(s) ==
    \E c \in Cpu : act[c].step \in {"handoff", "wake"} /\ act[c].parent = table[s].pid

Covered(s) ==
    table[s].state = "Waiting" =>
        (table[s].wait = NotWaiting /\ OnItsWay(s)) \/ (table[s].wait # NotWaiting /\ Expects(s))

LEMMA Waiters ==
    /\ WaiterHasChild <=> (~mistaken => \A s \in Slot : Covered(s))
    /\ WaiterHasChild' <=> (~mistaken' => \A s \in Slot : Covered(s)')
<1>1. \A s \in Slot : Expects(s) <=>
        \/ \E k \in Matching(table[s].pid, table[s].wait) : table[k].state # "Zombie"
        \/ \E v \in vanished : v[2] = table[s].pid /\ table[s].wait \in {AnyChild, v[1]}
  BY Zenon DEF Expects, Matching
<1>2. \A s \in Slot : Expects(s)' <=>
        \/ \E k \in Matching(table[s].pid, table[s].wait)' : table'[k].state # "Zombie"
        \/ \E v \in vanished' : v[2] = table'[s].pid /\ table'[s].wait \in {AnyChild, v[1]}
  BY Zenon DEF Expects, Matching
<1>3. WaiterHasChild <=> (~mistaken => \A s \in Slot : Covered(s))
  BY <1>1, Zenon DEF WaiterHasChild, Covered, OnItsWay
<1>4. WaiterHasChild' <=> (~mistaken' => \A s \in Slot : Covered(s)')
  BY <1>2, Zenon DEF WaiterHasChild, Covered, OnItsWay
<1> QED BY Zenon, <1>3, <1>4

(* No space changes hands.                                                 *)
LEMMA SpacesKept ==
    ASSUME SpaceInv, UNCHANGED <<spaces, destroyed>>,
           \A s \in Slot : table'[s].space = table[s].space,
           \A c \in Cpu : \A x : Owns(c, x)' => Owns(c, x),
           \A c \in Cpu : act'[c].rec.space \notin act'[c].casc
    PROVE  SpaceInv'
<1>1. \A s, t \in Slot : table'[s].space # None /\ table'[s].space = table'[t].space => s = t
  BY Zenon DEF SpaceInv
<1>2. \A s \in Slot, c \in Cpu : (table[s].space # None => ~Owns(c, table[s].space))'
  <2>1. SUFFICES ASSUME NEW s \in Slot, NEW c \in Cpu, table'[s].space # None
                 PROVE  ~Owns(c, table[s].space)'
    BY Zenon
  <2>2. table'[s].space = table[s].space /\ ~Owns(c, table[s].space)
    BY <2>1, Zenon DEF SpaceInv
  <2> QED BY Zenon, <2>2 DEF Owns
<1>3. \A c, d \in Cpu : \A x \in 1 .. spaces' : Owns(c, x)' /\ Owns(d, x)' => c = d
  BY Zenon DEF SpaceInv
<1>4. \A s \in Slot : table'[s].space \notin destroyed'
  BY Zenon DEF SpaceInv
<1>5. \A c \in Cpu : \A x \in destroyed' : ~Owns(c, x)'
  BY Zenon DEF SpaceInv
<1> QED BY <1>1, <1>2, <1>3, <1>4, <1>5, Zenon DEF SpaceInv

(* Registrations taken by exiting children stay as they are.               *)
LEMMA CarriedKept ==
    ASSUME Carried,
           \A c \in Cpu : Carries(c)' => Carries(c) /\ act'[c].parent = act[c].parent,
           \A c \in Cpu, s \in Slot :
             Carries(c)' /\ table[s].pid = act[c].parent /\ table[s].state = "Waiting"
               /\ table[s].wait = NotWaiting =>
             table'[s].pid = table[s].pid /\ table'[s].state = "Waiting"
               /\ table'[s].wait = NotWaiting,
           \A c \in Cpu : Carries(c)' /\ act'[c].step = "handoff" =>
             /\ act[c].step = "handoff" /\ act'[c].slot = act[c].slot /\ act'[c].rec = act[c].rec
             /\ table'[act[c].slot].pid = table[act[c].slot].pid
             /\ table'[act[c].slot].state = table[act[c].slot].state
             /\ table'[act[c].slot].parent = table[act[c].slot].parent
    PROVE  Carried'
<1>1. ASSUME NEW c \in Cpu, Carries(c)'
      PROVE  \E s \in Slot : /\ table'[s].pid = act'[c].parent
                             /\ table'[s].state = "Waiting" /\ table'[s].wait = NotWaiting
  <2>1. PICK s \in Slot : /\ table[s].pid = act[c].parent
                          /\ table[s].state = "Waiting" /\ table[s].wait = NotWaiting
    BY Zenon, <1>1 DEF Carried
  <2> QED BY Zenon, <1>1, <2>1
<1>2. ASSUME NEW c \in Cpu, NEW d \in Cpu, Carries(c)', Carries(d)',
             act'[c].parent = act'[d].parent
      PROVE  c = d
  <2>1. Carries(c) /\ Carries(d) /\ act[c].parent = act[d].parent
    BY Zenon, <1>2
  <2> QED BY <2>1, Zenon DEF Carried
<1>3. ASSUME NEW c \in Cpu, Carries(c)', act'[c].step = "handoff"
      PROVE  LET z == table'[act'[c].slot]
             IN  z.pid = act'[c].rec.pid /\ z.state = "Zombie" /\ z.parent = act'[c].parent
  <2>1. /\ table[act[c].slot].pid = act[c].rec.pid /\ table[act[c].slot].state = "Zombie"
        /\ table[act[c].slot].parent = act[c].parent
    BY <1>3, Zenon DEF Carried
  <2> QED BY <1>3, <2>1
<1> QED BY <1>1, <1>2, <1>3, Zenon DEF Carried

(* WaitInv and WaiterHasChild look neither at spaces nor at the CPUs that  *)
(* carry no registration.                                                  *)
LEMMA WaitsKept ==
    ASSUME TypeInv, WaitInv, WaiterHasChild, table' \in Table,
           \A s \in Slot : Same(table'[s], table[s]),
           UNCHANGED <<delivered, vanished, mistaken, next_pid>>,
           \A c \in Cpu : \/ act'[c] = act[c]
                          \/ /\ ~Carries(c) /\ ~Carries(c)'
                             /\ act'[c].step = "reap" =>
                                  \/ act'[c].rec.pid = None
                                  \/ \E s \in Slot : /\ table'[s].pid = act'[c].rec.pid
                                                    /\ table'[s].state = "Live" /\ Deserted(s)'
    PROVE  WaitInv' /\ WaiterHasChild'
<1>1. (\A s \in Slot : Fields(table[s])) /\ (\A s \in Slot : Fields(table'[s]))
  BY Zenon, ActFields, TableFields DEF TypeInv
<1>2. \A s \in Slot : /\ table'[s].pid = table[s].pid /\ table'[s].parent = table[s].parent
                      /\ table'[s].state = table[s].state /\ table'[s].wait = table[s].wait
                      /\ table'[s].adopted = table[s].adopted
                      /\ table'[s] = Hole <=> table[s] = Hole
  BY Zenon, <1>1 DEF Same, Fields
<1> SUFFICES ASSUME ~mistaken
             PROVE  Registered' /\ Carried' /\ Departing' /\ Undelivered' /\ WaiterHasChild'
  BY Zenon DEF WaitInv, WaiterHasChild
<1>3. Registered /\ Carried /\ Departing /\ Undelivered
  BY Zenon DEF WaitInv
<1>4. \A c \in Cpu : Carries(c) <=> Carries(c)'
  BY Zenon DEF Carries
<1>5. \A c \in Cpu : Carries(c) => act'[c] = act[c]
  BY Zenon
<1>6. Registered'
  BY <1>2, <1>3 DEF Registered
<1>7. Carried'
  <2>1. \A c \in Cpu : act[c].slot \in Slot
    BY Zenon DEF TypeInv, TypeOK, Acts
  <2> QED BY <1>2, <1>3, <1>4, <1>5, <2>1 DEF Carried
<1>8. Departing'
  <2>1. \A s \in Slot : Deserted(s) => Deserted(s)'
    BY Zenon, <1>2 DEF Deserted
  <2>2. \A s, t \in Slot : table'[s] # Hole /\ table'[s].pid = table'[t].pid => s = t
    BY Zenon, <1>2, StillUnique DEF TypeInv
  <2>3. ASSUME NEW c \in Cpu, NEW s \in Slot, act'[c].step = "reap", table'[s] # Hole,
               table'[s].pid = act'[c].rec.pid
        PROVE  table'[s].state = "Live" /\ Deserted(s)'
    <3>1. CASE act'[c] = act[c]
      BY <1>2, <1>3, <2>1, <2>3, <3>1 DEF Departing
    <3>2. CASE act'[c] # act[c]
      <4>1. table'[s].pid # None
        BY Zenon, <1>1, <2>3 DEF Fields
      <4>2. PICK t \in Slot : /\ table'[t].pid = act'[c].rec.pid
                              /\ table'[t].state = "Live" /\ Deserted(t)'
        BY Zenon, <2>3, <3>2, <4>1
      <4> QED BY Zenon, <2>2, <2>3, <4>2
    <3> QED BY Zenon, <3>1, <3>2
  <2> QED BY Zenon, <2>3 DEF Departing
<1>9. Undelivered'
  BY Zenon, <1>2, <1>3 DEF Undelivered
<1>10. WaiterHasChild'
  <2>1. ASSUME NEW s \in Slot, table[s].state = "Waiting", table[s].wait = NotWaiting
        PROVE  \E c \in Cpu : act'[c].step \in {"handoff", "wake"} /\ act'[c].parent = table[s].pid
    <3>1. PICK c \in Cpu : act[c].step \in {"handoff", "wake"} /\ act[c].parent = table[s].pid
      BY Zenon, <2>1, Waiters DEF Covered, OnItsWay
    <3>2. table[s].pid # None
      BY Zenon, <1>1, <2>1 DEF Fields
    <3> QED BY Zenon, <1>5, <3>1, <3>2 DEF Carries
  <2>2. ASSUME NEW s \in Slot, table[s].state = "Waiting", table[s].wait # NotWaiting
        PROVE  Expects(s)'
    <3>1. Expects(s)
      BY Zenon, <2>2, Waiters DEF Covered
    <3> QED BY <1>2, <3>1 DEF Expects
  <2>3. \A s \in Slot : Covered(s)'
    BY <1>2, <2>1, <2>2 DEF Covered, OnItsWay
  <2> QED BY Zenon, <2>3, Waiters
<1> QED BY Zenon, <1>6, <1>7, <1>8, <1>9, <1>10

-----------------------------------------------------------------------------
(* exec and waitpid.                                                       *)

LEMMA ExecInv ==
    ASSUME IInv, NEW s \in Slot, exec_load(s)
    PROVE  IInv'
<1> USE DEF IInv, TypeInv
<1>1. (\A t \in Slot : Fields(table[t])) /\ (\A c \in Cpu : Fields(act[c].rec)) /\ table \in Table
  BY Zenon, ActFields
<1>2. table[s].state = "Live" /\ table[s] # Hole
  BY Zenon, Caller DEF exec_load
<1>3. spaces \in Nat /\ spaces' \in 0 .. MaxSpace /\ spaces' = spaces + 1
  BY SMTT(30), Numbers DEF exec_load, NewSpace, TypeOK
<1>4. table' = SetSpace(table, s, spaces')
  BY Zenon DEF exec_load, SetSpace
<1>5. /\ table' \in Table /\ \A t \in Slot : Same(table'[t], table[t])
      /\ table'[s].space = spaces' /\ \A t \in Slot \ {s} : table'[t] = table[t]
  BY <1>1, <1>2, <1>3, <1>4, SpaceSet
<1>6. UNCHANGED <<next_pid, act, delivered, ledger, vanished, mistaken>>
  BY Zenon DEF exec_load
<1>7. destroyed' = destroyed \cup {table[s].space} /\ table[s].space # None
  BY Zenon DEF exec_load, Destroy
<1>8. table[s].space \in 1 .. spaces /\ \A t \in Slot : table[t].space \in Nat /\
      table[t].space <= spaces
  BY <1>1, <1>3, <1>7 DEF KnownSpaces, Fields, None
<1>9. TypeOK'
  <2>1. \A t, u \in Slot : table'[t] # Hole /\ table'[t].pid = table'[u].pid => t = u
    BY Zenon, <1>5, StillUnique DEF Same
  <2>2. destroyed' \subseteq 1 .. spaces'
    BY <1>3, <1>8, Freed DEF exec_load
  <2>3. table' \in [Slot -> Record \cup {Hole}]
    BY Zenon, <1>5 DEF Table
  <2>4. /\ next_pid' \in SHELL_PID + 1 .. MaxPid + 1 /\ act' \in [Cpu -> Acts]
        /\ \A c \in Cpu : Len(act'[c].stack) <= MAX_PROCESSES
        /\ delivered' \in [Pid -> Nat] /\ ledger' \subseteq Pid
        /\ vanished' \subseteq Pid \X (Pid \cup {None}) /\ mistaken' \in BOOLEAN
    BY <1>6, Zenon DEF TypeOK
  <2> QED BY <1>3, <2>1, <2>2, <2>3, <2>4, Zenon DEF TypeOK
<1>10. KnownPids' /\ ActShape'
  BY Zenon, <1>5, <1>6 DEF KnownPids, ActShape, Same
<1>11. KnownSpaces'
  <2>1. ASSUME NEW t \in Slot PROVE table'[t].space <= spaces'
    <3>1. table'[t].space \in {table[t].space, spaces'}
      BY Zenon, <1>5
    <3> QED BY <1>3, <1>8, <3>1
  <2>2. ASSUME NEW c \in Cpu
        PROVE  act'[c].rec.space <= spaces' /\ act'[c].casc \subseteq 1 .. spaces'
    <3>1. /\ act[c].rec.space \in Nat /\ act[c].rec.space <= spaces
          /\ act[c].casc \subseteq 1 .. spaces
      <4>1. act[c].rec.space \in 0 .. MaxSpace
        BY <1>1, Zenon DEF Fields
      <4>2. act[c].rec.space <= spaces /\ act[c].casc \subseteq 1 .. spaces
        BY Zenon DEF KnownSpaces
      <4> QED BY <4>1, <4>2, Numbers
    <3> QED BY <1>3, <1>6, <3>1
  <2> QED BY <2>1, <2>2, Zenon DEF KnownSpaces
<1>12. SpaceInv'
  <2>1. \A c \in Cpu : \A x : Owns(c, x)' <=> Owns(c, x)
    BY Zenon, <1>6 DEF Owns
  <2>2. \A c \in Cpu : \A x : Owns(c, x) => x \in 0 .. spaces
    BY <1>1, <1>3 DEF KnownSpaces, Owns, Fields
  <2>3. \A c, d \in Cpu : \A x \in 1 .. spaces' : Owns(c, x) /\ Owns(d, x) => c = d
    BY <1>3, <2>2 DEF SpaceInv
  <2>4. \A t, u \in Slot : table'[t].space # None /\ table'[t].space = table'[u].space => t = u
    BY <1>3, <1>5, <1>8 DEF SpaceInv
  <2>5. \A t \in Slot, c \in Cpu : table'[t].space # None => ~Owns(c, table'[t].space)
    BY <1>3, <1>5, <2>2 DEF SpaceInv
  <2>6. \A t \in Slot : table'[t].space \notin destroyed'
    BY <1>3, <1>5, <1>7, <1>8 DEF SpaceInv, TypeOK
  <2>7. \A c \in Cpu : \A x \in destroyed' : ~Owns(c, x)
    BY Zenon, <1>7 DEF SpaceInv
  <2> QED BY <1>6, <2>1, <2>3, <2>4, <2>5, <2>6, <2>7, Zenon DEF SpaceInv
<1>13. WaitInv' /\ WaiterHasChild'
  BY Zenon, <1>5, <1>6, WaitsKept
<1> QED BY Zenon, <1>9, <1>10, <1>11, <1>12, <1>13

(* The first zombie in slot order is one of the caller's.                  *)
LEMMA CollectInv ==
    ASSUME IInv, NEW s \in Slot, NEW target, waitpid_collect(s, target)
    PROVE  IInv'
<1> USE DEF IInv, TypeInv
<1> DEFINE z == Min(ZombiesOf(table[s].pid, target))
<1>1. (\A t \in Slot : Fields(table[t])) /\ (\A c \in Cpu : Fields(act[c].rec)) /\ table \in Table
  BY Zenon, ActFields
<1>2. table[s].state = "Live" /\ table[s] # Hole
  BY Caller, Zenon DEF waitpid_collect
<1>3. z \in Slot /\ table[z] # Hole /\ table[z].parent = table[s].pid /\ table[z].state = "Zombie"
  <2>1. ZombiesOf(table[s].pid, target) \in SUBSET Slot /\ ZombiesOf(table[s].pid, target) # {}
    BY Zenon DEF waitpid_collect, ZombiesOf, Matching
  <2>2. z \in ZombiesOf(table[s].pid, target)
    BY <2>1, FirstSlot, Zenon
  <2> QED BY <2>2, Zenon DEF ZombiesOf, Matching
<1>4. /\ table' = [table EXCEPT ![z] = Hole]
      /\ delivered' = [delivered EXCEPT ![table[z].pid] = @ + 1]
      /\ destroyed' = destroyed \cup ({table[z].space} \ {None})
  BY Zenon DEF waitpid_collect, Destroy
<1>5. UNCHANGED <<next_pid, spaces, act, ledger, vanished, mistaken>>
  BY Zenon DEF waitpid_collect
<1> HIDE DEF z
<1>6. table' \in Table /\ table'[z] = Hole /\ \A t \in Slot \ {z} : table'[t] = table[t]
  BY Zenon, <1>1, <1>3, <1>4 DEF Table
<1>7. table[z].pid \in Pid /\ table[z].space \in Nat /\ table[z].space <= spaces /\ spaces \in Nat
  BY <1>1, <1>3, Numbers DEF Fields, KnownSpaces, TypeOK
<1>8. Fields(Hole) /\ \A t \in Slot : Fields(table'[t])
  BY Zenon, <1>3, <1>6, TableFields
<1>9. Hole.pid = None /\ Hole.space = None /\ Hole.parent = None /\ Hole.state = "Hole"
      /\ Hole.wait = NotWaiting /\ Hole.adopted = FALSE
  BY Zenon DEF Hole
<1>10. TypeOK'
  <2>1. \A t, u \in Slot : table'[t] # Hole /\ table'[t].pid = table'[u].pid => t = u
    BY Zenon, <1>6, <1>9, StillUnique
  <2>2. destroyed' \subseteq 1 .. spaces'
    BY <1>5, <1>7, Freed DEF waitpid_collect, z
  <2>3. table' \in [Slot -> Record \cup {Hole}]
    BY Zenon, <1>6 DEF Table
  <2>4. delivered' \in [Pid -> Nat]
    BY <1>4, <1>7 DEF TypeOK
  <2>5. /\ next_pid' \in SHELL_PID + 1 .. MaxPid + 1 /\ act' \in [Cpu -> Acts]
        /\ \A c \in Cpu : Len(act'[c].stack) <= MAX_PROCESSES
        /\ ledger' \subseteq Pid /\ spaces' \in 0 .. MaxSpace
        /\ vanished' \subseteq Pid \X (Pid \cup {None}) /\ mistaken' \in BOOLEAN
    BY <1>5, Zenon DEF TypeOK
  <2> QED BY <2>1, <2>2, <2>3, <2>4, <2>5, Zenon DEF TypeOK
<1>11. KnownPids' /\ KnownSpaces' /\ ActShape'
  <2>1. None < next_pid /\ None <= spaces
    BY <1>7 DEF TypeOK, None, SHELL_PID
  <2> QED BY Zenon, <1>5, <1>6, <1>9, <2>1 DEF KnownPids, KnownSpaces, ActShape
<1>12. SpaceInv'
  <2>1. \A c \in Cpu : \A x : Owns(c, x)' <=> Owns(c, x)
    BY Zenon, <1>5 DEF Owns
  <2>2. \A t, u \in Slot : table'[t].space # None /\ table'[t].space = table'[u].space => t = u
    BY <1>6, <1>9 DEF SpaceInv
  <2>3. \A t \in Slot, c \in Cpu : table'[t].space # None => ~Owns(c, table'[t].space)
    BY Zenon, <1>6, <1>9 DEF SpaceInv
  <2>4. \A t \in Slot : table'[t].space \notin destroyed'
    BY <1>3, <1>4, <1>6, <1>9 DEF SpaceInv, TypeOK, None
  <2>5. \A c \in Cpu : \A x \in destroyed' : ~Owns(c, x)
    BY Zenon, <1>3, <1>4 DEF SpaceInv
  <2> QED BY Zenon, <1>5, <2>1, <2>2, <2>3, <2>4, <2>5 DEF SpaceInv
<1>13. ASSUME ~mistaken
       PROVE  Registered' /\ Carried' /\ Departing' /\ Undelivered' /\ WaiterHasChild'
  <2>1. Registered /\ Carried /\ Departing /\ Undelivered
    BY Zenon, <1>13 DEF WaitInv
  <2>2. Registered'
    BY Zenon, <1>6, <1>9, <2>1 DEF Registered
  <2>3. Carried'
    <3>1. \A c \in Cpu : act[c].slot \in Slot
      BY Zenon DEF TypeOK, Acts
    <3>2. \A k \in Slot : table[k].pid = table[s].pid => k = s
      BY Zenon, <1>2 DEF TypeOK
    <3>3. \A c \in Cpu : Carries(c) /\ act[c].step = "handoff" => act[c].slot # z
      BY <1>2, <1>3, <2>1, <3>2 DEF Carried
    <3> QED BY <1>3, <1>5, <1>6, <2>1, <3>1, <3>3 DEF Carried, Carries
  <2>4. Departing'
    BY <1>5, <1>6, <1>9, <2>1 DEF Departing, Deserted
  <2>5. Undelivered'
    <3>1. \A t \in Slot \ {z} : table[t] # Hole => table[t].pid # table[z].pid
      BY Zenon, <1>3 DEF TypeOK
    <3>2. delivered[table[z].pid] = 0
      BY Zenon, <1>3, <2>1 DEF Undelivered
    <3>3. delivered'[table[z].pid] = 1 /\
          \A p \in Pid \ {table[z].pid} : delivered'[p] = delivered[p]
      BY <1>4, <1>7, <3>2 DEF TypeOK
    <3>4. table[z].pid < next_pid /\ next_pid \in Nat /\ table[z].pid \in Nat
      BY <1>3, <1>7, Counters, Numbers, Zenon DEF KnownPids
    <3>5. \A p \in Pid : delivered'[p] <= 1 /\ (p >= next_pid' => delivered'[p] = 0)
      BY SMTT(30), <1>5, <1>7, <2>1, <3>3, <3>4, Numbers DEF Undelivered
    <3>6. \A t \in Slot : table'[t] # Hole => delivered'[table'[t].pid] = 0
      BY <1>1, <1>6, <2>1, <3>1, <3>3 DEF Undelivered, Fields
    <3> QED BY Zenon, <3>5, <3>6 DEF Undelivered
  <2>6. WaiterHasChild'
    <3>1. ASSUME NEW t \in Slot, table'[t].state = "Waiting" PROVE Covered(t)'
      <4>1. table'[t] = table[t] /\ t # z
        BY Zenon, <1>6, <1>9, <3>1
      <4>2. Covered(t)
        BY Zenon, <1>13, Waiters
      <4>3. Expects(t) => Expects(t)'
        BY Zenon, <1>3, <1>5, <1>6, <4>1 DEF Expects
      <4>4. OnItsWay(t) => OnItsWay(t)'
        BY Zenon, <1>5, <4>1 DEF OnItsWay
      <4> QED BY Zenon, <4>1, <4>2, <4>3, <4>4 DEF Covered
    <3> QED BY Zenon, <3>1, Waiters DEF Covered
  <2> QED BY Zenon, <2>2, <2>3, <2>4, <2>5, <2>6
<1> QED BY <1>5, <1>10, <1>11, <1>12, <1>13, Zenon DEF WaitInv, WaiterHasChild

LEMMA BlockInv ==
    ASSUME IInv, NEW s \in Slot, NEW target \in Pid \cup {AnyChild}, waitpid_block(s, target)
    PROVE  IInv'
<1> USE DEF IInv, TypeInv
<1>1. (\A t \in Slot : Fields(table[t])) /\ (\A c \in Cpu : Fields(act[c].rec)) /\ table \in Table
  BY Zenon, ActFields
<1>2. /\ table[s].state = "Live" /\ table[s] # Hole /\ table[s] \in Record
      /\ table[s].pid # INIT_PID
      /\ \A c \in Cpu : act[c].step # "idle" => act[c].rec.pid # table[s].pid
  BY Zenon, Caller DEF waitpid_block
<1>3. UNCHANGED <<next_pid, spaces, destroyed, act, delivered, ledger, vanished, mistaken>>
  BY Zenon DEF waitpid_block
<1>4. table' = [table EXCEPT ![s].wait = target, ![s].state = "Waiting"]
  BY Zenon DEF waitpid_block
<1>5. /\ table' \in Table
      /\ table'[s].pid = table[s].pid /\ table'[s].parent = table[s].parent
      /\ table'[s].space = table[s].space /\ table'[s].adopted = table[s].adopted
      /\ table'[s].wait = target /\ table'[s].state = "Waiting"
      /\ \A t \in Slot \ {s} : table'[t] = table[t]
  BY Zenon, <1>1, <1>2, <1>4 DEF Table, Record
<1>6. \A t \in Slot : /\ table'[t].pid = table[t].pid /\ table'[t].parent = table[t].parent
                      /\ table'[t].space = table[t].space /\ table'[t].adopted = table[t].adopted
                      /\ (table'[t] = Hole <=> table[t] = Hole)
  <2>1. \A t \in Slot : Fields(table'[t])
    BY <1>5, TableFields, Zenon
  <2>2. table'[s] # Hole
    BY Zenon, <1>2, <1>5, <2>1 DEF Fields
  <2> QED BY Zenon, <1>2, <1>5, <2>2
<1>7. TypeOK'
  <2>1. \A t, u \in Slot : table'[t] # Hole /\ table'[t].pid = table'[u].pid => t = u
    BY Zenon, <1>5, <1>6, StillUnique
  <2>2. table' \in [Slot -> Record \cup {Hole}]
    BY Zenon, <1>5 DEF Table
  <2> QED BY <1>3, <2>1, <2>2, Zenon DEF TypeOK
<1>8. KnownPids' /\ KnownSpaces' /\ ActShape'
  BY Zenon, <1>3, <1>6 DEF KnownPids, KnownSpaces, ActShape
<1>9. SpaceInv'
  <2>1. \A c \in Cpu : \A x : Owns(c, x)' => Owns(c, x)
    BY Zenon, <1>3 DEF Owns
  <2>2. \A c \in Cpu : act'[c].rec.space \notin act'[c].casc
    BY Zenon, <1>3 DEF SpaceInv
  <2> QED BY <1>3, <1>6, <2>1, <2>2, SpacesKept, Zenon
<1>10. ASSUME ~mistaken
       PROVE  Registered' /\ Carried' /\ Departing' /\ Undelivered' /\ WaiterHasChild'
  <2>1. Registered /\ Carried /\ Departing /\ Undelivered
    BY Zenon, <1>10 DEF WaitInv
  <2>2. Registered'
    BY <1>2, <1>5, <2>1 DEF Registered
  <2>3. Carried'
    <3>1. \A c \in Cpu : act[c].slot \in Slot
      BY Zenon DEF TypeOK, Acts
    <3>2. \A c \in Cpu : Carries(c) => act[c].slot # s \/ act[c].step # "handoff"
      BY Zenon, <1>2, <2>1 DEF Carried
    <3>3. \A t \in Slot : table[t].state = "Waiting" => table'[t] = table[t]
      BY Zenon, <1>2, <1>5
    <3>4. \A c \in Cpu : act'[c] = act[c] /\ (Carries(c)' <=> Carries(c))
      BY Zenon, <1>3 DEF Carries
    <3>5. \A c \in Cpu : Carries(c)' /\ act'[c].step = "handoff" =>
            table'[act[c].slot] = table[act[c].slot]
      BY Zenon, <1>5, <3>1, <3>2, <3>4
    <3> QED BY <2>1, <3>3, <3>4, <3>5, CarriedKept, Zenon
  <2>4. Departing'
    <3>1. \A t \in Slot : Deserted(t) => Deserted(t)'
      BY <1>2, <1>3, <1>5, <1>6 DEF Deserted
    <3> QED BY <1>2, <1>3, <1>5, <1>6, <2>1, <3>1, ZenonT(30) DEF Departing
  <2>5. Undelivered'
    BY Zenon, <1>3, <1>6, <2>1 DEF Undelivered
  <2>6. WaiterHasChild'
    <3>1. \A t \in Slot : table[t].state # "Zombie" => table'[t].state # "Zombie"
      BY Zenon, <1>5
    <3>3. Expects(s)'
      <4>1. PICK k \in Matching(table[s].pid, target) : table[k].state # "Zombie"
        BY Zenon DEF waitpid_block, ZombiesOf
      <4>2. k \in Slot /\ table[k] # Hole /\ table[k].parent = table[s].pid
            /\ target \in {AnyChild, table[k].pid}
        BY Zenon, <4>1 DEF Matching
      <4> QED BY Zenon, <1>5, <1>6, <3>1, <4>1, <4>2 DEF Expects
    <3>4. table'[s].wait # NotWaiting
      BY SMTT(30), <1>5, Numbers DEF NotWaiting, AnyChild
    <3>5. ASSUME NEW t \in Slot \ {s}, table[t].state = "Waiting", table[t].wait # NotWaiting
          PROVE  Expects(t)'
      <4>1. Expects(t)
        BY Zenon, <1>10, <3>5, Waiters DEF Covered
      <4> QED BY <1>3, <1>5, <1>6, <3>1, <3>5, <4>1 DEF Expects
    <3>6. ASSUME NEW t \in Slot \ {s}, table[t].state = "Waiting", table[t].wait = NotWaiting
          PROVE  OnItsWay(t)'
      <4>1. OnItsWay(t)
        BY <1>10, <3>6, Waiters, Zenon DEF Covered
      <4> QED BY Zenon, <1>3, <1>5, <3>6, <4>1 DEF OnItsWay
    <3>7. \A t \in Slot : Covered(t)'
      BY Zenon, <1>5, <3>3, <3>4, <3>5, <3>6 DEF Covered
    <3> QED BY Zenon, <3>7, Waiters
  <2> QED BY Zenon, <2>2, <2>3, <2>4, <2>5, <2>6
<1> QED BY <1>3, <1>7, <1>8, <1>9, <1>10, Zenon DEF WaitInv, WaiterHasChild

(* wake: a process that sleeps after its registration was taken runs       *)
(* again, and no other CPU carries it.                                     *)
LEMMA WakeInv ==
    ASSUME IInv, NEW c \in Cpu, wake(c)
    PROVE  IInv'
<1> USE DEF IInv, TypeInv
<1>1. (\A t \in Slot : Fields(table[t])) /\ (\A d \in Cpu : Fields(act[d].rec)) /\ table \in Table
  BY Zenon, ActFields
<1>2. UNCHANGED <<next_pid, spaces, destroyed, delivered, ledger, vanished, mistaken>>
      /\ act[c].step = "wake"
  BY Zenon DEF wake
<1> DEFINE woken(t) == table[t] # Hole /\ table[t].pid = act[c].parent /\ table[t].state = "Waiting"
<1>3. \A t \in Slot : table'[t] = IF woken(t) THEN [table[t] EXCEPT !.state = "Live"] ELSE table[t]
  BY Zenon DEF wake
<1>4. \A t \in Slot : woken(t) =>
        /\ table'[t] \in Record /\ table'[t].state = "Live" /\ table'[t].wait = table[t].wait
        /\ table'[t].pid = table[t].pid /\ table'[t].parent = table[t].parent
        /\ table'[t].space = table[t].space /\ table'[t].adopted = table[t].adopted
  <2> SUFFICES ASSUME NEW t \in Slot, woken(t)
               PROVE  /\ table'[t] \in Record /\ table'[t].state = "Live"
                      /\ table'[t].wait = table[t].wait
                      /\ table'[t].pid = table[t].pid /\ table'[t].parent = table[t].parent
                      /\ table'[t].space = table[t].space /\ table'[t].adopted = table[t].adopted
    BY Zenon
  <2>1. table[t] \in Record /\ table'[t] = [table[t] EXCEPT !.state = "Live"]
    BY Zenon, <1>1, <1>3 DEF Fields
  <2> QED BY Zenon, <2>1 DEF Record
<1>5. \A t \in Slot : ~woken(t) => table'[t] = table[t]
  BY <1>3, Zenon
<1>6. table' \in Table /\ \A t \in Slot : Fields(table'[t])
  <2>1. \A t \in Slot : table'[t] \in Record \cup {Hole}
    BY Zenon, <1>1, <1>4, <1>5 DEF Table
  <2>2. table' = [t \in Slot |-> table'[t]]
    BY Zenon DEF wake
  <2> QED BY Zenon, <2>1, <2>2, TableFields DEF Table
<1>7. \A t \in Slot : /\ table'[t].pid = table[t].pid /\ table'[t].parent = table[t].parent
                      /\ table'[t].space = table[t].space /\ table'[t].adopted = table[t].adopted
                      /\ (table'[t] = Hole <=> table[t] = Hole)
  BY <1>1, <1>4, <1>5, <1>6, Zenon DEF Fields
<1>8. /\ act' \in [Cpu -> Acts] /\ \A d \in Cpu : Len(act'[d].stack) <= MAX_PROCESSES
      /\ act'[c] = Idle /\ \A d \in Cpu \ {c} : act'[d] = act[d]
  <2>1. act' = [act EXCEPT ![c] = Idle]
    BY Zenon DEF wake
  <2> QED BY <2>1, IdleAct, OneAct, Zenon
<1> HIDE DEF woken
<1>9. TypeOK'
  <2>1. \A t, u \in Slot : table'[t] # Hole /\ table'[t].pid = table'[u].pid => t = u
    <3>1. \A t \in Slot : table'[t].pid \in {table[t].pid, None}
      BY Zenon, <1>7
    <3> QED BY <1>6, <3>1, StillUnique, Zenon
  <2>2. table' \in [Slot -> Record \cup {Hole}]
    BY Zenon, <1>6 DEF Table
  <2> QED BY <1>2, <1>8, <2>1, <2>2, Zenon DEF TypeOK
<1>10. KnownPids' /\ KnownSpaces' /\ ActShape'
  <2>1. Hole.pid < next_pid /\ Hole.space <= spaces
    BY Counters DEF Hole, None
  <2> QED BY <1>2, <1>7, <1>8, <2>1, IdleAct, ZenonT(30) DEF KnownPids, KnownSpaces, ActShape
<1>11. SpaceInv'
  <2>1. \A d \in Cpu : \A x : Owns(d, x)' => Owns(d, x)
    BY Zenon, <1>8, IdleAct DEF Owns
  <2>2. \A d \in Cpu : act'[d].rec.space \notin act'[d].casc
    BY Zenon, <1>8, IdleAct DEF SpaceInv
  <2> QED BY Zenon, <1>2, <1>7, <2>1, <2>2, SpacesKept
<1>12. ASSUME ~mistaken
       PROVE  Registered' /\ Carried' /\ Departing' /\ Undelivered' /\ WaiterHasChild'
  <2>1. Registered /\ Carried /\ Departing /\ Undelivered
    BY Zenon, <1>12 DEF WaitInv
  <2>2. \A t \in Slot : woken(t) => /\ table[t].wait = NotWaiting
                                    /\ \A d \in Cpu : Carries(d) /\
                                        act[d].parent = table[t].pid => d = c
    <3>1. SUFFICES ASSUME NEW t \in Slot, woken(t)
                   PROVE  /\ table[t].wait = NotWaiting
                          /\ \A d \in Cpu : Carries(d) /\ act[d].parent = table[t].pid => d = c
      BY Zenon
    <3>2. Carries(c) /\ act[c].parent = table[t].pid
      BY Zenon, <1>1, <1>2, <3>1 DEF Carries, woken, Fields
    <3>3. \A k \in Slot : table[k].pid = table[t].pid => k = t
      BY Zenon, <3>1 DEF woken, TypeOK
    <3> QED BY Zenon, <2>1, <3>2, <3>3 DEF Carried
  <2>3. Registered'
    <3>1. ASSUME NEW t \in Slot
          PROVE  /\ table'[t].wait # NotWaiting => table'[t].state = "Waiting"
                 /\ table'[t].state = "Waiting" => table'[t].pid # INIT_PID
                 /\ table'[t].adopted => table'[t].parent = INIT_PID
      <4>1. CASE woken(t)
        BY <1>4, <2>1, <2>2, <4>1, ZenonT(30) DEF Registered
      <4>2. CASE ~woken(t)
        BY Zenon, <1>5, <2>1, <4>2 DEF Registered
      <4> QED BY Zenon, <4>1, <4>2
    <3> QED BY <3>1, Zenon DEF Registered
  <2>4. \A d \in Cpu : Carries(d)' => d # c /\ Carries(d)
    BY Zenon, <1>8, IdleAct DEF Carries
  <2>5. Carried'
    <3>1. \A d \in Cpu : act[d].slot \in Slot
      BY Zenon DEF TypeOK, Acts
    <3>2. \A t \in Slot : table[t].state = "Zombie" => ~woken(t)
      BY Zenon DEF woken
    <3>3. ASSUME NEW d \in Cpu, Carries(d)'
          PROVE  \E t \in Slot : /\ table'[t].pid = act'[d].parent
                                 /\ table'[t].state = "Waiting" /\ table'[t].wait = NotWaiting
      BY <1>5, <1>8, <2>1, <2>2, <2>4, <3>3 DEF Carried
    <3> QED BY <1>5, <1>8, <2>1, <2>4, <3>1, <3>2, <3>3 DEF Carried
  <2>6. Departing'
    <3>1. \A t \in Slot : table[t].state \in {"Live", "Zombie"} => ~woken(t)
      BY Zenon DEF woken
    <3>2. \A t \in Slot : Deserted(t) => Deserted(t)'
      BY <1>2, <1>5, <1>7, <3>1 DEF Deserted
    <3>3. ASSUME NEW d \in Cpu, NEW t \in Slot, act'[d].step = "reap", table'[t] # Hole,
                 table'[t].pid = act'[d].rec.pid
          PROVE  table'[t].state = "Live" /\ Deserted(t)'
      <4>1. act'[d] = act[d]
        BY Zenon, <1>8, <3>3, IdleAct
      <4>2. table[t].state = "Live" /\ Deserted(t)
        BY <1>7, <2>1, <3>3, <4>1 DEF Departing
      <4> QED BY Zenon, <1>5, <3>1, <3>2, <4>2
    <3> QED BY <3>3, Zenon DEF Departing
  <2>7. Undelivered'
    BY Zenon, <1>2, <1>7, <2>1 DEF Undelivered
  <2>8. WaiterHasChild'
    <3>1. \A t \in Slot : table[t].state # "Zombie" => table'[t].state # "Zombie"
      BY Zenon, <1>4, <1>5
    <3>2. \A t \in Slot : table'[t].state = "Waiting" => table'[t] = table[t]
      BY Zenon, <1>4, <1>5
    <3>3. ASSUME NEW t \in Slot, table'[t].state = "Waiting", table'[t].wait # NotWaiting
          PROVE  Expects(t)'
      <4>1. Expects(t)
        BY Zenon, <1>12, <3>2, <3>3, Waiters DEF Covered
      <4> QED BY SMTT(30), <1>2, <1>7, <3>1, <3>2, <3>3, <4>1 DEF Expects
    <3>4. ASSUME NEW t \in Slot, table'[t].state = "Waiting", table'[t].wait = NotWaiting
          PROVE  OnItsWay(t)'
      <4>1. PICK d \in Cpu : act[d].step \in {"handoff", "wake"} /\ act[d].parent = table[t].pid
        BY <1>12, <3>2, <3>4, Waiters, Zenon DEF Covered, OnItsWay
      <4>2. ~woken(t)
        BY Zenon, <1>4, <3>4
      <4>3. table[t] # Hole
        <5>1. table[t].state = "Waiting"
          BY Zenon, <3>2, <3>4
        <5> QED BY Zenon, <1>1, <5>1 DEF Fields
      <4>4. d # c
        BY Zenon, <3>2, <3>4, <4>1, <4>2, <4>3 DEF woken
      <4> QED BY Zenon, <1>8, <3>2, <3>4, <4>1, <4>4 DEF OnItsWay
    <3>5. \A t \in Slot : Covered(t)'
      BY <3>3, <3>4, Zenon DEF Covered
    <3> QED BY Zenon, <3>5, Waiters
  <2> QED BY Zenon, <2>3, <2>5, <2>6, <2>7, <2>8
<1> QED BY <1>2, <1>9, <1>10, <1>11, <1>12, Zenon DEF WaitInv, WaiterHasChild

-----------------------------------------------------------------------------
(* The end of an exit.                                                     *)

LEMMA WakeAct ==
    ASSUME NEW p \in Pid \cup {None}
    PROVE  LET a == [Idle EXCEPT !.step = "wake", !.parent = p]
           IN  /\ a \in Acts /\ a.step = "wake" /\ a.parent = p /\ a.rec = Hole
               /\ a.casc = {} /\ Len(a.stack) <= MAX_PROCESSES
<1> DEFINE a == [Idle EXCEPT !.step = "wake", !.parent = p]
<1>1. /\ a.step = "wake" /\ a.parent = p /\ a.rec = Hole /\ a.casc = {} /\ a.stack = <<>>
  BY Zenon DEF Idle
<1>2. a \in Acts
  BY IdleAct, Zenon DEF Acts
<1> QED BY <1>1, <1>2, Numbers

LEMMA HoleFields ==
    /\ Hole.pid = None /\ Hole.space = None /\ Hole.parent = None /\ Hole.state = "Hole"
    /\ Hole.wait = NotWaiting /\ Hole.adopted = FALSE
  BY Zenon DEF Hole

(* A CPU lets go of the space it was to destroy, and of nothing else.      *)
LEMMA SpacesFreed ==
    ASSUME TypeInv, SpaceInv, NEW c \in Cpu, table' \in Table, NEW freed,
           \A s \in Slot : table'[s].space \in {table[s].space, None},
           \A d \in Cpu \ {c} : act'[d] = act[d],
           act'[c].step \notin {"handoff", "release"}, act'[c].casc = {},
           Destroy(freed), \A x \in freed \ {None} : Owns(c, x), spaces' = spaces
    PROVE  SpaceInv'
<1>1. \A x : ~Owns(c, x)'
  BY Zenon DEF Owns
<1>2. \A d \in Cpu \ {c} : \A x : Owns(d, x)' <=> Owns(d, x)
  BY Zenon DEF Owns
<1>3. \A x \in destroyed' : x \in destroyed \/ (Owns(c, x) /\ x \in 1 .. spaces)
  <2>1. \A x : Owns(c, x) => x \in 0 .. spaces
    <3>1. Fields(act[c].rec) /\ spaces \in Nat
      BY Zenon, ActFields, Counters DEF TypeInv
    <3> QED BY <3>1 DEF Owns, TypeInv, KnownSpaces, Fields
  <2> QED BY SMTT(30), <2>1 DEF Destroy, None
<1>4. \A s, t \in Slot : table'[s].space # None /\ table'[s].space = table'[t].space => s = t
  BY Zenon DEF SpaceInv
<1>5. \A s \in Slot, d \in Cpu : (table[s].space # None => ~Owns(d, table[s].space))'
  <2>1. SUFFICES ASSUME NEW s \in Slot, NEW d \in Cpu \ {c}, table'[s].space # None
                 PROVE  ~Owns(d, table[s].space)'
    BY Zenon, <1>1
  <2>2. table'[s].space = table[s].space /\ ~Owns(d, table[s].space)
    BY <2>1, Zenon DEF SpaceInv
  <2> QED BY Zenon, <2>2 DEF Owns
<1>6. \A d, e \in Cpu : \A x \in 1 .. spaces' : Owns(d, x)' /\ Owns(e, x)' => d = e
  BY <1>1, <1>2 DEF SpaceInv
<1>7. \A d \in Cpu : act'[d].rec.space \notin act'[d].casc
  BY Zenon DEF SpaceInv
<1>8. \A s \in Slot : table'[s].space \notin destroyed'
  <2>1. None \notin destroyed'
    BY Zenon, Counters DEF TypeInv, Destroy
  <2> QED BY Zenon, <1>3, <2>1 DEF SpaceInv
<1>9. \A d \in Cpu : \A x \in destroyed' : ~Owns(d, x)'
  <2>1. \A d \in Cpu \ {c} : \A x \in destroyed' : ~Owns(d, x)
    BY <1>3, Zenon DEF SpaceInv
  <2> QED BY Zenon, <1>1, <1>2, <2>1
<1> QED BY <1>4, <1>5, <1>6, <1>7, <1>8, <1>9, Zenon DEF SpaceInv

LEMMA DeliverInv ==
    ASSUME IInv, NEW c \in Cpu, deliver(c)
    PROVE  IInv'
<1> USE DEF IInv, TypeInv
<1> DEFINE h == act[c].slot
<1> DEFINE rec == act[c].rec
<1> DEFINE p == act[c].parent
<1>1. (\A t \in Slot : Fields(table[t])) /\ (\A d \in Cpu : Fields(act[d].rec)) /\ table \in Table
  BY Zenon, ActFields
<1>2. act[c].step = "handoff" /\ UNCHANGED <<next_pid, spaces, vanished, mistaken>>
  BY Zenon DEF deliver
<1>3. rec # Hole /\ rec \in Record /\ rec.pid \in Pid /\ rec.pid < next_pid
  <2>1. rec # Hole /\ rec.pid < next_pid
    BY Zenon, <1>2 DEF ActShape, KnownPids
  <2> QED BY Zenon, <1>1, <2>1 DEF Fields
<1>4. \A d \in Cpu : act[d].slot \in Slot /\ act[d].parent \in Pid \cup {None}
  BY Zenon DEF TypeOK, Acts
<1>5. destroyed' \subseteq 1 .. spaces'
  <2>1. rec.space \in 0 .. spaces
    BY <1>1, Counters DEF Fields, KnownSpaces
  <2> QED BY SMTT(30), <1>2, <2>1, Counters, Freed DEF deliver
<1>6. ASSUME NEW a \in Acts, act' = [act EXCEPT ![c] = a], a.step \in {"idle", "wake"},
             a.rec = Hole, a.casc = {}, Len(a.stack) <= MAX_PROCESSES, table' \in Table,
             \A t \in Slot : table'[t] \in {table[t], Hole}, ledger' \subseteq Pid,
             delivered' \in [Pid -> Nat]
      PROVE  TypeInv' /\ SpaceInv'
  <2>1. /\ act' \in [Cpu -> Acts] /\ \A d \in Cpu : Len(act'[d].stack) <= MAX_PROCESSES
        /\ act'[c] = a /\ \A d \in Cpu \ {c} : act'[d] = act[d]
    BY <1>6, OneAct, Zenon
  <2>2. \A t, u \in Slot : table'[t] # Hole /\ table'[t].pid = table'[u].pid => t = u
    BY Zenon, <1>6, HoleFields, StillUnique
  <2>3. /\ next_pid' \in SHELL_PID + 1 .. MaxPid + 1 /\ spaces' \in 0 .. MaxSpace
        /\ vanished' \subseteq Pid \X (Pid \cup {None}) /\ mistaken' \in BOOLEAN
    BY <1>2, Zenon DEF TypeOK
  <2>4. TypeOK'
    BY <1>5, <1>6, <2>1, <2>2, <2>3, Zenon DEF TypeOK, Table
  <2>5. KnownPids' /\ KnownSpaces' /\ ActShape'
    <3>1. None < next_pid /\ None <= spaces
      BY Counters DEF None
    <3> QED BY <1>2, <1>6, <2>1, <3>1, HoleFields DEF KnownPids, KnownSpaces, ActShape
  <2>6. SpaceInv'
    <3>1. Destroy({rec.space}) /\ Owns(c, rec.space)
      BY Zenon, <1>2 DEF deliver, Owns
    <3>2. \A t \in Slot : table'[t].space \in {table[t].space, None}
      BY <1>6, HoleFields, Zenon
    <3>3. act'[c].step \notin {"handoff", "release"} /\ act'[c].casc = {}
      BY Zenon, <1>6, <2>1
    <3>4. \A x \in {rec.space} \ {None} : Owns(c, x)
      BY Zenon, <3>1
    <3> QED BY <1>2, <1>6, <2>1, <3>1, <3>2, <3>3, <3>4, SpacesFreed, Zenon
  <2> QED BY Zenon, <2>4, <2>5, <2>6
<1>7. CASE p = None
  <2>1. act' = [act EXCEPT ![c] = Idle] /\ UNCHANGED <<delivered, table, ledger>>
    BY Zenon, <1>7 DEF deliver
  <2>2. ledger' \subseteq Pid /\ delivered' \in [Pid -> Nat]
    BY <2>1, Zenon DEF TypeOK
  <2>3. TypeInv' /\ SpaceInv'
    BY <1>1, <1>6, <2>1, <2>2, IdleAct, Zenon
  <2>4. act'[c] = Idle /\ \A d \in Cpu \ {c} : act'[d] = act[d]
    BY Zenon, <2>1 DEF TypeOK
  <2>5. ~Carries(c) /\ ~Carries(c)'
    BY Zenon, <1>7, <2>4, IdleAct DEF Carries
  <2>6. \A t \in Slot : Same(table'[t], table[t])
    BY Zenon, <2>1 DEF Same
  <2>7. WaitInv' /\ WaiterHasChild'
    BY Zenon, <1>1, <1>2, <2>1, <2>4, <2>5, <2>6, IdleAct, WaitsKept
  <2> QED BY Zenon, <2>3, <2>7
<1>8. CASE p # None
  <2> DEFINE a == [Idle EXCEPT !.step = "wake", !.parent = p]
  <2>1. /\ delivered' = [delivered EXCEPT ![rec.pid] = @ + 1]
        /\ table' = [table EXCEPT ![h] = Hole]
        /\ ledger' = ledger \cup {rec.pid}
        /\ act' = [act EXCEPT ![c] = a]
    BY Zenon, <1>8 DEF deliver
  <2>2. /\ a \in Acts /\ a.step = "wake" /\ a.parent = p /\ a.rec = Hole
        /\ a.casc = {} /\ Len(a.stack) <= MAX_PROCESSES
    BY <1>4, WakeAct, Zenon
  <2> HIDE DEF a
  <2>3. table' \in Table /\ table'[h] = Hole /\ \A t \in Slot \ {h} : table'[t] = table[t]
    BY Zenon, <1>1, <1>4, <2>1 DEF Table
  <2>4. ledger' \subseteq Pid /\ delivered' \in [Pid -> Nat]
    BY <1>3, <2>1 DEF TypeOK
  <2>5. TypeInv' /\ SpaceInv'
    <3>1. \A t \in Slot : table'[t] \in {table[t], Hole}
      BY Zenon, <2>3
    <3> QED BY <1>6, <2>1, <2>2, <2>3, <2>4, <3>1, Zenon
  <2>6. act'[c] = a /\ \A d \in Cpu \ {c} : act'[d] = act[d]
    BY Zenon, <2>1 DEF TypeOK
  <2>7. ASSUME ~mistaken
        PROVE  Registered' /\ Carried' /\ Departing' /\ Undelivered' /\ WaiterHasChild'
    <3>1. Registered /\ Carried /\ Departing /\ Undelivered
      BY Zenon, <2>7 DEF WaitInv
    <3>2. Carries(c) /\ Carries(c)'
      BY Zenon, <1>2, <1>8, <2>2, <2>6 DEF Carries
    <3>3. table[h].pid = rec.pid /\ table[h].state = "Zombie" /\ table[h].parent = p /\
          table[h] # Hole
      BY Zenon, <1>2, <3>1, <3>2, HoleFields DEF Carried
    <3>4. Registered'
      BY Zenon, <2>3, <3>1, HoleFields DEF Registered
    <3>5. Carried'
      <4>1. \A d \in Cpu \ {c} : Carries(d)' <=> Carries(d)
        BY Zenon, <2>6 DEF Carries
      <4>2. \A d \in Cpu : Carries(d)' => Carries(d) /\ act'[d].parent = act[d].parent
        BY Zenon, <2>2, <2>6, <3>2, <4>1
      <4>3. \A t \in Slot : table[t].state = "Waiting" => table'[t] = table[t]
        BY Zenon, <2>3, <3>3
      <4>4. ASSUME NEW d \in Cpu, Carries(d)', act'[d].step = "handoff"
            PROVE  act'[d] = act[d] /\ act[d].slot # h
        <5>1. d # c /\ act'[d] = act[d] /\ Carries(d)
          BY Zenon, <2>2, <2>6, <4>2, <4>4
        <5>2. act[d].parent # p
          BY <3>1, <3>2, <5>1, Zenon DEF Carried
        <5>3. table[act[d].slot].parent = act[d].parent
          BY <3>1, <4>4, <5>1, Zenon DEF Carried
        <5> QED BY Zenon, <3>3, <5>1, <5>2, <5>3
      <4>5. \A d \in Cpu : Carries(d)' /\ act'[d].step = "handoff" =>
              act'[d] = act[d] /\ table'[act[d].slot] = table[act[d].slot]
        BY Zenon, <1>4, <2>3, <4>4
      <4> QED BY <3>1, <4>2, <4>3, <4>5, CarriedKept, Zenon
    <3>6. Departing'
      <4>1. \A t \in Slot \ {h} : Deserted(t) => Deserted(t)'
        BY <1>2, <1>4, <2>3, <3>3, HoleFields DEF Deserted
      <4> QED BY Zenon, <2>2, <2>3, <2>6, <3>1, <4>1 DEF Departing
    <3>7. Undelivered'
      <4>1. \A t \in Slot \ {h} : table[t] # Hole => table[t].pid # rec.pid
        BY Zenon, <1>4, <3>3 DEF TypeOK
      <4>2. delivered[rec.pid] = 0
        BY Zenon, <1>4, <3>1, <3>3 DEF Undelivered
      <4>3. delivered'[rec.pid] = 1 /\ \A q \in Pid \ {rec.pid} : delivered'[q] = delivered[q]
        BY SMTT(30), <1>3, <2>1, <4>2 DEF TypeOK
      <4>4. \A q \in Pid : delivered'[q] <= 1 /\ (q >= next_pid' => delivered'[q] = 0)
        BY <1>2, <1>3, <3>1, <4>3, Counters, Numbers DEF Undelivered
      <4>5. ASSUME NEW t \in Slot, table'[t] # Hole PROVE delivered'[table'[t].pid] = 0
        <5>1. t # h /\ table'[t] = table[t] /\ table[t].pid # rec.pid
          BY Zenon, <2>3, <4>1, <4>5
        <5>2. table[t].pid \in Pid
          BY <1>1, <4>5, <5>1, Zenon DEF Fields
        <5>3. delivered[table[t].pid] = 0
          BY Zenon, <3>1, <4>5, <5>1 DEF Undelivered
        <5> QED BY Zenon, <4>3, <5>1, <5>2, <5>3
      <4> QED BY Zenon, <4>4, <4>5 DEF Undelivered
    <3>8. WaiterHasChild'
      <4>1. ASSUME NEW t \in Slot, table'[t].state = "Waiting", table'[t].wait = NotWaiting
            PROVE  OnItsWay(t)'
        <5>1. table'[t] = table[t]
          BY Zenon, <2>3, <4>1, HoleFields
        <5>2. PICK d \in Cpu : act[d].step \in {"handoff", "wake"} /\ act[d].parent = table[t].pid
          BY Zenon, <2>7, <4>1, <5>1, Waiters DEF Covered, OnItsWay
        <5> QED BY <2>2, <2>6, <5>1, <5>2, Zenon DEF OnItsWay
      <4>2. ASSUME NEW t \in Slot, table'[t].state = "Waiting", table'[t].wait # NotWaiting
            PROVE  Expects(t)'
        <5>1. table'[t] = table[t]
          BY Zenon, <2>3, <4>2, HoleFields
        <5>2. Expects(t)
          BY Zenon, <2>7, <4>2, <5>1, Waiters DEF Covered
        <5> QED BY <1>2, <2>3, <3>3, <5>1, <5>2, Zenon DEF Expects
      <4>3. \A t \in Slot : Covered(t)'
        BY <4>1, <4>2, Zenon DEF Covered
      <4> QED BY Zenon, <4>3, Waiters
    <3> QED BY Zenon, <3>4, <3>5, <3>6, <3>7, <3>8
  <2> QED BY <1>2, <2>5, <2>7, Zenon DEF WaitInv, WaiterHasChild
<1> QED BY Zenon, <1>7, <1>8

-----------------------------------------------------------------------------
(* svc #2: the caller is on its way out and has vanished.                  *)
LEMMA VanishInv ==
    ASSUME IInv, NEW c \in Cpu, NEW s \in Slot, exit_current(c, s)
    PROVE  IInv'
<1> USE DEF IInv, TypeInv
<1> DEFINE a == [Idle EXCEPT !.step = "reap", !.rec = table[s], !.stack = <<s>>]
<1>1. (\A t \in Slot : Fields(table[t])) /\ (\A d \in Cpu : Fields(act[d].rec)) /\ table \in Table
  BY Zenon, ActFields
<1>2. /\ table[s].state = "Live" /\ table[s] # Hole /\ table[s] \in Record
      /\ table[s].pid \in Pid
  BY Zenon, Caller DEF exit_current
<1>3. /\ UNCHANGED <<table, next_pid, spaces, destroyed, delivered, ledger, mistaken>>
      /\ vanished' = vanished \cup {<<table[s].pid, table[s].parent>>}
      /\ act[c] = Idle /\ act' = [act EXCEPT ![c] = a]
  BY Zenon DEF exit_current
<1>4. /\ a \in Acts /\ a.step = "reap" /\ a.rec = table[s] /\ a.stack = <<s>> /\ a.casc = {}
      /\ Len(a.stack) <= MAX_PROCESSES /\ a.stack # <<>>
  <2>1. /\ a.step = "reap" /\ a.rec = table[s] /\ a.stack = <<s>> /\ a.casc = {}
    BY Zenon DEF Idle
  <2>2. a \in Acts
    <3>1. <<s>> \in Seq(Slot)
      OBVIOUS
    <3> QED BY <1>2, <3>1, Numbers, Zenon DEF Acts, Idle
  <2>3. Len(<<s>>) = 1 /\ <<s>> # <<>> /\ 1 <= MAX_PROCESSES
    BY LifecycleAssumption
  <2> QED BY Zenon, <2>1, <2>2, <2>3
<1> HIDE DEF a
<1>5. /\ act' \in [Cpu -> Acts] /\ \A d \in Cpu : Len(act'[d].stack) <= MAX_PROCESSES
      /\ act'[c] = a /\ \A d \in Cpu \ {c} : act'[d] = act[d]
  BY <1>3, <1>4, OneAct, Zenon
<1>6. TypeOK'
  <2>1. vanished' \subseteq Pid \X (Pid \cup {None})
    <3>1. table[s].parent \in Pid \cup {None}
      BY <1>1, Zenon DEF Fields
    <3>2. <<table[s].pid, table[s].parent>> \in Pid \X (Pid \cup {None})
      BY Zenon, <1>2, <3>1
    <3>3. vanished \subseteq Pid \X (Pid \cup {None})
      BY Zenon DEF TypeOK
    <3> QED BY <1>3, <3>2, <3>3, Zenon
  <2> QED BY <1>3, <1>5, <2>1, Zenon DEF TypeOK
<1>7. KnownPids' /\ KnownSpaces' /\ ActShape'
  BY <1>3, <1>4, <1>5, Zenon DEF KnownPids, KnownSpaces, ActShape
<1>8. SpaceInv'
  <2>1. Destroy({})
    BY Zenon, <1>3 DEF Destroy
  <2> QED BY Zenon, <1>1, <1>3, <1>4, <1>5, <2>1, SpacesFreed
<1>9. ASSUME ~mistaken
      PROVE  Registered' /\ Carried' /\ Departing' /\ Undelivered' /\ WaiterHasChild'
  <2>1. Registered /\ Carried /\ Departing /\ Undelivered
    BY Zenon, <1>9 DEF WaitInv
  <2>2. \A d \in Cpu : (Carries(d)' <=> Carries(d)) /\ (Carries(d) => act'[d] = act[d])
    BY Zenon, <1>3, <1>4, <1>5, IdleAct DEF Carries
  <2>3. Registered'
    BY Zenon, <1>3, <2>1 DEF Registered
  <2>4. Carried'
    BY Zenon, <1>3, <2>1, <2>2, CarriedKept
  <2>5. Departing'
    <3>1. \A t \in Slot : Deserted(t) => Deserted(t)'
      BY Zenon, <1>3 DEF Deserted
    <3>2. Deserted(s)'
      BY Zenon, <1>3 DEF Deserted
    <3>3. \A t \in Slot : table[t].pid = table[s].pid => t = s
      BY Zenon, <1>2 DEF TypeOK
    <3> QED BY SMTT(30), <1>2, <1>3, <1>4, <1>5, <2>1, <3>1, <3>2, <3>3 DEF Departing
  <2>6. Undelivered'
    BY Zenon, <1>3, <2>1 DEF Undelivered
  <2>7. WaiterHasChild'
    <3>1. ASSUME NEW t \in Slot, table[t].state = "Waiting", table[t].wait = NotWaiting
          PROVE  OnItsWay(t)'
      <4>1. PICK d \in Cpu : act[d].step \in {"handoff", "wake"} /\ act[d].parent = table[t].pid
        BY <1>9, <3>1, Waiters, Zenon DEF Covered, OnItsWay
      <4>2. d # c
        BY Zenon, <1>3, <4>1, IdleAct
      <4> QED BY Zenon, <1>3, <1>5, <4>1, <4>2 DEF OnItsWay
    <3>2. ASSUME NEW t \in Slot, table[t].state = "Waiting", table[t].wait # NotWaiting
          PROVE  Expects(t)'
      <4>1. Expects(t)
        BY <1>9, <3>2, Waiters, Zenon DEF Covered
      <4> QED BY Zenon, <1>3, <4>1 DEF Expects
    <3>3. \A t \in Slot : Covered(t)'
      BY <1>3, <3>1, <3>2, Zenon DEF Covered
    <3> QED BY Zenon, <3>3, Waiters
  <2> QED BY Zenon, <2>3, <2>4, <2>5, <2>6, <2>7
<1> QED BY Zenon, <1>3, <1>6, <1>7, <1>8, <1>9 DEF WaitInv, WaiterHasChild

-----------------------------------------------------------------------------
(* full_reap.                                                              *)

LEMMA Prefix ==
    ASSUME NEW q \in Seq(Slot), NEW n \in 0 .. Len(q)
    PROVE  SubSeq(q, 1, n) \in Seq(Slot) /\ Len(SubSeq(q, 1, n)) = n
  OBVIOUS

LEMMA Stack ==
    ASSUME TypeInv, NEW c \in Cpu, act[c].step = "reap"
    PROVE  /\ act[c].stack \in Seq(Slot) /\ Top(c) \in Slot
           /\ Popped(c) \in Seq(Slot) /\ Len(Popped(c)) <= MAX_PROCESSES
           /\ act[c].casc = {}
<1> DEFINE q == act[c].stack
<1>1. q \in Seq(Slot) /\ q # <<>> /\ Len(q) <= MAX_PROCESSES /\ act[c].casc = {}
  BY Zenon DEF TypeInv, TypeOK, Acts, ActShape
<1> HIDE DEF q
<1>2. Len(q) \in Nat /\ Len(q) > 0 /\ q[Len(q)] \in Slot
  BY <1>1
<1>3. SubSeq(q, 1, Len(q) - 1) \in Seq(Slot) /\ Len(SubSeq(q, 1, Len(q) - 1)) = Len(q) - 1
  <2>1. Len(q) - 1 \in 0 .. Len(q)
    BY <1>2
  <2> QED BY <1>1, <2>1, Prefix, Zenon
<1>4. Len(SubSeq(q, 1, Len(q) - 1)) <= MAX_PROCESSES
  BY <1>1, <1>2, <1>3, Numbers
<1> QED BY Zenon, <1>1, <1>2, <1>3, <1>4 DEF q, Top, Popped

LEMMA SkipInv ==
    ASSUME IInv, NEW c \in Cpu, reap_empty(c)
    PROVE  IInv'
<1> USE DEF IInv, TypeInv
<1> DEFINE a == Resume(Popped(c))
<1>1. /\ act[c].step = "reap" /\ act' = [act EXCEPT ![c] = a]
      /\ UNCHANGED <<table, next_pid, spaces, destroyed, delivered, ledger, vanished, mistaken>>
  BY Zenon DEF reap_empty
<1>2. /\ a \in Acts /\ Len(a.stack) <= MAX_PROCESSES /\ a.step \in {"idle", "reap"}
      /\ a.rec = Hole /\ a.casc = {} /\ (a.step = "reap" => a.stack # <<>>)
  BY Zenon, <1>1, Stack, ResumeAct
<1> HIDE DEF a
<1>3. /\ act' \in [Cpu -> Acts] /\ \A d \in Cpu : Len(act'[d].stack) <= MAX_PROCESSES
      /\ act'[c] = a /\ \A d \in Cpu \ {c} : act'[d] = act[d]
  BY <1>1, <1>2, OneAct, Zenon
<1>4. TypeOK'
  BY <1>1, <1>3, Zenon DEF TypeOK
<1>5. KnownPids' /\ KnownSpaces' /\ ActShape'
  <2>1. None < next_pid /\ None <= spaces
    BY Counters DEF None
  <2> QED BY Zenon, <1>1, <1>2, <1>3, <2>1, HoleFields DEF KnownPids, KnownSpaces, ActShape
<1>6. table' \in Table /\ \A t \in Slot : Same(table'[t], table[t])
  BY Zenon, <1>1, ActFields DEF Same
<1>7. SpaceInv'
  <2>1. Destroy({})
    BY Zenon, <1>1 DEF Destroy
  <2> QED BY Zenon, <1>1, <1>2, <1>3, <1>6, <2>1, SpacesFreed
<1>8. ~Carries(c) /\ ~Carries(c)'
  BY Zenon, <1>1, <1>2, <1>3 DEF Carries
<1>9. WaitInv' /\ WaiterHasChild'
  BY Zenon, <1>1, <1>2, <1>3, <1>6, <1>8, HoleFields, WaitsKept
<1> QED BY Zenon, <1>4, <1>5, <1>7, <1>9

(* The hooks have run: the space goes to a survivor or is destroyed.       *)
LEMMA ReleaseInv ==
    ASSUME IInv, NEW c \in Cpu, reap_release(c)
    PROVE  IInv'
<1> USE DEF IInv, TypeInv
<1> DEFINE rec == act[c].rec
<1> DEFINE a == Resume(act[c].stack)
<1> DEFINE left == untransferred(table, rec)
<1>1. (\A t \in Slot : Fields(table[t])) /\ (\A d \in Cpu : Fields(act[d].rec)) /\ table \in Table
  BY Zenon, ActFields
<1>2. /\ act[c].step = "release" /\ act' = [act EXCEPT ![c] = a] /\ ledger' = ledger \ {rec.pid}
      /\ UNCHANGED <<next_pid, spaces, delivered, vanished, mistaken>>
  BY Zenon DEF reap_release
<1>3. /\ table' = transfer_group_space(table, rec) /\ Destroy({left} \cup act[c].casc)
  BY Zenon DEF reap_release
<1>4. rec \in Record
  BY Zenon, <1>1, <1>2 DEF ActShape, Fields
<1>5. Transfer(table, rec, table', left)
  BY Zenon, <1>1, <1>3, <1>4, Transferred
<1> HIDE DEF left
<1>6. table' \in Table /\ (\A t \in Slot : Same(table'[t], table[t])) /\ left \in {None, rec.space}
  BY Zenon, <1>5 DEF Transfer
<1>7. /\ a \in Acts /\ Len(a.stack) <= MAX_PROCESSES /\ a.step \in {"idle", "reap"}
      /\ a.rec = Hole /\ a.casc = {} /\ (a.step = "reap" => a.stack # <<>>)
  <2>1. act[c].stack \in Seq(Slot) /\ Len(act[c].stack) <= MAX_PROCESSES
    BY Zenon DEF TypeOK, Acts
  <2> QED BY Zenon, <2>1, ResumeAct
<1> HIDE DEF a
<1>8. /\ act' \in [Cpu -> Acts] /\ \A d \in Cpu : Len(act'[d].stack) <= MAX_PROCESSES
      /\ act'[c] = a /\ \A d \in Cpu \ {c} : act'[d] = act[d]
  BY <1>2, <1>7, OneAct, Zenon
<1>9. rec.space \in 0 .. spaces /\ act[c].casc \subseteq 1 .. spaces /\ spaces \in Nat
  BY <1>1, Counters DEF Fields, KnownSpaces
<1>10. TypeOK'
  <2>1. \A t, u \in Slot : table'[t] # Hole /\ table'[t].pid = table'[u].pid => t = u
    BY Zenon, <1>6, StillUnique DEF Same
  <2>2. {left} \cup act[c].casc \subseteq 0 .. spaces
    BY <1>6, <1>9 DEF None
  <2>3. destroyed' \subseteq 1 .. spaces'
    BY <1>2, <1>3, <1>9, <2>2, Freed
  <2>4. table' \in [Slot -> Record \cup {Hole}]
    BY Zenon, <1>6 DEF Table
  <2>5. /\ next_pid' \in SHELL_PID + 1 .. MaxPid + 1 /\ spaces' \in 0 .. MaxSpace
        /\ delivered' \in [Pid -> Nat] /\ ledger' \subseteq Pid
        /\ vanished' \subseteq Pid \X (Pid \cup {None}) /\ mistaken' \in BOOLEAN
    BY <1>2, Zenon DEF TypeOK
  <2> QED BY <1>8, <2>1, <2>3, <2>4, <2>5, Zenon DEF TypeOK
<1>11. KnownPids' /\ KnownSpaces' /\ ActShape'
  <2>1. None < next_pid /\ None <= spaces
    BY Counters DEF None
  <2>2. \A t \in Slot : table'[t].space <= spaces
    BY Zenon, <1>5, <1>9 DEF Transfer, KnownSpaces
  <2> QED BY Zenon, <1>2, <1>6, <1>7, <1>8, <2>1, <2>2, HoleFields DEF KnownPids, KnownSpaces, ActShape,
      Same
<1>12. SpaceInv'
  <2>1. Owns(c, rec.space) /\ \A x \in act[c].casc : Owns(c, x)
    BY Zenon, <1>2 DEF Owns
  <2>2. CASE left = rec.space /\ table' = table
    <3>1. \A x \in ({left} \cup act[c].casc) \ {None} : Owns(c, x)
      BY Zenon, <2>1, <2>2
    <3> QED BY Zenon, <1>2, <1>3, <1>6, <1>7, <1>8, <2>2, <3>1, SpacesFreed
  <2>3. ASSUME left = None, rec.space # None, NEW h \in Slot, table[h].space = None,
               table'[h].space = rec.space, \A t \in Slot \ {h} : table'[t] = table[t]
        PROVE  SpaceInv'
    <3>1. \A x : ~Owns(c, x)'
      BY Zenon, <1>7, <1>8 DEF Owns
    <3>2. \A d \in Cpu \ {c} : \A x : Owns(d, x)' <=> Owns(d, x)
      BY Zenon, <1>8 DEF Owns
    <3>3. \A x \in destroyed' : x \in destroyed \/ x \in act[c].casc
      BY Zenon, <1>3, <2>3 DEF Destroy
    <3>4. \A t \in Slot : table[t].space # rec.space
      BY Zenon, <2>1, <2>3 DEF SpaceInv
    <3>5. \A t, u \in Slot : table'[t].space # None /\ table'[t].space = table'[u].space => t = u
      BY <2>3, <3>4 DEF SpaceInv
    <3>6. ASSUME NEW t \in Slot, NEW d \in Cpu, table'[t].space # None
          PROVE  ~Owns(d, table[t].space)'
      <4>1. rec.space \in 1 .. spaces
        BY <1>9, <2>3 DEF None
      <4>2. ASSUME d # c PROVE ~Owns(d, rec.space)
        BY Zenon, <2>1, <4>1, <4>2 DEF SpaceInv
      <4>3. ASSUME t # h, d # c PROVE ~Owns(d, table[t].space) /\ table'[t].space = table[t].space
        BY Zenon, <2>3, <3>6, <4>3 DEF SpaceInv
      <4> QED BY Zenon, <2>3, <3>1, <3>2, <4>2, <4>3
    <3>7. \A d, e \in Cpu : \A x \in 1 .. spaces' : Owns(d, x)' /\ Owns(e, x)' => d = e
      BY Zenon, <1>2, <3>1, <3>2 DEF SpaceInv
    <3>8. \A d \in Cpu : act'[d].rec.space \notin act'[d].casc
      BY Zenon, <1>7, <1>8 DEF SpaceInv
    <3>9. \A t \in Slot : table'[t].space \notin destroyed'
      <4>1. rec.space \notin destroyed /\ rec.space \notin act[c].casc
        BY Zenon, <2>1 DEF SpaceInv
      <4>2. \A t \in Slot : table[t].space \notin destroyed
        BY Zenon DEF SpaceInv
      <4>3. \A t \in Slot : table[t].space \notin act[c].casc
        BY <1>9, <2>1 DEF SpaceInv, None
      <4> QED BY Zenon, <2>3, <3>3, <4>1, <4>2, <4>3
    <3>10. \A d \in Cpu : \A x \in destroyed' : ~Owns(d, x)'
      <4>1. ASSUME NEW d \in Cpu \ {c}, NEW x \in destroyed' PROVE ~Owns(d, x)
        <5>1. CASE x \in destroyed
          BY Zenon, <5>1 DEF SpaceInv
        <5>2. CASE x \in act[c].casc
          BY Zenon, <1>9, <2>1, <5>2 DEF SpaceInv
        <5> QED BY Zenon, <3>3, <5>1, <5>2
      <4> QED BY Zenon, <3>1, <3>2, <4>1
    <3> QED BY Zenon, <3>5, <3>6, <3>7, <3>8, <3>9, <3>10 DEF SpaceInv
  <2> QED BY Zenon, <1>5, <2>2, <2>3 DEF Transfer
<1>13. ~Carries(c) /\ ~Carries(c)'
  BY Zenon, <1>2, <1>7, <1>8 DEF Carries
<1>14. WaitInv' /\ WaiterHasChild'
  BY Zenon, <1>2, <1>6, <1>7, <1>8, <1>13, HoleFields, WaitsKept
<1> QED BY Zenon, <1>10, <1>11, <1>12, <1>14
=============================================================================
