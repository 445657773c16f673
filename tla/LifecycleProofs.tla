-------------------------- MODULE LifecycleProofs ---------------------------
(***************************************************************************)
(* Theorems about Lifecycle, for every number of CPUs, slots, pids and     *)
(* address spaces: its safety invariants. An exit with a status and the    *)
(* reaping of a record preserve the inductive invariant; with              *)
(* LifecycleInvariant these are all the steps.                             *)
(***************************************************************************)
EXTENDS LifecycleInvariant, FiniteSetTheorems

-----------------------------------------------------------------------------
(* full_reap and exit.                                                     *)

(* The table after the first critical section of a turn that found s.      *)
Dying(s) == [table EXCEPT ![s] = Hole]
Reaped(s) == adopt_and_cascade(Dying(s), table[s].pid)
Corpses(s) == {k \in Slot \ {s} : table[k].parent = table[s].pid /\ table[k].state = "Zombie"}
Orphans(s) ==
    {k \in Slot \ {s} : table[k] # Hole /\ table[k].parent = table[s].pid /\
        table[k].state # "Zombie"}

LEMMA ReapedTable ==
    ASSUME TypeOK, NEW s \in Slot, table[s] # Hole
    PROVE  /\ Reaped(s) \in Table /\ Reaped(s)[s] = Hole
           /\ \A k \in Corpses(s) : Reaped(s)[k] = Hole
           /\ \A k \in Orphans(s) :
                /\ Reaped(s)[k].pid = table[k].pid /\ Reaped(s)[k].parent = INIT_PID
                /\ Reaped(s)[k].space = table[k].space /\ Reaped(s)[k].state = table[k].state
                /\ Reaped(s)[k].wait = table[k].wait /\ Reaped(s)[k].adopted
                /\ Reaped(s)[k] # Hole
           /\ \A k \in Slot \ ({s} \cup Corpses(s) \cup Orphans(s)) : Reaped(s)[k] = table[k]
           /\ {k \in Slot : Dying(s)[k] # Hole /\ Reaped(s)[k] = Hole} = Corpses(s)
           /\ \A k \in Corpses(s) : Dying(s)[k] = table[k]
<1>1. (\A t \in Slot : Fields(table[t])) /\ table \in Table
  BY Zenon, ActFields
<1>2. Dying(s)[s] = Hole /\ \A k \in Slot \ {s} : Dying(s)[k] = table[k]
  BY Zenon, <1>1 DEF Dying, Table
<1>3. table[s].pid # None
  BY Zenon, <1>1 DEF Fields
<1> DEFINE new == Reaped(s)
<1>4. \A k \in Slot : new[k] =
        CASE Dying(s)[k] # Hole /\ Dying(s)[k].parent = table[s].pid /\
             Dying(s)[k].state = "Zombie" -> Hole
          [] Dying(s)[k] # Hole /\ Dying(s)[k].parent = table[s].pid /\
              Dying(s)[k].state # "Zombie" ->
               [Dying(s)[k] EXCEPT !.parent = INIT_PID, !.adopted = TRUE]
          [] OTHER -> Dying(s)[k]
  BY Zenon DEF Reaped, adopt_and_cascade
<1>5. new = [k \in Slot |-> new[k]]
  BY Zenon DEF Reaped, adopt_and_cascade
<1> HIDE DEF new
<1>6. new[s] = Hole
  BY <1>2, <1>4, Zenon
<1>7. \A k \in Corpses(s) : new[k] = Hole /\ table[k] # Hole
  BY <1>1, <1>2, <1>3, <1>4, Zenon DEF Corpses, Fields
<1>8. ASSUME NEW k \in Orphans(s)
      PROVE  /\ new[k] \in Record /\ new[k].pid = table[k].pid /\ new[k].parent = INIT_PID
             /\ new[k].space = table[k].space /\ new[k].state = table[k].state
             /\ new[k].wait = table[k].wait /\ new[k].adopted
  <2>0. /\ k \in Slot /\ table[k] \in Record /\ Dying(s)[k] = table[k] /\ table[k] # Hole
        /\ table[k].parent = table[s].pid /\ table[k].state # "Zombie"
    BY Zenon, <1>1, <1>2 DEF Orphans, Fields
  <2>1. new[k] = [table[k] EXCEPT !.parent = INIT_PID, !.adopted = TRUE]
    BY <1>4, <2>0, Zenon
  <2>2. INIT_PID \in Pid
    BY Zenon, Numbers DEF INIT_PID
  <2> QED BY <2>0, <2>1, <2>2, Zenon DEF Record
<1>9. \A k \in Slot \ ({s} \cup Corpses(s) \cup Orphans(s)) : new[k] = table[k]
  BY <1>1, <1>2, <1>4, Zenon DEF Corpses, Orphans, Fields
<1>10. \A k \in Slot : new[k] \in Record \cup {Hole}
  BY <1>1, <1>6, <1>7, <1>8, <1>9 DEF Table
<1>11. new \in Table
  BY Zenon, <1>5, <1>10 DEF Table
<1>12. \A k \in Orphans(s) : new[k] # Hole
  BY Zenon, <1>8, RecordFields DEF Fields
<1>13. {k \in Slot : Dying(s)[k] # Hole /\ new[k] = Hole} = Corpses(s)
  <2>1. \A k \in Slot : Dying(s)[k] # Hole /\ new[k] = Hole => k \in Corpses(s)
    BY Zenon, <1>2, <1>9, <1>12
  <2>2. \A k \in Corpses(s) : k \in Slot /\ Dying(s)[k] # Hole
    BY Zenon, <1>2, <1>7 DEF Corpses
  <2> QED BY Zenon, <1>7, <2>1, <2>2
<1>14. \A k \in Corpses(s) : Dying(s)[k] = table[k]
  BY Zenon, <1>2 DEF Corpses
<1> QED BY <1>6, <1>7, <1>8, <1>9, <1>11, <1>12, <1>13, <1>14 DEF new

LEMMA CappedStack ==
    ASSUME NEW q \in Seq(Slot)
    PROVE  Capped(q) \in Seq(Slot) /\ Len(Capped(q)) <= MAX_PROCESSES
<1>1. Len(q) \in Nat /\ MAX_PROCESSES \in Nat
  BY Numbers
<1> DEFINE m == Min({Len(q), MAX_PROCESSES})
<1>2. m \in {Len(q), MAX_PROCESSES} /\ \A y \in {Len(q), MAX_PROCESSES} : m <= y
  <2>1. \E x \in {Len(q), MAX_PROCESSES} : \A y \in {Len(q), MAX_PROCESSES} : x <= y
    BY <1>1
  <2> QED BY Zenon, <2>1 DEF Min
<1> HIDE DEF m
<1>3. m \in 0 .. Len(q) /\ m <= MAX_PROCESSES
  BY <1>1, <1>2
<1>4. SubSeq(q, 1, m) \in Seq(Slot) /\ Len(SubSeq(q, 1, m)) = m
  BY <1>3, Prefix, Zenon
<1> QED BY <1>3, <1>4, Zenon DEF Capped, m

LEMMA PushedStack ==
    ASSUME NEW q \in Seq(Slot), NEW S \in SUBSET Slot, NEW pushed \in InSlotOrder(S)
    PROVE  Capped(q \o pushed) \in Seq(Slot) /\ Len(Capped(q \o pushed)) <= MAX_PROCESSES
<1>1. IsFiniteSet(Slot)
  <2>1. 0 \in Int /\ MAX_PROCESSES - 1 \in Int
    BY Numbers
  <2> QED BY <2>1, FS_Interval, Zenon DEF Slot
<1>2. Cardinality(S) \in Nat
  <2>1. IsFiniteSet(S)
    BY <1>1, FS_Subset, Zenon
  <2> QED BY <2>1, FS_CardinalityType, Zenon
<1>3. pushed \in [1 .. Cardinality(S) -> Slot]
  BY Zenon DEF InSlotOrder
<1>4. pushed \in Seq(Slot)
  BY <1>2, <1>3
<1>5. q \o pushed \in Seq(Slot)
  BY <1>4
<1> QED BY <1>5, CappedStack, Zenon

(* A turn removes the record it meant, or is mistaken; either way the      *)
(* spaces of the records it removes are its own to release.                *)
LEMMA TakeInv ==
    ASSUME IInv, NEW c \in Cpu, reap_take(c)
    PROVE  IInv'
<1> USE DEF IInv, TypeInv
<1> DEFINE s == Top(c)
<1> DEFINE rec == table[s]
<1> DEFINE left == {table[k].space : k \in Corpses(s)} \ {None}
<1>1. (\A t \in Slot : Fields(table[t])) /\ (\A d \in Cpu : Fields(act[d].rec)) /\ table \in Table
  BY Zenon, ActFields
<1>2. /\ act[c].step = "reap" /\ rec # Hole /\ mistaken' = (mistaken \/ rec.pid # act[c].rec.pid)
      /\ UNCHANGED <<next_pid, spaces, destroyed, delivered, vanished>>
      /\ table' = Reaped(s)
  BY Zenon DEF reap_take, Reaped, Dying
<1>3. s \in Slot /\ Popped(c) \in Seq(Slot) /\ act[c].casc = {}
  BY Zenon, <1>2, Stack
<1>4. /\ table' \in Table /\ table'[s] = Hole
      /\ \A k \in Corpses(s) : table'[k] = Hole
      /\ \A k \in Orphans(s) :
           /\ table'[k].pid = table[k].pid /\ table'[k].parent = INIT_PID
           /\ table'[k].space = table[k].space /\ table'[k].state = table[k].state
           /\ table'[k].wait = table[k].wait /\ table'[k].adopted /\ table'[k] # Hole
      /\ \A k \in Slot \ ({s} \cup Corpses(s) \cup Orphans(s)) : table'[k] = table[k]
      /\ {k \in Slot : Dying(s)[k] # Hole /\ table'[k] = Hole} = Corpses(s)
      /\ \A k \in Corpses(s) : Dying(s)[k] = table[k]
  BY <1>2, <1>3, ReapedTable
<1> DEFINE gone == {k \in Slot : Dying(s)[k] # Hole /\ Reaped(s)[k] = Hole}
<1>5. /\ ledger' = ledger \cup {rec.pid} \cup {Dying(s)[k].pid : k \in gone}
      /\ \E pushed \in InSlotOrder(gone) :
           act' = [act EXCEPT ![c] =
             [Idle EXCEPT !.step = "release", !.rec = rec, !.stack = Capped(Popped(c) \o pushed),
                          !.casc = {Dying(s)[k].space : k \in gone} \ {None}]]
  BY Zenon DEF reap_take, Reaped, Dying
<1>6. gone = Corpses(s)
  BY Zenon, <1>2, <1>4
<1> HIDE DEF gone
<1>7. PICK pushed \in InSlotOrder(Corpses(s)) :
        act' = [act EXCEPT ![c] =
          [Idle EXCEPT !.step = "release", !.rec = rec, !.stack = Capped(Popped(c) \o pushed),
                       !.casc = {Dying(s)[k].space : k \in Corpses(s)} \ {None}]]
  BY <1>5, <1>6, Zenon
<1> DEFINE a == [Idle EXCEPT !.step = "release", !.rec = rec, !.stack = Capped(Popped(c) \o pushed),
                             !.casc = left]
<1>8. act' = [act EXCEPT ![c] = a]
  <2>1. {Dying(s)[k].space : k \in Corpses(s)} = {table[k].space : k \in Corpses(s)}
    BY <1>4
  <2> QED BY <1>7, <2>1, Zenon
<1>9. Corpses(s) \in SUBSET Slot
  BY Zenon DEF Corpses
<1>10. rec \in Record /\ rec.pid \in Pid /\ rec.pid # None
  BY Zenon, <1>1, <1>2, <1>3 DEF Fields
<1>11. \A x \in left : x \in 1 .. spaces /\ x <= MaxSpace
  <2>1. SUFFICES ASSUME NEW k \in Corpses(s), table[k].space # None
                 PROVE  table[k].space \in 1 .. spaces /\ table[k].space <= MaxSpace
    BY Zenon
  <2>2. table[k].space \in Nat /\ table[k].space <= spaces
    BY <1>1, <1>9 DEF Fields, KnownSpaces
  <2> QED BY <2>1, <2>2, Counters, Numbers DEF None
<1> HIDE DEF s, left
<1>12. /\ a \in Acts /\ a.step = "release" /\ a.rec = rec /\ a.casc = left
       /\ Len(a.stack) <= MAX_PROCESSES
  <2>1. Capped(Popped(c) \o pushed) \in Seq(Slot) /\
        Len(Capped(Popped(c) \o pushed)) <= MAX_PROCESSES
    BY Zenon, <1>3, <1>9, PushedStack
  <2>2. left \in SUBSET (1 .. MaxSpace)
    BY <1>11, Counters, Numbers
  <2>3. a.step = "release" /\ a.rec = rec /\ a.casc = left /\ a.stack = Capped(Popped(c) \o pushed)
    BY Zenon DEF Idle
  <2>4. a \in Acts
    BY <1>10, <2>1, <2>2, Numbers, Zenon DEF Acts, Idle
  <2> QED BY Zenon, <2>1, <2>3, <2>4
<1> HIDE DEF a
<1>13. /\ act' \in [Cpu -> Acts] /\ \A d \in Cpu : Len(act'[d].stack) <= MAX_PROCESSES
       /\ act'[c] = a /\ \A d \in Cpu \ {c} : act'[d] = act[d]
  BY <1>8, <1>12, OneAct, Zenon
<1>14. \A t \in Slot : \/ table'[t] = Hole
                       \/ /\ t \notin {s} \cup Corpses(s) /\ table[t] # Hole
                          /\ table'[t].pid = table[t].pid /\ table'[t].state = table[t].state
                          /\ table'[t].wait = table[t].wait /\ table'[t].space = table[t].space
                          /\ table'[t].parent \in {table[t].parent, INIT_PID}
                          /\ table[t].adopted => table'[t].adopted
  BY Zenon, <1>4 DEF Orphans
<1>15. TypeOK'
  <2>1. \A t, u \in Slot : table'[t] # Hole /\ table'[t].pid = table'[u].pid => t = u
    BY Zenon, <1>4, <1>14, HoleFields, StillUnique
  <2>2. table' \in [Slot -> Record \cup {Hole}]
    BY Zenon, <1>4 DEF Table
  <2>3. ledger' \subseteq Pid
    <3>1. \A k \in Corpses(s) : Dying(s)[k].pid \in Pid
      BY Zenon, <1>1, <1>4, <1>9 DEF Fields, Corpses
    <3> QED BY <1>5, <1>10, <1>6, <3>1 DEF TypeOK
  <2>4. /\ next_pid' \in SHELL_PID + 1 .. MaxPid + 1 /\ spaces' \in 0 .. MaxSpace
        /\ destroyed' \subseteq 1 .. spaces' /\ delivered' \in [Pid -> Nat]
        /\ vanished' \subseteq Pid \X (Pid \cup {None}) /\ mistaken' \in BOOLEAN
    BY <1>2, Zenon DEF TypeOK
  <2> QED BY <1>13, <2>1, <2>2, <2>3, <2>4, Zenon DEF TypeOK
<1>16. KnownPids' /\ KnownSpaces' /\ ActShape'
  <2>1. None < next_pid /\ None <= spaces /\ INIT_PID < next_pid
    BY Counters DEF None, INIT_PID
  <2>2. rec.pid < next_pid /\ rec.space <= spaces /\ left \subseteq 1 .. spaces
    BY Zenon, <1>3, <1>11 DEF KnownPids, KnownSpaces
  <2>3. \A t \in Slot : /\ table'[t].pid < next_pid /\ table'[t].parent < next_pid
                        /\ table'[t].space <= spaces
    BY <1>14, <2>1, HoleFields DEF KnownPids, KnownSpaces
  <2> QED BY <1>2, <1>12, <1>13, <1>10, <2>2, <2>3, Zenon DEF KnownPids, KnownSpaces, ActShape
<1>17. SpaceInv'
  <2>1. \A x : Owns(c, x)' <=> x = rec.space \/ x \in left
    BY Zenon, <1>12, <1>13 DEF Owns
  <2>2. \A d \in Cpu \ {c} : \A x : Owns(d, x)' <=> Owns(d, x)
    BY Zenon, <1>13 DEF Owns
  <2>3. \A x \in left : x # None /\ \E k \in Corpses(s) : x = table[k].space
    BY Zenon DEF left
  <2>4. \A x : x # None /\ (x = rec.space \/ x \in left) =>
          \E k \in {s} \cup Corpses(s) : x = table[k].space
    BY Zenon, <2>3
  <2>5. ASSUME NEW t \in Slot, table'[t].space # None
        PROVE  /\ table'[t].space = table[t].space /\ t \notin {s} \cup Corpses(s)
               /\ table[t].space # rec.space /\ table[t].space \notin left
    <3>1. table'[t].space = table[t].space /\ t \notin {s} \cup Corpses(s)
      BY Zenon, <1>14, <2>5, HoleFields
    <3> QED BY <1>3, <1>9, <2>4, <2>5, <3>1 DEF SpaceInv
  <2>6. \A t, u \in Slot : table'[t].space # None /\ table'[t].space = table'[u].space => t = u
    BY Zenon, <2>5 DEF SpaceInv
  <2>7. ASSUME NEW t \in Slot, NEW d \in Cpu, table'[t].space # None
        PROVE  ~Owns(d, table[t].space)'
    <3>1. CASE d = c
      BY Zenon, <2>1, <2>5, <2>7, <3>1
    <3>2. CASE d # c
      <4>1. ~Owns(d, table[t].space) /\ table'[t].space = table[t].space
        BY Zenon, <2>5, <2>7 DEF SpaceInv
      <4> QED BY Zenon, <2>2, <3>2, <4>1
    <3> QED BY Zenon, <3>1, <3>2
  <2>8. \A x \in 1 .. spaces, d \in Cpu : x = rec.space \/ x \in left => ~Owns(d, x)
    <3>1. \A x \in 1 .. spaces : x # None
      BY DEF None
    <3> QED BY <1>3, <1>9, <2>4, <3>1 DEF SpaceInv
  <2>9. \A d, e \in Cpu : \A x \in 1 .. spaces' : Owns(d, x)' /\ Owns(e, x)' => d = e
    BY Zenon, <1>2, <2>1, <2>2, <2>8 DEF SpaceInv
  <2>10. \A d \in Cpu : act'[d].rec.space \notin act'[d].casc
    <3>1. rec.space \notin left
      <4>1. ASSUME rec.space \in left PROVE FALSE
        <5>1. PICK k \in Corpses(s) : rec.space = table[k].space /\ rec.space # None
          BY Zenon, <2>3, <4>1
        <5> QED BY Zenon, <1>3, <5>1 DEF SpaceInv, Corpses
      <4> QED BY Zenon, <4>1
    <3> QED BY Zenon, <1>12, <1>13, <3>1 DEF SpaceInv
  <2>11. \A t \in Slot : table'[t].space \notin destroyed'
    <3>1. None \notin destroyed
      BY Zenon, Counters
    <3> QED BY Zenon, <1>2, <2>5, <3>1 DEF SpaceInv
  <2>12. \A d \in Cpu : \A x \in destroyed' : ~Owns(d, x)'
    <3>1. \A x \in destroyed : x # None
      BY Zenon, Counters
    <3>2. \A x \in destroyed : ~(x = rec.space \/ x \in left)
      BY <1>3, <1>9, <2>4, <3>1 DEF SpaceInv
    <3> QED BY Zenon, <1>2, <2>1, <2>2, <3>2 DEF SpaceInv
  <2> QED BY Zenon, <2>6, <2>7, <2>9, <2>10, <2>11, <2>12 DEF SpaceInv
<1>18. ASSUME ~mistaken'
       PROVE  Registered' /\ Carried' /\ Departing' /\ Undelivered' /\ WaiterHasChild'
  <2>1. ~mistaken /\ rec.pid = act[c].rec.pid
    BY <1>2, <1>18, Zenon
  <2>2. Registered /\ Carried /\ Departing /\ Undelivered
    BY Zenon, <2>1 DEF WaitInv
  <2>3. rec.state = "Live" /\ Deserted(s)
    BY Zenon, <1>2, <1>3, <2>1, <2>2 DEF Departing
  <2>4. \A t \in Slot : table[t].pid = rec.pid => t = s
    BY Zenon, <1>2, <1>3 DEF TypeOK
  <2>5. \A d \in Cpu : (Carries(d)' <=> Carries(d)) /\ (Carries(d) => d # c /\ act'[d] = act[d])
    BY Zenon, <1>2, <1>12, <1>13 DEF Carries
  <2>6. \A t \in Slot : table[t].state = "Waiting" =>
          /\ table'[t].pid = table[t].pid /\ table'[t].state = "Waiting"
          /\ table'[t].wait = table[t].wait
    <3>1. \A t \in Slot : table[t].state = "Waiting" => t \notin {s} \cup Corpses(s) /\
             table[t] # Hole
      BY Zenon, <2>3, HoleFields DEF Corpses
    <3> QED BY Zenon, <1>4, <3>1
  <2>7. Registered'
    BY SMTT(30), <1>4, <1>14, <2>2, HoleFields DEF Registered
  <2>8. Carried'
    <3>1. \A d \in Cpu : act[d].slot \in Slot
      BY Zenon DEF TypeOK, Acts
    <3>2. ASSUME NEW d \in Cpu, Carries(d), act[d].step = "handoff"
          PROVE  table'[act[d].slot] = table[act[d].slot]
      <4>1. act[d].parent # rec.pid
        BY Zenon, <2>2, <2>3, <2>4, <3>2 DEF Carried
      <4>2. table[act[d].slot].state = "Zombie" /\ table[act[d].slot].parent # rec.pid
        BY Zenon, <2>2, <3>2, <4>1 DEF Carried
      <4>3. act[d].slot \in Slot \ ({s} \cup Corpses(s) \cup Orphans(s))
        BY Zenon, <2>3, <3>1, <4>2 DEF Corpses, Orphans
      <4> QED BY Zenon, <1>4, <4>3
    <3>3. ASSUME NEW d \in Cpu, Carries(d)
          PROVE  \E t \in Slot : /\ table'[t].pid = act[d].parent
                                 /\ table'[t].state = "Waiting" /\ table'[t].wait = NotWaiting
      BY <2>2, <2>6, <3>3 DEF Carried
    <3> QED BY <2>2, <2>5, <3>2, <3>3 DEF Carried
  <2>9. Departing'
    <3>1. SUFFICES ASSUME NEW d \in Cpu, NEW t \in Slot, act'[d].step = "reap", table'[t] # Hole,
                          table'[t].pid = act'[d].rec.pid
                   PROVE  table'[t].state = "Live" /\ Deserted(t)'
      BY Zenon DEF Departing
    <3>2. d # c /\ act'[d] = act[d]
      BY Zenon, <1>12, <1>13, <3>1
    <3>3. /\ table[t] # Hole /\ table'[t].pid = table[t].pid /\ table'[t].state = table[t].state
          /\ t \notin {s} \cup Corpses(s)
      BY Zenon, <1>14, <3>1
    <3>4. table[t].state = "Live" /\ Deserted(t)
      BY Zenon, <2>2, <3>1, <3>2, <3>3 DEF Departing
    <3>5. CASE t \in Orphans(s)
      BY Zenon, <1>4, <3>3, <3>4, <3>5 DEF Deserted
    <3>6. CASE t \notin Orphans(s)
      <4>1. table'[t] = table[t]
        BY Zenon, <1>4, <3>3, <3>6
      <4>2. \A k \in Slot : table'[k].pid = table[t].parent /\ table[t].parent # None =>
              table[k].pid = table[t].parent /\ table'[k].state = table[k].state
        BY Zenon, <1>14, HoleFields
      <4> QED BY Zenon, <1>2, <3>4, <4>1, <4>2 DEF Deserted
    <3> QED BY Zenon, <3>3, <3>4, <3>5, <3>6
  <2>10. Undelivered'
    BY Zenon, <1>2, <1>14, <2>2 DEF Undelivered
  <2>11. WaiterHasChild'
    <3>1. \A t \in Slot : table'[t].state = "Waiting" =>
            /\ table[t].state = "Waiting" /\ t # s /\ table[t] # Hole
            /\ table'[t].pid = table[t].pid /\ table'[t].wait = table[t].wait
      BY Zenon, <1>14, HoleFields
    <3>2. ASSUME NEW t \in Slot, table'[t].state = "Waiting", table'[t].wait = NotWaiting
          PROVE  \E d \in Cpu : act'[d].step \in {"handoff", "wake"} /\
                 act'[d].parent = table'[t].pid
      <4>1. PICK d \in Cpu : act[d].step \in {"handoff", "wake"} /\ act[d].parent = table[t].pid
        BY Zenon, <2>1, <3>1, <3>2 DEF WaiterHasChild
      <4> QED BY SMTT(30), <1>2, <1>13, <3>1, <3>2, <4>1
    <3>3. ASSUME NEW t \in Slot, table'[t].state = "Waiting", table'[t].wait # NotWaiting
          PROVE  Expects(t)'
      <4>1. Expects(t)
        BY Zenon, <2>1, <3>1, <3>3 DEF WaiterHasChild, Expects, Matching
      <4>2. CASE \E v \in vanished : v[2] = table[t].pid /\ table[t].wait \in {AnyChild, v[1]}
        BY Zenon, <1>2, <3>1, <3>3, <4>2 DEF Expects
      <4>3. ASSUME NEW k \in Slot, table[k] # Hole, table[k].parent = table[t].pid,
                   table[t].wait \in {AnyChild, table[k].pid}, table[k].state # "Zombie"
            PROVE  Expects(t)'
        <5>1. table[t].pid # rec.pid
          BY Zenon, <2>4, <3>1, <3>3
        <5>2. CASE k # s
          <6>1. k \in Slot \ ({s} \cup Corpses(s) \cup Orphans(s))
            BY Zenon, <4>3, <5>1, <5>2 DEF Corpses, Orphans
          <6>2. table'[k] = table[k]
            BY Zenon, <1>4, <6>1
          <6> QED BY Zenon, <3>1, <3>3, <4>3, <6>2 DEF Expects
        <5>3. CASE k = s
          <6>1. table[t].pid # None /\ table[t].pid # INIT_PID
            BY <1>1, <2>2, <3>1, <3>3, Zenon DEF Fields, Registered
          <6>2. ~rec.adopted
            BY SMTT(30), <1>3, <2>2, <4>3, <5>3, <6>1 DEF Registered
          <6>3. <<rec.pid, rec.parent>> \in vanished
            BY SMTT(30), <2>3, <3>1, <3>3, <4>3, <5>3, <6>1, <6>2 DEF Deserted
          <6>4. <<rec.pid, rec.parent>>[1] = rec.pid /\ <<rec.pid, rec.parent>>[2] = table[t].pid
            BY Zenon, <4>3, <5>3
          <6> QED BY <1>2, <3>1, <3>3, <4>3, <5>3, <6>3, <6>4, Zenon DEF Expects
        <5> QED BY Zenon, <5>2, <5>3
      <4> QED BY Zenon, <4>1, <4>2, <4>3 DEF Expects
    <3> QED BY <3>2, <3>3, Zenon DEF WaiterHasChild, Expects, Matching
  <2> QED BY Zenon, <2>7, <2>8, <2>9, <2>10, <2>11
<1> QED BY Zenon, <1>15, <1>16, <1>17, <1>18 DEF WaitInv, WaiterHasChild

-----------------------------------------------------------------------------
(* The critical section of exit.                                           *)

(* An exit that nobody will wait for: the record stays, the space may      *)
(* already have gone to a survivor.                                        *)
LEMMA ExitReapInv ==
    ASSUME IInv, NEW c \in Cpu, NEW s \in Slot, exit_current_with_status(c, s),
           ~BecomesZombie(table[s])
    PROVE  IInv'
<1> USE DEF IInv, TypeInv
<1> DEFINE rec == table[s]
<1> DEFINE left == untransferred(table, rec)
<1> DEFINE moved == transfer_group_space(table, rec)
<1> DEFINE kept == [rec EXCEPT !.space = None]
<1> DEFINE a == [Idle EXCEPT !.step = "reap", !.rec = kept, !.stack = <<s>>]
<1>1. (\A t \in Slot : Fields(table[t])) /\ (\A d \in Cpu : Fields(act[d].rec)) /\ table \in Table
  BY Zenon, ActFields
<1>2. rec.state = "Live" /\ rec # Hole /\ rec \in Record /\ rec.pid \in Pid
  BY Zenon, Caller DEF exit_current_with_status
<1>3. /\ UNCHANGED <<next_pid, spaces, destroyed, delivered, ledger, vanished, mistaken>>
      /\ act[c] = Idle
  BY Zenon DEF exit_current_with_status
<1>4. table' = [moved EXCEPT ![s] = kept] /\ act' = [act EXCEPT ![c] = a]
  BY Zenon DEF exit_current_with_status, exit_reap
<1>5. Transfer(table, rec, moved, left)
  BY Zenon, <1>1, <1>2, Transferred
<1> HIDE DEF left, moved
<1>6. left \in {None, rec.space} /\ moved \in Table
  BY Zenon, <1>5 DEF Transfer
<1>7. /\ kept \in Record /\ kept.pid = rec.pid /\ kept.space = None
      /\ Same(kept, rec)
  <2>1. None \in 0 .. MaxSpace
    BY Numbers DEF None
  <2> QED BY Zenon, <1>2, <2>1 DEF Record, Same
<1> HIDE DEF kept
<1>8. table' \in Table /\ table'[s] = kept /\ \A t \in Slot \ {s} : table'[t] = moved[t]
  BY Zenon, <1>4, <1>6, <1>7 DEF Table
<1>9. \A t \in Slot : Same(table'[t], table[t])
  BY Zenon, <1>5, <1>7, <1>8 DEF Transfer
<1>10. /\ a \in Acts /\ a.step = "reap" /\ a.rec = kept /\ a.stack = <<s>> /\ a.casc = {}
       /\ Len(a.stack) <= MAX_PROCESSES /\ a.stack # <<>>
  <2>1. /\ a.step = "reap" /\ a.rec = kept /\ a.stack = <<s>> /\ a.casc = {}
    BY Zenon DEF Idle
  <2>2. a \in Acts
    <3>1. <<s>> \in Seq(Slot)
      OBVIOUS
    <3> QED BY <1>7, <3>1, Numbers, Zenon DEF Acts, Idle
  <2>3. Len(<<s>>) = 1 /\ <<s>> # <<>> /\ 1 <= MAX_PROCESSES
    BY LifecycleAssumption
  <2> QED BY Zenon, <2>1, <2>2, <2>3
<1> HIDE DEF a
<1>11. /\ act' \in [Cpu -> Acts] /\ \A d \in Cpu : Len(act'[d].stack) <= MAX_PROCESSES
       /\ act'[c] = a /\ \A d \in Cpu \ {c} : act'[d] = act[d]
  BY <1>4, <1>10, OneAct, Zenon
<1>12. rec.space <= spaces /\ None <= spaces
  BY Counters DEF KnownSpaces, None
<1>13. TypeOK'
  <2>1. \A t, u \in Slot : table'[t] # Hole /\ table'[t].pid = table'[u].pid => t = u
    BY Zenon, <1>8, <1>9, StillUnique DEF Same
  <2>2. table' \in [Slot -> Record \cup {Hole}]
    BY Zenon, <1>8 DEF Table
  <2> QED BY <1>3, <1>11, <2>1, <2>2, Zenon DEF TypeOK
<1>14. KnownPids' /\ KnownSpaces' /\ ActShape'
  <2>1. \A t \in Slot : table'[t].space <= spaces
    BY Zenon, <1>5, <1>6, <1>7, <1>8, <1>12 DEF KnownSpaces, Transfer
  <2>2. kept.space <= spaces /\ kept.pid < next_pid
    BY Zenon, <1>6, <1>7, <1>12 DEF KnownPids
  <2> QED BY <1>3, <1>9, <1>10, <1>11, <2>1, <2>2, ZenonT(30) DEF KnownPids, KnownSpaces, ActShape, Same
<1>15. SpaceInv'
  <2>1. \A d \in Cpu : \A x : Owns(d, x)' <=> Owns(d, x)
    BY Zenon, <1>3, <1>10, <1>11, IdleAct DEF Owns
  <2>2. \A d \in Cpu : act'[d].rec.space \notin act'[d].casc
    BY Zenon, <1>10, <1>11 DEF SpaceInv
  <2>3. CASE left = rec.space /\ moved = table
    <3>1. \A t \in Slot : table'[t].space \in {None, table[t].space}
      BY Zenon, <1>7, <1>8, <2>3
    <3>2. None \notin destroyed
      BY Zenon, Counters
    <3> QED BY Zenon, <1>3, <2>1, <2>2, <3>1, <3>2 DEF SpaceInv
  <2>4. ASSUME left = None, rec.space # None, NEW h \in Slot, table[h].pid # rec.pid,
               table[h].space = None, moved[h].space = rec.space,
               \A t \in Slot \ {h} : moved[t] = table[t]
        PROVE  SpaceInv'
    <3>1. /\ h # s /\ table'[s].space = None /\ table'[h].space = rec.space
          /\ \A t \in Slot \ {h, s} : table'[t].space = table[t].space
      BY Zenon, <1>7, <1>8, <2>4
    <3>2. \A t, u \in Slot : table'[t].space # None /\ table'[t].space = table'[u].space => t = u
      BY <3>1 DEF SpaceInv
    <3>3. \A t \in Slot : table'[t].space # None => \E u \in Slot : table'[t].space = table[u].space
      BY Zenon, <3>1
    <3>4. ASSUME NEW t \in Slot, NEW d \in Cpu, table'[t].space # None
          PROVE  ~Owns(d, table[t].space)'
      <4>1. PICK u \in Slot : table'[t].space = table[u].space
        BY Zenon, <3>3, <3>4
      <4>2. ~Owns(d, table[u].space)
        BY Zenon, <3>4, <4>1 DEF SpaceInv
      <4> QED BY Zenon, <2>1, <4>1, <4>2
    <3>5. \A t \in Slot : table'[t].space \notin destroyed
      <4>1. None \notin destroyed
        BY Zenon, Counters
      <4> QED BY Zenon, <3>3, <4>1 DEF SpaceInv
    <3> QED BY <1>3, <2>1, <2>2, <3>2, <3>4, <3>5, Zenon DEF SpaceInv
  <2> QED BY Zenon, <1>5, <2>3, <2>4 DEF Transfer
<1>16. WaitInv' /\ WaiterHasChild'
  <2>1. ~Carries(c) /\ ~Carries(c)'
    BY Zenon, <1>3, <1>10, <1>11, IdleAct DEF Carries
  <2>2. table'[s].pid = act'[c].rec.pid /\ table'[s].state = "Live"
    BY <1>2, <1>7, <1>8, <1>10, <1>11, Zenon DEF Same
  <2>3. Deserted(s)'
    <3>1. Deserted(s)
      <4>1. rec.adopted \/ rec.parent = None \/ ~ParentAlive(rec)
        BY Zenon DEF BecomesZombie
      <4>2. ASSUME rec.parent # None, ~ParentAlive(rec), NEW k \in Slot, table[k].pid = rec.parent
            PROVE  table[k].state = "Zombie"
        BY <1>1, <4>2, Zenon DEF ParentAlive, SlotsOf, Fields
      <4> QED BY Zenon, <4>1, <4>2 DEF Deserted
    <3> QED BY Zenon, <1>3, <1>9, <3>1 DEF Deserted, Same
  <2> QED BY <1>3, <1>8, <1>9, <1>11, <2>1, <2>2, <2>3, WaitsKept, Zenon
<1> QED BY Zenon, <1>13, <1>14, <1>15, <1>16

(* What exit_zombie does to the table: s becomes a zombie without a space, *)
(* its space goes to a survivor or stays with the CPU, and the             *)
(* registration that is hit is cleared.                                    *)
Corpse(s) == [table EXCEPT ![s].state = "Zombie", ![s].space = None]
Cleared(tbl, k) == [tbl EXCEPT ![k].wait = NotWaiting]

LEMMA CorpseTable ==
    ASSUME TypeOK, NEW s \in Slot, table[s] # Hole
    PROVE  /\ Corpse(s) \in Table
           /\ Corpse(s)[s].pid = table[s].pid /\ Corpse(s)[s].parent = table[s].parent
           /\ Corpse(s)[s].adopted = table[s].adopted /\ Corpse(s)[s].wait = table[s].wait
           /\ Corpse(s)[s].state = "Zombie" /\ Corpse(s)[s].space = None
           /\ \A t \in Slot \ {s} : Corpse(s)[t] = table[t]
<1>1. table \in Table /\ table[s] \in Record
  BY Zenon, ActFields DEF Fields
<1>2. None \in 0 .. MaxSpace
  BY Numbers DEF None
<1> QED BY <1>1, <1>2, Zenon DEF Corpse, Table, Record

LEMMA ClearedTable ==
    ASSUME NEW tbl \in Table, NEW k \in Slot, tbl[k] # Hole
    PROVE  /\ Cleared(tbl, k) \in Table
           /\ Cleared(tbl, k)[k].pid = tbl[k].pid /\ Cleared(tbl, k)[k].parent = tbl[k].parent
           /\ Cleared(tbl, k)[k].adopted = tbl[k].adopted /\ Cleared(tbl, k)[k].wait = NotWaiting
           /\ Cleared(tbl, k)[k].state = tbl[k].state /\ Cleared(tbl, k)[k].space = tbl[k].space
           /\ \A t \in Slot \ {k} : Cleared(tbl, k)[t] = tbl[t]
<1>1. tbl[k] \in Record
  BY Zenon DEF Table
<1> QED BY Zenon, <1>1 DEF Cleared, Table, Record

LEMMA ExitZombieInv ==
    ASSUME IInv, NEW c \in Cpu, NEW s \in Slot, exit_current_with_status(c, s),
           BecomesZombie(table[s])
    PROVE  IInv'
<1> USE DEF IInv, TypeInv
<1> DEFINE rec == table[s]
<1> DEFINE pv == Min(SlotsOf(table, rec.parent))
<1> DEFINE hit == wait_wake_decision(table[pv].wait, rec.pid)
<1> DEFINE moved == transfer_group_space(Corpse(s), rec)
<1> DEFINE left == untransferred(Corpse(s), rec)
<1> DEFINE gone == [rec EXCEPT !.space = left]
<1> DEFINE p == IF hit THEN rec.parent ELSE None
<1> DEFINE a == [Idle EXCEPT !.step = "handoff", !.slot = s, !.parent = p, !.rec = gone]
<1>1. (\A t \in Slot : Fields(table[t])) /\ (\A d \in Cpu : Fields(act[d].rec)) /\ table \in Table
  BY Zenon, ActFields
<1>2. /\ rec.state = "Live" /\ rec # Hole /\ rec \in Record /\ rec.pid \in Pid
      /\ \A d \in Cpu : act[d].step # "idle" => act[d].rec.pid # rec.pid
  BY Zenon, Caller DEF exit_current_with_status
<1>3. /\ UNCHANGED <<next_pid, spaces, destroyed, delivered, ledger, vanished, mistaken>>
      /\ act[c] = Idle
  BY Zenon DEF exit_current_with_status
<1>4. /\ table' = (IF hit THEN Cleared(moved, pv) ELSE moved) /\ act' = [act EXCEPT ![c] = a]
  BY Zenon DEF exit_current_with_status, exit_zombie, Corpse, Cleared
<1>5. pv \in Slot /\ table[pv] # Hole /\ table[pv].pid = rec.parent /\ rec.parent # None
  <2>1. SlotsOf(table, rec.parent) \in SUBSET Slot /\ SlotsOf(table, rec.parent) # {}
    BY Zenon DEF BecomesZombie, ParentAlive, SlotsOf
  <2>2. pv \in SlotsOf(table, rec.parent)
    BY Zenon, <2>1, FirstSlot
  <2> QED BY Zenon, <2>2 DEF SlotsOf, BecomesZombie
<1>6. \A k \in Slot : table[k].pid = rec.parent => k = pv
  BY Zenon, <1>5 DEF TypeOK
<1>7. hit <=> table[pv].wait # NotWaiting /\ table[pv].wait \in {AnyChild, rec.pid}
  BY Zenon DEF wait_wake_decision
<1> HIDE DEF pv, hit
<1>8. /\ Corpse(s) \in Table
      /\ Corpse(s)[s].pid = rec.pid /\ Corpse(s)[s].parent = rec.parent
      /\ Corpse(s)[s].adopted = rec.adopted /\ Corpse(s)[s].wait = rec.wait
      /\ Corpse(s)[s].state = "Zombie" /\ Corpse(s)[s].space = None
      /\ \A t \in Slot \ {s} : Corpse(s)[t] = table[t]
  BY Zenon, <1>2, CorpseTable
<1>9. Transfer(Corpse(s), rec, moved, left)
  BY <1>2, <1>8, Transferred, Zenon
<1> HIDE DEF moved, left
<1>10. /\ left \in {None, rec.space} /\ moved \in Table
       /\ \A t \in Slot : Same(moved[t], Corpse(s)[t])
  BY Zenon, <1>9 DEF Transfer
<1>11. moved[pv] # Hole
  <2>1. table[pv].pid # None
    BY <1>1, <1>5, Zenon DEF Fields
  <2>2. Corpse(s)[pv].pid = table[pv].pid
    BY Zenon, <1>5, <1>8
  <2>3. moved[pv].pid = Corpse(s)[pv].pid
    BY <1>5, <1>10, Zenon DEF Same
  <2> QED BY Zenon, <2>1, <2>2, <2>3, HoleFields
<1>12. /\ table' \in Table
       /\ \A t \in Slot : /\ table'[t].pid = table[t].pid /\ table'[t].parent = table[t].parent
                          /\ table'[t].adopted = table[t].adopted
                          /\ table'[t].state = IF t = s THEN "Zombie" ELSE table[t].state
                          /\ table'[t].wait = IF hit /\ t = pv THEN NotWaiting ELSE table[t].wait
                          /\ table'[t].space = moved[t].space
  <2>1. \A t \in Slot : /\ moved[t].pid = table[t].pid /\ moved[t].parent = table[t].parent
                        /\ moved[t].adopted = table[t].adopted
                        /\ moved[t].state = IF t = s THEN "Zombie" ELSE table[t].state
                        /\ moved[t].wait = table[t].wait
    BY <1>8, <1>10 DEF Same
  <2>2. CASE hit
    BY SMTT(30), <1>4, <1>5, <1>10, <1>11, <2>1, <2>2, ClearedTable
  <2>3. CASE ~hit
    BY Zenon, <1>4, <1>10, <2>1, <2>3
  <2> QED BY <2>2, <2>3, Zenon
<1>13. \A t \in Slot : Fields(table'[t]) /\ (table'[t] = Hole <=> table[t] = Hole)
  <2>1. \A t \in Slot : Fields(table'[t])
    BY <1>12, TableFields, Zenon
  <2> QED BY <1>1, <1>12, <2>1, ZenonT(30) DEF Fields
<1>14. gone \in Record /\ gone.pid = rec.pid /\ gone.space = left
  <2>1. left \in 0 .. MaxSpace
    BY <1>1, <1>10, Numbers DEF Fields, None
  <2> QED BY Zenon, <1>2, <2>1 DEF Record
<1>15. p \in Pid \cup {None} /\ (p # None <=> hit) /\ (hit => p = rec.parent)
  BY <1>1, <1>5, Zenon DEF Fields
<1> HIDE DEF gone, p
<1>16. /\ a \in Acts /\ a.step = "handoff" /\ a.slot = s /\ a.parent = p /\ a.rec = gone
       /\ a.casc = {} /\ Len(a.stack) <= MAX_PROCESSES
  <2>1. a.step = "handoff" /\ a.slot = s /\ a.parent = p /\ a.rec = gone /\ a.casc = {} /\
        a.stack = <<>>
    BY Zenon DEF Idle
  <2>2. a \in Acts
    BY <1>14, <1>15, IdleAct, Zenon DEF Acts
  <2> QED BY <2>1, <2>2, Numbers
<1> HIDE DEF a
<1>17. /\ act' \in [Cpu -> Acts] /\ \A d \in Cpu : Len(act'[d].stack) <= MAX_PROCESSES
       /\ act'[c] = a /\ \A d \in Cpu \ {c} : act'[d] = act[d]
  BY <1>4, <1>16, OneAct, Zenon
<1>18. TypeOK'
  <2>1. \A t, u \in Slot : table'[t] # Hole /\ table'[t].pid = table'[u].pid => t = u
    BY <1>12, StillUnique, Zenon
  <2>2. table' \in [Slot -> Record \cup {Hole}]
    BY Zenon, <1>12 DEF Table
  <2> QED BY <1>3, <1>17, <2>1, <2>2, Zenon DEF TypeOK
<1>19. \/ /\ left = rec.space /\ table'[s].space = None
          /\ \A t \in Slot \ {s} : table'[t].space = table[t].space
       \/ /\ left = None /\ rec.space # None
          /\ \E h \in Slot \ {s} :
               /\ table[h].space = None /\ table'[h].space = rec.space /\ table'[s].space = None
               /\ \A t \in Slot \ {h, s} : table'[t].space = table[t].space
  <2>1. CASE left = rec.space /\ moved = Corpse(s)
    BY <1>8, <1>12, <2>1
  <2>2. ASSUME left = None, rec.space # None, NEW h \in Slot,
               Corpse(s)[h].pid \notin {None, rec.pid}, Corpse(s)[h].space = None,
               moved[h].space = rec.space, \A t \in Slot \ {h} : moved[t] = Corpse(s)[t]
        PROVE  \E k \in Slot \ {s} :
                 /\ table[k].space = None /\ table'[k].space = rec.space /\ table'[s].space = None
                 /\ \A t \in Slot \ {k, s} : table'[t].space = table[t].space
    <3>1. h # s
      BY Zenon, <1>8, <2>2
    <3>2. table[h].space = None /\ table'[h].space = rec.space
      BY SMTT(30), <1>8, <1>12, <2>2, <3>1
    <3>3. table'[s].space = None
      BY SMTT(30), <1>8, <1>12, <2>2, <3>1
    <3>4. ASSUME NEW t \in Slot \ {h, s} PROVE table'[t].space = table[t].space
      BY <1>8, <1>12, <2>2
    <3> QED BY Zenon, <3>1, <3>2, <3>3, <3>4
  <2> QED BY <1>9, <2>1, <2>2, Zenon DEF Transfer
<1>20. rec.space <= spaces /\ None <= spaces /\ None < next_pid
  BY Counters DEF KnownSpaces, None
<1>21. KnownPids' /\ KnownSpaces' /\ ActShape'
  <2>1. \A t \in Slot : table'[t].space <= spaces
    BY Zenon, <1>19, <1>20 DEF KnownSpaces
  <2>2. gone.space <= spaces /\ gone.pid < next_pid
    BY Zenon, <1>10, <1>14, <1>20 DEF KnownPids
  <2>3. gone # Hole
    BY Zenon, <1>2, <1>14, RecordFields DEF Fields
  <2>4. KnownPids'
    BY SMTT(30), <1>3, <1>12, <1>16, <1>17, <2>2 DEF KnownPids
  <2>5. \A d \in Cpu : act'[d].rec.space <= spaces' /\ act'[d].casc \subseteq 1 .. spaces'
    BY Zenon, <1>3, <1>16, <1>17, <2>2 DEF KnownSpaces
  <2>6. KnownSpaces'
    BY <1>3, <2>1, <2>5, Zenon DEF KnownSpaces
  <2>7. ActShape'
    BY Zenon, <1>16, <1>17, <2>3 DEF ActShape
  <2> QED BY Zenon, <2>4, <2>6, <2>7
<1>22. SpaceInv'
  <2>1. \A x : Owns(c, x)' <=> x = left
    BY Zenon, <1>14, <1>16, <1>17 DEF Owns
  <2>2. \A d \in Cpu \ {c} : \A x : Owns(d, x)' <=> Owns(d, x)
    BY Zenon, <1>17 DEF Owns
  <2>3. \A t \in Slot : table'[t].space # None =>
          table'[t].space # left /\ \E u \in Slot : table'[t].space = table[u].space
    BY Zenon, <1>19 DEF SpaceInv
  <2>4. \A t, u \in Slot : table'[t].space # None /\ table'[t].space = table'[u].space => t = u
    <3>1. CASE left = rec.space /\ table'[s].space = None
               /\ \A t \in Slot \ {s} : table'[t].space = table[t].space
      BY Zenon, <3>1 DEF SpaceInv
    <3>2. ASSUME NEW h \in Slot \ {s}, table'[h].space = rec.space, table'[s].space = None,
                 \A t \in Slot \ {h, s} : table'[t].space = table[t].space
          PROVE  \A t, u \in Slot : table'[t].space # None /\
                 table'[t].space = table'[u].space => t = u
      BY <3>2 DEF SpaceInv
    <3> QED BY Zenon, <1>19, <3>1, <3>2
  <2>5. ASSUME NEW t \in Slot, NEW d \in Cpu, table'[t].space # None
        PROVE  ~Owns(d, table[t].space)'
    <3>1. PICK u \in Slot : table'[t].space = table[u].space
      BY Zenon, <2>3, <2>5
    <3>2. ~Owns(d, table[u].space)
      BY Zenon, <2>5, <3>1 DEF SpaceInv
    <3> QED BY Zenon, <2>1, <2>2, <2>3, <2>5, <3>1, <3>2
  <2>6. \A x \in 1 .. spaces : x = left => x = rec.space /\ x # None
    BY <1>10 DEF None
  <2>7. \A d, e \in Cpu : \A x \in 1 .. spaces' : Owns(d, x)' /\ Owns(e, x)' => d = e
    BY SMTT(30), <1>3, <2>1, <2>2, <2>6 DEF SpaceInv
  <2>8. \A d \in Cpu : act'[d].rec.space \notin act'[d].casc
    BY Zenon, <1>16, <1>17 DEF SpaceInv
  <2>9. None \notin destroyed
    BY Zenon, Counters
  <2>10. \A t \in Slot : table'[t].space \notin destroyed'
    BY Zenon, <1>3, <2>3, <2>9 DEF SpaceInv
  <2>11. left \notin destroyed
    BY Zenon, <1>10, <2>9 DEF SpaceInv
  <2>12. \A d \in Cpu : \A x \in destroyed' : ~Owns(d, x)'
    BY Zenon, <1>3, <2>1, <2>2, <2>11 DEF SpaceInv
  <2> QED BY SMTT(30), <2>4, <2>5, <2>7, <2>8, <2>10, <2>12 DEF SpaceInv
<1>23. ASSUME ~mistaken
       PROVE  Registered' /\ Carried' /\ Departing' /\ Undelivered' /\ WaiterHasChild'
  <2>1. Registered /\ Carried /\ Departing /\ Undelivered
    BY Zenon, <1>23 DEF WaitInv
  <2>2. hit => table[pv].state = "Waiting" /\ pv # s
    BY Zenon, <1>2, <1>5, <1>7, <2>1 DEF Registered
  <2>3. rec.wait = NotWaiting
    BY Zenon, <1>2, <2>1 DEF Registered
  <2>4. Registered'
    BY <1>12, <2>1, <2>3 DEF Registered
  <2>5. (Carries(c)' <=> hit) /\ ~Carries(c)
    BY Zenon, <1>3, <1>15, <1>16, <1>17, IdleAct DEF Carries
  <2>6. \A d \in Cpu \ {c} : Carries(d)' <=> Carries(d)
    BY Zenon, <1>17 DEF Carries
  <2>7. \A t \in Slot : table[t].state = "Waiting" => t # s /\ table'[t].state = "Waiting"
    BY Zenon, <1>2, <1>12
  <2>8. Carried'
    <3>1. ASSUME NEW d \in Cpu, Carries(d)'
          PROVE  \E t \in Slot : /\ table'[t].pid = act'[d].parent
                                 /\ table'[t].state = "Waiting" /\ table'[t].wait = NotWaiting
      <4>1. CASE d = c
        <5>1. hit /\ act'[d].parent = rec.parent
          BY Zenon, <1>15, <1>16, <1>17, <2>5, <3>1, <4>1
        <5>2. table'[pv].pid = rec.parent /\ table'[pv].wait = NotWaiting
          BY Zenon, <1>5, <1>12, <5>1
        <5>3. table'[pv].state = "Waiting"
          BY Zenon, <1>5, <2>2, <2>7, <5>1
        <5> QED BY Zenon, <1>5, <5>1, <5>2, <5>3
      <4>2. CASE d # c
        <5>1. PICK t \in Slot : /\ table[t].pid = act[d].parent
                                /\ table[t].state = "Waiting" /\ table[t].wait = NotWaiting
          BY Zenon, <2>1, <2>6, <3>1, <4>2 DEF Carried
        <5> QED BY SMTT(30), <1>12, <1>17, <2>7, <4>2, <5>1
      <4> QED BY Zenon, <4>1, <4>2
    <3>2. ASSUME NEW d \in Cpu \ {c}, Carries(d), hit
          PROVE  act[d].parent # rec.parent
      BY SMTT(30), <1>6, <1>7, <2>1, <3>2 DEF Carried
    <3>3. ASSUME NEW d \in Cpu, NEW e \in Cpu, Carries(d)', Carries(e)',
                 act'[d].parent = act'[e].parent
          PROVE  d = e
      <4>1. hit => act'[c].parent = rec.parent
        BY Zenon, <1>15, <1>16, <1>17
      <4>2. CASE d # c /\ e # c
        BY ZenonT(30), <1>17, <2>1, <2>6, <3>3, <4>2 DEF Carried
      <4>3. CASE d = c /\ e # c
        BY SMTT(30), <1>17, <2>5, <2>6, <3>2, <3>3, <4>1, <4>3
      <4>4. CASE d # c /\ e = c
        BY ZenonT(30), <1>17, <2>5, <2>6, <3>2, <3>3, <4>1, <4>4
      <4> QED BY Zenon, <4>2, <4>3, <4>4
    <3>4. ASSUME NEW d \in Cpu \ {c}, Carries(d), act[d].step = "handoff"
          PROVE  LET z == table'[act[d].slot]
                 IN  z.pid = act[d].rec.pid /\ z.state = "Zombie" /\ z.parent = act[d].parent
      <4>1. act[d].slot \in Slot
        BY Zenon DEF TypeOK, Acts
      <4> QED BY SMTT(30), <1>12, <2>1, <3>4, <4>1 DEF Carried
    <3>5. table'[s].pid = a.rec.pid /\ table'[s].state = "Zombie" /\
          (hit => table'[s].parent = a.parent)
      BY ZenonT(30), <1>12, <1>14, <1>15, <1>16
    <3>6. ASSUME NEW d \in Cpu, Carries(d)', act'[d].step = "handoff"
          PROVE  LET z == table'[act'[d].slot]
                 IN  z.pid = act'[d].rec.pid /\ z.state = "Zombie" /\ z.parent = act'[d].parent
      BY SMTT(30), <1>16, <1>17, <2>5, <2>6, <3>4, <3>5, <3>6
    <3> QED BY Zenon, <3>1, <3>3, <3>6 DEF Carried
  <2>9. Departing'
    <3>1. \A t \in Slot : Deserted(t) => Deserted(t)'
      BY Zenon, <1>3, <1>12 DEF Deserted
    <3>2. ASSUME NEW d \in Cpu, NEW t \in Slot, act'[d].step = "reap", table'[t] # Hole,
                 table'[t].pid = act'[d].rec.pid
          PROVE  table'[t].state = "Live" /\ Deserted(t)'
      <4>1. d # c /\ act'[d] = act[d]
        BY Zenon, <1>16, <1>17, <3>2
      <4>2. table[t] # Hole /\ table[t].pid = act[d].rec.pid
        BY Zenon, <1>12, <1>13, <3>2, <4>1
      <4>3. table[t].state = "Live" /\ Deserted(t)
        BY Zenon, <2>1, <3>2, <4>1, <4>2 DEF Departing
      <4>4. t # s
        BY Zenon, <1>2, <3>2, <4>1, <4>2
      <4> QED BY ZenonT(30), <1>12, <3>1, <4>3, <4>4
    <3> QED BY <3>2, Zenon DEF Departing
  <2>10. Undelivered'
    BY ZenonT(30), <1>3, <1>12, <1>13, <2>1 DEF Undelivered
  <2>11. WaiterHasChild'
    <3>1. ASSUME NEW t \in Slot, table'[t].state = "Waiting", table'[t].wait = NotWaiting
          PROVE  \E d \in Cpu : act'[d].step \in {"handoff", "wake"} /\
                 act'[d].parent = table'[t].pid
      <4>1. CASE hit /\ t = pv
        BY SMTT(30), <1>5, <1>12, <1>15, <1>16, <1>17, <4>1
      <4>2. CASE ~(hit /\ t = pv)
        <5>1. table[t].state = "Waiting" /\ table[t].wait = NotWaiting
          BY <1>12, <3>1, <4>2, Zenon
        <5>2. PICK d \in Cpu : act[d].step \in {"handoff", "wake"} /\ act[d].parent = table[t].pid
          BY <1>23, <5>1, Zenon DEF WaiterHasChild
        <5> QED BY <1>3, <1>12, <1>17, <5>2, IdleAct, Zenon
      <4> QED BY Zenon, <4>1, <4>2
    <3>2. ASSUME NEW t \in Slot, table'[t].state = "Waiting", table'[t].wait # NotWaiting
          PROVE  Expects(t)'
      <4>1. /\ table[t].state = "Waiting" /\ table[t].wait = table'[t].wait /\ ~(hit /\ t = pv)
            /\ table'[t].pid = table[t].pid
        BY <1>12, <3>2, Zenon
      <4>2. Expects(t)
        BY <1>23, <3>2, <4>1, Zenon DEF WaiterHasChild, Expects, Matching
      <4>3. CASE \E v \in vanished : v[2] = table[t].pid /\ table[t].wait \in {AnyChild, v[1]}
        BY <1>3, <4>1, <4>3, Zenon DEF Expects
      <4>4. ASSUME NEW k \in Slot, table[k] # Hole, table[k].parent = table[t].pid,
                   table[t].wait \in {AnyChild, table[k].pid}, table[k].state # "Zombie"
            PROVE  Expects(t)'
        <5>1. k # s
          BY Zenon, <1>6, <1>7, <3>2, <4>1, <4>4
        <5> QED BY SMTT(30), <1>12, <1>13, <4>1, <4>4, <5>1 DEF Expects
      <4> QED BY <4>2, <4>3, <4>4, Zenon DEF Expects
    <3> QED BY <3>1, <3>2 DEF WaiterHasChild, Expects, Matching
  <2> QED BY Zenon, <2>4, <2>8, <2>9, <2>10, <2>11
<1> QED BY SMTT(30), <1>3, <1>18, <1>21, <1>22, <1>23 DEF WaitInv, WaiterHasChild

-----------------------------------------------------------------------------
(* The theorems.                                                           *)

(* The invariant holds at boot.                                            *)
LEMMA Starts == Init => IInv
<1> SUFFICES ASSUME Init PROVE IInv
  BY Zenon
<1> DEFINE one == [pid |-> 2, parent |-> 0, tgid |-> 2, state |-> "Live", adopted |-> FALSE,
                   space |-> 1, wait |-> -1]
<1> DEFINE two == [pid |-> 3, parent |-> 0, tgid |-> 3, state |-> "Live", adopted |-> FALSE,
                   space |-> 2, wait |-> -1]
<1>1. one \in Record /\ two \in Record
  BY Numbers, LifecycleAssumption DEF Record, None, NotWaiting, AnyChild
<1>2. table = [s \in Slot |-> CASE s = 0 -> one [] s = 1 -> two [] OTHER -> Hole]
  BY Zenon DEF Init, NewRecord, INIT_PID, SHELL_PID, None, NotWaiting
<1>3. /\ one.pid = 2 /\ one.parent = 0 /\ one.space = 1 /\ one.state = "Live" /\
         one.wait = NotWaiting
      /\ ~one.adopted /\ two.pid = 3 /\ two.parent = 0 /\ two.space = 2 /\ two.state = "Live"
      /\ two.wait = NotWaiting /\ ~two.adopted
  BY Zenon DEF NotWaiting
<1> HIDE DEF one, two
<1>4. table[0] = one /\ table[1] = two /\ \A s \in Slot \ {0, 1} : table[s] = Hole
  BY Zenon, <1>2, Numbers
<1>5. /\ next_pid = 4 /\ spaces = 2 /\ destroyed = {} /\ (\A c \in Cpu : act[c] = Idle)
      /\ delivered = [p \in Pid |-> 0] /\ ledger = {} /\ vanished = {} /\ mistaken = FALSE
  BY DEF Init, SHELL_PID
<1>6. TypeOK
  <2>1. table \in [Slot -> Record \cup {Hole}]
    BY Zenon, <1>1, <1>2
  <2>2. \A s, t \in Slot : table[s] # Hole /\ table[s].pid = table[t].pid => s = t
    BY <1>3, <1>4, HoleFields DEF None
  <2>3. next_pid \in SHELL_PID + 1 .. MaxPid + 1 /\ spaces \in 0 .. MaxSpace
    BY <1>5, LifecycleAssumption DEF SHELL_PID
  <2>4. act \in [Cpu -> Acts] /\ \A c \in Cpu : Len(act[c].stack) <= MAX_PROCESSES
    BY Zenon, IdleAct, Numbers DEF Init
  <2>5. delivered \in [Pid -> Nat] /\ destroyed \subseteq 1 .. spaces /\ ledger \subseteq Pid
        /\ vanished \subseteq Pid \X (Pid \cup {None}) /\ mistaken \in BOOLEAN
    BY <1>5, Zenon
  <2> QED BY <2>1, <2>2, <2>3, <2>4, <2>5, Zenon DEF TypeOK
<1>7. KnownPids /\ KnownSpaces /\ ActShape
  BY SMTT(30), <1>3, <1>4, <1>5, HoleFields, IdleAct DEF KnownPids, KnownSpaces, ActShape, None
<1>8. SpaceInv
  <2>1. \A c \in Cpu : \A x : ~Owns(c, x)
    BY Zenon, <1>5, IdleAct DEF Owns
  <2>2. \A s, t \in Slot : table[s].space # None /\ table[s].space = table[t].space => s = t
    BY <1>3, <1>4, HoleFields DEF None
  <2> QED BY Zenon, <1>5, <2>1, <2>2, IdleAct DEF SpaceInv
<1>9. Registered /\ Carried /\ Departing /\ WaiterHasChild
  <2>1. \A s \in Slot : table[s].state # "Waiting" /\ table[s].wait = NotWaiting /\
           ~table[s].adopted
    BY Zenon, <1>3, <1>4, HoleFields
  <2>2. \A c \in Cpu : act[c].step = "idle" /\ ~Carries(c)
    BY Zenon, <1>5, IdleAct DEF Carries
  <2> QED BY Zenon, <2>1, <2>2 DEF Registered, Carried, Departing, WaiterHasChild
<1>10. Undelivered
  <2>1. \A s \in Slot : table[s] # Hole => table[s].pid \in Pid
    BY Zenon, <1>6, ActFields DEF Fields
  <2> QED BY <1>5, <2>1 DEF Undelivered
<1> QED BY Zenon, <1>6, <1>7, <1>8, <1>9, <1>10 DEF IInv, TypeInv, WaitInv

(* Every step preserves the invariant.                                     *)
LEMMA Inductive == IInv /\ [Next]_vars => IInv'
<1> SUFFICES ASSUME IInv, [Next]_vars PROVE IInv'
  BY Zenon
<1>1. ASSUME NEW s \in Slot,
             \/ fork(s) \/ create_thread(s) \/ spawn_user_from_image(s)
             \/ spawn_user_from_bootfs(s) \/ spawn_user_fails(s)
      PROVE  IInv'
  BY Zenon, <1>1, CreationInv
<1>2. ASSUME NEW s \in Slot, exec_load(s) PROVE IInv'
  BY Zenon, <1>2, ExecInv
<1>3. ASSUME NEW s \in Slot, NEW target \in Pid \cup {AnyChild}, waitpid_collect(s, target)
      PROVE  IInv'
  BY Zenon, <1>3, CollectInv
<1>4. ASSUME NEW s \in Slot, NEW target \in Pid \cup {AnyChild}, waitpid_block(s, target)
      PROVE  IInv'
  BY Zenon, <1>4, BlockInv
<1>5. ASSUME NEW s \in Slot, NEW c \in Cpu, exit_current_with_status(c, s) PROVE IInv'
  BY Zenon, <1>5, ExitZombieInv, ExitReapInv
<1>6. ASSUME NEW s \in Slot, NEW c \in Cpu, exit_current(c, s) PROVE IInv'
  BY Zenon, <1>6, VanishInv
<1>7. ASSUME NEW c \in Cpu, deliver(c) PROVE IInv'
  BY Zenon, <1>7, DeliverInv
<1>8. ASSUME NEW c \in Cpu, wake(c) PROVE IInv'
  BY SMTT(30), <1>8, WakeInv
<1>9. ASSUME NEW c \in Cpu, reap_empty(c) PROVE IInv'
  BY Zenon, <1>9, SkipInv
<1>10. ASSUME NEW c \in Cpu, reap_take(c) PROVE IInv'
  BY Zenon, <1>10, TakeInv
<1>11. ASSUME NEW c \in Cpu, reap_release(c) PROVE IInv'
  BY Zenon, <1>11, ReleaseInv
<1>12. ASSUME NEW s \in Slot, Calls(s) PROVE IInv'
  BY <1>1, <1>2, <1>3, <1>4, <1>5, <1>6, <1>12, Zenon DEF Calls
<1>13. CASE UNCHANGED vars
  <2>1. UNCHANGED <<table, next_pid, act, spaces, destroyed, delivered, ledger, vanished, mistaken>>
    BY Zenon, <1>13 DEF vars
  <2>2. TypeOK'
    BY <2>1, Zenon DEF IInv, TypeInv, TypeOK
  <2>3. KnownPids' /\ KnownSpaces' /\ ActShape'
    BY <2>1, Zenon DEF IInv, TypeInv, KnownPids, KnownSpaces, ActShape
  <2>4. SpaceInv'
    BY <2>1, Zenon DEF IInv, SpaceInv, Owns
  <2>5. WaitInv'
    <3> SUFFICES ASSUME ~mistaken PROVE Registered' /\ Carried' /\ Departing' /\ Undelivered'
      BY <2>1, Zenon DEF WaitInv
    <3>1. Registered /\ Carried /\ Departing /\ Undelivered
      BY Zenon DEF IInv, WaitInv
    <3>2. Registered' /\ Undelivered'
      BY <2>1, <3>1, Zenon DEF Registered, Undelivered
    <3>3. Carried'
      BY <2>1, <3>1, Zenon DEF Carried, Carries
    <3>4. Departing'
      BY <2>1, <3>1, Zenon DEF Departing, Deserted
    <3> QED BY Zenon, <3>2, <3>3, <3>4
  <2>6. WaiterHasChild'
    BY <2>1, Zenon DEF IInv, WaiterHasChild, Matching
  <2> QED BY Zenon, <2>2, <2>3, <2>4, <2>5, <2>6 DEF IInv, TypeInv
<1> QED BY <1>7, <1>8, <1>9, <1>10, <1>11, <1>12, <1>13, Zenon DEF Next

(* The inductive invariant of process creation, exit, reaping and waitpid. *)
THEOREM Invariance == Spec => []IInv
  BY Starts, Inductive, PTL DEF Spec

(* The table, the CPUs' locals and the ghost counters are well formed, and *)
(* a pid has at most one record (alloc_pid, alloc_table_slot).             *)
THEOREM TypeCorrect == Spec => []TypeOK
<1>1. IInv => TypeOK
  BY Zenon DEF IInv, TypeInv
<1> QED BY <1>1, Invariance, PTL

(* An exit result reaches a parent at most once, and not while the zombie  *)
(* is still there (waitpid_step, the delivery in exit).                    *)
THEOREM ResultDeliveredOnce == Spec => []ResultOnce
<1>1. IInv => ResultOnce
  <2> SUFFICES ASSUME IInv, ~mistaken
               PROVE  /\ \A p \in Pid : delivered[p] <= 1
                      /\ \A s \in Slot : table[s].state = "Zombie" => delivered[table[s].pid] = 0
    BY Zenon DEF ResultOnce
  <2>1. Undelivered
    BY Zenon DEF IInv, WaitInv
  <2> QED BY Zenon, <2>1, HoleFields DEF Undelivered
<1> QED BY <1>1, Invariance, PTL

(* A process blocked in waitpid has a living child that will wake it, or   *)
(* its registration is in the hands of an exiting one (svc #2 apart).      *)
THEOREM WaiterNotStranded == Spec => []WaiterHasChild
<1>1. IInv => WaiterHasChild
  BY Zenon DEF IInv
<1> QED BY <1>1, Invariance, PTL

(* An address space has one owner, and none once it is destroyed           *)
(* (transfer_group_space_locked, rebind_address_space, full_reap).         *)
THEOREM SpaceOwnedOnce == Spec => []SpaceOnce
<1>1. IInv => SpaceOnce
  <2> SUFFICES ASSUME IInv, NEW x \in 1 .. spaces
               PROVE  Cardinality(Owners(x)) <= (IF x \in destroyed THEN 0 ELSE 1)
    BY Zenon DEF SpaceOnce
  <2>1. SpaceInv /\ x # None
    BY DEF IInv, None
  <2>2. \A o \in Owners(x) : \/ \E s \in Slot : o = <<"slot", s>> /\ table[s].space = x
                             \/ \E c \in Cpu : o = <<"cpu", c>> /\ Owns(c, x)
    BY Zenon DEF Owners, Owns
  <2>3. \A o, q \in Owners(x) : o = q
    BY <2>1, <2>2 DEF SpaceInv
  <2>4. x \in destroyed => Owners(x) = {}
    BY Zenon, <2>1, <2>2 DEF SpaceInv
  <2>5. Cardinality({}) = 0
    BY FS_EmptySet, Zenon
  <2>6. \A o : Cardinality({o}) = 1
    BY FS_Singleton, Zenon
  <2>7. CASE Owners(x) = {}
    BY <2>5, <2>7
  <2>8. CASE Owners(x) # {}
    <3>1. PICK o \in Owners(x) : TRUE
      BY Zenon, <2>8
    <3>2. Owners(x) = {o}
      BY Zenon, <2>3
    <3> QED BY <2>4, <2>6, <3>2
  <2> QED BY Zenon, <2>7, <2>8
<1> QED BY <1>1, Invariance, PTL
=============================================================================
