------------------------- MODULE SchedulerInvariant -------------------------
(***************************************************************************)
(* The inductive invariant of Scheduler: the facts about queues, tokens    *)
(* and wakeups it rests on, that it holds initially, and that every step   *)
(* preserves it: first the steps that move the right to dispatch a process *)
(* (pop, claim, push, spawn) and those that only move a CPU, then the ones *)
(* that give a process up (release, block, exit) or move a wakeup          *)
(* (register, signal, timer, wake).                                        *)
(***************************************************************************)
EXTENDS Scheduler, TLAPS

-----------------------------------------------------------------------------
(* The run queue: what a push and a pop do to the set of queued processes. *)

QueueUnique ==
    \A l, m \in Levels : \A i \in 1 .. Len(runq[l]), j \in 1 .. Len(runq[m]) :
        runq[l][i] = runq[m][j] => l = m /\ i = j

LEMMA LevelsFacts ==
    /\ 0 \in Levels
    /\ Levels \subseteq Nat
    /\ \A l \in Levels : next_level(l) \in Levels
BY LevelsAssumption DEF Levels, next_level

(* RunQueue::push of a process that is not queued adds exactly that one.   *)
LEMMA PushFacts ==
    ASSUME runq \in [Levels -> Seq(Pid)], QueueUnique,
           NEW p \in Pid, ~Queued(p), NEW k \in Levels, push_at(p, k)
    PROVE  /\ runq' \in [Levels -> Seq(Pid)]
           /\ QueueUnique'
           /\ \A q \in Pid : Queued(q)' <=> Queued(q) \/ q = p
<1>1. runq' = [runq EXCEPT ![k] = Append(runq[k], p)]
  BY Zenon DEF push_at
<1>2. /\ runq[k] \in Seq(Pid)
      /\ Append(runq[k], p) \in Seq(Pid)
      /\ Len(Append(runq[k], p)) = Len(runq[k]) + 1
      /\ Append(runq[k], p)[Len(runq[k]) + 1] = p
      /\ \A i \in 1 .. Len(runq[k]) : Append(runq[k], p)[i] = runq[k][i]
  OBVIOUS
<1>3. runq' \in [Levels -> Seq(Pid)]
  BY Zenon, <1>1, <1>2
<1>4. \A l \in Levels : l # k => runq'[l] = runq[l]
  BY Zenon, <1>1
<1>5. runq'[k] = Append(runq[k], p)
  BY Zenon, <1>1
<1>6. \A l \in Levels : Len(runq[l]) \in Nat
  OBVIOUS
<1>7. \A l \in Levels : \A i \in 1 .. Len(runq'[l]) :
          \/ i \in 1 .. Len(runq[l]) /\ runq'[l][i] = runq[l][i]
          \/ l = k /\ i = Len(runq[k]) + 1 /\ runq'[l][i] = p
  <2> SUFFICES ASSUME NEW l \in Levels, NEW i \in 1 .. Len(runq'[l])
               PROVE  \/ i \in 1 .. Len(runq[l]) /\ runq'[l][i] = runq[l][i]
                      \/ l = k /\ i = Len(runq[k]) + 1 /\ runq'[l][i] = p
    BY Zenon
  <2>1. CASE l = k
    BY <1>2, <1>5, <1>6, <2>1
  <2>2. CASE l # k
    BY Zenon, <1>4, <2>2
  <2> QED  BY Zenon, <2>1, <2>2
<1>8. QueueUnique'
  <2> SUFFICES ASSUME NEW l \in Levels, NEW m \in Levels,
                      NEW i \in 1 .. Len(runq'[l]), NEW j \in 1 .. Len(runq'[m]),
                      runq'[l][i] = runq'[m][j]
               PROVE  l = m /\ i = j
    BY Zenon DEF QueueUnique
  <2>1. CASE i \in 1 .. Len(runq[l]) /\ runq'[l][i] = runq[l][i]
    <3>1. runq[l][i] # p
      BY Zenon, <2>1 DEF Queued
    <3>2. j \in 1 .. Len(runq[m]) /\ runq'[m][j] = runq[m][j]
      BY Zenon, <1>7, <2>1, <3>1
    <3>3. runq[l][i] = runq[m][j]
      BY Zenon, <2>1, <3>2
    <3>4. \A a \in 1 .. Len(runq[l]), b \in 1 .. Len(runq[m]) :
              runq[l][a] = runq[m][b] => l = m /\ a = b
      BY Zenon DEF QueueUnique
    <3> QED  BY Zenon, <2>1, <3>2, <3>3, <3>4
  <2>2. CASE l = k /\ i = Len(runq[k]) + 1 /\ runq'[l][i] = p
    BY Zenon, <1>7, <2>2 DEF Queued
  <2> QED  BY Zenon, <1>7, <2>1, <2>2
<1>9. ASSUME NEW q \in Pid PROVE Queued(q)' <=> Queued(q) \/ q = p
  <2>1. Queued(q)' => Queued(q) \/ q = p
    BY Zenon, <1>7 DEF Queued
  <2>2. ASSUME Queued(q) PROVE Queued(q)'
    <3>1. PICK l \in Levels : \E i \in 1 .. Len(runq[l]) : runq[l][i] = q
      BY Zenon, <2>2 DEF Queued
    <3>2. PICK i \in 1 .. Len(runq[l]) : runq[l][i] = q
      BY Zenon, <3>1
    <3>3. i \in 1 .. Len(runq'[l]) /\ runq'[l][i] = q
      <4>1. CASE l = k
        BY <1>2, <1>5, <1>6, <3>2, <4>1
      <4>2. CASE l # k
        BY Zenon, <1>4, <3>2, <4>2
      <4> QED  BY Zenon, <4>1, <4>2
    <3> QED  BY Zenon, <3>3 DEF Queued
  <2>3. q = p => Queued(q)'
    BY <1>2, <1>5, <1>6 DEF Queued
  <2> QED  BY Zenon, <2>1, <2>2, <2>3
<1> QED  BY Zenon, <1>3, <1>8, <1>9

(* Mlfq::pop hands out a queued process and leaves the others queued.      *)
LEMMA PopFacts ==
    ASSUME runq \in [Levels -> Seq(Pid)], QueueUnique, NEW c \in Cpu, pop(c)
    PROVE  \E p \in Pid :
              /\ Queued(p)
              /\ hand' = [hand EXCEPT ![c] = p]
              /\ runq' \in [Levels -> Seq(Pid)]
              /\ QueueUnique'
              /\ \A q \in Pid : Queued(q)' <=> Queued(q) /\ q # p
<1>1. PICK k \in Levels :
          /\ runq[k] # <<>>
          /\ runq' = [runq EXCEPT ![k] = Tail(runq[k])]
          /\ hand' = [hand EXCEPT ![c] = Head(runq[k])]
  BY Zenon DEF pop, Take
<1> DEFINE s == runq[k]
           p == Head(s)
<1>2. /\ s \in Seq(Pid) /\ p \in Pid /\ Tail(s) \in Seq(Pid)
      /\ Len(s) \in Nat /\ Len(s) >= 1 /\ Len(Tail(s)) = Len(s) - 1
      /\ p = s[1]
      /\ \A i \in 1 .. Len(Tail(s)) : Tail(s)[i] = s[i + 1]
  BY <1>1
<1>3. runq' \in [Levels -> Seq(Pid)]
  BY Zenon, <1>1, <1>2
<1>4. \A l \in Levels : l # k => runq'[l] = runq[l]
  BY Zenon, <1>1
<1>5. runq'[k] = Tail(s)
  BY Zenon, <1>1
<1>6. \A l \in Levels : Len(runq[l]) \in Nat
  OBVIOUS
<1> HIDE DEF s, p
<1>7. \A l \in Levels : \A i \in 1 .. Len(runq'[l]) :
          IF l = k THEN i + 1 \in 1 .. Len(runq[l]) /\ runq'[l][i] = runq[l][i + 1]
                   ELSE i \in 1 .. Len(runq[l]) /\ runq'[l][i] = runq[l][i]
  BY SMTT(30), <1>2, <1>4, <1>5, <1>6 DEF s
<1>8. QueueUnique'
  <2> SUFFICES ASSUME NEW l \in Levels, NEW m \in Levels,
                      NEW i \in 1 .. Len(runq'[l]), NEW j \in 1 .. Len(runq'[m]),
                      runq'[l][i] = runq'[m][j]
               PROVE  l = m /\ i = j
    BY Zenon DEF QueueUnique
  <2>1. CASE l = k /\ m = k
    <3>1. i \in Nat /\ j \in Nat
      OBVIOUS
    <3>2. i + 1 = j + 1
      BY <1>7, <2>1 DEF QueueUnique
    <3> QED  BY <2>1, <3>1, <3>2
  <2>2. CASE l = k /\ m # k
    BY <1>7, <2>2 DEF QueueUnique
  <2>3. CASE l # k /\ m = k
    BY <1>7, <2>3 DEF QueueUnique
  <2>4. CASE l # k /\ m # k
    BY <1>7, <2>4 DEF QueueUnique
  <2> QED  BY Zenon, <2>1, <2>2, <2>3, <2>4
<1>9. Queued(p)
  BY <1>2 DEF Queued, s
<1>10. ASSUME NEW q \in Pid PROVE Queued(q)' <=> Queued(q) /\ q # p
  <2>1. ASSUME Queued(q)' PROVE Queued(q)
    <3>1. PICK l \in Levels : \E i \in 1 .. Len(runq'[l]) : runq'[l][i] = q
      BY Zenon, <2>1 DEF Queued
    <3>2. PICK i \in 1 .. Len(runq'[l]) : runq'[l][i] = q
      BY Zenon, <3>1
    <3>3. CASE l = k
      BY Zenon, <1>7, <3>2, <3>3 DEF Queued
    <3>4. CASE l # k
      BY Zenon, <1>7, <3>2, <3>4 DEF Queued
    <3> QED  BY Zenon, <3>3, <3>4
  <2>2. Queued(q)' => q # p
    <3> SUFFICES ASSUME NEW l \in Levels, NEW i \in 1 .. Len(runq'[l]), runq'[l][i] = p
                 PROVE  FALSE
      BY Zenon DEF Queued
    <3>1. 1 \in 1 .. Len(runq[k]) /\ runq[k][1] = p
      BY <1>2 DEF s
    <3>2. CASE l = k
      <4>1. i \in Nat /\ i >= 1
        OBVIOUS
      <4>2. i + 1 = 1
        BY <1>7, <3>1, <3>2 DEF QueueUnique
      <4> QED  BY <4>1, <4>2
    <3>3. CASE l # k
      BY <1>7, <3>1, <3>3 DEF QueueUnique
    <3> QED  BY Zenon, <3>2, <3>3
  <2>3. ASSUME Queued(q), q # p PROVE Queued(q)'
    <3>0. PICK l \in Levels : \E i \in 1 .. Len(runq[l]) : runq[l][i] = q
      BY Zenon, <2>3 DEF Queued
    <3>1. PICK i \in 1 .. Len(runq[l]) : runq[l][i] = q
      BY Zenon, <3>0
    <3>2. CASE l # k
      BY Zenon, <1>4, <3>1, <3>2 DEF Queued
    <3>3. CASE l = k
      <4>1. i # 1
        BY Zenon, <1>2, <2>3, <3>1, <3>3 DEF s
      <4>2. i - 1 \in 1 .. Len(Tail(s)) /\ Tail(s)[i - 1] = q
        BY <1>2, <3>1, <3>3, <4>1 DEF s
      <4> QED  BY Zenon, <1>5, <4>2 DEF Queued
    <3> QED  BY Zenon, <3>2, <3>3
  <2> QED  BY Zenon, <2>1, <2>2, <2>3
<1>11. hand' = [hand EXCEPT ![c] = p] /\ p \in Pid
  BY Zenon, <1>1, <1>2 DEF p, s
<1> QED  BY Zenon, <1>3, <1>8, <1>9, <1>10, <1>11

-----------------------------------------------------------------------------
(* The inductive invariant.                                                *)

WakePCs == {"wake", "wakepush", "kick"}
CurPCs == {"user", "yield", "registered", "blocking", "exit", "enqueue"}
FreePCs == {"pick", "toidle", "wfi", "idlepop", "dispatch", "claimed", "release",
            "push", "finish", "requeue", "disown", "bury"}
LeavePCs == {"claimed", "release", "finish", "disown"}

(* Where a CPU is determines whether it has a current process, holds a pid *)
(* in its local variable and has wakeups left to deliver.                  *)
Control ==
    \A c \in Cpu :
        /\ pc[c] \in CurPCs => current[c] # None
        /\ pc[c] \in FreePCs => current[c] = None
        /\ pc[c] \in WakePCs =>
              /\ ret[c] = "user" => current[c] # None
              /\ ret[c] = "pick" => current[c] = None
        /\ pc[c] \notin WakePCs => due[c] = {}
        /\ pc[c] \in HandPCs \cup OwnPCs => hand[c] # None

(* A process that a CPU executes, claims or leaves is Running and owned by *)
(* that CPU, up to the disowned record of an exit; no other process has an *)
(* owner; the intent is recorded on the way from begin_block.              *)
Ownership ==
    /\ \A c \in Cpu : current[c] # None =>
          state[current[c]] = "Running" /\ owner[current[c]] = c
    /\ \A c \in Cpu : pc[c] \in LeavePCs =>
          state[hand[c]] = "Running" /\ owner[hand[c]] = c
    /\ \A c \in Cpu : pc[c] = "bury" =>
          state[hand[c]] = "Running" /\ owner[hand[c]] = None
    /\ \A c, d \in Cpu : pc[c] = "bury" /\ pc[d] = "bury" /\ hand[c] = hand[d] => c = d
    /\ \A p \in Pid : owner[p] # None => state[p] = "Running"
    /\ \A c \in Cpu : pc[c] = "blocking" => intent[current[c]]
    /\ \A c \in Cpu : pc[c] = "finish" => intent[hand[c]]

(* WakeToken without counting: the places of a wakeup exclude each other,  *)
(* and one of them is taken exactly for the processes that wait.           *)
Due(p) == \E c \in Cpu : p \in due[c]
WakePlaces ==
    /\ \A p \in waiters : sleep[p] = 0 /\ ~pending[p] /\ ~Due(p)
    /\ \A p \in Pid : sleep[p] # 0 => ~pending[p] /\ ~Due(p)
    /\ \A p \in Pid : pending[p] => ~Due(p)
    /\ \A c, d \in Cpu, p \in Pid : p \in due[c] /\ p \in due[d] => c = d
    /\ \A p \in Pid : Waits(p) <=> p \in waiters \/ sleep[p] # 0 \/ pending[p] \/ Due(p)

IInv == TypeOK /\ Control /\ Ownership /\ RunqueueToken /\ WakePlaces

-----------------------------------------------------------------------------
(* The ways in which a step moves the right to dispatch a process.         *)

LEMMA TokenFrame ==
    ASSUME RunqueueToken, runq' = runq,
           \A d \in Cpu, q \in Pid : Held(d, q)' <=> Held(d, q),
           \A q \in Pid : state'[q] = "Runnable" <=> state[q] = "Runnable"
    PROVE  RunqueueToken'
<1>1. \A q \in Pid : Queued(q)' <=> Queued(q)
  BY Zenon DEF Queued
<1>2. RunqueueToken!1'
  BY DEF RunqueueToken
<1> QED  BY Zenon, <1>1, <1>2 DEF RunqueueToken

(* From the hand of a CPU into a queue level.                              *)
LEMMA TokenPush ==
    ASSUME TypeOK, RunqueueToken, NEW c \in Cpu, NEW p \in Pid, Held(c, p),
           NEW k \in Levels, push_at(p, k),
           \A d \in Cpu, q \in Pid : Held(d, q)' <=> Held(d, q) /\ d # c,
           \A q \in Pid : state'[q] = "Runnable" <=> state[q] = "Runnable"
    PROVE  RunqueueToken' /\ runq' \in [Levels -> Seq(Pid)]
<1>1. QueueUnique /\ ~Queued(p)
  BY Zenon DEF RunqueueToken, QueueUnique
<1>2. /\ runq' \in [Levels -> Seq(Pid)]
      /\ QueueUnique'
      /\ \A q \in Pid : Queued(q)' <=> Queued(q) \/ q = p
  BY Zenon, <1>1, PushFacts DEF TypeOK
<1>3. \A q \in Pid : Held(c, q) => q = p
  BY Zenon DEF Held
<1>4. RunqueueToken!1'
  BY Zenon, <1>2 DEF QueueUnique
<1>5. RunqueueToken!2'
  BY Zenon DEF RunqueueToken
<1>6. RunqueueToken!3'
  BY <1>2 DEF RunqueueToken
<1>7. RunqueueToken!4'
  BY <1>2, <1>3 DEF RunqueueToken
<1> QED  BY Zenon, <1>2, <1>4, <1>5, <1>6, <1>7 DEF RunqueueToken

(* From a queue level into the hand of a CPU.                              *)
LEMMA TokenPop ==
    ASSUME TypeOK, RunqueueToken, NEW c \in Cpu, pop(c), pc[c] \notin HandPCs,
           Goto(c, "dispatch"), state' = state
    PROVE  \E p \in Pid :
              /\ state[p] = "Runnable"
              /\ hand' = [hand EXCEPT ![c] = p]
              /\ runq' \in [Levels -> Seq(Pid)]
              /\ RunqueueToken'
<1>1. QueueUnique
  BY Zenon DEF RunqueueToken, QueueUnique
<1>2. PICK p \in Pid :
          /\ Queued(p)
          /\ hand' = [hand EXCEPT ![c] = p]
          /\ runq' \in [Levels -> Seq(Pid)]
          /\ QueueUnique'
          /\ \A q \in Pid : Queued(q)' <=> Queued(q) /\ q # p
  BY Zenon, <1>1, PopFacts DEF TypeOK
<1>3. state[p] = "Runnable" /\ \A d \in Cpu : ~Held(d, p)
  BY Zenon, <1>2 DEF RunqueueToken
<1>4. \A d \in Cpu, q \in Pid : Held(d, q)' <=> Held(d, q) \/ (d = c /\ q = p)
  BY Zenon, <1>2 DEF Held, HandPCs, Goto, TypeOK
<1>5. RunqueueToken!1'
  BY Zenon, <1>2 DEF QueueUnique
<1>6. RunqueueToken!2'
  BY <1>3, <1>4 DEF RunqueueToken
<1>7. RunqueueToken!3'
  BY Zenon, <1>2, <1>4 DEF RunqueueToken
<1>8. RunqueueToken!4'
  BY Zenon, <1>2, <1>3, <1>4 DEF RunqueueToken
<1>9. RunqueueToken'
  BY Zenon, <1>5, <1>6, <1>7, <1>8 DEF RunqueueToken
<1> QED  BY Zenon, <1>2, <1>3, <1>9

(* A process becomes Runnable in the hand of the CPU that will push it.    *)
LEMMA TokenGain ==
    ASSUME RunqueueToken, runq' = runq, NEW c \in Cpu, NEW p \in Pid,
           state[p] # "Runnable",
           \A d \in Cpu, q \in Pid : Held(d, q)' <=> Held(d, q) \/ (d = c /\ q = p),
           \A q \in Pid : state'[q] = "Runnable" <=> state[q] = "Runnable" \/ q = p
    PROVE  RunqueueToken'
<1>1. \A q \in Pid : Queued(q)' <=> Queued(q)
  BY Zenon DEF Queued
<1>2. ~Queued(p) /\ \A d \in Cpu : ~Held(d, p)
  BY Zenon DEF RunqueueToken
<1>3. RunqueueToken!1'
  BY DEF RunqueueToken
<1>4. RunqueueToken!2'
  BY Zenon, <1>2 DEF RunqueueToken
<1>5. RunqueueToken!3'
  BY Zenon, <1>1, <1>2 DEF RunqueueToken
<1>6. RunqueueToken!4'
  BY Zenon, <1>1 DEF RunqueueToken
<1> QED  BY Zenon, <1>3, <1>4, <1>5, <1>6 DEF RunqueueToken

(* The CPU that holds a process claims it.                                 *)
LEMMA TokenLose ==
    ASSUME RunqueueToken, runq' = runq, NEW c \in Cpu, NEW p \in Pid, Held(c, p),
           \A d \in Cpu, q \in Pid : Held(d, q)' <=> Held(d, q) /\ d # c,
           \A q \in Pid : state'[q] = "Runnable" <=> state[q] = "Runnable" /\ q # p
    PROVE  RunqueueToken'
<1>1. \A q \in Pid : Queued(q)' <=> Queued(q)
  BY Zenon DEF Queued
<1>2. ~Queued(p) /\ \A q \in Pid : Held(c, q) => q = p
  BY Zenon DEF RunqueueToken, Held
<1>3. \A d \in Cpu : d # c => ~Held(d, p)
  BY Zenon DEF RunqueueToken
<1>4. RunqueueToken!1'
  BY DEF RunqueueToken
<1>5. RunqueueToken!2' /\ RunqueueToken!3'
  BY Zenon, <1>1 DEF RunqueueToken
<1>6. RunqueueToken!4'
  BY <1>1, <1>2, <1>3 DEF RunqueueToken
<1> QED  BY Zenon, <1>4, <1>5, <1>6 DEF RunqueueToken

-----------------------------------------------------------------------------
(* Steps that leave the wakeups where they are.                            *)

LEMMA WakeFrame ==
    ASSUME WakePlaces, waiters' = waiters, sleep' = sleep, due' = due,
           \A q \in Pid : pending'[q] <=> pending[q],
           \A q \in Pid : Waits(q)' <=> Waits(q), waiters \subseteq Pid
    PROVE  WakePlaces'
BY Zenon DEF WakePlaces, Due

(* Places at which a CPU holds no process and is in no handoff.            *)
PlainPCs == {"pick", "toidle", "wfi", "idlepop", "user", "yield", "exit", "wake",
             "kick", "tick", "panic"}

(* A move between two such places disturbs only Control.                   *)
LEMMA PlainMove ==
    ASSUME IInv, NEW c \in Cpu, NEW l \in PlainPCs, pc[c] \in PlainPCs, Goto(c, l),
           UNCHANGED <<state, owner, intent, pending, runq, current, waiters, sleep,
                       hand, due>>
    PROVE  Ownership' /\ RunqueueToken' /\ WakePlaces'
<1>1. pc' = [pc EXCEPT ![c] = l] /\ pc \in [Cpu -> PCs]
  BY Zenon DEF Goto, IInv, TypeOK
<1>2. Ownership'
  BY <1>1 DEF IInv, Ownership, LeavePCs, PlainPCs
<1>3. \A d \in Cpu, q \in Pid : Held(d, q)' <=> Held(d, q)
  BY Zenon, <1>1 DEF Held, HandPCs, PlainPCs
<1>4. RunqueueToken'
  BY Zenon, <1>3, TokenFrame DEF IInv
<1>5. \A d \in Cpu, q \in Pid : InWindow(d, q)' <=> InWindow(d, q)
  BY Zenon, <1>1 DEF InWindow, PlainPCs
<1>6. \A q \in Pid : Waits(q)' <=> Waits(q)
  BY Zenon, <1>5 DEF Waits
<1>7. WakePlaces'
  BY Zenon, <1>6, WakeFrame DEF IInv, TypeOK
<1> QED  BY Zenon, <1>2, <1>4, <1>7

(* The pop of reschedule and of the idle loop.                             *)
LEMMA PopMove ==
    ASSUME IInv, NEW c \in Cpu, pc[c] \in {"pick", "idlepop"}, pop(c),
           Goto(c, "dispatch"),
           UNCHANGED <<state, owner, intent, pending, level, used, current, idle, sgi,
                       boost, waiters, sleep, due, ret>>
    PROVE  IInv'
<1>1. pc' = [pc EXCEPT ![c] = "dispatch"] /\ TypeOK
  BY Zenon DEF Goto, IInv
<1>2. PICK p \in Pid :
          /\ state[p] = "Runnable"
          /\ hand' = [hand EXCEPT ![c] = p]
          /\ runq' \in [Levels -> Seq(Pid)]
          /\ RunqueueToken'
  BY Zenon, TokenPop DEF IInv, HandPCs
<1>3. TypeOK'
  BY Zenon, <1>1, <1>2 DEF TypeOK, PCs
<1>4. Control'
  BY Zenon, <1>1, <1>2, NoneAssumption
     DEF IInv, TypeOK, Control, CurPCs, FreePCs, WakePCs, HandPCs, OwnPCs
<1>5. Ownership'
  <2>1. \A d \in Cpu : pc'[d] # "dispatch" => pc'[d] = pc[d] /\ hand'[d] = hand[d]
    BY Zenon, <1>1, <1>2 DEF TypeOK
  <2> QED  BY <2>1 DEF IInv, Ownership, LeavePCs
<1>6. \A d \in Cpu, q \in Pid : InWindow(d, q)' <=> InWindow(d, q)
  BY Zenon, <1>1, <1>2 DEF TypeOK, InWindow
<1>7. \A q \in Pid : Waits(q)' <=> Waits(q)
  BY Zenon, <1>6 DEF Waits
<1>8. WakePlaces'
  BY Zenon, <1>7, WakeFrame DEF IInv, TypeOK
<1> QED  BY Zenon, <1>2, <1>3, <1>4, <1>5, <1>8 DEF IInv

(* A process in its register-to-block window is Running and owned by the   *)
(* CPU of the window, so a process that waits is Blocked or Running.       *)
LEMMA WindowFacts ==
    ASSUME IInv, NEW q \in Pid
    PROVE  /\ \A d \in Cpu : InWindow(d, q) => state[q] = "Running" /\ owner[q] = d
           /\ Waits(q) => state[q] \in {"Blocked", "Running"}
<1>1. ASSUME NEW d \in Cpu, InWindow(d, q) PROVE state[q] = "Running" /\ owner[q] = d
  <2>1. CASE current[d] = q
    BY Zenon, <2>1, NoneAssumption DEF IInv, Ownership
  <2>2. CASE pc[d] = "finish" /\ hand[d] = q
    BY Zenon, <2>2 DEF IInv, Ownership, LeavePCs
  <2> QED  BY Zenon, <1>1, <2>1, <2>2 DEF InWindow
<1> QED  BY Zenon, <1>1 DEF Waits

(* A process that does not wait has no latched wakeup.                     *)
LEMMA NoLatch ==
    ASSUME IInv, NEW q \in Pid, ~Waits(q)
    PROVE  ~pending[q] /\ q \notin waiters /\ sleep[q] = 0 /\ ~Due(q)
BY Zenon DEF IInv, WakePlaces

LEMMA InitIInv == Init => IInv
<1> SUFFICES ASSUME Init PROVE IInv
  BY Zenon
<1>1. TypeOK
  BY LevelsFacts, TicksAssumption, BootAssumption DEF Init, TypeOK, States, PCs
<1>2. Control
  BY Zenon DEF Init, Control, CurPCs, FreePCs, WakePCs, HandPCs, OwnPCs
<1>3. Ownership
  BY Zenon DEF Init, Ownership, LeavePCs
<1>4. RunqueueToken
  <2>1. \A c \in Cpu, p \in Pid : ~Held(c, p)
    BY Zenon DEF Init, Held, HandPCs
  <2>2. runq[0] = Boot /\ \A l \in Levels : l # 0 => Len(runq[l]) = 0
    BY Zenon, LevelsFacts DEF Init
  <2>3. \A p \in Pid : Queued(p) <=> p \in Booted
    BY <2>2, LevelsFacts DEF Queued, Booted
  <2>4. RunqueueToken!1
    BY <2>2, LevelsFacts, BootAssumption
  <2>5. RunqueueToken!4
    BY Zenon, <2>1, <2>3 DEF Init
  <2> QED  BY Zenon, <2>1, <2>4, <2>5 DEF RunqueueToken
<1>5. WakePlaces
  <2>1. \A p \in Pid : ~Waits(p) /\ ~Due(p)
    BY Zenon DEF Init, Waits, InWindow, Due
  <2> QED  BY Zenon, <2>1 DEF Init, WakePlaces
<1> QED  BY Zenon, <1>1, <1>2, <1>3, <1>4, <1>5 DEF IInv

-----------------------------------------------------------------------------
LEMMA StutterStep == IInv /\ UNCHANGED vars => IInv'
<1> SUFFICES ASSUME IInv, UNCHANGED vars PROVE IInv'
  BY Zenon
<1>1. UNCHANGED <<state, owner, intent, pending, level, used, runq, current, idle, sgi,
                  boost, waiters, sleep, pc, hand, due, ret>>
  BY Zenon DEF vars, table, waits, locals
<1>2. TypeOK' /\ Control' /\ Ownership'
  BY <1>1 DEF IInv, TypeOK, Control, Ownership
<1>3. \A d \in Cpu, q \in Pid : (Held(d, q)' <=> Held(d, q)) /\ (InWindow(d, q)' <=> InWindow(d, q))
  BY Zenon, <1>1 DEF Held, InWindow
<1>4. RunqueueToken'
  BY Zenon, <1>1, <1>3, TokenFrame DEF IInv
<1>5. WakePlaces'
  BY Zenon, <1>1, <1>3, WakeFrame DEF IInv, TypeOK, Waits
<1> QED  BY Zenon, <1>2, <1>4, <1>5 DEF IInv

LEMMA RescheduleStep == ASSUME IInv, NEW c \in Cpu, reschedule(c) PROVE IInv'
<1>1. CASE pop(c) /\ Goto(c, "dispatch")
  BY Zenon, <1>1, PopMove DEF reschedule, At, table, waits
<1>2. CASE empty /\ Goto(c, "toidle") /\ UNCHANGED <<runq, hand>>
  <2>1. /\ pc[c] = "pick" /\ pc' = [pc EXCEPT ![c] = "toidle"]
        /\ UNCHANGED <<state, owner, intent, pending, level, used, runq, current, idle,
                       sgi, boost, waiters, sleep, hand, due, ret>>
    BY Zenon, <1>2 DEF reschedule, At, Goto, table, waits
  <2>2. Ownership' /\ RunqueueToken' /\ WakePlaces'
    BY Zenon, <2>1, PlainMove DEF PlainPCs, Goto
  <2>3. TypeOK'
    BY Zenon, <2>1 DEF IInv, TypeOK, PCs
  <2>4. Control'
    BY Zenon, <2>1 DEF IInv, TypeOK, Control, CurPCs, FreePCs, WakePCs, HandPCs, OwnPCs
  <2> QED  BY Zenon, <2>2, <2>3, <2>4 DEF IInv
<1> QED  BY Zenon, <1>1, <1>2 DEF reschedule

LEMMA EnterIdleStep == ASSUME IInv, NEW c \in Cpu, enter_idle(c) PROVE IInv'
<1>1. /\ pc[c] = "toidle" /\ pc' = [pc EXCEPT ![c] = "wfi"]
      /\ idle' = [idle EXCEPT ![c] = TRUE]
      /\ current' = [current EXCEPT ![c] = None]
      /\ UNCHANGED <<state, owner, intent, pending, level, used, runq, sgi, boost,
                     waiters, sleep, hand, due, ret>>
  BY Zenon DEF enter_idle, At, Goto, table, waits
<1>2. current' = current
  BY Zenon, <1>1 DEF IInv, TypeOK, Control, FreePCs
<1>3. Ownership' /\ RunqueueToken' /\ WakePlaces'
  BY Zenon, <1>1, <1>2, PlainMove DEF PlainPCs, Goto
<1>4. TypeOK'
  BY Zenon, <1>1, <1>2 DEF IInv, TypeOK, PCs
<1>5. Control'
  BY <1>1, <1>2 DEF IInv, TypeOK, Control, CurPCs, FreePCs, WakePCs, HandPCs, OwnPCs
<1> QED  BY Zenon, <1>3, <1>4, <1>5 DEF IInv

LEMMA IdlePopStep == ASSUME IInv, NEW c \in Cpu, idle_pop(c) PROVE IInv'
<1>1. CASE pop(c) /\ Goto(c, "dispatch")
  BY Zenon, <1>1, PopMove DEF idle_pop, At, table, waits
<1>2. CASE empty /\ Goto(c, "toidle") /\ UNCHANGED <<runq, hand>>
  <2>1. /\ pc[c] = "idlepop" /\ pc' = [pc EXCEPT ![c] = "toidle"]
        /\ UNCHANGED <<state, owner, intent, pending, level, used, runq, current, idle,
                       sgi, boost, waiters, sleep, hand, due, ret>>
    BY Zenon, <1>2 DEF idle_pop, At, Goto, table, waits
  <2>2. Ownership' /\ RunqueueToken' /\ WakePlaces'
    BY Zenon, <2>1, PlainMove DEF PlainPCs, Goto
  <2>3. TypeOK'
    BY Zenon, <2>1 DEF IInv, TypeOK, PCs
  <2>4. Control'
    BY Zenon, <2>1 DEF IInv, TypeOK, Control, CurPCs, FreePCs, WakePCs, HandPCs, OwnPCs
  <2> QED  BY Zenon, <2>2, <2>3, <2>4 DEF IInv
<1> QED  BY Zenon, <1>1, <1>2 DEF idle_pop

LEMMA ClaimRunnableStep == ASSUME IInv, NEW c \in Cpu, claim_runnable(c) PROVE IInv'
<1> DEFINE p == hand[c]
<1>1. pc[c] = "dispatch"
  BY Zenon DEF claim_runnable, At
<1>2. p \in Pid /\ Held(c, p) /\ state[p] = "Runnable"
  BY <1>1 DEF IInv, TypeOK, Control, RunqueueToken, Held, HandPCs
<1>3. /\ owner' = [owner EXCEPT ![p] = c]
      /\ state' = [state EXCEPT ![p] = "Running"]
      /\ intent' = [intent EXCEPT ![p] = FALSE]
      /\ pending' = [pending EXCEPT ![p] = FALSE]
      /\ pc' = [pc EXCEPT ![c] = "claimed"]
      /\ UNCHANGED <<level, used, runq, current, idle, sgi, boost, waiters, sleep,
                     hand, due, ret>>
  BY Zenon, <1>2 DEF claim_runnable, Goto, waits
<1> HIDE DEF p
<1>4. TypeOK'
  <2>1. "Running" \in States /\ "claimed" \in PCs
    BY Zenon DEF States, PCs
  <2> QED  BY <1>3, <2>1, Zenon DEF IInv, TypeOK
<1>5. Control'
  BY Zenon, <1>1, <1>3 DEF IInv, TypeOK, Control, CurPCs, FreePCs, WakePCs, HandPCs, OwnPCs
<1>6. Ownership'
  <2>1. \A d \in Cpu : current[d] # None => current[d] # p
    BY Zenon, <1>2 DEF IInv, Ownership
  <2>2. \A d \in Cpu : pc[d] \in LeavePCs \cup {"bury"} => hand[d] # p
    BY Zenon, <1>2 DEF IInv, Ownership
  <2>3. Ownership!1'
    BY <1>2, <1>3, <2>1 DEF IInv, TypeOK, Ownership
  <2>4. Ownership!2'
    BY <1>1, <1>2, <1>3, <2>2 DEF IInv, TypeOK, Ownership, LeavePCs, p
  <2>5. Ownership!3' /\ Ownership!4'
    BY <1>1, <1>2, <1>3, <2>2 DEF IInv, TypeOK, Ownership
  <2>6. Ownership!5'
    BY <1>2, <1>3 DEF IInv, TypeOK, Ownership
  <2>7. Ownership!6' /\ Ownership!7'
    BY <1>1, <1>2, <1>3, <2>1, <2>2
       DEF IInv, TypeOK, Control, CurPCs, Ownership, LeavePCs
  <2> QED  BY Zenon, <2>3, <2>4, <2>5, <2>6, <2>7 DEF Ownership
<1>7. RunqueueToken'
  <2>1. \A d \in Cpu, q \in Pid : Held(d, q)' <=> Held(d, q) /\ d # c
    BY Zenon, <1>1, <1>3 DEF IInv, TypeOK, Held, HandPCs
  <2>2. \A q \in Pid : state'[q] = "Runnable" <=> state[q] = "Runnable" /\ q # p
    BY Zenon, <1>2, <1>3 DEF IInv, TypeOK
  <2> QED  BY Zenon, <1>2, <1>3, <2>1, <2>2, TokenLose DEF IInv
<1>8. WakePlaces'
  <2>1. ~pending[p]
    BY Zenon, <1>2, WindowFacts, NoLatch
  <2>2. \A q \in Pid : pending'[q] <=> pending[q]
    BY Zenon, <1>3, <2>1 DEF IInv, TypeOK
  <2>3. \A d \in Cpu, q \in Pid : InWindow(d, q)' <=> InWindow(d, q)
    BY Zenon, <1>1, <1>3 DEF IInv, TypeOK, InWindow
  <2>4. \A q \in Pid : state'[q] = "Blocked" <=> state[q] = "Blocked"
    BY Zenon, <1>2, <1>3 DEF IInv, TypeOK
  <2> QED  BY Zenon, <1>3, <2>2, <2>3, <2>4, WakeFrame DEF IInv, TypeOK, Waits
<1> QED  BY Zenon, <1>4, <1>5, <1>6, <1>7, <1>8 DEF IInv

LEMMA EnterUserStep == ASSUME IInv, NEW c \in Cpu, enter_user(c) PROVE IInv'
<1>1. /\ pc[c] = "claimed" /\ pc' = [pc EXCEPT ![c] = "user"]
      /\ used' = [used EXCEPT ![hand[c]] = 0]
      /\ current' = [current EXCEPT ![c] = hand[c]]
      /\ idle' = [idle EXCEPT ![c] = FALSE]
      /\ hand' = [hand EXCEPT ![c] = None]
      /\ UNCHANGED <<state, owner, intent, pending, level, runq, sgi, boost, waiters,
                     sleep, due, ret>>
  BY Zenon DEF enter_user, At, Goto, Take, table, waits
<1>2. hand[c] \in Pid
  BY Zenon, <1>1 DEF IInv, TypeOK, Control, OwnPCs
<1>3. TypeOK'
  BY Zenon, <1>1, <1>2 DEF IInv, TypeOK, PCs
<1>4. Control'
  BY Zenon, <1>1, <1>2, NoneAssumption
     DEF IInv, TypeOK, Control, CurPCs, FreePCs, WakePCs, HandPCs, OwnPCs
<1>5. Ownership'
  BY <1>1, <1>2 DEF IInv, TypeOK, Ownership, LeavePCs
<1>6. \A d \in Cpu, q \in Pid : Held(d, q)' <=> Held(d, q)
  BY Zenon, <1>1 DEF IInv, TypeOK, Held, HandPCs
<1>7. RunqueueToken'
  BY Zenon, <1>1, <1>6, TokenFrame DEF IInv
<1>8. \A d \in Cpu, q \in Pid : InWindow(d, q)' <=> InWindow(d, q)
  BY Zenon, <1>1 DEF IInv, TypeOK, InWindow
<1>9. WakePlaces'
  BY Zenon, <1>1, <1>8, WakeFrame DEF IInv, TypeOK, Waits
<1> QED  BY Zenon, <1>3, <1>4, <1>5, <1>7, <1>9 DEF IInv

LEMMA DetachCurrentStep ==
    ASSUME IInv, NEW c \in Cpu, NEW l1, NEW l2, detach_current(c, l1, l2),
           \/ l1 = "yield" /\ l2 = "release"
           \/ l1 = "blocking" /\ l2 = "finish"
           \/ l1 = "exit" /\ l2 = "disown"
    PROVE  IInv'
<1>1. /\ pc[c] = l1 /\ pc' = [pc EXCEPT ![c] = l2]
      /\ hand' = [hand EXCEPT ![c] = current[c]]
      /\ current' = [current EXCEPT ![c] = None]
      /\ UNCHANGED <<state, owner, intent, pending, level, used, runq, idle, sgi, boost,
                     waiters, sleep, due, ret>>
  BY Zenon DEF detach_current, At, Goto, Take, table, waits
<1>2. current[c] \in Pid
  BY Zenon, <1>1 DEF IInv, TypeOK, Control, CurPCs
<1>3. TypeOK'
  BY Zenon, <1>1, <1>2 DEF IInv, TypeOK, PCs
<1>4. Control'
  BY Zenon, <1>1, <1>2, NoneAssumption
     DEF IInv, TypeOK, Control, CurPCs, FreePCs, WakePCs, HandPCs, OwnPCs
<1>5. Ownership'
  <2>1. state[current[c]] = "Running" /\ owner[current[c]] = c
    BY Zenon, <1>2, NoneAssumption DEF IInv, Ownership
  <2>2. pc[c] = "blocking" => intent[current[c]]
    BY Zenon DEF IInv, Ownership
  <2>3. Ownership!1' /\ Ownership!5'
    BY <1>1 DEF IInv, TypeOK, Ownership
  <2>4. Ownership!2'
    BY <1>1, <2>1 DEF IInv, TypeOK, Ownership, LeavePCs
  <2>5. Ownership!3' /\ Ownership!4'
    BY <1>1 DEF IInv, TypeOK, Ownership
  <2>6. Ownership!6' /\ Ownership!7'
    BY <1>1, <2>2 DEF IInv, TypeOK, Ownership
  <2> QED  BY Zenon, <2>3, <2>4, <2>5, <2>6 DEF Ownership
<1>6. \A d \in Cpu, q \in Pid : Held(d, q)' <=> Held(d, q)
  BY Zenon, <1>1 DEF IInv, TypeOK, Held, HandPCs
<1>7. RunqueueToken'
  BY Zenon, <1>1, <1>6, TokenFrame DEF IInv
<1>8. \A d \in Cpu, q \in Pid : InWindow(d, q)' <=> InWindow(d, q)
  BY Zenon, <1>1 DEF IInv, TypeOK, InWindow
<1>9. WakePlaces'
  BY Zenon, <1>1, <1>8, WakeFrame DEF IInv, TypeOK, Waits
<1> QED  BY Zenon, <1>3, <1>4, <1>5, <1>7, <1>9 DEF IInv

(* The push that ends a yield, a block handoff, a spawn or a wake.         *)
LEMMA PushMove ==
    ASSUME IInv, NEW c \in Cpu, NEW k \in Levels, NEW l \in {"pick", "user", "kick"},
           \/ pc[c] \in {"push", "requeue"} /\ l = "pick"
           \/ pc[c] = "enqueue" /\ l = "user"
           \/ pc[c] = "wakepush" /\ l = "kick",
           push_at(hand[c], k), Take(c, None), Goto(c, l), level' \in [Pid -> Levels],
           used' \in [Pid -> Nat],
           UNCHANGED <<state, owner, intent, pending, current, idle, sgi, boost,
                       waiters, sleep, due, ret>>
    PROVE  IInv'
<1>1. pc' = [pc EXCEPT ![c] = l] /\ hand' = [hand EXCEPT ![c] = None]
  BY Zenon DEF Goto, Take
<1>2. hand[c] \in Pid /\ Held(c, hand[c])
  BY Zenon DEF IInv, TypeOK, Control, HandPCs, Held
<1>3. \A d \in Cpu, q \in Pid : Held(d, q)' <=> Held(d, q) /\ d # c
  BY Zenon, <1>1 DEF IInv, TypeOK, Held, HandPCs
<1>4. RunqueueToken' /\ runq' \in [Levels -> Seq(Pid)]
  BY Zenon, <1>2, <1>3, TokenPush DEF IInv
<1>5. TypeOK'
  BY Zenon, <1>1, <1>4 DEF IInv, TypeOK, PCs
<1>6. Control'
  BY Zenon, <1>1 DEF IInv, TypeOK, Control, CurPCs, FreePCs, WakePCs, HandPCs, OwnPCs
<1>7. Ownership'
  BY <1>1 DEF IInv, TypeOK, Ownership, LeavePCs
<1>8. \A d \in Cpu, q \in Pid : InWindow(d, q)' <=> InWindow(d, q)
  BY Zenon, <1>1 DEF IInv, TypeOK, InWindow
<1>9. WakePlaces'
  BY Zenon, <1>8, WakeFrame DEF IInv, TypeOK, Waits
<1> QED  BY Zenon, <1>4, <1>5, <1>6, <1>7, <1>9 DEF IInv

LEMMA YieldPushStep == ASSUME IInv, NEW c \in Cpu, yield_push(c) PROVE IInv'
<1> DEFINE p == hand[c]
           k == next_level(level[p])
<1>1. /\ pc[c] = "push"
      /\ level' = [level EXCEPT ![p] = k]
      /\ used' = [used EXCEPT ![p] = 0]
      /\ push_at(p, k) /\ Take(c, None) /\ Goto(c, "pick")
      /\ UNCHANGED <<state, owner, intent, pending, current, idle, sgi, boost, waiters,
                     sleep, due, ret>>
  BY Zenon DEF yield_push, At, table, waits
<1>2. p \in Pid
  BY Zenon, <1>1 DEF IInv, TypeOK, Control, HandPCs
<1>3. k \in Levels
  BY Zenon, <1>2, LevelsFacts DEF IInv, TypeOK
<1>4. level' \in [Pid -> Levels] /\ used' \in [Pid -> Nat]
  <2> HIDE DEF p, k
  <2> QED  BY Zenon, <1>1, <1>3 DEF IInv, TypeOK
<1> HIDE DEF k
<1> QED  BY Zenon, <1>1, <1>3, <1>4, PushMove

LEMMA EnqueueStep == ASSUME IInv, NEW c \in Cpu, enqueue(c) PROVE IInv'
<1> DEFINE l == IF pc[c] = "requeue" THEN "pick" ELSE "user"
<1>1. /\ pc[c] \in {"requeue", "enqueue"}
      /\ level' = [level EXCEPT ![hand[c]] = 0]
      /\ push_at(hand[c], 0) /\ Take(c, None) /\ Goto(c, l)
      /\ UNCHANGED <<state, owner, intent, pending, used, current, idle, sgi, boost,
                     waiters, sleep, due, ret>>
  BY Zenon DEF enqueue, At, table, waits
<1>2. level' \in [Pid -> Levels] /\ used' \in [Pid -> Nat]
  BY Zenon, <1>1, LevelsFacts DEF IInv, TypeOK
<1> QED  BY Zenon, <1>1, <1>2, LevelsFacts, PushMove

LEMMA WakePushStep == ASSUME IInv, NEW c \in Cpu, wake_push(c) PROVE IInv'
<1>1. /\ pc[c] = "wakepush"
      /\ level' = [level EXCEPT ![hand[c]] = 0]
      /\ push_at(hand[c], 0) /\ Take(c, None) /\ Goto(c, "kick")
      /\ UNCHANGED <<state, owner, intent, pending, used, current, idle, sgi, boost,
                     waiters, sleep, due, ret>>
  BY Zenon DEF wake_push, At, table, waits
<1>2. level' \in [Pid -> Levels] /\ used' \in [Pid -> Nat]
  BY Zenon, <1>1, LevelsFacts DEF IInv, TypeOK
<1> QED  BY Zenon, <1>1, <1>2, LevelsFacts, PushMove

LEMMA SpawnStep == ASSUME IInv, NEW c \in Cpu, spawn(c) PROVE IInv'
<1>1. PICK p \in Pid : state[p] = "Free" /\ state' = [state EXCEPT ![p] = "Runnable"]
                       /\ hand' = [hand EXCEPT ![c] = p]
  BY Zenon DEF spawn, Take
<1>2. /\ pc[c] = "user" /\ pc' = [pc EXCEPT ![c] = "enqueue"]
      /\ UNCHANGED <<owner, intent, pending, level, used, runq, current, idle, sgi, boost,
                     waiters, sleep, due, ret>>
  BY Zenon DEF spawn, At, Goto, waits
<1>3. TypeOK'
  <2>1. "Runnable" \in States /\ "enqueue" \in PCs
    BY Zenon DEF States, PCs
  <2> QED  BY Zenon, <1>1, <1>2, <2>1 DEF IInv, TypeOK
<1>4. Control'
  BY Zenon, <1>1, <1>2, NoneAssumption
     DEF IInv, TypeOK, Control, CurPCs, FreePCs, WakePCs, HandPCs, OwnPCs
<1>5. Ownership'
  <2>1. \A q \in Pid : state[q] = "Running" => state'[q] = "Running"
    BY Zenon, <1>1 DEF IInv, TypeOK
  <2>2. Ownership!1' /\ Ownership!5'
    BY <1>2, <2>1 DEF IInv, TypeOK, Ownership
  <2>3. Ownership!2' /\ Ownership!3'
    BY <1>1, <1>2, <2>1 DEF IInv, TypeOK, Control, OwnPCs, Ownership, LeavePCs
  <2>4. Ownership!4' /\ Ownership!6' /\ Ownership!7'
    BY <1>1, <1>2 DEF IInv, TypeOK, Ownership
  <2> QED  BY Zenon, <2>2, <2>3, <2>4 DEF Ownership
<1>6. RunqueueToken'
  <2>1. \A d \in Cpu, q \in Pid : Held(d, q)' <=> Held(d, q) \/ (d = c /\ q = p)
    BY Zenon, <1>1, <1>2 DEF IInv, TypeOK, Held, HandPCs
  <2>2. \A q \in Pid : state'[q] = "Runnable" <=> state[q] = "Runnable" \/ q = p
    BY Zenon, <1>1 DEF IInv, TypeOK
  <2> QED  BY Zenon, <1>1, <1>2, <2>1, <2>2, TokenGain DEF IInv
<1>7. WakePlaces'
  <2>1. \A d \in Cpu, q \in Pid : InWindow(d, q)' <=> InWindow(d, q)
    BY Zenon, <1>1, <1>2 DEF IInv, TypeOK, InWindow
  <2>2. \A q \in Pid : state'[q] = "Blocked" <=> state[q] = "Blocked"
    BY Zenon, <1>1 DEF IInv, TypeOK
  <2> QED  BY Zenon, <1>2, <2>1, <2>2, WakeFrame DEF IInv, TypeOK, Waits
<1> QED  BY Zenon, <1>3, <1>4, <1>5, <1>6, <1>7 DEF IInv

LEMMA TickAccountStep == ASSUME IInv, NEW c \in Cpu, tick_account(c) PROVE IInv'
<1> DEFINE p == current[c]
           lv == IF boost >= BOOST_EVERY_TICKS THEN boosted(level) ELSE level
           expired == used[p] + 1 >= slice_for_level(lv[p])
           l == IF p = None THEN "idlepop" ELSE IF expired THEN "yield" ELSE "user"
<1>1. /\ pc[c] = "tick" /\ pc' = [pc EXCEPT ![c] = l]
      /\ boost' = (IF boost >= BOOST_EVERY_TICKS THEN 0 ELSE boost)
      /\ idle' = (IF p = None THEN [idle EXCEPT ![c] = FALSE] ELSE idle)
      /\ UNCHANGED <<state, owner, intent, pending, runq, current, sgi, waiters, sleep,
                     hand, due, ret>>
  BY Zenon DEF tick_account, At, Goto, table, waits
<1>2. /\ p = None => level' = lv /\ used' = used
      /\ p # None /\ expired => /\ level' = [lv EXCEPT ![p] = next_level(lv[p])]
                                /\ used' = [used EXCEPT ![p] = 0]
      /\ p # None /\ ~expired => level' = lv /\ used' = [used EXCEPT ![p] = used[p] + 1]
  BY Zenon DEF tick_account
<1>3. lv \in [Pid -> Levels]
  BY Zenon, LevelsFacts DEF IInv, TypeOK, boosted
<1> HIDE DEF lv, expired
<1>4. p \in Pid \cup {None} /\ (p \in Pid => next_level(lv[p]) \in Levels)
  BY Zenon, <1>3, LevelsFacts DEF IInv, TypeOK
<1>5. level' \in [Pid -> Levels] /\ used' \in [Pid -> Nat]
  <2>1. CASE p = None
    BY Zenon, <1>2, <1>3, <2>1 DEF IInv, TypeOK
  <2>2. CASE p # None /\ expired
    <3>1. p \in Pid /\ next_level(lv[p]) \in Levels
      BY Zenon, <1>4, <2>2
    <3> HIDE DEF p
    <3>2. level' \in [Pid -> Levels]
      BY Zenon, <1>2, <1>3, <2>2, <3>1
    <3>3. used' = [used EXCEPT ![p] = 0] /\ used \in [Pid -> Nat]
      BY Zenon, <1>2, <2>2 DEF IInv, TypeOK
    <3>4. used' \in [Pid -> Nat]
      BY Zenon, <3>3
    <3> QED  BY Zenon, <3>2, <3>4
  <2>3. CASE p # None /\ ~expired
    <3>1. used[p] + 1 \in Nat
      BY <1>4, <2>3 DEF IInv, TypeOK
    <3> HIDE DEF p
    <3> QED  BY ZenonT(30), <1>2, <1>3, <1>4, <2>3, <3>1 DEF IInv, TypeOK
  <2> QED  BY Zenon, <2>1, <2>2, <2>3
<1>6. l \in PlainPCs /\ l \in PCs
  BY Zenon DEF PlainPCs, PCs
<1>7. TypeOK'
  <2>1. boost' \in Nat /\ idle' \in [Cpu -> BOOLEAN]
    BY Zenon, <1>1 DEF IInv, TypeOK
  <2>2. pc' \in [Cpu -> PCs]
    <3> HIDE DEF l
    <3> QED  BY Zenon, <1>1, <1>6 DEF IInv, TypeOK
  <2> QED  BY Zenon, <1>1, <1>5, <2>1, <2>2 DEF IInv, TypeOK
<1>8. Control'
  BY <1>1 DEF IInv, TypeOK, Control, CurPCs, FreePCs, WakePCs, HandPCs, OwnPCs
<1>9. Ownership' /\ RunqueueToken' /\ WakePlaces'
  <2>1. pc[c] \in PlainPCs /\ Goto(c, l)
    BY Zenon, <1>1 DEF PlainPCs, Goto
  <2> HIDE DEF l
  <2> QED  BY Zenon, <1>1, <1>6, <2>1, PlainMove
<1> QED  BY Zenon, <1>7, <1>8, <1>9 DEF IInv

LEMMA KickStep == ASSUME IInv, NEW c \in Cpu, kick_idle_cores(c) PROVE IInv'
<1>1. /\ pc[c] = "kick" /\ pc' = [pc EXCEPT ![c] = "wake"]
      /\ sgi' \in [Cpu -> BOOLEAN]
      /\ UNCHANGED <<state, owner, intent, pending, level, used, runq, current, idle,
                     boost, waiters, sleep, hand, due, ret>>
  BY Zenon DEF kick_idle_cores, At, Goto, table, waits, IInv, TypeOK
<1>2. Ownership' /\ RunqueueToken' /\ WakePlaces'
  BY Zenon, <1>1, PlainMove DEF PlainPCs, Goto
<1>3. TypeOK'
  BY Zenon, <1>1 DEF IInv, TypeOK, PCs
<1>4. Control'
  BY Zenon, <1>1 DEF IInv, TypeOK, Control, CurPCs, FreePCs, WakePCs, HandPCs, OwnPCs
<1> QED  BY Zenon, <1>2, <1>3, <1>4 DEF IInv

LEMMA WokenStep == ASSUME IInv, NEW c \in Cpu, woken(c) PROVE IInv'
<1>1. /\ pc[c] = "wake" /\ due[c] = {} /\ pc' = [pc EXCEPT ![c] = ret[c]]
      /\ ret' = [ret EXCEPT ![c] = "pick"]
      /\ UNCHANGED <<state, owner, intent, pending, level, used, runq, current, idle,
                     sgi, boost, waiters, sleep, hand, due>>
  BY Zenon DEF woken, At, Goto, table, waits
<1>2. ret[c] \in {"user", "tick", "pick"}
  BY Zenon DEF IInv, TypeOK
<1>3. Ownership' /\ RunqueueToken' /\ WakePlaces'
  BY Zenon, <1>1, <1>2, PlainMove DEF PlainPCs, Goto
<1>4. TypeOK'
  BY Zenon, <1>1, <1>2 DEF IInv, TypeOK, PCs
<1>5. Control'
  BY <1>1, <1>2 DEF IInv, TypeOK, Control, CurPCs, FreePCs, WakePCs, HandPCs, OwnPCs
<1> QED  BY Zenon, <1>3, <1>4, <1>5 DEF IInv

LEMMA ReschedIrqStep == ASSUME IInv, NEW c \in Cpu, resched_irq(c) PROVE IInv'
<1> DEFINE l == IF pc[c] = "user" THEN "yield" ELSE "pick"
<1>1. pc[c] \in {"user", "wfi"} /\ pc' = [pc EXCEPT ![c] = l]
  BY Zenon DEF resched_irq, At, Goto
<1>2. /\ sgi' = [sgi EXCEPT ![c] = FALSE]
      /\ UNCHANGED <<state, owner, intent, pending, level, used, runq, current, idle,
                     boost, waiters, sleep, hand, due, ret>>
  BY Zenon DEF resched_irq, At, Goto, table, waits
<1>3. Ownership' /\ RunqueueToken' /\ WakePlaces'
  BY Zenon, <1>1, <1>2, PlainMove DEF PlainPCs, Goto
<1>4. TypeOK'
  BY Zenon, <1>1, <1>2 DEF IInv, TypeOK, PCs
<1>5. Control'
  BY <1>1, <1>2 DEF IInv, TypeOK, Control, CurPCs, FreePCs, WakePCs, HandPCs, OwnPCs
<1> QED  BY Zenon, <1>3, <1>4, <1>5 DEF IInv

LEMMA YieldOrExitStep == ASSUME IInv, NEW c \in Cpu, yield_or_exit(c) PROVE IInv'
<1>1. PICK l \in {"yield", "exit"} : pc' = [pc EXCEPT ![c] = l]
  BY Zenon DEF yield_or_exit, Goto
<1>2. /\ pc[c] = "user"
      /\ UNCHANGED <<state, owner, intent, pending, level, used, runq, current, idle,
                     sgi, boost, waiters, sleep, hand, due, ret>>
  BY Zenon DEF yield_or_exit, At, Goto, table, waits
<1>3. Ownership' /\ RunqueueToken' /\ WakePlaces'
  BY Zenon, <1>1, <1>2, PlainMove DEF PlainPCs, Goto
<1>4. TypeOK'
  BY Zenon, <1>1, <1>2 DEF IInv, TypeOK, PCs
<1>5. Control'
  BY Zenon, <1>1, <1>2 DEF IInv, TypeOK, Control, CurPCs, FreePCs, WakePCs, HandPCs, OwnPCs
<1> QED  BY Zenon, <1>3, <1>4, <1>5 DEF IInv

LEMMA PanicStep == ASSUME IInv, NEW c \in Cpu, sleep_queue_panic(c) PROVE IInv'
<1>1. /\ pc[c] \in {"user", "wfi"} /\ pc' = [pc EXCEPT ![c] = "panic"]
      /\ UNCHANGED <<state, owner, intent, pending, level, used, runq, current, idle,
                     sgi, boost, waiters, sleep, hand, due, ret>>
  BY Zenon DEF sleep_queue_panic, At, Goto, table, waits
<1>2. Ownership' /\ RunqueueToken' /\ WakePlaces'
  BY Zenon, <1>1, PlainMove DEF PlainPCs, Goto
<1>3. TypeOK'
  BY Zenon, <1>1 DEF IInv, TypeOK, PCs
<1>4. Control'
  BY Zenon, <1>1 DEF IInv, TypeOK, Control, CurPCs, FreePCs, WakePCs, HandPCs, OwnPCs
<1> QED  BY Zenon, <1>2, <1>3, <1>4 DEF IInv

-----------------------------------------------------------------------------

(* Who owns the process a CPU runs, leaves or buries.                      *)
LEMMA OwnerOf ==
    ASSUME Ownership, NEW d \in Cpu
    PROVE  /\ current[d] # None => owner[current[d]] = d
           /\ pc[d] \in LeavePCs => owner[hand[d]] = d
           /\ pc[d] = "bury" => owner[hand[d]] = None
           /\ \A c \in Cpu : pc[c] = "bury" /\ pc[d] = "bury" /\ hand[c] = hand[d] => c = d
BY Zenon DEF Ownership

(* A CPU that gives up the process in its hand (release_running,           *)
(* finish_block) disturbs the ownership of no other CPU.                   *)
LEMMA ReleaseOwnership ==
    ASSUME TypeOK, Control, Ownership, NEW c \in Cpu, pc[c] \in {"release", "finish"},
           NEW l \in {"push", "requeue", "pick"}, NEW s \in States, s # "Running",
           owner' = [owner EXCEPT ![hand[c]] = None],
           state' = [state EXCEPT ![hand[c]] = s],
           intent' = [intent EXCEPT ![hand[c]] = FALSE],
           pc' = [pc EXCEPT ![c] = l], current' = current,
           hand' \in [Cpu -> Pid \cup {None}], \A d \in Cpu : d # c => hand'[d] = hand[d]
    PROVE  Ownership'
<1> DEFINE p == hand[c]
<1>1. p \in Pid /\ state[p] = "Running" /\ owner[p] = c /\ current[c] = None
  BY Zenon DEF TypeOK, Control, OwnPCs, FreePCs, Ownership, LeavePCs
<1>2. \A d \in Cpu : current[d] # None => current[d] # p
  BY Zenon, <1>1, OwnerOf
<1>3. \A d \in Cpu : d # c /\ pc[d] \in LeavePCs \cup {"bury"} => hand[d] # p
  BY Zenon, <1>1, OwnerOf, NoneAssumption
<1> HIDE DEF p
<1>4. Ownership!1'
  BY <1>1, <1>2 DEF TypeOK, Ownership, p
<1>5. Ownership!2'
  BY <1>1, <1>3 DEF TypeOK, Ownership, LeavePCs, p
<1>6. Ownership!3' /\ Ownership!4'
  BY <1>1, <1>3 DEF TypeOK, Ownership, p
<1>7. Ownership!5'
  BY <1>1 DEF TypeOK, Ownership, p
<1>8. Ownership!6' /\ Ownership!7'
  BY <1>1, <1>2, <1>3 DEF TypeOK, Control, CurPCs, Ownership, LeavePCs, p
<1> QED  BY Zenon, <1>4, <1>5, <1>6, <1>7, <1>8 DEF Ownership

LEMMA ReleaseRunningStep == ASSUME IInv, NEW c \in Cpu, release_running(c) PROVE IInv'
<1> DEFINE p == hand[c]
<1>1. pc[c] = "release"
  BY Zenon DEF release_running, At
<1>2. p \in Pid /\ state[p] = "Running" /\ owner[p] = c
  BY <1>1 DEF IInv, TypeOK, Control, OwnPCs, Ownership, LeavePCs
<1>3. /\ owner' = [owner EXCEPT ![p] = None]
      /\ state' = [state EXCEPT ![p] = "Runnable"]
      /\ intent' = [intent EXCEPT ![p] = FALSE]
      /\ pending' = [pending EXCEPT ![p] = FALSE]
      /\ pc' = [pc EXCEPT ![c] = "push"]
      /\ UNCHANGED <<level, used, runq, current, idle, sgi, boost, waiters, sleep,
                     hand, due, ret>>
  BY Zenon, <1>2 DEF release_running, Goto, waits
<1> HIDE DEF p
<1>4. TypeOK'
  <2>1. "Runnable" \in States /\ "push" \in PCs
    BY Zenon DEF States, PCs
  <2> QED  BY <1>3, <2>1, Zenon DEF IInv, TypeOK
<1>5. Control'
  BY Zenon, <1>1, <1>3 DEF IInv, TypeOK, Control, CurPCs, FreePCs, WakePCs, HandPCs, OwnPCs
<1>6. Ownership'
  <2>1. "Runnable" \in States /\ "push" \in {"push", "requeue", "pick"}
    BY Zenon DEF States
  <2>2. TypeOK /\ Control /\ Ownership /\ hand' \in [Cpu -> Pid \cup {None}]
    BY Zenon, <1>3 DEF IInv, TypeOK
  <2> QED  BY Zenon, <1>1, <1>3, <2>1, <2>2, ReleaseOwnership DEF p
<1>7. RunqueueToken'
  <2>1. \A d \in Cpu, q \in Pid : Held(d, q)' <=> Held(d, q) \/ (d = c /\ q = p)
    BY Zenon, <1>1, <1>3 DEF IInv, TypeOK, Held, HandPCs, p
  <2>2. \A q \in Pid : state'[q] = "Runnable" <=> state[q] = "Runnable" \/ q = p
    BY Zenon, <1>2, <1>3 DEF IInv, TypeOK
  <2> QED  BY Zenon, <1>2, <1>3, <2>1, <2>2, TokenGain DEF IInv
<1>8. WakePlaces'
  <2>1. ~Waits(p)
    BY Zenon, <1>1, <1>2, WindowFacts DEF Waits, InWindow
  <2>2. \A q \in Pid : pending'[q] <=> pending[q]
    BY Zenon, <1>2, <1>3, <2>1, NoLatch DEF IInv, TypeOK
  <2>3. \A d \in Cpu, q \in Pid : InWindow(d, q)' <=> InWindow(d, q)
    BY Zenon, <1>1, <1>3 DEF IInv, TypeOK, InWindow
  <2>4. \A q \in Pid : state'[q] = "Blocked" <=> state[q] = "Blocked"
    BY Zenon, <1>2, <1>3 DEF IInv, TypeOK
  <2> QED  BY Zenon, <1>3, <2>2, <2>3, <2>4, WakeFrame DEF IInv, TypeOK, Waits
<1> QED  BY Zenon, <1>4, <1>5, <1>6, <1>7, <1>8 DEF IInv

LEMMA RegisterStep == ASSUME IInv, NEW c \in Cpu, register(c) PROVE IInv'
<1> DEFINE p == current[c]
<1>1. /\ pc[c] = "user" /\ pc' = [pc EXCEPT ![c] = "registered"]
      /\ UNCHANGED <<state, owner, intent, pending, level, used, runq, current, idle,
                     sgi, boost, hand, due, ret>>
      /\ \/ waiters' = waiters \cup {p} /\ sleep' = sleep
         \/ waiters' = waiters /\ \E n \in 1 .. MaxSleep : sleep' = [sleep EXCEPT ![p] = n]
  BY Zenon DEF register, At, Goto, table
<1>2. p \in Pid /\ state[p] = "Running" /\ owner[p] = c
  BY <1>1, NoneAssumption DEF IInv, TypeOK, Control, CurPCs, Ownership
<1> HIDE DEF p
<1>3. TypeOK'
  <2>1. waiters' \subseteq Pid /\ sleep' \in [Pid -> 0 .. MaxSleep]
    BY <1>1, <1>2 DEF IInv, TypeOK
  <2> QED  BY Zenon, <1>1, <2>1 DEF IInv, TypeOK, PCs
<1>4. Control'
  BY Zenon, <1>1 DEF IInv, TypeOK, Control, CurPCs, FreePCs, WakePCs, HandPCs, OwnPCs
<1>5. Ownership'
  BY <1>1 DEF IInv, TypeOK, Ownership, LeavePCs
<1>6. RunqueueToken'
  <2>1. \A d \in Cpu, q \in Pid : Held(d, q)' <=> Held(d, q)
    BY Zenon, <1>1 DEF IInv, TypeOK, Held, HandPCs
  <2> QED  BY Zenon, <1>1, <2>1, TokenFrame DEF IInv
<1>7. WakePlaces'
  <2>1. ~Waits(p)
    BY Zenon, <1>1, <1>2, WindowFacts DEF Waits, InWindow
  <2>2. ~pending[p] /\ p \notin waiters /\ sleep[p] = 0 /\ ~Due(p)
    BY Zenon, <1>2, <2>1, NoLatch
  <2>3. \A d \in Cpu, q \in Pid : InWindow(d, q)' <=> InWindow(d, q) \/ (d = c /\ q = p)
    BY Zenon, <1>1 DEF IInv, TypeOK, InWindow, p
  <2>4. \A q \in Pid : Waits(q)' <=> Waits(q) \/ q = p
    BY Zenon, <1>1, <2>3 DEF Waits
  <2>5. \A q \in Pid : Due(q)' <=> Due(q)
    BY Zenon, <1>1 DEF Due
  <2>6. CASE waiters' = waiters \cup {p} /\ sleep' = sleep
    BY Zenon, <1>1, <1>2, <2>2, <2>4, <2>5, <2>6 DEF IInv, TypeOK, WakePlaces
  <2>7. ASSUME waiters' = waiters, NEW n \in 1 .. MaxSleep, sleep' = [sleep EXCEPT ![p] = n]
        PROVE  WakePlaces'
    <3>1. \A q \in Pid : sleep'[q] # 0 <=> sleep[q] # 0 \/ q = p
      BY <1>2, <2>7 DEF IInv, TypeOK
    <3> QED  BY <1>1, <1>2, <2>2, <2>4, <2>5, <2>7, <3>1 DEF IInv, TypeOK, WakePlaces
  <2> QED  BY Zenon, <1>1, <2>6, <2>7
<1> QED  BY Zenon, <1>3, <1>4, <1>5, <1>6, <1>7 DEF IInv

LEMMA BeginBlockStep == ASSUME IInv, NEW c \in Cpu, begin_block(c) PROVE IInv'
<1>1. /\ pc[c] = "registered" /\ pc' = [pc EXCEPT ![c] = "blocking"]
      /\ intent' = [intent EXCEPT ![current[c]] = TRUE]
      /\ UNCHANGED <<state, owner, pending, level, used, runq, current, idle, sgi, boost,
                     waiters, sleep, hand, due, ret>>
  BY Zenon DEF begin_block, At, Goto, waits
<1>2. current[c] \in Pid
  BY Zenon, <1>1 DEF IInv, TypeOK, Control, CurPCs
<1>3. TypeOK'
  BY Zenon, <1>1 DEF IInv, TypeOK, PCs
<1>4. Control'
  BY Zenon, <1>1 DEF IInv, TypeOK, Control, CurPCs, FreePCs, WakePCs, HandPCs, OwnPCs
<1>5. Ownership'
  <2>1. \A q \in Pid : intent[q] => intent'[q]
    BY Zenon, <1>1 DEF IInv, TypeOK
  <2>2. intent'[current[c]]
    BY Zenon, <1>1, <1>2 DEF IInv, TypeOK
  <2>3. Ownership!6' /\ Ownership!7'
    BY <1>1, <2>1, <2>2 DEF IInv, TypeOK, Control, CurPCs, OwnPCs, Ownership
  <2> QED  BY SMTT(30), <1>1, <2>3 DEF IInv, TypeOK, Ownership, LeavePCs
<1>6. \A d \in Cpu, q \in Pid : Held(d, q)' <=> Held(d, q)
  BY Zenon, <1>1 DEF IInv, TypeOK, Held, HandPCs
<1>7. RunqueueToken'
  BY Zenon, <1>1, <1>6, TokenFrame DEF IInv
<1>8. \A d \in Cpu, q \in Pid : InWindow(d, q)' <=> InWindow(d, q)
  BY Zenon, <1>1 DEF IInv, TypeOK, InWindow
<1>9. WakePlaces'
  BY Zenon, <1>1, <1>8, WakeFrame DEF IInv, TypeOK, Waits
<1> QED  BY Zenon, <1>3, <1>4, <1>5, <1>7, <1>9 DEF IInv

LEMMA FinishBlockStep == ASSUME IInv, NEW c \in Cpu, finish_block(c) PROVE IInv'
<1> DEFINE p == hand[c]
           s == IF pending[p] THEN "Runnable" ELSE "Blocked"
           l == IF pending[p] THEN "requeue" ELSE "pick"
<1>1. /\ pc[c] = "finish" /\ pc' = [pc EXCEPT ![c] = l]
      /\ owner' = [owner EXCEPT ![p] = None]
      /\ intent' = [intent EXCEPT ![p] = FALSE]
      /\ pending' = [pending EXCEPT ![p] = FALSE]
      /\ state' = [state EXCEPT ![p] = s]
      /\ hand' = IF pending[p] THEN hand ELSE [hand EXCEPT ![c] = None]
      /\ UNCHANGED <<level, used, runq, current, idle, sgi, boost, waiters, sleep, due, ret>>
  BY Zenon DEF finish_block, At, Goto, Take, waits
<1>2. p \in Pid /\ state[p] = "Running" /\ owner[p] = c /\ InWindow(c, p)
  BY <1>1 DEF IInv, TypeOK, Control, OwnPCs, Ownership, LeavePCs, InWindow
<1>3. s \in States /\ s # "Running" /\ l \in {"push", "requeue", "pick"} /\ l \in PCs
  BY Zenon DEF States, PCs
<1>4. \A d \in Cpu : d # c => hand'[d] = hand[d]
  BY Zenon, <1>1 DEF IInv, TypeOK
<1>5. hand' \in [Cpu -> Pid \cup {None}]
  BY Zenon, <1>1 DEF IInv, TypeOK
<1>6. TypeOK'
  <2> HIDE DEF p, s, l
  <2> QED  BY <1>1, <1>3, <1>5, Zenon DEF IInv, TypeOK
<1>7. Control'
  BY <1>1, <1>2, <1>4 DEF IInv, TypeOK, Control, CurPCs, FreePCs, WakePCs, HandPCs, OwnPCs
<1>8. Ownership'
  <2>1. TypeOK /\ Control /\ Ownership
    BY Zenon DEF IInv
  <2> HIDE DEF s, l
  <2> QED  BY Zenon, <1>1, <1>3, <1>4, <1>5, <2>1, ReleaseOwnership
<1>9. \A d \in Cpu, q \in Pid : d # c /\ q = p => ~InWindow(d, q) /\ ~InWindow(d, q)'
  <2>1. \A d \in Cpu : d # c => ~InWindow(d, p)
    BY Zenon, <1>2, WindowFacts
  <2>2. \A d \in Cpu : d # c => pc'[d] = pc[d]
    BY Zenon, <1>1 DEF IInv, TypeOK
  <2> QED  BY Zenon, <1>1, <1>4, <2>1, <2>2 DEF InWindow
<1>10. \A d \in Cpu, q \in Pid : q # p => (InWindow(d, q)' <=> InWindow(d, q))
  BY Zenon, <1>1, <1>4 DEF IInv, TypeOK, InWindow
<1>11. \A q \in Pid : ~InWindow(c, q)'
  BY Zenon, <1>1 DEF IInv, TypeOK, InWindow
<1>12. CASE pending[p]
  <2>1. RunqueueToken'
    <3>1. \A d \in Cpu, q \in Pid : Held(d, q)' <=> Held(d, q) \/ (d = c /\ q = p)
      BY Zenon, <1>1, <1>12 DEF IInv, TypeOK, Held, HandPCs
    <3>2. \A q \in Pid : state'[q] = "Runnable" <=> state[q] = "Runnable" \/ q = p
      BY Zenon, <1>1, <1>2, <1>12 DEF IInv, TypeOK
    <3> QED  BY Zenon, <1>1, <1>2, <3>1, <3>2, TokenGain DEF IInv
  <2>2. WakePlaces'
    <3>1. \A q \in Pid : pending'[q] <=> pending[q] /\ q # p
      BY Zenon, <1>1, <1>2 DEF IInv, TypeOK
    <3>2. \A q \in Pid : state'[q] = "Blocked" <=> state[q] = "Blocked" /\ q # p
      BY Zenon, <1>1, <1>2, <1>12 DEF IInv, TypeOK
    <3>3. \A q \in Pid : Waits(q)' <=> Waits(q) /\ q # p
      BY Zenon, <1>9, <1>10, <1>11, <3>2 DEF Waits
    <3>4. \A q \in Pid : Due(q)' <=> Due(q)
      BY Zenon, <1>1 DEF Due
    <3> QED  BY SMTT(30), <1>1, <1>2, <1>12, <3>1, <3>3, <3>4 DEF IInv, TypeOK, WakePlaces
  <2> QED  BY Zenon, <1>6, <1>7, <1>8, <2>1, <2>2 DEF IInv
<1>13. CASE ~pending[p]
  <2>1. RunqueueToken'
    <3>1. \A d \in Cpu, q \in Pid : Held(d, q)' <=> Held(d, q)
      BY Zenon, <1>1, <1>13 DEF IInv, TypeOK, Held, HandPCs
    <3>2. \A q \in Pid : state'[q] = "Runnable" <=> state[q] = "Runnable"
      BY Zenon, <1>1, <1>2, <1>13 DEF IInv, TypeOK
    <3> QED  BY Zenon, <1>1, <3>1, <3>2, TokenFrame DEF IInv
  <2>2. WakePlaces'
    <3>1. \A q \in Pid : pending'[q] <=> pending[q]
      BY Zenon, <1>1, <1>2, <1>13 DEF IInv, TypeOK
    <3>2. \A q \in Pid : state'[q] = "Blocked" <=> state[q] = "Blocked" \/ q = p
      BY Zenon, <1>1, <1>2, <1>13 DEF IInv, TypeOK
    <3>3. \A q \in Pid : Waits(q)' <=> Waits(q)
      BY Zenon, <1>2, <1>9, <1>10, <3>2 DEF Waits
    <3> QED  BY Zenon, <1>1, <3>1, <3>3, WakeFrame DEF IInv, TypeOK
  <2> QED  BY Zenon, <1>6, <1>7, <1>8, <2>1, <2>2 DEF IInv
<1> QED  BY Zenon, <1>12, <1>13

(* A CPU without wakeups to deliver takes the processes of S out of the    *)
(* wait structures.                                                        *)
LEMMA TakeTokens ==
    ASSUME TypeOK, WakePlaces, NEW c \in Cpu, due[c] = {},
           NEW S \in SUBSET Pid, \A q \in S : q \in waiters \/ sleep[q] # 0,
           due' = [due EXCEPT ![c] = S], waiters' = waiters \ S,
           \A q \in Pid : sleep'[q] # 0 <=> sleep[q] # 0 /\ q \notin S,
           pending' = pending, \A q \in Pid : Waits(q)' <=> Waits(q)
    PROVE  WakePlaces'
<1>1. \A q \in Pid : Due(q)' <=> Due(q) \/ q \in S
  BY Zenon DEF TypeOK, Due
<1>2. \A q \in S : ~Due(q) /\ ~pending[q]
  BY Zenon DEF TypeOK, WakePlaces
<1>3. WakePlaces!1' /\ WakePlaces!2'
  BY Zenon, <1>1 DEF TypeOK, WakePlaces
<1>4. WakePlaces!3'
  BY Zenon, <1>1, <1>2 DEF WakePlaces
<1>5. WakePlaces!4'
  BY Zenon, <1>2 DEF TypeOK, WakePlaces, Due
<1>6. WakePlaces!5'
  BY Zenon, <1>1 DEF TypeOK, WakePlaces
<1> QED  BY Zenon, <1>3, <1>4, <1>5, <1>6 DEF WakePlaces

LEMMA SignalStep == ASSUME IInv, NEW c \in Cpu, signal(c) PROVE IInv'
<1>1. PICK w \in SUBSET waiters : waiters' = waiters \ w /\ due' = [due EXCEPT ![c] = w]
  BY Zenon DEF signal
<1>2. /\ pc[c] = "user" /\ pc' = [pc EXCEPT ![c] = "wake"]
      /\ ret' = [ret EXCEPT ![c] = "user"]
      /\ UNCHANGED <<state, owner, intent, pending, level, used, runq, current, idle,
                     sgi, boost, sleep, hand>>
  BY Zenon DEF signal, At, Goto, table
<1>3. w \in SUBSET Pid /\ due[c] = {}
  BY Zenon, <1>2 DEF IInv, TypeOK, Control, WakePCs
<1>4. TypeOK'
  BY Zenon, <1>1, <1>2, <1>3 DEF IInv, TypeOK, PCs
<1>5. Control'
  BY Zenon, <1>1, <1>2 DEF IInv, TypeOK, Control, CurPCs, FreePCs, WakePCs, HandPCs, OwnPCs
<1>6. Ownership'
  BY <1>2 DEF IInv, TypeOK, Ownership, LeavePCs
<1>7. \A d \in Cpu, q \in Pid : Held(d, q)' <=> Held(d, q)
  BY Zenon, <1>2 DEF IInv, TypeOK, Held, HandPCs
<1>8. RunqueueToken'
  BY Zenon, <1>2, <1>7, TokenFrame DEF IInv
<1>9. \A d \in Cpu, q \in Pid : InWindow(d, q)' <=> InWindow(d, q)
  BY Zenon, <1>2 DEF IInv, TypeOK, InWindow
<1>10. \A q \in Pid : Waits(q)' <=> Waits(q)
  BY Zenon, <1>2, <1>9 DEF Waits
<1>11. \A q \in w : sleep[q] = 0
  BY Zenon, <1>1 DEF IInv, WakePlaces
<1>12. TypeOK /\ WakePlaces
  BY Zenon DEF IInv
<1>13. WakePlaces'
  BY Zenon, <1>1, <1>2, <1>3, <1>10, <1>11, <1>12, TakeTokens
<1> QED  BY Zenon, <1>4, <1>5, <1>6, <1>8, <1>13 DEF IInv

LEMMA TimerIrqStep == ASSUME IInv, NEW c \in Cpu, timer_irq(c) PROVE IInv'
<1> DEFINE S == {q \in Pid : sleep[q] = 1}
<1>1. /\ pc[c] \in {"user", "wfi"} /\ pc' = [pc EXCEPT ![c] = "wake"]
      /\ boost' = boost + 1
      /\ ret' = [ret EXCEPT ![c] = "tick"]
      /\ due' = [due EXCEPT ![c] = S]
      /\ sleep' = [q \in Pid |-> IF sleep[q] = 0 THEN 0 ELSE sleep[q] - 1]
      /\ UNCHANGED <<state, owner, intent, pending, level, used, runq, current, idle,
                     sgi, waiters, hand>>
  BY Zenon DEF timer_irq, Goto, table
<1>2. S \in SUBSET Pid /\ due[c] = {} /\ sleep \in [Pid -> 0 .. MaxSleep] /\ MaxSleep \in Nat
  BY Zenon, <1>1, TicksAssumption DEF IInv, TypeOK, Control, WakePCs
<1>3. sleep' \in [Pid -> 0 .. MaxSleep]
  BY <1>1, <1>2
<1>4. TypeOK'
  <2> HIDE DEF S
  <2> QED  BY <1>1, <1>2, <1>3 DEF IInv, TypeOK, PCs
<1>5. Control'
  BY Zenon, <1>1 DEF IInv, TypeOK, Control, CurPCs, FreePCs, WakePCs, HandPCs, OwnPCs
<1>6. Ownership'
  <2>1. \A d \in Cpu : pc'[d] = IF d = c THEN "wake" ELSE pc[d]
    BY Zenon, <1>1 DEF IInv, TypeOK
  <2>2. /\ \A d \in Cpu : pc'[d] \in LeavePCs => pc[d] \in LeavePCs
        /\ \A d \in Cpu : pc'[d] = "bury" => pc[d] = "bury"
        /\ \A d \in Cpu : pc'[d] = "blocking" => pc[d] = "blocking"
        /\ \A d \in Cpu : pc'[d] = "finish" => pc[d] = "finish"
    BY Zenon, <2>1 DEF LeavePCs
  <2>3. /\ state' = state /\ owner' = owner /\ intent' = intent /\ current' = current
        /\ hand' = hand /\ Ownership
    BY Zenon, <1>1 DEF IInv
  <2>4. Ownership!1' /\ Ownership!5'
    BY Zenon, <2>3 DEF Ownership
  <2>5. Ownership!2' /\ Ownership!3'
    BY Zenon, <2>2, <2>3 DEF Ownership
  <2>6. Ownership!4'
    BY Zenon, <2>2, <2>3 DEF Ownership
  <2>7. Ownership!6' /\ Ownership!7'
    BY Zenon, <2>2, <2>3 DEF Ownership
  <2> QED  BY <2>4, <2>5, <2>6, <2>7, Zenon DEF Ownership
<1>7. \A d \in Cpu, q \in Pid : Held(d, q)' <=> Held(d, q)
  BY Zenon, <1>1 DEF IInv, TypeOK, Held, HandPCs
<1>8. RunqueueToken'
  BY Zenon, <1>1, <1>7, TokenFrame DEF IInv
<1>9. \A d \in Cpu, q \in Pid : InWindow(d, q)' <=> InWindow(d, q)
  BY Zenon, <1>1 DEF IInv, TypeOK, InWindow
<1>10. \A q \in Pid : Waits(q)' <=> Waits(q)
  BY Zenon, <1>1, <1>9 DEF Waits
<1>11. \A q \in Pid : sleep'[q] # 0 <=> sleep[q] # 0 /\ q \notin S
  BY <1>1, <1>2
<1>12. \A q \in S : sleep[q] # 0
  OBVIOUS
<1>13. waiters' = waiters \ S
  BY Zenon, <1>1, <1>12 DEF IInv, WakePlaces
<1>14. TypeOK /\ WakePlaces
  BY Zenon DEF IInv
<1>15. WakePlaces'
  <2> HIDE DEF S
  <2> QED  BY Zenon, <1>1, <1>2, <1>10, <1>11, <1>12, <1>13, <1>14, TakeTokens
<1> QED  BY Zenon, <1>4, <1>5, <1>6, <1>8, <1>15 DEF IInv

LEMMA RequestWakeStep == ASSUME IInv, NEW c \in Cpu, request_wake(c) PROVE IInv'
<1>1. PICK p \in due[c] : request_wake(c)!2!(p)
  BY Zenon DEF request_wake
<1>2. /\ pc[c] = "wake"
      /\ due' = [due EXCEPT ![c] = due[c] \ {p}]
      /\ UNCHANGED <<owner, level, used, runq, current, idle, sgi, boost, waiters, sleep, ret>>
  BY Zenon, <1>1 DEF request_wake, At, waits
<1>3. p \in Pid /\ Waits(p) /\ state[p] \in {"Blocked", "Running"}
  <2>1. p \in Pid
    BY Zenon DEF IInv, TypeOK
  <2>2. Waits(p)
    BY Zenon, <2>1 DEF IInv, WakePlaces, Due
  <2> QED  BY Zenon, <2>1, <2>2, WindowFacts
<1>4. p \notin waiters /\ sleep[p] = 0 /\ ~pending[p] /\ \A d \in Cpu : p \in due[d] => d = c
  BY Zenon, <1>3 DEF IInv, WakePlaces, Due
<1>5. \A q \in Pid : Due(q)' <=> Due(q) /\ q # p
  BY Zenon, <1>2, <1>4 DEF IInv, TypeOK, Due
<1>6. due' \in [Cpu -> SUBSET Pid]
  BY Zenon, <1>2 DEF IInv, TypeOK
<1>7. \A d, e \in Cpu, q \in Pid : q \in due'[d] /\ q \in due'[e] => d = e
  BY Zenon, <1>2 DEF IInv, TypeOK, WakePlaces
<1>8. CASE state[p] = "Blocked"
  <2>1. /\ state' = [state EXCEPT ![p] = "Runnable"]
        /\ intent' = [intent EXCEPT ![p] = FALSE]
        /\ pending' = [pending EXCEPT ![p] = FALSE]
        /\ pc' = [pc EXCEPT ![c] = "wakepush"]
        /\ hand' = [hand EXCEPT ![c] = p]
    BY Zenon, <1>1, <1>8 DEF Goto, Take
  <2>2. TypeOK'
    <3>1. "Runnable" \in States /\ "wakepush" \in PCs
      BY Zenon DEF States, PCs
    <3> QED  BY <1>2, <1>3, <1>6, <2>1, <3>1, Zenon DEF IInv, TypeOK
  <2>3. Control'
    BY <1>2, <1>3, <2>1, NoneAssumption
       DEF IInv, TypeOK, Control, CurPCs, FreePCs, WakePCs, HandPCs, OwnPCs
  <2>4. Ownership'
    <3>1. \A q \in Pid : state[q] = "Running" =>
              state'[q] = "Running" /\ (intent[q] => intent'[q])
      BY Zenon, <1>8, <2>1 DEF IInv, TypeOK
    <3>2. Ownership!1' /\ Ownership!5'
      BY <1>2, <3>1 DEF IInv, TypeOK, Ownership
    <3>3. Ownership!2' /\ Ownership!3'
      <4>1. \A d \in Cpu : pc'[d] \in LeavePCs \cup {"bury"} =>
              d # c /\ pc'[d] = pc[d] /\ hand'[d] = hand[d] /\ hand[d] \in Pid
        BY Zenon, <2>1 DEF IInv, TypeOK, Control, OwnPCs, LeavePCs
      <4>2. owner' = owner /\ Ownership!2 /\ Ownership!3
        BY Zenon, <1>2 DEF IInv, Ownership
      <4> QED  BY <3>1, <4>1, <4>2
    <3>4. Ownership!4'
      BY SMTT(30), <1>2, <2>1 DEF IInv, TypeOK, Ownership
    <3>5. Ownership!6'
      BY SMTT(30), <1>2, <2>1, <3>1 DEF IInv, TypeOK, Control, CurPCs, Ownership
    <3>6. Ownership!7'
      BY <1>2, <2>1, <3>1 DEF IInv, TypeOK, Control, OwnPCs, Ownership, LeavePCs
    <3> QED  BY Zenon, <3>2, <3>3, <3>4, <3>5, <3>6 DEF Ownership
  <2>5. RunqueueToken'
    <3>1. \A d \in Cpu, q \in Pid : Held(d, q)' <=> Held(d, q) \/ (d = c /\ q = p)
      BY Zenon, <1>2, <2>1 DEF IInv, TypeOK, Held, HandPCs
    <3>2. \A q \in Pid : state'[q] = "Runnable" <=> state[q] = "Runnable" \/ q = p
      BY Zenon, <1>3, <2>1 DEF IInv, TypeOK
    <3> QED  BY Zenon, <1>2, <1>3, <1>8, <3>1, <3>2, TokenGain DEF IInv
  <2>6. WakePlaces'
    <3>1. \A q \in Pid : pending'[q] <=> pending[q]
      BY Zenon, <1>3, <1>4, <2>1 DEF IInv, TypeOK
    <3>2. \A d \in Cpu, q \in Pid : InWindow(d, q)' <=> InWindow(d, q)
      BY Zenon, <1>2, <2>1 DEF IInv, TypeOK, InWindow
    <3>3. \A d \in Cpu : ~InWindow(d, p)
      BY Zenon, <1>3, <1>8, WindowFacts
    <3>4. \A q \in Pid : state'[q] = "Blocked" <=> state[q] = "Blocked" /\ q # p
      BY Zenon, <1>3, <2>1 DEF IInv, TypeOK
    <3>5. \A q \in Pid : Waits(q)' <=> Waits(q) /\ q # p
      BY Zenon, <3>2, <3>3, <3>4 DEF Waits
    <3> QED  BY <1>2, <1>3, <1>4, <1>5, <1>7, <3>1, <3>5 DEF IInv, TypeOK, WakePlaces
  <2> QED  BY Zenon, <2>2, <2>3, <2>4, <2>5, <2>6 DEF IInv
<1>9. CASE state[p] = "Running"
  <2>1. pending' = [pending EXCEPT ![p] = TRUE] /\ UNCHANGED <<state, intent, pc, hand>>
    BY Zenon, <1>1, <1>9
  <2>2. TypeOK'
    BY <1>2, <1>6, <2>1, Zenon DEF IInv, TypeOK
  <2>3. Control'
    BY Zenon, <1>2, <2>1 DEF IInv, TypeOK, Control, WakePCs
  <2>4. Ownership'
    BY Zenon, <1>2, <2>1 DEF IInv, Ownership
  <2>5. RunqueueToken'
    <3>1. \A d \in Cpu, q \in Pid : Held(d, q)' <=> Held(d, q)
      BY Zenon, <2>1 DEF Held
    <3> QED  BY Zenon, <1>2, <2>1, <3>1, TokenFrame DEF IInv
  <2>6. WakePlaces'
    <3>1. \A q \in Pid : pending'[q] <=> pending[q] \/ q = p
      BY Zenon, <1>3, <2>1 DEF IInv, TypeOK
    <3>2. \A d \in Cpu, q \in Pid : InWindow(d, q)' <=> InWindow(d, q)
      BY Zenon, <1>2, <2>1 DEF InWindow
    <3>3. \A q \in Pid : Waits(q)' <=> Waits(q)
      BY Zenon, <2>1, <3>2 DEF Waits
    <3> QED  BY <1>2, <1>3, <1>4, <1>5, <1>7, <3>1, <3>3 DEF IInv, TypeOK, WakePlaces
  <2> QED  BY Zenon, <2>2, <2>3, <2>4, <2>5, <2>6 DEF IInv
<1> QED  BY Zenon, <1>3, <1>8, <1>9

LEMMA ReleaseOwnerStep == ASSUME IInv, NEW c \in Cpu, release_owner_for_exit(c) PROVE IInv'
<1> DEFINE p == hand[c]
<1>1. /\ pc[c] = "disown" /\ pc' = [pc EXCEPT ![c] = "bury"]
      /\ owner' = [owner EXCEPT ![p] = None]
      /\ UNCHANGED <<state, intent, pending, level, used, runq, current, idle, sgi, boost,
                     waiters, sleep, hand, due, ret>>
  BY Zenon DEF release_owner_for_exit, At, Goto, waits
<1>2. p \in Pid /\ state[p] = "Running" /\ owner[p] = c /\ current[c] = None
  BY <1>1 DEF IInv, TypeOK, Control, OwnPCs, FreePCs, Ownership, LeavePCs
<1>3. TypeOK'
  BY Zenon, <1>1 DEF IInv, TypeOK, PCs
<1>4. Control'
  BY Zenon, <1>1 DEF IInv, TypeOK, Control, CurPCs, FreePCs, WakePCs, HandPCs, OwnPCs
<1>5. Ownership'
  <2>1. \A d \in Cpu : current[d] # None => current[d] # p
    BY Zenon, <1>2, OwnerOf DEF IInv
  <2>2. \A d \in Cpu : d # c /\ pc[d] \in LeavePCs \cup {"bury"} => hand[d] # p
    BY Zenon, <1>2, NoneAssumption, OwnerOf DEF IInv
  <2> HIDE DEF p
  <2>3. Ownership!1' /\ Ownership!5'
    BY <1>1, <1>2, <2>1 DEF IInv, TypeOK, Ownership
  <2>8. /\ \A d \in Cpu : pc'[d] = IF d = c THEN "bury" ELSE pc[d]
        /\ \A q \in Pid : owner'[q] = IF q = p THEN None ELSE owner[q]
        /\ state' = state /\ hand' = hand /\ hand[c] = p
    BY Zenon, <1>1, <1>2 DEF IInv, TypeOK, p
  <2>9. /\ Ownership!2 /\ Ownership!3
        /\ \A d \in Cpu : pc[d] \in LeavePCs \cup {"bury"} => hand[d] \in Pid
    <3>1. Ownership!2 /\ Ownership!3
      BY Zenon DEF IInv, Ownership
    <3>2. \A d \in Cpu : pc[d] \in LeavePCs \cup {"bury"} => hand[d] \in Pid
      BY Zenon DEF IInv, TypeOK, Control, OwnPCs, LeavePCs
    <3> QED  BY <3>1, <3>2, Zenon
  <2>4. Ownership!2'
    <3>1. \A d \in Cpu : pc'[d] \in LeavePCs => d # c /\ pc[d] \in LeavePCs
      BY Zenon, <2>8 DEF LeavePCs
    <3> QED  BY Zenon, <2>2, <2>8, <2>9, <3>1
  <2>5. Ownership!3'
    BY <1>2, <2>2, <2>8, <2>9
  <2>6. Ownership!4'
    BY SMTT(30), <1>1, <1>2, <2>2 DEF IInv, TypeOK, Ownership, p
  <2>7. Ownership!6' /\ Ownership!7'
    BY <1>1 DEF IInv, TypeOK, Ownership
  <2> QED  BY Zenon, <2>3, <2>4, <2>5, <2>6, <2>7 DEF Ownership
<1>6. \A d \in Cpu, q \in Pid : Held(d, q)' <=> Held(d, q)
  BY Zenon, <1>1 DEF IInv, TypeOK, Held, HandPCs
<1>7. RunqueueToken'
  BY Zenon, <1>1, <1>6, TokenFrame DEF IInv
<1>8. \A d \in Cpu, q \in Pid : InWindow(d, q)' <=> InWindow(d, q)
  BY Zenon, <1>1 DEF IInv, TypeOK, InWindow
<1>9. WakePlaces'
  BY Zenon, <1>1, <1>8, WakeFrame DEF IInv, TypeOK, Waits
<1> QED  BY Zenon, <1>3, <1>4, <1>5, <1>7, <1>9 DEF IInv

LEMMA BuryStep == ASSUME IInv, NEW c \in Cpu, bury(c) PROVE IInv'
<1> DEFINE p == hand[c]
<1>1. PICK w : /\ w = {} \/ \E q \in waiters : w = {q}
               /\ waiters' = waiters \ w
               /\ due' = [due EXCEPT ![c] = w]
  BY Zenon DEF bury
<1>2. /\ pc[c] = "bury" /\ pc' = [pc EXCEPT ![c] = "wake"]
      /\ state' = [state EXCEPT ![p] = "Dead"]
      /\ ret' = [ret EXCEPT ![c] = "pick"]
      /\ hand' = [hand EXCEPT ![c] = None]
      /\ UNCHANGED <<owner, intent, pending, level, used, runq, current, idle, sgi,
                     boost, sleep>>
  BY Zenon DEF bury, At, Goto, Take
<1>3. /\ p \in Pid /\ state[p] = "Running" /\ owner[p] = None
      /\ current[c] = None /\ due[c] = {} /\ w \in SUBSET Pid
  <2>1. w \in SUBSET Pid
    BY Zenon, <1>1 DEF IInv, TypeOK
  <2>2. current[c] = None /\ due[c] = {} /\ p \in Pid
    BY Zenon, <1>2 DEF IInv, TypeOK, Control, OwnPCs, FreePCs, WakePCs
  <2> QED  BY Zenon, <1>2, <2>1, <2>2 DEF IInv, Ownership
<1>4. TypeOK'
  <2>1. "Dead" \in States /\ "wake" \in PCs
    BY Zenon DEF States, PCs
  <2> QED  BY Zenon, <1>1, <1>2, <1>3, <2>1 DEF IInv, TypeOK
<1>5. Control'
  BY <1>1, <1>2, <1>3 DEF IInv, TypeOK, Control, CurPCs, FreePCs, WakePCs, HandPCs, OwnPCs
<1>6. Ownership'
  <2>1. \A d \in Cpu : current[d] # None => current[d] # p
    BY ZenonT(30), <1>3, NoneAssumption, OwnerOf DEF IInv
  <2>2. \A d \in Cpu : d # c /\ pc[d] \in LeavePCs \cup {"bury"} => hand[d] # p
    BY SMTT(30), <1>2, <1>3, NoneAssumption, OwnerOf DEF IInv
  <2> HIDE DEF p
  <2>3. Ownership!1' /\ Ownership!5'
    BY SMTT(30), <1>2, <1>3, <2>1 DEF IInv, TypeOK, Ownership
  <2>4. Ownership!2' /\ Ownership!3'
    BY SMTT(30), <1>2, <1>3, <2>2 DEF IInv, TypeOK, Ownership, LeavePCs
  <2>5. Ownership!4' /\ Ownership!6' /\ Ownership!7'
    BY SMTT(30), <1>2 DEF IInv, TypeOK, Ownership
  <2> QED  BY Zenon, <2>3, <2>4, <2>5 DEF Ownership
<1>7. RunqueueToken'
  <2>1. \A d \in Cpu, q \in Pid : Held(d, q)' <=> Held(d, q)
    BY Zenon, <1>2 DEF IInv, TypeOK, Held, HandPCs
  <2>2. \A q \in Pid : state'[q] = "Runnable" <=> state[q] = "Runnable"
    BY Zenon, <1>2, <1>3 DEF IInv, TypeOK
  <2> QED  BY Zenon, <1>2, <2>1, <2>2, TokenFrame DEF IInv
<1>8. WakePlaces'
  <2>1. \A d \in Cpu, q \in Pid : InWindow(d, q)' <=> InWindow(d, q)
    BY Zenon, <1>2 DEF IInv, TypeOK, InWindow
  <2>2. \A q \in Pid : state'[q] = "Blocked" <=> state[q] = "Blocked"
    BY Zenon, <1>2, <1>3 DEF IInv, TypeOK
  <2>3. \A q \in Pid : Waits(q)' <=> Waits(q)
    BY Zenon, <2>1, <2>2 DEF Waits
  <2>4. \A q \in w : q \in waiters /\ sleep[q] = 0
    BY Zenon, <1>1 DEF IInv, WakePlaces
  <2>5. TypeOK /\ WakePlaces
    BY Zenon DEF IInv
  <2> QED  BY Zenon, <1>1, <1>2, <1>3, <2>3, <2>4, <2>5, TakeTokens
<1> QED  BY Zenon, <1>4, <1>5, <1>6, <1>7, <1>8 DEF IInv
=============================================================================
