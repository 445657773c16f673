------------------------------ MODULE IpcProofs ------------------------------
(***************************************************************************)
(* Proofs about Ipc, for every number of processes, ring size, capacity    *)
(* and waiter array.                                                       *)
(***************************************************************************)
EXTENDS Ipc, TLAPS, FiniteSetTheorems

-----------------------------------------------------------------------------
(* The ring.                                                               *)

Queue == [buf : [Ring -> Envelope], head : Ring, tail : Ring, len : 0 .. MAX_QUEUE]
RingOK(q) == q \in Queue /\ q.tail = (q.head + q.len) % MAX_QUEUE

(* An index that ran past the end of the ring by less than a turn wraps    *)
(* around once.                                                            *)
LEMMA Wrap ==
    ASSUME NEW a \in Ring, NEW b \in 0 .. MAX_QUEUE
    PROVE  /\ (a + b) % MAX_QUEUE = IF a + b < MAX_QUEUE THEN a + b ELSE a + b - MAX_QUEUE
           /\ (a + b) % MAX_QUEUE \in Ring
<1>1. MAX_QUEUE \in Nat \ {0}
  BY Zenon, IpcAssumption
<1> QED
  BY <1>1 DEF Ring

(* Stepping an index forward or back along the ring, and two offsets less  *)
(* than a turn apart.                                                      *)
LEMMA WrapStep ==
    ASSUME NEW a \in Ring, NEW b \in 0 .. MAX_QUEUE - 1
    PROVE  (((a + b) % MAX_QUEUE) + 1) % MAX_QUEUE = (a + (b + 1)) % MAX_QUEUE
<1> DEFINE x == (a + b) % MAX_QUEUE
<1>0. MAX_QUEUE \in Nat \ {0} /\ 1 \in 0 .. MAX_QUEUE /\ b \in 0 .. MAX_QUEUE /\ b + 1 \in 0 .. MAX_QUEUE
  BY IpcAssumption
<1>1. x \in Ring /\ x = IF a + b < MAX_QUEUE THEN a + b ELSE a + b - MAX_QUEUE
  BY Zenon, <1>0, Wrap
<1>2. (x + 1) % MAX_QUEUE = IF x + 1 < MAX_QUEUE THEN x + 1 ELSE x + 1 - MAX_QUEUE
  BY Zenon, <1>0, <1>1, Wrap
<1>3. (a + (b + 1)) % MAX_QUEUE
        = IF a + (b + 1) < MAX_QUEUE THEN a + (b + 1) ELSE a + (b + 1) - MAX_QUEUE
  BY Zenon, <1>0, Wrap
<1> HIDE DEF x
<1>4. (x + 1) % MAX_QUEUE = (a + (b + 1)) % MAX_QUEUE
  BY <1>0, <1>1, <1>2, <1>3 DEF Ring
<1> QED
  BY Zenon, <1>4 DEF x

LEMMA WrapBack ==
    ASSUME NEW a \in Ring, NEW b \in 1 .. MAX_QUEUE
    PROVE  (((a + b) % MAX_QUEUE) + MAX_QUEUE - 1) % MAX_QUEUE = (a + (b - 1)) % MAX_QUEUE
<1> DEFINE x == (a + b) % MAX_QUEUE
<1>0. /\ MAX_QUEUE \in Nat \ {0} /\ MAX_QUEUE - 1 \in 0 .. MAX_QUEUE
      /\ b \in 0 .. MAX_QUEUE /\ b - 1 \in 0 .. MAX_QUEUE
  BY IpcAssumption
<1>1. x \in Ring /\ x = IF a + b < MAX_QUEUE THEN a + b ELSE a + b - MAX_QUEUE
  BY Zenon, <1>0, Wrap
<1>2. (x + (MAX_QUEUE - 1)) % MAX_QUEUE
        = IF x + (MAX_QUEUE - 1) < MAX_QUEUE THEN x + (MAX_QUEUE - 1)
          ELSE x + (MAX_QUEUE - 1) - MAX_QUEUE
  BY Zenon, <1>0, <1>1, Wrap
<1>3. (a + (b - 1)) % MAX_QUEUE
        = IF a + (b - 1) < MAX_QUEUE THEN a + (b - 1) ELSE a + (b - 1) - MAX_QUEUE
  BY Zenon, <1>0, Wrap
<1> HIDE DEF x
<1>4. x + MAX_QUEUE - 1 = x + (MAX_QUEUE - 1)
  BY Zenon, <1>0, <1>1 DEF Ring
<1>5. (x + (MAX_QUEUE - 1)) % MAX_QUEUE = (a + (b - 1)) % MAX_QUEUE
  BY <1>0, <1>1, <1>2, <1>3 DEF Ring
<1> QED
  BY Zenon, <1>4, <1>5 DEF x

LEMMA WrapDiffers ==
    ASSUME NEW a \in Ring, NEW b \in 0 .. MAX_QUEUE, NEW c \in 0 .. MAX_QUEUE,
           b < c, c - b < MAX_QUEUE
    PROVE  (a + b) % MAX_QUEUE # (a + c) % MAX_QUEUE
<1>0. MAX_QUEUE \in Nat \ {0}
  BY Zenon, IpcAssumption
<1>1. (a + b) % MAX_QUEUE = IF a + b < MAX_QUEUE THEN a + b ELSE a + b - MAX_QUEUE
  BY Zenon, Wrap
<1>2. (a + c) % MAX_QUEUE = IF a + c < MAX_QUEUE THEN a + c ELSE a + c - MAX_QUEUE
  BY Zenon, Wrap
<1> QED
  BY <1>0, <1>1, <1>2 DEF Ring

(* push leaves every queued envelope in its place and puts the new one     *)
(* behind them.                                                            *)
LEMMA PushAt ==
    ASSUME NEW q, RingOK(q), q.len < MAX_QUEUE, NEW env \in Envelope
    PROVE  /\ RingOK(push(q, env))
           /\ push(q, env).len = q.len + 1
           /\ \A i \in 0 .. q.len - 1 : At(push(q, env), i) = At(q, i)
           /\ At(push(q, env), q.len) = env
<1> DEFINE r == push(q, env)
<1>0. MAX_QUEUE \in Nat \ {0}
  BY Zenon, IpcAssumption
<1>1. /\ q.buf \in [Ring -> Envelope] /\ q.head \in Ring /\ q.tail \in Ring
      /\ q.len \in 0 .. MAX_QUEUE /\ q.tail = (q.head + q.len) % MAX_QUEUE
  BY Zenon DEF RingOK, Queue
<1>2. /\ r.buf = [q.buf EXCEPT ![q.tail] = env] /\ r.head = q.head
      /\ r.tail = (q.tail + 1) % MAX_QUEUE /\ r.len = q.len + 1
      /\ r = [buf |-> r.buf, head |-> r.head, tail |-> r.tail, len |-> r.len]
  BY Zenon DEF push
<1>3. r.tail = (r.head + r.len) % MAX_QUEUE /\ r.tail \in Ring
  <2>1. q.len \in 0 .. MAX_QUEUE - 1 /\ q.len + 1 \in 0 .. MAX_QUEUE
    BY <1>0, <1>1
  <2>2. (((q.head + q.len) % MAX_QUEUE) + 1) % MAX_QUEUE = (q.head + (q.len + 1)) % MAX_QUEUE
    BY Zenon, <1>1, <2>1, WrapStep
  <2>3. (q.head + (q.len + 1)) % MAX_QUEUE \in Ring
    BY Zenon, <1>1, <2>1, Wrap
  <2> QED
    BY Zenon, <1>1, <1>2, <2>2, <2>3
<1>4. RingOK(r)
  BY <1>0, <1>1, <1>2, <1>3 DEF RingOK, Queue
<1>5. ASSUME NEW i \in 0 .. q.len - 1
      PROVE  At(r, i) = At(q, i)
  <2>1. (q.head + i) % MAX_QUEUE \in Ring /\ (q.head + i) % MAX_QUEUE # q.tail
    <3>1. i \in 0 .. MAX_QUEUE /\ i < q.len /\ q.len - i < MAX_QUEUE + 1
      BY <1>0, <1>1, <1>5
    <3>2. q.len - i < MAX_QUEUE
      BY <1>0, <1>1, <1>5
    <3> QED
      BY <1>1, <3>1, <3>2, Wrap, WrapDiffers
  <2> QED
    BY Zenon, <1>1, <1>2, <2>1 DEF At
<1>6. At(r, q.len) = env
  BY <1>1, <1>2 DEF At
<1> QED
  BY Zenon, <1>2, <1>4, <1>5, <1>6

(* compact closes the gap at off: the envelopes before it stay, the later  *)
(* ones move up by one place.                                              *)
LEMMA CompactAt ==
    ASSUME NEW q, RingOK(q), NEW off \in 0 .. q.len - 1
    PROVE  /\ RingOK(compact(q, off))
           /\ compact(q, off).len = q.len - 1
           /\ \A i \in 0 .. q.len - 2 :
                At(compact(q, off), i) = IF i < off THEN At(q, i) ELSE At(q, i + 1)
<1> DEFINE r == compact(q, off)
<1> DEFINE moved(i) == \E j \in off .. q.len - 2 : i = (q.head + j) % MAX_QUEUE
<1>0. MAX_QUEUE \in Nat \ {0}
  BY Zenon, IpcAssumption
<1>1. /\ q.buf \in [Ring -> Envelope] /\ q.head \in Ring /\ q.tail \in Ring
      /\ q.len \in 1 .. MAX_QUEUE /\ q.tail = (q.head + q.len) % MAX_QUEUE
  BY DEF RingOK, Queue
<1>2. /\ r.buf = [i \in Ring |-> IF moved(i) THEN q.buf[(i + 1) % MAX_QUEUE] ELSE q.buf[i]]
      /\ r.head = q.head
      /\ r.tail = (q.tail + MAX_QUEUE - 1) % MAX_QUEUE /\ r.len = q.len - 1
      /\ r = [buf |-> r.buf, head |-> r.head, tail |-> r.tail, len |-> r.len]
  BY Zenon DEF compact
<1>3. r.tail = (r.head + r.len) % MAX_QUEUE /\ r.tail \in Ring
  <2>1. q.len - 1 \in 0 .. MAX_QUEUE
    BY <1>0, <1>1
  <2>2. (((q.head + q.len) % MAX_QUEUE) + MAX_QUEUE - 1) % MAX_QUEUE
          = (q.head + (q.len - 1)) % MAX_QUEUE
    BY Zenon, <1>1, WrapBack
  <2>3. (q.head + (q.len - 1)) % MAX_QUEUE \in Ring
    BY Zenon, <1>1, <2>1, Wrap
  <2> QED
    BY <1>1, <1>2, <2>2, <2>3
<1>4. r.buf \in [Ring -> Envelope]
  <2>1. \A i \in Ring : (i + 1) % MAX_QUEUE \in Ring
    BY <1>0, Wrap DEF Ring
  <2> QED
    BY <1>1, <1>2, <2>1
<1>5. RingOK(r)
  BY <1>0, <1>1, <1>2, <1>3, <1>4 DEF RingOK, Queue
<1>6. ASSUME NEW i \in 0 .. q.len - 2
      PROVE  At(r, i) = IF i < off THEN At(q, i) ELSE At(q, i + 1)
  <2> DEFINE x == (q.head + i) % MAX_QUEUE
  <2>1. x \in Ring /\ i + 1 \in 0 .. MAX_QUEUE
    BY <1>0, <1>1, <1>6, Wrap
  <2>2. At(r, i) = IF moved(x) THEN q.buf[(x + 1) % MAX_QUEUE] ELSE q.buf[x]
    BY <1>2, <2>1 DEF At
  <2>3. (x + 1) % MAX_QUEUE = (q.head + (i + 1)) % MAX_QUEUE
    <3>1. i \in 0 .. MAX_QUEUE - 1
      BY <1>0, <1>1, <1>6
    <3> QED
      BY Zenon, <1>1, <3>1, WrapStep
  <2>4. CASE i < off
    <3>1. ASSUME NEW j \in off .. q.len - 2
          PROVE  x # (q.head + j) % MAX_QUEUE
      <4>1. /\ i \in 0 .. MAX_QUEUE /\ j \in 0 .. MAX_QUEUE
            /\ i < j /\ j - i < MAX_QUEUE
        BY <1>0, <1>1, <1>6, <2>4, <3>1
      <4> QED
        BY Zenon, <1>1, <4>1, WrapDiffers
    <3> QED
      BY Zenon, <2>2, <2>4, <3>1 DEF At
  <2>5. CASE ~(i < off)
    <3>1. moved(x)
      BY <1>6, <2>5
    <3> QED
      BY Zenon, <2>2, <2>3, <2>5, <3>1 DEF At
  <2> QED
    BY Zenon, <2>4, <2>5
<1> QED
  BY Zenon, <1>2, <1>5, <1>6

(* The least element of a set of naturals, as pop_for and pop_waiter_for   *)
(* search for it.                                                          *)
LEMMA MinIsLeast ==
    ASSUME NEW S \in SUBSET Nat, S # {}
    PROVE  Min(S) \in S /\ \A i \in S : Min(S) <= i
<1> DEFINE less == {ss \in Nat \X Nat : ss[1] < ss[2]}
<1>1. IsWellFoundedOn(less, Nat)
  BY NatLessThanWellFounded, Zenon DEF OpToRel
<1>2. PICK x \in S : \A y \in S : ~(<<y, x>> \in less)
  BY <1>1, WFMin, Zenon
<1>3. \A y \in Nat : ~(<<y, x>> \in less) => x <= y
  OBVIOUS
<1>4. \A y \in S : x <= y
  BY <1>2, <1>3, Zenon
<1> QED
  BY Zenon, <1>4 DEF Min

-----------------------------------------------------------------------------
(* The inductive invariant.                                                *)

Offsets == 0 .. queue.len - 1

(* The ring never holds more than the capacity, and holds messages in the  *)
(* order they were sent.                                                   *)
QueuedInOrder ==
    /\ queue.len <= capacity
    /\ \A i \in Offsets : At(queue, i).message \in 1 .. sent
    /\ \A i, j \in Offsets : i < j => At(queue, i).message < At(queue, j).message

(* What was received was sent, is no longer queued, and is older than all  *)
(* that its receiver may still take.                                       *)
ReceivedBefore ==
    \A p \in Receiver : \A k \in DOMAIN received[p] :
        /\ received[p][k] <= sent
        /\ \A i \in Offsets :
             /\ received[p][k] # At(queue, i).message
             /\ Eligible(At(queue, i), p) => received[p][k] < At(queue, i).message

(* A receiver is in one waiter slot or with one sender, and sleeps while   *)
(* it is; a sender never sleeps on the channel.                            *)
WaitersBlocked ==
    /\ \A s \in Sender : proc[s] = "user"
    /\ \A w \in WaiterSlot : waiters[w] # None =>
         /\ proc[waiters[w]] = "blocked"
         /\ \A v \in WaiterSlot : waiters[v] = waiters[w] => v = w
         /\ \A s \in Proc : waking[s] # waiters[w]
    /\ \A s \in Proc : waking[s] # None =>
         /\ s \in Sender
         /\ proc[waking[s]] = "blocked"
         /\ \A t \in Proc : waking[t] = waking[s] => t = s

(* A registered receiver has no queued envelope addressed to it.           *)
AddressedTaken ==
    \A w \in WaiterSlot : \A i \in Offsets :
        waiters[w] # None => At(queue, i).target # waiters[w]

(* Until a targeted message or a withdrawal, every receiver may take every *)
(* queued message.                                                         *)
OnlyBroadcasts ==
    ~mixed => allowed = Receiver /\ \A i \in Offsets : At(queue, i).target = None

(* The parts of the invariant that are about the queue and what was        *)
(* received.                                                               *)
QueuePart == QueuedInOrder /\ ReceivedBefore /\ OrderedDelivery

(* Everything but the counting of BroadcastWakes, which rests on it.       *)
Inv ==
    /\ TypeOK /\ QueuedInOrder /\ ReceivedBefore /\ OrderedDelivery
    /\ WaitersBlocked /\ AddressedTaken /\ OnlyBroadcasts

IInv == Inv /\ BroadcastWakes

-----------------------------------------------------------------------------
(* What taking a message and queueing one do to the inductive invariant.   *)

LEMMA CapacityFits == capacity \in 1 .. MAX_QUEUE
BY IpcAssumption DEF capacity, MinOf, MaxOf

LEMMA RingTyped ==
    ASSUME TypeOK
    PROVE  /\ RingOK(queue) /\ queue.len \in Nat
           /\ \A i \in Offsets : At(queue, i) \in Envelope
<1>1. RingOK(queue) /\ queue.len \in 0 .. MAX_QUEUE /\ queue.head \in Ring
  BY Zenon DEF TypeOK, RingOK, Queue
<1>2. ASSUME NEW i \in Offsets
      PROVE  At(queue, i) \in Envelope
  <2>1. i \in 0 .. MAX_QUEUE
    BY <1>1, <1>2, IpcAssumption DEF Offsets
  <2>2. (queue.head + i) % MAX_QUEUE \in Ring
    BY Zenon, <1>1, <2>1, Wrap
  <2> QED
    BY Zenon, <2>2 DEF At, TypeOK
<1> QED
  BY <1>1, <1>2

(* A receive takes the oldest envelope its caller may take, and closes the *)
(* gap.                                                                    *)
Took(p, off) ==
    /\ Eligible(At(queue, off), p)
    /\ \A i \in Offsets : Eligible(At(queue, i), p) => off <= i
    /\ RingOK(queue') /\ queue'.len = queue.len - 1
    /\ \A i \in Offsets' : At(queue', i) = IF i < off THEN At(queue, i) ELSE At(queue, i + 1)
    /\ received' = [received EXCEPT ![p] = Append(@, At(queue, off).message)]

LEMMA TakeTook ==
    ASSUME TypeOK, NEW p \in Proc, EligibleOffsets(queue, p) # {}, take(p)
    PROVE  \E off \in Offsets : Took(p, off)
<1> DEFINE off == Min(EligibleOffsets(queue, p))
<1>1. RingOK(queue) /\ queue.len \in Nat
  BY Zenon, RingTyped
<1>2. EligibleOffsets(queue, p) \in SUBSET Nat
  BY <1>1 DEF EligibleOffsets
<1>3. off \in EligibleOffsets(queue, p) /\ \A i \in EligibleOffsets(queue, p) : off <= i
  BY Zenon, <1>2, MinIsLeast
<1>4. off \in Offsets /\ Eligible(At(queue, off), p)
  BY Zenon, <1>3 DEF EligibleOffsets, Offsets
<1>5. \A i \in Offsets : Eligible(At(queue, i), p) => off <= i
  BY Zenon, <1>3 DEF EligibleOffsets, Offsets
<1>6. /\ received' = [received EXCEPT ![p] = Append(@, At(queue, off).message)]
      /\ queue' = compact(queue, off)
  BY Zenon DEF take, pop_for
<1> HIDE DEF off
<1>7. off \in 0 .. queue.len - 1
  BY Zenon, <1>4 DEF Offsets
<1>8. /\ RingOK(queue') /\ queue'.len = queue.len - 1
      /\ \A i \in 0 .. queue.len - 2 :
           At(queue', i) = IF i < off THEN At(queue, i) ELSE At(queue, i + 1)
  BY Zenon, <1>1, <1>6, <1>7, CompactAt
<1>9. Offsets' = 0 .. queue.len - 2
  BY <1>1, <1>8 DEF Offsets
<1> QED
  BY Zenon, <1>4, <1>5, <1>6, <1>8, <1>9 DEF Took

(* Every envelope that stays was queued before, at another offset.         *)
LEMMA TookStays ==
    ASSUME TypeOK, NEW p \in Proc, NEW off \in Offsets, Took(p, off)
    PROVE  \A i \in Offsets' : \E j \in Offsets : j # off /\ At(queue', i) = At(queue, j)
<1>1. queue.len \in Nat /\ queue'.len = queue.len - 1
  BY Zenon, RingTyped DEF Took
<1> SUFFICES ASSUME NEW i \in Offsets'
             PROVE  \E j \in Offsets : j # off /\ At(queue', i) = At(queue, j)
  BY Zenon
<1>2. i \in 0 .. queue.len - 2
  BY <1>1 DEF Offsets
<1>3. CASE i < off
  <2>1. i \in Offsets /\ i # off
    BY <1>1, <1>2, <1>3 DEF Offsets
  <2> QED
    BY Zenon, <2>1, <1>3 DEF Took
<1>4. CASE ~(i < off)
  <2>1. i + 1 \in Offsets /\ i + 1 # off
    BY <1>1, <1>2, <1>4 DEF Offsets
  <2> QED
    BY Zenon, <2>1, <1>4 DEF Took
<1> QED
  BY Zenon, <1>3, <1>4

LEMMA TookQueue ==
    ASSUME TypeOK, QueuedInOrder, NEW p \in Proc, NEW off \in Offsets, Took(p, off),
           UNCHANGED sent
    PROVE  QueuedInOrder'
<1>1. queue.len \in Nat /\ queue'.len = queue.len - 1
  BY Zenon, RingTyped DEF Took
<1>2. queue'.len <= capacity'
  BY <1>1, CapacityFits DEF QueuedInOrder, capacity
<1>3. \A i \in Offsets' : At(queue', i).message \in 1 .. sent
  BY TookStays, Zenon DEF QueuedInOrder
<1>4. ASSUME NEW i \in Offsets', NEW j \in Offsets', i < j
      PROVE  At(queue', i).message < At(queue', j).message
  <2> DEFINE from(k) == IF k < off THEN k ELSE k + 1
  <2>1. /\ i \in 0 .. queue.len - 2 /\ j \in 0 .. queue.len - 2
        /\ off \in 0 .. queue.len - 1
    BY <1>1, <1>4 DEF Offsets
  <2>2. from(i) \in Offsets /\ from(j) \in Offsets /\ from(i) < from(j)
    BY <1>1, <1>4, <2>1 DEF Offsets
  <2>3. At(queue', i) = At(queue, from(i)) /\ At(queue', j) = At(queue, from(j))
    BY Zenon, <1>4 DEF Took
  <2> HIDE DEF from
  <2> QED
    BY Zenon, <2>2, <2>3 DEF QueuedInOrder
<1> QED
  BY Zenon, <1>2, <1>3, <1>4 DEF QueuedInOrder

(* The messages p has got after a receive: those before, and the one it    *)
(* took, which is newer than they are.                                     *)
LEMMA TookMessages ==
    ASSUME TypeOK, QueuedInOrder, ReceivedBefore,
           NEW p \in Receiver, NEW off \in Offsets, Took(p, off)
    PROVE  LET m == At(queue, off).message IN
           /\ m \in 1 .. sent
           /\ received' \in [Proc -> Seq(1 .. MaxSent)]
           /\ \A q \in Proc : q # p => received'[q] = received[q]
           /\ Len(received'[p]) = Len(received[p]) + 1
           /\ received'[p][Len(received[p]) + 1] = m
           /\ \A k \in 1 .. Len(received[p]) : received'[p][k] = received[p][k] /\ received[p][k] < m
<1> DEFINE m == At(queue, off).message
<1>1. p \in Proc /\ received[p] \in Seq(1 .. MaxSent) /\ sent \in 0 .. MaxSent
  BY Zenon DEF TypeOK, Receiver
<1>2. m \in 1 .. sent
  BY Zenon DEF QueuedInOrder
<1>3. m \in 1 .. MaxSent
  BY <1>1, <1>2, IpcAssumption
<1>4. \A k \in 1 .. Len(received[p]) : received[p][k] < m
  BY <1>1 DEF ReceivedBefore, Took
<1>5. received' = [received EXCEPT ![p] = Append(received[p], m)]
  BY Zenon DEF Took
<1> HIDE DEF m
<1>6. /\ Append(received[p], m) \in Seq(1 .. MaxSent)
      /\ Len(Append(received[p], m)) = Len(received[p]) + 1
      /\ Append(received[p], m)[Len(received[p]) + 1] = m
      /\ \A k \in 1 .. Len(received[p]) : Append(received[p], m)[k] = received[p][k]
  BY <1>1, <1>3
<1>7. received' \in [Proc -> Seq(1 .. MaxSent)] /\ received'[p] = Append(received[p], m)
  BY Zenon, <1>1, <1>5, <1>6 DEF TypeOK
<1>8. \A q \in Proc : q # p => received'[q] = received[q]
  BY Zenon, <1>5 DEF TypeOK
<1> QED
  BY Zenon, <1>2, <1>4, <1>6, <1>7, <1>8 DEF m

LEMMA TookReceived ==
    ASSUME TypeOK, QueuedInOrder, ReceivedBefore, OrderedDelivery,
           NEW p \in Receiver, NEW off \in Offsets, Took(p, off), UNCHANGED sent
    PROVE  ReceivedBefore' /\ OrderedDelivery'
<1> DEFINE m == At(queue, off).message
<1> DEFINE n == Len(received[p])
<1>1. /\ m \in 1 .. sent
      /\ received' \in [Proc -> Seq(1 .. MaxSent)]
      /\ \A q \in Proc : q # p => received'[q] = received[q]
      /\ Len(received'[p]) = n + 1
      /\ received'[p][n + 1] = m
      /\ \A k \in 1 .. n : received'[p][k] = received[p][k] /\ received[p][k] < m
  BY Zenon, TookMessages
<1>2. p \in Proc /\ Receiver \subseteq Proc /\ n \in Nat /\ sent \in Nat /\ queue.len \in Nat
  BY RingTyped DEF TypeOK, Receiver
<1>3. \A i \in Offsets' : \E j \in Offsets : j # off /\ At(queue', i) = At(queue, j)
  BY Zenon, <1>2, TookStays
<1>4. \A i, j \in Offsets : i < j => At(queue, i).message < At(queue, j).message
  BY Zenon DEF QueuedInOrder
<1>5. \A i \in Offsets : At(queue, i).message \in Int
  BY <1>2 DEF QueuedInOrder
<1>6. \A i \in Offsets : i \in Int
  BY <1>2 DEF Offsets
<1>7. DOMAIN received'[p] = 1 .. n + 1 /\ DOMAIN received[p] = 1 .. n
  BY <1>1, <1>2 DEF TypeOK
<1> HIDE DEF n
<1>8. ReceivedBefore'
  <2> SUFFICES ASSUME NEW q \in Receiver, NEW k \in DOMAIN received'[q]
               PROVE  /\ received'[q][k] <= sent
                      /\ \A i \in Offsets' :
                           /\ received'[q][k] # At(queue', i).message
                           /\ Eligible(At(queue', i), q)
                                => received'[q][k] < At(queue', i).message
    BY Zenon DEF ReceivedBefore
  <2>1. CASE k \in DOMAIN received[q] /\ received'[q][k] = received[q][k]
    <3>1. /\ received[q][k] <= sent
          /\ \A i \in Offsets :
               /\ received[q][k] # At(queue, i).message
               /\ Eligible(At(queue, i), q) => received[q][k] < At(queue, i).message
      BY Zenon, <2>1 DEF ReceivedBefore
    <3> QED
      BY <1>3, <2>1, <3>1, Zenon
  <2>2. CASE q = p /\ received'[q][k] = m
    <3>1. \A j \in Offsets : j # off => m # At(queue, j).message
      BY <1>4, <1>5, <1>6
    <3>2. \A j \in Offsets : j # off /\ Eligible(At(queue, j), p) => m < At(queue, j).message
      BY <1>4, <1>5, <1>6 DEF Took
    <3>3. m <= sent
      BY <1>1, <1>2
    <3> HIDE DEF m
    <3> QED
      BY <1>3, <2>2, <3>1, <3>2, <3>3, Zenon
  <2>3. CASE q # p
    BY Zenon, <1>1, <1>2, <2>1, <2>3
  <2>4. CASE q = p
    <3>1. k \in 1 .. n \/ k = n + 1
      BY <1>2, <1>7, <2>4
    <3> QED
      BY <1>1, <1>7, <2>1, <2>2, <2>4, <3>1, Zenon
  <2> QED
    BY Zenon, <2>3, <2>4
<1>9. ASSUME NEW q \in Receiver
      PROVE  \A i, j \in DOMAIN received'[q] : i < j => received'[q][i] < received'[q][j]
  <2>1. CASE q # p
    BY Zenon, <1>1, <1>2, <2>1 DEF OrderedDelivery
  <2>2. CASE q = p
    <3>1. \A i, j \in 1 .. n : i < j => received[p][i] < received[p][j]
      BY Zenon, <1>7 DEF OrderedDelivery
    <3> HIDE DEF m
    <3>2. ASSUME NEW i \in 1 .. n + 1, NEW j \in 1 .. n + 1, i < j
          PROVE  received'[p][i] < received'[p][j]
      <4>1. i \in 1 .. n /\ (j \in 1 .. n \/ j = n + 1)
        BY <1>2, <3>2
      <4> QED
        BY Zenon, <1>1, <3>1, <3>2, <4>1
    <3> QED
      BY Zenon, <1>7, <2>2, <3>2
  <2> QED
    BY Zenon, <2>1, <2>2
<1>10. ASSUME NEW q \in Receiver, q # p
       PROVE  Range(received'[p]) \cap Range(received'[q]) = {}
  <2>1. Range(received[p]) \cap Range(received[q]) = {} /\ received'[q] = received[q]
    BY Zenon, <1>1, <1>2, <1>10 DEF OrderedDelivery
  <2>2. m \notin Range(received[q])
    BY Zenon DEF ReceivedBefore, Range
  <2> HIDE DEF m
  <2>3. ASSUME NEW k \in 1 .. n + 1
        PROVE  received'[p][k] \notin Range(received[q])
    <3>1. k \in 1 .. n \/ k = n + 1
      BY <1>2
    <3>2. \A l \in 1 .. n : received[p][l] \in Range(received[p])
      BY Zenon, <1>7 DEF Range
    <3> QED
      BY Zenon, <1>1, <2>1, <2>2, <3>1, <3>2
  <2> QED
    BY Zenon, <1>7, <2>1, <2>3 DEF Range
<1>11. \A q, r \in Receiver : q # r => Range(received'[q]) \cap Range(received'[r]) = {}
  <2> SUFFICES ASSUME NEW q \in Receiver, NEW r \in Receiver, q # r
               PROVE  Range(received'[q]) \cap Range(received'[r]) = {}
    BY Zenon
  <2>1. CASE q # p /\ r # p
    BY Zenon, <1>1, <1>2, <2>1 DEF OrderedDelivery
  <2>2. CASE q = p
    BY Zenon, <1>10, <2>2
  <2>3. CASE r = p
    BY Zenon, <1>10, <2>3
  <2> QED
    BY Zenon, <2>1, <2>2, <2>3
<1> QED
  BY Zenon, <1>8, <1>9, <1>11 DEF OrderedDelivery

(* A send puts its message behind all queued ones, numbered after all      *)
(* messages sent before.                                                   *)
Queued(target) ==
    /\ RingOK(queue') /\ queue'.len = queue.len + 1 /\ queue'.len <= capacity
    /\ \A i \in Offsets : At(queue', i) = At(queue, i)
    /\ At(queue', queue.len) = [target |-> target, message |-> sent + 1]
    /\ Offsets' = Offsets \cup {queue.len}
    /\ sent' = sent + 1 /\ sent' \in 0 .. MaxSent

LEMMA SendQueued ==
    ASSUME TypeOK, QueuedInOrder, NEW p \in Proc, NEW target \in Receiver \cup {None},
           send(p, target)
    PROVE  Queued(target)
<1> DEFINE env == [target |-> target, message |-> sent + 1]
<1>1. RingOK(queue) /\ queue.len \in Nat /\ sent \in Nat /\ MaxSent \in Nat
  BY RingTyped, IpcAssumption DEF TypeOK
<1>2. queue.len + 1 <= capacity /\ queue.len < MAX_QUEUE
  <2>1. queue.len # capacity /\ queue.len <= capacity
    BY Zenon DEF QueuedInOrder, send
  <2>2. MAX_QUEUE \in Nat
    BY Zenon, IpcAssumption
  <2> QED
    BY <1>1, <2>1, <2>2, CapacityFits
<1>3. sent' = sent + 1 /\ sent' \in 0 .. MaxSent /\ queue' = push(queue, env)
  BY <1>1 DEF send
<1>4. env \in Envelope
  BY Zenon, <1>1, <1>3 DEF Envelope
<1> HIDE DEF env
<1>5. /\ RingOK(queue') /\ queue'.len = queue.len + 1
      /\ \A i \in 0 .. queue.len - 1 : At(queue', i) = At(queue, i)
      /\ At(queue', queue.len) = env
  BY Zenon, <1>1, <1>2, <1>3, <1>4, PushAt
<1>6. Offsets' = Offsets \cup {queue.len}
  BY <1>1, <1>5 DEF Offsets
<1>7. \A i \in Offsets : At(queue', i) = At(queue, i)
  BY Zenon, <1>5 DEF Offsets
<1> QED
  BY Zenon, <1>2, <1>3, <1>5, <1>6, <1>7 DEF Queued, env

LEMMA QueuedQueue ==
    ASSUME TypeOK, QueuedInOrder, ReceivedBefore,
           NEW target \in Receiver \cup {None}, Queued(target), UNCHANGED received
    PROVE  QueuedInOrder' /\ ReceivedBefore'
<1>1. queue.len \in Nat /\ sent \in Nat /\ queue.len \notin Offsets
  BY RingTyped DEF TypeOK, Offsets
<1>2. \A i \in Offsets : i \in Int /\ i < queue.len
  BY <1>1 DEF Offsets
<1>3. At(queue', queue.len).message = sent + 1
  BY DEF Queued
<1>4. \A i \in Offsets : At(queue', i).message \in 1 .. sent /\ At(queue', i) = At(queue, i)
  BY Zenon DEF QueuedInOrder, Queued
<1>5. \A i \in Offsets' : At(queue', i).message \in 1 .. sent'
  BY <1>1, <1>3, <1>4 DEF Queued
<1>6. ASSUME NEW i \in Offsets', NEW j \in Offsets', i < j
      PROVE  At(queue', i).message < At(queue', j).message
  <2>1. i \in Offsets
    BY <1>1, <1>2, <1>6 DEF Queued
  <2>2. CASE j \in Offsets
    BY Zenon, <1>4, <1>6, <2>1, <2>2 DEF QueuedInOrder
  <2>3. CASE j = queue.len
    BY <1>1, <1>3, <1>4, <2>1, <2>3
  <2> QED
    BY Zenon, <2>2, <2>3 DEF Queued
<1>7. QueuedInOrder'
  BY Zenon, <1>5, <1>6 DEF QueuedInOrder, Queued, capacity
<1>8. ASSUME NEW p \in Receiver, NEW k \in DOMAIN received[p]
      PROVE  /\ received[p][k] <= sent'
             /\ \A i \in Offsets' :
                  /\ received[p][k] # At(queue', i).message
                  /\ Eligible(At(queue', i), p) => received[p][k] < At(queue', i).message
  <2>1. received[p] \in Seq(1 .. MaxSent)
    BY Zenon DEF TypeOK, Receiver
  <2>2. received[p][k] \in Int /\ received[p][k] <= sent
    BY <2>1, IpcAssumption DEF ReceivedBefore
  <2>3. \A i \in Offsets :
          /\ received[p][k] # At(queue', i).message
          /\ Eligible(At(queue', i), p) => received[p][k] < At(queue', i).message
    BY <1>4, Zenon DEF ReceivedBefore
  <2> QED
    BY <1>1, <1>3, <2>2, <2>3 DEF Queued
<1>9. ReceivedBefore'
  BY Zenon, <1>8 DEF ReceivedBefore
<1> QED
  BY Zenon, <1>7, <1>9

(* What a send does to the waiters: none that could take the message, or   *)
(* the first such waiter leaves its slot and is left with the sender.      *)
LEMMA SendPops ==
    ASSUME NEW p \in Proc, NEW target \in Receiver \cup {None}, send(p, target)
    PROVE  \/ waiter_slots(target) = {} /\ UNCHANGED <<waiters, waking>>
           \/ \E w \in waiter_slots(target) :
                /\ \A v \in waiter_slots(target) : w <= v
                /\ waiters' = [waiters EXCEPT ![w] = None]
                /\ waking' = [waking EXCEPT ![p] = waiters[w]]
<1> DEFINE w == Min(waiter_slots(target))
<1>1. CASE waiter_slots(target) = {}
  BY Zenon, <1>1 DEF send
<1>2. CASE waiter_slots(target) # {}
  <2>1. waiter_slots(target) \in SUBSET Nat
    BY IpcAssumption DEF waiter_slots, WaiterSlot
  <2>2. w \in waiter_slots(target) /\ \A v \in waiter_slots(target) : w <= v
    BY Zenon, <1>2, <2>1, MinIsLeast
  <2>3. waiters' = [waiters EXCEPT ![w] = None] /\ waking' = [waking EXCEPT ![p] = waiters[w]]
    BY Zenon, <1>2 DEF send
  <2> QED
    BY Zenon, <2>2, <2>3
<1> QED
  BY Zenon, <1>1, <1>2

-----------------------------------------------------------------------------
(* Inv is preserved: one lemma per action.                                 *)

LEMMA InitInv == Init => Inv
<1> SUFFICES ASSUME Init PROVE Inv
  BY Zenon
<1>1. MAX_QUEUE \in Nat \ {0} /\ MaxSent \in Nat
  BY Zenon, IpcAssumption
<1>2. 0 \in Ring /\ 0 % MAX_QUEUE = 0
  BY <1>1, Wrap DEF Ring
<1>3. Offsets = {}
  BY DEF Init, Offsets
<1>4. EMPTY \in Envelope
  BY <1>1 DEF EMPTY, Envelope
<1>5. queue \in Queue /\ queue.tail = (queue.head + queue.len) % MAX_QUEUE
  BY <1>1, <1>2, <1>4 DEF Init, Queue
<1>6. received \in [Proc -> Seq(1 .. MaxSent)] /\ \A p \in Proc : received[p] = <<>>
  BY DEF Init
<1>7. TypeOK
  <2>1. /\ waiters \in [WaiterSlot -> Receiver \cup {None}]
        /\ waking \in [Proc -> Receiver \cup {None}]
        /\ proc \in [Proc -> {"user", "blocked", "woken", "dead"}]
    BY Zenon DEF Init
  <2>2. in_use \in BOOLEAN /\ mixed \in BOOLEAN /\ allowed \subseteq Receiver
    BY Zenon DEF Init
  <2>3. sent \in 0 .. MaxSent
    BY <1>1 DEF Init
  <2> QED
    BY Zenon, <1>5, <1>6, <2>1, <2>2, <2>3 DEF TypeOK, Queue
<1>8. QueuedInOrder
  BY <1>3, CapacityFits DEF Init, QueuedInOrder
<1>9. ReceivedBefore /\ OrderedDelivery
  BY <1>6 DEF ReceivedBefore, OrderedDelivery, Receiver, Range
<1>10. WaitersBlocked
  BY Zenon, IpcAssumption DEF Init, WaitersBlocked
<1>11. AddressedTaken /\ OnlyBroadcasts
  BY Zenon, <1>3 DEF Init, AddressedTaken, OnlyBroadcasts
<1> QED
  BY Zenon, <1>7, <1>8, <1>9, <1>10, <1>11 DEF Inv

(* Nothing but the queue and the messages received enters QueuePart.       *)
LEMMA QueuePartStays ==
    ASSUME QueuePart, UNCHANGED <<queue, sent, received>>
    PROVE  QueuePart' /\ UNCHANGED Offsets
BY ZenonT(30) DEF QueuePart, QueuedInOrder, ReceivedBefore, OrderedDelivery, Offsets, At, Eligible, capacity

LEMMA CreateInv ==
    ASSUME Inv, create
    PROVE  Inv'
<1>1. QueuePart' /\ UNCHANGED Offsets
  BY Zenon, QueuePartStays DEF create, Inv, QueuePart
<1>2. TypeOK'
  BY Zenon DEF create, Inv, TypeOK
<1> QED
  BY Zenon, <1>1, <1>2 DEF create, Inv, QueuePart, WaitersBlocked, AddressedTaken, OnlyBroadcasts

LEMMA SendInv ==
    ASSUME Inv, NEW p \in Proc, NEW target \in Receiver \cup {None}, send(p, target)
    PROVE  Inv'
<1> USE DEF Inv
<1>1. Queued(target)
  BY Zenon, SendQueued
<1>2. QueuedInOrder' /\ ReceivedBefore' /\ OrderedDelivery'
  BY Zenon, <1>1, QueuedQueue DEF send, OrderedDelivery
<1>3. /\ UNCHANGED <<in_use, proc, allowed, received>> /\ p \in Sender /\ waking[p] = None
      /\ mixed' = (mixed \/ target # None)
  BY Zenon DEF send, CanSend
<1>4. /\ waiters \in [WaiterSlot -> Receiver \cup {None}]
      /\ waking \in [Proc -> Receiver \cup {None}]
  BY Zenon DEF TypeOK
<1>5. /\ waiters' \in [WaiterSlot -> Receiver \cup {None}]
      /\ waking' \in [Proc -> Receiver \cup {None}]
      /\ WaitersBlocked'
      /\ \A v \in WaiterSlot : waiters'[v] # None =>
           waiters'[v] = waiters[v] /\ waiters[v] # target
  <2>0. waiter_slots(target)
          = {w \in WaiterSlot : waiters[w] # None /\ target \in {None, waiters[w]}}
    BY Zenon DEF waiter_slots
  <2>1. CASE waiter_slots(target) = {} /\ UNCHANGED <<waiters, waking>>
    BY Zenon, <1>3, <1>4, <2>0, <2>1 DEF WaitersBlocked
  <2>2. ASSUME NEW w \in waiter_slots(target),
               waiters' = [waiters EXCEPT ![w] = None],
               waking' = [waking EXCEPT ![p] = waiters[w]]
        PROVE  /\ waiters' \in [WaiterSlot -> Receiver \cup {None}]
               /\ waking' \in [Proc -> Receiver \cup {None}]
               /\ WaitersBlocked'
               /\ \A v \in WaiterSlot : waiters'[v] # None =>
                    waiters'[v] = waiters[v] /\ waiters[v] # target
    <3>1. w \in WaiterSlot /\ waiters[w] # None /\ waiters[w] \in Receiver
      BY Zenon, <1>4, <2>0, <2>2
    <3>2. /\ waiters' \in [WaiterSlot -> Receiver \cup {None}]
          /\ waking' \in [Proc -> Receiver \cup {None}]
      BY Zenon, <1>4, <2>2, <3>1
    <3>3. \A v \in WaiterSlot : waiters'[v] = IF v = w THEN None ELSE waiters[v]
      BY Zenon, <1>4, <2>2
    <3>4. \A s \in Proc : waking'[s] = IF s = p THEN waiters[w] ELSE waking[s]
      BY Zenon, <1>4, <2>2
    <3>5. \A v \in WaiterSlot : waiters'[v] # None =>
            waiters'[v] = waiters[v] /\ waiters[v] # target
      BY <2>0, <3>1, <3>3 DEF WaitersBlocked
    <3>6. WaitersBlocked'
      BY <1>3, <3>1, <3>3, <3>4 DEF WaitersBlocked
    <3> QED
      BY Zenon, <3>2, <3>5, <3>6
  <2> QED
    BY Zenon, <2>1, <2>2, SendPops
<1>6. TypeOK'
  BY Zenon, <1>1, <1>3, <1>5 DEF TypeOK, Queued, RingOK, Queue
<1>7. AddressedTaken'
  <2> SUFFICES ASSUME NEW w \in WaiterSlot, NEW i \in Offsets', waiters'[w] # None
               PROVE  At(queue', i).target # waiters'[w]
    BY Zenon DEF AddressedTaken
  <2>1. waiters'[w] = waiters[w] /\ waiters[w] # target
    BY Zenon, <1>5
  <2>2. CASE i \in Offsets
    BY Zenon, <1>1, <2>1, <2>2 DEF AddressedTaken, Queued
  <2>3. CASE i = queue.len
    BY <1>1, <2>1, <2>3 DEF Queued
  <2> QED
    BY Zenon, <1>1, <2>2, <2>3 DEF Queued
<1>8. OnlyBroadcasts'
  <2> SUFFICES ASSUME ~mixed', NEW i \in Offsets'
               PROVE  allowed' = Receiver /\ At(queue', i).target = None
    <3>1. Offsets' # {}
      BY Zenon, <1>1 DEF Queued
    <3> QED
      BY Zenon, <3>1 DEF OnlyBroadcasts
  <2>1. ~mixed /\ target = None /\ allowed' = Receiver
    BY Zenon, <1>3 DEF OnlyBroadcasts
  <2>2. CASE i \in Offsets
    BY Zenon, <1>1, <2>1, <2>2 DEF OnlyBroadcasts, Queued
  <2>3. CASE i = queue.len
    BY <1>1, <2>1, <2>3 DEF Queued
  <2> QED
    BY Zenon, <1>1, <2>1, <2>2, <2>3 DEF Queued
<1> QED
  BY Zenon, <1>2, <1>5, <1>6, <1>7, <1>8

LEMMA WakeInv ==
    ASSUME Inv, NEW p \in Proc, wake(p)
    PROVE  Inv'
<1>1. QueuePart' /\ UNCHANGED Offsets
  BY Zenon, QueuePartStays DEF wake, Inv, QueuePart
<1>2. waking[p] \in Receiver /\ waking[p] \in Proc /\ waking[p] \notin Sender
  BY Zenon DEF wake, Inv, TypeOK, Receiver
<1>3. TypeOK'
  BY Zenon, <1>2 DEF wake, Inv, TypeOK
<1>4. /\ \A q \in Proc : q # waking[p] => proc'[q] = proc[q]
      /\ \A s \in Proc : waking'[s] = IF s = p THEN None ELSE waking[s]
      /\ UNCHANGED waiters
  BY Zenon DEF wake, Inv, TypeOK
<1>5. WaitersBlocked'
  <2>1. /\ \A w \in WaiterSlot : waiters[w] # None => waiters[w] \in Proc
        /\ \A s \in Proc : waking[s] # None => waking[s] \in Proc
        /\ Sender \subseteq Proc
    BY Zenon, IpcAssumption DEF Inv, TypeOK, Receiver
  <2>2. waking[p] # None
    BY Zenon DEF wake
  <2> QED
    BY <1>2, <1>4, <2>1, <2>2 DEF Inv, WaitersBlocked
<1>6. AddressedTaken' /\ OnlyBroadcasts'
  BY Zenon, <1>1 DEF wake, Inv, AddressedTaken, OnlyBroadcasts
<1> QED
  BY Zenon, <1>1, <1>3, <1>5, <1>6 DEF Inv, QueuePart

(* Taking a message touches neither the waiters nor the wake-ups under     *)
(* way; whoever takes one goes on in user mode.                            *)
LEMMA TakeInv ==
    ASSUME Inv, NEW p \in Receiver, proc[p] \in {"user", "woken"},
           EligibleOffsets(queue, p) # {}, take(p), proc' = [proc EXCEPT ![p] = "user"],
           UNCHANGED <<in_use, waiters, waking, allowed, sent, mixed>>
    PROVE  Inv'
<1>0. p \in Proc
  BY Zenon DEF Receiver
<1>1. PICK off \in Offsets : Took(p, off)
  BY Zenon, <1>0, TakeTook DEF Inv
<1>2. QueuePart'
  BY Zenon, <1>0, <1>1, TookQueue, TookReceived DEF Inv, QueuePart
<1>3. \A i \in Offsets' : \E j \in Offsets : j # off /\ At(queue', i) = At(queue, j)
  BY Zenon, <1>0, <1>1, TookStays DEF Inv
<1>4. received' \in [Proc -> Seq(1 .. MaxSent)]
  BY Zenon, <1>1, TookMessages DEF Inv
<1>5. RingOK(queue')
  BY Zenon, <1>1 DEF Took
<1>6. TypeOK'
  BY Zenon, <1>0, <1>4, <1>5 DEF Inv, TypeOK, RingOK, Queue
<1>7. WaitersBlocked'
  BY <1>0 DEF Inv, TypeOK, WaitersBlocked, Receiver
<1>8. AddressedTaken'
  BY <1>3, Zenon DEF Inv, AddressedTaken
<1>9. OnlyBroadcasts'
  BY <1>3, Zenon DEF Inv, OnlyBroadcasts
<1> QED
  BY Zenon, <1>2, <1>6, <1>7, <1>8, <1>9 DEF Inv, QueuePart

LEMMA RegisterInv ==
    ASSUME Inv, NEW p \in Receiver, proc[p] \in {"user", "woken"}, register_waiter(p),
           UNCHANGED <<in_use, waking, allowed, sent, mixed>>
    PROVE  Inv'
<1>0. p \in Proc /\ p # None /\ p \notin Sender
  BY Zenon, IpcAssumption DEF Receiver
<1>1. PICK w \in WaiterSlot : waiters[w] = None /\ waiters' = [waiters EXCEPT ![w] = p]
  BY Zenon DEF register_waiter
<1>2. UNCHANGED <<queue, received>> /\ proc' = [proc EXCEPT ![p] = "blocked"]
  BY Zenon DEF register_waiter
<1>3. QueuePart' /\ UNCHANGED Offsets
  BY Zenon, <1>2, QueuePartStays DEF Inv, QueuePart
<1>4. TypeOK'
  BY Zenon, <1>0, <1>1, <1>2 DEF Inv, TypeOK
<1>5. \A v \in WaiterSlot : waiters'[v] = IF v = w THEN p ELSE waiters[v]
  BY Zenon, <1>1 DEF Inv, TypeOK
<1>6. \A q \in Proc : proc'[q] = IF q = p THEN "blocked" ELSE proc[q]
  BY Zenon, <1>2 DEF Inv, TypeOK
<1>7. WaitersBlocked'
  <2>1. /\ \A v \in WaiterSlot : waiters[v] # None => waiters[v] \in Proc
        /\ \A s \in Proc : waking[s] # None => waking[s] \in Proc
        /\ Sender \subseteq Proc
    BY Zenon, IpcAssumption DEF Inv, TypeOK, Receiver
  <2>2. proc[p] # "blocked"
    BY Zenon
  <2>3. (\A v \in WaiterSlot : waiters[v] # p) /\ \A s \in Proc : waking[s] # p
    BY Zenon, <1>0, <2>2 DEF Inv, WaitersBlocked
  <2> QED
    BY <1>0, <1>5, <1>6, <2>1, <2>3 DEF Inv, WaitersBlocked
<1>8. \A i \in Offsets : At(queue, i).target # p
  BY Zenon DEF register_waiter, EligibleOffsets, Eligible, Offsets
<1>9. AddressedTaken'
  BY Zenon, <1>2, <1>3, <1>5, <1>8 DEF Inv, AddressedTaken
<1>10. OnlyBroadcasts'
  BY Zenon, <1>2, <1>3 DEF Inv, OnlyBroadcasts
<1> QED
  BY Zenon, <1>3, <1>4, <1>7, <1>9, <1>10 DEF Inv, QueuePart

(* A process that is in user mode, or was woken and is dispatched again,   *)
(* goes on in user mode or dies: nobody else's place changes.              *)
LEMMA GoesOnInv ==
    ASSUME Inv, NEW p \in Receiver, proc[p] \in {"user", "woken"}, NEW how \in {"user", "dead"},
           proc' = [proc EXCEPT ![p] = how],
           UNCHANGED <<in_use, queue, waiters, waking, allowed, sent, received, mixed>>
    PROVE  Inv'
<1>0. p \in Proc /\ p \notin Sender
  BY Zenon DEF Receiver
<1>1. QueuePart' /\ UNCHANGED Offsets
  BY Zenon, QueuePartStays DEF Inv, QueuePart
<1>2. TypeOK'
  BY Zenon, <1>0 DEF Inv, TypeOK
<1>3. WaitersBlocked'
  BY <1>0 DEF Inv, TypeOK, WaitersBlocked, Receiver
<1>4. AddressedTaken' /\ OnlyBroadcasts'
  BY Zenon, <1>1 DEF Inv, AddressedTaken, OnlyBroadcasts
<1> QED
  BY Zenon, <1>1, <1>2, <1>3, <1>4 DEF Inv, QueuePart

LEMMA ReceiveInv ==
    ASSUME Inv, NEW p \in Receiver, proc[p] \in {"user", "woken"}, receive_or_register_waiter(p)
    PROVE  Inv'
<1>0. UNCHANGED <<in_use, waking, allowed, sent, mixed>>
  BY Zenon DEF receive_or_register_waiter
<1>1. CASE receive_now(p)
  BY Zenon, <1>0, <1>1, TakeInv DEF receive_now
<1>2. CASE register_waiter(p)
  BY Zenon, <1>0, <1>2, RegisterInv
<1>3. CASE receive_fails(p)
  BY Zenon, <1>0, <1>3, GoesOnInv DEF receive_fails
<1> QED
  BY Zenon, <1>1, <1>2, <1>3 DEF receive_or_register_waiter

(* A process that was woken is a receiver.                                 *)
LEMMA WokenReceives ==
    ASSUME Inv, NEW p \in Proc, proc[p] = "woken"
    PROVE  p \in Receiver
BY Zenon DEF Inv, WaitersBlocked, Receiver

LEMMA TryReceiveInv ==
    ASSUME Inv, NEW p \in Proc, TryReceiveMessage(p)
    PROVE  Inv'
<1>1. proc' = [proc EXCEPT ![p] = "user"]
  BY Zenon DEF TryReceiveMessage, Inv, TypeOK
<1> QED
  BY Zenon, <1>1, TakeInv DEF TryReceiveMessage

LEMMA WithdrawInv ==
    ASSUME Inv, NEW p \in Proc, withdraw(p)
    PROVE  Inv'
<1>1. QueuePart' /\ UNCHANGED Offsets
  BY Zenon, QueuePartStays DEF withdraw, Inv, QueuePart
<1>2. TypeOK'
  BY Zenon DEF withdraw, Inv, TypeOK
<1>3. WaitersBlocked' /\ AddressedTaken' /\ OnlyBroadcasts'
  BY Zenon, <1>1 DEF withdraw, Inv, WaitersBlocked, AddressedTaken, OnlyBroadcasts
<1> QED
  BY Zenon, <1>1, <1>2, <1>3 DEF Inv, QueuePart

LEMMA NextInv == Inv /\ [Next]_vars => Inv'
<1> SUFFICES ASSUME Inv, [Next]_vars PROVE Inv'
  BY Zenon
<1>1. CASE create
  BY Zenon, <1>1, CreateInv
<1>2. ASSUME NEW p \in Proc, NEW target \in Receiver \cup {None}, send(p, target)
      PROVE  Inv'
  BY Zenon, <1>2, SendInv
<1>3. ASSUME NEW p \in Proc, wake(p)
      PROVE  Inv'
  BY Zenon, <1>3, WakeInv
<1>4. ASSUME NEW p \in Proc, ReceiveMessage(p)
      PROVE  Inv'
  BY Zenon, <1>4, ReceiveInv DEF ReceiveMessage
<1>5. ASSUME NEW p \in Proc, complete_receive(p)
      PROVE  Inv'
  BY Zenon, <1>5, WokenReceives, ReceiveInv DEF complete_receive
<1>6. ASSUME NEW p \in Proc, TryReceiveMessage(p)
      PROVE  Inv'
  BY Zenon, <1>6, TryReceiveInv
<1>7. ASSUME NEW p \in Proc, withdraw(p)
      PROVE  Inv'
  BY Zenon, <1>7, WithdrawInv
<1>8. ASSUME NEW p \in Proc, exit(p)
      PROVE  Inv'
  BY Zenon, <1>8, GoesOnInv DEF exit
<1>9. CASE UNCHANGED vars
  <2>1. QueuePart' /\ UNCHANGED Offsets
    BY Zenon, <1>9, QueuePartStays DEF vars, Inv, QueuePart
  <2>2. TypeOK'
    BY Zenon, <1>9 DEF vars, Inv, TypeOK
  <2>3. WaitersBlocked' /\ AddressedTaken' /\ OnlyBroadcasts'
    BY Zenon, <1>9, <2>1 DEF vars, Inv, WaitersBlocked, AddressedTaken, OnlyBroadcasts
  <2> QED
    BY Zenon, <2>1, <2>2, <2>3 DEF Inv, QueuePart
<1> QED
  BY Zenon, <1>1, <1>2, <1>3, <1>4, <1>5, <1>6, <1>7, <1>8, <1>9 DEF Next

-----------------------------------------------------------------------------
(* Order of the queue.                                                     *)

LEMMA PopInOrder == TypeOK => PopKeepsOrder
<1> SUFFICES ASSUME TypeOK, NEW p \in Receiver, EligibleOffsets(queue, p) # {}
             PROVE  Contents(pop_for(queue, p)) =
                      Without(Contents(queue),
                              Min({i \in 1 .. queue.len : Eligible(Contents(queue)[i], p)}))
  BY Zenon DEF PopKeepsOrder
<1> DEFINE off == Min(EligibleOffsets(queue, p))
<1> DEFINE places == {i \in 1 .. queue.len : Eligible(Contents(queue)[i], p)}
<1> DEFINE r == compact(queue, off)
<1> DEFINE s == Contents(queue)
<1>1. /\ RingOK(queue) /\ queue.len \in Nat
      /\ \A i \in 0 .. queue.len - 1 : At(queue, i) \in Envelope
  BY Zenon, RingTyped DEF Offsets
<1>2. s = [i \in 1 .. queue.len |-> At(queue, i - 1)]
  BY Zenon DEF Contents
<1>3. s \in Seq(Envelope) /\ Len(s) = queue.len
  BY <1>1, <1>2
<1>4. EligibleOffsets(queue, p) \in SUBSET Nat
  BY <1>1 DEF EligibleOffsets
<1>5. off \in EligibleOffsets(queue, p) /\ \A i \in EligibleOffsets(queue, p) : off <= i
  BY Zenon, <1>4, MinIsLeast
<1> HIDE DEF off, s
<1>6. off \in 0 .. queue.len - 1 /\ off + 1 \in 1 .. queue.len /\ off \in Nat
  BY <1>1, <1>5 DEF EligibleOffsets
<1>7. Min(places) = off + 1
  <2>1. off + 1 \in places
    BY <1>1, <1>2, <1>5, <1>6 DEF EligibleOffsets, s
  <2>2. ASSUME NEW i \in places
        PROVE  off + 1 <= i
    <3>1. i \in 1 .. queue.len /\ i - 1 \in EligibleOffsets(queue, p)
      BY <1>1, <1>2, <2>2 DEF EligibleOffsets, s
    <3>2. off <= i - 1
      BY Zenon, <1>5, <3>1
    <3> QED
      BY <1>1, <1>6, <3>1, <3>2
  <2>3. places \in SUBSET Nat
    BY <1>1
  <2> HIDE DEF places
  <2>4. Min(places) \in places /\ \A i \in places : Min(places) <= i
    BY Zenon, <2>1, <2>3, MinIsLeast
  <2>5. Min(places) \in Nat /\ Min(places) <= off + 1 /\ off + 1 <= Min(places)
    BY <2>1, <2>2, <2>3, <2>4, Zenon
  <2> HIDE DEF off
  <2> QED
    BY <1>6, <2>5
<1>8. Without(s, off + 1)
        = [k \in 1 .. queue.len - 1 |-> IF k < off + 1 THEN s[k] ELSE s[k + 1]]
  BY Zenon, <1>3 DEF Without
<1>9. /\ r.len = queue.len - 1
      /\ \A i \in 0 .. queue.len - 2 :
           At(r, i) = IF i < off THEN At(queue, i) ELSE At(queue, i + 1)
  BY Zenon, <1>1, <1>6, CompactAt
<1> HIDE DEF r
<1>10. ASSUME NEW k \in 1 .. queue.len - 1
       PROVE  At(r, k - 1) = IF k < off + 1 THEN s[k] ELSE s[k + 1]
  <2>1. k - 1 \in 0 .. queue.len - 2 /\ k \in 1 .. queue.len /\ k + 1 \in 1 .. queue.len
    BY <1>1
  <2>2. s[k] = At(queue, k - 1) /\ s[k + 1] = At(queue, k)
    BY <1>1, <1>2, <2>1
  <2>3. At(r, k - 1) = IF k - 1 < off THEN At(queue, k - 1) ELSE At(queue, k)
    BY <1>1, <1>9, <2>1
  <2> QED
    BY <1>1, <1>6, <2>2, <2>3
<1>11. Contents(r) = [k \in 1 .. queue.len - 1 |-> At(r, k - 1)]
  BY Zenon, <1>9 DEF Contents
<1>12. Contents(r) = Without(s, off + 1)
  BY Zenon, <1>8, <1>10, <1>11
<1> QED
  BY Zenon, <1>7, <1>12 DEF pop_for, r, s, off

(* Every queued envelope a registered receiver could have been meant by is *)
(* addressed to someone else.                                              *)
LEMMA InvAddressed == Inv => AddressedWakes
<1> SUFFICES ASSUME Inv, NEW p \in Receiver, NEW w \in WaiterSlot, waiters[w] = p
             PROVE  /\ proc[p] = "blocked"
                    /\ \A i \in 1 .. queue.len : Contents(queue)[i].target # p
  BY Zenon DEF AddressedWakes, Registered
<1>1. p # None
  BY Zenon, IpcAssumption DEF Receiver
<1>2. proc[p] = "blocked"
  BY Zenon, <1>1 DEF Inv, WaitersBlocked
<1>3. ASSUME NEW i \in 1 .. queue.len
      PROVE  Contents(queue)[i].target # p
  <2>1. i - 1 \in Offsets
    BY RingTyped DEF Inv, Offsets
  <2> QED
    BY Zenon, <1>1, <2>1 DEF Inv, AddressedTaken, Contents
<1> QED
  BY Zenon, <1>2, <1>3

-----------------------------------------------------------------------------
(* BroadcastWakes counts the receivers on their way.                       *)

LEMMA OnTheirWayCounted ==
    /\ IsFiniteSet(OnTheirWay) /\ Cardinality(OnTheirWay) \in Nat
    /\ IsFiniteSet(OnTheirWay)' /\ Cardinality(OnTheirWay)' \in Nat
<1>1. IsFiniteSet(Proc)
  BY Zenon, IpcAssumption
<1>2. OnTheirWay \in SUBSET Proc /\ OnTheirWay' \in SUBSET Proc
  BY Zenon DEF OnTheirWay, Receiver
<1> QED
  BY <1>1, <1>2, FS_Subset, FS_CardinalityType, Zenon

(* How many receivers are on their way after a step in which at most p     *)
(* stopped being, and how many after one in which x started to be.         *)
LEMMA OneArrives ==
    ASSUME NEW p, OnTheirWay \ {p} \subseteq OnTheirWay'
    PROVE  Cardinality(OnTheirWay) - 1 <= Cardinality(OnTheirWay')
<1>1. Cardinality(OnTheirWay \ {p}) \in Nat /\ Cardinality(OnTheirWay) - 1 <= Cardinality(OnTheirWay \ {p})
  <2>1. IsFiniteSet(OnTheirWay) /\ Cardinality(OnTheirWay) \in Nat
    BY Zenon, OnTheirWayCounted
  <2>2. /\ IsFiniteSet(OnTheirWay \ {p})
        /\ Cardinality(OnTheirWay \ {p})
             = IF p \in OnTheirWay THEN Cardinality(OnTheirWay) - 1 ELSE Cardinality(OnTheirWay)
    BY <2>1, FS_RemoveElement, Zenon
  <2>3. Cardinality(OnTheirWay \ {p}) \in Nat
    BY <2>2, FS_CardinalityType, Zenon
  <2> QED
    BY <2>1, <2>2, <2>3
<1>2. Cardinality(OnTheirWay \ {p}) <= Cardinality(OnTheirWay')
  BY OnTheirWayCounted, FS_Subset, Zenon
<1>3. Cardinality(OnTheirWay) \in Nat /\ Cardinality(OnTheirWay') \in Nat
  BY Zenon, OnTheirWayCounted
<1> QED
  BY <1>1, <1>2, <1>3

LEMMA NoneArrives ==
    ASSUME OnTheirWay \subseteq OnTheirWay'
    PROVE  Cardinality(OnTheirWay) <= Cardinality(OnTheirWay')
BY OnTheirWayCounted, FS_Subset, Zenon

LEMMA OneLeaves ==
    ASSUME NEW x, x \notin OnTheirWay, OnTheirWay \cup {x} \subseteq OnTheirWay'
    PROVE  Cardinality(OnTheirWay) + 1 <= Cardinality(OnTheirWay')
<1>1. Cardinality(OnTheirWay \cup {x}) = Cardinality(OnTheirWay) + 1
  BY OnTheirWayCounted, FS_AddElement, Zenon
<1>2. Cardinality(OnTheirWay \cup {x}) <= Cardinality(OnTheirWay')
  BY OnTheirWayCounted, FS_Subset, Zenon
<1> QED
  BY Zenon, <1>1, <1>2

(* With only broadcasts queued, a receiver that finds nothing to take      *)
(* finds the queue empty.                                                  *)
LEMMA NothingQueued ==
    ASSUME Inv, ~mixed, NEW p \in Receiver, EligibleOffsets(queue, p) = {}
    PROVE  queue.len = 0
<1>1. queue.len \in Nat
  BY Zenon, RingTyped DEF Inv
<1>2. \A i \in Offsets : i \in EligibleOffsets(queue, p)
  BY Zenon DEF Inv, OnlyBroadcasts, EligibleOffsets, Offsets, Eligible
<1>3. Offsets = {}
  BY Zenon, <1>2
<1>4. CASE queue.len # 0
  <2>1. 0 \in Offsets
    BY <1>1, <1>4 DEF Offsets
  <2> QED
    BY Zenon, <1>3, <2>1
<1> QED
  BY Zenon, <1>4

LEMMA EmptyQueueWakes ==
    ASSUME queue'.len = 0
    PROVE  BroadcastWakes'
BY OnTheirWayCounted DEF BroadcastWakes

LEMMA SendWakes ==
    ASSUME Inv, BroadcastWakes, NEW p \in Proc, NEW target \in Receiver \cup {None},
           send(p, target)
    PROVE  BroadcastWakes'
<1> SUFFICES ASSUME ~mixed', NEW q \in Receiver, NEW v \in WaiterSlot, waiters'[v] = q
             PROVE  queue'.len <= Cardinality(OnTheirWay')
  BY Zenon DEF BroadcastWakes, Registered
<1>1. ~mixed /\ target = None /\ UNCHANGED proc /\ p \in Sender /\ waking[p] = None
  BY Zenon DEF send, CanSend
<1>2. queue'.len = queue.len + 1 /\ queue.len \in Nat
  BY Zenon, SendQueued, RingTyped DEF Inv, Queued
<1>3. q # None /\ None \notin Receiver
  BY Zenon, IpcAssumption DEF Receiver
<1>4. waiters \in [WaiterSlot -> Receiver \cup {None}] /\ waking \in [Proc -> Receiver \cup {None}]
  BY Zenon DEF Inv, TypeOK
<1>5. waiter_slots(target) = {w \in WaiterSlot : waiters[w] # None}
  BY Zenon, <1>1 DEF waiter_slots
<1>6. CASE waiter_slots(target) = {} /\ UNCHANGED <<waiters, waking>>
  BY Zenon, <1>3, <1>5, <1>6
<1>7. ASSUME NEW w \in waiter_slots(target),
             waiters' = [waiters EXCEPT ![w] = None],
             waking' = [waking EXCEPT ![p] = waiters[w]]
      PROVE  queue'.len <= Cardinality(OnTheirWay')
  <2> DEFINE x == waiters[w]
  <2>1. x \in Receiver /\ x # None /\ w \in WaiterSlot
    BY Zenon, <1>4, <1>5, <1>7
  <2>2. \A s \in Proc : waking'[s] = IF s = p THEN x ELSE waking[s]
    BY Zenon, <1>4, <1>7
  <2>3. \E u \in Receiver : Registered(u)
    BY Zenon, <2>1 DEF Registered
  <2>4. queue.len <= Cardinality(OnTheirWay)
    BY Zenon, <1>1, <2>3 DEF BroadcastWakes
  <2>5. x \notin OnTheirWay
    BY Zenon, <2>1, IpcAssumption DEF OnTheirWay, Inv, WaitersBlocked
  <2>6. OnTheirWay \cup {x} \subseteq OnTheirWay'
    <3>1. x \in OnTheirWay'
      BY Zenon, <1>1, <2>1, <2>2 DEF OnTheirWay
    <3>2. OnTheirWay \subseteq OnTheirWay'
      BY Zenon, <1>1, <1>3, <2>2, IpcAssumption DEF OnTheirWay
    <3> QED
      BY Zenon, <3>1, <3>2
  <2> HIDE DEF x
  <2>7. Cardinality(OnTheirWay) + 1 <= Cardinality(OnTheirWay')
    BY Zenon, <2>5, <2>6, OneLeaves
  <2> QED
    BY <1>2, <2>4, <2>7, OnTheirWayCounted
<1> QED
  BY Zenon, <1>6, <1>7, SendPops

LEMMA WakeWakes ==
    ASSUME Inv, BroadcastWakes, NEW p \in Proc, wake(p)
    PROVE  BroadcastWakes'
<1> DEFINE r == waking[p]
<1>1. /\ r # None /\ r \in Receiver /\ r \in Proc /\ proc[r] = "blocked"
      /\ UNCHANGED <<queue, waiters, mixed>>
  BY DEF wake, Inv, TypeOK, WaitersBlocked, Receiver
<1>2. /\ proc'[r] = "woken" /\ \A q \in Proc : q # r => proc'[q] = proc[q]
      /\ \A s \in Proc : s # p => waking'[s] = waking[s]
  BY Zenon, <1>1 DEF wake, Inv, TypeOK
<1>3. OnTheirWay \subseteq OnTheirWay'
  <2> SUFFICES ASSUME NEW q \in OnTheirWay PROVE q \in OnTheirWay'
    BY Zenon
  <2>1. q \in Receiver /\ q \in Proc
    BY Zenon DEF OnTheirWay, Receiver
  <2>2. CASE q = r
    BY Zenon, <1>2, <2>1, <2>2 DEF OnTheirWay
  <2>3. CASE q # r
    BY Zenon, <1>2, <2>1, <2>3, IpcAssumption DEF OnTheirWay
  <2> QED
    BY Zenon, <2>2, <2>3
<1>4. Cardinality(OnTheirWay) <= Cardinality(OnTheirWay')
  BY Zenon, <1>3, NoneArrives
<1>5. queue.len \in Nat
  BY Zenon, RingTyped DEF Inv
<1> HIDE DEF r
<1> QED
  BY <1>1, <1>4, <1>5, OnTheirWayCounted DEF BroadcastWakes, Registered

(* Taking a message: at most the receiver itself is no longer on its way.  *)
LEMMA TakeWakes ==
    ASSUME Inv, BroadcastWakes, NEW p \in Receiver, EligibleOffsets(queue, p) # {}, take(p),
           proc' = [proc EXCEPT ![p] = "user"], UNCHANGED <<waiters, waking, mixed>>
    PROVE  BroadcastWakes'
<1>0. p \in Proc
  BY Zenon DEF Receiver
<1>1. queue'.len = queue.len - 1 /\ queue.len \in Nat
  BY Zenon, <1>0, TakeTook, RingTyped DEF Inv, Took
<1>2. OnTheirWay \ {p} \subseteq OnTheirWay'
  BY Zenon, <1>0 DEF OnTheirWay, Inv, TypeOK, Receiver
<1>3. Cardinality(OnTheirWay) - 1 <= Cardinality(OnTheirWay')
  BY Zenon, <1>2, OneArrives
<1> QED
  BY <1>1, <1>3, OnTheirWayCounted DEF BroadcastWakes, Registered

(* Steps that leave the queue alone and take nobody off its way.           *)
LEMMA IdleWakes ==
    ASSUME Inv, BroadcastWakes, UNCHANGED <<queue, waiters, waking, mixed>>,
           \A p \in Receiver : proc[p] = "woken" => proc'[p] = "woken"
    PROVE  BroadcastWakes'
<1>1. OnTheirWay \subseteq OnTheirWay'
  BY Zenon DEF OnTheirWay
<1>2. Cardinality(OnTheirWay) <= Cardinality(OnTheirWay')
  BY Zenon, <1>1, NoneArrives
<1>3. queue.len \in Nat
  BY Zenon, RingTyped DEF Inv
<1> QED
  BY <1>2, <1>3, OnTheirWayCounted DEF BroadcastWakes, Registered

LEMMA ReceiveWakes ==
    ASSUME Inv, BroadcastWakes, NEW p \in Receiver, receive_or_register_waiter(p)
    PROVE  BroadcastWakes'
<1>0. UNCHANGED <<waking, allowed, mixed>>
  BY Zenon DEF receive_or_register_waiter
<1>1. CASE receive_now(p)
  BY Zenon, <1>0, <1>1, TakeWakes DEF receive_now
<1>2. CASE mixed
  BY Zenon, <1>0, <1>2 DEF BroadcastWakes
<1>3. CASE register_waiter(p) /\ ~mixed
  <2>1. queue.len = 0 /\ UNCHANGED queue
    BY Zenon, <1>3, NothingQueued DEF register_waiter
  <2> QED
    BY Zenon, <2>1, EmptyQueueWakes
<1>4. CASE receive_fails(p) /\ ~mixed
  <2>1. p \in allowed
    BY Zenon, <1>4 DEF Inv, OnlyBroadcasts
  <2>2. queue.len = 0 /\ UNCHANGED queue
    BY Zenon, <1>4, <2>1, NothingQueued DEF receive_fails
  <2> QED
    BY Zenon, <2>2, EmptyQueueWakes
<1> QED
  BY Zenon, <1>1, <1>2, <1>3, <1>4 DEF receive_or_register_waiter

LEMMA NextWakes == Inv /\ BroadcastWakes /\ [Next]_vars => BroadcastWakes'
<1> SUFFICES ASSUME Inv, BroadcastWakes, [Next]_vars PROVE BroadcastWakes'
  BY Zenon
<1>1. CASE create
  BY Zenon, <1>1, IdleWakes DEF create
<1>2. ASSUME NEW p \in Proc, NEW target \in Receiver \cup {None}, send(p, target)
      PROVE  BroadcastWakes'
  BY Zenon, <1>2, SendWakes
<1>3. ASSUME NEW p \in Proc, wake(p)
      PROVE  BroadcastWakes'
  BY Zenon, <1>3, WakeWakes
<1>4. ASSUME NEW p \in Proc, ReceiveMessage(p)
      PROVE  BroadcastWakes'
  BY Zenon, <1>4, ReceiveWakes DEF ReceiveMessage
<1>5. ASSUME NEW p \in Proc, complete_receive(p)
      PROVE  BroadcastWakes'
  BY Zenon, <1>5, WokenReceives, ReceiveWakes DEF complete_receive
<1>6. ASSUME NEW p \in Proc, TryReceiveMessage(p)
      PROVE  BroadcastWakes'
  <2>1. proc' = [proc EXCEPT ![p] = "user"]
    BY Zenon, <1>6 DEF TryReceiveMessage, Inv, TypeOK
  <2> QED
    BY Zenon, <1>6, <2>1, TakeWakes DEF TryReceiveMessage
<1>7. ASSUME NEW p \in Proc, withdraw(p)
      PROVE  BroadcastWakes'
  BY Zenon, <1>7 DEF withdraw, BroadcastWakes
<1>8. ASSUME NEW p \in Proc, exit(p)
      PROVE  BroadcastWakes'
  <2>1. \A q \in Receiver : proc[q] = "woken" => proc'[q] = "woken"
    BY Zenon, <1>8 DEF exit, Inv, TypeOK, Receiver
  <2> QED
    BY Zenon, <1>8, <2>1, IdleWakes DEF exit
<1>9. CASE UNCHANGED vars
  BY Zenon, <1>9, IdleWakes DEF vars
<1> QED
  BY Zenon, <1>1, <1>2, <1>3, <1>4, <1>5, <1>6, <1>7, <1>8, <1>9 DEF Next

-----------------------------------------------------------------------------
(* The inductive invariant holds of every reachable state of the channel.  *)
THEOREM Invariance == Spec => []IInv
<1>1. Init => IInv
  <2>1. Init => BroadcastWakes
    BY IpcAssumption DEF Init, BroadcastWakes, Registered, Receiver
  <2> QED
    BY Zenon, <2>1, InitInv DEF IInv, Inv
<1>2. IInv /\ [Next]_vars => IInv'
  BY Zenon, NextInv, NextWakes DEF IInv, Inv
<1> QED
  BY <1>1, <1>2, PTL DEF Spec

(* The ring buffer keeps its indices and its length within its capacity    *)
(* whatever the order of sends and receives.                               *)
THEOREM TypeCorrect == Spec => []TypeOK
<1>1. IInv => TypeOK
  BY Zenon DEF IInv, Inv
<1> QED
  BY <1>1, Invariance, PTL

(* MessageQueue::pop_for removes the oldest envelope the caller may take   *)
(* and preserves the order of the others, for every ring size and every    *)
(* position at which the ring wraps.                                       *)
THEOREM PopOrder == Spec => []PopKeepsOrder
<1>1. IInv => PopKeepsOrder
  BY Zenon, PopInOrder DEF IInv, Inv
<1> QED
  BY <1>1, Invariance, PTL

(* No receiver gets a message out of order, and no message reaches two     *)
(* receivers, however sends, receives, wake-ups and exits interleave.      *)
THEOREM Ordered == Spec => []OrderedDelivery
<1>1. IInv => OrderedDelivery
  BY Zenon DEF IInv, Inv
<1> QED
  BY <1>1, Invariance, PTL

(* No receiver sleeps in the waiter array while an envelope addressed to   *)
(* it is queued: send_to pops its target from the array, and registering   *)
(* looks at the queue under the same lock.                                 *)
THEOREM AddressedNotLost == Spec => []AddressedWakes
<1>1. IInv => AddressedWakes
  BY Zenon, InvAddressed DEF IInv, Inv
<1> QED
  BY <1>1, Invariance, PTL

(* While only broadcasts are sent, a receiver that stays in the waiter     *)
(* array leaves no queued message without a receiver on its way to it.     *)
THEOREM BroadcastNotLost == Spec => []BroadcastWakes
<1>1. IInv => BroadcastWakes
  BY Zenon DEF IInv, Inv
<1> QED
  BY <1>1, Invariance, PTL
=============================================================================
