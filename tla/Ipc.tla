--------------------------------- MODULE Ipc ---------------------------------
(***************************************************************************)
(* An IPC channel of ipc.rs with the system calls that use it: broadcast   *)
(* and targeted sends, polling and blocking receives, and the completion   *)
(* of a blocking receive when the receiver is dispatched again.  A step is *)
(* one CHANNEL_TABLE critical section; send_inner wakes the receiver it    *)
(* popped in a step of its own, after unlocking.  Blocking and waking are  *)
(* atomic, as Scheduler is shown to implement ProcessContract.             *)
(***************************************************************************)
EXTENDS Integers, Sequences, FiniteSetsExt

CONSTANTS
    Proc,                 \* the processes
    Sender,               \* those that send; the others receive
    None,                 \* no process; the target of a broadcast
    MAX_QUEUE,            \* slots of the ring buffer
    Capacity,             \* desc.capacity of the channel
    WAITERS_PER_CHANNEL,  \* slots of the waiter array
    MaxSent               \* bound: messages ever sent

ASSUME IpcAssumption ==
    /\ Sender \subseteq Proc /\ IsFiniteSet(Proc)
    /\ None \notin Proc
    /\ MAX_QUEUE \in Nat \ {0} /\ Capacity \in Nat
    /\ WAITERS_PER_CHANNEL \in Nat \ {0}
    /\ MaxSent \in Nat

VARIABLES
    in_use,    \* the channel exists
    queue,     \* MessageQueue: buf, head, tail, len
    waiters,   \* [Option<ProcessId>; WAITERS_PER_CHANNEL]
    proc,      \* what each process is doing
    waking,    \* the receiver a sender popped and has not woken yet
    allowed,   \* the processes whose capabilities meet rx_groups
    sent,      \* number of messages sent: each one is its own number
    received,  \* for each process, the messages it got, in order
    mixed      \* a targeted message was sent or a permission withdrawn

vars == <<in_use, queue, waiters, proc, waking, allowed, sent, received, mixed>>

Ring == 0 .. MAX_QUEUE - 1
WaiterSlot == 1 .. WAITERS_PER_CHANNEL
Receiver == Proc \ Sender
Envelope == [target : Receiver \cup {None}, message : 0 .. MaxSent]
EMPTY == [target |-> None, message |-> 0]
MinOf(a, b) == IF a < b THEN a ELSE b
MaxOf(a, b) == IF a < b THEN b ELSE a

(* Mutant: the requested capacity as it is.                                *)
unclamped == Capacity

(* configure clamps the requested capacity to the ring.                    *)
capacity == MaxOf(MinOf(Capacity, MAX_QUEUE), 1)

Init ==
    /\ in_use = FALSE
    /\ queue = [buf |-> [i \in Ring |-> EMPTY], head |-> 0, tail |-> 0, len |-> 0]
    /\ waiters = [w \in WaiterSlot |-> None]
    /\ proc = [p \in Proc |-> "user"]
    /\ waking = [p \in Proc |-> None]
    /\ allowed = Receiver
    /\ sent = 0
    /\ received = [p \in Proc |-> <<>>]
    /\ mixed = FALSE

-----------------------------------------------------------------------------
(* MessageQueue.                                                           *)

push(q, env) ==
    [buf |-> [q.buf EXCEPT ![q.tail] = env], head |-> q.head,
     tail |-> (q.tail + 1) % MAX_QUEUE, len |-> q.len + 1]

At(q, off) == q.buf[(q.head + off) % MAX_QUEUE]
Eligible(env, caller) == env.target \in {None, caller}
EligibleOffsets(q, caller) == {off \in 0 .. q.len - 1 : Eligible(At(q, off), caller)}

(* Mutant: the oldest entry is dropped, whichever was found.               *)
drop_head(q, off) == [q EXCEPT !.head = (@ + 1) % MAX_QUEUE, !.len = @ - 1]

(* Copies every later entry one place towards the head.                    *)
compact(q, off) ==
    [buf |-> [i \in Ring |->
                IF \E j \in off .. q.len - 2 : i = (q.head + j) % MAX_QUEUE
                THEN q.buf[(i + 1) % MAX_QUEUE] ELSE q.buf[i]],
     head |-> q.head,
     tail |-> (q.tail + MAX_QUEUE - 1) % MAX_QUEUE, len |-> q.len - 1]

(* Mutant: the search keeps the last match.                                *)
pop_newest(q, caller) == compact(q, Max(EligibleOffsets(q, caller)))

pop_for(q, caller) == compact(q, Min(EligibleOffsets(q, caller)))

(* The envelopes in the queue, oldest first.                               *)
Contents(q) == [i \in 1 .. q.len |-> At(q, i - 1)]

-----------------------------------------------------------------------------
(* create: all boot and CreateChannel channels have no owner.              *)
create ==
    /\ ~in_use
    /\ in_use' = TRUE
    /\ UNCHANGED <<queue, waiters, proc, waking, allowed, sent, received, mixed>>

(* Mutant: a targeted send wakes the first waiter.                         *)
wake_first(target) == {w \in WaiterSlot : waiters[w] # None}

(* The slot pop_waiter_for empties: the target's, or the first taken one.  *)
waiter_slots(target) ==
    {w \in WaiterSlot : waiters[w] # None /\ target \in {None, waiters[w]}}

CanSend(p) == in_use /\ p \in Sender /\ proc[p] = "user" /\ waking[p] = None

(* send and send_to.  IpcSendTo looks the target up before it locks the    *)
(* channel.                                                                *)
send(p, target) ==
    /\ CanSend(p)
    /\ target # None => proc[target] # "dead"
    /\ sent < MaxSent
    /\ queue.len # capacity
    /\ sent' = sent + 1
    /\ queue' = push(queue, [target |-> target, message |-> sent'])
    /\ IF waiter_slots(target) = {}
       THEN UNCHANGED <<waiters, waking>>
       ELSE LET w == Min(waiter_slots(target))
            IN  /\ waiters' = [waiters EXCEPT ![w] = None]
                /\ waking' = [waking EXCEPT ![p] = waiters[w]]
    /\ mixed' = (mixed \/ target # None)
    /\ UNCHANGED <<in_use, proc, allowed, received>>

(* scheduler::wake, after the channel is unlocked.                         *)
wake(p) ==
    /\ waking[p] # None
    /\ proc' = [proc EXCEPT ![waking[p]] = IF @ = "blocked" THEN "woken" ELSE @]
    /\ waking' = [waking EXCEPT ![p] = None]
    /\ UNCHANGED <<in_use, queue, waiters, allowed, sent, received, mixed>>

Registered(p) == \E w \in WaiterSlot : waiters[w] = p

take(p) ==
    LET off == Min(EligibleOffsets(queue, p))
    IN  /\ received' = [received EXCEPT ![p] = Append(@, At(queue, off).message)]
        /\ queue' = pop_for(queue, p)

(* receive_or_register_waiter, as ReceiveMessage and complete_receive call *)
(* it.                                                                     *)
receive_now(p) ==
    /\ p \in allowed
    /\ EligibleOffsets(queue, p) # {}
    /\ take(p)
    /\ proc' = [proc EXCEPT ![p] = "user"]
    /\ UNCHANGED waiters

(* Mutant: registers although a message is there.                          *)
register_without_check(p) ==
    /\ p \in allowed
    /\ \E w \in WaiterSlot :
         /\ waiters[w] = None
         /\ \A v \in WaiterSlot : v < w => waiters[v] # None
         /\ waiters' = [waiters EXCEPT ![w] = p]
    /\ proc' = [proc EXCEPT ![p] = "blocked"]
    /\ UNCHANGED <<queue, received>>

register_waiter(p) ==
    /\ p \in allowed
    /\ EligibleOffsets(queue, p) = {}
    /\ \E w \in WaiterSlot :
         /\ waiters[w] = None
         /\ \A v \in WaiterSlot : v < w => waiters[v] # None
         /\ waiters' = [waiters EXCEPT ![w] = p]
    /\ proc' = [proc EXCEPT ![p] = "blocked"]
    /\ UNCHANGED <<queue, received>>

(* PolicyDenied, or ChannelBusy when every waiter slot is taken.           *)
receive_fails(p) ==
    /\ \/ p \notin allowed
       \/ EligibleOffsets(queue, p) = {} /\ \A w \in WaiterSlot : waiters[w] # None
    /\ proc' = [proc EXCEPT ![p] = "user"]
    /\ UNCHANGED <<queue, waiters, received>>

receive_or_register_waiter(p) ==
    /\ receive_now(p) \/ register_waiter(p) \/ receive_fails(p)
    /\ UNCHANGED <<in_use, waking, allowed, sent, mixed>>

ReceiveMessage(p) == in_use /\ p \in Receiver /\ proc[p] = "user" /\ receive_or_register_waiter(p)

(* dispatch finds pending_recv set and finishes the receive.               *)
complete_receive(p) == proc[p] = "woken" /\ receive_or_register_waiter(p)

TryReceiveMessage(p) ==
    /\ in_use /\ p \in Receiver /\ proc[p] = "user"
    /\ p \in allowed
    /\ EligibleOffsets(queue, p) # {}
    /\ take(p)
    /\ UNCHANGED <<in_use, waiters, proc, waking, allowed, sent, mixed>>

(* effective_caps is computed on every call: a grant may end meanwhile.    *)
withdraw(p) ==
    /\ p \in allowed
    /\ allowed' = allowed \ {p}
    /\ mixed' = TRUE
    /\ UNCHANGED <<in_use, queue, waiters, proc, waking, sent, received>>

exit(p) ==
    /\ p \in Receiver /\ proc[p] = "user"
    /\ proc' = [proc EXCEPT ![p] = "dead"]
    /\ UNCHANGED <<in_use, queue, waiters, waking, allowed, sent, received, mixed>>

-----------------------------------------------------------------------------
Next ==
    \/ create
    \/ \E p \in Proc :
         \/ \E target \in Receiver \cup {None} : send(p, target)
         \/ wake(p)
         \/ ReceiveMessage(p)
         \/ complete_receive(p)
         \/ TryReceiveMessage(p)
         \/ withdraw(p)
         \/ exit(p)

Spec == Init /\ [][Next]_vars

-----------------------------------------------------------------------------
(* The ring stays within its capacity and its indices agree.               *)
TypeOK ==
    /\ in_use \in BOOLEAN
    /\ queue \in [buf : [Ring -> Envelope], head : Ring, tail : Ring, len : 0 .. MAX_QUEUE]
    /\ queue.tail = (queue.head + queue.len) % MAX_QUEUE
    /\ waiters \in [WaiterSlot -> Receiver \cup {None}]
    /\ proc \in [Proc -> {"user", "blocked", "woken", "dead"}]
    /\ waking \in [Proc -> Receiver \cup {None}]
    /\ allowed \subseteq Receiver
    /\ sent \in 0 .. MaxSent
    /\ received \in [Proc -> Seq(1 .. MaxSent)]
    /\ mixed \in BOOLEAN

Without(s, i) == [k \in 1 .. Len(s) - 1 |-> IF k < i THEN s[k] ELSE s[k + 1]]

(* pop_for removes exactly the oldest envelope the caller may take and     *)
(* preserves the order of all others, wherever the ring wraps.             *)
PopKeepsOrder ==
    \A p \in Receiver : EligibleOffsets(queue, p) # {} =>
        Contents(pop_for(queue, p)) =
          Without(Contents(queue), Min({i \in 1 .. queue.len : Eligible(Contents(queue)[i], p)}))

(* A receiver gets messages in the order they were sent, and no message is *)
(* received twice, however broadcast and targeted envelopes interleave.    *)
OrderedDelivery ==
    /\ \A p \in Receiver : \A i, j \in DOMAIN received[p] :
         i < j => received[p][i] < received[p][j]
    /\ \A p, q \in Receiver : p # q => Range(received[p]) \cap Range(received[q]) = {}

(* Receivers a sender took off the waiter array that have not looked at    *)
(* the queue again.                                                        *)
OnTheirWay == {p \in Receiver : proc[p] = "woken" \/ \E s \in Sender : waking[s] = p}

(* A registered receiver is blocked, and no envelope addressed to it is in *)
(* the queue: send_to pops exactly its target.                             *)
AddressedWakes ==
    \A p \in Receiver : Registered(p) =>
        /\ proc[p] = "blocked"
        /\ \A i \in 1 .. queue.len : Contents(queue)[i].target # p

(* As long as only broadcasts are sent and no permission is withdrawn, a   *)
(* receiver stays registered only while every queued message has another   *)
(* receiver on its way to it.                                              *)
BroadcastWakes ==
    ~mixed /\ (\E p \in Receiver : Registered(p)) => queue.len <= Cardinality(OnTheirWay)

(* "leave the receiver sleeping forever with a message already in the      *)
(* queue. Holding CHANNEL_TABLE across both decisions closes that window": *)
(* while nobody loses a permission, a registered receiver with an eligible *)
(* message in the queue has some receiver on its way to the queue.         *)
NoSleepOverMessage ==
    allowed = Receiver =>
      \A p \in Receiver :
        Registered(p) /\ EligibleOffsets(queue, p) # {} => OnTheirWay # {}
=============================================================================
