------------------------------ MODULE Scheduler ------------------------------
(***************************************************************************)
(* The SMP scheduler of the microkernel: microkernel/src/scheduler.rs with *)
(* the process-table transitions it drives (microkernel/src/process.rs).   *)
(*                                                                         *)
(* Every CPU is a process with a program counter.  A step is one critical  *)
(* section (PROCESS_TABLE, RUNQUEUE, SLEEP_QUEUE or CURRENT_SLOT lock) or  *)
(* one store to a shared atomic, so every interleaving of two CPUs that    *)
(* the locks allow is a behaviour.  Kernel code runs with IRQs masked: the *)
(* timer and the RESCHED SGI are taken only in user mode and in WFI.       *)
(*                                                                         *)
(* Data that is abstracted: a process table slot is its pid (a pid is      *)
(* never issued twice); waiters of IPC channels, futexes and waitpid form  *)
(* one set; a sleep deadline is the number of ticks left.                  *)
(***************************************************************************)
EXTENDS Naturals, Sequences, FiniteSets

CONSTANTS
    Cpu,                \* online processing elements
    Pid,                \* processes that may ever exist
    None,               \* "no CPU" / "no process"
    Boot,               \* the processes spawned and enqueued before scheduler::run
    MLFQ_LEVELS,        \* number of feedback levels (0 is the highest)
    SLICE_TICKS,        \* time slice of level 0 in ticks
    BOOST_EVERY_TICKS,  \* period of the priority boost
    BoostScan,          \* processes whose slot the boost loop visits (0..64)
    SLEEP_QUEUE_CAP,    \* entries the sleep queue may hold
    MaxSleep            \* bound on the argument of Sleepticks

ASSUME LevelsAssumption == MLFQ_LEVELS \in Nat \ {0}
ASSUME TicksAssumption ==
    /\ SLICE_TICKS \in Nat \ {0} /\ BOOST_EVERY_TICKS \in Nat \ {0}
    /\ MaxSleep \in Nat /\ SLEEP_QUEUE_CAP \in Nat \ {0}
ASSUME BootAssumption ==
    /\ Boot \in Seq(Pid)
    /\ \A i, j \in 1 .. Len(Boot) : Boot[i] = Boot[j] => i = j
ASSUME FiniteAssumption == IsFiniteSet(Cpu) /\ IsFiniteSet(Pid)
ASSUME NoneAssumption == None \notin Pid /\ None \notin Cpu

VARIABLES
    state,      \* ProcessRecord.state; "Free" before spawn, "Dead" after exit
    owner,      \* PROCESS_OWNER
    intent,     \* ProcessRecord.block_intent
    pending,    \* ProcessRecord.wake_pending
    level,      \* PROC_LEVEL
    used,       \* SLICE_USED
    runq,       \* RUNQUEUE: one FIFO per level
    current,    \* CURRENT_SLOT, per CPU
    idle,       \* CPU_IDLE, per CPU
    sgi,        \* RESCHED SGI pending at a CPU
    boost,      \* ticks since LAST_BOOST
    waiters,    \* processes registered with a channel, a futex or waitpid
    sleep,      \* SLEEP_QUEUE: ticks left, 0 = not in the queue
    pc,         \* where each CPU is
    hand,       \* the pid a CPU holds in a local variable
    due,        \* the pids a CPU has taken out of a wait structure to wake
    ret         \* where a CPU continues after waking them

table == <<state, owner, intent, pending>>
waits == <<waiters, sleep>>
locals == <<pc, hand, due, ret>>
vars == <<table, level, used, runq, current, idle, sgi, boost, waits, locals>>

Levels == 0 .. (MLFQ_LEVELS - 1)
States == {"Free", "Runnable", "Running", "Blocked", "Dead"}
PCs == {"pick", "toidle", "wfi", "idlepop", "dispatch", "claimed", "user",
        "yield", "release", "push", "registered", "blocking", "finish",
        "requeue", "exit", "disown", "bury", "enqueue", "wake", "wakepush",
        "kick", "tick", "panic"}

Booted == {Boot[i] : i \in 1 .. Len(Boot)}

Init ==
    /\ state = [p \in Pid |-> IF p \in Booted THEN "Runnable" ELSE "Free"]
    /\ owner = [p \in Pid |-> None]
    /\ intent = [p \in Pid |-> FALSE]
    /\ pending = [p \in Pid |-> FALSE]
    /\ level = [p \in Pid |-> 0]
    /\ used = [p \in Pid |-> 0]
    /\ runq = [l \in Levels |-> IF l = 0 THEN Boot ELSE <<>>]
    /\ current = [c \in Cpu |-> None]
    /\ idle = [c \in Cpu |-> FALSE]
    /\ sgi = [c \in Cpu |-> FALSE]
    /\ boost = 0
    /\ waiters = {}
    /\ sleep = [p \in Pid |-> 0]
    /\ pc = [c \in Cpu |-> "pick"]
    /\ hand = [c \in Cpu |-> None]
    /\ due = [c \in Cpu |-> {}]
    /\ ret = [c \in Cpu |-> "pick"]

-----------------------------------------------------------------------------
(* Helpers.                                                                *)

At(c, l) == pc[c] = l
Goto(c, l) == pc' = [pc EXCEPT ![c] = l]
Take(c, p) == hand' = [hand EXCEPT ![c] = p]

slice_for_level(l) == SLICE_TICKS * 2 ^ l
(* Mutant: the level is not clamped to the lowest.                         *)
sunk_level(l) == l + 1
next_level(l) == IF l + 1 < MLFQ_LEVELS THEN l + 1 ELSE l

push_at(p, l) == runq' = [runq EXCEPT ![l] = Append(@, p)]

(* Mutant: the entry is read but not taken out of the ring.                *)
pop_keeps_entry(c) ==
    \E l \in Levels :
        /\ runq[l] # <<>>
        /\ Take(c, Head(runq[l]))
        /\ UNCHANGED runq

(* Mlfq::pop: the head of the first non-empty level, into the CPU's hand.  *)
pop(c) ==
    \E l \in Levels :
        /\ runq[l] # <<>>
        /\ \A m \in Levels : m < l => runq[m] = <<>>
        /\ runq' = [runq EXCEPT ![l] = Tail(@)]
        /\ Take(c, Head(runq[l]))
empty == \A l \in Levels : runq[l] = <<>>

-----------------------------------------------------------------------------
(* reschedule, dispatch and idle.                                          *)

(* reschedule / schedule_loop: the pop and, on an empty queue, idle().  The *)
(* queue is unlocked before CPU_IDLE is published.                         *)
reschedule(c) ==
    /\ At(c, "pick")
    /\ \/ pop(c) /\ Goto(c, "dispatch")
       \/ empty /\ Goto(c, "toidle") /\ UNCHANGED <<runq, hand>>
    /\ UNCHANGED <<table, level, used, current, idle, sgi, boost, waits, due, ret>>

enter_idle(c) ==
    /\ At(c, "toidle")
    /\ current' = [current EXCEPT ![c] = None]
    /\ idle' = [idle EXCEPT ![c] = TRUE]
    /\ Goto(c, "wfi")
    /\ UNCHANGED <<table, level, used, runq, sgi, boost, waits, hand, due, ret>>

(* The idle loop after WFI: CPU_IDLE is already false (see tick_account);  *)
(* after an empty pop enter_idle publishes it again, with the queue        *)
(* unlocked in between.                                                    *)
idle_pop(c) ==
    /\ At(c, "idlepop")
    /\ \/ pop(c) /\ Goto(c, "dispatch")
       \/ empty /\ Goto(c, "toidle") /\ UNCHANGED <<runq, hand>>
    /\ UNCHANGED <<table, level, used, current, idle, sgi, boost, waits, due, ret>>

(* dispatch -> claim_runnable: a stale entry is dropped and the CPU picks  *)
(* again.                                                                  *)
claim_runnable(c) ==
    LET p == hand[c] IN
    /\ At(c, "dispatch")
    /\ IF state[p] = "Runnable"
       THEN /\ owner' = [owner EXCEPT ![p] = c]
            /\ state' = [state EXCEPT ![p] = "Running"]
            /\ intent' = [intent EXCEPT ![p] = FALSE]
            /\ pending' = [pending EXCEPT ![p] = FALSE]
            /\ Goto(c, "claimed")
            /\ UNCHANGED hand
       ELSE Goto(c, "pick") /\ Take(c, None) /\ UNCHANGED table
    /\ UNCHANGED <<level, used, runq, current, idle, sgi, boost, waits, due, ret>>

(* The rest of dispatch: fresh slice, CURRENT_SLOT, CPU_IDLE, into EL0.    *)
enter_user(c) ==
    /\ At(c, "claimed")
    /\ used' = [used EXCEPT ![hand[c]] = 0]
    /\ current' = [current EXCEPT ![c] = hand[c]]
    /\ idle' = [idle EXCEPT ![c] = FALSE]
    /\ Take(c, None)
    /\ Goto(c, "user")
    /\ UNCHANGED <<table, level, runq, sgi, boost, waits, due, ret>>

-----------------------------------------------------------------------------
(* yield_current: stack switch, detach_current, release_running, push.     *)

detach_current(c, from, to) ==
    /\ At(c, from)
    /\ Take(c, current[c])
    /\ current' = [current EXCEPT ![c] = None]
    /\ Goto(c, to)
    /\ UNCHANGED <<table, level, used, runq, idle, sgi, boost, waits, due, ret>>

release_running(c) ==
    LET p == hand[c] IN
    /\ At(c, "release")
    /\ IF state[p] = "Running"
       THEN /\ owner' = [owner EXCEPT ![p] = None]
            /\ state' = [state EXCEPT ![p] = "Runnable"]
            /\ intent' = [intent EXCEPT ![p] = FALSE]
            /\ pending' = [pending EXCEPT ![p] = FALSE]
            /\ Goto(c, "push")
            /\ UNCHANGED hand
       ELSE Goto(c, "pick") /\ Take(c, None) /\ UNCHANGED table
    /\ UNCHANGED <<level, used, runq, current, idle, sgi, boost, waits, due, ret>>

(* __zero_yield_handoff: demote one level, fresh slice, push.              *)
yield_push(c) ==
    LET p == hand[c] IN
    /\ At(c, "push")
    /\ level' = [level EXCEPT ![p] = next_level(level[p])]
    /\ used' = [used EXCEPT ![p] = 0]
    /\ push_at(p, next_level(level[p]))
    /\ Take(c, None)
    /\ Goto(c, "pick")
    /\ UNCHANGED <<table, current, idle, sgi, boost, waits, due, ret>>

-----------------------------------------------------------------------------
(* Blocking: a syscall registers the process in a wait structure, then     *)
(* block_current runs begin_block, the stack switch and finish_block.      *)

Sleepers == {p \in Pid : sleep[p] > 0}
SleepQueueFull == Cardinality(Sleepers) >= SLEEP_QUEUE_CAP
(* A panicking CPU loops with the SLEEP_QUEUE lock held.                   *)
SleepQueueLocked == \E d \in Cpu : At(d, "panic")

register(c) ==
    /\ At(c, "user")
    /\ \/ waiters' = waiters \cup {current[c]} /\ UNCHANGED sleep
       \/ /\ ~SleepQueueLocked /\ ~SleepQueueFull
          /\ \E n \in 1 .. MaxSleep : sleep' = [sleep EXCEPT ![current[c]] = n]
          /\ UNCHANGED waiters
    /\ Goto(c, "registered")
    /\ UNCHANGED <<table, level, used, runq, current, idle, sgi, boost, hand, due, ret>>

(* sleep_current finds the queue full and panics; from then on every CPU   *)
(* that needs the queue, in sleep_current or in the timer interrupt, spins *)
(* on its lock for ever.                                                   *)
sleep_queue_panic(c) ==
    /\ \/ At(c, "user") /\ SleepQueueFull
       \/ pc[c] \in {"user", "wfi"} /\ SleepQueueLocked
    /\ Goto(c, "panic")
    /\ UNCHANGED <<table, level, used, runq, current, idle, sgi, boost, waits, hand, due, ret>>

(* The panic handler, and the spin: loop {}.                               *)
halted(c) == At(c, "panic") /\ UNCHANGED vars

(* Mutants: Blocked is published before the stack switch; the intent is    *)
(* not recorded; the latch of an early wakeup is cleared.                  *)
block_on_own_stack(c) ==
    /\ At(c, "registered")
    /\ state' = [state EXCEPT ![current[c]] = "Blocked"]
    /\ owner' = [owner EXCEPT ![current[c]] = None]
    /\ Goto(c, "blocking")
    /\ UNCHANGED <<intent, pending, level, used, runq, current, idle, sgi, boost,
                   waits, hand, due, ret>>
begin_without_intent(c) ==
    /\ At(c, "registered")
    /\ Goto(c, "blocking")
    /\ UNCHANGED <<table, level, used, runq, current, idle, sgi, boost, waits, hand,
                   due, ret>>
begin_clears_latch(c) ==
    /\ At(c, "registered")
    /\ intent' = [intent EXCEPT ![current[c]] = TRUE]
    /\ pending' = [pending EXCEPT ![current[c]] = FALSE]
    /\ Goto(c, "blocking")
    /\ UNCHANGED <<state, owner, level, used, runq, current, idle, sgi, boost, waits,
                   hand, due, ret>>

begin_block(c) ==
    /\ At(c, "registered")
    /\ intent' = [intent EXCEPT ![current[c]] = TRUE]
    /\ Goto(c, "blocking")
    /\ UNCHANGED <<state, owner, pending, level, used, runq, current, idle, sgi,
                   boost, waits, hand, due, ret>>

finish_block(c) ==
    LET p == hand[c] IN
    /\ At(c, "finish")
    /\ owner' = [owner EXCEPT ![p] = None]
    /\ intent' = [intent EXCEPT ![p] = FALSE]
    /\ pending' = [pending EXCEPT ![p] = FALSE]
    /\ IF pending[p]
       THEN /\ state' = [state EXCEPT ![p] = "Runnable"]
            /\ Goto(c, "requeue")
            /\ UNCHANGED hand
       ELSE /\ state' = [state EXCEPT ![p] = "Blocked"]
            /\ Goto(c, "pick")
            /\ Take(c, None)
    /\ UNCHANGED <<level, used, runq, current, idle, sgi, boost, waits, due, ret>>

(* enqueue: always level 0.  It ends the block handoff ("requeue", then    *)
(* reschedule) and the fork/spawn syscalls ("enqueue", then back to EL0).  *)
enqueue(c) ==
    LET p == hand[c] IN
    /\ pc[c] \in {"requeue", "enqueue"}
    /\ level' = [level EXCEPT ![p] = 0]
    /\ push_at(p, 0)
    /\ Take(c, None)
    /\ Goto(c, IF At(c, "requeue") THEN "pick" ELSE "user")
    /\ UNCHANGED <<table, used, current, idle, sgi, boost, waits, due, ret>>

(* fork / create_thread / spawn publish the child as Runnable under the    *)
(* table lock; the syscall arm enqueues it afterwards.                     *)
spawn(c) ==
    /\ At(c, "user")
    /\ \E q \in Pid :
          /\ state[q] = "Free"
          /\ state' = [state EXCEPT ![q] = "Runnable"]
          /\ Take(c, q)
    /\ Goto(c, "enqueue")
    /\ UNCHANGED <<owner, intent, pending, level, used, runq, current, idle, sgi,
                   boost, waits, due, ret>>

-----------------------------------------------------------------------------
(* Waking.                                                                 *)

(* Mutant: the woken waiters stay registered.                              *)
signal_keeps_waiters(c) ==
    /\ At(c, "user")
    /\ \E w \in SUBSET waiters :
          /\ w # {}
          /\ due' = [due EXCEPT ![c] = w]
    /\ ret' = [ret EXCEPT ![c] = "user"]
    /\ Goto(c, "wake")
    /\ UNCHANGED <<table, level, used, runq, current, idle, sgi, boost, waits, hand>>

(* IPC send, futex_wake: take waiters out of the structure under its lock; *)
(* scheduler::wake follows after the unlock.                               *)
signal(c) ==
    /\ At(c, "user")
    /\ \E w \in SUBSET waiters :
          /\ w # {}
          /\ waiters' = waiters \ w
          /\ due' = [due EXCEPT ![c] = w]
    /\ ret' = [ret EXCEPT ![c] = "user"]
    /\ Goto(c, "wake")
    /\ UNCHANGED <<table, level, used, runq, current, idle, sgi, boost, sleep, hand>>

(* wake -> request_wake for each process taken.                            *)
request_wake(c) ==
    /\ At(c, "wake")
    /\ \E p \in due[c] :
          /\ due' = [due EXCEPT ![c] = @ \ {p}]
          /\ CASE state[p] = "Blocked" ->
                    /\ state' = [state EXCEPT ![p] = "Runnable"]
                    /\ intent' = [intent EXCEPT ![p] = FALSE]
                    /\ pending' = [pending EXCEPT ![p] = FALSE]
                    /\ Goto(c, "wakepush")
                    /\ Take(c, p)
               [] state[p] = "Running" ->
                    /\ pending' = [pending EXCEPT ![p] = TRUE]
                    /\ UNCHANGED <<state, intent, pc, hand>>
               [] OTHER -> UNCHANGED <<state, intent, pending, pc, hand>>
    /\ UNCHANGED <<owner, level, used, runq, current, idle, sgi, boost, waits, ret>>

wake_push(c) ==
    /\ At(c, "wakepush")
    /\ level' = [level EXCEPT ![hand[c]] = 0]
    /\ push_at(hand[c], 0)
    /\ Take(c, None)
    /\ Goto(c, "kick")
    /\ UNCHANGED <<table, used, current, idle, sgi, boost, waits, due, ret>>

kick_idle_cores(c) ==
    /\ At(c, "kick")
    /\ sgi' = [d \in Cpu |-> sgi[d] \/ (d # c /\ idle[d])]
    /\ Goto(c, "wake")
    /\ UNCHANGED <<table, level, used, runq, current, idle, boost, waits, hand, due, ret>>

(* All processes taken have been woken: back to the caller.                *)
woken(c) ==
    /\ At(c, "wake")
    /\ due[c] = {}
    /\ Goto(c, ret[c])
    /\ ret' = [ret EXCEPT ![c] = "pick"]
    /\ UNCHANGED <<table, level, used, runq, current, idle, sgi, boost, waits, hand, due>>

-----------------------------------------------------------------------------
(* Exit: detach_current, release_owner_for_exit (the record stays Running  *)
(* without an owner), then the critical section that makes it a zombie or  *)
(* removes it and takes the wait registration of a waiting parent.         *)

release_owner_for_exit(c) ==
    /\ At(c, "disown")
    /\ owner' = [owner EXCEPT ![hand[c]] = None]
    /\ Goto(c, "bury")
    /\ UNCHANGED <<state, intent, pending, level, used, runq, current, idle, sgi,
                   boost, waits, hand, due, ret>>

bury(c) ==
    /\ At(c, "bury")
    /\ state' = [state EXCEPT ![hand[c]] = "Dead"]
    /\ \E w \in {{}} \cup {{p} : p \in waiters} :
          /\ waiters' = waiters \ w
          /\ due' = [due EXCEPT ![c] = w]
    /\ ret' = [ret EXCEPT ![c] = "pick"]
    /\ Take(c, None)
    /\ Goto(c, "wake")
    /\ UNCHANGED <<owner, intent, pending, level, used, runq, current, idle, sgi,
                   boost, sleep>>

-----------------------------------------------------------------------------
(* Interrupts and system calls taken in user mode and in WFI.              *)

(* on_tick_consume, first part: TICK_NOW advances and the expired sleepers *)
(* leave SLEEP_QUEUE under its lock; they are woken outside it.            *)
timer_irq(c) ==
    /\ pc[c] \in {"user", "wfi"}
    /\ ~SleepQueueLocked
    /\ boost' = boost + 1
    /\ due' = [due EXCEPT ![c] = {p \in Pid : sleep[p] = 1}]
    /\ sleep' = [p \in Pid |-> IF sleep[p] = 0 THEN 0 ELSE sleep[p] - 1]
    /\ ret' = [ret EXCEPT ![c] = "tick"]
    /\ Goto(c, "wake")
    /\ UNCHANGED <<table, level, used, runq, current, idle, sgi, waiters, hand>>

boosted(l) ==
    [p \in Pid |-> IF p \in BoostScan /\ state[p] = "Runnable" THEN 0 ELSE l[p]]

(* on_tick_consume, second part: the boost rewrites PROC_LEVEL (it does    *)
(* not move queue entries), then the running process pays for the tick.    *)
(* A CPU without a process returns to its idle loop, which clears CPU_IDLE *)
(* and polls the queue.                                                    *)
tick_account(c) ==
    LET p == current[c]
        lv == IF boost >= BOOST_EVERY_TICKS THEN boosted(level) ELSE level IN
    /\ At(c, "tick")
    /\ boost' = IF boost >= BOOST_EVERY_TICKS THEN 0 ELSE boost
    /\ IF p = None
       THEN /\ level' = lv
            /\ idle' = [idle EXCEPT ![c] = FALSE]
            /\ Goto(c, "idlepop")
            /\ UNCHANGED used
       ELSE /\ UNCHANGED idle
            /\ IF used[p] + 1 >= slice_for_level(lv[p])
               THEN /\ used' = [used EXCEPT ![p] = 0]
                    /\ level' = [lv EXCEPT ![p] = next_level(lv[p])]
                    /\ Goto(c, "yield")
               ELSE /\ used' = [used EXCEPT ![p] = used[p] + 1]
                    /\ level' = lv
                    /\ Goto(c, "user")
    /\ UNCHANGED <<table, runq, current, sgi, waits, hand, due, ret>>

(* handle_resched_sgi: a running process yields, an idle CPU reschedules.  *)
resched_irq(c) ==
    /\ sgi[c]
    /\ sgi' = [sgi EXCEPT ![c] = FALSE]
    /\ \/ At(c, "user") /\ Goto(c, "yield")
       \/ At(c, "wfi") /\ Goto(c, "pick")
    /\ UNCHANGED <<table, level, used, runq, current, idle, boost, waits, hand, due, ret>>

(* Syscall Yield and Exit (and the fatal-fault path) leave user mode.      *)
yield_or_exit(c) ==
    /\ At(c, "user")
    /\ \E l \in {"yield", "exit"} : Goto(c, l)
    /\ UNCHANGED <<table, level, used, runq, current, idle, sgi, boost, waits, hand, due, ret>>

-----------------------------------------------------------------------------
(* A kernel step runs with IRQs masked and always continues; interrupts    *)
(* are taken when unmasked; what user code does next is its own choice.    *)

kernel(c) ==
    \/ reschedule(c) \/ enter_idle(c) \/ idle_pop(c)
    \/ claim_runnable(c) \/ enter_user(c)
    \/ detach_current(c, "yield", "release") \/ release_running(c) \/ yield_push(c)
    \/ begin_block(c) \/ detach_current(c, "blocking", "finish") \/ finish_block(c)
    \/ enqueue(c)
    \/ detach_current(c, "exit", "disown") \/ release_owner_for_exit(c) \/ bury(c)
    \/ request_wake(c) \/ wake_push(c) \/ kick_idle_cores(c) \/ woken(c)
    \/ tick_account(c)

user(c) == register(c) \/ spawn(c) \/ signal(c) \/ yield_or_exit(c)

Next ==
    \E c \in Cpu :
        \/ kernel(c) \/ user(c) \/ timer_irq(c) \/ resched_irq(c)
        \/ sleep_queue_panic(c) \/ halted(c)

Spec == Init /\ [][Next]_vars

(* Kernel code is never stopped, and the timer is a level interrupt that   *)
(* stays pending until it is taken: it cannot be postponed for ever by a   *)
(* process that keeps entering the kernel.                                 *)
Fairness ==
    \A c \in Cpu : WF_vars(kernel(c)) /\ SF_vars(timer_irq(c)) /\ SF_vars(resched_irq(c))

FairSpec == Spec /\ Fairness

-----------------------------------------------------------------------------
(* Type invariant.                                                         *)
TypeOK ==
    /\ state \in [Pid -> States]
    /\ owner \in [Pid -> Cpu \cup {None}]
    /\ intent \in [Pid -> BOOLEAN]
    /\ pending \in [Pid -> BOOLEAN]
    /\ level \in [Pid -> Levels]
    /\ used \in [Pid -> Nat]
    /\ runq \in [Levels -> Seq(Pid)]
    /\ current \in [Cpu -> Pid \cup {None}]
    /\ idle \in [Cpu -> BOOLEAN]
    /\ sgi \in [Cpu -> BOOLEAN]
    /\ boost \in Nat
    /\ waiters \subseteq Pid
    /\ sleep \in [Pid -> 0 .. MaxSleep]
    /\ pc \in [Cpu -> PCs]
    /\ hand \in [Cpu -> Pid \cup {None}]
    /\ due \in [Cpu -> SUBSET Pid]
    /\ ret \in [Cpu -> {"user", "tick", "pick"}]

(* The places that hold the right to dispatch p: an entry of a queue level *)
(* or the local variable of a CPU that has popped p or is about to push it. *)
Queued(p) == \E l \in Levels : \E i \in 1 .. Len(runq[l]) : runq[l][i] = p
HandPCs == {"dispatch", "push", "requeue", "enqueue", "wakepush"}
Held(c, p) == pc[c] \in HandPCs /\ hand[c] = p

(* "At any time each process appears at most once in one level"            *)
(* (scheduler.rs, RunQueue): a Runnable process is in exactly one queue    *)
(* entry or in the hand of exactly one CPU, any other process in none.  A  *)
(* second entry would overflow the ring and run a process twice; a missing *)
(* one would lose the process for ever.                                    *)
RunqueueToken ==
    /\ \A l, m \in Levels : \A i \in 1 .. Len(runq[l]), j \in 1 .. Len(runq[m]) :
          runq[l][i] = runq[m][j] => l = m /\ i = j
    /\ \A c, d \in Cpu, p \in Pid : Held(c, p) /\ Held(d, p) => c = d
    /\ \A c \in Cpu, p \in Pid : ~(Held(c, p) /\ Queued(p))
    /\ \A p \in Pid :
          state[p] = "Runnable" <=> Queued(p) \/ \E c \in Cpu : Held(c, p)

(* The process a CPU executes, or whose handoff it has not yet published.  *)
OwnPCs == {"claimed", "release", "finish", "disown", "bury"}
Exec(c) == IF current[c] # None THEN current[c]
           ELSE IF pc[c] \in OwnPCs THEN hand[c] ELSE None

(* No two CPUs ever execute the same process, or one executes it while the *)
(* other still leaves its kernel stack: the trap frame and the kernel      *)
(* stack of a slot have one user (claim_runnable, detach_current).         *)
ExclusiveExecution ==
    \A c \in Cpu : Exec(c) # None =>
        /\ state[Exec(c)] = "Running"
        /\ \A d \in Cpu \ {c} : Exec(d) # Exec(c)

(* The assertions of scheduler.rs and process.rs hold wherever control     *)
(* reaches them: owner and state in claim_runnable, release_running,       *)
(* request_wake, begin_block, finish_block and release_owner_for_exit, the *)
(* current slot in detach_current, and the capacity in RunQueue::push.  One *)
(* assertion can fail, that of sleep_current: SLEEP_QUEUE_CAP is 128 and    *)
(* MAX_PROCESSES 256.  A CPU that has panicked or hangs on its lock has     *)
(* this cause and no other: the queue is full, and stays so.               *)
KernelAsserts ==
    \A c \in Cpu :
        /\ At(c, "panic") => SleepQueueFull
        /\ At(c, "dispatch") /\ state[hand[c]] = "Runnable" => owner[hand[c]] = None
        /\ pc[c] \in {"yield", "blocking", "exit", "registered"} =>
              current[c] # None /\ owner[current[c]] = c /\ state[current[c]] = "Running"
        /\ pc[c] \in {"release", "finish", "disown"} =>
              owner[hand[c]] = c /\ state[hand[c]] = "Running"
        /\ At(c, "finish") => intent[hand[c]]
        /\ At(c, "wake") =>
              \A p \in due[c] : state[p] = "Blocked" => owner[p] = None
        /\ pc[c] \in {"push", "requeue", "enqueue", "wakepush"} =>
              \A l \in Levels : Len(runq[l]) < Cardinality(Pid)

(* p has registered to wait: it is Blocked, or its CPU is between the      *)
(* registration and finish_block.                                          *)
InWindow(c, p) ==
    \/ pc[c] \in {"registered", "blocking"} /\ current[c] = p
    \/ pc[c] = "finish" /\ hand[c] = p
Waits(p) == state[p] = "Blocked" \/ \E c \in Cpu : InWindow(c, p)

(* Wakeups are neither lost nor duplicated: a process that waits has       *)
(* exactly one wakeup to come (its registration, its sleep entry, a CPU    *)
(* that has taken it out to wake it, or the wake_pending latch), and a     *)
(* process that does not wait has none that could hit a later wait.        *)
WakeToken ==
    \A p \in Pid :
        LET one(b) == IF b THEN 1 ELSE 0 IN
        one(p \in waiters) + one(sleep[p] > 0) + one(pending[p])
            + Cardinality({c \in Cpu : p \in due[c]}) = one(Waits(p))

(* The scheduler implements the contract of ProcessContract: registering   *)
(* is the atomic wait, taking a registration out is the atomic notify.     *)
Signalled(p) == pending[p] \/ \E c \in Cpu : p \in due[c]
Status(p) ==
    CASE state[p] = "Free" -> "absent"
      [] state[p] = "Dead" -> "dead"
      [] p \in waiters \/ sleep[p] > 0 -> "waiting"
      [] state[p] = "Runnable" \/ Signalled(p) -> "ready"
      [] OTHER -> "running"
Contract == INSTANCE ProcessContract WITH
    status <- [p \in Pid |-> Status(p)], MaxRunning <- Cardinality(Cpu)
ImplementsContract == Contract!Spec

(* A process whose sleep has been registered, or that has been taken out   *)
(* of a wait structure, runs again in user mode: the sleep queue, the      *)
(* latch, the level 0 queue and the idle CPUs leave no wakeup behind, as    *)
(* long as the sleep queue has room (SLEEP_QUEUE_CAP).                      *)
WokenRuns ==
    \A p \in Pid :
        (sleep[p] > 0 \/ \E c \in Cpu : p \in due[c])
            ~> \E c \in Cpu : current[c] = p /\ At(c, "user")

(* The starvation freedom the MLFQ comment claims for the periodic boost   *)
(* ("all Runnable slots return to level 0"): a Runnable process runs.      *)
NoStarvation ==
    \A p \in Pid : state[p] = "Runnable" ~> state[p] = "Running"
=============================================================================
