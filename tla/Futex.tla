-------------------------------- MODULE Futex --------------------------------
(***************************************************************************)
(* FutexWait and FutexWake (process.rs) under the UserMutex that userlib   *)
(* builds on them.  Every process has one mutex, and it lies at the same   *)
(* virtual address in each, as it does in forked processes; the threads of *)
(* a process share its word.  A step of a thread is one atomic instruction *)
(* on the word or one FUTEX_TABLE critical section; blocking and waking    *)
(* are atomic, as Scheduler is shown to implement ProcessContract.         *)
(***************************************************************************)
EXTENDS Integers, Sequences, FiniteSets, Functions

CONSTANTS
    Threads,          \* the threads
    Process,          \* the processes, each an address space of its own
    space_of,         \* the address space of each thread
    None,             \* no thread
    FUTEX_TABLE_CAP   \* capacity of the waiter table

ASSUME FutexAssumption ==
    /\ space_of \in [Threads -> Process]
    /\ None \notin Threads
    /\ FUTEX_TABLE_CAP \in Nat

VARIABLES
    word,    \* the AtomicU32 of each process's UserMutex
    table,   \* FUTEX_TABLE; every entry has the same uaddr
    pc,      \* where each thread is in lock, unlock or the futex calls
    wakee,   \* the thread a FutexWake took off the table and has not woken
    crossed  \* history: the processes whose FutexWake took another's waiter

futexVars == <<word, table, pc, wakee, crossed>>

MUTEX_UNLOCKED == 0
MUTEX_LOCKED == 1
MUTEX_CONTENDED == 2

PCs == {"idle", "swap", "load", "check", "enqueue", "blocked", "holds", "unlock", "wake", "waking",
        "dead"}

FutexInit ==
    /\ word = [a \in Process |-> MUTEX_UNLOCKED]
    /\ table = <<>>
    /\ pc = [t \in Threads |-> "idle"]
    /\ wakee = [t \in Threads |-> None]
    /\ crossed = {}

Mutex(t) == word[space_of[t]]
At(t, l) == pc[t] = l
Goto(t, l) == pc' = [pc EXCEPT ![t] = l]
PutWord(t, v) == word' = [word EXCEPT ![space_of[t]] = v]

-----------------------------------------------------------------------------
(* UserMutex::lock: the compare-exchange, then the loop of swap and wait.  *)
lock(t) ==
    /\ At(t, "idle")
    /\ IF Mutex(t) = MUTEX_UNLOCKED
       THEN PutWord(t, MUTEX_LOCKED) /\ Goto(t, "holds")
       ELSE Goto(t, "swap") /\ UNCHANGED word
    /\ UNCHANGED <<table, wakee, crossed>>

(* Mutant: only a contended word means that the mutex is held.             *)
swap_takes_uncontended(t) ==
    /\ At(t, "swap")
    /\ PutWord(t, MUTEX_CONTENDED)
    /\ Goto(t, IF Mutex(t) # MUTEX_CONTENDED THEN "holds" ELSE "load")
    /\ UNCHANGED <<table, wakee, crossed>>

swap(t) ==
    /\ At(t, "swap")
    /\ PutWord(t, MUTEX_CONTENDED)
    /\ Goto(t, IF Mutex(t) = MUTEX_UNLOCKED THEN "holds" ELSE "load")
    /\ UNCHANGED <<table, wakee, crossed>>

(* Mutant: a woken thread takes the free word with the fast path, 0 to 1.  *)
retry_as_new(t) ==
    /\ At(t, "load")
    /\ IF Mutex(t) = MUTEX_UNLOCKED
       THEN PutWord(t, MUTEX_LOCKED) /\ Goto(t, "holds")
       ELSE Goto(t, IF Mutex(t) = MUTEX_CONTENDED THEN "check" ELSE "swap") /\ UNCHANGED word
    /\ UNCHANGED <<table, wakee, crossed>>

lock_load(t) ==
    /\ At(t, "load")
    /\ Goto(t, IF Mutex(t) = MUTEX_CONTENDED THEN "check" ELSE "swap")
    /\ UNCHANGED <<word, table, wakee, crossed>>

-----------------------------------------------------------------------------
(* futex_wait_check: a first read without the lock, then the read that     *)
(* counts; a full table makes the call fail and the caller try again.      *)
wait_check(t) ==
    /\ At(t, "check")
    /\ Goto(t, IF Mutex(t) = MUTEX_CONTENDED THEN "enqueue" ELSE "load")
    /\ UNCHANGED <<word, table, wakee, crossed>>

(* Mutants: no second read under the lock; the capacity is off by one.     *)
enqueue_unchecked(t) ==
    /\ At(t, "enqueue")
    /\ IF Len(table) < FUTEX_TABLE_CAP
       THEN table' = Append(table, t) /\ Goto(t, "blocked")
       ELSE Goto(t, "load") /\ UNCHANGED table
    /\ UNCHANGED <<word, wakee, crossed>>

enqueue_overfull(t) ==
    /\ At(t, "enqueue")
    /\ IF Mutex(t) = MUTEX_CONTENDED /\ Len(table) <= FUTEX_TABLE_CAP
       THEN table' = Append(table, t) /\ Goto(t, "blocked")
       ELSE Goto(t, "load") /\ UNCHANGED table
    /\ UNCHANGED <<word, wakee, crossed>>

wait_enqueue(t) ==
    /\ At(t, "enqueue")
    /\ IF Mutex(t) = MUTEX_CONTENDED /\ Len(table) < FUTEX_TABLE_CAP
       THEN table' = Append(table, t) /\ Goto(t, "blocked")
       ELSE Goto(t, "load") /\ UNCHANGED table
    /\ UNCHANGED <<word, wakee, crossed>>

-----------------------------------------------------------------------------
work(t) == At(t, "holds") /\ Goto(t, "unlock") /\ UNCHANGED <<word, table, wakee, crossed>>

(* UserMutex::unlock, and futex_wake(word, 1).                             *)
unlock(t) ==
    /\ At(t, "unlock")
    /\ PutWord(t, MUTEX_UNLOCKED)
    /\ Goto(t, IF Mutex(t) = MUTEX_CONTENDED THEN "wake" ELSE "idle")
    /\ UNCHANGED <<table, wakee, crossed>>

(* The first entry with this uaddr, whatever its address space.            *)
futex_wake(t) ==
    /\ At(t, "wake")
    /\ IF table = <<>>
       THEN Goto(t, "idle") /\ UNCHANGED <<table, wakee, crossed>>
       ELSE /\ table' = Tail(table)
            /\ crossed' = IF space_of[Head(table)] = space_of[t] THEN crossed
                          ELSE crossed \cup {space_of[t]}
            /\ wakee' = [wakee EXCEPT ![t] = Head(table)]
            /\ Goto(t, "waking")
    /\ UNCHANGED word

wake(t) ==
    /\ At(t, "waking")
    /\ pc' = [pc EXCEPT ![t] = "idle", ![wakee[t]] = IF @ = "blocked" THEN "load" ELSE @]
    /\ wakee' = [wakee EXCEPT ![t] = None]
    /\ UNCHANGED <<word, table, crossed>>

(* Exit runs futex_detach, whose retain leaves a table without the caller  *)
(* as it is.                                                               *)
exit(t) ==
    /\ At(t, "idle")
    /\ Goto(t, "dead")
    /\ table' = IF t \in Range(table) THEN SelectSeq(table, LAMBDA w : w # t) ELSE table
    /\ UNCHANGED <<word, wakee, crossed>>

-----------------------------------------------------------------------------
Step(t) ==
    \/ swap(t) \/ lock_load(t) \/ wait_check(t) \/ wait_enqueue(t)
    \/ work(t) \/ unlock(t) \/ futex_wake(t) \/ wake(t)

FutexNext == \E t \in Threads : lock(t) \/ Step(t) \/ exit(t)

FutexSpec == FutexInit /\ [][FutexNext]_futexVars

(* A runnable thread is scheduled (level 0 is not occupied for ever), and  *)
(* a holder leaves its critical section; nobody has to lock.               *)
FutexFairSpec == FutexSpec /\ \A t \in Threads : WF_futexVars(Step(t))

-----------------------------------------------------------------------------
(* The table keeps its capacity, and a thread sleeps exactly while it is   *)
(* in the table or in the hands of a waker.                                *)
FutexTypeOK ==
    /\ word \in [Process -> MUTEX_UNLOCKED .. MUTEX_CONTENDED]
    /\ table \in Seq(Threads) /\ Len(table) <= FUTEX_TABLE_CAP
    /\ pc \in [Threads -> PCs]
    /\ wakee \in [Threads -> Threads \cup {None}]
    /\ crossed \subseteq Process
    /\ \A t \in Threads : wakee[t] # None <=> At(t, "waking")
    /\ \A t \in Threads : At(t, "blocked") <=> t \in Range(table) \/ \E u \in Threads : wakee[u] = t

Holders(a) == {t \in Threads : space_of[t] = a /\ pc[t] \in {"holds", "unlock"}}

(* UserMutex excludes: one thread of a process holds it, and only while    *)
(* the word says so.                                                       *)
MutualExclusion ==
    \A a \in Process : Cardinality(Holders(a)) = (IF word[a] = MUTEX_UNLOCKED THEN 0 ELSE 1)

(* A thread of t's process that will still look at the word or at the      *)
(* table, or one that has t in hand.                                       *)
Active(t) ==
    \E u \in Threads :
        \/ wakee[u] = t
        \/ /\ space_of[u] = space_of[t]
           /\ pc[u] \in {"swap", "load", "check", "enqueue", "wake", "waking"}

(* No lost wakeup: while a thread sleeps, the mutex is held in state 2, so *)
(* that its holder will wake, or some thread is already on its way; unless *)
(* a futex_wake of this process has taken a waiter of another one, which   *)
(* the table keyed by the address alone allows (process.rs:1700).  The     *)
(* process whose waiter was taken loses nothing.                           *)
SleeperCovered ==
    \A t \in Threads :
        pc[t] = "blocked" => \/ Mutex(t) = MUTEX_CONTENDED \/ Active(t)
                            \/ space_of[t] \in crossed

(* "它 unlock 时一定 wake 下一个 waiter，直到等待链耗尽": a thread that sleeps on   *)
(* the mutex is woken, with the same exception.                            *)
SleeperWakes ==
    \A t \in Threads : pc[t] = "blocked" ~> pc[t] # "blocked" \/ space_of[t] \in crossed
=============================================================================
