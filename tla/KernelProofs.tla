---------------------------- MODULE KernelProofs ----------------------------
(***************************************************************************)
(* Proofs about Futex, for every set of threads and of processes, about    *)
(* Grants, and about the page allocator of Phys.                           *)
(***************************************************************************)
EXTENDS Futex, Grants, Phys, TLAPS, FiniteSetTheorems, WellFoundedInduction

-----------------------------------------------------------------------------
(* No element of s occurs twice.                                           *)
Once(s) == \A i, j \in DOMAIN s : s[i] = s[j] => i = j

(* A sleeper is in one place: in the table once, or in the hands of one    *)
(* waker.                                                                  *)
InOnePlace ==
    /\ Once(table)
    /\ \A t, u \in Threads : wakee[t] = wakee[u] /\ wakee[t] # None => t = u
    /\ \A t \in Threads : wakee[t] \notin Range(table)

Holding(t) == pc[t] \in {"holds", "unlock"}

(* MutualExclusion without counting: the word is 0 exactly when no thread  *)
(* of its process holds the mutex, and two holders are one.                *)
WordTellsHolder ==
    /\ \A t \in Threads : Holding(t) => Mutex(t) # MUTEX_UNLOCKED
    /\ \A a \in Process :
         word[a] # MUTEX_UNLOCKED => \E t \in Threads : Holding(t) /\ space_of[t] = a
    /\ \A t, u \in Threads :
         Holding(t) /\ Holding(u) /\ space_of[t] = space_of[u] => t = u

FutexInv == FutexTypeOK /\ InOnePlace /\ WordTellsHolder

-----------------------------------------------------------------------------
(* What wait_enqueue does to FUTEX_TABLE: the table gains the caller.      *)
LEMMA Enqueued ==
    ASSUME NEW S, NEW s \in Seq(S), NEW e \in S
    PROVE  /\ Append(s, e) \in Seq(S) /\ Len(Append(s, e)) = Len(s) + 1
           /\ Range(Append(s, e)) = Range(s) \cup {e}
           /\ Once(s) /\ e \notin Range(s) => Once(Append(s, e))
<1>1. Append(s, e) \in Seq(S) /\ Len(Append(s, e)) = Len(s) + 1
  OBVIOUS
<1>2. Range(Append(s, e)) \subseteq Range(s) \cup {e}
  BY DEF Range
<1>3. ASSUME NEW i \in DOMAIN s PROVE s[i] \in Range(Append(s, e))
  <2>1. i \in DOMAIN Append(s, e) /\ Append(s, e)[i] = s[i]
    OBVIOUS
  <2> QED BY Zenon, <2>1 DEF Range
<1>4. e \in Range(Append(s, e))
  <2>1. Len(s) + 1 \in DOMAIN Append(s, e) /\ Append(s, e)[Len(s) + 1] = e
    OBVIOUS
  <2> QED BY Zenon, <2>1 DEF Range
<1>5. Range(Append(s, e)) = Range(s) \cup {e}
  BY Zenon, <1>2, <1>3, <1>4 DEF Range
<1>6. ASSUME Once(s), e \notin Range(s) PROVE Once(Append(s, e))
  BY <1>6 DEF Once, Range
<1> QED BY Zenon, <1>1, <1>5, <1>6

(* What futex_wake does to FUTEX_TABLE: the table loses its first entry.   *)
LEMMA Dequeued ==
    ASSUME NEW S, NEW s \in Seq(S), s # <<>>
    PROVE  /\ Head(s) \in S /\ Tail(s) \in Seq(S) /\ Len(Tail(s)) = Len(s) - 1
           /\ Range(s) = Range(Tail(s)) \cup {Head(s)}
           /\ Once(s) => Once(Tail(s)) /\ Head(s) \notin Range(Tail(s))
<1>1. Head(s) \in S /\ Tail(s) \in Seq(S) /\ Len(Tail(s)) = Len(s) - 1
  OBVIOUS
<1>2. Range(Tail(s)) \cup {Head(s)} \subseteq Range(s)
  BY DEF Range
<1>3. ASSUME NEW i \in DOMAIN s PROVE s[i] \in Range(Tail(s)) \cup {Head(s)}
  <2>1. CASE i = 1
    BY <2>1
  <2>2. CASE i # 1
    <3>1. i - 1 \in DOMAIN Tail(s) /\ Tail(s)[i - 1] = s[i]
      BY <2>2
    <3> QED BY Zenon, <3>1 DEF Range
  <2> QED BY Zenon, <2>1, <2>2
<1>4. Range(s) = Range(Tail(s)) \cup {Head(s)}
  BY Zenon, <1>2, <1>3 DEF Range
<1>5. ASSUME Once(s) PROVE Once(Tail(s)) /\ Head(s) \notin Range(Tail(s))
  BY <1>5 DEF Once, Range
<1> QED BY Zenon, <1>1, <1>4, <1>5

(* FutexInv is inductive: no step of lock, unlock, FutexWait, FutexWake or *)
(* exit breaks it, whatever the other threads are in the middle of.        *)
LEMMA FutexInductive ==
    ASSUME FutexInv, [FutexNext]_futexVars
    PROVE  FutexInv'
<1> USE FutexAssumption DEF FutexInv, At, Goto, PutWord, Mutex, Holding,
        MUTEX_UNLOCKED, MUTEX_LOCKED, MUTEX_CONTENDED
<1>1. ASSUME NEW t \in Threads, lock(t) PROVE FutexInv'
  <2>1. FutexTypeOK'
    BY SMTT(30), <1>1 DEF lock, FutexTypeOK, PCs
  <2>2. InOnePlace'
    BY Zenon, <1>1 DEF lock, InOnePlace
  <2>3. WordTellsHolder'
    BY SMTT(30), <1>1 DEF lock, FutexTypeOK, WordTellsHolder
  <2> QED BY Zenon, <2>1, <2>2, <2>3
<1>2. ASSUME NEW t \in Threads, swap(t) PROVE FutexInv'
  <2>1. FutexTypeOK'
    BY <1>2 DEF swap, FutexTypeOK, PCs
  <2>2. InOnePlace'
    BY Zenon, <1>2 DEF swap, InOnePlace
  <2>3. WordTellsHolder'
    BY <1>2 DEF swap, FutexTypeOK, WordTellsHolder
  <2> QED BY Zenon, <2>1, <2>2, <2>3
<1>3. ASSUME NEW t \in Threads, lock_load(t) PROVE FutexInv'
  <2>1. FutexTypeOK'
    BY Zenon, <1>3 DEF lock_load, FutexTypeOK, PCs
  <2>2. InOnePlace'
    BY Zenon, <1>3 DEF lock_load, InOnePlace
  <2>3. WordTellsHolder'
    BY <1>3 DEF lock_load, FutexTypeOK, WordTellsHolder
  <2> QED BY Zenon, <2>1, <2>2, <2>3
<1>4. ASSUME NEW t \in Threads, wait_check(t) PROVE FutexInv'
  <2>1. FutexTypeOK'
    BY <1>4 DEF wait_check, FutexTypeOK, PCs
  <2>2. InOnePlace'
    BY Zenon, <1>4 DEF wait_check, InOnePlace
  <2>3. WordTellsHolder'
    BY <1>4 DEF wait_check, FutexTypeOK, WordTellsHolder
  <2> QED BY Zenon, <2>1, <2>2, <2>3
<1>5. ASSUME NEW t \in Threads, wait_enqueue(t) PROVE FutexInv'
  <2>0. table \in Seq(Threads) /\ t \notin Range(table) /\ \A u \in Threads : wakee[u] # t
    BY Zenon, <1>5 DEF wait_enqueue, FutexTypeOK
  <2>1. CASE Mutex(t) = MUTEX_CONTENDED /\ Len(table) < FUTEX_TABLE_CAP
    <3>1. /\ table' = Append(table, t) /\ pc' = [pc EXCEPT ![t] = "blocked"]
          /\ UNCHANGED <<word, wakee, crossed>>
      BY Zenon, <1>5, <2>1 DEF wait_enqueue
    <3>2. /\ Append(table, t) \in Seq(Threads) /\ Len(Append(table, t)) = Len(table) + 1
          /\ Range(Append(table, t)) = Range(table) \cup {t}
          /\ Once(table) /\ t \notin Range(table) => Once(Append(table, t))
      BY <2>0, Enqueued, Zenon
    <3>3. FutexTypeOK'
      <4>1. wakee[t] = None
        BY Zenon, <1>5 DEF wait_enqueue, FutexTypeOK
      <4> QED BY <2>1, <3>1, <3>2, <4>1 DEF FutexTypeOK, PCs
    <3>4. InOnePlace'
      BY Zenon, <2>0, <3>1, <3>2 DEF InOnePlace
    <3> QED BY <1>5, <3>1, <3>3, <3>4 DEF wait_enqueue, FutexTypeOK, WordTellsHolder
  <2>2. CASE ~(Mutex(t) = MUTEX_CONTENDED /\ Len(table) < FUTEX_TABLE_CAP)
    <3>1. pc' = [pc EXCEPT ![t] = "load"] /\ UNCHANGED <<word, table, wakee, crossed>>
      BY Zenon, <1>5, <2>2 DEF wait_enqueue
    <3>2. FutexTypeOK'
      BY <1>5, <3>1 DEF wait_enqueue, FutexTypeOK, PCs
    <3>3. InOnePlace'
      BY Zenon, <3>1 DEF InOnePlace
    <3> QED BY <1>5, <3>1, <3>2, <3>3 DEF wait_enqueue, FutexTypeOK, WordTellsHolder
  <2> QED BY Zenon, <2>1, <2>2
<1>6. ASSUME NEW t \in Threads, work(t) PROVE FutexInv'
  <2>1. FutexTypeOK'
    BY Zenon, <1>6 DEF work, FutexTypeOK, PCs
  <2>2. InOnePlace'
    BY Zenon, <1>6 DEF work, InOnePlace
  <2>3. WordTellsHolder'
    BY <1>6 DEF work, FutexTypeOK, WordTellsHolder
  <2> QED BY Zenon, <2>1, <2>2, <2>3
<1>7. ASSUME NEW t \in Threads, unlock(t) PROVE FutexInv'
  <2>1. FutexTypeOK'
    BY <1>7 DEF unlock, FutexTypeOK, PCs
  <2>2. InOnePlace'
    BY Zenon, <1>7 DEF unlock, InOnePlace
  <2>3. WordTellsHolder'
    BY <1>7 DEF unlock, FutexTypeOK, WordTellsHolder
  <2> QED BY Zenon, <2>1, <2>2, <2>3
<1>8. ASSUME NEW t \in Threads, futex_wake(t) PROVE FutexInv'
  <2>1. CASE table # <<>>
    <3>1. table \in Seq(Threads) /\ Once(table)
      BY Zenon DEF FutexTypeOK, InOnePlace
    <3>0. /\ Head(table) \in Threads
          /\ Tail(table) \in Seq(Threads) /\ Len(Tail(table)) = Len(table) - 1
          /\ Range(table) = Range(Tail(table)) \cup {Head(table)}
          /\ Once(Tail(table)) /\ Head(table) \notin Range(Tail(table))
      BY <2>1, <3>1, Dequeued, Zenon
    <3>2. /\ Head(table) \in Threads
          /\ table' \in Seq(Threads) /\ Len(table') = Len(table) - 1
          /\ Range(table) = Range(table') \cup {Head(table)}
          /\ Once(table') /\ Head(table) \notin Range(table')
      BY Zenon, <1>8, <2>1, <3>0 DEF futex_wake
    <3>3. FutexTypeOK'
      <4>1. /\ pc' = [pc EXCEPT ![t] = "waking"] /\ word' = word
            /\ wakee' = [wakee EXCEPT ![t] = Head(table)] /\ wakee[t] = None
        BY Zenon, <1>8, <2>1 DEF futex_wake, FutexTypeOK
      <4>2. crossed' \subseteq Process
        <5>1. space_of[t] \in Process
          OBVIOUS
        <5>2. crossed' = crossed \/ crossed' = crossed \cup {space_of[t]}
          BY Zenon, <1>8, <2>1 DEF futex_wake
        <5> QED BY <5>1, <5>2 DEF FutexTypeOK
      <4>3. /\ word' \in [Process -> MUTEX_UNLOCKED .. MUTEX_CONTENDED]
            /\ Len(table') <= FUTEX_TABLE_CAP
            /\ pc' \in [Threads -> PCs]
            /\ wakee' \in [Threads -> Threads \cup {None}]
        BY <3>1, <3>2, <4>1 DEF FutexTypeOK, PCs
      <4>4. \A u \in Threads : wakee'[u] # None <=> pc'[u] = "waking"
        BY <3>2, <4>1 DEF FutexTypeOK
      <4>5. \A u \in Threads :
               pc'[u] = "blocked" <=> u \in Range(table') \/ \E v \in Threads : wakee'[v] = u
        BY SMTT(30), <1>8, <3>2, <4>1 DEF futex_wake, FutexTypeOK
      <4> QED BY Zenon, <3>2, <4>2, <4>3, <4>4, <4>5 DEF FutexTypeOK
    <3>4. InOnePlace'
      BY <1>8, <2>1, <3>2 DEF futex_wake, FutexTypeOK, InOnePlace
    <3> QED BY <1>8, <2>1, <3>3, <3>4 DEF futex_wake, FutexTypeOK, WordTellsHolder
  <2>2. CASE table = <<>>
    <3>1. FutexTypeOK'
      BY <1>8, <2>2 DEF futex_wake, FutexTypeOK, PCs
    <3>2. InOnePlace'
      BY Zenon, <1>8, <2>2 DEF futex_wake, InOnePlace
    <3> QED BY <1>8, <2>2, <3>1, <3>2 DEF futex_wake, FutexTypeOK, WordTellsHolder
  <2> QED BY Zenon, <2>1, <2>2
<1>9. ASSUME NEW t \in Threads, wake(t) PROVE FutexInv'
  <2>1. FutexTypeOK'
    BY <1>9 DEF wake, FutexTypeOK, InOnePlace, PCs
  <2>2. InOnePlace'
    BY <1>9 DEF wake, FutexTypeOK, InOnePlace
  <2>3. WordTellsHolder'
    BY <1>9 DEF wake, FutexTypeOK, WordTellsHolder
  <2> QED BY Zenon, <2>1, <2>2, <2>3
<1>10. ASSUME NEW t \in Threads, exit(t) PROVE FutexInv'
  <2>1. t \notin Range(table)
    BY Zenon, <1>10 DEF exit, FutexTypeOK
  <2>2. table' = table
    BY Zenon, <1>10, <2>1 DEF exit
  <2>3. FutexTypeOK'
    BY Zenon, <1>10, <2>2 DEF exit, FutexTypeOK, PCs
  <2>4. InOnePlace'
    BY Zenon, <1>10, <2>2 DEF exit, InOnePlace
  <2>5. WordTellsHolder'
    BY <1>10 DEF exit, FutexTypeOK, WordTellsHolder
  <2> QED BY Zenon, <2>3, <2>4, <2>5
<1>11. CASE UNCHANGED futexVars
  BY <1>11 DEF futexVars, FutexTypeOK, InOnePlace, WordTellsHolder
<1> QED
  BY Zenon, <1>1, <1>2, <1>3, <1>4, <1>5, <1>6, <1>7, <1>8, <1>9, <1>10, <1>11 DEF FutexNext, Step

LEMMA FutexStarts == ASSUME FutexInit PROVE FutexInv
  BY FutexAssumption
  DEF FutexInit, FutexInv, FutexTypeOK, InOnePlace, WordTellsHolder, Once, Holding, Mutex, At,
      Range, PCs, MUTEX_UNLOCKED, MUTEX_CONTENDED

(* FutexInv holds throughout.                                              *)
THEOREM FutexInvariance == FutexSpec => []FutexInv
<1>1. FutexInit => FutexInv
  BY Zenon, FutexStarts
<1>2. FutexInv /\ [FutexNext]_futexVars => FutexInv'
  BY Zenon, FutexInductive
<1> QED BY <1>1, <1>2, PTL DEF FutexSpec

(* FUTEX_TABLE keeps its capacity, and a thread sleeps exactly while it is *)
(* in the table or in the hands of a waker (futex_wait_check, futex_wake,  *)
(* futex_detach of process.rs).                                            *)
THEOREM FutexTypeCorrect == FutexSpec => []FutexTypeOK
<1>1. FutexInv => FutexTypeOK
  BY Zenon DEF FutexInv
<1> QED BY <1>1, FutexInvariance, PTL

(* UserMutex::lock and unlock exclude: at any time one thread of a process *)
(* holds the mutex when its word is 1 or 2, and none when it is 0.         *)
THEOREM MutexExcludes == FutexSpec => []MutualExclusion
<1>1. ASSUME FutexInv, NEW a \in Process
      PROVE  Cardinality(Holders(a)) = (IF word[a] = MUTEX_UNLOCKED THEN 0 ELSE 1)
  <2>1. CASE word[a] = MUTEX_UNLOCKED
    <3>1. Holders(a) = {}
      BY Zenon, <1>1, <2>1 DEF FutexInv, WordTellsHolder, Holders, Holding, Mutex
    <3> QED BY Zenon, <2>1, <3>1, FS_EmptySet
  <2>2. CASE word[a] # MUTEX_UNLOCKED
    <3>1. PICK t \in Threads : Holding(t) /\ space_of[t] = a
      BY Zenon, <1>1, <2>2 DEF FutexInv, WordTellsHolder
    <3>2. Holders(a) = {t}
      BY Zenon, <1>1, <3>1 DEF FutexInv, WordTellsHolder, Holders, Holding
    <3> QED BY Zenon, <2>2, <3>2, FS_Singleton
  <2> QED BY Zenon, <2>1, <2>2
<1>2. FutexInv => MutualExclusion
  BY Zenon, <1>1 DEF MutualExclusion
<1> QED BY <1>2, FutexInvariance, PTL

-----------------------------------------------------------------------------
(* A waker that holds a thread of another process has been noted.          *)
CrossingSeen ==
    \A u \in Threads :
        wakee[u] # None /\ space_of[wakee[u]] # space_of[u] => space_of[u] \in crossed

(* SleeperCovered is inductive with FutexInv and CrossingSeen: the entry a *)
(* thread takes off the table is one of its own process, which it will     *)
(* wake, or the process is noted in crossed.                               *)
LEMMA CoverageInductive ==
    ASSUME FutexInv, CrossingSeen, SleeperCovered, [FutexNext]_futexVars
    PROVE  CrossingSeen' /\ SleeperCovered'
<1> USE FutexAssumption DEF At, Goto, PutWord, Mutex, Active, FutexInv,
        MUTEX_UNLOCKED, MUTEX_LOCKED, MUTEX_CONTENDED
<1>1. ASSUME NEW t \in Threads, lock(t) PROVE CrossingSeen' /\ SleeperCovered'
  <2>1. CrossingSeen'
    BY Zenon, <1>1 DEF lock, CrossingSeen
  <2>2. SleeperCovered'
    BY <1>1 DEF lock, FutexTypeOK, SleeperCovered
  <2> QED BY Zenon, <2>1, <2>2
<1>2. ASSUME NEW t \in Threads, swap(t) PROVE CrossingSeen' /\ SleeperCovered'
  <2>1. CrossingSeen'
    BY Zenon, <1>2 DEF swap, CrossingSeen
  <2>2. SleeperCovered'
    BY <1>2 DEF swap, FutexTypeOK, SleeperCovered
  <2> QED BY Zenon, <2>1, <2>2
<1>3. ASSUME NEW t \in Threads, lock_load(t) PROVE CrossingSeen' /\ SleeperCovered'
  <2>1. CrossingSeen'
    BY Zenon, <1>3 DEF lock_load, CrossingSeen
  <2>2. SleeperCovered'
    BY <1>3 DEF lock_load, FutexTypeOK, SleeperCovered
  <2> QED BY Zenon, <2>1, <2>2
<1>4. ASSUME NEW t \in Threads, wait_check(t) PROVE CrossingSeen' /\ SleeperCovered'
  <2>1. CrossingSeen'
    BY Zenon, <1>4 DEF wait_check, CrossingSeen
  <2>2. SleeperCovered'
    BY <1>4 DEF wait_check, FutexTypeOK, SleeperCovered
  <2> QED BY Zenon, <2>1, <2>2
<1>5. ASSUME NEW t \in Threads, wait_enqueue(t) PROVE CrossingSeen' /\ SleeperCovered'
  <2>1. CrossingSeen'
    BY Zenon, <1>5 DEF wait_enqueue, CrossingSeen
  <2>2. SleeperCovered'
    BY <1>5 DEF wait_enqueue, FutexTypeOK, SleeperCovered
  <2> QED BY Zenon, <2>1, <2>2
<1>6. ASSUME NEW t \in Threads, work(t) PROVE CrossingSeen' /\ SleeperCovered'
  <2>1. CrossingSeen'
    BY Zenon, <1>6 DEF work, CrossingSeen
  <2>2. SleeperCovered'
    BY <1>6 DEF work, FutexTypeOK, SleeperCovered
  <2> QED BY Zenon, <2>1, <2>2
<1>7. ASSUME NEW t \in Threads, unlock(t) PROVE CrossingSeen' /\ SleeperCovered'
  <2>1. CrossingSeen'
    BY Zenon, <1>7 DEF unlock, CrossingSeen
  <2>2. SleeperCovered'
    BY <1>7 DEF unlock, FutexTypeOK, SleeperCovered
  <2> QED BY Zenon, <2>1, <2>2
<1>8. ASSUME NEW t \in Threads, futex_wake(t) PROVE CrossingSeen' /\ SleeperCovered'
  <2>1. CASE table = <<>>
    <3>1. Range(table) = {}
      BY <2>1 DEF Range
    <3>2. CrossingSeen'
      BY Zenon, <1>8, <2>1 DEF futex_wake, CrossingSeen
    <3>3. SleeperCovered'
      BY <1>8, <2>1, <3>1 DEF futex_wake, FutexTypeOK, SleeperCovered
    <3> QED BY Zenon, <3>2, <3>3
  <2>2. CASE table # <<>>
    <3>1. /\ pc' = [pc EXCEPT ![t] = "waking"] /\ word' = word
          /\ wakee' = [wakee EXCEPT ![t] = Head(table)]
          /\ crossed' = IF space_of[Head(table)] = space_of[t] THEN crossed
                        ELSE crossed \cup {space_of[t]}
          /\ wakee[t] = None
      BY Zenon, <1>8, <2>2 DEF futex_wake, FutexTypeOK
    <3>2. CrossingSeen'
      BY <3>1 DEF FutexTypeOK, CrossingSeen
    <3>3. SleeperCovered'
      BY <1>8, <3>1 DEF futex_wake, FutexTypeOK, SleeperCovered
    <3> QED BY Zenon, <3>2, <3>3
  <2> QED BY Zenon, <2>1, <2>2
<1>9. ASSUME NEW t \in Threads, wake(t) PROVE CrossingSeen' /\ SleeperCovered'
  <2>1. CrossingSeen'
    BY <1>9 DEF wake, FutexTypeOK, CrossingSeen
  <2>2. SleeperCovered'
    BY <1>9 DEF wake, FutexTypeOK, InOnePlace, CrossingSeen, SleeperCovered
  <2> QED BY Zenon, <2>1, <2>2
<1>10. ASSUME NEW t \in Threads, exit(t) PROVE CrossingSeen' /\ SleeperCovered'
  <2>1. CrossingSeen'
    BY Zenon, <1>10 DEF exit, CrossingSeen
  <2>2. SleeperCovered'
    BY <1>10 DEF exit, FutexTypeOK, SleeperCovered
  <2> QED BY Zenon, <2>1, <2>2
<1>11. CASE UNCHANGED futexVars
  BY Zenon, <1>11 DEF futexVars, SleeperCovered, CrossingSeen
<1> QED
  BY Zenon, <1>1, <1>2, <1>3, <1>4, <1>5, <1>6, <1>7, <1>8, <1>9, <1>10, <1>11 DEF FutexNext, Step

(* No wakeup is lost between the swap of lock, the second read of          *)
(* futex_wait_check under the table's lock, and unlock's futex_wake: while *)
(* a thread sleeps, the word is 2 or a thread is on its way to the word or *)
(* to the table, for any number of processes that have their mutex at one  *)
(* address, up to the first futex_wake of the sleeper's process that takes *)
(* a waiter of another (process.rs:1700).                                  *)
THEOREM WakeupNotLost == FutexSpec => []SleeperCovered
<1>1. FutexInit => FutexInv /\ CrossingSeen /\ SleeperCovered
  BY Zenon, FutexStarts DEF FutexInit, SleeperCovered, CrossingSeen
<1>2. FutexInv /\ CrossingSeen /\ SleeperCovered /\ [FutexNext]_futexVars
      => (FutexInv /\ CrossingSeen /\ SleeperCovered)'
  BY Zenon, FutexInductive, CoverageInductive
<1> QED BY <1>1, <1>2, PTL DEF FutexSpec

-----------------------------------------------------------------------------
Caps == {r.caps : r \in Requests}

(* What an operation carries from one lock to the next.                    *)
GrantOps ==
    [pc : {"none", "gone", "unhooked", "buried"}]
    \cup [pc : {"issue_read"}, pid : GPid, caps : Caps, ttl : Nat]
    \cup [pc : {"issue"}, pid : GPid, caps : Caps, ttl : Nat, session : 0 .. MaxSid]
    \cup [pc : {"set"}, pid : GPid, session : 0 .. MaxSid]
    \cup [pc : {"clear"}, dead : 1 .. MaxSid, session : 0 .. MaxSid]
    \cup [pc : {"fork", "gate"}, session : 0 .. MaxSid]
    \cup [pc : {"spawned"}, child : GPid]
    \cup [pc : {"clear_gone"}, dead : 1 .. MaxSid]

(* The processes, their operations and the counters.                       *)
OpsTyped ==
    /\ gproc \in [GPid -> [alive : BOOLEAN, session : 0 .. MaxSid]]
    /\ gop \in [GPid -> GrantOps]
    /\ next_token \in 1 .. MaxToken + 1
    /\ next_session \in 1 .. MaxSid + 1

(* The rows of the ledger and of the sessions.                             *)
RowsTyped ==
    /\ \A g \in grants : /\ g.token \in 1 .. MaxToken /\ g.pid \in GPid
                         /\ g.caps \in Caps /\ g.session \in 0 .. MaxSid
    /\ \A s \in sessions : s.id \in 1 .. MaxSid /\ s.leader \in GPid

BookBounded ==
    /\ IsFiniteSet(grants) /\ Cardinality(grants) <= MAX_GRANTS
    /\ IsFiniteSet(sessions) /\ Cardinality(sessions) <= MAX_SESSIONS

GrantInv == OpsTyped /\ RowsTyped /\ BookBounded /\ LedgerFollowsSessions

-----------------------------------------------------------------------------
(* The ledger and the session table are bounded sets: rows are dropped,    *)
(* one is added where there is room, or one takes the place of another.    *)
LEMMA Fewer ==
    ASSUME NEW S, NEW T, NEW n \in Nat, IsFiniteSet(S), T \subseteq S, Cardinality(S) <= n
    PROVE  IsFiniteSet(T) /\ Cardinality(T) <= n
<1>1. IsFiniteSet(T) /\ Cardinality(T) <= Cardinality(S)
  BY FS_Subset, Zenon
<1>2. Cardinality(T) \in Nat /\ Cardinality(S) \in Nat
  BY <1>1, FS_CardinalityType, Zenon
<1> QED BY <1>1, <1>2

LEMMA OneMore ==
    ASSUME NEW S, NEW x, NEW n \in Nat, IsFiniteSet(S), Cardinality(S) < n
    PROVE  IsFiniteSet(S \cup {x}) /\ Cardinality(S \cup {x}) <= n
<1>1. /\ IsFiniteSet(S \cup {x})
      /\ Cardinality(S \cup {x}) = IF x \in S THEN Cardinality(S) ELSE Cardinality(S) + 1
  BY FS_AddElement, Zenon
<1>2. Cardinality(S) \in Nat
  BY FS_CardinalityType, Zenon
<1> QED BY <1>1, <1>2

LEMMA OneForAnother ==
    ASSUME NEW S, NEW T, NEW x, NEW n \in Nat,
           IsFiniteSet(S), T \subseteq S, T # S, Cardinality(S) <= n
    PROVE  IsFiniteSet(T \cup {x}) /\ Cardinality(T \cup {x}) <= n
<1>1. IsFiniteSet(T) /\ Cardinality(T) <= Cardinality(S) /\ Cardinality(S) # Cardinality(T)
  BY FS_Subset, Zenon
<1>2. Cardinality(T) \in Nat /\ Cardinality(S) \in Nat
  BY <1>1, FS_CardinalityType, Zenon
<1>3. Cardinality(T) < n
  BY <1>1, <1>2
<1> QED BY <1>1, <1>3, OneMore, Zenon

(* A step that leaves the book alone, lets no process die and skips no     *)
(* on_process_gone keeps the ledger with its sessions.                     *)
LEMMA BookLeftAlone ==
    ASSUME RowsTyped, LedgerFollowsSessions, UNCHANGED bookVars,
           \A q \in GPid : Alive(q) => Alive(q)',
           \A q \in GPid : gop[q].pc \in {"gone", "unhooked"} =>
                            gop[q].pc' \in {"gone", "unhooked"}
    PROVE  LedgerFollowsSessions'
  BY Zenon DEF RowsTyped, LedgerFollowsSessions, bookVars, Sids, Alive

(* clear_session_members changes no process but the session it is in.      *)
LEMMA MembersLive ==
    ASSUME OpsTyped, NEW sid, NEW keep, clear_session_members(sid, keep)
    PROVE  /\ gproc' \in [GPid -> [alive : BOOLEAN, session : 0 .. MaxSid]]
           /\ \A q \in GPid : Alive(q) => Alive(q)'
  BY GrantAssumption DEF OpsTyped, clear_session_members, Alive

(* GrantInv is inductive: each locked step keeps it, whatever the other    *)
(* processes carry between their two locks.                                *)
LEMMA GrantInductive ==
    ASSUME GrantInv, [GrantNext]_grantVars
    PROVE  GrantInv'
<1> USE GrantAssumption DEF GrantInv
<1>1. ASSUME Clock PROVE GrantInv'
  <2>1. OpsTyped'
    BY Zenon, <1>1 DEF Clock, OpsTyped, GrantOps, NoOp, bookVars
  <2>2. RowsTyped'
    BY Zenon, <1>1 DEF Clock, RowsTyped, bookVars
  <2>3. BookBounded'
    BY Zenon, <1>1 DEF Clock, BookBounded, bookVars
  <2>4. LedgerFollowsSessions'
    BY Zenon, <1>1 DEF Clock, OpsTyped, LedgerFollowsSessions, Alive, Ready, NoOp, Sids, bookVars
  <2> QED BY Zenon, <2>1, <2>2, <2>3, <2>4
<1>2. ASSUME NEW p \in GPid, NEW t \in GPid, NEW r \in Requests,
             issue_grant(p, t, r)
      PROVE  GrantInv'
  <2>1. OpsTyped'
    <3>1. r.caps \in Caps /\ r.ttl \in Nat
      BY DEF Caps, Requests
    <3> QED BY Zenon, <1>2, <3>1 DEF issue_grant, OpsTyped, GrantOps, bookVars
  <2>2. RowsTyped'
    BY Zenon, <1>2 DEF issue_grant, RowsTyped, bookVars
  <2>3. BookBounded'
    BY Zenon, <1>2 DEF issue_grant, BookBounded, bookVars
  <2>4. LedgerFollowsSessions'
    BY <1>2 DEF issue_grant, OpsTyped, LedgerFollowsSessions, Alive, Ready, NoOp, Sids, bookVars
  <2> QED BY Zenon, <2>1, <2>2, <2>3, <2>4
<1>3. ASSUME NEW p \in GPid, issue_session(p) PROVE GrantInv'
  <2>1. OpsTyped'
    <3>1. gop[p].pid \in GPid /\ gop[p].caps \in Caps /\ gop[p].ttl \in Nat
      BY Zenon, <1>3 DEF issue_session, OpsTyped, GrantOps
    <3>2. session_of_pid(gop[p].pid) \in 0 .. MaxSid
      BY <3>1 DEF session_of_pid, OpsTyped
    <3> QED BY Zenon, <1>3, <3>1, <3>2 DEF issue_session, OpsTyped, GrantOps, bookVars
  <2>2. RowsTyped'
    BY Zenon, <1>3 DEF issue_session, RowsTyped, bookVars
  <2>3. BookBounded'
    BY Zenon, <1>3 DEF issue_session, BookBounded, bookVars
  <2>4. LedgerFollowsSessions'
    BY SMTT(30), <1>3 DEF issue_session, OpsTyped, LedgerFollowsSessions, Alive, Ready, NoOp, Sids,
        bookVars, session_of_pid
  <2> QED BY Zenon, <2>1, <2>2, <2>3, <2>4
<1>4. ASSUME NEW p \in GPid, issue(p) PROVE GrantInv'
  <2>1. OpsTyped'
    BY <1>4 DEF issue, OpsTyped, GrantOps, NoOp, bookVars, Unexpired
  <2>2. RowsTyped'
    BY <1>4 DEF issue, OpsTyped, RowsTyped, GrantOps, bookVars, Unexpired
  <2>3. BookBounded'
    <3>1. Unexpired \subseteq grants
      BY Zenon DEF Unexpired
    <3>2. IsFiniteSet(Unexpired) /\ Cardinality(Unexpired) <= MAX_GRANTS
      BY Zenon, <3>1, Fewer DEF BookBounded
    <3>3. CASE Cardinality(Unexpired) >= MAX_GRANTS
      BY Zenon, <1>4, <3>2, <3>3 DEF issue, BookBounded
    <3>4. CASE ~(Cardinality(Unexpired) >= MAX_GRANTS)
      <4>1. Cardinality(Unexpired) < MAX_GRANTS
        BY <3>2, <3>4, FS_CardinalityType
      <4>2. PICK g : grants' = Unexpired \cup {g}
        BY Zenon, <1>4, <3>4 DEF issue
      <4> QED BY Zenon, <1>4, <3>2, <4>1, <4>2, OneMore DEF issue, BookBounded
    <3> QED BY Zenon, <3>3, <3>4
  <2>4. LedgerFollowsSessions'
    <3>1. \A g \in grants' : g \in grants \/ g.late = (g.session \notin Sids \cup {0})
      BY <1>4 DEF issue, Unexpired
    <3>2. sessions' = sessions /\ Sids' = Sids
      BY Zenon, <1>4 DEF issue, Sids
    <3>3. \A q \in GPid :
             /\ Alive(q)' = Alive(q)
             /\ gop[q].pc \in {"gone", "unhooked"} => gop'[q].pc \in {"gone", "unhooked"}
      BY Zenon, <1>4 DEF issue, OpsTyped, Alive
    <3> QED BY Zenon, <3>1, <3>2, <3>3 DEF LedgerFollowsSessions, RowsTyped
  <2> QED BY Zenon, <2>1, <2>2, <2>3, <2>4
<1>5. ASSUME NEW p \in GPid, NEW token \in 1 .. MaxToken, revoke_grant(p, token) PROVE GrantInv'
  <2>1. OpsTyped'
    BY Zenon, <1>5 DEF revoke_grant, OpsTyped, GrantOps, NoOp, bookVars
  <2>2. RowsTyped'
    BY Zenon, <1>5 DEF revoke_grant, RowsTyped, bookVars
  <2>3. BookBounded'
    <3>1. grants' \subseteq grants /\ sessions' = sessions
      BY Zenon, <1>5 DEF revoke_grant
    <3> QED BY Zenon, <3>1, Fewer DEF BookBounded
  <2>4. LedgerFollowsSessions'
    BY Zenon, <1>5 DEF revoke_grant, OpsTyped, LedgerFollowsSessions, Alive, Ready, NoOp, Sids, bookVars
  <2> QED BY Zenon, <2>1, <2>2, <2>3, <2>4
<1>6. ASSUME NEW p \in GPid, NEW g \in grants, begin_session(p, g) PROVE GrantInv'
  <2>1. OpsTyped'
    <3>1. CASE Led(p) = {}
      BY <1>6, <3>1 DEF begin_session, OpsTyped, GrantOps
    <3>2. CASE Led(p) # {}
      <4>1. PICK s \in Led(p) : gop' = [gop EXCEPT ![p] = [pc |-> "clear", dead |-> s.id,
                                                         session |-> next_session]]
        BY Zenon, <1>6, <3>2 DEF begin_session
      <4>2. s.id \in 1 .. MaxSid
        BY Zenon DEF Led, RowsTyped
      <4> QED BY <1>6, <4>1, <4>2 DEF begin_session, OpsTyped, GrantOps
    <3> QED BY Zenon, <3>1, <3>2
  <2>2. RowsTyped'
    BY <1>6 DEF begin_session, RowsTyped, bookVars, OpsTyped, purge_session_book
  <2>3. BookBounded'
    <3>1. grants' \subseteq grants
      BY Zenon, <1>6 DEF begin_session, purge_session_book
    <3>2. IsFiniteSet(grants') /\ Cardinality(grants') <= MAX_GRANTS
      BY Zenon, <3>1, Fewer DEF BookBounded
    <3>3. PICK s : sessions' = (sessions \ Led(p)) \cup {s}
      BY Zenon, <1>6 DEF begin_session
    <3>4. IsFiniteSet(sessions') /\ Cardinality(sessions') <= MAX_SESSIONS
      <4>1. CASE Led(p) = {}
        <5>1. sessions \ Led(p) = sessions
          BY Zenon, <4>1
        <5>2. Cardinality(sessions) < MAX_SESSIONS
          BY Zenon, <1>6, <4>1 DEF begin_session
        <5> QED BY Zenon, <3>3, <5>1, <5>2, OneMore DEF BookBounded
      <4>2. CASE Led(p) # {}
        <5>1. sessions \ Led(p) \subseteq sessions /\ sessions \ Led(p) # sessions
          BY Zenon, <4>2 DEF Led
        <5> QED BY Zenon, <3>3, <5>1, OneForAnother DEF BookBounded
      <4> QED BY Zenon, <4>1, <4>2
    <3> QED BY Zenon, <3>2, <3>4 DEF BookBounded
  <2>4. LedgerFollowsSessions'
    <3> DEFINE new == [id |-> next_session, leader |-> p]
    <3>1. sessions' = (sessions \ Led(p)) \cup {new} /\ new.leader = p
      BY Zenon, <1>6 DEF begin_session
    <3>2. /\ Alive(p) /\ gproc' = gproc
          /\ \A q \in GPid : q # p => gop'[q] = gop[q]
      BY Zenon, <1>6 DEF begin_session, Ready, OpsTyped
    <3>3. \A h \in grants' : h \in grants /\ \A s \in Led(p) : h.session # s.id
      BY <1>6 DEF begin_session, purge_session_book, Led, LedgerFollowsSessions
    <3> HIDE DEF new
    <3>4. ASSUME NEW h \in grants', ~h.late PROVE h.session \in Sids' \cup {0}
      BY Zenon, <3>1, <3>3, <3>4 DEF LedgerFollowsSessions, Sids
    <3>5. ASSUME NEW s \in sessions' 
          PROVE Alive(s.leader)' \/ gop'[s.leader].pc \in {"gone", "unhooked"}
      BY Zenon, <3>1, <3>2 DEF LedgerFollowsSessions, RowsTyped, Led, Alive
    <3>6. ASSUME NEW s \in sessions', NEW r \in sessions', s.leader = r.leader PROVE s = r
      BY Zenon, <3>1, <3>6 DEF LedgerFollowsSessions, Led
    <3> QED BY Zenon, <3>4, <3>5, <3>6 DEF LedgerFollowsSessions
  <2> QED BY Zenon, <2>1, <2>2, <2>3, <2>4
<1>7. ASSUME NEW p \in GPid, begin_clear(p) PROVE GrantInv'
  <2>1. OpsTyped'
    <3>1. gproc' \in [GPid -> [alive : BOOLEAN, session : 0 .. MaxSid]]
      BY Zenon, <1>7, MembersLive DEF begin_clear
    <3> QED BY Zenon, <1>7, <3>1 DEF begin_clear, OpsTyped, GrantOps, bookVars
  <2>2. RowsTyped'
    BY Zenon, <1>7 DEF begin_clear, RowsTyped, bookVars
  <2>3. BookBounded'
    BY Zenon, <1>7 DEF begin_clear, BookBounded, bookVars
  <2>4. LedgerFollowsSessions'
    <3>1. \A q \in GPid : Alive(q) => Alive(q)'
      BY Zenon, <1>7, MembersLive DEF begin_clear
    <3>2. \A q \in GPid : gop[q].pc \in {"gone", "unhooked"} =>
                              gop'[q].pc \in {"gone", "unhooked"}
      BY Zenon, <1>7 DEF begin_clear, OpsTyped
    <3> QED BY Zenon, <1>7, <3>1, <3>2, BookLeftAlone DEF begin_clear
  <2> QED BY Zenon, <2>1, <2>2, <2>3, <2>4
<1>8. ASSUME NEW p \in GPid, set_session(p) PROVE GrantInv'
  <2>1. OpsTyped'
    BY Zenon, <1>8 DEF set_session, OpsTyped, GrantOps, NoOp, bookVars
  <2>2. RowsTyped'
    BY Zenon, <1>8 DEF set_session, RowsTyped, bookVars
  <2>3. BookBounded'
    BY Zenon, <1>8 DEF set_session, BookBounded, bookVars
  <2>4. LedgerFollowsSessions'
    BY <1>8 DEF set_session, OpsTyped, LedgerFollowsSessions, Alive, Ready, NoOp, Sids, bookVars
  <2> QED BY Zenon, <2>1, <2>2, <2>3, <2>4
<1>9. ASSUME NEW p \in GPid, fork_copy(p) PROVE GrantInv'
  <2>1. OpsTyped'
    BY Zenon, <1>9 DEF fork_copy, OpsTyped, GrantOps, NoOp, bookVars
  <2>2. RowsTyped'
    BY Zenon, <1>9 DEF fork_copy, RowsTyped, bookVars
  <2>3. BookBounded'
    BY Zenon, <1>9 DEF fork_copy, BookBounded, bookVars
  <2>4. LedgerFollowsSessions'
    <3>1. \A q \in GPid : gop[q].pc \in {"gone", "unhooked"} =>
                              gop'[q].pc \in {"gone", "unhooked"}
      BY <1>9 DEF fork_copy, Ready, OpsTyped, NoOp
    <3>2. \A q \in GPid : Alive(q) => Alive(q)'
      BY Zenon, <1>9 DEF fork_copy, Alive
    <3> QED BY Zenon, <1>9, <3>1, <3>2, BookLeftAlone DEF fork_copy
  <2> QED BY Zenon, <2>1, <2>2, <2>3, <2>4
<1>10. ASSUME NEW p \in GPid, fork_insert(p) PROVE GrantInv'
  <2>1. OpsTyped'
    BY <1>10 DEF fork_insert, OpsTyped, GrantOps, NoOp, bookVars, Unborn
  <2>2. RowsTyped'
    BY Zenon, <1>10 DEF fork_insert, RowsTyped, bookVars
  <2>3. BookBounded'
    BY Zenon, <1>10 DEF fork_insert, BookBounded, bookVars
  <2>4. LedgerFollowsSessions'
    BY <1>10 DEF fork_insert, OpsTyped, LedgerFollowsSessions, Alive, Ready, NoOp, Sids, bookVars,
        Unborn
  <2> QED BY Zenon, <2>1, <2>2, <2>3, <2>4
<1>11. ASSUME NEW p \in GPid, SpawnService(p) PROVE GrantInv'
  <2>1. OpsTyped'
    BY Zenon, <1>11 DEF SpawnService, OpsTyped, GrantOps, NoOp, bookVars
  <2>2. RowsTyped'
    BY Zenon, <1>11 DEF SpawnService, RowsTyped, bookVars
  <2>3. BookBounded'
    BY Zenon, <1>11 DEF SpawnService, BookBounded, bookVars
  <2>4. LedgerFollowsSessions'
    BY <1>11 DEF SpawnService, OpsTyped, LedgerFollowsSessions, Alive, Ready, NoOp, Sids, bookVars
  <2> QED BY Zenon, <2>1, <2>2, <2>3, <2>4
<1>12. ASSUME NEW p \in GPid, effective_caps(p) PROVE GrantInv'
  <2>1. OpsTyped'
    <3>1. CASE gop' = [gop EXCEPT ![p] = NoOp] /\ UNCHANGED gproc
      BY Zenon, <1>12, <3>1 DEF effective_caps, OpsTyped, GrantOps, NoOp, bookVars
    <3>2. CASE ~(gop' = [gop EXCEPT ![p] = NoOp] /\ UNCHANGED gproc)
      <4>1. PICK c \in GPid :
               /\ gproc' = [gproc EXCEPT ![c] = [alive |-> TRUE, session |-> 0]]
               /\ gop' = [gop EXCEPT ![p] = [pc |-> "spawned", child |-> c]]
        BY Zenon, <1>12, <3>2 DEF effective_caps, Unborn
      <4> QED BY <1>12, <4>1 DEF effective_caps, OpsTyped, GrantOps, bookVars
    <3> QED BY Zenon, <3>1, <3>2
  <2>2. RowsTyped'
    BY Zenon, <1>12 DEF effective_caps, RowsTyped, bookVars
  <2>3. BookBounded'
    BY Zenon, <1>12 DEF effective_caps, BookBounded, bookVars
  <2>4. LedgerFollowsSessions'
    <3>1. \A q \in GPid : Alive(q) => Alive(q)'
      BY <1>12 DEF effective_caps, OpsTyped, Alive
    <3>2. \A q \in GPid : gop[q].pc \in {"gone", "unhooked"} =>
                              gop'[q].pc \in {"gone", "unhooked"}
      BY Zenon, <1>12 DEF effective_caps, OpsTyped
    <3> QED BY Zenon, <1>12, <3>1, <3>2, BookLeftAlone DEF effective_caps
  <2> QED BY Zenon, <2>1, <2>2, <2>3, <2>4
<1>13. ASSUME NEW p \in GPid, spawn_session(p) PROVE GrantInv'
  <2>1. OpsTyped'
    BY Zenon, <1>13 DEF spawn_session, OpsTyped, GrantOps, NoOp, bookVars
  <2>2. RowsTyped'
    BY Zenon, <1>13 DEF spawn_session, RowsTyped, bookVars
  <2>3. BookBounded'
    BY Zenon, <1>13 DEF spawn_session, BookBounded, bookVars
  <2>4. LedgerFollowsSessions'
    BY <1>13 DEF spawn_session, OpsTyped, LedgerFollowsSessions, Alive, Ready, NoOp, Sids, bookVars
  <2> QED BY Zenon, <2>1, <2>2, <2>3, <2>4
<1>14. ASSUME NEW p \in GPid, full_reap(p) PROVE GrantInv'
  <2>1. OpsTyped'
    BY <1>14 DEF full_reap, OpsTyped, GrantOps, NoOp, bookVars
  <2>2. RowsTyped'
    BY Zenon, <1>14 DEF full_reap, RowsTyped, bookVars
  <2>3. BookBounded'
    BY Zenon, <1>14 DEF full_reap, BookBounded, bookVars
  <2>4. LedgerFollowsSessions'
    BY <1>14 DEF full_reap, OpsTyped, LedgerFollowsSessions, Alive, Ready, NoOp, Sids, bookVars
  <2> QED BY Zenon, <2>1, <2>2, <2>3, <2>4
<1>15. ASSUME NEW p \in GPid, security_on_process_gone(p) PROVE GrantInv'
  <2>1. OpsTyped'
    <3>1. CASE Led(p) = {}
      BY Zenon, <1>15, <3>1 DEF security_on_process_gone, OpsTyped, GrantOps
    <3>2. CASE Led(p) # {}
      <4>1. (CHOOSE s \in Led(p) : TRUE) \in Led(p)
        BY Zenon, <3>2
      <4>2. (CHOOSE s \in Led(p) : TRUE).id \in 1 .. MaxSid
        BY Zenon, <4>1 DEF Led, RowsTyped
      <4> QED BY Zenon, <1>15, <3>2, <4>2 DEF security_on_process_gone, OpsTyped, GrantOps
    <3> QED BY Zenon, <3>1, <3>2
  <2>2. RowsTyped'
    BY Zenon, <1>15 DEF security_on_process_gone, RowsTyped, bookVars
  <2>3. BookBounded'
    <3>1. grants' \subseteq grants /\ sessions' \subseteq sessions
      BY Zenon, <1>15 DEF security_on_process_gone
    <3> QED BY Zenon, <3>1, Fewer DEF BookBounded
  <2>4. LedgerFollowsSessions'
    BY <1>15 DEF security_on_process_gone, OpsTyped, LedgerFollowsSessions, Alive, Ready, NoOp,
        Sids, bookVars, purge_session_book, Led
  <2> QED BY Zenon, <2>1, <2>2, <2>3, <2>4
<1>16. ASSUME NEW p \in GPid, gone_clear(p) PROVE GrantInv'
  <2>1. OpsTyped'
    <3>1. gproc' \in [GPid -> [alive : BOOLEAN, session : 0 .. MaxSid]]
      BY Zenon, <1>16, MembersLive DEF gone_clear
    <3> QED BY Zenon, <1>16, <3>1 DEF gone_clear, OpsTyped, GrantOps, bookVars
  <2>2. RowsTyped'
    BY Zenon, <1>16 DEF gone_clear, RowsTyped, bookVars
  <2>3. BookBounded'
    BY Zenon, <1>16 DEF gone_clear, BookBounded, bookVars
  <2>4. LedgerFollowsSessions'
    <3>1. \A q \in GPid : Alive(q) => Alive(q)'
      BY Zenon, <1>16, MembersLive DEF gone_clear
    <3>2. \A q \in GPid : gop[q].pc \in {"gone", "unhooked"} =>
                              gop'[q].pc \in {"gone", "unhooked"}
      BY Zenon, <1>16 DEF gone_clear, OpsTyped
    <3> QED BY Zenon, <1>16, <3>1, <3>2, BookLeftAlone DEF gone_clear
  <2> QED BY Zenon, <2>1, <2>2, <2>3, <2>4
<1>17. ASSUME NEW p \in GPid, removed_without_hooks(p) PROVE GrantInv'
  <2>1. OpsTyped'
    BY <1>17 DEF removed_without_hooks, OpsTyped, GrantOps, NoOp, bookVars
  <2>2. RowsTyped'
    BY Zenon, <1>17 DEF removed_without_hooks, RowsTyped, bookVars
  <2>3. BookBounded'
    BY Zenon, <1>17 DEF removed_without_hooks, BookBounded, bookVars
  <2>4. LedgerFollowsSessions'
    BY <1>17 DEF removed_without_hooks, OpsTyped, LedgerFollowsSessions, Alive, Ready, NoOp, Sids,
        bookVars
  <2> QED BY Zenon, <2>1, <2>2, <2>3, <2>4
<1>18. CASE UNCHANGED grantVars
  BY Zenon, <1>18 DEF grantVars, OpsTyped, RowsTyped, BookBounded, LedgerFollowsSessions, Sids, Alive
<1> QED
  BY Zenon, <1>1, <1>2, <1>3, <1>4, <1>5, <1>6, <1>7, <1>8, <1>9, <1>10, <1>11, <1>12, <1>13, <1>14,
      <1>15, <1>16, <1>17, <1>18 DEF GrantNext

LEMMA GrantStarts == ASSUME GrantInit PROVE GrantInv
<1>1. OpsTyped /\ RowsTyped
  BY GrantAssumption DEF GrantInit, OpsTyped, RowsTyped, GrantOps, NoOp
<1>2. BookBounded
  BY GrantAssumption, FS_EmptySet DEF GrantInit, BookBounded
<1>3. LedgerFollowsSessions
  BY Zenon DEF GrantInit, LedgerFollowsSessions
<1> QED BY Zenon, <1>1, <1>2, <1>3 DEF GrantInv

(* GrantInv holds throughout.                                              *)
THEOREM GrantInvariance == GrantSpec => []GrantInv
<1>1. GrantInit => GrantInv
  BY Zenon, GrantStarts
<1>2. GrantInv /\ [GrantNext]_grantVars => GrantInv'
  BY Zenon, GrantInductive
<1> QED BY <1>1, <1>2, PTL DEF GrantSpec

(* The book never holds more than MAX_GRANTS rows and MAX_SESSIONS         *)
(* sessions: GrantBook::issue and begin_session refuse, or a session takes *)
(* the place of the one its leader ends.                                   *)
THEOREM GrantTypeCorrect == GrantSpec => []GrantTypeOK
<1>1. GrantInv => GrantTypeOK
  BY Zenon DEF GrantInv, GrantTypeOK, OpsTyped, RowsTyped, BookBounded, Caps
<1> QED BY <1>1, GrantInvariance, PTL

(* Logging out ends the session's grants, and a session ends with its      *)
(* leader, for any number of processes, tokens and sessions, although a    *)
(* login, a fork or a reap releases one lock before it takes the other     *)
(* (security.rs: purge_session_book, begin_session, on_process_gone).  Two *)
(* cases are excepted, as the code has them: a row written after its       *)
(* session ended, and a leader whose record goes without on_process_gone.  *)
THEOREM LedgerFollows == GrantSpec => []LedgerFollowsSessions
<1>1. GrantInv => LedgerFollowsSessions
  BY Zenon DEF GrantInv
<1> QED BY <1>1, GrantInvariance, PTL

-----------------------------------------------------------------------------
(* The allocator's books: the reserved pages are busy and uncounted, a     *)
(* page with a reference is busy, every count fits its u16, and the free   *)
(* counter is the number of clear bits.  A busy page need not have a       *)
(* reference: mark_busy withdraws pages that nobody holds.                 *)
BooksExact(a) ==
    /\ a \in Allocator
    /\ a.reserved \in 1 .. TotalPages
    /\ \A p \in Page : p < a.reserved => p \in a.busy /\ a.refs[p] = 0
    /\ \A p \in Page : a.refs[p] > 0 => p \in a.busy
    /\ \A p \in Page : a.refs[p] <= MaxRefs
    /\ a.free = TotalPages - Cardinality(a.busy)

(* The pages are TotalPages many.                                          *)
LEMMA PagesFinite ==
    IsFiniteSet(Page) /\ Cardinality(Page) = TotalPages
<1>1. /\ IsFiniteSet(0 .. TotalPages - 1)
      /\ Cardinality(0 .. TotalPages - 1)
           = IF 0 > TotalPages - 1 THEN 0 ELSE TotalPages - 1 - 0 + 1
  BY PagesAssumption, FS_Interval
<1> QED
  BY <1>1, PagesAssumption DEF Page

(* A set of pages is finite and no larger.                                 *)
LEMMA BusyFinite ==
    ASSUME NEW B \in SUBSET Page
    PROVE  IsFiniteSet(B) /\ Cardinality(B) \in 0 .. TotalPages
<1>1. IsFiniteSet(B) /\ Cardinality(B) <= Cardinality(Page)
  BY Zenon, PagesFinite, FS_Subset
<1> QED
  BY <1>1, PagesFinite, FS_CardinalityType, PagesAssumption

(* The lowest of a set of numbers is one of them.                          *)
LEMMA LowestIsIn ==
    ASSUME NEW S \in SUBSET Nat, S # {}
    PROVE  Lowest(S) \in S
<1> DEFINE less == {ss \in Nat \X Nat : ss[1] < ss[2]}
<1>1. IsWellFoundedOn(less, Nat)
  BY NatLessThanWellFounded, Zenon DEF OpToRel
<1>2. PICK x \in S : \A y \in S : ~(<<y, x>> \in less)
  BY <1>1, WFMin, Zenon
<1>3. \A y \in Nat : ~(<<y, x>> \in less) => x <= y
  OBVIOUS
<1>4. \A y \in S : x <= y
  BY <1>2, <1>3, Zenon
<1> QED
  BY Zenon, <1>4 DEF Lowest

(* init begins with exact books and keeps at least page 0 for itself       *)
(* (phys_bitmap.rs:68-104).                                                *)
THEOREM InitExact ==
    ASSUME NEW r \in Nat
    PROVE  BooksExact(init(r))
<1> DEFINE least == IF r > 1 THEN r ELSE 1
           n == IF TotalPages < least THEN TotalPages ELSE least
<1>1. n \in 1 .. TotalPages /\ r \in Nat
  BY PagesAssumption
<1> HIDE DEF n
<1>2. init(r) = [busy |-> 0 .. n - 1, refs |-> [p \in Page |-> 0], free |-> TotalPages - n,
                 cursor |-> 0, reserved |-> n]
  BY Zenon DEF init, n, least
<1>3. Cardinality(0 .. n - 1) = n
  BY <1>1, FS_Interval
<1>4. init(r) \in Allocator
  BY SMTT(30), <1>1, <1>2, PagesAssumption DEF Allocator, Page
<1> QED
  BY <1>1, <1>2, <1>3, <1>4 DEF BooksExact, Page, MaxRefs

(* Taking a clear page.                                                    *)
LEMMA TakeExact ==
    ASSUME NEW a, BooksExact(a), NEW p \in Page, p \notin a.busy
    PROVE  /\ BooksExact(TakePage(a, p).a)
           /\ TakePage(a, p).a.refs = [a.refs EXCEPT ![p] = 1]
<1> DEFINE b == TakePage(a, p).a
<1>1. /\ a \in Allocator /\ a.busy \in SUBSET Page /\ a.refs \in [Page -> Nat] /\ a.reserved \in Nat
      /\ TotalPages \in Nat /\ WordBits \in Nat \ {0} /\ Page \subseteq Nat
  BY SMTT(30), PagesAssumption DEF BooksExact, Allocator, Page
<1>2. /\ b.busy = a.busy \cup {p} /\ b.refs = [a.refs EXCEPT ![p] = 1] /\ b.free = a.free - 1
      /\ b.cursor = p \div WordBits /\ b.reserved = a.reserved
      /\ b = [busy |-> b.busy, refs |-> b.refs, free |-> b.free, cursor |-> b.cursor,
              reserved |-> b.reserved]
  BY Zenon, <1>1 DEF TakePage, Allocator
<1> HIDE DEF b
<1>3. Cardinality(b.busy) = Cardinality(a.busy) + 1 /\ Cardinality(b.busy) \in 0 .. TotalPages
  BY <1>1, <1>2, BusyFinite, FS_AddElement
<1>4. b.free \in Nat /\ b.free = TotalPages - Cardinality(b.busy)
  BY <1>1, <1>2, <1>3, BusyFinite DEF BooksExact
<1>5. p \div WordBits \in Nat
  BY <1>1
<1>6. b \in Allocator
  BY <1>1, <1>2, <1>4, <1>5 DEF Allocator
<1>7. \A q \in Page : b.refs[q] = IF q = p THEN 1 ELSE a.refs[q]
  BY Zenon, <1>1, <1>2
<1>8. ~(p < a.reserved)
  BY Zenon, <1>1 DEF BooksExact
<1> QED
  BY <1>1, <1>2, <1>4, <1>6, <1>7, <1>8 DEF BooksExact, MaxRefs, b

(* alloc_page hands out a page nobody holds, counted once, and fails only  *)
(* when every page is busy (phys_bitmap.rs:107-124).                       *)
THEOREM AllocPageExact ==
    ASSUME NEW a, BooksExact(a)
    PROVE  /\ BooksExact(alloc_page(a).a)
           /\ alloc_page(a).ok =>
                 /\ alloc_page(a).page \in Page \ a.busy /\ alloc_page(a).page # NoPage
                 /\ alloc_page(a).a.refs = [a.refs EXCEPT ![alloc_page(a).page] = 1]
           /\ ~alloc_page(a).ok => a.busy = Page /\ alloc_page(a).a = a
<1> DEFINE here == FreeInWord(a, a.cursor)
           any == {p \in Page : p >= a.reserved /\ p \notin a.busy}
<1>1. a.busy \in SUBSET Page /\ a.reserved \in Nat \ {0} /\ Page \subseteq Nat
  BY PagesAssumption DEF BooksExact, Allocator, Page
<1>2. here \subseteq any /\ any \in SUBSET Nat /\ any = Page \ a.busy
  <2>1. ASSUME NEW p \in Page, p \notin a.busy
        PROVE  p >= a.reserved
    <3>1. ~(p < a.reserved)
      BY <2>1, Zenon DEF BooksExact
    <3>2. p \in Nat /\ a.reserved \in Nat
      BY Zenon, <1>1
    <3> QED
      BY <3>1, <3>2
  <2>2. any = Page \ a.busy
    BY Zenon, <2>1
  <2>3. here \subseteq any
    BY Zenon DEF FreeInWord
  <2> QED
    BY Zenon, <1>1, <2>2, <2>3
<1>3. ASSUME NEW S \in SUBSET any, S # {}
      PROVE  /\ BooksExact(try_alloc_in_word(a, S).a) /\ try_alloc_in_word(a, S).ok
             /\ try_alloc_in_word(a, S).page \in Page \ a.busy
             /\ try_alloc_in_word(a, S).page # NoPage
             /\ try_alloc_in_word(a, S).a.refs = [a.refs EXCEPT ![try_alloc_in_word(a, S).page] = 1]
  <2>1. Lowest(S) \in any
    BY Zenon, <1>2, <1>3, LowestIsIn
  <2>2. Lowest(S) \in Page /\ Lowest(S) \notin a.busy /\ Lowest(S) # NoPage
    BY <1>1, <2>1 DEF NoPage
  <2>3. try_alloc_in_word(a, S) = TakePage(a, Lowest(S)) /\ TakePage(a, Lowest(S)).page = Lowest(S)
        /\ TakePage(a, Lowest(S)).ok
    BY Zenon, <1>3 DEF try_alloc_in_word, TakePage
  <2> QED
    BY <2>2, <2>3, TakeExact
<1>4. CASE here # {}
  <2>1. alloc_page(a) = try_alloc_in_word(a, here)
    BY Zenon, <1>4 DEF alloc_page
  <2> QED
    BY Zenon, <1>2, <1>3, <1>4, <2>1
<1>5. CASE here = {} /\ any # {}
  <2>1. alloc_page(a) = try_alloc_in_word(a, any)
    BY Zenon, <1>5 DEF alloc_page
  <2> QED
    BY SMTT(30), <1>3, <1>5, <2>1
<1>6. CASE here = {} /\ any = {}
  <2>1. ~alloc_page(a).ok /\ alloc_page(a).a = a
    BY Zenon, <1>6 DEF alloc_page, try_alloc_in_word
  <2> QED
    BY Zenon, <1>1, <1>2, <1>6, <2>1
<1> QED
  BY Zenon, <1>4, <1>5, <1>6

(* alloc_contiguous hands out count adjacent pages, none of them page 0    *)
(* and none of them held, each counted once (phys_bitmap.rs:156-182).      *)
THEOREM AllocContiguousExact ==
    ASSUME NEW a, BooksExact(a), NEW count \in Nat
    PROVE  LET x == alloc_contiguous(a, count)
               run == x.page .. x.page + count - 1
           IN  /\ BooksExact(x.a)
               /\ ~x.ok => x.a = a
               /\ x.ok => /\ x.page # NoPage /\ run \subseteq Page \ a.busy
                          /\ \A p \in Page : x.a.refs[p] = IF p \in run THEN 1 ELSE a.refs[p]
<1> DEFINE runs == ClearRuns(a, count)
           s == Lowest(runs)
           run == s .. s + count - 1
           b == TakeRun(a, run).a
<1>1. /\ a \in Allocator /\ a.busy \in SUBSET Page /\ a.refs \in [Page -> Nat] /\ a.reserved \in Nat
      /\ TotalPages \in Nat /\ Page \subseteq Nat
  BY PagesAssumption DEF BooksExact, Allocator, Page
<1>2. CASE count = 0 \/ runs = {}
  BY Zenon, <1>2 DEF alloc_contiguous
<1>3. CASE ~(count = 0 \/ runs = {})
  <2>1. alloc_contiguous(a, count) = TakeRun(a, run)
    BY Zenon, <1>3 DEF alloc_contiguous
  <2>2. runs \in SUBSET Nat
    BY <1>1 DEF ClearRuns
  <2>3. s \in runs
    BY Zenon, <1>3, <2>2, LowestIsIn
  <2>4. s \in 1 .. TotalPages - count /\ \A p \in run : p \notin a.busy
    BY Zenon, <2>3 DEF ClearRuns
  <2> HIDE DEF s
  <2>5. run \subseteq Page /\ run \cap a.busy = {} /\ s \in run /\ s # NoPage
    BY <1>1, <1>3, <2>4 DEF Page, NoPage
  <2>6. \A p \in run : s <= p
    BY <2>4
  <2>7. Lowest(run) = s
    BY <2>4, <2>5, <2>6 DEF Lowest
  <2>8. IsFiniteSet(run) /\ Cardinality(run) = count
    BY <1>3, <2>4, FS_Interval
  <2> HIDE DEF run
  <2>9. /\ b.busy = a.busy \cup run /\ b.free = a.free - count
        /\ b.refs = [p \in Page |-> IF p \in run THEN 1 ELSE a.refs[p]]
        /\ b.cursor = a.cursor /\ b.reserved = a.reserved
        /\ b = [busy |-> b.busy, refs |-> b.refs, free |-> b.free, cursor |-> b.cursor,
                reserved |-> b.reserved]
    BY Zenon, <1>1, <2>8 DEF TakeRun, Allocator
  <2>10. TakeRun(a, run).ok /\ TakeRun(a, run).page = s
    BY Zenon, <2>7 DEF TakeRun
  <2> HIDE DEF b
  <2>11. Cardinality(b.busy) = Cardinality(a.busy) + count /\ Cardinality(b.busy) \in 0 .. TotalPages
    <3>1. b.busy \in SUBSET Page
      BY Zenon, <1>1, <2>5, <2>9
    <3>2. /\ IsFiniteSet(a.busy) /\ Cardinality(a.busy) \in Nat
          /\ Cardinality(b.busy) \in 0 .. TotalPages
      BY <1>1, <3>1, BusyFinite
    <3>3. Cardinality(a.busy \cup run)
            = Cardinality(a.busy) + Cardinality(run) - Cardinality(a.busy \cap run)
      BY Zenon, <2>8, <3>2, FS_Union
    <3>4. Cardinality(a.busy \cap run) = 0
      BY Zenon, <2>5, FS_EmptySet
    <3> QED
      BY <2>8, <2>9, <3>2, <3>3, <3>4
  <2>12. b.free \in Nat /\ b.free = TotalPages - Cardinality(b.busy)
    BY <1>1, <2>9, <2>11, BusyFinite DEF BooksExact
  <2>13. b \in Allocator
    BY <1>1, <2>5, <2>9, <2>12 DEF Allocator
  <2>14. \A p \in Page : b.refs[p] = IF p \in run THEN 1 ELSE a.refs[p]
    BY <2>9
  <2>15. BooksExact(b)
    BY SMTT(30), <1>1, <2>5, <2>9, <2>12, <2>13, <2>14 DEF BooksExact, MaxRefs
  <2> QED
    BY Zenon, <2>1, <2>5, <2>10, <2>14, <2>15 DEF b, run
<1> QED
  BY Zenon, <1>2, <1>3

(* free_page gives up one reference of the page; the last one clears its   *)
(* bit (phys_bitmap.rs:188-214).                                           *)
THEOREM FreePageExact ==
    ASSUME NEW a, BooksExact(a), NEW p \in Page, MayFree(a, p)
    PROVE  /\ BooksExact(free_page(a, p))
           /\ free_page(a, p).refs = [a.refs EXCEPT ![p] = a.refs[p] - 1]
           /\ p \in free_page(a, p).busy <=> a.refs[p] > 1
<1> DEFINE b == free_page(a, p)
<1>1. /\ a \in Allocator /\ a.busy \in SUBSET Page /\ a.refs \in [Page -> Nat] /\ a.reserved \in Nat
      /\ TotalPages \in Nat /\ Page \subseteq Nat /\ a.free \in Nat
      /\ p >= a.reserved /\ p \in a.busy /\ a.refs[p] >= 1
  BY PagesAssumption DEF BooksExact, Allocator, Page, MayFree
<1>2. CASE a.refs[p] = 1
  <2>1. /\ b.busy = a.busy \ {p} /\ b.refs = [a.refs EXCEPT ![p] = 0] /\ b.free = a.free + 1
        /\ b.cursor = a.cursor /\ b.reserved = a.reserved
        /\ b = [busy |-> b.busy, refs |-> b.refs, free |-> b.free, cursor |-> b.cursor,
                reserved |-> b.reserved]
    BY Zenon, <1>1, <1>2 DEF free_page, Allocator
  <2> HIDE DEF b
  <2>2. Cardinality(b.busy) = Cardinality(a.busy) - 1
    BY <1>1, <2>1, BusyFinite, FS_RemoveElement
  <2>3. b.free = TotalPages - Cardinality(b.busy) /\ b.free \in Nat
    BY <1>1, <2>1, <2>2, BusyFinite DEF BooksExact
  <2>4. b \in Allocator
    BY <1>1, <2>1, <2>3 DEF Allocator
  <2>5. \A q \in Page : b.refs[q] = IF q = p THEN 0 ELSE a.refs[q]
    BY Zenon, <1>1, <2>1
  <2>6. BooksExact(b)
    BY <1>1, <2>1, <2>3, <2>4, <2>5 DEF BooksExact, MaxRefs
  <2> QED
    BY <1>1, <1>2, <2>1, <2>6 DEF b
<1>3. CASE a.refs[p] > 1
  <2>1. /\ b.busy = a.busy /\ b.refs = [a.refs EXCEPT ![p] = a.refs[p] - 1] /\ b.free = a.free
        /\ b.cursor = a.cursor /\ b.reserved = a.reserved
        /\ b = [busy |-> b.busy, refs |-> b.refs, free |-> b.free, cursor |-> b.cursor,
                reserved |-> b.reserved]
    BY <1>1, <1>3 DEF free_page, Allocator
  <2> HIDE DEF b
  <2>2. \A q \in Page : b.refs[q] = IF q = p THEN a.refs[p] - 1 ELSE a.refs[q]
    BY Zenon, <1>1, <2>1
  <2>3. b.refs \in [Page -> Nat]
    BY <1>1, <1>3, <2>1
  <2>4. b \in Allocator
    BY Zenon, <1>1, <2>1, <2>3 DEF Allocator
  <2>5. BooksExact(b)
    BY SMTT(30), <1>1, <1>3, <2>1, <2>2, <2>4 DEF BooksExact, MaxRefs
  <2> QED
    BY Zenon, <1>1, <1>3, <2>1, <2>5 DEF b
<1> QED
  BY <1>1, <1>2, <1>3

(* retain_page, where its assertions hold, adds one reference and changes  *)
(* neither a busy bit nor the free counter (phys_bitmap.rs:219-234).       *)
THEOREM RetainPageExact ==
    ASSUME NEW a, BooksExact(a), NEW p \in Page, MayRetain(a, p)
    PROVE  /\ BooksExact(retain_page(a, p))
           /\ retain_page(a, p).refs = [a.refs EXCEPT ![p] = a.refs[p] + 1]
<1> DEFINE b == retain_page(a, p)
<1>1. a \in Allocator /\ a.refs \in [Page -> Nat] /\ a.reserved \in Nat /\ Page \subseteq Nat
  BY DEF BooksExact, Allocator, Page
<1>2. /\ b.busy = a.busy /\ b.refs = [a.refs EXCEPT ![p] = a.refs[p] + 1] /\ b.free = a.free
      /\ b.cursor = a.cursor /\ b.reserved = a.reserved
      /\ b = [busy |-> b.busy, refs |-> b.refs, free |-> b.free, cursor |-> b.cursor,
              reserved |-> b.reserved]
  BY <1>1 DEF retain_page, Allocator
<1> HIDE DEF b
<1>3. \A q \in Page : b.refs[q] = IF q = p THEN a.refs[p] + 1 ELSE a.refs[q]
  BY Zenon, <1>1, <1>2
<1>4. b \in Allocator
  BY <1>1, <1>2 DEF Allocator
<1> QED
  BY <1>1, <1>2, <1>3, <1>4 DEF BooksExact, MayRetain, MaxRefs, b

(* mark_busy withdraws a clear page and leaves every other page alone      *)
(* (phys_bitmap.rs:324-333): the free counter goes down only for a bit     *)
(* that was clear.                                                         *)
THEOREM MarkBusyExact ==
    ASSUME NEW a, BooksExact(a), NEW p \in Nat
    PROVE  BooksExact(mark_busy(a, p))
<1> DEFINE b == mark_busy(a, p)
<1>1. /\ a \in Allocator /\ a.busy \in SUBSET Page /\ a.refs \in [Page -> Nat] /\ a.reserved \in Nat
      /\ TotalPages \in Nat /\ Page \subseteq Nat
  BY PagesAssumption DEF BooksExact, Allocator, Page
<1>2. CASE p >= TotalPages \/ p \in a.busy
  BY Zenon, <1>2 DEF mark_busy
<1>3. CASE ~(p >= TotalPages \/ p \in a.busy)
  <2>1. p \in Page /\ p \notin a.busy
    BY <1>1, <1>3 DEF Page
  <2>2. /\ b.busy = a.busy \cup {p} /\ b.refs = [a.refs EXCEPT ![p] = 0] /\ b.free = a.free - 1
        /\ b.cursor = a.cursor /\ b.reserved = a.reserved
        /\ b = [busy |-> b.busy, refs |-> b.refs, free |-> b.free, cursor |-> b.cursor,
                reserved |-> b.reserved]
    BY Zenon, <1>1, <1>3 DEF mark_busy, Allocator
  <2> HIDE DEF b
  <2>3. Cardinality(b.busy) = Cardinality(a.busy) + 1 /\ Cardinality(b.busy) \in 0 .. TotalPages
    BY SMTT(30), <1>1, <2>1, <2>2, BusyFinite, FS_AddElement
  <2>4. b.free \in Nat /\ b.free = TotalPages - Cardinality(b.busy)
    BY <1>1, <2>2, <2>3, BusyFinite DEF BooksExact
  <2>5. b \in Allocator
    BY <1>1, <2>1, <2>2, <2>4 DEF Allocator
  <2>6. \A q \in Page : b.refs[q] = IF q = p THEN 0 ELSE a.refs[q]
    BY Zenon, <1>1, <2>1, <2>2
  <2>7. BooksExact(b)
    BY <1>1, <2>1, <2>2, <2>4, <2>5, <2>6 DEF BooksExact, MaxRefs
  <2> QED
    BY Zenon, <2>7 DEF b
<1> QED
  BY Zenon, <1>2, <1>3

=============================================================================
