-------------------------- MODULE SchedulerProofs ---------------------------
(***************************************************************************)
(* Theorems about Scheduler, for every number of CPUs, processes and       *)
(* levels: its safety invariants, and that it implements ProcessContract.  *)
(***************************************************************************)
EXTENDS SchedulerInvariant, FiniteSetTheorems

-----------------------------------------------------------------------------
(* A Running process is executed by a CPU, or handed off by one.           *)
RunningHasCpu ==
    \A p \in Pid : state[p] = "Running" => \E c \in Cpu : Exec(c) = p

(* A step that keeps what every CPU executes and starts no process.        *)
Unmoved ==
    /\ \A p \in Pid : state'[p] = "Running" => state[p] = "Running"
    /\ \A d \in Cpu : Exec(d)' = Exec(d)

(* CPU c, which executes nothing, starts p.                                *)
Starts(c, p) ==
    /\ \A q \in Pid : state'[q] = "Running" => state[q] = "Running" \/ q = p
    /\ Exec(c) = None /\ Exec(c)' = p
    /\ \A d \in Cpu \ {c} : Exec(d)' = Exec(d)

(* CPU c leaves p, which is no longer Running.                             *)
Stops(c, p) ==
    /\ \A q \in Pid : state'[q] = "Running" => state[q] = "Running" /\ q # p
    /\ Exec(c) = p
    /\ \A d \in Cpu \ {c} : Exec(d)' = Exec(d)

LEMMA CpuFrame ==
    ASSUME RunningHasCpu, IInv, NEW c \in Cpu, NEW p \in Pid,
           Unmoved \/ Starts(c, p) \/ Stops(c, p)
    PROVE  RunningHasCpu'
<1> SUFFICES ASSUME NEW q \in Pid, state'[q] = "Running"
             PROVE  \E d \in Cpu : Exec(d)' = q
  BY Zenon DEF RunningHasCpu
<1>0. None \notin Pid
  BY Zenon, NoneAssumption
<1>1. CASE Unmoved
  BY Zenon, <1>1 DEF Unmoved, RunningHasCpu
<1>2. CASE Starts(c, p)
  <2>1. CASE q = p
    BY Zenon, <1>2, <2>1 DEF Starts
  <2>2. CASE q # p
    BY Zenon, <1>0, <1>2, <2>2 DEF Starts, RunningHasCpu
  <2> QED  BY Zenon, <2>1, <2>2
<1>3. CASE Stops(c, p)
  BY Zenon, <1>3 DEF Stops, RunningHasCpu
<1> QED  BY Zenon, <1>1, <1>2, <1>3

LEMMA UnmovedSteps ==
    ASSUME IInv, NEW c \in Cpu,
           \/ reschedule(c) \/ enter_idle(c) \/ idle_pop(c) \/ enter_user(c)
           \/ detach_current(c, "yield", "release") \/ detach_current(c, "blocking", "finish")
           \/ detach_current(c, "exit", "disown") \/ yield_push(c)
           \/ begin_block(c) \/ enqueue(c) \/ release_owner_for_exit(c) \/ request_wake(c)
           \/ wake_push(c) \/ kick_idle_cores(c) \/ woken(c) \/ tick_account(c)
           \/ register(c) \/ spawn(c) \/ signal(c) \/ yield_or_exit(c)
           \/ timer_irq(c) \/ resched_irq(c) \/ sleep_queue_panic(c)
    PROVE  Unmoved
<1> USE DEF At, Goto, Take, table, waits
<1>0. /\ state \in [Pid -> States] /\ current \in [Cpu -> Pid \cup {None}]
      /\ hand \in [Cpu -> Pid \cup {None}] /\ pc \in [Cpu -> PCs]
      /\ ret[c] \in {"user", "tick", "pick"}
      /\ pc[c] \in CurPCs => current[c] # None
      /\ pc[c] \in FreePCs => current[c] = None
      /\ pc[c] \in OwnPCs => hand[c] # None
  BY Zenon DEF IInv, TypeOK, Control
<1> USE <1>0 DEF Unmoved, Exec, OwnPCs, CurPCs, FreePCs
<1>1. CASE reschedule(c)
  BY Zenon, <1>1 DEF reschedule, pop
<1>2. CASE enter_idle(c)
  BY Zenon, <1>2 DEF enter_idle
<1>3. CASE idle_pop(c)
  BY Zenon, <1>3 DEF idle_pop, pop
<1>4. CASE enter_user(c)
  BY Zenon, <1>4 DEF enter_user
<1>5. CASE yield_push(c)
  BY Zenon, <1>5 DEF yield_push, push_at
<1>6. CASE begin_block(c)
  BY Zenon, <1>6 DEF begin_block
<1>7. CASE enqueue(c)
  BY Zenon, <1>7 DEF enqueue, push_at
<1>8. CASE release_owner_for_exit(c)
  BY Zenon, <1>8 DEF release_owner_for_exit
<1>9. CASE request_wake(c)
  BY <1>9 DEF request_wake
<1>10. CASE wake_push(c)
  BY Zenon, <1>10 DEF wake_push, push_at
<1>11. CASE kick_idle_cores(c)
  BY Zenon, <1>11 DEF kick_idle_cores
<1>12. CASE woken(c)
  BY Zenon, <1>12 DEF woken
<1>13. CASE tick_account(c)
  BY Zenon, <1>13 DEF tick_account
<1>14. CASE register(c)
  BY Zenon, <1>14 DEF register
<1>15. CASE spawn(c)
  BY Zenon, <1>15 DEF spawn
<1>16. CASE signal(c)
  BY Zenon, <1>16 DEF signal
<1>17. CASE yield_or_exit(c)
  BY Zenon, <1>17 DEF yield_or_exit
<1>18. CASE timer_irq(c)
  BY Zenon, <1>18 DEF timer_irq
<1>19. CASE resched_irq(c)
  BY Zenon, <1>19 DEF resched_irq
<1>21. CASE sleep_queue_panic(c)
  BY Zenon, <1>21 DEF sleep_queue_panic
<1>20. ASSUME NEW from \in {"yield", "blocking", "exit"},
             NEW to \in {"release", "finish", "disown"}, detach_current(c, from, to)
       PROVE  Unmoved
  BY Zenon, <1>20 DEF detach_current
<1> QED  BY ZenonT(30), <1>1, <1>2, <1>3, <1>4, <1>5, <1>6, <1>7, <1>8, <1>9, <1>10,
            <1>11, <1>12, <1>13, <1>14, <1>15, <1>16, <1>17, <1>18, <1>19, <1>20, <1>21

LEMMA ClaimStarts ==
    ASSUME IInv, NEW c \in Cpu, claim_runnable(c)
    PROVE  Starts(c, hand[c]) /\ state[hand[c]] = "Runnable" /\ hand[c] \in Pid
<1>1. hand[c] \in Pid /\ current[c] = None /\ pc[c] = "dispatch"
  BY Zenon DEF IInv, TypeOK, Control, claim_runnable, At, FreePCs, HandPCs
<1>2. state[hand[c]] = "Runnable"
  BY Zenon, <1>1 DEF IInv, RunqueueToken, Held, HandPCs
<1>3. /\ state' = [state EXCEPT ![hand[c]] = "Running"]
      /\ pc' = [pc EXCEPT ![c] = "claimed"] /\ UNCHANGED <<hand, current>>
  BY Zenon, <1>2 DEF claim_runnable, Goto
<1> QED  BY Zenon, <1>1, <1>2, <1>3 DEF Starts, Exec, OwnPCs, IInv, TypeOK

LEMMA LeaveStops ==
    ASSUME IInv, NEW c \in Cpu, release_running(c) \/ finish_block(c) \/ bury(c)
    PROVE  Stops(c, hand[c]) /\ state[hand[c]] = "Running" /\ hand[c] \in Pid
<1>1. pc[c] \in {"release", "finish", "bury"}
  BY Zenon DEF release_running, finish_block, bury, At
<1>2. /\ hand[c] \in Pid /\ current[c] = None /\ state[hand[c]] = "Running"
  BY <1>1 DEF IInv, TypeOK, Control, Ownership, FreePCs, OwnPCs, LeavePCs
<1>3. /\ \E s \in {"Runnable", "Blocked", "Dead"} :
            state' = [state EXCEPT ![hand[c]] = s]
      /\ \E l \in {"push", "requeue", "pick", "wake"} : pc' = [pc EXCEPT ![c] = l]
      /\ hand' = hand \/ hand' = [hand EXCEPT ![c] = None]
      /\ current' = current
  BY Zenon, <1>2 DEF release_running, finish_block, bury, Goto, Take
<1> QED  BY <1>1, <1>2, <1>3 DEF Stops, Exec, OwnPCs, IInv, TypeOK

LEMMA RunningHasCpuStep ==
    ASSUME IInv, RunningHasCpu, [Next]_vars
    PROVE  RunningHasCpu'
<1>1. CASE UNCHANGED vars
  BY Zenon, <1>1 DEF vars, table, locals, RunningHasCpu, Exec
<1>2. ASSUME NEW c \in Cpu, kernel(c) \/ user(c) \/ timer_irq(c) \/ resched_irq(c)
                           \/ sleep_queue_panic(c)
      PROVE  RunningHasCpu'
  <2>1. CASE claim_runnable(c)
    BY Zenon, <2>1, ClaimStarts, CpuFrame
  <2>2. CASE release_running(c) \/ finish_block(c) \/ bury(c)
    BY Zenon, <2>2, LeaveStops, CpuFrame
  <2>3. CASE Unmoved
    BY Zenon, <2>3 DEF Unmoved, RunningHasCpu
  <2> QED  BY Zenon, <1>2, <2>1, <2>2, <2>3, UnmovedSteps DEF kernel, user
<1> QED  BY Zenon, <1>1, <1>2 DEF Next, halted

LEMMA InitRunningHasCpu == Init => RunningHasCpu
BY Zenon DEF Init, RunningHasCpu

-----------------------------------------------------------------------------
(* The refinement mapping, case by case.                                   *)
Registered(p) == p \in waiters \/ sleep[p] # 0

StatusCases ==
    \A p \in Pid :
        /\ state[p] = "Free" => Status(p) = "absent"
        /\ state[p] = "Dead" => Status(p) = "dead"
        /\ state[p] = "Runnable" => Status(p) = "ready"
        /\ Registered(p) => state[p] \in {"Blocked", "Running"} /\ Status(p) = "waiting"
        /\ Signalled(p) => state[p] \in {"Blocked", "Running"} /\ Status(p) = "ready"
        /\ state[p] = "Running" /\ ~Registered(p) /\ ~Signalled(p) => Status(p) = "running"
        /\ state[p] = "Blocked" => Registered(p) \/ Signalled(p)
        /\ ~(Registered(p) /\ Signalled(p))
        /\ state[p] \in States

LEMMA StatusValue == IInv => StatusCases
<1> SUFFICES ASSUME IInv, NEW p \in Pid PROVE StatusCases!(p)
  BY Zenon DEF StatusCases
<1>1. /\ Waits(p) <=> Registered(p) \/ Signalled(p)
      /\ ~(Registered(p) /\ Signalled(p))
  BY Zenon DEF IInv, WakePlaces, Registered, Signalled, Due
<1>2. /\ state[p] \in States /\ (sleep[p] > 0 <=> sleep[p] # 0)
  BY DEF IInv, TypeOK
<1>3. Waits(p) => state[p] \in {"Blocked", "Running"}
  BY Zenon, WindowFacts
<1>4. state[p] = "Blocked" => Waits(p)
  BY Zenon DEF Waits
<1>5. /\ state[p] = "Free" => Status(p) = "absent"
      /\ state[p] = "Dead" => Status(p) = "dead"
  BY Zenon, <1>1, <1>2, <1>3 DEF Status, Registered
<1>6. Registered(p) => Status(p) = "waiting"
  BY Zenon, <1>1, <1>2, <1>3 DEF Status, Registered
<1>7. Signalled(p) \/ state[p] = "Runnable" => Status(p) = "ready"
  BY Zenon, <1>1, <1>2, <1>3 DEF Status, Registered
<1>8. state[p] = "Running" /\ ~Registered(p) /\ ~Signalled(p) => Status(p) = "running"
  BY Zenon, <1>1, <1>2, <1>3 DEF Status, Registered
<1> QED  BY SMTT(30), <1>1, <1>2, <1>3, <1>4, <1>5, <1>6, <1>7, <1>8

St == [p \in Pid |-> Status(p)]

(* A CPU that executes nothing leaves room for one more running process.   *)
SpareCpu ==
    \A c \in Cpu : Exec(c) = None =>
        Cardinality({p \in Pid : St[p] = "running"}) < Cardinality(Cpu)

(* A step that changes no table state and no wait structure, and a wakeup  *)
(* that moves on without being taken, are invisible to the contract.       *)
LEMMA SameStatus ==
    ASSUME StatusCases, StatusCases',
           \A q \in Pid : /\ Registered(q)' <=> Registered(q)
                          /\ \/ state'[q] = state[q] /\ (Signalled(q)' <=> Signalled(q))
                             \/ Signalled(q) /\ (Signalled(q)' \/ state'[q] = "Runnable")
                             \/ Registered(q)
    PROVE  St' = St
<1>1. ASSUME NEW q \in Pid PROVE Status(q)' = Status(q)
  BY DEF StatusCases, States
<1> QED  BY Zenon, <1>1 DEF St

LEMMA InvisibleSteps ==
    ASSUME IInv, IInv', NEW c \in Cpu,
           \/ reschedule(c) \/ enter_idle(c) \/ idle_pop(c) \/ enter_user(c)
           \/ detach_current(c, "yield", "release") \/ detach_current(c, "blocking", "finish")
           \/ detach_current(c, "exit", "disown") \/ yield_push(c)
           \/ begin_block(c) \/ enqueue(c) \/ release_owner_for_exit(c)
           \/ wake_push(c) \/ kick_idle_cores(c) \/ woken(c) \/ tick_account(c)
           \/ yield_or_exit(c) \/ resched_irq(c) \/ sleep_queue_panic(c)
    PROVE  St' = St
<1>1. UNCHANGED <<state, pending, waiters, sleep, due>>
  BY Zenon DEF reschedule, enter_idle, idle_pop, enter_user, detach_current, yield_push,
         begin_block, enqueue, release_owner_for_exit, wake_push, kick_idle_cores,
         woken, tick_account, yield_or_exit, resched_irq, sleep_queue_panic, table, waits
<1> QED  BY <1>1 DEF St, Status, Signalled

LEMMA NoWaitFacts ==
    ASSUME IInv, NEW c \in Cpu, NEW p \in Pid, state[p] = "Running",
           owner[p] # c => owner[p] = None,
           pc[c] \notin {"registered", "blocking", "finish"}
    PROVE  ~Registered(p) /\ ~Signalled(p)
<1>1. ~Waits(p)
  BY Zenon, WindowFacts, NoneAssumption DEF Waits, InWindow
<1> QED  BY Zenon, <1>1, NoLatch DEF Registered, Signalled, Due

LEMMA ClaimRuns ==
    ASSUME IInv, IInv', SpareCpu, NEW c \in Cpu, claim_runnable(c)
    PROVE  \E p \in Pid : Contract!Run(p)
<1> DEFINE p == hand[c]
<1>1. p \in Pid /\ state[p] = "Runnable" /\ Exec(c) = None
  BY Zenon, ClaimStarts DEF Starts
<1>2. /\ state' = [state EXCEPT ![p] = "Running"]
      /\ pending' = [pending EXCEPT ![p] = FALSE]
      /\ UNCHANGED <<waiters, sleep, due>>
  BY Zenon, <1>1 DEF claim_runnable, waits
<1>3. StatusCases /\ (IInv' => StatusCases')
  BY StatusValue, PTL
<1> HIDE DEF p
<1>4. ~Registered(p) /\ ~Signalled(p)
  BY Zenon, <1>1, <1>3 DEF StatusCases
<1>5. ASSUME NEW q \in Pid
      PROVE  /\ Registered(q)' <=> Registered(q)
             /\ Signalled(q)' <=> Signalled(q) /\ q # p
             /\ q # p => state'[q] = state[q]
             /\ state'[p] = "Running"
  BY <1>1, <1>2, <1>4 DEF Registered, Signalled, IInv, TypeOK
<1>6. ASSUME NEW q \in Pid
      PROVE  Status(q)' = IF q = p THEN "running" ELSE Status(q)
  BY Zenon, <1>1, <1>3, <1>4, <1>5 DEF StatusCases, States
<1>7. St' = [St EXCEPT ![p] = "running"] /\ St[p] = "ready"
  BY Zenon, <1>1, <1>3, <1>6 DEF St, StatusCases
<1>8. Cardinality({q \in Pid : St[q] = "running"}) < Cardinality(Cpu)
  BY Zenon, <1>1 DEF SpareCpu
<1>9. ASSUME NEW S PROVE Contract!Cardinality(S) = Cardinality(S)
  BY Zenon DEF Contract!Cardinality, Contract!IsFiniteSet, Cardinality, IsFiniteSet
<1>10. Contract!Run(p)
  BY Zenon, <1>7, <1>8, <1>9 DEF Contract!Run, Contract!Move, Contract!Running, St
<1> QED  BY Zenon, <1>1, <1>10

LEMMA ReleasePreempts ==
    ASSUME IInv, IInv', NEW c \in Cpu, release_running(c)
    PROVE  \E p \in Pid : Contract!Preempt(p)
<1> DEFINE p == hand[c]
<1>1. p \in Pid /\ state[p] = "Running" /\ pc[c] = "release" /\ owner[p] = c
  BY Zenon, LeaveStops DEF release_running, At, IInv, Ownership, LeavePCs
<1>2. /\ state' = [state EXCEPT ![p] = "Runnable"]
      /\ pending' = [pending EXCEPT ![p] = FALSE]
      /\ UNCHANGED <<waiters, sleep, due>>
  BY Zenon, <1>1 DEF release_running, waits
<1>3. StatusCases /\ StatusCases'
  BY StatusValue, PTL
<1>4. ~Registered(p) /\ ~Signalled(p)
  BY Zenon, <1>1, NoWaitFacts
<1> HIDE DEF p
<1>5. ASSUME NEW q \in Pid
      PROVE  /\ Registered(q)' <=> Registered(q)
             /\ q # p => state'[q] = state[q] /\ (Signalled(q)' <=> Signalled(q))
             /\ state'[p] = "Runnable"
  BY Zenon, <1>1, <1>2, <1>4 DEF Registered, Signalled, IInv, TypeOK
<1>6. ASSUME NEW q \in Pid
      PROVE  Status(q)' = IF q = p THEN "ready" ELSE Status(q)
  BY <1>1, <1>3, <1>4, <1>5 DEF StatusCases, States
<1>7. St' = [St EXCEPT ![p] = "ready"] /\ St[p] = "running"
  BY Zenon, <1>1, <1>3, <1>4, <1>6 DEF St, StatusCases
<1>8. Contract!Preempt(p)
  BY Zenon, <1>7 DEF Contract!Preempt, Contract!Move, St
<1> QED  BY Zenon, <1>1, <1>8

LEMMA RegisterWaits ==
    ASSUME IInv, IInv', NEW c \in Cpu, register(c)
    PROVE  \E p \in Pid : Contract!Wait(p)
<1> DEFINE p == current[c]
<1>1. /\ pc[c] = "user" /\ p \in Pid /\ state[p] = "Running" /\ owner[p] = c
  BY DEF register, At, IInv, TypeOK, Control, CurPCs, Ownership
<1>2. ~Registered(p) /\ ~Signalled(p)
  BY Zenon, <1>1, NoWaitFacts
<1>3. UNCHANGED <<state, pending, due>>
  BY Zenon DEF register, table
<1>4. \A q \in Pid : Registered(q)' <=> Registered(q) \/ q = p
  <2>1. CASE waiters' = waiters \cup {p} /\ sleep' = sleep
    BY Zenon, <1>1, <2>1 DEF Registered
  <2>2. ASSUME NEW n \in 1 .. MaxSleep, sleep' = [sleep EXCEPT ![p] = n], waiters' = waiters
        PROVE  \A q \in Pid : Registered(q)' <=> Registered(q) \/ q = p
    <3>1. n # 0 /\ sleep \in [Pid -> 0 .. MaxSleep]
      BY TicksAssumption DEF IInv, TypeOK
    <3> QED  BY Zenon, <1>1, <2>2, <3>1 DEF Registered
  <2> QED  BY Zenon, <2>1, <2>2 DEF register
<1>5. StatusCases /\ StatusCases'
  BY StatusValue, PTL
<1> HIDE DEF p
<1>6. ASSUME NEW q \in Pid
      PROVE  Status(q)' = IF q = p THEN "waiting" ELSE Status(q)
  <2>1. Signalled(q)' <=> Signalled(q)
    BY Zenon, <1>3 DEF Signalled
  <2> QED  BY Zenon, <1>1, <1>2, <1>3, <1>4, <1>5, <2>1 DEF StatusCases, States
<1>7. St' = [St EXCEPT ![p] = "waiting"] /\ St[p] = "running"
  BY Zenon, <1>1, <1>2, <1>5, <1>6 DEF St, StatusCases
<1>8. Contract!Wait(p)
  BY Zenon, <1>7 DEF Contract!Wait, Contract!Move, St
<1> QED  BY ZenonT(30), <1>1, <1>8

LEMMA SpawnSpawns ==
    ASSUME IInv, IInv', NEW c \in Cpu, spawn(c)
    PROVE  \E p \in Pid : Contract!Spawn(p)
<1>1. PICK p \in Pid : state[p] = "Free" /\ state' = [state EXCEPT ![p] = "Runnable"]
  BY Zenon DEF spawn
<1>2. UNCHANGED <<pending, waiters, sleep, due>>
  BY Zenon DEF spawn, waits
<1>3. StatusCases /\ StatusCases'
  BY StatusValue, PTL
<1>4. ASSUME NEW q \in Pid
      PROVE  Status(q)' = IF q = p THEN "ready" ELSE Status(q)
  <2>1. /\ Signalled(q)' <=> Signalled(q)
        /\ Registered(q)' <=> Registered(q)
        /\ state'[p] = "Runnable" /\ (q # p => state'[q] = state[q])
    BY Zenon, <1>1, <1>2 DEF Signalled, Registered, IInv, TypeOK
  <2> QED  BY Zenon, <1>1, <1>3, <2>1 DEF StatusCases, States
<1>5. St' = [St EXCEPT ![p] = "ready"] /\ St[p] = "absent"
  BY Zenon, <1>1, <1>3, <1>4 DEF St, StatusCases
<1>6. Contract!Spawn(p)
  BY Zenon, <1>5 DEF Contract!Spawn, Contract!Move, St
<1> QED  BY Zenon, <1>6

(* finish_block turns the latch into Runnable, or publishes Blocked for a  *)
(* process whose wakeup is still to come: neither is visible.              *)
LEMMA FinishInvisible ==
    ASSUME IInv, IInv', NEW c \in Cpu, finish_block(c)
    PROVE  St' = St
<1>0. PICK p : p = hand[c]
  BY Zenon
<1>1. p \in Pid /\ state[p] = "Running" /\ pc[c] = "finish"
  BY Zenon, <1>0, LeaveStops DEF finish_block, At
<1>2. /\ pending' = [pending EXCEPT ![p] = FALSE]
      /\ state' = [state EXCEPT ![p] = IF pending[p] THEN "Runnable" ELSE "Blocked"]
      /\ UNCHANGED <<waiters, sleep, due>>
  BY Zenon, <1>0 DEF finish_block, waits
<1>3. StatusCases /\ StatusCases'
  BY StatusValue, PTL
<1>4. Registered(p) \/ Signalled(p)
  <2>1. Waits(p)
    BY Zenon, <1>0, <1>1 DEF Waits, InWindow
  <2> QED  BY Zenon, <1>1, <2>1 DEF IInv, WakePlaces, Registered, Signalled, Due
<1>5. ASSUME NEW q \in Pid
      PROVE  /\ Registered(q)' <=> Registered(q)
             /\ q # p => state'[q] = state[q] /\ (Signalled(q)' <=> Signalled(q))
             /\ pending[p] => state'[p] = "Runnable"
             /\ ~pending[p] => (Signalled(p)' <=> Signalled(p))
  BY Zenon, <1>1, <1>2 DEF Registered, Signalled, IInv, TypeOK
<1>6. pending[p] => Signalled(p)
  BY Zenon DEF Signalled
<1> QED  BY Zenon, <1>3, <1>4, <1>5, <1>6, SameStatus

LEMMA RequestWakeInvisible ==
    ASSUME IInv, IInv', NEW c \in Cpu, request_wake(c)
    PROVE  St' = St
<1>1. PICK p \in due[c] :
          /\ due' = [due EXCEPT ![c] = due[c] \ {p}]
          /\ CASE state[p] = "Blocked" -> /\ state' = [state EXCEPT ![p] = "Runnable"]
                                         /\ pending' = [pending EXCEPT ![p] = FALSE]
               [] state[p] = "Running" -> /\ pending' = [pending EXCEPT ![p] = TRUE]
                                          /\ state' = state
               [] OTHER -> UNCHANGED <<state, pending>>
  BY Zenon DEF request_wake
<1>2. p \in Pid /\ Signalled(p) /\ UNCHANGED <<waiters, sleep>>
  BY Zenon DEF request_wake, waits, IInv, TypeOK, Signalled
<1>3. StatusCases /\ StatusCases'
  BY StatusValue, PTL
<1>4. state[p] \in {"Blocked", "Running"}
  BY Zenon, <1>2, <1>3 DEF StatusCases
<1>5. /\ state[p] = "Blocked" => state'[p] = "Runnable"
      /\ state[p] = "Running" => pending'[p]
  BY <1>1, <1>2 DEF IInv, TypeOK
<1>6. ASSUME NEW q \in Pid, q # p
      PROVE  state'[q] = state[q] /\ pending'[q] = pending[q]
  BY SMTT(30), <1>1, <1>2, <1>4, <1>6 DEF IInv, TypeOK
<1>7. ASSUME NEW q \in Pid, q # p PROVE Signalled(q)' <=> Signalled(q)
  BY <1>1, <1>6, <1>7 DEF Signalled, IInv, TypeOK
<1>8. \A q \in Pid : Registered(q)' <=> Registered(q)
  BY Zenon, <1>2 DEF Registered
<1>9. state'[p] = "Runnable" \/ Signalled(p)'
  BY Zenon, <1>4, <1>5 DEF Signalled
<1> QED  BY Zenon, <1>2, <1>3, <1>6, <1>7, <1>8, <1>9, SameStatus

(* Taking the processes of S out of the wait structures notifies them.     *)
LEMMA TakingNotifies ==
    ASSUME IInv, IInv', NEW c \in Cpu, NEW S \in SUBSET Pid,
           due[c] = {}, due' = [due EXCEPT ![c] = S],
           \A q \in S : Registered(q),
           \A q \in Pid : Registered(q)' <=> Registered(q) /\ q \notin S,
           pending' = pending
    PROVE  /\ S \subseteq {q \in Pid : St[q] = "waiting"}
           /\ \A q \in Pid : state'[q] = state[q] =>
                 Status(q)' = IF q \in S THEN "ready" ELSE Status(q)
<1>1. StatusCases /\ StatusCases'
  BY StatusValue, PTL
<1>2. \A q \in Pid : Signalled(q)' <=> Signalled(q) \/ q \in S
  BY DEF Signalled, IInv, TypeOK
<1> QED  BY Zenon, <1>1, <1>2 DEF StatusCases, States, St

LEMMA SignalNotifies ==
    ASSUME IInv, IInv', NEW c \in Cpu, signal(c)
    PROVE  \E S \in SUBSET Pid : Contract!Notify(S)
<1>1. PICK S \in SUBSET waiters : waiters' = waiters \ S /\ due' = [due EXCEPT ![c] = S]
  BY Zenon DEF signal
<1>2. UNCHANGED <<state, pending, sleep>> /\ due[c] = {} /\ S \in SUBSET Pid
  BY Zenon DEF signal, table, IInv, TypeOK, Control, At, WakePCs
<1>3. /\ \A q \in S : Registered(q)
      /\ \A q \in Pid : Registered(q)' <=> Registered(q) /\ q \notin S
  BY Zenon, <1>1, <1>2 DEF Registered, IInv, WakePlaces
<1>4. /\ S \subseteq {q \in Pid : St[q] = "waiting"}
      /\ \A q \in Pid : state'[q] = state[q] =>
            Status(q)' = IF q \in S THEN "ready" ELSE Status(q)
  BY Zenon, <1>1, <1>2, <1>3, TakingNotifies
<1>5. St' = [q \in Pid |-> IF q \in S THEN "ready" ELSE St[q]]
  BY Zenon, <1>2, <1>4 DEF St
<1>6. Contract!Notify(S)
  BY Zenon, <1>4, <1>5 DEF Contract!Notify, Contract!Waiting, St
<1> QED  BY Zenon, <1>2, <1>6

LEMMA TimerNotifies ==
    ASSUME IInv, IInv', NEW c \in Cpu, timer_irq(c)
    PROVE  \E S \in SUBSET Pid : Contract!Notify(S)
<1> DEFINE S == {p \in Pid : sleep[p] = 1}
<1>1. /\ due' = [due EXCEPT ![c] = S]
      /\ sleep' = [p \in Pid |-> IF sleep[p] = 0 THEN 0 ELSE sleep[p] - 1]
      /\ UNCHANGED <<state, pending, waiters>>
  BY Zenon DEF timer_irq, table
<1>2. due[c] = {} /\ sleep \in [Pid -> 0 .. MaxSleep] /\ MaxSleep \in Nat
  BY Zenon, TicksAssumption DEF timer_irq, IInv, TypeOK, Control, WakePCs
<1>3. \A q \in Pid : sleep'[q] # 0 <=> sleep[q] # 0 /\ q \notin S
  BY <1>1, <1>2
<1>4. \A q \in S : q \in Pid /\ sleep[q] # 0 /\ q \notin waiters
  <2>1. \A q \in waiters : sleep[q] = 0
    BY Zenon DEF IInv, WakePlaces
  <2> QED
    BY <2>1
<1>5. S \in SUBSET Pid
  BY Zenon
<1> HIDE DEF S
<1>6. /\ \A q \in S : Registered(q)
      /\ \A q \in Pid : Registered(q)' <=> Registered(q) /\ q \notin S
  BY Zenon, <1>1, <1>3, <1>4 DEF Registered
<1>7. /\ S \subseteq {q \in Pid : St[q] = "waiting"}
      /\ \A q \in Pid : state'[q] = state[q] =>
            Status(q)' = IF q \in S THEN "ready" ELSE Status(q)
  BY Zenon, <1>1, <1>2, <1>5, <1>6, TakingNotifies
<1>8. St' = [q \in Pid |-> IF q \in S THEN "ready" ELSE St[q]]
  BY Zenon, <1>1, <1>7 DEF St
<1>9. Contract!Notify(S)
  BY Zenon, <1>7, <1>8 DEF Contract!Notify, Contract!Waiting, St
<1> QED  BY Zenon, <1>5, <1>9

LEMMA BuryExits ==
    ASSUME IInv, IInv', NEW c \in Cpu, bury(c)
    PROVE  \E p \in Pid, S \in SUBSET Pid : Contract!Exit(p, S)
<1>0. PICK p : p = hand[c]
  BY Zenon
<1>1. PICK S : /\ S = {} \/ \E q \in waiters : S = {q}
               /\ waiters' = waiters \ S
               /\ due' = [due EXCEPT ![c] = S]
  BY Zenon DEF bury
<1>2. p \in Pid /\ state[p] = "Running" /\ pc[c] = "bury" /\ owner[p] = None
  BY Zenon, <1>0, LeaveStops DEF bury, At, IInv, Ownership
<1>3. /\ state' = [state EXCEPT ![p] = "Dead"] /\ UNCHANGED <<pending, sleep>>
      /\ due[c] = {} /\ S \in SUBSET Pid /\ S \subseteq waiters
  <2>1. state' = [state EXCEPT ![p] = "Dead"] /\ UNCHANGED <<pending, sleep>>
    BY Zenon, <1>0 DEF bury
  <2>2. due[c] = {}
    BY Zenon, <1>2 DEF IInv, Control, WakePCs
  <2>3. S \subseteq waiters /\ waiters \subseteq Pid
    BY Zenon, <1>1 DEF IInv, TypeOK
  <2> QED  BY Zenon, <2>1, <2>2, <2>3
<1>4. ~Registered(p) /\ ~Signalled(p)
  BY Zenon, <1>2, NoWaitFacts
<1>5. /\ \A q \in S : Registered(q)
      /\ \A q \in Pid : Registered(q)' <=> Registered(q) /\ q \notin S
  BY Zenon, <1>1, <1>3 DEF Registered, IInv, WakePlaces
<1>6. /\ S \subseteq {q \in Pid : St[q] = "waiting"}
      /\ \A q \in Pid : state'[q] = state[q] =>
            Status(q)' = IF q \in S THEN "ready" ELSE Status(q)
  BY Zenon, <1>1, <1>3, <1>5, TakingNotifies
<1>7. StatusCases /\ StatusCases'
  BY StatusValue, PTL
<1>8. \A q \in Pid : (q # p => state'[q] = state[q]) /\ state'[p] = "Dead"
  BY Zenon, <1>2, <1>3 DEF IInv, TypeOK
<1>9. St[p] = "running" /\ Status(p)' = "dead"
  BY Zenon, <1>2, <1>4, <1>7, <1>8 DEF StatusCases, St
<1>10. St' = [q \in Pid |-> IF q = p THEN "dead" ELSE IF q \in S THEN "ready" ELSE St[q]]
  BY Zenon, <1>6, <1>8, <1>9 DEF St
<1>11. Contract!Exit(p, S)
  BY Zenon, <1>6, <1>9, <1>10 DEF Contract!Exit, Contract!Waiting, St
<1> QED  BY Zenon, <1>2, <1>3, <1>11

LEMMA Simulation ==
    ASSUME IInv, IInv', SpareCpu, [Next]_vars
    PROVE  Contract!Next \/ St' = St
<1>1. CASE UNCHANGED vars
  BY <1>1 DEF vars, table, waits, locals, St, Status, Signalled
<1>2. ASSUME NEW c \in Cpu, kernel(c) \/ user(c) \/ timer_irq(c) \/ resched_irq(c)
                           \/ sleep_queue_panic(c)
      PROVE  Contract!Next \/ St' = St
  <2>1. CASE claim_runnable(c)
    BY Zenon, <2>1, ClaimRuns DEF Contract!Next
  <2>2. CASE release_running(c)
    BY Zenon, <2>2, ReleasePreempts DEF Contract!Next
  <2>3. CASE register(c)
    BY Zenon, <2>3, RegisterWaits DEF Contract!Next
  <2>4. CASE spawn(c)
    BY Zenon, <2>4, SpawnSpawns DEF Contract!Next
  <2>5. CASE signal(c) \/ timer_irq(c)
    BY Zenon, <2>5, SignalNotifies, TimerNotifies DEF Contract!Next
  <2>6. CASE bury(c)
    BY Zenon, <2>6, BuryExits DEF Contract!Next
  <2>7. CASE finish_block(c) \/ request_wake(c)
    BY Zenon, <2>7, FinishInvisible, RequestWakeInvisible
  <2> QED  BY Zenon, <1>2, <2>1, <2>2, <2>3, <2>4, <2>5, <2>6, <2>7, InvisibleSteps DEF kernel, user
<1> QED  BY Zenon, <1>1, <1>2 DEF Next, halted

-----------------------------------------------------------------------------

LEMMA NextIInv == IInv /\ [Next]_vars => IInv'
<1> SUFFICES ASSUME IInv, [Next]_vars PROVE IInv'
  BY Zenon
<1>1. CASE UNCHANGED vars
  BY Zenon, <1>1, StutterStep
<1>2. ASSUME NEW c \in Cpu, kernel(c) PROVE IInv'
  BY SMTT(30), <1>2, RescheduleStep, EnterIdleStep, IdlePopStep, ClaimRunnableStep, EnterUserStep,
     DetachCurrentStep, ReleaseRunningStep, YieldPushStep, BeginBlockStep,
     FinishBlockStep, EnqueueStep, ReleaseOwnerStep, BuryStep, RequestWakeStep,
     WakePushStep, KickStep, WokenStep, TickAccountStep
     DEF kernel
<1>3. ASSUME NEW c \in Cpu, user(c) PROVE IInv'
  BY Zenon, <1>3, RegisterStep, SpawnStep, SignalStep, YieldOrExitStep DEF user
<1> QED  BY Zenon, <1>1, <1>2, <1>3, TimerIrqStep, ReschedIrqStep, PanicStep DEF Next, halted

(* The inductive invariant holds in every reachable state.                 *)
THEOREM Invariance == Spec => []IInv
BY InitIInv, NextIInv, PTL DEF Spec

(* Every variable keeps its type: no level leaves 0 .. MLFQ_LEVELS - 1,    *)
(* whatever demotions, boosts and wakeups interleave.                      *)
THEOREM TypeCorrect == Spec => []TypeOK
<1>1. IInv => TypeOK
  BY Zenon DEF IInv
<1> QED  BY <1>1, Invariance, PTL

(* scheduler.rs, RunQueue: a process is in at most one queue entry, and a  *)
(* Runnable process is never lost, on any number of CPUs.                  *)
THEOREM RunqueueTokenHolds == Spec => []RunqueueToken
<1>1. IInv => RunqueueToken
  BY Zenon DEF IInv
<1> QED  BY <1>1, Invariance, PTL

(* claim_runnable and the handoffs on the scheduler stack give a process   *)
(* to one CPU at a time.                                                   *)
THEOREM ExclusiveExecutionHolds == Spec => []ExclusiveExecution
<1>1. ASSUME IInv PROVE ExclusiveExecution
  <2> SUFFICES ASSUME NEW c \in Cpu, Exec(c) # None
               PROVE  /\ state[Exec(c)] = "Running"
                      /\ \A d \in Cpu \ {c} : Exec(d) # Exec(c)
    BY Zenon DEF ExclusiveExecution
  <2>1. \A d \in Cpu : Exec(d) # None =>
            /\ state[Exec(d)] = "Running"
            /\ \/ owner[Exec(d)] = d
               \/ owner[Exec(d)] = None /\ pc[d] = "bury" /\ hand[d] = Exec(d)
    BY Zenon, <1>1 DEF IInv, Ownership, Exec, OwnPCs, LeavePCs
  <2> QED  BY SMTT(30), <1>1, <2>1, NoneAssumption DEF IInv, Ownership
<1> QED  BY <1>1, Invariance, PTL

-----------------------------------------------------------------------------
(* Counting: room in the queue, and one wakeup.                            *)

(* A CPU that is about to push finds room in every level: the queued       *)
(* processes are distinct and differ from the one in its hand.             *)
LEMMA RoomToPush ==
    ASSUME IInv, NEW c \in Cpu, pc[c] \in HandPCs, NEW l \in Levels
    PROVE  Len(runq[l]) < Cardinality(Pid)
<1> DEFINE n == Len(runq[l])
           T == Pid \ {hand[c]}
           f == [i \in 1 .. n |-> runq[l][i]]
<1>1. hand[c] \in Pid /\ ~Queued(hand[c])
  BY DEF IInv, TypeOK, Control, RunqueueToken, Held
<1>2. n \in Nat /\ \A i \in 1 .. n : runq[l][i] \in Pid
  BY DEF IInv, TypeOK
<1>3. f \in [1 .. n -> T]
  BY Zenon, <1>1, <1>2 DEF Queued
<1>4. /\ IsFiniteSet(T) /\ Cardinality(T) = Cardinality(Pid) - 1
      /\ Cardinality(Pid) \in Nat
  BY Zenon, <1>1, FiniteAssumption, FS_RemoveElement, FS_CardinalityType
<1>5. IsFiniteSet(1 .. n) /\ Cardinality(1 .. n) = n
  BY SMTT(30), <1>2, FS_Interval
<1>6. \A i, j \in 1 .. n : f[i] = f[j] => i = j
  BY DEF IInv, RunqueueToken
<1>7. ~(Cardinality(T) < n)
  <2> DEFINE S == 1 .. n
  <2>1. IsFiniteSet(S) /\ Cardinality(S) = n /\ f \in [S -> T]
    BY Zenon, <1>3, <1>5
  <2>2. \A i, j \in S : f[i] = f[j] => i = j
    BY Zenon, <1>6
  <2> HIDE DEF S, f, T, n
  <2>3. ASSUME Cardinality(T) < Cardinality(S)
        PROVE  \E i, j \in S : i # j /\ f[i] = f[j]
    BY Zenon, <1>4, <2>1, <2>3, FS_PigeonHole
  <2> QED  BY Zenon, <2>1, <2>2, <2>3
<1> HIDE DEF T, n
<1>8. n < Cardinality(Pid)
  BY SMTT(30), <1>2, <1>4, <1>7
<1> QED  BY Zenon, <1>8 DEF n

(* A CPU stands still only behind a full sleep queue: nothing else leads   *)
(* into the panic handler, and the lock it keeps freezes the queue.        *)
PanicCause == SleepQueueLocked => SleepQueueFull

LEMMA PanicCauseStep ==
    ASSUME IInv, PanicCause, [Next]_vars
    PROVE  PanicCause'
<1> DEFINE Quiet == sleep' = sleep /\ (SleepQueueLocked' => SleepQueueLocked)
<1>1. Quiet => PanicCause'
  BY Zenon DEF PanicCause, SleepQueueFull, Sleepers
<1>2. ~SleepQueueLocked' => PanicCause'
  BY Zenon DEF PanicCause
<1>3. UNCHANGED vars => Quiet
  BY Zenon DEF vars, waits, locals, SleepQueueLocked, At
<1>4. ASSUME NEW c \in Cpu, NEW l \in PCs \ {"panic"}, pc' = [pc EXCEPT ![c] = l]
      PROVE  SleepQueueLocked' => SleepQueueLocked
  BY Zenon, <1>4 DEF IInv, TypeOK, SleepQueueLocked, At
<1>5. ASSUME NEW c \in Cpu, kernel(c) \/ spawn(c) \/ signal(c) \/ yield_or_exit(c) \/ resched_irq(c)
      PROVE  Quiet
  <2> USE DEF At, Goto, PCs, waits
  <2>0. ret[c] \in {"user", "tick", "pick"}
    BY Zenon DEF IInv, TypeOK
  <2>1. CASE \/ reschedule(c) \/ enter_idle(c) \/ idle_pop(c) \/ claim_runnable(c)
             \/ enter_user(c) \/ release_running(c) \/ yield_push(c) \/ begin_block(c)
    BY Zenon, <1>4, <2>1 DEF reschedule, enter_idle, idle_pop, claim_runnable, enter_user,
                             release_running, yield_push, begin_block
  <2>2. CASE \/ finish_block(c) \/ enqueue(c) \/ release_owner_for_exit(c) \/ bury(c)
             \/ wake_push(c) \/ kick_idle_cores(c) \/ woken(c) \/ tick_account(c)
    BY Zenon, <1>4, <2>0, <2>2 DEF finish_block, enqueue, release_owner_for_exit, bury,
                             wake_push, kick_idle_cores, woken, tick_account
  <2>3. CASE request_wake(c)
    <3>1. sleep' = sleep /\ (pc' = pc \/ pc' = [pc EXCEPT ![c] = "wakepush"])
      BY <2>3 DEF request_wake
    <3> QED  BY Zenon, <1>4, <3>1 DEF SleepQueueLocked
  <2>4. CASE spawn(c) \/ signal(c) \/ yield_or_exit(c) \/ resched_irq(c)
    BY Zenon, <1>4, <2>4 DEF spawn, signal, yield_or_exit, resched_irq
  <2>5. ASSUME NEW from \in {"yield", "blocking", "exit"},
               NEW to \in {"release", "finish", "disown"}, detach_current(c, from, to)
        PROVE  Quiet
    BY Zenon, <1>4, <2>5 DEF detach_current
  <2> QED  BY Zenon, <1>5, <2>1, <2>2, <2>3, <2>4, <2>5 DEF kernel
<1>6. ASSUME NEW c \in Cpu, register(c) \/ timer_irq(c)
      PROVE  Quiet \/ ~SleepQueueLocked'
  <2>1. \E l \in PCs \ {"panic"} : pc' = [pc EXCEPT ![c] = l]
    BY Zenon, <1>6 DEF register, timer_irq, Goto, PCs
  <2> QED  BY Zenon, <1>4, <1>6, <2>1 DEF register, timer_irq
<1>7. ASSUME NEW c \in Cpu, sleep_queue_panic(c)
      PROVE  PanicCause'
  <2>1. SleepQueueFull /\ sleep' = sleep
    BY Zenon, <1>7 DEF sleep_queue_panic, PanicCause, waits
  <2> QED  BY Zenon, <2>1 DEF PanicCause, SleepQueueFull, Sleepers
<1> QED  BY Zenon, <1>1, <1>2, <1>3, <1>5, <1>6, <1>7 DEF Next, user, halted

LEMMA PanicCauseHolds == Spec => []PanicCause
<1>1. Init => PanicCause
  BY Zenon DEF Init, PanicCause, SleepQueueLocked, At
<1> QED  BY <1>1, PanicCauseStep, Invariance, PTL DEF Spec

(* The assertions of scheduler.rs and process.rs hold on any number of     *)
(* CPUs: no interleaving reaches one with its condition false, but for the *)
(* sleep queue's, and that one only with SLEEP_QUEUE_CAP sleepers.         *)
THEOREM KernelAssertsHold == Spec => []KernelAsserts
<1>1. ASSUME IInv, PanicCause PROVE KernelAsserts
  <2> SUFFICES ASSUME NEW c \in Cpu PROVE KernelAsserts!(c)
    BY Zenon DEF KernelAsserts
  <2>0. KernelAsserts!(c)!1
    BY Zenon, <1>1 DEF PanicCause, SleepQueueLocked
  <2>1. KernelAsserts!(c)!2
    BY SMTT(30), <1>1, NoneAssumption DEF IInv, TypeOK, Control, HandPCs, Ownership, At
  <2>2. KernelAsserts!(c)!3
    BY SMTT(30), <1>1 DEF IInv, Control, CurPCs, Ownership
  <2>3. KernelAsserts!(c)!4 /\ KernelAsserts!(c)!5
    BY SMTT(30), <1>1 DEF IInv, Ownership, LeavePCs, At
  <2>4. KernelAsserts!(c)!6
    BY <1>1 DEF IInv, TypeOK, Ownership
  <2>5. KernelAsserts!(c)!7
    BY Zenon, <1>1, RoomToPush DEF HandPCs
  <2> QED  BY SMTT(30), <2>0, <2>1, <2>2, <2>3, <2>4, <2>5
<1> QED  BY <1>1, Invariance, PanicCauseHolds, PTL

(* block_current, wake and on_tick_consume neither lose nor duplicate a    *)
(* wakeup: a waiting process has exactly one to come, any other none.      *)
THEOREM WakeTokenHolds == Spec => []WakeToken
<1>1. ASSUME IInv, NEW p \in Pid
      PROVE  /\ Due(p) => Cardinality({c \in Cpu : p \in due[c]}) = 1
             /\ ~Due(p) => Cardinality({c \in Cpu : p \in due[c]}) = 0
  <2>1. CASE ~Due(p)
    <3>1. {c \in Cpu : p \in due[c]} = {}
      BY Zenon, <2>1 DEF Due
    <3> QED  BY Zenon, <2>1, <3>1, FS_EmptySet
  <2>2. CASE Due(p)
    <3>1. PICK c \in Cpu : p \in due[c]
      BY Zenon, <2>2 DEF Due
    <3>2. {d \in Cpu : p \in due[d]} = {c}
      BY Zenon, <1>1, <3>1 DEF IInv, WakePlaces
    <3> QED  BY Zenon, <2>2, <3>2, FS_Singleton
  <2> QED  BY Zenon, <2>1, <2>2
<1>2. ASSUME IInv PROVE WakeToken
  <2> SUFFICES ASSUME NEW p \in Pid PROVE WakeToken!(p)
    BY Zenon DEF WakeToken
  <2>1. sleep[p] \in Nat /\ (sleep[p] > 0 <=> sleep[p] # 0)
    BY <1>2 DEF IInv, TypeOK
  <2> DEFINE N == Cardinality({c \in Cpu : p \in due[c]})
  <2>2. (Due(p) => N = 1) /\ (~Due(p) => N = 0)
    BY Zenon, <1>1, <1>2
  <2>3. /\ p \in waiters => sleep[p] = 0 /\ ~pending[p] /\ ~Due(p)
        /\ sleep[p] # 0 => ~pending[p] /\ ~Due(p)
        /\ pending[p] => ~Due(p)
        /\ Waits(p) <=> (p \in waiters \/ sleep[p] # 0 \/ pending[p] \/ Due(p))
    BY Zenon, <1>2 DEF IInv, WakePlaces
  <2> HIDE DEF N
  <2>4. (IF p \in waiters THEN 1 ELSE 0) + (IF sleep[p] > 0 THEN 1 ELSE 0)
          + (IF pending[p] THEN 1 ELSE 0) + N = (IF Waits(p) THEN 1 ELSE 0)
    <3>1. CASE Due(p)
      BY SMTT(30), <2>1, <2>2, <2>3, <3>1
    <3>2. CASE ~Due(p)
      BY SMTT(30), <2>1, <2>2, <2>3, <3>2
    <3> QED  BY Zenon, <3>1, <3>2
  <2> QED  BY Zenon, <2>4 DEF N
<1> QED  BY <1>2, Invariance, PTL

(* The running processes are on different CPUs, so a CPU that executes     *)
(* nothing leaves room for one more.                                       *)
LEMMA RoomToRun ==
    ASSUME IInv, RunningHasCpu
    PROVE  SpareCpu
<1> SUFFICES ASSUME NEW c \in Cpu, Exec(c) = None
             PROVE  Cardinality({p \in Pid : St[p] = "running"}) < Cardinality(Cpu)
  BY Zenon DEF SpareCpu
<1> DEFINE R == {p \in Pid : St[p] = "running"}
           T == Cpu \ {c}
           f == [p \in R |-> CHOOSE d \in Cpu : Exec(d) = p]
<1>1. \A p \in R : p \in Pid /\ state[p] = "Running"
  BY Zenon, StatusValue DEF St, StatusCases, States
<1>2. \A p \in R : f[p] \in Cpu /\ Exec(f[p]) = p
  BY Zenon, <1>1 DEF RunningHasCpu
<1>3. \A p \in R : f[p] \in T
  BY Zenon, <1>1, <1>2, NoneAssumption
<1>4. f \in [R -> T]
  BY Zenon, <1>3
<1>5. IsFiniteSet(T) /\ Cardinality(T) = Cardinality(Cpu) - 1 /\ Cardinality(Cpu) \in Nat
  BY Zenon, FiniteAssumption, FS_RemoveElement, FS_CardinalityType
<1>6. IsFiniteSet(R) /\ Cardinality(R) \in Nat
  <2>1. R \in SUBSET Pid
    BY Zenon
  <2> HIDE DEF R
  <2> QED  BY Zenon, <2>1, FiniteAssumption, FS_Subset, FS_CardinalityType
<1>7. \A p, q \in R : f[p] = f[q] => p = q
  BY Zenon, <1>2
<1> HIDE DEF R, T, f
<1>8. ~(Cardinality(T) < Cardinality(R))
  BY SMTT(30), <1>4, <1>5, <1>6, <1>7, FS_PigeonHole
<1>9. Cardinality(R) < Cardinality(Cpu)
  BY <1>5, <1>6, <1>8
<1> QED  BY Zenon, <1>9 DEF R

(* The scheduler implements ProcessContract: whatever the CPUs interleave, *)
(* registering to wait acts as one atomic step, taking a registration out  *)
(* as another, and no more processes run than there are CPUs.              *)
THEOREM Refinement == Spec => ImplementsContract
<1>1. Init => Contract!Init
  <2> SUFFICES ASSUME Init PROVE St = [p \in Pid |-> IF p \in Booted THEN "ready" ELSE "absent"]
    BY Zenon DEF Contract!Init, St
  <2>1. StatusCases
    BY Zenon, InitIInv, StatusValue
  <2>2. ASSUME NEW p \in Pid PROVE Status(p) = IF p \in Booted THEN "ready" ELSE "absent"
    BY Zenon, <2>1 DEF StatusCases, Init
  <2> QED  BY Zenon, <2>2 DEF St
<1>2. IInv /\ RunningHasCpu /\ [Next]_vars => (IInv /\ RunningHasCpu)'
  BY Zenon, NextIInv, RunningHasCpuStep
<1>3. IInv /\ IInv' /\ RunningHasCpu /\ [Next]_vars => [Contract!Next]_St
  BY Zenon, Simulation, RoomToRun
<1>4. Init => IInv /\ RunningHasCpu
  BY Zenon, InitIInv, InitRunningHasCpu
<1>5. ImplementsContract <=> Contract!Init /\ [][Contract!Next]_St
  BY Zenon DEF ImplementsContract, Contract!Spec, St
<1> QED  BY <1>1, <1>2, <1>3, <1>4, <1>5, PTL DEF Spec
=============================================================================
