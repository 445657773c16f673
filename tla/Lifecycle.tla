------------------------------ MODULE Lifecycle ------------------------------
(***************************************************************************)
(* Process creation, exit, reaping and waitpid: the table half of          *)
(* process.rs.  The table has slots that are reused; pids are not.  A      *)
(* step is one PROCESS_TABLE critical section together with the lock-free  *)
(* work that follows it on the same CPU; a path with several critical      *)
(* sections (exit, full_reap) keeps its locals in `act` of the CPU that    *)
(* runs it, and the other CPUs interleave.  Blocking in waitpid and waking *)
(* are atomic here, as Scheduler is shown to implement ProcessContract.    *)
(* 0 is None for a parent, a space or a pid.                               *)
(***************************************************************************)
EXTENDS Integers, Sequences, FiniteSetsExt

CONSTANTS
    Cpu,             \* the CPUs
    MAX_PROCESSES,   \* slots of the process table
    MaxPid,          \* bound: the last pid alloc_pid hands out
    MaxSpace         \* bound: address spaces ever created

ASSUME LifecycleAssumption ==
    /\ MAX_PROCESSES \in Nat \ {0, 1}
    /\ MaxPid \in Nat /\ MaxPid >= 3
    /\ MaxSpace \in Nat /\ MaxSpace >= 2

VARIABLES
    table,      \* PROCESS_TABLE
    next_pid,   \* NEXT_PID
    spaces,     \* number of address spaces built so far; they are 1..spaces
    destroyed,  \* the spaces AddressSpace::destroy ran on
    act,        \* for each CPU, the locals of the exit or reap it is in
    delivered,  \* how often the exit result of a pid reached a parent
    ledger,     \* removed pids whose security and shm hooks have not run
    vanished,   \* <<pid, parent>> of processes that left through svc #2
    mistaken    \* full_reap removed a record other than the one it meant

vars == <<table, next_pid, spaces, destroyed, act, delivered, ledger, vanished, mistaken>>

Slot == 0 .. MAX_PROCESSES - 1
INIT_PID == 2
SHELL_PID == 3
Pid == INIT_PID .. MaxPid
None == 0
NotWaiting == -1
AnyChild == 0

(* ProcessRecord, reduced to what exit and wait read.  Runnable, Running   *)
(* and every other blocked state are "Live"; "Waiting" is blocked in       *)
(* waitpid; "Stray" is Runnable but never enqueued.                        *)
Record == [pid : Pid, parent : Pid \cup {None}, tgid : Pid,
           state : {"Live", "Waiting", "Zombie", "Stray"}, adopted : BOOLEAN,
           space : 0 .. MaxSpace, wait : Pid \cup {NotWaiting, AnyChild}]

Hole == [pid |-> None, parent |-> None, tgid |-> None, state |-> "Hole",
         adopted |-> FALSE, space |-> None, wait |-> NotWaiting]

NewRecord(pid, parent, tgid, space, state) ==
    [pid |-> pid, parent |-> parent, tgid |-> tgid, state |-> state,
     adopted |-> FALSE, space |-> space, wait |-> NotWaiting]

Idle == [step |-> "idle", slot |-> 0, parent |-> None, rec |-> Hole,
         stack |-> <<>>, casc |-> {}]

Acts == [step : {"idle", "handoff", "wake", "reap", "release"}, slot : Slot,
         parent : Pid \cup {None}, rec : Record \cup {Hole},
         stack : Seq(Slot), casc : SUBSET (1 .. MaxSpace)]

(* launchd and a shell without a parent, as the service registry starts    *)
(* them.                                                                   *)
Init ==
    /\ table = [s \in Slot |->
                  CASE s = 0 -> NewRecord(INIT_PID, None, INIT_PID, 1, "Live")
                    [] s = 1 -> NewRecord(SHELL_PID, None, SHELL_PID, 2, "Live")
                    [] OTHER -> Hole]
    /\ next_pid = SHELL_PID + 1
    /\ spaces = 2
    /\ destroyed = {}
    /\ act = [c \in Cpu |-> Idle]
    /\ delivered = [p \in Pid |-> 0]
    /\ ledger = {}
    /\ vanished = {}
    /\ mistaken = FALSE

-----------------------------------------------------------------------------
(* Reading the table.                                                      *)

(* The record of the exiting process stays in the table, Running, until    *)
(* its CPU removes it.                                                     *)
Leaving(pid) == \E c \in Cpu : act[c].step # "idle" /\ act[c].rec.pid = pid

(* A process that may make a system call: it is alive and a CPU is free    *)
(* to run it.                                                              *)
CanCall(s) ==
    /\ table[s].state = "Live"
    /\ ~Leaving(table[s].pid)
    /\ \E c \in Cpu : act[c] = Idle

alloc_table_slot(tbl) ==
    LET holes == {s \in Slot : tbl[s] = Hole} IN IF holes = {} THEN {} ELSE {Min(holes)}

SlotsOf(tbl, pid) == {s \in Slot : tbl[s] # Hole /\ tbl[s].pid = pid}

group_survivors(tbl, rec) ==
    {s \in Slot : tbl[s] # Hole /\ tbl[s].tgid = rec.tgid /\ tbl[s].pid # rec.pid
                    /\ tbl[s].space = None}

(* The table after the space of rec went to its first surviving member.    *)
transfer_group_space(tbl, rec) ==
    LET heirs == group_survivors(tbl, rec)
    IN  IF rec.space = None \/ heirs = {}
        THEN tbl ELSE [tbl EXCEPT ![Min(heirs)].space = rec.space]

(* What transfer_group_space_locked hands back for the caller to destroy.  *)
untransferred(tbl, rec) == IF group_survivors(tbl, rec) = {} THEN rec.space ELSE None

address_space(s) ==
    LET rec == table[s]
        carriers == {k \in Slot : table[k].tgid = rec.tgid /\ table[k].space # None}
    IN  IF rec.space # None THEN rec.space
        ELSE IF rec.tgid = rec.pid \/ carriers = {} THEN None
        ELSE table[Min(carriers)].space

wait_wake_decision(wait, dying) == wait # NotWaiting /\ wait \in {AnyChild, dying}

ParentAlive(rec) == \E s \in SlotsOf(table, rec.parent) : table[s].state # "Zombie"

BecomesZombie(rec) == ~rec.adopted /\ rec.parent # None /\ ParentAlive(rec)

(* Mutant: an absent space is destroyed too.                               *)
destroy_unchecked(freed) == destroyed' = destroyed \cup freed

Destroy(freed) == destroyed' = destroyed \cup (freed \ {None})

-----------------------------------------------------------------------------
(* Creation.                                                               *)

HasPid == next_pid <= MaxPid

(* A new record in the first hole; when the table is full the pid is lost  *)
(* and so is the space that was built for it.                              *)
Insert(parent, tgid, space, state) ==
    /\ HasPid
    /\ next_pid' = next_pid + 1
    /\ table' = IF alloc_table_slot(table) = {} THEN table
                ELSE [table EXCEPT ![Min(alloc_table_slot(table))] =
                        NewRecord(next_pid, parent, tgid, space, state)]

NewSpace == /\ spaces < MaxSpace
            /\ spaces' = spaces + 1

Quiet == UNCHANGED <<destroyed, act, delivered, ledger, vanished, mistaken>>

(* fork: the child gets a copy of the space the caller's own record holds, *)
(* none when the caller is a thread that is not the carrier.               *)
fork(s) ==
    /\ CanCall(s) /\ table[s].pid # INIT_PID
    /\ IF table[s].space = None THEN UNCHANGED spaces ELSE NewSpace
    /\ Insert(table[s].pid, next_pid, IF table[s].space = None THEN None ELSE spaces', "Live")
    /\ Quiet

create_thread(s) ==
    /\ CanCall(s) /\ table[s].pid # INIT_PID
    /\ address_space(s) # None
    /\ Insert(table[s].pid, table[s].tgid, None, "Live")
    /\ UNCHANGED spaces /\ Quiet

(* SpawnImage makes the new process a child of the caller, SpawnService    *)
(* (and boot) leaves it without a parent.                                  *)
spawn_user(s, parent) ==
    /\ CanCall(s)
    /\ NewSpace
    /\ Insert(parent, next_pid, spaces', "Live")
    /\ Quiet

spawn_user_from_image(s) == table[s].pid # INIT_PID /\ spawn_user(s, table[s].pid)

spawn_user_from_bootfs(s) == table[s].pid = INIT_PID /\ spawn_user(s, None)

(* The `?` operators between spawn() and configure_user_process return     *)
(* from the function: the record stays behind, Runnable and never queued.  *)
spawn_user_fails(s) ==
    /\ CanCall(s)
    /\ alloc_table_slot(table) # {}
    /\ NewSpace
    /\ Insert(None, next_pid, None, "Stray")
    /\ Quiet

(* exec_load: only a carrier; the new space replaces the old one, which is *)
(* destroyed.                                                              *)
exec_load(s) ==
    /\ CanCall(s) /\ table[s].pid # INIT_PID
    /\ table[s].space # None
    /\ NewSpace
    /\ table' = [table EXCEPT ![s].space = spaces']
    /\ Destroy({table[s].space})
    /\ UNCHANGED <<next_pid, act, delivered, ledger, vanished, mistaken>>

-----------------------------------------------------------------------------
(* waitpid_step.                                                           *)

Matching(pid, target) ==
    {k \in Slot : table[k] # Hole /\ table[k].parent = pid /\ target \in {AnyChild, table[k].pid}}

ZombiesOf(pid, target) == {k \in Matching(pid, target) : table[k].state = "Zombie"}

(* Collect: the first zombie by slot number is removed; hooks run.         *)
waitpid_collect(s, target) ==
    /\ CanCall(s) /\ table[s].pid # INIT_PID
    /\ ZombiesOf(table[s].pid, target) # {}
    /\ LET z == Min(ZombiesOf(table[s].pid, target))
       IN  /\ table' = [table EXCEPT ![z] = Hole]
           /\ delivered' = [delivered EXCEPT ![table[z].pid] = @ + 1]
           /\ Destroy({table[z].space})
    /\ UNCHANGED <<next_pid, spaces, act, ledger, vanished, mistaken>>

(* Mutant: registers without looking for a zombie first.                   *)
block_by_pid_only(s, target) ==
    /\ CanCall(s) /\ table[s].pid # INIT_PID
    /\ Matching(table[s].pid, target) # {}
    /\ table' = [table EXCEPT ![s].wait = target, ![s].state = "Waiting"]
    /\ UNCHANGED <<next_pid, spaces, destroyed, act, delivered, ledger, vanished, mistaken>>

(* Sleep: no zombie but a living child; registered and blocked at once.    *)
waitpid_block(s, target) ==
    /\ CanCall(s) /\ table[s].pid # INIT_PID
    /\ ZombiesOf(table[s].pid, target) = {}
    /\ Matching(table[s].pid, target) # {}
    /\ table' = [table EXCEPT ![s].wait = target, ![s].state = "Waiting"]
    /\ UNCHANGED <<next_pid, spaces, destroyed, act, delivered, ledger, vanished, mistaken>>

-----------------------------------------------------------------------------
(* Exit.                                                                   *)

(* The single critical section of exit for a process whose parent lives:   *)
(* zombify, hand the space over, take a matching registration of the       *)
(* parent.                                                                 *)
exit_zombie(c, s) ==
    LET rec == table[s]
        pv  == Min(SlotsOf(table, rec.parent))
        hit == wait_wake_decision(table[pv].wait, rec.pid)
        dead == [table EXCEPT ![s].state = "Zombie", ![s].space = None]
        moved == transfer_group_space(dead, rec)
    IN  /\ table' = IF hit THEN [moved EXCEPT ![pv].wait = NotWaiting] ELSE moved
        /\ act' = [act EXCEPT ![c] =
             [Idle EXCEPT !.step = "handoff", !.slot = s,
                          !.parent = IF hit THEN rec.parent ELSE None,
                          !.rec = [rec EXCEPT !.space = untransferred(dead, rec)]]]

(* The same section for one without: its space goes to a survivor, its     *)
(* record is put back for full_reap.  addr_space was taken out of the      *)
(* record, so without a survivor the space goes with the local variable:   *)
(* nobody owns it and nobody destroys it.                                  *)
exit_reap(c, s) ==
    LET rec == table[s]
        kept == [rec EXCEPT !.space = None]
    IN  /\ table' = [transfer_group_space(table, rec) EXCEPT ![s] = kept]
        /\ act' = [act EXCEPT ![c] =
             [Idle EXCEPT !.step = "reap", !.rec = kept, !.stack = <<s>>]]

exit_current_with_status(c, s) ==
    /\ act[c] = Idle
    /\ CanCall(s) /\ table[s].pid # INIT_PID
    /\ IF BecomesZombie(table[s]) THEN exit_zombie(c, s) ELSE exit_reap(c, s)
    /\ UNCHANGED <<next_pid, spaces, destroyed, delivered, ledger, vanished, mistaken>>

(* Mutant: the delivered record stays a zombie.                            *)
deliver_keeps_record(c) ==
    /\ act[c].step = "handoff"
    /\ Destroy({act[c].rec.space})
    /\ IF act[c].parent # None
       THEN /\ delivered' = [delivered EXCEPT ![act[c].rec.pid] = @ + 1]
            /\ act' = [act EXCEPT ![c] = [Idle EXCEPT !.step = "wake", !.parent = act[c].parent]]
       ELSE /\ act' = [act EXCEPT ![c] = Idle]
            /\ UNCHANGED delivered
    /\ UNCHANGED <<table, ledger, next_pid, spaces, vanished, mistaken>>

(* The result is written to the parent's frame and the record removed      *)
(* before the parent is woken.                                             *)
deliver(c) ==
    /\ act[c].step = "handoff"
    /\ Destroy({act[c].rec.space})
    /\ IF act[c].parent # None
       THEN /\ delivered' = [delivered EXCEPT ![act[c].rec.pid] = @ + 1]
            /\ table' = [table EXCEPT ![act[c].slot] = Hole]
            /\ ledger' = ledger \cup {act[c].rec.pid}
            /\ act' = [act EXCEPT ![c] = [Idle EXCEPT !.step = "wake", !.parent = act[c].parent]]
       ELSE /\ act' = [act EXCEPT ![c] = Idle]
            /\ UNCHANGED <<delivered, table, ledger>>
    /\ UNCHANGED <<next_pid, spaces, vanished, mistaken>>

wake(c) ==
    /\ act[c].step = "wake"
    /\ table' = [s \in Slot |-> IF table[s] # Hole /\ table[s].pid = act[c].parent
                                   /\ table[s].state = "Waiting"
                                THEN [table[s] EXCEPT !.state = "Live"] ELSE table[s]]
    /\ act' = [act EXCEPT ![c] = Idle]
    /\ UNCHANGED <<next_pid, spaces, destroyed, delivered, ledger, vanished, mistaken>>

(* svc #2: no exit code, no zombie, no look at the parent.                 *)
exit_current(c, s) ==
    /\ act[c] = Idle
    /\ CanCall(s) /\ table[s].pid # INIT_PID
    /\ act' = [act EXCEPT ![c] =
         [Idle EXCEPT !.step = "reap", !.rec = table[s], !.stack = <<s>>]]
    /\ vanished' = vanished \cup {<<table[s].pid, table[s].parent>>}
    /\ UNCHANGED <<table, next_pid, spaces, destroyed, delivered, ledger, mistaken>>

-----------------------------------------------------------------------------
(* full_reap, one turn of its loop in two critical sections.               *)

Top(c) == act[c].stack[Len(act[c].stack)]
Popped(c) == SubSeq(act[c].stack, 1, Len(act[c].stack) - 1)

(* The stack has MAX_PROCESSES places; a slot that finds no place is       *)
(* dropped.                                                                *)
Capped(stack) == SubSeq(stack, 1, Min({Len(stack), MAX_PROCESSES}))

(* The one sequence of the slots in S by slot number.                      *)
InSlotOrder(S) ==
    {q \in [1 .. Cardinality(S) -> S] : \A i, j \in DOMAIN q : i < j => q[i] < q[j]}

(* Where the loop goes with this stack.                                    *)
Resume(stack) == IF stack = <<>> THEN Idle ELSE [Idle EXCEPT !.step = "reap", !.stack = stack]

reap_empty(c) ==
    /\ act[c].step = "reap"
    /\ table[Top(c)] = Hole
    /\ act' = [act EXCEPT ![c] = Resume(Popped(c))]
    /\ UNCHANGED <<table, next_pid, spaces, destroyed, delivered, ledger, vanished, mistaken>>

(* orphan_action over the whole table: living children are adopted by      *)
(* init, zombie children are removed and pushed.                           *)
adopt_and_cascade(tbl, dying) ==
    [s \in Slot |->
        CASE tbl[s] # Hole /\ tbl[s].parent = dying /\ tbl[s].state = "Zombie" -> Hole
          [] tbl[s] # Hole /\ tbl[s].parent = dying /\ tbl[s].state # "Zombie" ->
               [tbl[s] EXCEPT !.parent = INIT_PID, !.adopted = TRUE]
          [] OTHER -> tbl[s]]

reap_take(c) ==
    LET s     == Top(c)
        rec   == table[s]
        rest  == [table EXCEPT ![s] = Hole]
        casc  == {k \in Slot : rest[k] # Hole /\ adopt_and_cascade(rest, rec.pid)[k] = Hole}
    IN  /\ act[c].step = "reap"
        /\ rec # Hole
        /\ table' = adopt_and_cascade(rest, rec.pid)
        /\ ledger' = ledger \cup {rec.pid} \cup {rest[k].pid : k \in casc}
        /\ mistaken' = (mistaken \/ rec.pid # act[c].rec.pid)
        /\ \E pushed \in InSlotOrder(casc) :
             act' = [act EXCEPT ![c] =
               [Idle EXCEPT !.step = "release", !.rec = rec,
                            !.stack = Capped(Popped(c) \o pushed),
                            !.casc = {rest[k].space : k \in casc} \ {None}]]
        /\ UNCHANGED <<next_pid, spaces, destroyed, delivered, vanished>>

(* Mutant: the space is destroyed although a member took it over.          *)
reap_destroys(c) ==
    /\ act[c].step = "release"
    /\ ledger' = ledger \ {act[c].rec.pid}
    /\ table' = transfer_group_space(table, act[c].rec)
    /\ Destroy({act[c].rec.space} \cup act[c].casc)
    /\ act' = [act EXCEPT ![c] = Resume(act[c].stack)]
    /\ UNCHANGED <<next_pid, spaces, delivered, vanished, mistaken>>

(* Hooks, then the second critical section: hand the space over or destroy *)
(* it, with the spaces of the cascaded records.                            *)
reap_release(c) ==
    /\ act[c].step = "release"
    /\ ledger' = ledger \ {act[c].rec.pid}
    /\ table' = transfer_group_space(table, act[c].rec)
    /\ Destroy({untransferred(table, act[c].rec)} \cup act[c].casc)
    /\ act' = [act EXCEPT ![c] = Resume(act[c].stack)]
    /\ UNCHANGED <<next_pid, spaces, delivered, vanished, mistaken>>

-----------------------------------------------------------------------------
Calls(s) ==
    \/ fork(s)
    \/ create_thread(s)
    \/ spawn_user_from_image(s)
    \/ spawn_user_from_bootfs(s)
    \/ spawn_user_fails(s)
    \/ exec_load(s)
    \/ \E target \in Pid \cup {AnyChild} : waitpid_collect(s, target) \/ waitpid_block(s, target)
    \/ \E c \in Cpu : exit_current_with_status(c, s) \/ exit_current(c, s)

Next ==
    \/ \E s \in Slot : Calls(s)
    \/ \E c \in Cpu : deliver(c) \/ wake(c) \/ reap_empty(c) \/ reap_take(c) \/ reap_release(c)

Spec == Init /\ [][Next]_vars

-----------------------------------------------------------------------------
(* Records are well formed and every pid has at most one.                  *)
TypeOK ==
    /\ table \in [Slot -> Record \cup {Hole}]
    /\ \A s, t \in Slot : table[s] # Hole /\ table[s].pid = table[t].pid => s = t
    /\ next_pid \in SHELL_PID + 1 .. MaxPid + 1
    /\ spaces \in 0 .. MaxSpace
    /\ destroyed \subseteq 1 .. spaces
    /\ act \in [Cpu -> Acts]
    /\ \A c \in Cpu : Len(act[c].stack) <= MAX_PROCESSES
    /\ delivered \in [Pid -> Nat]
    /\ ledger \subseteq Pid
    /\ vanished \subseteq Pid \X (Pid \cup {None})
    /\ mistaken \in BOOLEAN

(* The exit result of a process reaches a parent at most once, and while a *)
(* zombie record exists nobody has received its result (waitpid_step's     *)
(* Collect and the delivery at exit consume the record).                   *)
ResultOnce ==
    ~mistaken =>
      /\ \A p \in Pid : delivered[p] <= 1
      /\ \A s \in Slot : table[s].state = "Zombie" => delivered[table[s].pid] = 0

(* A process blocked in waitpid can still be woken: a child its            *)
(* registration covers has not exited yet, or an exiting child took the    *)
(* registration and is on its way to wake it.  svc #2 is the exception: it *)
(* removes a child without looking at its parent.                          *)
WaiterHasChild ==
    ~mistaken =>
      \A s \in Slot : table[s].state = "Waiting" =>
        IF table[s].wait = NotWaiting
        THEN \E c \in Cpu : act[c].step \in {"handoff", "wake"} /\ act[c].parent = table[s].pid
        ELSE \/ \E k \in Matching(table[s].pid, table[s].wait) : table[k].state # "Zombie"
             \/ \E v \in vanished : v[2] = table[s].pid /\ table[s].wait \in {AnyChild, v[1]}

(* An address space never has two owners: one record, or one CPU about to  *)
(* destroy it, and none once it is destroyed (transfer_group_space_locked, *)
(* rebind_address_space, full_reap).  One that has none and is not         *)
(* destroyed has leaked: the table was full, spawn failed half-way, or a   *)
(* process without a living parent called Exit (exit_reap).                *)
Owners(x) ==
    {<<"slot", s>> : s \in {t \in Slot : table[t].space = x}}
      \cup {<<"cpu", c>> : c \in {d \in Cpu :
              \/ act[d].step \in {"handoff", "release"} /\ act[d].rec.space = x
              \/ x \in act[d].casc}}

SpaceOnce ==
    \A x \in 1 .. spaces : Cardinality(Owners(x)) <= (IF x \in destroyed THEN 0 ELSE 1)

(* A zombie holds no address space: "不变量：addr_space 已在 zombify 时清空"  *)
(* (waitpid_step), "addr_space 正常已在 zombify 时清空" (full_reap).          *)
ZombieHoldsNoSpace == \A s \in Slot : table[s].state = "Zombie" => table[s].space = None

(* A zombie's parent is in the table, so somebody can still collect it or  *)
(* take it along: the corpses of a dead process are cascaded, "留着只会占槽".  *)
ZombieCollectable ==
    \A s \in Slot : table[s].state = "Zombie" => SlotsOf(table, table[s].parent) # {}

(* A removed record has had its hooks run, or its CPU is about to run      *)
(* them: "记录摘除 ⇒ 台账清理".                                               *)
GoneCleaned == \A p \in ledger : \E c \in Cpu : act[c].step = "release" /\ act[c].rec.pid = p

(* full_reap finds the slots of cascaded zombies empty and skips them      *)
(* ("槽已空则幂等跳过"): it never removes another record.                      *)
NoStaleReap == ~mistaken
=============================================================================
