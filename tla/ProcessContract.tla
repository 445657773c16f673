--------------------------- MODULE ProcessContract ---------------------------
(***************************************************************************)
(* What the scheduler promises to the rest of the kernel, without queues,  *)
(* locks, stacks or CPUs: a process that waits becomes ready exactly when  *)
(* it is notified, a ready process runs, and no more processes run than    *)
(* there are CPUs.  Waiting and notifying are atomic here; in              *)
(* microkernel/src/scheduler.rs they take several steps on several CPUs.   *)
(***************************************************************************)
EXTENDS Naturals, FiniteSets

CONSTANTS Pid, Booted, MaxRunning

VARIABLE status

Running == {p \in Pid : status[p] = "running"}
Waiting == {p \in Pid : status[p] = "waiting"}

Init == status = [p \in Pid |-> IF p \in Booted THEN "ready" ELSE "absent"]

Move(p, from, to) == status[p] = from /\ status' = [status EXCEPT ![p] = to]

Spawn(p) == Move(p, "absent", "ready")
Run(p) == Cardinality(Running) < MaxRunning /\ Move(p, "ready", "running")
Preempt(p) == Move(p, "running", "ready")
Wait(p) == Move(p, "running", "waiting")

(* Any set of waiting processes is notified at once: a tick may end the    *)
(* sleep of several processes, a futex wake may release several waiters.   *)
Notify(S) ==
    /\ S \subseteq Waiting
    /\ status' = [p \in Pid |-> IF p \in S THEN "ready" ELSE status[p]]

(* The exit of p may notify a parent that waits for it.                    *)
Exit(p, S) ==
    /\ status[p] = "running"
    /\ S \subseteq Waiting
    /\ status' = [q \in Pid |-> IF q = p THEN "dead"
                                ELSE IF q \in S THEN "ready" ELSE status[q]]

Next ==
    \/ \E p \in Pid : Spawn(p) \/ Run(p) \/ Preempt(p) \/ Wait(p)
    \/ \E S \in SUBSET Pid : Notify(S)
    \/ \E p \in Pid, S \in SUBSET Pid : Exit(p, S)

Spec == Init /\ [][Next]_status
=============================================================================
