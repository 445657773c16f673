-------------------------------- MODULE Smp --------------------------------
(***************************************************************************)
(* Processor bring-up and the floating-point context of processes:         *)
(* arch/aarch64/smp.rs (PSCI CPU_ON, the online count, MULTI_CORE) and     *)
(* arch/aarch64.rs (the exception entry stub, restore_context, the state a *)
(* secondary installs for itself).  Any processing element may take a step *)
(* at any time.  Which runnable process a CPU picks is the scheduler's     *)
(* business; here every choice is possible.                                *)
(***************************************************************************)
EXTENDS Integers, Sequences, FiniteSets

CONSTANTS
  Mpidr,       \* the processing elements of any machine: <<aff3, aff2, aff1, aff0>>
  MAX_CPUS,    \* smp.rs MAX_CPUS, smaller
  Slot,        \* process slots 1 .. n: TRAP_FRAMES
  MaxFp,       \* values a process may leave in its FP registers are 1 .. MaxFp
  SmpMixes     \* the machines: [boot, present, madt, uefi, fids, deny, slow, launch, ops,
               \*   fp, traps, ...]

VARIABLES
  spc,         \* where kernel_main on the boot PE is
  topo,        \* boot_secondaries: MPIDRs still to be tried
  logical,     \* boot_secondaries: the next logical CPU number
  requested,   \* CPU_ON calls that firmware accepted
  online,      \* ONLINE
  multi_core,  \* MULTI_CORE
  eager,       \* FPU_EAGER_SMP
  pes,         \* PE -> [st, cpu, fpen, mode, slot]
  live,        \* PE -> its FP registers
  frames,      \* slot -> TrapFrame.fpu
  own,         \* slot -> what its process last left in its registers
  runq,        \* runnable slots
  sbudget, smix

fpVars == <<live, frames, own>>
bootVars == <<spc, topo, logical, requested>>
smpVars == <<spc, topo, logical, requested, online, multi_core, eager, pes, live, frames, own,
             runq, sbudget, smix>>

Free == -2     \* own[s] of a slot without a process
Junk == -1     \* registers the kernel has used
Clean == 0     \* FpuState::new()

On(p) == pes[p].st = "online"

-----------------------------------------------------------------------------
(* The boot PE: boot_secondaries. *)

\* Firmware's answer to CPU_ON; it starts the PE in the secondary entry.
psci_cpu_on_call(fid, m) ==
  CASE fid \notin smix.fids -> "NOT_SUPPORTED"
    [] fid \in smix.fids /\ m \notin smix.present -> "INVALID_PARAMS"
    [] fid \in smix.fids /\ m \in smix.present /\ m \in smix.deny -> "DENIED"
    [] OTHER -> IF pes[m].st = "off" THEN "SUCCESS" ELSE "ALREADY_ON"

\* The 32-bit call only after an explicit refusal of the 64-bit one.
psci_cpu_on(m) ==
  IF psci_cpu_on_call(64, m) = "NOT_SUPPORTED" THEN psci_cpu_on_call(32, m)
  ELSE psci_cpu_on_call(64, m)

legacy_mpidr_candidates(c) == <<<<0, 0, 0, c>>, <<0, 0, c, 0>>, <<0, c, 0, 0>>, <<c, 0, 0, 0>>>>

\* The MADT's CPUs, or those of the UEFI handoff when the MADT has at most one.
Topology ==
  IF Len(smix.madt) <= 1 /\ Len(smix.uefi) > Len(smix.madt) THEN smix.uefi ELSE smix.madt
Legacy == Len(Topology) <= 1

boot_secondaries ==
  /\ spc = "start"
  /\ multi_core' = TRUE /\ eager' = TRUE
  /\ pes' = [pes EXCEPT ![smix.boot].fpen = 3]
  /\ topo' = IF Legacy THEN legacy_mpidr_candidates(1)
             ELSE SelectSeq(Topology, LAMBDA m : m # smix.boot)
  /\ spc' = "on"
  /\ UNCHANGED <<logical, requested, online, fpVars, runq, sbudget, smix>>

\* A refused MPIDR is skipped and its logical number given to the next one; an
\* accepted legacy candidate moves on to the next CPU's candidates.
CpuOn ==
  /\ spc = "on"
  /\ IF topo = <<>> \/ logical >= MAX_CPUS
       THEN spc' = "wait" /\ UNCHANGED <<topo, logical, requested, pes>>
       ELSE LET m == Head(topo)
                raw == psci_cpu_on(m)
                ok == raw = "SUCCESS"
            IN /\ pes' = IF ok THEN [pes EXCEPT ![m].st = "entry", ![m].cpu = logical] ELSE pes
               /\ topo' = CASE raw = "NOT_SUPPORTED" -> <<>>
                            [] ok /\ Legacy -> legacy_mpidr_candidates(logical + 1)
                            [] OTHER -> Tail(topo)
               /\ logical' = IF ok THEN logical + 1 ELSE logical
               /\ requested' = IF ok THEN requested + 1 ELSE requested
               /\ UNCHANGED spc
  /\ UNCHANGED <<online, multi_core, eager, fpVars, runq, sbudget, smix>>

Min2(a, b) == IF a < b THEN a ELSE b

\* The bounded wait ends when all accepted CPUs are online; on a slow machine it
\* may end before.
AwaitOnline ==
  /\ spc = "wait"
  /\ requested = 0 \/ online >= Min2(1 + requested, MAX_CPUS) \/ smix.slow
  /\ multi_core' = (online > 1)
  /\ spc' = IF online > 1 THEN "test" ELSE "launch"
  /\ UNCHANGED <<topo, logical, requested, online, eager, pes, fpVars, runq, sbudget, smix>>

\* launch_core and the console: the first processes become runnable, the boot PE
\* enters the scheduler.
Launch ==
  /\ spc = "launch"
  /\ own' = [s \in Slot |-> IF s \in smix.launch THEN Clean ELSE Free]
  /\ frames' = [s \in Slot |-> Clean]
  /\ runq' = smix.launch
  /\ spc' = "run"
  /\ UNCHANGED <<topo, logical, requested, online, multi_core, eager, pes, live, sbudget, smix>>

-----------------------------------------------------------------------------
(* A secondary PE. *)

\* Vectors, translation regime and CPACR are the PE's own: FPEN = 0b11.
init_secondary_local_state(pe) == [pe EXCEPT !.fpen = 3]

\* The trampoline: logical number, stack and idle frame from CPU_ON's context.
__secondary_entry(p) ==
  /\ pes[p].st = "entry"
  /\ pes' = [pes EXCEPT ![p] = [init_secondary_local_state(@) EXCEPT !.st = "iface"]]
  /\ UNCHANGED <<bootVars, online, multi_core, eager, fpVars, runq, sbudget, smix>>

\* Its GIC interface and its first tick; then it counts itself and schedules.
smp_secondary_main(p) ==
  /\ pes[p].st = "iface"
  /\ pes' = [pes EXCEPT ![p].st = "online"]
  /\ online' = online + 1
  /\ UNCHANGED <<bootVars, multi_core, eager, fpVars, runq, sbudget, smix>>

-----------------------------------------------------------------------------
(* Exceptions and context switches. *)


\* The entry stub's FP half.  FPU_DIRTY is NONE since fpu_freeze_none, so without
\* the eager mode nothing is saved.
SaveFp(p) == frames' = IF eager THEN [frames EXCEPT ![pes[p].slot] = live[p]] ELSE frames

\* The kernel is built with NEON: what it leaves in the registers is its own.
SAVE_TRAP_AND_CALL(p) ==
  /\ pes[p].mode = "user" /\ sbudget.traps > 0
  /\ SaveFp(p)
  /\ \E v \in {live[p], Junk} : live' = [live EXCEPT ![p] = v]
  /\ pes' = [pes EXCEPT ![p].mode = "kernel"]
  /\ sbudget' = [sbudget EXCEPT !.traps = @ - 1]
  /\ UNCHANGED <<bootVars, online, multi_core, eager, own, runq, smix>>

\* The FP half of restore_context: a full load in multi-core mode, none otherwise.
LoadFp(p, s) == live' = IF multi_core THEN [live EXCEPT ![p] = frames[s]] ELSE live

restore_context(p) ==
  /\ pes[p].mode = "kernel"
  /\ LoadFp(p, pes[p].slot)
  /\ pes' = [pes EXCEPT ![p].mode = "user"]
  /\ UNCHANGED <<bootVars, online, multi_core, eager, frames, own, runq, sbudget, smix>>

Scheduling(p) == On(p) /\ (p = smix.boot => spc = "run")

\* dispatch: claim a runnable process and enter it.
dispatch(p, s) ==
  /\ Scheduling(p) /\ pes[p].mode = "idle" /\ s \in runq
  /\ LoadFp(p, s)
  /\ pes' = [pes EXCEPT ![p].mode = "user", ![p].slot = s]
  /\ runq' = runq \ {s}
  /\ UNCHANGED <<bootVars, online, multi_core, eager, frames, own, sbudget, smix>>

Idle(p) == pes' = [pes EXCEPT ![p].mode = "idle", ![p].slot = 0]

yield_current(p) ==
  /\ pes[p].mode = "kernel"
  /\ Idle(p) /\ runq' = runq \cup {pes[p].slot}
  /\ UNCHANGED <<bootVars, online, multi_core, eager, fpVars, sbudget, smix>>

Op(o) == o \in smix.ops

\* The slot is free for the next process; its frame and the registers stay.
exit_current(p) ==
  /\ pes[p].mode = "kernel" /\ Op("exit")
  /\ Idle(p) /\ own' = [own EXCEPT ![pes[p].slot] = Free]
  /\ UNCHANGED <<bootVars, online, multi_core, eager, live, frames, runq, sbudget, smix>>

\* exec: a clean FP state for the new image.
apply_exec_frame(p) ==
  /\ pes[p].mode = "kernel" /\ Op("exec")
  /\ frames' = [frames EXCEPT ![pes[p].slot] = Clean]
  /\ own' = [own EXCEPT ![pes[p].slot] = Clean]
  /\ UNCHANGED <<bootVars, online, multi_core, eager, pes, live, runq, sbudget, smix>>

NewProcess(c, v) ==
  /\ own[c] = Free
  /\ frames' = [frames EXCEPT ![c] = v] /\ own' = [own EXCEPT ![c] = v]
  /\ runq' = runq \cup {c}

\* fork: the child starts from the parent's frame.
fork(p, c) ==
  /\ pes[p].mode = "kernel" /\ Op("fork")
  /\ own[c] = Free
  /\ frames' = [frames EXCEPT ![c] = frames[pes[p].slot]]
  /\ own' = [own EXCEPT ![c] = own[pes[p].slot]]
  /\ runq' = runq \cup {c}
  /\ UNCHANGED <<bootVars, online, multi_core, eager, pes, live, sbudget, smix>>

\* spawn and CreateThread: init_user and init_thread start from FpuState::new().
init_user(p, c) ==
  /\ pes[p].mode = "kernel" /\ Op("spawn")
  /\ NewProcess(c, Clean)
  /\ UNCHANGED <<bootVars, online, multi_core, eager, pes, live, sbudget, smix>>

\* A process computes: FPEN = 0b11, so no trap.
Compute(p, v) ==
  /\ pes[p].mode = "user" /\ pes[p].fpen = 3 /\ sbudget.fp > 0
  /\ live' = [live EXCEPT ![p] = v]
  /\ own' = [own EXCEPT ![pes[p].slot] = v]
  /\ sbudget' = [sbudget EXCEPT !.fp = @ - 1]
  /\ UNCHANGED <<bootVars, online, multi_core, eager, pes, frames, runq, smix>>

-----------------------------------------------------------------------------

NewPe(m, b) ==
  [st |-> IF m = b THEN "online" ELSE "off", cpu |-> 0, fpen |-> 1, mode |-> "idle", slot |-> 0]

SmpInit ==
  /\ smix \in SmpMixes
  /\ spc = "start" /\ topo = <<>> /\ logical = 1 /\ requested = 0
  /\ online = 1 /\ multi_core = FALSE /\ eager = FALSE
  /\ pes = [m \in Mpidr |-> NewPe(m, smix.boot)]
  /\ live = [m \in Mpidr |-> Junk]
  /\ frames = [s \in Slot |-> Clean] /\ own = [s \in Slot |-> Free]
  /\ runq = {}
  /\ sbudget = [fp |-> smix.fp, traps |-> smix.traps]

SmpTypeOK ==
  /\ spc \in {"start", "on", "wait", "test", "launch", "run"}
  /\ topo \in Seq(Mpidr \cup UNION {{legacy_mpidr_candidates(c)[i] : i \in 1 .. 4} : c \in 1 .. MAX_CPUS})
  /\ logical \in 1 .. MAX_CPUS /\ requested \in 0 .. MAX_CPUS - 1
  /\ online \in 1 .. MAX_CPUS /\ multi_core \in BOOLEAN /\ eager \in BOOLEAN
  /\ pes \in [Mpidr -> [st : {"off", "entry", "iface", "online"}, cpu : 0 .. MAX_CPUS - 1,
                        fpen : {1, 3}, mode : {"idle", "user", "kernel"}, slot : {0} \cup Slot]]
  /\ live \in [Mpidr -> Junk .. MaxFp]
  /\ frames \in [Slot -> Junk .. MaxFp] /\ own \in [Slot -> Free .. MaxFp]
  /\ runq \subseteq Slot

\* A process that runs finds in the floating-point registers what it left there,
\* whichever CPU it runs on, whoever ran in between and whatever the kernel did
\* with the registers; a new image starts from a clean state, a forked child
\* from its parent's (process.rs:39-44; aarch64.rs:114-119).  That is so while
\* MULTI_CORE is on: with one CPU, or secondaries that come up after the wait,
\* the registers are neither loaded nor trapped.
FpPreserved ==
  \A p \in Mpidr : pes[p].mode = "user" => live[p] = own[pes[p].slot]
=============================================================================
