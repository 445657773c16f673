-------------------------------- MODULE Gic --------------------------------
(***************************************************************************)
(* Interrupts: the GIC and its ITS (arch/aarch64/gic.rs, gic/its.rs), the  *)
(* per-CPU timer, MSI programming (pci.rs), the handler tables             *)
(* (drivers/irq.rs) and handle_irq (trap.rs), on the machine of Smp.  The  *)
(* hardware tables the ITS commands fill are state of their own: what a    *)
(* device's message does is read from them.  Drivers set their MSI up at   *)
(* boot on the boot PE; afterwards a driver that recovers does it again    *)
(* from whatever CPU it runs on, and two of them may do so at once.        *)
(***************************************************************************)
EXTENDS Smp

CONSTANTS
  GDev,        \* devices with MSI, numbers > 0; 0 is the affinity self-test's
  LPI_BASE,    \* first LPI
  MaxLpi       \* bound of LPI numbers handed out (LPI_BASE + PROP_SIZE)

VARIABLES
  gpc,         \* the boot PE's platform initialisation
  version,     \* VERSION; 0: not initialised
  its,         \* [ready, collections, next_lpi, maps: DEVICE_MAPS, pends: PEND_TABLES]
  hw,          \* ITS hardware: [itt: dev -> ITT, col: cpu -> PE, ev: ITT -> [lpi, cpu]]
  prop,        \* LPIs enabled in the property table
  rd,          \* PE -> [awake, ppi: timer PPI enabled, lpis, cached: LPIs it knows enabled]
  handlers,    \* HIGH_HANDLERS: LPI -> device whose driver handles it; 0: none
  job,         \* PE -> the MSI set-up it is executing
  msi,         \* device -> the LPI its driver believes it has; 0: it polls
  timer,       \* PE -> "off", "armed", "fired"
  pend,        \* PE -> interrupts pending there
  unhandled,   \* interrupts no handler was found for
  gbudget

gicVars == <<gpc, version, its, hw, prop, rd, handlers, job, msi, timer, pend, unhandled, gbudget>>
allVars == <<smpVars, gicVars>>

NoPe == <<>>
SGI_RESCHED == 0
TIMER == 30
Dev == GDev \cup {0}
Cpu == 0 .. MAX_CPUS - 1
Itt == 0 .. 2 * (MaxLpi - LPI_BASE + 1)
Unmapped == [lpi |-> 0, cpu |-> 0]

\* Smp steps are the PE's only while it is not inside a set-up.
NoJob == [pc |-> "none", dev |-> 0, kind |-> "msix", cpu |-> 0, lpi |-> 0]

-----------------------------------------------------------------------------
(* Finding a PE's redistributor. *)

\* Bits 63:56 are taken for Aff3, which is in bits 39:32: Aff3 reads as zero.
affinity32(m) == <<0, m[2], m[3], m[4]>>

find_redist(m) == IF affinity32(m) \in smix.present THEN affinity32(m) ELSE NoPe

\* Secondaries are counted in MADT order, the boot PE left out.
logical_cpu_mpidr(c) ==
  LET others == SelectSeq(smix.madt, LAMBDA m : m # smix.boot) IN
  CASE c = 0 -> smix.boot
    [] c > 0 /\ c <= Len(others) -> others[c]
    [] OTHER -> NoPe

redist_for_logical_cpu(c) ==
  IF logical_cpu_mpidr(c) = NoPe THEN NoPe ELSE find_redist(logical_cpu_mpidr(c))

boot_redist_base == IF smix.madt = <<>> THEN NoPe ELSE find_redist(Head(smix.madt))

\* init_v3_cpu: wake it, everything disabled but the timer.
init_v3_cpu(r, p) ==
  IF find_redist(p) = NoPe THEN r
  ELSE [r EXCEPT ![find_redist(p)] = [@ EXCEPT !.awake = TRUE, !.ppi = TRUE]]

EnableLpis(r, p) == [r EXCEPT ![p].lpis = TRUE]

-----------------------------------------------------------------------------
(* Platform initialisation on the boot PE. *)

is_v3 == version = 3

\* gic::init up to the ITS.  A GICv2's enable of the timer, a PPI, is banked: it
\* is the boot PE's alone.
gic_init ==
  /\ gpc = "gic"
  /\ version' = IF smix.gicr /\ ~smix.gicc THEN 3 ELSE 2
  /\ rd' = IF smix.gicr /\ ~smix.gicc THEN init_v3_cpu(rd, smix.boot)
           ELSE [rd EXCEPT ![smix.boot].ppi = TRUE]
  /\ timer' = [timer EXCEPT ![smix.boot] = "armed"]
  /\ gpc' = IF smix.gicr /\ ~smix.gicc THEN "its" ELSE "drivers"
  /\ UNCHANGED <<unhandled, its, hw, prop, handlers, job, msi, pend, gbudget, smpVars>>

\* its::init: no ITS, no redistributor, no memory or a rejected table leave it
\* unready; a command that times out leaves it ready without its self-test.
its_init ==
  /\ gpc = "its"
  /\ gpc' = "drivers"
  /\ \/ /\ ~smix.its \/ boot_redist_base = NoPe
        /\ UNCHANGED <<its, hw, rd, gbudget>>
     \/ /\ smix.its /\ boot_redist_base # NoPe /\ gbudget.faults > 0
        /\ gbudget' = [gbudget EXCEPT !.faults = @ - 1]
        /\ rd' = EnableLpis(rd, boot_redist_base)
        /\ \E ok \in BOOLEAN : its' = IF ok THEN [its EXCEPT !.ready = TRUE, !.pends = {boot_redist_base}]
                                       ELSE its
        /\ UNCHANGED hw
     \/ /\ smix.its /\ boot_redist_base # NoPe
        /\ rd' = EnableLpis(rd, boot_redist_base)
        /\ its' = [its EXCEPT !.ready = TRUE, !.pends = {boot_redist_base},
                              !.collections = {0}]
        /\ hw' = [hw EXCEPT !.col[0] = redist_for_logical_cpu(0)]
        /\ UNCHANGED gbudget
  /\ UNCHANGED <<version, unhandled, prop, handlers, job, msi, timer, pend, smpVars>>

\* The drivers of smix.drivers are initialised one after the other, then
\* boot_secondaries runs.
DriversInit ==
  /\ gpc = "drivers" /\ job[smix.boot].pc = "none"
  /\ gbudget.init \cap GDev = {}
  /\ gpc' = "ready"
  /\ UNCHANGED <<version, unhandled, its, hw, prop, rd, handlers, job, msi, timer, pend, gbudget, smpVars>>

-----------------------------------------------------------------------------
(* A secondary's interface. *)

\* init_cpu_lpi: the shared property table and a pending table of its own.
JoinsLpis(p) == its.ready /\ find_redist(p) # NoPe /\ find_redist(p) \notin its.pends
init_cpu_lpi(p) ==
  /\ rd' = IF JoinsLpis(p) THEN EnableLpis(init_v3_cpu(rd, p), find_redist(p))
           ELSE IF is_v3 THEN init_v3_cpu(rd, p) ELSE rd
  /\ its' = IF JoinsLpis(p) THEN [its EXCEPT !.pends = @ \cup {find_redist(p)}] ELSE its

\* On a GICv2 only the CPU interface: the banked enables are not touched, and the
\* ITS is not ready.
init_cpu_interface(p) == init_cpu_lpi(p)

SecondaryMain(p) ==
  /\ smp_secondary_main(p)
  /\ init_cpu_interface(p)
  /\ timer' = [timer EXCEPT ![p] = "armed"]
  /\ UNCHANGED <<gpc, unhandled, version, hw, prop, handlers, job, msi, pend, gbudget>>

-----------------------------------------------------------------------------
(* Setting an MSI up: configure_msix and configure_msi, allocate_event. *)

Step(p, pc) == job' = [job EXCEPT ![p].pc = pc]
Fails(p) == job' = [job EXCEPT ![p] = NoJob]
Fault == gbudget.faults > 0 /\ gbudget' = [gbudget EXCEPT !.faults = @ - 1]
NoFault == UNCHANGED gbudget

\* issue: one command, under STATE's lock.  A timed-out command may still be
\* executed or not; the caller gives up.
issue(p, next, executed) ==
  \/ NoFault /\ hw' = executed /\ next
  \/ Fault /\ hw' \in {executed, hw} /\ Fails(p) /\ UNCHANGED its

\* A driver at boot, the affinity self-test, or a driver that recovers in a
\* system call.
Begin(p, d) ==
  /\ job[p].pc = "none" /\ is_v3 /\ its.ready
  /\ \/ /\ gpc = "drivers" /\ p = smix.boot /\ d \in gbudget.init
        /\ gbudget' = [gbudget EXCEPT !.init = @ \ {d}]
     \/ /\ spc = "run" /\ pes[p].mode = "kernel" /\ d \in gbudget.again
        /\ gbudget' = [gbudget EXCEPT !.again = @ \ {d}]
  /\ job' = [job EXCEPT ![p] = [NoJob EXCEPT !.pc = "device", !.dev = d, !.kind = smix.kind[d]]]
  /\ msi' = [msi EXCEPT ![d] = 0]
  /\ UNCHANGED <<gpc, unhandled, version, its, hw, prop, rd, handlers, timer, pend, smpVars>>

\* Without an ITS drivers poll.
BeginPolled(p, d) ==
  /\ gpc = "drivers" /\ p = smix.boot /\ d \in gbudget.init
  /\ job[p].pc = "none" /\ ~(is_v3 /\ its.ready)
  /\ gbudget' = [gbudget EXCEPT !.init = @ \ {d}]
  /\ UNCHANGED <<gpc, unhandled, version, its, hw, prop, rd, handlers, job, msi, timer, pend, smpVars>>

affinity_self_test(p) ==
  /\ spc = "test" /\ p = smix.boot /\ job[p].pc = "none" /\ gbudget.test
  /\ is_v3 /\ its.ready
  /\ job' = [job EXCEPT ![p] = [NoJob EXCEPT !.pc = "device", !.kind = "test", !.cpu = 1]]
  /\ gbudget' = [gbudget EXCEPT !.test = FALSE]
  /\ UNCHANGED <<gpc, unhandled, version, its, hw, prop, rd, handlers, msi, timer, pend, smpVars>>

\* The self-test is over, or there is none.
EndTest ==
  /\ spc = "test" /\ job[smix.boot].pc = "none"
  /\ ~(gbudget.test /\ is_v3 /\ its.ready)
  /\ spc' = "launch"
  /\ UNCHANGED <<topo, logical, requested, online, multi_core, eager, pes, fpVars, runq, sbudget,
                 smix, gicVars>>

LeftOver(p) == UNCHANGED <<gpc, version, msi, timer, pend, unhandled, smpVars>>

\* ensure_device looks the device up; DEVICE_MAPS' lock is released before MAPD.
ensure_device(p) ==
  /\ job[p].pc = "device"
  /\ Step(p, IF job[p].dev \in its.maps THEN "collection" ELSE "mapd")
  /\ LeftOver(p) /\ UNCHANGED <<its, hw, prop, rd, handlers, gbudget>>

FreshItt == CHOOSE i \in Itt \ {0} : i \notin {hw.itt[d] : d \in Dev} /\ hw.ev[i] = Unmapped

mapd(p) ==
  /\ job[p].pc = "mapd"
  /\ issue(p, /\ Step(p, "collection")
              /\ its' = [its EXCEPT !.maps = @ \cup {job[p].dev}],
           [hw EXCEPT !.itt[job[p].dev] = FreshItt])
  /\ LeftOver(p) /\ UNCHANGED <<prop, rd, handlers>>

ensure_collection(p) ==
  /\ job[p].pc = "collection"
  /\ LET c == job[p].cpu
         target == redist_for_logical_cpu(c)
     IN \/ /\ c \in its.collections \/ target = NoPe
           /\ job' = [job EXCEPT ![p] = IF c \in its.collections THEN [@ EXCEPT !.pc = "lpi"] ELSE NoJob]
           /\ UNCHANGED <<its, hw, gbudget>>
        \/ /\ c \notin its.collections /\ target # NoPe
           /\ issue(p, Step(p, "lpi") /\ its' = [its EXCEPT !.collections = @ \cup {c}],
                    [hw EXCEPT !.col[c] = target])
  /\ LeftOver(p) /\ UNCHANGED <<prop, rd, handlers>>

\* NEXT_LPI.fetch_add, and its bound.
NextLpi(p) ==
  /\ job[p].pc = "lpi"
  /\ its' = [its EXCEPT !.next_lpi = @ + 1]
  /\ job' = IF its.next_lpi >= MaxLpi THEN [job EXCEPT ![p] = NoJob]
            ELSE [job EXCEPT ![p] = [@ EXCEPT !.pc = "mapti", !.lpi = its.next_lpi]]
  /\ LeftOver(p) /\ UNCHANGED <<hw, prop, rd, handlers, gbudget>>

\* MAPTI and INVALL: the event, in the device's ITT, becomes this LPI on this
\* collection.
mapti(p) ==
  /\ job[p].pc = "mapti"
  /\ issue(p, Step(p, "enable") /\ UNCHANGED its,
           [hw EXCEPT !.ev[hw.itt[job[p].dev]] = [lpi |-> job[p].lpi, cpu |-> job[p].cpu]])
  /\ LeftOver(p) /\ UNCHANGED <<prop, rd, handlers>>

\* enable_lpi, INVLPIR on the target's redistributor, SYNC.  A redistributor that
\* does not answer has reread the table or not.
enable_lpi(p) ==
  /\ job[p].pc = "enable"
  /\ prop' = prop \cup {job[p].lpi}
  /\ LET r == redist_for_logical_cpu(job[p].cpu)
         seen == [rd EXCEPT ![r].cached = @ \cup {job[p].lpi}]
     IN \/ /\ NoFault /\ rd' = seen
           /\ Step(p, IF job[p].kind = "msix" THEN "message" ELSE "handler")
        \/ Fault /\ rd' \in {rd, seen} /\ Fails(p)
  /\ LeftOver(p) /\ UNCHANGED <<its, hw, handlers>>

\* configure_msix_affinity: the table entry is written and the function unmasked;
\* the driver registers its handler afterwards.
configure_msix(p) ==
  /\ job[p].pc = "message" /\ job[p].kind = "msix"
  /\ Step(p, "handler")
  /\ LeftOver(p) /\ UNCHANGED <<its, hw, prop, rd, handlers, gbudget>>

\* configure_msi_affinity: the handler is registered when the message is written.
configure_msi(p) ==
  /\ job[p].pc = "message" /\ job[p].kind = "msi"
  /\ msi' = [msi EXCEPT ![job[p].dev] = job[p].lpi]
  /\ Fails(p)
  /\ UNCHANGED <<gpc, version, its, hw, prop, rd, handlers, timer, pend, unhandled, gbudget, smpVars>>

register_irq_handler(p) ==
  /\ job[p].pc = "handler"
  /\ handlers' = [handlers EXCEPT ![job[p].lpi] = job[p].dev]
  /\ prop' = prop \cup {job[p].lpi}
  /\ IF job[p].kind = "msi" THEN Step(p, "message") ELSE Fails(p)
  /\ msi' = IF job[p].kind = "msi" THEN msi ELSE [msi EXCEPT ![job[p].dev] = job[p].lpi]
  /\ UNCHANGED <<gpc, unhandled, version, its, hw, rd, timer, pend, gbudget, smpVars>>

-----------------------------------------------------------------------------
(* Interrupts. *)

\* Where a message of d goes: what the ITS and the redistributors do with it.
Translated(d) == hw.ev[hw.itt[d]]
Target(d) == hw.col[Translated(d).cpu]
Delivered(d) ==
  /\ hw.itt[d] # 0 /\ Translated(d) # Unmapped /\ Target(d) # NoPe
  /\ rd[Target(d)].lpis /\ Translated(d).lpi \in rd[Target(d)].cached

\* An MSI-X function is unmasked before its driver has registered the handler.
Unmasked(d) == msi[d] # 0 \/ \E p \in Mpidr : job[p].dev = d /\ job[p].pc = "handler" /\ job[p].kind = "msix"

Raise(d) ==
  /\ Unmasked(d) /\ gbudget.raises > 0 /\ Delivered(d)
  /\ gbudget' = [gbudget EXCEPT !.raises = @ - 1]
  /\ pend' = [pend EXCEPT ![Target(d)] = @ \cup {Translated(d).lpi}]
  /\ UNCHANGED <<gpc, unhandled, version, its, hw, prop, rd, handlers, job, msi, timer, smpVars>>

TimerFires(p) ==
  /\ timer[p] = "armed" /\ rd[p].ppi /\ gbudget.ticks > 0 /\ spc = "run"
  /\ gbudget' = [gbudget EXCEPT !.ticks = @ - 1]
  /\ timer' = [timer EXCEPT ![p] = "fired"]
  /\ pend' = [pend EXCEPT ![p] = @ \cup {TIMER}]
  /\ UNCHANGED <<gpc, unhandled, version, its, hw, prop, rd, handlers, job, msi, smpVars>>

\* The PEs a RESCHED SGI for logical CPU c reaches: a GICv2's mask names CPU
\* interfaces, taken to be Aff0.
SgiTargets(c) ==
  IF is_v3
    THEN LET m == logical_cpu_mpidr(c) IN IF m = NoPe \/ m[4] >= 16 THEN {} ELSE {m}
    ELSE {m \in smix.present : m[4] = c}

\* kick_idle_cores after a wake: every idle CPU below the online count but this.
send_resched_sgi(p) ==
  /\ pes[p].mode = "kernel" /\ multi_core /\ gbudget.kicks > 0
  /\ gbudget' = [gbudget EXCEPT !.kicks = @ - 1]
  /\ LET idle == {c \in 0 .. online - 1 : c # pes[p].cpu /\
                    \E q \in Mpidr : On(q) /\ pes[q].cpu = c /\ pes[q].mode = "idle"}
         reached == UNION {SgiTargets(c) : c \in idle}
     IN pend' = [m \in Mpidr |-> IF m \in reached THEN pend[m] \cup {SGI_RESCHED} ELSE pend[m]]
  /\ UNCHANGED <<gpc, unhandled, version, its, hw, prop, rd, handlers, job, msi, timer, smpVars>>

\* A CPU takes interrupts in user mode (the stub has saved it: mode "kernel") and
\* in idle's WFI.
Takes(p, irq) == irq \in pend[p] /\ On(p) /\ job[p].pc = "none" /\ pes[p].mode # "user"
Acked(p, irq) == pend' = [pend EXCEPT ![p] = @ \ {irq}]

\* handle_irq's timer branch: the next tick is programmed before the EOI.  Whether
\* the process yields or goes on is its next step.
timer_irq(p) ==
  /\ Takes(p, TIMER) /\ Acked(p, TIMER)
  /\ timer' = [timer EXCEPT ![p] = "armed"]
  /\ UNCHANGED <<gpc, unhandled, version, its, hw, prop, rd, handlers, job, msi, gbudget, smpVars>>

\* Its SGI branch: a running process yields, an idle CPU looks at the queue.
resched_irq(p) ==
  /\ Takes(p, SGI_RESCHED) /\ Acked(p, SGI_RESCHED)
  /\ IF pes[p].mode = "kernel" THEN yield_current(p) ELSE UNCHANGED smpVars
  /\ UNCHANGED <<gpc, unhandled, version, its, hw, prop, rd, handlers, job, msi, timer, gbudget>>

\* drivers::handle_irq: the handler of an LPI, if it has one.
handle_irq(irq) == handlers[irq] # 0

\* Its driver branch: an interrupt without a handler is counted; either way it is
\* ended and the interrupted process resumed.
device_irq(p) ==
  /\ \E irq \in pend[p] :
       /\ irq >= LPI_BASE /\ Takes(p, irq) /\ Acked(p, irq)
       /\ unhandled' = IF handle_irq(irq) THEN unhandled ELSE unhandled + 1
  /\ UNCHANGED <<gpc, version, its, hw, prop, rd, handlers, job, msi, timer, gbudget, smpVars>>

-----------------------------------------------------------------------------

GicInit ==
  /\ SmpInit
  /\ gpc = "gic" /\ version = 0
  /\ its = [ready |-> FALSE, collections |-> {}, next_lpi |-> LPI_BASE + 1, maps |-> {},
            pends |-> {}]
  /\ hw = [itt |-> [d \in Dev |-> 0], col |-> [c \in Cpu |-> NoPe],
           ev |-> [i \in Itt |-> Unmapped]]
  /\ prop = {} /\ handlers = [l \in LPI_BASE .. MaxLpi |-> 0]
  /\ rd = [m \in Mpidr |-> [awake |-> FALSE, ppi |-> FALSE, lpis |-> FALSE, cached |-> {}]]
  /\ job = [m \in Mpidr |-> NoJob] /\ msi = [d \in Dev |-> 0]
  /\ timer = [m \in Mpidr |-> "off"] /\ pend = [m \in Mpidr |-> {}]
  /\ unhandled = 0
  /\ gbudget = [faults |-> smix.faults, init |-> smix.drivers, again |-> smix.again,
                raises |-> smix.raises, ticks |-> smix.ticks, kicks |-> smix.kicks,
                test |-> smix.its]

SmpStep(p) ==
  /\ job[p].pc = "none"
  /\ \/ SAVE_TRAP_AND_CALL(p) \/ restore_context(p) \/ yield_current(p)
     \/ exit_current(p) \/ apply_exec_frame(p)
     \/ \E s \in Slot : dispatch(p, s) \/ fork(p, s) \/ init_user(p, s)
     \/ \E v \in 1 .. MaxFp : Compute(p, v)
  /\ UNCHANGED gicVars

GicNext ==
  \/ gic_init \/ its_init \/ DriversInit \/ EndTest
  \/ gpc = "ready" /\ (boot_secondaries \/ CpuOn \/ AwaitOnline \/ Launch) /\ UNCHANGED gicVars
  \/ \E p \in Mpidr :
       \/ __secondary_entry(p) /\ UNCHANGED gicVars
       \/ SecondaryMain(p) \/ SmpStep(p)
       \/ affinity_self_test(p) \/ ensure_device(p) \/ mapd(p) \/ ensure_collection(p)
       \/ NextLpi(p) \/ mapti(p) \/ enable_lpi(p) \/ configure_msix(p) \/ configure_msi(p) \/ register_irq_handler(p)
       \/ TimerFires(p) \/ send_resched_sgi(p) \/ timer_irq(p) \/ resched_irq(p) \/ device_irq(p)
       \/ \E d \in GDev : Begin(p, d) \/ BeginPolled(p, d)
  \/ \E d \in GDev : Raise(d)

GicSpec == GicInit /\ [][GicNext]_allVars

GicTypeOK ==
  /\ SmpTypeOK
  /\ gpc \in {"gic", "its", "drivers", "ready"} /\ version \in {0, 2, 3}
  /\ its.ready \in BOOLEAN /\ its.collections \subseteq Cpu /\ its.maps \subseteq Dev
  /\ its.next_lpi \in LPI_BASE + 1 .. 2 * MaxLpi /\ its.pends \subseteq Mpidr
  /\ hw \in [itt : [Dev -> Itt], col : [Cpu -> Mpidr \cup {NoPe}],
             ev : [Itt -> [lpi : {0} \cup LPI_BASE .. MaxLpi, cpu : Cpu]]]
  /\ prop \subseteq LPI_BASE .. MaxLpi
  /\ handlers \in [LPI_BASE .. MaxLpi -> Dev]
  /\ msi \in [Dev -> {0} \cup LPI_BASE .. MaxLpi]
  /\ unhandled \in Nat
  /\ timer \in [Mpidr -> {"off", "armed", "fired"}]
  /\ \A m \in Mpidr : pend[m] \subseteq {SGI_RESCHED, TIMER} \cup LPI_BASE .. MaxLpi

\* The logical number a PE got is the one the GIC code computes for it: it is in
\* the MADT and firmware refused none of those before it.  The boot PE has 0.
Numbered(p) ==
  \/ p = smix.boot
  \/ \E i \in DOMAIN smix.madt :
       /\ smix.madt[i] = p
       /\ \A j \in 1 .. i - 1 : pes[smix.madt[j]].st # "off"

\* LPIs are enabled on the redistributor of the MADT's first PE and on those of
\* the secondaries, each found by its affinity without Aff3.
HasLpis(p) ==
  Numbered(p) /\ affinity32(p) = p /\ (p = smix.boot => smix.madt # <<>> /\ Head(smix.madt) = p)

\* Every online CPU's armed timer interrupts it: "the distributor has been set up
\* once and for all by the boot CPU", the secondary just arms its first tick
\* (smp.rs:225-228).  Not so on a GICv2, where the enable is banked and only the
\* boot PE sets it, nor for a PE with a non-zero Aff3.
TimersReach ==
  \A p \in Mpidr :
    On(p) /\ gpc = "ready" /\ (p = smix.boot \/ (is_v3 /\ affinity32(p) = p)) => rd[p].ppi

\* Every interrupt reaches the CPU and the handler it is meant for.  A driver that
\* got its MSI has an event that translates to its LPI, is let through by the
\* redistributor of the CPU asked for and finds its handler, whatever other driver
\* set its own up meanwhile (its.rs:487-523); so does the affinity self-test's
\* event on CPU 1 (its.rs:529-530).  The RESCHED SGI for an online CPU's logical
\* number reaches that CPU, and every online CPU gets its timer (smp.rs:225-228).
\* Excepted are PEs the GIC code takes for others: behind a refused MPIDR or only
\* in the UEFI tables (smp.rs:146-153 against gic.rs:422-440), a boot PE that is
\* not the MADT's first (gic.rs:502-505), on a GICv2 an Aff0 that is not the
\* logical number.
InterruptsReach ==
  /\ \A d \in Dev : msi[d] # 0 =>
       /\ Translated(d).lpi = msi[d] /\ handlers[msi[d]] = d
       /\ \A p \in Mpidr :
            On(p) /\ pes[p].cpu = (IF d = 0 THEN 1 ELSE 0) /\ HasLpis(p) =>
              Delivered(d) /\ Target(d) = p
  /\ \A p \in Mpidr :
       On(p) /\ pes[p].cpu > 0 /\ (IF is_v3 THEN Numbered(p) ELSE p[4] = pes[p].cpu) =>
         SgiTargets(pes[p].cpu) = {p}
  /\ TimersReach
=============================================================================
