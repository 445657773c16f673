---------------------------- MODULE SystemProofs ----------------------------
(***************************************************************************)
(* Proofs about Gic, with the processing elements of Smp, and about        *)
(* Services: where the floating-point state of a process is, and that      *)
(* launchd runs one copy of a service.                                     *)
(***************************************************************************)
EXTENDS Gic, Services, TLAPS, FiniteSetTheorems, WellFoundedInduction

-----------------------------------------------------------------------------
(* A processing element that is in a process, in user mode or in the       *)
(* kernel on its behalf.                                                   *)
Busy(p) == pes[p].mode # "idle"

PeState ==
  [st : {"off", "entry", "iface", "online"}, cpu : Int, fpen : {1, 3},
   mode : {"idle", "user", "kernel"}, slot : {0} \cup Slot]

FpTypes ==
  /\ pes \in [Mpidr -> PeState]
  /\ live \in [Mpidr -> Int] /\ frames \in [Slot -> Int] /\ own \in [Slot -> Int]
  /\ runq \subseteq Slot /\ logical \in Int /\ smix.launch \subseteq Slot

(* Before launch_core no process runs or is runnable; the eager mode is on *)
(* from boot_secondaries, long before.                                     *)
BeforeLaunch ==
  /\ spc # "run" => runq = {} /\ \A p \in Mpidr : ~Busy(p)
  /\ spc # "start" => eager

(* A process is in one place: on one PE, or among the runnable ones.       *)
InOneSlot ==
  /\ \A p \in Mpidr : Busy(p) =>
        pes[p].slot \in Slot /\ pes[p].slot \notin runq /\ own[pes[p].slot] # Free
  /\ \A p, q \in Mpidr : Busy(p) /\ Busy(q) /\ pes[p].slot = pes[q].slot => p = q
  /\ \A s \in runq : own[s] # Free

(* Where the FP state of a process is: in the registers of the PE that     *)
(* runs it, otherwise in its frame.                                        *)
FpWhere ==
  multi_core =>
    /\ \A p \in Mpidr : pes[p].mode = "user" => live[p] = own[pes[p].slot]
    /\ \A p \in Mpidr : pes[p].mode = "kernel" => frames[pes[p].slot] = own[pes[p].slot]
    /\ \A s \in runq : frames[s] = own[s]

FpInv == FpTypes /\ BeforeLaunch /\ InOneSlot /\ FpWhere

(* The invariant is about these variables only.                            *)
LEMMA FpFrame ==
  ASSUME FpInv, UNCHANGED smpVars
  PROVE  FpInv'
BY Zenon DEF FpInv, FpTypes, BeforeLaunch, InOneSlot, FpWhere, Busy, smpVars

(* Writing one PE's record.                                                *)
LEMMA PeWritten ==
  ASSUME pes \in [Mpidr -> PeState], NEW m, NEW r, m \in Mpidr => r \in PeState,
         pes' = [pes EXCEPT ![m] = r]
  PROVE  /\ pes' \in [Mpidr -> PeState]
         /\ \A q \in Mpidr : pes'[q] = IF q = m THEN r ELSE pes[q]
BY Zenon DEF PeState

(* A PE that enters or leaves a process.                                   *)
LEMMA PeMoves ==
  ASSUME pes \in [Mpidr -> PeState], NEW p \in Mpidr, NEW s \in {0} \cup Slot,
         NEW m \in {"idle", "user", "kernel"}
  PROVE  [pes[p] EXCEPT !.mode = m, !.slot = s] \in PeState
<1>1. pes[p] \in PeState
  BY Zenon
<1> QED
  BY Zenon, <1>1 DEF PeState

(* Writing one entry of a function to the integers.                        *)
LEMMA Written ==
  ASSUME NEW S, NEW f \in [S -> Int], NEW x, NEW v \in Int
  PROVE  [f EXCEPT ![x] = v] \in [S -> Int]
BY Zenon

(* Bring-up: a PE changes its own state and stays out of processes.        *)
LEMMA FpBringUp ==
  ASSUME FpInv, UNCHANGED <<live, frames, own, runq, smix>>, logical' \in Int,
         pes' \in [Mpidr -> PeState],
         \A p \in Mpidr : pes'[p].mode = pes[p].mode /\ pes'[p].slot = pes[p].slot,
         \/ spc' = spc /\ eager' = eager /\ multi_core' = multi_core
         \/ spc # "run" /\ spc' # "run" /\ (spc' # "start" => eager')
  PROVE  FpInv'
<1>1. FpTypes'
  BY Zenon DEF FpInv, FpTypes
<1>2. BeforeLaunch'
  BY Zenon DEF FpInv, BeforeLaunch, Busy
<1>3. InOneSlot'
  BY DEF FpInv, InOneSlot, Busy
<1>4. FpWhere'
  BY Zenon DEF FpInv, FpWhere, BeforeLaunch, Busy
<1> QED
  BY Zenon, <1>1, <1>2, <1>3, <1>4 DEF FpInv

(* The steps of bring-up on the boot PE: no process runs yet.              *)
LEMMA BringUpInv ==
  ASSUME FpInv, boot_secondaries \/ CpuOn \/ AwaitOnline \/ EndTest
  PROVE  FpInv'
<1>1. CASE boot_secondaries
  <2>1. UNCHANGED <<live, frames, own, runq, smix, logical>> /\ spc = "start" /\ spc' = "on" /\ eager'
    BY Zenon, <1>1 DEF boot_secondaries, fpVars
  <2>2. pes' = [pes EXCEPT ![smix.boot] = [pes[smix.boot] EXCEPT !.fpen = 3]]
    BY Zenon, <1>1 DEF boot_secondaries
  <2>3. /\ pes' \in [Mpidr -> PeState]
        /\ \A p \in Mpidr : pes'[p].mode = pes[p].mode /\ pes'[p].slot = pes[p].slot
    <3>1. smix.boot \in Mpidr => [pes[smix.boot] EXCEPT !.fpen = 3] \in PeState
      BY SMTT(30) DEF FpInv, FpTypes, PeState
    <3> QED
      BY Zenon, <2>2, <3>1, PeWritten DEF FpInv, FpTypes, PeState
  <2>4. logical' \in Int
    BY Zenon, <2>1 DEF FpInv, FpTypes
  <2> QED
    BY Zenon, <2>1, <2>3, <2>4, FpBringUp
<1>2. CASE CpuOn
  <2>1. /\ UNCHANGED <<live, frames, own, runq, smix, eager, multi_core>>
        /\ spc = "on" /\ spc' \in {"on", "wait"}
    BY Zenon, <1>2 DEF CpuOn, fpVars
  <2>2. /\ logical' \in {logical, logical + 1}
        /\ pes' = pes \/ pes' = [pes EXCEPT ![Head(topo)].st = "entry", ![Head(topo)].cpu = logical]
    BY Zenon, <1>2 DEF CpuOn
  <2>3. /\ pes' \in [Mpidr -> PeState]
        /\ \A p \in Mpidr : pes'[p].mode = pes[p].mode /\ pes'[p].slot = pes[p].slot
    BY <2>2 DEF FpInv, FpTypes, PeState
  <2> QED
    BY <2>1, <2>2, <2>3, FpBringUp DEF FpInv, FpTypes, BeforeLaunch
<1>3. CASE AwaitOnline
  BY Zenon, <1>3, FpBringUp DEF AwaitOnline, FpInv, FpTypes, BeforeLaunch, fpVars
<1>4. CASE EndTest
  BY Zenon, <1>4, FpBringUp DEF EndTest, FpInv, FpTypes, BeforeLaunch, fpVars
<1> QED
  BY Zenon, <1>1, <1>2, <1>3, <1>4

(* launch_core: the first processes start with a clean frame.              *)
LEMMA LaunchInv ==
  ASSUME FpInv, Launch
  PROVE  FpInv'
<1>1. /\ spc = "launch" /\ spc' = "run" /\ UNCHANGED <<pes, live, eager, multi_core, logical, smix>>
      /\ own' = [s \in Slot |-> IF s \in smix.launch THEN Clean ELSE Free]
      /\ frames' = [s \in Slot |-> Clean] /\ runq' = smix.launch
  BY Zenon DEF Launch
<1>2. smix.launch \subseteq Slot /\ \A p \in Mpidr : pes[p].mode = "idle"
  BY Zenon, <1>1 DEF FpInv, FpTypes, BeforeLaunch, Busy
<1>3. FpTypes'
  BY <1>1, <1>2 DEF FpInv, FpTypes, Clean, Free
<1>4. BeforeLaunch'
  BY Zenon, <1>1 DEF FpInv, BeforeLaunch
<1>5. InOneSlot'
  BY <1>1, <1>2 DEF InOneSlot, Busy, Clean, Free
<1>6. FpWhere'
  BY Zenon, <1>1, <1>2 DEF FpWhere
<1> QED
  BY Zenon, <1>3, <1>4, <1>5, <1>6 DEF FpInv

(* The entry of a secondary PE.                                            *)
LEMMA SecondaryInv ==
  ASSUME FpInv, NEW p \in Mpidr, __secondary_entry(p) \/ smp_secondary_main(p)
  PROVE  FpInv'
<1>1. CASE __secondary_entry(p)
  BY Zenon, <1>1, FpBringUp DEF __secondary_entry, init_secondary_local_state, FpInv, FpTypes, PeState,
       bootVars, fpVars
<1>2. CASE smp_secondary_main(p)
  BY <1>2, FpBringUp DEF smp_secondary_main, FpInv, FpTypes, PeState, bootVars, fpVars
<1> QED
  BY Zenon, <1>1, <1>2

(* The exception entry: what the stub saves is what the process left.      *)
LEMMA TrapInv ==
  ASSUME FpInv, NEW p \in Mpidr, SAVE_TRAP_AND_CALL(p)
  PROVE  FpInv'
<1> DEFINE s == pes[p].slot
<1>1. /\ pes[p].mode = "user" /\ pes' = [pes EXCEPT ![p].mode = "kernel"]
      /\ UNCHANGED <<spc, logical, multi_core, eager, own, runq, smix>>
      /\ \E v \in {live[p], Junk} : live' = [live EXCEPT ![p] = v]
      /\ frames' = IF eager THEN [frames EXCEPT ![s] = live[p]] ELSE frames
  BY Zenon DEF SAVE_TRAP_AND_CALL, SaveFp, bootVars
<1>2. /\ s \in Slot /\ s \notin runq /\ eager
      /\ \A q \in Mpidr : q # p /\ Busy(q) => pes[q].slot # s
  BY Zenon, <1>1 DEF FpInv, InOneSlot, BeforeLaunch, Busy
<1>3. FpTypes'
  <2>1. pes' \in [Mpidr -> PeState]
    BY SMTT(30), <1>1 DEF FpInv, FpTypes, PeState
  <2>2. live[p] \in Int /\ Junk \in Int
    BY DEF FpInv, FpTypes, Junk
  <2>3. frames' \in [Slot -> Int] /\ live' \in [Mpidr -> Int]
    BY <1>1, <2>2, Written DEF FpInv, FpTypes
  <2> QED
    BY Zenon, <1>1, <2>1, <2>3 DEF FpInv, FpTypes
<1>4. /\ \A q \in Mpidr : pes'[q].slot = pes[q].slot
      /\ \A q \in Mpidr : pes'[q].mode = IF q = p THEN "kernel" ELSE pes[q].mode
      /\ \A q \in Mpidr : q # p => live'[q] = live[q]
      /\ \A r \in Slot : frames'[r] = IF r = s THEN live[p] ELSE frames[r]
  BY <1>1, <1>2 DEF FpInv, FpTypes, PeState
<1>5. BeforeLaunch' /\ InOneSlot'
  BY <1>1, <1>4 DEF FpInv, BeforeLaunch, InOneSlot, Busy
<1>6. FpWhere'
  BY <1>1, <1>2, <1>4 DEF FpInv, FpTypes, InOneSlot, FpWhere, Busy
<1> QED
  BY Zenon, <1>3, <1>5, <1>6 DEF FpInv

(* The return to user mode loads the frame.                                *)
LEMMA RestoreInv ==
  ASSUME FpInv, NEW p \in Mpidr, restore_context(p)
  PROVE  FpInv'
<1>1. /\ pes[p].mode = "kernel" /\ pes' = [pes EXCEPT ![p].mode = "user"]
      /\ UNCHANGED <<spc, logical, multi_core, eager, own, frames, runq, smix>>
      /\ live' = IF multi_core THEN [live EXCEPT ![p] = frames[pes[p].slot]] ELSE live
  BY Zenon DEF restore_context, LoadFp, bootVars
<1>2. pes[p].slot \in Slot
  BY Zenon, <1>1 DEF FpInv, InOneSlot, Busy
<1>3. FpTypes'
  <2>1. pes' \in [Mpidr -> PeState]
    BY <1>1 DEF FpInv, FpTypes, PeState
  <2> QED
    BY Zenon, <2>1, <1>1, <1>2 DEF FpInv, FpTypes
<1>4. /\ \A q \in Mpidr : pes'[q].slot = pes[q].slot
      /\ \A q \in Mpidr : pes'[q].mode = IF q = p THEN "user" ELSE pes[q].mode
      /\ multi_core => \A q \in Mpidr : live'[q] = IF q = p THEN frames[pes[p].slot] ELSE live[q]
  BY Zenon, <1>1, <1>2 DEF FpInv, FpTypes, PeState
<1>5. BeforeLaunch' /\ InOneSlot'
  BY <1>1, <1>4 DEF FpInv, BeforeLaunch, InOneSlot, Busy
<1>6. FpWhere'
  BY <1>1, <1>2, <1>4 DEF FpInv, FpWhere
<1> QED
  BY Zenon, <1>3, <1>5, <1>6 DEF FpInv

(* dispatch takes the process from the queue and loads its frame.          *)
LEMMA DispatchInv ==
  ASSUME FpInv, NEW p \in Mpidr, NEW s \in Slot, dispatch(p, s)
  PROVE  FpInv'
<1>1. /\ pes[p].mode = "idle" /\ s \in runq /\ runq' = runq \ {s}
      /\ pes' = [pes EXCEPT ![p].mode = "user", ![p].slot = s]
      /\ UNCHANGED <<spc, logical, multi_core, eager, own, frames, smix>>
      /\ live' = IF multi_core THEN [live EXCEPT ![p] = frames[s]] ELSE live
  BY Zenon DEF dispatch, LoadFp, bootVars
<1>2. spc = "run"
  BY Zenon, <1>1 DEF FpInv, BeforeLaunch
<1>3. FpTypes'
  <2>1. pes' \in [Mpidr -> PeState]
    <3>1. pes' = [pes EXCEPT ![p] = [pes[p] EXCEPT !.mode = "user", !.slot = s]]
      BY Zenon, <1>1
    <3>2. [pes[p] EXCEPT !.mode = "user", !.slot = s] \in PeState
      BY Zenon, PeMoves DEF FpInv, FpTypes
    <3> QED
      BY Zenon, <3>1, <3>2, PeWritten DEF FpInv, FpTypes
  <2> QED
    BY Zenon, <2>1, <1>1 DEF FpInv, FpTypes
<1>4. /\ \A q \in Mpidr : pes'[q].slot = IF q = p THEN s ELSE pes[q].slot
      /\ \A q \in Mpidr : pes'[q].mode = IF q = p THEN "user" ELSE pes[q].mode
      /\ multi_core => \A q \in Mpidr : live'[q] = IF q = p THEN frames[s] ELSE live[q]
  BY Zenon, <1>1 DEF FpInv, FpTypes, PeState
<1>5. BeforeLaunch'
  BY Zenon, <1>1, <1>2 DEF FpInv, BeforeLaunch
<1>6. InOneSlot'
  BY <1>1, <1>4 DEF FpInv, FpTypes, InOneSlot, Busy
<1>7. FpWhere'
  BY <1>1, <1>4 DEF FpInv, FpTypes, FpWhere
<1> QED
  BY Zenon, <1>3, <1>5, <1>6, <1>7 DEF FpInv

(* yield_current and exit_current leave the PE idle; the process goes back *)
(* to the queue, or its slot becomes free.                                 *)
LEMMA LeaveInv ==
  ASSUME FpInv, NEW p \in Mpidr, yield_current(p) \/ exit_current(p)
  PROVE  FpInv'
<1> DEFINE s == pes[p].slot
<1>1. /\ pes[p].mode = "kernel" /\ pes' = [pes EXCEPT ![p].mode = "idle", ![p].slot = 0]
      /\ UNCHANGED <<spc, logical, multi_core, eager, live, frames, smix>>
      /\ \/ runq' = runq \cup {s} /\ own' = own
         \/ runq' = runq /\ own' = [own EXCEPT ![s] = Free]
  BY Zenon DEF yield_current, exit_current, Idle, bootVars, fpVars
<1>2. /\ s \in Slot /\ s \notin runq /\ spc = "run" /\ own[s] # Free
      /\ multi_core => frames[s] = own[s]
      /\ \A q \in Mpidr : q # p /\ Busy(q) => pes[q].slot # s
  BY Zenon, <1>1 DEF FpInv, InOneSlot, BeforeLaunch, Busy, FpWhere
<1>3. FpTypes'
  <2>1. pes' \in [Mpidr -> PeState]
    <3>1. pes' = [pes EXCEPT ![p] = [pes[p] EXCEPT !.mode = "idle", !.slot = 0]]
      BY Zenon, <1>1
    <3>2. [pes[p] EXCEPT !.mode = "idle", !.slot = 0] \in PeState
      BY Zenon, PeMoves DEF FpInv, FpTypes
    <3> QED
      BY Zenon, <3>1, <3>2, PeWritten DEF FpInv, FpTypes
  <2> QED
    BY <2>1, <1>1, <1>2 DEF FpInv, FpTypes, Free
<1>4. /\ \A q \in Mpidr : q # p => pes'[q] = pes[q]
      /\ pes'[p].mode = "idle"
      /\ \A r \in Slot : r # s => own'[r] = own[r]
  BY <1>1, <1>2 DEF FpInv, FpTypes, PeState
<1>5. BeforeLaunch'
  BY Zenon, <1>1, <1>2 DEF FpInv, BeforeLaunch
<1>6. InOneSlot'
  BY SMTT(30), <1>1, <1>2, <1>4 DEF FpInv, FpTypes, InOneSlot, Busy
<1>7. FpWhere'
  BY <1>1, <1>2, <1>4 DEF FpInv, FpTypes, InOneSlot, FpWhere, Busy
<1> QED
  BY Zenon, <1>3, <1>5, <1>6, <1>7 DEF FpInv

(* exec gives the process a clean frame.                                   *)
LEMMA ExecInv ==
  ASSUME FpInv, NEW p \in Mpidr, apply_exec_frame(p)
  PROVE  FpInv'
<1> DEFINE s == pes[p].slot
<1>1. /\ pes[p].mode = "kernel"
      /\ frames' = [frames EXCEPT ![s] = Clean] /\ own' = [own EXCEPT ![s] = Clean]
      /\ UNCHANGED <<spc, logical, multi_core, eager, pes, live, runq, smix>>
  BY Zenon DEF apply_exec_frame, bootVars
<1>2. /\ s \in Slot /\ s \notin runq
      /\ \A q \in Mpidr : q # p /\ Busy(q) => pes[q].slot # s
  BY Zenon, <1>1 DEF FpInv, InOneSlot, Busy
<1>3. FpTypes'
  <2>1. frames' \in [Slot -> Int] /\ own' \in [Slot -> Int]
    BY <1>1, Written DEF FpInv, FpTypes, Clean
  <2> QED
    BY Zenon, <1>1, <2>1 DEF FpInv, FpTypes
<1>4. /\ \A r \in Slot : frames'[r] = IF r = s THEN Clean ELSE frames[r]
      /\ \A r \in Slot : own'[r] = IF r = s THEN Clean ELSE own[r]
  BY Zenon, <1>1 DEF FpInv, FpTypes
<1>5. BeforeLaunch'
  BY Zenon, <1>1 DEF FpInv, BeforeLaunch, Busy
<1>6. InOneSlot'
  BY <1>1, <1>4 DEF FpInv, FpTypes, InOneSlot, Busy, Clean, Free
<1>7. FpWhere'
  BY <1>1, <1>2, <1>4 DEF FpInv, FpTypes, InOneSlot, FpWhere, Busy
<1> QED
  BY Zenon, <1>3, <1>5, <1>6, <1>7 DEF FpInv

(* fork, spawn and CreateThread fill a free slot, the frame included.      *)
LEMMA NewInv ==
  ASSUME FpInv, NEW p \in Mpidr, NEW c \in Slot, fork(p, c) \/ init_user(p, c)
  PROVE  FpInv'
<1>1. PICK v, w :
        /\ frames' = [frames EXCEPT ![c] = v] /\ own' = [own EXCEPT ![c] = w]
        /\ v \in Int /\ w \in Int /\ w # Free /\ (multi_core => v = w)
  <2>1. CASE fork(p, c)
    <3>1. pes[p].mode = "kernel" /\ pes[p].slot \in Slot /\ own[pes[p].slot] # Free
      BY Zenon, <2>1 DEF fork, FpInv, InOneSlot, Busy
    <3>2. /\ frames[pes[p].slot] \in Int /\ own[pes[p].slot] \in Int
          /\ multi_core => frames[pes[p].slot] = own[pes[p].slot]
      BY Zenon, <3>1 DEF FpInv, FpTypes, FpWhere
    <3> QED
      BY Zenon, <2>1, <3>1, <3>2 DEF fork
  <2>2. CASE init_user(p, c)
    <3>1. frames' = [frames EXCEPT ![c] = Clean] /\ own' = [own EXCEPT ![c] = Clean]
      BY Zenon, <2>2 DEF init_user, NewProcess
    <3>2. Clean \in Int /\ Clean # Free
      BY DEF Clean, Free
    <3> QED
      BY Zenon, <3>1, <3>2
  <2> QED
    BY Zenon, <2>1, <2>2
<1>2. /\ pes[p].mode = "kernel" /\ own[c] = Free /\ runq' = runq \cup {c}
      /\ UNCHANGED <<spc, logical, multi_core, eager, pes, live, smix>>
  BY Zenon DEF fork, init_user, NewProcess, bootVars
<1>3. /\ \A q \in Mpidr : Busy(q) => pes[q].slot # c
      /\ c \notin runq /\ spc = "run"
  BY Zenon, <1>2 DEF FpInv, InOneSlot, BeforeLaunch, Busy
<1>4. FpTypes'
  <2>1. frames' \in [Slot -> Int] /\ own' \in [Slot -> Int]
    BY Zenon, <1>1, Written DEF FpInv, FpTypes
  <2> QED
    BY Zenon, <1>2, <2>1 DEF FpInv, FpTypes
<1>5. /\ \A r \in Slot : frames'[r] = IF r = c THEN v ELSE frames[r]
      /\ \A r \in Slot : own'[r] = IF r = c THEN w ELSE own[r]
  BY Zenon, <1>1 DEF FpInv, FpTypes
<1>6. BeforeLaunch'
  BY Zenon, <1>2, <1>3 DEF FpInv, BeforeLaunch
<1>7. InOneSlot'
  BY Zenon, <1>1, <1>2, <1>3, <1>5 DEF FpInv, FpTypes, InOneSlot, Busy
<1>8. FpWhere'
  BY <1>1, <1>2, <1>3, <1>5 DEF FpInv, FpTypes, InOneSlot, FpWhere, Busy
<1> QED
  BY Zenon, <1>4, <1>6, <1>7, <1>8 DEF FpInv

(* A process computes in its own registers.                                *)
LEMMA ComputeInv ==
  ASSUME FpInv, NEW p \in Mpidr, NEW v \in 1 .. MaxFp, Compute(p, v)
  PROVE  FpInv'
<1> DEFINE s == pes[p].slot
<1>1. /\ pes[p].mode = "user"
      /\ live' = [live EXCEPT ![p] = v] /\ own' = [own EXCEPT ![s] = v]
      /\ UNCHANGED <<spc, logical, multi_core, eager, pes, frames, runq, smix>>
  BY Zenon DEF Compute, bootVars
<1>2. /\ s \in Slot /\ s \notin runq /\ v \in Int /\ v # Free
      /\ \A q \in Mpidr : q # p /\ Busy(q) => pes[q].slot # s
  BY <1>1 DEF FpInv, InOneSlot, Busy, Free
<1>3. FpTypes'
  <2>1. live' \in [Mpidr -> Int] /\ own' \in [Slot -> Int]
    BY Zenon, <1>1, <1>2, Written DEF FpInv, FpTypes
  <2> QED
    BY Zenon, <1>1, <2>1 DEF FpInv, FpTypes
<1>4. /\ \A q \in Mpidr : live'[q] = IF q = p THEN v ELSE live[q]
      /\ \A r \in Slot : own'[r] = IF r = s THEN v ELSE own[r]
  BY Zenon, <1>1 DEF FpInv, FpTypes
<1>5. BeforeLaunch'
  BY Zenon, <1>1 DEF FpInv, BeforeLaunch, Busy
<1>6. InOneSlot'
  BY <1>1, <1>2, <1>4 DEF FpInv, FpTypes, InOneSlot, Busy
<1>7. FpWhere'
  BY <1>1, <1>2, <1>4 DEF FpInv, FpTypes, InOneSlot, FpWhere, Busy
<1> QED
  BY Zenon, <1>3, <1>5, <1>6, <1>7 DEF FpInv

(* Every step keeps the invariant; those of the interrupt controller       *)
(* touch none of its variables.                                            *)
LEMMA FpInductive ==
  ASSUME FpInv, [GicNext]_allVars
  PROVE  FpInv'
<1>1. CASE gic_init \/ its_init \/ DriversInit \/ UNCHANGED allVars
  BY Zenon, <1>1, FpFrame DEF gic_init, its_init, DriversInit, allVars
<1>2. CASE boot_secondaries \/ CpuOn \/ AwaitOnline \/ EndTest
  BY Zenon, <1>2, BringUpInv
<1>3. CASE Launch
  BY Zenon, <1>3, LaunchInv
<1>4. ASSUME NEW p \in Mpidr, __secondary_entry(p) \/ SecondaryMain(p) \/ SmpStep(p)
      PROVE  FpInv'
  BY Zenon, <1>4, SecondaryInv, TrapInv, RestoreInv, DispatchInv, LeaveInv, ExecInv, NewInv, ComputeInv
     DEF SecondaryMain, SmpStep
<1>5. ASSUME NEW p \in Mpidr,
             \/ affinity_self_test(p) \/ ensure_device(p) \/ mapd(p) \/ ensure_collection(p)
             \/ NextLpi(p) \/ mapti(p) \/ enable_lpi(p) \/ configure_msix(p) \/ configure_msi(p)
             \/ register_irq_handler(p) \/ TimerFires(p) \/ send_resched_sgi(p)
             \/ timer_irq(p) \/ device_irq(p)
      PROVE  FpInv'
  <2>1. UNCHANGED smpVars
    BY <1>5, Zenon DEF affinity_self_test, ensure_device, mapd, ensure_collection, NextLpi, mapti,
      enable_lpi, configure_msix, configure_msi, register_irq_handler, TimerFires, send_resched_sgi,
      timer_irq, device_irq, LeftOver
  <2> QED
    BY Zenon, <2>1, FpFrame
<1>6. ASSUME NEW p \in Mpidr, resched_irq(p)
      PROVE  FpInv'
  BY Zenon, <1>6, LeaveInv, FpFrame DEF resched_irq
<1>7. ASSUME NEW d \in GDev, (\E p \in Mpidr : Begin(p, d) \/ BeginPolled(p, d)) \/ Raise(d)
      PROVE  FpInv'
  BY <1>7, FpFrame, Zenon DEF Begin, BeginPolled, Raise
<1> QED
  BY <1>1, <1>2, <1>3, <1>4, <1>5, <1>6, <1>7, Zenon DEF GicNext

(* At reset no PE runs a process.                                          *)
LEMMA FpStarts ==
  ASSUME \A m \in SmpMixes : m.launch \subseteq Slot, GicInit
  PROVE  FpInv
<1>1. /\ spc = "start" /\ runq = {} /\ multi_core = FALSE /\ logical = 1
      /\ pes = [m \in Mpidr |-> NewPe(m, smix.boot)] /\ live = [m \in Mpidr |-> Junk]
      /\ frames = [s \in Slot |-> Clean] /\ own = [s \in Slot |-> Free]
      /\ smix.launch \subseteq Slot
  BY Zenon DEF GicInit, SmpInit
<1>2. \A m \in Mpidr : pes[m] \in PeState /\ pes[m].mode = "idle"
  BY <1>1 DEF NewPe, PeState
<1>3. FpTypes
  BY <1>1, <1>2 DEF FpTypes, Junk, Clean, Free
<1> QED
  BY Zenon, <1>1, <1>2, <1>3 DEF FpInv, BeforeLaunch, InOneSlot, FpWhere, Busy

(* The floating-point state of a process is in one place: in the registers *)
(* of the PE that runs it, otherwise in its frame.  A PE saves it on every *)
(* exception before the kernel runs and loads it before every return       *)
(* (process.rs:39-44; aarch64.rs:114-119).                                 *)
THEOREM FpInvariance ==
  ASSUME \A m \in SmpMixes : m.launch \subseteq Slot
  PROVE  GicSpec => []FpInv
<1>1. GicInit => FpInv
  BY Zenon, FpStarts
<1>2. FpInv /\ [GicNext]_allVars => FpInv'
  BY Zenon, FpInductive
<1> QED
  BY <1>1, <1>2, PTL DEF GicSpec

(* With more than one core a process finds in the floating-point registers *)
(* what it left there, whichever PE it runs on and whoever ran in between, *)
(* for any number of PEs, processes and interrupts.  On one core it does   *)
(* not hold: the lazy mode is never armed (README.md, section 5).          *)
THEOREM FpKeptOnAllCores ==
  ASSUME \A m \in SmpMixes : m.launch \subseteq Slot
  PROVE  GicSpec => [](multi_core => FpPreserved)
<1>1. FpInv => (multi_core => FpPreserved)
  BY Zenon DEF FpInv, FpWhere, FpPreserved
<1>2. GicSpec => []FpInv
  BY Zenon, FpInvariance
<1> QED
  BY <1>1, <1>2, PTL

-----------------------------------------------------------------------------
(* The services launchd starts at boot are listed once each and fit its    *)
(* table: 10 names (lib.rs:106-117), 16 rows (lib.rs:51).  Nothing bounds  *)
(* the names that requests carry.                                          *)
KnownFits ==
  /\ NoRow.name \notin SvName /\ SERVICE_TABLE_CAP \in Nat
  /\ KNOWN_SERVICES \in Seq(SvName) /\ Len(KNOWN_SERVICES) <= SERVICE_TABLE_CAP
  /\ \A i, j \in DOMAIN KNOWN_SERVICES : KNOWN_SERVICES[i] = KNOWN_SERVICES[j] => i = j

Known == {KNOWN_SERVICES[i] : i \in DOMAIN KNOWN_SERVICES}

(* The name of a free row, which is no service's.                          *)
NoName == NoRow.name

RowType == [name : SvName \cup {NoName}, pid : Nat,
            status : {"none", "running", "not-installed", "failed"}]
ReqType == [op : svmix.ops, name : SvName, id : Nat, status : {"running", "failed"}]

SvTypes ==
  /\ procs \in [live : SUBSET (Nat \X SvName \X {"launchd", "controller"}), next : Nat \ {0}]
  /\ sltable \in [Rows -> RowType]
  /\ slboot \in Seq(SvName)
  /\ svreq \in [{"launchd", "controller"} -> Seq(ReqType)]
  /\ svid \in [SvClient -> Nat]

(* A name has one row, a row without a name is free, and a row with a pid  *)
(* is that of a service launchd takes to run.                              *)
OneRow(t) ==
  /\ \A i, j \in Rows : t[i].name = t[j].name /\ t[i].name # NoName => i = j
  /\ \A i \in Rows : t[i].name = NoName => t[i] = NoRow
  /\ \A i \in Rows : t[i].pid # 0 => t[i].status = "running"

(* What launchd started and still runs is on record, or its name found no  *)
(* row.                                                                    *)
OnRecord ==
  \A p \in procs.live :
    p[3] = "launchd" =>
      \/ Untracked(sltable, p[2])
      \/ p[1] # 0 /\ \E i \in Rows : sltable[i].name = p[2] /\ sltable[i].pid = p[1]

(* A service launchd has yet to start at boot has no row.                  *)
BootPending ==
  /\ \A i, j \in DOMAIN slboot : slboot[i] = slboot[j] => i = j
  /\ \A i \in DOMAIN slboot : \A r \in Rows : sltable[r].name # slboot[i]

(* Until launchd has started them all its rows are theirs alone, and then  *)
(* each has its row: rows are never given up.                              *)
KnownRows(t, boot) ==
  /\ boot # <<>> => \A r \in Rows : t[r].name \in Known \cup {NoName}
  /\ \A i \in DOMAIN boot : boot[i] \in Known
  /\ \A n \in Known :
       (\E i \in DOMAIN boot : boot[i] = n) \/ (\E r \in Rows : t[r].name = n)

SvInv == SvTypes /\ OneRow(sltable) /\ OnRecord /\ BootPending /\ KnownRows(sltable, slboot)

-----------------------------------------------------------------------------
(* The first of a set of rows is one of them.                              *)
LEMMA FirstIsIn ==
  ASSUME NEW S \in SUBSET Nat, S # {}
  PROVE  First(S) \in S
<1> DEFINE less == {ss \in Nat \X Nat : ss[1] < ss[2]}
<1>1. IsWellFoundedOn(less, Nat)
  BY NatLessThanWellFounded, Zenon DEF OpToRel
<1>2. PICK x \in S : \A y \in S : ~(<<y, x>> \in less)
  BY <1>1, WFMin, Zenon
<1>3. \A y \in Nat : ~(<<y, x>> \in less) => x <= y
  OBVIOUS
<1>4. \A y \in S : x <= y
  BY <1>2, <1>3, Zenon
<1> QED
  BY Zenon, <1>4 DEF First

(* The services started at boot are no more than the rows.                 *)
LEMMA KnownFinite ==
  ASSUME KnownFits
  PROVE  /\ Known \subseteq SvName
         /\ IsFiniteSet(Known) /\ Cardinality(Known) <= SERVICE_TABLE_CAP
<1> DEFINE D == DOMAIN KNOWN_SERVICES
<1>1. /\ D = 1 .. Len(KNOWN_SERVICES) /\ Len(KNOWN_SERVICES) \in Nat
      /\ \A i \in D : KNOWN_SERVICES[i] \in SvName
  BY DEF KnownFits
<1>2. IsFiniteSet(D) /\ Cardinality(D) = Len(KNOWN_SERVICES)
  BY SMTT(30), <1>1, FS_Interval
<1>3. KNOWN_SERVICES \in Surjection(D, Known)
  BY <1>1 DEF KnownFits, Known, Surjection
<1>4. IsFiniteSet(Known) /\ Cardinality(Known) <= Cardinality(D)
  <2> HIDE DEF D
  <2> QED BY Zenon, <1>2, <1>3, FS_Surjection
<1>5. Cardinality(Known) \in Nat
  BY Zenon, <1>4, FS_CardinalityType
<1>6. Known \subseteq SvName
  BY Zenon, <1>1 DEF Known
<1> QED
  BY <1>1, <1>2, <1>4, <1>5, <1>6 DEF KnownFits

(* A name finds a row when the names of the rows are among no more than    *)
(* the rows: were every row another name's, there would be fewer.          *)
LEMMA RowFound ==
  ASSUME KnownFits, NEW t \in [Rows -> RowType], OneRow(t), NEW N, NEW name \in N,
         IsFiniteSet(N), Cardinality(N) <= SERVICE_TABLE_CAP,
         \A i \in Rows : t[i].name \in N \cup {NoName}
  PROVE  RowsOf(t, name) # {} \/ FreeRows(t) # {}
<1> SUFFICES ASSUME RowsOf(t, name) = {}, FreeRows(t) = {} PROVE FALSE
  BY Zenon
<1> DEFINE T == N \ {name}
           f == [i \in Rows |-> t[i].name]
<1>1. \A i \in Rows : t[i].name # NoName /\ t[i].name # name /\ t[i].name \in N \cup {NoName}
  BY Zenon DEF RowsOf, FreeRows, OneRow
<1>2. f \in [Rows -> T]
  BY Zenon, <1>1
<1>0. SERVICE_TABLE_CAP \in Nat
  BY Zenon DEF KnownFits
<1>3. IsFiniteSet(Rows) /\ Cardinality(Rows) = SERVICE_TABLE_CAP
  <2>1. /\ IsFiniteSet(1 .. SERVICE_TABLE_CAP)
        /\ Cardinality(1 .. SERVICE_TABLE_CAP)
             = IF 1 > SERVICE_TABLE_CAP THEN 0 ELSE SERVICE_TABLE_CAP - 1 + 1
    BY <1>0, FS_Interval
  <2> QED
    BY <1>0, <2>1 DEF Rows
<1>4. IsFiniteSet(T) /\ Cardinality(T) = Cardinality(N) - 1 /\ Cardinality(N) \in Nat
  BY Zenon, FS_RemoveElement, FS_CardinalityType
<1>5. Cardinality(T) < Cardinality(Rows)
  <2> HIDE DEF T
  <2> QED BY <1>0, <1>3, <1>4
<1>6. \E i, j \in Rows : i # j /\ f[i] = f[j]
  <2> HIDE DEF f, T
  <2> QED BY <1>2, <1>3, <1>4, <1>5, FS_PigeonHole
<1> QED
  BY Zenon, <1>1, <1>6 DEF OneRow

(* A service of the boot list finds a row: at boot the rows are those of   *)
(* known services, afterwards a known service has its own.                 *)
LEMMA KnownFindsRow ==
  ASSUME KnownFits, SvInv, NEW name \in Known
  PROVE  ~Untracked(sltable, name)
<1>1. sltable \in [Rows -> RowType] /\ OneRow(sltable)
  BY Zenon DEF SvInv, SvTypes
<1>2. CASE slboot # <<>>
  <2>1. \A i \in Rows : sltable[i].name \in Known \cup {NoName}
    BY Zenon, <1>2 DEF SvInv, KnownRows
  <2> QED
    BY Zenon, <1>1, <2>1, KnownFinite, RowFound DEF Untracked
<1>3. CASE slboot = <<>>
  <2>1. DOMAIN slboot = {}
    BY <1>3
  <2>2. \E r \in Rows : sltable[r].name = name
    BY <2>1, Zenon DEF SvInv, KnownRows
  <2> QED
    BY Zenon, <2>2 DEF RowsOf, Untracked
<1> QED
  BY Zenon, <1>2, <1>3

(* What upsert does: one row, the name's own or a free one, is the new     *)
(* record; with neither, nothing.                                          *)
LEMMA Upserted ==
  ASSUME KnownFits, NEW t \in [Rows -> RowType], OneRow(t), NEW name \in SvName, NEW pid, NEW status
  PROVE  \/ \E k \in Rows :
              /\ upsert(t, name, pid, status) = [t EXCEPT ![k] = Row(name, pid, status)]
              /\ t[k].name \in {name, NoName}
              /\ \A j \in Rows : t[j].name = name => j = k
         \/ /\ upsert(t, name, pid, status) = t
            /\ RowsOf(t, name) = {} /\ FreeRows(t) = {}
<1>1. RowsOf(t, name) \in SUBSET Nat /\ FreeRows(t) \in SUBSET Nat
  BY DEF RowsOf, FreeRows, Rows
<1>2. CASE RowsOf(t, name) # {}
  <2>1. First(RowsOf(t, name)) \in RowsOf(t, name)
    BY Zenon, <1>1, <1>2, FirstIsIn
  <2>2. \A j \in Rows : t[j].name = name => j = First(RowsOf(t, name))
    BY Zenon, <2>1 DEF RowsOf, OneRow, KnownFits, NoName
  <2> QED
    BY Zenon, <1>2, <2>1, <2>2 DEF upsert, RowsOf
<1>3. CASE RowsOf(t, name) = {} /\ FreeRows(t) # {}
  <2>1. FreeRows(t) # {}
    BY Zenon, <1>3
  <2>2. First(FreeRows(t)) \in FreeRows(t)
    BY Zenon, <1>1, <2>1, FirstIsIn
  <2>3. \A j \in Rows : t[j].name # name
    BY Zenon, <1>3 DEF RowsOf
  <2>4. upsert(t, name, pid, status) = [t EXCEPT ![First(FreeRows(t))] = Row(name, pid, status)]
    BY <1>3, <2>1, Zenon DEF upsert
  <2>5. First(FreeRows(t)) \in Rows /\ t[First(FreeRows(t))].name = NoName
    <3>1. First(FreeRows(t)) \in Rows /\ t[First(FreeRows(t))] = NoRow
      BY Zenon, <2>2 DEF FreeRows
    <3> QED
      BY Zenon, <3>1 DEF NoName
  <2> QED
    BY Zenon, <2>3, <2>4, <2>5
<1>4. CASE RowsOf(t, name) = {} /\ FreeRows(t) = {}
  BY <1>4, Zenon DEF upsert
<1> QED
  BY Zenon, <1>2, <1>3, <1>4

(* Recording the outcome of a start.  A service that is started has no     *)
(* copy on record, so none runs unless its name found no row.              *)
LEMMA RecordInv ==
  ASSUME KnownFits, SvInv, NEW name \in SvName, NEW pid \in Nat,
         NEW status \in {"running", "not-installed", "failed"}, pid # 0 => status = "running",
         \A i \in Rows : sltable[i].name = name => sltable[i].pid = 0,
         sltable' = upsert(sltable, name, pid, status),
         \/ pid = 0 /\ procs' = procs
         \/ /\ pid # 0
            /\ procs' = [live |-> procs.live \cup {<<pid, name, "launchd">>}, next |-> pid + 1]
  PROVE  /\ sltable' \in [Rows -> RowType] /\ OneRow(sltable') /\ OnRecord'
         /\ procs' \in [live : SUBSET (Nat \X SvName \X {"launchd", "controller"}), next : Nat \ {0}]
         /\ \A j \in Rows : sltable'[j].name \in {sltable[j].name, name}
         /\ \A j \in Rows : sltable[j].name # NoName => sltable'[j].name = sltable[j].name
         /\ Untracked(sltable, name) \/ \E j \in Rows : sltable'[j].name = name
<1> DEFINE R == Row(name, pid, status)
<1>1. sltable \in [Rows -> RowType] /\ OneRow(sltable)
  BY Zenon DEF SvInv, SvTypes
<1>2. /\ procs' \in [live : SUBSET (Nat \X SvName \X {"launchd", "controller"}), next : Nat \ {0}]
      /\ \A p \in procs'.live : p \in procs.live \/ (p = <<pid, name, "launchd">> /\ pid # 0)
  <2>1. procs.live \in SUBSET (Nat \X SvName \X {"launchd", "controller"})
    BY Zenon DEF SvInv, SvTypes
  <2>2. \/ procs'.live = procs.live
        \/ pid # 0 /\ procs'.live = procs.live \cup {<<pid, name, "launchd">>}
    OBVIOUS
  <2>3. \A p \in procs'.live : p \in procs.live \/ (p = <<pid, name, "launchd">> /\ pid # 0)
    BY <2>2, Zenon
  <2>4. procs' \in [live : SUBSET (Nat \X SvName \X {"launchd", "controller"}), next : Nat \ {0}]
    BY DEF SvInv, SvTypes
  <2> QED
    BY Zenon, <2>3, <2>4
<1>3. R \in RowType /\ R.name = name /\ R.pid = pid /\ R.status = status /\ name # NoName
  BY Zenon DEF Row, RowType, KnownFits, NoName
<1> HIDE DEF R
<1>4. ASSUME NEW k \in Rows, sltable' = [sltable EXCEPT ![k] = R],
             sltable[k].name \in {name, NoName},
             \A j \in Rows : sltable[j].name = name => j = k
      PROVE  /\ sltable' \in [Rows -> RowType] /\ OneRow(sltable') /\ OnRecord'
             /\ \A j \in Rows : sltable'[j].name \in {sltable[j].name, name}
             /\ \A j \in Rows : sltable[j].name # NoName => sltable'[j].name = sltable[j].name
             /\ Untracked(sltable, name) \/ \E j \in Rows : sltable'[j].name = name
  <2>1. /\ sltable' \in [Rows -> RowType]
        /\ \A j \in Rows : sltable'[j] = IF j = k THEN R ELSE sltable[j]
    BY Zenon, <1>1, <1>3, <1>4
  <2>2. OneRow(sltable')
    <3>1. ASSUME NEW i \in Rows, NEW j \in Rows,
                 sltable'[i].name = sltable'[j].name, sltable'[i].name # NoName
          PROVE  i = j
      BY <1>1, <1>3, <1>4, <2>1, <3>1 DEF OneRow
    <3>2. \A i \in Rows : sltable'[i].name = NoName => sltable'[i] = NoRow
      BY Zenon, <1>1, <1>3, <2>1 DEF OneRow
    <3>3. \A i \in Rows : sltable'[i].pid # 0 => sltable'[i].status = "running"
      BY <1>1, <1>3, <2>1 DEF OneRow
    <3> QED
      BY <3>1, <3>2, <3>3, Zenon DEF OneRow
  <2>3. sltable[k].pid = 0
    <3>1. sltable[k].name = NoName => sltable[k] = NoRow
      BY Zenon, <1>1 DEF OneRow
    <3>2. NoRow.pid = 0
      BY Zenon DEF NoRow
    <3> QED
      BY Zenon, <1>4, <3>1, <3>2
  <2>4. ASSUME NEW n \in SvName, Untracked(sltable, n) PROVE Untracked(sltable', n)
    <3>1. /\ \A i \in Rows : sltable[i].name # n /\ sltable[i] # NoRow
          /\ \A i \in Rows : sltable[i].name # NoName
      BY Zenon, <1>1, <2>4 DEF Untracked, RowsOf, FreeRows, OneRow
    <3>2. sltable[k].name = name
      BY Zenon, <1>4, <3>1
    <3>3. \A i \in Rows : sltable'[i].name = sltable[i].name
      BY Zenon, <1>3, <2>1, <3>2
    <3>4. \A i \in Rows : sltable'[i] # NoRow
      BY Zenon, <3>1, <3>3 DEF NoName
    <3> QED
      BY Zenon, <3>1, <3>3, <3>4 DEF Untracked, RowsOf, FreeRows
  <2>5. ASSUME NEW p \in procs'.live, p[3] = "launchd"
        PROVE  \/ Untracked(sltable', p[2])
               \/ p[1] # 0 /\ \E i \in Rows : sltable'[i].name = p[2] /\ sltable'[i].pid = p[1]
    <3>1. CASE p \in procs.live /\ Untracked(sltable, p[2])
      <4>1. p[2] \in SvName
        BY <3>1 DEF SvInv, SvTypes
      <4> QED
        BY Zenon, <2>4, <3>1, <4>1
    <3>2. CASE p \in procs.live /\ ~Untracked(sltable, p[2])
      <4>1. PICK i \in Rows : sltable[i].name = p[2] /\ sltable[i].pid = p[1] /\ p[1] # 0
        BY Zenon, <2>5, <3>2 DEF SvInv, OnRecord
      <4>2. i # k
        BY Zenon, <2>3, <4>1
      <4> QED
        BY Zenon, <2>1, <4>1, <4>2
    <3>3. CASE p = <<pid, name, "launchd">> /\ pid # 0
      BY Zenon, <1>3, <2>1, <3>3
    <3> QED
      BY Zenon, <1>2, <3>1, <3>2, <3>3
  <2>6. OnRecord'
    BY Zenon, <2>5 DEF OnRecord
  <2> QED
    BY Zenon, <1>3, <1>4, <2>1, <2>2, <2>6
<1>5. ASSUME sltable' = sltable, Untracked(sltable, name)
      PROVE  OnRecord'
  <2>1. ASSUME NEW p \in procs'.live, p[3] = "launchd"
        PROVE  \/ Untracked(sltable', p[2])
               \/ p[1] # 0 /\ \E i \in Rows : sltable'[i].name = p[2] /\ sltable'[i].pid = p[1]
    <3>1. CASE p \in procs.live
      BY Zenon, <1>5, <2>1, <3>1 DEF SvInv, OnRecord
    <3>2. CASE p = <<pid, name, "launchd">>
      <4>1. p[2] = name
        BY <3>2
      <4> QED
        BY Zenon, <1>5, <4>1
    <3> QED
      BY Zenon, <1>2, <3>1, <3>2
  <2> QED
    BY Zenon, <2>1 DEF OnRecord
<1>6. \/ \E k \in Rows : /\ upsert(sltable, name, pid, status) = [sltable EXCEPT ![k] = R]
                          /\ sltable[k].name \in {name, NoName}
                          /\ \A j \in Rows : sltable[j].name = name => j = k
      \/ /\ upsert(sltable, name, pid, status) = sltable
         /\ RowsOf(sltable, name) = {} /\ FreeRows(sltable) = {}
  BY <1>1, Upserted DEF R
<1>7. CASE \E k \in Rows : /\ upsert(sltable, name, pid, status) = [sltable EXCEPT ![k] = R]
                           /\ sltable[k].name \in {name, NoName}
                           /\ \A j \in Rows : sltable[j].name = name => j = k
  <2>1. PICK k \in Rows : /\ sltable' = [sltable EXCEPT ![k] = R]
                         /\ sltable[k].name \in {name, NoName}
                         /\ \A j \in Rows : sltable[j].name = name => j = k
    BY <1>7, Zenon
  <2> QED
    BY Zenon, <1>2, <1>4, <2>1
<1>8. CASE /\ upsert(sltable, name, pid, status) = sltable
           /\ RowsOf(sltable, name) = {} /\ FreeRows(sltable) = {}
  <2>1. sltable' = sltable /\ Untracked(sltable, name)
    BY Zenon, <1>8 DEF Untracked
  <2> QED
    BY Zenon, <1>1, <1>2, <1>5, <2>1
<1> QED
  BY Zenon, <1>6, <1>7, <1>8

-----------------------------------------------------------------------------
(* What a start can answer.                                                *)
LEMMA SpawnResult ==
  ASSUME SvInv, NEW name, NEW res \in spawn_service_by_name(name)
  PROVE  \/ res.r = "ok" /\ res.pid = procs.next /\ res.pid \in Nat /\ res.pid # 0
         \/ res.r \in {"failed", "not_found"} /\ res.pid = 0
BY DEF spawn_service_by_name, SvInv, SvTypes

(* The messages: none of these steps touches a process or a row.           *)
LEMMA MessagesInv ==
  ASSUME SvInv, UNCHANGED <<procs, sltable, slboot, svmix>>,
         svreq' \in [{"launchd", "controller"} -> Seq(ReqType)], svid' \in [SvClient -> Nat]
  PROVE  SvInv'
<1>1. SvTypes'
  BY Zenon DEF SvInv, SvTypes, ReqType, RowType
<1>2. OnRecord'
  BY Zenon DEF SvInv, OnRecord, Untracked, RowsOf, FreeRows
<1>3. BootPending' /\ OneRow(sltable') /\ KnownRows(sltable', slboot')
  BY Zenon DEF SvInv, BootPending
<1> QED
  BY Zenon, <1>1, <1>2, <1>3 DEF SvInv

(* Taking the oldest request of a channel.                                 *)
LEMMA HeadTaken ==
  ASSUME SvInv, NEW s \in {"launchd", "controller"}, svreq[s] # <<>>, svmix' = svmix,
         svreq' = [svreq EXCEPT ![s] = Tail(@)]
  PROVE  svreq' \in [{"launchd", "controller"} -> Seq(ReqType)] /\ Head(svreq[s]) \in ReqType
<1>1. svreq[s] \in Seq(ReqType)
  BY Zenon DEF SvInv, SvTypes
<1>2. Tail(svreq[s]) \in Seq(ReqType) /\ Head(svreq[s]) \in ReqType
  BY <1>1
<1> HIDE DEF ReqType
<1> QED
  BY Zenon, <1>2 DEF SvInv, SvTypes

(* Starting the next service of the list.                                  *)
LEMMA BootStartsInv ==
  ASSUME KnownFits, SvInv, Boot
  PROVE  SvInv'
<1> DEFINE name == Head(slboot)
<1>1. /\ slboot \in Seq(SvName) /\ slboot # <<>> /\ slboot' = Tail(slboot)
      /\ UNCHANGED <<svreq, svid, svmix>>
  BY Zenon DEF Boot, SvInv, SvTypes
<1>2. /\ name \in SvName /\ name = slboot[1] /\ 1 \in DOMAIN slboot
      /\ Tail(slboot) \in Seq(SvName)
      /\ \A i \in DOMAIN Tail(slboot) : i + 1 \in DOMAIN slboot /\ Tail(slboot)[i] = slboot[i + 1]
      /\ DOMAIN Tail(slboot) \subseteq Nat
  BY <1>1
<1>3. \A i \in Rows : sltable[i].name # name
  BY Zenon, <1>2 DEF SvInv, BootPending
<1>4. PICK res \in spawn_service_by_name(name) :
        /\ Spawned(res, name, "launchd")
        /\ sltable' = IF res.r = "ok" THEN Recorded(sltable, name, res)
                      ELSE upsert(sltable, name, 0, "not-installed")
  BY Zenon DEF Boot
<1>5. \/ res.r = "ok" /\ res.pid = procs.next /\ res.pid \in Nat /\ res.pid # 0
      \/ res.r \in {"failed", "not_found"} /\ res.pid = 0
  BY Zenon, SpawnResult
<1> HIDE DEF name
<1>0. name \in Known /\ ~Untracked(sltable, name)
  BY Zenon, <1>2, KnownFindsRow DEF SvInv, KnownRows, name
<1>6. /\ sltable' \in [Rows -> RowType] /\ OneRow(sltable') /\ OnRecord'
      /\ procs' \in [live : SUBSET (Nat \X SvName \X {"launchd", "controller"}), next : Nat \ {0}]
      /\ \A j \in Rows : sltable'[j].name \in {sltable[j].name, name}
      /\ \A j \in Rows : sltable[j].name # NoName => sltable'[j].name = sltable[j].name
      /\ \E j \in Rows : sltable'[j].name = name
  <2>1. CASE res.r = "ok"
    <3>1. /\ sltable' = upsert(sltable, name, res.pid, "running")
          /\ procs' = [live |-> procs.live \cup {<<res.pid, name, "launchd">>}, next |-> res.pid + 1]
      BY Zenon, <1>4, <2>1 DEF Spawned, Recorded
    <3>2. res.pid \in Nat /\ res.pid # 0
      BY Zenon, <1>5, <2>1
    <3>3. \A i \in Rows : sltable[i].name = name => sltable[i].pid = 0
      BY Zenon, <1>3
    <3> QED
      BY SMTT(30), <1>0, <1>2, <3>1, <3>2, <3>3, RecordInv
  <2>2. CASE res.r # "ok"
    <3>1. sltable' = upsert(sltable, name, 0, "not-installed") /\ procs' = procs
      BY Zenon, <1>4, <2>2 DEF Spawned
    <3> QED
      BY Zenon, <1>0, <1>2, <1>3, <3>1, RecordInv
  <2> QED
    BY SMTT(30), <2>1, <2>2
<1>7. \A i \in DOMAIN slboot' : slboot'[i] # name
  BY <1>1, <1>2 DEF SvInv, BootPending
<1>8. BootPending'
  <2>1. \A i, j \in DOMAIN slboot' : slboot'[i] = slboot'[j] => i = j
    BY <1>1, <1>2 DEF SvInv, BootPending
  <2>2. ASSUME NEW i \in DOMAIN slboot', NEW r \in Rows PROVE sltable'[r].name # slboot'[i]
    <3>1. slboot'[i] # name /\ sltable[r].name # slboot'[i]
      BY <1>1, <1>2, <1>7 DEF SvInv, BootPending
    <3> QED
      BY Zenon, <1>6, <3>1
  <2> QED
    BY Zenon, <2>1, <2>2 DEF BootPending
<1>9. SvTypes'
  BY Zenon, <1>1, <1>2, <1>6 DEF SvInv, SvTypes, ReqType, RowType
<1>10. KnownRows(sltable', slboot')
  <2>1. \A r \in Rows : sltable'[r].name \in Known \cup {NoName}
    BY Zenon, <1>0, <1>1, <1>6 DEF SvInv, KnownRows
  <2>2. \A i \in DOMAIN slboot' : slboot'[i] \in Known
    BY Zenon, <1>1, <1>2 DEF SvInv, KnownRows
  <2>3. ASSUME NEW n \in Known
        PROVE  \/ \E i \in DOMAIN slboot' : slboot'[i] = n
               \/ \E r \in Rows : sltable'[r].name = n
    <3>1. CASE \E r \in Rows : sltable[r].name = n
      <4>1. n # NoName
        BY Zenon, <2>3, KnownFinite DEF KnownFits, NoName
      <4> QED
        BY Zenon, <1>6, <3>1, <4>1
    <3>2. CASE n = name
      BY Zenon, <1>6, <3>2
    <3>3. CASE n # name /\ \E i \in DOMAIN slboot : slboot[i] = n
      <4>1. PICK i \in DOMAIN slboot : slboot[i] = n
        BY Zenon, <3>3
      <4>2. i # 1
        BY Zenon, <1>2, <3>3, <4>1 DEF name
      <4>3. i - 1 \in DOMAIN Tail(slboot) /\ Tail(slboot)[i - 1] = slboot[i]
        BY <1>1, <4>1, <4>2
      <4> QED
        BY Zenon, <1>1, <4>1, <4>3
    <3> QED
      BY Zenon, <2>3, <3>1, <3>2, <3>3 DEF SvInv, KnownRows
  <2> QED
    BY Zenon, <2>1, <2>2, <2>3 DEF KnownRows
<1> QED
  BY Zenon, <1>6, <1>8, <1>9, <1>10 DEF SvInv

(* A request to start a service: launchd starts it only when its row does  *)
(* not say that it runs.                                                   *)
LEMMA LaunchdInv ==
  ASSUME KnownFits, SvInv, launchd_dispatch
  PROVE  SvInv'
<1> DEFINE q == Head(svreq["launchd"])
<1>1. /\ slboot = <<>> /\ slboot' = slboot /\ svreq["launchd"] # <<>>
      /\ svreq' = [svreq EXCEPT !["launchd"] = Tail(@)] /\ UNCHANGED <<svid, svmix>>
      /\ UNCHANGED <<procs, sltable>> \/ spawn_and_record(q.name)
  BY Zenon DEF launchd_dispatch
<1>2. svreq' \in [{"launchd", "controller"} -> Seq(ReqType)] /\ q \in ReqType
  BY Zenon, <1>1, HeadTaken
<1>3. q.name \in SvName /\ svid' \in [SvClient -> Nat]
  BY Zenon, <1>1, <1>2 DEF ReqType, SvInv, SvTypes
<1>4. CASE UNCHANGED <<procs, sltable>>
  BY Zenon, <1>1, <1>2, <1>3, <1>4, MessagesInv
<1>5. CASE spawn_and_record(q.name) /\ ~AlreadyRunning(q.name)
  <2>1. PICK res \in spawn_service_by_name(q.name) :
          Spawned(res, q.name, "launchd") /\ sltable' = Recorded(sltable, q.name, res)
    BY <1>5, Zenon DEF spawn_and_record
  <2>2. \/ res.r = "ok" /\ res.pid = procs.next /\ res.pid \in Nat /\ res.pid # 0
        \/ res.r \in {"failed", "not_found"} /\ res.pid = 0
    BY Zenon, SpawnResult
  <2>3. \A i \in Rows : sltable[i].name = q.name => sltable[i].pid = 0
    BY Zenon, <1>5 DEF AlreadyRunning, RowsOf, SvInv, OneRow
  <2> HIDE DEF q
  <2>4. /\ sltable' \in [Rows -> RowType] /\ OneRow(sltable') /\ OnRecord'
        /\ procs' \in [live : SUBSET (Nat \X SvName \X {"launchd", "controller"}), next : Nat \ {0}]
        /\ \A j \in Rows : sltable[j].name # NoName => sltable'[j].name = sltable[j].name
    <3>1. CASE res.r = "ok"
      <4>1. /\ sltable' = upsert(sltable, q.name, res.pid, "running")
            /\ procs' = [live |-> procs.live \cup {<<res.pid, q.name, "launchd">>},
                         next |-> res.pid + 1]
        BY Zenon, <2>1, <3>1 DEF Spawned, Recorded
      <4> QED
        BY Zenon, <1>1, <1>3, <2>2, <2>3, <3>1, <4>1, RecordInv
    <3>2. CASE res.r # "ok"
      <4>1. PICK status \in {"not-installed", "failed"} :
              sltable' = upsert(sltable, q.name, 0, status) /\ procs' = procs
        BY Zenon, <2>1, <2>2, <3>2 DEF Spawned, Recorded
      <4> QED
        BY Zenon, <1>1, <1>3, <2>3, <4>1, RecordInv
    <3> QED
      BY Zenon, <3>1, <3>2
  <2>5. BootPending'
    BY <1>1 DEF BootPending
  <2>6. SvTypes'
    <3>1. slboot' \in Seq(SvName) /\ ReqType' = ReqType
      BY Zenon, <1>1 DEF SvInv, SvTypes, ReqType
    <3> QED
      BY Zenon, <1>2, <1>3, <2>4, <3>1 DEF SvTypes, RowType
  <2>7. KnownRows(sltable', slboot')
    <3>1. \A n \in Known : \E r \in Rows : sltable[r].name = n
      BY <1>1 DEF SvInv, KnownRows
    <3>2. \A n \in Known : n # NoName
      BY Zenon, KnownFinite DEF KnownFits, NoName
    <3>3. \A n \in Known : \E r \in Rows : sltable'[r].name = n
      BY Zenon, <2>4, <3>1, <3>2
    <3>4. slboot' = <<>> /\ \A i \in DOMAIN slboot' : slboot'[i] \in Known
      BY <1>1
    <3> QED
      BY Zenon, <3>3, <3>4 DEF KnownRows
  <2> QED
    BY Zenon, <2>4, <2>5, <2>6, <2>7 DEF SvInv
<1>6. CASE spawn_and_record(q.name) /\ AlreadyRunning(q.name)
  <2>1. UNCHANGED <<procs, sltable>>
    BY Zenon, <1>6 DEF spawn_and_record
  <2> QED
    BY Zenon, <1>4, <2>1
<1> QED
  BY Zenon, <1>1, <1>4, <1>5, <1>6

(* service-controller starts processes of its own.                         *)
LEMMA ControllerInv ==
  ASSUME SvInv, handle_message
  PROVE  SvInv'
<1> DEFINE q == Head(svreq["controller"])
<1>1. /\ svreq["controller"] # <<>> /\ svreq' = [svreq EXCEPT !["controller"] = Tail(@)]
      /\ UNCHANGED <<sltable, slboot, svid, svmix>>
      /\ UNCHANGED procs \/ handle_start(q)
  BY Zenon DEF handle_message, handle_status_report, handle_query_status
<1>2. svreq' \in [{"launchd", "controller"} -> Seq(ReqType)] /\ q \in ReqType
  BY Zenon, <1>1, HeadTaken
<1>3. q.name \in SvName /\ svid' \in [SvClient -> Nat]
  BY Zenon, <1>1, <1>2 DEF ReqType, SvInv, SvTypes
<1>4. CASE UNCHANGED procs
  BY Zenon, <1>1, <1>2, <1>3, <1>4, MessagesInv
<1>5. CASE handle_start(q) /\ procs' # procs
  <2>1. PICK res \in spawn_service_by_name(q.name) : Spawned(res, q.name, "controller")
    BY <1>5, Zenon DEF handle_start
  <2>2. /\ res.pid \in Nat
        /\ procs' = [live |-> procs.live \cup {<<res.pid, q.name, "controller">>}, next |-> res.pid + 1]
    BY Zenon, <1>5, <2>1, SpawnResult DEF Spawned
  <2> HIDE DEF q
  <2>3. procs' \in [live : SUBSET (Nat \X SvName \X {"launchd", "controller"}), next : Nat \ {0}]
    BY <1>3, <2>2 DEF SvInv, SvTypes
  <2>4. OnRecord'
    <3>1. \A p \in procs'.live : p[3] = "launchd" => p \in procs.live
      BY <2>2
    <3> QED
      BY Zenon, <1>1, <3>1 DEF OnRecord, SvInv, Untracked, RowsOf, FreeRows
  <2>5. ReqType' = ReqType
    BY Zenon, <1>1 DEF ReqType
  <2> QED
    BY Zenon, <1>1, <1>2, <1>3, <2>3, <2>4, <2>5 DEF SvInv, SvTypes, RowType, BootPending, KnownRows, Known, OneRow
<1> QED
  BY Zenon, <1>1, <1>4, <1>5

(* A process that dies leaves its row behind; no server is told.           *)
LEMMA DieInv ==
  ASSUME SvInv, Die
  PROVE  SvInv'
<1>1. PICK d \in procs.live : procs' = [procs EXCEPT !.live = @ \ {d}]
  BY Zenon DEF Die
<1>2. UNCHANGED <<sltable, slboot, svreq, svid, svmix>>
  BY Zenon DEF Die
<1>3. /\ procs' \in [live : SUBSET (Nat \X SvName \X {"launchd", "controller"}), next : Nat \ {0}]
      /\ procs'.live \subseteq procs.live
  BY Zenon, <1>1 DEF SvInv, SvTypes
<1>4. OnRecord'
  BY Zenon, <1>2, <1>3 DEF SvInv, OnRecord, Untracked, RowsOf, FreeRows
<1>5. ReqType' = ReqType
  BY Zenon, <1>2 DEF ReqType
<1> QED
  BY <1>2, <1>3, <1>4, <1>5 DEF SvInv, SvTypes, RowType, BootPending, KnownRows, Known, OneRow

(* A client sends a request or takes an answer.                            *)
LEMMA ClientInv ==
  ASSUME SvInv, NEW c \in SvClient, Request(c) \/ Answer(c)
  PROVE  SvInv'
<1>1. CASE Answer(c)
  BY Zenon, <1>1, MessagesInv DEF Answer, SvInv, SvTypes
<1>2. CASE Request(c)
  <2>1. PICK op \in svmix.ops, name \in SvName, status \in {"running", "failed"} :
          svreq' = [svreq EXCEPT ![ServerOf(op)] = IF Len(@) < SvDepth
            THEN Append(@, [op |-> op, name |-> name, id |-> svid[c] + 1, status |-> status])
            ELSE @]
    BY Zenon, <1>2 DEF Request
  <2>2. UNCHANGED <<procs, sltable, slboot, svmix>> /\ svid' = [svid EXCEPT ![c] = @ + 1]
    BY Zenon, <1>2 DEF Request
  <2>3. svid' \in [SvClient -> Nat] /\ svid[c] + 1 \in Nat
    BY <2>2 DEF SvInv, SvTypes
  <2>4. [op |-> op, name |-> name, id |-> svid[c] + 1, status |-> status] \in ReqType
    BY Zenon, <2>3 DEF ReqType
  <2>5. svreq' \in [{"launchd", "controller"} -> Seq(ReqType)]
    BY <2>1, <2>4 DEF SvInv, SvTypes, ServerOf
  <2> QED
    BY Zenon, <2>2, <2>3, <2>5, MessagesInv
<1> QED
  BY Zenon, <1>1, <1>2

(* launchd begins with an empty table and the whole list.                  *)
LEMMA SvStarts ==
  ASSUME KnownFits, SvInit
  PROVE  SvInv
<1>1. /\ procs = [live |-> {}, next |-> 1] /\ sltable = [i \in Rows |-> NoRow]
      /\ slboot = KNOWN_SERVICES /\ svreq = [s \in {"launchd", "controller"} |-> <<>>]
      /\ svid = [c \in SvClient |-> 0]
  BY Zenon DEF SvInit
<1>2. NoRow \in RowType /\ NoRow.pid = 0
  <2>1. NoRow.pid = 0 /\ NoRow.status = "none" /\ NoRow = [name |-> NoRow.name, pid |-> 0, status |-> "none"]
    BY Zenon DEF NoRow
  <2> QED
    BY <2>1 DEF RowType, NoName
<1>3. SvTypes
  BY <1>1, <1>2 DEF SvTypes, KnownFits
<1>4. OneRow(sltable)
  BY Zenon, <1>1, <1>2 DEF OneRow, NoName
<1>5. OnRecord
  BY Zenon, <1>1 DEF OnRecord
<1>6. BootPending
  BY <1>1 DEF BootPending, KnownFits
<1>7. KnownRows(sltable, slboot)
  <2>1. \A r \in Rows : sltable[r].name = NoName
    BY Zenon, <1>1 DEF NoName
  <2> QED
    BY Zenon, <1>1, <2>1 DEF KnownRows, Known
<1> QED
  BY Zenon, <1>3, <1>4, <1>5, <1>6, <1>7 DEF SvInv

(* launchd's table has one row for a name and never loses it, and a        *)
(* service that it runs is the one of its row (lib.rs:132-149, 363-392),   *)
(* or its name never finds a row.                                          *)
THEOREM SvInvariance ==
  ASSUME KnownFits
  PROVE  SvSpec => []SvInv
<1>1. SvInit => SvInv
  BY Zenon, SvStarts
<1>2. SvInv /\ [SvNext]_svVars => SvInv'
  <2> SUFFICES ASSUME SvInv, [SvNext]_svVars PROVE SvInv'
    BY Zenon
  <2>1. CASE UNCHANGED svVars
    BY Zenon, <2>1, MessagesInv DEF svVars, SvInv, SvTypes
  <2> QED
    BY Zenon, <2>1, BootStartsInv, LaunchdInv, ControllerInv, DieInv, ClientInv DEF SvNext
<1> QED
  BY <1>1, <1>2, PTL DEF SvSpec

(* What SvInv says of a name that has a row or finds one.                  *)
LEMMA TrackedOnce ==
  ASSUME KnownFits, SvInv, NEW name \in SvName, ~Untracked(sltable, name)
  PROVE  OneInstanceOf(name)
<1>1. \A p \in Started(name) :
        /\ \E i \in Rows : sltable[i].name = name /\ sltable[i].pid = p[1]
        /\ p = <<p[1], name, "launchd">>
  <2> SUFFICES ASSUME NEW p \in Started(name)
               PROVE  /\ \E i \in Rows : sltable[i].name = name /\ sltable[i].pid = p[1]
                      /\ p = <<p[1], name, "launchd">>
    BY Zenon
  <2>1. p \in procs.live /\ p[2] = name /\ p[3] = "launchd"
    BY Zenon DEF Started
  <2>2. p \in Nat \X SvName \X {"launchd", "controller"}
    BY Zenon, <2>1 DEF SvInv, SvTypes
  <2>3. \E i \in Rows : sltable[i].name = name /\ sltable[i].pid = p[1]
    BY <2>1, Zenon DEF SvInv, OnRecord
  <2> QED
    BY <2>1, <2>2, <2>3
<1>2. name # NoName
  BY Zenon, KnownFinite DEF KnownFits, NoName
<1>3. \A p, r \in Started(name) : p = r
  <2> SUFFICES ASSUME NEW p \in Started(name), NEW r \in Started(name) PROVE p = r
    BY Zenon
  <2>1. p[1] = r[1]
    BY <1>1, <1>2 DEF SvInv, OneRow
  <2> QED
    BY Zenon, <1>1, <2>1
<1>4. Cardinality(Started(name)) <= 1
  <2>1. CASE Started(name) = {}
    BY <2>1, FS_EmptySet
  <2>2. ASSUME NEW p \in Started(name) PROVE Cardinality(Started(name)) <= 1
    <3>1. Started(name) = {p}
      BY Zenon, <1>3
    <3> QED
      BY SMTT(30), <3>1, FS_Singleton
  <2> QED
    BY Zenon, <2>1, <2>2
<1> QED
  BY Zenon, <1>1, <1>4 DEF RowsOf, OneInstanceOf

(* launchd never runs two copies of a service, and the copy it runs is the *)
(* one on record, whatever it is asked and whichever processes die: a      *)
(* repeated spawn makes no second process (lib.rs:361-362), except of a    *)
(* name that found the table full.                                         *)
THEOREM LaunchdOneInstance ==
  ASSUME KnownFits
  PROVE  SvSpec => []OneInstance
<1>1. SvInv => OneInstance
  BY Zenon, TrackedOnce DEF OneInstance
<1>2. SvSpec => []SvInv
  BY Zenon, SvInvariance
<1> QED
  BY <1>1, <1>2, PTL

(* For a service that launchd starts at boot there is no exception,        *)
(* however many other names it is asked for and although they may fill its *)
(* table ("one instance only (the pid on record is unique)",               *)
(* lib.rs:249-250).                                                        *)
THEOREM KnownOneInstance ==
  ASSUME KnownFits
  PROVE  SvSpec => [](\A name \in Known : OneInstanceOf(name))
<1>1. SvInv => \A name \in Known : OneInstanceOf(name)
  BY Zenon, TrackedOnce, KnownFindsRow, KnownFinite
<1>2. SvSpec => []SvInv
  BY Zenon, SvInvariance
<1> QED
  BY <1>1, <1>2, PTL

=============================================================================
