----------------------------- MODULE MCLiveness -----------------------------
(***************************************************************************)
(* Instances for TLC of the parts that promise progress: the scheduler,    *)
(* UserMutex over the futex calls, and netd.  A behaviour runs one of      *)
(* them, chosen at the start; the others stay in their first state.        *)
(***************************************************************************)
EXTENDS Scheduler, Integers, TLC

CONSTANTS
    Parts,   \* the parts of this run
    c1, c2, p1, p2, t1, t2, t3, t4, a1, a2

VARIABLE part   \* the part of the system that runs in this behaviour

-----------------------------------------------------------------------------
(* The scheduler: two CPUs, two processes.  One level: the promise of      *)
(* WokenRuns is made to level 0, where a wakeup enqueues.                  *)
BootTwo == <<p1, p2>>

-----------------------------------------------------------------------------
(* UserMutex: two threads of each of two processes, with the mutex at the  *)
(* same address; a table that holds two of them.                           *)
VARIABLES mutex, futexes, tpc, twoken, crossed
futexVars == <<mutex, futexes, tpc, twoken, crossed>>

Threads == {t1, t2, t3, t4}
Process == {a1, a2}
space_of == [t \in Threads |-> IF t \in {t1, t2} THEN a1 ELSE a2]
FUTEX_TABLE_CAP == 2

Fx == INSTANCE Futex WITH word <- mutex, table <- futexes, pc <- tpc, wakee <- twoken

-----------------------------------------------------------------------------
(* netd bringing up its interface and one connection while the network     *)
(* loses two frames.                                                       *)
VARIABLES nd, nic, wire, host, ncli, reqs, ticked, ndbudget, ndmix
netdVars == <<nd, nic, wire, host, ncli, reqs, ticked, ndbudget, ndmix>>

NdClient == {1}
SEQ == 8
TCP_RX_CAP == 2
TCP_SYN_RETRY_LIMIT == 2
SOCKET_MAX == 2
PENDING_MAX == 1
ARP_CACHE_MAX == 2
UDP_RX == 1
NET_REQ_CAP == 1
RxSlots == {1, 2}
PEER_ISS == 6
Stream == <<"a">>
NdMixes ==
    {[clients |-> {1}, ops |-> {"connect"}, bound |-> FALSE, far |-> TRUE,
      losses |-> 2, dups |-> 0, sends |-> 0, calls |-> 1]}

Nd == INSTANCE Netd WITH due <- ticked

-----------------------------------------------------------------------------
LiveInit ==
    /\ part \in Parts
    /\ Init
    /\ Fx!FutexInit
    /\ Nd!NdInit

InScheduler == part = "Scheduler"
InFutex == part = "Futex"
InNetd == part = "Netd"

LiveNext ==
    \/ InScheduler /\ Next /\ UNCHANGED <<part, futexVars, netdVars>>
    \/ InFutex /\ Fx!FutexNext /\ UNCHANGED <<part, vars, netdVars>>
    \/ InNetd /\ Nd!NdNext /\ UNCHANGED <<part, vars, futexVars>>

liveVars == <<part, vars, futexVars, netdVars>>

(* The fairness of Scheduler and of Futex, and netd's: its loop comes back *)
(* to each of its steps, the device completes what it was given, the peer  *)
(* answers what reaches it, and time passes.                               *)
LiveFairness ==
    /\ \A c \in Cpu :
         /\ WF_vars(InScheduler /\ kernel(c))
         /\ SF_vars(InScheduler /\ timer_irq(c))
         /\ SF_vars(InScheduler /\ resched_irq(c))
    /\ \A t \in Threads : WF_futexVars(InFutex /\ Fx!Step(t))
    /\ WF_netdVars(InNetd /\ Nd!tick) /\ WF_netdVars(InNetd /\ Nd!poll_receive)
    /\ WF_netdVars(InNetd /\ Nd!transmit) /\ WF_netdVars(InNetd /\ Nd!handle_req)
    /\ WF_netdVars(InNetd /\ Nd!TxComplete) /\ WF_netdVars(InNetd /\ Nd!RxComplete)
    /\ WF_netdVars(InNetd /\ Nd!Receive) /\ WF_netdVars(InNetd /\ Nd!Expire)

LiveSpec == LiveInit /\ [][LiveNext]_liveVars /\ LiveFairness

-----------------------------------------------------------------------------
(* WokenRuns and ImplementsContract are Scheduler's.  A thread that sleeps *)
(* on the mutex is woken: "它 unlock 时一定 wake 下一个 waiter" (userlib      *)
(* UserMutex).                                                             *)
SleeperWakes == Fx!SleeperWakes

(* Whatever the network loses, netd obtains its address, and a connection  *)
(* attempt ends: "A real network may lose the first SYN" (lib.rs:208-211). *)
NetConnects == part = "Netd" => Nd!NetConnects
=============================================================================
