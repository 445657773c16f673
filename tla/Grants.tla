------------------------------- MODULE Grants -------------------------------
(***************************************************************************)
(* The capability ledger and the login sessions of microkernel/src/        *)
(* security.rs, with the process-table fields they work on (process.rs)    *)
(* and the system calls that reach them (syscalls.rs).                     *)
(*                                                                         *)
(* The ledger (BOOK) and the process table have a lock each, and every     *)
(* operation takes them one after the other: what it read under the first  *)
(* may be out of date when it acts under the second.  Each locked step is  *)
(* one action, so that the operations of processes on different CPUs       *)
(* interleave.  Pid 1 is securityd, the holder of CAP_ISSUER.              *)
(***************************************************************************)
EXTENDS Naturals, FiniteSets

CONSTANTS
    MaxGPid,        \* bound: processes ever created
    MaxToken,       \* bound: tokens ever issued
    MaxSid,         \* bound: sessions ever begun
    MaxGCalls,      \* bound: system calls and exits of a behaviour
    MaxNow,         \* bound: the clock, in units of the shortest TTL
    MAX_GRANTS,     \* security.rs: rows of the ledger
    MAX_SESSIONS    \* security.rs: live sessions

ASSUME GrantAssumption ==
    /\ MaxGPid \in Nat /\ MaxToken \in Nat /\ MaxSid \in Nat /\ MaxGCalls \in Nat
    /\ MaxNow \in Nat /\ MAX_GRANTS \in Nat /\ MAX_SESSIONS \in Nat

VARIABLES
    gproc,          \* gproc[p]: state and session of the record of pid p
    gop,            \* gop[p]: the operation p is in the middle of
    grants,         \* GrantBook.grants
    sessions,       \* GrantBook.sessions
    next_token,
    next_session,
    gnow,           \* monotonic milliseconds
    gcalls          \* calls made so far

grantVars == <<gproc, gop, grants, sessions, next_token, next_session, gnow,
               gcalls>>
bookVars == <<grants, sessions, next_token, next_session>>

GPid == 1 .. MaxGPid
Issuer == 1
(* What securityd asks for: a login token (CAP_SESSION) that expires, or    *)
(* CAP_SPAWN_SVC with ttl 0, which never does.                              *)
Requests == {[caps |-> {"session"}, ttl |-> 1], [caps |-> {"spawn"}, ttl |-> 0]}
Never == MaxNow + 2                         \* expires_at = u64::MAX
NoOp == [pc |-> "none"]

(* kernel_main has started securityd and the login shell.                   *)
GrantInit ==
    /\ gproc = [p \in GPid |-> [alive |-> p <= 2, session |-> 0]]
    /\ gop = [p \in GPid |-> NoOp]
    /\ grants = {}
    /\ sessions = {}
    /\ next_token = 1
    /\ next_session = 1
    /\ gnow = 0
    /\ gcalls = 0

Alive(p) == gproc[p].alive
Ready(p) == /\ Alive(p) /\ gop[p] = NoOp
            /\ gcalls < MaxGCalls /\ gcalls' = gcalls + 1
session_of_pid(p) == IF Alive(p) THEN gproc[p].session ELSE 0
Unborn == {p \in GPid : ~Alive(p) /\ gop[p] = NoOp}
Sids == {s.id : s \in sessions}

(* Grant::covers: in the ledger, not expired, bound to no session or to the *)
(* one the process is in.                                                   *)
covers(g, p, sess) == g.pid = p /\ gnow < g.expires_at /\ g.session \in {0, sess}

-----------------------------------------------------------------------------
(* issue_grant: the target's slot is looked up, then its session is read,   *)
(* then the ledger is locked.                                               *)
issue_grant(p, t, r) ==
    /\ Ready(p) /\ p = Issuer
    /\ Alive(t)
    /\ gop' = [gop EXCEPT ![p] = [pc |-> "issue_read", pid |-> t, caps |-> r.caps, ttl |-> r.ttl]]
    /\ UNCHANGED <<gproc, bookVars, gnow>>

issue_session(p) ==
    /\ gop[p].pc = "issue_read"
    /\ gop' = [gop EXCEPT ![p] = [pc |-> "issue", pid |-> gop[p].pid, caps |-> gop[p].caps,
                                  ttl |-> gop[p].ttl, session |-> session_of_pid(gop[p].pid)]]
    /\ UNCHANGED <<gproc, bookVars, gnow, gcalls>>

Unexpired == {g \in grants : gnow < g.expires_at}

(* GrantBook::issue.  "late" records that the session was over when the row *)
(* was written: it ended after issue_session read it, or the target still   *)
(* carried its number (it is not a field of the code's row).                *)
issue(p) ==
    /\ gop[p].pc = "issue"
    /\ next_token <= MaxToken
    /\ gop' = [gop EXCEPT ![p] = NoOp]
    /\ IF Cardinality(Unexpired) >= MAX_GRANTS
       THEN grants' = Unexpired /\ UNCHANGED next_token
       ELSE /\ grants' = Unexpired \cup
                  {[token |-> next_token, pid |-> gop[p].pid, caps |-> gop[p].caps,
                    expires_at |-> IF gop[p].ttl = 0 THEN Never ELSE gnow + gop[p].ttl,
                    session |-> gop[p].session,
                    late |-> gop[p].session \notin Sids \cup {0}]}
            /\ next_token' = next_token + 1
    /\ UNCHANGED <<gproc, sessions, next_session, gnow, gcalls>>

revoke_grant(p, token) ==
    /\ Ready(p) /\ p = Issuer
    /\ \E g \in grants : g.token = token
    /\ grants' = {g \in grants : g.token # token}
    /\ UNCHANGED <<gproc, gop, sessions, next_token, next_session, gnow>>

-----------------------------------------------------------------------------
(* Mutant: logging out forgets the session and keeps the grants bound to it. *)
KeepBoundGrants(gs, sid) == gs

(* purge_session_book: what is left of the ledger's rows.                   *)
purge_session_book(gs, sid) == {g \in gs : g.session # sid}

Led(p) == {s \in sessions : s.leader = p}

(* begin_session: the login token is consumed and the ledger changed under  *)
(* one lock; the members of the session that ended and the caller's own     *)
(* record follow under the process table's.                                 *)
begin_session(p, g) ==
    /\ Ready(p)
    /\ g \in grants /\ g.pid = p /\ "session" \in g.caps /\ gnow < g.expires_at
    /\ Led(p) = {} => Cardinality(sessions) < MAX_SESSIONS
    /\ next_session <= MaxSid
    /\ IF Led(p) = {}
       THEN /\ grants' = grants \ {g}
            /\ gop' = [gop EXCEPT ![p] = [pc |-> "set", pid |-> p, session |-> next_session]]
       ELSE \E s \in Led(p) :
              /\ grants' = purge_session_book(grants \ {g}, s.id)
              /\ gop' = [gop EXCEPT ![p] = [pc |-> "clear", dead |-> s.id,
                                            session |-> next_session]]
    /\ sessions' = (sessions \ Led(p)) \cup {[id |-> next_session, leader |-> p]}
    /\ next_session' = next_session + 1
    /\ UNCHANGED <<gproc, next_token, gnow>>

(* clear_session_members(sid, keep).                                        *)
clear_session_members(sid, keep) ==
    gproc' = [q \in GPid |-> IF Alive(q) /\ gproc[q].session = sid /\ q # keep
                             THEN [alive |-> TRUE, session |-> 0] ELSE gproc[q]]

begin_clear(p) ==
    /\ gop[p].pc = "clear"
    /\ clear_session_members(gop[p].dead, p)
    /\ gop' = [gop EXCEPT ![p] = [pc |-> "set", pid |-> p, session |-> gop[p].session]]
    /\ UNCHANGED <<bookVars, gnow, gcalls>>

(* set_session: silent when the process is gone.                            *)
set_session(p) ==
    /\ gop[p].pc = "set"
    /\ gproc' = IF Alive(gop[p].pid)
                THEN [gproc EXCEPT ![gop[p].pid].session = gop[p].session] ELSE gproc
    /\ gop' = [gop EXCEPT ![p] = NoOp]
    /\ UNCHANGED <<bookVars, gnow, gcalls>>

-----------------------------------------------------------------------------
(* fork: the parent's record is copied, the address space cloned, and the   *)
(* child's record inserted with the session of the copy.                    *)
fork_copy(p) ==
    /\ Ready(p) /\ p # Issuer
    /\ gop' = [gop EXCEPT ![p] = [pc |-> "fork", session |-> gproc[p].session]]
    /\ UNCHANGED <<gproc, bookVars, gnow>>

fork_insert(p) ==
    /\ gop[p].pc = "fork"
    /\ \E c \in Unborn :
         /\ \A q \in Unborn : c <= q
         /\ gproc' = [gproc EXCEPT ![c] = [alive |-> TRUE, session |-> gop[p].session]]
    /\ gop' = [gop EXCEPT ![p] = NoOp]
    /\ UNCHANGED <<bookVars, gnow, gcalls>>

(* SpawnService: effective_caps reads the caller's session, then evaluates  *)
(* the ledger; the new service runs before it is given the caller's session.*)
SpawnService(p) ==
    /\ Ready(p) /\ p # Issuer
    /\ gop' = [gop EXCEPT ![p] = [pc |-> "gate", session |-> gproc[p].session]]
    /\ UNCHANGED <<gproc, bookVars, gnow>>

effective_caps(p) ==
    /\ gop[p].pc = "gate"
    /\ IF \E g \in grants : covers(g, p, gop[p].session) /\ "spawn" \in g.caps
       THEN \E c \in Unborn :
              /\ \A q \in Unborn : c <= q
              /\ gproc' = [gproc EXCEPT ![c] = [alive |-> TRUE, session |-> 0]]
              /\ gop' = [gop EXCEPT ![p] = [pc |-> "spawned", child |-> c]]
       ELSE gop' = [gop EXCEPT ![p] = NoOp] /\ UNCHANGED gproc
    /\ UNCHANGED <<bookVars, gnow, gcalls>>

spawn_session(p) ==
    /\ gop[p].pc = "spawned"
    /\ gop' = [gop EXCEPT ![p] = IF gproc[p].session = 0 THEN NoOp
                                 ELSE [pc |-> "set", pid |-> gop[p].child,
                                       session |-> gproc[p].session]]
    /\ UNCHANGED <<gproc, bookVars, gnow, gcalls>>

-----------------------------------------------------------------------------
(* full_reap and waitpid take the record out of the table and release the   *)
(* table's lock before they call on_process_gone.                           *)
full_reap(p) ==
    /\ Ready(p) /\ p # Issuer
    /\ gproc' = [gproc EXCEPT ![p] = [alive |-> FALSE, session |-> 0]]
    /\ gop' = [gop EXCEPT ![p] = [pc |-> "gone"]]
    /\ UNCHANGED <<bookVars, gnow>>

security_on_process_gone(p) ==
    /\ gop[p].pc = "gone"
    /\ grants' = {g \in grants : g.pid # p /\ \A s \in Led(p) : g \in purge_session_book({g}, s.id)}
    /\ sessions' = sessions \ Led(p)
    /\ gop' = [gop EXCEPT ![p] = IF Led(p) = {} THEN [pc |-> "buried"]
                                 ELSE [pc |-> "clear_gone", dead |-> (CHOOSE s \in Led(p) : TRUE).id]]
    /\ UNCHANGED <<gproc, next_token, next_session, gnow, gcalls>>

gone_clear(p) ==
    /\ gop[p].pc = "clear_gone"
    /\ clear_session_members(gop[p].dead, p)
    /\ gop' = [gop EXCEPT ![p] = [pc |-> "buried"]]
    /\ UNCHANGED <<bookVars, gnow, gcalls>>

(* The record is removed without on_process_gone: at delivery to a waiting  *)
(* parent, and for the zombies full_reap takes along.                       *)
removed_without_hooks(p) ==
    /\ Ready(p) /\ p # Issuer
    /\ gproc' = [gproc EXCEPT ![p] = [alive |-> FALSE, session |-> 0]]
    /\ gop' = [gop EXCEPT ![p] = [pc |-> "unhooked"]]
    /\ UNCHANGED <<bookVars, gnow>>

Clock ==
    /\ gnow < MaxNow
    /\ gnow' = gnow + 1
    /\ UNCHANGED <<gproc, gop, bookVars, gcalls>>

GrantNext ==
    \/ Clock
    \/ \E p \in GPid :
         \/ \E t \in GPid, r \in Requests : issue_grant(p, t, r)
         \/ issue_session(p) \/ issue(p)
         \/ \E token \in 1 .. MaxToken : revoke_grant(p, token)
         \/ \E g \in grants : begin_session(p, g)
         \/ begin_clear(p) \/ set_session(p)
         \/ fork_copy(p) \/ fork_insert(p)
         \/ SpawnService(p) \/ effective_caps(p) \/ spawn_session(p)
         \/ full_reap(p) \/ security_on_process_gone(p) \/ gone_clear(p)
         \/ removed_without_hooks(p)

GrantSpec == GrantInit /\ [][GrantNext]_grantVars

-----------------------------------------------------------------------------
GrantTypeOK ==
    /\ gproc \in [GPid -> [alive : BOOLEAN, session : 0 .. MaxSid]]
    /\ \A g \in grants : /\ g.token \in 1 .. MaxToken /\ g.pid \in GPid
                         /\ g.caps \in {r.caps : r \in Requests} /\ g.session \in 0 .. MaxSid
    /\ Cardinality(grants) <= MAX_GRANTS
    /\ Cardinality(sessions) <= MAX_SESSIONS
    /\ \A s \in sessions : s.id \in 1 .. MaxSid /\ s.leader \in GPid

(* Logging out ends the session's grants (security.rs, design point 3: "会话 *)
(* 注销时其名下全部授予一并失效"): a row bound to a session is in the ledger  *)
(* only while that session is, whatever the leader and the members did      *)
(* between their locks, unless the row was written when the session was     *)
(* over already, for issue_grant reads the session before it locks the book *)
(* (late).  And no session outlives its leader, so that its place among the *)
(* MAX_SESSIONS is not lost: the leader has a record, or its reaper has not *)
(* yet reached on_process_gone, or its record was removed on a path that    *)
(* never calls it (the finding GoneCleaned of the lifecycle).               *)
LedgerFollowsSessions ==
    /\ \A g \in grants : g.session \in Sids \cup {0} \/ g.late
    /\ \A s \in sessions : Alive(s.leader) \/ gop[s.leader].pc \in {"gone", "unhooked"}
    /\ \A s, r \in sessions : s.leader = r.leader => s = r
=============================================================================
