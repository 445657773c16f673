------------------------------ MODULE Services ------------------------------
(***************************************************************************)
(* Starting services: the kernel's registry and spawn_service_by_name      *)
(* (microkernel/src/services/mod.rs), launchd with its table of services   *)
(* (servers/launchd) and service-controller with its records               *)
(* (servers/service-controller).  Processes die on their own account; no   *)
(* server is told.                                                         *)
(***************************************************************************)
EXTENDS Naturals, Sequences, FiniteSets

CONSTANTS
  SvName,             \* names that requests use
  SvRegistered,       \* names in the kernel's SERVICE_REGISTRY with an image
  KNOWN_SERVICES,     \* the sequence launchd starts at boot
  SERVICE_TABLE_CAP,  \* rows of launchd's table
  MAX_SERVICES,       \* records of service-controller
  SvClient,
  SvDepth,            \* messages a channel holds
  SvMixes             \* the workloads: [ops, calls, deaths, fails]

VARIABLES
  procs,      \* [live, next]: processes that run, as <<pid, name, starter>>
  sltable,    \* launchd's rows: function from 1..SERVICE_TABLE_CAP to a row or NoRow
  slboot,     \* services launchd has yet to start at boot
  sctable,    \* service-controller's records, in order
  svreq,      \* requests in the channels LAUNCHD_CMD_REQ and SERVICE_CONTROL_BUS
  svresp,     \* answers in each server's channel, for whichever client asks first
  svcli,      \* the server each client waits for, or "idle"
  svid,       \* last request id of each client
  svbudget, svmix

svVars == <<procs, sltable, slboot, sctable, svreq, svresp, svcli, svid, svbudget, svmix>>

NoRow == [name |-> "", pid |-> 0, status |-> "none"]
Row(name, pid, status) == [name |-> name, pid |-> pid, status |-> status]

-----------------------------------------------------------------------------
(* The kernel. *)

\* The registry knows the name, and loading the image succeeds: the table of
\* processes or memory may be exhausted.
spawn_service_by_name(name) ==
  IF name \in SvRegistered
    THEN {[r |-> "ok", pid |-> procs.next]}
         \cup (IF svbudget.fails > 0 THEN {[r |-> "failed", pid |-> 0]} ELSE {})
    ELSE {[r |-> "not_found", pid |-> 0]}

Spawned(res, name, starter) ==
  /\ procs' = IF res.r = "ok"
                THEN [live |-> procs.live \cup {<<res.pid, name, starter>>}, next |-> res.pid + 1]
                ELSE procs
  /\ svbudget' = IF res.r = "failed" THEN [svbudget EXCEPT !.fails = @ - 1] ELSE svbudget

Die == /\ svbudget.deaths > 0
       /\ \E p \in procs.live : procs' = [procs EXCEPT !.live = @ \ {p}]
       /\ svbudget' = [svbudget EXCEPT !.deaths = @ - 1]
       /\ UNCHANGED <<sltable, slboot, sctable, svreq, svresp, svcli, svid, svmix>>

-----------------------------------------------------------------------------
(* launchd. *)

\* The send of an answer is not checked: a full channel loses it.
respond(server, code) ==
  svresp' = [svresp EXCEPT ![server] = IF Len(@) < SvDepth THEN Append(@, code) ELSE @]
CodeOf(res) == IF res.r = "ok" THEN 0 ELSE 2

Rows == 1 .. SERVICE_TABLE_CAP
RowsOf(t, name) == {i \in Rows : t[i].name = name}
FreeRows(t) == {i \in Rows : t[i] = NoRow}
First(S) == CHOOSE i \in S : \A j \in S : i <= j

\* Mutant: a result is always put in a new row.
InsertRow(t, name, pid, status) ==
  IF FreeRows(t) # {} THEN [t EXCEPT ![First(FreeRows(t))] = Row(name, pid, status)] ELSE t

\* A full table keeps no row for a new name.
upsert(t, name, pid, status) ==
  IF RowsOf(t, name) # {} THEN [t EXCEPT ![First(RowsOf(t, name))] = Row(name, pid, status)]
  ELSE IF FreeRows(t) # {} THEN [t EXCEPT ![First(FreeRows(t))] = Row(name, pid, status)]
  ELSE t

Recorded(t, name, res) ==
  upsert(t, name, res.pid,
         CASE res.r = "ok" -> "running" [] res.r = "not_found" -> "not-installed"
           [] OTHER -> "failed")

Boot ==
  /\ slboot # <<>>
  /\ \E res \in spawn_service_by_name(Head(slboot)) :
       /\ Spawned(res, Head(slboot), "launchd")
       /\ sltable' = IF res.r = "ok" THEN Recorded(sltable, Head(slboot), res)
                     ELSE upsert(sltable, Head(slboot), 0, "not-installed")
  /\ slboot' = Tail(slboot)
  /\ UNCHANGED <<sctable, svreq, svresp, svcli, svid, svmix>>

\* The row says the service runs: nothing is started, for a restart either.
AlreadyRunning(name) ==
  \E i \in RowsOf(sltable, name) : sltable[i].pid # 0 /\ sltable[i].status \in {"running", "starting"}
spawn_and_record(name) ==
  IF AlreadyRunning(name) THEN respond("launchd", 1) /\ UNCHANGED <<procs, sltable, svbudget>>
  ELSE \E res \in spawn_service_by_name(name) :
         /\ Spawned(res, name, "launchd")
         /\ sltable' = Recorded(sltable, name, res)
         /\ respond("launchd", CodeOf(res))

\* list and status read the table only.
launchd_dispatch ==
  /\ slboot = <<>>
  /\ svreq["launchd"] # <<>>
  /\ IF Head(svreq["launchd"]).op = "list"
       THEN respond("launchd", 0) /\ UNCHANGED <<procs, sltable, svbudget>>
       ELSE spawn_and_record(Head(svreq["launchd"]).name)
  /\ svreq' = [svreq EXCEPT !["launchd"] = Tail(@)]
  /\ UNCHANGED <<slboot, sctable, svcli, svid, svmix>>

-----------------------------------------------------------------------------
(* service-controller. *)

RecsOf(name) == {i \in DOMAIN sctable : sctable[i].name = name}
NewRec(q, status, pid) ==
  [name |-> q.name, last |-> q.id, status |-> status, pid |-> pid, restarts |-> 0]

\* A full table loses its last record to the new one.
update_service_record(q, status, pid) ==
  IF RecsOf(q.name) # {}
    THEN [sctable EXCEPT ![First(RecsOf(q.name))] =
            [@ EXCEPT !.last = q.id, !.status = status,
                      !.pid = IF status = "failed" \/ pid # 0 THEN pid ELSE @]]
    ELSE Append(IF Len(sctable) = MAX_SERVICES THEN SubSeq(sctable, 1, MAX_SERVICES - 1)
                ELSE sctable, NewRec(q, status, pid))

\* handle_start and handle_restart differ in their texts only.
handle_start(q) ==
  \E res \in spawn_service_by_name(q.name) :
    /\ Spawned(res, q.name, "controller")
    /\ sctable' = update_service_record(q, IF res.r = "ok" THEN "starting" ELSE "failed", res.pid)
    /\ respond("controller", CodeOf(res))

\* A report is matched by its request id first, then by the name.
ById(q) == {i \in DOMAIN sctable : sctable[i].last = q.id}
Reported(rec, q, count) ==
  [rec EXCEPT !.status = q.status, !.last = q.id,
              !.restarts = IF count /\ q.status = "running" THEN @ + 1 ELSE @]
handle_status_report(q) ==
  /\ sctable' = IF ById(q) # {} THEN [sctable EXCEPT ![First(ById(q))] = Reported(@, q, TRUE)]
                ELSE IF RecsOf(q.name) # {}
                  THEN [sctable EXCEPT ![First(RecsOf(q.name))] = Reported(@, q, FALSE)]
                ELSE sctable
  /\ respond("controller", IF ById(q) \cup RecsOf(q.name) # {} /\ q.status = "running" THEN 0 ELSE 2)
  /\ UNCHANGED <<procs, svbudget>>

handle_query_status(q) ==
  /\ respond("controller", IF RecsOf(q.name) # {} THEN 0 ELSE 2)
  /\ UNCHANGED <<procs, sctable, svbudget>>

handle_message ==
  /\ svreq["controller"] # <<>>
  /\ LET q == Head(svreq["controller"]) IN
       CASE q.op = "start" -> handle_start(q)
         [] q.op = "report" -> handle_status_report(q)
         [] OTHER -> handle_query_status(q)
  /\ svreq' = [svreq EXCEPT !["controller"] = Tail(@)]
  /\ UNCHANGED <<sltable, slboot, svcli, svid, svmix>>

-----------------------------------------------------------------------------
(* Clients.  The events service-controller also emits go to a channel that   *)
(* nothing reads.                                                           *)

ServerOf(op) == IF op \in {"spawn", "restart", "list"} THEN "launchd" ELSE "controller"

\* A request a full channel refuses is given up.
Request(c) ==
  /\ svcli[c] = "idle" /\ svbudget.calls > 0
  /\ \E op \in svmix.ops, name \in SvName, status \in {"running", "failed"} :
       LET to == ServerOf(op) IN
       /\ op # "report" => status = "running"
       /\ svreq' = [svreq EXCEPT ![to] = IF Len(@) < SvDepth
            THEN Append(@, [op |-> op, name |-> name, id |-> svid[c] + 1, status |-> status])
            ELSE @]
       /\ svcli' = [svcli EXCEPT ![c] = IF Len(svreq[to]) < SvDepth THEN to ELSE "idle"]
  /\ svid' = [svid EXCEPT ![c] = @ + 1]
  /\ svbudget' = [svbudget EXCEPT !.calls = @ - 1]
  /\ UNCHANGED <<procs, sltable, slboot, sctable, svresp, svmix>>

\* Whichever client receives next takes the oldest answer.
Answer(c) ==
  /\ svcli[c] # "idle" /\ svresp[svcli[c]] # <<>>
  /\ svresp' = [svresp EXCEPT ![svcli[c]] = Tail(@)]
  /\ svcli' = [svcli EXCEPT ![c] = "idle"]
  /\ UNCHANGED <<procs, sltable, slboot, sctable, svreq, svid, svbudget, svmix>>

SvInit ==
  /\ svmix \in SvMixes
  /\ procs = [live |-> {}, next |-> 1]
  /\ sltable = [i \in Rows |-> NoRow]
  /\ slboot = KNOWN_SERVICES
  /\ sctable = <<>>
  /\ svreq = [s \in {"launchd", "controller"} |-> <<>>]
  /\ svresp = svreq
  /\ svcli = [c \in SvClient |-> "idle"]
  /\ svid = [c \in SvClient |-> 0]
  /\ svbudget = [calls |-> svmix.calls, deaths |-> svmix.deaths, fails |-> svmix.fails]

SvNext == \/ Boot \/ launchd_dispatch \/ handle_message \/ Die
          \/ \E c \in SvClient : Request(c) \/ Answer(c)

SvSpec == SvInit /\ [][SvNext]_svVars

-----------------------------------------------------------------------------
SvTypeOK ==
  /\ \A i \in Rows : sltable[i].pid \in 0 .. procs.next
  /\ Len(sctable) <= MAX_SERVICES
  /\ \A i \in DOMAIN sctable : sctable[i].status \in {"starting", "running", "failed"}
  /\ \A p \in procs.live : p[1] < procs.next

Started(name) == {p \in procs.live : p[2] = name /\ p[3] = "launchd"}

OneInstanceOf(name) ==
  /\ Cardinality(Started(name)) <= 1
  /\ \A p \in Started(name) : \E i \in RowsOf(sltable, name) : sltable[i].pid = p[1]

\* The name found no row, and never will: rows are not given up.
Untracked(t, name) == RowsOf(t, name) = {} /\ FreeRows(t) = {}

\* launchd never runs two copies of a service, whatever it is asked and however
\* starting failed before: "a repeated spawn would make a second process"
\* (launchd lib.rs:361-362).  And a copy it runs is the one its row names: "one
\* instance only (the pid on record is unique)" (249-250).  The exception is a
\* name that finds the table full, for then upsert records nothing (132-149):
\* such a service is started again on every request.
OneInstance == \A name \in SvName : OneInstanceOf(name) \/ Untracked(sltable, name)

\* launchd's list shows the state of the system: a service it calls running
\* runs ("without a manual spawn, `launchd list` reflects the real state of the
\* system", launchd lib.rs:249).
\* It fails, as launchd is not told of a death: README.md, section 5.
ListTruthful ==
  \A i \in Rows : sltable[i].status = "running" =>
    \E p \in procs.live : p[1] = sltable[i].pid
=============================================================================
