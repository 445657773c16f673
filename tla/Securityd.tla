------------------------------ MODULE Securityd ------------------------------
(***************************************************************************)
(* securityd (servers/security): the user database it keeps in memory and  *)
(* in a header sector plus a record area on the block device, the roles it *)
(* remembers for the processes that verified a password, and its mirror of *)
(* the kernel's capability ledger.                                         *)
(*                                                                         *)
(* A record line takes LineLen[name] cells, a sector SECTOR cells; a zero  *)
(* byte is the cell Zero.  Digests are password numbers.                   *)
(***************************************************************************)
EXTENDS Naturals, Sequences, FiniteSets

CONSTANTS
  SdClient,            \* processes that send commands
  UserName, LineLen,   \* names, and the length of each name's line
  SECTOR, USERDB_RECORD_SECTORS,
  USER_CAPACITY, AUTH_CAPACITY, CAP_LEDGER_CAP,
  Defaults,            \* /etc/users of the boot file system
  SdMixes              \* the workloads: [ops, start, calls, crashes, ioerrs]

VARIABLES
  users,      \* USERS
  authz,      \* AUTHZ: <<pid, role>> rows, oldest first
  mirror,     \* CAP_LEDGER
  kgrants,    \* tokens live in the kernel's ledger, next token
  udisk,      \* [hdr, sec]: header valid, the record sectors
  sdpc,       \* [at, blob, left]: where persist_users is
  durable,    \* stores a restart may come back with
  uwritten,   \* history: [done, need], sectors of the save that wrote last
  sdbudget, sdmix

sdVars == <<users, authz, mirror, kgrants, udisk, sdpc, durable, uwritten, sdbudget, sdmix>>

Admin == "admin"
Zero == [name |-> "", pw |-> 0, role |-> "", i |-> 0, end |-> FALSE]
Cells(r) == [i \in 1 .. LineLen[r.name] |->
               [name |-> r.name, pw |-> r.pw, role |-> r.role, i |-> i,
                end |-> i = LineLen[r.name]]]

SectorNo == 1 .. USERDB_RECORD_SECTORS
At(flat, k) == IF k <= Len(flat) THEN flat[k] ELSE Zero
SectorsOf(flat) == [s \in SectorNo |-> [k \in 1 .. SECTOR |-> At(flat, (s - 1) * SECTOR + k)]]
Area(sec) == [k \in 1 .. USERDB_RECORD_SECTORS * SECTOR |->
                sec[((k - 1) \div SECTOR) + 1][((k - 1) % SECTOR) + 1]]
UsedSectors(flat) == IF Len(flat) = 0 THEN 1 ELSE ((Len(flat) - 1) \div SECTOR) + 1

\* Lines in order: a function over the records, as the file is at most a few lines.
RECURSIVE Lines(_)
Lines(rs) == IF rs = <<>> THEN <<>> ELSE Cells(Head(rs)) \o Lines(Tail(rs))

-----------------------------------------------------------------------------
(* apply_user_blob: a line counts when it starts the area or follows a      *)
(* newline, begins with a name, has a digest and a role, and no zero byte   *)
(* or second name in it; a line put together of two saves has a digest that *)
(* is neither's (0).  The first cell of a line is its name, the last its    *)
(* role with the newline.                                                   *)

Whole(a, p, e) ==
  /\ a[p].i = 1 /\ (p = 1 \/ a[p - 1].end) /\ p + 1 < e /\ a[e].end
  /\ \A k \in p + 1 .. e : a[k].i > 1 /\ (k < e => ~a[k].end)
EndsOf(a, p) == {e \in p .. Len(a) : Whole(a, p, e)}
RecordAt(a, p) ==
  LET e == CHOOSE x \in EndsOf(a, p) : TRUE
      n == LineLen[a[p].name]
  IN
  [name |-> a[p].name, role |-> a[e].role,
   pw |-> IF e = p + n - 1 /\ \A k \in 1 .. n - 1 :
                  a[p + k].i = k + 1 /\ a[p + k].name = a[p].name /\ a[p + k].pw = a[p].pw
          THEN a[p].pw ELSE 0]

RECURSIVE Parsed(_, _)
Parsed(a, p) == IF p > Len(a) THEN <<>>
                ELSE (IF EndsOf(a, p) # {} THEN <<RecordAt(a, p)>> ELSE <<>>) \o Parsed(a, p + 1)
apply_user_blob(a) == SubSeq(Parsed(a, 1), 1, IF Len(Parsed(a, 1)) < USER_CAPACITY
                                                THEN Len(Parsed(a, 1)) ELSE USER_CAPACITY)

-----------------------------------------------------------------------------
(* write_user_blob: the record sectors, then the header, then both read     *)
(* back.  The handler's answer does not depend on the outcome.              *)

Idle == [at |-> "idle", blob |-> <<>>, next |-> 1]
persist_users(rs) == sdpc' = [at |-> "records", blob |-> Lines(rs), next |-> 1]

Failed == /\ sdbudget.ioerrs > 0
          /\ sdpc' = Idle
          /\ sdbudget' = [sdbudget EXCEPT !.ioerrs = @ - 1]

\* block_write transfers sector by sector: power can fail, and the transfer end in
\* an error, between two.  The sector of a failed transfer may be written.
WriteSector ==
  /\ udisk' = [udisk EXCEPT !.sec[sdpc.next] = SectorsOf(sdpc.blob)[sdpc.next]]
  /\ uwritten' = [done |-> sdpc.next, need |-> UsedSectors(sdpc.blob)]
WriteRecords ==
  /\ sdpc.at = "records"
  /\ \/ /\ WriteSector
        /\ sdpc' = IF sdpc.next = UsedSectors(sdpc.blob) THEN [sdpc EXCEPT !.at = "header"]
                   ELSE [sdpc EXCEPT !.next = @ + 1]
        /\ UNCHANGED sdbudget
     \/ Failed /\ (WriteSector \/ UNCHANGED <<udisk, uwritten>>)
  /\ UNCHANGED <<users, authz, mirror, kgrants, durable, sdmix>>

WriteHeader ==
  /\ sdpc.at = "header"
  /\ \/ /\ udisk' = [udisk EXCEPT !.hdr = TRUE]
        /\ sdpc' = [sdpc EXCEPT !.at = "verify"]
        /\ UNCHANGED sdbudget
     \/ Failed /\ \E h \in {TRUE, udisk.hdr} : udisk' = [udisk EXCEPT !.hdr = h]
  /\ UNCHANGED <<users, authz, mirror, kgrants, durable, uwritten, sdmix>>

Same == \A s \in 1 .. UsedSectors(sdpc.blob) : udisk.sec[s] = SectorsOf(sdpc.blob)[s]
ReadBack ==
  /\ sdpc.at = "verify"
  /\ \/ /\ sdpc' = Idle
        /\ durable' = IF udisk.hdr /\ Same THEN {users} ELSE durable
        /\ UNCHANGED sdbudget
     \/ Failed /\ UNCHANGED durable
  /\ UNCHANGED <<users, authz, mirror, kgrants, udisk, uwritten, sdmix>>

-----------------------------------------------------------------------------
(* Start and power loss. *)

LastNonZero(a) == {k \in 1 .. Len(a) : a[k] # Zero}
load_persisted_records ==
  IF ~udisk.hdr \/ LastNonZero(Area(udisk.sec)) = {} THEN <<>>
  ELSE apply_user_blob(Area(udisk.sec))

\* Without a database that parses, and on a read error, the defaults are taken
\* and written to the device.
Seeded == users' = Defaults /\ persist_users(Defaults)
init_user_store ==
  /\ sdpc.at = "down"
  /\ \/ /\ load_persisted_records # <<>>
        /\ users' = load_persisted_records
        /\ sdpc' = Idle
        /\ UNCHANGED <<durable, sdbudget>>
     \/ /\ load_persisted_records = <<>>
        /\ Seeded
        /\ UNCHANGED <<durable, sdbudget>>
     \/ /\ sdbudget.ioerrs > 0
        /\ Seeded /\ durable' = durable \cup {Defaults}
        /\ sdbudget' = [sdbudget EXCEPT !.ioerrs = @ - 1]
  /\ UNCHANGED <<authz, mirror, kgrants, udisk, uwritten, sdmix>>

Crash ==
  /\ sdbudget.crashes > 0
  /\ sdpc.at # "down"
  /\ sdpc' = [Idle EXCEPT !.at = "down"]
  /\ users' = <<>> /\ authz' = <<>> /\ mirror' = <<>>
  /\ kgrants' = [live |-> {}, next |-> 1]
  /\ sdbudget' = [sdbudget EXCEPT !.crashes = @ - 1]
  /\ UNCHANGED <<udisk, durable, uwritten, sdmix>>

-----------------------------------------------------------------------------
(* process_command. *)

Rows(s) == {i \in DOMAIN authz : authz[i][1] = s}
is_admin(s) == \E i \in Rows(s) : authz[i][2] = Admin
remember_authenticated(s, role) ==
  IF Rows(s) # {} THEN [i \in DOMAIN authz |-> IF i \in Rows(s) THEN <<s, role>> ELSE authz[i]]
  ELSE Append(IF Len(authz) = AUTH_CAPACITY THEN Tail(authz) ELSE authz, <<s, role>>)

Found(name) == {i \in DOMAIN users : users[i].name = name}
find_index(name) == CHOOSE i \in Found(name) : \A j \in Found(name) : i <= j

handle_verify(s) ==
  \E name \in UserName, pw \in {1, 2} :
    /\ Found(name) # {} /\ users[find_index(name)].pw = pw
    /\ authz' = remember_authenticated(s, users[find_index(name)].role)
    /\ UNCHANGED <<users, mirror, kgrants, sdpc, durable>>

Store(rs) == /\ users' = rs
             /\ persist_users(rs)
             /\ durable' = durable \cup {rs}
             /\ UNCHANGED <<authz, mirror, kgrants>>

handle_add ==
  \E name \in UserName :
    /\ Len(users) < USER_CAPACITY /\ Found(name) = {}
    /\ Store(Append(users, [name |-> name, pw |-> 1, role |-> "user"]))

\* swap_remove: the last record takes the place of the removed one.
SwapRemove(rs, i) == [j \in 1 .. Len(rs) - 1 |-> IF j = i THEN rs[Len(rs)] ELSE rs[j]]
handle_delete ==
  \E name \in UserName :
    /\ Found(name) # {}
    /\ Store(SwapRemove(users, find_index(name)))

handle_passwd ==
  \E name \in UserName :
    /\ Found(name) # {}
    /\ Store([users EXCEPT ![find_index(name)].pw = 2])

\* A full mirror keeps no row: the kernel's ledger is the authority.
handle_cap_issue(s) ==
  /\ Rows(s) # {}
  /\ kgrants' = [live |-> kgrants.live \cup {kgrants.next}, next |-> kgrants.next + 1]
  /\ mirror' = IF Len(mirror) < CAP_LEDGER_CAP
                 THEN Append(mirror, [token |-> kgrants.next, revoked |-> FALSE]) ELSE mirror
  /\ UNCHANGED <<users, authz, sdpc, durable>>

Revoked(t) == [i \in DOMAIN mirror |-> IF mirror[i].token = t
                                         THEN [mirror[i] EXCEPT !.revoked = TRUE] ELSE mirror[i]]
handle_cap_revoke ==
  \E t \in kgrants.live :
    /\ kgrants' = [kgrants EXCEPT !.live = @ \ {t}]
    /\ mirror' = Revoked(t)
    /\ UNCHANGED <<users, authz, sdpc, durable>>

\* The commands that change state; a refused one only answers.
process_command(s) ==
  /\ sdpc.at = "idle"
  /\ sdbudget.calls > 0
  /\ sdbudget' = [sdbudget EXCEPT !.calls = @ - 1]
  /\ \/ "verify" \in sdmix.ops /\ handle_verify(s)
     \/ "add" \in sdmix.ops /\ is_admin(s) /\ handle_add
     \/ "delete" \in sdmix.ops /\ is_admin(s) /\ handle_delete
     \/ "passwd" \in sdmix.ops /\ is_admin(s) /\ handle_passwd
     \/ "issue" \in sdmix.ops /\ handle_cap_issue(s)
     \/ "revoke" \in sdmix.ops /\ is_admin(s) /\ handle_cap_revoke
  /\ UNCHANGED <<udisk, uwritten, sdmix>>

-----------------------------------------------------------------------------
SdInit ==
  /\ sdmix \in SdMixes
  /\ users = <<>> /\ authz = <<>> /\ mirror = <<>>
  /\ kgrants = [live |-> {}, next |-> 1]
  /\ udisk = [hdr |-> sdmix.start # <<>>, sec |-> SectorsOf(Lines(sdmix.start))]
  /\ sdpc = [Idle EXCEPT !.at = "down"]
  /\ uwritten = [done |-> UsedSectors(Lines(sdmix.start)), need |-> UsedSectors(Lines(sdmix.start))]
  /\ durable = {IF sdmix.start = <<>> THEN Defaults ELSE sdmix.start}
  /\ sdbudget = [calls |-> sdmix.calls, crashes |-> sdmix.crashes, ioerrs |-> sdmix.ioerrs]

SdNext == \/ WriteRecords \/ WriteHeader \/ ReadBack
          \/ init_user_store \/ Crash
          \/ \E s \in SdClient : process_command(s)

SdSpec == SdInit /\ [][SdNext]_sdVars

-----------------------------------------------------------------------------
SdTypeOK ==
  /\ Len(users) <= USER_CAPACITY /\ Len(authz) <= AUTH_CAPACITY /\ Len(mirror) <= CAP_LEDGER_CAP
  /\ \A i \in DOMAIN users : users[i].name \in UserName /\ users[i].pw \in 0 .. 2
  /\ sdpc.at \in {"down", "idle", "records", "header", "verify"}
  /\ udisk.hdr \in BOOLEAN

\* An empty database comes back as the defaults: a record area of zeros is taken
\* for no database (lib.rs:391-394).
Recovered(rs) == IF rs = <<>> THEN Defaults ELSE rs

\* The save that wrote last was cut between two of its sectors.
CutShort == uwritten.done < uwritten.need

\* A line that counts lies in a sector behind those of the last save.
LeftOver ==
  LET a == Area(udisk.sec) IN
  \E p \in DOMAIN a : \E e \in EndsOf(a, p) : e > uwritten.need * SECTOR

\* At every moment, what a restart would read from the device is the database
\* of the last command whose save was verified or of one saved since: "the
\* header is the commit mark ... half new data is never read"
\* (lib.rs:822-825, in translation).  The mark commits the first save only, since
\* later ones write the records in place under the old header: excepted is a save
\* cut short between two record sectors (lib.rs:848), and a save whose shorter
\* text leaves a line of an earlier one behind it (lib.rs:846-848).  A read error
\* at boot counts as a save of the defaults (lib.rs:360-369).
UserdbDurable ==
  CutShort \/ LeftOver \/ \E rs \in durable : Recovered(load_persisted_records) = Recovered(rs)
=============================================================================
