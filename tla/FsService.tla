------------------------------ MODULE FsService ------------------------------
(***************************************************************************)
(* The file service of servers/fs-zfs (zfsd) and its client library        *)
(* userland/libfsclient.  Clients send a request on FS_REQ and wait on     *)
(* FS_RESP; zfsd takes one request at a time, handles it and answers the   *)
(* process that sent it.  Bulk reads and writes go through a shared memory *)
(* region that its owner grants to zfsd for one request.  The volume is    *)
(* the namespace that Volume is shown to keep; a request that needs the    *)
(* disk can find it failing.  A file is a sequence of units: the largest   *)
(* piece a message carries is one unit.                                    *)
(***************************************************************************)
EXTENDS Naturals, Sequences, FiniteSets

CONSTANTS
    FsClient,         \* the client processes
    FsPath,           \* canonical paths, as sequences of names
    MAX_DESCRIPTORS,  \* slots of OPEN_FILES
    FsCapacity,       \* capacity of FS_REQ
    BULK,             \* units in the region of read_file
    FsMixes           \* bound: [ops, paths, calls], the library calls a behaviour
                      \* makes, the paths they name, as callers write them, and
                      \* how many calls there are

VARIABLES
    zfsd,     \* mounted, tree, table, next and snaps of the server
    fs_req,   \* FS_REQ
    fs_resp,  \* FS_RESP
    cl,       \* what each client is doing
    shm,      \* shm[c]: the region client c owns
    fscalls, fsmix,
    touched   \* touched[c]: the file c reads has been changed since (history)

fsVars == <<zfsd, fs_req, fs_resp, cl, shm, fscalls, fsmix, touched>>

NoEntry == [kind |-> "none"]
Dir == [kind |-> "dir"]
File(d) == [kind |-> "file", data |-> d]
NoHandle == [id |-> 0]
Slots == 1 .. MAX_DESCRIPTORS
BadPath == <<"">>
NoMsg == [op |-> "none"]
Resting == [pc |-> "idle", call |-> [op |-> "none"], m |-> NoMsg, then |-> "end", st |-> "OK",
            fd |-> 0, h |-> 0, out |-> <<>>, known |-> FALSE, tag |-> 0]
Unmapped == [owned |-> FALSE, granted |-> FALSE, data |-> <<>>]

FsInit ==
    /\ \E m \in BOOLEAN :
         zfsd = [mounted |-> m,
                 tree |-> [p \in FsPath |-> IF p = <<"a">> THEN File(<<"0", "1">>)
                                            ELSE IF p = <<"d">> THEN Dir ELSE NoEntry],
                 table |-> [s \in Slots |-> NoHandle], next |-> 1, snaps |-> <<>>]
    /\ fs_req = <<>>
    /\ fs_resp = [c \in FsClient |-> <<>>]
    /\ cl = [c \in FsClient |-> Resting]
    /\ shm = [c \in FsClient |-> Unmapped]
    /\ fscalls = 0
    /\ fsmix \in FsMixes
    /\ touched = [c \in FsClient |-> FALSE]

-----------------------------------------------------------------------------
(* The handlers: f is the state of zfsd, m the request, and io whether the  *)
(* disk answers; the result is the new state and the reply.                 *)
Reply(f, st, val) == [fs |-> f, st |-> st, val |-> val]
Refuse(f, st) == Reply(f, st, <<>>)

(* canonical_path refuses empty, "." and ".." segments.                     *)
canonical_path(raw) ==
    IF \E i \in DOMAIN raw : raw[i] \in {"", ".", ".."} THEN BadPath ELSE raw

parent_path(p) == SubSeq(p, 1, Len(p) - 1)
ParentIsDir(f, p) == Len(p) = 1 \/ f.tree[parent_path(p)].kind = "dir"

(* with_volume, and map_error of a disk that fails.                         *)
with_volume(f, io, reply) == IF f.mounted /\ io THEN reply ELSE Refuse(f, "DEVICE")

(* allocate_handle: the first free slot of OPEN_FILES.                      *)
FreeSlots(f) == {s \in Slots : f.table[s] = NoHandle}
FirstFree(f) == CHOOSE s \in FreeSlots(f) : \A t \in FreeSlots(f) : s <= t
NewHandle(f, p) == [id |-> f.next, path |-> p, off |-> 0]

allocate_handle(f, p, full) ==
    IF FreeSlots(f) = {} THEN Refuse(f, full)
    ELSE Reply([f EXCEPT !.table[FirstFree(f)] = NewHandle(f, p), !.next = @ + 1], "OK", f.next)

SlotOf(f, id) == {s \in Slots : f.table[s].id = id /\ id # 0}
HandleOf(f, id) == f.table[CHOOSE s \in SlotOf(f, id) : TRUE]
Advance(f, id, off) ==
    [f EXCEPT !.table = [s \in Slots |-> IF s \in SlotOf(f, id) THEN [@[s] EXCEPT !.off = off]
                                         ELSE @[s]]]

MissingAt(f, p) == IF f.tree[p].kind = "none" THEN "NOT_FOUND" ELSE "INVALID"

handle_open(f, p, io) ==
    IF ~f.mounted THEN Refuse(f, "DEVICE")
    ELSE IF f.tree[p].kind # "file" THEN Refuse(f, MissingAt(f, p))
    ELSE allocate_handle(f, p, "INVALID")

(* handle_vt_open creates the missing file first; it stays when there is no *)
(* descriptor for it.                                                       *)
handle_vt_open(f, p, create, io) ==
    IF ~f.mounted THEN Refuse(f, "DEVICE")
    ELSE IF f.tree[p].kind = "file" THEN allocate_handle(f, p, "NO_DESCRIPTOR")
    ELSE IF f.tree[p].kind = "dir" \/ ~create THEN Refuse(f, MissingAt(f, p))
    ELSE IF ~ParentIsDir(f, p) THEN Refuse(f, "NOT_FOUND")
    ELSE with_volume(f, io, allocate_handle([f EXCEPT !.tree[p] = File(<<>>)], p, "NO_DESCRIPTOR"))

(* handle_vt_write reads the whole file, puts one unit at the offset, past  *)
(* zeros if the file has become shorter, and writes it back.                *)
Padded(d, n) == [i \in 1 .. IF Len(d) < n THEN n ELSE Len(d) |-> IF i <= Len(d) THEN d[i] ELSE "zero"]
WriteAt(f, h, unit) ==
    Advance([f EXCEPT !.tree[h.path].data = [Padded(@, h.off + 1) EXCEPT ![h.off + 1] = unit]],
            h.id, h.off + 1)
handle_vt_write(f, id, unit, io) ==
    IF SlotOf(f, id) = {} THEN Refuse(f, "NO_DESCRIPTOR")
    ELSE IF f.mounted /\ f.tree[HandleOf(f, id).path].kind # "file"
         THEN Refuse(f, MissingAt(f, HandleOf(f, id).path))
    ELSE with_volume(f, io, Reply(WriteAt(f, HandleOf(f, id), unit), "OK", 1))

(* read_file_at: up to cap units from the offset on.                        *)
Least(a, b) == IF a < b THEN a ELSE b
read_file_at(d, off, cap) == SubSeq(d, off + 1, Least(Len(d), off + cap))
ReadThrough(f, h, cap) ==
    Reply(Advance(f, h.id, h.off + Len(read_file_at(f.tree[h.path].data, h.off, cap))), "OK",
          read_file_at(f.tree[h.path].data, h.off, cap))

(* handle_read and handle_read_sized differ in the length they report.      *)
handle_read(f, id, cap, io) ==
    IF SlotOf(f, id) = {} THEN Refuse(f, "NO_DESCRIPTOR")
    ELSE IF f.mounted /\ f.tree[HandleOf(f, id).path].kind # "file"
         THEN Refuse(f, MissingAt(f, HandleOf(f, id).path))
    ELSE with_volume(f, io, ReadThrough(f, HandleOf(f, id), cap))

(* handle_read_shared: a file that is gone is reported as a bad descriptor. *)
handle_read_shared(f, id, want, avail, io) ==
    LET r == handle_read(f, id, Least(want, avail), io)
    IN  IF r.st = "NOT_FOUND" THEN Refuse(f, "NO_DESCRIPTOR") ELSE r

handle_close(f, id) ==
    IF SlotOf(f, id) = {} THEN Refuse(f, "NO_DESCRIPTOR")
    ELSE Reply([f EXCEPT !.table = [s \in Slots |-> IF s \in SlotOf(f, id) THEN NoHandle ELSE @[s]]],
               "OK", <<>>)

handle_list(f, p) ==
    IF ~f.mounted THEN Refuse(f, "DEVICE")
    ELSE IF p # <<>> /\ f.tree[p].kind # "dir" THEN Refuse(f, "NOT_FOUND")
    ELSE Reply(f, "OK", {q \in FsPath : Len(q) = Len(p) + 1 /\ parent_path(q) = p
                                        /\ f.tree[q].kind # "none"})

handle_mkdir(f, p, io) ==
    IF f.mounted /\ ~ParentIsDir(f, p) THEN Refuse(f, "NOT_FOUND")
    ELSE IF f.mounted /\ f.tree[p].kind # "none" THEN Refuse(f, "INVALID")
    ELSE with_volume(f, io, Refuse([f EXCEPT !.tree[p] = Dir], "OK"))

Below(p, q) == Len(q) > Len(p) /\ SubSeq(q, 1, Len(p)) = p
Children(f, p) == {q \in FsPath : Below(p, q) /\ f.tree[q].kind # "none"}

handle_rmdir(f, p, io) ==
    IF f.mounted /\ f.tree[p].kind # "dir" THEN Refuse(f, MissingAt(f, p))
    ELSE IF f.mounted /\ Children(f, p) # {} THEN Refuse(f, "INVALID")
    ELSE with_volume(f, io, Refuse([f EXCEPT !.tree[p] = NoEntry], "OK"))

(* handle_write and handle_write_shared check nothing about the parent.     *)
handle_write(f, p, d, io) == with_volume(f, io, Refuse([f EXCEPT !.tree[p] = File(d)], "OK"))

handle_delete(f, p, io) ==
    IF f.mounted /\ f.tree[p].kind # "file" THEN Refuse(f, MissingAt(f, p))
    ELSE with_volume(f, io, Refuse([f EXCEPT !.tree[p] = NoEntry], "OK"))

(* handle_rename: a directory takes its subtree along; only handles on the  *)
(* very path that was renamed follow it.                                    *)
Dest(p, q, r) == q \o SubSeq(r, Len(p) + 1, Len(r))
Moving(f, p) == {p} \cup IF f.tree[p].kind = "dir" THEN Children(f, p) ELSE {}
TreeRenamed(f, p, q) ==
    [r \in FsPath |-> IF \E s \in Moving(f, p) : Dest(p, q, s) = r
                      THEN f.tree[CHOOSE s \in Moving(f, p) : Dest(p, q, s) = r]
                      ELSE IF r \in Moving(f, p) THEN NoEntry ELSE f.tree[r]]
TableRenamed(f, p, q) ==
    [s \in Slots |-> IF f.table[s] # NoHandle /\ f.table[s].path = p
                     THEN [f.table[s] EXCEPT !.path = q] ELSE f.table[s]]
handle_rename(f, p, q, io) ==
    IF f.mounted /\ ~ParentIsDir(f, q) THEN Refuse(f, "NOT_FOUND")
    ELSE IF f.mounted /\ (p = q \/ f.tree[q].kind # "none") THEN Refuse(f, "INVALID")
    ELSE IF f.mounted /\ f.tree[p].kind = "none" THEN Refuse(f, "NOT_FOUND")
    ELSE IF f.mounted /\ \E s \in Moving(f, p) : \/ Dest(p, q, s) \notin FsPath
                                                 \/ f.tree[Dest(p, q, s)].kind # "none"
         THEN Refuse(f, "INVALID")
    ELSE with_volume(f, io, Refuse([f EXCEPT !.tree = TreeRenamed(f, p, q),
                                             !.table = TableRenamed(f, p, q)], "OK"))

(* handle_snapshot: create, list and restore, all on the memory of the      *)
(* volume; an open handle keeps its path and offset.                        *)
handle_snapshot(f, cmd, id) ==
    IF ~f.mounted THEN Refuse(f, "DEVICE")
    ELSE CASE cmd = "create" -> Reply([f EXCEPT !.snaps = Append(@, f.tree)], "OK", Len(f.snaps) + 1)
           [] cmd = "list" -> Reply(f, "OK", DOMAIN f.snaps)
           [] cmd = "restore" -> IF id \notin DOMAIN f.snaps THEN Refuse(f, "NOT_FOUND")
                                 ELSE Refuse([f EXCEPT !.tree = f.snaps[id]], "OK")

(* schedule_snapshot queues a label that process_snapshot_queue takes off   *)
(* again before the next request is received.                               *)
schedule_snapshot(f) ==
    Refuse(IF f.mounted THEN [f EXCEPT !.snaps = Append(@, f.tree)] ELSE f, "OK")

PathOps == {"open", "vt_open", "list", "mkdir", "rmdir", "write", "write_shared", "unlink", "rename"}
BadRequest(m) == m.op \in PathOps /\ \/ canonical_path(m.p) = BadPath
                                     \/ m.op = "rename" /\ canonical_path(m.q) = BadPath

handle_request(f, from, m, io) ==
    IF BadRequest(m) THEN Refuse(f, "INVALID")
    ELSE CASE m.op = "open" -> handle_open(f, m.p, io)
           [] m.op = "vt_open" -> handle_vt_open(f, m.p, m.create, io)
           [] m.op = "vt_write" -> handle_vt_write(f, m.fd, m.data, io)
           [] m.op = "read" -> handle_read(f, m.fd, 1, io)
           [] m.op = "read_shared" -> handle_read_shared(f, m.fd, m.want, BULK, io)
           [] m.op = "close" -> handle_close(f, m.fd)
           [] m.op = "list" -> handle_list(f, m.p)
           [] m.op = "mkdir" -> handle_mkdir(f, m.p, io)
           [] m.op = "rmdir" -> handle_rmdir(f, m.p, io)
           [] m.op = "rename" -> handle_rename(f, m.p, m.q, io)
           [] m.op \in {"write", "write_shared"} ->
                 handle_write(f, m.p, IF m.op = "write" THEN m.data ELSE shm[from].data, io)
           [] m.op = "unlink" -> handle_delete(f, m.p, io)
           [] m.op = "snapshot" -> handle_snapshot(f, m.cmd, m.id)
           [] m.op = "schedule" -> schedule_snapshot(f)

(* Mutant: the reply goes to whichever client receives first.               *)
respond_any(e, r) ==
    \E c \in FsClient :
      /\ cl[c].pc = "wait"
      /\ fs_resp' = [fs_resp EXCEPT ![c] = Append(@, [tag |-> e.tag, st |-> r.st, val |-> r.val])]

(* respond, to REPLY_TARGET; IpcSendTo refuses a target that is gone.       *)
respond(e, r) ==
    IF cl[e.from].pc = "dead" THEN UNCHANGED fs_resp
    ELSE fs_resp' = [fs_resp EXCEPT
                       ![e.from] = Append(@, [tag |-> e.tag, st |-> r.st, val |-> r.val])]

(* The data of a shared read are in the client's region before the reply;   *)
(* the grant is returned with every shared request that was understood.     *)
ShmAfter(c, m, r) ==
    CASE m.op = "read_shared" -> [shm EXCEPT ![c].granted = FALSE,
                                             ![c].data = IF r.st = "OK" THEN r.val ELSE @]
      [] m.op = "write_shared" /\ ~BadRequest(m) -> [shm EXCEPT ![c].granted = FALSE]
      [] OTHER -> shm

Serve(e, r) ==
    /\ zfsd' = r.fs
    /\ respond(e, r)
    /\ shm' = ShmAfter(e.from, e.m, r)
    /\ touched' = [c \in FsClient |-> touched[c] \/ (r.fs.tree # zfsd.tree /\ cl[c].call.op = "read_file")]

server_main ==
    /\ fs_req # <<>>
    /\ fs_req' = Tail(fs_req)
    /\ \E io \in BOOLEAN : Serve(Head(fs_req), handle_request(zfsd, Head(fs_req).from, Head(fs_req).m, io))
    /\ UNCHANGED <<cl, fscalls, fsmix>>

-----------------------------------------------------------------------------
(* The library.  A client in "rpc" has composed the message m; "then" says  *)
(* what the call does with the reply, r is the outcome so far.              *)
Compose(w, m, then) == [w EXCEPT !.pc = "rpc", !.m = m, !.then = then]
EndCall(w, st) == [w EXCEPT !.pc = "idle", !.m = NoMsg, !.then = "end", !.fd = 0, !.st = st]
Does(c, w) == cl' = [cl EXCEPT ![c] = w]

(* Returns of the owner's reference: what zfsd was granted it keeps.        *)
release(c) == shm' = [shm EXCEPT ![c].owned = FALSE, ![c].data = <<>>]
close_fd(w, st) == Compose([w EXCEPT !.st = st], [op |-> "close", fd |-> w.fd], "rf_closed")

(* The loop of read_file: it fails when max_len is reached before the end   *)
(* of the file; else it grants the region and asks for the next units.      *)
Remaining(w) == w.call.max - Len(w.out)
ReadMore(c, w) ==
    IF Remaining(w) = 0 THEN release(c) /\ Does(c, close_fd(w, "INVALID"))
    ELSE /\ shm' = [shm EXCEPT ![c].granted = TRUE]
         /\ Does(c, Compose(w, [op |-> "read_shared", fd |-> w.fd, want |-> Least(BULK, Remaining(w))],
                            "rf_read"))

(* shm_create finds no pages or no region: read_file returns without        *)
(* closing what it opened.                                                  *)
Opened(c, w) ==
    \/ shm' = [shm EXCEPT ![c] = [owned |-> TRUE, granted |-> TRUE, data |-> <<>>]] /\ Does(c, w)
    \/ UNCHANGED shm /\ Does(c, EndCall(w, "SYSCALL"))

read_file(c, w, st, val) ==
    CASE w.then = "rf_opened" ->
           IF st # "OK" THEN UNCHANGED shm /\ Does(c, EndCall(w, st))
           ELSE Opened(c, Compose([w EXCEPT !.fd = val, !.out = <<>>],
                                  [op |-> "read_shared", fd |-> val, want |-> Least(BULK, w.call.max)],
                                  "rf_read"))
      [] w.then = "rf_read" ->
           IF st # "OK" THEN release(c) /\ Does(c, close_fd(w, st))
           ELSE IF Len(val) < w.m.want
                THEN release(c) /\ Does(c, close_fd([w EXCEPT !.out = @ \o shm[c].data], "OK"))
           ELSE ReadMore(c, [w EXCEPT !.out = @ \o shm[c].data])
      [] w.then = "rf_closed" ->
           UNCHANGED shm /\ Does(c, EndCall(w, IF w.st = "OK" THEN st ELSE w.st))

(* What a call does with the answer st, val to its message.                 *)
Continue(c, w, st, val) ==
    CASE w.then \in {"rf_opened", "rf_read", "rf_closed"} -> read_file(c, w, st, val)
      [] w.then = "opened" ->
           UNCHANGED shm /\ Does(c, EndCall(IF st = "OK" THEN [w EXCEPT !.h = val] ELSE w, st))
      [] w.then = "ws_done" -> release(c) /\ Does(c, EndCall(w, st))
      [] w.then = "end" -> UNCHANGED shm /\ Does(c, EndCall(w, st))

(* Sends the message; ipc_send refuses it when FS_REQ is full, and the call *)
(* goes on as after an error reply.                                         *)
ipc_send(c) ==
    /\ cl[c].pc = "rpc"
    /\ IF Len(fs_req) < FsCapacity
       THEN /\ fs_req' = Append(fs_req, [from |-> c, tag |-> cl[c].tag + 1, m |-> cl[c].m])
            /\ Does(c, [cl[c] EXCEPT !.pc = "wait", !.tag = @ + 1])
            /\ UNCHANGED shm
       ELSE Continue(c, cl[c], "IPC", 0) /\ UNCHANGED fs_req
    /\ UNCHANGED <<zfsd, fs_resp, fscalls, fsmix, touched>>

(* wait_response: also how the library learns the pid of zfsd.              *)
wait_response(c) ==
    /\ cl[c].pc = "wait" /\ fs_resp[c] # <<>>
    /\ fs_resp' = [fs_resp EXCEPT ![c] = Tail(@)]
    /\ Continue(c, [cl[c] EXCEPT !.known = TRUE],
                Head(fs_resp[c]).st, Head(fs_resp[c]).val)
    /\ UNCHANGED <<zfsd, fs_req, fscalls, fsmix, touched>>

(* The calls.  An empty path never leaves the library.                      *)
Starts(c, op) == cl[c].pc = "idle" /\ op \in fsmix.ops /\ fscalls < fsmix.calls
Started(c, call) == [cl[c] EXCEPT !.call = call, !.out = <<>>]
Begin(c, call, w) ==
    /\ Starts(c, call.op)
    /\ fscalls' = fscalls + 1
    /\ Does(c, w)
    /\ touched' = [touched EXCEPT ![c] = FALSE]
    /\ UNCHANGED <<zfsd, fs_req, fs_resp, fsmix>>

Unencodable(m) == m.op \in PathOps \ {"list"} /\ (m.p = <<>> \/ (m.op = "rename" /\ m.q = <<>>))
Plain(c, call, m, then) ==
    Begin(c, call, IF Unencodable(m) THEN EndCall(Started(c, call), "INVALID")
                   ELSE Compose(Started(c, call), m, then)) /\ UNCHANGED shm

PathCall(c, op) == \E p \in fsmix.paths : Plain(c, [op |-> op, p |-> p], [op |-> op, p |-> p], "end")
path_op(c) == PathCall(c, "mkdir") \/ PathCall(c, "rmdir")
delete_file(c) == PathCall(c, "unlink")
list_directory(c) == PathCall(c, "list")
rename(c) ==
    \E p, q \in fsmix.paths :
        Plain(c, [op |-> "rename", p |-> p], [op |-> "rename", p |-> p, q |-> q], "end")
open(c) == 
    \/ \E p \in fsmix.paths : Plain(c, [op |-> "open", p |-> p], [op |-> "open", p |-> p], "opened")
    \/ \E p \in fsmix.paths : Plain(c, [op |-> "create", p |-> p],
                                [op |-> "vt_open", p |-> p, create |-> TRUE], "opened")
StartReadFile(c) ==
    \E p \in fsmix.paths, n \in {1, BULK + 1} :
        Plain(c, [op |-> "read_file", p |-> p, max |-> n],
              [op |-> "vt_open", p |-> p, create |-> FALSE], "rf_opened")

(* FsHandle::read, a vtable write and FsHandle::close, which consumes it.   *)
read(c) == cl[c].h # 0 /\ Plain(c, [op |-> "read"], [op |-> "read", fd |-> cl[c].h], "end")
vt_write(c) ==
    cl[c].h # 0 /\ Plain(c, [op |-> "vt_write"], [op |-> "vt_write", fd |-> cl[c].h, data |-> "w"], "end")
close(c) ==
    /\ cl[c].h # 0
    /\ Begin(c, [op |-> "close"],
             Compose([Started(c, [op |-> "close"]) EXCEPT !.h = 0], [op |-> "close", fd |-> cl[c].h], "end"))
    /\ UNCHANGED shm

(* write_file: up to one unit inline; more through a region, which needs    *)
(* the pid of zfsd.  The grant is given before the path is encoded.         *)
write_inline(c) ==
    \E p \in fsmix.paths : Plain(c, [op |-> "write", p |-> p], [op |-> "write", p |-> p, data |-> <<"n">>], "end")
Filled == [owned |-> TRUE, granted |-> TRUE, data |-> <<"s", "t">>]
write_file_shared(c) ==
    \E p \in fsmix.paths :
      \/ /\ cl[c].known
         /\ Begin(c, [op |-> "write_shared", p |-> p],
                  IF p = <<>> THEN EndCall(Started(c, [op |-> "write_shared", p |-> p]), "INVALID")
                  ELSE Compose(Started(c, [op |-> "write_shared", p |-> p]),
                               [op |-> "write_shared", p |-> p], "ws_done"))
         /\ shm' = [shm EXCEPT ![c] = [Filled EXCEPT !.owned = p # <<>>]]
      \/ /\ Begin(c, [op |-> "write_shared", p |-> p],
                  EndCall(Started(c, [op |-> "write_shared", p |-> p]), "SYSCALL"))
         /\ UNCHANGED shm

snapshot(c) ==
    \/ \E cmd \in {"create", "list", "restore"} :
          Plain(c, [op |-> "snapshot"], [op |-> "snapshot", cmd |-> cmd, id |-> 1], "end")
    \/ Plain(c, [op |-> "snapshot"], [op |-> "schedule"], "end")

(* A client dies (bound: one); what it asked for is still handled.          *)
Die(c) ==
    /\ "die" \in fsmix.ops /\ \A d \in FsClient : cl[d].pc # "dead"
    /\ cl' = [cl EXCEPT ![c].pc = "dead"]
    /\ UNCHANGED <<zfsd, fs_req, fs_resp, shm, fscalls, fsmix, touched>>

FsNext ==
    \/ server_main
    \/ \E c \in FsClient :
         \/ ipc_send(c) \/ wait_response(c) \/ Die(c)
         \/ path_op(c) \/ delete_file(c) \/ list_directory(c) \/ rename(c)
         \/ open(c) \/ StartReadFile(c)
         \/ read(c) \/ vt_write(c) \/ close(c)
         \/ write_inline(c) \/ write_file_shared(c) \/ snapshot(c)

FsSpec == FsInit /\ [][FsNext]_fsVars

-----------------------------------------------------------------------------
FsTypeOK ==
    /\ \A c \in FsClient : /\ cl[c].pc \in {"idle", "rpc", "wait", "dead"}
                            /\ shm[c].owned \in BOOLEAN /\ shm[c].granted \in BOOLEAN
    /\ Len(fs_req) <= FsCapacity
    /\ \A p \in FsPath : zfsd.tree[p].kind \in {"none", "dir", "file"}
    /\ fscalls \in 0 .. fsmix.calls

(* "A targeted envelope cannot be stolen by another FS client" (fs-zfs      *)
(* lib.rs:34): a client that waits has one request or one reply under way,  *)
(* and the reply it takes answers the request it sent last, although all    *)
(* clients wait on one channel, send without a correlation id and may die.  *)
RepliesPair ==
    \A c \in FsClient :
      /\ cl[c].pc = "wait" =>
           Cardinality({i \in DOMAIN fs_req : fs_req[i].from = c /\ fs_req[i].tag = cl[c].tag})
             + Cardinality({i \in DOMAIN fs_resp[c] : fs_resp[c][i].tag = cl[c].tag}) = 1
      /\ cl[c].pc = "idle" => fs_resp[c] = <<>>

(* A read_file that succeeds while nobody changes the volume returns the    *)
(* file: the units of all its shared reads, in order, none twice, up to the *)
(* end, whatever other clients do with their own descriptors.               *)
ReadFileExact ==
    \A c \in FsClient :
      cl[c].pc = "idle" /\ cl[c].call.op = "read_file" /\ cl[c].st = "OK" /\ ~touched[c] =>
        zfsd.tree[cl[c].call.p] = File(cl[c].out)
=============================================================================
