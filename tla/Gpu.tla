-------------------------------- MODULE Gpu --------------------------------
(***************************************************************************)
(* The virtio GPU driver (drivers/virtio/gpu.rs): the 2D scanout set up at *)
(* boot and flushed by the console, and the VirGL contexts and resources   *)
(* behind the Gpu3d system calls (syscalls.rs), used by gputest processes  *)
(* (servers/gputest).  GPU's lock is held for a whole call, which issues   *)
(* one or more commands on the control queue and polls for each; the       *)
(* device runs on its own and may refuse a command.                        *)
(*                                                                         *)
(* Every command uses descriptor 0: a command given up on is still queued, *)
(* and its queue entry then stands for whatever descriptor 0 holds.        *)
(***************************************************************************)
EXTENDS Integers, Sequences, FiniteSets, SequencesExt

CONSTANTS
  GClient,     \* gputest processes, numbers > 0
  GBlock,      \* heap blocks large enough for a backing store, numbers > 0
  GpuMixes     \* [virgl, init, refusals, timeouts, kills, flushes, clients]

VARIABLES
  gst,         \* GpuState: [up, capsets, contexts, resources: id -> [block, ctx], nextc, nextr]
  gop,         \* the call that holds GPU's lock
  gq,          \* control queue: [avail, desc, cur, used], see above
  gresp,       \* the response buffer of the command in progress: "none", "ok", "err"
  gdev,        \* device: [ctxs, res: id -> [block, data, ctxs], scanout]
  gheap,       \* block -> "free" or what it holds
  gcli,        \* gputest -> [pc, ctx, res, got]
  gtag,
  ghalf,       \* history: the resources whose destruction was refused after its first step
  gpubudget, gpumix

gpuVars == <<gst, gop, gq, gresp, gdev, gheap, gcli, gtag, ghalf, gpubudget, gpumix>>

RESOURCE_ID_2D == 1
RESOURCE_3D_FIRST == 256
Ids == {RESOURCE_ID_2D} \cup RESOURCE_3D_FIRST .. RESOURCE_3D_FIRST + Cardinality(GClient)

NoCmd == [kind |-> "none", id |-> 0, ctx |-> 0, block |-> 0, tag |-> 0]
NoOp == [kind |-> "idle", todo |-> <<>>, by |-> 0, ctx |-> 0, id |-> 0, block |-> 0, sent |-> FALSE]

-----------------------------------------------------------------------------
(* Commands. *)

\* A command's response buffer, a local of its caller, told from those of commands
\* still at the device.
NewTag == IF gq.avail = 0 /\ gq.cur = NoCmd THEN 1 ELSE gtag + 1

\* transact: descriptor 0 is overwritten, one more queue entry, the response
\* buffer is the caller's own.
transact ==
  /\ gop.todo # <<>> /\ ~gop.sent
  /\ gop' = [gop EXCEPT !.sent = TRUE]
  /\ gq' = [gq EXCEPT !.avail = @ + 1,
                      !.desc = [kind |-> Head(gop.todo), id |-> gop.id, ctx |-> gop.ctx,
                                block |-> gop.block, tag |-> NewTag]]
  /\ gtag' = NewTag /\ gresp' = "none"
  /\ UNCHANGED <<gst, gdev, gheap, gcli, gpubudget, ghalf, gpumix>>

DeviceFetches ==
  /\ gq.avail > 0 /\ gq.cur = NoCmd
  /\ gq' = [gq EXCEPT !.avail = @ - 1, !.cur = gq.desc,
                      !.desc = IF gq.avail = 1 THEN NoCmd ELSE @]
  /\ UNCHANGED <<gst, gop, gresp, gdev, gheap, gcli, gtag, gpubudget, ghalf, gpumix>>

Has(d, id) == id \in DOMAIN d.res
NewRes == [block |-> 0, data |-> "junk", ctxs |-> {}]
SetRes(d, id, r) == [d EXCEPT !.res = [i \in DOMAIN @ \cup {id} |-> IF i = id THEN r ELSE @[i]]]

\* Whether the device can do c.
Legal(d, c) ==
  CASE c.kind \in {"capset_info", "display_info", "capset"} -> TRUE
    [] c.kind \in {"create_2d", "create_3d"} -> ~Has(d, c.id)
    [] c.kind = "ctx_create" -> c.ctx \notin d.ctxs
    [] c.kind \in {"ctx_destroy", "submit"} -> c.ctx \in d.ctxs
    [] c.kind = "ctx_attach" -> Has(d, c.id) /\ c.ctx \in d.ctxs
    [] c.kind = "ctx_detach" -> Has(d, c.id) /\ c.ctx \in d.res[c.id].ctxs
    [] OTHER -> Has(d, c.id)

Executed(d, c) ==
  CASE c.kind \in {"create_2d", "create_3d"} -> SetRes(d, c.id, NewRes)
    [] c.kind = "attach_backing" -> [d EXCEPT !.res[c.id].block = c.block]
    [] c.kind = "detach_backing" -> [d EXCEPT !.res[c.id].block = 0]
    [] c.kind = "set_scanout" -> [d EXCEPT !.scanout = c.id]
    [] c.kind = "unref" -> [d EXCEPT !.res = [i \in DOMAIN @ \ {c.id} |-> @[i]]]
    [] c.kind = "ctx_create" -> [d EXCEPT !.ctxs = @ \cup {c.ctx}]
    [] c.kind = "ctx_destroy" -> [d EXCEPT !.ctxs = @ \ {c.ctx}]
    [] c.kind = "ctx_attach" -> [d EXCEPT !.res[c.id].ctxs = @ \cup {c.ctx}]
    [] c.kind = "ctx_detach" -> [d EXCEPT !.res[c.id].ctxs = @ \ {c.ctx}]
    [] c.kind = "submit" ->   \* the stream clears the resources of its context
         [d EXCEPT !.res = [i \in DOMAIN @ |->
            IF c.ctx \in @[i].ctxs THEN [@[i] EXCEPT !.data = "red"] ELSE @[i]]]
    [] OTHER -> d

\* TRANSFER_FROM_HOST writes the backing store, whatever the block is now.
HeapAfter(d, c) ==
  IF c.kind = "transfer_from" /\ d.res[c.id].block # 0
    THEN [gheap EXCEPT ![d.res[c.id].block] = d.res[c.id].data] ELSE gheap

Respond(ok) ==
  /\ gresp' = IF gq.cur.tag = gtag THEN (IF ok THEN "ok" ELSE "err") ELSE gresp
  /\ gq' = [gq EXCEPT !.cur = NoCmd, !.used = @ + 1]
  /\ UNCHANGED <<gst, gop, gcli, gtag, ghalf, gpumix>>

DeviceExecutes ==
  /\ gq.cur # NoCmd
  /\ \/ /\ Legal(gdev, gq.cur) /\ Respond(TRUE)
        /\ gdev' = Executed(gdev, gq.cur) /\ gheap' = HeapAfter(gdev, gq.cur)
        /\ UNCHANGED gpubudget
     \/ /\ Legal(gdev, gq.cur) => gpubudget.refusals > 0
        /\ Respond(FALSE)
        /\ gpubudget' = IF Legal(gdev, gq.cur) THEN [gpubudget EXCEPT !.refusals = @ - 1] ELSE gpubudget
        /\ UNCHANGED <<gdev, gheap>>

-----------------------------------------------------------------------------
(* What each call does with its responses. *)

\* The commands of destroy_resource: out of its context, out of its backing store,
\* then released.
DestroySteps(r) ==
  (IF r.ctx # 0 THEN <<"ctx_detach">> ELSE <<>>)
  \o (IF r.block # 0 THEN <<"detach_backing">> ELSE <<>>) \o <<"unref">>

Answer(c, v) == gcli' = IF c = 0 THEN gcli ELSE [gcli EXCEPT ![c] = v]

\* gputest's next step, or its cleanup.
Advance(c, ok) == IF ok THEN [gcli[c] EXCEPT !.pc = @ + 1] ELSE [gcli[c] EXCEPT !.pc = 8]

Unlock == gop' = NoOp

FlushSteps == <<"transfer_2d", "flush">>

NextCommand == gop' = [gop EXCEPT !.todo = Tail(@), !.sent = FALSE]

\* enumerate_capsets stops at a failure; init then needs every response.  The
\* driver is published once the scanout is set and the screen flushed; a failure
\* leaves it down, its queue and memory lost.
init(ok) ==
  \/ /\ Head(gop.todo) = "capset_info"
     /\ gst' = [gst EXCEPT !.capsets = ok]
     /\ NextCommand /\ UNCHANGED <<gheap, gcli>>
  \/ /\ Head(gop.todo) = "display_info" /\ ok
     /\ gheap' = [gheap EXCEPT ![gop.block] = "screen"]
     /\ NextCommand /\ UNCHANGED <<gst, gcli>>
  \/ /\ Head(gop.todo) \in {"create_2d", "attach_backing"} /\ ok
     /\ NextCommand /\ UNCHANGED <<gst, gheap, gcli>>
  \/ /\ Head(gop.todo) = "set_scanout" /\ ok
     /\ gst' = [gst EXCEPT !.up = TRUE]
     /\ gop' = [gop EXCEPT !.kind = "flush", !.todo = FlushSteps, !.sent = FALSE]
     /\ UNCHANGED <<gheap, gcli>>
  \/ /\ Head(gop.todo) # "capset_info" /\ ~ok
     /\ Unlock /\ UNCHANGED <<gst, gheap, gcli>>

create_context(ok) ==
  /\ gst' = IF ok THEN [gst EXCEPT !.contexts = @ \cup {gop.ctx}] ELSE gst
  /\ Answer(gop.by, [Advance(gop.by, ok) EXCEPT !.ctx = IF ok THEN gop.ctx ELSE 0])
  /\ Unlock /\ UNCHANGED gheap

destroy_context(ok) ==
  /\ gst' = IF ok THEN [gst EXCEPT !.contexts = @ \ {gop.ctx}] ELSE gst
  /\ Answer(gop.by, [gcli[gop.by] EXCEPT !.pc = 10])
  /\ Unlock /\ UNCHANGED gheap

Stored(r, id, v) == [i \in DOMAIN r \cup {id} |-> IF i = id THEN v ELSE r[i]]

\* After CREATE_3D the backing store is allocated and attached; when that fails the
\* block is freed and the resource released.
create_resource(ok) ==
  \/ /\ gop.block = 0 /\ ok
     /\ \/ /\ \A b \in GBlock : gheap[b] # "free"
           /\ gop' = [gop EXCEPT !.todo = <<"unref">>, !.kind = "drop_resource", !.sent = FALSE]
           /\ gheap' = gheap
        \/ \E b \in GBlock :
             /\ gheap[b] = "free" /\ \A a \in GBlock : a < b => gheap[a] # "free"
             /\ gheap' = [gheap EXCEPT ![b] = "zero"]
             /\ gop' = [gop EXCEPT !.todo = <<"attach_backing">>, !.block = b, !.sent = FALSE]
     /\ UNCHANGED <<gst, gcli>>
  \/ /\ gop.block # 0 /\ ok
     /\ gst' = [gst EXCEPT !.resources = Stored(@, gop.id, [block |-> gop.block, ctx |-> 0])]
     /\ Answer(gop.by, [Advance(gop.by, TRUE) EXCEPT !.res = gop.id])
     /\ Unlock /\ UNCHANGED gheap
  \/ /\ gop.block = 0 /\ ~ok
     /\ Answer(gop.by, Advance(gop.by, FALSE))
     /\ Unlock /\ UNCHANGED <<gst, gheap>>
  \/ /\ gop.block # 0 /\ ~ok
     /\ gheap' = [gheap EXCEPT ![gop.block] = "free"]
     /\ gop' = [gop EXCEPT !.todo = <<"unref">>, !.kind = "drop_resource", !.sent = FALSE]
     /\ UNCHANGED <<gst, gcli>>

\* unref_resource_wire at the end of a failed create_resource.
unref_resource_wire(ok) ==
  /\ Answer(gop.by, Advance(gop.by, FALSE))
  /\ Unlock /\ UNCHANGED <<gst, gheap>>

\* Mutant: the backing store is freed whatever the device answered.
DestroyAnyway(ok) ==
  IF ok /\ Len(gop.todo) > 1
    THEN NextCommand /\ UNCHANGED <<gst, gheap, gcli>>
    ELSE /\ gst' = [gst EXCEPT !.resources = [i \in DOMAIN @ \ {gop.id} |-> @[i]]]
         /\ gheap' = IF gop.block = 0 THEN gheap ELSE [gheap EXCEPT ![gop.block] = "free"]
         /\ Answer(gop.by, [gcli[gop.by] EXCEPT !.pc = 9])
         /\ Unlock

\* "Device must drop DMA references before guest backing is freed": a refused step
\* ends the call with the resource still listed.
destroy_resource(ok) ==
  \/ /\ ok /\ Len(gop.todo) > 1
     /\ NextCommand /\ UNCHANGED <<gst, gheap, gcli>>
  \/ /\ ok /\ Len(gop.todo) = 1
     /\ gst' = [gst EXCEPT !.resources = [i \in DOMAIN @ \ {gop.id} |-> @[i]]]
     /\ gheap' = [gheap EXCEPT ![gop.block] = "free"]
     /\ Answer(gop.by, [gcli[gop.by] EXCEPT !.pc = 9])
     /\ Unlock
  \/ /\ ~ok
     /\ Answer(gop.by, [gcli[gop.by] EXCEPT !.pc = 9])
     /\ Unlock /\ UNCHANGED <<gst, gheap>>

attach_resource(ok) ==
  /\ gst' = IF ok THEN [gst EXCEPT !.resources[gop.id].ctx = gop.ctx] ELSE gst
  /\ Answer(gop.by, Advance(gop.by, ok))
  /\ Unlock /\ UNCHANGED gheap

submit_3d(ok) ==
  /\ Answer(gop.by, Advance(gop.by, ok))
  /\ Unlock /\ UNCHANGED <<gst, gheap>>

\* The transfer done, the backing store is copied out.
readback_3d(ok) ==
  /\ Answer(gop.by, [Advance(gop.by, ok) EXCEPT
                       !.got = IF ok THEN gheap[gst.resources[gop.id].block] ELSE @])
  /\ Unlock /\ UNCHANGED <<gst, gheap>>

get_capset(ok) ==
  /\ Answer(gop.by, Advance(gop.by, ok))
  /\ Unlock /\ UNCHANGED <<gst, gheap>>

flush_all(ok) ==
  /\ IF ok /\ Len(gop.todo) > 1 THEN NextCommand ELSE Unlock
  /\ UNCHANGED <<gst, gheap, gcli>>

Continue(ok) ==
  \/ gop.kind = "init" /\ init(ok)
  \/ gop.kind = "flush" /\ flush_all(ok)
  \/ gop.kind = "ctx_create" /\ create_context(ok)
  \/ gop.kind = "ctx_destroy" /\ destroy_context(ok)
  \/ gop.kind = "create_resource" /\ create_resource(ok)
  \/ gop.kind = "drop_resource" /\ unref_resource_wire(ok)
  \/ gop.kind = "destroy_resource" /\ destroy_resource(ok)
  \/ gop.kind = "ctx_attach" /\ attach_resource(ok)
  \/ gop.kind = "submit" /\ submit_3d(ok)
  \/ gop.kind = "readback" /\ readback_3d(ok)
  \/ gop.kind = "capset" /\ get_capset(ok)

\* The steps of destroy_resource already done are not undone, nor noted in the table.
HalfDestroyed(ok) ==
  gop.kind = "destroy_resource" /\ ~ok /\ Len(gop.todo) < Len(DestroySteps(gst.resources[gop.id]))

\* wait_used takes whatever completion comes first; the response counts only if
\* the device has written it.
wait_used ==
  /\ gop.sent
  /\ \E timeout \in BOOLEAN :
       /\ IF timeout THEN gq.used = 0 /\ gpubudget.timeouts > 0 ELSE gq.used > 0
       /\ gq' = IF timeout THEN gq ELSE [gq EXCEPT !.used = @ - 1]
       /\ gpubudget' = IF timeout THEN [gpubudget EXCEPT !.timeouts = @ - 1] ELSE gpubudget
       /\ Continue(~timeout /\ gresp = "ok")
       /\ ghalf' = IF HalfDestroyed(~timeout /\ gresp = "ok") THEN ghalf \cup {gop.id} ELSE ghalf
  /\ UNCHANGED <<gresp, gdev, gtag, gpumix>>

-----------------------------------------------------------------------------
(* Calls. *)

Op(kind, todo, c, ctx, id, block) ==
  gop' = [kind |-> kind, todo |-> todo, by |-> c, ctx |-> ctx, id |-> id, block |-> block, sent |-> FALSE]

Init2d ==
  /\ gop.kind = "idle" /\ gpubudget.init
  /\ gpubudget' = [gpubudget EXCEPT !.init = FALSE]
  /\ \E b \in GBlock : (\A a \in GBlock : b <= a)
       /\ Op("init", (IF gpumix.virgl THEN <<"capset_info">> ELSE <<>>)
                     \o <<"display_info", "create_2d", "attach_backing", "set_scanout">>,
             0, 0, RESOURCE_ID_2D, b)
  /\ UNCHANGED <<gst, gq, gresp, gdev, gheap, gcli, gtag, ghalf, gpumix>>

\* The console's flush after a write or a present.
Flush ==
  /\ gop.kind = "idle" /\ gst.up /\ gpubudget.flushes > 0
  /\ gpubudget' = [gpubudget EXCEPT !.flushes = @ - 1]
  /\ Op("flush", FlushSteps, 0, 0, RESOURCE_ID_2D, 0)
  /\ UNCHANGED <<gst, gq, gresp, gdev, gheap, gcli, gtag, ghalf, gpumix>>

\* three_d_info: unsupported without VirGL, a capset or the driver.
three_d_info == gst.up /\ gpumix.virgl /\ gst.capsets

\* gputest's server_main: its calls in order; from any failure it goes on at its
\* cleanup, the last two.
gputest == <<"info", "capset", "ctx_create", "create_resource", "ctx_attach", "submit",
             "readback", "destroy_resource", "ctx_destroy">>

\* A gputest's system call, up to the first command.  gputest passes only the
\* ids it was given, once each, so the lookups of ctx_attach succeed.
syscall_gpu3d(c) ==
  /\ gop.kind = "idle" /\ ~gpubudget.init /\ c \in gpumix.clients
  /\ LET cl == gcli[c]
         at == IF cl.pc \in DOMAIN gputest THEN gputest[cl.pc] ELSE "exit" IN
     \/ /\ at = "info" /\ Answer(c, IF three_d_info THEN [cl EXCEPT !.pc = 2] ELSE [cl EXCEPT !.pc = 10])
        /\ UNCHANGED <<gst, gop>>
     \/ at = "capset" /\ Op("capset", <<"capset">>, c, 0, 0, 0) /\ UNCHANGED <<gst, gcli>>
     \/ /\ at = "ctx_create" /\ Op("ctx_create", <<"ctx_create">>, c, gst.nextc, 0, 0)
        /\ gst' = [gst EXCEPT !.nextc = @ + 1] /\ UNCHANGED gcli
     \/ /\ at = "create_resource" /\ Op("create_resource", <<"create_3d">>, c, 0, gst.nextr, 0)
        /\ gst' = [gst EXCEPT !.nextr = @ + 1] /\ UNCHANGED gcli
     \/ /\ at = "ctx_attach" /\ cl.ctx \in gst.contexts /\ gst.resources[cl.res].ctx = 0
        /\ Op("ctx_attach", <<"ctx_attach">>, c, cl.ctx, cl.res, 0) /\ UNCHANGED <<gst, gcli>>
     \/ at = "submit" /\ Op("submit", <<"submit">>, c, cl.ctx, 0, 0) /\ UNCHANGED <<gst, gcli>>
     \/ at = "readback" /\ Op("readback", <<"transfer_from">>, c, 0, cl.res, 0) /\ UNCHANGED <<gst, gcli>>
     \/ /\ at = "destroy_resource"   \* cleanup: the resource first
        /\ IF cl.res \in DOMAIN gst.resources
             THEN LET r == gst.resources[cl.res]
                  IN Op("destroy_resource", DestroySteps(r), c, r.ctx, cl.res, r.block) /\ UNCHANGED <<gst, gcli>>
             ELSE Answer(c, [cl EXCEPT !.pc = 9]) /\ UNCHANGED <<gst, gop>>
     \/ /\ at = "ctx_destroy"
        /\ IF cl.ctx \in gst.contexts /\ \A i \in DOMAIN gst.resources : gst.resources[i].ctx # cl.ctx
             THEN Op("ctx_destroy", <<"ctx_destroy">>, c, cl.ctx, 0, 0) /\ UNCHANGED <<gst, gcli>>
             ELSE Answer(c, [cl EXCEPT !.pc = 10]) /\ UNCHANGED <<gst, gop>>
  /\ UNCHANGED <<gq, gresp, gdev, gheap, gtag, gpubudget, ghalf, gpumix>>

\* A gputest killed between two calls: its context and resource stay.
Killed(c) ==
  /\ gcli[c].pc \in 2 .. 9 /\ gop.by # c /\ gpubudget.kills > 0
  /\ gpubudget' = [gpubudget EXCEPT !.kills = @ - 1]
  /\ gcli' = [gcli EXCEPT ![c].pc = 11]
  /\ UNCHANGED <<gst, gop, gq, gresp, gdev, gheap, gtag, ghalf, gpumix>>

GpuInit ==
  /\ gpumix \in GpuMixes
  /\ gst = [up |-> FALSE, capsets |-> FALSE, contexts |-> {}, resources |-> <<>>, nextc |-> 1, nextr |-> RESOURCE_3D_FIRST]
  /\ gop = NoOp /\ gq = [avail |-> 0, desc |-> NoCmd, cur |-> NoCmd, used |-> 0] /\ gresp = "none"
  /\ gdev = [ctxs |-> {}, res |-> <<>>, scanout |-> 0]
  /\ gheap = [b \in GBlock |-> "free"]
  /\ gcli = [c \in GClient |-> [pc |-> 1, ctx |-> 0, res |-> 0, got |-> "none"]]
  /\ gtag = 0 /\ ghalf = {}
  /\ gpubudget = [init |-> TRUE, refusals |-> gpumix.refusals, timeouts |-> gpumix.timeouts,
                  kills |-> gpumix.kills, flushes |-> gpumix.flushes]

GpuNext ==
  \/ Init2d \/ Flush \/ transact \/ DeviceFetches \/ DeviceExecutes \/ wait_used
  \/ \E c \in GClient : syscall_gpu3d(c) \/ Killed(c)

GpuSpec == GpuInit /\ [][GpuNext]_gpuVars

-----------------------------------------------------------------------------

GpuTypeOK ==
  /\ gst.up \in BOOLEAN /\ gst.contexts \subseteq 1 .. Cardinality(GClient)
  /\ DOMAIN gst.resources \subseteq Ids /\ DOMAIN gdev.res \subseteq Ids
  /\ gq.avail \in Nat /\ gq.used \in Nat /\ gresp \in {"none", "ok", "err"}
  /\ gheap \in [GBlock -> {"free", "screen", "zero", "junk", "red"}]
  /\ \A c \in GClient : gcli[c].pc \in 1 .. 11 /\ gcli[c].got \in {"none", "zero", "junk", "red"}

\* "Device must drop DMA references before guest backing is freed" (gpu.rs:786): a
\* backing store the device holds is an allocated block.
DmaDropped ==
  \A i \in DOMAIN gdev.res : gdev.res[i].block # 0 => gheap[gdev.res[i].block] # "free"

\* The driver's tables and the device stay in step through refused commands and
\* killed processes: backing stores are allocated and never shared; every listed
\* context exists at the device, and every listed resource with the backing store
\* and the context the table has for it; a resource's context is not destroyed under
\* it (destroy_context's check, gpu.rs:664), and a gputest whose read-back succeeded
\* read what its own stream drew (gputest lib.rs:119-136).  When destroy_resource is
\* refused half-way (gpu.rs:783-790), the table keeps a context, or a backing store,
\* that the device has already given up, but none it does not know.
GpuInStep ==
  /\ DmaDropped
  /\ \A i, j \in DOMAIN gdev.res : i # j /\ gdev.res[i].block # 0 => gdev.res[i].block # gdev.res[j].block
  /\ gop.kind = "idle" =>
       /\ gst.contexts \subseteq gdev.ctxs
       /\ \A i \in DOMAIN gst.resources :
            LET r == gst.resources[i]
                known == {r.ctx} \ {0}
            IN /\ i \in DOMAIN gdev.res /\ known \subseteq gst.contexts
               /\ IF i \in ghalf THEN gdev.res[i].ctxs \subseteq known /\ gdev.res[i].block \in {0, r.block}
                  ELSE gdev.res[i].ctxs = known /\ gdev.res[i].block = r.block
  /\ \A c \in GClient : gcli[c].got \in {"none", "red"}
=============================================================================
