------------------------------- MODULE Sound -------------------------------
(***************************************************************************)
(* Audio playback: the audiotest program (servers/audiotest), the audio    *)
(* server audiod (servers/audiod), and the virtio sound driver             *)
(* (drivers/virtio/sound.rs) behind the Audio system calls.  The driver    *)
(* keeps two flags, prepared and running, that shadow the PCM state of the *)
(* device; SOUND's lock is held for a whole call.  The device may refuse a *)
(* control command, fail a period, or be too slow for either poll.         *)
(***************************************************************************)
EXTENDS Integers, Sequences, SequencesExt

CONSTANTS
  ATest,       \* audiotest processes, numbers > 0
  Periods,     \* periods of the acceptance tone (24 in the code)
  EventBufs,   \* event queue buffers (QSZ)
  SoundMixes   \* [tests, ops, stereo, refusals, errors, slow, lazy, events]

VARIABLES
  snd,         \* State: [up, prepared, running]
  sop,         \* the call holding SOUND's lock: [kind, todo, sent]
  pcm,         \* device: PCM state of stream 0
  cq,          \* control queue: [avail, desc, cur, used, resp]; desc: what descriptor 0 points at
  tx,          \* tx queue: [avail, desc, cur, status, used]; desc: the period in descriptor 1
  evq,         \* event queue: [avail, used]
  played,      \* device: the periods it has played
  audiod,      \* [pc, client, n, left, stops, ok]: the tone's period n, left to play; stops at the end
  areq, aresp, \* AUDIO_REQ; AUDIO_RESP: pid -> replies
  atest,       \* audiotest -> "start", "wait", "pass", "fail"
  reported,    \* the periods play_period reported as played
  illegal,     \* whether a command not legal in the device's state was sent
  sndhist,     \* history: [abandoned: a command was given up on, crowded: the periods queued behind one given up on]
  sndbudget, sndmix

soundVars == <<snd, sop, pcm, cq, tx, evq, played, audiod, areq, aresp, atest, reported, illegal, sndhist, sndbudget, sndmix>>

NoCall == [kind |-> "idle", todo |-> <<>>, sent |-> FALSE]
NoCommand == [c |-> "none", own |-> FALSE]

-----------------------------------------------------------------------------
(* The driver. *)

\* init: the event queue filled, then query_playback: the stream must do 48kHz
\* 16-bit stereo.
sound_init ==
  /\ ~snd.up /\ sndbudget.init
  /\ sndbudget' = [sndbudget EXCEPT !.init = FALSE]
  /\ snd' = [snd EXCEPT !.up = sndmix.stereo]
  /\ evq' = [evq EXCEPT !.avail = EventBufs]
  /\ UNCHANGED <<sop, pcm, cq, tx, played, audiod, areq, aresp, atest, reported, illegal, sndhist, sndmix>>

PcmLegal(c) ==
  CASE c = "set_params" -> pcm \in {"none", "params", "prepared", "released"}
    [] c = "prepare" -> pcm \in {"params", "prepared", "released"}
    [] c = "start" -> pcm \in {"prepared", "stopped"}
    [] c = "stop" -> pcm = "running"
    [] OTHER -> pcm \in {"prepared", "stopped"}

PcmAfter(c) ==
  CASE c = "set_params" -> "params" [] c = "prepare" -> "prepared" [] c = "start" -> "running"
    [] c = "stop" -> "stopped" [] OTHER -> "released"

\* The flags after a command the device accepted.
FlagsAfter(c, s) ==
  CASE c = "start" -> [s EXCEPT !.running = TRUE]
    [] c = "stop" -> [s EXCEPT !.running = FALSE]
    [] c = "prepare" -> [s EXCEPT !.prepared = TRUE]
    [] c = "release" -> [s EXCEPT !.prepared = FALSE]
    [] OTHER -> s

Return(ok) == sop' = NoCall /\ audiod' = [audiod EXCEPT !.pc = "result", !.ok = ok]

CtlRest == UNCHANGED <<tx, evq, played, areq, aresp, atest, reported, sndmix>>

\* pcm_cmd / control_xfer: the two descriptors are overwritten, one more queue entry,
\* the request and the response are the caller's own.
pcm_cmd ==
  /\ sop.todo # <<>> /\ Head(sop.todo) \notin {"push", "wait"} /\ ~sop.sent
  /\ sop' = [sop EXCEPT !.sent = TRUE]
  /\ cq' = [cq EXCEPT !.avail = @ + 1, !.desc = [c |-> Head(sop.todo), own |-> TRUE], !.resp = "none"]
  /\ UNCHANGED <<snd, pcm, audiod, illegal, sndhist, sndbudget>> /\ CtlRest

\* The device takes what the descriptors of the next queue entry hold ...
TakesCommand ==
  /\ cq.avail > 0 /\ cq.cur = NoCommand
  /\ cq' = [cq EXCEPT !.avail = @ - 1, !.cur = cq.desc]
  /\ UNCHANGED <<snd, sop, pcm, audiod, illegal, sndhist, sndbudget>> /\ CtlRest

\* ... and obeys or refuses.  Of a command given up on the request may be overwritten
\* by now, and the response may lie where the next command has its own.
RunsCommand ==
  /\ cq.cur # NoCommand
  /\ LET c == cq.cur.c
         free == ~cq.cur.own \/ ~PcmLegal(c) IN
     \E ok \in BOOLEAN, mine \in (IF cq.cur.own THEN {TRUE} ELSE BOOLEAN) :
       /\ IF ok THEN PcmLegal(c) ELSE free \/ sndbudget.refusals > 0
       /\ pcm' = IF ok THEN PcmAfter(c) ELSE pcm
       /\ illegal' = (illegal \/ ~PcmLegal(c))
       /\ sndbudget' = IF ok \/ free THEN sndbudget ELSE [sndbudget EXCEPT !.refusals = @ - 1]
       /\ cq' = [cq EXCEPT !.cur = NoCommand, !.used = @ + 1,
                           !.resp = IF ~mine THEN @ ELSE IF ok THEN "ok" ELSE "err"]
  /\ UNCHANGED <<snd, sop, audiod, sndhist>> /\ CtlRest

\* The first completion, or the end of the poll, ends the wait; without a good
\* response the call ends.
AwaitCommand ==
  /\ sop.sent
  /\ cq.used > 0 \/ sndbudget.lazy > 0
  /\ LET done == cq.used > 0
         c == Head(sop.todo) IN
     /\ sndbudget' = IF done THEN sndbudget ELSE [sndbudget EXCEPT !.lazy = @ - 1]
     /\ sndhist' = [sndhist EXCEPT !.abandoned = @ \/ ~done]
     /\ cq' = [cq EXCEPT !.used = IF done THEN @ - 1 ELSE @, !.desc.own = FALSE, !.cur.own = FALSE]
     /\ IF done /\ cq.resp = "ok"
          THEN /\ snd' = FlagsAfter(c, snd)
               /\ IF Len(sop.todo) > 1 THEN sop' = [sop EXCEPT !.todo = Tail(@), !.sent = FALSE] /\ UNCHANGED audiod
                                       ELSE Return(TRUE)
          ELSE Return(FALSE) /\ UNCHANGED snd
  /\ UNCHANGED <<pcm, illegal>> /\ CtlRest

\* ensure_prepared's commands, then the period is queued, the stream started if it
\* is not running, and the completion awaited.
PlaySteps ==
  (IF snd.prepared THEN <<>> ELSE <<"set_params", "prepare">>) \o <<"push">>
  \o (IF snd.running THEN <<>> ELSE <<"start">>) \o <<"wait">>

StopSteps ==
  (IF snd.running THEN <<"stop">> ELSE <<>>) \o (IF snd.prepared THEN <<"release">> ELSE <<>>)

\* The three descriptors are overwritten, whatever is still queued.
PushPeriod ==
  /\ sop.todo # <<>> /\ Head(sop.todo) = "push"
  /\ tx' = [tx EXCEPT !.avail = @ + 1, !.desc = audiod.n, !.status = "none"]
  /\ sop' = [sop EXCEPT !.todo = Tail(@)]
  /\ sndhist' = IF tx.avail > 0 \/ tx.cur # 0 THEN [sndhist EXCEPT !.crowded = @ \cup {audiod.n}] ELSE sndhist
  /\ UNCHANGED <<snd, pcm, cq, evq, played, audiod, areq, aresp, atest, reported, illegal, sndbudget, sndmix>>

\* The first completion ends the wait; the period was played only if its own status
\* says so.
Completed == tx.used > 0 /\ tx.status = "ok"

AwaitPeriod ==
  /\ sop.todo # <<>> /\ Head(sop.todo) = "wait"
  /\ tx.used > 0 \/ sndbudget.slow > 0
  /\ sndbudget' = IF tx.used > 0 THEN sndbudget ELSE [sndbudget EXCEPT !.slow = @ - 1]
  /\ tx' = IF tx.used > 0 THEN [tx EXCEPT !.used = @ - 1] ELSE tx
  /\ reported' = IF Completed THEN reported \cup {audiod.n} ELSE reported
  /\ Return(Completed)
  /\ UNCHANGED <<snd, pcm, cq, evq, played, areq, aresp, atest, illegal, sndhist, sndmix>>

\* The device takes what the descriptors of the next queue entry hold ...
TakesPeriod ==
  /\ pcm = "running" /\ tx.avail > 0 /\ tx.cur = 0
  /\ tx' = [tx EXCEPT !.avail = @ - 1, !.cur = tx.desc]
  /\ UNCHANGED <<snd, sop, pcm, cq, evq, played, audiod, areq, aresp, atest, reported, illegal, sndhist, sndbudget, sndmix>>

\* ... plays it, and writes the status of that period.  The status of a call that
\* gave up may lie where the next call has its own.
PlaysPeriod ==
  /\ tx.cur # 0
  /\ \E ok \in BOOLEAN, mine \in (IF tx.cur = tx.desc THEN {TRUE} ELSE BOOLEAN) :
       /\ ok \/ sndbudget.errors > 0
       /\ tx' = [tx EXCEPT !.cur = 0, !.used = @ + 1,
                           !.status = IF ~mine THEN @ ELSE IF ok THEN "ok" ELSE "bad"]
       /\ played' = IF ok THEN played \cup {tx.cur} ELSE played
       /\ sndbudget' = IF ok THEN sndbudget ELSE [sndbudget EXCEPT !.errors = @ - 1]
  /\ UNCHANGED <<snd, sop, pcm, cq, evq, audiod, areq, aresp, atest, reported, illegal, sndhist, sndmix>>

DeviceEvent ==
  /\ evq.avail > 0 /\ sndbudget.events > 0
  /\ evq' = [avail |-> evq.avail - 1, used |-> evq.used + 1]
  /\ sndbudget' = [sndbudget EXCEPT !.events = @ - 1]
  /\ UNCHANGED <<snd, sop, pcm, cq, tx, played, audiod, areq, aresp, atest, reported, illegal, sndhist, sndmix>>

\* irq_handler gives the event buffers back.
irq_handler ==
  /\ snd.up /\ sop.kind = "idle" /\ evq.used > 0
  /\ evq' = [avail |-> evq.avail + evq.used, used |-> 0]
  /\ UNCHANGED <<snd, sop, pcm, cq, tx, played, audiod, areq, aresp, atest, reported, illegal, sndhist, sndbudget, sndmix>>

-----------------------------------------------------------------------------
(* audiod and audiotest. *)

Respond(ok) ==
  /\ aresp' = [aresp EXCEPT ![audiod.client] = Append(@, IF ok THEN "OK" ELSE "ERR")]
  /\ audiod' = [audiod EXCEPT !.pc = "recv"]

\* AudioPlay and AudioStop: both fail without a driver.
syscall_audio ==
  /\ audiod.pc = "call"
  /\ LET todo == IF audiod.left > 0 THEN PlaySteps ELSE StopSteps IN
     IF snd.up /\ todo # <<>>
       THEN sop' = [NoCall EXCEPT !.kind = "call", !.todo = todo] /\ audiod' = [audiod EXCEPT !.pc = "kernel"]
       ELSE UNCHANGED sop /\ audiod' = [audiod EXCEPT !.pc = "result", !.ok = snd.up]
  /\ UNCHANGED <<snd, pcm, cq, tx, evq, played, areq, aresp, atest, reported, illegal, sndhist, sndbudget, sndmix>>

audiod_main ==
  /\ audiod.pc = "recv" /\ areq # <<>> /\ ~sndbudget.init
  /\ LET tone == Head(areq).kind = "play"
     IN audiod' = [audiod EXCEPT !.pc = "call", !.client = Head(areq).from,
                                 !.n = IF tone THEN @ + 1 ELSE @, !.left = IF tone THEN Periods ELSE 0,
                                 !.stops = ~tone]
  /\ areq' = Tail(areq)
  /\ UNCHANGED <<snd, sop, pcm, cq, tx, evq, played, aresp, atest, reported, illegal, sndhist, sndbudget, sndmix>>

\* play_acceptance_tone: the periods in turn, then audio_stop; any error ends it.
\* The outcome is the reply.
play_acceptance_tone ==
  /\ audiod.pc = "result"
  /\ IF audiod.ok /\ ~audiod.stops
       THEN /\ audiod' = [audiod EXCEPT !.pc = "call", !.left = @ - 1, !.stops = audiod.left = 1,
                                        !.n = IF audiod.left > 1 THEN @ + 1 ELSE @]
            /\ UNCHANGED aresp
       ELSE Respond(audiod.ok)
  /\ UNCHANGED <<snd, sop, pcm, cq, tx, evq, played, areq, atest, reported, illegal, sndhist, sndbudget, sndmix>>

audiotest_main(c) ==
  /\ \/ /\ atest[c] = "start" /\ c \in sndmix.tests
        /\ \E k \in sndmix.ops : areq' = Append(areq, [from |-> c, kind |-> k])
        /\ atest' = [atest EXCEPT ![c] = "wait"] /\ UNCHANGED aresp
     \/ /\ atest[c] = "wait" /\ aresp[c] # <<>>
        /\ atest' = [atest EXCEPT ![c] = IF Head(aresp[c]) = "OK" THEN "pass" ELSE "fail"]
        /\ aresp' = [aresp EXCEPT ![c] = Tail(@)] /\ UNCHANGED areq
  /\ UNCHANGED <<snd, sop, pcm, cq, tx, evq, played, audiod, reported, illegal, sndhist, sndbudget, sndmix>>

SoundInit ==
  /\ sndmix \in SoundMixes
  /\ snd = [up |-> FALSE, prepared |-> FALSE, running |-> FALSE] /\ sop = NoCall /\ pcm = "none"
  /\ cq = [avail |-> 0, desc |-> NoCommand, cur |-> NoCommand, used |-> 0, resp |-> "none"]
  /\ tx = [avail |-> 0, desc |-> 0, cur |-> 0, status |-> "none", used |-> 0] /\ evq = [avail |-> 0, used |-> 0]
  /\ played = {} /\ reported = {} /\ illegal = FALSE /\ sndhist = [abandoned |-> FALSE, crowded |-> {}]
  /\ audiod = [pc |-> "recv", client |-> 0, n |-> 0, left |-> 0, stops |-> FALSE, ok |-> FALSE]
  /\ areq = <<>> /\ aresp = [c \in ATest |-> <<>>] /\ atest = [c \in ATest |-> "start"]
  /\ sndbudget = [init |-> TRUE, refusals |-> sndmix.refusals, errors |-> sndmix.errors,
                  slow |-> sndmix.slow, lazy |-> sndmix.lazy, events |-> sndmix.events]

SoundNext ==
  \/ sound_init \/ pcm_cmd \/ TakesCommand \/ RunsCommand \/ AwaitCommand
  \/ PushPeriod \/ AwaitPeriod \/ TakesPeriod \/ PlaysPeriod \/ DeviceEvent \/ irq_handler
  \/ audiod_main \/ syscall_audio \/ play_acceptance_tone \/ \E c \in ATest : audiotest_main(c)

SoundSpec == SoundInit /\ [][SoundNext]_soundVars

-----------------------------------------------------------------------------

SoundTypeOK ==
  /\ snd \in [up : BOOLEAN, prepared : BOOLEAN, running : BOOLEAN]
  /\ pcm \in {"none", "params", "prepared", "running", "stopped", "released"}
  /\ tx.avail \in Nat /\ tx.used \in Nat /\ evq.avail + evq.used \in {0, EventBufs}
  /\ audiod.pc \in {"recv", "call", "kernel", "result"} /\ audiod.left \in 0 .. Periods
  /\ \A c \in ATest : atest[c] \in {"start", "wait", "pass", "fail"}

\* The driver's flags are the device's state through refusals, and no command is sent
\* that the PCM state does not allow, across calls of several clients
\* (ensure_prepared, play_period, stop, sound.rs:204-302), until a command is given up
\* on, which the device may still run (control_xfer, sound.rs:187-193); and a period
\* reported as played was played ("wait until the device consumes it", sound.rs:230),
\* even after a failed START or a slow device has left an entry in the queue, unless
\* that entry is still there when the period is queued: status is a local of
\* play_period (sound.rs:245), so the late one may be written over the new one.
SoundFaithful ==
  /\ \/ sndhist.abandoned
     \/ /\ ~illegal
        /\ ~sop.sent => /\ snd.running <=> pcm = "running"
                       /\ snd.prepared <=> pcm \in {"prepared", "running", "stopped"}
  /\ reported \ sndhist.crowded \subseteq played
=============================================================================
