------------------------------- MODULE Input --------------------------------
(***************************************************************************)
(* Input from devices to readers: HID keyboard reports (drivers/xhci.rs),  *)
(* the virtio-input device and the ring of normalised events               *)
(* (drivers/virtio/input.rs, virtio.rs), the terminal's bytes              *)
(* (console_input.rs), the serial port (pl011.rs), the InputRead and       *)
(* ConsoleRead system calls and inputd, which republishes events on        *)
(* INPUT_EVENT_BUS.                                                        *)
(***************************************************************************)
EXTENDS Naturals, Sequences, FiniteSets

CONSTANTS
  InKey,        \* keys that spell a byte, beside the two shift keys and "caps"
  InLetter,     \* the keys among them that capitals apply to
  QN,           \* buffers of the virtio-input queue
  RING,         \* cells of the ring of events, one of them never used
  CAP,          \* cells of the terminal's ring, one of them never used
  RXBUF,        \* cells of the serial ring, one of them never used
  BUS,          \* messages INPUT_EVENT_BUS holds
  InMixes       \* the workloads: [strokes, raws, moves, serial]

VARIABLES
  kbd,          \* the keyboard: [held, rep, prev]: keys held, the report in the
                \* event ring, the last report consumed; a report is [mods, keys]
  vq,           \* virtio-input: [avail, used, down]: queues of buffers, filled in used,
                \* and the keys that are down
  iring,        \* the ring of events
  con,          \* console_input's State: [bytes, shift, caps]
  uart,         \* pl011's State: the ring's bytes
  inbus,        \* INPUT_EVENT_BUS
  indpc,        \* the event inputd has read and not yet published
  gui,          \* events that the subscriber of the bus has received
  heard,        \* bytes the terminal has read: [hid, serial]
  spelled,      \* what the keys and the serial line have spelled: [hid, serial], of a key
                \* the bytes it may be; shift keys held, and the lock
  inbudget, inmix

inVars == <<kbd, vq, iring, con, uart, inbus, indpc, gui, heard, spelled, inbudget, inmix>>
rest == <<inbudget, inmix>>

Range1(s) == {s[i] : i \in DOMAIN s}
Shifts == {"lshift", "rshift"}
NoReport == [mods |-> {}, keys |-> <<>>]

-----------------------------------------------------------------------------
(* The terminal's mirror of the keyboard. *)

\* A letter is a capital under shift or caps lock, not under both; any other key
\* has a second byte under shift.
keycode_to_ascii(key, shift, caps) ==
  <<key, IF key \in InLetter THEN shift # caps ELSE shift>>

\* Mutant: the oldest byte makes room.
PushOver(bytes, b) == Append(IF Len(bytes) = CAP - 1 THEN Tail(bytes) ELSE bytes, b)

\* A full ring drops the newest byte.
push(bytes, b) == IF Len(bytes) = CAP - 1 THEN bytes ELSE Append(bytes, b)

\* Only presses spell; a release only updates the modifier.
feed(c, e) ==
  CASE e.kind # "key" -> c
    [] e.kind = "key" /\ e.code \in Shifts -> [c EXCEPT !.shift = e.value # 0]
    [] e.kind = "key" /\ e.code = "caps" ->
         IF e.value = 1 THEN [c EXCEPT !.caps = ~@] ELSE c
    [] OTHER -> IF e.value = 0 THEN c
                ELSE [c EXCEPT !.bytes = push(@, keycode_to_ascii(e.code, c.shift, c.caps))]

\* Every event is mirrored before the ring of events takes or drops it.
push_ring(s, e) ==
  [ring |-> IF Len(s.ring) = RING - 1 THEN s.ring ELSE Append(s.ring, e),
   con |-> feed(s.con, e)]

Normalized == [kind : {"key", "button", "abs"}, code : STRING, value : 0 .. 2]
PushAll[s \in [ring : Seq(Normalized),
               con : [bytes : Seq(InKey \X BOOLEAN), shift : BOOLEAN, caps : BOOLEAN]],
        es \in Seq(Normalized)] ==
  IF es = <<>> THEN s ELSE PushAll[push_ring(s, Head(es)), Tail(es)]

Inject(es) ==
  LET s == PushAll[[ring |-> iring, con |-> con], es] IN iring' = s.ring /\ con' = s.con

-----------------------------------------------------------------------------
(* The USB keyboard. *)

Event(code, value) == [kind |-> "key", code |-> code, value |-> value]

Modifier(k, prev, now) ==
  IF (k \in now.mods) = (k \in prev.mods) THEN <<>> ELSE <<Event(k, IF k \in now.mods THEN 1 ELSE 0)>>

\* Modifiers first, left before right, then the keys that are gone, then the new
\* ones in the order of the report.
consume_hid_report(prev, now) ==
  Modifier("lshift", prev, now) \o Modifier("rshift", prev, now)
  \o [i \in DOMAIN SelectSeq(prev.keys, LAMBDA k : k \notin Range1(now.keys)) |->
        Event(SelectSeq(prev.keys, LAMBDA k : k \notin Range1(now.keys))[i], 0)]
  \o [i \in DOMAIN SelectSeq(now.keys, LAMBDA k : k \notin Range1(prev.keys)) |->
        Event(SelectSeq(now.keys, LAMBDA k : k \notin Range1(prev.keys))[i], 1)]

\* The history after a keyboard's message: the shift keys held on any keyboard,
\* and whether one was released while another was down, as long as one is.
Holding(s, held, released) == [s EXCEPT !.held = held, !.muddled = held # {} /\ (@ \/ released)]
ByteOf(s, key, lock) ==
  {keycode_to_ascii(key, x, lock) : x \in IF s.muddled THEN BOOLEAN ELSE {s.held # {}}}

\* What a report spells beside the last one, by its own modifiers and the lock.
Spells(s, prev, now) ==
  LET new == SelectSeq(now.keys, LAMBDA k : k \notin Range1(prev.keys))
      keys == SelectSeq(new, LAMBDA k : k # "caps")
      t == Holding(s, {h \in s.held : h[1] # "usb"} \cup ({"usb"} \X now.mods),
                   ~(prev.mods \subseteq now.mods))
      LockAt(key) == s.lock # \E j, n \in DOMAIN new : new[j] = "caps" /\ new[n] = key /\ j < n
  IN  [t EXCEPT !.hid = @ \o [i \in DOMAIN keys |-> ByteOf(t, keys[i], LockAt(keys[i]))],
                !.lock = @ # ("caps" \in Range1(new))]

\* A key goes down or up; the keyboard reports its state when it is next polled.
Stroke ==
  /\ inbudget.strokes > 0 /\ inbudget' = [inbudget EXCEPT !.strokes = @ - 1]
  /\ \E k \in InKey \cup Shifts \cup {"caps"} :
       kbd' = [kbd EXCEPT !.held =
         IF k \in Shifts THEN [@ EXCEPT !.mods = IF k \in @ THEN @ \ {k} ELSE @ \cup {k}]
         ELSE [@ EXCEPT !.keys = IF k \in Range1(@) THEN SelectSeq(@, LAMBDA x : x # k)
                                 ELSE Append(@, k)]]
  /\ UNCHANGED <<vq, iring, con, uart, inbus, indpc, gui, heard, spelled, inmix>>

KeyReport ==
  /\ kbd.rep = <<>> /\ kbd.held # kbd.prev
  /\ kbd' = [kbd EXCEPT !.rep = <<kbd.held>>]
  /\ UNCHANGED <<vq, iring, con, uart, inbus, indpc, gui, heard, spelled, rest>>

-----------------------------------------------------------------------------
(* virtio-input. *)

\* EV_SYN is left out; key codes from BTN_MISC on are buttons.
translate(raw) == [raw EXCEPT !.kind = IF @ = "key" /\ raw.code = "btn" THEN "button" ELSE @]
Translated(used) ==
  LET real == SelectSeq(used, LAMBDA u : u.raw.kind # "syn") IN [i \in DOMAIN real |-> translate(real[i].raw)]

\* What the keys of a virtio keyboard spell; a repeat counts as a press.
SpellsKey(s, e) ==
  CASE e.kind = "key" /\ e.code \in Shifts ->
         Holding(s, IF e.value = 0 THEN s.held \ {<<"virtio", e.code>>}
                    ELSE s.held \cup {<<"virtio", e.code>>}, e.value = 0)
    [] e.kind = "key" /\ e.code = "caps" -> [s EXCEPT !.lock = @ # (e.value = 1)]
    [] e.kind = "key" /\ e.code \in InKey /\ e.value # 0 -> [s EXCEPT !.hid = Append(@, ByteOf(s, e.code, s.lock))]
    [] OTHER -> s
SpellsAll[s \in [hid : Seq(SUBSET (InKey \X BOOLEAN)), serial : Seq(Nat), lock : BOOLEAN,
                 held : SUBSET ({"usb", "virtio"} \X Shifts), muddled : BOOLEAN],
          es \in Seq(Normalized)] ==
  IF es = <<>> THEN s ELSE SpellsAll[SpellsKey(s, Head(es)), Tail(es)]

\* The device fills the oldest buffer it was given; without one it loses the event.
Move ==
  /\ inbudget.moves > 0 /\ inbudget' = [inbudget EXCEPT !.moves = @ - 1]
  /\ \E raw \in inmix.raws :
       /\ raw.kind = "key" => (raw.value = 1) = (raw.code \notin vq.down)
       /\ vq' = [avail |-> IF vq.avail = <<>> THEN <<>> ELSE Tail(vq.avail),
                 used |-> IF vq.avail = <<>> THEN vq.used
                          ELSE Append(vq.used, [id |-> Head(vq.avail), raw |-> raw]),
                 down |-> IF raw.kind # "key" THEN vq.down
                          ELSE IF raw.value = 0 THEN vq.down \ {raw.code} ELSE vq.down \cup {raw.code}]
  /\ UNCHANGED <<kbd, iring, con, uart, inbus, indpc, gui, heard, spelled, inmix>>

\* Every used buffer is taken, translated and given back.
irq_handler ==
  /\ vq.used # <<>>
  /\ Inject(Translated(vq.used))
  /\ spelled' = SpellsAll[spelled, Translated(vq.used)]
  /\ vq' = [vq EXCEPT !.avail = @ \o [i \in DOMAIN vq.used |-> vq.used[i].id], !.used = <<>>]
  /\ UNCHANGED <<kbd, uart, inbus, indpc, gui, heard, rest>>

-----------------------------------------------------------------------------
(* inputd and the subscriber. *)

\* InputRead polls the USB controller, then takes the oldest event.
InputRead ==
  /\ indpc = <<>>
  /\ kbd.rep # <<>> \/ iring # <<>>
  /\ LET es == IF kbd.rep = <<>> THEN <<>> ELSE consume_hid_report(kbd.prev, kbd.rep[1])
         s == PushAll[[ring |-> iring, con |-> con], es] IN
     /\ con' = s.con
     /\ iring' = IF s.ring = <<>> THEN <<>> ELSE Tail(s.ring)
     /\ indpc' = IF s.ring = <<>> THEN <<>> ELSE <<Head(s.ring)>>
  /\ spelled' = IF kbd.rep = <<>> THEN spelled ELSE Spells(spelled, kbd.prev, kbd.rep[1])
  /\ kbd' = IF kbd.rep = <<>> THEN kbd ELSE [kbd EXCEPT !.prev = kbd.rep[1], !.rep = <<>>]
  /\ UNCHANGED <<vq, uart, inbus, gui, heard, rest>>

\* A full bus loses the event.
publish ==
  /\ indpc # <<>>
  /\ inbus' = IF Len(inbus) = BUS THEN inbus ELSE Append(inbus, indpc[1])
  /\ indpc' = <<>>
  /\ UNCHANGED <<kbd, vq, iring, con, uart, gui, heard, spelled, rest>>

Subscriber ==
  /\ inbus # <<>>
  /\ inbus' = Tail(inbus) /\ gui' = Append(gui, Head(inbus))
  /\ UNCHANGED <<kbd, vq, iring, con, uart, indpc, heard, spelled, rest>>

-----------------------------------------------------------------------------
(* The serial port and ConsoleRead. *)

\* The interrupt drains the FIFO into the ring; a full ring loses its oldest byte.
uart_irq_handler ==
  /\ inbudget.serial > 0 /\ inbudget' = [inbudget EXCEPT !.serial = @ - 1]
  /\ LET b == inmix.serial - inbudget.serial IN
     /\ uart' = Append(IF Len(uart) = RXBUF - 1 THEN Tail(uart) ELSE uart, b)
     /\ spelled' = [spelled EXCEPT !.serial = Append(@, b)]
  /\ UNCHANGED <<kbd, vq, iring, con, inbus, indpc, gui, heard, inmix>>

\* The serial port first, the keyboard when it has nothing.
ConsoleRead(len) ==
  /\ uart # <<>> \/ con.bytes # <<>>
  /\ LET Taken(s) == SubSeq(s, 1, IF len < Len(s) THEN len ELSE Len(s))
         Left(s) == SubSeq(s, len + 1, Len(s)) IN
     IF uart # <<>>
       THEN /\ heard' = [heard EXCEPT !.serial = @ \o Taken(uart)]
            /\ uart' = Left(uart) /\ UNCHANGED con
       ELSE /\ heard' = [heard EXCEPT !.hid = @ \o Taken(con.bytes)]
            /\ con' = [con EXCEPT !.bytes = Left(@)] /\ UNCHANGED uart
  /\ UNCHANGED <<kbd, vq, iring, inbus, indpc, gui, spelled, rest>>

InInit ==
  /\ inmix \in InMixes
  /\ kbd = [held |-> NoReport, rep |-> <<>>, prev |-> NoReport]
  /\ vq = [avail |-> [i \in 1 .. QN |-> i], used |-> <<>>, down |-> {}]
  /\ iring = <<>> /\ uart = <<>> /\ inbus = <<>> /\ indpc = <<>> /\ gui = <<>>
  /\ con = [bytes |-> <<>>, shift |-> FALSE, caps |-> FALSE]
  /\ heard = [hid |-> <<>>, serial |-> <<>>]
  /\ spelled = [hid |-> <<>>, serial |-> <<>>, lock |-> FALSE, held |-> {}, muddled |-> FALSE]
  /\ inbudget = [strokes |-> inmix.strokes, moves |-> inmix.moves, serial |-> inmix.serial]

InNext ==
  \/ Stroke \/ KeyReport \/ Move \/ irq_handler \/ InputRead \/ publish \/ Subscriber
  \/ uart_irq_handler \/ \E len \in {1, CAP} : ConsoleRead(len)

InSpec == InInit /\ [][InNext]_inVars

-----------------------------------------------------------------------------
InTypeOK ==
  /\ Len(iring) < RING /\ Len(con.bytes) < CAP /\ Len(uart) < RXBUF /\ Len(inbus) <= BUS
  /\ Len(vq.avail) + Len(vq.used) = QN
  /\ {vq.avail[i] : i \in DOMAIN vq.avail} \cup {vq.used[i].id : i \in DOMAIN vq.used} = 1 .. QN

Increasing(n, m) == {f \in [1 .. n -> 1 .. m] : \A i, j \in 1 .. n : i < j => f[i] < f[j]}
Subsequence(s, t) == \E f \in Increasing(Len(s), Len(t)) : \A i \in DOMAIN s : s[i] = t[f[i]]
Among(s, t) == \E f \in Increasing(Len(s), Len(t)) : \A i \in DOMAIN s : s[i] \in t[f[i]]
Spelt(s, t) == \A i \in DOMAIN s : s[i] \in t[i]

\* The terminal gets the text that was typed: whatever inputd, the ring of events
\* and the bus do, what it has read and what waits for it are the keys' bytes in
\* the order they were pressed on either keyboard, each shifted if a shift key was
\* down in its report ("GUI and console therefore both see the key without racing
\* for one shared IPC/ring element", virtio/input.rs:150-152).  Excepted are keys
\* pressed after a shift key came up while another was down and before all are up:
\* the first release ends the shift (console_input.rs:64-67).  When the terminal's ring overflows the
\* newest bytes are missing, never the unread ones (console_input.rs:34-35), and
\* the serial ring loses its oldest without mixing up the rest (pl011.rs:181).
TerminalText ==
  /\ LET text == heard.hid \o con.bytes IN
     IF Len(spelled.hid) < CAP THEN Len(text) = Len(spelled.hid) /\ Spelt(text, spelled.hid)
     ELSE /\ Among(text, spelled.hid)
          /\ Len(text) >= CAP - 1 /\ Spelt(SubSeq(text, 1, CAP - 1), spelled.hid)
  /\ Subsequence(heard.serial \o uart, spelled.serial)
=============================================================================
