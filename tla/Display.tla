------------------------------ MODULE Display ------------------------------
(***************************************************************************)
(* The graphical console (microkernel/src/display.rs): pixels and terminal *)
(* cells over a firmware (GOP) or virtio-GPU framebuffer, its escape       *)
(* sequences and UTF-8 decoder, the switch from boot log to shell, and the *)
(* line editor of the built-in shell (userland/user_app, shell.rs) that    *)
(* writes to it.  CONSOLE's lock is held while bytes are drawn and is      *)
(* released before the GPU is told to show them.                           *)
(*                                                                         *)
(* Pixel sizes are scaled down; the relations between them are the code's: *)
(* a glyph is narrow or twice that wide, a cell is one pixel wider than    *)
(* its glyph, clearing a cell clears a wide glyph's width, a tab is four   *)
(* narrow glyphs.  A glyph other than the blank inks its whole box.        *)
(***************************************************************************)
EXTENDS Integers, Sequences, FiniteSets, FiniteSetsExt, SequencesExt

CONSTANTS
  FbWidth, FbHeight,   \* framebuffer size
  LineMax,             \* the shell's line buffer (256 bytes)
  HistoryCap,          \* HISTORY_CAP
  DisplayMixes         \* [gpu, flip, smp, keys, nkeys, wides, log, svc, presents]

VARIABLES
  kpc,         \* kernel_main: "early", "drivers", "log", "clear", "store", "run"
  console,     \* CONSOLE: a record, see NewConsole
  foreground,  \* SHELL_FOREGROUND
  hostfb,      \* what the GPU shows
  writer,      \* "shell", "svc" -> [pc, bytes]: a ConsoleWrite in progress; "log": a kernel log line
  shline,      \* the shell: [pc, buf, plain, hist]
  comp,        \* the compositor: "idle" or "flush"
  stray,       \* history: glyphs let in before the screen became the shell's, see begin_shell_session
  disbudget, dismix

disVars == <<kpc, console, foreground, hostfb, writer, shline, comp, stray, disbudget, dismix>>

MARGIN == 1
NARROW == 2
WIDE == 4
CELL_ADVANCE == NARROW + 1
CELL_CLEAR_WIDTH == WIDE
GLYPH_HEIGHT == 1
LINE_HEIGHT == GLYPH_HEIGHT + 1
TAB == 4 * NARROW
CSI_MAX_PARAMS == 4

Pixels == (0 .. FbWidth - 1) \X (0 .. FbHeight - 1)
Screen == [x1 |-> 0, y1 |-> 0, x2 |-> FbWidth, y2 |-> FbHeight]
NoRect == [x1 |-> 0, y1 |-> 0, x2 |-> 0, y2 |-> 0]
Box(x, y, w, h) == [x1 |-> x, y1 |-> y, x2 |-> x + w, y2 |-> y + h]
Least(a, b) == IF a < b THEN a ELSE b
Most(a, b) == IF a > b THEN a ELSE b

-----------------------------------------------------------------------------
(* Framebuffer: fb maps physical positions; flip_y turns the rows over. *)

offset(p) == <<p[1], IF dismix.flip /\ ~dismix.gpu THEN FbHeight - 1 - p[2] ELSE p[2]>>

Inside(p, r) == r.x1 <= p[1] /\ p[1] < r.x2 /\ r.y1 <= p[2] /\ p[2] < r.y2

\* put for every logical position of a rectangle.
PutRect(fb, r, v) == [p \in Pixels |-> IF Inside(offset(p), r) THEN v ELSE fb[p]]

Empty(r) == r.x1 >= r.x2 \/ r.y1 >= r.y2

mark_dirty(d, r) ==
  IF Empty(r) THEN d
  ELSE IF Empty(d) THEN r
  ELSE [x1 |-> Least(d.x1, r.x1), y1 |-> Least(d.y1, r.y1), x2 |-> Most(d.x2, r.x2), y2 |-> Most(d.y2, r.y2)]

Clip(r) == [x1 |-> Least(r.x1, FbWidth), y1 |-> Least(r.y1, FbHeight),
            x2 |-> Least(r.x2, FbWidth), y2 |-> Least(r.y2, FbHeight)]

fill_rect(c, r, v) == [c EXCEPT !.fb = PutRect(@, r, v), !.dirty = mark_dirty(@, Clip(r))]

-----------------------------------------------------------------------------
(* Cells.  They are recorded for both backends; only the GPU's console keeps *)
(* them and draws from them.                                                 *)

console_cell_capacity ==
  (((FbWidth - 2 * MARGIN) \div CELL_ADVANCE) + 1)
    * (((FbHeight - MARGIN - GLYPH_HEIGHT) \div LINE_HEIGHT) + 1)

CellBox(cell) == Box(cell.x, cell.y, cell.w, GLYPH_HEIGHT)
Overlap(a, b) == a.x1 < b.x2 /\ a.x2 > b.x1 /\ a.y1 < b.y2 /\ a.y2 > b.y1

Ink(cells) == {p \in Pixels : \E cell \in cells : Inside(offset(p), CellBox(cell))}

render_console_region(c, r) ==
  IF dismix.gpu
    THEN [c EXCEPT !.fb = [p \in Pixels |->
            IF p \in Ink({cell \in c.cells : Overlap(CellBox(cell), r)}) THEN "fg" ELSE @[p]]]
    ELSE c

repaint_dirty(c) == [(IF Empty(c.dirty) THEN c ELSE render_console_region(c, c.dirty)) EXCEPT !.dirty = NoRect]

remove_cells_in_rect(cells, r) == {cell \in cells : ~Overlap(CellBox(cell), r)}

store_cell(cells, cell) ==
  LET others == {d \in cells : ~(d.x = cell.x /\ d.y = cell.y)}
  IN IF Cardinality(others) < console_cell_capacity THEN others \cup {cell} ELSE others

\* History: the pixels of wide glyphs whose cell went while only a part of their box
\* was cleared.
ScrapsOf(c, r) ==
  {p \in c.scraps \cup Ink({cell \in c.cells : cell.w = WIDE /\ Overlap(CellBox(cell), r)}) : ~Inside(offset(p), r)}

clear_console_layer(c, r) ==
  fill_rect([c EXCEPT !.cells = remove_cells_in_rect(@, Clip(r)), !.scraps = ScrapsOf(c, Clip(r))], Clip(r), "bg")

clear_cell(c) == clear_console_layer(c, Box(c.x, c.y, CELL_CLEAR_WIDTH, GLYPH_HEIGHT))

backspace(c) ==
  [clear_cell([c EXCEPT !.x = Most(@ - (IF c.last = 0 THEN CELL_ADVANCE ELSE c.last), MARGIN)])
     EXCEPT !.last = 0]

clear_screen(c) == [clear_console_layer(c, Screen) EXCEPT !.x = MARGIN, !.y = MARGIN, !.last = 0]

clear_line(c) == clear_console_layer(c, Box(c.x, c.y, FbWidth - c.x, GLYPH_HEIGHT))

set_cursor(c, row, col) ==
  [c EXCEPT !.y = Least(MARGIN + (Most(row, 1) - 1) * LINE_HEIGHT, FbHeight - MARGIN - GLYPH_HEIGHT),
            !.x = Least(MARGIN + (Most(col, 1) - 1) * CELL_ADVANCE, FbWidth - MARGIN - NARROW),
            !.last = 0]

\* Every logical row takes the one a line below it, the last line is cleared, the
\* cells and the cursor move up.
scroll(c) ==
  [fill_rect([c EXCEPT !.fb = [p \in Pixels |->
       LET q == offset(p) IN IF MARGIN <= q[2] /\ q[2] < FbHeight - LINE_HEIGHT
         THEN @[offset(<<q[1], q[2] + LINE_HEIGHT>>)] ELSE @[p]]],
     Box(0, FbHeight - LINE_HEIGHT, FbWidth, LINE_HEIGHT), "bg")
   EXCEPT !.cells = {[cell EXCEPT !.y = @ - LINE_HEIGHT] : cell \in {d \in @ : d.y >= MARGIN + LINE_HEIGHT}},
          !.scraps = {p \in Pixels : LET q == offset(p) IN
                        q[2] < FbHeight - LINE_HEIGHT /\ offset(<<q[1], q[2] + LINE_HEIGHT>>) \in @},
          !.dirty = IF dismix.gpu THEN mark_dirty(@, Box(0, MARGIN, FbWidth, FbHeight - MARGIN)) ELSE @,
          !.y = Most(@ - LINE_HEIGHT, MARGIN), !.x = MARGIN, !.last = 0]

Scrolled(c) == IF c.y + GLYPH_HEIGHT + MARGIN >= FbHeight THEN scroll(c) ELSE c

newline(c) == Scrolled([c EXCEPT !.x = MARGIN, !.y = @ + LINE_HEIGHT, !.last = 0])

glyph(ch) == IF ch = "W" THEN WIDE ELSE NARROW

DrawGlyph(c, ch, w) ==
  [c EXCEPT !.cells = IF ch = " " THEN @ ELSE store_cell(@, [x |-> c.x, y |-> c.y, w |-> w, ch |-> ch]),
            !.fb = IF ch = " " THEN @ ELSE PutRect(@, Box(c.x, c.y, w, GLYPH_HEIGHT), "fg"),
            !.dirty = mark_dirty(@, Box(c.x, c.y, w, GLYPH_HEIGHT)),
            !.last = w + 1, !.x = @ + w + 1]

draw_char(c, ch) ==
  CASE ch = "\n" -> newline(c)
    [] ch = "\r" -> [c EXCEPT !.x = MARGIN, !.last = 0]
    [] ch = "\t" -> [c EXCEPT !.x = @ + TAB, !.last = 0]
    [] OTHER -> DrawGlyph(clear_cell(IF c.x + glyph(ch) + MARGIN >= FbWidth THEN newline(c) ELSE c), ch, glyph(ch))

-----------------------------------------------------------------------------
(* Bytes.  "lead" and "cont" are the bytes of the wide character W (one lead, *)
(* two continuation bytes); the digits and final bytes of control sequences   *)
(* are themselves; "esc", "bs" are ESC and BS/DEL.                            *)

\* Utf8Decoder::push: need counts the continuation bytes still to come; a byte out
\* of place becomes the replacement character, drawn as a question mark.
push(c, b) ==
  IF c.need = 0
    THEN CASE b = "lead" -> [c EXCEPT !.need = 2]
           [] b = "cont" -> draw_char(c, "?")
           [] OTHER -> draw_char(c, b)
    ELSE IF b # "cont" THEN draw_char([c EXCEPT !.need = 0], "?")
    ELSE IF c.need = 2 THEN [c EXCEPT !.need = 1]
    ELSE draw_char([c EXCEPT !.need = 0], "W")

feed_text_byte(c, b) ==
  CASE b \in {"\n", "\r", "\t"} -> draw_char([c EXCEPT !.need = 0], b)
    [] b = "bs" -> backspace([c EXCEPT !.need = 0])
    [] OTHER -> push(c, b)

\* csi_param: a missing or zero parameter is the default.
csi_param(ps, i, default) == IF i <= Len(ps) /\ ps[i] # 0 THEN ps[i] ELSE default

apply_csi(c, b, ps) ==
  CASE b = "A" -> [c EXCEPT !.y = Most(@ - csi_param(ps, 1, 1) * LINE_HEIGHT, MARGIN), !.last = 0]
    [] b = "B" -> [c EXCEPT !.y = Least(@ + csi_param(ps, 1, 1) * LINE_HEIGHT, FbHeight - MARGIN - GLYPH_HEIGHT), !.last = 0]
    [] b = "C" -> [c EXCEPT !.x = Least(@ + csi_param(ps, 1, 1) * CELL_ADVANCE, FbWidth - MARGIN - NARROW), !.last = 0]
    [] b = "D" -> [c EXCEPT !.x = Most(@ - csi_param(ps, 1, 1) * CELL_ADVANCE, MARGIN), !.last = 0]
    [] b = "H" -> set_cursor(c, csi_param(ps, 1, 1), csi_param(ps, 2, 1))
    [] b = "J" /\ csi_param(ps, 1, 0) \in {0, 2} -> clear_screen(c)
    [] b = "K" /\ csi_param(ps, 1, 0) \in {0, 2} -> clear_line(c)
    [] OTHER -> c

Digit(b) == CASE b = "1" -> 1 [] b = "2" -> 2 [] OTHER -> 3

\* finish_csi_param: the number read so far, 0 if none.
finish_csi_param(c) ==
  [c EXCEPT !.params = IF Len(@) < CSI_MAX_PARAMS THEN Append(@, c.cur) ELSE @, !.cur = 0, !.has = FALSE]

FinalParams(c) == IF c.has \/ c.params # <<>> THEN finish_csi_param(c).params ELSE <<>>

reset_csi(c) == [c EXCEPT !.params = <<>>, !.cur = 0, !.has = FALSE]

feed_byte(c, b) ==
  CASE c.esc = 0 -> IF b = "esc" THEN [c EXCEPT !.need = 0, !.esc = 1] ELSE feed_text_byte(c, b)
    [] c.esc = 1 -> CASE b = "[" -> [reset_csi(c) EXCEPT !.esc = 2]
                      [] b = "c" -> [clear_screen(c) EXCEPT !.esc = 0]
                      [] b = "esc" -> c
                      [] OTHER -> feed_text_byte([c EXCEPT !.esc = 0], b)
    [] OTHER -> CASE b = "esc" -> [c EXCEPT !.esc = 1]
                  [] b \in {"1", "2", "3"} -> [c EXCEPT !.cur = Least(10 * @ + Digit(b), 999), !.has = TRUE]
                  [] b = ";" -> finish_csi_param(c)
                  [] OTHER -> reset_csi(apply_csi([c EXCEPT !.esc = 0], b, FinalParams(c)))

feed_bytes(c, bytes) == FoldLeft(feed_byte, c, bytes)

-----------------------------------------------------------------------------
(* Boot. *)

\* boot_console / install_virtio_gpu_framebuffer: a cleared screen.
NewConsole ==
  [fb |-> [p \in Pixels |-> "bg"], x |-> MARGIN, y |-> MARGIN, dirty |-> Screen, cells |-> {}, scraps |-> {},
   need |-> 0, esc |-> 0, params |-> <<>>, cur |-> 0, has |-> FALSE, last |-> 0]

ShRest == UNCHANGED <<shline, comp, dismix>>

\* On one CPU a log line is kernel_main's own and is drawn before it goes on.
KernelAt(pc) == kpc = pc /\ (dismix.smp \/ writer["log"].pc = "idle")

early_init ==
  /\ KernelAt("early")
  /\ console' = NewConsole /\ kpc' = "drivers"
  /\ UNCHANGED <<foreground, hostfb, writer, stray, disbudget>> /\ ShRest

\* write_fmt_line: dropped once the screen is the shell's, ...
write_fmt_line ==
  /\ kpc \in {"drivers", "log"} \/ (dismix.smp /\ kpc \in {"clear", "store", "run"})
  /\ disbudget.log > 0 /\ writer["log"].pc = "idle"
  /\ disbudget' = [disbudget EXCEPT !.log = @ - 1]
  /\ writer' = IF foreground THEN writer ELSE [writer EXCEPT !["log"] = [pc |-> "lock", bytes |-> <<"k", "\t", "k">>]]
  /\ UNCHANGED <<kpc, console, foreground, hostfb, stray>> /\ ShRest

\* ... drawn if the lock is free, which it is on one CPU, and never flushed.
DrawLine ==
  /\ writer["log"].pc = "lock"
  /\ \/ console' = repaint_dirty(newline(feed_bytes(console, writer["log"].bytes)))
     \/ dismix.smp /\ UNCHANGED console
  /\ writer' = [writer EXCEPT !["log"] = [pc |-> "idle", bytes |-> <<>>]]
  /\ UNCHANGED <<kpc, foreground, hostfb, stray, disbudget>> /\ ShRest

\* The GPU driver's framebuffer replaces the firmware's and is flushed.
install_virtio_gpu_framebuffer ==
  /\ KernelAt("drivers") /\ kpc' = "log"
  /\ console' = IF dismix.gpu THEN NewConsole ELSE console
  /\ hostfb' = IF dismix.gpu THEN NewConsole.fb ELSE hostfb
  /\ UNCHANGED <<foreground, writer, stray, disbudget>> /\ ShRest

\* begin_shell_session: clear, ...
display_clear ==
  /\ KernelAt("log") /\ kpc' = "clear"
  /\ console' = repaint_dirty([fill_rect([console EXCEPT !.cells = {}, !.scraps = {}], Screen, "bg")
                                 EXCEPT !.x = MARGIN, !.y = MARGIN])
  /\ UNCHANGED <<foreground, hostfb, writer, stray, disbudget>> /\ ShRest

\* ... the lock released, flush, ...
ClearFlush ==
  /\ KernelAt("clear") /\ kpc' = "store"
  /\ hostfb' = console.fb
  /\ UNCHANGED <<console, foreground, writer, stray, disbudget>> /\ ShRest

\* The glyphs of the kernel's and the services' writes on the screen, and those of
\* the writes already let in.
Foreign == {cell \in console.cells : cell.ch \in {"s", "k"}}
Admitted(w) == IF writer[w].pc = "lock" THEN Cardinality({i \in DOMAIN writer[w].bytes : writer[w].bytes[i] \in {"s", "k"}}) ELSE 0

\* ... then the screen is the shell's and the shell is enqueued.
begin_shell_session ==
  /\ KernelAt("store") /\ kpc' = "run"
  /\ foreground' = TRUE
  /\ stray' = Cardinality(Foreign) + Admitted("svc") + Admitted("log")
  /\ UNCHANGED <<console, hostfb, writer, disbudget>> /\ ShRest

-----------------------------------------------------------------------------
(* ConsoleWrite. *)

current_process_is_console(w) == w = "shell"

\* write_bytes: whether this process may write is decided first, ...
write_bytes(w) ==
  /\ writer[w].pc = "check"
  /\ writer' = [writer EXCEPT ![w].pc = IF foreground /\ ~current_process_is_console(w) THEN "idle" ELSE "lock"]
  /\ UNCHANGED <<kpc, console, foreground, hostfb, shline, comp, stray, disbudget, dismix>>

\* ... then the bytes are drawn under the lock, ...
DrawBytes(w) ==
  /\ writer[w].pc = "lock"
  /\ console' = repaint_dirty(feed_bytes(console, writer[w].bytes))
  /\ writer' = [writer EXCEPT ![w].pc = "flush"]
  /\ UNCHANGED <<kpc, foreground, hostfb, shline, comp, stray, disbudget, dismix>>

\* ... then, the lock released, the GPU shows the framebuffer as it is by now.
FlushBytes(w) ==
  /\ writer[w].pc = "flush"
  /\ hostfb' = IF dismix.gpu THEN console.fb ELSE hostfb
  /\ writer' = [writer EXCEPT ![w] = [pc |-> "idle", bytes |-> <<>>]]
  /\ UNCHANGED <<kpc, console, foreground, shline, comp, stray, disbudget, dismix>>

\* A service prints; on one CPU it first runs when kernel_main is done.
ServicePrints ==
  /\ writer["svc"].pc = "idle" /\ disbudget.svc > 0
  /\ kpc = "run" \/ (dismix.smp /\ kpc \in {"log", "clear", "store"})
  /\ disbudget' = [disbudget EXCEPT !.svc = @ - 1]
  /\ writer' = [writer EXCEPT !["svc"] = [pc |-> "check", bytes |-> <<"s", "\r", "\n">>]]
  /\ UNCHANGED <<kpc, console, foreground, hostfb, shline, comp, stray, dismix>>

\* present_xrgb: the composed surface, then the console's cells over it.
present_xrgb ==
  /\ kpc = "run" /\ comp = "idle" /\ disbudget.presents > 0
  /\ disbudget' = [disbudget EXCEPT !.presents = @ - 1]
  /\ console' = render_console_region([console EXCEPT !.fb = PutRect(@, Screen, "win")], Screen)
  /\ comp' = "flush"
  /\ UNCHANGED <<kpc, foreground, hostfb, writer, shline, stray, dismix>>

PresentFlush ==
  /\ comp = "flush" /\ comp' = "idle"
  /\ hostfb' = IF dismix.gpu THEN console.fb ELSE hostfb
  /\ UNCHANGED <<kpc, console, foreground, writer, shline, stray, disbudget, dismix>>

-----------------------------------------------------------------------------
(* The shell. *)

PROMPT == <<">">>

ShellWrites(bytes, next) ==
  /\ writer' = [writer EXCEPT !["shell"] = [pc |-> "check", bytes |-> bytes]]
  /\ shline' = next

ShellReady(pc) == kpc = "run" /\ shline.pc = pc /\ writer["shell"].pc = "idle"

user_entry ==
  /\ ShellReady("prompt")
  /\ ShellWrites(PROMPT, [shline EXCEPT !.pc = "read", !.buf = <<>>,
                            !.plain = console.x = MARGIN])
  /\ UNCHANGED <<kpc, console, foreground, hostfb, comp, stray, disbudget, dismix>>

\* read_line_impl: a key is echoed, a backspace takes one byte off the buffer and
\* rubs one cell out, a newline or a full buffer ends the line.
read_line_impl(b) ==
  /\ ShellReady("read") /\ Len(shline.buf) < LineMax /\ disbudget.keys > 0
  /\ b = "lead" => disbudget.wides > 0
  /\ disbudget' = [disbudget EXCEPT !.keys = @ - 1, !.wides = IF b = "lead" THEN @ - 1 ELSE @]
  /\ \/ /\ b = "\n"
        /\ shline' = [shline EXCEPT !.pc = "line"] /\ UNCHANGED writer
     \/ /\ b = "bs"
        /\ IF shline.buf # <<>>
             THEN ShellWrites(<<"bs", " ", "bs">>, [shline EXCEPT !.buf = Front(@)])
             ELSE UNCHANGED <<writer, shline>>
     \/ /\ b \notin {"\n", "bs"}
        /\ ShellWrites(<<b>>, [shline EXCEPT !.buf = Append(@, b),
             !.plain = @ /\ b \notin {"lead", "cont"} /\ MARGIN + (Len(shline.buf) + 1) * CELL_ADVANCE + NARROW + MARGIN < FbWidth])
  /\ UNCHANGED <<kpc, console, foreground, hostfb, comp, stray, dismix>>

record_history(h, cmd) ==
  IF cmd = <<>> THEN h ELSE IF Len(h) = HistoryCap THEN Append(Tail(h), cmd) ELSE Append(h, cmd)

print_history(h) == FlattenSeq([i \in DOMAIN h |-> h[i] \o <<"\r", "\n">>])

\* The line is recorded and run: nothing if empty, "c" is clear, "h" is history, any
\* other prints its output.  The newline that ended the line is not echoed.
Command ==
  /\ ShellReady("line") \/ (ShellReady("read") /\ Len(shline.buf) = LineMax)
  /\ LET h == record_history(shline.hist, shline.buf)
         next == [shline EXCEPT !.pc = "prompt", !.hist = h]
         out == CASE shline.buf = <<"c">> -> <<"esc", "[", "2", "J", "esc", "[", "H">>
                  [] shline.buf = <<"h">> -> print_history(h)
                  [] OTHER -> <<"o", "\r", "\n">>
     IN IF shline.buf = <<>> THEN shline' = next /\ UNCHANGED writer ELSE ShellWrites(out, next)
  /\ UNCHANGED <<kpc, console, foreground, hostfb, comp, stray, disbudget, dismix>>

DisInit ==
  /\ dismix \in DisplayMixes
  /\ kpc = "early" /\ console = NewConsole /\ foreground = FALSE
  /\ hostfb = [p \in Pixels |-> "bg"]
  /\ writer = [w \in {"shell", "svc", "log"} |-> [pc |-> "idle", bytes |-> <<>>]]
  /\ shline = [pc |-> "prompt", buf |-> <<>>, plain |-> FALSE, hist |-> <<>>]
  /\ comp = "idle" /\ stray = 0
  /\ disbudget = [keys |-> dismix.nkeys, wides |-> dismix.wides, log |-> dismix.log,
                  svc |-> dismix.svc, presents |-> dismix.presents]

DisNext ==
  \/ early_init \/ write_fmt_line \/ DrawLine \/ install_virtio_gpu_framebuffer
  \/ display_clear \/ ClearFlush \/ begin_shell_session
  \/ \E w \in {"shell", "svc"} : write_bytes(w) \/ DrawBytes(w) \/ FlushBytes(w)
  \/ ServicePrints \/ present_xrgb \/ PresentFlush
  \/ user_entry \/ Command \/ \E b \in dismix.keys : read_line_impl(b)

DisSpec == DisInit /\ [][DisNext]_disVars

-----------------------------------------------------------------------------

DisTypeOK ==
  /\ console.x \in Nat /\ console.y \in MARGIN .. FbHeight - MARGIN - GLYPH_HEIGHT
  /\ console.need \in 0 .. 2 /\ console.esc \in 0 .. 2
  /\ \A cell \in console.cells : Inside(<<cell.x + cell.w - 1, cell.y>>, Screen)
  /\ Len(shline.buf) <= LineMax /\ Len(shline.hist) <= HistoryCap

\* "Kernel logs and service diagnostics ... must not asynchronously overwrite the
\* shell surface" (display.rs:200-203): with one CPU nothing else is ever on it.
\* With several, "no user process can race the transition" (display.rs:368-369) is
\* not so: the flag is read before the lock is taken and set after the screen was
\* cleared; what was let in by then, and nothing later, still lands there.
ShellSurface ==
  /\ foreground => Cardinality(Foreign) <= stray
  /\ ~dismix.smp => stray = 0

\* "spaces must erase old glyph pixels instead of leaving stale ink"
\* (display.rs:1222): the inked pixels are those of the terminal cells.  Stale ink
\* is at most what a step back by a narrow cell into a wide glyph leaves of it
\* (backspace, display.rs:655-664).
NoStaleInk ==
  LET inked == {p \in Pixels : console.fb[p] = "fg"}
  IN Ink(console.cells) \subseteq inked /\ inked \subseteq Ink(console.cells) \cup console.scraps

\* What the screen shows is what was written, through wraps, scrolls, erasures,
\* control sequences and compositor frames: the ink is that of the cells (all that
\* a frame presented over a GPU console brings back; without a GPU, until the first
\* frame), the line being typed stands after its prompt as the shell has it in its
\* buffer, only the shell draws once it owns the screen, and with no write under
\* way the GPU shows the framebuffer (the line and the GPU's picture unless something
\* else was let in before).
ScreenExact ==
  /\ (dismix.gpu \/ disbudget.presents = dismix.presents) => NoStaleInk
  /\ ShellSurface
  /\ (shline.plain /\ stray = 0 /\ ShellReady("read")) =>
       {[x |-> cell.x, ch |-> cell.ch] : cell \in {d \in console.cells : d.y = console.y}}
         = {[x |-> MARGIN + (i - 1) * CELL_ADVANCE, ch |-> (PROMPT \o shline.buf)[i]] : i \in 1 .. Len(PROMPT \o shline.buf)}
  /\ (foreground /\ dismix.gpu /\ stray = 0 /\ comp = "idle" /\ \A w \in DOMAIN writer : writer[w].pc # "flush")
       => hostfb = console.fb
=============================================================================
