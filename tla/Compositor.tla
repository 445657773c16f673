----------------------------- MODULE Compositor -----------------------------
(***************************************************************************)
(* The WindowServer (servers/windowserver): windows back to front, focus,  *)
(* dragging with the pointer, surfaces submitted by clients, and the frame *)
(* composed from the damaged rectangle only.  A pixel of a surface is its  *)
(* colour and its index, so a wrong offset shows.                          *)
(***************************************************************************)
EXTENDS Integers, Sequences, FiniteSets

CONSTANTS
  WsWidth, WsHeight,  \* the screen
  ABS_MAX,            \* the largest raw value of an absolute axis
  MAX_WINDOWS,
  WsClient,           \* clients; 0 is the server itself
  WsRects,            \* geometries that clients ask for
  WsMixes             \* the workloads: [ops, calls]

VARIABLES
  wins,       \* Compositor.windows, back to front
  wnext,      \* next_id
  wfocus,     \* focus, 0: None
  pointer,    \* <<x, y>>
  dragging,   \* <<>> or <<id, ox, oy>>
  dirty,      \* <<>> or <<Rect>>
  frame,      \* the composed frame, pixel -> value
  wreply,     \* the last answer to each client: <<code, id>>
  wdown,      \* the server has panicked
  wbudget, wmix

wsVars == <<wins, wnext, wfocus, pointer, dragging, dirty, frame, wreply, wdown, wbudget, wmix>>

Rect(x, y, w, h) == [x |-> x, y |-> y, w |-> w, h |-> h]
Larger(a, b) == IF a >= b THEN a ELSE b
Smaller(a, b) == IF a <= b THEN a ELSE b
Clamp(v, max) == Smaller(Larger(v, 0), max)

contains(r, x, y) == x >= r.x /\ y >= r.y /\ x < r.x + r.w /\ y < r.y + r.h

\* The common part of two rectangles: none when it is empty.
intersect(a, b) ==
  LET x1 == Larger(a.x, b.x)
      y1 == Larger(a.y, b.y)
      x2 == Smaller(a.x + a.w, b.x + b.w)
      y2 == Smaller(a.y + a.h, b.y + b.h) IN
  IF x2 > x1 /\ y2 > y1 THEN {Rect(x1, y1, x2 - x1, y2 - y1)} ELSE {}

\* The smallest rectangle around the damage so far and a new one.
mark_dirty(d, r) ==
  IF d = <<>> THEN <<r>>
  ELSE LET a == d[1]
           x == Smaller(a.x, r.x)
           y == Smaller(a.y, r.y) IN
       <<Rect(x, y, Larger(a.x + a.w, r.x + r.w) - x, Larger(a.y + a.h, r.y + r.h) - y)>>

Screen == Rect(0, 0, WsWidth, WsHeight)
Pixels == (0 .. WsWidth - 1) \X (0 .. WsHeight - 1)
In(r) == {p \in Pixels : contains(r, p[1], p[2])}

Grey(r) == [colour |-> "grey", len |-> r.w * r.h, stride |-> r.w]
Window(id, owner, r) == [id |-> id, owner |-> owner, rect |-> r, surface |-> Grey(r)]

\* Place of a client's window, 0: it has none with that id.
Position(owner, id) ==
  LET S == {i \in DOMAIN wins : wins[i].id = id /\ wins[i].owner = owner} IN
  IF S = {} THEN 0 ELSE CHOOSE i \in S : TRUE
Without(i) == SubSeq(wins, 1, i - 1) \o SubSeq(wins, i + 1, Len(wins))

-----------------------------------------------------------------------------
(* Requests. *)

Reply(c, code, id) == wreply' = [wreply EXCEPT ![c] = <<code, id>>]

\* A refused creation is answered OK with id 0.
create(c, r) ==
  IF Len(wins) >= MAX_WINDOWS \/ r.w = 0 \/ r.h = 0
    THEN Reply(c, "ok", 0) /\ UNCHANGED <<wins, wnext, wfocus, dirty>>
    ELSE /\ wins' = Append(wins, Window(wnext, c, r))
         /\ wnext' = wnext + 1
         /\ wfocus' = wnext
         /\ dirty' = mark_dirty(dirty, r)
         /\ Reply(c, "ok", wnext)

\* The focus falls to the front window.
destroy(c, id) ==
  LET i == Position(c, id) IN
  IF i = 0 THEN Reply(c, "err", 0) /\ UNCHANGED <<wins, wnext, wfocus, dirty>>
  ELSE /\ wins' = Without(i)
       /\ wfocus' = IF wfocus # id THEN wfocus
                    ELSE IF Without(i) = <<>> THEN 0 ELSE Without(i)[Len(wins) - 1].id
       /\ dirty' = mark_dirty(dirty, wins[i].rect)
       /\ Reply(c, "ok", 0)
       /\ UNCHANGED wnext

\* A surface of another size starts grey; one of the same size is kept with its
\* stride.
Resized(w, r) ==
  [w EXCEPT !.rect = r, !.surface = IF @.len # r.w * r.h THEN Grey(r) ELSE @]

Damage(d, old, new) == mark_dirty(mark_dirty(d, old), new)

set_geometry(c, id, r) ==
  LET i == Position(c, id) IN
  IF r.w = 0 \/ r.h = 0 \/ i = 0
    THEN Reply(c, "err", id) /\ UNCHANGED <<wins, wnext, wfocus, dirty>>
    ELSE /\ wins' = [wins EXCEPT ![i] = Resized(@, r)]
         /\ dirty' = Damage(dirty, wins[i].rect, r)
         /\ Reply(c, "ok", id)
         /\ UNCHANGED <<wnext, wfocus>>

ToFront(i) == Append(Without(i), wins[i])
raise(c, id) ==
  LET i == Position(c, id) IN
  IF i = 0 THEN Reply(c, "err", id) /\ UNCHANGED <<wins, wnext, wfocus, dirty>>
  ELSE /\ wins' = ToFront(i) /\ wfocus' = id
       /\ dirty' = mark_dirty(dirty, wins[i].rect)
       /\ Reply(c, "ok", id)
       /\ UNCHANGED wnext

\* The pixels are copied only when they fit the window as it is now.
set_surface(c, id, w, h, colour) ==
  LET i == Position(c, id) IN
  IF i = 0 \/ w # wins[i].rect.w \/ h # wins[i].rect.h
    THEN Reply(c, "err", id) /\ UNCHANGED <<wins, wnext, wfocus, dirty>>
    ELSE /\ wins' = [wins EXCEPT ![i].surface = [colour |-> colour, len |-> w * h, stride |-> w]]
         /\ dirty' = mark_dirty(dirty, wins[i].rect)
         /\ Reply(c, "ok", id)
         /\ UNCHANGED <<wnext, wfocus>>

handle_request ==
  /\ ~wdown /\ wbudget > 0 /\ wbudget' = wbudget - 1
  /\ \E c \in WsClient, op \in wmix.ops, id \in 1 .. wnext - 1, r \in WsRects :
       CASE op = "create" -> create(c, r)
         [] op = "destroy" -> destroy(c, id)
         [] op = "geometry" -> set_geometry(c, id, r)
         [] op = "raise" -> raise(c, id)
         [] op = "submit" -> set_surface(c, id, r.w, r.h, "red")
         [] OTHER -> FALSE
  /\ UNCHANGED <<pointer, dragging, frame, wdown, wmix>>

-----------------------------------------------------------------------------
(* Pointer events. *)

\* The window that is dragged follows, if it still exists.
pointer_motion(dx, dy) ==
  LET p == <<Clamp(pointer[1] + dx, WsWidth - 1), Clamp(pointer[2] + dy, WsHeight - 1)>>
      S == IF dragging = <<>> THEN {} ELSE {i \in DOMAIN wins : wins[i].id = dragging[1]} IN
  /\ pointer' = p
  /\ IF S = {} THEN UNCHANGED <<wins, dirty>>
     ELSE LET i == CHOOSE i \in S : TRUE
              new == [wins[i].rect EXCEPT !.x = p[1] - dragging[2], !.y = p[2] - dragging[3]] IN
          /\ wins' = [wins EXCEPT ![i].rect = new]
          /\ dirty' = Damage(dirty, wins[i].rect, new)
  /\ UNCHANGED <<wfocus, dragging>>

\* A raw value is scaled to the screen, rounding down.
pointer_absolute_axis(axis, raw) ==
  LET v == Clamp(raw, ABS_MAX) IN
  IF axis = 0 THEN pointer_motion((v * (WsWidth - 1)) \div ABS_MAX - pointer[1], 0)
  ELSE pointer_motion(0, (v * (WsHeight - 1)) \div ABS_MAX - pointer[2])

hit_test(x, y) == {i \in DOMAIN wins : contains(wins[i].rect, x, y)}

\* A press raises the front window under the pointer and starts to drag it; the
\* release of any button ends it.
pointer_button(pressed) ==
  LET S == hit_test(pointer[1], pointer[2])
      i == CHOOSE i \in S : \A j \in S : j <= i IN
  IF ~pressed THEN dragging' = <<>> /\ UNCHANGED <<wins, wfocus, pointer, dirty>>
  ELSE IF S = {} THEN UNCHANGED <<wins, wfocus, pointer, dragging, dirty>>
  ELSE /\ dragging' = <<wins[i].id, pointer[1] - wins[i].rect.x, pointer[2] - wins[i].rect.y>>
       /\ wins' = ToFront(i) /\ wfocus' = wins[i].id
       /\ dirty' = mark_dirty(dirty, wins[i].rect)
       /\ UNCHANGED pointer

handle_input ==
  /\ "pointer" \in wmix.ops
  /\ ~wdown /\ wbudget > 0 /\ wbudget' = wbudget - 1
  /\ \/ \E d \in {-1, 1} : pointer_motion(d, 0) \/ pointer_motion(0, d)
     \/ \E axis \in {0, 1}, raw \in {0, ABS_MAX} : pointer_absolute_axis(axis, raw)
     \/ \E pressed \in BOOLEAN : pointer_button(pressed)
  /\ UNCHANGED <<wnext, frame, wreply, wdown, wmix>>

-----------------------------------------------------------------------------
(* Composing. *)

\* The index that a pixel of the screen has in a surface of that stride.
IndexOf(w, p, stride) == (p[2] - w.rect.y) * stride + (p[1] - w.rect.x)

\* Background, then every window back to front, within the clip.
Shown(p) == {i \in DOMAIN wins : contains(wins[i].rect, p[1], p[2])}
Front(p) == wins[CHOOSE i \in Shown(p) : \A j \in Shown(p) : j <= i]
Painted(p) ==
  IF Shown(p) = {} THEN <<"background", 0>>
  ELSE <<Front(p).surface.colour, IndexOf(Front(p), p, Front(p).surface.stride)>>

\* Every window is drawn, covered or not: an index past the end of a surface is a
\* panic.
Overruns(clip) ==
  \E i \in DOMAIN wins : \E p \in In(wins[i].rect) :
    contains(clip, p[1], p[2]) /\ IndexOf(wins[i], p, wins[i].surface.stride) >= wins[i].surface.len

compose ==
  /\ ~wdown /\ dirty # <<>>
  /\ dirty' = <<>>
  /\ LET clips == intersect(dirty[1], Screen) IN
     /\ wdown' = \E clip \in clips : Overruns(clip)
     /\ frame' = IF wdown' THEN frame
                 ELSE [p \in Pixels |-> IF \E clip \in clips : contains(clip, p[1], p[2])
                                          THEN Painted(p) ELSE frame[p]]
  /\ UNCHANGED <<wins, wnext, wfocus, pointer, dragging, wreply, wbudget, wmix>>

WsInit ==
  /\ wmix \in WsMixes
  /\ wins = <<Window(1, 0, Screen)>>
  /\ wnext = 2 /\ wfocus = 1
  /\ pointer = <<0, 0>> /\ dragging = <<>>
  /\ dirty = <<Screen>>
  /\ frame = [p \in Pixels |-> <<"blank", 0>>]
  /\ wreply = [c \in WsClient |-> <<"none", 0>>]
  /\ wdown = FALSE
  /\ wbudget = wmix.calls

WsNext == handle_request \/ handle_input \/ compose

WsSpec == WsInit /\ [][WsNext]_wsVars

-----------------------------------------------------------------------------
WsTypeOK ==
  /\ Len(wins) <= MAX_WINDOWS
  /\ pointer \in Pixels
  /\ \A i, j \in DOMAIN wins : wins[i].id = wins[j].id => i = j
  /\ wfocus = 0 \/ \E i \in DOMAIN wins : wins[i].id = wfocus

\* A window of several rows that was resized to as many pixels and another width
\* and has had no surface since: set_geometry kept the old stride (lib.rs:143).
Skewed(w) == w.surface.stride # w.rect.w /\ w.rect.h > 1

\* What a client that fills its window row by row expects to see at a pixel.
Wanted(p) ==
  IF Shown(p) = {} THEN <<"background", 0>>
  ELSE <<Front(p).surface.colour, IndexOf(Front(p), p, Front(p).rect.w)>>

\* The frame is right everywhere outside the damaged rectangle, so whenever
\* nothing is damaged every pixel is the one of the front window's surface at its
\* row and column: no request and no drag forgets a rectangle it uncovers or
\* changes, and no window is drawn at a wrong offset, nor past its end, which would
\* end the server (compose and mark_dirty).  A skewed window is the exception.
FrameExact ==
  /\ wdown => \E i \in DOMAIN wins : Skewed(wins[i])
  /\ wdown \/ \A p \in Pixels :
       \/ \E i \in DOMAIN dirty : contains(dirty[i], p[1], p[2])
       \/ Shown(p) # {} /\ Skewed(Front(p))
       \/ frame[p] = Wanted(p)
=============================================================================
