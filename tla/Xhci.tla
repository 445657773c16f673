-------------------------------- MODULE Xhci --------------------------------
(***************************************************************************)
(* The xHCI driver (microkernel/src/drivers/xhci.rs): enumeration of root  *)
(* ports and hubs, hot plug, interrupt transfers of HID devices, recovery  *)
(* after a host system error.  One poll at a time holds STATE; plugging,   *)
(* unplugging and reports happen between any two waits of the driver.  The *)
(* driver's nested calls are the frames of xstack.                         *)
(***************************************************************************)
EXTENDS Naturals, Sequences, FiniteSets

CONSTANTS
  XLoc,        \* places a device can be plugged in: <<root port, hub port, ...>>
  XKind,       \* what is plugged in there: "hid", "hub" or "other"
  XPorts,      \* ports of a hub (max_ports for the root)
  XSlots,      \* device slots of the controller
  MAX_EVENTS_PER_POLL,
  XMixes       \* the workloads: [start, plugs, unplugs, faults, reports, hse]

VARIABLES
  xon,         \* STATE is Some
  xstack,      \* the driver's calls, innermost last; <<>>: STATE is not locked
  xdevs,       \* Controller.devices: a sequence of records
  xhubs,       \* Controller.hubs: a sequence of records
  xslots,      \* slots the controller has enabled
  xarmed,      \* slots with an interrupt transfer queued
  xevents,     \* the event ring
  xplug,       \* place -> 0, or the number of the device plugged in there
  xchange,     \* root ports whose change bits are set
  xbudget, xmix

xVars == <<xon, xstack, xdevs, xhubs, xslots, xarmed, xevents, xplug, xchange, xbudget, xmix>>
world == <<xplug, xchange, xmix>>

Prefixes(loc) == {SubSeq(loc, 1, n) : n \in 1 .. Len(loc)}
Parent(loc) == SubSeq(loc, 1, Len(loc) - 1)
Ports == 1 .. XPorts

Top == xstack[Len(xstack)]
Below == SubSeq(xstack, 1, Len(xstack) - 1)
Replace(f) == xstack' = Append(Below, f)
Call(f, g) == xstack' = Below \o <<f, g>>

\* Every wait for a completion pops what is in the event ring before it: port
\* changes and other devices' reports are lost.
wait_event == xevents' = <<>>

\* A command or a transfer completes with an error or times out, always so when
\* the device is gone.
Reachable(d) == xplug[d.loc] = d.gen
Fail == xbudget.faults > 0 /\ xbudget' = [xbudget EXCEPT !.faults = @ - 1]
Succeed == UNCHANGED xbudget
FailsFor(d) == IF Reachable(d) THEN Fail ELSE UNCHANGED xbudget
SucceedsFor(d) == Reachable(d) /\ Succeed

-----------------------------------------------------------------------------
(* Enumeration. *)

FreeSlots == (1 .. XSlots) \ xslots
Lowest(S) == CHOOSE s \in S : \A t \in S : s <= t
Child(h, port) == Append(h.loc, port)

\* A frame that enumerates the device at a place, for the hub in slot parent
\* (0: a root port).  UsbTopology::child refuses a sixth hub level and port 0;
\* no bounded instance has as many levels.
Enum(loc, parent) ==
  [f |-> "enum", loc |-> loc, parent |-> parent, gen |-> xplug[loc], slot |-> 0, step |-> "slot"]

\* The hub that called is told: the bit of its port is set or cleared.
Returned(frames, ok) ==
  LET n == Len(frames) IN
  IF n > 0 /\ frames[n].f = "scan"
    THEN [frames EXCEPT ![n] =
            [@ EXCEPT !.mask = IF ok THEN @ \cup {frames[n].port} ELSE @ \ {frames[n].port},
                      !.port = @ + 1]]
    ELSE frames

\* Mutant: a failed enumeration consumes the port.
GiveUpConsumed(d) == xstack' = Returned(Below, TRUE)

\* Whatever failed, the caller goes on with its next port.
GiveUp(d) == xstack' = Returned(Below, FALSE)

EnableSlot(d) ==
  /\ d.step = "slot"
  /\ wait_event
  /\ \/ /\ FreeSlots # {} /\ Succeed
        /\ xslots' = xslots \cup {Lowest(FreeSlots)}
        /\ Replace([d EXCEPT !.slot = Lowest(FreeSlots), !.step = "address"])
     \/ /\ IF FreeSlots # {} THEN Fail ELSE UNCHANGED xbudget
        /\ GiveUp(d) /\ UNCHANGED xslots
  /\ UNCHANGED <<xdevs, xhubs, xarmed>>

\* The slot stays enabled when the address or a descriptor cannot be had.
AddressDevice(d) ==
  /\ d.step \in {"address", "describe"}
  /\ wait_event
  /\ \/ /\ SucceedsFor(d)
        /\ Replace([d EXCEPT !.step = IF @ = "address" THEN "describe" ELSE "configure"])
     \/ FailsFor(d) /\ GiveUp(d)
  /\ UNCHANGED <<xdevs, xhubs, xslots, xarmed>>

Device(d) == [slot |-> d.slot, loc |-> d.loc, parent |-> d.parent, gen |-> d.gen]

\* A HID device gets its interrupt transfer; a hub is scanned before it joins
\* the hubs; anything else is disabled again.
Configure(d) ==
  /\ d.step = "configure"
  /\ wait_event
  /\ \/ /\ XKind[d.loc] = "hid" /\ SucceedsFor(d)
        /\ xdevs' = Append(xdevs, Device(d))
        /\ xarmed' = xarmed \cup {d.slot}
        /\ xstack' = Returned(Below, TRUE)
        /\ UNCHANGED <<xhubs, xslots>>
     \/ /\ XKind[d.loc] = "hub" /\ SucceedsFor(d)
        /\ Replace([f |-> "scan", slot |-> d.slot, loc |-> d.loc, parent |-> d.parent,
                    gen |-> d.gen, port |-> 1, mask |-> {}, initial |-> TRUE])
        /\ UNCHANGED <<xdevs, xhubs, xslots, xarmed>>
     \/ /\ XKind[d.loc] \in {"hid", "hub"} /\ FailsFor(d)
        /\ GiveUp(d)
        /\ UNCHANGED <<xdevs, xhubs, xslots, xarmed>>
     \/ /\ XKind[d.loc] = "other" /\ UNCHANGED xbudget
        /\ xslots' = xslots \ {d.slot}
        /\ GiveUp(d)
        /\ UNCHANGED <<xdevs, xhubs, xarmed>>

enumerate_device ==
  /\ xstack # <<>> /\ Top.f = "enum"
  /\ EnableSlot(Top) \/ AddressDevice(Top) \/ Configure(Top)
  /\ UNCHANGED <<xon, world>>

-----------------------------------------------------------------------------
(* Hubs. *)

Slots(S) == {d.slot : d \in S}
All == {xdevs[i] : i \in DOMAIN xdevs} \cup {xhubs[i] : i \in DOMAIN xhubs}

\* The devices of a port, then the children of those found so far, until none
\* is new.
Descendants[S \in SUBSET (1 .. XSlots), n \in 0 .. XSlots] ==
  IF n = 0 THEN S ELSE Descendants[S \cup Slots({d \in All : d.parent \in S}), n - 1]
AtPort(slot, port) == Slots({d \in All : d.parent = slot /\ d.loc[Len(d.loc)] = port})

remove_descendants(slot, port) == Descendants[AtPort(slot, port), XSlots]

Remove(S) ==
  /\ xdevs' = SelectSeq(xdevs, LAMBDA d : d.slot \notin S)
  /\ xhubs' = SelectSeq(xhubs, LAMBDA d : d.slot \notin S)
  /\ xslots' = xslots \ S
  /\ xarmed' = xarmed \ S

hub_status_fails(h) == FailsFor(h)
reset_hub_port(h) == SucceedsFor(h)

\* The port of a hub is looked at: a new device is reset and enumerated, a
\* device that is gone is removed with all behind it.
ScanPort(h) ==
  LET place == Child(h, h.port)
      connected == place \in XLoc /\ xplug[place] # 0
      was == h.port \in h.mask
      next == [h EXCEPT !.port = @ + 1] IN
  /\ h.port \in Ports
  /\ wait_event
  /\ \/ /\ hub_status_fails(h) /\ Replace(next)
        /\ UNCHANGED <<xdevs, xhubs, xslots, xarmed>>
     \/ /\ reset_hub_port(h)
        /\ connected /\ (~was \/ h.initial)
        /\ Call(h, Enum(place, h.slot))
        /\ UNCHANGED <<xdevs, xhubs, xslots, xarmed>>
     \/ /\ Reachable(h) /\ Fail                               \* reset_hub_port fails
        /\ connected /\ (~was \/ h.initial)
        /\ Replace([next EXCEPT !.mask = @ \ {h.port}])
        /\ UNCHANGED <<xdevs, xhubs, xslots, xarmed>>
     \/ /\ SucceedsFor(h)
        /\ ~connected /\ was
        /\ Remove(remove_descendants(h.slot, h.port))
        /\ Replace([next EXCEPT !.mask = @ \ {h.port}])
     \/ /\ SucceedsFor(h)
        /\ connected = was /\ ~(connected /\ h.initial)
        /\ Replace(next)
        /\ UNCHANGED <<xdevs, xhubs, xslots, xarmed>>

\* The hub joins the others, and its own port counts as taken.
ScanDone(h) ==
  /\ h.port \notin Ports
  /\ xhubs' = Append(xhubs, [slot |-> h.slot, loc |-> h.loc, parent |-> h.parent,
                             gen |-> h.gen, mask |-> h.mask])
  /\ xstack' = IF h.initial THEN Returned(Below, TRUE) ELSE Below
  /\ UNCHANGED <<xdevs, xslots, xarmed, xevents, xbudget>>

scan_hub_ports ==
  /\ xstack # <<>> /\ Top.f = "scan"
  /\ ScanPort(Top) \/ ScanDone(Top)
  /\ UNCHANGED <<xon, world>>

\* Each hub is taken from the front, scanned and put back at the end.
poll_hubs ==
  /\ xstack # <<>> /\ Top.f = "hubs"
  /\ IF Top.n = 0 \/ xhubs = <<>> THEN xstack' = Below /\ UNCHANGED xhubs
     ELSE LET h == Head(xhubs) IN
          /\ xhubs' = Tail(xhubs)
          /\ Call([Top EXCEPT !.n = @ - 1],
                  [f |-> "scan", slot |-> h.slot, loc |-> h.loc, parent |-> h.parent,
                   gen |-> h.gen, port |-> 1, mask |-> h.mask, initial |-> FALSE])
  /\ UNCHANGED <<xon, xdevs, xslots, xarmed, xevents, xbudget, world>>

-----------------------------------------------------------------------------
(* Root ports and the runtime poll. *)

RootPorts == {loc[1] : loc \in XLoc}
Present(port) == \E d \in All : d.loc = <<port>>
remove_root(port) == Slots({d \in All : d.loc[1] = port})

\* A connected port is reset, unless the reset times out or leaves it disabled;
\* its change bits are cleared either way.
reset_port(port) == xplug[<<port>>] # 0 /\ Succeed
reset_port_fails(port) == xplug[<<port>>] # 0 /\ Fail

\* The last write clears the change bits of the port, those that were set while
\* its device was enumerated included: frame "rescanned".
rescan_root_port ==
  /\ xstack # <<>> /\ Top.f \in {"rescan", "rescanned"}
  /\ LET port == Top.port
         connected == xplug[<<port>>] # 0 IN
     /\ xchange' = xchange \ {port}
     /\ \/ /\ Top.f = "rescan" /\ ~connected /\ Present(port)
           /\ Remove(remove_root(port)) /\ wait_event
           /\ xstack' = Below /\ UNCHANGED xbudget
        \/ /\ Top.f = "rescan" /\ ~Present(port) /\ reset_port(port)
           /\ Call([f |-> "rescanned", port |-> port], Enum(<<port>>, 0))
           /\ UNCHANGED <<xdevs, xhubs, xslots, xarmed, xevents>>
        \/ /\ \/ Top.f = "rescan" /\ ~Present(port) /\ reset_port_fails(port)
              \/ Top.f = "rescan" /\ connected = Present(port) /\ UNCHANGED xbudget
              \/ Top.f = "rescanned" /\ UNCHANGED xbudget
           /\ xstack' = Below
           /\ UNCHANGED <<xdevs, xhubs, xslots, xarmed, xevents>>
  /\ UNCHANGED <<xon, xplug, xmix>>

\* A report is consumed and its transfer queued again; a change of a root port
\* is looked at; a batch is bounded.
poll_runtime ==
  /\ xstack # <<>> /\ Top.f = "events"
  /\ IF xevents = <<>> \/ Top.n = MAX_EVENTS_PER_POLL
       THEN Replace([f |-> "hubs", n |-> Len(xhubs)]) /\ UNCHANGED <<xevents, xarmed>>
       ELSE LET e == Head(xevents) IN
            /\ xevents' = Tail(xevents)
            /\ IF e.t = "port"
                 THEN Call([Top EXCEPT !.n = @ + 1], [f |-> "rescan", port |-> e.n])
                      /\ UNCHANGED xarmed
                 ELSE Replace([Top EXCEPT !.n = @ + 1])
                      /\ xarmed' = IF \E i \in DOMAIN xdevs : xdevs[i].slot = e.n
                                     THEN xarmed \cup {e.n} ELSE xarmed
  /\ UNCHANGED <<xon, xdevs, xhubs, xslots, xbudget, world>>

\* The devices, the hubs and the controller's own pages are given back.
release == xdevs' = <<>> /\ xhubs' = <<>>

\* The controller is halted, reset and given new rings; any of it may fail.
create ==
  /\ xslots' = {} /\ xarmed' = {} /\ xevents' = <<>> /\ xchange' = {}
  /\ \/ xon' = TRUE /\ xstack' = <<[f |-> "boot", port |-> 1]>>
     \/ xon' = FALSE /\ xstack' = <<>>

\* After a host system error everything is released and created anew, or the
\* controller stays off.
recover_controller ==
  /\ xstack = <<>> /\ xon /\ xbudget.hse > 0
  /\ xbudget' = [xbudget EXCEPT !.hse = @ - 1]
  /\ release /\ create
  /\ UNCHANGED <<xplug, xmix>>

poll ==
  /\ xstack = <<>> /\ xon
  /\ xevents # <<>> \/ xhubs # <<>>
  /\ xstack' = <<[f |-> "events", n |-> 0]>>
  /\ UNCHANGED <<xon, xdevs, xhubs, xslots, xarmed, xevents, xbudget, world>>

\* init and recover_controller go through the root ports; reset_port clears the
\* change bits of a port that is connected.
Boot ==
  /\ xstack # <<>> /\ Top.f = "boot"
  /\ LET port == Top.port
         next == [Top EXCEPT !.port = @ + 1] IN
     \/ /\ port \notin RootPorts
        /\ xstack' = Below /\ UNCHANGED <<xbudget, xchange>>
     \/ /\ port \in RootPorts
        /\ \/ reset_port(port) /\ Call(next, Enum(<<port>>, 0))
           \/ reset_port_fails(port) /\ Replace(next)
        /\ xchange' = xchange \ {port}
     \/ /\ port \in RootPorts /\ xplug[<<port>>] = 0
        /\ Replace(next) /\ UNCHANGED <<xbudget, xchange>>
  /\ UNCHANGED <<xon, xdevs, xhubs, xslots, xarmed, xevents, xplug, xmix>>

-----------------------------------------------------------------------------
(* The controller and the world. *)

\* A port reports a change once, until its change bits are cleared.
PortEvent(loc) ==
  /\ xchange' = IF Len(loc) = 1 THEN xchange \cup {loc[1]} ELSE xchange
  /\ xevents' = IF xon /\ Len(loc) = 1 /\ loc[1] \notin xchange
                  THEN Append(xevents, [t |-> "port", n |-> loc[1]]) ELSE xevents

Plug(loc) ==
  /\ xbudget.plugs > 0 /\ xplug[loc] = 0
  /\ Len(loc) > 1 => xplug[Parent(loc)] # 0 /\ XKind[Parent(loc)] = "hub"
  /\ xplug' = [xplug EXCEPT ![loc] = 2 + xmix.plugs - xbudget.plugs]
  /\ xbudget' = [xbudget EXCEPT !.plugs = @ - 1]
  /\ PortEvent(loc)
  /\ UNCHANGED <<xon, xstack, xdevs, xhubs, xslots, xarmed, xmix>>

Unplug(loc) ==
  /\ xbudget.unplugs > 0 /\ xplug[loc] # 0
  /\ xplug' = [l \in XLoc |-> IF loc \in Prefixes(l) THEN 0 ELSE xplug[l]]
  /\ xbudget' = [xbudget EXCEPT !.unplugs = @ - 1]
  /\ PortEvent(loc)
  /\ UNCHANGED <<xon, xstack, xdevs, xhubs, xslots, xarmed, xmix>>

Report ==
  /\ xbudget.reports > 0
  /\ \E i \in DOMAIN xdevs :
       /\ Reachable(xdevs[i]) /\ xdevs[i].slot \in xarmed
       /\ xevents' = Append(xevents, [t |-> "transfer", n |-> xdevs[i].slot])
       /\ xarmed' = xarmed \ {xdevs[i].slot}
  /\ xbudget' = [xbudget EXCEPT !.reports = @ - 1]
  /\ UNCHANGED <<xon, xstack, xdevs, xhubs, xslots, xplug, xchange, xmix>>

XInit ==
  /\ xmix \in XMixes
  /\ xon = TRUE
  /\ xstack = <<[f |-> "boot", port |-> 1]>>
  /\ xdevs = <<>> /\ xhubs = <<>> /\ xslots = {} /\ xarmed = {} /\ xevents = <<>>
  /\ xplug = [l \in XLoc |-> IF l \in xmix.start THEN 1 ELSE 0]
  /\ xchange = {}
  /\ xbudget = [plugs |-> xmix.plugs, unplugs |-> xmix.unplugs, faults |-> xmix.faults,
                reports |-> xmix.reports, hse |-> xmix.hse]

XNext ==
  \/ enumerate_device \/ scan_hub_ports \/ poll_hubs \/ rescan_root_port
  \/ poll_runtime \/ poll \/ recover_controller \/ Boot \/ Report
  \/ \E loc \in XLoc : Plug(loc) \/ Unplug(loc)

XSpec == XInit /\ [][XNext]_xVars

-----------------------------------------------------------------------------
XTypeOK ==
  /\ xslots \subseteq 1 .. XSlots /\ xarmed \subseteq xslots
  /\ \A d \in All : d.slot \in 1 .. XSlots /\ d.parent \in 0 .. XSlots /\ d.loc \in XLoc
  /\ \A i \in DOMAIN xhubs : xhubs[i].mask \subseteq Ports

Scanned == {xstack[i] : i \in {j \in DOMAIN xstack : xstack[j].f = "scan"}}

\* The driver's tree of USB devices is sound after any sequence of plugging,
\* unplugging, failed transfers and recoveries: a slot belongs to one device, a
\* device is behind a hub the driver still has (remove_descendants takes the
\* whole subtree), and a hub that is not being scanned counts a port as taken
\* exactly when a device is registered behind it: "a failed first
\* reset/enumeration must *not* mark the port as consumed, otherwise reconnect
\* becomes a permanent one-shot failure" (xhci.rs:880-884).
UsbTreeSound ==
  /\ \A d, e \in All : d.slot = e.slot => d = e
  /\ \A d \in All : d.parent # 0 =>
       \E h \in {xhubs[i] : i \in DOMAIN xhubs} \cup Scanned :
         h.slot = d.parent /\ h.loc = Parent(d.loc)
  /\ \A i \in DOMAIN xhubs :
       xhubs[i].mask = {p \in Ports : \E d \in All \cup Scanned :
                                         d.parent = xhubs[i].slot /\ d.loc[Len(d.loc)] = p}

\* A HID device that is registered has an interrupt transfer queued, or its
\* completion waits in the event ring.
\* It fails when a wait for another event drops the completion: README.md, section 5.
HidsArmed ==
  \A i \in DOMAIN xdevs :
    \/ xdevs[i].slot \in xarmed
    \/ \E k \in DOMAIN xevents : xevents[k] = [t |-> "transfer", n |-> xdevs[i].slot]
=============================================================================
