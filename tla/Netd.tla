-------------------------------- MODULE Netd --------------------------------
(***************************************************************************)
(* The network stack: the netd server (servers/netd), the virtio-net       *)
(* driver it polls (drivers/virtio/net.rs), the client library             *)
(* (userland/libnetclient) and an external network that loses, duplicates  *)
(* and reorders frames.                                                    *)
(*                                                                         *)
(* A frame is a record; layouts and checksums are left out.  Sequence      *)
(* numbers are taken modulo SEQ, as the code's wrapping u32 arithmetic is. *)
(* The clock is the event "the retry interval has passed" (Expire), which  *)
(* the network's round trip is assumed to beat: it happens only when no    *)
(* frame is in flight.                                                     *)
(***************************************************************************)
EXTENDS Naturals, Sequences, FiniteSets

CONSTANTS
  NdClient,       \* processes that call libnetclient
  SEQ,            \* modulus of the sequence numbers
  TCP_RX_CAP, TCP_SYN_RETRY_LIMIT, SOCKET_MAX, PENDING_MAX, ARP_CACHE_MAX,
  UDP_RX,         \* datagrams a UDP socket keeps
  NET_REQ_CAP,    \* messages the channel NET_REQ holds
  RxSlots,        \* buffers of the receive queue
  Stream,         \* what the remote host sends on a connection
  PEER_ISS,       \* initial sequence number of the remote host
  NdMixes         \* the workloads: [clients, ops, bound, far, losses, dups, sends, calls]

VARIABLES
  nd,             \* NetStack
  nic,            \* VirtioNetState: receive slots, frame in the transmit buffer
  wire,           \* frames in flight, both ways
  host,           \* the rest of the network
  ncli,           \* the clients, inside rpc()
  reqs,           \* channel NET_REQ
  due,            \* a retry interval has passed
  ndbudget,       \* frames that may still be lost or duplicated, calls left
  ndmix

ndVars == <<nd, nic, wire, host, ncli, reqs, due, ndbudget, ndmix>>

ME == 1
GATEWAY == 2
REMOTE == 3
ISS == 0
NoFrame == [k |-> "none", a |-> 0, b |-> 0, d |-> <<>>]
Frame(k, a, b, d) == [k |-> k, a |-> a, b |-> b, d |-> d]
Plus(x, n) == (x + n) % SEQ

bound(n) == n.dhcp = "bound"

\* REMOTE is on the local subnet unless the workload puts it behind the gateway.
route(dst) == IF dst = REMOTE /\ ndmix.far THEN GATEWAY ELSE dst

Known(n, ip) == \E i \in DOMAIN n.arp : n.arp[i] = ip

learn_arp(n, ip) ==
  IF Known(n, ip) THEN n
  ELSE [n EXCEPT !.arp = Append(IF Len(@) >= ARP_CACHE_MAX THEN Tail(@) ELSE @, ip)]

Out(n, f) == [n EXCEPT !.out = Append(@, f)]

\* Mutant: the queue of waiting packets is not bounded.
WaitAlways(n, dst, f) ==
  IF ~bound(n) THEN n
  ELSE IF Known(n, route(dst)) THEN Out(n, f)
  ELSE Out([n EXCEPT !.pending = Append(@, [next |-> route(dst), f |-> f])],
           Frame("arpreq", route(dst), 0, <<>>))

\* Without the next hop's address the packet waits in pending (or is dropped
\* when that is full) and an ARP request goes out, every time.
send_ip(n, dst, f) ==
  IF ~bound(n) THEN n
  ELSE IF Known(n, route(dst)) THEN Out(n, f)
  ELSE Out(IF Len(n.pending) < PENDING_MAX
             THEN [n EXCEPT !.pending = Append(@, [next |-> route(dst), f |-> f])]
             ELSE n,
           Frame("arpreq", route(dst), 0, <<>>))

Waiting(n, ip) == SelectSeq(n.pending, LAMBDA p : p.next = ip)
flush_pending(n, ip) ==
  [n EXCEPT !.out = @ \o [i \in DOMAIN Waiting(n, ip) |-> Waiting(n, ip)[i].f],
            !.pending = SelectSeq(@, LAMBDA p : p.next # ip)]

\* One socket of the four-tuple (local port, REMOTE): the local port is the handle.
Window(s) == TCP_RX_CAP - Len(s.rx)
send_tcp_raw(n, i, k, seq, ack, d) ==
  send_ip(n, REMOTE, [k |-> k, a |-> seq, b |-> ack, d |-> d, port |-> n.tcp[i].local,
                      win |-> Window(n.tcp[i])])
send_ack(n, i) == send_tcp_raw(n, i, "ack", n.tcp[i].snd_nxt, n.tcp[i].rcv_nxt, <<>>)

-----------------------------------------------------------------------------
(* tick and the DHCP client. *)

send_discover(n) == [Out(n, Frame("discover", n.xid, 0, <<>>))
                       EXCEPT !.dhcp = "selecting"]
send_request(n, offer) == [Out(n, Frame("request", n.xid, offer, <<>>))
                             EXCEPT !.dhcp = "requesting", !.offer = offer]

NextXid(n) == [n EXCEPT !.xid = (@ + 1) % 3]

\* Mutant: only the discover is retried.
DiscoverOnly(n) ==
  CASE n.dhcp = "init" -> send_discover(n)
    [] n.dhcp = "selecting" /\ due -> send_discover(NextXid(n))
    [] OTHER -> n

tick_dhcp(n) ==
  CASE n.dhcp = "init" -> send_discover(n)
    [] n.dhcp = "selecting" /\ due -> send_discover(NextXid(n))
    [] n.dhcp = "requesting" /\ due -> send_request(n, n.offer)
    [] OTHER -> n

Retry(n, i) ==
  IF n.tcp[i].state = "SynSent" /\ n.tcp[i].syn_retries < TCP_SYN_RETRY_LIMIT /\ due
    THEN send_tcp_raw([n EXCEPT !.tcp[i].syn_retries = @ + 1], i, "syn",
                      (n.tcp[i].snd_nxt + SEQ - 1) % SEQ, 0, <<>>)
    ELSE n

\* SOCKET_MAX is 2 in the instances: the retry loop is unrolled.
RetrySyns(n) ==
  CASE Len(n.tcp) = 0 -> n
    [] Len(n.tcp) = 1 -> Retry(n, 1)
    [] OTHER -> Retry(Retry(n, 1), 2)

tick == /\ due \/ nd.dhcp = "init"
        /\ nd' = RetrySyns(tick_dhcp(nd))
        /\ due' = FALSE
        /\ UNCHANGED <<nic, wire, host, ncli, reqs, ndbudget, ndmix>>

-----------------------------------------------------------------------------
(* Frames in. *)

ingest_dhcp(n, f) ==
  CASE f.k = "offer" /\ n.dhcp = "selecting" /\ f.a = n.xid -> send_request(n, f.b)
    [] f.k = "dhcpack" /\ n.dhcp = "requesting" /\ f.a = n.xid /\ f.b = n.offer ->
         [n EXCEPT !.dhcp = "bound", !.ip = f.b]
    [] OTHER -> n

ingest_icmp(n, f) ==
  IF f.k = "echorep" THEN [n EXCEPT !.ping_reply = f.a]
  ELSE send_ip(n, REMOTE, Frame("echorep", f.a, 0, <<>>))

ingest_udp(n, f) ==
  [n EXCEPT !.udp = [i \in DOMAIN n.udp |->
     IF n.udp[i].port = f.a /\ Len(n.udp[i].rx) < UDP_RX
       THEN [n.udp[i] EXCEPT !.rx = Append(@, f.b)] ELSE n.udp[i]]]

Min2(x, y) == IF x < y THEN x ELSE y
Accepted(s, f) ==
  IF f.a = s.rcv_nxt THEN Min2(Len(f.d), TCP_RX_CAP - Len(s.rx)) ELSE 0

\* Mutant: everything received is acknowledged, what did not fit included.
AckAll(s, f) ==
  [s EXCEPT !.rx = @ \o SubSeq(f.d, 1, Accepted(s, f)),
            !.rcv_nxt = IF f.a = @ THEN Plus(@, Len(f.d)) ELSE @]
\* The rcv_nxt advances only over the bytes the queue retains.
Accept(s, f) ==
  [s EXCEPT !.rx = @ \o SubSeq(f.d, 1, Accepted(s, f)),
            !.rcv_nxt = Plus(@, Accepted(s, f))]

\* A FIN is consumed once all of the payload of its segment is.
Fin(s, old, f) ==
  IF /\ f.k = "fin"
     /\ (f.d = <<>> \/ (f.a = old.rcv_nxt /\ Accepted(old, f) = Len(f.d)))
     /\ Plus(f.a, Len(f.d)) = s.rcv_nxt
    THEN [s EXCEPT !.rcv_nxt = Plus(@, 1), !.state = "Closed"]
    ELSE s
Established(s, f) == Fin(Accept(s, f), s, f)

Answers(s, f) ==
  \/ s.state = "SynSent" /\ f.k = "synack" /\ f.b = s.snd_nxt
  \/ s.state = "Established" /\ f.d # <<>> /\ f.a = s.rcv_nxt
  \/ s.state = "Established" /\ Established(s, f).state = "Closed"

TcpStep(s, f) ==
  CASE s.state = "SynSent" /\ f.k = "synack" /\ f.b = s.snd_nxt ->
         [s EXCEPT !.rcv_nxt = Plus(f.a, 1), !.state = "Established"]
    [] s.state = "Established" -> Established(s, f)
    [] OTHER -> s

Stepped(n, i, f) == [n EXCEPT !.tcp[i] = TcpStep(@, f)]
SocketOf(n, f) == {i \in DOMAIN n.tcp : n.tcp[i].local = f.port}
ingest_tcp(n, f) ==
  IF SocketOf(n, f) = {} THEN n
  ELSE LET i == CHOOSE j \in SocketOf(n, f) : TRUE
       IN IF Answers(n.tcp[i], f) THEN send_ack(Stepped(n, i, f), i) ELSE Stepped(n, i, f)

ingest_arp(n, f) ==
  IF f.k = "arprep" THEN flush_pending(learn_arp(n, f.a), f.a)
  ELSE IF bound(n) THEN Out(n, Frame("arprep", ME, 0, <<>>)) ELSE n

ingest_ipv4(n, f) ==
  CASE f.k \in {"offer", "dhcpack"} -> ingest_dhcp(learn_arp(n, GATEWAY), f)
    [] f.k \in {"echo", "echorep"} -> ingest_icmp(learn_arp(n, REMOTE), f)
    [] f.k = "udp" -> ingest_udp(learn_arp(n, REMOTE), f)
    [] OTHER -> ingest_tcp(learn_arp(n, REMOTE), f)

ingest(n, f) == IF f.k \in {"arpreq", "arprep"} THEN ingest_arp(n, f) ELSE ingest_ipv4(n, f)

\* poll_receive hands out the lowest filled slot and gives it back to the device.
Filled == {i \in RxSlots : nic.rx[i] # NoFrame}
Lowest == CHOOSE i \in Filled : \A j \in Filled : i <= j
poll_receive ==
  /\ Filled # {}
  /\ nd' = ingest(nd, nic.rx[Lowest])
  /\ nic' = [nic EXCEPT !.rx[Lowest] = NoFrame]
  /\ UNCHANGED <<wire, host, ncli, reqs, due, ndbudget, ndmix>>

\* One frame at a time: while the buffer is in flight transmit answers Busy
\* and the frame goes back to the front of the queue.
transmit ==
  /\ nd.out # <<>>
  /\ nic.tx = NoFrame
  /\ nic' = [nic EXCEPT !.tx = Head(nd.out)]
  /\ nd' = [nd EXCEPT !.out = Tail(@)]
  /\ UNCHANGED <<wire, host, ncli, reqs, due, ndbudget, ndmix>>

-----------------------------------------------------------------------------
(* handle_req: one request per turn of the loop. *)

Reply(c, code, v) == ncli' = [ncli EXCEPT ![c].resp = Append(@, [code |-> code, v |-> v])]
Sockets(n) == Len(n.tcp) + Len(n.udp)
alloc_handle(n) == [n EXCEPT !.next_handle = @ + 1]

ping(q) == IF nd.ping_reply = q.v
             THEN nd' = nd /\ Reply(q.c, "OK", <<>>)
             ELSE nd' = send_ip(nd, REMOTE, Frame("echo", q.v, 0, <<>>)) /\ Reply(q.c, "AGAIN", <<>>)

udp_open(q) ==
  IF Sockets(nd) >= SOCKET_MAX \/ \E i \in DOMAIN nd.udp : nd.udp[i].port = q.v
    THEN nd' = nd /\ Reply(q.c, "ERR", <<>>)
    ELSE /\ nd' = [alloc_handle(nd) EXCEPT !.udp =
                     Append(@, [handle |-> nd.next_handle, owner |-> q.c, port |-> q.v, rx |-> <<>>])]
         /\ Reply(q.c, "OK", <<nd.next_handle>>)

Owned(socks, q) == {i \in DOMAIN socks : socks[i].handle = q.h /\ socks[i].owner = q.c}
The(S) == CHOOSE i \in S : TRUE

udp_send(q) ==
  IF Owned(nd.udp, q) = {} THEN nd' = nd /\ Reply(q.c, "ERR", <<>>)
  ELSE /\ nd' = send_ip(nd, REMOTE, Frame("udp", nd.udp[The(Owned(nd.udp, q))].port, q.v, <<>>))
       /\ Reply(q.c, "OK", <<>>)

udp_recv(q) ==
  LET got == {i \in Owned(nd.udp, q) : nd.udp[i].rx # <<>>} IN
  IF got = {} THEN nd' = nd /\ Reply(q.c, "AGAIN", <<>>)
  ELSE /\ nd' = [nd EXCEPT !.udp[The(got)].rx = Tail(@)]
       /\ Reply(q.c, "OK", <<Head(nd.udp[The(got)].rx)>>)

NewSocket(n, c) ==
  [alloc_handle(n) EXCEPT !.tcp = Append(@,
     [handle |-> n.next_handle, owner |-> c, local |-> n.next_handle, state |-> "SynSent",
      snd_nxt |-> Plus(ISS, 1), rcv_nxt |-> 0, syn_retries |-> 0, rx |-> <<>>])]
tcp_connect(q) ==
  IF ~bound(nd) \/ Sockets(nd) >= SOCKET_MAX
    THEN nd' = nd /\ Reply(q.c, "AGAIN", <<>>)
    ELSE /\ nd' = send_tcp_raw(NewSocket(nd, q.c), Len(nd.tcp) + 1, "syn", ISS, 0, <<>>)
         /\ Reply(q.c, "OK", <<nd.next_handle>>)

tcp_state(q) ==
  /\ nd' = nd
  /\ IF Owned(nd.tcp, q) = {} THEN Reply(q.c, "ERR", <<>>)
     ELSE Reply(q.c, "OK", <<nd.tcp[The(Owned(nd.tcp, q))].state>>)

Sending(n, i, d) ==
  [send_tcp_raw(n, i, "psh", n.tcp[i].snd_nxt, n.tcp[i].rcv_nxt, d)
     EXCEPT !.tcp[i].snd_nxt = Plus(@, Len(d))]
tcp_send(q) ==
  LET est == {i \in Owned(nd.tcp, q) : nd.tcp[i].state = "Established"} IN
  IF est = {} THEN nd' = nd /\ Reply(q.c, "AGAIN", <<>>)
  ELSE nd' = Sending(nd, The(est), <<q.v>>) /\ Reply(q.c, "OK", <<>>)

\* Draining the queue of an open connection announces the new window.
Drained(n, i, k) == [n EXCEPT !.tcp[i].rx = SubSeq(@, k + 1, Len(@))]
Drain(n, i, k) == IF k # 0 /\ n.tcp[i].state = "Established"
                    THEN send_ack(Drained(n, i, k), i) ELSE Drained(n, i, k)
tcp_recv(q) ==
  IF Owned(nd.tcp, q) = {} THEN nd' = nd /\ Reply(q.c, "ERR", <<>>)
  ELSE LET i == The(Owned(nd.tcp, q)) IN
       LET k == Min2(q.v, Len(nd.tcp[i].rx)) IN
       /\ nd' = Drain(nd, i, k)
       /\ IF k = 0 THEN Reply(q.c, "AGAIN", <<>>)
          ELSE Reply(q.c, "OK", SubSeq(nd.tcp[i].rx, 1, k))

status(q) == nd' = nd /\ Reply(q.c, IF bound(nd) THEN "OK" ELSE "AGAIN", <<nd.ip>>)

Dispatch(q) ==
  \/ q.op = "status" /\ status(q)
  \/ q.op = "ping" /\ ping(q)
  \/ q.op = "udp_open" /\ udp_open(q)
  \/ q.op = "udp_send" /\ udp_send(q)
  \/ q.op = "udp_recv" /\ udp_recv(q)
  \/ q.op = "connect" /\ tcp_connect(q)
  \/ q.op = "state" /\ tcp_state(q)
  \/ q.op = "send" /\ tcp_send(q)
  \/ q.op \in {"recv", "recv_shm"} /\ tcp_recv(q)

\* The shared region of a bulk receive is released before the reply.
handle_req ==
  /\ reqs # <<>>
  /\ Dispatch(Head(reqs))
  /\ reqs' = Tail(reqs)
  /\ host' = IF Head(reqs).op = "recv_shm" THEN [host EXCEPT !.shm[Head(reqs).c] = @ - 1] ELSE host
  /\ UNCHANGED <<nic, wire, due, ndbudget, ndmix>>

\* The phases of one turn of the loop.  A frame or a request can arrive after
\* the phase that looks for it, so the phases with something to do come in any
\* order.
server_main == tick \/ poll_receive \/ transmit \/ handle_req

-----------------------------------------------------------------------------
(* libnetclient: a call sends one request and waits for its reply.  A bulk  *)
(* receive needs the pid of netd, which an earlier reply tells, and grants  *)
(* its region to netd first; a full channel refuses the request after that. *)

rpc(c) ==
  /\ ~ncli[c].busy
  /\ ndbudget.calls > 0
  /\ \E op \in ndmix.ops, v \in {1, 2} :
       /\ op \in {"send", "recv", "recv_shm", "state"} => v = 2
       /\ op \in {"connect", "status", "ping", "udp_open"} => v = 1
       /\ op = "connect" => ncli[c].h = 0 \* one connection for each client
       /\ op = "recv_shm" => ncli[c].netd_pid
       /\ host' = IF op = "recv_shm" THEN [host EXCEPT !.shm[c] = @ + 1] ELSE host
       /\ IF Len(reqs) < NET_REQ_CAP
          THEN /\ reqs' = Append(reqs, [c |-> c, op |-> op, v |-> v, h |-> ncli[c].h])
               /\ ncli' = [ncli EXCEPT ![c].busy = TRUE, ![c].op = op]
          ELSE /\ UNCHANGED reqs
               /\ ncli' = [ncli EXCEPT ![c].refused = @ + (IF op = "recv_shm" THEN 1 ELSE 0)]
  /\ ndbudget' = [ndbudget EXCEPT !.calls = @ - 1]
  /\ UNCHANGED <<nd, nic, wire, due, ndmix>>

Took(c, r) ==
  [ncli[c] EXCEPT
     !.busy = FALSE, !.resp = Tail(@), !.netd_pid = TRUE,
     !.h = IF ncli[c].op \in {"connect", "udp_open"} /\ r.code = "OK" THEN r.v[1] ELSE @,
     !.got = IF ncli[c].op \in {"recv", "recv_shm"} THEN @ \o r.v ELSE @]
tcp_recv_bulk(c) ==
  /\ ncli[c].resp # <<>>
  /\ ncli' = [ncli EXCEPT ![c] = Took(c, Head(ncli[c].resp))]
  /\ UNCHANGED <<nd, nic, wire, host, reqs, due, ndbudget, ndmix>>

-----------------------------------------------------------------------------
(* The device and the network. *)

\* The device sends the buffer and reports it used; reap_completions clears
\* tx_inflight whichever of the interrupt and the next poll comes first.
TxComplete ==
  /\ nic.tx # NoFrame
  /\ nic' = [nic EXCEPT !.tx = NoFrame]
  /\ wire' = [wire EXCEPT !.out = @ \cup {nic.tx}]
  /\ UNCHANGED <<nd, host, ncli, reqs, due, ndbudget, ndmix>>

\* A frame arrives in a free slot; with a duplicate left it may arrive again.
RxComplete ==
  \E f \in wire.in, i \in RxSlots :
    /\ nic.rx[i] = NoFrame
    /\ nic' = [nic EXCEPT !.rx[i] = f]
    /\ \/ wire' = [wire EXCEPT !.in = @ \ {f}] /\ UNCHANGED ndbudget
       \/ /\ ndbudget.dups > 0 /\ UNCHANGED wire
          /\ ndbudget' = [ndbudget EXCEPT !.dups = @ - 1]
    /\ UNCHANGED <<nd, host, ncli, reqs, due, ndmix>>

Lose ==
  /\ ndbudget.losses > 0
  /\ ndbudget' = [ndbudget EXCEPT !.losses = @ - 1]
  /\ \/ \E f \in wire.in : wire' = [wire EXCEPT !.in = @ \ {f}]
     \/ \E f \in wire.out : wire' = [wire EXCEPT !.out = @ \ {f}]
  /\ UNCHANGED <<nd, nic, host, ncli, reqs, due, ndmix>>

Quiet == /\ wire.in = {} /\ wire.out = {} /\ Filled = {} /\ nic.tx = NoFrame
         /\ nd.out = <<>>
Timing == \/ nd.dhcp \in {"selecting", "requesting"}
          \/ \E i \in DOMAIN nd.tcp : /\ nd.tcp[i].state = "SynSent"
                                     /\ nd.tcp[i].syn_retries < TCP_SYN_RETRY_LIMIT
Expire == /\ Quiet /\ Timing /\ ~due
          /\ due' = TRUE
          /\ UNCHANGED <<nd, nic, wire, host, ncli, reqs, ndbudget, ndmix>>

\* The answer of the DHCP server, of the hosts on the subnet and of the remote
\* end to a frame.  An acknowledgement only moves the remote end forward.
AckOf(f) == (f.b + SEQ - PEER_ISS - 1) % SEQ
Answer(f) ==
  CASE f.k = "discover" -> {Frame("offer", f.a, ME, <<>>)}
    [] f.k = "request" -> {Frame("dhcpack", f.a, f.b, <<>>)}
    [] f.k = "arpreq" -> {Frame("arprep", f.a, 0, <<>>)}
    [] f.k = "echo" -> {Frame("echorep", f.a, 0, <<>>)}
    [] f.k = "udp" -> {Frame("udp", f.a, f.b, <<>>)}
    [] f.k = "syn" -> {[k |-> "synack", a |-> PEER_ISS, b |-> Plus(f.a, 1), d |-> <<>>,
                        port |-> f.port]}
    [] OTHER -> {}
Receive ==
  \E f \in wire.out :
    /\ wire' = [wire EXCEPT !.out = @ \ {f}, !.in = @ \cup Answer(f)]
    /\ host' = [host EXCEPT
         !.open = IF f.k = "syn" THEN @ \cup {f.port} ELSE @,
         !.acked = IF f.k \in {"ack", "psh"} /\ AckOf(f) <= Len(Stream) + 1 /\ AckOf(f) > @
                     THEN AckOf(f) ELSE @]
    /\ UNCHANGED <<nd, nic, ncli, reqs, due, ndbudget, ndmix>>

\* The remote end (re)sends a part of its stream, the end of the stream in a FIN;
\* hosts probe and ping on their own account.
SendSegment ==
  \E p \in host.open, i \in (host.acked + 1) .. Len(Stream) + 1, j \in 0 .. Len(Stream) :
    /\ j \in {i - 1, i, i + 1} /\ (i - 1 <= j) /\ (j = i - 1 => i = Len(Stream) + 1)
    /\ wire' = [wire EXCEPT !.in = @ \cup
         {[k |-> IF j = Len(Stream) THEN "fin" ELSE "data", a |-> Plus(PEER_ISS, i), b |-> 0,
           d |-> SubSeq(Stream, i, j), port |-> p]}]
Probe == wire' = [wire EXCEPT !.in = @ \cup
            {Frame(IF "ping" \in ndmix.ops THEN "echo" ELSE "arpreq", ME, 0, <<>>)}]
Remote ==
  /\ ndbudget.sends > 0
  /\ ndbudget' = [ndbudget EXCEPT !.sends = @ - 1]
  /\ IF "connect" \in ndmix.ops THEN SendSegment ELSE Probe
  /\ UNCHANGED <<nd, nic, host, ncli, reqs, due, ndmix>>

-----------------------------------------------------------------------------
Idle(h) == [busy |-> FALSE, op |-> "status", h |-> h, resp |-> <<>>, got |-> <<>>,
            netd_pid |-> FALSE, refused |-> 0]
NdInit ==
  /\ ndmix \in NdMixes
  /\ nd = [dhcp |-> IF ndmix.bound THEN "bound" ELSE "init", xid |-> 0,
           offer |-> 0, ip |-> IF ndmix.bound THEN ME ELSE 0,
           arp |-> IF ndmix.bound THEN <<GATEWAY>> ELSE <<>>,
           pending |-> <<>>, out |-> <<>>, udp |-> <<>>, tcp |-> <<>>, next_handle |-> 1,
           ping_reply |-> 0]
  /\ nic = [rx |-> [i \in RxSlots |-> NoFrame], tx |-> NoFrame]
  /\ wire = [in |-> {}, out |-> {}]
  /\ host = [open |-> {}, acked |-> 0, shm |-> [c \in NdClient |-> 0]]
  /\ ncli = [c \in NdClient |-> Idle(0)]
  /\ reqs = <<>>
  /\ due = FALSE
  /\ ndbudget = [losses |-> ndmix.losses, dups |-> ndmix.dups, sends |-> ndmix.sends,
                 calls |-> ndmix.calls]

NdNext == \/ server_main
          \/ \E c \in ndmix.clients : rpc(c) \/ tcp_recv_bulk(c)
          \/ TxComplete \/ RxComplete \/ Lose \/ Expire \/ Receive \/ Remote

NdSpec == NdInit /\ [][NdNext]_ndVars

-----------------------------------------------------------------------------
NdTypeOK ==
  /\ nd.dhcp \in {"init", "selecting", "requesting", "bound"}
  /\ Len(nd.pending) <= PENDING_MAX /\ Len(nd.arp) <= ARP_CACHE_MAX
  /\ Sockets(nd) <= SOCKET_MAX
  /\ \A i \in DOMAIN nd.tcp : /\ nd.tcp[i].state \in {"SynSent", "Established", "Closed"}
                              /\ Len(nd.tcp[i].rx) <= TCP_RX_CAP
                              /\ nd.tcp[i].rcv_nxt \in 0 .. SEQ - 1
  /\ \A c \in NdClient : Len(ncli[c].resp) <= 1

Given(c) == ncli[c].got \o (IF ncli[c].op \in {"recv", "recv_shm"} /\ ncli[c].resp # <<>>
                              THEN ncli[c].resp[1].v ELSE <<>>)

\* What a client has read of a connection and what is queued for it is the
\* beginning of what the remote end sent, whatever was lost, duplicated or
\* reordered, and the remote end has never been told that more of it arrived:
\* "Advance ACK only over bytes actually retained" (netd lib.rs:466-469).  netd
\* drops the grant of every bulk receive it answers, "so completed HTTPS
\* connections cannot leak SHM regions" (1153-1155): between calls a client's
\* region carries one grant for each request that the full channel refused after
\* the grant was made (libnetclient lib.rs:230, 52) and no other.
NetStreamExact ==
  /\ \A i \in DOMAIN nd.tcp :
       LET s == nd.tcp[i]
           have == Given(s.owner) \o s.rx
       IN /\ have = SubSeq(Stream, 1, Len(have))
          /\ s.state = "Established" =>
               s.rcv_nxt = Plus(PEER_ISS, Len(have) + 1) /\ host.acked <= Len(have)
          /\ s.state = "Closed" => have = Stream
  /\ \A c \in NdClient : ~ncli[c].busy => host.shm[c] = ncli[c].refused

Up == nd.dhcp = "bound"
\* Whatever the network loses, netd obtains its address (the DISCOVER and the
\* REQUEST are both retried, lib.rs:191-206), and a connection attempt ends up
\* established while fewer frames are lost than SYNs are retried: "A real
\* network may lose the first SYN" (lib.rs:208-211).
NetConnects ==
  /\ <>Up
  /\ (\E i \in DOMAIN nd.tcp : nd.tcp[i].state = "SynSent")
       ~> (\A i \in DOMAIN nd.tcp : nd.tcp[i].state # "SynSent")
=============================================================================
