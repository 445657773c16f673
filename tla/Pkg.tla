-------------------------------- MODULE Pkg --------------------------------
(***************************************************************************)
(* The package system: the host tools (HostPkg) publish into a repository,  *)
(* pkgd on the device fetches a package over HTTPS (userland/libweb),       *)
(* checks and installs it (userland/libpkg) and answers remove, verify,     *)
(* launch and list requests (servers/pkgd).                                 *)
(*                                                                          *)
(* pkgd handles one request at a time; dpc is where its handler is.  The    *)
(* HTTP body is a sequence of units, the units of a package being its       *)
(* header and its entries; the reads return any number of units, the        *)
(* connection may close after any of them (TLS authenticates what arrived,  *)
(* not that it is everything).  Every file-system call may fail (dbudget    *)
(* .faults) and is otherwise atomic and durable, which module Volume shows; *)
(* the machine may stop between two of them (Crash).                        *)
(***************************************************************************)
EXTENDS HostPkg

CONSTANTS
    MAX_HTTP_RESPONSE,  \* libweb, in units
    PKG_TRUST_ORIGIN,   \* securityd's one package origin ...
    PKG_ZERO_OS_KEY,    \* ... and its key
    PkMixes             \* sets of behaviours: [host, hosts, bundles, origins, keys,
                        \*   frames, faults, crashes, reqs]

VARIABLES
    dpc,          \* pkgd: [pc, op, id, frame, sent, raw, pkg, i, had_old]
    dapps,        \* /Applications: bundle name -> files present
    dold,         \* /Applications/<bundle>.old
    dtemp,        \* the staging directory of the running install
    dreg,         \* /var/lib/zeropkg: identifier -> [bundle, version, hash]
    dreply,       \* the last answer: [op, ok, why]
    dkept,        \* history: what was installed, [id, name, asked (to be removed)]
    dbudget,      \* [reqs, faults, crashes] left
    pkmix

devVars == <<dpc, dapps, dold, dtemp, dreg, dreply, dkept, dbudget>>
pkVars == <<hostVars, devVars, pkmix>>

Idle == [pc |-> "idle"]
Reply(op, ok, why) == [op |-> op, ok |-> ok, why |-> why]
NoReply == Reply("none", TRUE, "none")

------------------------------------------------------------------------------
(* libweb: HTTP framing *)

Size(n) == [k |-> "size", n |-> n]
Crlf == [k |-> "crlf", n |-> 0]
Data(v) == [k |-> "data", n |-> v]

(* What the repository server sends for a body of n units: with a length, in
   chunks of one or two units, or ended by the close. *)
Units(n) == [j \in 1..n |-> Data(j)]
Chunk(j, k) == <<Size(k - j + 1)>> \o [m \in 1..(k - j + 1) |-> Data(j + m - 1)] \o <<Crlf>>
Chunked(n) ==
    FlattenSeq([c \in 1..((n + 1) \div 2) |->
                   Chunk(2 * c - 1, IF 2 * c <= n THEN 2 * c ELSE n)])
    \o <<Size(0), Crlf>>
Sent(frame, n) == IF frame = "chunked" THEN Chunked(n) ELSE Units(n)

(* The chunk starting at unit i of raw is complete *)
ChunkEnd(raw, i) == i + raw[i].n + 1
ChunkWhole(raw, i) ==
    /\ i <= Len(raw) /\ raw[i].k = "size"
    /\ ChunkEnd(raw, i) <= Len(raw) /\ raw[ChunkEnd(raw, i)].k = "crlf"

(* Where the walk over whole chunks stops: the loop of chunked_complete and of
   decode_chunked *)
ChunkStarts(raw) ==
    {i \in 1..Len(raw) :
        /\ raw[i].k = "size"
        /\ \A j \in 1..(i - 1) : raw[j].k = "size" => ChunkWhole(raw, j)}

chunked_complete(raw) ==
    \E i \in ChunkStarts(raw) : raw[i].n = 0 /\ i + 1 <= Len(raw) /\ raw[i + 1].k = "crlf"

http_message_complete(frame, n, raw) ==
    CASE frame = "chunked" -> chunked_complete(raw)
      [] frame = "length"  -> Len(raw) >= n
      [] frame = "close"   -> FALSE

(* decode_chunked needs the zero size, not the empty line after it *)
decode_chunked(raw) ==
    IF \E i \in ChunkStarts(raw) : raw[i].n = 0
    THEN Some(SelectSeq(raw, LAMBDA u : u.k = "data"))
    ELSE None

parse_http(frame, raw) ==
    IF frame = "chunked" THEN decode_chunked(raw) ELSE Some(raw)

Done(op, ok, why) ==
    /\ dpc' = Idle
    /\ dreply' = Reply(op, ok, why)

(* parse_https_url: the development repository is an IP literal, any other host
   is a name, and is only fetched from port 443 *)
install_url(f) ==
    /\ dpc = Idle /\ dbudget.reqs > 0 /\ f \in DOMAIN hrepo
    /\ dbudget' = [dbudget EXCEPT !.reqs = @ - 1]
    /\ \E literal \in BOOLEAN, port443 \in BOOLEAN :
          IF literal \/ port443
          THEN /\ dpc' = [pc |-> "resolve", pkg |-> hrepo[f], literal |-> literal]
               /\ UNCHANGED dreply
          ELSE Done("install", FALSE, "Network")
    /\ UNCHANGED <<dapps, dold, dtemp, dreg, dkept>>

(* What the DNS server, or an earlier query's late answer, may put into the
   socket: own tells whether it carries this query's id; "cut" is a record that
   runs past the end of the 116-byte buffer *)
DnsReplies ==
    [own : BOOLEAN, response : BOOLEAN, rcode : {0, 3},
     answers : {<<>>, <<"A">>, <<"CNAME", "A">>, <<"CNAME", "cut">>}]

parse_dns_a(r) ==
    /\ r.own /\ r.response /\ r.rcode = 0
    /\ \E n \in DOMAIN r.answers :
          r.answers[n] = "A" /\ \A k \in 1..(n - 1) : r.answers[k] # "cut"

(* An IP literal needs no query; else the first datagram from the server on
   port 53 decides, whatever it holds, and none before the timeout fails *)
resolve_a ==
    /\ dpc.pc = "resolve"
    /\ \E ok \in {dpc.literal} \cup {parse_dns_a(r) : r \in DnsReplies} :
          IF ok \/ dpc.literal
          THEN dpc' = [pc |-> "connect", pkg |-> dpc.pkg] /\ UNCHANGED dreply
          ELSE Done("install", FALSE, "Network")
    /\ UNCHANGED <<dapps, dold, dtemp, dreg, dkept, dbudget>>

(* TcpStream::connect polls tcp_state until Established (2), Closed (3) or the
   timeout *)
connect ==
    /\ dpc.pc = "connect"
    /\ \E state \in {"established", "closed", "timeout"}, frame \in pkmix.frames :
          IF state = "established"
          THEN /\ dpc' = [pc |-> "http", pkg |-> dpc.pkg, frame |-> frame,
                          sent |-> Sent(frame, 1 + Len(dpc.pkg.entries)), raw |-> <<>>]
               /\ UNCHANGED dreply
          ELSE Done("install", FALSE, "Network")
    /\ UNCHANGED <<dapps, dold, dtemp, dreg, dkept, dbudget>>

------------------------------------------------------------------------------
(* libpkg: what a body says *)

BodyEntries(p, body) == [n \in 1..(Len(body) - 1) |-> p.entries[body[n + 1].n - 1]]

(* parse_package of the units of p that arrived: the header announces the
   number of entries, every one of them must be there and nothing after them *)
parse_package(p, body) ==
    IF /\ Len(body) >= 1
       /\ Len(p.entries) > 0
       /\ Len(body) = 1 + Len(p.entries)
       /\ p.origin # None /\ p.sig # None
       /\ \E n \in 1..(Len(body) - 1) : BodyEntries(p, body)[n].path = MainPath
    THEN Some([p EXCEPT !.entries = BodyEntries(p, body)])
    ELSE None

Flat(path) == FlattenSeq([n \in DOMAIN path |-> IF n = 1 THEN path[n] ELSE <<SLASH>> \o path[n]])

(* a.path.cmp(&b.path): strings, byte by byte *)
StrLess(p, q) == LexLess(Flat(p), Flat(q), CharLess)

canonical_hash(files) == EntriesInOrder(files, Sorted(DOMAIN files, StrLess))

message_hash(m) == <<m.origin.v, m.id, m.version, m.hash>>

(* verify_signature, answered by securityd's CMD_PKG_VERIFY *)
verify_signature(m) ==
    /\ m.origin.v = PKG_TRUST_ORIGIN
    /\ m.sig.v.key = PKG_ZERO_OS_KEY
    /\ m.sig.v.msg = message_hash(m)

hash_ok(m) == canonical_hash(ExtractedFiles(m.entries)) = m.hash

(* What install_bytes makes of a body: the first check that fails *)
verdict(body, m) ==
    CASE body = None -> "Network"
      [] body # None /\ m = None -> "Format"
      [] body # None /\ m # None /\ ~hash_ok(m.v) -> "Hash"
      [] body # None /\ m # None /\ hash_ok(m.v) /\ ~verify_signature(m.v) -> "Signature"
      [] OTHER -> "ok"

parsed(body) == IF body = None THEN None ELSE parse_package(dpc.pkg, body.v)

(* The response is read to its end: complete framing, or a close *)
finish(body) ==
    LET m == parsed(body)
        v == verdict(body, m)
    IN  /\ dpc' = IF v = "ok" THEN [pc |-> "stage", pkg |-> m.v, i |-> 0] ELSE Idle
        /\ dreply' = IF v = "ok" THEN dreply ELSE Reply("install", FALSE, v)

read_http_tls ==
    /\ dpc.pc = "http"
    /\ LET got == Len(dpc.raw)
       IN  \/ /\ http_message_complete(dpc.frame, 1 + Len(dpc.pkg.entries), dpc.raw)
              /\ finish(parse_http(dpc.frame, dpc.raw))
           \/ /\ ~http_message_complete(dpc.frame, 1 + Len(dpc.pkg.entries), dpc.raw)
              /\ \/ \E n \in 1..(Len(dpc.sent) - got) :
                       IF got + n > MAX_HTTP_RESPONSE
                       THEN Done("install", FALSE, "Network")
                       ELSE /\ dpc' = [dpc EXCEPT !.raw = SubSeq(dpc.sent, 1, got + n)]
                            /\ UNCHANGED dreply
                 \/ finish(parse_http(dpc.frame, dpc.raw))
    /\ UNCHANGED <<dapps, dold, dtemp, dreg, dkept, dbudget>>

------------------------------------------------------------------------------
(* libpkg: the installation *)

Fault == dbudget.faults > 0 /\ dbudget' = [dbudget EXCEPT !.faults = @ - 1]
NoFault == UNCHANGED dbudget

(* remove_tree deletes file by file and stops at the first failure: what is
   left is any subset, or nothing at all *)
RemoveTree(t, failed) == IF failed THEN {Restrict(t.v, S) : S \in SUBSET DOMAIN t.v} ELSE {None}

(* mkdir of the temporary directory, then one entry: write, read back, compare *)
stage ==
    /\ dpc.pc = "stage" /\ dpc.i < Len(dpc.pkg.entries)
    /\ \/ /\ NoFault
          /\ dtemp' = LET e == dpc.pkg.entries[dpc.i + 1]
                      IN  Some((e.path :> e.data) @@ (IF dtemp = None THEN Empty ELSE dtemp.v))
          /\ dpc' = [dpc EXCEPT !.i = @ + 1]
          /\ UNCHANGED dreply
       \/ /\ Fault
          /\ dtemp' = None
          /\ Done("install", FALSE, "Fs")
    /\ UNCHANGED <<dapps, dold, dreg, dkept>>

Has(d, b) == b \in DOMAIN d

(* Mutant: the old version is deleted before the new one is in place *)
DropOld ==
    /\ dpc.pc = "stage" /\ dpc.i = Len(dpc.pkg.entries)
    /\ NoFault
    /\ dapps' = Remove1(dapps, dpc.pkg.name)
    /\ dpc' = [pc |-> "commit", pkg |-> dpc.pkg, had_old |-> FALSE]
    /\ UNCHANGED <<dold, dtemp, dreg, dreply, dkept>>

(* had_old = rename(final, final.old).is_ok(): refused when there is no old
   version, and when a .old of an earlier installation is still there *)
backup_old ==
    /\ dpc.pc = "stage" /\ dpc.i = Len(dpc.pkg.entries)
    /\ LET b == dpc.pkg.name
       IN  \/ /\ NoFault /\ Has(dapps, b) /\ ~Has(dold, b)
              /\ dold' = (b :> dapps[b]) @@ dold
              /\ dapps' = Remove1(dapps, b)
              /\ dpc' = [pc |-> "commit", pkg |-> dpc.pkg, had_old |-> TRUE]
           \/ /\ IF Has(dapps, b) /\ ~Has(dold, b) THEN Fault ELSE NoFault
              /\ dpc' = [pc |-> "commit", pkg |-> dpc.pkg, had_old |-> FALSE]
              /\ UNCHANGED <<dapps, dold>>
    /\ UNCHANGED <<dtemp, dreg, dreply, dkept>>

(* rename(temp, final), with the rollback when it fails; a final directory that
   could not be moved away makes it fail *)
commit ==
    /\ dpc.pc = "commit"
    /\ LET b == dpc.pkg.name
       IN  \/ /\ NoFault /\ ~Has(dapps, b)
              /\ dapps' = (b :> dtemp.v) @@ dapps
              /\ dkept' = {k \in dkept : k.id # dpc.pkg.id \/ k.name # b}
                             \cup {[id |-> dpc.pkg.id, name |-> b, asked |-> FALSE]}
              /\ dtemp' = None
              /\ dpc' = [dpc EXCEPT !.pc = "cleanup"]
              /\ UNCHANGED <<dold, dreply>>
           \/ /\ IF Has(dapps, b) THEN NoFault ELSE Fault
              /\ dtemp' = None
              /\ dpc' = IF dpc.had_old THEN [dpc EXCEPT !.pc = "rollback"] ELSE Idle
              /\ dreply' = IF dpc.had_old THEN dreply ELSE Reply("install", FALSE, "FsCommit")
              /\ UNCHANGED <<dapps, dold, dkept>>
    /\ UNCHANGED dreg

rollback ==
    /\ dpc.pc = "rollback"
    /\ \/ /\ NoFault
          /\ dapps' = (dpc.pkg.name :> dold[dpc.pkg.name]) @@ dapps
          /\ dold' = Remove1(dold, dpc.pkg.name)
       \/ Fault /\ UNCHANGED <<dapps, dold>>
    /\ Done("install", FALSE, "FsCommit")
    /\ UNCHANGED <<dtemp, dreg, dkept>>

(* remove_tree(backup), whose failure is ignored *)
cleanup ==
    /\ dpc.pc = "cleanup"
    /\ dpc' = [dpc EXCEPT !.pc = "register"]
    /\ IF dpc.had_old
       THEN \/ NoFault /\ dold' = Remove1(dold, dpc.pkg.name)
            \/ /\ Fault
               /\ \E t \in RemoveTree(Some(dold[dpc.pkg.name]), TRUE) :
                     dold' = [dold EXCEPT ![dpc.pkg.name] = t]
       ELSE NoFault /\ UNCHANGED dold
    /\ UNCHANGED <<dapps, dtemp, dreg, dreply, dkept>>

registry(m) == [bundle |-> m.name, version |-> m.version, hash |-> m.hash]

register ==
    /\ dpc.pc = "register"
    /\ \/ /\ NoFault
          /\ dreg' = (dpc.pkg.id :> registry(dpc.pkg)) @@ dreg
          /\ Done("install", TRUE, "installed")
       \/ Fault /\ UNCHANGED dreg /\ Done("install", FALSE, "FsRegistry")
    /\ UNCHANGED <<dapps, dold, dtemp, dkept>>

------------------------------------------------------------------------------
(* libpkg: remove, verify, launch and list, as pkgd's handle answers them *)

Request(id) ==
    /\ dpc = Idle /\ dbudget.reqs > 0
    /\ dbudget' = [dbudget EXCEPT !.reqs = @ - 1]

(* remove of an identifier the registry does not know answers NotFound *)
remove(id) ==
    /\ Request(id)
    /\ IF Has(dreg, id)
       THEN /\ dpc' = [pc |-> "remove", id |-> id]
            /\ dkept' = {[k EXCEPT !.asked = @ \/ (k.id = id /\ k.name = dreg[id].bundle)] : k \in dkept}
            /\ UNCHANGED dreply
       ELSE Done("remove", FALSE, "NotFound") /\ UNCHANGED dkept
    /\ UNCHANGED <<dapps, dold, dtemp, dreg>>

(* remove_tree of the bundle, whose failure leaves the registry alone; a bundle
   that is already gone fails too *)
remove_bundle ==
    /\ dpc.pc = "remove"
    /\ LET b == dreg[dpc.id].bundle
       IN  \/ /\ NoFault /\ Has(dapps, b)
              /\ dapps' = Remove1(dapps, b)
              /\ dpc' = [dpc EXCEPT !.pc = "unregister"]
              /\ UNCHANGED dreply
           \/ /\ IF Has(dapps, b)
                 THEN /\ Fault
                      /\ \E t \in RemoveTree(Some(dapps[b]), TRUE) : dapps' = [dapps EXCEPT ![b] = t]
                 ELSE NoFault /\ UNCHANGED dapps
              /\ Done("remove", FALSE, "Fs")
    /\ UNCHANGED <<dold, dtemp, dreg, dkept>>

unregister ==
    /\ dpc.pc = "unregister"
    /\ \/ /\ NoFault
          /\ dreg' = Remove1(dreg, dpc.id)
          /\ Done("remove", TRUE, "removed")
       \/ Fault /\ UNCHANGED dreg /\ Done("remove", FALSE, "Fs")
    /\ UNCHANGED <<dapps, dold, dtemp, dkept>>

(* collect_installed and the canonical hash against the registered one *)
verify(id) ==
    /\ Request(id)
    /\ LET found == Has(dreg, id) /\ Has(dapps, dreg[id].bundle)
           same == found /\ canonical_hash(dapps[dreg[id].bundle]) = dreg[id].hash
       IN  Done("verify", same, IF ~found THEN "NotFound" ELSE IF same THEN "verified" ELSE "mismatch")
    /\ UNCHANGED <<dapps, dold, dtemp, dreg, dkept>>

launch(id) ==
    /\ Request(id)
    /\ LET found == /\ Has(dreg, id) /\ Has(dapps, dreg[id].bundle)
                    /\ MainPath \in DOMAIN dapps[dreg[id].bundle]
       IN  Done("launch", found, IF found THEN "launched" ELSE "failed")
    /\ UNCHANGED <<dapps, dold, dtemp, dreg, dkept>>

(* The machine stops.  A remove_tree under way leaves any part of its tree; the
   staging directory, whose name is random, is never looked at again. *)
Crash ==
    /\ dbudget.crashes > 0 /\ dpc # Idle
    /\ dbudget' = [dbudget EXCEPT !.crashes = @ - 1]
    /\ dpc' = Idle /\ dtemp' = None /\ dreply' = NoReply
    /\ CASE dpc.pc = "cleanup" /\ dpc.had_old ->
              /\ \E t \in RemoveTree(Some(dold[dpc.pkg.name]), TRUE) :
                    dold' = [dold EXCEPT ![dpc.pkg.name] = t]
              /\ UNCHANGED dapps
         [] dpc.pc = "remove" /\ Has(dapps, dreg[dpc.id].bundle) ->
              /\ \E t \in RemoveTree(Some(dapps[dreg[dpc.id].bundle]), TRUE) :
                    dapps' = [dapps EXCEPT ![dreg[dpc.id].bundle] = t]
              /\ UNCHANGED dold
         [] OTHER -> UNCHANGED <<dapps, dold>>
    /\ UNCHANGED <<dreg, dkept>>

------------------------------------------------------------------------------
PkInit ==
    /\ pkmix \in PkMixes
    /\ HostInit(pkmix.hosts)
    /\ dpc = Idle /\ dapps = Empty /\ dold = Empty /\ dtemp = None /\ dreg = Empty
    /\ dreply = NoReply /\ dkept = {}
    /\ dbudget = [reqs |-> pkmix.reqs, faults |-> pkmix.faults, crashes |-> pkmix.crashes]

HostOps ==
    \/ \E b \in pkmix.bundles, o \in pkmix.origins, k \in pkmix.keys : pack_publish(b, o, k)
    \/ \E o \in pkmix.origins, k \in pkmix.keys :
          o # None /\ k # None /\ (add_trust(o.v, k.v) \/ remove_trust(o.v))
    \/ \E f \in DOMAIN hrepo, yes \in BOOLEAN : zeropkg_install(f, yes)
    \/ \E b \in pkmix.bundles, yes \in BOOLEAN : softwareupdate_install(b.id, yes)
    \/ \E b \in pkmix.bundles : appctl_install(b)
    \/ install_bundle \/ copy_dir \/ install_storage \/ Kill
    \/ \E n \in DOMAIN happs : uninstall_bundle(n)

(* pkgd's loop *)
server_main ==
    \/ \E f \in DOMAIN hrepo : install_url(f)
    \/ resolve_a \/ connect \/ read_http_tls \/ stage \/ backup_old \/ commit \/ rollback \/ cleanup \/ register
    \/ \E b \in pkmix.bundles : remove(b.id) \/ verify(b.id) \/ launch(b.id)
    \/ remove_bundle \/ unregister \/ Crash

(* A host-only mix has no device and the other way round: the two sides share
   only the repository, which a device mix fills before pkgd starts. *)
PkNext ==
    \/ pkmix.host /\ HostOps /\ UNCHANGED <<devVars, pkmix>>
    \/ /\ ~pkmix.host /\ dbudget.reqs = pkmix.reqs
       /\ \E b \in pkmix.bundles, o \in pkmix.origins, k \in pkmix.keys : pack_publish(b, o, k)
       /\ UNCHANGED <<devVars, pkmix>>
    \/ ~pkmix.host /\ server_main /\ UNCHANGED <<hostVars, pkmix>>

PkSpec == PkInit /\ [][PkNext]_pkVars

------------------------------------------------------------------------------
PkTypeOK ==
    /\ \A f \in DOMAIN hrepo : FileName(hrepo[f]) = f
    /\ DOMAIN htrust.keys = htrust.origins
    /\ htool.pc \in {"idle", "commit", "copy"}
    /\ hbudget \in 0..pkmix.hosts
    /\ dpc.pc \in {"idle", "resolve", "connect", "http", "stage", "commit", "rollback", "cleanup", "register",
                   "remove", "unregister"}
    /\ \A k \in dkept : \E b \in pkmix.bundles : k.id = b.id /\ k.name = b.name
    /\ pkmix \in PkMixes

Genuine(k, files) ==
    \E x \in pkmix.bundles : x.id = k.id /\ x.name = k.name /\ x.files = files

(* Another identifier was installed under the same bundle name: /Applications
   is keyed by bundle_name, the registry and the signed message (message_hash)
   by identifier *)
Aliased(k) == \E l \in dkept : l.name = k.name /\ l.id # k.id

(* InstalledExact: whatever pieces the HTTP body arrives in, wherever the
   connection is cut, whichever file-system call fails and wherever the machine
   stops, an application that was installed and not asked to be removed is still
   there, under its name or under its .old name, with exactly the files of one
   published bundle of its identifier, signed for this device: never a mixture of
   two versions, never a prefix (libpkg install_bytes; the rename/backup/rollback
   order); excepted are identifiers that share a bundle name (Aliased).  And
   no two applications of the host share a data directory, in whatever order
   they are installed, overwritten and removed (allocate_app_storage). *)
InstalledExact ==
    /\ \A k \in dkept :
          \/ k.asked \/ Aliased(k)
          \/ IF Has(dapps, k.name) THEN Genuine(k, dapps[k.name])
             ELSE Has(dold, k.name) /\ Genuine(k, dold[k.name])
    /\ \A i, j \in DOMAIN hstore :
          hstore[i].allocated = hstore[j].allocated => i = j

(* HashesAgree: libs/abi/src/zpkg.rs:3 says the device's format contract is
   aligned with the host's pkg.rs ("与宿主 `pkg.rs` 的格式契约对齐"), and both call
   the hash canonical: a package `zeropkg pack` wrote is never refused by the
   device for its hash.  It fails where the two orders of paths differ:
   README.md, section 5. *)
HashesAgree == dreply.why # "Hash"
=============================================================================
