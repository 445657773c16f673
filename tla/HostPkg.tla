------------------------------ MODULE HostPkg ------------------------------
(***************************************************************************)
(* The host side of the package system: userland/commands (the zeropkg,     *)
(* appctl and softwareupdate tools over pkg.rs, app_bundle.rs and the       *)
(* storage registry of lib.rs).                                             *)
(*                                                                          *)
(* A bundle is a record [name, id, version, storage, files], its files a    *)
(* function from paths to contents.  A path is a sequence of components, a  *)
(* component a sequence of character codes: Rust orders PathBufs component  *)
(* by component, and strings byte by byte, and the two differ.  SHA-256 is  *)
(* the identity on the byte string it is given and a signature is the pair  *)
(* of key and signed message: both without collisions.                      *)
(*                                                                          *)
(* The tools are run one at a time; each may be killed between any two of   *)
(* its file operations (Kill).  Two tools run at once lose updates of       *)
(* app-storage.json, which has no lock; that is not modelled.               *)
(***************************************************************************)
EXTENDS Integers, Sequences, FiniteSets, SequencesExt, Functions

CONSTANTS
    MainPath,     \* the path "main"
    ConfigPath    \* the path "config"

VARIABLES
    hrepo,        \* ~/.zero/pkg/repo: file name -> package
    htrust,       \* ~/.zero/pkg/trust: [origins, keys (origin -> key)]
    happs,        \* the applications directory: bundle name -> files present
    hstore,       \* app-storage.json: identifier -> [requested, allocated]
    htool,        \* the running tool: [pc, pkg, left, warn]
    hbudget       \* bound: commands left

hostVars == <<hrepo, htrust, happs, hstore, htool, hbudget>>

SLASH == 2
None == [kind |-> "none"]
Some(v) == [kind |-> "some", v |-> v]
Empty == [x \in {} |-> x]
Remove1(f, x) == Restrict(f, DOMAIN f \ {x})

(* Lexicographic order of two sequences under the order lt of their elements *)
LexLess(s, t, lt(_, _)) ==
    \E i \in 1..Len(t) :
        /\ i <= Len(s) + 1
        /\ \A j \in 1..(i - 1) : s[j] = t[j]
        /\ i <= Len(s) => lt(s[i], t[i])

CharLess(a, b) == a < b
ComponentLess(c, d) == LexLess(c, d, CharLess)

(* Ord for PathBuf: component by component (files.sort() of collect_files) *)
PathBufLess(p, q) == LexLess(p, q, ComponentLess)

(* The n-th element, and the whole, of a finite set in an order *)
Sorted(S, lt(_, _)) ==
    [n \in 1..Cardinality(S) |->
        CHOOSE p \in S : Cardinality({q \in S : lt(q, p)}) = n - 1]

------------------------------------------------------------------------------
(* pkg.rs: packing *)

Entry(files, p) == [path |-> p, data |-> files[p]]

EntriesInOrder(files, order) == [n \in DOMAIN order |-> Entry(files, order[n])]

collect_files(files) == Sorted(DOMAIN files, PathBufLess)

hash_directory(files) == EntriesInOrder(files, collect_files(files))

signature_message_hash(origin, id, version, hash) == <<origin, id, version, hash>>

compute_signature(key, origin, id, version, hash) ==
    [key |-> key, msg |-> signature_message_hash(origin, id, version, hash)]

verify_signature_hex(key, sig, m) ==
    /\ sig.v.key = key
    /\ sig.v.msg = signature_message_hash(m.origin.v, m.id, m.version, m.hash)

validate_bundle(files) == {MainPath, ConfigPath} \subseteq DOMAIN files

(* pack: the manifest of a bundle and its files in the order of collect_files;
   a key is only used together with an origin. *)
write_package(b, origin, sig) ==
    [name |-> b.name, id |-> b.id, version |-> b.version, storage |-> b.storage,
     hash |-> hash_directory(b.files), origin |-> origin, sig |-> sig,
     entries |-> EntriesInOrder(b.files, collect_files(b.files))]

Signed(b, origin, key) ==
    IF key = None THEN None
    ELSE Some(compute_signature(key.v, origin.v, b.id, b.version, hash_directory(b.files)))

FileName(p) == <<p.name, p.version>>

pack(b, origin, key) ==
    write_package(b, origin, Signed(b, origin, key))

publish(p) == (FileName(p) :> p) @@ hrepo

(* `zeropkg pack` followed by `zeropkg publish`.  The same bundle name and
   version overwrite the published file. *)
pack_publish(b, origin, key) ==
    /\ htool.pc = "idle" /\ hbudget > 0
    /\ validate_bundle(b.files)
    /\ key # None => origin # None
    /\ hrepo' = publish(pack(b, origin, key))
    /\ hbudget' = hbudget - 1
    /\ UNCHANGED <<htrust, happs, hstore, htool>>

------------------------------------------------------------------------------
(* pkg.rs: the repository and the trust store *)

IdLess(a, b) == a < b

repository_packages ==
    Sorted(Range(hrepo), LAMBDA p, q : \/ IdLess(p.id, q.id)
                                       \/ p.id = q.id /\ p.version < q.version
                                       \/ p.id = q.id /\ p.version = q.version
                                          /\ p.name < q.name)

(* The first package in (identifier, version) order that answers to the name *)
find_package(id) ==
    LET all == repository_packages
        hits == {n \in DOMAIN all : all[n].id = id}
    IN  IF hits = {} THEN None
        ELSE Some(all[CHOOSE n \in hits : \A k \in hits : n <= k])

add_trust(origin, key) ==
    /\ htool.pc = "idle" /\ hbudget > 0
    /\ htrust' = [origins |-> htrust.origins \cup {origin},
                  keys |-> (origin :> key) @@ htrust.keys]
    /\ hbudget' = hbudget - 1
    /\ UNCHANGED <<hrepo, happs, hstore, htool>>

(* remove_trust answers false, and leaves a key file in place, when the origin
   is not listed *)
remove_trust(origin) ==
    /\ htool.pc = "idle" /\ hbudget > 0
    /\ origin \in htrust.origins
    /\ htrust' = [origins |-> htrust.origins \ {origin},
                  keys |-> Remove1(htrust.keys, origin)]
    /\ hbudget' = hbudget - 1
    /\ UNCHANGED <<hrepo, happs, hstore, htool>>

(* TRUE when collect_trust_warnings returns no warning *)
load_trusted_key(origin) ==
    IF origin \in DOMAIN htrust.keys THEN Some(htrust.keys[origin]) ELSE None

trusted(p) ==
    /\ p.origin # None
    /\ p.origin.v \in htrust.origins
    /\ load_trusted_key(p.origin.v) # None
    /\ p.sig # None
    /\ verify_signature_hex(load_trusted_key(p.origin.v).v, p.sig, p)

------------------------------------------------------------------------------
(* lib.rs: the storage registry *)

Alnum(ch) == ch >= 3
UNDERSCORE == 0
APPDATA == <<8>>

sanitize_storage_name(s) ==
    IF s = <<>> THEN APPDATA
    ELSE [n \in DOMAIN s |-> IF Alnum(s[n]) \/ s[n] = UNDERSCORE THEN s[n] ELSE UNDERSCORE]

Taken == {hstore[i].allocated : i \in DOMAIN hstore}

Candidate(s, n) == [name |-> s, conflict |-> n]

(* The name itself, else ".name__0001" and so on, until no record holds it *)
free_name(s) ==
    Candidate(sanitize_storage_name(s),
              CHOOSE n \in 0..Cardinality(Taken) :
                  /\ Candidate(sanitize_storage_name(s), n) \notin Taken
                  /\ \A k \in 0..(n - 1) : Candidate(sanitize_storage_name(s), k) \in Taken)

allocate_app_storage(id, requested) ==
    IF id \in DOMAIN hstore THEN hstore
    ELSE (id :> [requested |-> requested, allocated |-> free_name(requested)]) @@ hstore

release_app_storage(id) == Remove1(hstore, id)

------------------------------------------------------------------------------
(* app_bundle.rs and the tools: installing on the host *)

ExtractedFiles(entries) ==
    [p \in {entries[n].path : n \in DOMAIN entries} |->
        entries[CHOOSE n \in DOMAIN entries : entries[n].path = p].data]

IdleTool == [pc |-> "idle", pkg |-> None, left |-> {}]

(* prepare_install extracts the package into a temporary directory, compares
   the hash and collects the trust warnings; a warning asks the user, who may
   decline (the plan's Drop removes the directory). *)
prepare_install(p, yes) ==
    /\ htool.pc = "idle" /\ hbudget > 0
    /\ hbudget' = hbudget - 1
    /\ LET clean == hash_directory(ExtractedFiles(p.entries)) = p.hash /\ trusted(p)
       IN  htool' = IF clean \/ yes THEN [pc |-> "commit", pkg |-> p, left |-> {}]
                    ELSE htool
    /\ UNCHANGED <<hrepo, htrust, happs, hstore>>

zeropkg_install(f, yes) == f \in DOMAIN hrepo /\ prepare_install(hrepo[f], yes)

softwareupdate_install(id, yes) ==
    /\ find_package(id) # None
    /\ prepare_install(find_package(id).v, yes)

(* `appctl install` takes a bundle directory, with no hash and no signature *)
appctl_install(b) ==
    /\ htool.pc = "idle" /\ hbudget > 0
    /\ htool' = [pc |-> "commit", pkg |-> write_package(b, None, None), left |-> {}]
    /\ hbudget' = hbudget - 1
    /\ UNCHANGED <<hrepo, htrust, happs, hstore>>

(* install_bundle: validate, remove the old version, ... *)
install_bundle ==
    /\ htool.pc = "commit"
    /\ IF validate_bundle(ExtractedFiles(htool.pkg.entries))
       THEN /\ happs' = (htool.pkg.name :> Empty) @@ happs
            /\ htool' = [htool EXCEPT !.pc = "copy",
                                      !.left = DOMAIN ExtractedFiles(htool.pkg.entries)]
       ELSE htool' = IdleTool /\ UNCHANGED happs
    /\ UNCHANGED <<hrepo, htrust, hstore, hbudget>>

(* ... copy_dir, one file at a time, ... *)
copy_dir ==
    /\ htool.pc = "copy" /\ htool.left # {}
    /\ \E p \in htool.left :
          /\ happs' = [happs EXCEPT ![htool.pkg.name] =
                         (p :> ExtractedFiles(htool.pkg.entries)[p]) @@ @]
          /\ htool' = [htool EXCEPT !.left = @ \ {p}]
    /\ UNCHANGED <<hrepo, htrust, hstore, hbudget>>

(* ... and the data directory. *)
install_storage ==
    /\ htool.pc = "copy" /\ htool.left = {}
    /\ hstore' = allocate_app_storage(htool.pkg.id, htool.pkg.storage)
    /\ htool' = IdleTool
    /\ UNCHANGED <<hrepo, htrust, happs, hbudget>>

(* uninstall_bundle: the identifier comes from the installed config, and no
   storage is released when that file is missing *)
uninstall_bundle(n) ==
    /\ htool.pc = "idle" /\ hbudget > 0
    /\ n \in DOMAIN happs
    /\ hbudget' = hbudget - 1
    /\ happs' = Remove1(happs, n)
    /\ hstore' = IF ConfigPath \in DOMAIN happs[n]
                 THEN release_app_storage(happs[n][ConfigPath]) ELSE hstore
    /\ UNCHANGED <<hrepo, htrust, htool>>

(* A tool is killed between two file operations *)
Kill ==
    /\ htool.pc # "idle"
    /\ htool' = IdleTool
    /\ UNCHANGED <<hrepo, htrust, happs, hstore, hbudget>>

------------------------------------------------------------------------------
HostInit(n) ==
    /\ hrepo = Empty
    /\ htrust = [origins |-> {}, keys |-> Empty]
    /\ happs = Empty
    /\ hstore = Empty
    /\ htool = IdleTool
    /\ hbudget = n
=============================================================================
