------------------------------- MODULE Loader -------------------------------
(***************************************************************************)
(* User images: what user_elf.rs accepts of an ELF file, and how           *)
(* process.rs places an image and the libraries it needs in a new address  *)
(* space.  Read-only library pages come from a cache that all processes    *)
(* share, whatever address each of them has the library at; everything     *)
(* else is private.  Two processes load on two CPUs at the same time; the  *)
(* cache's lock is held for one page.  Addresses count 8-byte words.       *)
(***************************************************************************)
EXTENDS Integers, Sequences, FiniteSets, FiniteSetsExt, SequencesExt, TLC

CONSTANTS
  Rootfs,     \* path or library name -> ELF file
  Mains,      \* the paths of Rootfs processes are started from
  Loading,    \* processes
  PAGE,
  PIE_ALIGN, PIE_BASE_MIN, PIE_CEILING,
  LIB_BASE, LIB_SLOT, MAX_LOADED_LIBRARIES,
  MAX_SEGMENTS, MAX_RELOCATIONS, MAX_NEEDED, MAX_SYMBOLS,
  SYM_ENT, RELA_ENT, DYN_ENT, PHDR_ENT,
  MaxVa,      \* the largest address a u64 holds
  LoadMixes   \* bounds of a behaviour: images, physical pages, loads, failing table pages

VARIABLES
  lelf,       \* path -> the UserElf of its file, where the parser accepts it
  shared,     \* SHARED_LIBRARY_PAGES
  lframe,     \* frame -> [refs, words]
  lproc,      \* process -> its address spaces and the load under way
  contested,  \* history: words of cached pages relocated to two different values
  leaked,     \* frame -> references from half-built spaces nobody will destroy
  lbudget     \* images to load, loads and faults left

loaderVars == <<lelf, shared, lframe, lproc, contested, leaked, lbudget>>

Absent == -1
Zero == <<"zero", 0>>
Addr(a) == <<"addr", a>>

-----------------------------------------------------------------------------
(* user_elf.rs.  A file is its headers, its length and the tables found at *)
(* file offsets; every failure of the parser refuses the image, so what it *)
(* accepts is one predicate and what it returns one record.                *)

parse_elf_header(img) ==
  img.len >= img.ehsize /\ img.magic /\ img.e_type \in {"EXEC", "DYN"} /\ img.phentsize # 0

parse_program_headers(img) ==
  \A i \in DOMAIN img.phdrs :
    img.phentsize = PHDR_ENT /\ img.phoff + i * PHDR_ENT <= img.len

validate_segment_bounds(ph, len) == ph.filesz <= ph.memsz /\ ph.offset + ph.filesz <= len

Of(img, type) == SelectSeq(img.phdrs, LAMBDA ph : ph.p_type = type)
Segments(img) == Of(img, "LOAD")

va_to_file_offset(img, va) ==
  LET segs == Segments(img)
      i == SelectInSeq(segs, LAMBDA s : s.vaddr <= va /\ va < s.vaddr + s.filesz)
  IN  IF va = Absent \/ i = 0 THEN Absent ELSE segs[i].offset + va - segs[i].vaddr

InFile(img, va, size) ==
  LET off == va_to_file_offset(img, va) IN off # Absent /\ off + size <= img.len

TableAt(img, va) == img.data[va_to_file_offset(img, va)]

\* Up to DT_NULL; of a tag that comes twice the last one counts.
Tags(img) ==
  LET n == SelectInSeq(img.dyn, LAMBDA d : d.tag = "NULL")
  IN  IF n = 0 THEN img.dyn ELSE SubSeq(img.dyn, 1, n - 1)
DynamicInfo(img, tag, default) ==
  LET t == Tags(img)
      i == SelectLastInSeq(t, LAMBDA d : d.tag = tag)
  IN  IF i = 0 THEN default ELSE t[i].val
NeededOffsets(img) == SelectSeq(Tags(img), LAMBDA d : d.tag = "NEEDED")

string_at(img, off) ==
  LET table == TableAt(img, DynamicInfo(img, "STRTAB", Absent))
  IN  IF off < DynamicInfo(img, "STRSZ", 0) /\ off + 1 \in DOMAIN table THEN table[off + 1]
      ELSE "?"

Relas(img, va, size) ==
  IF size = 0 THEN <<>> ELSE SubSeq(TableAt(img, va), 1, size \div RELA_ENT)
parse_rela_range(img, va, size) ==
  size # 0 =>
    /\ size % RELA_ENT = 0
    /\ InFile(img, va, size)
    /\ \A r \in Range(Relas(img, va, size)) :
         \/ r.typ = "RELATIVE" /\ r.sym = 0
         \/ r.typ \in {"ABS64", "GLOB_DAT", "JUMP_SLOT"} /\ r.sym # 0

Symbols(img) ==
  LET va == DynamicInfo(img, "SYMTAB", Absent) IN
  IF va = Absent THEN <<>>
  ELSE SubSeq(TableAt(img, va), 1, TableAt(img, DynamicInfo(img, "HASH", Absent))[2])

DynRelas(img) == Relas(img, DynamicInfo(img, "RELA", Absent), DynamicInfo(img, "RELASZ", 0))
PltRelas(img) == Relas(img, DynamicInfo(img, "JMPREL", Absent), DynamicInfo(img, "PLTRELSZ", 0))

\* The sections in the order the parser reads them.
parse_dynamic(img) ==
  LET di(tag, default) == DynamicInfo(img, tag, default)
      symtab == di("SYMTAB", Absent)
  IN  /\ Of(img, "DYNAMIC")[1].filesz >= DYN_ENT
      /\ Len(NeededOffsets(img)) <= MAX_NEEDED
      /\ (di("STRSZ", 0) # 0 \/ NeededOffsets(img) # <<>> \/ symtab # Absent) =>
           InFile(img, di("STRTAB", Absent), di("STRSZ", 0))
      /\ \A d \in Range(NeededOffsets(img)) : string_at(img, d.val) # "?"
      /\ symtab # Absent =>
           /\ di("SYMENT", SYM_ENT) = SYM_ENT
           /\ InFile(img, di("HASH", Absent), 2)
           /\ TableAt(img, di("HASH", Absent))[2] <= MAX_SYMBOLS
           /\ InFile(img, symtab, TableAt(img, di("HASH", Absent))[2] * SYM_ENT)
           /\ \A s \in Range(Symbols(img)) : s.name # 0 => string_at(img, s.name) # "?"
      /\ di("RELASZ", 0) # 0 => di("RELAENT", RELA_ENT) = RELA_ENT
      /\ parse_rela_range(img, di("RELA", Absent), di("RELASZ", 0))
      /\ di("PLTRELSZ", 0) # 0 => di("PLTREL", "") = "RELA"
      /\ parse_rela_range(img, di("JMPREL", Absent), di("PLTRELSZ", 0))
      /\ Len(DynRelas(img)) + Len(PltRelas(img)) <= MAX_RELOCATIONS
      /\ \A r \in Range(DynRelas(img) \o PltRelas(img)) :
           r.typ # "RELATIVE" => r.sym < Len(Symbols(img))

parse_user_elf(img) ==
  /\ parse_elf_header(img)
  /\ parse_program_headers(img)
  /\ \A ph \in Range(Segments(img) \o Of(img, "DYNAMIC")) : validate_segment_bounds(ph, img.len)
  /\ Len(Segments(img)) \in 1 .. MAX_SEGMENTS
  /\ Len(Of(img, "DYNAMIC")) <= 1
  /\ img.entry # 0 =>
       \E s \in Range(Segments(img)) : s.x /\ s.vaddr <= img.entry /\ img.entry < s.vaddr + s.memsz
  /\ Of(img, "DYNAMIC") # <<>> => parse_dynamic(img)

UserElf(img) ==
  LET dynamic == Of(img, "DYNAMIC") # <<>>
      name(off) == IF off = 0 THEN "" ELSE string_at(img, off)
  IN  [kind |-> img.e_type, segments |-> Segments(img),
       needed |-> IF dynamic THEN [i \in DOMAIN NeededOffsets(img) |->
                                     string_at(img, NeededOffsets(img)[i].val)] ELSE <<>>,
       symbols |-> IF dynamic THEN [i \in DOMAIN Symbols(img) |->
                                      [Symbols(img)[i] EXCEPT !.name = name(@)]] ELSE <<>>,
       relas |-> IF dynamic THEN DynRelas(img) \o PltRelas(img) ELSE <<>>]

image_span(elf) == Max({s.vaddr + s.memsz : s \in Range(elf.segments)})

-----------------------------------------------------------------------------
(* Where images go. *)

AlignUp(n, a) == ((n + a - 1) \div a) * a

pie_biases(elf) ==
  IF elf.kind = "EXEC" THEN {0}
  ELSE LET span == AlignUp(image_span(elf), PIE_ALIGN) IN
       IF span = 0 \/ PIE_BASE_MIN + span > PIE_CEILING THEN {}
       ELSE {PIE_BASE_MIN + k * PIE_ALIGN :
               k \in 0 .. (PIE_CEILING - span - PIE_BASE_MIN) \div PIE_ALIGN}

library_bias_for_index(index, elf) ==
  LET span == AlignUp(image_span(elf), PAGE) IN
  IF index >= MAX_LOADED_LIBRARIES \/ span \notin 1 .. LIB_SLOT THEN Absent
  ELSE LIB_BASE + index * LIB_SLOT

\* Exported symbols only; the library loaded first wins.
global_symbol(libs, name) ==
  LET exports(l) == {i \in DOMAIN l.elf.symbols :
                       LET s == l.elf.symbols[i] IN
                       s.defined /\ s.binding \in {"GLOBAL", "WEAK"} /\ s.name = name}
      i == SelectInSeq(libs, LAMBDA l : exports(l) # {})
  IN  IF name = "" \/ i = 0 THEN Absent
      ELSE libs[i].bias + libs[i].elf.symbols[Min(exports(libs[i]))].value

relocation_value(elf, bias, libs, r) ==
  LET sym == elf.symbols[r.sym + 1]
      base == IF r.typ = "RELATIVE" THEN bias
              ELSE IF sym.defined THEN bias + sym.value ELSE global_symbol(libs, sym.name)
      v == base + r.addend
  IN  IF base = Absent \/ v \notin 0 .. MaxVa THEN Absent ELSE v

-----------------------------------------------------------------------------
(* What a load does, in order. *)

Failed(order) == order # <<>> /\ Last(order) = "?"

\* The libraries in the order they are mapped: those a library needs come
\* first.  One that cannot be loaded ends the load, after the ones before it
\* are mapped.
RECURSIVE load_library_recursive(_, _)
load_library_recursive(names, order) ==
  IF names = <<>> \/ Failed(order) THEN order
  ELSE LET name == Head(names)
           deps == load_library_recursive(lelf[name].needed, order)
       IN  load_library_recursive(Tail(names),
             IF name \in Range(order) THEN order
             ELSE IF \/ Len(order) >= MAX_LOADED_LIBRARIES
                     \/ name \notin DOMAIN lelf \ Mains   \* has a '/', no file, no image
                     \/ lelf[name].kind # "DYN" THEN Append(order, "?")
             ELSE IF Failed(deps) \/ name \in Range(deps) THEN deps
             ELSE IF library_bias_for_index(Len(deps), lelf[name]) = Absent THEN Append(deps, "?")
             ELSE Append(deps, name))

\* The libraries of a process, in load order.
Libraries(order) ==
  LET names == SelectSeq(order, LAMBDA n : n # "?") IN
  [i \in DOMAIN names |-> [name |-> names[i], elf |-> lelf[names[i]],
                           bias |-> library_bias_for_index(i - 1, lelf[names[i]])]]

-----------------------------------------------------------------------------
(* Pages of an image: those of a segment, what one holds, the frame for it. *)

Writable(seg) == seg.w \/ seg.memsz > seg.filesz

PagesOf(image) ==
  LET one(seg) == LET lo == seg.vaddr \div PAGE IN
                  IF seg.memsz = 0 THEN <<>>
                  ELSE [i \in 1 .. AlignUp(seg.vaddr + seg.memsz, PAGE) \div PAGE - lo |->
                          [name |-> image.name, seg |-> seg, rel |-> lo + i - 1,
                           va |-> image.bias \div PAGE + lo + i - 1]]
  IN  FlattenSeq([i \in DOMAIN image.elf.segments |-> one(image.elf.segments[i])])

\* write_bytes(0), then the part of the file that falls in the page.
PageWords(pg) ==
  [o \in 0 .. PAGE - 1 |->
     LET at == pg.rel * PAGE + o - pg.seg.vaddr IN
     IF at \in 0 .. pg.seg.filesz - 1 THEN <<pg.name, pg.seg.offset + at>> ELSE Zero]

Main(path, bias) == [name |-> path, elf |-> lelf[path], bias |-> bias]

\* Once every provider is mapped: the libraries, then the main image.
Relocations(space) ==
  LET of(image) == [i \in DOMAIN image.elf.relas |->
                      [target |-> image.bias + image.elf.relas[i].offset,
                       value |-> relocation_value(image.elf, image.bias, space.libs,
                                                 image.elf.relas[i])]]
  IN  FlattenSeq([i \in DOMAIN space.libs |-> of(space.libs[i])])
        \o of(Main(space.path, space.bias))

-----------------------------------------------------------------------------
NoWords == [o \in 0 .. PAGE - 1 |-> Zero]
NoSpace == [path |-> "", bias |-> 0, libs |-> <<>>, pages |-> <<>>]
NotLoading == [pc |-> "idle", space |-> NoSpace]

LoaderInit ==
  /\ lelf = [path \in {n \in DOMAIN Rootfs : parse_user_elf(Rootfs[n])} |-> UserElf(Rootfs[path])]
  /\ lbudget \in LoadMixes
  /\ shared = {}
  /\ contested = {}
  /\ lframe = [f \in 1 .. lbudget.frames |-> [refs |-> 0, words |-> NoWords]]
  /\ lproc = [p \in Loading |-> [run |-> NoSpace, load |-> NotLoading]]
  /\ leaked = [f \in 1 .. lbudget.frames |-> 0]

Load(p) == lproc[p].load
SetLoad(p, l) == lproc' = [lproc EXCEPT ![p].load = l]

FreeFrames == {f \in DOMAIN lframe : lframe[f].refs = 0}
Fresh(f, words, refs) == [lframe EXCEPT ![f] = [refs |-> refs, words |-> words]]
Retain(f) == [lframe EXCEPT ![f].refs = @ + 1]
Times(f, frames) == Cardinality({i \in DOMAIN frames : frames[i] = f})

\* free_page on each: what a free frame holds is never read.
FreeAll(fs, frames) ==
  [f \in DOMAIN fs |->
     LET n == fs[f].refs - Times(f, frames) IN
     [refs |-> n, words |-> IF n = 0 THEN NoWords ELSE fs[f].words]]
Leak(frames) == [f \in DOMAIN leaked |-> leaked[f] + Times(f, frames)]
FramesOf(space) == [i \in DOMAIN space.pages |-> space.pages[i].phys]
Cached(pg) == {c \in shared : c.name = pg.name /\ c.rel = pg.rel}
Mapped(space, va) == {m \in Range(space.pages) : m.va = va}

\* spawn_user_from_bootfs and spawn_user_from_image start a process, exec_load
\* replaces the image of one: both parse, choose a bias and make a space.
start_load(p) ==
  /\ Load(p).pc = "idle" /\ lbudget.loads > 0
  /\ \E path \in lbudget.mains \cap DOMAIN lelf : \E bias \in pie_biases(lelf[path]) :
       LET order == load_library_recursive(lelf[path].needed, <<>>)
           libs == Libraries(order)
       IN  SetLoad(p, [pc |-> "main", todo |-> PagesOf(Main(path, bias)), whole |-> ~ Failed(order),
                       space |-> [path |-> path, bias |-> bias, libs |-> libs, pages |-> <<>>]])
  /\ lbudget' = [lbudget EXCEPT !.loads = @ - 1]
  /\ UNCHANGED <<lelf, shared, lframe, leaked>>

\* Refused before there is a space: not an image, or no entropy to place it.
refuse_load(p) ==
  /\ Load(p).pc = "idle" /\ lbudget.loads > 0
  /\ \E path \in lbudget.mains : path \in DOMAIN lelf => lelf[path].kind = "DYN"
  /\ lbudget' = [lbudget EXCEPT !.loads = @ - 1]
  /\ UNCHANGED <<lelf, shared, lframe, lproc, leaked>>

\* exec_load destroys what it has built.  Between spawn() and
\* configure_user_process a `?` returns from the whole function: the space is
\* dropped and its frames stay allocated.
Give_up(p, frames, extra) ==
  /\ SetLoad(p, NotLoading)
  /\ IF lproc[p].run.path # ""
     THEN lframe' = FreeAll(frames, FramesOf(Load(p).space)) /\ leaked' = Leak(extra)
     ELSE lframe' = frames /\ leaked' = Leak(FramesOf(Load(p).space) \o extra)

\* map_page_phys: the page is taken, or there is no page for a table.
map_page_fails(p, va) ==
  \/ Mapped(Load(p).space, va) # {} /\ UNCHANGED lbudget
  \/ lbudget.faults > 0 /\ lbudget' = [lbudget EXCEPT !.faults = @ - 1]

map_page_phys(p, pg, f) ==
  /\ Mapped(Load(p).space, pg.va) = {}
  /\ SetLoad(p, [Load(p) EXCEPT !.todo = Tail(@),
                   !.space.pages = Append(@, [va |-> pg.va, phys |-> f, w |-> Writable(pg.seg)])])
  /\ UNCHANGED <<leaked, lbudget>>

\* One page of the main image: private, whatever its permissions.  When it
\* cannot be mapped nobody frees it.
map_user_elf_segments(p) ==
  /\ Load(p).pc = "main" /\ Load(p).todo # <<>>
  /\ LET pg == Head(Load(p).todo)
         f == Min(FreeFrames)
         taken == Fresh(f, PageWords(pg), 1)
     IN  \/ FreeFrames = {} /\ Give_up(p, lframe, <<>>) /\ UNCHANGED lbudget
         \/ FreeFrames # {} /\ map_page_fails(p, pg.va) /\ Give_up(p, taken, <<f>>)
         \/ FreeFrames # {} /\ map_page_phys(p, pg, f) /\ lframe' = taken
  /\ UNCHANGED <<lelf, shared>>

\* One page of a library.  A page that is not writable is the cache's, made
\* now if this is its first use: the cache keeps the allocation's reference
\* and the mapping gets one of its own, which goes when it cannot be mapped.
map_shared_library_segments(p) ==
  /\ Load(p).pc = "libs" /\ Load(p).todo # <<>>
  /\ UNCHANGED lelf
  /\ LET pg == Head(Load(p).todo)
         hit == IF Writable(pg.seg) THEN {} ELSE Cached(pg)
         f == IF hit = {} THEN Min(FreeFrames) ELSE (CHOOSE c \in hit : TRUE).phys
         taken == IF hit # {} THEN Retain(f)
                  ELSE Fresh(f, PageWords(pg), IF Writable(pg.seg) THEN 1 ELSE 2)
     IN  \/ /\ hit = {} /\ FreeFrames = {}
            /\ Give_up(p, lframe, <<>>)
            /\ UNCHANGED <<shared, lbudget>>
         \/ /\ hit # {} \/ FreeFrames # {}
            /\ shared' = IF Writable(pg.seg) \/ hit # {} THEN shared
                         ELSE shared \cup {[name |-> pg.name, rel |-> pg.rel, phys |-> f]}
            /\ \/ map_page_fails(p, pg.va) /\ Give_up(p, FreeAll(taken, <<f>>), <<>>)
               \/ map_page_phys(p, pg, f) /\ lframe' = taken

\* The main image is mapped: the libraries; they are: the relocations.
load_dynamic_runtime(p) ==
  /\ \/ /\ Load(p).pc = "main" /\ Load(p).todo = <<>>
        /\ SetLoad(p, [Load(p) EXCEPT !.pc = "libs",
                          !.todo = FlattenSeq([i \in DOMAIN Load(p).space.libs |->
                                                 PagesOf(Load(p).space.libs[i])])])
        /\ UNCHANGED <<lframe, leaked>>
     \/ /\ Load(p).pc = "libs" /\ Load(p).todo = <<>>
        /\ IF ~ Load(p).whole THEN Give_up(p, lframe, <<>>)
           ELSE /\ SetLoad(p, [pc |-> "relocate", space |-> Load(p).space,
                               todo |-> Relocations(Load(p).space)])
                /\ UNCHANGED <<lframe, leaked>>
  /\ UNCHANGED <<lelf, shared, lbudget>>

\* The word is written through the frame, whatever the page's permissions and
\* whoever else has it: a relocation of a read-only page goes to the cache.
write_relocation_target(space, target, value) ==
  \E m \in Mapped(space, target \div PAGE) :
    LET o == target % PAGE
        w == lframe[m.phys].words[o]
    IN  /\ lframe' = [lframe EXCEPT ![m.phys].words[o] = Addr(value)]
        /\ contested' = IF /\ \E c \in shared : c.phys = m.phys
                           /\ w[1] = "addr" /\ w # Addr(value)
                        THEN contested \cup {<<m.phys, o>>} ELSE contested

apply_image_relocations(p) ==
  /\ Load(p).pc = "relocate" /\ Load(p).todo # <<>>
  /\ LET r == Head(Load(p).todo) IN
     \/ /\ r.value = Absent \/ Mapped(Load(p).space, r.target \div PAGE) = {}
        /\ Give_up(p, lframe, <<>>) /\ UNCHANGED contested
     \/ /\ r.value # Absent
        /\ write_relocation_target(Load(p).space, r.target, r.value)
        /\ SetLoad(p, [Load(p) EXCEPT !.todo = Tail(@)])
        /\ UNCHANGED leaked
  /\ UNCHANGED <<lelf, shared, lbudget>>

\* configure_user_process, or rebind_address_space and then old.destroy().
finish_load(p) ==
  /\ Load(p).pc = "relocate" /\ Load(p).todo = <<>>
  /\ lproc' = [lproc EXCEPT ![p] = [run |-> Load(p).space, load |-> NotLoading]]
  /\ lframe' = FreeAll(lframe, FramesOf(lproc[p].run))
  /\ UNCHANGED <<lelf, shared, leaked, lbudget>>

exit_process(p) ==
  /\ lproc[p].run.path # "" /\ Load(p).pc = "idle"
  /\ lframe' = FreeAll(lframe, FramesOf(lproc[p].run))
  /\ lproc' = [lproc EXCEPT ![p].run = NoSpace]
  /\ UNCHANGED <<lelf, shared, leaked, lbudget>>

LoaderNext ==
  \E p \in Loading :
    \/ apply_image_relocations(p)
    \/ /\ UNCHANGED contested
       /\ \/ start_load(p) \/ refuse_load(p) \/ map_user_elf_segments(p)
          \/ load_dynamic_runtime(p) \/ map_shared_library_segments(p)
          \/ finish_load(p) \/ exit_process(p)

LoaderSpec == LoaderInit /\ [][LoaderNext]_loaderVars

-----------------------------------------------------------------------------
(* Type correctness of the loader's state. *)
LoaderTypeOK ==
  /\ DOMAIN lelf \subseteq DOMAIN Rootfs
  /\ \A c \in shared : c.name \in DOMAIN lelf /\ c.phys \in DOMAIN lframe
  /\ \A f \in DOMAIN lframe : lframe[f].refs \in Nat /\ DOMAIN lframe[f].words = 0 .. PAGE - 1
  /\ \A p \in Loading : Load(p).pc \in {"idle", "main", "libs", "relocate"}
  /\ leaked \in [DOMAIN lframe -> Nat] /\ lbudget.faults \in Nat /\ lbudget.loads \in Nat

Mappings(f) ==
  MapThenSumSet(LAMBDA p : Times(f, FramesOf(lproc[p].run))
                           + Times(f, FramesOf(Load(p).space)),
                Loading)

(* "One permanent reference per cached read-only library page. Every       *)
(* process mapping takes an additional phys ref" (process.rs:2016-2018): a *)
(* frame has a reference for each mapping of it, one more while the cache  *)
(* holds it, and those of the half-built spaces that were dropped.         *)
LibraryPagesCounted ==
  \A f \in DOMAIN lframe :
    lframe[f].refs = Mappings(f) + Cardinality({c \in shared : c.phys = f}) + leaked[f]

ImagesOf(space) ==
  {Main(space.path, space.bias)} \cup Range(space.libs)
Word(space, a) == {lframe[m.phys].words[a % PAGE] : m \in Mapped(space, a \div PAGE)}

\* An address at which the space has a definition of the symbol.
Defines(space, a, name) ==
  /\ Mapped(space, a \div PAGE) # {}
  /\ \E i \in ImagesOf(space) : \E s \in Range(i.elf.symbols) :
       s.defined /\ s.name = name /\ a = i.bias + s.value

\* What a relocation has to leave behind in an image at this bias.
Linked(space, i, r) ==
  \E a \in 0 .. MaxVa :
    /\ Word(space, i.bias + r.offset) = {Addr(a)}
    /\ IF r.typ = "RELATIVE" THEN a = i.bias + r.addend
       ELSE Defines(space, a - r.addend, i.elf.symbols[r.sym + 1].name)

(* A process that runs has each of its images whole, at the addresses of   *)
(* its own space: a word the link editor left to the loader points to      *)
(* where this process has the definition, and every other word is the      *)
(* file's or zero, whatever processes that share the pages have loaded.    *)
(* (load_dynamic_runtime process.rs:2200, map_shared_library_segments      *)
(* process.rs:2311.)  Excepted is the one word a text relocation           *)
(* (process.rs:2137, "unusual but legal") leaves to whoever loaded last:   *)
(* a word of a cached page that two loads gave different values.           *)
ImagesLinked ==
  \A p \in Loading : LET space == lproc[p].run IN
    space.path # "" =>
      \A i \in ImagesOf(space) :
        /\ \A r \in Range(i.elf.relas) : LET a == i.bias + r.offset IN
             \/ Linked(space, i, r)
             \/ \E m \in Mapped(space, a \div PAGE) : <<m.phys, a % PAGE>> \in contested
        /\ \A pg \in Range(PagesOf(i)) : \A o \in 0 .. PAGE - 1 :
             LET a == pg.rel * PAGE + o IN
             (\A r \in Range(i.elf.relas) : r.offset # a) =>
               Word(space, i.bias + a) = {PageWords(pg)[o]}
=============================================================================
