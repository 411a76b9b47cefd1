------------------------------- MODULE Stage2 -------------------------------
(***************************************************************************)
(* The page allocator (kalloc.c), the stage 2 page tables (vmm.c) and the  *)
(* boot code that builds the guest's memory with them (do_memory_mapping,  *)
(* do_device_mapping, create_mmio_trap and create_guest_vm of vm.c).  Only *)
(* the boot core runs this code.  Memory is the pages of the pool, a page  *)
(* is Fan words, and addresses are page numbers: the code maps, copies and *)
(* frees whole pages.                                                      *)
(***************************************************************************)
EXTENDS Integers, Sequences

CONSTANTS
  Fan,          \* the entries of a table (512 in the code)
  NPages,       \* bound: the physical pages after HIMAGE_END
  Configs,      \* the pages up to PHYEND, the VM's configuration and the GIC ranges
  Sound         \* those with enough pages and disjoint areas, as main.c's

ASSUME Stage2Assumption ==
  /\ Fan \in Nat /\ Fan > 1
  /\ NPages \in Nat
  /\ \A c \in Configs : c.npages \in 0..NPages
  /\ Sound \subseteq Configs

Null == 0
Pages == 1..NPages
Device == NPages + 1                  \* the page of the PL011
VPages == 0..(Fan * Fan * Fan * Fan - 1)
Idx == 0..(Fan - 1)
Area(base, n) == base..(base + n - 1)

\* The areas of a configuration lie in the address space that four levels
\* translate, and the GIC's ranges are not the UART's page (layout.h).
ASSUME ConfigAssumption ==
  \A c \in Configs :
    /\ {c.entry, c.nimage, c.nram, c.dtb, c.ndtb, c.rootfs, c.nrootfs} \subseteq Nat
    /\ Area(c.entry, c.nimage) \cup Area(c.entry, c.nram) \subseteq VPages
    /\ Area(c.dtb, c.ndtb) \cup Area(c.rootfs, c.nrootfs) \subseteq VPages
    /\ c.device \in VPages
    /\ c.traps \in Seq([base : Nat, size : Nat \ {0}])
    /\ \A t \in DOMAIN c.traps :
         Area(c.traps[t].base, c.traps[t].size) \subseteq VPages \ {c.device}

\* The ranges of the GIC are in the guest's memory as a whole or not at all.
ASSUME SoundAssumption ==
  \A c \in Sound : \A t \in DOMAIN c.traps :
    LET trapped == Area(c.traps[t].base, c.traps[t].size)
        mapped == Area(c.entry, c.nimage) \cup Area(c.entry, c.nram) \cup Area(c.dtb, c.ndtb)
    IN  trapped \subseteq mapped \/ trapped \cap mapped = {}

\* Mutant: levels 1 and 2 use the same bits.
PIndexRepeated(level, va) ==
  CASE level = 0 -> (va \div (Fan * Fan * Fan)) % Fan
    [] level = 1 -> (va \div (Fan * Fan)) % Fan
    [] level = 2 -> (va \div (Fan * Fan)) % Fan
    [] level = 3 -> va % Fan

\* PINDEX: nine bits of the address for each level.
PIndex(level, va) ==
  CASE level = 0 -> (va \div (Fan * Fan * Fan)) % Fan
    [] level = 1 -> (va \div (Fan * Fan)) % Fan
    [] level = 2 -> (va \div Fan) % Fan
    [] level = 3 -> va % Fan

VARIABLES
  mem,          \* the words of the pages of the pool
  freelist,     \* pages.freelist
  vttbr,        \* vm->vttbr
  cfg,          \* PHYEND, vm_config, and the ranges create_vgic_dist traps
  pc,           \* what the boot core does next
  p,            \* the counter of the loop it is in, in pages
  trap,         \* which range create_mmio_trap works on
  page,         \* the page it has allocated and not yet mapped
  walk          \* the arguments of page_walk, and where it stands

vars == <<mem, freelist, vttbr, cfg, pc, p, trap, page, walk>>

(* The words of a page.                                                    *)
Zero == [kind |-> "zero", to |-> Null]
Link(next) == [kind |-> "link", to |-> next]
Table(pa) == [kind |-> "table", to |-> pa]
PageDesc(pa) == [kind |-> "page", to |-> pa]
Data(what, n) == [kind |-> what, to |-> n]

Cleared == [i \in Idx |-> Zero]
Filled(what, n) == [i \in Idx |-> Data(what, n)]

NoWalk == [va |-> 0, pgt |-> Null, level |-> 0, alloc |-> FALSE, ret |-> "none"]

Init ==
  /\ mem = [q \in Pages |-> Cleared]
  /\ freelist = Null
  /\ vttbr = Null
  /\ cfg \in Configs
  /\ pc = "kalloc_init"
  /\ p = 1
  /\ trap = 1
  /\ page = Null
  /\ walk = NoWalk

-----------------------------------------------------------------------------
(* The page allocator.  The link is the first word of a free page.         *)

Free(pg, m) ==
  /\ mem' = [m EXCEPT ![pg] = [Cleared EXCEPT ![0] = Link(freelist)]]
  /\ freelist' = pg

\* Mutant: the page keeps its link.
ZeroedNot(pg) == mem

\* alloc_one_page takes the page off the list; the caller says what memory
\* looks like afterwards, starting from the page set to zero.
Take(pg) ==
  /\ pg = freelist /\ pg # Null
  /\ freelist' = mem[pg][0].to
Zeroed(pg) == [mem EXCEPT ![pg] = Cleared]

\* alloc_one_page returns NULL, still holding the lock: every caller aborts.
Exhausted == freelist = Null

\* Mutant: the loop runs up to and including PHYEND.
KallocInitOneMore ==
  /\ pc = "kalloc_init"
  /\ IF p <= cfg.npages + 1
     THEN Free(p, mem) /\ p' = p + 1 /\ UNCHANGED pc
     ELSE pc' = "vttbr" /\ p' = 0 /\ UNCHANGED <<mem, freelist>>
  /\ UNCHANGED <<vttbr, cfg, trap, page, walk>>

KallocInit ==
  /\ pc = "kalloc_init"
  /\ IF p <= cfg.npages
     THEN Free(p, mem) /\ p' = p + 1 /\ UNCHANGED pc
     ELSE pc' = "vttbr" /\ p' = 0 /\ UNCHANGED <<mem, freelist>>
  /\ UNCHANGED <<vttbr, cfg, trap, page, walk>>

Abort ==
  /\ pc' = "abort"
  /\ UNCHANGED <<mem, freelist, vttbr, cfg, p, trap, page, walk>>

AllocVttbr ==
  /\ pc = "vttbr"
  /\ \/ /\ Exhausted /\ Abort
     \/ /\ \E pg \in Pages : Take(pg) /\ mem' = Zeroed(pg) /\ vttbr' = pg
        /\ pc' = "memory"
        /\ UNCHANGED <<cfg, p, trap, page, walk>>

-----------------------------------------------------------------------------
(* page_walk                                                               *)

Call(va, alloc, ret) ==
  /\ walk' = [va |-> va, pgt |-> vttbr, level |-> 0, alloc |-> alloc, ret |-> ret]
  /\ pc' = "walk"

Entry == mem[walk.pgt][PIndex(walk.level, walk.va)]

WalkDown ==
  /\ pc = "walk" /\ walk.level < 3
  /\ Entry.kind = "table"
  /\ walk' = [walk EXCEPT !.pgt = Entry.to, !.level = @ + 1]
  /\ UNCHANGED <<mem, freelist, vttbr, cfg, pc, p, trap, page>>

\* Mutant: the new table is not entered in its parent.
EnterNothing(m, pg) == m

\* The new table is entered in its parent.
EnterTable(m, pg) ==
  [m EXCEPT ![walk.pgt][PIndex(walk.level, walk.va)] = Table(pg)]

WalkAlloc ==
  /\ pc = "walk" /\ walk.level < 3 /\ walk.alloc
  /\ Entry.kind # "table"
  /\ \/ Exhausted /\ Abort
     \/ \E pg \in Pages :
          /\ Take(pg)
          /\ mem' = EnterTable(Zeroed(pg), pg)
          /\ walk' = [walk EXCEPT !.pgt = pg, !.level = @ + 1]
          /\ UNCHANGED <<vttbr, cfg, pc, p, trap, page>>

\* page_walk returns NULL.  create_mmio_trap tests that, and ipa_to_pa makes
\* copy_to_ipa abort; page_unmap does not test it.
WalkMissing ==
  /\ pc = "walk" /\ walk.level < 3 /\ ~walk.alloc
  /\ Entry.kind # "table"
  /\ pc' = CASE walk.ret = "probe" -> "register"
             [] walk.ret = "copy"  -> "abort"
             [] walk.ret = "unmap" -> "null_pte"
  /\ UNCHANGED <<mem, freelist, vttbr, cfg, p, trap, page, walk>>

\* page_walk returns the level 3 entry.
Found(ret) == pc = "walk" /\ walk.level = 3 /\ walk.ret = ret

SetEntry(word) == [mem EXCEPT ![walk.pgt][PIndex(3, walk.va)] = word]

-----------------------------------------------------------------------------
(* do_memory_mapping and do_device_mapping                                 *)

\* Image pages first, then zeroed pages up to ram_size.
MapMemory ==
  /\ pc = "memory"
  /\ p < cfg.nimage \/ p < cfg.nram
  /\ \/ Exhausted /\ Abort
     \/ \E pg \in Pages :
          /\ Take(pg)
          /\ mem' = IF p < cfg.nimage THEN [Zeroed(pg) EXCEPT ![pg] = Filled("image", p)] ELSE Zeroed(pg)
          /\ page' = pg
          /\ Call(cfg.entry + p, TRUE, "memory")
          /\ UNCHANGED <<vttbr, cfg, p, trap>>

MemoryDone ==
  /\ pc = "memory"
  /\ ~(p < cfg.nimage \/ p < cfg.nram)
  /\ pc' = "dtb" /\ p' = 0
  /\ UNCHANGED <<mem, freelist, vttbr, cfg, trap, page, walk>>

MapDtb ==
  /\ pc = "dtb"
  /\ p < cfg.ndtb
  /\ \/ Exhausted /\ Abort
     \/ \E pg \in Pages :
          /\ Take(pg)
          /\ mem' = [Zeroed(pg) EXCEPT ![pg] = Filled("dtb", p)]
          /\ page' = pg
          /\ Call(cfg.dtb + p, TRUE, "dtb")
          /\ UNCHANGED <<vttbr, cfg, p, trap>>

DtbDone ==
  /\ pc = "dtb"
  /\ ~(p < cfg.ndtb)
  /\ page' = Device
  /\ Call(cfg.device, TRUE, "device")
  /\ UNCHANGED <<mem, freelist, vttbr, cfg, p, trap>>

\* create_guest_mapping aborts with "Page table entry has been used", or it
\* writes the descriptor.  After a page of the dtb the whole rootfs is copied.
LeafUnused == Entry.kind # "page"

SetLeaf ==
  /\ \E ret \in {"memory", "dtb", "device"} : Found(ret)
  /\ \/ /\ ~LeafUnused /\ Abort
     \/ /\ LeafUnused
        /\ mem' = SetEntry(PageDesc(page))
        /\ page' = Null
        /\ CASE walk.ret = "memory" ->
                  pc' = "memory" /\ p' = p + 1 /\ UNCHANGED walk
             [] walk.ret = "dtb" ->
                  IF cfg.nrootfs = 0
                  THEN pc' = "dtb" /\ p' = p + 1 /\ UNCHANGED walk
                  ELSE Call(cfg.rootfs, FALSE, "copy") /\ UNCHANGED p
             [] walk.ret = "device" ->
                  pc' = "probe" /\ UNCHANGED <<p, walk>>
        /\ UNCHANGED <<freelist, vttbr, cfg, trap>>

\* copy_to_ipa: ipa_to_pa answers 0 for an empty entry, and the loop aborts.
CopyPage ==
  /\ Found("copy")
  /\ \/ Entry.to = Null /\ Abort
     \/ LET k == walk.va - cfg.rootfs IN
        /\ Entry.to # Null
        /\ mem' = [mem EXCEPT ![Entry.to] = Filled("rootfs", k)]
        /\ IF k + 1 < cfg.nrootfs
           THEN Call(walk.va + 1, FALSE, "copy") /\ UNCHANGED p
           ELSE pc' = "dtb" /\ p' = p + 1 /\ UNCHANGED walk
        /\ UNCHANGED <<freelist, vttbr, cfg, trap, page>>

-----------------------------------------------------------------------------
(* create_mmio_trap                                                        *)

TrapRange(t) == cfg.traps[t]

Probe ==
  /\ pc = "probe"
  /\ IF trap <= Len(cfg.traps)
     THEN Call(TrapRange(trap).base, FALSE, "probe")
     ELSE pc' = "done" /\ UNCHANGED walk
  /\ p' = 0
  /\ UNCHANGED <<mem, freelist, vttbr, cfg, trap, page>>

\* The table of the first page exists, whatever its entry: page_unmap.
ProbeFound ==
  /\ Found("probe")
  /\ Call(walk.va, FALSE, "unmap")
  /\ UNCHANGED <<mem, freelist, vttbr, cfg, p, trap, page>>

\* Mutant: the entry is left in place.
EntryLeft == mem

\* page_unmap: "Page already unmapped", or the page is freed.
EntryCleared == SetEntry(Zero)

Unmap ==
  /\ Found("unmap")
  /\ \/ Entry = Zero /\ Abort
     \/ /\ Entry # Zero
        /\ Free(Entry.to, EntryCleared)
        /\ p' = p + 1
        /\ IF p + 1 < TrapRange(trap).size
           THEN Call(walk.va + 1, FALSE, "unmap")
           ELSE pc' = "register" /\ UNCHANGED walk
        /\ UNCHANGED <<vttbr, cfg, trap, page>>

\* vmmio_handler_register and flush_tlb.
Register ==
  /\ pc = "register"
  /\ trap' = trap + 1
  /\ pc' = "probe"
  /\ UNCHANGED <<mem, freelist, vttbr, cfg, p, page, walk>>

-----------------------------------------------------------------------------
Next ==
  \/ KallocInit \/ AllocVttbr
  \/ WalkDown \/ WalkAlloc \/ WalkMissing
  \/ MapMemory \/ MemoryDone \/ MapDtb \/ DtbDone \/ SetLeaf \/ CopyPage
  \/ Probe \/ ProbeFound \/ Unmap \/ Register

Spec == Init /\ [][Next]_vars

\* The boot core executes its code.
FairSpec == Spec /\ WF_vars(Next)

-----------------------------------------------------------------------------
(* Properties                                                              *)

Kinds == {"zero", "link", "table", "page", "image", "dtb", "rootfs"}
Words == [kind : Kinds, to : Nat]
Pcs == {"kalloc_init", "vttbr", "memory", "walk", "dtb", "probe", "register",
        "done", "abort", "null_pte"}
Rets == {"none", "memory", "dtb", "copy", "device", "probe", "unmap"}

TypeOK ==
  /\ mem \in [Pages -> [Idx -> Words]]
  /\ freelist \in Pages \cup {Null}
  /\ vttbr \in Pages \cup {Null}
  /\ cfg \in Configs
  /\ pc \in Pcs
  /\ p \in Nat
  /\ trap \in Nat
  /\ page \in Pages \cup {Null, Device}
  /\ walk \in [va : Nat, pgt : Pages \cup {Null}, level : 0..3, alloc : BOOLEAN, ret : Rets]

\* The places that hold an address of a page: the words of memory, and the
\* variables freelist, vttbr and page.
Places == (Pages \X Idx) \cup ({Null} \X (1..3))
Target(w) ==
  IF w[1] = Null THEN <<freelist, vttbr, page>>[w[2]]
  ELSE IF mem[w[1]][w[2]].kind \in {"link", "table", "page"}
       THEN mem[w[1]][w[2]].to ELSE Null
InPool(pg) == pg <= cfg.npages /\ (pc = "kalloc_init" => pg < p)

\* Every page of the pool has exactly one owner: the free list, the tree of
\* tables, a descriptor of a guest page, or the boot core that has just
\* allocated it.  So no page is leaked, is free and used at a time, is a table
\* and guest memory at a time, or backs two pages of the guest.
OnePageOneOwner ==
  /\ \A pg \in Pages : InPool(pg) =>
       \E w \in Places : Target(w) = pg /\ \A v \in Places : Target(v) = pg => v = w
  /\ \A w \in Places : Target(w) \in Pages => InPool(Target(w))

(* Translation as the hardware does it.                                    *)
NextTable(t, level, va) ==
  IF t # Null /\ mem[t][PIndex(level, va)].kind = "table"
  THEN mem[t][PIndex(level, va)].to ELSE Null
LeafTable(va) == NextTable(NextTable(NextTable(vttbr, 0, va), 1, va), 2, va)
Leaf(va) == IF LeafTable(va) = Null THEN Zero ELSE mem[LeafTable(va)][PIndex(3, va)]
translation ==
  [va \in {v \in VPages : Leaf(v).kind = "page"} |-> Leaf(va).to]

\* The tables change the translation of one page at a time, never remap a
\* page that is mapped, and never map a page of the pool twice.
Ipa == INSTANCE IpaMap WITH
         PPages <- Pages \cup {Device}, Shared <- {Device}, map <- translation
ImplementsIpaMap == Ipa!Spec

(* The inductive invariant of the boot code.                               *)

\* The table of a level on the way to an address.
Node(level, va) ==
  CASE level = 0 -> vttbr
    [] level = 1 -> NextTable(vttbr, 0, va)
    [] level = 2 -> NextTable(NextTable(vttbr, 0, va), 1, va)
    [] level = 3 -> LeafTable(va)

\* What is in a place: a link of the free list, a table or a page.
Holds(w) ==
  IF w[1] = Null THEN <<"link", "table", "page">>[w[2]] ELSE mem[w[1]][w[2]].kind
FreePage(pg) ==
  /\ mem[pg][0].to \in Pages \cup {Null}
  /\ mem[pg] = [Cleared EXCEPT ![0] = Link(mem[pg][0].to)]
GuestPage(pg) == \A i \in Idx : mem[pg][i].kind \in {"zero", "image", "dtb", "rootfs"}

\* A page is what its owner takes it for: zero but for its link when it is
\* free, without addresses when it is or becomes the guest's.
OwnersAreRight ==
  \A w \in Places : Target(w) \in Pages =>
    /\ Holds(w) = "link" => FreePage(Target(w))
    /\ Holds(w) = "page" => GuestPage(Target(w))

\* Memory that kalloc_init has not reached is as it was.
OutsideUntouched == \A pg \in Pages : InPool(pg) \/ mem[pg] = Cleared

\* A table of levels 0 to 2 holds tables only, one of level 3 pages only.
TableWord(level, word) ==
  \/ word = Zero
  \/ level < 3 /\ word.to \in Pages /\ word = Table(word.to)
  \/ level = 3 /\ word.to \in Pages \cup {Device} /\ word = PageDesc(word.to)
TablesAreRight ==
  \A va \in VPages, level \in 0..3 :
    LET t == Node(level, va) IN
    t # Null => t \in Pages /\ \A i \in Idx : TableWord(level, mem[t][i])

\* page_walk stands where the tables lead it.
WalkOnPath ==
  pc = "walk" =>
    /\ walk.va \in VPages
    /\ walk.pgt = Node(walk.level, walk.va) /\ walk.pgt # Null
    /\ walk.ret # "none"
    /\ walk.alloc <=> walk.ret \in {"memory", "dtb", "device"}
    /\ walk.ret = "copy" => walk.va \in Area(cfg.rootfs, cfg.nrootfs)
    /\ walk.ret \in {"probe", "unmap"} =>
         /\ trap <= Len(cfg.traps)
         /\ walk.va = TrapRange(trap).base + p /\ p < TrapRange(trap).size

\* The page in hand, and the table of level 0.
InHand ==
  /\ pc = "walk" /\ walk.ret \in {"memory", "dtb"} => page \in Pages
  /\ pc = "walk" /\ walk.ret = "device" => page = Device /\ walk.va = cfg.device
  /\ ~(pc = "walk" /\ walk.ret \in {"memory", "dtb", "device"}) /\ pc # "abort" => page = Null
  /\ pc \in {"kalloc_init", "vttbr"} => vttbr = Null
  /\ vttbr = Null => pc \in {"kalloc_init", "vttbr", "abort"}
  /\ pc = "kalloc_init" => p \in 1..(cfg.npages + 1)
  /\ trap # 0

\* The UART is mapped at its own address only.
DeviceAtItsAddress ==
  \A va \in VPages : Leaf(va) = PageDesc(Device) => va = cfg.device

Structure ==
  /\ TypeOK
  /\ OnePageOneOwner
  /\ OwnersAreRight
  /\ OutsideUntouched
  /\ TablesAreRight
  /\ WalkOnPath
  /\ InHand
  /\ DeviceAtItsAddress

(* What the configuration asks for.                                       *)

Trapped(va) == \E t \in DOMAIN cfg.traps : va - TrapRange(t).base \in 0..(TrapRange(t).size - 1)
InRootfs(va) == cfg.ndtb > 0 /\ va - cfg.rootfs \in 0..(cfg.nrootfs - 1)
InImage(va) == va - cfg.entry \in 0..(cfg.nimage - 1)
InRam(va) == va - cfg.entry \in 0..(cfg.nram - 1)
InDtb(va) == va - cfg.dtb \in 0..(cfg.ndtb - 1)
Contents(va) ==
  CASE InRootfs(va) -> Filled("rootfs", va - cfg.rootfs)
    [] InImage(va) /\ ~InRootfs(va) -> Filled("image", va - cfg.entry)
    [] InDtb(va) /\ ~InRootfs(va) -> Filled("dtb", va - cfg.dtb)
    [] OTHER -> Cleared

(* How far the guest's memory is built, step by step.                      *)

\* What the boot core works on, inside page_walk too.
Stage == IF pc = "walk" THEN walk.ret ELSE pc
UartMapped == Stage \in {"probe", "unmap", "register", "done"}
Building == Stage \in {"memory", "dtb", "copy", "device"} \/ UartMapped

MemoryMapped(va) ==
  (InImage(va) \/ InRam(va)) /\ (Stage = "memory" => va - cfg.entry < p)
DtbMapped(va) ==
  /\ InDtb(va) /\ Stage # "memory"
  /\ Stage = "dtb" => va - cfg.dtb < p
  /\ Stage = "copy" => va - cfg.dtb <= p
Mapped(va) == MemoryMapped(va) \/ DtbMapped(va)
Copied(va) ==
  /\ InRootfs(va) /\ Stage # "memory"
  /\ Stage = "dtb" => p > 0
  /\ Stage = "copy" => p > 0 \/ va < walk.va
Removed(va) ==
  \E t \in DOMAIN cfg.traps :
    /\ va - TrapRange(t).base \in 0..(TrapRange(t).size - 1)
    /\ \/ t < trap
       \/ t = trap /\ Stage = "register"
       \/ t = trap /\ Stage = "unmap" /\ va - TrapRange(t).base < p
Written(va) ==
  IF Copied(va) THEN Filled("rootfs", va - cfg.rootfs)
  ELSE IF DtbMapped(va) THEN Filled("dtb", va - cfg.dtb)
  ELSE IF InImage(va) THEN Filled("image", va - cfg.entry)
  ELSE Cleared

\* A page that is mapped keeps its last-level table for ever, the rootfs is
\* copied to mapped pages only, and no page is mapped twice.
BuiltAt(va) ==
  /\ IF Removed(va) THEN Leaf(va) = Zero
     ELSE IF UartMapped /\ va = cfg.device THEN Leaf(va) = PageDesc(Device)
     ELSE IF Mapped(va)
          THEN Leaf(va).kind = "page" /\ Leaf(va).to \in Pages /\ mem[Leaf(va).to] = Written(va)
          ELSE Leaf(va) = Zero
  /\ Mapped(va) => Node(3, va) # Null
  /\ Copied(va) => Mapped(va)
  /\ ~(MemoryMapped(va) /\ DtbMapped(va))
Built == cfg \in Sound /\ Building => \A va \in VPages : BuiltAt(va)

\* The counters of the loops, and what is in the page in hand.
Counters ==
  /\ pc = "vttbr" => p = 0
  /\ Stage \in {"kalloc_init", "vttbr", "memory", "dtb", "copy", "device"} => trap = 1
  /\ Stage = "dtb" => p <= cfg.ndtb
  /\ pc = "walk" /\ walk.ret \in {"dtb", "copy"} => p < cfg.ndtb
  /\ pc = "walk" /\ walk.ret = "memory" =>
       /\ walk.va = cfg.entry + p
       /\ p < cfg.nimage \/ p < cfg.nram
       /\ mem[page] = IF p < cfg.nimage THEN Filled("image", p) ELSE Cleared
  /\ pc = "walk" /\ walk.ret = "dtb" =>
       walk.va = cfg.dtb + p /\ mem[page] = Filled("dtb", p)
  /\ pc = "walk" /\ walk.ret = "probe" => p = 0
  /\ pc = "done" => trap > Len(cfg.traps)

IInv == Structure /\ Built /\ Counters

\* When create_guest_vm is done with a sound configuration, the guest finds
\* its image, its zeroed memory, its device tree and its rootfs where vm_config
\* puts them and the UART at its own address, the GIC is not mapped, and
\* nothing else is.
GuestMemoryReady ==
  pc = "done" /\ cfg \in Sound =>
    \A va \in VPages :
      IF Trapped(va) THEN Leaf(va) = Zero
      ELSE IF va = cfg.device THEN Leaf(va) = PageDesc(Device)
      ELSE IF InImage(va) \/ InRam(va) \/ InDtb(va)
           THEN Leaf(va).kind = "page" /\ mem[Leaf(va).to] = Contents(va)
           ELSE Leaf(va) = Zero

\* With enough pages, and with the GIC's ranges either mapped or in last-level
\* tables of their own as the memory map has them, creating the VM ends and
\* none of the aborts of kalloc.c's and vmm.c's callers is reached.
BootCompletes == (cfg \in Sound) ~> (pc = "done")
=============================================================================
