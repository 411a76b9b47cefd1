# Xhyper in TLA+

Xhyper is a small type 1 hypervisor for ARMv8-A. It runs at EL2 on four cores
(`NCPU`), boots one virtual machine with two vCPUs (a Linux or the small program in
`guest/`), gives it stage 2 page tables, traps its accesses to the GICv3 distributor
and redistributors, forwards hardware interrupts to it through the GIC's list
registers, and lets its primary vCPU start the others by PSCI. This directory holds
TLA+ models of its components, TLC configurations that check them on small
instances, and TLAPS proofs for all instances. Paths below are relative to
`src/hypervisor/` unless they start with `guest/` or `test/`.

Contents: [inventory](#inventory), [modules](#modules-and-the-code),
[assumptions](#assumptions-about-the-machine), [runs](#what-the-runs-check),
[fairness](#fairness), [proofs](#what-is-proved), [findings](#findings),
[limits](#what-is-not-modelled), [plan](#plan).

## Inventory

### Components, their state and operations

| Component | State | Operations | Model |
|---|---|---|---|
| Spinlock (`src/spinlock.c`, `include/spinlock.h`) | `lock`, `coreid`, the cores' exclusive monitors | `arch_spinlock_init`, `arch_spin_lock`, `arch_spin_unlock`, `spin_check` | `SpinLock`, `AbstractLock` |
| Interrupt path (`src/el1_sync.c:171-187`, `src/vgicv3.c:56-97`, `src/gicv3.c`) | `used_lr`, `ICH_LR<n>_EL2`, pending and active bits of the GIC | `el1_irq_proc`, `virq_enter`, `alloc_lr`, `virq_inject`, `gic_create_lr` | `VirtIrq`, `IrqDelivery` |
| vCPUs and PSCI (`src/vcpu.c`, `src/vpsci.c`, `src/vector.S`, `src/el1_sync.c`, `src/main.c`) | `vcpus[]`, `vm->vcpus`, `tpidr_el2`, `ELR_EL2`, where each core is | `create_vcpu`, `start_vcpu`, `switch_vcpu`, `vpsci_cpu_on`, save, handle, restore | `Vcpu` |
| Page allocator, stage 2 (`src/kalloc.c`, `src/vmm.c`, `src/vm.c`) | free list, page contents, `vm->vttbr` | `kalloc_init`, `alloc_one_page`, `free_one_page`, `page_walk`, `create_guest_mapping`, `page_unmap`, `copy_to_ipa`, `create_mmio_trap`, `create_guest_vm` | `Stage2`, `IpaMap` |
| Slab allocator (`src/xmalloc.c`) | slices, free lists, counters | `xmalloc`, `xfree` | `XMalloc` |
| Virtual GIC and driver (`src/vgicv3.c:100-434`, `src/gicv3.c:230-345`) | configuration of every interrupt, enable and pending bits of the hardware | `vgicd_*`, `vgicr_*`, `gic_enable_int`, `gic_disable_int` | `Vgic` |
| MMIO dispatch (`src/vmmio.c`, `src/el1_sync.c:37-82`) | list of trapped ranges, the access in progress | `vmmio_handler_register`, `data_abort_handler`, `vmmio_handler` | `Vmmio`, `AtomicMmio` |
| Start-up of the GIC (`src/gicv3.c:94-238`, `src/main.c`, `guest/gicv3.c`, `guest/main.c`) | enable, pending and active bits, `GICD_CTLR`, `GICR_WAKER`, the CPU interfaces | `gic_v3_init`, `gic_percpu_init`, `irq_enable`, the guest's own start-up | `GicBoot` |
| System register traps (`src/el1_sync.c:84-99`) | none of its own | `vsysreg_handler` (SGIs) | `SendSgi` of `GicBoot` |
| UART (`src/pl011.c`, `guest/pl011.c`) | one receive and one transmit register, interrupt mask and raw interrupt | `pl011_init`, `pl011_putc`, `pl011_irq_handler` | `Uart` |
| Register contexts, vectors (`src/vector.S`, `guest/vector.S`) | general registers, `SPSR` | save and restore | planned (`ELR_EL2` and `tpidr_el2` are in `Vcpu`) |
| MMU registers, printing, strings, images, build | hardware registers, or none | | not modelled |

### How they interact

- *Calls.* At boot, core 0 runs `kalloc_init`, then `create_guest_vm`: memory mappings,
  the virtual distributor (`xmalloc`, and two trapped ranges, which unmaps pages and
  links nodes into `vm->vmmios`), vCPUs. Then every core only runs handlers.
- *Traps.* A vCPU never leaves the core of its number. A trap saves its context in
  `*tpidr_el2`, the handler works there, and the context is restored by `eret`.
- *Shared memory.* `vcpus[]` is written without a lock, by its own core and by the core
  that does a `CPU_ON`. The virtual distributor is shared under `vgic_dist->lock`; the
  allocators have locks of their own; printing has none.
- *Hardware.* Devices raise and withdraw interrupts at any time. The guest changes the
  list registers by acknowledging and completing virtual interrupts, unseen by
  the hypervisor, which keeps a copy of their state in `used_lr`. A guest's
  deactivation of a mapped interrupt deactivates the physical one.
- *Firmware.* PSCI `CPU_ON` goes on to the firmware, which powers a core or refuses. It leaves
  the GIC in a state that no code of the hypervisor chose.
- *Start-up.* A core initialises its part of the GIC while the guest of another core uses its own, and the
  guest of core 0 initialises the distributor once more, through the virtual one.

### What is hard, and what correct means

- *Spinlock*: two instructions take the lock (`ldxr`/`stxr`) and a third writes the owner.
  At most one core holds it; the checks of the owner abort nobody wrongly; while cores wait,
  one of them gets in.
- *Interrupt path*: three copies of the state of an interrupt (GIC, list register, `used_lr`) change at
  different times. No list register that is in use is overwritten, no interrupt sits in
  two, the physical active state is neither lost nor kept for ever, every interrupt
  reaches the guest, once for each time it is taken.
- *Start-up of the GIC*: interrupts are unmasked before the guest's context is loaded, and polling loops wait for
  the hardware. No interrupt comes at EL2, no core loses one to the initialisation of
  another, nothing that firmware left behind shuts an interrupt out, every core gets into its guest.
- *UART*: the device, the handler and two cores that print use its registers without a lock. A
  received character is echoed, and none is written to a full register, but for the windows between a test and what follows it.
- *vCPUs*: one core sets up the context of another. A powered core finds its vCPU
  ready with the right entry; a trap returns to the right instruction whatever other
  cores do; every core gets back to its guest.
- *Memory*: pages are at once list nodes, tables, guest memory. Every page has one owner; the tables
  denote a map that changes one page at a time; booting ends with exactly the configured memory.
- *Slab allocator*: objects do not overlap; the free lists and counters agree with the live
  objects; it fails only when nothing is left.
- *Virtual GIC*: the emulated configuration is the physical one; a vCPU does not
  disturb the private interrupts of another.
- *MMIO*: handlers of several vCPUs go over the bytes of registers at the same time, those of the distributor
  under a lock, those of the redistributor without. Every access is one access to the register at its address, returns, and
  changes no other register, on the failing paths too; it is atomic wherever all who reach the register use the lock.

`PROJECT.json` lists the individual hazards with their lines and the properties
that would catch them, and those that no property covers yet, with the reason.

## Modules and the code

Every action is one handler, or one step of it between two accesses to shared state.
`pc` names the place in the code. `PROJECT.json` "map" has the lines of each definition.
Operators with a comment that starts with "Mutant" are deliberate errors, used by no
action; putting one in the place of the operator that follows it must violate the property named in
"mutants".

- **AbstractLock** promises a user of a lock: out, waiting, in, dead; one core in.
- **SpinLock** is the code instruction by instruction. `monitor[c]` is the exclusive monitor; a
  store to the structure by another core disarms it. `stxr` fails without it and goes back to `ldxr`. A lock starts with owner
  -1, or, for `vgic_dist->lock`, which nobody initialises, with the 0 of its memory.
  `already_held` and `invalid_unlock` are the two aborts.
- **VirtIrq** is one core: vCPUs do not migrate, so cores share only the devices. `pend`
  and `act` are the physical states, `lrs` the list registers, `used` the bitmap `used_lr`. `Trap` ..
  `VirqInject` follow `el1_irq_proc`; `GuestAck`, `GuestService`, `GuestEoi` are the
  handler of `guest/main.c` with what the GIC does to list registers. Devices raise
  edge interrupts (SGIs) and level ones, of which some can be withdrawn.
- **IrqDelivery** promises the devices and the guest of one core: an interrupt that waits is taken, kept, acknowledged by
  the guest and completed, in this order, and not taken again before.
  `ImplementsDelivery` of `VirtIrq` maps it: `given` is what is in `el1_irq_proc` or pending in a list register,
  `serving` what the guest has acknowledged. Spurious entries are outside the mapping.
- **GicBoot** has the cores' way from power-on to the guest, one action per group of register writes or
  polling loop, with the enable, pending and active bits of one private interrupt per core and one SPI per distributor
  register. `Hyp` is the hypervisor's start-up, `GuestBoot` the guest's. Of the latter only
  `GICD_ICENABLER` and `GICD_ISENABLER` reach the GIC: the first, by finding 3, makes SPIs pending. `PowerOn`
  is `CPU_ON`; `SendSgi` is `vsysreg_handler`. `MCGicBoot` restricts what firmware leaves.
- **Uart** has the device (`Arrive`, `Drain`), the guest's start-up (`InitStep`, `IrqStep`), `pl011_putc` of three
  contexts (the loops of both vCPUs and the handler, which preempts the first) and the handler, one action per access to
  a register. The interrupt comes to it by the actions of `IrqDelivery`. `pl011_init` writes the bits of the line control register to the mask
  (`guest/pl011.c:74`), so the device holds one character. The guest asks for an edge-triggered interrupt, but `vgicd_write`
  drops `GICD_ICFGR`: it is a level. `raced` and `late` are history variables.
- **Vcpu** has all cores. Addresses are an entry point and a number of instructions, enough to tell
  a step too many or too few. `resume` is a history variable: where a vCPU is to run on. `CpuOnElr`, `CpuOnState` and `CpuOnSmc` are the three
  accesses of `vpsci_cpu_on`, between which other cores run.
- **IpaMap** promises a partial function from guest pages to physical pages, changed
  one page at a time, in which no pool page backs two guest pages.
- **Stage2** has memory as pages of `Fan` words; a word is zero, a link of the free
  list, a table or page descriptor, or data. The walk is one action per level. `MCStage2` gives VM configurations.
- **XMalloc** has one action per call, as the pool's lock covers a whole call. `link` is the first word of a
  free block. Its specification is `PoolSpec`; `BootSpec` is the order of allocations of `create_guest_vm`. `MCXMalloc` gives
  sizes. `Power` is the shift in the code's sizes, a recursive function.
- **Vgic** has an action per register access; registers are sets of bits. The distributor's register
  banks follow each other as in the hardware, so an address computed wrongly hits the register it hits in the code.
  A guest's read-modify-write takes two actions.
- **AtomicMmio** promises the guest that a load or store is one access to the register at its address. A `stored` register is
  accessed at one moment, a `bytewise` one a byte at a time, in any order; an `astray` access loads anything and stores
  in no register.
- **Vmmio** is an access from the data abort to the `eret`: the search in the list of ranges, the
  choice of a handler, the case of the offset, the loop over the bytes, the early returns and the unlock. `vgic_dist->lock` is an
  instance of `AbstractLock`, which `SpinLock` implements; `LockAborts` is its false report. `Gicd` and `Gicr` are the cases of
  the two devices for a `Layout`, which `MCVmmio` gives, `Config` is `vgic_irq_get`. `vgicr_read` and
  `vgicr_write` take no lock (labels `gicr`, `rload`, `rstore`), take the vCPU from the frame, and take the interrupt's number from
  the offset in the device: in frame 0 they reach the priorities of that vCPU, from frame 1 on the number leaves the
  arrays (`Astray`). The frame after the last passes the test of `src/vgicv3.c:322` and has no vCPU (`Astray`, or `NullVcpu`);
  the others are rejected. The mapping makes `Open` registers `bytewise`, the private priorities of the first frame's vCPU,
  and all others `stored`.

`LockAndPoolProofs` (about `SpinLock` and `XMalloc`), `VirtIrqProofs`, `VcpuProofs`, `Stage2Proofs`, `VgicProofs`,
`VmmioProofs`, `GicBootProofs` and `UartProofs` hold the theorems.

## Assumptions about the machine

- The MMU is off at EL2, memory is device memory there, and the accesses of a
  core are performed in order: steps of cores interleave.
- Exceptions mask interrupts at EL2, so a handler is not interrupted on its core.
- `abort()` waits for ever and keeps the locks of its core. It is a terminal label.
- The code is built with `-O0`, so the registers that `spinlock.c` changes without saying
  so to the compiler hold nothing.
- `xmalloc` gives the VM cleared memory: `blk_pool_init` clears the pool and nothing is freed. `vgic_irq_get` indexes `ppis` by
  the interrupt's number, 16 entries behind its start; the entries it uses lie in the rest of the 256 bytes of the block of a
  `vgicv3_cpu`, so they are as good as those meant.
- `xfree` has no caller in the repository; `XMalloc` checks it for clients that free
  an object at most once. `vcpu_alloc` never meets the end of `vcpus[]` with one VM.

## What the runs check

All runs are exhaustive. States are distinct states. `IInv` is the inductive invariant of a module: it contains
its `TypeOK` and the named invariants that the table does not repeat, of `SpinLock` `UnlockNeverAborts`, of `VirtIrq`
`OneRegisterEach`, of `Vcpu` `OwnVcpu` and `NeverNotReady`. `ListsAreRight` is that of `XMalloc`, with
`PoolTypeOK`; of a slice it says who cuts it and how far (`SlicesAreRight`), of an object that it has a large enough block
to itself (`BlocksAreRight`), of a free list which blocks it has (`ChainIsRight`), of the counters what they count (`CountIsRight`).

| Run | Bounds | Properties | States |
|---|---|---|---|
| `spinlock_safety` | 3 cores, both initial owners, any number of calls | `MutualExclusion`, `IInv`, `SomeoneGetsIn`, `ImplementsLock` | 1,789 |
| `spinlock_report` | 2 cores | `NoFalseReport`, violated | |
| `virtirq_safety` | 3 interrupts (edge, level, level that can be withdrawn), 3 list registers, 5 raises | `UsedMatchesHardware`, `ActiveAccounted`, `IInv`, `RegisterAvailable`, `NeverOverwritten`, `Delivered`, `ImplementsDelivery` | 129,575 |
| `vcpu_safety` | 4 cores, 3 vCPUs, 2 instructions from an entry | `WokenCoreIsSetUp`, `IInv`, `ResumesWhereExpected`, `ReachesGuest` | 295,418 |
| `stage2` | tables of 2 entries, 18 pages, about 860 configurations | `OnePageOneOwner`, `IInv`, `GuestMemoryReady`, `BootCompletes`, `ImplementsIpaMap` | 31,522 |
| `xmalloc_safety` | 2 slices of 8 bytes, 6 objects of 1 to 5 bytes | `ObjectsApart`, `ListsAreRight`, `FailsOnlyWhenFull` | 49,748 |
| `xmalloc_vm` | the real sizes | `ObjectsApart`, violated | |
| `vgic_safety` | 2 vCPUs, 2 private and 2 shared interrupts, banks of 3 registers | `ConfigIsHardware`, `IInv`, `PrivateStaysPrivate`, `UnmaskIsExact` | 425,984 |
| `vgic_disable` | the same | `DisableDisables`, violated | |
| `vmmio` | 2 vCPUs, a distributor of 6 registers, 4 frames of 4, words of 2 bytes | `IInv`, `ImplementsAtomicMmio`, `AccessReturns` | 190,151 |
| `gic_boot` | 2 cores, 3 interrupt registers, firmware leaves every interrupt enabled or not and active or not, all or none pending | `NoIrqAtEl2`, `ActiveIsServed`, `IInv`, `GuestsUndisturbed`, `CoreComesUp`, `PendingIsServed` | 33,040 |
| `uart` | none: one device, two cores | `StrandedOnlyInWindow`, `LossNeedsOverlap`, `IInv`, `EchoedUnlessStranded` | 891 |

Why the bounds are enough to make the interesting cases happen:

- *Spinlock.* Three cores: a holder, one between `ldxr` and `stxr`, and one that spins. The
  state is finite without any bound on the number of calls.
- *VirtIrq.* `MaxRaises` = 5 lets one interrupt come again while its last occurrence is in a list register
  and while others fill the rest; a spurious entry takes a register too. With a
  spurious entry the three registers run out, which `RegisterAvailable` says is the only way.
- *Vcpu.* Three vCPUs: the boot one and two started by each other or by it; the fourth core belongs to no
  vCPU and stays off. Two instructions tell a step over a trapped instruction from none and from two.
- *Stage2.* All four levels, with tables that are shared and not; `AnyConfigs`
  adds too few pages, overlapping areas and ranges mapped only in part. In those the safety properties hold up to the abort.
- *XMalloc.* Each type is exhausted, borrows from the next type, and fails; a size above
  half a slice has no type.
- *Vgic.* `Bank` = 3 with two implemented registers leaves room for one that is not implemented.
- *Vmmio.* One register of each kind in each device that has it (priorities: private, shared, behind the array), a frame for each
  vCPU, the one without a vCPU and a rejected one, an address between the devices, and the
  zero register; a word of two bytes is torn by the first interleaving. Both vCPUs use both frames. `Garbage` is what boot leaves, zero; the proof is for any.
- *GicBoot.* Two cores: the one that initialises the distributor and one that starts while the first runs its guest.
  Two SPIs are one whose register is done and one whose register is not; the guest enables only one of them.
- *Uart.* The state is that of the code: one character is all the device holds.

`CHECK_DEADLOCK FALSE` is set where the system really stops: cores that have aborted,
devices that raise no more interrupts, a boot that is done, a pool that is exhausted.

## Fairness

- A core inside the hypervisor executes its instructions (`WF` of the hypervisor's steps of each core): nothing
  preempts it, interrupts being masked. In `SpinLock` a core need not call the lock, and in `Vmmio` and `Vcpu` a guest
  need not do anything: fairness is on the hypervisor's steps only.
- The lock promises progress of some core, not of each (`SomeoneGetsIn`): the code has no
  queue. `AccessReturns` of `Vmmio` leaves out a core that waits for another that is inside a handler.
- In `VirtIrq` the hardware takes a pending interrupt (`WF(Trap)`), and the guest's handler runs with
  interrupts unmasked, as `guest/main.c` does. `Delivered` excludes interrupts their device may withdraw.
- `GicBoot`: `GICD_CTLR.RWP` and `ChildrenAsleep` change in the end (`WF` of the hardware's two answers), a core executes its start-up, a
  signalled interrupt is taken and its handler completes. Nobody need send an SGI, raise a line or power a core.
- `Uart`: the transmitter sends what it holds, the guest's start-up and handler run, and a pending interrupt is taken (what
  `Delivered` shows of `VirtIrq`). The handler's wait for room is strongly fair: the other core pauses for 100 million
  iterations after each line (`guest/main.c:51`), so it does not refill the register every time. Nobody need print or type.

## What is proved

TLAPS checks these for every value of the constants that satisfies the named
assumptions of the module.

- **LockAndPoolProofs**, the lock, any number of cores: `TypeCorrect`, `LockExcludes`
  (`MutualExclusion`), `UnlockSucceeds` (`UnlockNeverAborts`), `Refinement`
  (`ImplementsLock`). Mutual exclusion is not inductive: between `ldxr` and
  `stxr` nothing but the monitor tells that the lock is free. `IInv` adds that an armed
  monitor there witnesses `lock = 0` (`MonitorSound`), that the lock word is 1 exactly while
  someone holds it (`LockWord`), and that the owner is right from its store on (`OwnerStable`). The refinement
  maps `pc` to the mode; the steps that change the mode are `Call`, `StoreExclusive`, `CheckId` when it
  aborts, and `Clear`.
- **LockAndPoolProofs**, the slab allocator, any slices, word and objects: `ListsRight` (`ListsAreRight`), `Apart` (`ObjectsApart`,
  for clients that access no more of an object than they asked for), `FailsFull` (`FailsOnlyWhenFull`). A call is one step because it runs
  under the lock, which `LockExcludes` is about.

  *Blocks.* Blocks cannot overlap because a block's size divides that of a slice (`PowerDivides`) and each block lies at a multiple of its
  size in its slice (`BlocksApart`). A slice's type never changes, so neither does the size of a block (`KeepBlocks`).

  *Free lists.* A list is what the links give from its head on. Taking the first block (`PopChain`), putting one before the others
  (`PushChain`) and writing to a block that is not in it (`KeepChain`) do to the list what they should; which blocks
  those are needs that no list has a block twice, that the lists of two types have none in common, and that no
  object has one of them.

  *Counters.* The blocks cut from the slices of a type are the free ones and the occupied ones. A type that cannot serve has cut its
  slices to the end and has an empty list, so all its blocks are occupied (`NotServing`); a failing request has met all types
  from its own on (`NoneServes`), and smaller types have blocks that are too small, or no slice.

  The powers of two and the lists are recursive functions. The induction over them goes through least elements
  (`Least`, `Induct`), from the library's fact that the order of the numbers is well-founded; `Iterate` gives the recursion theorem they
  need. No assumption on powers of two is made.
- **VirtIrqProofs**, any interrupts, any number of list registers: `UsedIsRight`,
  `NoDuplicateEntry`, `ActiveIsAccounted`, `NoInterruptLost`, and `EnoughRegisters`
  under `Cardinality(Irqs) <= NumLRs`. That no interrupt is in two registers follows
  only because an interrupt that is acknowledged was not active, and is active from then to its deactivation
  (`ActiveAccounted`); the guest's side needs `GuestInService`. `EnoughRegisters`
  is the pigeonhole principle on the map from list registers to interrupts. `Refinement`
  (`ImplementsDelivery`) shows step by step that only the trap's acknowledge, the guest's acknowledge and its completion are
  steps of `IrqDelivery`, besides the devices'; that `given` does not change when an interrupt moves into a list register or when
  another register is freed is `SameView`, from `OneRegisterEach` and `ActiveAccounted`.
- **VcpuProofs**, any number of cores and vCPUs: `TypeCorrect`, `OwnsVcpu`,
  `StartSucceeds`, `SetUpBeforeWake`, `ReturnsCorrectly`. They assume
  `StartsOnce`: the guest starts each of its secondary vCPUs once, as Linux and the guest program do (with
  `Repeat` a second `CPU_ON` overwrites the return address of a running vCPU). `IInv` says that one core at most is starting
  another, which is off meanwhile (`OneStarter`), what it has written so far (`Handover`),
  where each saved address leads (`ReturnAddress`), and that boot comes first (`BootOrder`).

- **VmmioProofs**, any number of vCPUs and frames, any layout of the devices, any ranges that have no address in common, words of any
  number of bytes: `TypeCorrect`, `Invariance` (`IInv`), `Refinement` (`ImplementsAtomicMmio`).
  `IInv` says that the list is complete when a vCPU runs (`ListComplete`), that a search has passed no node
  that matches (`Searched`), that one core is inside the lock (`Locked`), and which bytes a loop under the lock has copied
  (`Progress`). Under the lock a load takes effect when its word is complete, a store when its loop starts: the mapping
  shows a register that is being stored as stored, which the lock makes unobservable (`OnlyOneStores`). That it does needs
  that no handler without the lock reaches the register: the redistributor's reach only `Open` ones (`GicrFits`). Of the layout this
  needs what `LayoutAssumption` says: priorities are the private ones of a frame, and a frame is longer than the array of SPIs. Loops over
  `Open` registers go byte by byte in `AtomicMmio` too (`OpenByteSimulates`). The lock here is
  `AbstractLock`; `LockAndPoolProofs` shows that the code implements it.

- **GicBootProofs**, any cores, any number of registers, any state left by firmware: `TypeCorrect`, `Invariance` (`IInv`),
  `QuietAtEl2` (`NoIrqAtEl2`), `ActiveAreServed` (`ActiveIsServed`), `BootsApart` (`GuestsUndisturbed`). That nothing is signalled
  before the `eret` is not inductive. `QuietUntilGuest` says which interrupts are disabled and inactive at each
  label of the start-up: those of the registers the loop has passed, then all SPIs, then the core's own too; `BootOrder` says
  which labels a secondary core never has, and that `EOImode` is split before an interrupt can be taken.
- **UartProofs**: `TypeCorrect`, `Invariance` (`IInv`), `Stranding` (`StrandedOnlyInWindow`), `Overlap` (`LossNeedsOverlap`),
  `UsesDelivery` (the UART's interrupt moves only in steps of `IrqDelivery`, the specification `VirtIrq` implements).
  `IInv` adds that a handler runs only in the final loop, that the receive interrupt is
  unmasked from the end of `pl011_init` on, and that a character unread at the clear came late.
- **VgicProofs**, any number of vCPUs, any number of interrupts, registers of any width: `TypeCorrect`, `Invariance`
  (`IInv`), `ConfigMatches` (`ConfigIsHardware`), `PrivateKept` (`PrivateStaysPrivate`), `UnmaskExact` (`UnmaskIsExact`). They rest on
  arithmetic: a number is a register and a bit, the private interrupts are register 0, and the numbers computed for
  `GICD_ICENABLER` lie behind the last interrupt (finding 3). `UnmaskIsExact` spans the two steps of a guest's
  read-modify-write: it needs `CopyIsCurrent`, that the copy a vCPU has read of its private enable register is still
  that register, whatever other vCPUs did since.
- **Stage2Proofs**, tables of any number of entries, any number of pages, any configuration: `TypeCorrect`, `Invariance`
  (`IInv`), `OneOwner` (`OnePageOneOwner`), `MemoryReady` (`GuestMemoryReady`), `TablesImplementMap` (`ImplementsIpaMap`).
  The argument has two halves.

  *Structure.* `OnePageOneOwner` counts the places that hold the address of a page. An allocation and a release only move
  addresses around a circle of places (the free list's head, the link of the page, the new place), which keeps the owner of each
  page one (`OwnersRotate`). It is not inductive alone: a free page must hold its link and nothing else, a page of
  the guest no address (`OwnersAreRight`), and a page `kalloc_init` has not reached nothing (`OutsideUntouched`). `TablesAreRight`
  says what a table of each level holds. From one owner for each follows that the tables are a tree, so a table has one level and one
  path (`NodesDistinct`) and a word written to a table changes the translation of one address
  (`EntriesDistinct`). Entering a new, zeroed table changes none (`TableEntered`). `WalkOnPath` and `InHand` say where
  `page_walk` stands and what its caller holds. This half needs nothing of the configuration but `ConfigAssumption`: areas inside the
  address space, and a UART outside the ranges of the GIC (`include/layout.h`); too few pages and overlaps are included.

  *Contents.* `Built` is the loop invariant of `create_guest_vm`: at each address, from the counters of the loops, whether it is mapped, to
  what, with what in it. `Counters` bounds the counters and says what is in the page in hand. The steps of `page_walk` change none of it; each
  other step changes it at one address. The half is about configurations in `Sound`. All it uses of them is `SoundAssumption`: a range
  that traps is mapped as a whole or not at all. It is needed because `create_mmio_trap` looks at the first page of a range only
  (`src/vm.c:38`). `main.c` satisfies it: its memory starts at `0x80000000`, and the ranges are below `0x08120000`.

Only model-checked is liveness (`SomeoneGetsIn`, `Delivered`, `ReachesGuest`, `BootCompletes`, `AccessReturns`, `CoreComesUp`,
`PendingIsServed`, `EchoedUnlessStranded`): it needs fairness, out of the prover's reach. For `BootCompletes` this means that
`MemoryReady` speaks of the boots that get to the end, and the run shows that those of a sound configuration with enough
pages do. Every other property of a passing run is stated by a theorem.

## Findings

Three runs show that the code does something else than its text says.

1. `spinlock_report`: a core that held the lock before and calls `arch_spin_lock` between another core's `stxr`
   and its store of the owner reads its own number and aborts with "alredy held", though another core holds it.
   Owner 0 of the uninitialised `vgic_dist->lock` makes it possible at the first contention.
2. `xmalloc_vm`: the array of SPI configurations is allocated with its length in
   bytes, though an element has four; it overlaps the virtual distributor.
3. `vgic_disable`: GICD_ICENABLER computes interrupt numbers from GICD_ISENABLER(0); the
   disabled interrupt stays enabled and is made pending.

The models also have behaviour that a reader of the code should know and that no run is devoted to:

- The acknowledge's result is not compared with 1023 (`src/el1_sync.c:179`): an interrupt withdrawn in time is injected as
  interrupt 1023 and takes a list register until the next trap. `RegisterAvailable` shows what that costs.
- `CPU_ON` writes the context of its target before the firmware is asked whether it runs (`src/vpsci.c:28`); a running target
  that is in a trap returns to the new entry (`Vcpu` with `Repeat`, against `ReturnsCorrectly`, which assumes `StartsOnce`).
- A character that arrives in the window of `guest/pl011.c:64` is never read. It fills the only register,
  so no later one arrives either: the input stops. `StrandedOnlyInWindow` shows that there is no other way to this.
- The guest's disabling of all SPIs at its start makes them pending (finding 3): its handler is called once for the UART before a
  character has come.

- The redistributor's handlers take no lock (`src/vgicv3.c:363`, `:419`): two vCPUs that use the first frame, or one that does while
  vCPU 0 uses `GICD_IPRIORITYR`, tear a priority register. `ImplementsAtomicMmio` says that these are the only registers that can be
  torn, and that each byte is still stored once.
- In every other frame the priorities are not reachable at all: the number contains the offset of the frame (`src/vgicv3.c:365`), so a guest's
  setting of them is lost and written elsewhere. Frame `nvcpu` is let through to a NULL vCPU (`src/vgicv3.c:322`). Linux, which looks through the
  frames' `GICR_TYPER` and `GICR_PIDR2`, and its secondary vCPUs, which set their priorities, may come by both. The same
  holds for `GICD_IPRIORITYR` of an interrupt the distributor does not have. What such stores hit is not modelled.
- A read of `GICD_ISENABLER` starts from an uninitialised `isen` (`src/vgicv3.c:169`): a guest that unmasks an SPI by reading and writing back may
  enable others. `UnmaskIsExact` is about private interrupts for this reason, and `ConfigIsHardware` is about the configuration, not about what is read.

Each model goes on with what the code does: `SpinLock` and `Vmmio` have the false report,
`VirtIrq` has spurious entries, `Vgic`, `GicBoot` and `Uart` the misplaced write. `Vcpu` and `XMalloc` take the guests
and sizes for which the component works, and the overlap of 2 is not carried into `Vgic`.

## What is not modelled

- The general registers of a context, `SPSR`, stacks, and the guest program's vectors (planned).
- The value of an SGI: `GicBoot` has its targets, `VirtIrq` takes an SGI as an edge interrupt of its core.
- Interrupts at EL2 (`el2_irq_proc`): `NoIrqAtEl2` shows that none comes.
- Priorities, affinity (`GICD_ITARGETSR` has no effect under affinity routing), memory attributes, system
  registers that configure the MMU: constant values no property tells apart.
- Accesses that are not one aligned register. `Vgic` has each vCPU at its own frame only; other frames are in `Vmmio`, which has
  priorities, identities, constants and offsets without a handler. Enable and control registers are in `Vgic`.
- What is hit through a wrong pointer: a store behind the arrays, a load into the zero register, which the device writes to address 0.
- `GICR_CTLR.RWP`: the code does not wait after `GICR_ICENABLER0` (`src/gicv3.c:162`), and `GicBoot` takes the disabling as immediate.
- The hypervisor's own messages on the UART, one more context that writes the transmit register between another's test and its write.
- Output, formatting, logging, string functions, the images, the linker script, and `test/`, which prints tables to be read.

## Plan

Done, in the order of importance: the lock every shared structure relies on; the interrupt path;
vCPUs; memory; the slab allocator; the virtual GIC; MMIO dispatch on top of lock and registers; what forwarding
promises, and the UART on top of that; the start-up of all cores with the GIC.

Next model: `TrapContext`, save and restore of `vector.S` register by register, with the context identifier of
`CPU_ON`, the register of an SGI and the guest's vector. Property: what a trap leaves unchanged.

Next theorem: that `create_guest_vm` never runs out of pages, from a count of the tables a configuration needs, which is the safety half
of `BootCompletes`.
