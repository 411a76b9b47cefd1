------------------------------- MODULE GicBoot -------------------------------
(***************************************************************************)
(* How the cores bring up the physical GIC (gic_v3_init, gic_percpu_init   *)
(* of gicv3.c, called by main.c) and what the guest's own initialisation   *)
(* (guest/gicv3.c, guest/main.c) does to it through the virtual GIC, while *)
(* other cores already run the guest, take interrupts and send SGIs.       *)
(* Firmware leaves the GIC in any state.  One SGI or PPI stands for those  *)
(* of a core and one SPI for those of a register; SPIs go to core Primary. *)
(* What is forwarded to the guest, and how, is VirtIrq's; here an          *)
(* interrupt is served from its trap to the guest's completion.            *)
(***************************************************************************)
EXTENDS Integers

CONSTANTS
  Cores,
  Primary,      \* core 0
  NRegs,        \* nr_regs of gic_dist_init: register 0 is the private one
  Uart          \* the register of UART_IRQ_LINE

ASSUME BootAssumption ==
  /\ Primary \in Cores
  /\ NRegs \in Nat
  /\ Uart \in 1..(NRegs - 1)

\* An interrupt: the core it goes to and its register.
Private(c) == <<c, 0>>
Spi(r) == <<Primary, r>>
Spis == {Spi(r) : r \in 1..(NRegs - 1)}
Irqs == {Private(c) : c \in Cores} \cup Spis

VARIABLES
  group1,       \* GICD_IGROUPR, GICR_IGROUPR0: signalled as IRQs
  enabled,
  active,
  latch,        \* the pending bits
  line,         \* level lines of devices that are up, pending as long as they are
  dist,         \* the groups enabled in GICD_CTLR
  rwp,          \* GICD_CTLR.RWP
  redist,       \* GICR_WAKER of each core
  split,        \* ICC_CTLR_EL1.EOImode
  igrpen,       \* ICC_IGRPEN1_EL1
  pc,           \* what each core does next
  reg,          \* the loops over the registers of the distributor
  served        \* interrupts the guest has not completed

state == <<group1, enabled, active, latch>>
dev == <<line, served>>
cpuif == <<split, igrpen>>
vars == <<state, dev, dist, rwp, redist, cpuif, pc, reg>>

Guest == {"g_dist", "g_unmask", "g_irq_on", "run"}
\* Labels from the end of a core's own initialisation of its private interrupts.
Ready == {"icc", "irq_on", "setup"} \cup Guest

Init ==
  /\ group1 = {} /\ dist \in BOOLEAN /\ rwp = FALSE
  /\ enabled \in SUBSET Irqs /\ active \in SUBSET Irqs /\ latch \in SUBSET Irqs
  /\ line = {} /\ served = {}
  /\ redist \in [Cores -> {"asleep", "awake"}]
  /\ split = [c \in Cores |-> FALSE]
  /\ igrpen = [c \in Cores |-> FALSE]
  /\ pc = [c \in Cores |-> IF c = Primary THEN "dist_off" ELSE "off"]
  /\ reg = 1

Goto(c, from, to) == pc[c] = from /\ pc' = [pc EXCEPT ![c] = to]

-----------------------------------------------------------------------------
(* The hardware                                                            *)

RwpDone ==
  /\ rwp /\ rwp' = FALSE
  /\ UNCHANGED <<state, dev, dist, redist, cpuif, pc, reg>>

ChildrenWake(c) ==
  /\ redist[c] = "waking"
  /\ redist' = [redist EXCEPT ![c] = "awake"]
  /\ UNCHANGED <<state, dev, dist, rwp, cpuif, pc, reg>>

LineUp(i) ==
  /\ i \notin line
  /\ line' = line \cup {i}
  /\ UNCHANGED <<state, served, dist, rwp, redist, cpuif, pc, reg>>

Pending(i) == i \in latch \cup line

\* The interrupt of core i[1] that its interface signals.
Signalled(i) ==
  /\ Pending(i) /\ i \in (enabled \cap group1) \ active
  /\ dist /\ redist[i[1]] = "awake" /\ igrpen[i[1]]

-----------------------------------------------------------------------------
(* gic_dist_init, on core Primary                                          *)

DistOff(c) ==
  /\ Goto(c, "dist_off", "rwp1")
  /\ dist' = FALSE /\ rwp' = TRUE
  /\ reg' = 1
  /\ UNCHANGED <<state, dev, redist, cpuif>>

\* gic_dist_wait_for_rwp
AwaitRwp(c) ==
  /\ ~rwp
  /\ Goto(c, "rwp1", "loop") \/ Goto(c, "rwp3", "wake")
  /\ UNCHANGED <<state, dev, dist, rwp, redist, cpuif, reg>>

\* Mutant: GICD_ICACTIVER is not written.
InitSpisActive(c) ==
  /\ reg < NRegs /\ Goto(c, "loop", "loop")
  /\ group1' = group1 \cup {Spi(reg)}
  /\ enabled' = enabled \ {Spi(reg)}
  /\ latch' = latch \ {Spi(reg)}
  /\ rwp' = TRUE /\ reg' = reg + 1
  /\ UNCHANGED <<active, dev, dist, redist, cpuif>>

\* GICD_IGROUPR, GICD_ICENABLER, GICD_ICACTIVER and GICD_ICPENDR of a register.
InitSpis(c) ==
  /\ reg < NRegs /\ Goto(c, "loop", "loop")
  /\ group1' = group1 \cup {Spi(reg)}
  /\ enabled' = enabled \ {Spi(reg)}
  /\ active' = active \ {Spi(reg)}
  /\ latch' = latch \ {Spi(reg)}
  /\ rwp' = TRUE /\ reg' = reg + 1
  /\ UNCHANGED <<dev, dist, redist, cpuif>>

DistOn(c) ==
  /\ reg = NRegs /\ ~rwp /\ Goto(c, "loop", "rwp3")
  /\ dist' = TRUE /\ rwp' = TRUE
  /\ reg' = 1
  /\ UNCHANGED <<state, dev, redist, cpuif>>

-----------------------------------------------------------------------------
(* gic_percpu_init and the rest of hyper_init_primary or _secondary        *)

\* Mutant: the frame of core 0 is woken.
WakeFirst(c) ==
  /\ Goto(c, "wake", "asleep")
  /\ redist' = [redist EXCEPT ![Primary] = IF @ = "asleep" THEN "waking" ELSE @]
  /\ UNCHANGED <<state, dev, dist, rwp, cpuif, reg>>

Wake(c) ==
  /\ Goto(c, "wake", "asleep")
  /\ redist' = [redist EXCEPT ![c] = IF @ = "asleep" THEN "waking" ELSE @]
  /\ UNCHANGED <<state, dev, dist, rwp, cpuif, reg>>

AwaitChildren(c) ==
  /\ redist[c] = "awake" /\ Goto(c, "asleep", "private")
  /\ UNCHANGED <<state, dev, dist, rwp, redist, cpuif, reg>>

\* Mutant: GICR_ICENABLER0 is not written.
InitPrivateEnabled(c) ==
  /\ Goto(c, "private", "icc")
  /\ group1' = group1 \cup {Private(c)}
  /\ active' = active \ {Private(c)}
  /\ latch' = latch \ {Private(c)}
  /\ UNCHANGED <<enabled, dev, dist, rwp, redist, cpuif, reg>>

\* GICR_IGROUPR0, GICR_ICENABLER0, GICR_ICACTIVER0 and GICR_ICPENDR0.  The code
\* does not wait for GICR_CTLR.RWP; here the disabling takes effect at once.
InitPrivate(c) ==
  /\ Goto(c, "private", "icc")
  /\ group1' = group1 \cup {Private(c)}
  /\ enabled' = enabled \ {Private(c)}
  /\ active' = active \ {Private(c)}
  /\ latch' = latch \ {Private(c)}
  /\ UNCHANGED <<dev, dist, rwp, redist, cpuif, reg>>

\* Mutant: ICC_CTLR_EL1 is not written.
IccInitJoint(c) ==
  /\ Goto(c, "icc", "irq_on")
  /\ igrpen' = [igrpen EXCEPT ![c] = TRUE]
  /\ UNCHANGED <<state, dev, dist, rwp, redist, split, reg>>

\* gic_icc_init: split EOImode, then group 1 is enabled.
IccInit(c) ==
  /\ Goto(c, "icc", "irq_on")
  /\ split' = [split EXCEPT ![c] = TRUE]
  /\ igrpen' = [igrpen EXCEPT ![c] = TRUE]
  /\ UNCHANGED <<state, dev, dist, rwp, redist, reg>>

\* irq_enable: until the eret of switch_out an interrupt would be taken at EL2.
IrqEnable(c) ==
  /\ Goto(c, "irq_on", "setup")
  /\ UNCHANGED <<state, dev, dist, rwp, redist, cpuif, reg>>

\* hyper_setup, on core Primary the guest's creation, start_vcpu.  Secondary
\* guests have no more to do to the physical GIC.
EnterGuest(c) ==
  /\ Goto(c, "setup", IF c = Primary THEN "g_dist" ELSE "g_irq_on")
  /\ UNCHANGED <<state, dev, dist, rwp, redist, cpuif, reg>>

-----------------------------------------------------------------------------
(* The guest                                                               *)

\* Mutant: the secondary core runs gic_v3_init.
PowerOnAsPrimary(c) ==
  /\ pc[Primary] \in Guest /\ c # Primary
  /\ Goto(c, "off", "dist_off")
  /\ UNCHANGED <<state, dev, dist, rwp, redist, cpuif, reg>>

\* CPU_ON by the guest of core Primary starts hyper_init_secondary.
PowerOn(c) ==
  /\ pc[Primary] \in Guest /\ c # Primary
  /\ Goto(c, "off", "wake")
  /\ UNCHANGED <<state, dev, dist, rwp, redist, cpuif, reg>>

\* gic_dist_init of the guest.  Of its writes only GICD_ICENABLER reaches the
\* GIC, where it makes the SPIs pending (DisableDisables of Vgic); RWP reads 0.
GuestDistInit(c) ==
  /\ \/ reg < NRegs /\ Goto(c, "g_dist", "g_dist") /\ reg' = reg + 1 /\ latch' = latch \cup {Spi(reg)}
     \/ reg = NRegs /\ Goto(c, "g_dist", "g_unmask") /\ UNCHANGED <<reg, latch>>
  /\ UNCHANGED <<group1, enabled, active, dev, dist, rwp, redist, cpuif>>

\* guest_spi_config
GuestUnmask(c) ==
  /\ Goto(c, "g_unmask", "g_irq_on")
  /\ enabled' = enabled \cup {Spi(Uart)}
  /\ UNCHANGED <<group1, active, latch, dev, dist, rwp, redist, cpuif, reg>>

\* The virtual redistributor ignores gic_redist_init, the virtual CPU interface
\* takes gic_icc_init; irq_enable lets virtual interrupts in.
GuestIrqEnable(c) ==
  /\ Goto(c, "g_irq_on", "run")
  /\ UNCHANGED <<state, dev, dist, rwp, redist, cpuif, reg>>

\* A guest that uses SGIs enables its own.
EnablePrivate(c) ==
  /\ pc[c] = "run"
  /\ enabled' = enabled \cup {Private(c)}
  /\ UNCHANGED <<group1, active, latch, dev, dist, rwp, redist, cpuif, pc, reg>>

\* vsysreg_handler writes what the guest wrote to ICC_SGI1R_EL1.
SendSgi(c, targets) ==
  /\ pc[c] \in Guest
  /\ latch' = latch \cup {Private(t) : t \in targets}
  /\ UNCHANGED <<group1, enabled, active, dev, dist, rwp, redist, cpuif, pc, reg>>

\* el1_irq_proc acknowledges and writes ICC_EOIR1_EL1, which deactivates as
\* well unless EOImode is split.
Take(i) ==
  /\ pc[i[1]] \in Guest /\ Signalled(i)
  /\ active' = IF split[i[1]] THEN active \cup {i} ELSE active
  /\ latch' = latch \ {i}
  /\ served' = served \cup {i}
  /\ UNCHANGED <<group1, enabled, line, dist, rwp, redist, cpuif, pc, reg>>

\* The guest's handler serves the device and deactivates.
Complete(i) ==
  /\ pc[i[1]] = "run" /\ i \in served
  /\ active' = active \ {i}
  /\ served' = served \ {i}
  /\ line' = line \ {i}
  /\ UNCHANGED <<group1, enabled, latch, dist, rwp, redist, cpuif, pc, reg>>

-----------------------------------------------------------------------------
Hyp(c) ==
  \/ DistOff(c) \/ AwaitRwp(c) \/ InitSpis(c) \/ DistOn(c)
  \/ Wake(c) \/ AwaitChildren(c) \/ InitPrivate(c) \/ IccInit(c) \/ IrqEnable(c) \/ EnterGuest(c)

GuestBoot(c) == GuestDistInit(c) \/ GuestUnmask(c) \/ GuestIrqEnable(c)

Next ==
  \/ RwpDone
  \/ \E c \in Cores : ChildrenWake(c) \/ Hyp(c) \/ PowerOn(c) \/ GuestBoot(c)
  \/ \E c \in Cores : EnablePrivate(c) \/ \E targets \in SUBSET Cores : SendSgi(c, targets)
  \/ \E i \in Spis : LineUp(i)
  \/ \E i \in Irqs : Take(i) \/ Complete(i)

Spec == Init /\ [][Next]_vars

\* The hardware answers, code runs, interrupts that are signalled are taken.
Fairness ==
  /\ WF_vars(RwpDone)
  /\ \A c \in Cores : WF_vars(ChildrenWake(c)) /\ WF_vars(Hyp(c)) /\ WF_vars(GuestBoot(c))
  /\ \A i \in Irqs : WF_vars(Take(i)) /\ WF_vars(Complete(i))

FairSpec == Spec /\ Fairness

-----------------------------------------------------------------------------
(* Properties                                                              *)

HypLabels == {"off", "dist_off", "rwp1", "loop", "rwp3", "wake", "asleep", "private", "icc",
              "irq_on", "setup"}

TypeOK ==
  /\ group1 \subseteq Irqs /\ enabled \subseteq Irqs /\ active \subseteq Irqs
  /\ latch \subseteq Irqs /\ line \subseteq Spis /\ served \subseteq Irqs
  /\ dist \in BOOLEAN /\ rwp \in BOOLEAN
  /\ redist \in [Cores -> {"asleep", "waking", "awake"}]
  /\ split \in [Cores -> BOOLEAN] /\ igrpen \in [Cores -> BOOLEAN]
  /\ pc \in [Cores -> HypLabels \cup Guest]
  /\ reg \in 1..NRegs

\* Between irq_enable (main.c:34, main.c:56) and the eret no interrupt comes:
\* vector_el2_irq would change the ELR_EL2 that switch_out has just written.
NoIrqAtEl2 == \A i \in Irqs : pc[i[1]] = "setup" => ~Signalled(i)

\* In a guest exactly the interrupts it holds are active: none comes in twice,
\* and none that firmware left active is shut out for ever.
ActiveIsServed == \A i \in Irqs : pc[i[1]] \in Guest => (i \in active <=> i \in served)

\* The strengthening that makes them inductive, on every way through the boot.
\* A core's interrupts: quiet from their initialisation to its guest.
Quiet(i) == i \notin enabled \cup active

BootOrder ==
  /\ \A c \in Cores \ {Primary} : pc[c] \notin
       {"dist_off", "rwp1", "loop", "rwp3", "g_dist", "g_unmask"}
  /\ pc[Primary] = "rwp1" => reg = 1
  /\ \A c \in Cores : pc[c] \in {"irq_on", "setup"} \cup Guest => split[c]

QuietUntilGuest ==
  /\ pc[Primary] = "loop" => \A r \in 1..(reg - 1) : Quiet(Spi(r))
  /\ pc[Primary] \in {"rwp3", "wake", "asleep", "private"} => \A i \in Spis : Quiet(i)
  /\ \A i \in Irqs : pc[i[1]] \in Ready \ Guest => Quiet(i)
  /\ \A i \in served : pc[i[1]] \in Guest

IInv == TypeOK /\ BootOrder /\ QuietUntilGuest /\ ActiveIsServed

\* Whatever the other cores initialise, a core whose own initialisation is over
\* keeps its interrupts enabled, and pending until they are taken.
GuestsUndisturbed ==
  [][\A i \in Irqs : pc[i[1]] \in Ready =>
       /\ i \in enabled => i \in enabled'
       /\ i \in latch => i \in latch' \cup served']_vars

\* A core that has been powered gets through the polling loops into its guest.
CoreComesUp == \A c \in Cores : pc[c] # "off" ~> pc[c] = "run"

\* An enabled interrupt that is pending for a core in its guest is taken.
PendingIsServed ==
  \A i \in Irqs : (Pending(i) /\ i \in enabled /\ pc[i[1]] \in Guest) ~> i \in served
=============================================================================
