-------------------------------- MODULE Vgic --------------------------------
(***************************************************************************)
(* The virtual GIC a guest programs (vgicd_* and vgicr_* of vgicv3.c), the *)
(* driver calls that carry its settings over to the physical GIC           *)
(* (gicv3.c), and those registers of it.  vCPU v runs on core v.  A        *)
(* distributor access runs under vgic_dist->lock and a redistributor       *)
(* access changes the interrupts of one core, so an access is one action;  *)
(* a guest that reads and writes back a register takes two.                *)
(* Registers are sets of bits.  Registers of the distributor are numbered  *)
(* from GICD_ISENABLER(0) on: four banks, ISENABLER, ICENABLER, ISPENDR    *)
(* and ICPENDR, follow each other.                                         *)
(***************************************************************************)
EXTENDS Integers, FiniteSets

CONSTANTS
  NVcpu,        \* vm->nvcpu
  W,            \* interrupts of an enable register, 32
  P,            \* interrupts of a priority register, 4
  Bank,         \* registers of a bank, 32
  Lines,        \* gic_max_spi + 1
  Stride        \* GICR_STRIDE, in interrupts of a priority register

Vcpus == 0..(NVcpu - 1)
Bits == 0..(W - 1)
Private == 0..(W - 1)            \* SGIs and PPIs: below GIC_MIN_SPI0
Spis == W..(Lines - 1)
Shared == NVcpu                  \* in the place of a vCPU, for an SPI
MinLpi == 8 * Bank * W           \* GIC_MIN_LPI
None == Lines                    \* no interrupt

ASSUME VgicAssumption ==
  /\ NVcpu \in Nat \ {0} /\ W \in Nat \ {0} /\ P \in Nat \ {0} /\ Bank \in Nat
  /\ Lines \in W..(Bank * W) /\ Lines % W = 0 /\ W % P = 0
  /\ Stride \in Nat /\ Stride >= Lines

\* Every interrupt of the VM: the private ones of each vCPU, and the SPIs.
Interrupts == (Vcpus \X Private) \cup ({Shared} \X Spis)

VARIABLES
  enabled,      \* vgicv3_irq_config.enabled
  priority,     \* vgicv3_irq_config.priority
  dist_on,      \* vgic_dist->enabled
  hw_enabled,   \* the enable bits of the physical GICD and GICRs
  hw_pending,   \* the pending bits the hypervisor has set in the GICD
  x,            \* the general register of the last access of each vCPU
  unmasking     \* the interrupt a vCPU is about to unmask: it has read

config == <<enabled, priority, dist_on>>
hardware == <<hw_enabled, hw_pending>>
vars == <<config, hardware, x, unmasking>>

Init ==
  /\ enabled = {}
  /\ priority = [c \in Interrupts |-> 0]
  /\ dist_on = FALSE
  /\ hw_enabled = {}
  /\ hw_pending = {}
  /\ x = [v \in Vcpus |-> {}]
  /\ unmasking = [v \in Vcpus |-> None]

\* Mutant: the private configurations of vCPU 0 are used for every vCPU.
IrqGetFirst(v, i) == <<IF i < W THEN 0 ELSE Shared, i>>

\* vgic_irq_get.  The configuration of a number beyond Lines is no member of
\* Interrupts: it lies in memory that is not modelled.
IrqGet(v, i) == <<IF i < W THEN v ELSE Shared, i>>
Configs(v, irqs) == {IrqGet(v, i) : i \in irqs} \cap Interrupts

\* The interrupts of some bits of the n-th register.
Irqs(n, bits) == {n * W + b : b \in bits}
Reg(irqs) == (CHOOSE i \in irqs : TRUE) \div W
BitsOf(irqs) == {i % W : i \in irqs}

-----------------------------------------------------------------------------
(* The distributor's registers                                             *)

LinesOf(r, bits) == {<<Shared, (r % Bank) * W + b>> : b \in bits} \cap Interrupts

GicdRead(r) ==
  {b \in Bits : <<Shared, (r % Bank) * W + b>> \in
                  IF r \div Bank < 2 THEN hw_enabled ELSE hw_pending}

GicdWrite(r, bits) ==
  /\ hw_enabled' = IF r \div Bank = 0 THEN hw_enabled \cup LinesOf(r, bits)
                   ELSE IF r \div Bank = 1 THEN hw_enabled \ LinesOf(r, bits) ELSE hw_enabled
  /\ hw_pending' = IF r \div Bank = 2 THEN hw_pending \cup LinesOf(r, bits)
                   ELSE IF r \div Bank = 3 THEN hw_pending \ LinesOf(r, bits) ELSE hw_pending

-----------------------------------------------------------------------------
(* The driver, called for each of some interrupts of one register in turn. *)
(* The registers set what they are written 1 for, so the calls add up.     *)

\* Mutants: the test for SGIs and PPIs is dropped, or takes too many for them.
GicEnableIntAsSpi(c, irqs) == GicdWrite(Reg(irqs), GicdRead(Reg(irqs)) \cup BitsOf(irqs))
GicEnableIntAsPpi(c, irqs) ==
  hw_enabled' = hw_enabled \cup {<<c, i>> : i \in irqs} /\ UNCHANGED hw_pending

\* gic_enable_int on core c.
GicEnableInt(c, irqs) ==
  IF irqs = {} \/ Reg(irqs) * W >= MinLpi THEN UNCHANGED hardware
  ELSE IF Reg(irqs) = 0
  THEN hw_enabled' = hw_enabled \cup {<<c, i>> : i \in irqs} /\ UNCHANGED hw_pending
  ELSE GicdWrite(Reg(irqs), GicdRead(Reg(irqs)) \cup BitsOf(irqs))

\* gic_disable_int: reading a clear-enable register gives the enabled ones.
GicDisableInt(c, irqs) ==
  IF irqs = {} \/ Reg(irqs) * W >= MinLpi THEN UNCHANGED hardware
  ELSE IF Reg(irqs) = 0
  THEN hw_enabled' = hw_enabled \ ({c} \X Private) /\ UNCHANGED hw_pending
  ELSE GicdWrite(Bank + Reg(irqs), GicdRead(Bank + Reg(irqs)) \cup BitsOf(irqs))

-----------------------------------------------------------------------------
(* The emulated distributor                                                *)

WriteCtlr(v, on) ==
  /\ dist_on' = on
  /\ UNCHANGED <<enabled, priority, hardware, x, unmasking>>

\* GICD_ISENABLER(n); x and unmasking are the guest's and left to it.
WriteIsenabler(v, n, bits) ==
  /\ enabled' = enabled \cup Configs(v, Irqs(n, bits))
  /\ GicEnableInt(v, Irqs(n, bits))
  /\ UNCHANGED <<priority, dist_on>>

\* GICD_ICENABLER(n) is the register Bank + n, and its interrupt number is
\* computed from GICD_ISENABLER(0).
WriteIcenabler(v, n, bits) ==
  LET irqs == Irqs(Bank + n, bits) IN
  /\ enabled' = enabled \ Configs(v, irqs)
  /\ GicDisableInt(v, irqs)
  /\ UNCHANGED <<priority, dist_on, x, unmasking>>

\* The P priorities from interrupt first on.
SetPriority(v, first, prio) ==
  LET cs == Configs(v, first..(first + P - 1)) IN
  /\ priority' = [c \in Interrupts |-> IF c \in cs THEN prio[c[2] - first] ELSE priority[c]]
  /\ UNCHANGED <<enabled, dist_on, hardware, x, unmasking>>

WriteIpriorityr(v, n, prio) == SetPriority(v, n * P, prio)

\* What a read of GICD_ISENABLER(n) may give: isen is not initialised.
IsenRead(v, n) ==
  {isen \in SUBSET Bits : {b \in Bits : IrqGet(v, n * W + b) \in enabled} \subseteq isen}

-----------------------------------------------------------------------------
(* The emulated redistributor, frame f of a vCPU that exists               *)

\* GICR_ISENABLER0: the driver enables on the core that executes.
RWriteIsenabler(v, f, bits) ==
  /\ enabled' = enabled \cup Configs(f, bits)
  /\ GicEnableInt(v, bits)
  /\ UNCHANGED <<priority, dist_on>>

\* GICR_IPRIORITYR(k): the offset of the frame is part of the number.
RWriteIpriorityr(v, f, k, prio) == SetPriority(f, f * Stride + k * P, prio)

\* Mutant: isen is not initialised, as in vgicd_read.
RIsenReadAll(v, f) == Bits

RIsenRead(v, f) == {b \in Bits : IrqGet(f, b) \in enabled}

-----------------------------------------------------------------------------
(* The guest: every vCPU uses the redistributor frame of its core.  It     *)
(* writes registers directly, or unmasks an interrupt as gic_enable_int of *)
(* guest/gicv3.c does, reading the register and writing it back.           *)

Words == 0..(Lines \div W - 1)
\* Two contents of a priority register, which tell its interrupts apart.
Prios == {[k \in 0..(P - 1) |-> 0], [k \in 0..(P - 1) |-> k]}

Direct(v) ==
  /\ unmasking[v] = None
  /\ \/ \E on \in BOOLEAN : WriteCtlr(v, on)
     \/ \E n \in Words, b \in Bits :
          WriteIsenabler(v, n, {b}) /\ UNCHANGED <<x, unmasking>>
     \/ \E n \in Words, bits \in {Bits} \cup {{b} : b \in Bits} : WriteIcenabler(v, n, bits)
     \/ \E n \in 0..(Lines \div P - 1), prio \in Prios : WriteIpriorityr(v, n, prio)
     \/ \E b \in Bits : RWriteIsenabler(v, v, {b}) /\ UNCHANGED <<x, unmasking>>
     \/ \E k \in 0..(W \div P - 1), prio \in Prios : RWriteIpriorityr(v, v, k, prio)

UnmaskRead(v, i) ==
  /\ unmasking[v] = None
  /\ unmasking' = [unmasking EXCEPT ![v] = i]
  /\ IF i < W THEN x' = [x EXCEPT ![v] = RIsenRead(v, v)]
     ELSE \E isen \in IsenRead(v, i \div W) : x' = [x EXCEPT ![v] = isen]
  /\ UNCHANGED <<config, hardware>>

UnmaskWrite(v) ==
  LET i == unmasking[v] bits == x[v] \cup {i % W} IN
  /\ i # None
  /\ IF i < W THEN RWriteIsenabler(v, v, bits) ELSE WriteIsenabler(v, i \div W, bits)
  /\ unmasking' = [unmasking EXCEPT ![v] = None]
  /\ x' = [x EXCEPT ![v] = {}]

Access(v) == Direct(v) \/ (\E i \in Private \cup Spis : UnmaskRead(v, i)) \/ UnmaskWrite(v)

Next == \E v \in Vcpus : Access(v)

Spec == Init /\ [][Next]_vars

-----------------------------------------------------------------------------
(* Properties                                                              *)

TypeOK ==
  /\ enabled \subseteq Interrupts
  /\ priority \in [Interrupts -> 0..(P - 1)]
  /\ dist_on \in BOOLEAN
  /\ hw_enabled \subseteq Interrupts
  /\ hw_pending \subseteq Interrupts
  /\ x \in [Vcpus -> SUBSET Bits]
  /\ unmasking \in [Vcpus -> Private \cup Spis \cup {None}]

\* vgicd_write, vgicr_write and the driver: the emulated configuration
\* (irq->enabled) and the enable bits of the physical GIC agree, for every
\* interrupt of every core.  A read of GICD_ISENABLER may show more (IsenRead).
ConfigIsHardware == enabled = hw_enabled

\* Between the read and the write of a guest's unmasking its copy of the private
\* enable register stays what the register holds: only its own core changes it.
CopyIsCurrent ==
  \A v \in Vcpus :
    unmasking[v] < W => x[v] = {b \in Bits : <<v, b>> \in enabled}

\* The strengthening that makes the safety and the action properties provable.
IInv ==
  /\ TypeOK
  /\ ConfigIsHardware
  /\ CopyIsCurrent

\* An access of one vCPU leaves the SGIs and PPIs of every other vCPU as they
\* are, in its configuration and in the GIC.
PrivateStaysPrivate ==
  [][\A v, o \in Vcpus : v # o /\ Access(v) =>
       \A i \in Private :
         /\ <<o, i>> \in enabled' <=> <<o, i>> \in enabled
         /\ <<o, i>> \in hw_enabled' <=> <<o, i>> \in hw_enabled
         /\ priority'[<<o, i>>] = priority[<<o, i>>]]_vars

\* A guest that unmasks an SGI or PPI by reading and writing its register gets
\* that one interrupt and no other, whatever other vCPUs do between the two.
UnmaskIsExact ==
  [][\A v \in Vcpus :
       unmasking[v] < W /\ unmasking'[v] = None =>
         hw_enabled' = hw_enabled \cup {<<v, unmasking[v]>>}]_vars

\* What the comment of GICD_ICENABLER says (gicv3.h:48): it disables the
\* interrupts it is written 1 for.
DisableDisables ==
  [][\A v \in Vcpus, n \in Words, b \in Bits :
       n > 0 /\ WriteIcenabler(v, n, {b}) => <<Shared, n * W + b>> \notin hw_enabled']_vars
=============================================================================
