----------------------------- MODULE VgicProofs -----------------------------
(***************************************************************************)
(* Proofs about Vgic, for any number of vCPUs, registers of any width and  *)
(* any number of interrupts: the configuration the guest reads is that of  *)
(* the GIC, and vCPUs do not disturb each other.                           *)
(***************************************************************************)
EXTENDS Vgic, TLAPS

-----------------------------------------------------------------------------
(* Arithmetic of interrupt numbers.                                        *)

\* The lines are a whole number of registers, of one bank at most.
LEMMA LinesAreRegisters ==
  Lines \div W \in 1..Bank /\ Lines = (Lines \div W) * W
  BY VgicAssumption

\* A number is a register and a bit of it.
LEMMA RegisterAndBit ==
  ASSUME NEW n \in Nat, NEW b \in Bits
  PROVE  /\ n * W + b \in Nat
         /\ (n * W + b) \div W = n /\ (n * W + b) % W = b
  BY VgicAssumption DEF Bits

\* The private interrupts are those of register 0.
LEMMA PrivateIsRegisterZero ==
  ASSUME NEW i \in Private
  PROVE  i \in Bits /\ i \in Nat /\ i < W /\ i \div W = 0 /\ i % W = i
  BY VgicAssumption DEF Private, Bits

\* An SPI is in a register of the first bank that is not register 0.
LEMMA SpiRegister ==
  ASSUME NEW i \in Spis
  PROVE  /\ i \in Nat /\ ~(i < W)
         /\ i \div W \in Words \ {0} /\ i % W \in Bits
  BY VgicAssumption DEF Spis, Words, Bits

\* The interrupts of such a register are SPIs, and below the LPIs.
LEMMA SpisOfRegister ==
  ASSUME NEW n \in Words \ {0}, NEW b \in Bits
  PROVE  /\ n \in Nat /\ n < Bank /\ n * W < MinLpi
         /\ n * W + b \in Spis /\ ~(n * W + b < W)
  <1>1. PICK k \in 1..Bank : Lines \div W = k /\ Lines = k * W
    BY LinesAreRegisters
  <1>2. k \in Nat /\ Lines \div W = k
    BY <1>1, VgicAssumption
  <1>3. n \in Nat /\ n >= 1 /\ n + 1 <= k
    BY <1>2, VgicAssumption DEF Words
  <1>4. (n + 1) * W <= k * W
    BY <1>2, <1>3, VgicAssumption
  <1>5. n * W + b < k * W
    BY <1>2, <1>3, <1>4, VgicAssumption DEF Bits
  <1>6. n * W >= W
    BY <1>3, VgicAssumption
  <1>7. n * W < 8 * Bank * W
    BY <1>1, <1>2, <1>3, VgicAssumption
  <1>8. QED BY <1>1, <1>3, <1>5, <1>6, <1>7, VgicAssumption DEF Spis, Bits, MinLpi

\* The numbers computed for GICD_ICENABLER(n) are beyond the last interrupt.
LEMMA BeyondTheLines ==
  ASSUME NEW n \in Words, NEW b \in Bits
  PROVE  /\ Bank + n \in Nat /\ Bank \in Nat \ {0} /\ Bank + n # 0
         /\ (Bank + n) * W < MinLpi
         /\ (Bank + n) * W + b >= Lines
  <1>1. PICK k \in 1..Bank : Lines \div W = k /\ Lines = k * W
    BY LinesAreRegisters
  <1>2. k \in Nat /\ Lines \div W = k
    BY <1>1, VgicAssumption
  <1>3. n \in Nat /\ n < Bank
    BY <1>1, <1>2, VgicAssumption DEF Words
  <1>4. (Bank + n) * W >= Bank * W
    BY <1>3, VgicAssumption
  <1>5. (Bank + n) * W < 8 * Bank * W
    BY <1>3, VgicAssumption
  <1>6. QED BY <1>1, <1>3, <1>4, <1>5, VgicAssumption DEF MinLpi, Bits

\* The driver finds the register its interrupts are of.
LEMMA RegOfIrqs ==
  ASSUME NEW n \in Nat, NEW bits \in SUBSET Bits, bits # {}
  PROVE  /\ Irqs(n, bits) # {}
         /\ Reg(Irqs(n, bits)) = n /\ BitsOf(Irqs(n, bits)) = bits
  <1>1. \A i \in Irqs(n, bits) : i \div W = n
    BY RegisterAndBit DEF Irqs
  <1>2. Irqs(n, bits) # {}
    BY DEF Irqs
  <1>3. Reg(Irqs(n, bits)) = n
    BY <1>1, <1>2 DEF Reg
  <1>4. BitsOf(Irqs(n, bits)) = {(n * W + b) % W : b \in bits}
    BY DEF BitsOf, Irqs
  <1>5. \A b \in bits : (n * W + b) % W = b
    BY RegisterAndBit
  <1>6. QED BY <1>2, <1>3, <1>4, <1>5

\* The interrupts of register 0 are its bits.
LEMMA IrqsOfZero ==
  ASSUME NEW bits \in SUBSET Bits
  PROVE  Irqs(0, bits) = bits
  <1>1. \A b \in bits : 0 * W + b = b
    BY VgicAssumption DEF Bits
  <1>2. QED BY <1>1 DEF Irqs

-----------------------------------------------------------------------------
(* The driver.                                                             *)

\* The configurations of the interrupts of a register: those of the vCPU for
\* register 0, the shared ones for the others.
LEMMA ConfigsOfRegister ==
  ASSUME NEW v \in Vcpus, NEW n \in Words, NEW bits \in SUBSET Bits
  PROVE  /\ n = 0 => Configs(v, Irqs(n, bits)) = {<<v, b>> : b \in bits}
         /\ n # 0 => Configs(v, Irqs(n, bits)) = {<<Shared, n * W + b>> : b \in bits}
         /\ Configs(v, Irqs(n, bits)) \subseteq Interrupts
  <1>1. CASE n = 0
    <2>1. \A b \in bits : b < W /\ <<v, b>> \in Interrupts
      BY VgicAssumption DEF Bits, Interrupts, Private
    <2>2. Configs(v, bits) = {<<v, b>> : b \in bits}
      BY <2>1 DEF Configs, IrqGet
    <2>3. QED BY <1>1, <2>2, IrqsOfZero DEF Configs
  <1>2. CASE n # 0
    <2>1. \A b \in bits : ~(n * W + b < W) /\ <<Shared, n * W + b>> \in Interrupts
      BY <1>2, SpisOfRegister DEF Interrupts
    <2>2. {IrqGet(v, i) : i \in Irqs(n, bits)} = {<<Shared, n * W + b>> : b \in bits}
      BY <2>1 DEF Irqs, IrqGet
    <2>3. QED BY <1>2, <2>1, <2>2 DEF Configs
  <1>3. QED BY <1>1, <1>2

\* gic_enable_int enables the interrupts it is called for: the driver writes
\* back what it has read of the register, which changes nothing.
LEMMA EnableAdds ==
  ASSUME NEW c \in Vcpus, NEW n \in Words, NEW bits \in SUBSET Bits, bits # {},
         GicEnableInt(c, Irqs(n, bits))
  PROVE  hw_enabled' = hw_enabled \cup Configs(c, Irqs(n, bits)) /\ hw_pending' = hw_pending
  <1> DEFINE irqs == Irqs(n, bits)
  <1>1. n \in Nat
    BY DEF Words
  <1>2. irqs # {} /\ Reg(irqs) = n /\ BitsOf(irqs) = bits
    BY <1>1, RegOfIrqs
  <1>3. CASE n = 0
    <2>1. ~(n * W >= MinLpi)
      BY <1>3, LinesAreRegisters, VgicAssumption DEF MinLpi
    <2>2. hw_enabled' = hw_enabled \cup {<<c, i>> : i \in irqs} /\ hw_pending' = hw_pending
      BY <1>2, <1>3, <2>1 DEF GicEnableInt
    <2>3. irqs = bits
      BY <1>3, IrqsOfZero
    <2>4. QED BY <1>3, <2>2, <2>3, ConfigsOfRegister
  <1>4. CASE n # 0
    <2>1. n < Bank /\ n * W < MinLpi
      <3>1. PICK b \in Bits : TRUE
        OBVIOUS
      <3>2. QED BY <1>4, <3>1, SpisOfRegister
    <2>2. GicdWrite(n, GicdRead(n) \cup bits)
      <3>1. ~(n * W >= MinLpi)
        BY <1>1, <2>1, VgicAssumption DEF MinLpi
      <3>2. QED BY <1>2, <1>4, <3>1 DEF GicEnableInt
    <2>3. n \div Bank = 0 /\ n % Bank = n
      BY <1>1, <2>1, VgicAssumption
    <2>4. /\ hw_enabled' = hw_enabled \cup LinesOf(n, GicdRead(n) \cup bits)
          /\ hw_pending' = hw_pending
      BY <2>2, <2>3 DEF GicdWrite
    <2>5. LinesOf(n, GicdRead(n) \cup bits) =
            {<<Shared, n * W + b>> : b \in GicdRead(n) \cup bits} \cap Interrupts
      BY <2>3 DEF LinesOf
    <2>6. \A b \in GicdRead(n) : <<Shared, n * W + b>> \in hw_enabled
      BY <2>3 DEF GicdRead
    <2>7. {<<Shared, n * W + b>> : b \in bits} = Configs(c, irqs) /\ Configs(c, irqs) \subseteq Interrupts
      BY <1>4, ConfigsOfRegister
    <2>8. QED BY <2>4, <2>5, <2>6, <2>7
  <1>5. QED BY <1>3, <1>4

\* gic_disable_int, called for the numbers vgicd_write computes, disables
\* nothing, and there is no configuration that the write changes.
LEMMA DisableMissesItsRegister ==
  ASSUME hw_pending \subseteq Interrupts,
         NEW c \in Vcpus, NEW n \in Words, NEW bits \in SUBSET Bits, bits # {},
         GicDisableInt(c, Irqs(Bank + n, bits))
  PROVE  /\ Configs(c, Irqs(Bank + n, bits)) = {}
         /\ hw_enabled' = hw_enabled /\ hw_pending' \subseteq Interrupts
  <1> DEFINE irqs == Irqs(Bank + n, bits)
  <1>1. PICK b \in Bits : b \in bits
    OBVIOUS
  <1>2. /\ Bank + n \in Nat /\ Bank \in Nat \ {0} /\ Bank + n # 0
        /\ (Bank + n) * W < MinLpi
    BY <1>1, BeyondTheLines
  <1>3. irqs # {} /\ Reg(irqs) = Bank + n /\ BitsOf(irqs) = bits
    BY <1>2, RegOfIrqs
  <1>4. Configs(c, irqs) = {}
    <2>1. ASSUME NEW i \in irqs PROVE IrqGet(c, i) \notin Interrupts
      <3>1. PICK d \in bits : i = (Bank + n) * W + d
        BY DEF Irqs
      <3>2. i >= Lines /\ i \in Int
        BY <1>2, <3>1, BeyondTheLines, VgicAssumption DEF Bits
      <3>3. ~(i < W) /\ i \notin Spis /\ Shared \notin Vcpus
        BY <3>2, VgicAssumption DEF Spis, Shared, Vcpus
      <3>4. QED BY <3>3 DEF IrqGet, Interrupts
    <2>2. QED BY <2>1 DEF Configs
  <1>5. GicdWrite(Bank + Reg(irqs), GicdRead(Bank + Reg(irqs)) \cup BitsOf(irqs))
    <2>1. ~((Bank + n) * W >= MinLpi)
      BY <1>2, VgicAssumption DEF MinLpi
    <2>2. QED BY <1>2, <1>3, <2>1 DEF GicDisableInt
  <1>6. (Bank + (Bank + n)) \div Bank = 2
    <2>1. n \in Nat /\ n < Bank
      BY LinesAreRegisters, VgicAssumption DEF Words
    <2>2. QED BY <1>2, <2>1
  <1>7. /\ hw_enabled' = hw_enabled
        /\ hw_pending' = hw_pending \cup
             LinesOf(Bank + Reg(irqs), GicdRead(Bank + Reg(irqs)) \cup BitsOf(irqs))
    BY <1>3, <1>5, <1>6 DEF GicdWrite
  <1>8. QED BY <1>4, <1>7 DEF LinesOf

-----------------------------------------------------------------------------
(* The inductive invariant.                                                *)

LEMMA InitIInv == Init => IInv
  <1> SUFFICES ASSUME Init PROVE IInv
    OBVIOUS
  <1>1. 0 \in 0..(P - 1)
    BY VgicAssumption
  <1>2. TypeOK
    BY <1>1 DEF Init, TypeOK
  <1>3. ~(None < W)
    BY VgicAssumption DEF None
  <1>4. CopyIsCurrent
    BY <1>3 DEF Init, CopyIsCurrent
  <1>5. QED BY <1>2, <1>4 DEF Init, IInv, ConfigIsHardware

\* A write of priorities changes those of the numbered interrupts only.
LEMMA SetPriorityKeeps ==
  ASSUME IInv, NEW v \in Vcpus, NEW first \in Nat, NEW prio \in Prios,
         SetPriority(v, first, prio)
  PROVE  /\ priority' \in [Interrupts -> 0..(P - 1)]
         /\ \A o \in Vcpus, i \in Private : o # v => priority'[<<o, i>>] = priority[<<o, i>>]
         /\ UNCHANGED <<enabled, dist_on, hardware, x, unmasking>>
  <1> DEFINE cs == Configs(v, first..(first + P - 1))
  <1>1. \A c \in cs : c[2] \in first..(first + P - 1) /\ c[1] \in {v, Shared}
    BY DEF Configs, IrqGet
  <1>2. ASSUME NEW c \in Interrupts
        PROVE  (IF c \in cs THEN prio[c[2] - first] ELSE priority[c]) \in 0..(P - 1)
    <2>1. CASE c \in cs
      <3>1. c[2] - first \in 0..(P - 1)
        BY <1>1, <2>1, VgicAssumption
      <3>2. prio[c[2] - first] \in 0..(P - 1)
        BY <3>1, VgicAssumption DEF Prios
      <3>3. QED BY <2>1, <3>2
    <2>2. CASE c \notin cs
      BY <2>2 DEF IInv, TypeOK
    <2>3. QED BY <2>1, <2>2
  <1>3. priority' = [c \in Interrupts |-> IF c \in cs THEN prio[c[2] - first] ELSE priority[c]]
    BY DEF SetPriority
  <1>4. ASSUME NEW o \in Vcpus, NEW i \in Private, o # v
        PROVE  priority'[<<o, i>>] = priority[<<o, i>>]
    <2>1. o # Shared
      BY VgicAssumption DEF Vcpus, Shared
    <2>2. <<o, i>> \notin cs /\ <<o, i>> \in Interrupts
      BY <1>1, <1>4, <2>1 DEF Interrupts
    <2>3. QED BY <1>3, <2>2
  <1>5. QED BY <1>2, <1>3, <1>4 DEF SetPriority

\* What any access of a vCPU does: it stays in the type, it changes the enable
\* bits of the configuration and of the GIC alike, and of the private
\* interrupts only its own.
Effect(v) ==
  /\ enabled' \subseteq Interrupts /\ hw_enabled' = enabled'
  /\ hw_pending' \subseteq Interrupts
  /\ priority' \in [Interrupts -> 0..(P - 1)]
  /\ dist_on' \in BOOLEAN
  /\ \A o \in Vcpus, i \in Private : o # v =>
       /\ <<o, i>> \in enabled' <=> <<o, i>> \in enabled
       /\ priority'[<<o, i>>] = priority[<<o, i>>]

\* Enabling interrupts of a register, by its distributor or redistributor.
LEMMA EnableEffect ==
  ASSUME IInv, NEW v \in Vcpus, NEW n \in Words, NEW bits \in SUBSET Bits, bits # {},
         enabled' = enabled \cup Configs(v, Irqs(n, bits)),
         GicEnableInt(v, Irqs(n, bits)), UNCHANGED <<priority, dist_on>>
  PROVE  Effect(v)
  <1>1. /\ hw_enabled' = hw_enabled \cup Configs(v, Irqs(n, bits)) /\ hw_pending' = hw_pending
        /\ Configs(v, Irqs(n, bits)) \subseteq Interrupts
    BY EnableAdds, ConfigsOfRegister
  <1>2. ASSUME NEW o \in Vcpus, NEW i \in Private, o # v
        PROVE  <<o, i>> \notin Configs(v, Irqs(n, bits))
    <2>1. o # Shared
      BY VgicAssumption DEF Vcpus, Shared
    <2>2. QED BY <1>2, <2>1 DEF Configs, IrqGet
  <1>3. QED BY <1>1, <1>2 DEF Effect, IInv, TypeOK, ConfigIsHardware

LEMMA DirectEffect ==
  ASSUME IInv, NEW v \in Vcpus, Direct(v)
  PROVE  Effect(v) /\ UNCHANGED <<x, unmasking>>
  <1> USE DEF IInv, TypeOK, ConfigIsHardware
  <1>1. ASSUME NEW on \in BOOLEAN, WriteCtlr(v, on)
        PROVE  Effect(v) /\ UNCHANGED <<x, unmasking>>
    BY <1>1 DEF WriteCtlr, Effect, hardware
  <1>2. ASSUME NEW n \in Words, NEW b \in Bits, WriteIsenabler(v, n, {b}), UNCHANGED <<x, unmasking>>
        PROVE  Effect(v) /\ UNCHANGED <<x, unmasking>>
    <2>1. {b} \in SUBSET Bits /\ {b} # {}
      OBVIOUS
    <2>2. QED BY <1>2, <2>1, EnableEffect DEF WriteIsenabler
  <1>3. ASSUME NEW n \in Words, NEW bits \in {Bits} \cup {{b} : b \in Bits}, WriteIcenabler(v, n, bits)
        PROVE  Effect(v) /\ UNCHANGED <<x, unmasking>>
    <2>1. 0 \in Bits
      BY VgicAssumption DEF Bits
    <2>2. bits \in SUBSET Bits /\ bits # {}
      BY <2>1
    <2>3. /\ Configs(v, Irqs(Bank + n, bits)) = {}
          /\ hw_enabled' = hw_enabled /\ hw_pending' \subseteq Interrupts
      BY <1>3, <2>2, DisableMissesItsRegister DEF WriteIcenabler
    <2>4. QED BY <1>3, <2>3 DEF WriteIcenabler, Effect
  <1>4. ASSUME NEW first \in Nat, NEW prio \in Prios, SetPriority(v, first, prio)
        PROVE  Effect(v) /\ UNCHANGED <<x, unmasking>>
    BY <1>4, SetPriorityKeeps DEF Effect, hardware
  <1>5. ASSUME NEW n \in 0..(Lines \div P - 1), NEW prio \in Prios, WriteIpriorityr(v, n, prio)
        PROVE  Effect(v) /\ UNCHANGED <<x, unmasking>>
    <2>1. n * P \in Nat
      BY VgicAssumption
    <2>2. QED BY <1>4, <1>5, <2>1 DEF WriteIpriorityr
  <1>6. ASSUME NEW b \in Bits, RWriteIsenabler(v, v, {b}), UNCHANGED <<x, unmasking>>
        PROVE  Effect(v) /\ UNCHANGED <<x, unmasking>>
    <2>1. {b} \in SUBSET Bits /\ {b} # {}
      OBVIOUS
    <2>2. Irqs(0, {b}) = {b}
      BY <2>1, IrqsOfZero
    <2>3. 0 \in Words
      BY LinesAreRegisters, VgicAssumption DEF Words
    <2>4. QED BY <1>6, <2>1, <2>2, <2>3, EnableEffect DEF RWriteIsenabler
  <1>7. ASSUME NEW k \in 0..(W \div P - 1), NEW prio \in Prios, RWriteIpriorityr(v, v, k, prio)
        PROVE  Effect(v) /\ UNCHANGED <<x, unmasking>>
    <2>1. k * P \in Nat /\ v * Stride \in Nat
      BY VgicAssumption DEF Vcpus
    <2>2. v * Stride + k * P \in Nat
      BY <2>1
    <2>3. QED BY <1>4, <1>7, <2>2 DEF RWriteIpriorityr
  <1>8. QED BY <1>1, <1>2, <1>3, <1>5, <1>6, <1>7 DEF Direct

\* The bits a guest writes back when it unmasks are of one register, and not none.
LEMMA UnmaskWriteEffect ==
  ASSUME IInv, NEW v \in Vcpus, UnmaskWrite(v)
  PROVE  /\ Effect(v)
         /\ x' = [x EXCEPT ![v] = {}] /\ unmasking' = [unmasking EXCEPT ![v] = None]
         /\ unmasking[v] < W =>
              hw_enabled' = hw_enabled \cup {<<v, b>> : b \in x[v] \cup {unmasking[v]}}
  <1> DEFINE i == unmasking[v]
             bits == x[v] \cup {i % W}
  <1>1. i \in Private \cup Spis /\ x[v] \in SUBSET Bits
    BY DEF UnmaskWrite, IInv, TypeOK
  <1>2. CASE i < W
    <2>1. i \in Private
      BY <1>1, <1>2, VgicAssumption DEF Spis
    <2>2. i % W = i /\ bits \in SUBSET Bits
      BY <1>1, <2>1, PrivateIsRegisterZero
    <2>3. Irqs(0, bits) = bits /\ 0 \in Words
      BY <2>2, IrqsOfZero, LinesAreRegisters, VgicAssumption DEF Words
    <2>4. /\ enabled' = enabled \cup Configs(v, Irqs(0, bits))
          /\ GicEnableInt(v, Irqs(0, bits)) /\ UNCHANGED <<priority, dist_on>>
      BY <1>2, <2>3 DEF UnmaskWrite, RWriteIsenabler
    <2>5. Effect(v)
      BY <2>2, <2>3, <2>4, EnableEffect
    <2>6. hw_enabled' = hw_enabled \cup {<<v, b>> : b \in bits}
      BY <2>2, <2>3, <2>4, EnableAdds, ConfigsOfRegister
    <2>7. QED BY <2>2, <2>5, <2>6 DEF UnmaskWrite
  <1>3. CASE ~(i < W)
    <2>1. i \in Spis
      BY <1>1, <1>3, PrivateIsRegisterZero
    <2>2. i \div W \in Words /\ bits \in SUBSET Bits
      BY <1>1, <2>1, SpiRegister
    <2>3. WriteIsenabler(v, i \div W, bits)
      BY <1>3 DEF UnmaskWrite
    <2>4. Effect(v)
      BY <2>2, <2>3, EnableEffect DEF WriteIsenabler
    <2>5. QED BY <1>3, <2>4 DEF UnmaskWrite
  <1>4. QED BY <1>2, <1>3

LEMMA UnmaskReadEffect ==
  ASSUME IInv, NEW v \in Vcpus, NEW i \in Private \cup Spis, UnmaskRead(v, i)
  PROVE  /\ Effect(v)
         /\ unmasking[v] = None /\ unmasking' = [unmasking EXCEPT ![v] = i]
         /\ UNCHANGED <<config, hardware>>
         /\ x' \in [Vcpus -> SUBSET Bits] /\ \A o \in Vcpus : o # v => x'[o] = x[o]
         /\ i < W => x'[v] = {b \in Bits : <<v, b>> \in enabled}
  <1> USE DEF IInv, TypeOK, ConfigIsHardware
  <1>1. UNCHANGED <<config, hardware>>
    BY DEF UnmaskRead
  <1>2. Effect(v)
    BY <1>1 DEF Effect, config, hardware
  <1>3. PICK bits \in SUBSET Bits :
          /\ x' = [x EXCEPT ![v] = bits]
          /\ i < W => bits = {b \in Bits : <<v, b>> \in enabled}
    <2>1. CASE i < W
      <3>1. RIsenRead(v, v) = {b \in Bits : <<v, b>> \in enabled}
        BY VgicAssumption DEF RIsenRead, IrqGet, Bits
      <3>2. x' = [x EXCEPT ![v] = RIsenRead(v, v)]
        BY <2>1 DEF UnmaskRead
      <3>3. QED BY <3>1, <3>2
    <2>2. CASE ~(i < W)
      BY <2>2 DEF UnmaskRead, IsenRead
    <2>3. QED BY <2>1, <2>2
  <1>4. QED BY <1>1, <1>2, <1>3 DEF UnmaskRead

LEMMA AccessEffect ==
  ASSUME IInv, NEW v \in Vcpus, Access(v)
  PROVE  Effect(v)
  BY DirectEffect, UnmaskReadEffect, UnmaskWriteEffect DEF Access

LEMMA StepIInv ==
  ASSUME IInv, [Next]_vars
  PROVE  IInv'
  <1>1. ASSUME NEW v \in Vcpus, Access(v) PROVE IInv'
    <2>1. Effect(v)
      BY <1>1, AccessEffect
    <2>2. /\ x' \in [Vcpus -> SUBSET Bits]
          /\ unmasking' \in [Vcpus -> Private \cup Spis \cup {None}]
          /\ \A o \in Vcpus : o # v => x'[o] = x[o] /\ unmasking'[o] = unmasking[o]
          /\ unmasking'[v] < W => x'[v] = {b \in Bits : <<v, b>> \in enabled'}
      <3> USE DEF IInv, TypeOK, CopyIsCurrent
      <3>1. CASE Direct(v)
        <4>1. UNCHANGED <<x, unmasking>> /\ unmasking[v] = None
          BY <3>1, DirectEffect DEF Direct
        <4>2. ~(None < W)
          BY VgicAssumption DEF None
        <4>3. QED BY <4>1, <4>2
      <3>2. ASSUME NEW i \in Private \cup Spis, UnmaskRead(v, i)
            PROVE  /\ x' \in [Vcpus -> SUBSET Bits]
                   /\ unmasking' \in [Vcpus -> Private \cup Spis \cup {None}]
                   /\ \A o \in Vcpus : o # v => x'[o] = x[o] /\ unmasking'[o] = unmasking[o]
                   /\ unmasking'[v] < W => x'[v] = {b \in Bits : <<v, b>> \in enabled'}
        BY <3>2, UnmaskReadEffect DEF config
      <3>3. CASE UnmaskWrite(v)
        <4>1. x' = [x EXCEPT ![v] = {}] /\ unmasking' = [unmasking EXCEPT ![v] = None]
          BY <3>3, UnmaskWriteEffect
        <4>2. ~(None < W)
          BY VgicAssumption DEF None
        <4>3. QED BY <4>1, <4>2
      <3>4. QED BY <1>1, <3>1, <3>2, <3>3 DEF Access
    <2>3. ASSUME NEW o \in Vcpus, unmasking'[o] < W
          PROVE  x'[o] = {b \in Bits : <<o, b>> \in enabled'}
      <3>1. CASE o = v
        BY <2>2, <2>3, <3>1
      <3>2. CASE o # v
        <4>1. x[o] = {b \in Bits : <<o, b>> \in enabled}
          BY <2>2, <2>3, <3>2 DEF IInv, CopyIsCurrent
        <4>2. \A b \in Bits : <<o, b>> \in enabled' <=> <<o, b>> \in enabled
          BY <2>1, <3>2 DEF Effect, Private, Bits
        <4>3. QED BY <2>2, <3>2, <4>1, <4>2
      <3>3. QED BY <3>1, <3>2
    <2>4. QED BY <2>1, <2>2, <2>3 DEF IInv, TypeOK, ConfigIsHardware, CopyIsCurrent, Effect
  <1>2. CASE UNCHANGED vars
    BY <1>2 DEF vars, config, hardware, IInv, TypeOK, ConfigIsHardware, CopyIsCurrent
  <1>3. QED BY <1>1, <1>2 DEF Next

-----------------------------------------------------------------------------
\* vgicd_*, vgicr_* and the guest's unmasking: the inductive invariant holds in
\* every state, whatever the vCPUs write and however their accesses interleave.
THEOREM Invariance == Spec => []IInv
  BY InitIInv, StepIInv, PTL DEF Spec

\* The registers keep to their ranges, and no access leaves the VM's interrupts.
THEOREM TypeCorrect == Spec => []TypeOK
  BY Invariance, PTL DEF IInv

\* The enable bits of the emulated configuration are those of the physical GIC,
\* for every interrupt of every core.
THEOREM ConfigMatches == Spec => []ConfigIsHardware
  BY Invariance, PTL DEF IInv

\* No access of a vCPU changes an SGI or PPI of another, in the configuration
\* of the VM or in the GIC.
THEOREM PrivateKept == Spec => PrivateStaysPrivate
  <1>1. ASSUME IInv, IInv',
               NEW v \in Vcpus, NEW o \in Vcpus, v # o, Access(v), NEW i \in Private
        PROVE  /\ <<o, i>> \in enabled' <=> <<o, i>> \in enabled
               /\ <<o, i>> \in hw_enabled' <=> <<o, i>> \in hw_enabled
               /\ priority'[<<o, i>>] = priority[<<o, i>>]
    BY <1>1, AccessEffect DEF Effect, IInv, ConfigIsHardware
  <1>2. IInv /\ IInv' =>
          [\A v, o \in Vcpus : v # o /\ Access(v) =>
             \A i \in Private :
               /\ <<o, i>> \in enabled' <=> <<o, i>> \in enabled
               /\ <<o, i>> \in hw_enabled' <=> <<o, i>> \in hw_enabled
               /\ priority'[<<o, i>>] = priority[<<o, i>>]]_vars
    BY <1>1
  <1>3. QED BY <1>2, Invariance, PTL DEF PrivateStaysPrivate

\* The guest's gic_enable_int of an SGI or PPI, a read and a write of
\* GICR_ISENABLER0, enables that interrupt and no other, whatever the other
\* vCPUs do between the two.
THEOREM UnmaskExact == Spec => UnmaskIsExact
  <1>1. ASSUME IInv, [Next]_vars,
               NEW v \in Vcpus, unmasking[v] < W, unmasking'[v] = None
        PROVE  hw_enabled' = hw_enabled \cup {<<v, unmasking[v]>>}
    <2>1. unmasking'[v] # unmasking[v]
      BY <1>1, VgicAssumption DEF None
    <2>2. PICK o \in Vcpus : Access(o)
      BY <1>1, <2>1 DEF Next, vars
    <2>3. unmasking \in [Vcpus -> Private \cup Spis \cup {None}] /\ unmasking[v] # None
      BY <1>1, <2>1 DEF IInv, TypeOK
    <2>4. ~Direct(o)
      BY <1>1, <2>1, DirectEffect
    <2>5. ASSUME NEW i \in Private \cup Spis, UnmaskRead(o, i) PROVE FALSE
      <3>1. unmasking[o] = None /\ unmasking' = [unmasking EXCEPT ![o] = i]
        BY <1>1, <2>5, UnmaskReadEffect
      <3>2. QED BY <2>1, <2>3, <3>1
    <2>6. UnmaskWrite(o) /\ o = v
      <3>1. UnmaskWrite(o)
        BY <2>2, <2>4, <2>5 DEF Access
      <3>2. unmasking' = [unmasking EXCEPT ![o] = None]
        BY <1>1, <3>1, UnmaskWriteEffect
      <3>3. QED BY <2>1, <2>3, <3>1, <3>2
    <2>7. hw_enabled' = hw_enabled \cup {<<v, b>> : b \in x[v] \cup {unmasking[v]}}
      BY <1>1, <2>6, UnmaskWriteEffect
    <2>8. \A b \in x[v] : <<v, b>> \in hw_enabled
      BY <1>1 DEF IInv, CopyIsCurrent, ConfigIsHardware
    <2>9. QED BY <2>7, <2>8
  <1>2. IInv /\ [Next]_vars =>
          [\A v \in Vcpus :
             unmasking[v] < W /\ unmasking'[v] = None =>
               hw_enabled' = hw_enabled \cup {<<v, unmasking[v]>>}]_vars
    BY <1>1
  <1>3. QED BY <1>2, Invariance, PTL DEF UnmaskIsExact, Spec
=============================================================================
