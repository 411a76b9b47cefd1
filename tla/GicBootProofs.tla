---------------------------- MODULE GicBootProofs ----------------------------
(***************************************************************************)
(* Proofs about GicBoot, for any cores, any number of interrupt registers  *)
(* and any state the firmware leaves.                                      *)
(***************************************************************************)
EXTENDS GicBoot, TLAPS

(* An interrupt is private to its core or an SPI of core Primary.          *)
LEMMA IrqFacts ==
  /\ \A c \in Cores : Private(c) \in Irqs /\ Private(c)[1] = c /\ Private(c) \notin Spis
  /\ \A i \in Spis : i \in Irqs /\ i[1] = Primary
  /\ \A i \in Irqs : i[1] \in Cores
  /\ \A i \in Irqs : i \in Spis \/ i = Private(i[1])
  /\ \A r \in 1..(NRegs - 1) : Spi(r) \in Spis
  /\ \A r, s \in 1..(NRegs - 1) : Spi(r) = Spi(s) => r = s
  /\ \A i \in Spis : \E r \in 1..(NRegs - 1) : i = Spi(r)
  BY BootAssumption DEF Irqs, Spis, Spi, Private

LEMMA InitIInv == Init => IInv
  <1> SUFFICES ASSUME Init PROVE IInv
    OBVIOUS
  <1> USE IrqFacts, BootAssumption DEF Init
  <1>1. TypeOK
    <2>1. reg \in 1..NRegs
      OBVIOUS
    <2>2. pc \in [Cores -> HypLabels \cup Guest]
      BY DEF Guest, HypLabels
    <2>3. redist \in [Cores -> {"asleep", "waking", "awake"}]
      OBVIOUS
    <2>4. QED BY <2>1, <2>2, <2>3 DEF TypeOK
  <1>2. BootOrder
    BY DEF BootOrder, Guest
  <1>3. QuietUntilGuest /\ ActiveIsServed
    BY DEF QuietUntilGuest, ActiveIsServed, Ready, Guest
  <1>4. QED BY <1>1, <1>2, <1>3 DEF IInv

LEMMA StepType == TypeOK /\ BootOrder /\ [Next]_vars => TypeOK'
  <1> SUFFICES ASSUME TypeOK, BootOrder, [Next]_vars PROVE TypeOK'
    OBVIOUS
  <1> USE IrqFacts, BootAssumption
          DEF TypeOK, HypLabels, Guest, Goto, state, dev, cpuif
  <1>1. ASSUME RwpDone PROVE TypeOK'
    BY <1>1 DEF RwpDone
  <1>2. ASSUME NEW c \in Cores, ChildrenWake(c) \/ Wake(c) PROVE TypeOK'
    BY <1>2 DEF ChildrenWake, Wake
  <1>3. ASSUME NEW c \in Cores, DistOff(c) \/ DistOn(c) \/ AwaitRwp(c) PROVE TypeOK'
    <2>1. 1 \in 1..NRegs
      OBVIOUS
    <2>2. QED BY <1>3, <2>1 DEF DistOff, DistOn, AwaitRwp
  <1>4. ASSUME NEW c \in Cores, InitSpis(c) PROVE TypeOK'
    BY <1>4 DEF InitSpis
  <1>5. ASSUME NEW c \in Cores, AwaitChildren(c) \/ IrqEnable(c) \/ EnterGuest(c) \/ PowerOn(c)
               \/ GuestIrqEnable(c)
        PROVE  TypeOK'
    BY <1>5 DEF AwaitChildren, IrqEnable, EnterGuest, PowerOn, GuestIrqEnable
  <1>6. ASSUME NEW c \in Cores, InitPrivate(c) PROVE TypeOK'
    BY <1>6 DEF InitPrivate
  <1>7. ASSUME NEW c \in Cores, IccInit(c) PROVE TypeOK'
    BY <1>7 DEF IccInit
  <1>8. ASSUME NEW c \in Cores, GuestDistInit(c) PROVE TypeOK'
    BY <1>8 DEF GuestDistInit
  <1>9. ASSUME NEW c \in Cores, GuestUnmask(c) \/ EnablePrivate(c) PROVE TypeOK'
    BY <1>9 DEF GuestUnmask, EnablePrivate
  <1>10. ASSUME NEW c \in Cores, NEW targets \in SUBSET Cores, SendSgi(c, targets) PROVE TypeOK'
    BY <1>10 DEF SendSgi
  <1>11. ASSUME NEW i \in Spis, LineUp(i) PROVE TypeOK'
    BY <1>11 DEF LineUp
  <1>12. ASSUME NEW i \in Irqs, Take(i) \/ Complete(i) PROVE TypeOK'
    BY <1>12 DEF Take, Complete
  <1>13. CASE UNCHANGED vars
    BY <1>13 DEF vars
  <1>14. QED
    BY <1>1, <1>2, <1>3, <1>4, <1>5, <1>6, <1>7, <1>8, <1>9, <1>10, <1>11, <1>12, <1>13
       DEF Next, Hyp, GuestBoot

LEMMA StepBootOrder == TypeOK /\ BootOrder /\ [Next]_vars => BootOrder'
  <1> SUFFICES ASSUME TypeOK, BootOrder, [Next]_vars PROVE BootOrder'
    OBVIOUS
  <1> USE BootAssumption DEF TypeOK, BootOrder, Guest, Goto, cpuif
  <1>1. ASSUME NEW c \in Cores, DistOff(c) \/ DistOn(c) \/ AwaitRwp(c) \/ InitSpis(c)
        PROVE  BootOrder'
    BY <1>1 DEF DistOff, DistOn, AwaitRwp, InitSpis
  <1>2. ASSUME NEW c \in Cores, Wake(c) \/ AwaitChildren(c) \/ InitPrivate(c) \/ IrqEnable(c)
               \/ EnterGuest(c)
        PROVE  BootOrder'
    BY <1>2 DEF Wake, AwaitChildren, InitPrivate, IrqEnable, EnterGuest
  <1>3. ASSUME NEW c \in Cores, IccInit(c) PROVE BootOrder'
    BY <1>3 DEF IccInit
  <1>4. ASSUME NEW c \in Cores, PowerOn(c) \/ GuestUnmask(c) \/ GuestIrqEnable(c) \/ GuestDistInit(c)
        PROVE  BootOrder'
    BY <1>4 DEF PowerOn, GuestUnmask, GuestIrqEnable, GuestDistInit
  <1>5. CASE UNCHANGED <<pc, reg, split>>
    BY <1>5
  <1>6. QED
    BY <1>1, <1>2, <1>3, <1>4, <1>5 DEF Next, Hyp, GuestBoot, RwpDone, ChildrenWake,
       EnablePrivate, SendSgi, LineUp, Take, Complete, vars

-----------------------------------------------------------------------------
LEMMA StepQuiet == IInv /\ [Next]_vars => QuietUntilGuest' /\ ActiveIsServed'
  <1> SUFFICES ASSUME IInv, [Next]_vars PROVE QuietUntilGuest' /\ ActiveIsServed'
    OBVIOUS
  <1> USE IrqFacts, BootAssumption
          DEF IInv, TypeOK, BootOrder, QuietUntilGuest, ActiveIsServed, Quiet, Ready, Guest, Goto
  <1>1. ASSUME NEW c \in Cores, DistOff(c) \/ AwaitRwp(c)
        PROVE  QuietUntilGuest' /\ ActiveIsServed'
    BY <1>1 DEF DistOff, AwaitRwp, state, dev
  <1>2. ASSUME NEW c \in Cores, InitSpis(c)
        PROVE  QuietUntilGuest' /\ ActiveIsServed'
    BY <1>2 DEF InitSpis, dev
  <1>3. ASSUME NEW c \in Cores, DistOn(c)
        PROVE  QuietUntilGuest' /\ ActiveIsServed'
    BY <1>3 DEF DistOn, state, dev
  <1>4. ASSUME NEW c \in Cores, Wake(c) \/ AwaitChildren(c) \/ IrqEnable(c) \/ IccInit(c)
        PROVE  QuietUntilGuest' /\ ActiveIsServed'
    BY <1>4 DEF Wake, AwaitChildren, IrqEnable, IccInit, state, dev
  <1>5. ASSUME NEW c \in Cores, EnterGuest(c)
        PROVE  QuietUntilGuest' /\ ActiveIsServed'
    BY <1>5 DEF EnterGuest, state, dev
  <1>6. ASSUME NEW c \in Cores, InitPrivate(c)
        PROVE  QuietUntilGuest' /\ ActiveIsServed'
    BY <1>6 DEF InitPrivate, dev
  <1>7. ASSUME NEW c \in Cores, PowerOn(c) \/ GuestIrqEnable(c)
        PROVE  QuietUntilGuest' /\ ActiveIsServed'
    BY <1>7 DEF PowerOn, GuestIrqEnable, state, dev
  <1>8. ASSUME NEW c \in Cores, GuestDistInit(c) \/ GuestUnmask(c)
        PROVE  QuietUntilGuest' /\ ActiveIsServed'
    BY <1>8 DEF GuestDistInit, GuestUnmask, dev
  <1>9. ASSUME NEW c \in Cores, EnablePrivate(c)
        PROVE  QuietUntilGuest' /\ ActiveIsServed'
    BY <1>9 DEF EnablePrivate, dev
  <1>10. ASSUME NEW i \in Irqs, Take(i) \/ Complete(i)
         PROVE  QuietUntilGuest' /\ ActiveIsServed'
    BY <1>10 DEF Take, Complete
  <1>11. CASE UNCHANGED <<enabled, active, served, pc, reg>>
    BY <1>11
  <1>12. QED
    BY <1>1, <1>2, <1>3, <1>4, <1>5, <1>6, <1>7, <1>8, <1>9, <1>10, <1>11
       DEF Next, Hyp, GuestBoot, RwpDone, ChildrenWake, SendSgi, LineUp, vars, state, dev
-----------------------------------------------------------------------------
(* The inductive invariant of the boot.                                    *)
THEOREM Invariance == Spec => []IInv
  <1>1. IInv /\ [Next]_vars => IInv'
    BY StepType, StepBootOrder, StepQuiet DEF IInv
  <1>2. QED BY InitIInv, <1>1, PTL DEF Spec

(* The boot keeps the types.                                               *)
THEOREM TypeCorrect == Spec => []TypeOK
  <1>1. IInv => TypeOK
    BY DEF IInv
  <1>2. QED BY Invariance, <1>1, PTL

(* No interrupt arrives at EL2 between irq_enable and the entry of the     *)
(* guest, on no core, whatever state the firmware left the GIC in.         *)
THEOREM QuietAtEl2 == Spec => []NoIrqAtEl2
  <1>1. IInv => NoIrqAtEl2
    BY DEF IInv, QuietUntilGuest, Quiet, NoIrqAtEl2, Signalled, Ready, Guest
  <1>2. QED BY Invariance, <1>1, PTL

(* In a guest the active interrupts are those it is serving.               *)
THEOREM ActiveAreServed == Spec => []ActiveIsServed
  <1>1. IInv => ActiveIsServed
    BY DEF IInv
  <1>2. QED BY Invariance, <1>1, PTL

-----------------------------------------------------------------------------
(* What one step leaves of the interrupts of the cores that are ready (the *)
(* body of GuestsUndisturbed).                                             *)
Undisturbed ==
  \A i \in Irqs : pc[i[1]] \in Ready =>
    /\ i \in enabled => i \in enabled'
    /\ i \in latch => i \in latch' \cup served'

LEMMA StepUndisturbed == IInv /\ [Next]_vars => [Undisturbed]_vars
  <1> SUFFICES ASSUME IInv, Next PROVE Undisturbed
    BY DEF Undisturbed, vars
  <1> USE IrqFacts, BootAssumption DEF IInv, BootOrder, Undisturbed, Ready, Guest, Goto
  <1>1. ASSUME NEW c \in Cores, InitSpis(c) PROVE Undisturbed
    BY <1>1 DEF InitSpis, TypeOK
  <1>2. ASSUME NEW c \in Cores, InitPrivate(c) PROVE Undisturbed
    BY <1>2 DEF InitPrivate
  <1>3. ASSUME NEW c \in Cores, GuestDistInit(c) \/ GuestUnmask(c) \/ EnablePrivate(c)
        PROVE  Undisturbed
    BY <1>3 DEF GuestDistInit, GuestUnmask, EnablePrivate
  <1>4. ASSUME NEW c \in Cores, NEW targets \in SUBSET Cores, SendSgi(c, targets)
        PROVE  Undisturbed
    BY <1>4 DEF SendSgi
  <1>5. ASSUME NEW i \in Irqs, Take(i) \/ Complete(i) PROVE Undisturbed
    BY <1>5 DEF Take, Complete
  <1>6. CASE UNCHANGED <<enabled, latch>>
    BY <1>6
  <1>7. QED
    BY <1>1, <1>2, <1>3, <1>4, <1>5, <1>6
       DEF Next, Hyp, GuestBoot, RwpDone, ChildrenWake, DistOff, AwaitRwp, DistOn, Wake,
           AwaitChildren, IccInit, IrqEnable, EnterGuest, PowerOn, GuestIrqEnable, LineUp, state

(* No core's initialisation, whenever it runs, disables an interrupt of a  *)
(* core that is ready or drops one that is pending there.                  *)
THEOREM BootsApart == Spec => GuestsUndisturbed
  <1>1. IInv /\ [Next]_vars => [Undisturbed]_vars
    BY StepUndisturbed
  <1>2. QED BY Invariance, <1>1, PTL DEF Spec, GuestsUndisturbed, Undisturbed
=============================================================================
