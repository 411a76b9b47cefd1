------------------------------ MODULE VirtIrq -------------------------------
(***************************************************************************)
(* Forwarding physical interrupts to the vCPU of one core: the IRQ vector  *)
(* from EL1 (el1_irq_proc in el1_sync.c), the bookkeeping of the list      *)
(* registers (virq_enter, alloc_lr, virq_inject in vgicv3.c), the GIC CPU  *)
(* interface they drive (gicv3.c), and the guest's interrupt handler       *)
(* (guest/main.c).  A vCPU never leaves its core and IRQs are masked at    *)
(* EL2, so only the devices run concurrently with a handler.               *)
(***************************************************************************)
EXTENDS Integers, FiniteSets

CONSTANTS
  Irqs,         \* the INTIDs that are enabled and routed to this core
  Edge,         \* those latched by an edge (SGIs); the others are level lines
  Retractable,  \* level lines that can fall before they are acknowledged
  Spurious,     \* INTID 1023, what ICC_IAR1_EL1 returns when nothing pends
  NumLRs,       \* gic_max_lrs, from ICH_VTR_EL2
  MaxRaises     \* bound: how often the devices raise an interrupt

ASSUME IrqAssumption ==
  /\ IsFiniteSet(Irqs)
  /\ Edge \subseteq Irqs
  /\ Retractable \subseteq Irqs \ Edge
  /\ Spurious \notin Irqs
  /\ NumLRs \in Nat
  /\ MaxRaises \in Nat

LRs == 0..(NumLRs - 1)

VARIABLES
  pend,     \* interrupts pending at the distributor or redistributor
  act,      \* interrupts active there
  raised,   \* how many the devices have raised, for the bound
  lrs,      \* ICH_LR<n>_EL2: state and virtual (= physical) INTID
  used,     \* vgic_cpu->used_lr
  pc,       \* "guest", or the call el1_irq_proc makes next
  iar,      \* what gicv3_ops.get_irq returned
  gpc,      \* where the guest's interrupt handler stands
  gack      \* the INTID the guest acknowledged

gic   == <<pend, act, raised>>
hyp   == <<used, pc, iar>>
guest == <<gpc, gack>>
vars  == <<gic, lrs, hyp, guest>>

IntIds == Irqs \cup {Spurious}
Empty  == [state |-> "invalid", irq |-> Spurious]

Init ==
  /\ pend = {}
  /\ act = {}
  /\ raised = 0
  /\ lrs = [n \in LRs |-> Empty]
  /\ used = {}
  /\ pc = "guest"
  /\ iar = Spurious
  /\ gpc = "run"
  /\ gack = Spurious

-----------------------------------------------------------------------------
(* The devices                                                             *)

Raise(i) ==
  /\ raised < MaxRaises
  /\ i \notin pend
  /\ pend' = pend \cup {i}
  /\ raised' = raised + 1
  /\ UNCHANGED <<act, lrs, hyp, guest>>

\* A level line falls: another core drained the device, or disabled it.
Retract(i) ==
  /\ i \in pend
  /\ pend' = pend \ {i}
  /\ UNCHANGED <<act, raised, lrs, hyp, guest>>

-----------------------------------------------------------------------------
(* el1_irq_proc                                                            *)

\* HCR_EL2.IMO: a pending interrupt takes the core to EL2 wherever the guest
\* is, its own handler included.
Trap ==
  /\ pc = "guest"
  /\ pend \ act # {}
  /\ pc' = "virq_enter"
  /\ UNCHANGED <<gic, lrs, used, iar, guest>>

\* Mutant: only the active bit of an entry is tested.
VirqEnterActiveOnly ==
  /\ pc = "virq_enter"
  /\ used' = {n \in used : lrs[n].state = "active"}
  /\ pc' = "get_irq"
  /\ UNCHANGED <<gic, lrs, iar, guest>>

\* Mutant: used_lr is never cleared.
VirqEnterSkipped ==
  /\ pc = "virq_enter"
  /\ pc' = "get_irq"
  /\ UNCHANGED <<gic, lrs, used, iar, guest>>

\* virq_enter: give back the list registers the hardware has emptied.
VirqEnter ==
  /\ pc = "virq_enter"
  /\ used' = {n \in used : lrs[n].state # "invalid"}
  /\ pc' = "get_irq"
  /\ UNCHANGED <<gic, lrs, iar, guest>>

\* Reading ICC_IAR1_EL1 activates a pending interrupt, if one is left.
GetIrq ==
  /\ pc = "get_irq"
  /\ \/ \E i \in pend \ act :
          /\ iar' = i
          /\ act' = act \cup {i}
          /\ pend' = pend \ ({i} \cap Edge)
     \/ /\ pend \ act = {}
        /\ iar' = Spurious
        /\ UNCHANGED <<pend, act>>
  /\ pc' = "guest_eoi"
  /\ UNCHANGED <<raised, lrs, used, guest>>

\* Mutant: hyp_eoi in place of guest_eoi, which deactivates as well.
HypEoi ==
  /\ pc = "guest_eoi"
  /\ act' = act \ {iar}
  /\ pc' = "virq_inject"
  /\ UNCHANGED <<pend, raised, lrs, used, iar, guest>>

\* gic_guest_eoi: with split EOImode the write to ICC_EOIR1_EL1 drops the
\* running priority only; the interrupt stays active.
GuestPriorityDrop ==
  /\ pc = "guest_eoi"
  /\ pc' = "virq_inject"
  /\ UNCHANGED <<gic, lrs, used, iar, guest>>

\* gic_create_lr, with the same physical and virtual INTID.
CreateLr(irq) == [state |-> "pending", irq |-> irq]

\* Mutant: the test of used_lr is dropped.
IsFirst(n) == n \in LRs /\ \A k \in LRs : n <= k

\* alloc_lr: the first register that is not marked used.
IsFirstFree(n) ==
  /\ n \in LRs \ used
  /\ \A k \in LRs \ used : n <= k

\* virq_inject writes a pending entry mapped to the hardware interrupt, or
\* aborts with "No List Register".
VirqInject ==
  /\ pc = "virq_inject"
  /\ \/ \E n \in LRs :
          /\ IsFirstFree(n)
          /\ used' = used \cup {n}
          /\ lrs' = [lrs EXCEPT ![n] = CreateLr(iar)]
          /\ pc' = "guest"
     \/ /\ LRs \subseteq used
        /\ pc' = "no_lr"
        /\ UNCHANGED <<lrs, used>>
  /\ UNCHANGED <<gic, iar, guest>>

-----------------------------------------------------------------------------
(* The guest and the virtual CPU interface                                 *)

\* The guest takes a virtual interrupt and reads ICV_IAR1_EL1.  An entry
\* with a special INTID goes from pending to invalid.
GuestAck ==
  /\ pc = "guest" /\ gpc = "run"
  /\ \E n \in LRs :
       /\ lrs[n].state = "pending"
       /\ gack' = lrs[n].irq
       /\ lrs' = [lrs EXCEPT ![n].state =
                     IF lrs[n].irq = Spurious THEN "invalid" ELSE "active"]
  /\ gpc' = "handler"
  /\ UNCHANGED <<gic, hyp>>

\* The device's handler lowers the line it serves.
GuestService ==
  /\ pc = "guest" /\ gpc = "handler"
  /\ pend' = pend \ ({gack} \ Edge)
  /\ gpc' = "eoi"
  /\ UNCHANGED <<act, raised, lrs, hyp, gack>>

\* Mutant: the entry is not mapped to hardware (LR_HW is missing).
GuestEoiNoHw ==
  /\ pc = "guest" /\ gpc = "eoi"
  /\ lrs' = [n \in LRs |-> IF lrs[n] = [state |-> "active", irq |-> gack]
                           THEN [state |-> "invalid", irq |-> gack] ELSE lrs[n]]
  /\ gpc' = "run"
  /\ UNCHANGED <<gic, hyp, gack>>

\* guest_eoi of the guest: ICV_EOIR1_EL1 and ICV_DIR_EL1.  Deactivating an
\* entry mapped to hardware deactivates the physical interrupt too.
GuestEoi ==
  /\ pc = "guest" /\ gpc = "eoi"
  /\ lrs' = [n \in LRs |-> IF lrs[n] = [state |-> "active", irq |-> gack]
                           THEN [state |-> "invalid", irq |-> gack] ELSE lrs[n]]
  /\ act' = act \ {gack}
  /\ gpc' = "run"
  /\ UNCHANGED <<pend, raised, hyp, gack>>

-----------------------------------------------------------------------------
HypSteps   == VirqEnter \/ GetIrq \/ GuestPriorityDrop \/ VirqInject
GuestSteps == GuestAck \/ GuestService \/ GuestEoi

Next ==
  \/ \E i \in Irqs : Raise(i)
  \/ \E i \in Retractable : Retract(i)
  \/ Trap \/ HypSteps \/ GuestSteps

Spec == Init /\ [][Next]_vars

\* The hardware delivers IRQs to EL2, the hypervisor runs its handler to the
\* end, and a guest with unmasked interrupts runs its own.
FairSpec == Spec /\ WF_vars(Trap) /\ WF_vars(HypSteps) /\ WF_vars(GuestSteps)

-----------------------------------------------------------------------------
(* Properties                                                              *)

LRStates == {"invalid", "pending", "active"}
HypLabels == {"guest", "virq_enter", "get_irq", "guest_eoi", "virq_inject", "no_lr"}

TypeOK ==
  /\ pend \subseteq Irqs
  /\ act \subseteq Irqs
  /\ raised \in 0..MaxRaises
  /\ lrs \in [LRs -> [state : LRStates, irq : IntIds]]
  /\ used \subseteq LRs
  /\ pc \in HypLabels
  /\ iar \in IntIds
  /\ gpc \in {"run", "handler", "eoi"}
  /\ gack \in IntIds

Live == {n \in LRs : lrs[n].state # "invalid"}
HoldsIrq(n, i) == n \in Live /\ lrs[n].irq = i

\* Interrupt i has been acknowledged at EL2 and is not in a list register yet.
InFlight(i) == pc \in {"guest_eoi", "virq_inject", "no_lr"} /\ iar = i

\* What the comment of virq_enter promises (vgicv3.c:56): used_lr never calls
\* a register free that the hardware still uses, and once virq_enter has run
\* it calls none used that the hardware has emptied.
UsedMatchesHardware ==
  /\ Live \subseteq used
  /\ pc \in {"get_irq", "guest_eoi", "virq_inject"} => used = Live

\* No interrupt sits in two list registers, which the GIC forbids.
OneRegisterEach ==
  \A m, n \in Live : lrs[m].irq = lrs[n].irq /\ lrs[m].irq # Spurious => m = n

\* The physical active state is neither leaked nor dropped early: an interrupt
\* is active exactly while it is on its way to a list register or in one, so
\* it can neither come in twice nor be blocked for ever.
ActiveAccounted ==
  \A i \in Irqs :
    /\ i \in act <=> InFlight(i) \/ \E n \in LRs : HoldsIrq(n, i)
    /\ InFlight(i) => ~\E n \in LRs : HoldsIrq(n, i)

\* A virtual interrupt leaves its list register only by being acknowledged
\* and then completed by the guest: no injection overwrites another.
NeverOverwritten ==
  [][\A n \in Live :
       lrs'[n] # lrs[n] =>
         /\ pc = "guest"
         /\ lrs'[n].irq = lrs[n].irq
         /\ lrs[n].irq = IF lrs[n].state = "pending" THEN gack' ELSE gack]_vars

\* The guest's handler and the active entry go together.
GuestInService ==
  /\ \A n \in LRs : lrs[n].state = "active" =>
       gpc # "run" /\ gack = lrs[n].irq /\ gack \in Irqs
  /\ gpc # "run" /\ gack \in Irqs =>
       \E n \in LRs : lrs[n] = [state |-> "active", irq |-> gack]

\* The strengthening that makes the safety properties inductive.
IInv ==
  /\ TypeOK
  /\ UsedMatchesHardware
  /\ OneRegisterEach
  /\ ActiveAccounted
  /\ GuestInService

\* With a list register for every interrupt, "No List Register" (vgicv3.c:93)
\* is only reached with an acknowledged spurious interrupt among those in flight.
RegisterAvailable ==
  pc = "no_lr" => iar = Spurious \/ \E n \in Live : lrs[n].irq = Spurious

\* An interrupt that waits anywhere between the device and the guest, and that
\* its device does not withdraw, is eventually handled by the guest, unless the
\* core stops for want of a list register.
Undelivered(i) ==
  \/ i \in pend \ Retractable
  \/ InFlight(i)
  \/ \E n \in LRs : lrs[n] = [state |-> "pending", irq |-> i]

Delivered ==
  \A i \in Irqs : Undelivered(i) ~> (gpc = "handler" /\ gack = i) \/ pc = "no_lr"

-----------------------------------------------------------------------------
(* What the guest and the devices see of all this.                         *)

given == {i \in Irqs : InFlight(i) \/ \E n \in LRs : lrs[n] = [state |-> "pending", irq |-> i]}
serving == IF gpc # "run" /\ gack \in Irqs THEN gack ELSE Spurious

Abstract == INSTANCE IrqDelivery WITH waiting <- pend, None <- Spurious

\* Forwarding through list registers is IrqDelivery: every interrupt that is taken
\* reaches the guest's acknowledge, once, and is not taken again before its
\* completion; injecting, giving back registers and spurious ones change nothing.
ImplementsDelivery == Abstract!Spec
=============================================================================
