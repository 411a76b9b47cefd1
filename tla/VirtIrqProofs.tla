--------------------------- MODULE VirtIrqProofs ----------------------------
(***************************************************************************)
(* Proofs about VirtIrq, for any interrupts, any number of list registers  *)
(* and any number of raises.                                               *)
(***************************************************************************)
EXTENDS VirtIrq, FiniteSetTheorems, TLAPS

LEMMA InitIInv == Init => IInv
  BY IrqAssumption DEF Init, IInv, TypeOK, UsedMatchesHardware, OneRegisterEach,
     ActiveAccounted, GuestInService, Live, HoldsIrq, InFlight, Empty, IntIds,
     LRStates, HypLabels

LEMMA StepIInv == IInv /\ [Next]_vars => IInv'
  <1> SUFFICES ASSUME IInv, [Next]_vars PROVE IInv'
    OBVIOUS
  <1> USE IrqAssumption DEF IInv, IntIds, LRStates, HypLabels, gic, hyp, guest
  <1>1. ASSUME NEW i \in Irqs, Raise(i) PROVE IInv'
    BY <1>1 DEF Raise, TypeOK, UsedMatchesHardware, OneRegisterEach,
       ActiveAccounted, GuestInService, Live, HoldsIrq, InFlight
  <1>2. ASSUME NEW i \in Retractable, Retract(i) PROVE IInv'
    BY <1>2 DEF Retract, TypeOK, UsedMatchesHardware, OneRegisterEach,
       ActiveAccounted, GuestInService, Live, HoldsIrq, InFlight
  <1>3. ASSUME Trap PROVE IInv'
    BY <1>3 DEF Trap, TypeOK, UsedMatchesHardware, OneRegisterEach,
       ActiveAccounted, GuestInService, Live, HoldsIrq, InFlight
  <1>4. ASSUME VirqEnter PROVE IInv'
    BY <1>4 DEF VirqEnter, TypeOK, UsedMatchesHardware, OneRegisterEach,
       ActiveAccounted, GuestInService, Live, HoldsIrq, InFlight
  <1>5. ASSUME GetIrq PROVE IInv'
    BY <1>5 DEF GetIrq, TypeOK, UsedMatchesHardware, OneRegisterEach,
       ActiveAccounted, GuestInService, Live, HoldsIrq, InFlight
  <1>6. ASSUME GuestPriorityDrop PROVE IInv'
    BY <1>6 DEF GuestPriorityDrop, TypeOK, UsedMatchesHardware, OneRegisterEach,
       ActiveAccounted, GuestInService, Live, HoldsIrq, InFlight
  <1>7. ASSUME VirqInject PROVE IInv'
    <2>1. CASE LRs \subseteq used /\ pc' = "no_lr" /\ UNCHANGED <<lrs, used>>
      BY <1>7, <2>1 DEF VirqInject, TypeOK, UsedMatchesHardware, OneRegisterEach,
         ActiveAccounted, GuestInService, Live, HoldsIrq, InFlight
    <2>2. ASSUME NEW n \in LRs, IsFirstFree(n), used' = used \cup {n}, pc' = "guest",
                 lrs' = [lrs EXCEPT ![n] = CreateLr(iar)]
          PROVE  IInv'
      <3>1. pc = "virq_inject" /\ InFlight(iar)
        BY <1>7 DEF VirqInject, InFlight
      <3>2. n \notin Live
        BY <2>2, <3>1 DEF IsFirstFree, UsedMatchesHardware
      <3>3. lrs'[n] = [state |-> "pending", irq |-> iar]
            /\ \A m \in LRs : m # n => lrs'[m] = lrs[m]
        BY <2>2 DEF CreateLr, TypeOK
      <3>4. Live' = Live \cup {n}
        BY <3>3 DEF Live
      <3>5. iar \in IntIds /\ (iar \in Irqs => \A m \in Live : lrs[m].irq # iar)
        BY <3>1 DEF ActiveAccounted, HoldsIrq, TypeOK, Live
      <3>6. TypeOK'
        BY <1>7, <2>2, <3>5 DEF VirqInject, TypeOK, CreateLr
      <3>7. UsedMatchesHardware'
        BY <2>2, <3>4 DEF UsedMatchesHardware
      <3>8. OneRegisterEach'
        BY <3>2, <3>3, <3>4, <3>5 DEF OneRegisterEach, Live
      <3>9. ActiveAccounted'
        BY <1>7, <2>2, <3>1, <3>2, <3>3, <3>4 DEF VirqInject, ActiveAccounted, InFlight,
           HoldsIrq, Live
      <3>10. GuestInService'
        BY <1>7, <3>2, <3>3 DEF VirqInject, GuestInService, Live
      <3>11. QED BY <3>6, <3>7, <3>8, <3>9, <3>10
    <2>3. QED BY <1>7, <2>1, <2>2 DEF VirqInject
  <1>8. ASSUME GuestAck PROVE IInv'
    <2>1. PICK n \in LRs :
            /\ lrs[n].state = "pending"
            /\ gack' = lrs[n].irq
            /\ lrs' = [lrs EXCEPT ![n].state =
                          IF lrs[n].irq = Spurious THEN "invalid" ELSE "active"]
      BY <1>8 DEF GuestAck
    <2>2. /\ lrs'[n].irq = lrs[n].irq
          /\ lrs'[n].state = IF lrs[n].irq = Spurious THEN "invalid" ELSE "active"
          /\ \A m \in LRs : m # n => lrs'[m] = lrs[m]
          /\ lrs'[n] = [state |-> lrs'[n].state, irq |-> lrs[n].irq]
      BY <2>1 DEF TypeOK
    <2>3. lrs[n].irq \in IntIds
      BY <2>1 DEF TypeOK
    <2>4. TypeOK'
      BY <1>8, <2>1, <2>3 DEF GuestAck, TypeOK
    <2>5. Live' = IF lrs[n].irq = Spurious THEN Live \ {n} ELSE Live
      BY <2>1, <2>2 DEF Live
    <2>6. UsedMatchesHardware'
      BY <1>8, <2>5 DEF GuestAck, UsedMatchesHardware
    <2>7. OneRegisterEach'
      BY <2>2, <2>5 DEF OneRegisterEach, Live
    <2>8. \A i \in Irqs : \A m \in LRs : HoldsIrq(m, i)' <=> HoldsIrq(m, i)
      BY <2>1, <2>2, <2>5 DEF HoldsIrq, Live
    <2>9. ActiveAccounted'
      BY <1>8, <2>8 DEF GuestAck, ActiveAccounted, InFlight
    <2>10. GuestInService'
      BY <1>8, <2>1, <2>2, <2>3 DEF GuestAck, GuestInService
    <2>11. QED BY <2>4, <2>6, <2>7, <2>9, <2>10
  <1>9. ASSUME GuestService PROVE IInv'
    BY <1>9 DEF GuestService, TypeOK, UsedMatchesHardware, OneRegisterEach,
       ActiveAccounted, GuestInService, Live, HoldsIrq, InFlight
  <1>10. ASSUME GuestEoi PROVE IInv'
    <2> DEFINE Acked == [state |-> "active", irq |-> gack]
    <2>1. \A n \in LRs : /\ lrs'[n].irq = lrs[n].irq
                         /\ lrs[n] = Acked => lrs'[n].state = "invalid"
                         /\ lrs[n] # Acked => lrs'[n] = lrs[n]
      BY <1>10 DEF GuestEoi, TypeOK
    <2>2. TypeOK'
      BY <1>10 DEF GuestEoi, TypeOK
    <2>3. Live' = {n \in Live : lrs[n] # Acked}
      BY <2>1 DEF Live
    <2>4. UsedMatchesHardware'
      BY <1>10, <2>3 DEF GuestEoi, UsedMatchesHardware
    <2>5. OneRegisterEach'
      BY <2>1, <2>3 DEF OneRegisterEach, Live
    <2>6. \A n \in LRs, i \in Irqs : HoldsIrq(n, i)' <=> HoldsIrq(n, i) /\ i # gack
      <3> TAKE n \in LRs, i \in Irqs
      <3>1. CASE i # gack
        BY <2>1, <2>3, <3>1 DEF HoldsIrq, Live
      <3>2. CASE i = gack /\ HoldsIrq(n, i)
        <4>1. PICK m \in LRs : lrs[m] = Acked
          BY <1>10, <3>2 DEF GuestEoi, GuestInService
        <4>2. m = n
          BY <3>2, <4>1 DEF HoldsIrq, OneRegisterEach, Live
        <4>3. QED BY <2>3, <3>2, <4>1, <4>2 DEF HoldsIrq
      <3>3. CASE i = gack /\ ~HoldsIrq(n, i)
        BY <2>1, <2>3, <3>3 DEF HoldsIrq, Live
      <3>4. QED BY <3>1, <3>2, <3>3
    <2>7. ActiveAccounted'
      BY <1>10, <2>6 DEF GuestEoi, ActiveAccounted, InFlight
    <2>8. GuestInService'
      BY <1>10, <2>1 DEF GuestEoi, GuestInService, TypeOK
    <2>9. QED BY <2>2, <2>4, <2>5, <2>7, <2>8
  <1>11. CASE UNCHANGED vars
    BY <1>11 DEF vars, TypeOK, UsedMatchesHardware, OneRegisterEach,
       ActiveAccounted, GuestInService, Live, HoldsIrq, InFlight
  <1>12. QED
    BY <1>1, <1>2, <1>3, <1>4, <1>5, <1>6, <1>7, <1>8, <1>9, <1>10, <1>11
       DEF Next, HypSteps, GuestSteps

(* The inductive invariant of interrupt forwarding.                        *)
THEOREM Invariance == Spec => []IInv
  BY InitIInv, StepIInv, PTL DEF Spec

(* used_lr and the list registers agree whenever a register is chosen.     *)
THEOREM UsedIsRight == Spec => []UsedMatchesHardware
  <1>1. IInv => UsedMatchesHardware
    BY DEF IInv
  <1>2. QED BY Invariance, <1>1, PTL

(* No interrupt occupies two list registers.                               *)
THEOREM NoDuplicateEntry == Spec => []OneRegisterEach
  <1>1. IInv => OneRegisterEach
    BY DEF IInv
  <1>2. QED BY Invariance, <1>1, PTL

(* An interrupt is physically active exactly while it is being forwarded   *)
(* or sits in one list register.                                           *)
THEOREM ActiveIsAccounted == Spec => []ActiveAccounted
  <1>1. IInv => ActiveAccounted
    BY DEF IInv
  <1>2. QED BY Invariance, <1>1, PTL

-----------------------------------------------------------------------------
(* What one step may do to a live list register (the body of               *)
(* NeverOverwritten).                                                      *)
EntryKept ==
  \A n \in Live :
    lrs'[n] # lrs[n] =>
      /\ pc = "guest"
      /\ lrs'[n].irq = lrs[n].irq
      /\ lrs[n].irq = IF lrs[n].state = "pending" THEN gack' ELSE gack

(* No step writes a live entry but the guest's acknowledge and completion. *)
LEMMA StepKeepsEntries == IInv /\ [Next]_vars => [EntryKept]_vars
  <1> SUFFICES ASSUME IInv, Next PROVE EntryKept
    BY DEF EntryKept, vars
  <1> USE DEF IInv, gic, hyp, guest
  <1>1. CASE VirqInject
    <2>1. CASE UNCHANGED lrs
      BY <2>1 DEF EntryKept
    <2>2. ASSUME NEW n \in LRs, IsFirstFree(n), lrs' = [lrs EXCEPT ![n] = CreateLr(iar)]
          PROVE  EntryKept
      <3>1. n \notin Live
        BY <2>2 DEF IsFirstFree, UsedMatchesHardware
      <3>2. \A m \in LRs : m # n => lrs'[m] = lrs[m]
        BY <2>2 DEF TypeOK
      <3>3. QED BY <3>1, <3>2 DEF EntryKept, Live
    <2>3. QED BY <1>1, <2>1, <2>2 DEF VirqInject
  <1>2. CASE GuestAck
    <2>1. PICK n \in LRs :
            /\ lrs[n].state = "pending"
            /\ gack' = lrs[n].irq
            /\ lrs' = [lrs EXCEPT ![n].state =
                          IF lrs[n].irq = Spurious THEN "invalid" ELSE "active"]
      BY <1>2 DEF GuestAck
    <2>2. lrs'[n].irq = lrs[n].irq /\ \A m \in LRs : m # n => lrs'[m] = lrs[m]
      BY <2>1 DEF TypeOK
    <2>3. QED BY <1>2, <2>1, <2>2 DEF GuestAck, EntryKept, Live
  <1>3. CASE GuestEoi
    BY <1>3 DEF GuestEoi, EntryKept, Live, TypeOK
  <1>4. CASE UNCHANGED lrs
    BY <1>4 DEF EntryKept
  <1>5. QED
    BY <1>1, <1>2, <1>3, <1>4 DEF Next, HypSteps, GuestSteps, Raise, Retract, Trap,
       VirqEnter, GetIrq, GuestPriorityDrop, GuestService

(* No injected virtual interrupt is lost: its list register changes only   *)
(* when the guest acknowledges or completes that interrupt.                *)
THEOREM NoInterruptLost == Spec => NeverOverwritten
  <1>1. IInv /\ [Next]_vars => [EntryKept]_vars
    BY StepKeepsEntries
  <1>2. QED BY Invariance, <1>1, PTL DEF Spec, NeverOverwritten, EntryKept

-----------------------------------------------------------------------------
(* No spurious interrupt is in flight or in a list register.               *)
AllReal == iar \in Irqs /\ \A n \in Live : lrs[n].irq \in Irqs

(* While an interrupt is in flight, the others do not fill the registers.  *)
LEMMA RoomForOne ==
  ASSUME Cardinality(Irqs) <= NumLRs, IInv, AllReal, pc = "virq_inject"
  PROVE  ~(LRs \subseteq used)
  <1> SUFFICES ASSUME LRs \subseteq used PROVE FALSE
    OBVIOUS
  <1> DEFINE Others == Irqs \ {iar}
  <1> DEFINE f == [n \in LRs |-> lrs[n].irq]
  <1>1. Live = LRs
    BY DEF IInv, UsedMatchesHardware, TypeOK
  <1>2. iar \in Irqs
    BY DEF AllReal
  <1>3. f \in [LRs -> Others]
    <2> SUFFICES ASSUME NEW n \in LRs PROVE lrs[n].irq \in Others
      OBVIOUS
    <2>1. lrs[n].irq \in Irqs
      BY <1>1 DEF AllReal
    <2>2. lrs[n].irq # iar
      BY <1>1, <1>2 DEF IInv, ActiveAccounted, InFlight, HoldsIrq
    <2>3. QED BY <2>1, <2>2
  <1>4. IsFiniteSet(LRs) /\ Cardinality(LRs) = NumLRs
    BY FS_Interval, IrqAssumption DEF LRs
  <1>5. IsFiniteSet(Others) /\ Cardinality(Others) = Cardinality(Irqs) - 1
    BY <1>2, FS_RemoveElement, IrqAssumption
  <1>6. Cardinality(Others) < Cardinality(LRs)
    BY <1>4, <1>5, FS_CardinalityType, IrqAssumption
  <1>7. PICK m, n \in LRs : m # n /\ f[m] = f[n]
    <2> HIDE DEF f, Others
    <2>1. QED BY <1>3, <1>4, <1>5, <1>6, FS_PigeonHole
  <1>8. QED
    BY <1>1, <1>7, IrqAssumption DEF IInv, OneRegisterEach, AllReal

(* With a list register for every interrupt, virq_inject aborts only when  *)
(* a spurious interrupt has been acknowledged.                             *)
THEOREM EnoughRegisters ==
  ASSUME Cardinality(Irqs) <= NumLRs
  PROVE  Spec => []RegisterAvailable
  <1>1. Init => RegisterAvailable
    BY DEF Init, RegisterAvailable
  <1>2. IInv /\ RegisterAvailable /\ [Next]_vars => RegisterAvailable'
    <2> SUFFICES ASSUME IInv, RegisterAvailable, Next PROVE RegisterAvailable'
      BY DEF RegisterAvailable, Live, vars, hyp
    <2> USE DEF RegisterAvailable, gic, hyp, guest, Live
    <2>1. CASE VirqInject
      <3> SUFFICES ASSUME LRs \subseteq used, UNCHANGED <<iar, lrs>>, AllReal PROVE FALSE
        BY <2>1 DEF VirqInject, AllReal, IInv, TypeOK, IntIds
      <3>1. QED BY <2>1, RoomForOne DEF VirqInject
    <2>2. CASE \E i \in Irqs : Raise(i) \/ \E j \in Retractable : Retract(j)
      BY <2>2 DEF Raise, Retract
    <2>3. QED
      BY <2>1, <2>2 DEF Next, HypSteps, GuestSteps, Trap, VirqEnter, GetIrq,
         GuestPriorityDrop, GuestAck, GuestService, GuestEoi, Raise, Retract
  <1>3. QED
    BY Invariance, <1>1, <1>2, PTL DEF Spec

-----------------------------------------------------------------------------
(* Refinement of IrqDelivery.                                              *)

AbstractVars == <<pend, given, serving>>

(* Steps that leave the guest, the list registers and what is in flight    *)
(* alone leave given and serving alone.                                    *)
LEMMA SameView ==
  ASSUME UNCHANGED <<lrs, guest>>, \A i \in Irqs : InFlight(i)' <=> InFlight(i)
  PROVE  UNCHANGED <<given, serving>>
  BY DEF given, serving, guest

LEMMA StepImplements ==
  IInv /\ [Next]_vars => [Abstract!Next]_AbstractVars
  <1> SUFFICES ASSUME IInv, [Next]_vars PROVE Abstract!Next \/ UNCHANGED AbstractVars
    BY DEF AbstractVars
  <1> USE IrqAssumption DEF AbstractVars
  <1>t. TypeOK
    BY DEF IInv
  <1>1. ASSUME NEW i \in Irqs, Raise(i) PROVE Abstract!Raise(i)
    <2>1. UNCHANGED <<given, serving>>
      BY <1>1, SameView DEF Raise, hyp, InFlight
    <2>2. QED BY <1>1, <2>1 DEF Raise, Abstract!Raise
  <1>2. ASSUME NEW i \in Retractable, Retract(i) PROVE Abstract!Lower(i)
    <2>1. UNCHANGED <<given, serving>>
      BY <1>2, SameView DEF Retract, hyp, InFlight
    <2>2. QED BY <1>2, <2>1 DEF Retract, Abstract!Lower
  <1>3. ASSUME Trap \/ VirqEnter PROVE UNCHANGED AbstractVars
    <2>1. UNCHANGED <<given, serving>>
      BY <1>3, SameView DEF Trap, VirqEnter, InFlight
    <2>2. QED BY <1>3, <2>1 DEF Trap, VirqEnter, gic
  <1>4. ASSUME GetIrq
        PROVE  UNCHANGED AbstractVars \/ \E i \in Irqs : Abstract!Take(i)
    <2>1. UNCHANGED serving /\ \A i \in Irqs : ~InFlight(i)
      BY <1>4 DEF GetIrq, serving, guest, InFlight
    <2>2. CASE iar' = Spurious /\ UNCHANGED pend
      <3>1. \A i \in Irqs : ~InFlight(i)'
        BY <2>2 DEF InFlight
      <3>2. UNCHANGED given
        BY <1>4, <2>1, <3>1 DEF GetIrq, given
      <3>3. QED BY <2>1, <2>2, <3>2
    <2>3. ASSUME NEW i \in pend \ act, iar' = i, pend' = pend \ ({i} \cap Edge)
          PROVE  Abstract!Take(i)
      <3>1. i \in Irqs
        BY <1>t DEF TypeOK
      <3>2. \A n \in LRs : ~HoldsIrq(n, i)
        BY <3>1 DEF IInv, ActiveAccounted
      <3>3. i \notin given
        BY <2>1, <3>2 DEF given, HoldsIrq, Live
      <3>4. serving # i
        BY <3>1, <3>2 DEF serving, IInv, GuestInService, HoldsIrq, Live
      <3>5. \A j \in Irqs : InFlight(j)' <=> j = i
        BY <1>4, <2>3 DEF GetIrq, InFlight
      <3>6. given' = given \cup {i}
        BY <1>4, <2>1, <3>1, <3>5 DEF GetIrq, given
      <3>7. pend' = IF i \in Edge THEN pend \ {i} ELSE pend
        BY <2>3
      <3>8. QED BY <2>1, <3>3, <3>4, <3>6, <3>7 DEF Abstract!Take
    <2>4. QED BY <1>4, <1>t, <2>2, <2>3 DEF GetIrq, TypeOK
  <1>5. ASSUME GuestPriorityDrop PROVE UNCHANGED AbstractVars
    <2>1. UNCHANGED <<given, serving>>
      BY <1>5, SameView DEF GuestPriorityDrop, InFlight
    <2>2. QED BY <1>5, <2>1 DEF GuestPriorityDrop, gic
  <1>6. ASSUME VirqInject PROVE UNCHANGED AbstractVars
    <2>1. UNCHANGED <<pend, serving>>
      BY <1>6 DEF VirqInject, serving, guest, gic
    <2>2. CASE pc' = "no_lr" /\ UNCHANGED lrs
      BY <1>6, <2>1, <2>2, SameView DEF VirqInject, InFlight
    <2>3. ASSUME NEW n \in LRs, IsFirstFree(n), pc' = "guest",
                 lrs' = [lrs EXCEPT ![n] = CreateLr(iar)]
          PROVE  UNCHANGED AbstractVars
      <3>1. lrs[n].state = "invalid"
        BY <1>6, <2>3 DEF VirqInject, IsFirstFree, IInv, UsedMatchesHardware, Live
      <3>2. /\ lrs'[n] = [state |-> "pending", irq |-> iar]
            /\ \A m \in LRs : m # n => lrs'[m] = lrs[m]
        BY <2>3, <1>t DEF TypeOK, CreateLr
      <3>3. \A i \in Irqs : ~InFlight(i)' /\ (InFlight(i) <=> i = iar)
        BY <1>6, <2>3 DEF VirqInject, InFlight
      <3>4. ASSUME NEW i \in Irqs PROVE i \in given' <=> i \in given
        BY <3>1, <3>2, <3>3 DEF given
      <3>5. given' = given
        BY <3>4 DEF given
      <3>6. QED BY <2>1, <3>5
    <2>4. QED BY <1>6, <2>2, <2>3 DEF VirqInject
  <1>7. ASSUME GuestAck
        PROVE  UNCHANGED AbstractVars \/ \E i \in Irqs : Abstract!Deliver(i)
    <2>1. PICK n \in LRs :
            /\ lrs[n].state = "pending"
            /\ gack' = lrs[n].irq
            /\ lrs' = [lrs EXCEPT ![n].state =
                          IF lrs[n].irq = Spurious THEN "invalid" ELSE "active"]
      BY <1>7 DEF GuestAck
    <2>2. /\ lrs'[n].state # "pending"
          /\ \A m \in LRs : m # n => lrs'[m] = lrs[m]
      BY <2>1, <1>t DEF TypeOK
    <2>3. /\ UNCHANGED pend
          /\ serving = Spurious
          /\ serving' = IF gack' \in Irqs THEN gack' ELSE Spurious
      BY <1>7 DEF GuestAck, gic, serving
    <2>4. \A i \in Irqs : ~InFlight(i) /\ ~InFlight(i)'
      BY <1>7 DEF GuestAck, InFlight, hyp
    <2>5. \A i \in Irqs : i # gack' => (i \in given' <=> i \in given)
      BY <2>1, <2>2, <2>4 DEF given
    <2>6. CASE gack' = Spurious
      <3>1. given' = given
        BY <2>5, <2>6 DEF given
      <3>2. QED BY <2>3, <2>6, <3>1
    <2>7. CASE gack' \in Irqs
      <3>1. lrs[n] = [state |-> "pending", irq |-> gack']
        BY <2>1, <1>t DEF TypeOK
      <3>2. gack' \in given
        BY <2>7, <3>1 DEF given
      <3>3. \A m \in LRs : lrs[m].state = "pending" /\ lrs[m].irq = gack' => m = n
        BY <2>1, <2>7 DEF IInv, OneRegisterEach, Live
      <3>4. gack' \notin given'
        BY <2>2, <2>4, <3>3 DEF given
      <3>5. given' = given \ {gack'}
        BY <2>5, <3>2, <3>4 DEF given
      <3>6. Abstract!Deliver(gack')
        BY <2>3, <2>7, <3>2, <3>5 DEF Abstract!Deliver
      <3>7. QED BY <2>7, <3>6
    <2>8. QED BY <2>1, <2>6, <2>7, <1>t DEF TypeOK, IntIds
  <1>8. ASSUME GuestService
        PROVE  UNCHANGED AbstractVars \/ \E i \in Irqs : Abstract!Lower(i)
    <2>1. UNCHANGED given
      BY <1>8 DEF GuestService, given, InFlight, hyp
    <2>2. UNCHANGED serving
      BY <1>8 DEF GuestService, serving
    <2>3. CASE gack \in Irqs \ Edge
      BY <1>8, <2>1, <2>2, <2>3 DEF GuestService, Abstract!Lower
    <2>4. CASE gack \in Edge \cup {Spurious}
      <3>1. UNCHANGED pend
        BY <1>8, <2>4, <1>t DEF GuestService, TypeOK
      <3>2. QED BY <2>1, <2>2, <3>1
    <2>5. QED BY <2>3, <2>4, <1>t DEF TypeOK, IntIds
  <1>9. ASSUME GuestEoi
        PROVE  UNCHANGED AbstractVars \/ \E i \in Irqs : Abstract!Complete(i)
    <2>1. \A n \in LRs, i \in Irqs : lrs'[n] = [state |-> "pending", irq |-> i]
                                   <=> lrs[n] = [state |-> "pending", irq |-> i]
      BY <1>9 DEF GuestEoi
    <2>2. UNCHANGED <<given, pend>>
      BY <1>9, <2>1 DEF GuestEoi, given, InFlight, hyp
    <2>3. serving' = Spurious
      BY <1>9 DEF GuestEoi, serving
    <2>4. CASE gack \in Irqs
      <3>1. serving = gack
        BY <1>9, <2>4 DEF GuestEoi, serving
      <3>2. QED BY <2>2, <2>3, <2>4, <3>1 DEF Abstract!Complete
    <2>5. CASE gack \notin Irqs
      BY <2>2, <2>3, <2>5 DEF serving
    <2>6. QED BY <2>4, <2>5
  <1>10. CASE UNCHANGED vars
    <2>1. UNCHANGED <<given, serving>>
      BY <1>10, SameView DEF vars, hyp, InFlight
    <2>2. QED BY <1>10, <2>1 DEF vars, gic
  <1>11. QED
    BY <1>1, <1>2, <1>3, <1>4, <1>5, <1>6, <1>7, <1>8, <1>9, <1>10
       DEF Next, HypSteps, GuestSteps, Abstract!Next

(* Forwarding implements IrqDelivery: an interrupt that is taken is handed *)
(* to the guest, once, and not taken again before the guest completes it.  *)
THEOREM Refinement == Spec => ImplementsDelivery
  <1>1. Init => Abstract!Init
    BY DEF Init, Abstract!Init, given, serving, InFlight, Empty
  <1>2. QED
    BY <1>1, Invariance, StepImplements, PTL
       DEF Spec, ImplementsDelivery, Abstract!Spec, Abstract!vars, AbstractVars
=============================================================================
