----------------------------- MODULE UartProofs -----------------------------
(***************************************************************************)
(* Proofs about Uart.                                                      *)
(***************************************************************************)
EXTENDS Uart, TLAPS

LEMMA InitIInv == Init => IInv
  <1> SUFFICES ASSUME Init PROVE IInv
    OBVIOUS
  <1> USE DEF Init, Writers
  <1>1. rx \in BOOLEAN /\ ris = rx /\ waiting \subseteq {Irq}
    OBVIOUS
  <1>2. TypeOK
    BY <1>1 DEF TypeOK
  <1>3. StrandedOnlyInWindow
    <2>1. CASE rx = TRUE
      BY <1>1, <2>1 DEF StrandedOnlyInWindow
    <2>2. CASE rx = FALSE
      BY <2>2 DEF StrandedOnlyInWindow
    <2>3. QED BY <1>1, <2>1, <2>2
  <1>4. LossNeedsOverlap
    BY DEF LossNeedsOverlap
  <1>5. QED BY <1>2, <1>3, <1>4 DEF IInv

LEMMA StepIInv == IInv /\ [Next]_vars => IInv'
  <1> SUFFICES ASSUME IInv, [Next]_vars PROVE IInv'
    OBVIOUS
  <1> USE DEF IInv, TypeOK, StrandedOnlyInWindow, LossNeedsOverlap, Writers, Goto,
              Line, device, gic, code
  <1>1. CASE Arrive
    BY <1>1 DEF Arrive
  <1>2. CASE Drain
    BY <1>2 DEF Drain
  <1>3. CASE InitStep
    BY <1>3 DEF InitStep
  <1>4. CASE IrqStep
    BY <1>4 DEF IrqStep
  <1>5. ASSUME NEW w \in Writers, StartPutc(w) PROVE IInv'
    BY <1>5 DEF StartPutc, Runs
  <1>6. ASSUME NEW w \in Writers, SeeRoom(w) PROVE IInv'
    BY <1>6 DEF SeeRoom, Runs
  <1>7. ASSUME NEW w \in Writers, Put(w) PROVE IInv'
    BY <1>7 DEF Put, Runs
  <1>8. CASE Take
    BY <1>8 DEF Take, D!Take
  <1>9. CASE Enter
    BY <1>9 DEF Enter, D!Deliver
  <1>10. CASE ReadMis
    BY <1>10 DEF ReadMis
  <1>11. CASE Getc
    BY <1>11 DEF Getc
  <1>12. CASE ReadData
    BY <1>12 DEF ReadData
  <1>13. CASE Clear
    BY <1>13 DEF Clear
  <1>14. CASE Eoi
    BY <1>14 DEF Eoi, D!Complete
  <1>15. CASE UNCHANGED vars
    BY <1>15 DEF vars
  <1>16. QED
    BY <1>1, <1>2, <1>3, <1>4, <1>5, <1>6, <1>7, <1>8, <1>9, <1>10, <1>11, <1>12,
       <1>13, <1>14, <1>15 DEF Next, Boot, Handle

(* The inductive invariant of the driver and its device.                   *)
THEOREM Invariance == Spec => []IInv
  BY InitIInv, StepIInv, PTL DEF Spec

(* The driver and the device keep their types.                             *)
THEOREM TypeCorrect == Spec => []TypeOK
  <1>1. IInv => TypeOK
    BY DEF IInv
  <1>2. QED BY Invariance, <1>1, PTL

(* pl011_irq_handler clears the interrupt of an unread character only if   *)
(* that arrived after the last test of the receive register.               *)
THEOREM Stranding == Spec => []StrandedOnlyInWindow
  <1>1. IInv => StrandedOnlyInWindow
    BY DEF IInv
  <1>2. QED BY Invariance, <1>1, PTL

(* pl011_putc loses a character only to a context that wrote between its   *)
(* test of the flag register and its write.                                *)
THEOREM Overlap == Spec => []LossNeedsOverlap
  <1>1. IInv => LossNeedsOverlap
    BY DEF IInv
  <1>2. QED BY Invariance, <1>1, PTL

LEMMA StepUsesDelivery == IInv /\ [Next]_vars => [D!Next]_<<waiting, given, serving>>
  <1> SUFFICES ASSUME IInv, [Next]_vars
      PROVE D!Next \/ UNCHANGED <<waiting, given, serving>>
    OBVIOUS
  <1> USE DEF IInv, TypeOK, gic
  <1>1. ASSUME Line, UNCHANGED <<given, serving>>
        PROVE  D!Next \/ UNCHANGED <<waiting, given, serving>>
    BY <1>1 DEF Line, D!Next, D!Raise, D!Lower
  <1>2. CASE Arrive
    BY <1>1, <1>2 DEF Arrive
  <1>3. CASE Drain
    BY <1>3 DEF Drain
  <1>4. CASE InitStep
    BY <1>1, <1>4 DEF InitStep
  <1>5. CASE IrqStep
    BY <1>1, <1>5 DEF IrqStep
  <1>6. CASE Take
    BY <1>6 DEF Take, D!Next
  <1>7. CASE Enter
    BY <1>7 DEF Enter, D!Next
  <1>8. CASE ReadMis
    BY <1>8 DEF ReadMis
  <1>9. CASE Getc
    BY <1>9 DEF Getc
  <1>10. CASE ReadData
    BY <1>1, <1>10 DEF ReadData
  <1>11. CASE Clear
    BY <1>1, <1>11 DEF Clear
  <1>12. CASE Eoi
    BY <1>12 DEF Eoi, D!Next
  <1>13. CASE \E w \in Writers : StartPutc(w) \/ SeeRoom(w) \/ Put(w)
    BY <1>13 DEF StartPutc, SeeRoom, Put
  <1>14. CASE Put("handler")
    BY <1>14 DEF Put
  <1>15. CASE UNCHANGED vars
    BY <1>15 DEF vars
  <1>16. QED
    BY <1>2, <1>3, <1>4, <1>5, <1>6, <1>7, <1>8, <1>9, <1>10, <1>11, <1>12, <1>13,
       <1>14, <1>15 DEF Next, Boot, Handle

(* The interrupt of the UART is raised, taken, delivered and completed in  *)
(* the steps of IrqDelivery, those that forwarding implements.             *)
THEOREM UsesDelivery == Spec => [][D!Next]_<<waiting, given, serving>>
  BY Invariance, StepUsesDelivery, PTL DEF Spec
=============================================================================
