-------------------------------- MODULE Uart --------------------------------
(***************************************************************************)
(* The PL011 and its driver (guest/pl011.c, which hypervisor/src/pl011.c   *)
(* repeats), used by the guest program (guest/main.c): vCPU 0 initialises  *)
(* the device, enables its interrupt and then prints for ever, its handler *)
(* echoes what is received, and vCPU 1 prints too.  The interrupt reaches  *)
(* the handler as IrqDelivery promises, which VirtIrq implements.          *)
(* pl011_init writes the bits meant for the line control register to the   *)
(* interrupt mask: the FIFOs stay off, a character is all that is held.    *)
(***************************************************************************)
CONSTANTS
  Irq,      \* UART_IRQ_LINE, level triggered: the vGIC drops GICD_ICFGR
  None      \* no interrupt

VARIABLES
  cr,       \* the receiver and the transmitter are enabled
  imsc,     \* the receive interrupt is unmasked
  rx,       \* the receive register holds a character
  ris,      \* the raw receive interrupt
  tx,       \* the transmit register is full
  soft,     \* the pending bit was set by software (Vgic: GICD_ICENABLER)
  waiting,  \* IrqDelivery's
  given,
  serving,
  boot,     \* what vm_primary_init does next
  pc,       \* where each printing context is in pl011_putc or the handler
  ret,      \* where the handler goes on after pl011_putc
  raced,    \* history: another context wrote since this one saw room
  late      \* history: rx arrived when the handler had stopped looking

D == INSTANCE IrqDelivery WITH Irqs <- {Irq}, Edge <- {}

device == <<cr, imsc, rx, ris>>
gic == <<soft, waiting, given, serving>>
code == <<boot, pc, ret>>
vars == <<device, tx, gic, code, raced, late>>

Writers == {"main0", "handler", "main1"}

\* The device was left enabled and unmasked by the hypervisor's pl011_init,
\* perhaps with a character that nobody has read.
Init ==
  /\ cr = TRUE /\ imsc = TRUE
  /\ rx \in BOOLEAN /\ ris = rx
  /\ tx \in BOOLEAN
  /\ soft = FALSE
  /\ waiting = IF ris THEN {Irq} ELSE {}
  /\ given = {} /\ serving = None
  /\ boot = "cr_off"
  /\ pc = [w \in Writers |-> "idle"]
  /\ ret = "mis"
  /\ raced = [w \in Writers |-> FALSE]
  /\ late = FALSE

Goto(w, from, to) == pc[w] = from /\ pc' = [pc EXCEPT ![w] = to]

\* The level that the GIC sees after a step of the device or of the driver.
Line == waiting' = IF soft' \/ (ris' /\ imsc') THEN {Irq} ELSE {}

-----------------------------------------------------------------------------
(* The device                                                              *)

\* A character that finds the register full is lost.
Arrive ==
  /\ cr /\ ~rx
  /\ rx' = TRUE /\ ris' = TRUE
  /\ late' = (pc["handler"] = "icr")
  /\ UNCHANGED <<cr, imsc, tx, soft, given, serving, code, raced>>
  /\ Line

Drain ==
  /\ cr /\ tx
  /\ tx' = FALSE
  /\ UNCHANGED <<device, gic, code, raced, late>>

-----------------------------------------------------------------------------
(* vm_primary_init                                                         *)

\* Mutant: IMSC is taken for a register whose ones mask.
InitStepMasked ==
  /\ \/ boot = "cr_off"   /\ boot' = "imsc_off" /\ cr' = FALSE /\ UNCHANGED imsc
     \/ boot = "imsc_off" /\ boot' = "fen"      /\ imsc' = TRUE /\ UNCHANGED cr
     \/ boot = "fen"      /\ boot' = "cr_on"    /\ imsc' = FALSE /\ UNCHANGED cr
     \/ boot = "cr_on"    /\ boot' = "imsc_on"  /\ cr' = TRUE /\ UNCHANGED imsc
     \/ boot = "imsc_on"  /\ boot' = "dist"     /\ imsc' = FALSE /\ UNCHANGED cr
  /\ UNCHANGED <<rx, ris, tx, soft, given, serving, pc, ret, raced, late>>
  /\ Line

\* pl011_init, a register at a time.  The line control bits written to the
\* mask unmask the receive interrupt.
InitStep ==
  /\ \/ boot = "cr_off"   /\ boot' = "imsc_off" /\ cr' = FALSE /\ UNCHANGED imsc
     \/ boot = "imsc_off" /\ boot' = "fen"      /\ imsc' = FALSE /\ UNCHANGED cr
     \/ boot = "fen"      /\ boot' = "cr_on"    /\ imsc' = TRUE /\ UNCHANGED cr
     \/ boot = "cr_on"    /\ boot' = "imsc_on"  /\ cr' = TRUE /\ UNCHANGED imsc
     \/ boot = "imsc_on"  /\ boot' = "dist"     /\ imsc' = TRUE /\ UNCHANGED cr
  /\ UNCHANGED <<rx, ris, tx, soft, given, serving, pc, ret, raced, late>>
  /\ Line

\* gic_v3_init disables every SPI, which makes this one pending;
\* guest_spi_config enables it, and irq_enable unmasks interrupts.
IrqStep ==
  /\ \/ boot = "dist"   /\ boot' = "unmask" /\ soft' = TRUE
     \/ boot = "unmask" /\ boot' = "irq_on" /\ UNCHANGED soft
     \/ boot = "irq_on" /\ boot' = "loop"   /\ UNCHANGED soft
  /\ UNCHANGED <<device, tx, given, serving, pc, ret, raced, late>>
  /\ Line

-----------------------------------------------------------------------------
(* pl011_putc                                                              *)

\* The handler preempts main0, which prints in its final loop (the logo comes
\* before any other writer).  vCPU 1 is started after the initialisation.
Runs(w) ==
  /\ w = "main0" => pc["handler"] = "idle" /\ boot = "loop"
  /\ boot \in {"dist", "unmask", "irq_on", "loop"}

StartPutc(w) ==
  /\ w # "handler" /\ Runs(w)
  /\ Goto(w, "idle", "txff")
  /\ UNCHANGED <<device, tx, gic, boot, ret, raced, late>>

\* Mutant: the flag register is not read.
SeeAnything(w) ==
  /\ Runs(w)
  /\ Goto(w, "txff", "dr")
  /\ UNCHANGED <<device, tx, gic, boot, ret, raced, late>>

\* The loop over the flag register is left when the transmitter has room.
SeeRoom(w) ==
  /\ ~tx /\ Runs(w)
  /\ Goto(w, "txff", "dr")
  /\ UNCHANGED <<device, tx, gic, boot, ret, raced, late>>

\* Writing a full register loses a character.
Put(w) ==
  /\ Runs(w)
  /\ Goto(w, "dr", IF w = "handler" THEN ret ELSE "idle")
  /\ tx' = TRUE
  /\ raced' = [v \in Writers |-> v # w /\ pc[v] = "dr"]
  /\ UNCHANGED <<device, gic, boot, ret, late>>

-----------------------------------------------------------------------------
(* The interrupt and its handler                                           *)

\* The physical interrupt is taken and injected.
Take ==
  /\ boot \in {"irq_on", "loop"}
  /\ D!Take(Irq)
  /\ soft' = FALSE
  /\ UNCHANGED <<device, tx, code, raced, late>>
  /\ Line

\* The guest's el1_sync prints before it calls pl011_irq_handler.
Enter ==
  /\ boot = "loop"
  /\ D!Deliver(Irq)
  /\ Goto("handler", "idle", "txff")
  /\ ret' = "mis"
  /\ UNCHANGED <<device, tx, soft, boot, raced, late>>

ReadMis ==
  /\ Goto("handler", "mis", IF ris /\ imsc THEN "rxfe" ELSE "icr")
  /\ UNCHANGED <<device, tx, gic, boot, ret, raced, late>>

\* Mutant: one character is read per interrupt.
GetcOnce ==
  /\ Goto("handler", "rxfe", IF rx /\ ret = "mis" THEN "read" ELSE "icr")
  /\ UNCHANGED <<device, tx, gic, boot, ret, raced, late>>

\* pl011_getc: the test of the flag register ...
Getc ==
  /\ Goto("handler", "rxfe", IF rx THEN "read" ELSE "icr")
  /\ UNCHANGED <<device, tx, gic, boot, ret, raced, late>>

\* ... and the read of the data register, which lowers the interrupt.
ReadData ==
  /\ Goto("handler", "read", "txff")
  /\ ret' = "rxfe"
  /\ rx' = FALSE /\ ris' = FALSE
  /\ late' = FALSE
  /\ UNCHANGED <<cr, imsc, tx, soft, given, serving, boot, raced>>
  /\ Line

Clear ==
  /\ Goto("handler", "icr", "eoi")
  /\ ris' = FALSE
  /\ UNCHANGED <<cr, imsc, rx, tx, soft, given, serving, boot, ret, raced, late>>
  /\ Line

\* Mutant: only the priority is dropped, ICC_DIR_EL1 is not written.
EoiNoDir ==
  /\ Goto("handler", "eoi", "idle")
  /\ UNCHANGED <<device, tx, gic, boot, ret, raced, late>>

\* guest_eoi
Eoi ==
  /\ D!Complete(Irq)
  /\ Goto("handler", "eoi", "idle")
  /\ UNCHANGED <<device, tx, soft, boot, ret, raced, late>>

-----------------------------------------------------------------------------
Boot == InitStep \/ IrqStep
Handle == Enter \/ ReadMis \/ Getc \/ ReadData \/ Put("handler") \/ Clear \/ Eoi

Next ==
  \/ Arrive \/ Drain \/ Boot \/ Take \/ Handle
  \/ \E w \in Writers : StartPutc(w) \/ SeeRoom(w) \/ Put(w)

Spec == Init /\ [][Next]_vars

\* The device transmits, the interrupt is forwarded (Delivered of VirtIrq), code
\* runs.  vCPU 1 pauses for 100 million iterations after every line it prints
\* (guest/main.c:51), so a context that waits for room sees it in the end.
FairSpec ==
  /\ Spec
  /\ WF_vars(Drain) /\ WF_vars(Boot) /\ WF_vars(Take) /\ WF_vars(Handle)
  /\ SF_vars(SeeRoom("handler"))

-----------------------------------------------------------------------------
(* Properties                                                              *)

TypeOK ==
  /\ cr \in BOOLEAN /\ imsc \in BOOLEAN /\ rx \in BOOLEAN /\ ris \in BOOLEAN
  /\ tx \in BOOLEAN /\ soft \in BOOLEAN /\ late \in BOOLEAN
  /\ waiting \subseteq {Irq} /\ given \subseteq {Irq} /\ serving \in {Irq, None}
  /\ boot \in {"cr_off", "imsc_off", "fen", "cr_on", "imsc_on", "dist", "unmask", "irq_on", "loop"}
  /\ pc \in [Writers -> {"idle", "txff", "dr", "mis", "rxfe", "read", "icr", "eoi"}]
  /\ ret \in {"mis", "rxfe"}
  /\ raced \in [Writers -> BOOLEAN]

\* pl011_irq_handler clears the interrupt of a character that it has not read
\* (pl011.c:64) only if that arrived after its last look at the device.
StrandedOnlyInWindow == rx /\ ~ris => late

\* pl011_putc writes a full register, and loses a character, only if another
\* core, or the handler that interrupted it, wrote since it saw room.
LossNeedsOverlap == \A w \in Writers : pc[w] = "dr" /\ tx => raced[w]

\* The strengthening that makes the two inductive: interrupts come after the
\* initialisation, and on its way to the clear the handler leaves nothing unread
\* but what arrived there.
IInv ==
  /\ TypeOK
  /\ StrandedOnlyInWindow
  /\ LossNeedsOverlap
  /\ pc["handler"] # "idle" => boot = "loop"
  /\ boot \in {"dist", "unmask", "irq_on", "loop"} => imsc
  /\ pc["handler"] = "icr" /\ rx => late

\* A received character is read by the handler, whenever it came since the
\* hypervisor's initialisation, unless its interrupt was cleared unread.
EchoedUnlessStranded == rx ~> ~rx \/ ~ris
=============================================================================
