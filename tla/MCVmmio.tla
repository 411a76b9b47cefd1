------------------------------ MODULE MCVmmio -------------------------------
(***************************************************************************)
(* Two vCPUs and registers of two bytes.  The distributor has a private    *)
(* and a shared priority register, one behind the array and a register of  *)
(* every other kind; the redistributor has a frame for each vCPU, the one  *)
(* behind them that is let through and one that is rejected.               *)
(***************************************************************************)
EXTENDS Vmmio

CONSTANTS v0, v1

MCRanges == <<[base |-> 1, size |-> 6, dev |-> "gicd"], [base |-> 8, size |-> 16, dev |-> "gicr"]>>
MCLayout ==
  [gicd |-> [o \in 0..5 |->
              <<"priority", "priority", "priority", "constant", "identity", "unknown">>[o + 1]],
   gicr |-> [o \in 0..3 |-> <<"priority", "identity", "constant", "unknown">>[o + 1]]]
MCPrio == [gicd |-> 0, gicr |-> 0]
MCFrames == [f \in 0..1 |-> IF f = 0 THEN v0 ELSE v1]
MCDistId == [k \in 0..(NBytes - 1) |-> 1]
MCId == [f \in 0..1 |-> [k \in 0..(NBytes - 1) |-> f]]
\* A word that differs from zero in every byte.
MCFiles == {[r \in Regs |-> [k \in 0..(NBytes - 1) |-> 1]]}
MCGarbage == {Zero}
\* The distributor, then the frames of the redistributor, and an address between
\* the devices.  Stores go to the priorities, and to the frame without a vCPU.
MCIpas == {1, 2, 3, 4, 5, 6, 7, 8, 9, 12, 16, 17, 18, 20}
MCAccesses ==
  [ipa : {1, 2, 8, 12, 16}, srt : Regs, wnr : BOOLEAN] \cup
  [ipa : {3, 4, 5, 6, 7, 9, 18, 20}, srt : Regs, wnr : {FALSE}] \cup
  [ipa : {17}, srt : Regs, wnr : {TRUE}] \cup
  [ipa : {2}, srt : {Xzr}, wnr : BOOLEAN]
=============================================================================
