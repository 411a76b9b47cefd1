----------------------------- MODULE MCGicBoot ------------------------------
(***************************************************************************)
(* GicBoot for TLC.  Each interrupt is left enabled or not and active or   *)
(* not by the firmware; all or none are left pending, and the cores'       *)
(* redistributors are asleep, as after a reset, or awake.                  *)
(***************************************************************************)
EXTENDS GicBoot

MCInit ==
  /\ Init
  /\ latch \in {{}, Irqs}
  /\ \A c, d \in Cores : redist[c] = redist[d]

MCSpec == MCInit /\ [][Next]_vars /\ Fairness
=============================================================================
