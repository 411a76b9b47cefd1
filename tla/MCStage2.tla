------------------------------ MODULE MCStage2 ------------------------------
(***************************************************************************)
(* VM configurations for TLC.  With Fan = 2 a last-level table covers two  *)
(* pages; the guest's memory is in the upper half of its address space,    *)
(* the UART at 6 and the GIC in the last-level table of 4 and 5.           *)
(***************************************************************************)
EXTENDS Stage2

Config(npages, entry, nimage, nram, dtb, ndtb, rootfs, nrootfs, traps) ==
  [npages |-> npages, entry |-> entry, nimage |-> nimage, nram |-> nram, dtb |-> dtb, ndtb |-> ndtb,
   rootfs |-> rootfs, nrootfs |-> nrootfs, device |-> 6, traps |-> traps]
Gic(base, size) == [base |-> base, size |-> size]

(* Configurations as the code's: the areas are disjoint, the rootfs is     *)
(* within the memory, and a trapped range is mapped as a whole, as a range *)
(* that the guest's memory covers, or has no last-level table.             *)
GoodTraps(entry, nram) ==
  {<<Gic(4, 1), Gic(5, 1)>>, <<Gic(4, 2)>>,
   <<Gic(entry + nram - 1, 1), Gic(4, 2)>>,
   <<Gic(entry + nram - 2, 2), Gic(4, 1)>>}
GoodConfigs ==
  UNION {
    {Config(NPages, entry, nimage, nram, 14, ndtb, entry + 1, nrootfs, traps) :
       nimage \in 0..2, ndtb \in 0..2, nrootfs \in 0..1, traps \in GoodTraps(entry, nram)} :
    entry \in {8, 9}, nram \in {3, 4}}

(* Any placement: too little memory, areas that overlap, ranges that are   *)
(* mapped in part.                                                         *)
AnyConfigs ==
  {Config(npages, 8, nimage, 2, dtb, ndtb, rootfs, 1, traps) :
     npages \in {0, 3, 8, NPages}, nimage \in {0, 3}, dtb \in {0, 9, 10}, ndtb \in 0..2,
     rootfs \in {9, 10},
     traps \in {<<>>, <<Gic(4, 2)>>, <<Gic(9, 2)>>, <<Gic(8, 1), Gic(8, 1)>>}}

AllConfigs == GoodConfigs \cup AnyConfigs
=============================================================================
