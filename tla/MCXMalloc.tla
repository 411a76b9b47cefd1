----------------------------- MODULE MCXMalloc ------------------------------
(***************************************************************************)
(* Two instances of the slab allocator: a small one with every order of    *)
(* calls, and the objects of create_guest_vm with their real sizes.        *)
(***************************************************************************)
EXTENDS XMalloc

\* Words of two bytes, two slices of eight: blocks of 2 and 4 bytes (types 1
\* and 2), six objects of every size up to one that has no type.
MCObjects == 1..6
MCSize == <<1, 2, 3, 3, 4, 5>>

\* The VM of main.c: vm_t, two vgicv3_cpu, vgicv3_dist, its spis for the 256
\* SPIs of the platform, two vmmio_info.  create_vgic_dist passes the number
\* of SPIs as a size; each has a configuration of four bytes.  vgic_irq_get
\* indexes ppis by the number of the interrupt, and goes 64 bytes further than
\* a vgicv3_cpu, within its block.
VmObjects == 1..7
VmSize == <<120, 130, 130, 32, 256, 40, 40>>
VmUsed == [VmSize EXCEPT ![2] = @ + 64, ![3] = @ + 64, ![5] = 256 * 4]
=============================================================================
