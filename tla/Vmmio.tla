------------------------------- MODULE Vmmio --------------------------------
(***************************************************************************)
(* A guest's load or store of a trapped address, from the data abort to    *)
(* the return (el1_sync.c), through the list of the VM's MMIO ranges       *)
(* (vmmio.c) into the emulated distributor and redistributor (vgicv3.c).   *)
(* vCPUs trap on their own cores at the same time.  The handlers go over   *)
(* the bytes of a priority register one by one: those of the distributor   *)
(* under vgic_dist->lock, which is used here as AbstractLock describes it, *)
(* those of the redistributor without a lock.                              *)
(* The registers modelled are priorities, identities, those that read zero *)
(* and those without a handler; Vgic has the enable and control registers. *)
(***************************************************************************)
EXTENDS Integers, Sequences

CONSTANTS
  Vcpus,
  Regs,         \* the general registers, 0..30
  Xzr,          \* the register number of the zero register, 31
  Files,        \* the contents of the registers a guest may have at an access
  Bytes,        \* the values of a byte of a register
  Garbage,      \* words that may be in memory that xmalloc hands out: zero, as
                \* blk_pool_init clears the pool, or what an owner left before xfree
  NBytes,       \* the bytes of a priority register, 4
  Ranges,       \* the ranges create_vgic_dist registers, in this order
  Layout,       \* Layout[dev][o]: the kind of register at an offset, in words, of the
                \* distributor or of a frame of the redistributor
  Prio,         \* Prio[dev]: the offset of IPRIORITYR(0)
  Stride,       \* GICR_STRIDE, the length of a frame
  NVcpu,        \* vm->nvcpu
  Frames,       \* vm->vcpus: the vCPU of each frame
  Id,           \* what the identity registers of each frame's core read
  DistId,       \* and that of the distributor, GICD_PIDR2
  NPrivate,     \* the priority registers of SGIs and PPIs, 8
  NSpis,        \* the priority registers of the array spis
  Spis,         \* that array, in the place of a vCPU
  Ipas,         \* the addresses a guest accesses
  Accesses      \* and how

Words == [0..(NBytes - 1) -> Bytes]
Zero == [i \in 0..(NBytes - 1) |-> 0]
Kinds == {"priority", "constant", "identity", "unknown"}

\* The priorities of each vgicv3_cpu, and those of the distributor.
Configs == (Vcpus \X (0..(NPrivate - 1))) \cup ({Spis} \X (NPrivate..(NPrivate + NSpis - 1)))
First == Frames[0]

Within(a, n) == n.base <= a /\ a < n.base + n.size

ASSUME VmmioAssumption ==
  /\ NBytes \in Nat \ {0} /\ 0 \in Bytes
  /\ Garbage \subseteq Words
  /\ Xzr \notin Regs /\ Files \subseteq [Regs -> Words]
  /\ Ipas \subseteq Nat
  /\ Accesses \subseteq [ipa : Ipas, srt : Regs \cup {Xzr}, wnr : BOOLEAN]
  /\ Ranges \in Seq([base : Nat, size : Nat \ {0}, dev : {"gicd", "gicr"}])
  /\ \A k, j \in 1..Len(Ranges), a \in Ipas :
       Within(a, Ranges[j]) /\ Within(a, Ranges[k]) => j = k
  /\ NVcpu \in Nat \ {0} /\ Frames \in [0..(NVcpu - 1) -> Vcpus] /\ Spis \notin Vcpus
  /\ Id \in [0..(NVcpu - 1) -> Words] /\ DistId \in Words
  /\ NPrivate \in Nat /\ NSpis \in Nat /\ Stride \in Nat \ {0}
  /\ Prio \in [{"gicd", "gicr"} -> Nat]

\* The register map, gicv3.h:46-86.  The priorities of a frame are private, and
\* a frame is longer than the array spis.
ASSUME LayoutAssumption ==
  \A k \in 1..Len(Ranges) : \A o \in 0..(Ranges[k].size - 1) :
    /\ Ranges[k].dev = "gicd" =>
         /\ Layout["gicd"][o] \in Kinds
         /\ Layout["gicd"][o] = "priority" => o >= Prio["gicd"]
    /\ Ranges[k].dev = "gicr" =>
         /\ Layout["gicr"][o % Stride] \in Kinds
         /\ Layout["gicr"][o % Stride] = "priority" =>
              IF o < Stride THEN o - Prio["gicr"] \in 0..(NPrivate - 1)
              ELSE o - Prio["gicr"] >= NPrivate + NSpis

-----------------------------------------------------------------------------
(* What is at an offset of a device                                        *)

Fixed(w) == [kind |-> "constant", value |-> w]
Unhandled == [kind |-> "unknown"]
Astray == [kind |-> "astray"]

\* vgic_irq_get, for the interrupts of the n-th priority register.  Nothing
\* compares n with the length of spis.
Config(v, n) ==
  IF n < NPrivate THEN [kind |-> "priority", at |-> <<v, n>>]
  ELSE IF n < NPrivate + NSpis THEN [kind |-> "priority", at |-> <<Spis, n>>]
  ELSE Astray

\* The cases of vgicd_read and vgicd_write.
Gicd(v, o) ==
  CASE Layout["gicd"][o] = "priority" -> Config(v, o - Prio["gicd"])
    [] Layout["gicd"][o] = "constant" -> Fixed(Zero)
    [] Layout["gicd"][o] = "identity" -> Fixed(DistId)
    [] OTHER -> Unhandled

\* The cases of vgicr_read and vgicr_write.  The vCPU is that of the frame,
\* and vm->vcpus has none when gicr_index is nvcpu.  irq_num is taken from the
\* offset in the device, not in the frame.
Frame(o) == o \div Stride
Gicr(o) ==
  LET f == Frame(o)
      kind == Layout["gicr"][o % Stride]
  IN CASE f <= NVcpu /\ kind = "constant" -> Fixed(Zero)
       [] f < NVcpu /\ kind = "identity" -> Fixed(Id[f])
       [] f < NVcpu /\ kind = "priority" -> Config(Frames[f], o - Prio["gicr"])
       [] f = NVcpu /\ kind \in {"identity", "priority"} -> Astray
       [] OTHER -> Unhandled

RegisterOf(v, dev, o) == IF dev = "gicd" THEN Gicd(v, o) ELSE Gicr(o)

-----------------------------------------------------------------------------
VARIABLES
  vmmios,       \* vm->vmmios, the head of the list first
  booted,       \* whether the boot core has started the vCPUs
  pc,           \* where each vCPU's core is, or "guest"
  x,            \* vcpu->regs.x, in the guest the registers themselves
  acc,          \* struct vmmio_access and the register number
  m,            \* the position of vmmio_handler in the list
  i,            \* the loop counter of the handler
  iprio,        \* the word a read collects
  priority,     \* the priorities of each four vgicv3_irq_config
  mode          \* vgic_dist->lock: where each core stands

local == <<acc, m, i, iprio>>
vars == <<vmmios, booted, pc, x, local, priority, mode>>

VgicLock == INSTANCE AbstractLock WITH Cores <- Vcpus

NoAccess == [ipa |-> 0, srt |-> Xzr, wnr |-> FALSE]

\* A node that is linked and has no fields yet: no address is within it.
Blank == [base |-> 0, size |-> 0, dev |-> "none"]

Init ==
  /\ vmmios = <<>>
  /\ booted = FALSE
  /\ pc = [v \in Vcpus |-> "off"]
  /\ x \in [Vcpus -> Files]
  /\ acc = [v \in Vcpus |-> NoAccess]
  /\ m = [v \in Vcpus |-> 0]
  /\ i = [v \in Vcpus |-> 0]
  /\ iprio = [v \in Vcpus |-> Zero]
  /\ priority \in [Configs -> Garbage]     \* create_vgic_dist sets none
  /\ VgicLock!Init

-----------------------------------------------------------------------------
(* vmmio_handler_register, on the boot core                                *)

Publish ==
  /\ ~booted /\ Len(vmmios) < Len(Ranges)
  /\ vmmios # <<>> => vmmios[1] # Blank
  /\ vmmios' = <<Blank>> \o vmmios
  /\ UNCHANGED <<booted, pc, x, local, priority, mode>>

Fill ==
  /\ ~booted /\ vmmios # <<>> /\ vmmios[1] = Blank
  /\ vmmios' = [vmmios EXCEPT ![1] = Ranges[Len(vmmios)]]
  /\ UNCHANGED <<booted, pc, x, local, priority, mode>>

\* create_guest_vm is done; Vcpu has the start of the vCPUs.
Start ==
  /\ ~booted /\ Len(vmmios) = Len(Ranges)
  /\ vmmios # <<>> => vmmios[1] # Blank
  /\ booted' = TRUE
  /\ pc' = [v \in Vcpus |-> "guest"]
  /\ UNCHANGED <<vmmios, x, local, priority, mode>>

-----------------------------------------------------------------------------
Goto(v, from, to) == pc[v] = from /\ pc' = [pc EXCEPT ![v] = to]

\* The data abort: data_abort_handler decodes it and calls vmmio_handler.
Trap(v, a, file) ==
  /\ Goto(v, "guest", "find")
  /\ acc' = [acc EXCEPT ![v] = a]
  /\ x' = [x EXCEPT ![v] = file]
  /\ m' = [m EXCEPT ![v] = 1]
  /\ UNCHANGED <<vmmios, booted, i, iprio, priority, mode>>

\* "the fault ipa belong to this vmmio"
Belongs(v, n) == Within(acc[v].ipa, n)
Offset(v) == acc[v].ipa - vmmios[m[v]].base
Reg(v) == RegisterOf(v, vmmios[m[v]].dev, Offset(v))

\* vmmio_handler's loop; without a matching node it returns 0.
Find(v) ==
  /\ pc[v] = "find"
  /\ \/ m[v] > Len(vmmios) /\ Goto(v, "find", "step") /\ UNCHANGED m
     \/ /\ m[v] <= Len(vmmios) /\ Belongs(v, vmmios[m[v]])
        /\ Goto(v, "find", IF vmmios[m[v]].dev = "gicd" THEN "lock" ELSE "gicr")
        /\ UNCHANGED m
     \/ /\ m[v] <= Len(vmmios) /\ ~Belongs(v, vmmios[m[v]])
        /\ m' = [m EXCEPT ![v] = @ + 1]
        /\ UNCHANGED pc
  /\ UNCHANGED <<vmmios, booted, x, acc, i, iprio, priority, mode>>

\* val in vmmio_handler.
Val(v) == IF acc[v].srt = Xzr THEN Zero ELSE x[v][acc[v].srt]

\* reg is NULL for the zero register; what a read writes through it is nowhere
\* in this state.
SetReg(v, w) == x' = IF acc[v].srt = Xzr THEN x ELSE [x EXCEPT ![v][acc[v].srt] = w]

-----------------------------------------------------------------------------
(* vgicd_read and vgicd_write take the lock, vgicr_read and vgicr_write do *)
(* not.                                                                    *)

\* Mutant: the lock is not taken.
AcquireNot(v) ==
  /\ Goto(v, "acquire", "gicd") /\ mode' = [mode EXCEPT ![v] = "in"]
  /\ UNCHANGED <<vmmios, booted, x, local, priority>>

RequestLock(v) ==
  /\ Goto(v, "lock", "acquire") /\ VgicLock!Request(v)
  /\ UNCHANGED <<vmmios, booted, x, local, priority>>

AcquireLock(v) ==
  /\ Goto(v, "acquire", "gicd") /\ VgicLock!Acquire(v)
  /\ UNCHANGED <<vmmios, booted, x, local, priority>>

\* The false report of arch_spin_lock (SpinLock).
LockAborts(v) ==
  /\ Goto(v, "acquire", "dead") /\ VgicLock!GiveUp(v)
  /\ UNCHANGED <<vmmios, booted, x, local, priority>>

\* The case of the offset.  The loops of the redistributor are rload and rstore.
Priorities(v) ==
  /\ \/ Goto(v, "gicd", IF acc[v].wnr THEN "store" ELSE "load")
     \/ Goto(v, "gicr", IF acc[v].wnr THEN "rstore" ELSE "rload")
  /\ Reg(v).kind = "priority"
  /\ i' = [i EXCEPT ![v] = 0]
  /\ iprio' = [iprio EXCEPT ![v] = Zero]
  /\ UNCHANGED <<vmmios, booted, x, acc, m, priority, mode>>

Leave(v) == Goto(v, "gicd", "unlock") \/ Goto(v, "gicr", "step")

Constant(v) ==
  /\ Leave(v)
  /\ Reg(v).kind = "constant"
  /\ IF acc[v].wnr THEN UNCHANGED x ELSE SetReg(v, Reg(v).value)
  /\ UNCHANGED <<vmmios, booted, local, priority, mode>>

\* Mutant: the early return leaves the lock taken.
UnknownKeepsLock(v) ==
  /\ Goto(v, "gicd", "step") \/ Goto(v, "gicr", "step")
  /\ Reg(v).kind = "unknown"
  /\ UNCHANGED <<vmmios, booted, x, local, priority, mode>>

\* "Unable to handle the GICD_* request", and a frame that is rejected: the
\* register keeps its value.
Unknown(v) ==
  /\ Leave(v)
  /\ Reg(v).kind = "unknown"
  /\ UNCHANGED <<vmmios, booted, x, local, priority, mode>>

\* An index behind spis, or a vCPU that is not there: a read finds anything.
\* What a write hits is left out.  It is no priority: those of spis lie before
\* it, and in a vgicv3_cpu none lies a multiple of four bytes from spis.
GoAstray(v) ==
  /\ Leave(v)
  /\ Reg(v).kind = "astray"
  /\ IF acc[v].wnr THEN UNCHANGED x ELSE \E w \in Words : SetReg(v, w)
  /\ UNCHANGED <<vmmios, booted, local, priority, mode>>

\* The NULL pointer may also end in an abort at EL2, which hangs the core.  A
\* write to an identity register does not use it.
NullVcpu(v) ==
  /\ Goto(v, "gicr", "dead")
  /\ Reg(v).kind = "astray" /\ Frame(Offset(v)) = NVcpu
  /\ Layout["gicr"][Offset(v) % Stride] = "identity" => ~acc[v].wnr
  /\ UNCHANGED <<vmmios, booted, x, local, priority, mode>>

LoadByte(v) ==
  /\ pc[v] \in {"load", "rload"} /\ i[v] < NBytes
  /\ iprio' = [iprio EXCEPT ![v][i[v]] = priority[Reg(v).at][i[v]]]
  /\ i' = [i EXCEPT ![v] = @ + 1]
  /\ UNCHANGED <<vmmios, booted, pc, x, acc, m, priority, mode>>

LoadWord(v) ==
  /\ i[v] = NBytes
  /\ Goto(v, "load", "unlock") \/ Goto(v, "rload", "step")
  /\ SetReg(v, iprio[v])
  /\ UNCHANGED <<vmmios, booted, local, priority, mode>>

StoreByte(v) ==
  /\ pc[v] \in {"store", "rstore"} /\ i[v] < NBytes
  /\ priority' = [priority EXCEPT ![Reg(v).at][i[v]] = Val(v)[i[v]]]
  /\ i' = [i EXCEPT ![v] = @ + 1]
  /\ UNCHANGED <<vmmios, booted, pc, x, acc, m, iprio, mode>>

StoreDone(v) ==
  /\ i[v] = NBytes
  /\ Goto(v, "store", "unlock") \/ Goto(v, "rstore", "step")
  /\ UNCHANGED <<vmmios, booted, x, local, priority, mode>>

Unlock(v) ==
  /\ Goto(v, "unlock", "step") /\ VgicLock!Release(v)
  /\ UNCHANGED <<vmmios, booted, x, local, priority>>

-----------------------------------------------------------------------------
\* Back in el1_sync_proc, whatever was returned: elr += 4 and the eret.  The
\* local variables of the handlers are gone.
Step(v) ==
  /\ Goto(v, "step", "guest")
  /\ acc' = [acc EXCEPT ![v] = NoAccess]
  /\ m' = [m EXCEPT ![v] = 0]
  /\ i' = [i EXCEPT ![v] = 0]
  /\ iprio' = [iprio EXCEPT ![v] = Zero]
  /\ UNCHANGED <<vmmios, booted, x, priority, mode>>

-----------------------------------------------------------------------------
Boot == Publish \/ Fill \/ Start

Lock(v) == RequestLock(v) \/ AcquireLock(v) \/ LockAborts(v) \/ Unlock(v)
Case(v) == Priorities(v) \/ Constant(v) \/ Unknown(v) \/ GoAstray(v) \/ NullVcpu(v)
Loop(v) == LoadByte(v) \/ LoadWord(v) \/ StoreByte(v) \/ StoreDone(v)

Hyp(v) == Find(v) \/ Lock(v) \/ Case(v) \/ Loop(v) \/ Step(v)

Next ==
  \/ Boot
  \/ \E v \in Vcpus : Hyp(v) \/ \E a \in Accesses, file \in Files : Trap(v, a, file)

Spec == Init /\ [][Next]_vars

\* Every core executes the hypervisor's instructions.
FairSpec == Spec /\ WF_vars(Boot) /\ \A v \in Vcpus : WF_vars(Hyp(v))

-----------------------------------------------------------------------------
(* Properties                                                              *)

Holding == {"gicd", "load", "store", "unlock"}
Unlocked == {"gicr", "rload", "rstore"}
Labels == Holding \cup Unlocked \cup {"off", "guest", "find", "lock", "acquire", "step", "dead"}
Nodes == {Ranges[k] : k \in 1..Len(Ranges)}

TypeOK ==
  /\ vmmios \in Seq(Nodes \cup {Blank}) /\ Len(vmmios) <= Len(Ranges)
  /\ booted \in BOOLEAN
  /\ pc \in [Vcpus -> Labels]
  /\ x \in [Vcpus -> [Regs -> Words]]
  /\ acc \in [Vcpus -> Accesses \cup {NoAccess}]
  /\ m \in [Vcpus -> 0..(Len(Ranges) + 1)]
  /\ i \in [Vcpus -> 0..NBytes]
  /\ iprio \in [Vcpus -> Words]
  /\ priority \in [Configs -> Words]
  /\ mode \in [Vcpus -> VgicLock!Modes]

\* The priorities that have no lock: the redistributor's handlers reach those
\* of the first frame's vCPU.
Open(p) == p[1] = First

\* What is at an address, from the ranges and not from the list.
Found(v, a) ==
  IF \E n \in Nodes : Within(a, n)
  THEN LET n == CHOOSE n \in Nodes : Within(a, n) IN RegisterOf(v, n.dev, a - n.base)
  ELSE Unhandled
RegisterAt(v, a) ==
  LET r == Found(v, a) IN
  IF r.kind = "priority"
  THEN [kind |-> IF Open(r.at) THEN "bytewise" ELSE "stored", at |-> r.at]
  ELSE r
Registers == [v \in Vcpus |-> [a \in Ipas |-> RegisterAt(v, a)]]

(***************************************************************************)
(* The refinement mapping.  A store under the lock takes effect when its   *)
(* loop starts: a register that is being stored counts as stored, since    *)
(* nobody else sees it before the loop ends.  A load under the lock takes  *)
(* effect when it has its word.  Where the lock does not help the mapping  *)
(* shows the bytes that are done.                                          *)
(***************************************************************************)
Storing(p) == {v \in Vcpus : pc[v] = "store" /\ Reg(v).at = p}
word ==
  [p \in Configs |-> IF Open(p) \/ Storing(p) = {} THEN priority[p]
                     ELSE Val(CHOOSE v \in Storing(p) : TRUE)]
OpenLoop(v) == pc[v] \in {"load", "store", "rload", "rstore"} /\ Open(Reg(v).at)
access ==
  [v \in Vcpus |->
     CASE pc[v] \in {"off", "guest"} -> [state |-> "none"]
       [] pc[v] = "dead" -> [state |-> "dead"]
       [] OpenLoop(v) ->
            [state |-> "going", of |-> acc[v], left |-> i[v]..(NBytes - 1), got |-> iprio[v]]
       [] pc[v] \in {"store", "unlock", "step"} /\ ~OpenLoop(v) ->
            [state |-> "done", of |-> acc[v]]
       [] OTHER -> [state |-> "issued", of |-> acc[v]]]

Atomic == INSTANCE AtomicMmio WITH
  Places <- 0..(NBytes - 1),
  Register <- Registers

\* el1_sync.c, vmmio.c and vgicv3.c together, though the vCPUs' handlers go
\* over the bytes at the same time: a load or store is one access to the
\* register at its address, except to the priorities of the first vCPU's private
\* interrupts.  Those, which the redistributor's handlers reach without the
\* lock, are accessed at one moment a byte at a time only, and may be torn.  An
\* index that leaves the arrays changes no register.
ImplementsAtomicMmio == Atomic!Spec

\* No path through the handlers, failing ones included, leaves the lock taken:
\* every access returns to its guest, unless its core aborts or waits for
\* another that is inside a handler.
AccessReturns ==
  \A v \in Vcpus :
    pc[v] \notin {"off", "guest", "dead"} ~>
      pc[v] \in {"guest", "dead"} \/ \E w \in Vcpus \ {v} : pc[w] \in Holding

(***************************************************************************)
(* The strengthening that makes the refinement inductive.                  *)
(***************************************************************************)
\* The list is complete before a vCPU runs.
ListComplete ==
  /\ ~booted => \A v \in Vcpus : pc[v] = "off"
  /\ booted => Len(vmmios) = Len(Ranges) /\ \A k \in 1..Len(vmmios) : vmmios[k] = Ranges[Len(Ranges) + 1 - k]
  /\ \A k \in 1..Len(vmmios) :
       vmmios[k] = Ranges[Len(vmmios) + 1 - k] \/ (k = 1 /\ vmmios[k] = Blank)

\* vmmio_handler has passed the nodes that do not match and stops at one that does.
SearchedAt(v) ==
  /\ pc[v] \notin {"off", "guest"} => acc[v] \in Accesses
  /\ pc[v] = "find" => m[v] > 0 /\ \A k \in 1..(m[v] - 1) : ~Belongs(v, vmmios[k])
  /\ pc[v] \in Holding \cup Unlocked \cup {"lock", "acquire"} =>
       /\ m[v] \in 1..Len(vmmios) /\ Belongs(v, vmmios[m[v]])
       /\ vmmios[m[v]].dev = IF pc[v] \in Unlocked THEN "gicr" ELSE "gicd"
  /\ pc[v] \in {"load", "store", "rload", "rstore"} => Reg(v).kind = "priority"
  /\ pc[v] \in {"store", "rstore"} => acc[v].wnr
  /\ pc[v] \in {"load", "rload"} => ~acc[v].wnr
Searched == \A v \in Vcpus : SearchedAt(v)

\* One core at a time is between the lock and the unlock.
Locked ==
  /\ \A v \in Vcpus : mode[v] = "in" <=> pc[v] \in Holding
  /\ \A v \in Vcpus : mode[v] = "waiting" <=> pc[v] = "acquire"
  /\ \A v, w \in Vcpus : pc[v] \in Holding /\ pc[w] \in Holding => v = w

\* What the loops have done so far, where the lock keeps the others out.
ProgressAt(v) ==
  /\ pc[v] = "load" /\ ~Open(Reg(v).at) =>
       \A k \in 0..(i[v] - 1) : iprio[v][k] = priority[Reg(v).at][k]
  /\ pc[v] = "store" /\ ~Open(Reg(v).at) =>
       \A k \in 0..(i[v] - 1) : priority[Reg(v).at][k] = Val(v)[k]
Progress == \A v \in Vcpus : ProgressAt(v)

IInv ==
  /\ TypeOK
  /\ ListComplete
  /\ Searched
  /\ Locked
  /\ Progress
=============================================================================
