-------------------------------- MODULE Vcpu --------------------------------
(***************************************************************************)
(* The life of the vCPUs: creation at boot (create_guest_vm, create_vcpu), *)
(* PSCI CPU_ON (vpsci.c), the start of a core (hyper_init_secondary,       *)
(* start_vcpu, switch_vcpu) and the way through the vectors from a trap to *)
(* the eret (vector.S, el1_sync_proc).  vcpus[] is shared by the cores: a  *)
(* core saves and restores its own vCPU there, and CPU_ON writes the       *)
(* vCPU of another core.  Addresses are an entry point and an instruction  *)
(* count from it.                                                          *)
(***************************************************************************)
EXTENDS Naturals

CONSTANTS
  NCPU,         \* the physical cores are 0..NCPU-1
  NVcpu,        \* vm->nvcpu
  BootEntry,    \* vm_config->entry_addr
  NoEntry,      \* the entry 0 of a vCPU that has not been started
  Entries,      \* the entry points the guest passes to CPU_ON
  Targets,      \* the vCPUs the guest passes to CPU_ON
  Repeat,       \* whether the guest asks for a vCPU that it asked for before
  MaxOff        \* bound: instructions a vCPU executes from its entry

Cores == 0..(NCPU - 1)
VmCpus == 0..(NVcpu - 1)
Null == NCPU    \* a NULL vcpu pointer, or no target

ASSUME VcpuAssumption ==
  /\ NCPU \in Nat /\ NVcpu \in 1..NCPU
  /\ BootEntry \notin Entries \cup {NoEntry} /\ NoEntry \notin Entries
  /\ Targets \subseteq Cores
  /\ Repeat \in BOOLEAN
  /\ MaxOff \in Nat \ {0}

VARIABLES
  vcpus,        \* vcpus[i].state and vcpus[i].regs.elr
  vmVcpus,      \* vm->vcpus: which element of vcpus[] it points to
  tpidr,        \* tpidr_el2 of each core: the vCPU the vectors work on
  pc,           \* where the core is in the hypervisor, or "guest"
  elrEl2,       \* ELR_EL2 of each core, and the guest's pc at EL1
  esr,          \* why the core is at EL2
  arg,          \* x1 and x2 of a CPU_ON: the target and its entry
  asked,        \* the targets the guest has asked for
  resume        \* history: where the vCPU is expected to run next

vars == <<vcpus, vmVcpus, tpidr, pc, elrEl2, esr, arg, asked, resume>>

At(entry, n) == [base |-> entry, off |-> n]
After(a) == [a EXCEPT !.off = @ + 1]
NoArg == [target |-> Null, entry |-> NoEntry]

Init ==
  /\ vcpus = [i \in Cores |-> [state |-> "UNUSED", elr |-> At(NoEntry, 0)]]
  /\ vmVcpus = [i \in Cores |-> Null]
  /\ tpidr = [c \in Cores |-> Null]
  /\ pc = [c \in Cores |-> IF c = 0 THEN "create" ELSE "off"]
  /\ elrEl2 = [c \in Cores |-> At(NoEntry, 0)]
  /\ esr = [c \in Cores |-> "none"]
  /\ arg = [c \in Cores |-> NoArg]
  /\ asked = {}
  /\ resume = [c \in Cores |-> At(IF c = 0 THEN BootEntry ELSE NoEntry, 0)]

Goto(c, from, to) == pc[c] = from /\ pc' = [pc EXCEPT ![c] = to]

-----------------------------------------------------------------------------
(* Boot of the primary core                                                *)

\* Mutant: vcpu_alloc returns any unused vCPU.
CreateVcpuAny(k) ==
  /\ pc[0] = "create"
  /\ k \in VmCpus /\ vmVcpus[k] = Null /\ \A j \in 0..(k-1) : vmVcpus[j] # Null
  /\ \E v \in Cores :
       /\ vcpus[v].state = "UNUSED"
       /\ vcpus' = [vcpus EXCEPT ![v] =
                      [state |-> "ALLOCED",
                       elr |-> At(IF k = 0 THEN BootEntry ELSE NoEntry, 0)]]
       /\ vmVcpus' = [vmVcpus EXCEPT ![k] = v]
  /\ UNCHANGED <<tpidr, pc, elrEl2, esr, arg, asked, resume>>

\* vm_init: the next vCPU of the VM is the first unused element of vcpus[].
CreateVcpu(k) ==
  /\ pc[0] = "create"
  /\ k \in VmCpus /\ vmVcpus[k] = Null /\ \A j \in 0..(k-1) : vmVcpus[j] # Null
  /\ \E v \in Cores :
       /\ vcpus[v].state = "UNUSED"
       /\ \A w \in 0..(v-1) : vcpus[w].state # "UNUSED"
       /\ vcpus' = [vcpus EXCEPT ![v] =
                      [state |-> "ALLOCED",
                       elr |-> At(IF k = 0 THEN BootEntry ELSE NoEntry, 0)]]
       /\ vmVcpus' = [vmVcpus EXCEPT ![k] = v]
  /\ UNCHANGED <<tpidr, pc, elrEl2, esr, arg, asked, resume>>

\* The last step of create_guest_vm.
PrimaryReady ==
  /\ \A j \in VmCpus : vmVcpus[j] # Null
  /\ Goto(0, "create", "start")
  /\ vcpus' = [vcpus EXCEPT ![vmVcpus[0]].state = "READY"]
  /\ UNCHANGED <<vmVcpus, tpidr, elrEl2, esr, arg, asked, resume>>

-----------------------------------------------------------------------------
(* Start of a core                                                         *)

\* hyper_init_secondary up to start_vcpu.
InitSecondary(c) ==
  /\ Goto(c, "boot", "start")
  /\ UNCHANGED <<vcpus, vmVcpus, tpidr, elrEl2, esr, arg, asked, resume>>

\* Mutant: the state a started vCPU has later is tested.
StartVcpuRunning(c) ==
  /\ Goto(c, "start", IF vcpus[c].state = "RUNNING" THEN "switch" ELSE "not_ready")
  /\ UNCHANGED <<vcpus, vmVcpus, tpidr, elrEl2, esr, arg, asked, resume>>

\* start_vcpu aborts with "vcpu is not ready".
StartVcpu(c) ==
  /\ Goto(c, "start", IF vcpus[c].state = "READY" THEN "switch" ELSE "not_ready")
  /\ UNCHANGED <<vcpus, vmVcpus, tpidr, elrEl2, esr, arg, asked, resume>>

SwitchVcpu(c) ==
  /\ Goto(c, "switch", "restore")
  /\ tpidr' = [tpidr EXCEPT ![c] = c]
  /\ vcpus' = [vcpus EXCEPT ![c].state = "RUNNING"]
  /\ UNCHANGED <<vmVcpus, elrEl2, esr, arg, asked, resume>>

-----------------------------------------------------------------------------
(* The guest                                                               *)

Execute(c) ==
  /\ pc[c] = "guest" /\ elrEl2[c].off < MaxOff
  /\ elrEl2' = [elrEl2 EXCEPT ![c] = After(@)]
  /\ UNCHANGED <<vcpus, vmVcpus, tpidr, pc, esr, arg, asked, resume>>

\* A trap.  The preferred return address of an hvc is the next instruction,
\* that of every other exception the instruction itself.
Trap(c, why, call) ==
  /\ Goto(c, "guest", "save")
  /\ why # "irq" => elrEl2[c].off < MaxOff
  /\ esr' = [esr EXCEPT ![c] = why]
  /\ arg' = [arg EXCEPT ![c] = call]
  /\ elrEl2' = [elrEl2 EXCEPT ![c] = IF why = "hvc" THEN After(@) ELSE @]
  /\ resume' = [resume EXCEPT ![c] = IF why = "irq" THEN elrEl2[c] ELSE After(elrEl2[c])]
  /\ UNCHANGED <<vcpus, vmVcpus, tpidr>>

PlainTrap(c) ==
  /\ \E why \in {"hvc", "smc", "sysreg", "data_abort", "irq", "unknown"} : Trap(c, why, NoArg)
  /\ UNCHANGED asked

CpuOnTrap(c) ==
  \E why \in {"hvc", "smc"}, t \in Targets, e \in Entries :
    /\ Repeat \/ t \notin asked
    /\ Trap(c, why, [target |-> t, entry |-> e])
    /\ asked' = asked \cup {t}

-----------------------------------------------------------------------------
(* From the vector to the eret                                             *)

\* save_vm_regs stores ELR_EL2 in the vCPU that tpidr_el2 points to.
SaveRegs(c) ==
  /\ Goto(c, "save", IF arg[c].target # Null THEN "on_elr" ELSE "handle")
  /\ vcpus' = [vcpus EXCEPT ![tpidr[c]].elr = elrEl2[c]]
  /\ UNCHANGED <<vmVcpus, tpidr, elrEl2, esr, arg, asked, resume>>

\* Mutant: the entry goes to the calling vCPU.
CpuOnElrSelf(c) ==
  /\ Goto(c, "on_elr", "on_state")
  /\ vcpus' = [vcpus EXCEPT ![tpidr[c]].elr = At(arg[c].entry, 0)]
  /\ UNCHANGED <<vmVcpus, tpidr, elrEl2, esr, arg, asked, resume>>

\* Mutant: the entry of the target is not set.
CpuOnElrForgotten(c) ==
  /\ Goto(c, "on_elr", "on_state")
  /\ UNCHANGED <<vcpus, vmVcpus, tpidr, elrEl2, esr, arg, asked, resume>>

\* vpsci_cpu_on: a target beyond nvcpu is only warned about; its entry of
\* vm->vcpus is NULL, and what is written through that is no vCPU.
CpuOnElr(c) ==
  /\ Goto(c, "on_elr", "on_state")
  /\ LET v == vmVcpus[arg[c].target] IN
       vcpus' = [i \in Cores |->
                   IF i = v THEN [vcpus[i] EXCEPT !.elr = At(arg[c].entry, 0)] ELSE vcpus[i]]
  /\ UNCHANGED <<vmVcpus, tpidr, elrEl2, esr, arg, asked, resume>>

CpuOnState(c) ==
  /\ Goto(c, "on_state", "on_smc")
  /\ LET v == vmVcpus[arg[c].target] IN
       vcpus' = [i \in Cores |->
                   IF i = v THEN [vcpus[i] EXCEPT !.state = "READY"] ELSE vcpus[i]]
  /\ UNCHANGED <<vmVcpus, tpidr, elrEl2, esr, arg, asked, resume>>

\* The firmware powers the core on, or answers ALREADY_ON.
CpuOnSmc(c) ==
  LET t == arg[c].target IN
  /\ pc[c] = "on_smc"
  /\ pc' = [d \in Cores |-> IF d = c THEN "handle"
                            ELSE IF d = t /\ pc[d] = "off" THEN "boot" ELSE pc[d]]
  /\ resume' = IF pc[t] = "off"
               THEN [resume EXCEPT ![t] = At(arg[c].entry, 0)] ELSE resume
  /\ UNCHANGED <<vcpus, vmVcpus, tpidr, elrEl2, esr, arg, asked>>

Emulated == {"smc", "sysreg", "data_abort"}

\* el1_sync_proc steps over an emulated instruction, and aborts on an
\* exception it does not know; el1_irq_proc leaves elr as it is.
Handle(c) ==
  /\ Goto(c, "handle", IF esr[c] = "unknown" THEN "unknown_sync" ELSE "restore")
  /\ vcpus' = IF esr[c] \in Emulated
              THEN [vcpus EXCEPT ![tpidr[c]].elr = After(@)] ELSE vcpus
  /\ UNCHANGED <<vmVcpus, tpidr, elrEl2, esr, arg, asked, resume>>

\* restore_vm_regs and eret, also the end of switch_out.
Eret(c) ==
  /\ Goto(c, "restore", "guest")
  /\ elrEl2' = [elrEl2 EXCEPT ![c] = vcpus[tpidr[c]].elr]
  /\ UNCHANGED <<vcpus, vmVcpus, tpidr, esr, arg, asked, resume>>

-----------------------------------------------------------------------------
BootSteps == (\E k \in Cores : CreateVcpu(k)) \/ PrimaryReady

HypSteps(c) ==
  \/ InitSecondary(c) \/ StartVcpu(c) \/ SwitchVcpu(c)
  \/ SaveRegs(c) \/ CpuOnElr(c) \/ CpuOnState(c) \/ CpuOnSmc(c)
  \/ Handle(c) \/ Eret(c)

GuestSteps(c) == Execute(c) \/ PlainTrap(c) \/ CpuOnTrap(c)

Next == BootSteps \/ \E c \in Cores : HypSteps(c) \/ GuestSteps(c)

Spec == Init /\ [][Next]_vars

\* Every powered core executes the hypervisor's instructions.
FairSpec == Spec /\ WF_vars(BootSteps) /\ \A c \in Cores : WF_vars(HypSteps(c))

-----------------------------------------------------------------------------
(* Properties                                                              *)

Addresses == [base : {BootEntry, NoEntry} \cup Entries, off : 0..MaxOff]
States == {"UNUSED", "ALLOCED", "READY", "RUNNING"}
BeforeSwitch == {"off", "create", "boot", "start", "switch", "not_ready"}
InTrap == {"save", "handle", "on_elr", "on_state", "on_smc", "restore"}
Labels == BeforeSwitch \cup InTrap \cup {"guest", "unknown_sync"}
Reasons == {"none", "hvc", "smc", "sysreg", "data_abort", "irq", "unknown"}

TypeOK ==
  /\ vcpus \in [Cores -> [state : States, elr : Addresses]]
  /\ vmVcpus \in [Cores -> Cores \cup {Null}]
  /\ tpidr \in [Cores -> Cores \cup {Null}]
  /\ pc \in [Cores -> Labels]
  /\ elrEl2 \in [Cores -> Addresses]
  /\ esr \in [Cores -> Reasons]
  /\ arg \in [Cores -> [target : Targets \cup {Null}, entry : Entries \cup {NoEntry}]]
  /\ asked \subseteq Targets
  /\ resume \in [Cores -> Addresses]

\* CPU_ON t finds through vm->vcpus the element of vcpus[] that core t will
\* start, and a core works on its own vCPU only.
OwnVcpu ==
  /\ \A k \in Cores : vmVcpus[k] \in {k, Null}
  /\ \A c \in Cores : pc[c] \notin BeforeSwitch => tpidr[c] = c

\* A core that CPU_ON has powered finds its vCPU ready (vcpu.c:148).
NeverNotReady == \A c \in Cores : pc[c] # "not_ready"

\* The context of a vCPU is complete before its core is powered: the state is
\* READY and the entry is the requested one when start_vcpu looks at them.
WokenCoreIsSetUp ==
  \A c \in Cores : pc[c] \in {"boot", "start", "switch"} =>
    vcpus[c].state = "READY" /\ vcpus[c].elr = resume[c]

\* A vCPU runs on after a trap at the right instruction, and starts at the
\* entry it was started with, whatever the other cores do in between: one
\* step over an emulated instruction, none over an hvc or an interrupt.
ResumesWhereExpected ==
  [][\A c \in Cores :
       pc[c] = "restore" /\ pc'[c] = "guest" => elrEl2'[c] = resume[c]]_vars

(***************************************************************************)
(* The guest the boot protocol is written for: it starts each of its       *)
(* secondary vCPUs once.                                                   *)
(***************************************************************************)
StartsOnce == ~Repeat /\ Targets \subseteq VmCpus \ {0}

\* During boot only the primary core runs; afterwards vm->vcpus is complete.
BootOrder ==
  /\ \A c \in Cores : pc[c] = "create" => c = 0
  /\ pc[0] = "create" => asked = {} /\ \A c \in Cores : c # 0 => pc[c] = "off"
  /\ pc[0] # "off"
  /\ pc[0] # "create" => \A k \in VmCpus : vmVcpus[k] = k
  /\ pc[0] = "create" => \A k \in Cores :
       /\ vcpus[k].state = "UNUSED" <=> vmVcpus[k] = Null
       /\ vmVcpus[k] # Null => vcpus[k].elr = At(IF k = 0 THEN BootEntry ELSE NoEntry, 0)
  /\ pc[0] \in BeforeSwitch => resume[0] = At(BootEntry, 0)

\* One core at most is starting core t, and core t is off until it is done.
Asking(c) == pc[c] \in {"save", "on_elr", "on_state", "on_smc"} /\ arg[c].target # Null
OneStarter ==
  /\ \A c \in Cores : Asking(c) =>
       arg[c].target \in asked /\ pc[arg[c].target] = "off"
  /\ \A c, d \in Cores : Asking(c) /\ Asking(d) /\ arg[c].target = arg[d].target => c = d
  /\ \A t \in Targets : t \notin asked => pc[t] = "off"
  /\ \A c \in Cores : pc[c] \in {"on_elr", "on_state", "on_smc"} => arg[c].target # Null

\* What the starter has written so far.
Handover ==
  \A c \in Cores :
    LET v == vcpus[arg[c].target] IN
    /\ pc[c] \in {"on_state", "on_smc"} => v.elr = At(arg[c].entry, 0)
    /\ pc[c] = "on_smc" => v.state = "READY"

\* The saved return address leads to where the vCPU is expected to run on.
LeadsTo(c, a) ==
  esr[c] # "unknown" => resume[c] = IF esr[c] \in Emulated THEN After(a) ELSE a
ReturnAddress ==
  \A c \in Cores :
    /\ pc[c] = "save" => LeadsTo(c, elrEl2[c])
    /\ pc[c] \in {"handle", "on_elr", "on_state", "on_smc"} => LeadsTo(c, vcpus[c].elr)
    /\ pc[c] = "restore" => vcpus[c].elr = resume[c]

IInv ==
  /\ TypeOK
  /\ OwnVcpu
  /\ NeverNotReady
  /\ WokenCoreIsSetUp
  /\ BootOrder
  /\ OneStarter
  /\ Handover
  /\ ReturnAddress

\* Every powered core reaches its guest again, unless the guest made an
\* exception the hypervisor does not know.
ReachesGuest ==
  \A c \in Cores :
    pc[c] # "off" ~> pc[c] \in {"guest", "unknown_sync"}
=============================================================================
