----------------------------- MODULE VcpuProofs -----------------------------
(***************************************************************************)
(* Proofs about Vcpu, for any number of cores and vCPUs, for a guest that  *)
(* starts each of its secondary vCPUs at most once.                        *)
(***************************************************************************)
EXTENDS Vcpu, TLAPS

(* What the proofs need to know of the numbering of the cores.             *)
LEMMA ConstantFacts ==
  /\ 0 \in VmCpus /\ 0 \in Cores /\ VmCpus \subseteq Cores
  /\ Null \notin Cores
  /\ Targets \subseteq Cores
  BY VcpuAssumption DEF VmCpus, Cores, Null

(* Entry points and the successors of instructions are addresses.          *)
LEMMA AddressFacts ==
  /\ \A e \in {BootEntry, NoEntry} \cup Entries : At(e, 0) \in Addresses
  /\ \A a \in Addresses : a.off < MaxOff => After(a) \in Addresses
  BY VcpuAssumption DEF At, After, Addresses

LEMMA InitIInv == StartsOnce /\ Init => IInv
  BY ConstantFacts, AddressFacts DEF StartsOnce, Init, IInv, TypeOK, OwnVcpu, NeverNotReady,
     WokenCoreIsSetUp, BootOrder, OneStarter, Handover, ReturnAddress, Asking, NoArg,
     States, Labels, BeforeSwitch, InTrap, Reasons

(* vm_init hands the vCPUs out in the order of vcpus[].                    *)
LEMMA CreateInOrder ==
  ASSUME IInv, NEW k \in Cores, CreateVcpu(k)
  PROVE  /\ vmVcpus' = [vmVcpus EXCEPT ![k] = k]
         /\ vcpus' = [vcpus EXCEPT ![k] =
                        [state |-> "ALLOCED",
                         elr |-> At(IF k = 0 THEN BootEntry ELSE NoEntry, 0)]]
  <1>1. PICK v \in Cores :
          /\ vcpus[v].state = "UNUSED"
          /\ \A w \in 0..(v-1) : vcpus[w].state # "UNUSED"
          /\ vcpus' = [vcpus EXCEPT ![v] =
                         [state |-> "ALLOCED",
                          elr |-> At(IF k = 0 THEN BootEntry ELSE NoEntry, 0)]]
          /\ vmVcpus' = [vmVcpus EXCEPT ![k] = v]
    BY DEF CreateVcpu
  <1>2. /\ vmVcpus[k] = Null /\ \A j \in 0..(k-1) : vmVcpus[j] # Null
        /\ \A i \in Cores : vcpus[i].state = "UNUSED" <=> vmVcpus[i] = Null
    BY DEF CreateVcpu, IInv, BootOrder
  <1>3. v \in Nat /\ k \in Nat
    BY VcpuAssumption DEF Cores
  <1>4. ~(v < k)
    BY <1>1, <1>2, <1>3
  <1>5. ~(k < v)
    BY <1>1, <1>2, <1>3
  <1>6. v = k
    BY <1>3, <1>4, <1>5
  <1>7. QED BY <1>1, <1>6

-----------------------------------------------------------------------------
LEMMA StepIInv ==
  ASSUME StartsOnce, IInv, [Next]_vars
  PROVE  IInv'
  <1> USE ConstantFacts DEF StartsOnce, IInv, LeadsTo, Asking, NoArg,
      States, Labels, BeforeSwitch, InTrap, Reasons, Emulated, Goto, TypeOK, OwnVcpu,
      NeverNotReady, WokenCoreIsSetUp, BootOrder, OneStarter, Handover, ReturnAddress
  <1>1. ASSUME NEW k \in Cores, CreateVcpu(k) PROVE IInv'
    <2>1. pc[0] = "create" /\ k \in VmCpus
          /\ UNCHANGED <<tpidr, pc, elrEl2, esr, arg, asked, resume>>
      BY <1>1 DEF CreateVcpu
    <2>2. /\ vmVcpus' = [vmVcpus EXCEPT ![k] = k]
          /\ vcpus' = [vcpus EXCEPT ![k] =
                         [state |-> "ALLOCED",
                          elr |-> At(IF k = 0 THEN BootEntry ELSE NoEntry, 0)]]
      BY <1>1, CreateInOrder
    <2>3. QED BY <2>1, <2>2, AddressFacts
  <1>2. ASSUME PrimaryReady PROVE IInv'
    <2>1. TypeOK'
      BY <1>2 DEF PrimaryReady
    <2>2. QED BY <1>2, <2>1, AddressFacts DEF PrimaryReady
  <1>3. ASSUME NEW c \in Cores, InitSecondary(c) PROVE IInv'
    BY <1>3 DEF InitSecondary
  <1>4. ASSUME NEW c \in Cores, StartVcpu(c) PROVE IInv'
    BY <1>4 DEF StartVcpu
  <1>5. ASSUME NEW c \in Cores, SwitchVcpu(c) PROVE IInv'
    <2>1. \A i \in Cores : vcpus'[i] =
            IF i = c THEN [state |-> "RUNNING", elr |-> vcpus[c].elr] ELSE vcpus[i]
      BY <1>5 DEF SwitchVcpu
    <2>2. vcpus' = [i \in Cores |-> vcpus'[i]]
      BY <1>5 DEF SwitchVcpu
    <2>3. TypeOK'
      BY <1>5, <2>1, <2>2 DEF SwitchVcpu
    <2>4. QED BY <1>5, <2>1, <2>3 DEF SwitchVcpu
  <1>6. ASSUME NEW c \in Cores, SaveRegs(c) PROVE IInv'
    <2>1. tpidr[c] = c
      BY <1>6 DEF SaveRegs
    <2>2. \A i \in Cores : vcpus'[i] =
            IF i = c THEN [state |-> vcpus[c].state, elr |-> elrEl2[c]] ELSE vcpus[i]
      BY <1>6, <2>1 DEF SaveRegs
    <2>3. vcpus' \in [Cores -> [state : States, elr : Addresses]]
      <3>1. vcpus' = [i \in Cores |-> vcpus'[i]]
        BY <1>6 DEF SaveRegs
      <3>2. ASSUME NEW i \in Cores
            PROVE  vcpus'[i] \in [state : States, elr : Addresses]
        <4>1. /\ vcpus[i] \in [state : States, elr : Addresses]
              /\ vcpus[c] \in [state : States, elr : Addresses]
              /\ elrEl2[c] \in Addresses
          OBVIOUS
        <4>2. CASE i = c
          BY <2>2, <4>1, <4>2
        <4>3. CASE i # c
          BY <2>2, <4>1, <4>3
        <4>4. QED BY <4>2, <4>3
      <3>3. QED BY <3>1, <3>2
    <2>4. TypeOK'
      BY <1>6, <2>3 DEF SaveRegs
    <2>5. WokenCoreIsSetUp' /\ BootOrder' /\ OneStarter'
      BY <1>6, <2>2 DEF SaveRegs
    <2>6. Handover' /\ ReturnAddress'
      BY <1>6, <2>2 DEF SaveRegs
    <2>7. QED BY <1>6, <2>4, <2>5, <2>6 DEF SaveRegs
  <1>7. ASSUME NEW c \in Cores, CpuOnElr(c) PROVE IInv'
    BY <1>7, AddressFacts DEF CpuOnElr
  <1>8. ASSUME NEW c \in Cores, CpuOnState(c) PROVE IInv'
    <2>1. TypeOK' /\ OwnVcpu' /\ NeverNotReady' /\ WokenCoreIsSetUp' /\ BootOrder'
      BY <1>8 DEF CpuOnState
    <2>2. OneStarter' /\ Handover' /\ ReturnAddress'
      BY <1>8 DEF CpuOnState
    <2>3. QED BY <2>1, <2>2
  <1>9. ASSUME NEW c \in Cores, CpuOnSmc(c) PROVE IInv'
    BY <1>9, AddressFacts DEF CpuOnSmc
  <1>10. ASSUME NEW c \in Cores, Handle(c) PROVE IInv'
    <2>1. tpidr[c] = c
      BY <1>10 DEF Handle
    <2>2. \A i \in Cores : vcpus'[i] =
            IF i = c /\ esr[c] \in Emulated
              THEN [state |-> vcpus[c].state, elr |-> resume[c]] ELSE vcpus[i]
      BY <1>10, <2>1 DEF Handle
    <2>3. vcpus' \in [Cores -> [state : States, elr : Addresses]]
      <3>1. vcpus' = [i \in Cores |-> vcpus'[i]]
        BY <1>10 DEF Handle
      <3>2. /\ resume[c] \in Addresses
            /\ \A i \in Cores : vcpus[i] \in [state : States, elr : Addresses]
        OBVIOUS
      <3>3. vcpus[c].state \in States
        BY <3>2
      <3>4. [state |-> vcpus[c].state, elr |-> resume[c]] \in [state : States, elr : Addresses]
        BY <3>2, <3>3
      <3>5. ASSUME NEW i \in Cores PROVE vcpus'[i] \in [state : States, elr : Addresses]
        <4>1. CASE i = c /\ esr[c] \in Emulated
          BY ONLY <4>1, <2>2, <3>4
        <4>2. CASE ~(i = c /\ esr[c] \in Emulated)
          BY ONLY <4>2, <2>2, <3>2
        <4>3. QED BY <4>1, <4>2
      <3>6. QED BY <3>1, <3>5
    <2>4. TypeOK'
      BY <1>10, <2>3 DEF Handle
    <2>5. WokenCoreIsSetUp' /\ BootOrder' /\ OneStarter'
      BY <1>10, <2>2 DEF Handle
    <2>6. Handover' /\ ReturnAddress'
      BY <1>10, <2>2 DEF Handle
    <2>7. QED BY <1>10, <2>4, <2>5, <2>6 DEF Handle
  <1>11. ASSUME NEW c \in Cores, Eret(c) PROVE IInv'
    BY <1>11 DEF Eret
  <1>12. ASSUME NEW c \in Cores, Execute(c) PROVE IInv'
    BY <1>12, AddressFacts DEF Execute
  <1>13. ASSUME NEW c \in Cores, PlainTrap(c) PROVE IInv'
    BY <1>13, AddressFacts DEF PlainTrap, Trap
  <1>14. ASSUME NEW c \in Cores, CpuOnTrap(c) PROVE IInv'
    BY <1>14, AddressFacts DEF CpuOnTrap, Trap
  <1>15. CASE UNCHANGED vars
    BY <1>15 DEF vars
  <1>16. QED
    <2> HIDE DEF IInv
    <2>1. QED
      BY <1>1, <1>2, <1>3, <1>4, <1>5, <1>6, <1>7, <1>8, <1>9, <1>10, <1>11,
         <1>12, <1>13, <1>14, <1>15 DEF Next, BootSteps, HypSteps, GuestSteps

-----------------------------------------------------------------------------
(* The invariant of the boot protocol.                                     *)
THEOREM Invariance == ASSUME StartsOnce PROVE Spec => []IInv
  <1>1. Init => IInv
    BY InitIInv
  <1>2. IInv /\ [Next]_vars => IInv'
    BY StepIInv
  <1>3. QED BY <1>1, <1>2, PTL DEF Spec

(* vcpus[], tpidr_el2 and the program points keep their types.             *)
THEOREM TypeCorrect == ASSUME StartsOnce PROVE Spec => []TypeOK
  <1>1. IInv => TypeOK
    BY DEF IInv
  <1>2. QED BY <1>1, Invariance, PTL

(* CPU_ON and the vectors agree on which element of vcpus[] is whose.      *)
THEOREM OwnsVcpu == ASSUME StartsOnce PROVE Spec => []OwnVcpu
  <1>1. IInv => OwnVcpu
    BY DEF IInv
  <1>2. QED BY <1>1, Invariance, PTL

(* start_vcpu never aborts with "vcpu is not ready".                       *)
THEOREM StartSucceeds == ASSUME StartsOnce PROVE Spec => []NeverNotReady
  <1>1. IInv => NeverNotReady
    BY DEF IInv
  <1>2. QED BY <1>1, Invariance, PTL

(* vpsci_cpu_on has completed the context of the vCPU before its core can  *)
(* look at it.                                                             *)
THEOREM SetUpBeforeWake == ASSUME StartsOnce PROVE Spec => []WokenCoreIsSetUp
  <1>1. IInv => WokenCoreIsSetUp
    BY DEF IInv
  <1>2. QED BY <1>1, Invariance, PTL

(* The only step from "restore" to "guest" is the eret of that core.       *)
LEMMA ReturnStep ==
  ASSUME StartsOnce, IInv, Next, NEW c \in Cores, pc[c] = "restore", pc'[c] = "guest"
  PROVE  Eret(c)
  <1> USE DEF IInv, TypeOK, Goto
  <1>1. ASSUME NEW d \in Cores, HypSteps(d) \/ GuestSteps(d) PROVE Eret(c)
    BY <1>1, ConstantFacts DEF HypSteps, GuestSteps, InitSecondary, StartVcpu, SwitchVcpu,
       SaveRegs, CpuOnElr, CpuOnState, CpuOnSmc, Handle, Eret, Execute, PlainTrap,
       CpuOnTrap, Trap
  <1>2. ~BootSteps
    BY ConstantFacts DEF BootSteps, CreateVcpu, PrimaryReady
  <1>3. QED BY <1>1, <1>2 DEF Next

(* The eret of a trap leads to the instruction the vCPU is to run next.    *)
THEOREM ReturnsCorrectly == ASSUME StartsOnce PROVE Spec => ResumesWhereExpected
  <1>1. ASSUME IInv, Next, NEW c \in Cores, pc[c] = "restore", pc'[c] = "guest"
        PROVE  elrEl2'[c] = resume[c]
    <2>1. Eret(c)
      BY <1>1, ReturnStep
    <2>2. tpidr[c] = c /\ vcpus[c].elr = resume[c] /\ elrEl2 \in [Cores -> Addresses]
      BY <1>1 DEF IInv, OwnVcpu, ReturnAddress, TypeOK, BeforeSwitch
    <2>3. QED BY <2>1, <2>2 DEF Eret
  <1>2. IInv /\ [Next]_vars =>
          [\A c \in Cores : pc[c] = "restore" /\ pc'[c] = "guest" => elrEl2'[c] = resume[c]]_vars
    BY <1>1
  <1>3. QED BY <1>2, Invariance, PTL DEF Spec, ResumesWhereExpected
=============================================================================
