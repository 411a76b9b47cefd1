----------------------------- MODULE VmmioProofs ----------------------------
(***************************************************************************)
(* Proofs about Vmmio, for any number of vCPUs, any devices and registers, *)
(* and words of any number of bytes: what trapped accesses are atomic in.  *)
(***************************************************************************)
EXTENDS Vmmio, SequenceTheorems, TLAPS

(* What the proofs need to know of the constants.                          *)
LEMMA WordFacts ==
  /\ Zero \in Words
  /\ Files \subseteq [Regs -> Words] /\ Garbage \subseteq Words
  /\ NBytes \in Nat /\ 0 \in 0..NBytes
  BY VmmioAssumption DEF Words, Zero

(* Every range is one of a device, and no address is within two of them.   *)
LEMMA NodeFacts ==
  /\ Len(Ranges) \in Nat
  /\ \A n \in Nodes : n \in [base : Nat, size : Nat \ {0}, dev : {"gicd", "gicr"}]
  /\ \A n, k \in Nodes, a \in Ipas : Within(a, n) /\ Within(a, k) => n = k
  <1>1. Len(Ranges) \in Nat
    BY VmmioAssumption
  <1>2. \A k \in 1..Len(Ranges) :
          Ranges[k] \in [base : Nat, size : Nat \ {0}, dev : {"gicd", "gicr"}]
    BY VmmioAssumption, ElementOfSeq
  <1>3. ASSUME NEW n \in Nodes, NEW k \in Nodes, NEW a \in Ipas, Within(a, n), Within(a, k)
        PROVE  n = k
    <2>1. PICK j \in 1..Len(Ranges) : n = Ranges[j]
      BY DEF Nodes
    <2>2. PICK l \in 1..Len(Ranges) : k = Ranges[l]
      BY DEF Nodes
    <2>3. QED BY <1>3, <2>1, <2>2, VmmioAssumption
  <1>4. ASSUME NEW n \in Nodes
        PROVE  n \in [base : Nat, size : Nat \ {0}, dev : {"gicd", "gicr"}]
    <2>1. PICK j \in 1..Len(Ranges) : n = Ranges[j]
      BY DEF Nodes
    <2>2. QED BY ONLY <1>2, <2>1
  <1>5. QED BY ONLY <1>1, <1>3, <1>4

(* The offset of an address is one of its range.                           *)
LEMMA OffsetInRange ==
  ASSUME NEW a \in Nat, NEW n, n.base \in Nat, n.size \in Nat, Within(a, n)
  PROVE  a - n.base \in 0..(n.size - 1)
  BY DEF Within

(* vgic_irq_get returns a configuration or leaves the arrays.              *)
LEMMA ConfigTyped ==
  ASSUME NEW v \in Vcpus, NEW n \in Nat
  PROVE  \/ Config(v, n) = Astray
         \/ Config(v, n).kind = "priority" /\ Config(v, n).at \in Configs
  <1>1. CASE n < NPrivate
    <2>1. n \in 0..(NPrivate - 1) /\ Config(v, n) = [kind |-> "priority", at |-> <<v, n>>]
      BY <1>1, VmmioAssumption DEF Config
    <2>2. QED BY <2>1 DEF Configs
  <1>2. CASE ~(n < NPrivate) /\ n < NPrivate + NSpis
    <2>1. /\ n \in NPrivate..(NPrivate + NSpis - 1)
          /\ Config(v, n) = [kind |-> "priority", at |-> <<Spis, n>>]
      BY <1>2, VmmioAssumption DEF Config
    <2>2. QED BY <2>1 DEF Configs
  <1>3. CASE ~(n < NPrivate) /\ ~(n < NPrivate + NSpis)
    BY <1>3 DEF Config
  <1>4. QED BY <1>1, <1>2, <1>3

Fit(r, open) ==
  /\ r.kind \in {"priority", "constant", "astray", "unknown"}
  /\ r.kind = "priority" => r.at \in Configs /\ (open => Open(r.at))
  /\ r.kind = "constant" => r.value \in Words

LEMMA GicdFits ==
  ASSUME NEW v \in Vcpus, NEW o \in Nat, Layout["gicd"][o] = "priority" => o >= Prio["gicd"]
  PROVE  Fit(Gicd(v, o), FALSE)
  <1>1. CASE Layout["gicd"][o] = "priority"
    <2>1. o - Prio["gicd"] \in Nat
      BY <1>1, VmmioAssumption
    <2>2. Gicd(v, o) = Config(v, o - Prio["gicd"])
      BY <1>1 DEF Gicd
    <2>3. QED BY <2>1, <2>2, ConfigTyped DEF Fit, Astray
  <1>2. CASE Layout["gicd"][o] # "priority"
    <2>1. \/ Gicd(v, o) = Fixed(Zero) \/ Gicd(v, o) = Fixed(DistId)
          \/ Gicd(v, o) = Unhandled
      BY <1>2 DEF Gicd
    <2>2. QED BY <2>1, WordFacts, VmmioAssumption DEF Fit, Fixed, Unhandled
  <1>3. QED BY <1>1, <1>2

(* The redistributor's handlers reach priorities of the first frame only.  *)
LEMMA GicrFits ==
  ASSUME NEW o \in Nat,
         Layout["gicr"][o % Stride] = "priority" =>
           IF o < Stride THEN o - Prio["gicr"] \in 0..(NPrivate - 1)
           ELSE o - Prio["gicr"] >= NPrivate + NSpis
  PROVE  Fit(Gicr(o), TRUE)
  <1> DEFINE f == Frame(o)
             kind == Layout["gicr"][o % Stride]
  <1>s. Stride \in Nat \ {0} /\ NVcpu \in Nat \ {0}
    BY VmmioAssumption
  <1>1. f \in Nat /\ (o < Stride => f = 0) /\ NVcpu \in Nat \ {0}
    BY ONLY <1>s, o \in Nat DEF Frame
  <1>2. CASE f < NVcpu /\ kind = "priority"
    <2>1. Gicr(o) = Config(Frames[f], o - Prio["gicr"])
      BY <1>1, <1>2 DEF Gicr
    <2>2. CASE o < Stride
      <3>1. Frames[f] = First /\ First \in Vcpus
        BY <1>1, <2>2, VmmioAssumption DEF First
      <3>2. o - Prio["gicr"] \in 0..(NPrivate - 1)
        BY <1>2, <2>2
      <3>3. Config(First, o - Prio["gicr"]) = [kind |-> "priority", at |-> <<First, o - Prio["gicr"]>>]
        BY <3>2, VmmioAssumption DEF Config
      <3>4. QED BY <2>1, <3>1, <3>2, <3>3 DEF Fit, Configs, Open
    <2>3. CASE ~(o < Stride)
      <3>1. o - Prio["gicr"] >= NPrivate + NSpis /\ o - Prio["gicr"] \in Int
        BY <1>2, <2>3, VmmioAssumption
      <3>2. Gicr(o) = Astray
        BY <2>1, <3>1, VmmioAssumption DEF Config
      <3>3. QED BY <3>2 DEF Fit, Astray
    <2>4. QED BY <2>2, <2>3
  <1>3. CASE f < NVcpu /\ kind = "identity"
    <2>1. Gicr(o) = Fixed(Id[f])
      BY <1>1, <1>3 DEF Gicr
    <2>2. Id[f] \in Words
      BY <1>1, <1>3, VmmioAssumption
    <2>3. QED BY <2>1, <2>2 DEF Fit, Fixed
  <1>4. CASE f <= NVcpu /\ kind = "constant"
    <2>1. Gicr(o) = Fixed(Zero)
      BY <1>4 DEF Gicr
    <2>2. QED BY <2>1, WordFacts DEF Fit, Fixed
  <1>5. CASE ~(f < NVcpu /\ kind \in {"priority", "identity"}) /\ ~(f <= NVcpu /\ kind = "constant")
    <2>1. Gicr(o) = Astray \/ Gicr(o) = Unhandled
      BY <1>5 DEF Gicr
    <2>2. QED BY <2>1 DEF Fit, Astray, Unhandled
  <1>6. QED BY <1>2, <1>3, <1>4, <1>5

LEMMA RegisterFits ==
  ASSUME NEW v \in Vcpus, NEW n \in Nodes, NEW o \in 0..(n.size - 1)
  PROVE  Fit(RegisterOf(v, n.dev, o), n.dev = "gicr")
  <1>1. n.dev \in {"gicd", "gicr"} /\ o \in Nat
    BY NodeFacts
  <1>2. PICK k \in 1..Len(Ranges) : n = Ranges[k]
    BY DEF Nodes
  <1>3. CASE n.dev = "gicd"
    <2>1. Fit(Gicd(v, o), FALSE)
      BY <1>1, <1>2, <1>3, LayoutAssumption, GicdFits
    <2>2. QED BY <2>1, <1>3 DEF RegisterOf, Fit
  <1>4. CASE n.dev = "gicr"
    <2>1. Fit(Gicr(o), TRUE)
      BY <1>1, <1>2, <1>4, LayoutAssumption, GicrFits
    <2>2. QED BY <2>1, <1>4 DEF RegisterOf, Fit
  <1>5. QED BY <1>1, <1>3, <1>4

LEMMA InitIInv == Init => IInv
  <1> SUFFICES ASSUME Init PROVE IInv
    OBVIOUS
  <1> USE WordFacts DEF Init
  <1>1. vmmios \in Seq(Nodes \cup {Blank}) /\ Len(vmmios) = 0
    OBVIOUS
  <1>2. Len(Ranges) \in Nat
    BY VmmioAssumption
  <1>3. TypeOK
    <2>1. x \in [Vcpus -> [Regs -> Words]]
      OBVIOUS
    <2>2. acc \in [Vcpus -> Accesses \cup {NoAccess}]
      OBVIOUS
    <2>3. m \in [Vcpus -> 0..(Len(Ranges) + 1)] /\ i \in [Vcpus -> 0..NBytes]
      BY <1>2
    <2>4. mode \in [Vcpus -> VgicLock!Modes]
      BY DEF VgicLock!Init, VgicLock!Modes
    <2>5. iprio \in [Vcpus -> Words] /\ priority \in [Configs -> Words]
      OBVIOUS
    <2>6. pc \in [Vcpus -> Labels] /\ booted \in BOOLEAN
      BY DEF Labels
    <2>7. vmmios \in Seq(Nodes \cup {Blank}) /\ Len(vmmios) <= Len(Ranges)
      BY <1>1, <1>2
    <2>8. QED BY ONLY <2>1, <2>2, <2>3, <2>4, <2>5, <2>6, <2>7 DEF TypeOK
  <1>4. ListComplete /\ Searched /\ Progress
    BY <1>1, <1>2 DEF ListComplete, Searched, SearchedAt, Progress, ProgressAt, Holding, Unlocked
  <1>5. Locked
    BY DEF Locked, Holding, VgicLock!Init
  <1>6. QED BY <1>3, <1>4, <1>5 DEF IInv

-----------------------------------------------------------------------------
(* The boot core.                                                          *)

LEMMA PublishIInv == ASSUME IInv, Publish PROVE IInv'
  <1>1. /\ vmmios \in Seq(Nodes \cup {Blank}) /\ Len(Ranges) \in Nat
        /\ Len(vmmios) < Len(Ranges)
        /\ vmmios' = <<Blank>> \o vmmios
    BY VmmioAssumption DEF IInv, TypeOK, Publish
  <1>2. /\ vmmios' \in Seq(Nodes \cup {Blank})
        /\ Len(vmmios') = Len(vmmios) + 1
        /\ vmmios'[1] = Blank
        /\ \A k \in 2..Len(vmmios') : vmmios'[k] = vmmios[k - 1]
    BY <1>1
  <1>3. TypeOK'
    BY <1>1, <1>2 DEF IInv, TypeOK, Publish, local
  <1>4. \A k \in 1..Len(vmmios) : vmmios[k] = Ranges[Len(vmmios) + 1 - k]
    BY <1>1 DEF IInv, ListComplete, Publish
  <1>5. ListComplete'
    <2>1. booted' = FALSE /\ \A v \in Vcpus : pc'[v] = "off"
      BY DEF IInv, ListComplete, Publish
    <2>2. ASSUME NEW k \in 1..Len(vmmios')
          PROVE  vmmios'[k] = Ranges[Len(vmmios') + 1 - k] \/ (k = 1 /\ vmmios'[k] = Blank)
      <3>1. CASE k = 1
        BY <3>1, <1>2
      <3>2. CASE k # 1
        <4>1. k \in 2..Len(vmmios') /\ k - 1 \in 1..Len(vmmios)
          BY <3>2, <1>1, <1>2
        <4>2. vmmios'[k] = Ranges[Len(vmmios) + 1 - (k - 1)]
          BY <4>1, <1>2, <1>4
        <4>3. Len(vmmios) + 1 - (k - 1) = Len(vmmios') + 1 - k
          BY <4>1, <1>1, <1>2
        <4>4. QED BY <4>2, <4>3
      <3>3. QED BY <3>1, <3>2
    <2>3. QED BY <2>1, <2>2 DEF ListComplete
  <1>6. Searched' /\ Locked' /\ Progress'
    BY DEF IInv, ListComplete, Searched, SearchedAt, Locked, Progress, ProgressAt, Publish, local, Holding, Unlocked
  <1>7. QED BY <1>3, <1>5, <1>6 DEF IInv

LEMMA FillIInv == ASSUME IInv, Fill PROVE IInv'
  <1>1. /\ vmmios \in Seq(Nodes \cup {Blank}) /\ Len(Ranges) \in Nat
        /\ Len(vmmios) <= Len(Ranges) /\ Len(vmmios) > 0
        /\ vmmios' = [vmmios EXCEPT ![1] = Ranges[Len(vmmios)]]
    BY VmmioAssumption, EmptySeq DEF IInv, TypeOK, Fill
  <1>2. Ranges[Len(vmmios)] \in Nodes
    BY <1>1 DEF Nodes
  <1>3. /\ vmmios' \in Seq(Nodes \cup {Blank})
        /\ Len(vmmios') = Len(vmmios)
        /\ \A k \in 1..Len(vmmios) :
             vmmios'[k] = IF k = 1 THEN Ranges[Len(vmmios)] ELSE vmmios[k]
    BY <1>1, <1>2, ExceptSeq
  <1>4. TypeOK'
    BY <1>1, <1>3 DEF IInv, TypeOK, Fill, local
  <1>5. ListComplete'
    <2>1. booted' = FALSE /\ \A v \in Vcpus : pc'[v] = "off"
      BY DEF IInv, ListComplete, Fill
    <2>2. \A k \in 1..Len(vmmios') : vmmios'[k] = Ranges[Len(vmmios') + 1 - k]
      BY <1>1, <1>3 DEF IInv, ListComplete
    <2>3. QED BY <2>1, <2>2 DEF ListComplete
  <1>6. Searched' /\ Locked' /\ Progress'
    BY DEF IInv, ListComplete, Searched, SearchedAt, Locked, Progress, ProgressAt, Fill, local, Holding, Unlocked
  <1>7. QED BY <1>4, <1>5, <1>6 DEF IInv

LEMMA StartIInv == ASSUME IInv, Start PROVE IInv'
  <1>1. \A v \in Vcpus : pc'[v] = "guest" /\ pc[v] = "off"
    BY DEF IInv, ListComplete, Start
  <1>2. /\ vmmios \in Seq(Nodes \cup {Blank}) /\ Len(Ranges) \in Nat
        /\ Len(vmmios) = Len(Ranges)
        /\ \A k \in 1..Len(vmmios) : vmmios[k] = Ranges[Len(Ranges) + 1 - k]
    <2>1. /\ vmmios \in Seq(Nodes \cup {Blank}) /\ Len(Ranges) \in Nat
          /\ Len(vmmios) = Len(Ranges) /\ (vmmios # <<>> => vmmios[1] # Blank)
      BY NodeFacts DEF IInv, TypeOK, Start
    <2>2. \A k \in 1..Len(vmmios) :
            vmmios[k] = Ranges[Len(Ranges) + 1 - k] \/ (k = 1 /\ vmmios[k] = Blank)
      BY <2>1 DEF IInv, ListComplete
    <2>3. Len(vmmios) > 0 => vmmios # <<>>
      BY <2>1, EmptySeq
    <2>4. QED BY ONLY <2>1, <2>2, <2>3
  <1>3. TypeOK'
    BY DEF IInv, TypeOK, Start, local, Labels
  <1>4. ListComplete'
    BY <1>2 DEF ListComplete, Start
  <1>5. Searched' /\ Locked' /\ Progress'
    BY <1>1 DEF IInv, Searched, SearchedAt, Locked, Progress, ProgressAt, Start, local, Holding, Unlocked
  <1>6. QED BY <1>3, <1>4, <1>5 DEF IInv

-----------------------------------------------------------------------------
(* The vCPUs.  The list is complete when one of them runs, and stays so.   *)
LEMMA ListThere ==
  ASSUME IInv, NEW v \in Vcpus, pc[v] # "off"
  PROVE  /\ booted /\ Len(Ranges) \in Nat
         /\ vmmios \in Seq(Nodes) /\ Len(vmmios) = Len(Ranges)
         /\ \A k \in 1..Len(vmmios) : vmmios[k] = Ranges[Len(Ranges) + 1 - k]
  <1>1. booted
    BY DEF IInv, ListComplete
  <1>2. /\ vmmios \in Seq(Nodes \cup {Blank}) /\ Len(vmmios) = Len(Ranges)
        /\ \A k \in 1..Len(vmmios) : vmmios[k] = Ranges[Len(Ranges) + 1 - k]
        /\ Len(Ranges) \in Nat
    BY <1>1, NodeFacts DEF IInv, TypeOK, ListComplete
  <1>3. ASSUME NEW k \in 1..Len(vmmios) PROVE vmmios[k] \in Nodes
    <2>1. Len(Ranges) + 1 - k \in 1..Len(Ranges)
      BY <1>2
    <2>2. QED BY <1>2, <2>1 DEF Nodes
  <1>4. vmmios \in Seq(Nodes)
    BY ONLY <1>2, <1>3
  <1>5. QED BY ONLY <1>1, <1>2, <1>4

LEMMA ListKept ==
  ASSUME IInv, NEW v \in Vcpus, pc[v] # "off", UNCHANGED <<vmmios, booted>>
  PROVE  /\ ListComplete'
         /\ vmmios \in Seq(Nodes) /\ Len(vmmios) = Len(Ranges) /\ Len(Ranges) \in Nat
  BY ListThere DEF ListComplete

(* What holds of a vCPU is left alone by the steps of the others.          *)
LEMMA OthersKept ==
  ASSUME IInv, NEW w \in Vcpus, UNCHANGED vmmios,
         pc'[w] = pc[w], acc'[w] = acc[w], m'[w] = m[w]
  PROVE  SearchedAt(w)'
  BY DEF IInv, Searched, SearchedAt, Belongs, Reg, Offset

(* What a loop under the lock has done is left alone by the steps of the   *)
(* others, as only one is in such a loop.                                  *)
LEMMA OthersProgress ==
  ASSUME IInv, NEW w \in Vcpus, UNCHANGED vmmios, pc'[w] = pc[w], acc'[w] = acc[w],
         m'[w] = m[w], i'[w] = i[w], iprio'[w] = iprio[w], x'[w] = x[w],
         pc[w] \in {"load", "store"} /\ ~Open(Reg(w).at) =>
           priority'[Reg(w).at] = priority[Reg(w).at]
  PROVE  ProgressAt(w)'
  <1>1. Reg(w)' = Reg(w) /\ Val(w)' = Val(w)
    BY DEF Reg, Offset, Val
  <1>2. ProgressAt(w)
    BY DEF IInv, Progress
  <1>3. Open(Reg(w).at)' = Open(Reg(w).at)
    BY <1>1 DEF Open
  <1>4. QED BY <1>1, <1>2, <1>3 DEF ProgressAt

LEMMA TrapIInv ==
  ASSUME IInv, NEW v \in Vcpus, NEW a \in Accesses, NEW file \in Files, Trap(v, a, file)
  PROVE  IInv'
  <1>1. pc[v] = "guest" /\ UNCHANGED <<vmmios, booted>>
    BY DEF Trap, Goto
  <1>2. ListComplete' /\ vmmios \in Seq(Nodes) /\ Len(Ranges) \in Nat
    BY <1>1, ListKept
  <1>3. TypeOK'
    <2>1. pc' \in [Vcpus -> Labels] /\ acc' \in [Vcpus -> Accesses \cup {NoAccess}]
      BY DEF IInv, TypeOK, Trap, Goto, Labels
    <2>2. x' \in [Vcpus -> [Regs -> Words]]
      BY WordFacts DEF IInv, TypeOK, Trap
    <2>3. m' \in [Vcpus -> 0..(Len(Ranges) + 1)]
      BY <1>2 DEF IInv, TypeOK, Trap
    <2>4. QED BY <2>1, <2>2, <2>3 DEF IInv, TypeOK, Trap
  <1>4. Searched'
    <2>1. SearchedAt(v)'
      BY DEF IInv, TypeOK, SearchedAt, Trap, Goto, Holding, Unlocked
    <2>2. ASSUME NEW w \in Vcpus \ {v} PROVE SearchedAt(w)'
      BY OthersKept DEF IInv, TypeOK, Trap, Goto
    <2>3. QED BY <2>1, <2>2 DEF Searched
  <1>5. Locked'
    BY DEF IInv, TypeOK, Locked, Trap, Goto, Holding
  <1>6. Progress'
    <2>1. ProgressAt(v)'
      BY DEF IInv, TypeOK, ProgressAt, Trap, Goto
    <2>2. ASSUME NEW w \in Vcpus \ {v} PROVE ProgressAt(w)'
      BY OthersProgress DEF IInv, TypeOK, Trap, Goto
    <2>3. QED BY <2>1, <2>2 DEF Progress
  <1>7. QED BY <1>2, <1>3, <1>4, <1>5, <1>6 DEF IInv

LEMMA FindIInv == ASSUME IInv, NEW v \in Vcpus, Find(v) PROVE IInv'
  <1>1. pc[v] = "find" /\ UNCHANGED <<vmmios, booted>>
    BY DEF Find
  <1>2. /\ ListComplete' /\ vmmios \in Seq(Nodes)
        /\ Len(vmmios) = Len(Ranges) /\ Len(Ranges) \in Nat
    BY <1>1, ListKept
  <1>3. \A k \in 1..Len(vmmios) : vmmios[k].dev \in {"gicd", "gicr"}
    BY <1>2, NodeFacts
  <1>4. /\ m[v] \in Nat /\ m[v] > 0 /\ acc[v] \in Accesses
        /\ \A k \in 1..(m[v] - 1) : ~Belongs(v, vmmios[k])
    <2>1. SearchedAt(v) /\ m[v] \in 0..(Len(Ranges) + 1)
      BY DEF IInv, Searched, TypeOK
    <2>2. QED BY <2>1, <1>1, <1>2 DEF SearchedAt
  <1>5. TypeOK'
    <2>1. pc' \in [Vcpus -> Labels]
      BY DEF IInv, TypeOK, Find, Goto, Labels, Holding, Unlocked
    <2>2. m' \in [Vcpus -> 0..(Len(Ranges) + 1)]
      BY <1>2, <1>4 DEF IInv, TypeOK, Find
    <2>3. QED BY <2>1, <2>2 DEF IInv, TypeOK, Find
  <1>6. Searched'
    <2>1. ASSUME m[v] > Len(vmmios) PROVE SearchedAt(v)'
      <3>1. pc'[v] = "step" /\ acc'[v] = acc[v]
        BY <2>1, <1>2, <1>4 DEF IInv, TypeOK, Find, Goto
      <3>2. QED BY <3>1, <1>4 DEF SearchedAt, Holding, Unlocked
    <2>2. ASSUME m[v] <= Len(vmmios) /\ Belongs(v, vmmios[m[v]]) PROVE SearchedAt(v)'
      <3>1. /\ pc'[v] = IF vmmios[m[v]].dev = "gicd" THEN "lock" ELSE "gicr"
            /\ acc'[v] = acc[v] /\ m'[v] = m[v]
        BY <2>2, <1>2, <1>4 DEF IInv, TypeOK, Find, Goto
      <3>2. Belongs(v, vmmios[m[v]])'
        BY <2>2, <3>1, <1>1 DEF Belongs
      <3>3. QED BY <3>1, <3>2, <2>2, <1>1, <1>2, <1>3, <1>4 DEF SearchedAt, Holding, Unlocked
    <2>3. ASSUME m[v] <= Len(vmmios) /\ ~Belongs(v, vmmios[m[v]]) PROVE SearchedAt(v)'
      <3>1. pc'[v] = "find" /\ acc'[v] = acc[v] /\ m'[v] = m[v] + 1
        BY <2>3, <1>1, <1>2, <1>4 DEF IInv, TypeOK, Find
      <3>2. \A k \in 1..m[v] : ~Within(acc[v].ipa, vmmios[k])
        BY <2>3, <1>4 DEF Belongs
      <3>3. \A k \in 1..(m'[v] - 1) : ~Belongs(v, vmmios[k])'
        BY <3>1, <3>2, <1>1, <1>4 DEF Belongs
      <3>4. QED BY <3>1, <3>3, <1>1, <1>4 DEF SearchedAt, Holding, Unlocked
    <2>4. SearchedAt(v)'
      <3>1. m[v] > Len(vmmios) \/ m[v] <= Len(vmmios)
        BY <1>2, <1>4
      <3>2. QED BY <2>1, <2>2, <2>3, <3>1
    <2>5. ASSUME NEW w \in Vcpus \ {v} PROVE SearchedAt(w)'
      BY OthersKept DEF IInv, TypeOK, Find, Goto
    <2>6. QED BY <2>4, <2>5 DEF Searched
  <1>7. Locked'
    <2>1. pc' = [pc EXCEPT ![v] = pc'[v]] /\ UNCHANGED mode
      BY DEF IInv, TypeOK, Find, Goto
    <2>2. pc'[v] \notin Holding \cup {"acquire"}
      BY <1>1 DEF IInv, TypeOK, Find, Goto, Holding
    <2>3. QED BY <1>1, <2>1, <2>2 DEF IInv, TypeOK, Locked, Holding
  <1>8. Progress'
    <2>1. ProgressAt(v)'
      BY <1>1 DEF IInv, TypeOK, ProgressAt, Find, Goto
    <2>2. ASSUME NEW w \in Vcpus \ {v} PROVE ProgressAt(w)'
      BY OthersProgress DEF IInv, TypeOK, Find, Goto
    <2>3. QED BY <2>1, <2>2 DEF Progress
  <1>9. QED BY <1>2, <1>5, <1>6, <1>7, <1>8 DEF IInv

Inside == Holding \cup {"lock", "acquire"}

(* A vCPU goes on in the handlers and changes at most its registers and    *)
(* the lock.                                                               *)
LEMMA MoveIInv ==
  ASSUME IInv, NEW v \in Vcpus, NEW from, NEW to \in Labels, Goto(v, from, to),
         from \notin {"off", "guest"},
         to \notin Unlocked \cup {"off", "guest", "find", "load", "store"},
         to \in Inside => from \in Inside,
         UNCHANGED <<vmmios, booted, local, priority>>,
         x' \in [Vcpus -> [Regs -> Words]], \A w \in Vcpus \ {v} : x'[w] = x[w],
         mode' \in [Vcpus -> VgicLock!Modes], Locked'
  PROVE  IInv'
  <1>1. pc[v] = from /\ pc'[v] = to /\ \A w \in Vcpus \ {v} : pc'[w] = pc[w]
    BY DEF IInv, TypeOK, Goto
  <1>2. ListComplete'
    BY <1>1, ListKept
  <1>3. TypeOK'
    <2>1. pc' \in [Vcpus -> Labels]
      BY DEF IInv, TypeOK, Goto
    <2>2. QED BY <2>1 DEF IInv, TypeOK, local
  <1>4. Searched'
    <2>1. SearchedAt(v)'
      <3>1. SearchedAt(v)
        BY DEF IInv, Searched
      <3>2. QED BY <3>1, <1>1 DEF SearchedAt, Belongs, local, Inside, Holding, Unlocked
    <2>2. ASSUME NEW w \in Vcpus \ {v} PROVE SearchedAt(w)'
      BY <1>1, OthersKept DEF local
    <2>3. QED BY <2>1, <2>2 DEF Searched
  <1>5. Progress'
    <2>1. ProgressAt(v)'
      BY <1>1 DEF ProgressAt
    <2>2. ASSUME NEW w \in Vcpus \ {v} PROVE ProgressAt(w)'
      BY <1>1, OthersProgress DEF local
    <2>3. QED BY <2>1, <2>2 DEF Progress
  <1>6. QED BY <1>2, <1>3, <1>4, <1>5 DEF IInv

(* A load leaves a word in the register it names.                          *)
LEMMA SetRegKept ==
  ASSUME IInv, NEW v \in Vcpus, pc[v] \notin {"off", "guest"}, NEW w \in Words, SetReg(v, w)
  PROVE  x' \in [Vcpus -> [Regs -> Words]] /\ \A u \in Vcpus \ {v} : x'[u] = x[u]
  <1>1. acc[v].srt \in Regs \cup {Xzr} /\ x \in [Vcpus -> [Regs -> Words]]
    BY VmmioAssumption DEF IInv, Searched, SearchedAt, TypeOK
  <1>2. CASE acc[v].srt = Xzr
    BY <1>1, <1>2 DEF SetReg
  <1>3. CASE acc[v].srt # Xzr
    BY <1>1, <1>3 DEF SetReg
  <1>4. QED BY <1>2, <1>3

LEMMA LockSteps ==
  ASSUME IInv, NEW v \in Vcpus
  PROVE  /\ RequestLock(v) => IInv'
         /\ AcquireLock(v) => IInv'
         /\ LockAborts(v) => IInv'
         /\ Unlock(v) => IInv'
  <1> USE DEF IInv, TypeOK, Locked, Goto, Holding, VgicLock!Modes
  <1>1. ASSUME RequestLock(v) PROVE IInv'
    <2>1. Locked' /\ mode' \in [Vcpus -> VgicLock!Modes]
      BY <1>1 DEF RequestLock, VgicLock!Request
    <2>2. QED BY <1>1, <2>1, MoveIInv DEF RequestLock, Labels, Inside, Unlocked
  <1>2. ASSUME AcquireLock(v) PROVE IInv'
    <2>1. Locked' /\ mode' \in [Vcpus -> VgicLock!Modes]
      BY <1>2 DEF AcquireLock, VgicLock!Acquire
    <2>2. QED BY <1>2, <2>1, MoveIInv DEF AcquireLock, Labels, Inside, Unlocked
  <1>3. ASSUME LockAborts(v) PROVE IInv'
    <2>1. Locked' /\ mode' \in [Vcpus -> VgicLock!Modes]
      BY <1>3 DEF LockAborts, VgicLock!GiveUp
    <2>2. QED BY <1>3, <2>1, MoveIInv DEF LockAborts, Labels, Inside, Unlocked
  <1>4. ASSUME Unlock(v) PROVE IInv'
    <2>1. Locked' /\ mode' \in [Vcpus -> VgicLock!Modes]
      BY <1>4 DEF Unlock, VgicLock!Release
    <2>2. QED BY <1>4, <2>1, MoveIInv DEF Unlock, Labels, Inside, Unlocked
  <1>5. QED BY <1>1, <1>2, <1>3, <1>4

(* A vCPU that has found a node stands before a register of its device.    *)
LEMMA AtRegister ==
  ASSUME IInv, NEW v \in Vcpus, pc[v] \in Holding \cup Unlocked
  PROVE  /\ acc[v] \in Accesses /\ acc[v].ipa \in Ipas
         /\ vmmios[m[v]] \in Nodes /\ Within(acc[v].ipa, vmmios[m[v]])
         /\ Fit(Reg(v), pc[v] \in Unlocked)
  <1>1. SearchedAt(v)
    BY DEF IInv, Searched
  <1>2. /\ acc[v] \in Accesses /\ m[v] \in 1..Len(vmmios)
        /\ Within(acc[v].ipa, vmmios[m[v]])
        /\ vmmios[m[v]].dev = IF pc[v] \in Unlocked THEN "gicr" ELSE "gicd"
    BY <1>1 DEF SearchedAt, Holding, Unlocked, Belongs
  <1>3. acc[v].ipa \in Ipas /\ acc[v].ipa \in Nat
    BY <1>2, VmmioAssumption
  <1>4. vmmios[m[v]] \in Nodes
    <2>1. vmmios \in Seq(Nodes)
      BY ListThere DEF Holding, Unlocked
    <2>2. QED BY <1>2, <2>1, ElementOfSeq
  <1>5. Offset(v) \in 0..(vmmios[m[v]].size - 1)
    <2>1. vmmios[m[v]].base \in Nat /\ vmmios[m[v]].size \in Nat
      BY <1>4, NodeFacts
    <2>2. QED BY <2>1, <1>2, <1>3, OffsetInRange DEF Offset
  <1>6. Fit(Reg(v), vmmios[m[v]].dev = "gicr")
    BY <1>4, <1>5, RegisterFits DEF Reg
  <1>7. QED BY <1>2, <1>3, <1>4, <1>6 DEF Fit

LEMMA EffectSteps ==
  ASSUME IInv, NEW v \in Vcpus
  PROVE  /\ Constant(v) => IInv'
         /\ Unknown(v) => IInv'
         /\ GoAstray(v) => IInv'
         /\ NullVcpu(v) => IInv'
         /\ LoadWord(v) => IInv'
         /\ StoreDone(v) => IInv'
  <1>t. mode \in [Vcpus -> VgicLock!Modes] /\ iprio[v] \in Words /\ x \in [Vcpus -> [Regs -> Words]]
    BY DEF IInv, TypeOK
  <1>l. ASSUME NEW from, NEW to, Goto(v, from, to), UNCHANGED mode,
               from \in Holding <=> to \in Holding, from # "acquire", to # "acquire"
        PROVE  Locked'
    BY <1>l DEF IInv, TypeOK, Locked, Goto
  <1>m. ASSUME NEW from, NEW to, Goto(v, from, to),
               <<from, to>> \in {<<"gicd", "unlock">>, <<"load", "unlock">>, <<"store", "unlock">>,
                                 <<"gicr", "step">>, <<"rload", "step">>, <<"rstore", "step">>,
                                 <<"gicr", "dead">>},
               UNCHANGED <<vmmios, booted, local, priority, mode>>,
               x' \in [Vcpus -> [Regs -> Words]], \A w \in Vcpus \ {v} : x'[w] = x[w]
        PROVE  IInv'
    <2>1. /\ to \in Labels /\ from \notin {"off", "guest"}
          /\ to \notin Unlocked \cup {"off", "guest", "find", "load", "store"}
          /\ to \in Inside => from \in Inside
          /\ from \in Holding <=> to \in Holding
          /\ from # "acquire" /\ to # "acquire"
      BY <1>m DEF Labels, Unlocked, Holding, Inside
    <2>2. Locked'
      BY <1>m, <2>1, <1>l
    <2>3. QED BY <1>m, <1>t, <2>1, <2>2, MoveIInv
  <1>1. ASSUME Constant(v) PROVE IInv'
    <2>1. pc[v] \in {"gicd", "gicr"} /\ Reg(v).kind = "constant"
      BY <1>1 DEF Constant, Leave, Goto
    <2>2. Reg(v).value \in Words
      BY <2>1, AtRegister DEF Fit, Holding, Unlocked
    <2>3. x' \in [Vcpus -> [Regs -> Words]] /\ \A u \in Vcpus \ {v} : x'[u] = x[u]
      BY <1>1, <1>t, <2>1, <2>2, SetRegKept DEF Constant
    <2>4. QED BY <1>1, <2>3, <1>m DEF Constant, Leave
  <1>2. ASSUME Unknown(v) PROVE IInv'
    BY <1>2, <1>t, <1>m DEF Unknown, Leave
  <1>3. ASSUME GoAstray(v) PROVE IInv'
    <2>1. pc[v] \in {"gicd", "gicr"}
      BY <1>3 DEF GoAstray, Leave, Goto
    <2>2. x' \in [Vcpus -> [Regs -> Words]] /\ \A u \in Vcpus \ {v} : x'[u] = x[u]
      BY <1>3, <1>t, <2>1, SetRegKept DEF GoAstray
    <2>3. QED BY <1>3, <2>2, <1>m DEF GoAstray, Leave
  <1>4. ASSUME NullVcpu(v) PROVE IInv'
    BY <1>4, <1>t, <1>m DEF NullVcpu
  <1>5. ASSUME LoadWord(v) PROVE IInv'
    <2>1. x' \in [Vcpus -> [Regs -> Words]] /\ \A u \in Vcpus \ {v} : x'[u] = x[u]
      BY <1>5, <1>t, SetRegKept DEF LoadWord, Goto
    <2>2. QED BY <1>5, <2>1, <1>m DEF LoadWord
  <1>6. ASSUME StoreDone(v) PROVE IInv'
    BY <1>6, <1>t, <1>m DEF StoreDone
  <1>7. QED BY <1>1, <1>2, <1>3, <1>4, <1>5, <1>6

LEMMA PrioritiesIInv == ASSUME IInv, NEW v \in Vcpus, Priorities(v) PROVE IInv'
  <1>1. /\ \/ pc[v] = "gicd" /\ pc'[v] = IF acc[v].wnr THEN "store" ELSE "load"
           \/ pc[v] = "gicr" /\ pc'[v] = IF acc[v].wnr THEN "rstore" ELSE "rload"
        /\ \A w \in Vcpus \ {v} : /\ pc'[w] = pc[w] /\ i'[w] = i[w] /\ iprio'[w] = iprio[w]
        /\ i'[v] = 0 /\ iprio'[v] = Zero
        /\ UNCHANGED <<vmmios, booted, x, acc, m, priority, mode>>
    BY DEF Priorities, Goto, IInv, TypeOK
  <1>2. ListComplete'
    BY <1>1, ListKept
  <1>3. TypeOK'
    <2>1. pc' \in [Vcpus -> Labels]
      BY DEF Priorities, Goto, IInv, TypeOK, Labels, Holding, Unlocked
    <2>2. i' \in [Vcpus -> 0..NBytes] /\ iprio' \in [Vcpus -> Words]
      BY WordFacts DEF Priorities, IInv, TypeOK
    <2>3. QED BY <2>1, <2>2, <1>1 DEF IInv, TypeOK
  <1>4. Searched'
    <2>1. SearchedAt(v)'
      <3>1. SearchedAt(v) /\ acc[v] \in Accesses /\ Reg(v).kind = "priority" /\ Reg(v)' = Reg(v)
        BY <1>1 DEF IInv, Searched, SearchedAt, Priorities, Reg, Offset
      <3>2. acc[v].wnr \in BOOLEAN
        BY <3>1, VmmioAssumption
      <3>3. QED BY <3>1, <3>2, <1>1 DEF SearchedAt, Belongs, Holding, Unlocked
    <2>2. ASSUME NEW w \in Vcpus \ {v} PROVE SearchedAt(w)'
      BY <1>1, OthersKept
    <2>3. QED BY <2>1, <2>2 DEF Searched
  <1>5. Locked'
    <2>1. pc' = [pc EXCEPT ![v] = pc'[v]] /\ (pc'[v] \in Holding <=> pc[v] \in Holding)
      BY <1>1 DEF IInv, TypeOK, Priorities, Goto, Holding
    <2>2. pc[v] # "acquire" /\ pc'[v] # "acquire"
      BY <1>1
    <2>3. QED BY <1>1, <2>1, <2>2 DEF IInv, TypeOK, Locked
  <1>6. Progress'
    <2>1. ProgressAt(v)'
      BY <1>1 DEF ProgressAt
    <2>2. ASSUME NEW w \in Vcpus \ {v} PROVE ProgressAt(w)'
      BY <1>1, OthersProgress
    <2>3. QED BY <2>1, <2>2 DEF Progress
  <1>7. QED BY <1>2, <1>3, <1>4, <1>5, <1>6 DEF IInv

(* A vCPU in a loop is at a priority, and outside the lock at an open one. *)
LEMMA InLoop ==
  ASSUME IInv, NEW v \in Vcpus, pc[v] \in {"load", "store", "rload", "rstore"}
  PROVE  /\ Reg(v).kind = "priority" /\ Reg(v).at \in Configs /\ acc[v] \in Accesses
         /\ pc[v] \in {"rload", "rstore"} => Open(Reg(v).at)
         /\ priority[Reg(v).at] \in Words /\ Val(v) \in Words
         /\ acc[v].wnr = (pc[v] \in {"store", "rstore"})
  <1>1. SearchedAt(v) /\ Fit(Reg(v), pc[v] \in Unlocked) /\ acc[v] \in Accesses
    BY AtRegister DEF IInv, Searched, Holding, Unlocked
  <1>2. acc[v].srt \in Regs \cup {Xzr} /\ acc[v].wnr \in BOOLEAN
    BY <1>1, VmmioAssumption
  <1>3. Reg(v).kind = "priority"
    BY <1>1 DEF SearchedAt
  <1>4. Reg(v).at \in Configs
    BY <1>1, <1>3 DEF Fit
  <1>5. priority[Reg(v).at] \in Words
    BY <1>4 DEF IInv, TypeOK
  <1>6. Val(v) \in Words
    BY <1>2, WordFacts DEF Val, IInv, TypeOK
  <1>7. pc[v] \in {"rload", "rstore"} => Open(Reg(v).at)
    BY <1>1, <1>3 DEF Fit, Unlocked
  <1>8. acc[v].wnr = (pc[v] \in {"store", "rstore"})
    BY <1>1, <1>2 DEF SearchedAt
  <1>9. QED BY <1>1, <1>3, <1>4, <1>5, <1>6, <1>7, <1>8

LEMMA ByteIsTyped ==
  ASSUME NEW w \in Words, NEW k \in 0..(NBytes - 1) PROVE w[k] \in Bytes
  BY DEF Words

LEMMA LoadByteIInv == ASSUME IInv, NEW v \in Vcpus, LoadByte(v) PROVE IInv'
  <1>1. /\ pc[v] \in {"load", "rload"} /\ i[v] \in 0..(NBytes - 1) /\ i'[v] = i[v] + 1
        /\ iprio' = [iprio EXCEPT ![v][i[v]] = priority[Reg(v).at][i[v]]]
        /\ \A w \in Vcpus \ {v} : i'[w] = i[w] /\ iprio'[w] = iprio[w]
        /\ UNCHANGED <<vmmios, booted, pc, x, acc, m, priority, mode>>
    BY WordFacts DEF LoadByte, IInv, TypeOK
  <1>2. ListComplete'
    BY <1>1, ListKept
  <1>3. /\ priority[Reg(v).at] \in Words /\ priority[Reg(v).at][i[v]] \in Bytes
        /\ iprio[v] \in Words
    BY <1>1, InLoop, ByteIsTyped DEF IInv, TypeOK
  <1>4. TypeOK'
    <2>1. i' \in [Vcpus -> 0..NBytes]
      BY <1>1, WordFacts DEF LoadByte, IInv, TypeOK
    <2>2. iprio' \in [Vcpus -> Words]
      BY <1>1, <1>3 DEF IInv, TypeOK, Words
    <2>3. QED BY <2>1, <2>2, <1>1 DEF IInv, TypeOK
  <1>5. Searched'
    BY <1>1, OthersKept DEF Searched
  <1>6. Locked'
    BY <1>1 DEF IInv, Locked
  <1>7. Progress'
    <2>1. ProgressAt(v)'
      <3>1. pc[v] = "load" /\ ~Open(Reg(v).at) =>
              \A k \in 0..(i[v] - 1) : iprio[v][k] = priority[Reg(v).at][k]
        BY DEF IInv, Progress, ProgressAt
      <3>2. \A k \in 0..(NBytes - 1) :
              iprio'[v][k] = IF k = i[v] THEN priority[Reg(v).at][i[v]] ELSE iprio[v][k]
        BY <1>1, <1>3 DEF IInv, TypeOK, Words
      <3>3. Reg(v)' = Reg(v) /\ Open(Reg(v).at)' = Open(Reg(v).at)
        BY <1>1 DEF Reg, Offset, Open
      <3>4. pc[v] = "load" /\ ~Open(Reg(v).at) =>
              \A k \in 0..(i'[v] - 1) : iprio'[v][k] = priority'[Reg(v).at][k]
        BY <1>1, <3>1, <3>2, WordFacts
      <3>5. QED BY <3>3, <3>4, <1>1 DEF ProgressAt
    <2>2. ASSUME NEW w \in Vcpus \ {v} PROVE ProgressAt(w)'
      BY <1>1, OthersProgress
    <2>3. QED BY <2>1, <2>2 DEF Progress
  <1>8. QED BY <1>2, <1>4, <1>5, <1>6, <1>7 DEF IInv

LEMMA StoreByteIInv == ASSUME IInv, NEW v \in Vcpus, StoreByte(v) PROVE IInv'
  <1>1. /\ pc[v] \in {"store", "rstore"} /\ i[v] \in 0..(NBytes - 1) /\ i'[v] = i[v] + 1
        /\ priority' = [priority EXCEPT ![Reg(v).at][i[v]] = Val(v)[i[v]]]
        /\ \A w \in Vcpus \ {v} : i'[w] = i[w]
        /\ UNCHANGED <<vmmios, booted, pc, x, acc, m, iprio, mode>>
    BY WordFacts DEF StoreByte, IInv, TypeOK
  <1>2. ListComplete'
    BY <1>1, ListKept
  <1>3. /\ Reg(v).at \in Configs /\ priority[Reg(v).at] \in Words
        /\ Val(v) \in Words /\ Val(v)[i[v]] \in Bytes
        /\ pc[v] = "rstore" => Open(Reg(v).at)
    BY <1>1, InLoop, ByteIsTyped
  <1>4. TypeOK'
    <2>1. i' \in [Vcpus -> 0..NBytes]
      BY <1>1, WordFacts DEF StoreByte, IInv, TypeOK
    <2>2. priority' \in [Configs -> Words]
      BY <1>1, <1>3 DEF IInv, TypeOK, Words
    <2>3. QED BY <2>1, <2>2, <1>1 DEF IInv, TypeOK
  <1>5. Searched'
    BY <1>1, OthersKept DEF Searched
  <1>6. Locked'
    BY <1>1 DEF IInv, Locked
  <1>7. Progress'
    <2>1. ProgressAt(v)'
      <3>1. pc[v] = "store" /\ ~Open(Reg(v).at) =>
              \A k \in 0..(i[v] - 1) : priority[Reg(v).at][k] = Val(v)[k]
        BY DEF IInv, Progress, ProgressAt
      <3>2. \A k \in 0..(NBytes - 1) :
              priority'[Reg(v).at][k] = IF k = i[v] THEN Val(v)[i[v]] ELSE priority[Reg(v).at][k]
        BY <1>1, <1>3 DEF IInv, TypeOK, Words
      <3>3. Reg(v)' = Reg(v) /\ Val(v)' = Val(v) /\ Open(Reg(v).at)' = Open(Reg(v).at)
        BY <1>1 DEF Reg, Offset, Val, Open
      <3>4. pc[v] = "store" /\ ~Open(Reg(v).at) =>
              \A k \in 0..(i'[v] - 1) : priority'[Reg(v).at][k] = Val(v)[k]
        BY <1>1, <3>1, <3>2, WordFacts
      <3>5. QED BY <3>3, <3>4, <1>1 DEF ProgressAt
    <2>2. ASSUME NEW w \in Vcpus \ {v} PROVE ProgressAt(w)'
      <3>1. CASE pc[v] = "store"
        <4>1. pc[w] \notin {"load", "store"}
          BY <3>1 DEF IInv, Locked, Holding
        <4>2. QED BY <4>1, <1>1 DEF ProgressAt
      <3>2. CASE pc[v] = "rstore"
        <4>1. ~Open(Reg(w).at) => Reg(w).at # Reg(v).at
          BY <1>3, <3>2
        <4>2. ~Open(Reg(w).at) => priority'[Reg(w).at] = priority[Reg(w).at]
          BY <4>1, <1>1, <1>3 DEF IInv, TypeOK
        <4>3. QED BY <4>2, <1>1, OthersProgress
      <3>3. QED BY <1>1, <3>1, <3>2
    <2>3. QED BY <2>1, <2>2 DEF Progress
  <1>8. QED BY <1>2, <1>4, <1>5, <1>6, <1>7 DEF IInv

LEMMA StepBackIInv == ASSUME IInv, NEW v \in Vcpus, Step(v) PROVE IInv'
  <1>1. /\ pc[v] = "step" /\ pc'[v] = "guest"
        /\ \A w \in Vcpus \ {v} : /\ pc'[w] = pc[w] /\ acc'[w] = acc[w] /\ m'[w] = m[w]
                                  /\ i'[w] = i[w] /\ iprio'[w] = iprio[w]
        /\ UNCHANGED <<vmmios, booted, x, priority, mode>>
    BY DEF Step, Goto, IInv, TypeOK
  <1>2. ListComplete' /\ Len(Ranges) \in Nat
    BY <1>1, ListKept
  <1>3. TypeOK'
    BY <1>1, <1>2, WordFacts DEF Step, Goto, IInv, TypeOK, Labels
  <1>4. Searched'
    <2>1. SearchedAt(v)'
      BY <1>1 DEF SearchedAt, Holding, Unlocked
    <2>2. QED BY <2>1, <1>1, OthersKept DEF Searched
  <1>5. Locked'
    BY <1>1 DEF IInv, TypeOK, Locked, Holding
  <1>6. Progress'
    <2>1. ProgressAt(v)'
      BY <1>1 DEF ProgressAt
    <2>2. QED BY <2>1, <1>1, OthersProgress DEF Progress
  <1>7. QED BY <1>2, <1>3, <1>4, <1>5, <1>6 DEF IInv

LEMMA StepIInv == IInv /\ [Next]_vars => IInv'
  <1> SUFFICES ASSUME IInv, [Next]_vars PROVE IInv'
    OBVIOUS
  <1>1. CASE Boot
    BY <1>1, PublishIInv, FillIInv, StartIInv DEF Boot
  <1>2. ASSUME NEW v \in Vcpus, NEW a \in Accesses, NEW file \in Files, Trap(v, a, file)
        PROVE  IInv'
    BY <1>2, TrapIInv
  <1>3. ASSUME NEW v \in Vcpus, Hyp(v) PROVE IInv'
    BY <1>3, FindIInv, LockSteps, EffectSteps, PrioritiesIInv, LoadByteIInv, StoreByteIInv,
       StepBackIInv DEF Hyp, Lock, Case, Loop
  <1>4. CASE UNCHANGED vars
    <2>1. UNCHANGED <<vmmios, booted, pc, x, acc, m, i, iprio, priority, mode>>
      BY <1>4 DEF vars, local
    <2>2. TypeOK' /\ ListComplete' /\ Locked'
      BY <2>1 DEF IInv, TypeOK, ListComplete, Locked
    <2>3. Searched' /\ Progress'
      BY <2>1, OthersKept, OthersProgress DEF Searched, Progress
    <2>4. QED BY <2>2, <2>3 DEF IInv
  <1>5. QED BY <1>1, <1>2, <1>3, <1>4 DEF Next

(* The invariant holds in every state, for any vCPUs, devices and words.   *)
THEOREM Invariance == Spec => []IInv
  BY InitIInv, StepIInv, PTL DEF Spec

(* Every variable keeps its type.                                          *)
THEOREM TypeCorrect == Spec => []TypeOK
  <1>1. IInv => TypeOK
    BY DEF IInv
  <1>2. QED BY Invariance, <1>1, PTL

-----------------------------------------------------------------------------
(***************************************************************************)
(* The refinement.  Where the lock keeps the others out, a load takes      *)
(* effect when its word is complete and a store when its loop starts; an   *)
(* open loop goes over the bytes in the abstract access as well; any other *)
(* access takes effect when its case is chosen.                            *)
(***************************************************************************)
OthersSame(v) ==
  /\ UNCHANGED vmmios
  /\ \A w \in Vcpus \ {v} : /\ pc'[w] = pc[w] /\ acc'[w] = acc[w] /\ m'[w] = m[w]
                            /\ i'[w] = i[w] /\ iprio'[w] = iprio[w] /\ x'[w] = x[w]

LEMMA OneMoves ==
  ASSUME IInv, NEW v \in Vcpus, Hyp(v)
  PROVE  OthersSame(v)
  <1>t. /\ pc \in [Vcpus -> Labels] /\ acc \in [Vcpus -> Accesses \cup {NoAccess}]
        /\ m \in [Vcpus -> 0..(Len(Ranges) + 1)] /\ i \in [Vcpus -> 0..NBytes]
        /\ iprio \in [Vcpus -> Words] /\ x \in [Vcpus -> [Regs -> Words]]
    BY DEF IInv, TypeOK
  <1> USE <1>t DEF OthersSame, Goto, local, SetReg
  <1>1. CASE Find(v)
    BY <1>1 DEF Find
  <1>2. CASE Lock(v)
    BY <1>2 DEF Lock, RequestLock, AcquireLock, LockAborts, Unlock
  <1>3. CASE Priorities(v)
    BY <1>3 DEF Priorities
  <1>4. CASE Constant(v) \/ Unknown(v)
    BY <1>4 DEF Constant, Unknown, Leave
  <1>5. CASE GoAstray(v) \/ NullVcpu(v)
    BY <1>5 DEF GoAstray, NullVcpu, Leave
  <1>6. CASE Loop(v)
    BY <1>6 DEF Loop, LoadByte, LoadWord, StoreByte, StoreDone
  <1>7. CASE Step(v)
    BY <1>7 DEF Step
  <1>8. QED BY <1>1, <1>2, <1>3, <1>4, <1>5, <1>6, <1>7 DEF Hyp, Case

(* What the mapping says of a vCPU, in this state and in the next.         *)
AccessAt(v) ==
  /\ pc[v] \in {"off", "guest"} => access[v] = Atomic!None
  /\ pc[v] = "dead" => access[v] = Atomic!Dead
  /\ OpenLoop(v) => access[v] = Atomic!Going(acc[v], i[v]..(NBytes - 1), iprio[v])
  /\ ~OpenLoop(v) /\ pc[v] \in {"store", "unlock", "step"} => access[v] = Atomic!Done(acc[v])
  /\ ~OpenLoop(v) /\ pc[v] \in {"find", "lock", "acquire", "gicd", "gicr", "load"} =>
       access[v] = Atomic!Issued(acc[v])

LEMMA AccessIs == ASSUME NEW v \in Vcpus PROVE AccessAt(v) /\ AccessAt(v)'
  <1> USE DEF AccessAt, access, Atomic!None, Atomic!Dead, Atomic!Going, Atomic!Done, Atomic!Issued
  <1>1. OpenLoop(v) => pc[v] \in {"load", "store", "rload", "rstore"}
    BY DEF OpenLoop
  <1>2. OpenLoop(v)' => pc'[v] \in {"load", "store", "rload", "rstore"}
    BY DEF OpenLoop
  <1>3. AccessAt(v)
    BY <1>1
  <1>4. AccessAt(v)'
    BY <1>2
  <1>5. QED BY <1>3, <1>4

(* How a step of one vCPU changes the abstract accesses.                   *)
LEMMA AccessStep ==
  ASSUME NEW v \in Vcpus, OthersSame(v)
  PROVE  access' = [access EXCEPT ![v] = access'[v]]
  <1>1. ASSUME NEW w \in Vcpus \ {v} PROVE access'[w] = access[w]
    <2>1. Reg(w)' = Reg(w)
      BY DEF OthersSame, Reg, Offset
    <2>2. OpenLoop(w)' = OpenLoop(w)
      BY <2>1 DEF OthersSame, OpenLoop, Open
    <2>3. QED BY <2>2 DEF OthersSame, access
  <1>2. access = [w \in Vcpus |-> access[w]] /\ access' = [w \in Vcpus |-> access'[w]]
    BY DEF access
  <1>3. QED BY ONLY <1>1, <1>2

LEMMA Stutters ==
  ASSUME NEW v \in Vcpus, OthersSame(v), access'[v] = access[v], word' = word, x' = x
  PROVE  UNCHANGED Atomic!vars
  <1>1. access = [w \in Vcpus |-> access[w]]
    BY DEF access
  <1>2. access' = [access EXCEPT ![v] = access[v]]
    BY AccessStep
  <1>3. access' = access
    BY ONLY <1>1, <1>2
  <1>4. QED BY <1>3 DEF Atomic!vars

(* An abstract access that is neither over nor given up goes on.           *)
LEMMA GoesOn ==
  ASSUME NEW v \in Vcpus,
         \/ access[v] = Atomic!Issued(acc[v]) \/ access[v] = Atomic!Done(acc[v])
         \/ \E left, got : access[v] = Atomic!Going(acc[v], left, got),
         Atomic!Ongoing(v, acc[v])
  PROVE  Atomic!Next
  <1>1. /\ access[v].of = acc[v]
        /\ access[v].state \in {"issued", "done", "going"}
    <2>1. CASE access[v] = Atomic!Issued(acc[v])
      BY ONLY <2>1 DEF Atomic!Issued
    <2>2. CASE access[v] = Atomic!Done(acc[v])
      BY ONLY <2>2 DEF Atomic!Done
    <2>3. ASSUME NEW left, NEW got, access[v] = Atomic!Going(acc[v], left, got)
          PROVE  access[v].of = acc[v] /\ access[v].state = "going"
      BY ONLY <2>3 DEF Atomic!Going
    <2>4. QED BY <2>1, <2>2, <2>3
  <1>2. access[v] # Atomic!None /\ access[v] # Atomic!Dead
    BY <1>1 DEF Atomic!None, Atomic!Dead
  <1>3. access[v] # Atomic!Dead /\ Atomic!Ongoing(v, access[v].of)
    BY <1>1, <1>2
  <1>4. QED BY <1>2, <1>3 DEF Atomic!Next

(* The step at which an access takes effect.                               *)
LEMMA Performs ==
  ASSUME NEW v \in Vcpus, OthersSame(v), access[v] = Atomic!Issued(acc[v]),
         access'[v] = Atomic!Done(acc[v]), Atomic!Effect(v, acc[v])
  PROVE  Atomic!Next
  <1>1. Atomic!Perform(v, acc[v])
    BY AccessStep DEF Atomic!Perform
  <1>2. QED BY <1>1, GoesOn DEF Atomic!Ongoing

-----------------------------------------------------------------------------
(* No vCPU but the one inside the lock stores under the lock.              *)
LEMMA OnlyOneStores ==
  ASSUME IInv, NEW v \in Vcpus, pc[v] \in Holding, NEW p
  PROVE  Storing(p) \subseteq {v}
  BY DEF IInv, Locked, Storing, Holding

(* While no such store is in progress the words are as they are kept.      *)
LEMMA WordAtRest ==
  ASSUME IInv, NEW v \in Vcpus, pc[v] \in Holding \ {"store"}
  PROVE  word = priority
  <1>1. \A p : Storing(p) = {}
    BY OnlyOneStores DEF Storing
  <1>2. priority \in [Configs -> Words]
    BY DEF IInv, TypeOK
  <1>3. QED BY <1>1, <1>2 DEF word

(* A vCPU that neither starts nor ends a store under the lock where the    *)
(* lock is enough leaves what the others are storing as it is.             *)
Elsewhere(v) ==
  /\ pc[v] = "store" => Open(Reg(v).at)
  /\ pc'[v] = "store" => Open(Reg(v).at)'

LEMMA StoringKept ==
  ASSUME NEW v \in Vcpus, OthersSame(v), Elsewhere(v), NEW p, ~Open(p)
  PROVE  /\ Storing(p)' = Storing(p)
         /\ Storing(p) # {} =>
              Val(CHOOSE w \in Storing(p) : TRUE)' = Val(CHOOSE w \in Storing(p) : TRUE)
  <1>1. ASSUME NEW w \in Vcpus \ {v} PROVE Val(w)' = Val(w) /\ Reg(w)' = Reg(w) /\ pc'[w] = pc[w]
    BY DEF OthersSame, Val, Reg, Offset
  <1>2. v \notin Storing(p)
    BY DEF Elsewhere, Storing
  <1>3. v \notin Storing(p)'
    BY DEF Elsewhere, Storing, Open
  <1>4. Storing(p)' = Storing(p)
    BY <1>1, <1>2, <1>3 DEF Storing
  <1>5. ASSUME Storing(p) # {}
        PROVE  Val(CHOOSE w \in Storing(p) : TRUE)' = Val(CHOOSE w \in Storing(p) : TRUE)
    <2>1. (CHOOSE w \in Storing(p) : TRUE) \in Vcpus \ {v}
      BY <1>2, <1>5 DEF Storing
    <2>2. (CHOOSE w \in Storing(p) : TRUE)' = (CHOOSE w \in Storing(p) : TRUE)
      BY <1>4
    <2>3. QED BY <1>1, <2>1, <2>2
  <1>6. QED BY <1>4, <1>5

LEMMA WordKept ==
  ASSUME NEW v \in Vcpus, OthersSame(v), Elsewhere(v), UNCHANGED priority
  PROVE  word' = word
  <1>1. ASSUME NEW p \in Configs PROVE word'[p] = word[p]
    <2>1. CASE Open(p)
      BY <2>1 DEF word, Open
    <2>2. CASE ~Open(p)
      <3>1. Open(p)' = Open(p)
        BY DEF Open
      <3>2. QED BY <2>2, <3>1, StoringKept DEF word
    <2>3. QED BY <2>1, <2>2
  <1>2. word = [p \in Configs |-> word[p]] /\ word' = [p \in Configs |-> word'[p]]
    BY DEF word
  <1>3. QED BY ONLY <1>1, <1>2

-----------------------------------------------------------------------------
(* The vCPU that has found a node stands before the register at its        *)
(* address, and one that found none before no register.                    *)
LEMMA FoundRegister ==
  ASSUME IInv, NEW v \in Vcpus, pc[v] \in Holding \cup Unlocked
  PROVE  /\ acc[v] \in Accesses
         /\ Registers[v][acc[v].ipa] =
              IF Reg(v).kind = "priority"
              THEN [kind |-> IF Open(Reg(v).at) THEN "bytewise" ELSE "stored", at |-> Reg(v).at]
              ELSE Reg(v)
  <1>1. /\ acc[v] \in Accesses /\ acc[v].ipa \in Ipas
        /\ vmmios[m[v]] \in Nodes /\ Within(acc[v].ipa, vmmios[m[v]])
    BY AtRegister
  <1>2. (CHOOSE n \in Nodes : Within(acc[v].ipa, n)) = vmmios[m[v]]
    BY <1>1, NodeFacts
  <1>3. Found(v, acc[v].ipa) = Reg(v)
    BY <1>1, <1>2 DEF Found, Reg, Offset
  <1>4. Registers[v][acc[v].ipa] = RegisterAt(v, acc[v].ipa)
    BY <1>1 DEF Registers
  <1>5. QED BY <1>1, <1>3, <1>4 DEF RegisterAt

LEMMA NoRegister ==
  ASSUME IInv, NEW v \in Vcpus, pc[v] = "find", m[v] > Len(vmmios)
  PROVE  acc[v] \in Accesses /\ Registers[v][acc[v].ipa].kind = "unknown"
  <1>1. SearchedAt(v) /\ m[v] \in 0..(Len(Ranges) + 1)
    BY DEF IInv, Searched, TypeOK
  <1>2. /\ acc[v] \in Accesses
        /\ \A k \in 1..(m[v] - 1) : ~Within(acc[v].ipa, vmmios[k])
    BY <1>1 DEF SearchedAt, Belongs
  <1>3. ASSUME NEW n \in Nodes PROVE ~Within(acc[v].ipa, n)
    <2>1. PICK k \in 1..Len(Ranges) : n = Ranges[k]
      BY DEF Nodes
    <2>2. /\ Len(Ranges) \in Nat /\ Len(vmmios) = Len(Ranges)
          /\ \A j \in 1..Len(vmmios) : vmmios[j] = Ranges[Len(Ranges) + 1 - j]
      BY ListThere
    <2>3. Len(Ranges) + 1 - k \in 1..Len(vmmios) /\ Len(Ranges) + 1 - (Len(Ranges) + 1 - k) = k
      BY <2>2
    <2>4. vmmios[Len(Ranges) + 1 - k] = n
      BY <2>1, <2>2, <2>3
    <2>5. Len(Ranges) + 1 - k \in 1..(m[v] - 1)
      BY <1>1, <2>2, <2>3
    <2>6. QED BY <1>2, <2>4, <2>5
  <1>4. acc[v].ipa \in Ipas
    BY <1>2, VmmioAssumption
  <1>5. Found(v, acc[v].ipa) = Unhandled
    BY <1>3 DEF Found
  <1>6. Registers[v][acc[v].ipa] = RegisterAt(v, acc[v].ipa)
    BY <1>4 DEF Registers
  <1>7. QED BY <1>2, <1>5, <1>6 DEF RegisterAt, Unhandled

(* The destination of a load and the operand of a store.                   *)
LEMMA LoadAgrees ==
  ASSUME NEW v \in Vcpus, acc[v] \in Accesses, NEW w, SetReg(v, w)
  PROVE  Atomic!Load(v, acc[v], w)
  <1>1. acc[v].srt \in Regs \cup {Xzr} /\ Xzr \notin Regs
    BY VmmioAssumption
  <1>2. QED BY <1>1 DEF SetReg, Atomic!Load

LEMMA OperandAgrees ==
  ASSUME NEW v \in Vcpus, acc[v] \in Accesses
  PROVE  Atomic!Operand(v, acc[v]) = Val(v)
  <1>1. acc[v].srt \in Regs \cup {Xzr} /\ Xzr \notin Regs
    BY VmmioAssumption
  <1>2. QED BY <1>1 DEF Val, Atomic!Operand

-----------------------------------------------------------------------------
LEMMA BootSimulates == ASSUME IInv, Boot PROVE UNCHANGED Atomic!vars
  <1>1. \A v \in Vcpus : pc[v] = "off" /\ pc'[v] \in {"off", "guest"}
    BY DEF IInv, ListComplete, Boot, Publish, Fill, Start
  <1>2. UNCHANGED <<priority, x>>
    BY DEF Boot, Publish, Fill, Start
  <1>3. \A p : Storing(p) = {} /\ Storing(p)' = {}
    BY <1>1 DEF Storing
  <1>4. word' = word
    BY <1>2, <1>3 DEF word
  <1>5. \A v \in Vcpus : access[v] = Atomic!None /\ access'[v] = Atomic!None
    BY <1>1, AccessIs DEF AccessAt
  <1>6. access = [v \in Vcpus |-> access[v]] /\ access' = [v \in Vcpus |-> access'[v]]
    BY DEF access
  <1>7. access' = access
    BY ONLY <1>5, <1>6
  <1>8. QED BY <1>2, <1>4, <1>7 DEF Atomic!vars

LEMMA TrapSimulates ==
  ASSUME IInv, NEW v \in Vcpus, NEW a \in Accesses, NEW file \in Files, Trap(v, a, file)
  PROVE  Atomic!Next
  <1>1. /\ pc[v] = "guest" /\ pc'[v] = "find" /\ acc'[v] = a
        /\ x' = [x EXCEPT ![v] = file] /\ UNCHANGED priority /\ OthersSame(v)
    BY DEF Trap, Goto, OthersSame, IInv, TypeOK
  <1>2. word' = word
    BY <1>1, WordKept DEF Elsewhere
  <1>3. access[v] = Atomic!None /\ access'[v] = Atomic!Issued(a)
    BY <1>1, AccessIs DEF AccessAt, OpenLoop
  <1>4. Atomic!Issue(v, a, file)
    BY <1>1, <1>2, <1>3, AccessStep DEF Atomic!Issue
  <1>5. QED BY <1>3, <1>4 DEF Atomic!Next

LEMMA FindSimulates ==
  ASSUME IInv, NEW v \in Vcpus, Find(v)
  PROVE  Atomic!Next \/ UNCHANGED Atomic!vars
  <1>1. /\ pc[v] = "find" /\ pc'[v] \in {"find", "lock", "gicr", "step"}
        /\ UNCHANGED <<x, acc, priority>> /\ OthersSame(v)
    BY OneMoves DEF Hyp, Find, Goto, IInv, TypeOK
  <1>2. word' = word
    BY <1>1, WordKept DEF Elsewhere
  <1>3. access[v] = Atomic!Issued(acc[v])
    BY <1>1, AccessIs DEF AccessAt, OpenLoop
  <1>4. CASE pc'[v] = "step"
    <2>1. m[v] > Len(vmmios)
      BY <1>1, <1>4 DEF Find, Goto, IInv, TypeOK
    <2>2. acc[v] \in Accesses /\ Registers[v][acc[v].ipa].kind = "unknown"
      BY <1>1, <2>1, NoRegister
    <2>3. Atomic!Effect(v, acc[v])
      BY <1>1, <1>2, <2>2 DEF Atomic!Effect
    <2>4. access'[v] = Atomic!Done(acc[v])
      BY <1>1, <1>4, AccessIs DEF AccessAt, OpenLoop
    <2>5. QED BY <1>1, <1>3, <2>3, <2>4, Performs
  <1>5. CASE pc'[v] # "step"
    <2>1. access'[v] = access[v]
      BY <1>1, <1>3, <1>5, AccessIs DEF AccessAt, OpenLoop
    <2>2. QED BY <1>1, <1>2, <2>1, Stutters
  <1>6. QED BY <1>4, <1>5

(* A vCPU gives up before its access has taken effect.                     *)
LEMMA GivesUp ==
  ASSUME NEW v \in Vcpus, OthersSame(v), UNCHANGED <<x, acc, priority>>,
         pc[v] \in {"acquire", "gicr"}, pc'[v] = "dead"
  PROVE  Atomic!Next
  <1>1. word' = word
    BY WordKept DEF Elsewhere
  <1>2. access[v] = Atomic!Issued(acc[v]) /\ access'[v] = Atomic!Dead
    BY AccessIs DEF AccessAt, OpenLoop
  <1>3. Atomic!GiveUp(v, acc[v])
    BY <1>1, <1>2, AccessStep DEF Atomic!GiveUp
  <1>4. QED BY <1>2, <1>3, GoesOn DEF Atomic!Ongoing

LEMMA LockSimulates ==
  ASSUME IInv, NEW v \in Vcpus, Lock(v)
  PROVE  Atomic!Next \/ UNCHANGED Atomic!vars
  <1>1. /\ <<pc[v], pc'[v]>> \in {<<"lock", "acquire">>, <<"acquire", "gicd">>,
                                   <<"acquire", "dead">>, <<"unlock", "step">>}
        /\ UNCHANGED <<x, acc, priority>>
    BY DEF Lock, RequestLock, AcquireLock, LockAborts, Unlock, Goto, IInv, TypeOK, local
  <1>2. OthersSame(v)
    BY OneMoves DEF Hyp
  <1>3. CASE pc'[v] = "dead"
    BY <1>1, <1>2, <1>3, GivesUp
  <1>4. CASE pc'[v] # "dead"
    <2>1. word' = word
      BY <1>1, <1>2, <1>4, WordKept DEF Elsewhere
    <2>2. access'[v] = access[v]
      BY <1>1, <1>4, AccessIs DEF AccessAt, OpenLoop
    <2>3. QED BY <1>1, <1>2, <2>1, <2>2, Stutters
  <1>5. QED BY <1>3, <1>4

LEMMA PrioritiesSimulates ==
  ASSUME IInv, NEW v \in Vcpus, Priorities(v)
  PROVE  Atomic!Next \/ UNCHANGED Atomic!vars
  <1>1. /\ \/ pc[v] = "gicd" /\ pc'[v] = IF acc[v].wnr THEN "store" ELSE "load"
           \/ pc[v] = "gicr" /\ pc'[v] = IF acc[v].wnr THEN "rstore" ELSE "rload"
        /\ Reg(v).kind = "priority" /\ Reg(v)' = Reg(v)
        /\ i'[v] = 0 /\ iprio'[v] = Zero
        /\ UNCHANGED <<x, acc, priority>>
    BY DEF Priorities, Goto, Reg, Offset, IInv, TypeOK
  <1>2. OthersSame(v)
    BY OneMoves DEF Hyp, Case
  <1>3. /\ acc[v] \in Accesses
        /\ Registers[v][acc[v].ipa] =
             [kind |-> IF Open(Reg(v).at) THEN "bytewise" ELSE "stored", at |-> Reg(v).at]
    BY <1>1, FoundRegister DEF Holding, Unlocked
  <1>4. access[v] = Atomic!Issued(acc[v])
    BY <1>1, AccessIs DEF AccessAt, OpenLoop
  <1>5. pc[v] = "gicr" => Open(Reg(v).at)
    BY <1>1, AtRegister DEF Holding, Unlocked, Fit
  <1>6. CASE Open(Reg(v).at)
    <2>1. word' = word
      BY <1>1, <1>2, <1>6, WordKept DEF Elsewhere, Open
    <2>2. OpenLoop(v)'
      BY <1>1, <1>6 DEF OpenLoop, Open
    <2>3. access'[v] = Atomic!Going(acc[v], 0..(NBytes - 1), Zero)
      BY <1>1, <2>2, AccessIs DEF AccessAt
    <2>4. Atomic!Begin(v, acc[v])
      BY <1>1, <1>2, <1>3, <1>4, <1>6, <2>1, <2>3, AccessStep DEF Atomic!Begin
    <2>5. QED BY <1>4, <2>4, GoesOn DEF Atomic!Ongoing, Atomic!Bytewise
  <1>7. CASE ~Open(Reg(v).at) /\ ~acc[v].wnr
    <2>1. pc[v] = "gicd" /\ pc'[v] = "load" /\ ~OpenLoop(v)'
      BY <1>1, <1>5, <1>7 DEF OpenLoop, Open
    <2>2. word' = word
      BY <1>1, <1>2, <2>1, WordKept DEF Elsewhere
    <2>3. access'[v] = access[v]
      BY <1>1, <1>4, <2>1, AccessIs DEF AccessAt
    <2>4. QED BY <1>1, <1>2, <2>2, <2>3, Stutters
  <1>8. CASE ~Open(Reg(v).at) /\ acc[v].wnr
    <2>1. pc[v] = "gicd" /\ pc'[v] = "store" /\ ~OpenLoop(v)'
      BY <1>1, <1>5, <1>8 DEF OpenLoop, Open
    <2>2. word = priority
      BY <2>1, WordAtRest DEF Holding
    <2>3. ASSUME NEW p PROVE Storing(p)' = IF p = Reg(v).at THEN {v} ELSE {}
      <3>1. \A w \in Vcpus \ {v} : pc'[w] # "store"
        BY <1>2, <2>1, OnlyOneStores DEF OthersSame, IInv, Locked, Holding
      <3>2. QED BY <3>1, <1>1, <2>1 DEF Storing
    <2>4. Val(v)' = Val(v)
      BY <1>1 DEF Val
    <2>5. word' = [p \in Configs |-> IF p = Reg(v).at THEN Val(v) ELSE priority[p]]
      <3>1. ASSUME NEW p \in Configs
            PROVE  word'[p] = IF p = Reg(v).at THEN Val(v) ELSE priority[p]
        <4>1. CASE p = Reg(v).at
          <5>1. ~Open(p)' /\ Storing(p)' = {v}
            BY <1>8, <2>3, <4>1 DEF Open
          <5>2. word'[p] = Val(v)'
            BY <5>1 DEF word
          <5>3. QED BY <5>2, <2>4, <4>1
        <4>2. CASE p # Reg(v).at
          <5>1. Storing(p)' = {}
            BY <2>3, <4>2
          <5>2. QED BY <5>1, <1>1, <4>2 DEF word
        <4>3. QED BY <4>1, <4>2
      <3>2. word' = [p \in Configs |-> word'[p]]
        BY DEF word
      <3>3. QED BY ONLY <3>1, <3>2
    <2>6. word' = [word EXCEPT ![Reg(v).at] = Val(v)]
      BY <2>2, <2>5 DEF IInv, TypeOK
    <2>7. Atomic!Effect(v, acc[v])
      <3> DEFINE r == Registers[v][acc[v].ipa]
      <3>1. r.kind = "stored" /\ r.at = Reg(v).at
        BY <1>3, <1>8
      <3>2. Atomic!Operand(v, acc[v]) = Val(v)
        BY <1>3, OperandAgrees
      <3>3. word' = [word EXCEPT ![r.at] = Atomic!Operand(v, acc[v])]
        BY <2>6, <3>1, <3>2
      <3>4. QED BY ONLY <1>1, <1>8, <3>1, <3>3, Zenon DEF Atomic!Effect
    <2>8. access'[v] = Atomic!Done(acc[v])
      BY <1>1, <2>1, AccessIs DEF AccessAt
    <2>9. QED BY <1>2, <1>4, <2>7, <2>8, Performs
  <1>9. QED BY <1>6, <1>7, <1>8

(* A word is its bytes.                                                    *)
LEMMA SameWord ==
  ASSUME NEW a \in Words, NEW b \in Words, \A k \in 0..(NBytes - 1) : a[k] = b[k]
  PROVE  a = b
  <1>1. /\ a = [k \in 0..(NBytes - 1) |-> a[k]]
        /\ b = [k \in 0..(NBytes - 1) |-> b[k]]
    BY DEF Words
  <1>2. QED BY <1>1

-----------------------------------------------------------------------------
(* The loops.                                                              *)
LEMMA LoopFacts ==
  ASSUME IInv, NEW v \in Vcpus, Loop(v)
  PROVE  /\ pc[v] \in {"load", "store", "rload", "rstore"} /\ OthersSame(v)
         /\ UNCHANGED acc /\ Reg(v)' = Reg(v) /\ i[v] \in Nat
         /\ OpenLoop(v) <=> Open(Reg(v).at)
         /\ OpenLoop(v) => /\ Registers[v][acc[v].ipa] = [kind |-> "bytewise", at |-> Reg(v).at]
                           /\ access[v] = Atomic!Going(acc[v], i[v]..(NBytes - 1), iprio[v])
         /\ ~OpenLoop(v) => /\ Registers[v][acc[v].ipa] = [kind |-> "stored", at |-> Reg(v).at]
                            /\ pc[v] \in {"load", "store"}
  <1>1. /\ pc[v] \in {"load", "store", "rload", "rstore"} /\ UNCHANGED <<acc, m, vmmios>>
        /\ i[v] \in Nat
    BY WordFacts DEF Loop, LoadByte, LoadWord, StoreByte, StoreDone, Goto, local, IInv, TypeOK
  <1>2. OthersSame(v)
    BY OneMoves DEF Hyp
  <1>3. Reg(v)' = Reg(v)
    BY <1>1 DEF Reg, Offset
  <1>4. OpenLoop(v) <=> Open(Reg(v).at)
    BY <1>1 DEF OpenLoop
  <1>5. Reg(v).kind = "priority" /\ (pc[v] \in {"rload", "rstore"} => Open(Reg(v).at))
    BY <1>1, InLoop
  <1>6. Registers[v][acc[v].ipa] =
          [kind |-> IF Open(Reg(v).at) THEN "bytewise" ELSE "stored", at |-> Reg(v).at]
    BY <1>1, <1>5, FoundRegister DEF Holding, Unlocked
  <1>7. OpenLoop(v) => access[v] = Atomic!Going(acc[v], i[v]..(NBytes - 1), iprio[v])
    BY AccessIs DEF AccessAt
  <1>8. QED BY <1>1, <1>2, <1>3, <1>4, <1>5, <1>6, <1>7

(* An open loop takes a byte as the abstract access does.                  *)
LEMMA OpenByteSimulates ==
  ASSUME IInv, NEW v \in Vcpus, LoadByte(v) \/ StoreByte(v), OpenLoop(v)
  PROVE  Atomic!Next
  <1>1. /\ pc[v] \in {"load", "store", "rload", "rstore"} /\ OthersSame(v)
        /\ UNCHANGED acc /\ Reg(v)' = Reg(v) /\ Open(Reg(v).at)
        /\ Registers[v][acc[v].ipa] = [kind |-> "bytewise", at |-> Reg(v).at]
        /\ access[v] = Atomic!Going(acc[v], i[v]..(NBytes - 1), iprio[v])
    BY LoopFacts DEF Loop
  <1>2. /\ i[v] \in 0..(NBytes - 1) /\ i'[v] = i[v] + 1 /\ UNCHANGED <<pc, x>>
    BY WordFacts DEF LoadByte, StoreByte, IInv, TypeOK
  <1>3. /\ (i[v]..(NBytes - 1)) \ {i[v]} = i'[v]..(NBytes - 1)
        /\ i[v] \in i[v]..(NBytes - 1)
    BY <1>2, WordFacts
  <1>4. /\ Reg(v).at \in Configs /\ acc[v] \in Accesses /\ priority \in [Configs -> Words]
        /\ acc[v].wnr = (pc[v] \in {"store", "rstore"})
    BY <1>1, InLoop DEF IInv, TypeOK
  <1>5. access'[v] = Atomic!Going(acc[v], i'[v]..(NBytes - 1), iprio'[v])
    <2>1. OpenLoop(v)'
      BY <1>1, <1>2 DEF OpenLoop, Open
    <2>2. QED BY <1>1, <2>1, AccessIs DEF AccessAt
  <1>6. /\ Atomic!Underway(v, acc[v])
        /\ access[v].left = i[v]..(NBytes - 1) /\ access[v].got = iprio[v]
    BY <1>1 DEF Atomic!Underway, Atomic!Going
  <1>7. \A p \in Configs : Open(p) => word[p] = priority[p] /\ word'[p] = priority'[p]
    BY DEF word, Open
  <1>at. Registers[v][acc[v].ipa].at = Reg(v).at
    <2> DEFINE r == Registers[v][acc[v].ipa]
                at == Reg(v).at
    <2>1. r = [kind |-> "bytewise", at |-> at]
      BY ONLY <1>1
    <2> HIDE DEF r, at
    <2>2. r.at = at
      BY ONLY <2>1
    <2>3. QED BY ONLY <2>2 DEF r, at
  <1>8. CASE LoadByte(v)
    <2>1. /\ iprio' = [iprio EXCEPT ![v][i[v]] = priority[Reg(v).at][i[v]]]
          /\ UNCHANGED priority /\ ~acc[v].wnr
      BY <1>4, <1>8 DEF LoadByte
    <2>2. word' = word
      BY <1>1, <2>1, WordKept DEF Elsewhere, Open
    <2>3. iprio'[v] = [iprio[v] EXCEPT ![i[v]] = word[Reg(v).at][i[v]]]
      BY <1>1, <1>4, <1>7, <2>1 DEF IInv, TypeOK
    <2> DEFINE b == word[Reg(v).at][i[v]]
    <2>4. access'[v] = Atomic!Going(acc[v], access[v].left \ {i[v]}, [access[v].got EXCEPT ![i[v]] = b])
      BY ONLY <1>1, <1>3, <1>5, <1>6, <2>3
    <2>5. Atomic!ByteLoaded(v, acc[v], i[v])
      <3>1. Registers[v][acc[v].ipa].at = Reg(v).at /\ i[v] \in access[v].left
        BY ONLY <1>3, <1>6, <1>at
      <3>2. access' = [access EXCEPT ![v] = Atomic!Going(acc[v], access[v].left \ {i[v]},
                                                         [access[v].got EXCEPT ![i[v]] = b])]
        BY <1>1, <2>4, AccessStep
      <3>3. QED BY ONLY <1>2, <1>6, <2>1, <2>2, <3>1, <3>2 DEF Atomic!ByteLoaded
    <2>6. QED BY <1>1, <1>2, <2>5, GoesOn DEF Atomic!Ongoing, Atomic!Bytewise
  <1>9. CASE StoreByte(v)
    <2>1. /\ priority' = [priority EXCEPT ![Reg(v).at][i[v]] = Val(v)[i[v]]]
          /\ UNCHANGED iprio /\ acc[v].wnr
      BY <1>4, <1>9 DEF StoreByte
    <2>2. ASSUME NEW p \in Configs
          PROVE  word'[p] = IF p = Reg(v).at THEN [word[p] EXCEPT ![i[v]] = Val(v)[i[v]]] ELSE word[p]
      <3>1. CASE Open(p)
        BY <1>4, <1>7, <2>1, <3>1
      <3>2. CASE ~Open(p)
        <4>1. p # Reg(v).at /\ priority'[p] = priority[p] /\ Open(p)' = Open(p)
          BY <1>1, <1>4, <2>1, <3>2 DEF Open
        <4>2. Elsewhere(v)
          BY <1>1, <1>2 DEF Elsewhere, Open
        <4>3. QED BY <1>1, <3>2, <4>1, <4>2, StoringKept DEF word
      <3>3. QED BY <3>1, <3>2
    <2>3. word = [p \in Configs |-> word[p]] /\ word' = [p \in Configs |-> word'[p]]
      BY DEF word
    <2>4. word' = [word EXCEPT ![Reg(v).at][i[v]] = Val(v)[i[v]]]
      BY ONLY <1>4, <2>2, <2>3
    <2>5. Atomic!Operand(v, acc[v]) = Val(v)
      BY <1>4, OperandAgrees
    <2>6. access'[v] = Atomic!Going(acc[v], access[v].left \ {i[v]}, access[v].got)
      BY ONLY <1>1, <1>3, <1>5, <1>6, <2>1
    <2>7. Atomic!ByteStored(v, acc[v], i[v])
      <3>1. Registers[v][acc[v].ipa].at = Reg(v).at /\ i[v] \in access[v].left
        BY ONLY <1>3, <1>6, <1>at
      <3>2. access' = [access EXCEPT ![v] = Atomic!Going(acc[v], access[v].left \ {i[v]}, access[v].got)]
        BY <1>1, <2>6, AccessStep
      <3>3. QED BY ONLY <1>2, <1>6, <2>1, <2>4, <2>5, <3>1, <3>2 DEF Atomic!ByteStored
    <2>8. QED BY <1>1, <1>2, <2>7, GoesOn DEF Atomic!Ongoing, Atomic!Bytewise
  <1>10. QED BY <1>8, <1>9

(* Under the lock the bytes are not seen.                                  *)
LEMMA LockedByteSimulates ==
  ASSUME IInv, NEW v \in Vcpus, LoadByte(v) \/ StoreByte(v), ~OpenLoop(v)
  PROVE  UNCHANGED Atomic!vars
  <1>1. /\ OthersSame(v) /\ UNCHANGED acc /\ Reg(v)' = Reg(v) /\ ~Open(Reg(v).at)
        /\ pc[v] \in {"load", "store"}
    BY LoopFacts DEF Loop
  <1>2. UNCHANGED <<pc, x>> /\ ~OpenLoop(v)'
    BY <1>1 DEF LoadByte, StoreByte, OpenLoop, Open
  <1>3. access'[v] = access[v]
    BY <1>1, <1>2, AccessIs DEF AccessAt
  <1>4. CASE pc[v] = "load"
    <2>1. UNCHANGED priority
      BY <1>4 DEF LoadByte, StoreByte
    <2>2. word' = word
      BY <1>1, <1>2, <1>4, <2>1, WordKept DEF Elsewhere
    <2>3. QED BY <1>1, <1>2, <1>3, <2>2, Stutters
  <1>5. CASE pc[v] = "store"
    <2>1. priority' = [priority EXCEPT ![Reg(v).at][i[v]] = Val(v)[i[v]]]
      BY <1>5 DEF LoadByte, StoreByte
    <2>2. /\ Reg(v).at \in Configs /\ priority \in [Configs -> Words]
          /\ Val(v)' = Val(v)
      BY <1>1, <1>2, InLoop DEF Val, IInv, TypeOK
    <2>3. ASSUME NEW p PROVE Storing(p) = IF p = Reg(v).at THEN {v} ELSE {}
      BY <1>5, OnlyOneStores DEF Storing, Holding
    <2>4. ASSUME NEW p PROVE Storing(p)' = IF p = Reg(v).at THEN {v} ELSE {}
      <3>1. \A w \in Vcpus : Reg(w)' = Reg(w)
        BY <1>1 DEF OthersSame, Reg, Offset
      <3>2. Storing(p)' = Storing(p)
        BY <1>2, <3>1 DEF Storing
      <3>3. QED BY <2>3, <3>2
    <2>5. ASSUME NEW p \in Configs PROVE word'[p] = word[p]
      <3>1. CASE p = Reg(v).at
        <4>1. Storing(p) = {v} /\ Storing(p)' = {v} /\ ~Open(p) /\ ~Open(p)'
          BY <1>1, <2>3, <2>4, <3>1 DEF Open
        <4>2. word[p] = Val(v) /\ word'[p] = Val(v)'
          BY <4>1 DEF word
        <4>3. QED BY <2>2, <4>2
      <3>2. CASE p # Reg(v).at
        <4>1. Storing(p) = {} /\ Storing(p)' = {} /\ priority'[p] = priority[p]
          BY <2>1, <2>2, <2>3, <2>4, <3>2
        <4>2. QED BY <4>1 DEF word
      <3>3. QED BY <3>1, <3>2
    <2>6. word' = word
      <3>1. word = [p \in Configs |-> word[p]] /\ word' = [p \in Configs |-> word'[p]]
        BY DEF word
      <3>2. QED BY ONLY <2>5, <3>1
    <2>7. QED BY <1>1, <1>2, <1>3, <2>6, Stutters
  <1>6. QED BY <1>1, <1>4, <1>5

(* The end of an open loop.                                                *)
LEMMA OpenEndSimulates ==
  ASSUME IInv, NEW v \in Vcpus, LoadWord(v) \/ StoreDone(v), OpenLoop(v)
  PROVE  Atomic!Next
  <1>1. /\ pc[v] \in {"load", "store", "rload", "rstore"} /\ OthersSame(v)
        /\ UNCHANGED acc /\ Open(Reg(v).at)
        /\ access[v] = Atomic!Going(acc[v], i[v]..(NBytes - 1), iprio[v])
    BY LoopFacts DEF Loop
  <1>2. /\ i[v] = NBytes /\ pc'[v] \in {"unlock", "step"} /\ UNCHANGED priority
    BY DEF LoadWord, StoreDone, Goto, IInv, TypeOK
  <1>3. acc[v] \in Accesses /\ acc[v].wnr = (pc[v] \in {"store", "rstore"})
    BY <1>1, InLoop
  <1>4. word' = word
    BY <1>1, <1>2, WordKept DEF Elsewhere
  <1>5. access'[v] = Atomic!Done(acc[v])
    BY <1>1, <1>2, AccessIs DEF AccessAt, OpenLoop
  <1>6. Atomic!Underway(v, acc[v]) /\ access[v].left = {} /\ access[v].got = iprio[v]
    <2>1. i[v]..(NBytes - 1) = {}
      BY <1>2, WordFacts
    <2>2. QED BY <1>1, <2>1 DEF Atomic!Underway, Atomic!Going
  <1>7. IF acc[v].wnr THEN UNCHANGED x ELSE Atomic!Load(v, acc[v], access[v].got)
    <2>1. CASE LoadWord(v)
      <3>1. ~acc[v].wnr /\ SetReg(v, iprio[v])
        BY <1>3, <2>1 DEF LoadWord, Goto
      <3>2. QED BY <1>3, <1>6, <3>1, LoadAgrees
    <2>2. CASE StoreDone(v)
      <3>1. acc[v].wnr /\ UNCHANGED x
        BY <1>3, <2>2 DEF StoreDone, Goto
      <3>2. QED BY <3>1
    <2>3. QED BY <2>1, <2>2
  <1>8. Atomic!Finish(v, acc[v])
    BY <1>1, <1>4, <1>5, <1>6, <1>7, AccessStep DEF Atomic!Finish
  <1>9. QED BY <1>1, <1>8, GoesOn DEF Atomic!Ongoing, Atomic!Bytewise

(* The end of a loop under the lock.                                       *)
LEMMA LockedEndSimulates ==
  ASSUME IInv, NEW v \in Vcpus, LoadWord(v) \/ StoreDone(v), ~OpenLoop(v)
  PROVE  Atomic!Next \/ UNCHANGED Atomic!vars
  <1>1. /\ OthersSame(v) /\ UNCHANGED acc /\ Reg(v)' = Reg(v) /\ ~Open(Reg(v).at)
        /\ pc[v] \in {"load", "store"}
        /\ Registers[v][acc[v].ipa] = [kind |-> "stored", at |-> Reg(v).at]
    BY LoopFacts DEF Loop
  <1>2. /\ i[v] = NBytes /\ pc'[v] = "unlock" /\ UNCHANGED priority
    BY <1>1 DEF LoadWord, StoreDone, Goto, IInv, TypeOK
  <1>3. /\ acc[v] \in Accesses /\ Reg(v).at \in Configs
        /\ acc[v].wnr = (pc[v] = "store")
        /\ priority[Reg(v).at] \in Words /\ Val(v) \in Words /\ priority \in [Configs -> Words]
    BY <1>1, InLoop DEF IInv, TypeOK
  <1>4. access'[v] = Atomic!Done(acc[v])
    BY <1>1, <1>2, AccessIs DEF AccessAt, OpenLoop
  <1>5. ProgressAt(v)
    BY DEF IInv, Progress
  <1>6. CASE pc[v] = "load"
    <2>1. SetReg(v, iprio[v])
      BY <1>6 DEF LoadWord, StoreDone, Goto
    <2>2. iprio[v] = priority[Reg(v).at]
      <3>1. \A k \in 0..(NBytes - 1) : iprio[v][k] = priority[Reg(v).at][k]
        BY <1>1, <1>2, <1>5, <1>6 DEF ProgressAt
      <3>2. iprio[v] \in Words
        BY DEF IInv, TypeOK
      <3>3. QED BY <1>3, <3>1, <3>2, SameWord
    <2>3. word = priority
      BY <1>6, WordAtRest DEF Holding
    <2>4. word' = word
      BY <1>1, <1>2, <1>6, WordKept DEF Elsewhere
    <2>5. Atomic!Load(v, acc[v], word[Reg(v).at])
      BY <1>3, <2>1, <2>2, <2>3, LoadAgrees
    <2>6. ~acc[v].wnr
      BY <1>3, <1>6
    <2>7. Atomic!Effect(v, acc[v])
      BY ONLY <1>1, <2>4, <2>5, <2>6 DEF Atomic!Effect
    <2>8. access[v] = Atomic!Issued(acc[v])
      BY <1>6, AccessIs DEF AccessAt
    <2>9. QED BY <1>1, <1>4, <2>7, <2>8, Performs
  <1>7. CASE pc[v] = "store"
    <2>1. UNCHANGED x
      BY <1>7 DEF LoadWord, StoreDone, Goto
    <2>2. priority[Reg(v).at] = Val(v)
      <3>1. \A k \in 0..(NBytes - 1) : priority[Reg(v).at][k] = Val(v)[k]
        BY <1>1, <1>2, <1>5, <1>7 DEF ProgressAt
      <3>2. QED BY <1>3, <3>1, SameWord
    <2>3. ASSUME NEW p PROVE Storing(p) = (IF p = Reg(v).at THEN {v} ELSE {}) /\ Storing(p)' = {}
      <3>1. \A w \in Vcpus : (pc[w] = "store" => w = v) /\ pc'[w] # "store"
        BY <1>1, <1>2, <1>7 DEF OthersSame, IInv, Locked, Holding
      <3>2. QED BY <3>1, <1>7 DEF Storing
    <2>4. ASSUME NEW p \in Configs PROVE word'[p] = word[p]
      <3>1. word'[p] = priority[p]
        BY <1>2, <2>3 DEF word
      <3>2. CASE p = Reg(v).at
        <4>1. Storing(p) = {v} /\ ~Open(p)
          BY <1>1, <2>3, <3>2
        <4>2. word[p] = Val(v)
          BY <4>1 DEF word
        <4>3. QED BY <2>2, <3>1, <3>2, <4>2
      <3>3. CASE p # Reg(v).at
        BY <2>3, <3>1, <3>3 DEF word
      <3>4. QED BY <3>2, <3>3
    <2>5. word' = word
      <3>1. word = [p \in Configs |-> word[p]] /\ word' = [p \in Configs |-> word'[p]]
        BY DEF word
      <3>2. QED BY ONLY <2>4, <3>1
    <2>6. access'[v] = access[v]
      BY <1>4, <1>7, AccessIs DEF AccessAt
    <2>7. QED BY <1>1, <2>1, <2>5, <2>6, Stutters
  <1>8. QED BY <1>1, <1>6, <1>7

-----------------------------------------------------------------------------
LEMMA EffectSimulates ==
  ASSUME IInv, NEW v \in Vcpus, Constant(v) \/ Unknown(v) \/ GoAstray(v)
  PROVE  Atomic!Next
  <1>1. /\ pc[v] \in {"gicd", "gicr"} /\ pc'[v] \in {"unlock", "step"}
        /\ UNCHANGED <<acc, priority>>
    BY DEF Constant, Unknown, GoAstray, Leave, Goto, IInv, TypeOK, local
  <1>2. OthersSame(v)
    BY OneMoves DEF Hyp, Case
  <1>3. word' = word
    BY <1>1, <1>2, WordKept DEF Elsewhere
  <1>4. Reg(v).kind \in {"constant", "unknown", "astray"}
    BY DEF Constant, Unknown, GoAstray
  <1>5. acc[v] \in Accesses /\ Registers[v][acc[v].ipa] = Reg(v)
    BY <1>1, <1>4, FoundRegister DEF Holding, Unlocked
  <1>6. ASSUME Constant(v) PROVE Atomic!Effect(v, acc[v])
    <2>1. Reg(v).kind = "constant"
      BY <1>6 DEF Constant
    <2>2. CASE ~acc[v].wnr
      <3>1. Atomic!Load(v, acc[v], Reg(v).value)
        BY <1>5, <1>6, <2>2, LoadAgrees DEF Constant
      <3>2. QED BY ONLY <1>3, <1>5, <2>1, <2>2, <3>1 DEF Atomic!Effect
    <2>3. CASE acc[v].wnr
      <3>1. UNCHANGED x
        BY <1>6, <2>3 DEF Constant
      <3>2. QED BY ONLY <1>3, <1>5, <2>1, <2>3, <3>1 DEF Atomic!Effect
    <2>4. QED BY <2>2, <2>3
  <1>7. ASSUME Unknown(v) PROVE Atomic!Effect(v, acc[v])
    <2>1. Reg(v).kind = "unknown" /\ UNCHANGED x
      BY <1>7 DEF Unknown
    <2>2. QED BY ONLY <1>3, <1>5, <2>1 DEF Atomic!Effect
  <1>8. ASSUME GoAstray(v) PROVE Atomic!Effect(v, acc[v])
    <2>1. Reg(v).kind = "astray"
      BY <1>8 DEF GoAstray
    <2>2. CASE ~acc[v].wnr
      <3>1. PICK w \in Words : SetReg(v, w)
        BY <1>8, <2>2 DEF GoAstray
      <3>2. Atomic!Load(v, acc[v], w)
        BY <1>5, <3>1, LoadAgrees
      <3>3. QED BY ONLY <1>3, <1>5, <2>1, <2>2, <3>2, w \in Words DEF Atomic!Effect
    <2>3. CASE acc[v].wnr
      <3>1. UNCHANGED x
        BY <1>8, <2>3 DEF GoAstray
      <3>2. QED BY ONLY <1>3, <1>5, <2>1, <2>3, <3>1 DEF Atomic!Effect
    <2>4. QED BY <2>2, <2>3
  <1>9. access[v] = Atomic!Issued(acc[v]) /\ access'[v] = Atomic!Done(acc[v])
    BY <1>1, AccessIs DEF AccessAt, OpenLoop
  <1>10. QED BY <1>2, <1>6, <1>7, <1>8, <1>9, Performs

LEMMA NullSimulates == ASSUME IInv, NEW v \in Vcpus, NullVcpu(v) PROVE Atomic!Next
  <1>1. /\ pc[v] = "gicr" /\ pc'[v] = "dead" /\ UNCHANGED <<x, acc, priority>>
    BY DEF NullVcpu, Goto, IInv, TypeOK, local
  <1>2. OthersSame(v)
    BY OneMoves DEF Hyp, Case
  <1>3. QED BY <1>1, <1>2, GivesUp

LEMMA StepSimulates == ASSUME IInv, NEW v \in Vcpus, Step(v) PROVE Atomic!Next
  <1>1. /\ pc[v] = "step" /\ pc'[v] = "guest" /\ UNCHANGED <<x, priority>>
    BY DEF Step, Goto, IInv, TypeOK
  <1>2. OthersSame(v)
    BY OneMoves DEF Hyp
  <1>3. word' = word
    BY <1>1, <1>2, WordKept DEF Elsewhere
  <1>4. access[v] = Atomic!Done(acc[v]) /\ access'[v] = Atomic!None
    BY <1>1, AccessIs DEF AccessAt, OpenLoop
  <1>5. Atomic!Return(v, acc[v])
    BY <1>1, <1>2, <1>3, <1>4, AccessStep DEF Atomic!Return
  <1>6. QED BY <1>4, <1>5, GoesOn DEF Atomic!Ongoing

LEMMA StepImplements == IInv /\ [Next]_vars => [Atomic!Next]_(Atomic!vars)
  <1> SUFFICES ASSUME IInv, [Next]_vars PROVE Atomic!Next \/ UNCHANGED Atomic!vars
    OBVIOUS
  <1>1. CASE Boot
    BY <1>1, BootSimulates
  <1>2. ASSUME NEW v \in Vcpus, NEW a \in Accesses, NEW file \in Files, Trap(v, a, file)
        PROVE  Atomic!Next
    BY <1>2, TrapSimulates
  <1>3. ASSUME NEW v \in Vcpus, Hyp(v) PROVE Atomic!Next \/ UNCHANGED Atomic!vars
    <2>1. CASE Find(v) \/ Lock(v) \/ Step(v)
      BY <2>1, FindSimulates, LockSimulates, StepSimulates
    <2>2. CASE Case(v)
      BY <2>2, PrioritiesSimulates, EffectSimulates, NullSimulates DEF Case
    <2>3. CASE Loop(v)
      BY <2>3, OpenByteSimulates, LockedByteSimulates, OpenEndSimulates, LockedEndSimulates DEF Loop
    <2>4. QED BY <1>3, <2>1, <2>2, <2>3 DEF Hyp
  <1>4. CASE UNCHANGED vars
    BY <1>4 DEF vars, local, Atomic!vars, word, Storing, OpenLoop, Open, Reg, Offset, Val, access
  <1>5. QED BY <1>1, <1>2, <1>3, <1>4 DEF Next

(* The code from the data abort to the return implements AtomicMmio, for   *)
(* any number of vCPUs and any devices: a trapped load or store is one     *)
(* access to the register at its address, except to the priorities of the  *)
(* first vCPU's private interrupts, which the redistributor's handlers     *)
(* reach without the lock, so that only each byte is accessed at one       *)
(* moment; and an access behind the arrays changes none of the registers.  *)
THEOREM Refinement == Spec => ImplementsAtomicMmio
  <1>1. Init => Atomic!Init
    <2> SUFFICES ASSUME Init PROVE Atomic!Init
      OBVIOUS
    <2>1. \A p : Storing(p) = {}
      BY DEF Init, Storing
    <2>2. word = priority
      BY <2>1 DEF Init, word
    <2>3. access = [v \in Vcpus |-> Atomic!None]
      <3>1. \A v \in Vcpus : access[v] = Atomic!None
        BY AccessIs DEF Init, AccessAt
      <3>2. access = [v \in Vcpus |-> access[v]]
        BY DEF access
      <3>3. QED BY ONLY <3>1, <3>2
    <2>4. QED BY <2>2, <2>3 DEF Init, Atomic!Init
  <1>2. QED
    BY <1>1, Invariance, StepImplements, PTL DEF Spec, ImplementsAtomicMmio, Atomic!Spec
=============================================================================
