----------------------------- MODULE AtomicMmio -----------------------------
(***************************************************************************)
(* What trapping a device promises the guest.  A load or store of a        *)
(* trapped address takes effect between the trap and the return, a load    *)
(* changes the register the instruction names and no other, and nothing    *)
(* else changes the registers of the devices.  Most registers are accessed *)
(* at one moment; of some only each byte is, and an access can go astray.  *)
(***************************************************************************)
CONSTANTS
  Vcpus,
  Regs,         \* the general registers
  Files,        \* register files a guest may have at an access
  Garbage,      \* the words the devices may start with
  Words,        \* the values of a register
  Places,       \* the places of the bytes in a word
  Zero,         \* the value of the zero register
  Configs,      \* the registers of the devices that keep a word
  Register,     \* Register[v][a]: what is at guest address a for vCPU v
  Accesses      \* the loads and stores: address, register, write or read

VARIABLES
  word,         \* the words the registers of the devices keep
  x,            \* the general registers of each vCPU
  access        \* the access of each vCPU, and how far it is

vars == <<word, x, access>>

None == [state |-> "none"]
Dead == [state |-> "dead"]
Issued(a) == [state |-> "issued", of |-> a]
Going(a, left, got) == [state |-> "going", of |-> a, left |-> left, got |-> got]
Done(a) == [state |-> "done", of |-> a]

Init ==
  /\ word \in [Configs -> Garbage]
  /\ x \in [Vcpus -> Files]
  /\ access = [v \in Vcpus |-> None]

Issue(v, a, file) ==
  /\ access[v] = None
  /\ access' = [access EXCEPT ![v] = Issued(a)]
  /\ x' = [x EXCEPT ![v] = file]
  /\ UNCHANGED word

\* The zero register reads as zero and cannot be loaded.
Operand(v, a) == IF a.srt \in Regs THEN x[v][a.srt] ELSE Zero
Load(v, a, w) == x' = IF a.srt \in Regs THEN [x EXCEPT ![v][a.srt] = w] ELSE x

\* An access that happens at one moment.  One that is astray loads any word
\* and stores nothing in these registers.
Effect(v, a) ==
  LET r == Register[v][a.ipa] IN
  \/ r.kind = "stored" /\ a.wnr /\ word' = [word EXCEPT ![r.at] = Operand(v, a)] /\ UNCHANGED x
  \/ r.kind = "stored" /\ ~a.wnr /\ Load(v, a, word[r.at]) /\ UNCHANGED word
  \/ r.kind = "constant" /\ ~a.wnr /\ Load(v, a, r.value) /\ UNCHANGED word
  \/ r.kind = "astray" /\ ~a.wnr /\ (\E w \in Words : Load(v, a, w)) /\ UNCHANGED word
  \/ r.kind \in {"constant", "astray"} /\ a.wnr /\ UNCHANGED <<word, x>>
  \/ r.kind = "unknown" /\ UNCHANGED <<word, x>>

Perform(v, a) ==
  /\ access[v] = Issued(a)
  /\ access' = [access EXCEPT ![v] = Done(a)]
  /\ Effect(v, a)

\* The bytes of the others are accessed once each, in any order and between
\* those of other accesses.
Begin(v, a) ==
  /\ access[v] = Issued(a)
  /\ Register[v][a.ipa].kind = "bytewise"
  /\ access' = [access EXCEPT ![v] = Going(a, Places, Zero)]
  /\ UNCHANGED <<word, x>>

Underway(v, a) == access[v].state = "going" /\ access[v].of = a

ByteStored(v, a, k) ==
  /\ Underway(v, a) /\ a.wnr /\ k \in access[v].left
  /\ word' = [word EXCEPT ![Register[v][a.ipa].at][k] = Operand(v, a)[k]]
  /\ access' = [access EXCEPT ![v] = Going(a, @.left \ {k}, @.got)]
  /\ UNCHANGED x

ByteLoaded(v, a, k) ==
  /\ Underway(v, a) /\ ~a.wnr /\ k \in access[v].left
  /\ LET b == word[Register[v][a.ipa].at][k] IN
     access' = [access EXCEPT ![v] = Going(a, @.left \ {k}, [@.got EXCEPT ![k] = b])]
  /\ UNCHANGED <<word, x>>

Finish(v, a) ==
  /\ Underway(v, a) /\ access[v].left = {}
  /\ access' = [access EXCEPT ![v] = Done(a)]
  /\ IF a.wnr THEN UNCHANGED x ELSE Load(v, a, access[v].got)
  /\ UNCHANGED word

Return(v, a) ==
  /\ access[v] = Done(a)
  /\ access' = [access EXCEPT ![v] = None]
  /\ UNCHANGED <<word, x>>

GiveUp(v, a) ==
  /\ access[v] = Issued(a)
  /\ access' = [access EXCEPT ![v] = Dead]
  /\ UNCHANGED <<word, x>>

Bytewise(v, a) ==
  \/ Begin(v, a) \/ Finish(v, a)
  \/ \E k \in Places : ByteStored(v, a, k) \/ ByteLoaded(v, a, k)

Ongoing(v, a) == Perform(v, a) \/ Bytewise(v, a) \/ Return(v, a) \/ GiveUp(v, a)

Next ==
  \E v \in Vcpus :
    IF access[v] = None THEN \E a \in Accesses, file \in Files : Issue(v, a, file)
    ELSE access[v] # Dead /\ Ongoing(v, access[v].of)

Spec == Init /\ [][Next]_vars
=============================================================================
