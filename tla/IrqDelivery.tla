----------------------------- MODULE IrqDelivery -----------------------------
(***************************************************************************)
(* What forwarding promises the devices of one core and its guest          *)
(* (hypervisor/src/el1_sync.c:171-187): an interrupt that waits at the GIC *)
(* is taken once and kept until the guest has acknowledged it; the guest   *)
(* serves one at a time; nothing is taken again before it is completed.    *)
(***************************************************************************)
CONSTANTS
  Irqs,     \* the interrupts routed to this core
  Edge,     \* those an edge latches; the others are level lines
  None      \* no interrupt

VARIABLES
  waiting,  \* pending at the GIC
  given,    \* taken by the hypervisor, not acknowledged by the guest
  serving   \* what the guest's handler serves

vars == <<waiting, given, serving>>

Init == waiting = {} /\ given = {} /\ serving = None

Raise(i) ==
  /\ waiting' = waiting \cup {i}
  /\ UNCHANGED <<given, serving>>

\* A level line falls, served or not.
Lower(i) ==
  /\ i \notin Edge
  /\ waiting' = waiting \ {i}
  /\ UNCHANGED <<given, serving>>

\* Taking clears a latched interrupt; one whose line is up goes on waiting.
Take(i) ==
  /\ i \in waiting \ given
  /\ serving # i
  /\ \/ waiting' = waiting \ {i}
     \/ i \notin Edge /\ UNCHANGED waiting
  /\ given' = given \cup {i}
  /\ UNCHANGED serving

Deliver(i) ==
  /\ i \in given
  /\ serving = None
  /\ given' = given \ {i}
  /\ serving' = i
  /\ UNCHANGED waiting

Complete(i) ==
  /\ i = serving
  /\ serving' = None
  /\ UNCHANGED <<waiting, given>>

Next == \E i \in Irqs : Raise(i) \/ Lower(i) \/ Take(i) \/ Deliver(i) \/ Complete(i)

Spec == Init /\ [][Next]_vars
=============================================================================
