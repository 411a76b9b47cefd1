---------------------------- MODULE AbstractLock ----------------------------
(***************************************************************************)
(* What a lock promises its users (hypervisor/include/spinlock.h): at most *)
(* one core is between a completed arch_spin_lock and the store that       *)
(* releases the lock.  A core that gives up in abort() while it waits      *)
(* never holds the lock.                                                   *)
(***************************************************************************)
CONSTANT Cores

VARIABLE mode     \* mode[c]: where core c stands with respect to the lock

Modes == {"out", "waiting", "in", "dead"}

Init == mode = [c \in Cores |-> "out"]

Request(c) ==
  /\ mode[c] = "out"
  /\ mode' = [mode EXCEPT ![c] = "waiting"]

Acquire(c) ==
  /\ mode[c] = "waiting"
  /\ \A d \in Cores : mode[d] # "in"
  /\ mode' = [mode EXCEPT ![c] = "in"]

GiveUp(c) ==
  /\ mode[c] = "waiting"
  /\ mode' = [mode EXCEPT ![c] = "dead"]

Release(c) ==
  /\ mode[c] = "in"
  /\ mode' = [mode EXCEPT ![c] = "out"]

Next == \E c \in Cores : Request(c) \/ Acquire(c) \/ GiveUp(c) \/ Release(c)

Spec == Init /\ [][Next]_mode
=============================================================================
