------------------------------ MODULE SpinLock ------------------------------
(***************************************************************************)
(* The spin lock of the hypervisor: arch_spin_lock and arch_spin_unlock    *)
(* (spinlock.c) with spin_check (spinlock.h), one action per access to the *)
(* shared structure.  The MMU is off at EL2, so the accesses of a core are *)
(* performed in program order; an exception masks interrupts at EL2, so a  *)
(* core never re-enters a lock it holds.                                   *)
(***************************************************************************)
EXTENDS Naturals

CONSTANTS
  Cores,        \* the physical cores
  NoCore,       \* the coreid -1 that arch_spinlock_init stores
  BootCore      \* core 0: the coreid of a lock that lives in zeroed memory

ASSUME CoreAssumption ==
  /\ BootCore \in Cores
  /\ NoCore \notin Cores

VARIABLES
  lock,         \* spinlock->lock, 0 or 1
  coreid,       \* spinlock->coreid, written after the lock is taken
  monitor,      \* monitor[c]: the exclusive monitor of core c is armed
  pc            \* pc[c]: the access core c performs next

vars == <<lock, coreid, monitor, pc>>

Labels == {"idle", "check_lock", "check_id", "ldxr", "stxr", "set_id",
           "critical", "uncheck_lock", "uncheck_id", "clear",
           "already_held", "invalid_unlock"}

(***************************************************************************)
(* A lock is initialised by arch_spinlock_init (coreid -1), or it is       *)
(* vgic_dist->lock, which nobody initialises and which starts as zeroed    *)
(* pool memory (coreid 0, the boot core).                                  *)
(***************************************************************************)
Init ==
  /\ lock = 0
  /\ coreid \in {NoCore, BootCore}
  /\ monitor = [c \in Cores |-> FALSE]
  /\ pc = [c \in Cores |-> "idle"]

Goto(c, from, to) ==
  /\ pc[c] = from
  /\ pc' = [pc EXCEPT ![c] = to]

\* A store to the structure disarms the monitor of every other core.
DisarmOthers(c) ==
  monitor' = [d \in Cores |-> d = c /\ monitor[d]]

-----------------------------------------------------------------------------
(* arch_spin_lock                                                          *)

Call(c) ==
  /\ Goto(c, "idle", "check_lock")
  /\ UNCHANGED <<lock, coreid, monitor>>

\* spin_check reads the lock word first and the owner only when it is set.
CheckLock(c) ==
  /\ Goto(c, "check_lock", IF lock = 1 THEN "check_id" ELSE "ldxr")
  /\ UNCHANGED <<lock, coreid, monitor>>

\* ... and the owner: abort("... is alredy held by core").
CheckId(c) ==
  /\ Goto(c, "check_id", IF coreid = c THEN "already_held" ELSE "ldxr")
  /\ UNCHANGED <<lock, coreid, monitor>>

\* Mutant: the cbnz after ldxr is dropped.
LoadExclusiveNoTest(c) ==
  /\ Goto(c, "ldxr", "stxr")
  /\ monitor' = [monitor EXCEPT ![c] = TRUE]
  /\ UNCHANGED <<lock, coreid>>

\* ldxr; cbnz: spin while the lock word is set.
LoadExclusive(c) ==
  /\ Goto(c, "ldxr", IF lock = 0 THEN "stxr" ELSE "ldxr")
  /\ monitor' = [monitor EXCEPT ![c] = TRUE]
  /\ UNCHANGED <<lock, coreid>>

\* Mutant: an ordinary increment instead of the exclusive store.
StoreInclusive(c) ==
  /\ Goto(c, "stxr", "set_id")
  /\ lock' = lock + 1
  /\ monitor' = [d \in Cores |-> FALSE]
  /\ UNCHANGED coreid

\* stxr; cbnz: take the lock if the monitor is still armed, else start over.
StoreExclusive(c) ==
  \/ /\ monitor[c]
     /\ Goto(c, "stxr", "set_id")
     /\ lock' = 1
     /\ monitor' = [d \in Cores |-> FALSE]
     /\ UNCHANGED coreid
  \/ /\ ~monitor[c]
     /\ Goto(c, "stxr", "ldxr")
     /\ UNCHANGED <<lock, coreid, monitor>>

\* Mutant: the owner is not recorded.
SetIdForgotten(c) ==
  /\ Goto(c, "set_id", "critical")
  /\ UNCHANGED <<lock, coreid, monitor>>

SetId(c) ==
  /\ Goto(c, "set_id", "critical")
  /\ coreid' = c
  /\ DisarmOthers(c)
  /\ UNCHANGED lock

-----------------------------------------------------------------------------
(* arch_spin_unlock                                                        *)

Leave(c) ==
  /\ Goto(c, "critical", "uncheck_lock")
  /\ UNCHANGED <<lock, coreid, monitor>>

UncheckLock(c) ==
  /\ Goto(c, "uncheck_lock", IF lock = 1 THEN "uncheck_id" ELSE "invalid_unlock")
  /\ UNCHANGED <<lock, coreid, monitor>>

UncheckId(c) ==
  /\ Goto(c, "uncheck_id", IF coreid = c THEN "clear" ELSE "invalid_unlock")
  /\ UNCHANGED <<lock, coreid, monitor>>

\* Mutant: arch_spin_unlock returns without its store.
ClearForgotten(c) ==
  /\ Goto(c, "clear", "idle")
  /\ UNCHANGED <<lock, coreid, monitor>>

\* str wzr: the owner is left as it is.
Clear(c) ==
  /\ Goto(c, "clear", "idle")
  /\ lock' = 0
  /\ DisarmOthers(c)
  /\ UNCHANGED coreid

-----------------------------------------------------------------------------
LockSteps(c) ==
  \/ CheckLock(c) \/ CheckId(c) \/ LoadExclusive(c)
  \/ StoreExclusive(c) \/ SetId(c)

UnlockSteps(c) ==
  Leave(c) \/ UncheckLock(c) \/ UncheckId(c) \/ Clear(c)

Next == \E c \in Cores : Call(c) \/ LockSteps(c) \/ UnlockSteps(c)

Spec == Init /\ [][Next]_vars

\* A core that is inside a lock operation or a critical section keeps
\* executing instructions; a core need not ask for the lock again.
FairSpec == Spec /\ \A c \in Cores : WF_vars(LockSteps(c) \/ UnlockSteps(c))

-----------------------------------------------------------------------------
(* Properties                                                              *)

TypeOK ==
  /\ lock \in {0, 1}
  /\ coreid \in Cores \cup {NoCore}
  /\ monitor \in [Cores -> BOOLEAN]
  /\ pc \in [Cores -> Labels]

Holding == {"set_id", "critical", "uncheck_lock", "uncheck_id", "clear"}
Owning  == Holding \ {"set_id"}
Waiting == {"check_lock", "check_id", "ldxr", "stxr"}

\* Two cores are never both between a successful stxr and the releasing
\* store, whatever the exclusive loads and stores of the others interleave.
MutualExclusion ==
  \A c, d \in Cores : pc[c] \in Holding /\ pc[d] \in Holding => c = d

\* The check in arch_spin_unlock (spinlock.c:38) never aborts the core that
\* took the lock, although coreid is written without being owned atomically.
UnlockNeverAborts == \A c \in Cores : pc[c] # "invalid_unlock"

\* What the message of spinlock.c:7 says of the core that prints it: the lock
\* is held by that very core.  No core calls arch_spin_lock inside its own
\* critical section, so the report can only be false.
NoFalseReport == \A c \in Cores : pc[c] # "already_held"

\* Deadlock freedom of the lock: while some core waits, some core gets in, or
\* nobody waits any more; a core that aborted in spin_check blocks nobody.
SomeoneGetsIn ==
  (\E c \in Cores : pc[c] \in Waiting) ~>
    \/ \E c \in Cores : pc[c] = "critical"
    \/ \A c \in Cores : pc[c] \notin Waiting

(***************************************************************************)
(* The strengthening that makes the safety properties inductive: the lock  *)
(* word counts the holders, the owner field is right from SetId to Clear,  *)
(* and an armed monitor between ldxr and stxr witnesses a free lock.       *)
(***************************************************************************)
LockWord ==
  /\ lock = 1 => \E c \in Cores : pc[c] \in Holding
  /\ \A c \in Cores : pc[c] \in Holding => lock = 1
OwnerStable == \A c \in Cores : pc[c] \in Owning => coreid = c
MonitorSound == \A c \in Cores : pc[c] = "stxr" /\ monitor[c] => lock = 0

IInv ==
  /\ TypeOK
  /\ MutualExclusion
  /\ LockWord
  /\ OwnerStable
  /\ MonitorSound
  /\ UnlockNeverAborts

-----------------------------------------------------------------------------
(* The abstract lock this one implements.                                  *)

mode == [c \in Cores |->
           IF pc[c] = "idle" THEN "out"
           ELSE IF pc[c] \in Waiting THEN "waiting"
           ELSE IF pc[c] \in Holding THEN "in" ELSE "dead"]

Abstract == INSTANCE AbstractLock

\* arch_spin_lock and arch_spin_unlock implement the abstract lock.
ImplementsLock == Abstract!Spec
=============================================================================
