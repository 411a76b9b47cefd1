------------------------- MODULE LockAndPoolProofs -------------------------
(***************************************************************************)
(* Proofs about SpinLock, for any number of cores: type correctness,       *)
(* mutual exclusion, that arch_spin_unlock never aborts, and that the lock *)
(* implements AbstractLock.  IInv is inductive by itself; every other      *)
(* result follows from it.                                                 *)
(*                                                                         *)
(* Then about XMalloc, whose calls are single steps because each runs      *)
(* under such a lock (LockExcludes), for any pool, word and objects.       *)
(* ListsAreRight is inductive by itself; that objects are apart and that   *)
(* xmalloc fails only on a full pool follow from it.                       *)
(***************************************************************************)
EXTENDS SpinLock, XMalloc, FiniteSetTheorems, WellFoundedInduction, TLAPS


(* The strengthened invariant holds initially: no core holds the lock.     *)
LEMMA InitIInv == Init => IInv
  BY CoreAssumption DEF Init, IInv, TypeOK, MutualExclusion, LockWord,
     OwnerStable, MonitorSound, UnlockNeverAborts, Labels, Holding, Owning

(* Every access of every core preserves it.                                *)
LEMMA StepIInv == IInv /\ [Next]_vars => IInv'
  <1> SUFFICES ASSUME IInv, [Next]_vars PROVE IInv'
    OBVIOUS
  <1> USE DEF IInv, TypeOK, MutualExclusion, LockWord, OwnerStable, MonitorSound,
      UnlockNeverAborts, Labels, Holding, Owning
  <1>1. ASSUME NEW c \in Cores, Call(c) PROVE IInv'
    BY <1>1 DEF Call, Goto
  <1>2. ASSUME NEW c \in Cores, CheckLock(c) PROVE IInv'
    BY <1>2 DEF CheckLock, Goto
  <1>3. ASSUME NEW c \in Cores, CheckId(c) PROVE IInv'
    BY <1>3 DEF CheckId, Goto
  <1>4. ASSUME NEW c \in Cores, LoadExclusive(c) PROVE IInv'
    BY <1>4 DEF LoadExclusive, Goto
  <1>5. ASSUME NEW c \in Cores, StoreExclusive(c) PROVE IInv'
    <2>1. CASE /\ Goto(c, "stxr", "set_id")
               /\ monitor[c]
               /\ lock' = 1
               /\ monitor' = [d \in Cores |-> FALSE]
               /\ UNCHANGED coreid
      <3>1. \A d \in Cores : pc[d] \notin Holding
        <4>1. lock = 0
          BY <2>1, SMT DEF Goto
        <4>2. QED BY <4>1
      <3>2. pc'[c] = "set_id" /\ \A d \in Cores : d # c => pc'[d] = pc[d]
        BY <2>1 DEF Goto
      <3>3. TypeOK'
        BY <2>1 DEF Goto
      <3>4. MutualExclusion' /\ LockWord' /\ OwnerStable'
        BY <2>1, <3>1, <3>2
      <3>5. MonitorSound'
        BY <2>1
      <3>6. UnlockNeverAborts'
        BY <3>2
      <3>7. QED BY <3>3, <3>4, <3>5, <3>6
    <2>2. CASE /\ Goto(c, "stxr", "ldxr")
               /\ UNCHANGED <<lock, coreid, monitor>>
      BY <2>2 DEF Goto
    <2>3. QED BY <1>5, <2>1, <2>2 DEF StoreExclusive
  <1>6. ASSUME NEW c \in Cores, SetId(c) PROVE IInv'
    BY <1>6 DEF SetId, Goto, DisarmOthers
  <1>7. ASSUME NEW c \in Cores, Leave(c) PROVE IInv'
    BY <1>7 DEF Leave, Goto
  <1>8. ASSUME NEW c \in Cores, UncheckLock(c) PROVE IInv'
    BY <1>8 DEF UncheckLock, Goto
  <1>9. ASSUME NEW c \in Cores, UncheckId(c) PROVE IInv'
    BY <1>9 DEF UncheckId, Goto
  <1>10. ASSUME NEW c \in Cores, Clear(c) PROVE IInv'
    BY <1>10 DEF Clear, Goto, DisarmOthers
  <1>11. CASE UNCHANGED vars
    BY <1>11 DEF vars
  <1>12. QED
    BY <1>1, <1>2, <1>3, <1>4, <1>5, <1>6, <1>7, <1>8, <1>9, <1>10, <1>11
       DEF Next, LockSteps, UnlockSteps

(* The inductive invariant of the lock.                                    *)
THEOREM Invariance == Spec => []IInv
  BY InitIInv, StepIInv, PTL DEF Spec

(* Every variable keeps its type.                                          *)
THEOREM TypeCorrect == Spec => []TypeOK
  <1>1. IInv => TypeOK
    BY DEF IInv
  <1>2. QED BY Invariance, <1>1, PTL

(* At most one core is between a successful stxr and the releasing store.  *)
THEOREM LockExcludes == Spec => []MutualExclusion
  <1>1. IInv => MutualExclusion
    BY DEF IInv
  <1>2. QED BY Invariance, <1>1, PTL

(* The owner check of arch_spin_unlock always succeeds.                    *)
THEOREM UnlockSucceeds == Spec => []UnlockNeverAborts
  <1>1. IInv => UnlockNeverAborts
    BY DEF IInv
  <1>2. QED BY Invariance, <1>1, PTL

-----------------------------------------------------------------------------
(* A core that moves from one label to another moves alone in mode.        *)
LEMMA ModeStep ==
  ASSUME TypeOK, NEW c \in Cores, NEW from \in Labels, NEW to \in Labels,
         Goto(c, from, to)
  PROVE  /\ \A d \in Cores : d # c => mode'[d] = mode[d]
         /\ mode' = [mode EXCEPT ![c] = mode'[c]]
  <1>1. \A d \in Cores : pc'[d] = IF d = c THEN to ELSE pc[d]
    BY DEF Goto, TypeOK
  <1>2. QED BY <1>1 DEF mode

(* Every access of a core is a step of the abstract lock or a stutter.     *)
LEMMA StepImplements ==
  IInv /\ [Next]_vars => [Abstract!Next]_mode
  <1> SUFFICES ASSUME IInv, [Next]_vars PROVE [Abstract!Next]_mode
    OBVIOUS
  <1>t. TypeOK /\ LockWord
    BY DEF IInv
  <1> USE DEF Labels, Waiting, Holding
  <1>1. ASSUME NEW c \in Cores, Call(c) PROVE Abstract!Request(c)
    <2>1. mode[c] = "out" /\ mode'[c] = "waiting"
      BY <1>1, <1>t DEF Call, Goto, mode, TypeOK
    <2>2. Goto(c, "idle", "check_lock")
      BY <1>1 DEF Call
    <2>3. QED BY <2>1, <2>2, <1>t, ModeStep DEF Abstract!Request
  <1>2. ASSUME NEW c \in Cores, NEW from \in Labels, NEW to \in Labels,
               Goto(c, from, to), from \in Waiting <=> to \in Waiting,
               from \in Holding <=> to \in Holding, from # "idle", to # "idle"
        PROVE  UNCHANGED mode
    <2>1. mode'[c] = mode[c]
      BY <1>2, <1>t DEF Goto, mode, TypeOK
    <2>2. DOMAIN mode = Cores /\ mode = [d \in Cores |-> mode[d]]
      BY DEF mode
    <2>3. QED BY <2>1, <2>2, <1>2, <1>t, ModeStep
  <1>3. ASSUME NEW c \in Cores, CheckLock(c) PROVE UNCHANGED mode
    BY <1>3, <1>2 DEF CheckLock
  <1>4. ASSUME NEW c \in Cores, CheckId(c)
        PROVE  UNCHANGED mode \/ Abstract!GiveUp(c)
    <2>1. CASE coreid = c
      <3>1. Goto(c, "check_id", "already_held")
        BY <1>4, <2>1 DEF CheckId
      <3>2. mode[c] = "waiting" /\ mode'[c] = "dead"
        BY <3>1, <1>t DEF Goto, mode, TypeOK
      <3>3. QED BY <3>1, <3>2, <1>t, ModeStep DEF Abstract!GiveUp
    <2>2. CASE coreid # c
      BY <1>4, <2>2, <1>2 DEF CheckId
    <2>3. QED BY <2>1, <2>2
  <1>5. ASSUME NEW c \in Cores, LoadExclusive(c) PROVE UNCHANGED mode
    BY <1>5, <1>2 DEF LoadExclusive
  <1>6. ASSUME NEW c \in Cores, StoreExclusive(c)
        PROVE  UNCHANGED mode \/ Abstract!Acquire(c)
    <2>1. CASE Goto(c, "stxr", "set_id") /\ monitor[c]
      <3>1. lock = 0
        BY <2>1 DEF Goto, IInv, MonitorSound
      <3>2. \A d \in Cores : pc[d] \notin Holding
        BY <3>1, <1>t DEF LockWord
      <3>3. \A d \in Cores : mode[d] # "in"
        BY <3>2 DEF mode
      <3>4. mode[c] = "waiting" /\ mode'[c] = "in"
        BY <2>1, <1>t DEF Goto, mode, TypeOK
      <3>5. QED BY <2>1, <3>3, <3>4, <1>t, ModeStep DEF Abstract!Acquire
    <2>2. CASE Goto(c, "stxr", "ldxr")
      BY <2>2, <1>2
    <2>3. QED BY <1>6, <2>1, <2>2 DEF StoreExclusive
  <1>7. ASSUME NEW c \in Cores, SetId(c) \/ Leave(c) PROVE UNCHANGED mode
    BY <1>7, <1>2 DEF SetId, Leave
  <1>8. ASSUME NEW c \in Cores, UncheckLock(c) PROVE UNCHANGED mode
    <2>1. lock = 1
      BY <1>8, <1>t DEF UncheckLock, Goto, LockWord
    <2>2. QED BY <2>1, <1>8, <1>2 DEF UncheckLock
  <1>9. ASSUME NEW c \in Cores, UncheckId(c) PROVE UNCHANGED mode
    <2>1. coreid = c
      BY <1>9 DEF UncheckId, Goto, IInv, OwnerStable, Owning
    <2>2. QED BY <2>1, <1>9, <1>2 DEF UncheckId
  <1>10. ASSUME NEW c \in Cores, Clear(c) PROVE Abstract!Release(c)
    <2>1. Goto(c, "clear", "idle")
      BY <1>10 DEF Clear
    <2>2. mode[c] = "in" /\ mode'[c] = "out"
      BY <2>1, <1>t DEF Goto, mode, TypeOK
    <2>3. QED BY <2>1, <2>2, <1>t, ModeStep DEF Abstract!Release
  <1>11. CASE UNCHANGED vars
    BY <1>11 DEF vars, mode
  <1>12. QED
    BY <1>1, <1>3, <1>4, <1>5, <1>6, <1>7, <1>8, <1>9, <1>10, <1>11
       DEF Next, LockSteps, UnlockSteps, Abstract!Next

(* The spin lock implements the abstract lock: mode is "in" for at most    *)
(* one core at a time, and a core leaves "in" only by releasing the lock.  *)
THEOREM Refinement == Spec => ImplementsLock
  <1>1. Init => Abstract!Init
    BY DEF Init, Abstract!Init, mode
  <1>2. QED
    BY <1>1, Invariance, StepImplements, PTL DEF Spec, ImplementsLock, Abstract!Spec

-----------------------------------------------------------------------------
(* The slab allocator: induction, arithmetic, powers of two.               *)

(* Induction over the numbers, by least elements: a set of numbers that is *)
(* not empty has one.                                                      *)
LEMMA Least ==
  ASSUME NEW T \in SUBSET Nat, T # {}
  PROVE  \E n \in T : \A m \in T : n <= m
  <1>1. \E R : IsWellFoundedOn(R, Nat) /\ \A x, y \in Nat : <<x, y>> \in R <=> x < y
    <2>1. IsWellFoundedOn(OpToRel(<, Nat), Nat)
      BY NatLessThanWellFounded
    <2>2. \A x, y \in Nat : <<x, y>> \in OpToRel(<, Nat) <=> x < y
      BY DEF OpToRel
    <2>3. QED BY <2>1, <2>2, Zenon
  <1>2. PICK R : IsWellFoundedOn(R, Nat) /\ \A x, y \in Nat : <<x, y>> \in R <=> x < y
    BY <1>1
  <1>3. PICK n \in T : \A m \in T : ~(<<m, n>> \in R)
    <2>1. T \subseteq Nat
      OBVIOUS
    <2>2. IsWellFoundedOn(R, Nat) /\ T # {}
      BY <1>2
    <2>3. QED BY <2>2, <2>1, WFMin, Zenon
  <1>4. \A m \in T : ~(m < n)
    BY <1>2, <1>3
  <1>5. QED BY <1>3, <1>4

(* Induction: a set with 0 and the successor of each member is Nat.        *)
LEMMA Induct ==
  ASSUME NEW S \in SUBSET Nat, 0 \in S, \A n \in S : n + 1 \in S
  PROVE S = Nat
  <1>1. SUFFICES ASSUME Nat \ S # {} PROVE FALSE
    OBVIOUS
  <1>2. PICK n \in Nat \ S : \A m \in Nat \ S : n <= m
    BY <1>1, Least
  <1>3. n - 1 \in S
    BY <1>2
  <1>4. QED BY <1>2, <1>3

(* f[n] is the n-th value that step gives from x on.                       *)
Iterates(f, S, step, x) == f \in [Nat -> S] /\ f[0] = x /\ \A n \in Nat : f[n+1] = step[f[n]]

(* A function can be iterated: recursion on a number is well defined.      *)
LEMMA Iterate ==
  ASSUME NEW S, NEW step \in [S -> S], NEW x \in S
  PROVE  \E f : Iterates(f, S, step, x)
  <1> DEFINE G(n) == {g \in [0..n -> S] : g[0] = x /\ \A k \in 0..(n-1) : g[k+1] = step[g[k]]}
             T == {n \in Nat : \E g : g \in G(n)}
  <1>1. T = Nat
    <2>1. 0 \in T
      <3>1. [k \in 0..0 |-> x] \in G(0)
        OBVIOUS
      <3>2. QED BY <3>1
    <2>2. ASSUME NEW n \in T PROVE n + 1 \in T
      <3>1. PICK g : g \in G(n)
        OBVIOUS
      <3>2. [k \in 0..(n+1) |-> IF k = n + 1 THEN step[g[n]] ELSE g[k]] \in G(n+1)
        BY <3>1
      <3>3. QED BY <3>2
    <2> HIDE DEF T
    <2>3. T \in SUBSET Nat
      BY DEF T
    <2>4. QED BY <2>1, <2>2, <2>3, Induct
  <1>2. ASSUME NEW n \in Nat, NEW m \in Nat, NEW g \in G(n), NEW h \in G(m), n <= m
        PROVE  \A k \in 0..n : g[k] = h[k]
    <2> DEFINE U == {k \in Nat : k <= n => g[k] = h[k]}
    <2>1. 0 \in U
      OBVIOUS
    <2>2. \A k \in U : k + 1 \in U
      BY <1>2
    <2>3. U \in SUBSET Nat
      OBVIOUS
    <2>4. U = Nat
      <3> HIDE DEF U
      <3>1. QED BY <2>1, <2>2, <2>3, Induct
    <2>5. QED BY <2>4
  <1> DEFINE c(n) == CHOOSE g : g \in G(n)
  <1>3. \A n \in Nat : c(n) \in G(n)
    <2>1. \A n \in Nat : \E g : g \in G(n)
      BY <1>1
    <2> HIDE DEF G
    <2>2. QED BY <2>1
  <1> DEFINE f == [n \in Nat |-> c(n)[n]]
  <1> HIDE DEF c
  <1>4. f \in [Nat -> S] /\ f[0] = x
    BY <1>3
  <1>5. ASSUME NEW n \in Nat PROVE f[n+1] = step[f[n]]
    <2>1. c(n) \in G(n) /\ c(n+1) \in G(n+1)
      BY <1>3
    <2>2. c(n)[n] = c(n+1)[n]
      <3> HIDE DEF G
      <3>1. n + 1 \in Nat /\ n <= n + 1 /\ n \in 0..n
        OBVIOUS
      <3>2. QED BY <2>1, <3>1, <1>2
    <2>3. c(n+1)[n+1] = step[c(n+1)[n]]
      BY <2>1
    <2>4. QED BY <2>2, <2>3
  <1>6. Iterates(f, S, step, x)
    BY <1>4, <1>5 DEF Iterates
  <1>7. QED BY <1>6

(* The recursive definition of the powers of two defines them.             *)
LEMMA PowerIs == Power \in [Nat -> Nat] /\ Power[0] = 1 /\ \A n \in Nat : Power[n+1] = 2 * Power[n]
  <1>1. PICK double \in [Nat -> Nat] : \A k \in Nat : double[k] = 2 * k
    <2>1. [k \in Nat |-> 2 * k] \in [Nat -> Nat]
      OBVIOUS
    <2>2. \A k \in Nat : [j \in Nat |-> 2 * j][k] = 2 * k
      OBVIOUS
    <2>3. QED BY <2>1, <2>2
  <1>2. PICK f \in [Nat -> Nat] : f[0] = 1 /\ \A n \in Nat : f[n+1] = double[f[n]]
    <2>1. double \in [Nat -> Nat] /\ 1 \in Nat
      BY <1>1
    <2>2. PICK f : Iterates(f, Nat, double, 1)
      BY <2>1, Iterate
    <2>3. QED BY <2>2 DEF Iterates
  <1>3. f = [n \in Nat |-> IF n = 0 THEN 1 ELSE 2 * f[n-1]]
    <2>1. \A n \in Nat : n # 0 => f[n] = 2 * f[n-1]
      <3>1. \A n \in Nat : f[n+1] = 2 * f[n]
        BY <1>1, <1>2
      <3>2. \A n \in Nat : n # 0 => n - 1 \in Nat /\ n = (n-1)+1
        OBVIOUS
      <3>3. QED BY <3>1, <3>2
    <2>2. QED BY <1>2, <2>1
  <1>4. PICK q : Power = q /\ q = [n \in Nat |-> IF n = 0 THEN 1 ELSE 2 * q[n-1]]
    BY <1>3 DEF Power
  <1>5. q[0] = 1 /\ \A n \in Nat : q[n+1] = 2 * q[n]
    <2>1. \A n \in Nat : n + 1 \in Nat /\ n + 1 # 0 /\ (n+1)-1 = n
      OBVIOUS
    <2>2. 0 \in Nat
      OBVIOUS
    <2>3. QED BY <1>4, <2>1, <2>2
  <1>6. \A n \in Nat : q[n] \in Nat
    <2> DEFINE U == {n \in Nat : q[n] \in Nat}
    <2>1. 0 \in U /\ \A n \in U : n + 1 \in U
      BY <1>5
    <2>2. U \in SUBSET Nat
      OBVIOUS
    <2>3. U = Nat
      <3> HIDE DEF U
      <3>1. QED BY <2>1, <2>2, Induct
    <2>4. QED BY <2>3
  <1>7. q \in [Nat -> Nat]
    <2>1. q = [n \in Nat |-> q[n]]
      BY <1>4
    <2>2. QED BY <2>1, <1>6
  <1>8. QED BY <1>4, <1>5, <1>7

(* What a quotient and a remainder are.                                    *)
LEMMA DivMod ==
  ASSUME NEW x \in Int, NEW d \in Nat \ {0}
  PROVE  /\ x \div d \in Int /\ x % d \in 0..(d-1)
         /\ x = d * (x \div d) + (x % d)
  OBVIOUS

(* The product with a positive number keeps the order.                     *)
LEMMA MulLess ==
  ASSUME NEW d \in Nat \ {0}, NEW p \in Int, NEW q \in Int, p < q
  PROVE  p * d + d <= q * d
  <1>1. q - p - 1 \in Nat
    OBVIOUS
  <1>2. (q - p - 1) * d >= 0
    BY <1>1
  <1>3. QED BY <1>2

(* The quotient is the only number of whole parts.                         *)
LEMMA Quotient ==
  ASSUME NEW x \in Int, NEW d \in Nat \ {0}, NEW q \in Int, q * d <= x, x < q * d + d
  PROVE  x \div d = q /\ x % d = x - q * d
  <1> DEFINE p == x \div d r == x % d
  <1>1. p \in Int /\ r \in 0..(d-1) /\ x = p * d + r
    BY DivMod
  <1> HIDE DEF p, r
  <1>2. ~(p < q)
    <2>1. SUFFICES ASSUME p < q PROVE FALSE
      OBVIOUS
    <2>2. p * d + d <= q * d
      BY <1>1, <2>1, MulLess
    <2>3. QED BY <1>1, <2>2
  <1>3. ~(q < p)
    <2>1. SUFFICES ASSUME q < p PROVE FALSE
      OBVIOUS
    <2>2. q * d + d <= p * d
      BY <1>1, <2>1, MulLess
    <2>3. QED BY <1>1, <2>2
  <1>4. p = q
    BY <1>1, <1>2, <1>3
  <1>5. r = x - q * d
    BY <1>1, <1>4
  <1>6. QED BY <1>4, <1>5 DEF p, r

(* A multiple has no remainder.                                            *)
LEMMA Multiple ==
  ASSUME NEW x \in Int, NEW d \in Nat \ {0}
  PROVE  x % d = 0 <=> \E k \in Int : x = k * d
  <1>1. ASSUME x % d = 0 PROVE \E k \in Int : x = k * d
    <2>1. x \div d \in Int /\ x = (x \div d) * d
      BY <1>1, DivMod
    <2>2. QED BY <2>1
  <1>2. ASSUME NEW k \in Int, x = k * d PROVE x % d = 0
    BY <1>2, Quotient
  <1>3. QED BY <1>1, <1>2

(* Two multiples lie at least the divisor apart.                           *)
LEMMA MultipleGap ==
  ASSUME NEW d \in Nat \ {0}, NEW x \in Int, NEW y \in Int, x % d = 0, y % d = 0, x < y
  PROVE  x + d <= y
  <1>1. PICK p \in Int : x = p * d
    BY Multiple
  <1>2. PICK q \in Int : y = q * d
    BY Multiple
  <1>3. p < q
    <2>1. SUFFICES ASSUME q <= p PROVE FALSE
      BY <1>1, <1>2
    <2>2. CASE q = p
      BY <2>2, <1>1, <1>2
    <2>3. CASE q < p
      BY <2>3, <1>1, <1>2, MulLess
    <2>4. QED BY <2>1, <2>2, <2>3
  <1>4. QED BY <1>1, <1>2, <1>3, MulLess

(* The sum of two multiples is a multiple.                                 *)
LEMMA MultipleSum ==
  ASSUME NEW d \in Nat \ {0}, NEW x \in Int, NEW y \in Int, x % d = 0, y % d = 0
  PROVE  (x + y) % d = 0
  <1>1. PICK p \in Int : x = p * d
    BY Multiple
  <1>2. PICK q \in Int : y = q * d
    BY Multiple
  <1>3. x + y = (p + q) * d
    BY <1>1, <1>2
  <1>4. QED BY <1>3, Multiple

(* Zero and the number itself are multiples of a number.                   *)
LEMMA SelfMultiple ==
  ASSUME NEW d \in Nat \ {0}
  PROVE 0 % d = 0 /\ d % d = 0
  <1>1. 0 = 0 * d /\ d = 1 * d
    OBVIOUS
  <1>2. QED BY <1>1, Multiple

(* 2^(m+n) is 2^m times 2^n.                                               *)
LEMMA PowerSum ==
  ASSUME NEW m \in Nat, NEW n \in Nat
  PROVE  Power[m + n] = Power[m] * Power[n]
  <1> DEFINE S == {k \in Nat : Power[m + k] = Power[m] * Power[k]}
  <1>1. 0 \in S
    BY PowerIs
  <1>2. ASSUME NEW k \in S PROVE k + 1 \in S
    <2>1. Power[m + k] = Power[m] * Power[k] /\ m + k \in Nat
      OBVIOUS
    <2>2. Power[(m + k) + 1] = 2 * Power[m + k] /\ Power[k + 1] = 2 * Power[k]
      BY <2>1, PowerIs
    <2>3. Power[m] \in Nat /\ Power[k] \in Nat
      BY PowerIs
    <2>4. 2 * (Power[m] * Power[k]) = Power[m] * (2 * Power[k])
      BY <2>3
    <2>5. (m + k) + 1 = m + (k + 1)
      OBVIOUS
    <2>6. QED BY <2>1, <2>2, <2>4, <2>5
  <1>3. S \in SUBSET Nat
    OBVIOUS
  <1>4. S = Nat
    <2> HIDE DEF S
    <2>1. QED BY <1>1, <1>2, <1>3, Induct
  <1>5. QED BY <1>4

(* 2^n is positive and above n.                                            *)
LEMMA PowerGrows ==
  ASSUME NEW n \in Nat
  PROVE  Power[n] \in Nat /\ n < Power[n]
  <1> DEFINE S == {k \in Nat : k < Power[k]}
  <1>1. 0 \in S
    BY PowerIs
  <1>2. ASSUME NEW k \in S PROVE k + 1 \in S
    BY PowerIs
  <1>3. S \in SUBSET Nat
    OBVIOUS
  <1>4. S = Nat
    <2> HIDE DEF S
    <2>1. QED BY <1>1, <1>2, <1>3, Induct
  <1>5. QED BY <1>4, PowerIs

(* A smaller power of two divides a larger one.                            *)
LEMMA PowerDivides ==
  ASSUME NEW m \in Nat, NEW n \in Nat, m <= n
  PROVE  \E k \in Nat \ {0} : Power[n] = k * Power[m]
  <1>1. n - m \in Nat /\ m + (n - m) = n
    OBVIOUS
  <1>2. Power[n] = Power[m] * Power[n - m]
    BY <1>1, PowerSum
  <1>3. Power[m] \in Nat /\ Power[n - m] \in Nat \ {0}
    BY <1>1, PowerGrows
  <1>4. QED BY <1>2, <1>3

(* The powers of two ascend.                                               *)
LEMMA PowerMonotone ==
  ASSUME NEW m \in Nat, NEW n \in Nat, m <= n
  PROVE  Power[m] <= Power[n]
  <1>1. PICK k \in Nat \ {0} : Power[n] = k * Power[m]
    BY PowerDivides
  <1>2. Power[m] \in Nat
    BY PowerIs
  <1>3. (k - 1) * Power[m] >= 0
    BY <1>2
  <1>4. QED BY <1>1, <1>2, <1>3

(* BLK_SIZE2TYPE gives the least type whose blocks hold the size.          *)
LEMMA LeastType ==
  ASSUME NEW size \in Nat
  PROVE  /\ Size2Type(size) \in Nat
         /\ size <= BlkSize(Size2Type(size))
         /\ \A u \in Nat : u < Size2Type(size) => BlkSize(u) < size
  <1> DEFINE T == {t \in Nat : size <= Power[t]}
             Fits(t) == size <= Power[t] /\ \A u \in 0..(t-1) : Power[u] < size
  <1>1. PICK t \in T : \A u \in T : t <= u
    <2>1. T \in SUBSET Nat /\ size \in T
      BY PowerGrows
    <2> HIDE DEF T
    <2>2. QED BY <2>1, Least
  <1>2. t \in 0..size
    <2>1. size \in T
      BY PowerGrows
    <2>2. QED BY <1>1, <2>1
  <1>3. Fits(t)
    BY <1>1, PowerIs
  <1>4. Size2Type(size) \in 0..size /\ Fits(Size2Type(size))
    BY <1>2, <1>3 DEF Size2Type
  <1>5. QED BY <1>4 DEF BlkSize

-----------------------------------------------------------------------------
(* The geometry of the pool.                                               *)

(* A slice is a whole number of blocks of each type.                       *)
LEMMA Sizes ==
  /\ SliceSize \in Nat \ {0} /\ PoolStart \in Nat \ {0}
  /\ \A t \in Types : /\ t \in Nat /\ BlkSize(t) \in Nat \ {0}
                      /\ BlkSize(t) <= SliceSize /\ SliceSize % BlkSize(t) = 0
                      /\ SliceSize \div BlkSize(t) \in Nat
                      /\ (SliceSize \div BlkSize(t)) * BlkSize(t) = SliceSize
  <1>1. SliceBit \in Nat /\ SliceSize \in Nat \ {0}
    BY XMallocAssumption, PowerGrows DEF SliceSize
  <1>2. ASSUME NEW t \in Types
        PROVE  /\ t \in Nat /\ BlkSize(t) \in Nat \ {0}
               /\ BlkSize(t) <= SliceSize /\ SliceSize % BlkSize(t) = 0
               /\ SliceSize \div BlkSize(t) \in Nat
               /\ (SliceSize \div BlkSize(t)) * BlkSize(t) = SliceSize
    <2>1. t \in Nat /\ t <= SliceBit
      BY <1>1 DEF Types
    <2>2. BlkSize(t) \in Nat \ {0}
      BY <2>1, PowerGrows DEF BlkSize
    <2>3. PICK k \in Nat \ {0} : SliceSize = k * BlkSize(t)
      BY <1>1, <2>1, PowerDivides DEF SliceSize, BlkSize
    <2>4. SliceSize % BlkSize(t) = 0
      BY <1>1, <2>2, <2>3, Multiple
    <2>5. BlkSize(t) <= SliceSize
      BY <1>1, <2>1, PowerMonotone DEF SliceSize, BlkSize
    <2>6. SliceSize \div BlkSize(t) = k
      BY <1>1, <2>2, <2>3, Quotient
    <2>7. QED BY <2>1, <2>2, <2>3, <2>4, <2>5, <2>6
  <1>3. QED BY <1>1, <1>2 DEF PoolStart

(* The slices lie one behind the other.                                    *)
LEMMA SliceAddrs ==
  ASSUME NEW r \in Int, NEW s \in Int
  PROVE  /\ SliceAddr(s) \in Int
         /\ r < s => SliceAddr(r) + SliceSize <= SliceAddr(s)
         /\ r # s => SliceAddr(r) # SliceAddr(s)
  <1>1. SliceSize \in Nat \ {0}
    BY Sizes
  <1>2. SliceAddr(s) \in Int /\ SliceAddr(r) \in Int
    BY <1>1 DEF SliceAddr, PoolStart
  <1>3. r < s => SliceAddr(r) + SliceSize <= SliceAddr(s)
    BY <1>1, MulLess DEF SliceAddr, PoolStart
  <1>4. s < r => SliceAddr(s) + SliceSize <= SliceAddr(r)
    BY <1>1, MulLess DEF SliceAddr, PoolStart
  <1>5. QED BY <1>1, <1>2, <1>3, <1>4

(* Each slice is in the pool.                                              *)
LEMMA SliceInPool ==
  ASSUME NEW s \in Slices
  PROVE  /\ SliceAddr(s) \in Pool /\ PoolStart <= SliceAddr(s)
         /\ SliceAddr(s) + SliceSize <= PoolEnd
  <1>1. SliceSize \in Nat \ {0} /\ PoolStart \in Nat \ {0} /\ SliceNum \in Nat
    BY Sizes, XMallocAssumption
  <1>2. s * SliceSize + SliceSize <= SliceNum * SliceSize
    BY <1>1, MulLess DEF Slices
  <1>3. s * SliceSize \in Nat /\ SliceNum * SliceSize \in Nat
    BY <1>1 DEF Slices
  <1>4. QED BY <1>1, <1>2, <1>3 DEF SliceAddr, PoolEnd, Pool

(* blk_free finds the slice an address lies in.                            *)
LEMMA SliceOfIs ==
  ASSUME NEW a \in Int, NEW s \in Int
  PROVE  SliceOf(a) = s <=> SliceAddr(s) <= a /\ a < SliceAddr(s) + SliceSize
  <1>1. SliceSize \in Nat \ {0} /\ PoolStart \in Nat
    BY Sizes
  <1>2. SliceOf(a) \in Int /\ SliceAddr(SliceOf(a)) <= a /\ a < SliceAddr(SliceOf(a)) + SliceSize
    BY <1>1, DivMod DEF SliceOf, SliceAddr
  <1>3. SliceAddr(s) <= a /\ a < SliceAddr(s) + SliceSize => SliceOf(a) = s
    BY <1>1, Quotient DEF SliceOf, SliceAddr
  <1>4. QED BY <1>2, <1>3

(* The pool is a finite set of addresses without NULL.                     *)
LEMMA PoolIs == Null \notin Pool /\ Pool \subseteq Nat /\ PoolEnd \in Nat /\ IsFiniteSet(Pool)
  <1>1. PoolStart \in Nat \ {0} /\ SliceSize \in Nat /\ SliceNum \in Nat
    BY Sizes, XMallocAssumption
  <1>2. PoolEnd \in Nat
    BY <1>1 DEF PoolEnd
  <1>3. Null \notin Pool /\ Pool \subseteq Nat
    BY <1>1, <1>2 DEF Pool, Null
  <1>4. IsFiniteSet(Pool)
    BY <1>1, <1>2, FS_Interval DEF Pool
  <1>5. QED BY <1>2, <1>3, <1>4

-----------------------------------------------------------------------------
(* The free lists.                                                         *)

(* c is the list from head on that follows the links of next.              *)
IsChain(c, head, n, next) ==
  /\ c[1] = head
  /\ \A k \in 1..(n + 1) : c[k] \in Pool \cup {Null}
  /\ \A k \in 1..n : c[k + 1] = IF c[k] = Null THEN Null ELSE next[c[k]]

(* Following the links from head gives a list.                             *)
LEMMA ChainIs ==
  ASSUME NEW head \in Pool \cup {Null}, NEW n \in Nat,
         NEW next \in [Pool -> Pool \cup {Null}]
  PROVE  IsChain(ChainFrom(head, n, next), head, n, next)
  <1> DEFINE Step == [a \in Pool \cup {Null} |-> IF a = Null THEN Null ELSE next[a]]
  <1>1. PICK step \in [Pool \cup {Null} -> Pool \cup {Null}] :
          \A a \in Pool \cup {Null} : step[a] = IF a = Null THEN Null ELSE next[a]
    <2>1. Step \in [Pool \cup {Null} -> Pool \cup {Null}]
      OBVIOUS
    <2>2. \A a \in Pool \cup {Null} : Step[a] = IF a = Null THEN Null ELSE next[a]
      OBVIOUS
    <2>3. QED BY <2>1, <2>2
  <1>2. PICK f : Iterates(f, Pool \cup {Null}, step, head)
    BY <1>1, Iterate
  <1>3. PICK c : c = [k \in 1..(n + 1) |-> f[k - 1]]
    OBVIOUS
  <1>4. \A k \in 1..(n + 1) : c[k] \in Pool \cup {Null}
    BY <1>2, <1>3 DEF Iterates
  <1>5. c[1] = head
    BY <1>2, <1>3 DEF Iterates
  <1>6. ASSUME NEW k \in 2..(n + 1)
        PROVE  c[k] = IF c[k-1] = Null THEN Null ELSE next[c[k-1]]
    <2>1. k - 2 \in Nat /\ (k - 2) + 1 = k - 1 /\ k - 1 \in 1..(n+1) /\ (k - 1) - 1 = k - 2
      OBVIOUS
    <2>2. f[k - 1] = step[f[k - 2]] /\ f[k - 2] \in Pool \cup {Null}
      BY <1>2, <2>1 DEF Iterates
    <2>3. c[k] = f[k - 1] /\ c[k - 1] = f[k - 2]
      BY <1>3, <2>1
    <2>4. QED BY <1>1, <2>2, <2>3
  <1>7. c = [k \in 1..(n + 1) |-> IF k = 1 THEN head
                                  ELSE IF c[k-1] = Null THEN Null ELSE next[c[k-1]]]
    <2>1. \A k \in 1..(n + 1) : k = 1 \/ k \in 2..(n + 1)
      OBVIOUS
    <2>2. QED BY <1>3, <1>5, <1>6, <2>1
  <1>8. PICK q : /\ ChainFrom(head, n, next) = q
                 /\ q = [k \in 1..(n + 1) |-> IF k = 1 THEN head
                                  ELSE IF q[k-1] = Null THEN Null ELSE next[q[k-1]]]
    BY <1>7 DEF ChainFrom
  <1>9. q[1] = head
    BY <1>8
  <1>10. \A k \in 1..n : q[k + 1] = IF q[k] = Null THEN Null ELSE next[q[k]]
    <2>1. \A k \in 1..n : k + 1 \in 1..(n + 1) /\ k + 1 # 1 /\ (k + 1) - 1 = k
      OBVIOUS
    <2>2. QED BY <1>8, <2>1
  <1>11. \A k \in 1..(n + 1) : q[k] \in Pool \cup {Null}
    <2> DEFINE T == {k \in Nat : k <= n => q[k + 1] \in Pool \cup {Null}}
    <2>1. 0 \in T
      BY <1>9
    <2>2. ASSUME NEW k \in T PROVE k + 1 \in T
      <3>1. CASE k + 1 <= n
        BY <3>1, <1>10
      <3>2. QED BY <3>1
    <2>3. T \in SUBSET Nat
      OBVIOUS
    <2>4. T = Nat
      <3> HIDE DEF T
      <3>1. QED BY <2>1, <2>2, <2>3, Induct
    <2>5. \A k \in 1..(n + 1) : k - 1 \in Nat /\ k - 1 <= n /\ (k - 1) + 1 = k
      OBVIOUS
    <2>6. QED BY <2>4, <2>5
  <1>12. QED BY <1>8, <1>9, <1>10, <1>11 DEF IsChain

(* Two lists that start equal and go on equally are equal.                 *)
LEMMA Agree ==
  ASSUME NEW c, NEW d, NEW n \in Nat, c[1] = d[1],
         \A k \in 1..n : c[k] = d[k] => c[k + 1] = d[k + 1]
  PROVE  \A k \in 1..(n + 1) : c[k] = d[k]
  <1> DEFINE T == {k \in Nat : k <= n => c[k + 1] = d[k + 1]}
  <1>1. 0 \in T
    OBVIOUS
  <1>2. ASSUME NEW k \in T PROVE k + 1 \in T
    OBVIOUS
  <1>3. T \in SUBSET Nat
    OBVIOUS
  <1>4. T = Nat
    <2> HIDE DEF T
    <2>1. QED BY <1>1, <1>2, <1>3, Induct
  <1>5. ASSUME NEW k \in 1..(n + 1) PROVE c[k] = d[k]
    <2>1. k - 1 \in Nat /\ k - 1 <= n /\ (k - 1) + 1 = k
      OBVIOUS
    <2>2. k - 1 \in T
      BY <2>1, <1>4
    <2>3. QED BY <2>1, <2>2
  <1>6. QED BY <1>5

(* A step writes no link but that of a, which is not in the list d.        *)
Relinked(next, next2, a) == \A b \in Pool \ {a} : next2[b] = next[b]
Misses(d, n, a) == \A k \in 1..n : d[k] # a

(* blk_free puts a block before the others, whose links stay.              *)
LEMMA PushChain ==
  ASSUME NEW head, NEW n \in Nat, NEW m \in Nat, m = n + 1,
         NEW next, NEW next2, NEW a \in Pool, NEW c, NEW d,
         IsChain(d, head, n, next), IsChain(c, a, m, next2),
         next2[a] = head, Relinked(next, next2, a), Misses(d, n, a)
  PROVE  c[1] = a /\ \A k \in 1..m : c[k + 1] = d[k]
  <1>1. /\ c[1] = a
        /\ \A k \in 1..(n + 1) : c[k + 1] = IF c[k] = Null THEN Null ELSE next2[c[k]]
    BY m = n + 1 DEF IsChain
  <1>2. /\ d[1] = head
        /\ \A k \in 1..(n + 1) : d[k] \in Pool \cup {Null}
        /\ \A k \in 1..n : d[k + 1] = IF d[k] = Null THEN Null ELSE next[d[k]]
    BY DEF IsChain
  <1>3. PICK e : e = [k \in 1..(n + 1) |-> c[k + 1]]
    OBVIOUS
  <1>4. e[1] = d[1]
    <2>1. 1 \in 1..(n + 1)
      OBVIOUS
    <2>2. c[1 + 1] = next2[a]
      BY <2>1, <1>1, PoolIs
    <2>3. e[1] = c[1 + 1]
      BY <2>1, <1>3
    <2>4. QED BY <2>2, <2>3, <1>2
  <1>5. ASSUME NEW k \in 1..n, e[k] = d[k] PROVE e[k + 1] = d[k + 1]
    <2>1. k + 1 \in 1..(n + 1) /\ k \in 1..(n + 1)
      OBVIOUS
    <2>2. c[k + 1 + 1] = IF c[k + 1] = Null THEN Null ELSE next2[c[k + 1]]
      BY <2>1, <1>1
    <2>3. d[k] \in Pool \cup {Null} /\ d[k] # a
      BY <2>1, <1>2 DEF Misses
    <2>4. d[k] # Null => next2[d[k]] = next[d[k]]
      BY <2>3 DEF Relinked
    <2>5. c[k + 1] = d[k] /\ e[k + 1] = c[k + 1 + 1]
      BY <1>5, <2>1, <1>3
    <2>6. QED BY <2>2, <2>4, <2>5, <1>2
  <1>6. \A k \in 1..(n + 1) : e[k] = d[k]
    BY <1>4, <1>5, Agree
  <1>7. QED BY <1>1, <1>3, <1>6

(* blk_alloc takes the first block.                                        *)
LEMMA PopChain ==
  ASSUME NEW head \in Pool, NEW m \in Nat, NEW next, NEW c, NEW d,
         IsChain(d, head, m + 1, next), IsChain(c, next[head], m, next)
  PROVE  \A k \in 1..(m + 1) : c[k] = d[k + 1]
  <1>1. /\ c[1] = next[head]
        /\ \A k \in 1..m : c[k + 1] = IF c[k] = Null THEN Null ELSE next[c[k]]
    BY DEF IsChain
  <1>2. /\ d[1] = head
        /\ \A k \in 1..(m + 1) : d[k + 1] = IF d[k] = Null THEN Null ELSE next[d[k]]
    BY DEF IsChain
  <1>3. PICK e : e = [k \in 1..(m + 1) |-> d[k + 1]]
    OBVIOUS
  <1>4. c[1] = e[1]
    <2>1. 1 \in 1..(m + 1)
      OBVIOUS
    <2>2. d[1 + 1] = next[head]
      BY <2>1, <1>2, PoolIs
    <2>3. e[1] = d[1 + 1]
      BY <2>1, <1>3
    <2>4. QED BY <2>2, <2>3, <1>1
  <1>5. ASSUME NEW k \in 1..m, c[k] = e[k] PROVE c[k + 1] = e[k + 1]
    <2>1. k \in 1..(m + 1) /\ k + 1 \in 1..(m + 1)
      OBVIOUS
    <2>2. d[k + 1 + 1] = IF d[k + 1] = Null THEN Null ELSE next[d[k + 1]]
      BY <2>1, <1>2
    <2>3. e[k] = d[k + 1] /\ e[k + 1] = d[k + 1 + 1]
      BY <2>1, <1>3
    <2>4. QED BY <2>2, <2>3, <1>1, <1>5
  <1>6. \A k \in 1..(m + 1) : c[k] = e[k]
    BY <1>4, <1>5, Agree
  <1>7. QED BY <1>3, <1>6

(* A link that is written outside a list leaves the list alone.            *)
LEMMA KeepChain ==
  ASSUME NEW head, NEW n \in Nat, NEW next, NEW next2, NEW a \in Pool, NEW c, NEW d,
         IsChain(d, head, n, next), IsChain(c, head, n, next2),
         Relinked(next, next2, a), Misses(d, n, a)
  PROVE  \A k \in 1..(n + 1) : c[k] = d[k]
  <1>1. c[1] = head /\ \A k \in 1..n : c[k + 1] = IF c[k] = Null THEN Null ELSE next2[c[k]]
    BY DEF IsChain
  <1>2. /\ d[1] = head
        /\ \A k \in 1..(n + 1) : d[k] \in Pool \cup {Null}
        /\ \A k \in 1..n : d[k + 1] = IF d[k] = Null THEN Null ELSE next[d[k]]
    BY DEF IsChain
  <1>3. ASSUME NEW k \in 1..n, c[k] = d[k] PROVE c[k + 1] = d[k + 1]
    <2>1. k \in 1..(n + 1)
      OBVIOUS
    <2>2. d[k] \in Pool \cup {Null} /\ d[k] # a
      BY <2>1, <1>2 DEF Misses
    <2>3. d[k] # Null => next2[d[k]] = next[d[k]]
      BY <2>2 DEF Relinked
    <2>4. QED BY <2>3, <1>1, <1>2, <1>3
  <1>4. c[1] = d[1]
    BY <1>1, <1>2
  <1>5. QED BY <1>3, <1>4, Agree

-----------------------------------------------------------------------------
(* Slices and blocks.                                                      *)

(* The fields of a list have their types.                                  *)
LEMMA ListTypes ==
  ASSUME PoolTypeOK, NEW t \in Types
  PROVE  /\ blk_list[t] \in Lists
         /\ blk_list[t].freelist_cnt \in Nat /\ blk_list[t].nofree_cnt \in Nat
         /\ blk_list[t].slice_cnt \in 0..SliceNum
         /\ blk_list[t].slice_addr \in Pool \cup {Null}
         /\ blk_list[t].slice_offset \in 0..SliceSize
         /\ blk_list[t].free_head \in Pool \cup {Null}
  BY DEF PoolTypeOK, Lists

(* The type and the cut part of a slice that was given away.               *)
LEMMA CutIs ==
  ASSUME PoolTypeOK, NEW s \in 0..(slice_cnt - 1)
  PROVE  /\ s \in Slices /\ s \in Nat /\ slice_type[s] \in Types
         /\ Cut(s) \in 0..SliceSize
  <1>1. slice_cnt \in Nat /\ slice_cnt <= SliceNum /\ SliceNum \in Nat
    BY XMallocAssumption DEF PoolTypeOK
  <1>2. s \in Slices /\ s \in Nat
    BY <1>1 DEF Slices
  <1>3. slice_type[s] \in Types
    BY <1>2 DEF PoolTypeOK
  <1>4. QED BY <1>2, <1>3, ListTypes, Sizes DEF Cut

(* A block lies in one slice, in its cut part, and in the pool.            *)
LEMMA BlockIs ==
  ASSUME PoolTypeOK, NEW a \in Int, IsBlock(a)
  PROVE  /\ SliceOf(a) \in 0..(slice_cnt - 1) /\ SliceOf(a) \in Slices
         /\ TypeOf(a) \in Types /\ BlkSize(TypeOf(a)) \in Nat \ {0}
         /\ SliceAddr(SliceOf(a)) \in Int /\ SliceAddr(SliceOf(a)) <= a
         /\ a + BlkSize(TypeOf(a)) <= SliceAddr(SliceOf(a)) + Cut(SliceOf(a))
         /\ a + BlkSize(TypeOf(a)) <= SliceAddr(SliceOf(a)) + SliceSize
         /\ (a - SliceAddr(SliceOf(a))) % BlkSize(TypeOf(a)) = 0
         /\ a \in Pool /\ PoolStart <= a /\ a + BlkSize(TypeOf(a)) <= PoolEnd
  <1> DEFINE s == SliceOf(a)
  <1>1. /\ s \in 0..(slice_cnt - 1)
        /\ (a - SliceAddr(s)) % BlkSize(TypeOf(a)) = 0
        /\ a + BlkSize(TypeOf(a)) <= SliceAddr(s) + Cut(s)
    BY DEF IsBlock, TypeOf
  <1>2. s \in Slices /\ s \in Nat /\ slice_type[s] \in Types /\ Cut(s) \in 0..SliceSize
    BY <1>1, CutIs
  <1>3. TypeOf(a) \in Types /\ BlkSize(TypeOf(a)) \in Nat \ {0} /\ SliceSize \in Nat
    BY <1>2, Sizes DEF TypeOf
  <1>4. SliceAddr(s) \in Int /\ SliceAddr(s) <= a
    BY <1>2, SliceAddrs, SliceOfIs
  <1>5. PoolStart <= SliceAddr(s) /\ SliceAddr(s) + SliceSize <= PoolEnd /\ PoolStart \in Nat
    BY <1>2, SliceInPool, Sizes
  <1> HIDE DEF s
  <1>6. a + BlkSize(TypeOf(a)) <= SliceAddr(s) + SliceSize
    BY <1>1, <1>2, <1>3, <1>4
  <1>7. PoolStart <= a /\ a + BlkSize(TypeOf(a)) <= PoolEnd /\ a \in Pool
    BY <1>3, <1>4, <1>5, <1>6, PoolIs DEF Pool
  <1>8. QED BY <1>1, <1>2, <1>3, <1>4, <1>6, <1>7 DEF s

(* No byte belongs to two blocks.                                          *)
LEMMA BlocksApart ==
  ASSUME PoolTypeOK, NEW a \in Int, NEW b \in Int, IsBlock(a), IsBlock(b), a < b
  PROVE  a + BlkSize(TypeOf(a)) <= b
  <1>1. PICK r \in Slices : r = SliceOf(a)
    BY BlockIs
  <1>2. PICK s \in Slices : s = SliceOf(b)
    BY BlockIs
  <1>3. r \in Int /\ s \in Int /\ SliceSize \in Nat
    BY Sizes DEF Slices
  <1>4. PICK d \in Nat \ {0} : d = BlkSize(TypeOf(a))
    BY BlockIs
  <1>5. /\ SliceAddr(r) \in Int /\ SliceAddr(r) <= a /\ a + d <= SliceAddr(r) + SliceSize
        /\ (a - SliceAddr(r)) % d = 0
    BY <1>1, <1>4, BlockIs
  <1>6. SliceAddr(s) \in Int /\ SliceAddr(s) <= b /\ b < SliceAddr(s) + SliceSize
    BY <1>2, SliceOfIs, SliceAddrs, <1>3
  <1>7. CASE r = s
    <2>1. (b - SliceAddr(r)) % d = 0
      BY <1>1, <1>2, <1>4, <1>7, BlockIs DEF TypeOf
    <2>2. (a - SliceAddr(r)) + d <= b - SliceAddr(r)
      BY <1>5, <1>6, <2>1, MultipleGap
    <2>3. QED BY <2>2, <1>4, <1>5
  <1>8. CASE r < s
    <2>1. SliceAddr(r) + SliceSize <= SliceAddr(s)
      BY <1>3, <1>8, SliceAddrs
    <2>2. QED BY <2>1, <1>3, <1>4, <1>5, <1>6
  <1>9. CASE s < r
    <2>1. SliceAddr(s) + SliceSize <= SliceAddr(r)
      BY <1>3, <1>9, SliceAddrs
    <2>2. QED BY <2>1, <1>3, <1>5, <1>6
  <1>10. QED BY <1>3, <1>7, <1>8, <1>9

(* Cutting more blocks leaves those there are.                             *)
LEMMA KeepBlocks ==
  ASSUME PoolTypeOK, PoolTypeOK', slice_cnt <= slice_cnt',
         \A s \in 0..(slice_cnt - 1) : slice_type'[s] = slice_type[s] /\ Cut(s) <= Cut(s)'
  PROVE  \A a \in Int : IsBlock(a) => IsBlock(a)' /\ TypeOf(a)' = TypeOf(a)
  <1> SUFFICES ASSUME NEW a \in Int, IsBlock(a) PROVE IsBlock(a)' /\ TypeOf(a)' = TypeOf(a)
    OBVIOUS
  <1>1. PICK s \in Slices : s = SliceOf(a)
    BY BlockIs
  <1>2. /\ s \in 0..(slice_cnt - 1) /\ SliceAddr(s) \in Int
        /\ BlkSize(slice_type[s]) \in Nat /\ (a - SliceAddr(s)) % BlkSize(slice_type[s]) = 0
        /\ a + BlkSize(slice_type[s]) <= SliceAddr(s) + Cut(s)
    BY <1>1, BlockIs DEF TypeOf
  <1>3. slice_type'[s] = slice_type[s] /\ Cut(s) <= Cut(s)' /\ s \in 0..(slice_cnt' - 1)
    <2>1. slice_cnt \in Int /\ slice_cnt' \in Int
      BY XMallocAssumption DEF PoolTypeOK
    <2>2. s \in 0..(slice_cnt - 1)
      BY <1>2
    <2>3. s \in 0..(slice_cnt' - 1)
      <3>1. PICK m \in Int : m = slice_cnt
        BY <2>1
      <3>2. PICK n \in Int : n = slice_cnt'
        BY <2>1
      <3>3. m <= n /\ s \in 0..(m - 1)
        BY <2>2, <3>1, <3>2
      <3>4. s \in 0..(n - 1)
        BY <3>3
      <3>5. QED BY <3>2, <3>4
    <2>4. slice_type'[s] = slice_type[s]
      BY <2>2
    <2>5. Cut(s) <= Cut(s)'
      BY <2>2
    <2>6. QED BY <2>3, <2>4, <2>5
  <1>4. Cut(s) \in Int /\ Cut(s)' \in Int
    <2>1. Cut(s) \in Int
      BY <1>2, CutIs
    <2>2. slice_type'[s] \in Types
      BY <1>1 DEF PoolTypeOK
    <2>3. blk_list'[slice_type'[s]].slice_offset \in 0..SliceSize
      BY <2>2 DEF PoolTypeOK, Lists
    <2>4. Cut(s)' \in Int
      BY <2>3, Sizes DEF Cut
    <2>5. QED BY <2>1, <2>4
  <1>5. TypeOf(a)' = TypeOf(a)
    BY <1>1, <1>3 DEF TypeOf
  <1>6. a + BlkSize(slice_type'[s]) <= SliceAddr(s) + Cut(s)'
    BY <1>2, <1>3, <1>4
  <1>7. IsBlock(a)'
    BY <1>1, <1>2, <1>3, <1>6 DEF IsBlock
  <1>8. QED BY <1>5, <1>7

-----------------------------------------------------------------------------
(* Objects.                                                                *)

(* An object that is live has an address in the pool.                      *)
LEMMA LiveIs ==
  ASSUME PoolTypeOK, NEW o \in Live
  PROVE  o \in Objects /\ at[o] \in Pool /\ at[o] \in Int
  <1>1. o \in Objects /\ at[o] \in Pool
    BY DEF Live, PoolTypeOK
  <1>2. Pool \subseteq Int
    BY PoolIs
  <1>3. QED BY <1>1, <1>2

(* The live objects are finite in number, as is the pool.                  *)
LEMMA LiveFinite ==
  ASSUME PoolTypeOK, BlocksAreRight
  PROVE  \A t \in Types : IsFiniteSet(LiveOf(t))
  <1> DEFINE f == [o \in Live |-> at[o]]
  <1>1. f \in [Live -> Pool]
    BY LiveIs
  <1>2. \A o, q \in Live : o # q => f[o] # f[q]
    BY DEF BlocksAreRight
  <1>3. f \in Injection(Live, Pool)
    BY <1>1, <1>2 DEF Injection, IsInjective
  <1> HIDE DEF f
  <1>4. IsFiniteSet(Live)
    BY <1>3, PoolIs, FS_Injection
  <1>5. \A t \in Types : LiveOf(t) \subseteq Live
    BY DEF LiveOf
  <1>6. QED BY <1>4, <1>5, FS_Subset

(* An object's block is the block at its address.                          *)
LEMMA BlockAt ==
  ASSUME NEW q \in Objects, NEW a \in Pool, at'[q] = a
  PROVE  (IsBlock(a)' => IsBlock(at[q])') /\ TypeOf(at[q])' = TypeOf(a)'
  BY DEF IsBlock, Cut, TypeOf

(* An object gets a block that no other has.                               *)
LEMMA Gain ==
  ASSUME PoolTypeOK, BlocksAreRight, NEW o \in Objects, at[o] = Null,
         NEW b \in Pool, at' = [at EXCEPT ![o] = b], NEW t \in Types,
         \A a \in Int : IsBlock(a) => IsBlock(a)' /\ TypeOf(a)' = TypeOf(a),
         IsBlock(b)', TypeOf(b)' = t, Size[o] <= BlkSize(t),
         \A q \in Live : at[q] # b
  PROVE  /\ BlocksAreRight' /\ Live' = Live \cup {o}
         /\ \A u \in Types : Cardinality(LiveOf(u)') =
              IF u = t THEN Cardinality(LiveOf(u)) + 1 ELSE Cardinality(LiveOf(u))
  <1>1. at'[o] = b /\ \A q \in Objects \ {o} : at'[q] = at[q]
    BY DEF PoolTypeOK
  <1>2. Live' = Live \cup {o} /\ o \notin Live
    BY <1>1, PoolIs DEF Live
  <1>3. ASSUME NEW q \in Live
        PROVE  IsBlock(at[q])' /\ TypeOf(at[q])' = TypeOf(at[q]) /\ at'[q] = at[q]
    <2>1. PICK a \in Pool : a = at[q]
      BY LiveIs
    <2>2. IsBlock(a) /\ at'[q] = a /\ q \in Objects
      BY <2>1, <1>1, <1>2 DEF BlocksAreRight, Live
    <2>3. a \in Int
      BY PoolIs
    <2>4. IsBlock(a)' /\ TypeOf(a)' = TypeOf(a)
      BY <2>2, <2>3, Zenon
    <2>5. QED BY <2>1, <2>2, <2>4, BlockAt
  <1>4. IsBlock(at[o])' /\ TypeOf(at[o])' = t
    BY <1>1, BlockAt
  <1>5. BlocksAreRight'
    <2>1. ASSUME NEW q \in Live'
          PROVE  /\ IsBlock(at[q])' /\ Size[q] <= BlkSize(TypeOf(at[q]))'
                 /\ \A p \in Live' \ {q} : at'[p] # at'[q]
      <3>1. CASE q = o
        BY <3>1, <1>1, <1>2, <1>3, <1>4 DEF BlkSize
      <3>2. CASE q \in Live
        BY <3>2, <1>1, <1>2, <1>3 DEF BlocksAreRight, BlkSize
      <3>3. QED BY <3>1, <3>2, <1>2
    <2>2. QED BY <2>1 DEF BlocksAreRight
  <1>6. ASSUME NEW u \in Types
        PROVE  Cardinality(LiveOf(u)') =
                 IF u = t THEN Cardinality(LiveOf(u)) + 1 ELSE Cardinality(LiveOf(u))
    <2>1. LiveOf(u)' = {q \in Live' : TypeOf(at[q])' = u}
      BY DEF LiveOf
    <2>2. LiveOf(u)' = IF u = t THEN LiveOf(u) \cup {o} ELSE LiveOf(u)
      BY <2>1, <1>2, <1>3, <1>4 DEF LiveOf
    <2>3. o \notin LiveOf(u) /\ IsFiniteSet(LiveOf(u))
      BY <1>2, LiveFinite DEF LiveOf
    <2>4. QED BY <2>2, <2>3, FS_AddElement
  <1>7. QED BY <1>2, <1>5, <1>6

(* An object gives its block back.                                         *)
LEMMA Lose ==
  ASSUME PoolTypeOK, BlocksAreRight, NEW o \in Live, at' = [at EXCEPT ![o] = Null],
         NEW t \in Types, TypeOf(at[o]) = t,
         \A a \in Int : IsBlock(a) => IsBlock(a)' /\ TypeOf(a)' = TypeOf(a)
  PROVE  /\ BlocksAreRight' /\ Live' = Live \ {o}
         /\ \A u \in Types : Cardinality(LiveOf(u)') =
              IF u = t THEN Cardinality(LiveOf(u)) - 1 ELSE Cardinality(LiveOf(u))
  <1>1. at'[o] = Null /\ \A q \in Objects \ {o} : at'[q] = at[q]
    BY DEF PoolTypeOK, Live
  <1>2. Live' = Live \ {o}
    BY <1>1 DEF Live
  <1>3. ASSUME NEW q \in Live'
        PROVE  IsBlock(at[q])' /\ TypeOf(at[q])' = TypeOf(at[q]) /\ at'[q] = at[q]
    <2>1. q \in Live /\ q # o
      BY <1>2
    <2>2. PICK a \in Pool : a = at[q]
      BY <2>1, LiveIs
    <2>3. IsBlock(a) /\ at'[q] = a /\ q \in Objects
      BY <2>1, <2>2, <1>1 DEF BlocksAreRight, Live
    <2>4. IsBlock(a)' /\ TypeOf(a)' = TypeOf(a)
      BY <2>3, PoolIs
    <2>5. QED BY <2>2, <2>3, <2>4, BlockAt
  <1>4. BlocksAreRight'
    <2>1. ASSUME NEW q \in Live'
          PROVE  /\ IsBlock(at[q])' /\ Size[q] <= BlkSize(TypeOf(at[q]))'
                 /\ \A p \in Live' \ {q} : at'[p] # at'[q]
      BY <1>2, <1>3 DEF BlocksAreRight, BlkSize
    <2>2. QED BY <2>1 DEF BlocksAreRight
  <1>5. ASSUME NEW u \in Types
        PROVE  Cardinality(LiveOf(u)') =
                 IF u = t THEN Cardinality(LiveOf(u)) - 1 ELSE Cardinality(LiveOf(u))
    <2>1. LiveOf(u)' = {q \in Live' : TypeOf(at[q])' = u}
      BY DEF LiveOf
    <2>2. LiveOf(u)' = LiveOf(u) \ {o}
      BY <2>1, <1>2, <1>3 DEF LiveOf
    <2>3. o \in LiveOf(u) <=> u = t
      BY DEF LiveOf
    <2>4. IsFiniteSet(LiveOf(u))
      BY LiveFinite
    <2>5. QED BY <2>2, <2>3, <2>4, FS_RemoveElement
  <1>6. QED BY <1>2, <1>4, <1>5

-----------------------------------------------------------------------------
(* The free list of a type in a state.                                     *)

(* What ListsAreRight says of the free list of a type, of a fixed n and c. *)
LEMMA ListIs ==
  ASSUME ListsAreRight, NEW t \in Types
  PROVE  \E n, c :
           /\ n \in Nat
           /\ n = blk_list[t].freelist_cnt
           /\ c = ChainFrom(blk_list[t].free_head, n, link)
           /\ IsChain(c, blk_list[t].free_head, n, link) /\ c[n + 1] = Null
           /\ \A k \in 1..n :
                /\ c[k] \in Pool /\ IsBlock(c[k]) /\ TypeOf(c[k]) = t
                /\ \A j \in 1..(k-1) : c[j] # c[k]
                /\ \A o \in Live : at[o] # c[k]
  <1>1. PICK n \in Nat : n = blk_list[t].freelist_cnt
    BY ListTypes DEF ListsAreRight
  <1>2. PICK c : c = ChainFrom(blk_list[t].free_head, n, link)
    OBVIOUS
  <1>3. link \in [Pool -> Pool \cup {Null}] /\ blk_list[t].free_head \in Pool \cup {Null}
    BY ListTypes DEF ListsAreRight, PoolTypeOK
  <1>4. IsChain(c, blk_list[t].free_head, n, link)
    <2>1. PICK head \in Pool \cup {Null} : head = blk_list[t].free_head
      BY <1>3
    <2>2. PICK next \in [Pool -> Pool \cup {Null}] : next = link
      BY <1>3
    <2>3. c = ChainFrom(head, n, next)
      BY <1>2, <2>1, <2>2
    <2>4. IsChain(c, head, n, next)
      BY <2>3, ChainIs
    <2>5. QED BY <2>1, <2>2, <2>4
  <1>5. c = Chain(t)
    BY <1>1, <1>2 DEF Chain
  <1>6. ChainIsRight(t)
    BY DEF ListsAreRight
  <1>7. c[n + 1] = Null
    BY <1>1, <1>5, <1>6 DEF ChainIsRight
  <1>8. ASSUME NEW k \in 1..n
        PROVE  /\ c[k] \in Pool /\ IsBlock(c[k]) /\ TypeOf(c[k]) = t
               /\ \A j \in 1..(k-1) : c[j] # c[k]
               /\ \A o \in Live : at[o] # c[k]
    <2>1. /\ Chain(t)[k] # Null /\ IsBlock(Chain(t)[k]) /\ TypeOf(Chain(t)[k]) = t
          /\ \A j \in 1..(k-1) : Chain(t)[j] # Chain(t)[k]
          /\ \A o \in Live : at[o] # Chain(t)[k]
      BY <1>1, <1>6 DEF ChainIsRight
    <2>2. c[k] \in Pool
      <3>1. c[k] \in Pool \cup {Null}
        BY <1>4 DEF IsChain
      <3>2. QED BY <2>1, <3>1, <1>5
    <2>3. QED BY <2>1, <2>2, <1>5
  <1>9. QED BY <1>1, <1>2, <1>4, <1>7, <1>8

(* A list c of free blocks that the links give makes the free list right.  *)
LEMMA BecomesChain ==
  ASSUME NEW t \in Types, NEW n \in Nat, NEW c, n = blk_list'[t].freelist_cnt,
         \A k \in 1..(n + 1) : ChainFrom(blk_list'[t].free_head, n, link')[k] = c[k],
         c[n + 1] = Null,
         \A k \in 1..n :
           /\ c[k] \in Pool /\ IsBlock(c[k])' /\ TypeOf(c[k])' = t
           /\ \A j \in 1..(k-1) : c[j] # c[k]
           /\ \A o \in Live' : at'[o] # c[k]
  PROVE  ChainIsRight(t)'
  <1>1. PICK d : d = ChainFrom(blk_list'[t].free_head, n, link')
    OBVIOUS
  <1>2. Chain(t)' = d
    BY <1>1 DEF Chain
  <1>3. d[n + 1] = Null
    BY <1>1
  <1>4. ASSUME NEW k \in 1..n
        PROVE  /\ d[k] # Null /\ IsBlock(Chain(t)[k])' /\ TypeOf(Chain(t)[k])' = t
               /\ \A j \in 1..(k-1) : d[j] # d[k]
               /\ \A o \in Live' : at'[o] # d[k]
    <2>1. k \in 1..(n + 1) /\ \A j \in 1..(k-1) : j \in 1..(n + 1)
      OBVIOUS
    <2>2. d[k] = c[k] /\ \A j \in 1..(k-1) : d[j] = c[j]
      BY <2>1, <1>1
    <2>3. PICK a : a = c[k]
      OBVIOUS
    <2>4. a \in Pool /\ IsBlock(a)' /\ TypeOf(a)' = t
      BY <2>3
    <2>5. Chain(t)'[k] = a
      BY <2>2, <2>3, <1>2
    <2>6. IsBlock(Chain(t)[k])' /\ TypeOf(Chain(t)[k])' = t
      BY <2>4, <2>5 DEF IsBlock, Cut, TypeOf
    <2>7. d[k] # Null
      BY <2>2, <2>3, <2>4, PoolIs
    <2>8. QED BY <2>2, <2>6, <2>7
  <1>5. QED BY <1>2, <1>3, <1>4 DEF ChainIsRight

(* A step that gives no slice and cuts no block.                           *)
LEMMA KeepSlices ==
  ASSUME PoolTypeOK, PoolTypeOK', SlicesAreRight,
         slice_cnt' = slice_cnt, slice_type' = slice_type,
         \A t \in Types : /\ blk_list'[t].slice_cnt = blk_list[t].slice_cnt
                          /\ blk_list'[t].slice_addr = blk_list[t].slice_addr
                          /\ blk_list'[t].slice_offset = blk_list[t].slice_offset
                          /\ blk_list[t].slice_addr = Null => blk_list'[t] = blk_list[t]
  PROVE  /\ SlicesAreRight'
         /\ \A a \in Int : IsBlock(a) => IsBlock(a)' /\ TypeOf(a)' = TypeOf(a)
  <1>1. SlicesAreRight'
    <2>1. ASSUME NEW t \in Types
          PROVE  LET l == blk_list'[t] IN
                 /\ l.slice_cnt <= slice_cnt'
                 /\ IF l.slice_addr = Null THEN l = EmptyList
                    ELSE /\ BlkSize(t) >= WordSize /\ l.slice_cnt > 0
                         /\ l.slice_offset > 0 /\ l.slice_offset % BlkSize(t) = 0
                         /\ \E s \in 0..(slice_cnt' - 1) :
                              slice_type'[s] = t /\ l.slice_addr = SliceAddr(s)
      <3>1. CASE blk_list[t].slice_addr = Null
        BY <3>1 DEF SlicesAreRight
      <3>2. CASE blk_list[t].slice_addr # Null
        BY <3>2 DEF SlicesAreRight
      <3>3. QED BY <3>1, <3>2
    <2>2. QED BY <2>1 DEF SlicesAreRight, BlkSize, EmptyList
  <1>2. ASSUME NEW s \in 0..(slice_cnt - 1)
        PROVE  slice_type'[s] = slice_type[s] /\ Cut(s) <= Cut(s)'
    <2>1. slice_type[s] \in Types /\ Cut(s) \in 0..SliceSize
      BY CutIs
    <2>2. Cut(s)' = Cut(s)
      BY <2>1 DEF Cut
    <2>3. QED BY <2>1, <2>2, Sizes
  <1>3. slice_cnt <= slice_cnt'
    BY XMallocAssumption DEF PoolTypeOK
  <1>4. QED BY <1>1, <1>2, <1>3, KeepBlocks

(* A list whose blocks and links a step leaves alone stays right.          *)
LEMMA SameList ==
  ASSUME ListsAreRight, NEW t \in Types,
         \A a \in Int : IsBlock(a) => IsBlock(a)' /\ TypeOf(a)' = TypeOf(a),
         blk_list'[t].free_head = blk_list[t].free_head,
         blk_list'[t].freelist_cnt = blk_list[t].freelist_cnt, link' = link,
         \A a \in Pool : IsBlock(a) /\ TypeOf(a) = t /\ (\A o \in Live : at[o] # a)
                           => \A o \in Live' : at'[o] # a
  PROVE  ChainIsRight(t)'
  <1>1. PICK n, c :
           /\ n \in Nat
           /\ n = blk_list[t].freelist_cnt
           /\ c = ChainFrom(blk_list[t].free_head, n, link)
           /\ IsChain(c, blk_list[t].free_head, n, link) /\ c[n + 1] = Null
           /\ \A k \in 1..n :
                /\ c[k] \in Pool /\ IsBlock(c[k]) /\ TypeOf(c[k]) = t
                /\ \A j \in 1..(k-1) : c[j] # c[k]
                /\ \A o \in Live : at[o] # c[k]
    BY ListIs
  <1>2. n = blk_list'[t].freelist_cnt
    BY <1>1
  <1>3. \A k \in 1..(n + 1) : ChainFrom(blk_list'[t].free_head, n, link')[k] = c[k]
    BY <1>1
  <1>4. ASSUME NEW k \in 1..n
        PROVE  /\ c[k] \in Pool /\ IsBlock(c[k])' /\ TypeOf(c[k])' = t
               /\ \A j \in 1..(k-1) : c[j] # c[k]
               /\ \A o \in Live' : at'[o] # c[k]
    <2>1. PICK a \in Pool : a = c[k]
      BY <1>1
    <2>2. a \in Int /\ IsBlock(a) /\ TypeOf(a) = t /\ \A o \in Live : at[o] # a
      BY <2>1, <1>1, PoolIs
    <2>3. IsBlock(a)' /\ TypeOf(a)' = TypeOf(a)
      BY <2>2, Zenon
    <2>4. \A o \in Live' : at'[o] # a
      BY <2>2
    <2>5. QED BY <1>1, <2>1, <2>2, <2>3, <2>4
  <1>5. QED BY <1>1, <1>2, <1>3, <1>4, BecomesChain

(* A chosen type serves, and its blocks hold the object and a link.        *)
LEMMA ChosenFits ==
  ASSUME NEW o \in Objects, NEW t, Chosen(t, Size[o])
  PROVE  /\ t \in Types /\ Serves(t)
         /\ BlkSize(t) >= WordSize /\ BlkSize(t) >= Size[o]
  <1>1. PICK r \in Nat : r = Request(Size[o])
    BY XMallocAssumption DEF Request
  <1>2. r >= WordSize /\ r >= Size[o] /\ WordSize \in Nat /\ Size[o] \in Nat
    BY <1>1, XMallocAssumption DEF Request
  <1>3. t \in Types /\ t >= Size2Type(r) /\ Serves(t)
    BY <1>1 DEF Chosen
  <1>4. PICK m \in Nat : m = Size2Type(r) /\ r <= BlkSize(m)
    BY LeastType
  <1>5. t \in Nat /\ BlkSize(t) \in Nat /\ BlkSize(m) \in Nat
    BY <1>3, Sizes, PowerGrows DEF BlkSize
  <1>6. BlkSize(m) <= BlkSize(t)
    BY <1>3, <1>4, <1>5, PowerMonotone DEF BlkSize
  <1>7. QED BY <1>2, <1>3, <1>4, <1>5, <1>6

-----------------------------------------------------------------------------
(* The steps.                                                              *)

(* blk_alloc takes the first block of the free list.                       *)
LEMMA TakeFreeStep ==
  ASSUME ListsAreRight, NEW o \in Objects, at[o] = Null, NEW t,
         Chosen(t, Size[o]), TakeFree(o, t)
  PROVE  ListsAreRight'
  <1>1. t \in Types /\ BlkSize(t) >= Size[o]
    BY ChosenFits
  <1>2. PoolTypeOK /\ SlicesAreRight /\ BlocksAreRight
    BY DEF ListsAreRight
  <1>3. PICK n, c :
           /\ n \in Nat
           /\ n = blk_list[t].freelist_cnt
           /\ c = ChainFrom(blk_list[t].free_head, n, link)
           /\ IsChain(c, blk_list[t].free_head, n, link) /\ c[n + 1] = Null
           /\ \A k \in 1..n :
                /\ c[k] \in Pool /\ IsBlock(c[k]) /\ TypeOf(c[k]) = t
                /\ \A j \in 1..(k-1) : c[j] # c[k]
                /\ \A q \in Live : at[q] # c[k]
    BY <1>1, ListIs
  <1>4. PICK b \in Pool : b = blk_list[t].free_head
    BY <1>1, <1>2, ListTypes DEF TakeFree
  <1>5. n \in Nat \ {0} /\ c[1] = b /\ IsBlock(b) /\ TypeOf(b) = t /\ b \in Int
    <2>1. c[1] = b
      BY <1>3, <1>4 DEF IsChain
    <2>2. n # 0
      BY <1>3, <2>1, PoolIs
    <2>3. QED BY <1>3, <2>1, <2>2, PoolIs
  <1>6. /\ at' = [at EXCEPT ![o] = b] /\ link' = link /\ slice_cnt' = slice_cnt
        /\ slice_type' = slice_type /\ aborted' = aborted
        /\ blk_list' = [blk_list EXCEPT ![t].free_head = link[b],
                                  ![t].freelist_cnt = @ - 1,
                                  ![t].nofree_cnt = @ + 1]
    BY <1>4 DEF TakeFree
  <1>7. link[b] \in Pool \cup {Null}
    BY <1>2 DEF PoolTypeOK
  <1>8. /\ blk_list'[t].free_head = link[b]
        /\ blk_list'[t].freelist_cnt = n - 1
        /\ blk_list'[t].nofree_cnt = blk_list[t].nofree_cnt + 1
        /\ blk_list'[t].slice_cnt = blk_list[t].slice_cnt
        /\ blk_list'[t].slice_addr = blk_list[t].slice_addr
        /\ blk_list'[t].slice_offset = blk_list[t].slice_offset
        /\ blk_list'[t] \in Lists
        /\ \A u \in Types \ {t} : blk_list'[u] = blk_list[u]
    BY <1>1, <1>2, <1>3, <1>5, <1>6, <1>7 DEF PoolTypeOK, Lists
  <1>9. PoolTypeOK'
    <2>1. blk_list' \in [Types -> Lists]
      BY <1>1, <1>2, <1>6, <1>8 DEF PoolTypeOK
    <2>2. QED BY <1>2, <1>6, <2>1 DEF PoolTypeOK
  <1>10. blk_list[t].slice_addr # Null
    BY <1>1, <1>2, <1>3, <1>5 DEF SlicesAreRight, EmptyList
  <1>11. SlicesAreRight' /\ \A a \in Int : IsBlock(a) => IsBlock(a)' /\ TypeOf(a)' = TypeOf(a)
    BY <1>2, <1>6, <1>8, <1>9, <1>10, KeepSlices
  <1>12. \A q \in Live : at[q] # b
    BY <1>3, <1>5
  <1>13. /\ BlocksAreRight' /\ Live' = Live \cup {o}
         /\ \A u \in Types : Cardinality(LiveOf(u)') =
              IF u = t THEN Cardinality(LiveOf(u)) + 1 ELSE Cardinality(LiveOf(u))
    <2>1. IsBlock(b)' /\ TypeOf(b)' = t
      BY <1>5, <1>11
    <2>2. QED BY <1>1, <1>2, <1>6, <1>11, <1>12, <2>1, Gain
  <1>14. at'[o] = b /\ \A q \in Live : at'[q] = at[q]
    BY <1>2, <1>6 DEF PoolTypeOK, Live
  <1>15. ASSUME NEW u \in Types PROVE ChainIsRight(u)'
    <2>1. CASE u = t
      <3>1. PICK m \in Nat : m = n - 1 /\ n = m + 1
        <4>1. n - 1 \in Nat /\ n = (n - 1) + 1
          BY <1>5
        <4>2. QED BY <4>1
      <3>2. PICK d : d = [k \in 1..n |-> c[k + 1]]
        OBVIOUS
      <3>3. \A k \in 1..(m + 1) : ChainFrom(blk_list'[t].free_head, m, link')[k] = d[k]
        <4>1. PICK next \in [Pool -> Pool \cup {Null}] : next = link
          BY <1>2 DEF PoolTypeOK
        <4>2. PICK second \in Pool \cup {Null} : second = next[b]
          OBVIOUS
        <4>3. PICK f : f = ChainFrom(second, m, next)
          OBVIOUS
        <4>4. IsChain(f, next[b], m, next)
          BY <4>2, <4>3, <3>1, <1>5, ChainIs
        <4>5. IsChain(c, b, m + 1, next)
          BY <1>3, <1>4, <3>1, <4>1
        <4>6. \A k \in 1..(m + 1) : f[k] = c[k + 1]
          BY <4>4, <4>5, <3>1, <1>5, PopChain
        <4>7. ChainFrom(blk_list'[t].free_head, m, link') = f
          BY <1>6, <1>8, <4>1, <4>2, <4>3
        <4>8. QED BY <3>1, <3>2, <4>6, <4>7
      <3>4. d[m + 1] = Null
        <4>1. m + 1 = n /\ n \in 1..n
          BY <1>5, <3>1
        <4>2. QED BY <1>3, <3>2, <4>1
      <3>5. ASSUME NEW k \in 1..m
            PROVE  /\ d[k] \in Pool /\ IsBlock(d[k])' /\ TypeOf(d[k])' = t
                   /\ \A j \in 1..(k-1) : d[j] # d[k]
                   /\ \A q \in Live' : at'[q] # d[k]
        <4>1. k + 1 \in 1..n /\ k \in 1..n /\ 1 \in 1..((k + 1) - 1)
          BY <3>1
        <4>2. PICK a \in Pool : a = c[k + 1] /\ a = d[k]
          BY <1>3, <3>2, <4>1
        <4>3. IsBlock(a) /\ TypeOf(a) = t
          BY <1>3, <4>1, <4>2
        <4>4. IsBlock(a)' /\ TypeOf(a)' = t
          <5>1. a \in Int
            BY PoolIs
          <5>2. QED BY <5>1, <4>3, <1>11
        <4>5. a # b /\ \A q \in Live : at[q] # a
          BY <1>3, <1>5, <4>1, <4>2
        <4>6. \A q \in Live' : at'[q] # a
          BY <4>5, <1>13, <1>14
        <4>7. ASSUME NEW j \in 1..(k-1) PROVE d[j] # d[k]
          <5>1. j + 1 \in 1..((k + 1) - 1) /\ j \in 1..n /\ d[j] = c[j + 1]
            BY <3>1, <3>2
          <5>2. QED BY <5>1, <4>1, <4>2, <1>3
        <4>8. QED BY <4>2, <4>4, <4>6, <4>7
      <3>6. m = blk_list'[t].freelist_cnt
        BY <1>8, <3>1
      <3>7. QED BY <2>1, <3>3, <3>4, <3>5, <3>6, BecomesChain
    <2>2. CASE u # t
      <3>1. \A a \in Pool : IsBlock(a) /\ TypeOf(a) = u /\ (\A q \in Live : at[q] # a)
                              => \A q \in Live' : at'[q] # a
        BY <2>2, <1>5, <1>13, <1>14
      <3>2. QED BY <2>2, <3>1, <1>6, <1>8, <1>11, SameList
    <2>3. QED BY <2>1, <2>2
  <1>16. ASSUME NEW u \in Types PROVE CountIsRight(u)'
    <2>1. CountIsRight(u)
      BY DEF ListsAreRight
    <2>2. CASE u = t
      <3>1. blk_list'[t].nofree_cnt = Cardinality(LiveOf(t)')
        BY <1>8, <1>13, <2>1, <2>2 DEF CountIsRight
      <3>2. blk_list'[t].nofree_cnt + blk_list'[t].freelist_cnt
              = blk_list[t].nofree_cnt + blk_list[t].freelist_cnt
        BY <1>1, <1>2, <1>3, <1>5, <1>8, ListTypes
      <3>3. QED BY <2>1, <2>2, <3>1, <3>2, <1>8 DEF CountIsRight, BlkSize
    <2>3. CASE u # t
      BY <2>1, <2>3, <1>8, <1>13 DEF CountIsRight, BlkSize
    <2>4. QED BY <2>2, <2>3
  <1>17. QED
    BY <1>9, <1>11, <1>13, <1>15, <1>16 DEF ListsAreRight

(* An object gets a block that is cut for it.                              *)
LEMMA NewBlock ==
  ASSUME ListsAreRight, NEW o \in Objects, at[o] = Null, NEW t \in Types,
         NEW b \in Pool, ~IsBlock(b), IsBlock(b)', TypeOf(b)' = t, Size[o] <= BlkSize(t),
         at' = [at EXCEPT ![o] = b], link' = link,
         \A a \in Int : IsBlock(a) => IsBlock(a)' /\ TypeOf(a)' = TypeOf(a),
         \A u \in Types : /\ blk_list'[u].free_head = blk_list[u].free_head
                          /\ blk_list'[u].freelist_cnt = blk_list[u].freelist_cnt
                          /\ blk_list'[u].nofree_cnt = blk_list[u].nofree_cnt
                                                         + (IF u = t THEN 1 ELSE 0)
  PROVE  /\ BlocksAreRight'
         /\ \A u \in Types : /\ ChainIsRight(u)'
                             /\ blk_list'[u].nofree_cnt = Cardinality(LiveOf(u)')
  <1>1. PoolTypeOK /\ BlocksAreRight
    BY DEF ListsAreRight
  <1>2. \A q \in Live : at[q] # b
    <2>1. ASSUME NEW q \in Live PROVE at[q] # b
      <3>1. IsBlock(at[q])
        BY <1>1 DEF BlocksAreRight
      <3>2. PICK a : a = at[q]
        OBVIOUS
      <3>3. IsBlock(a)
        BY <3>1, <3>2
      <3>4. a # b
        BY <3>3
      <3>5. QED BY <3>2, <3>4
    <2>2. QED BY <2>1
  <1>3. /\ BlocksAreRight' /\ Live' = Live \cup {o}
        /\ \A u \in Types : Cardinality(LiveOf(u)') =
             IF u = t THEN Cardinality(LiveOf(u)) + 1 ELSE Cardinality(LiveOf(u))
    BY <1>1, <1>2, Gain
  <1>4. at'[o] = b /\ \A q \in Live : at'[q] = at[q]
    BY <1>1 DEF PoolTypeOK, Live
  <1>5. ASSUME NEW u \in Types PROVE ChainIsRight(u)'
    <2>1. ASSUME NEW a \in Pool, IsBlock(a), \A q \in Live : at[q] # a
          PROVE  \A q \in Live' : at'[q] # a
      <3>1. a # b
        BY <2>1
      <3>2. QED BY <2>1, <3>1, <1>3, <1>4
    <2>2. /\ blk_list'[u].free_head = blk_list[u].free_head
          /\ blk_list'[u].freelist_cnt = blk_list[u].freelist_cnt
      OBVIOUS
    <2>3. QED BY <2>1, <2>2, SameList
  <1>6. ASSUME NEW u \in Types
        PROVE  blk_list'[u].nofree_cnt = Cardinality(LiveOf(u)')
    <2>1. blk_list[u].nofree_cnt = Cardinality(LiveOf(u)) /\ blk_list[u].nofree_cnt \in Nat
      BY <1>1, ListTypes DEF ListsAreRight, CountIsRight
    <2>2. blk_list'[u].nofree_cnt = blk_list[u].nofree_cnt + (IF u = t THEN 1 ELSE 0)
      OBVIOUS
    <2>3. CASE u = t
      BY <1>3, <2>1, <2>2, <2>3
    <2>4. CASE u # t
      BY <1>3, <2>1, <2>2, <2>4
    <2>5. QED BY <2>3, <2>4
  <1>7. QED BY <1>3, <1>5, <1>6

(* blk_alloc cuts the next block of the type's slice.                      *)
LEMMA TakeNextStep ==
  ASSUME ListsAreRight, NEW o \in Objects, at[o] = Null, NEW t,
         Chosen(t, Size[o]), TakeNext(o, t)
  PROVE  ListsAreRight'
  <1>1. t \in Types /\ BlkSize(t) >= Size[o]
    BY ChosenFits
  <1>2. PoolTypeOK /\ SlicesAreRight /\ BlocksAreRight
    BY DEF ListsAreRight
  <1>3. PICK d \in Nat \ {0} : /\ d = BlkSize(t) /\ d <= SliceSize /\ SliceSize % d = 0
    BY <1>1, Sizes
  <1>4. blk_list[t].slice_addr # Null /\ blk_list[t].slice_offset # SliceSize
    BY DEF TakeNext, NeedsSlice, SliceFull
  <1>5. PICK off \in 0..SliceSize : off = blk_list[t].slice_offset
    BY <1>1, <1>2, ListTypes
  <1>6. off > 0 /\ off % d = 0 /\ BlkSize(t) >= WordSize /\ blk_list[t].slice_cnt > 0
    BY <1>1, <1>2, <1>3, <1>4, <1>5 DEF SlicesAreRight
  <1>7. PICK s \in 0..(slice_cnt - 1) :
          slice_type[s] = t /\ blk_list[t].slice_addr = SliceAddr(s)
    BY <1>1, <1>2, <1>4 DEF SlicesAreRight
  <1>8. s \in Slices /\ s \in Nat /\ SliceAddr(s) \in Int /\ SliceSize \in Nat
    BY <1>2, <1>7, CutIs, SliceAddrs, Sizes
  <1>9. off \in Nat /\ off + d <= SliceSize /\ (off + d) % d = 0
    <2>1. off \in Nat /\ off < SliceSize
      BY <1>4, <1>5, <1>8
    <2>2. off + d <= SliceSize
      BY <1>3, <1>6, <1>8, <2>1, MultipleGap
    <2>3. (off + d) % d = 0
      BY <1>3, <1>6, <2>1, MultipleSum, SelfMultiple
    <2>4. QED BY <2>1, <2>2, <2>3
  <1>10. PICK b \in Pool : b = SliceAddr(s) + off /\ b \in Int /\ SliceOf(b) = s
    <2>1. SliceAddr(s) + off \in Int /\ SliceAddr(s) <= SliceAddr(s) + off
          /\ SliceAddr(s) + off < SliceAddr(s) + SliceSize
      BY <1>3, <1>8, <1>9
    <2>2. SliceOf(SliceAddr(s) + off) = s
      BY <1>8, <2>1, SliceOfIs
    <2>3. SliceAddr(s) + off \in Pool
      BY <1>8, <2>1, SliceInPool, PoolIs, Sizes DEF Pool
    <2>4. QED BY <2>1, <2>2, <2>3
  <1>11. /\ at' = [at EXCEPT ![o] = b] /\ link' = link /\ slice_cnt' = slice_cnt
         /\ slice_type' = slice_type /\ aborted' = aborted
         /\ blk_list' = [blk_list EXCEPT ![t].slice_offset = @ + d,
                                         ![t].nofree_cnt = @ + 1]
    BY <1>3, <1>5, <1>7, <1>10 DEF TakeNext
  <1>12. /\ blk_list'[t].free_head = blk_list[t].free_head
         /\ blk_list'[t].freelist_cnt = blk_list[t].freelist_cnt
         /\ blk_list'[t].nofree_cnt = blk_list[t].nofree_cnt + 1
         /\ blk_list'[t].slice_cnt = blk_list[t].slice_cnt
         /\ blk_list'[t].slice_addr = blk_list[t].slice_addr
         /\ blk_list'[t].slice_offset = off + d
         /\ \A u \in Types \ {t} : blk_list'[u] = blk_list[u]
    BY <1>1, <1>2, <1>5, <1>11 DEF PoolTypeOK, Lists
  <1>13. PoolTypeOK'
    <2>1. off + d \in 0..SliceSize
      BY <1>3, <1>8, <1>9
    <2>2. blk_list'[t] \in Lists
      BY <1>1, <1>2, <1>5, <1>11, <2>1 DEF PoolTypeOK, Lists
    <2>3. blk_list' \in [Types -> Lists]
      BY <1>1, <1>2, <1>11, <1>12, <2>2 DEF PoolTypeOK
    <2>4. QED BY <1>2, <1>11, <2>3 DEF PoolTypeOK
  <1>14. Cut(s) = off /\ Cut(s)' = off + d
    BY <1>5, <1>7, <1>11, <1>12 DEF Cut
  <1>15. \A a \in Int : IsBlock(a) => IsBlock(a)' /\ TypeOf(a)' = TypeOf(a)
    <2>1. ASSUME NEW r \in 0..(slice_cnt - 1)
          PROVE  slice_type'[r] = slice_type[r] /\ Cut(r) <= Cut(r)'
      <3>1. slice_type[r] \in Types /\ Cut(r) \in 0..SliceSize /\ r \in Nat
        BY <1>2, <2>1, CutIs
      <3>2. CASE r = s
        BY <3>2, <1>3, <1>9, <1>11, <1>14
      <3>3. CASE r # s
        <4>1. SliceAddr(r) # SliceAddr(s)
          BY <3>1, <3>3, <1>8, SliceAddrs
        <4>2. Cut(r)' = Cut(r)
          <5>1. CASE slice_type[r] = t
            BY <4>1, <5>1, <1>7, <1>11, <1>12 DEF Cut
          <5>2. CASE slice_type[r] # t
            <6>1. blk_list'[slice_type[r]] = blk_list[slice_type[r]]
              BY <3>1, <5>2, <1>12
            <6>2. slice_type'[r] = slice_type[r]
              BY <1>11
            <6>3. QED BY <6>1, <6>2 DEF Cut
          <5>3. QED BY <5>1, <5>2
        <4>3. QED BY <3>1, <4>2, <1>8, <1>11
      <3>4. QED BY <3>2, <3>3
    <2>2. slice_cnt <= slice_cnt'
      BY <1>2, <1>11, XMallocAssumption DEF PoolTypeOK
    <2>3. QED BY <1>2, <1>13, <2>1, <2>2, KeepBlocks
  <1>16. SlicesAreRight'
    <2>1. ASSUME NEW u \in Types
          PROVE  LET l == blk_list'[u] IN
                 /\ l.slice_cnt <= slice_cnt
                 /\ IF l.slice_addr = Null THEN l = EmptyList
                    ELSE /\ BlkSize(u) >= WordSize /\ l.slice_cnt > 0
                         /\ l.slice_offset > 0 /\ l.slice_offset % BlkSize(u) = 0
                         /\ \E r \in 0..(slice_cnt - 1) :
                              slice_type[r] = u /\ l.slice_addr = SliceAddr(r)
      <3>1. CASE u = t
        BY <3>1, <1>2, <1>3, <1>4, <1>6, <1>7, <1>9, <1>12 DEF SlicesAreRight
      <3>2. CASE u # t
        BY <3>2, <1>2, <1>12 DEF SlicesAreRight
      <3>3. QED BY <3>1, <3>2
    <2>2. QED BY <2>1, <1>11 DEF SlicesAreRight, BlkSize, EmptyList
  <1>17. ~IsBlock(b) /\ IsBlock(b)' /\ TypeOf(b)' = t
    <2>1. ~IsBlock(b)
      BY <1>3, <1>7, <1>8, <1>9, <1>10, <1>14 DEF IsBlock
    <2>2. IsBlock(b)'
      <3>1. b - SliceAddr(s) = off /\ b + d <= SliceAddr(s) + (off + d)
        BY <1>8, <1>9, <1>10, <1>3
      <3>2. QED BY <3>1, <1>3, <1>6, <1>7, <1>10, <1>11, <1>14 DEF IsBlock
    <2>3. QED BY <2>1, <2>2, <1>7, <1>10, <1>11 DEF TypeOf
  <1>18. /\ BlocksAreRight'
         /\ \A u \in Types : /\ ChainIsRight(u)'
                             /\ blk_list'[u].nofree_cnt = Cardinality(LiveOf(u)')
    <2>1. \A u \in Types : /\ blk_list'[u].free_head = blk_list[u].free_head
                           /\ blk_list'[u].freelist_cnt = blk_list[u].freelist_cnt
                           /\ blk_list'[u].nofree_cnt = blk_list[u].nofree_cnt
                                                         + (IF u = t THEN 1 ELSE 0)
      BY <1>2, <1>12, ListTypes
    <2>2. QED BY <1>1, <1>11, <1>15, <1>17, <2>1, NewBlock
  <1>19. ASSUME NEW u \in Types PROVE CountIsRight(u)'
    <2>1. CountIsRight(u)
      BY DEF ListsAreRight
    <2>2. CASE u = t
      <3>1. PICK m \in Nat : m = blk_list[t].nofree_cnt + blk_list[t].freelist_cnt
        BY <1>1, <1>2, ListTypes
      <3>2. PICK k \in Int : k = (blk_list[t].slice_cnt - 1) * SliceSize
        BY <1>1, <1>2, <1>8, ListTypes, XMallocAssumption
      <3>3. m * d = k + off
        BY <2>1, <2>2, <3>1, <3>2, <1>3, <1>4, <1>5 DEF CountIsRight
      <3>4. (m + 1) * d = k + (off + d)
        <4>1. (m + 1) * d = m * d + d /\ m * d \in Int
          OBVIOUS
        <4>2. QED BY <4>1, <3>3, <1>9
      <3>5. blk_list'[t].nofree_cnt + blk_list'[t].freelist_cnt = m + 1
        BY <1>1, <1>2, <1>12, <3>1, ListTypes
      <3>6. QED BY <2>2, <3>2, <3>4, <3>5, <1>3, <1>12, <1>18 DEF CountIsRight, BlkSize
    <2>3. CASE u # t
      BY <2>1, <2>3, <1>12, <1>18 DEF CountIsRight, BlkSize
    <2>4. QED BY <2>2, <2>3
  <1>20. QED
    BY <1>13, <1>16, <1>18, <1>19 DEF ListsAreRight

(* blk_alloc gives the type a new slice and cuts its first block.          *)
LEMMA TakeSliceStep ==
  ASSUME ListsAreRight, NEW o \in Objects, at[o] = Null, NEW t,
         Chosen(t, Size[o]), TakeSlice(o, t)
  PROVE  ListsAreRight'
  <1>1. t \in Types /\ BlkSize(t) >= Size[o] /\ BlkSize(t) >= WordSize /\ Serves(t)
    BY ChosenFits
  <1>2. PoolTypeOK /\ SlicesAreRight /\ BlocksAreRight
    BY DEF ListsAreRight
  <1>3. PICK d \in Nat \ {0} : d = BlkSize(t) /\ d <= SliceSize
    BY <1>1, Sizes
  <1>4. PICK s \in Nat : s = slice_cnt /\ s < SliceNum /\ s \in Slices /\ SliceNum \in Nat
    <2>1. slice_cnt # SliceNum
      BY <1>1 DEF TakeSlice, Serves
    <2>2. SliceNum \in Nat /\ slice_cnt \in 0..SliceNum
      BY <1>2, XMallocAssumption DEF PoolTypeOK
    <2>3. QED BY <2>1, <2>2 DEF Slices
  <1>5. PICK b \in Pool : b = SliceAddr(s) /\ b \in Int /\ SliceOf(b) = s /\ b # Null
    <2>1. SliceAddr(s) \in Int /\ SliceAddr(s) \in Pool
      BY <1>4, SliceAddrs, SliceInPool
    <2>2. SliceOf(SliceAddr(s)) = s
      BY <2>1, SliceOfIs, Sizes
    <2>3. QED BY <2>1, <2>2, PoolIs
  <1>6. /\ at' = [at EXCEPT ![o] = b] /\ link' = link /\ slice_cnt' = s + 1
        /\ slice_type' = [slice_type EXCEPT ![s] = t] /\ aborted' = aborted
        /\ blk_list' = [blk_list EXCEPT ![t].slice_addr = b,
                                        ![t].slice_offset = d,
                                        ![t].slice_cnt = @ + 1,
                                        ![t].nofree_cnt = @ + 1]
    BY <1>3, <1>4, <1>5 DEF TakeSlice, RecordType
  <1>7. slice_type'[s] = t /\ \A r \in Slices \ {s} : slice_type'[r] = slice_type[r]
    BY <1>2, <1>4, <1>6 DEF PoolTypeOK
  <1>8. blk_list[t].slice_cnt \in Nat /\ blk_list[t].slice_cnt <= s
    BY <1>1, <1>2, <1>4, ListTypes DEF SlicesAreRight
  <1>9. /\ blk_list'[t].free_head = blk_list[t].free_head
        /\ blk_list'[t].freelist_cnt = blk_list[t].freelist_cnt
        /\ blk_list'[t].nofree_cnt = blk_list[t].nofree_cnt + 1
        /\ blk_list'[t].slice_cnt = blk_list[t].slice_cnt + 1
        /\ blk_list'[t].slice_addr = b
        /\ blk_list'[t].slice_offset = d
        /\ \A u \in Types \ {t} : blk_list'[u] = blk_list[u]
    BY <1>1, <1>2, <1>6 DEF PoolTypeOK, Lists
  <1>10. PoolTypeOK'
    <2>1. d \in 0..SliceSize /\ blk_list[t].slice_cnt + 1 \in 0..SliceNum
      BY <1>3, <1>4, <1>8, Sizes
    <2>2. blk_list'[t] \in Lists
      BY <1>1, <1>2, <1>5, <1>6, <2>1 DEF PoolTypeOK, Lists
    <2>3. blk_list' \in [Types -> Lists]
      BY <1>1, <1>2, <1>6, <1>9, <2>2 DEF PoolTypeOK
    <2>4. slice_type' \in [Slices -> Types] /\ slice_cnt' \in 0..SliceNum
      BY <1>1, <1>2, <1>4, <1>6 DEF PoolTypeOK
    <2>5. QED BY <1>2, <1>6, <2>3, <2>4 DEF PoolTypeOK
  <1>11. ASSUME NEW r \in 0..(s - 1)
         PROVE  r \in Slices /\ r # s /\ SliceAddr(r) # b /\ slice_type'[r] = slice_type[r]
    <2>1. r \in Slices /\ r \in Int /\ r # s
      BY <1>4 DEF Slices
    <2>2. QED BY <2>1, <1>5, <1>7, SliceAddrs
  <1>12. \A a \in Int : IsBlock(a) => IsBlock(a)' /\ TypeOf(a)' = TypeOf(a)
    <2>1. ASSUME NEW r \in 0..(slice_cnt - 1)
          PROVE  slice_type'[r] = slice_type[r] /\ Cut(r) <= Cut(r)'
      <3>1. slice_type[r] \in Types /\ Cut(r) \in 0..SliceSize /\ SliceSize \in Nat
        BY <1>2, <2>1, CutIs, Sizes
      <3>2. slice_type'[r] = slice_type[r] /\ SliceAddr(r) # b
        BY <2>1, <1>4, <1>11
      <3>3. CASE slice_type[r] = t
        <4>1. Cut(r)' = SliceSize
          BY <3>2, <3>3, <1>9 DEF Cut
        <4>2. QED BY <3>1, <3>2, <4>1
      <3>4. CASE slice_type[r] # t
        <4>1. blk_list'[slice_type[r]] = blk_list[slice_type[r]]
          BY <3>1, <3>4, <1>9
        <4>2. Cut(r)' = Cut(r)
          BY <3>2, <4>1 DEF Cut
        <4>3. QED BY <3>1, <3>2, <4>2
      <3>5. QED BY <3>3, <3>4
    <2>2. slice_cnt <= slice_cnt'
      BY <1>4, <1>6
    <2>3. QED BY <1>2, <1>10, <2>1, <2>2, KeepBlocks
  <1>13. SlicesAreRight'
    <2>1. ASSUME NEW u \in Types
          PROVE  LET l == blk_list'[u] IN
                 /\ l.slice_cnt <= slice_cnt'
                 /\ IF l.slice_addr = Null THEN l = EmptyList
                    ELSE /\ BlkSize(u) >= WordSize /\ l.slice_cnt > 0
                         /\ l.slice_offset > 0 /\ l.slice_offset % BlkSize(u) = 0
                         /\ \E r \in 0..(slice_cnt' - 1) :
                              slice_type'[r] = u /\ l.slice_addr = SliceAddr(r)
      <3>1. CASE u = t
        <4>1. d % d = 0 /\ s \in 0..(slice_cnt' - 1)
          BY <1>4, <1>6, SelfMultiple
        <4>2. blk_list'[t].slice_cnt <= slice_cnt' /\ blk_list'[t].slice_cnt > 0
          BY <1>6, <1>8, <1>9
        <4>3. QED BY <3>1, <4>1, <4>2, <1>1, <1>3, <1>5, <1>7, <1>9
      <3>2. CASE u # t
        <4>1. blk_list'[u] = blk_list[u] /\ blk_list[u].slice_cnt <= slice_cnt'
          <5>1. blk_list'[u] = blk_list[u]
            BY <3>2, <1>9
          <5>2. blk_list[u].slice_cnt \in Int /\ blk_list[u].slice_cnt <= s
            BY <1>2, <1>4, ListTypes DEF SlicesAreRight
          <5>3. QED BY <5>1, <5>2, <1>6
        <4>2. CASE blk_list[u].slice_addr = Null
          BY <4>1, <4>2, <1>2 DEF SlicesAreRight
        <4>3. CASE blk_list[u].slice_addr # Null
          <5>1. PICK r \in 0..(s - 1) :
                  slice_type[r] = u /\ blk_list[u].slice_addr = SliceAddr(r)
            BY <4>3, <1>2, <1>4 DEF SlicesAreRight
          <5>2. r \in 0..(slice_cnt' - 1) /\ slice_type'[r] = u
            BY <5>1, <1>6, <1>11
          <5>3. QED BY <4>1, <4>3, <5>1, <5>2, <1>2 DEF SlicesAreRight
        <4>4. QED BY <4>2, <4>3
      <3>3. QED BY <3>1, <3>2
    <2>2. QED BY <2>1 DEF SlicesAreRight, BlkSize, EmptyList
  <1>14. ~IsBlock(b) /\ IsBlock(b)' /\ TypeOf(b)' = t
    <2>1. ~IsBlock(b)
      BY <1>4, <1>5 DEF IsBlock
    <2>2. Cut(s)' = d
      BY <1>5, <1>7, <1>9 DEF Cut
    <2>3. b - SliceAddr(s) = 0 /\ 0 % d = 0 /\ s \in 0..(slice_cnt' - 1)
      BY <1>4, <1>5, <1>6, SelfMultiple
    <2>4. IsBlock(b)'
      BY <2>2, <2>3, <1>3, <1>5, <1>7 DEF IsBlock
    <2>5. QED BY <2>1, <2>4, <1>5, <1>7 DEF TypeOf
  <1>15. /\ BlocksAreRight'
         /\ \A u \in Types : /\ ChainIsRight(u)'
                             /\ blk_list'[u].nofree_cnt = Cardinality(LiveOf(u)')
    <2>1. \A u \in Types : /\ blk_list'[u].free_head = blk_list[u].free_head
                           /\ blk_list'[u].freelist_cnt = blk_list[u].freelist_cnt
                           /\ blk_list'[u].nofree_cnt = blk_list[u].nofree_cnt
                                                         + (IF u = t THEN 1 ELSE 0)
      BY <1>2, <1>9, ListTypes
    <2>2. QED BY <1>1, <1>6, <1>12, <1>14, <2>1, NewBlock
  <1>16. ASSUME NEW u \in Types PROVE CountIsRight(u)'
    <2>1. CountIsRight(u)
      BY DEF ListsAreRight
    <2>2. CASE u = t
      <3>1. PICK m \in Nat : m = blk_list[t].nofree_cnt + blk_list[t].freelist_cnt
        BY <1>1, <1>2, ListTypes
      <3>2. PICK k \in Nat : k = blk_list[t].slice_cnt
        BY <1>8
      <3>3. PICK size \in Nat : size = SliceSize
        BY Sizes
      <3>4. m * d = k * size
        <4>1. CASE blk_list[t].slice_addr = Null
          <5>1. m = 0 /\ k = 0
            BY <4>1, <1>1, <1>2, <3>1, <3>2 DEF SlicesAreRight, EmptyList
          <5>2. QED BY <5>1, <3>3
        <4>2. CASE blk_list[t].slice_addr # Null
          <5>1. blk_list[t].slice_offset = size
            BY <4>2, <3>3 DEF TakeSlice, NeedsSlice, SliceFull
          <5>2. m * d = (k - 1) * size + size
            BY <2>1, <2>2, <4>2, <5>1, <3>1, <3>2, <3>3, <1>3 DEF CountIsRight
          <5>3. QED BY <5>2
        <4>3. QED BY <4>1, <4>2
      <3>5. (m + 1) * d = ((k + 1) - 1) * size + d
        <4>1. (m + 1) * d = m * d + d /\ (k + 1) - 1 = k
          OBVIOUS
        <4>2. QED BY <4>1, <3>4
      <3>6. blk_list'[t].nofree_cnt + blk_list'[t].freelist_cnt = m + 1
        BY <1>1, <1>2, <1>9, <3>1, ListTypes
      <3>7. QED BY <2>2, <3>2, <3>3, <3>5, <3>6, <1>3, <1>9, <1>15 DEF CountIsRight, BlkSize
    <2>3. CASE u # t
      BY <2>1, <2>3, <1>9, <1>15 DEF CountIsRight, BlkSize
    <2>4. QED BY <2>2, <2>3
  <1>17. QED
    BY <1>10, <1>13, <1>15, <1>16 DEF ListsAreRight

(* blk_free puts the block before the free list of its slice's type.       *)
LEMMA FreeStep ==
  ASSUME ListsAreRight, NEW o \in Objects, XFree(o)
  PROVE  ListsAreRight'
  <1>1. PoolTypeOK /\ SlicesAreRight /\ BlocksAreRight
    BY DEF ListsAreRight
  <1>2. o \in Live
    BY DEF XFree, Live
  <1>3. PICK b \in Pool : b = at[o] /\ b \in Int /\ IsBlock(b)
    <2>1. IsBlock(at[o])
      BY <1>1, <1>2 DEF BlocksAreRight
    <2>2. QED BY <1>1, <1>2, <2>1, LiveIs
  <1>4. PICK t \in Types : t = TypeOf(b) /\ t = TypeOf(at[o])
    BY <1>1, <1>3, BlockIs
  <1>5. PICK n, c :
           /\ n \in Nat
           /\ n = blk_list[t].freelist_cnt
           /\ c = ChainFrom(blk_list[t].free_head, n, link)
           /\ IsChain(c, blk_list[t].free_head, n, link) /\ c[n + 1] = Null
           /\ \A k \in 1..n :
                /\ c[k] \in Pool /\ IsBlock(c[k]) /\ TypeOf(c[k]) = t
                /\ \A j \in 1..(k-1) : c[j] # c[k]
                /\ \A q \in Live : at[q] # c[k]
    BY ListIs
  <1>6. PICK head \in Pool \cup {Null} : head = blk_list[t].free_head
    BY <1>1, ListTypes
  <1>7. PICK next \in [Pool -> Pool \cup {Null}] : next = link
    BY <1>1 DEF PoolTypeOK
  <1>8. /\ link' = [next EXCEPT ![b] = head]
        /\ blk_list' = [blk_list EXCEPT ![t].free_head = b,
                                        ![t].freelist_cnt = @ + 1,
                                        ![t].nofree_cnt = @ - 1]
        /\ at' = [at EXCEPT ![o] = Null]
        /\ slice_cnt' = slice_cnt /\ slice_type' = slice_type /\ aborted' = aborted
    BY <1>3, <1>4, <1>6, <1>7 DEF XFree
  <1>9. /\ blk_list'[t].free_head = b
        /\ blk_list'[t].freelist_cnt = n + 1
        /\ blk_list'[t].nofree_cnt = blk_list[t].nofree_cnt - 1
        /\ blk_list'[t].slice_cnt = blk_list[t].slice_cnt
        /\ blk_list'[t].slice_addr = blk_list[t].slice_addr
        /\ blk_list'[t].slice_offset = blk_list[t].slice_offset
        /\ \A u \in Types \ {t} : blk_list'[u] = blk_list[u]
    BY <1>1, <1>5, <1>8 DEF PoolTypeOK, Lists
  <1>10. blk_list[t].nofree_cnt = Cardinality(LiveOf(t)) /\ blk_list[t].nofree_cnt - 1 \in Nat
    <2>1. blk_list[t].nofree_cnt = Cardinality(LiveOf(t)) /\ blk_list[t].nofree_cnt \in Nat
      BY <1>1, ListTypes DEF ListsAreRight, CountIsRight
    <2>2. o \in LiveOf(t) /\ IsFiniteSet(LiveOf(t))
      BY <1>1, <1>2, <1>4, LiveFinite DEF LiveOf
    <2>3. Cardinality(LiveOf(t)) # 0
      BY <2>2, FS_EmptySet
    <2>4. QED BY <2>1, <2>3
  <1>11. PoolTypeOK'
    <2>1. blk_list'[t] \in Lists
      <3>1. blk_list[t] \in Lists /\ n + 1 \in Nat
        BY <1>1, <1>5, ListTypes
      <3>2. b \in Pool \cup {Null} /\ t \in DOMAIN blk_list
        BY <1>1 DEF PoolTypeOK
      <3>3. blk_list'[t] = [blk_list[t] EXCEPT !.free_head = b, !.freelist_cnt = n + 1,
                                               !.nofree_cnt = @ - 1]
        BY <1>5, <1>8, <3>2
      <3>4. QED BY <1>10, <3>1, <3>2, <3>3 DEF Lists
    <2>2. blk_list' \in [Types -> Lists]
      BY <1>1, <1>8, <1>9, <2>1 DEF PoolTypeOK
    <2>3. QED BY <1>1, <1>8, <2>2 DEF PoolTypeOK
  <1>12. SlicesAreRight' /\ \A a \in Int : IsBlock(a) => IsBlock(a)' /\ TypeOf(a)' = TypeOf(a)
    <2>1. blk_list[t].slice_addr # Null
      <3>1. EmptyList.nofree_cnt = 0
        BY DEF EmptyList
      <3>2. blk_list[t] # EmptyList
        BY <3>1, <1>10
      <3>3. QED BY <1>1, <3>2 DEF SlicesAreRight
    <2>2. QED BY <1>1, <1>8, <1>9, <1>11, <2>1, KeepSlices
  <1>13. /\ BlocksAreRight' /\ Live' = Live \ {o}
         /\ \A u \in Types : Cardinality(LiveOf(u)') =
              IF u = t THEN Cardinality(LiveOf(u)) - 1 ELSE Cardinality(LiveOf(u))
    BY <1>1, <1>2, <1>4, <1>8, <1>12, Lose
  <1>14. \A q \in Live' : q \in Live /\ at'[q] = at[q] /\ at[q] # b
    BY <1>1, <1>3, <1>2, <1>8, <1>13 DEF PoolTypeOK, BlocksAreRight, Live
  <1>17. PICK next2 \in [Pool -> Pool \cup {Null}] :
           next2 = link' /\ next2[b] = head /\ \A a \in Pool \ {b} : next2[a] = next[a]
    <2>1. link' \in [Pool -> Pool \cup {Null}]
      BY <1>8
    <2>2. link'[b] = head /\ \A a \in Pool \ {b} : link'[a] = next[a]
      BY <1>8
    <2>3. QED BY <2>1, <2>2
  <1>15. ASSUME NEW u \in Types PROVE ChainIsRight(u)'
    <2>1. CASE u = t
      <3>1. PICK m \in Nat : m = n + 1
        BY <1>5
      <3>2. PICK d : d = ChainFrom(b, m, link')
        OBVIOUS
      <3>3. d[1] = b /\ \A k \in 1..m : d[k + 1] = c[k]
        <4>0. n \in Nat
          BY <1>5
        <4>1. IsChain(c, head, n, next)
          BY <1>5, <1>6, <1>7
        <4>2. IsChain(d, b, m, next2)
          <5>1. d = ChainFrom(b, m, next2) /\ b \in Pool \cup {Null} /\ m \in Nat
            BY <1>17, <3>2
          <5>2. QED BY <5>1, ChainIs
        <4>3. Misses(c, n, b)
          BY <1>2, <1>3, <1>5 DEF Misses
        <4>4. next2[b] = head /\ Relinked(next, next2, b)
          BY <1>17 DEF Relinked
        <4>5. QED BY <3>1, <4>0, <4>1, <4>2, <4>3, <4>4, PushChain, Z3
      <3>4. \A k \in 1..(m + 1) : ChainFrom(blk_list'[t].free_head, m, link')[k] = d[k]
        BY <1>9, <3>2
      <3>5. d[m + 1] = Null
        BY <1>5, <3>1, <3>3
      <3>6. ASSUME NEW k \in 1..m
            PROVE  /\ d[k] \in Pool /\ IsBlock(d[k])' /\ TypeOf(d[k])' = t
                   /\ \A j \in 1..(k-1) : d[j] # d[k]
                   /\ \A q \in Live' : at'[q] # d[k]
        <4>1. CASE k = 1
          <5>1. IsBlock(b)' /\ TypeOf(b)' = t
            BY <1>3, <1>4, <1>12
          <5>2. d[k] = b /\ \A j \in 1..(k-1) : FALSE
            BY <4>1, <3>3
          <5>3. QED BY <5>1, <5>2, <1>14
        <4>2. CASE k # 1
          <5>1. PICK i \in 1..n : k = i + 1
            <6>1. k - 1 \in 1..n /\ k = (k - 1) + 1
              BY <1>5, <4>2, <3>1
            <6>2. QED BY <6>1
          <5>2. PICK a \in Pool : a = c[i] /\ a = d[k]
            BY <1>5, <3>1, <3>3, <5>1
          <5>3. IsBlock(a) /\ TypeOf(a) = t /\ \A q \in Live : at[q] # a
            <6>1. IsBlock(c[i]) /\ TypeOf(c[i]) = t /\ \A q \in Live : at[q] # c[i]
              BY <1>5
            <6>2. QED BY <6>1, <5>2
          <5>4. IsBlock(a)' /\ TypeOf(a)' = t
            <6>1. a \in Int
              BY PoolIs
            <6>2. QED BY <6>1, <5>3, <1>12
          <5>5. \A q \in Live' : at'[q] # a
            BY <5>3, <1>14
          <5>6. ASSUME NEW j \in 1..(k-1) PROVE d[j] # d[k]
            <6>1. CASE j = 1
              BY <6>1, <3>3, <5>2, <5>3, <1>2, <1>3
            <6>2. CASE j # 1
              <7>1. PICK h \in 1..(i - 1) : j = h + 1
                <8>1. j - 1 \in 1..(i - 1) /\ j = (j - 1) + 1
                  BY <6>2, <5>1
                <8>2. QED BY <8>1
              <7>2. h \in 1..m /\ d[j] = c[h]
                BY <3>1, <3>3, <7>1, <5>1
              <7>3. c[h] # c[i]
                BY <7>1, <5>1, <1>5
              <7>4. QED BY <7>2, <7>3, <5>2
            <6>3. QED BY <6>1, <6>2
          <5>7. QED BY <5>2, <5>4, <5>5, <5>6
        <4>3. QED BY <4>1, <4>2
      <3>7. m = blk_list'[t].freelist_cnt
        BY <1>9, <3>1
      <3>8. ChainIsRight(t)'
        BY <3>4, <3>5, <3>6, <3>7, BecomesChain
      <3>9. QED BY <2>1, <3>8
    <2>2. CASE u # t
      <3>1. PICK m, e :
               /\ m \in Nat
               /\ m = blk_list[u].freelist_cnt
               /\ e = ChainFrom(blk_list[u].free_head, m, link)
               /\ IsChain(e, blk_list[u].free_head, m, link) /\ e[m + 1] = Null
               /\ \A k \in 1..m :
                    /\ e[k] \in Pool /\ IsBlock(e[k]) /\ TypeOf(e[k]) = u
                    /\ \A j \in 1..(k-1) : e[j] # e[k]
                    /\ \A q \in Live : at[q] # e[k]
        BY ListIs
      <3>2. PICK first \in Pool \cup {Null} : first = blk_list[u].free_head
        BY <1>1, ListTypes
      <3>3. blk_list'[u] = blk_list[u]
        BY <2>2, <1>9
      <3>4. \A k \in 1..(m + 1) : ChainFrom(blk_list'[u].free_head, m, link')[k] = e[k]
        <4>0. m \in Nat
          BY <3>1
        <4>1. IsChain(e, first, m, next)
          BY <3>1, <3>2, <1>7
        <4>2. PICK f : f = ChainFrom(first, m, next2)
          OBVIOUS
        <4>3. IsChain(f, first, m, next2)
          BY <4>0, <4>2, ChainIs
        <4>4. Misses(e, m, b)
          BY <1>2, <1>3, <3>1 DEF Misses
        <4>5. Relinked(next, next2, b)
          BY <1>17 DEF Relinked
        <4>6. \A k \in 1..(m + 1) : f[k] = e[k]
          BY <4>0, <4>1, <4>3, <4>4, <4>5, KeepChain
        <4>7. ChainFrom(blk_list'[u].free_head, m, link') = f
          BY <1>17, <3>2, <3>3, <4>2
        <4>8. QED BY <4>6, <4>7
      <3>5. ASSUME NEW k \in 1..m
            PROVE  /\ e[k] \in Pool /\ IsBlock(e[k])' /\ TypeOf(e[k])' = u
                   /\ \A j \in 1..(k-1) : e[j] # e[k]
                   /\ \A q \in Live' : at'[q] # e[k]
        <4>1. PICK a \in Pool : a = e[k]
          BY <3>1
        <4>2. IsBlock(a)' /\ TypeOf(a)' = u
          <5>1. a \in Int
            BY PoolIs
          <5>2. IsBlock(a) /\ TypeOf(a) = u
            BY <3>1, <4>1
          <5>3. QED BY <5>1, <5>2, <1>12
        <4>3. \A q \in Live' : at'[q] # a
          BY <3>1, <4>1, <1>14
        <4>4. QED BY <3>1, <4>1, <4>2, <4>3
      <3>6. m \in Nat /\ m = blk_list'[u].freelist_cnt
        BY <3>1, <3>3
      <3>7. e[m + 1] = Null
        BY <3>1
      <3>8. QED BY <3>4, <3>5, <3>6, <3>7, BecomesChain
    <2>3. QED BY <2>1, <2>2
  <1>16. ASSUME NEW u \in Types PROVE CountIsRight(u)'
    <2>1. CountIsRight(u)
      BY DEF ListsAreRight
    <2>2. CASE u = t
      <3>1. blk_list'[t].nofree_cnt = Cardinality(LiveOf(t)')
        BY <1>9, <1>10, <1>13
      <3>2. blk_list'[t].nofree_cnt + blk_list'[t].freelist_cnt
              = blk_list[t].nofree_cnt + blk_list[t].freelist_cnt
        BY <1>1, <1>5, <1>9, ListTypes
      <3>3. QED BY <2>1, <2>2, <3>1, <3>2, <1>9 DEF CountIsRight, BlkSize
    <2>3. CASE u # t
      BY <2>1, <2>3, <1>9, <1>13 DEF CountIsRight, BlkSize
    <2>4. QED BY <2>2, <2>3
  <1>18. QED
    BY <1>11, <1>12, <1>13, <1>15, <1>16 DEF ListsAreRight

-----------------------------------------------------------------------------
(* The theorems.                                                           *)

(* An empty pool.                                                          *)
LEMMA InitListsAreRight == PoolInit => ListsAreRight
  <1> SUFFICES ASSUME PoolInit PROVE ListsAreRight
    OBVIOUS
  <1>1. /\ slice_cnt = 0 /\ slice_type = [s \in Slices |-> 0]
        /\ blk_list = [t \in Types |-> EmptyList]
        /\ link = [a \in Pool |-> Null] /\ at = [o \in Objects |-> Null]
        /\ aborted = FALSE
    BY DEF PoolInit
  <1>2. EmptyList \in Lists
    BY XMallocAssumption, Sizes DEF EmptyList, Lists
  <1>3. PoolTypeOK
    <2>1. 0 \in Types /\ 0 \in 0..SliceNum
      BY XMallocAssumption DEF Types
    <2>2. QED BY <1>1, <1>2, <2>1 DEF PoolTypeOK
  <1>4. Live = {}
    BY <1>1 DEF Live
  <1>5. SlicesAreRight
    BY <1>1 DEF SlicesAreRight, EmptyList
  <1>6. BlocksAreRight
    BY <1>4 DEF BlocksAreRight
  <1>7. ASSUME NEW t \in Types PROVE ChainIsRight(t)
    <2>1. PICK n \in Nat : n = 0
      OBVIOUS
    <2>2. blk_list[t].freelist_cnt = n /\ blk_list[t].free_head = Null
      BY <1>1, <2>1 DEF EmptyList
    <2>3. PICK next \in [Pool -> Pool \cup {Null}] : next = link
      BY <1>1
    <2>4. IsChain(ChainFrom(Null, n, next), Null, n, next)
      BY ChainIs
    <2>5. Chain(t) = ChainFrom(Null, n, next)
      BY <2>2, <2>3 DEF Chain
    <2>6. Chain(t)[n + 1] = Null
      BY <2>1, <2>4, <2>5 DEF IsChain
    <2>7. 1..n = {}
      BY <2>1
    <2>8. QED BY <2>2, <2>6, <2>7 DEF ChainIsRight
  <1>8. ASSUME NEW t \in Types PROVE CountIsRight(t)
    <2>1. LiveOf(t) = {}
      BY <1>4 DEF LiveOf
    <2>2. Cardinality(LiveOf(t)) = 0
      BY <2>1, FS_EmptySet
    <2>3. blk_list[t].nofree_cnt = 0 /\ blk_list[t].slice_addr = Null
      BY <1>1 DEF EmptyList
    <2>4. QED BY <2>2, <2>3 DEF CountIsRight
  <1>9. QED BY <1>3, <1>5, <1>6, <1>7, <1>8 DEF ListsAreRight

(* A step that leaves the pool and the objects alone.                      *)
LEMMA SamePool ==
  ASSUME ListsAreRight, aborted' \in BOOLEAN,
         UNCHANGED <<slice_cnt, slice_type, blk_list, link, at>>
  PROVE  ListsAreRight'
  <1>1. PoolTypeOK' /\ SlicesAreRight' /\ BlocksAreRight'
    BY DEF ListsAreRight, PoolTypeOK, SlicesAreRight, BlocksAreRight, Live,
           IsBlock, Cut, TypeOf
  <1>2. Live' = Live /\ \A t \in Types : LiveOf(t)' = LiveOf(t) /\ Chain(t)' = Chain(t)
    BY DEF Live, LiveOf, TypeOf, Chain
  <1>3. ASSUME NEW t \in Types PROVE ChainIsRight(t)' /\ CountIsRight(t)'
    <2>1. ChainIsRight(t) /\ CountIsRight(t)
      BY DEF ListsAreRight
    <2>2. CountIsRight(t)'
      BY <1>2, <2>1 DEF CountIsRight
    <2>3. ChainIsRight(t)'
      BY <1>2, <2>1 DEF ChainIsRight, IsBlock, Cut, TypeOf
    <2>4. QED BY <2>2, <2>3
  <1>4. QED BY <1>1, <1>3 DEF ListsAreRight

(* Every call preserves the invariant.                                     *)
LEMMA StepListsAreRight == ListsAreRight /\ [PoolNext]_poolVars => ListsAreRight'
  <1> SUFFICES ASSUME ListsAreRight, [PoolNext]_poolVars PROVE ListsAreRight'
    OBVIOUS
  <1>1. ASSUME NEW o \in Objects, XMalloc(o) PROVE ListsAreRight'
    <2>1. PICK t \in Types :
            Chosen(t, Size[o]) /\ (TakeFree(o, t) \/ TakeNext(o, t) \/ TakeSlice(o, t))
      BY <1>1 DEF XMalloc
    <2>2. at[o] = Null
      BY <1>1 DEF XMalloc
    <2>3. QED BY <2>1, <2>2, TakeFreeStep, TakeNextStep, TakeSliceStep
  <1>2. ASSUME NEW o \in Objects, XMallocFails(o) PROVE ListsAreRight'
    BY <1>2, SamePool DEF XMallocFails
  <1>3. ASSUME NEW o \in Objects, XFree(o) PROVE ListsAreRight'
    BY <1>3, FreeStep
  <1>4. CASE UNCHANGED poolVars
    <2>1. aborted' \in BOOLEAN
      BY <1>4 DEF poolVars, ListsAreRight, PoolTypeOK
    <2>2. QED BY <1>4, <2>1, SamePool DEF poolVars
  <1>5. QED BY <1>1, <1>2, <1>3, <1>4 DEF PoolNext

(* blk_alloc and blk_free: slices, blocks, free lists and counters agree   *)
(* in every reachable state, for any pool, word and objects.               *)
THEOREM ListsRight == PoolSpec => []ListsAreRight
  BY InitListsAreRight, StepListsAreRight, PTL DEF PoolSpec

(* Clients that stay within the size they asked for never touch a byte of  *)
(* another object or outside the pool.                                     *)
THEOREM Apart ==
  ASSUME \A o \in Objects : Used[o] <= Size[o]
  PROVE  PoolSpec => []ObjectsApart
  <1>1. ListsAreRight => ObjectsApart
    <2> SUFFICES ASSUME ListsAreRight PROVE ObjectsApart
      OBVIOUS
    <2>1. PoolTypeOK /\ BlocksAreRight
      BY DEF ListsAreRight
    <2>2. ASSUME NEW o \in Live
          PROVE  /\ o \in Objects /\ at[o] \in Int /\ IsBlock(at[o])
                 /\ BlkSize(TypeOf(at[o])) \in Nat
                 /\ Used[o] \in Nat /\ Used[o] <= BlkSize(TypeOf(at[o]))
                 /\ PoolStart <= at[o]
                 /\ at[o] + BlkSize(TypeOf(at[o])) <= PoolEnd
      <3>1. o \in Objects /\ at[o] \in Int
        BY <2>1, LiveIs
      <3>2. IsBlock(at[o]) /\ Size[o] <= BlkSize(TypeOf(at[o]))
        BY <2>1 DEF BlocksAreRight
      <3>3. /\ BlkSize(TypeOf(at[o])) \in Nat /\ PoolStart <= at[o]
            /\ at[o] + BlkSize(TypeOf(at[o])) <= PoolEnd
        BY <2>1, <3>1, <3>2, BlockIs
      <3>4. Used[o] \in Nat /\ Size[o] \in Nat /\ Used[o] <= Size[o]
        BY <3>1, XMallocAssumption
      <3>5. QED BY <3>1, <3>2, <3>3, <3>4
    <2>3. ASSUME NEW o \in Live, NEW q \in Live, at[o] < at[q]
          PROVE  at[o] + Used[o] <= at[q]
      <3>1. at[o] + BlkSize(TypeOf(at[o])) <= at[q]
        BY <2>1, <2>2, <2>3, BlocksApart
      <3>2. QED BY <2>2, <3>1
    <2>4. ASSUME NEW o \in Live, NEW q \in Live \ {o}
          PROVE  at[o] + Used[o] <= at[q] \/ at[q] + Used[q] <= at[o]
      <3>1. at[q] # at[o]
        BY <2>1 DEF BlocksAreRight
      <3>2. at[o] < at[q] \/ at[q] < at[o]
        BY <2>2, <3>1
      <3>3. QED BY <2>3, <3>2
    <2>5. ASSUME NEW o \in Live
          PROVE  at[o] >= PoolStart /\ at[o] + Used[o] <= PoolEnd
      BY <2>2, PoolIs, Sizes
    <2>6. QED BY <2>4, <2>5 DEF ObjectsApart
  <1>2. QED BY <1>1, ListsRight, PTL

-----------------------------------------------------------------------------
(* A type that cannot serve a request has no block left.                   *)
LEMMA NotServing ==
  ASSUME ListsAreRight, NEW t \in Types, ~Serves(t)
  PROVE  slice_cnt = SliceNum /\ Capacity(t) = Cardinality(LiveOf(t))
  <1>1. PoolTypeOK /\ SlicesAreRight /\ CountIsRight(t)
    BY DEF ListsAreRight
  <1>2. slice_cnt = SliceNum /\ NeedsSlice(t) /\ blk_list[t].free_head = Null
    BY DEF Serves
  <1>3. PICK n \in Nat : n = blk_list[t].nofree_cnt /\ n = Cardinality(LiveOf(t))
    BY <1>1, ListTypes DEF CountIsRight
  <1>4. PICK d \in Nat \ {0} : d = BlkSize(t)
    BY Sizes
  <1>5. PICK k \in Nat : k = SliceSize \div d /\ k * d = SliceSize
    BY <1>4, Sizes
  <1>6. PICK m \in Nat : m = blk_list[t].slice_cnt
    BY <1>1, ListTypes, XMallocAssumption
  <1>7. CASE blk_list[t].slice_addr = Null
    <2>1. blk_list[t] = EmptyList
      BY <1>1, <1>7 DEF SlicesAreRight
    <2>2. m = 0 /\ n = 0
      BY <2>1, <1>3, <1>6 DEF EmptyList
    <2>3. QED BY <2>2, <1>2, <1>3, <1>4, <1>5, <1>6 DEF Capacity
  <1>8. CASE blk_list[t].slice_addr # Null
    <2>1. blk_list[t].slice_offset = SliceSize
      BY <1>2, <1>8 DEF NeedsSlice, SliceFull
    <2>2. blk_list[t].freelist_cnt = 0
      <3>1. PICK i, c :
              /\ i \in Nat
              /\ i = blk_list[t].freelist_cnt
              /\ c = ChainFrom(blk_list[t].free_head, i, link)
              /\ IsChain(c, blk_list[t].free_head, i, link) /\ c[i + 1] = Null
              /\ \A j \in 1..i :
                   /\ c[j] \in Pool /\ IsBlock(c[j]) /\ TypeOf(c[j]) = t
                   /\ \A h \in 1..(j-1) : c[h] # c[j]
                   /\ \A o \in Live : at[o] # c[j]
        BY ListIs
      <3>2. c[1] = Null
        BY <3>1, <1>2 DEF IsChain
      <3>3. 1 \notin 1..i
        BY <3>1, <3>2, PoolIs
      <3>4. QED BY <3>1, <3>3
    <2>3. (n + 0) * d = (m - 1) * (k * d) + k * d
      BY <1>1, <1>3, <1>4, <1>5, <1>6, <1>8, <2>1, <2>2 DEF CountIsRight
    <2>4. (m - 1) * (k * d) + k * d = (m * k) * d
      OBVIOUS
    <2>5. n * d = (m * k) * d
      BY <2>3, <2>4
    <2>6. n = m * k
      <3>1. m * k \in Nat
        OBVIOUS
      <3>2. PICK h \in Nat : h = m * k
        BY <3>1
      <3>3. n < h => n * d + d <= h * d
        BY MulLess
      <3>4. h < n => h * d + d <= n * d
        BY MulLess
      <3>5. n * d \in Int /\ h * d \in Int
        OBVIOUS
      <3>6. n * d = h * d
        BY <2>5, <3>2
      <3>7. QED BY <3>2, <3>3, <3>4, <3>5, <3>6
    <2>7. QED BY <2>6, <1>2, <1>3, <1>4, <1>5, <1>6 DEF Capacity
  <1>9. QED BY <1>7, <1>8

(* When no type is chosen for a request, none from its own type on serves. *)
LEMMA NoneServes ==
  ASSUME NEW size \in Nat, Size2Type(Request(size)) \in Nat,
         \A t \in Types : ~Chosen(t, size)
  PROVE  \A t \in Types : t >= Size2Type(Request(size)) => ~Serves(t)
  <1>1. PICK m \in Nat : m = Size2Type(Request(size))
    OBVIOUS
  <1> DEFINE T == {t \in Types : t >= m /\ Serves(t)}
  <1>2. SUFFICES ASSUME T # {} PROVE FALSE
    BY <1>1
  <1>3. T \in SUBSET Nat
    BY DEF Types
  <1>4. PICK t \in T : \A u \in T : t <= u
    <2> HIDE DEF T
    <2>1. QED BY <1>2, <1>3, Least
  <1>5. ASSUME NEW u \in m..(t-1), Serves(u) PROVE FALSE
    <2>1. u \in Types
      BY <1>4, XMallocAssumption DEF Types
    <2>2. u \in T
      BY <2>1, <1>5
    <2>3. QED BY <2>2, <1>4, <1>5 DEF Types
  <1>6. Chosen(t, size)
    BY <1>1, <1>4, <1>5 DEF Chosen
  <1>7. QED BY <1>4, <1>6

(* xmalloc gives up only when there is no slice left and every block that  *)
(* could hold the object is occupied, after any calls before.              *)
THEOREM FailsFull == PoolSpec => FailsOnlyWhenFull
  <1>1. ASSUME ListsAreRight, NEW o \in Objects, XMallocFails(o)
        PROVE  /\ slice_cnt = SliceNum
               /\ \A t \in Types : BlkSize(t) >= Size[o] =>
                    Capacity(t) = Cardinality(LiveOf(t))
    <2>1. PICK r \in Nat : r = Request(Size[o])
      BY XMallocAssumption DEF Request
    <2>2. Size[o] \in Nat /\ WordSize \in Nat
      BY XMallocAssumption
    <2>3. PICK m \in Types : /\ m = Size2Type(r)
                             /\ \A u \in Nat : u < m => BlkSize(u) < r
      <3>1. Size2Type(r) \in Types
        BY <1>1, <2>1 DEF XMallocFails
      <3>2. QED BY <3>1, LeastType
    <2>4. m \in Nat
      BY <2>3, Sizes
    <2>5. \A t \in Types : t >= m => ~Serves(t)
      <3>1. \A t \in Types : ~Chosen(t, Size[o])
        BY <1>1 DEF XMallocFails
      <3>2. Size2Type(Request(Size[o])) = m
        BY <2>1, <2>3
      <3>3. QED BY <2>2, <2>4, <3>1, <3>2, NoneServes
    <2>6. slice_cnt = SliceNum
      BY <1>1, <2>3, <2>4, <2>5, NotServing
    <2>7. ASSUME NEW t \in Types, BlkSize(t) >= Size[o]
          PROVE  Capacity(t) = Cardinality(LiveOf(t))
      <3>1. t \in Nat /\ BlkSize(t) \in Nat
        BY Sizes
      <3>2. CASE t >= m
        BY <1>1, <2>5, <3>2, NotServing
      <3>3. CASE t < m
        <4>1. BlkSize(t) < r
          BY <2>3, <3>1, <3>3
        <4>2. BlkSize(t) < WordSize
          BY <4>1, <2>1, <2>2, <2>7, <3>1 DEF Request
        <4>3. blk_list[t] = EmptyList
          BY <1>1, <2>2, <3>1, <4>2 DEF ListsAreRight, SlicesAreRight
        <4>4. CountIsRight(t)
          BY <1>1 DEF ListsAreRight
        <4>5. Cardinality(LiveOf(t)) = 0
          BY <4>3, <4>4 DEF CountIsRight, EmptyList
        <4>6. PICK k \in Nat : k = SliceSize \div BlkSize(t)
          BY Sizes
        <4>7. Capacity(t) = 0 * k
          BY <4>3, <4>6 DEF Capacity, EmptyList
        <4>8. QED BY <4>5, <4>7
      <3>4. QED BY <2>4, <3>1, <3>2, <3>3
    <2>8. QED BY <2>6, <2>7
  <1>2. ListsAreRight /\ [PoolNext]_poolVars =>
          [\A o \in Objects :
             XMallocFails(o) =>
               /\ slice_cnt = SliceNum
               /\ \A t \in Types : BlkSize(t) >= Size[o] =>
                    Capacity(t) = Cardinality(LiveOf(t))]_poolVars
    BY <1>1
  <1>3. QED BY <1>2, ListsRight, PTL DEF PoolSpec, FailsOnlyWhenFull
=============================================================================
