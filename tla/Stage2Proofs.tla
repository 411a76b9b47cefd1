----------------------------- MODULE Stage2Proofs ---------------------------
(***************************************************************************)
(* Proofs about Stage2, for tables of any size, any number of pages and    *)
(* any configurations: every page has one owner, the tables implement a    *)
(* map that changes one page at a time, and the guest's memory is built as *)
(* the configuration says.                                                 *)
(***************************************************************************)
EXTENDS Stage2, SequenceTheorems, TLAPS

-----------------------------------------------------------------------------
(* Addresses.                                                              *)

LEMMA Basics ==
  /\ Fan \in Nat /\ Fan > 1 /\ NPages \in Nat
  /\ 0 \in Idx /\ Idx \subseteq Nat
  /\ Null \notin Pages /\ Null # Device /\ Device \notin Pages /\ Pages \subseteq Nat /\ Device \in Nat
  /\ VPages \subseteq Nat
  BY Stage2Assumption DEF Idx, Null, Pages, Device, VPages

\* Dividing twice is dividing by the product.
LEMMA DivDiv ==
  ASSUME NEW n \in Nat, NEW a \in Nat \ {0}, NEW b \in Nat \ {0}
  PROVE  (n \div a) \div b = n \div (a * b)
  <1> DEFINE m == n \div a
             r == n % a
             q == m \div b
             t == m % b
  <1>1. m \in Nat /\ r \in 0..(a - 1) /\ n = a * m + r
    OBVIOUS
  <1>2. q \in Nat /\ t \in 0..(b - 1) /\ m = b * q + t
    BY <1>1
  <1> HIDE DEF m, r, q, t
  <1>3. n = (a * b) * q + (a * t + r)
    BY <1>1, <1>2
  <1>4. a * t + r \in 0..(a * b - 1)
    <2>1. t \in Nat /\ t + 1 <= b /\ r \in Nat /\ r < a
      BY <1>1, <1>2
    <2>2. a * (t + 1) <= a * b
      BY <2>1
    <2>3. a * (t + 1) = a * t + a /\ a * t \in Nat /\ a * b \in Nat
      BY <2>1
    <2>4. QED BY <2>1, <2>2, <2>3
  <1>5. n \div (a * b) = q
    <2> DEFINE c == a * b
               s == a * t + r
    <2>1. c \in Nat \ {0} /\ s \in 0..(c - 1) /\ n = c * q + s
      BY <1>2, <1>3, <1>4
    <2> HIDE DEF c, s
    <2>2. n \div c = q
      BY <1>2, <2>1
    <2>3. QED BY <2>2 DEF c
  <1>6. QED BY <1>5 DEF m, q

LEMMA PIndexIsIndex ==
  ASSUME NEW level \in 0..3, NEW va \in Nat
  PROVE  PIndex(level, va) \in Idx
  <1>1. \A n \in Nat : n % Fan \in Idx
    BY Basics DEF Idx
  <1>2. /\ Fan * Fan \in Nat \ {0} /\ Fan * Fan * Fan \in Nat \ {0}
    BY Basics
  <1>3. /\ va \div Fan \in Nat /\ va \div (Fan * Fan) \in Nat /\ va \div (Fan * Fan * Fan) \in Nat
    BY <1>2, Basics
  <1>4. QED BY <1>1, <1>3 DEF PIndex

\* The indices of the four levels determine the address.
LEMMA IndicesDetermine ==
  ASSUME NEW v \in VPages, NEW u \in VPages,
         \A level \in 0..3 : PIndex(level, v) = PIndex(level, u)
  PROVE  v = u
  <1> DEFINE F == Fan
             q1(n) == n \div F
             q2(n) == n \div (F * F)
             q3(n) == n \div (F * F * F)
  <1>1. F \in Nat \ {0} /\ F > 1 /\ F * F \in Nat \ {0} /\ F * F * F \in Nat \ {0}
    BY Basics
  <1>2. \A n \in Nat : /\ q1(n) \in Nat /\ q2(n) \in Nat /\ q3(n) \in Nat
                       /\ q2(n) = q1(n) \div F /\ q3(n) = q2(n) \div F
    <2>1. SUFFICES ASSUME NEW n \in Nat
                   PROVE /\ q1(n) \in Nat /\ q2(n) \in Nat /\ q3(n) \in Nat
                         /\ q2(n) = q1(n) \div F /\ q3(n) = q2(n) \div F
      OBVIOUS
    <2>2. q1(n) \in Nat /\ q2(n) \in Nat /\ q3(n) \in Nat
      BY <1>1
    <2>3. q2(n) = q1(n) \div F
      BY <1>1, DivDiv, Zenon
    <2>4. q3(n) = q2(n) \div F
      BY <1>1, DivDiv, Zenon
    <2>5. QED BY <2>2, <2>3, <2>4
  <1>3. \A n \in VPages : n \in Nat /\ q3(n) < F
    <2>1. SUFFICES ASSUME NEW n \in VPages PROVE n \in Nat /\ q3(n) < F
      OBVIOUS
    <2>2. n \in Nat /\ n < (F * F * F) * F
      BY <1>1 DEF VPages
    <2> DEFINE c == F * F * F
    <2>3. c \in Nat \ {0} /\ n < c * F /\ F \in Nat
      BY <1>1, <2>2
    <2> HIDE DEF c, F
    <2>4. n \div c < F
      BY <2>2, <2>3
    <2>5. QED BY <2>2, <2>4 DEF c
  <1>4. /\ q3(v) % F = q3(u) % F /\ q2(v) % F = q2(u) % F
        /\ q1(v) % F = q1(u) % F /\ v % F = u % F
    BY DEF PIndex
  <1>5. v \in Nat /\ u \in Nat
    BY <1>3
  <1>6. q3(v) = q3(u)
    <2> DEFINE a == q3(v)
               b == q3(u)
    <2>1. a \in Nat /\ b \in Nat /\ a < F /\ b < F /\ a % F = b % F /\ F \in Nat
      BY <1>1, <1>2, <1>3, <1>4, <1>5
    <2> HIDE DEF a, b, F
    <2>2. a = b
      BY <2>1
    <2>3. QED BY <2>2 DEF a, b
  <1>7. ASSUME NEW a \in Nat, NEW b \in Nat, a \div F = b \div F, a % F = b % F
        PROVE  a = b
    <2> HIDE DEF F
    <2>1. F \in Nat \ {0}
      BY <1>1
    <2>2. a = F * (a \div F) + (a % F) /\ b = F * (b \div F) + (b % F)
      BY <2>1
    <2>3. QED BY <1>7, <2>2
  <1>8. q2(v) = q2(u)
    BY <1>2, <1>4, <1>5, <1>6, <1>7
  <1>9. q1(v) = q1(u)
    BY <1>2, <1>4, <1>5, <1>8, <1>7
  <1>10. QED BY <1>4, <1>5, <1>7, <1>9

-----------------------------------------------------------------------------
(* Who owns a page.                                                        *)

\* The address in a word.
WordTarget(word) == IF word.kind \in {"link", "table", "page"} THEN word.to ELSE Null

LEMMA TargetIs ==
  /\ Target(<<Null, 1>>) = freelist /\ Target(<<Null, 2>>) = vttbr /\ Target(<<Null, 3>>) = page
  /\ Holds(<<Null, 1>>) = "link" /\ Holds(<<Null, 2>>) = "table" /\ Holds(<<Null, 3>>) = "page"
  /\ \A q \in Pages, i \in Idx : /\ Target(<<q, i>>) = WordTarget(mem[q][i])
                                 /\ Holds(<<q, i>>) = mem[q][i].kind
  BY Basics DEF Target, Holds, WordTarget

LEMMA TargetIsNext ==
  /\ Target(<<Null, 1>>)' = freelist' /\ Target(<<Null, 2>>)' = vttbr' /\ Target(<<Null, 3>>)' = page'
  /\ Holds(<<Null, 1>>)' = "link" /\ Holds(<<Null, 2>>)' = "table" /\ Holds(<<Null, 3>>)' = "page"
  /\ \A q \in Pages, i \in Idx : /\ Target(<<q, i>>)' = WordTarget(mem'[q][i])
                                 /\ Holds(<<q, i>>)' = mem'[q][i].kind
  BY Basics DEF Target, Holds, WordTarget

LEMMA PlaceIs ==
  /\ <<Null, 1>> \in Places /\ <<Null, 2>> \in Places /\ <<Null, 3>> \in Places
  /\ <<Null, 1>> # <<Null, 2>> /\ <<Null, 1>> # <<Null, 3>> /\ <<Null, 2>> # <<Null, 3>>
  /\ \A q \in Pages, i \in Idx : /\ <<q, i>> \in Places /\ <<q, i>> # <<Null, 1>>
                                 /\ <<q, i>> # <<Null, 2>> /\ <<q, i>> # <<Null, 3>>
  /\ \A w \in Places : \/ \E q \in Pages, i \in Idx : w = <<q, i>>
                       \/ w = <<Null, 1>> \/ w = <<Null, 2>> \/ w = <<Null, 3>>
  <1>1. \A k \in 1..3 : <<Null, k>> \in Places
    BY DEF Places
  <1>2. \A q \in Pages, i \in Idx : <<q, i>> \in Places /\ q # Null
    BY Basics DEF Places
  <1>3. ASSUME NEW w \in Places
        PROVE  \/ \E q \in Pages, i \in Idx : w = <<q, i>>
               \/ w = <<Null, 1>> \/ w = <<Null, 2>> \/ w = <<Null, 3>>
    <2>1. CASE w \in Pages \X Idx
      BY <2>1
    <2>2. CASE w \in {Null} \X (1..3)
      <3>1. PICK k \in 1..3 : w = <<Null, k>>
        BY <2>2
      <3>2. QED BY <3>1
    <2>3. QED BY <2>1, <2>2 DEF Places
  <1>4. QED BY <1>1, <1>2, <1>3

\* When three places pass their addresses on in a circle, owners stay unique.
LEMMA OwnersRotate ==
  ASSUME OnePageOneOwner, \A pg \in Pages : InPool(pg)' <=> InPool(pg),
         NEW a \in Places, NEW b \in Places, NEW c \in Places, a # b, a # c, b # c,
         \A w \in Places : w \notin {a, b, c} => Target(w)' = Target(w),
         Target(a)' = Target(b), Target(b)' = Target(c), Target(c)' = Target(a)
  PROVE  OnePageOneOwner'
  <1>1. ASSUME NEW pg \in Pages, InPool(pg)'
        PROVE  \E w \in Places : Target(w)' = pg /\ \A v \in Places : Target(v)' = pg => v = w
    <2>1. PICK w \in Places : Target(w) = pg /\ \A v \in Places : Target(v) = pg => v = w
      BY <1>1 DEF OnePageOneOwner
    <2>2. CASE w = a
      <3>1. Target(c)' = pg /\ \A v \in Places : Target(v)' = pg => v = c
        BY <2>1, <2>2
      <3>2. QED BY <3>1
    <2>3. CASE w = b
      <3>1. Target(a)' = pg /\ \A v \in Places : Target(v)' = pg => v = a
        BY <2>1, <2>3
      <3>2. QED BY <3>1
    <2>4. CASE w = c
      <3>1. Target(b)' = pg /\ \A v \in Places : Target(v)' = pg => v = b
        BY <2>1, <2>4
      <3>2. QED BY <3>1
    <2>5. CASE w \notin {a, b, c}
      <3>1. Target(w)' = pg /\ \A v \in Places : Target(v)' = pg => v = w
        BY <2>1, <2>5
      <3>2. QED BY <3>1
    <2>6. QED BY <2>2, <2>3, <2>4, <2>5
  <1>2. ASSUME NEW w \in Places, Target(w)' \in Pages
        PROVE  InPool(Target(w))'
    <2>1. PICK v \in Places : Target(v) = Target(w)'
      OBVIOUS
    <2>2. InPool(Target(v))
      BY <1>2, <2>1 DEF OnePageOneOwner
    <2>3. QED BY <1>2, <2>1, <2>2 DEF InPool
  <1>3. QED BY <1>1, <1>2 DEF OnePageOneOwner

\* When two places exchange their addresses.
LEMMA OwnersSwap ==
  ASSUME OnePageOneOwner, \A pg \in Pages : InPool(pg)' <=> InPool(pg),
         NEW a \in Places, NEW b \in Places, a # b,
         \A w \in Places : w \notin {a, b} => Target(w)' = Target(w),
         Target(a)' = Target(b), Target(b)' = Target(a)
  PROVE  OnePageOneOwner'
  <1>1. ASSUME NEW pg \in Pages, InPool(pg)'
        PROVE  \E w \in Places : Target(w)' = pg /\ \A v \in Places : Target(v)' = pg => v = w
    <2>1. PICK w \in Places : Target(w) = pg /\ \A v \in Places : Target(v) = pg => v = w
      BY <1>1 DEF OnePageOneOwner
    <2>2. CASE w = a
      <3>1. Target(b)' = pg /\ \A v \in Places : Target(v)' = pg => v = b
        BY <2>1, <2>2
      <3>2. QED BY <3>1
    <2>3. CASE w = b
      <3>1. Target(a)' = pg /\ \A v \in Places : Target(v)' = pg => v = a
        BY <2>1, <2>3
      <3>2. QED BY <3>1
    <2>4. CASE w \notin {a, b}
      <3>1. Target(w)' = pg /\ \A v \in Places : Target(v)' = pg => v = w
        BY <2>1, <2>4
      <3>2. QED BY <3>1
    <2>5. QED BY <2>2, <2>3, <2>4
  <1>2. ASSUME NEW w \in Places, Target(w)' \in Pages
        PROVE  InPool(Target(w))'
    <2>1. PICK v \in Places : Target(v) = Target(w)'
      OBVIOUS
    <2>2. InPool(Target(v))
      BY <1>2, <2>1 DEF OnePageOneOwner
    <2>3. QED BY <1>2, <2>1, <2>2 DEF InPool
  <1>3. QED BY <1>1, <1>2 DEF OnePageOneOwner

\* When every place keeps its page.
LEMMA OwnersSame ==
  ASSUME OnePageOneOwner, \A pg \in Pages : InPool(pg)' <=> InPool(pg),
         \A w \in Places :
           Target(w) = Target(w)' \/ (Target(w) \notin Pages /\ Target(w)' \notin Pages)
  PROVE  OnePageOneOwner'
  <1>1. ASSUME NEW pg \in Pages, InPool(pg)'
        PROVE  \E w \in Places : Target(w)' = pg /\ \A v \in Places : Target(v)' = pg => v = w
    <2>1. PICK w \in Places : Target(w) = pg /\ \A v \in Places : Target(v) = pg => v = w
      BY <1>1 DEF OnePageOneOwner
    <2>2. Target(w)' = pg /\ \A v \in Places : Target(v)' = pg => v = w
      BY <2>1
    <2>3. QED BY <2>2
  <1>2. ASSUME NEW w \in Places, Target(w)' \in Pages
        PROVE  InPool(Target(w))'
    <2>1. Target(w) = Target(w)'
      BY <1>2
    <2>2. InPool(Target(w))
      BY <1>2, <2>1 DEF OnePageOneOwner
    <2>3. QED BY <1>2, <2>1, <2>2 DEF InPool
  <1>3. QED BY <1>1, <1>2 DEF OnePageOneOwner

\* A page that two places hold is held by one place.
LEMMA OnePlace ==
  ASSUME OnePageOneOwner, NEW w \in Places, NEW v \in Places,
         Target(w) \in Pages, Target(v) = Target(w)
  PROVE  v = w
  BY DEF OnePageOneOwner

-----------------------------------------------------------------------------
(* The tables on the way to an address.                                    *)

LEMMA NodeStep ==
  ASSUME NEW va, NEW k \in 0..2
  PROVE  Node(k + 1, va) = NextTable(Node(k, va), k, va)
  <1>1. CASE k = 0
    BY <1>1 DEF Node
  <1>2. CASE k = 1
    BY <1>2 DEF Node
  <1>3. CASE k = 2
    BY <1>3 DEF Node, LeafTable
  <1>4. QED BY <1>1, <1>2, <1>3

\* The table of the next level is in the word of its address.
LEMMA NodeParent ==
  ASSUME TypeOK, TablesAreRight, NEW va \in VPages, NEW k \in 0..2, Node(k + 1, va) # Null
  PROVE  /\ Node(k, va) # Null /\ Node(k, va) \in Pages /\ Node(k + 1, va) \in Pages
         /\ <<Node(k, va), PIndex(k, va)>> \in Places
         /\ Target(<<Node(k, va), PIndex(k, va)>>) = Node(k + 1, va)
         /\ Holds(<<Node(k, va), PIndex(k, va)>>) = "table"
  <1>1. /\ Node(k, va) # Null
        /\ mem[Node(k, va)][PIndex(k, va)].kind = "table"
        /\ Node(k + 1, va) = mem[Node(k, va)][PIndex(k, va)].to
    BY NodeStep DEF NextTable
  <1>2. Node(k, va) \in Pages /\ Node(k + 1, va) \in Pages
    BY <1>1 DEF TablesAreRight
  <1>3. PIndex(k, va) \in Idx
    BY Basics, PIndexIsIndex
  <1>4. QED BY <1>1, <1>2, <1>3, TargetIs, PlaceIs DEF WordTarget

\* Every table on the way to an address is owned as a table.
LEMMA NodeOwned ==
  ASSUME TypeOK, TablesAreRight, NEW va \in VPages, NEW k \in 0..3, Node(k, va) # Null
  PROVE  /\ Node(k, va) \in Pages
         /\ \E w \in Places : Target(w) = Node(k, va) /\ Holds(w) = "table"
  <1>1. CASE k = 0
    <2>1. Node(k, va) = Target(<<Null, 2>>) /\ Holds(<<Null, 2>>) = "table"
      BY <1>1, TargetIs DEF Node
    <2>2. QED BY <2>1, PlaceIs DEF TablesAreRight
  <1>2. CASE k # 0
    <2>1. k - 1 \in 0..2 /\ (k - 1) + 1 = k
      BY <1>2
    <2>2. /\ Node(k, va) \in Pages
          /\ <<Node(k - 1, va), PIndex(k - 1, va)>> \in Places
          /\ Target(<<Node(k - 1, va), PIndex(k - 1, va)>>) = Node(k, va)
          /\ Holds(<<Node(k - 1, va), PIndex(k - 1, va)>>) = "table"
      BY <2>1, NodeParent
    <2>3. QED BY <2>2
  <1>3. QED BY <1>1, <1>2

\* So it is not a free page and not a page of the guest.
LEMMA NodeIsNotOther ==
  ASSUME TypeOK, TablesAreRight, OnePageOneOwner,
         NEW va \in VPages, NEW k \in 0..3,
         NEW w \in Places, Target(w) \in Pages, Holds(w) # "table"
  PROVE  Node(k, va) # Target(w)
  <1>1. SUFFICES ASSUME Node(k, va) = Target(w) PROVE FALSE
    OBVIOUS
  <1>2. PICK v \in Places : Target(v) = Node(k, va) /\ Holds(v) = "table"
    BY <1>1, NodeOwned, Basics
  <1>3. v = w
    BY <1>1, <1>2, OnePlace
  <1>4. QED BY <1>2, <1>3

\* Equal tables have equal parents.
LEMMA NodeUp ==
  ASSUME TypeOK, TablesAreRight, OnePageOneOwner,
         NEW va \in VPages, NEW u \in VPages, NEW k \in 0..2, NEW j \in 0..2,
         Node(k + 1, va) # Null, Node(k + 1, va) = Node(j + 1, u)
  PROVE  Node(k, va) # Null /\ Node(k, va) = Node(j, u) /\ PIndex(k, va) = PIndex(j, u)
  <1>1. /\ Node(k, va) # Null /\ Node(k + 1, va) \in Pages
        /\ <<Node(k, va), PIndex(k, va)>> \in Places
        /\ Target(<<Node(k, va), PIndex(k, va)>>) = Node(k + 1, va)
    BY NodeParent
  <1>2. /\ <<Node(j, u), PIndex(j, u)>> \in Places
        /\ Target(<<Node(j, u), PIndex(j, u)>>) = Node(j + 1, u)
    BY NodeParent
  <1>3. <<Node(k, va), PIndex(k, va)>> = <<Node(j, u), PIndex(j, u)>>
    BY <1>1, <1>2, OnePlace
  <1>4. QED BY <1>1, <1>3

\* The table of level 0 is no table of another level.
LEMMA RootIsRoot ==
  ASSUME TypeOK, TablesAreRight, OnePageOneOwner,
         NEW va \in VPages, NEW u \in VPages, NEW k \in 0..2, Node(k + 1, va) # Null
  PROVE  Node(k + 1, va) # Node(0, u)
  <1>1. SUFFICES ASSUME Node(k + 1, va) = Node(0, u) PROVE FALSE
    OBVIOUS
  <1>2. /\ Node(k, va) \in Pages /\ Node(k + 1, va) \in Pages
        /\ Target(<<Node(k, va), PIndex(k, va)>>) = Node(k + 1, va)
    BY NodeParent
  <1>3. PIndex(k, va) \in Idx
    BY Basics, PIndexIsIndex
  <1>4. Target(<<Null, 2>>) = Node(k + 1, va)
    BY <1>1, TargetIs DEF Node
  <1>5. <<Null, 2>> = <<Node(k, va), PIndex(k, va)>>
    BY <1>2, <1>3, <1>4, PlaceIs, OnePlace
  <1>6. QED BY <1>2, <1>3, <1>5, PlaceIs

\* A table is of one level, and is on the way to one block of addresses.
LEMMA NodesDistinct ==
  ASSUME TypeOK, TablesAreRight, OnePageOneOwner,
         NEW va \in VPages, NEW u \in VPages, NEW k \in 0..3, NEW j \in 0..3,
         Node(k, va) # Null, Node(k, va) = Node(j, u)
  PROVE  k = j /\ \A l \in 0..3 : l < k => PIndex(l, va) = PIndex(l, u)
  <1> DEFINE Agree(m, n) ==
        Node(m, va) # Null /\ Node(m, va) = Node(n, u) =>
          m = n /\ \A l \in 0..3 : l < m => PIndex(l, va) = PIndex(l, u)
  <1>1. \A n \in 0..3 : Agree(0, n)
    <2>1. SUFFICES ASSUME NEW n \in 1..3, Node(0, va) # Null, Node(0, va) = Node(n, u)
                   PROVE  FALSE
      OBVIOUS
    <2>2. n - 1 \in 0..2 /\ (n - 1) + 1 = n
      OBVIOUS
    <2>3. QED BY <2>1, <2>2, RootIsRoot
  <1>2. ASSUME NEW m \in 0..2, \A n \in 0..3 : Agree(m, n)
        PROVE  \A n \in 0..3 : Agree(m + 1, n)
    <2>1. SUFFICES ASSUME NEW n \in 0..3, Node(m + 1, va) # Null, Node(m + 1, va) = Node(n, u)
                   PROVE  m + 1 = n /\ \A l \in 0..3 : l < m + 1 => PIndex(l, va) = PIndex(l, u)
      OBVIOUS
    <2>2. n # 0
      BY <2>1, RootIsRoot
    <2>3. n - 1 \in 0..2 /\ (n - 1) + 1 = n
      BY <2>2
    <2>4. /\ Node(m, va) # Null /\ Node(m, va) = Node(n - 1, u)
          /\ PIndex(m, va) = PIndex(n - 1, u)
      BY <2>1, <2>3, NodeUp
    <2>5. m = n - 1 /\ \A l \in 0..3 : l < m => PIndex(l, va) = PIndex(l, u)
      BY <1>2, <2>3, <2>4
    <2>6. QED BY <2>3, <2>4, <2>5
  <1> HIDE DEF Agree
  <1>3. /\ \A n \in 0..3 : Agree(1, n)
        /\ \A n \in 0..3 : Agree(2, n)
        /\ \A n \in 0..3 : Agree(3, n)
    <2>1. \A n \in 0..3 : Agree(0 + 1, n)
      BY <1>1, <1>2
    <2>2. \A n \in 0..3 : Agree(1 + 1, n)
      BY <2>1, <1>2
    <2>3. \A n \in 0..3 : Agree(2 + 1, n)
      BY <2>2, <1>2
    <2>4. QED BY <2>1, <2>2, <2>3
  <1>4. Agree(k, j)
    BY <1>1, <1>3
  <1>5. QED BY <1>4 DEF Agree

\* Where the entry of an address is, no other address has its entry.
LEMMA EntriesDistinct ==
  ASSUME TypeOK, TablesAreRight, OnePageOneOwner,
         NEW va \in VPages, NEW u \in VPages, LeafTable(va) # Null,
         LeafTable(u) = LeafTable(va), PIndex(3, u) = PIndex(3, va)
  PROVE  u = va
  <1>1. Node(3, va) = LeafTable(va) /\ Node(3, u) = LeafTable(u)
    BY DEF Node
  <1>2. \A l \in 0..3 : l < 3 => PIndex(l, va) = PIndex(l, u)
    BY <1>1, NodesDistinct
  <1>3. \A l \in 0..3 : PIndex(l, va) = PIndex(l, u)
    BY <1>2
  <1>4. QED BY <1>3, IndicesDetermine

-----------------------------------------------------------------------------
(* What a step does to the tables.                                         *)

LEMMA NodeStepNext ==
  ASSUME NEW va, NEW k \in 0..2
  PROVE  Node(k + 1, va)' =
           IF Node(k, va)' # Null /\ mem'[Node(k, va)'][PIndex(k, va)].kind = "table"
           THEN mem'[Node(k, va)'][PIndex(k, va)].to ELSE Null
  <1>1. CASE k = 0
    BY <1>1 DEF Node, NextTable
  <1>2. CASE k = 1
    BY <1>2 DEF Node, NextTable
  <1>3. CASE k = 2
    <2>1. Node(2, va)' = NextTable(NextTable(vttbr, 0, va), 1, va)'
      BY DEF Node
    <2>2. Node(3, va)' = NextTable(NextTable(NextTable(vttbr, 0, va), 1, va), 2, va)'
      BY DEF Node, LeafTable
    <2>3. Node(3, va)' =
            IF Node(2, va)' # Null /\ mem'[Node(2, va)'][PIndex(2, va)].kind = "table"
            THEN mem'[Node(2, va)'][PIndex(2, va)].to ELSE Null
      BY <2>1, <2>2 DEF NextTable
    <2>4. QED BY <1>3, <2>3
  <1>4. QED BY <1>1, <1>2, <1>3

\* A step that leaves the tables of levels 0 to 2 alone leads every address to
\* the same tables.
LEMMA NodesKept ==
  ASSUME vttbr' = vttbr,
         \A va \in VPages, k \in 0..2 : Node(k, va) # Null =>
           mem'[Node(k, va)][PIndex(k, va)] = mem[Node(k, va)][PIndex(k, va)]
  PROVE  \A va \in VPages, k \in 0..3 : Node(k, va)' = Node(k, va)
  <1> SUFFICES ASSUME NEW va \in VPages
               PROVE  \A k \in 0..3 : Node(k, va)' = Node(k, va)
    OBVIOUS
  <1>1. Node(0, va)' = Node(0, va)
    BY DEF Node
  <1>2. ASSUME NEW k \in 0..2, Node(k, va)' = Node(k, va)
        PROVE  Node(k + 1, va)' = Node(k + 1, va)
    BY <1>2, NodeStep, NodeStepNext DEF NextTable
  <1>3. Node(0 + 1, va)' = Node(0 + 1, va)
    BY <1>1, <1>2
  <1>4. Node(1 + 1, va)' = Node(1 + 1, va)
    BY <1>2, <1>3
  <1>5. Node(2 + 1, va)' = Node(2 + 1, va)
    BY <1>2, <1>4
  <1>6. QED BY <1>1, <1>3, <1>4, <1>5

LEMMA LeafIs ==
  ASSUME NEW va
  PROVE  /\ Leaf(va) = IF Node(3, va) = Null THEN Zero ELSE mem[Node(3, va)][PIndex(3, va)]
         /\ Leaf(va)' = IF Node(3, va)' = Null THEN Zero ELSE mem'[Node(3, va)'][PIndex(3, va)]
  <1>1. Node(3, va) = LeafTable(va) /\ Node(3, va)' = LeafTable(va)'
    BY DEF Node
  <1>2. QED BY <1>1 DEF Leaf

\* A table word of a step's next state.
LEMMA TableWordIs ==
  ASSUME NEW level \in 0..3, NEW word
  PROVE  TableWord(level, word)' <=> TableWord(level, word)
  BY DEF TableWord, Zero, Table, PageDesc

LEMMA TablesKept ==
  ASSUME TablesAreRight,
         \A va \in VPages, k \in 0..3 : Node(k, va)' = Node(k, va),
         \A va \in VPages, k \in 0..3 : Node(k, va) # Null =>
           \A i \in Idx : TableWord(k, mem'[Node(k, va)][i])
  PROVE  TablesAreRight'
  BY TableWordIs DEF TablesAreRight

\* The translation is as it was, and no address loses its last-level table.
TreeKept ==
  /\ translation' = translation
  /\ \A va \in VPages : Leaf(va)' = Leaf(va) /\ (Node(3, va) # Null => Node(3, va)' # Null)

\* The tables of the last level are as they were.
LEMMA LeavesKept ==
  ASSUME \A va \in VPages : Leaf(va)' = Leaf(va)
  PROVE  /\ (\A va \in VPages : Node(3, va) # Null => Node(3, va)' # Null) => TreeKept
         /\ DeviceAtItsAddress /\ cfg' = cfg => DeviceAtItsAddress'
  <1>1. {v \in VPages : Leaf(v).kind = "page"}' = {v \in VPages : Leaf(v).kind = "page"}
    OBVIOUS
  <1>2. translation' = translation
    BY <1>1 DEF translation
  <1>3. QED BY <1>2 DEF DeviceAtItsAddress, PageDesc, TreeKept

-----------------------------------------------------------------------------
(* Owners, word by word.                                                   *)

IsFree(words) ==
  /\ words[0].to \in Pages \cup {Null}
  /\ words = [Cleared EXCEPT ![0] = Link(words[0].to)]
IsGuests(words) == \A i \in Idx : words[i].kind \in {"zero", "image", "dtb", "rootfs"}

\* A place that holds an address is the only one to hold it.
LEMMA Apart ==
  ASSUME OnePageOneOwner
  PROVE  /\ \A q, r \in Pages, i, j \in Idx :
              WordTarget(mem[q][i]) \in Pages /\ WordTarget(mem[r][j]) = WordTarget(mem[q][i])
              => q = r /\ i = j
         /\ \A q \in Pages, i \in Idx : WordTarget(mem[q][i]) \in Pages =>
              /\ WordTarget(mem[q][i]) # freelist /\ WordTarget(mem[q][i]) # vttbr
              /\ WordTarget(mem[q][i]) # page /\ InPool(WordTarget(mem[q][i]))
         /\ freelist \in Pages => freelist # vttbr /\ freelist # page /\ InPool(freelist)
         /\ vttbr \in Pages => vttbr # page /\ InPool(vttbr)
         /\ page \in Pages => InPool(page)
  <1>1. ASSUME NEW q \in Pages, NEW r \in Pages, NEW i \in Idx, NEW j \in Idx,
               WordTarget(mem[q][i]) \in Pages, WordTarget(mem[r][j]) = WordTarget(mem[q][i])
        PROVE  q = r /\ i = j
    <2>1. /\ <<q, i>> \in Places /\ <<r, j>> \in Places
          /\ Target(<<q, i>>) = WordTarget(mem[q][i]) /\ Target(<<r, j>>) = WordTarget(mem[r][j])
      BY PlaceIs, TargetIs
    <2>2. <<q, i>> = <<r, j>>
      BY <1>1, <2>1, OnePlace
    <2>3. QED BY <2>2
  <1>2. ASSUME NEW q \in Pages, NEW i \in Idx, WordTarget(mem[q][i]) \in Pages
        PROVE  /\ WordTarget(mem[q][i]) # freelist /\ WordTarget(mem[q][i]) # vttbr
               /\ WordTarget(mem[q][i]) # page /\ InPool(WordTarget(mem[q][i]))
    <2>1. Target(<<q, i>>) = WordTarget(mem[q][i]) /\ <<q, i>> \in Places
      BY TargetIs, PlaceIs
    <2>2. InPool(WordTarget(mem[q][i]))
      BY <1>2, <2>1 DEF OnePageOneOwner
    <2>3. QED BY <1>2, <2>1, <2>2, OnePlace, PlaceIs, TargetIs
  <1>3. /\ freelist \in Pages => freelist # vttbr /\ freelist # page /\ InPool(freelist)
        /\ vttbr \in Pages => vttbr # page /\ InPool(vttbr)
        /\ page \in Pages => InPool(page)
    <2>1. /\ freelist \in Pages => InPool(freelist)
          /\ vttbr \in Pages => InPool(vttbr)
          /\ page \in Pages => InPool(page)
      BY PlaceIs, TargetIs DEF OnePageOneOwner
    <2>2. QED BY <2>1, OnePlace, PlaceIs, TargetIs
  <1>4. QED BY <1>1, <1>2, <1>3

\* What the owners are right about.
LEMMA RightWords ==
  /\ OwnersAreRight =>
       /\ freelist \in Pages => IsFree(mem[freelist])
       /\ page \in Pages => IsGuests(mem[page])
       /\ \A q \in Pages, i \in Idx : WordTarget(mem[q][i]) \in Pages =>
            /\ mem[q][i].kind = "link" => IsFree(mem[mem[q][i].to])
            /\ mem[q][i].kind = "page" => IsGuests(mem[mem[q][i].to])
  /\ /\ freelist' \in Pages => IsFree(mem'[freelist'])
     /\ page' \in Pages => IsGuests(mem'[page'])
     /\ \A q \in Pages, i \in Idx : WordTarget(mem'[q][i]) \in Pages =>
          /\ mem'[q][i].kind = "link" => IsFree(mem'[mem'[q][i].to])
          /\ mem'[q][i].kind = "page" => IsGuests(mem'[mem'[q][i].to])
     => OwnersAreRight'
  <1>1. ASSUME OwnersAreRight, NEW w \in Places, Target(w) \in Pages
        PROVE  /\ Holds(w) = "link" => IsFree(mem[Target(w)])
               /\ Holds(w) = "page" => IsGuests(mem[Target(w)])
    BY <1>1 DEF OwnersAreRight, FreePage, GuestPage, IsFree, IsGuests
  <1>2. ASSUME OwnersAreRight
        PROVE  /\ freelist \in Pages => IsFree(mem[freelist])
               /\ page \in Pages => IsGuests(mem[page])
    BY <1>1, <1>2, PlaceIs, TargetIs
  <1>3. ASSUME OwnersAreRight, NEW q \in Pages, NEW i \in Idx, WordTarget(mem[q][i]) \in Pages
        PROVE  /\ mem[q][i].kind = "link" => IsFree(mem[mem[q][i].to])
               /\ mem[q][i].kind = "page" => IsGuests(mem[mem[q][i].to])
    <2>1. /\ <<q, i>> \in Places /\ Target(<<q, i>>) = WordTarget(mem[q][i])
          /\ Holds(<<q, i>>) = mem[q][i].kind
      BY PlaceIs, TargetIs
    <2>2. mem[q][i].kind \in {"link", "page"} => WordTarget(mem[q][i]) = mem[q][i].to
      BY DEF WordTarget
    <2>3. QED BY <1>1, <1>3, <2>1, <2>2
  <1>4. ASSUME freelist' \in Pages => IsFree(mem'[freelist']),
               page' \in Pages => IsGuests(mem'[page']),
               \A q \in Pages, i \in Idx : WordTarget(mem'[q][i]) \in Pages =>
                 /\ mem'[q][i].kind = "link" => IsFree(mem'[mem'[q][i].to])
                 /\ mem'[q][i].kind = "page" => IsGuests(mem'[mem'[q][i].to])
        PROVE  OwnersAreRight'
    <2>1. SUFFICES ASSUME NEW w \in Places, Target(w)' \in Pages
                   PROVE  /\ Holds(w)' = "link" => IsFree(mem'[Target(w)'])
                          /\ Holds(w)' = "page" => IsGuests(mem'[Target(w)'])
      BY DEF OwnersAreRight, FreePage, GuestPage, IsFree, IsGuests
    <2>2. ASSUME NEW q \in Pages, NEW i \in Idx, w = <<q, i>>
          PROVE  /\ Holds(w)' = "link" => IsFree(mem'[Target(w)'])
                 /\ Holds(w)' = "page" => IsGuests(mem'[Target(w)'])
      <3>1. Target(w)' = WordTarget(mem'[q][i]) /\ Holds(w)' = mem'[q][i].kind
        BY <2>2, TargetIsNext
      <3>2. mem'[q][i].kind \in {"link", "page"} => WordTarget(mem'[q][i]) = mem'[q][i].to
        BY DEF WordTarget
      <3>3. QED BY <1>4, <2>1, <3>1, <3>2
    <2>3. CASE w \in {<<Null, 1>>, <<Null, 2>>, <<Null, 3>>}
      BY <1>4, <2>1, <2>3, TargetIsNext
    <2>4. QED BY <2>2, <2>3, PlaceIs
  <1>5. QED BY <1>2, <1>3, <1>4

-----------------------------------------------------------------------------
(* The steps that change memory.                                           *)

\* The part of the invariant about memory.
MemoryIsRight ==
  /\ mem \in [Pages -> [Idx -> Words]]
  /\ freelist \in Pages \cup {Null} /\ vttbr \in Pages \cup {Null}
  /\ OnePageOneOwner
  /\ OwnersAreRight
  /\ OutsideUntouched
  /\ TablesAreRight
  /\ DeviceAtItsAddress

LEMMA WordFacts ==
  /\ Zero \in Words /\ Cleared \in [Idx -> Words] /\ IsGuests(Cleared)
  /\ \A to \in Nat : Link(to) \in Words /\ Table(to) \in Words /\ PageDesc(to) \in Words
  /\ WordTarget(Zero) = Null
  /\ \A to \in Nat : /\ WordTarget(Link(to)) = to /\ WordTarget(Table(to)) = to
                     /\ WordTarget(PageDesc(to)) = to
  /\ \A what \in {"image", "dtb", "rootfs"}, n \in Nat :
       Filled(what, n) \in [Idx -> Words] /\ IsGuests(Filled(what, n))
  <1>1. Zero \in Words /\ \A i \in Idx : Cleared[i] = Zero
    BY DEF Zero, Words, Kinds, Null, Cleared
  <1>2. Cleared \in [Idx -> Words] /\ IsGuests(Cleared)
    BY <1>1 DEF Cleared, IsGuests, Zero
  <1>3. \A to \in Nat : Link(to) \in Words /\ Table(to) \in Words /\ PageDesc(to) \in Words
    BY DEF Link, Table, PageDesc, Words, Kinds
  <1>4. WordTarget(Zero) = Null
    BY DEF WordTarget, Zero
  <1>5. \A to \in Nat : /\ WordTarget(Link(to)) = to /\ WordTarget(Table(to)) = to
                        /\ WordTarget(PageDesc(to)) = to
    BY DEF WordTarget, Link, Table, PageDesc
  <1>6. ASSUME NEW what \in {"image", "dtb", "rootfs"}, NEW n \in Nat
        PROVE  Filled(what, n) \in [Idx -> Words] /\ IsGuests(Filled(what, n))
    <2>1. Data(what, n) \in Words
      BY DEF Data, Words, Kinds
    <2>2. QED BY <2>1 DEF Filled, IsGuests, Data
  <1>7. QED BY <1>1, <1>2, <1>3, <1>4, <1>5, <1>6

\* A page of the guest holds no address.
LEMMA GuestsHoldNothing ==
  ASSUME NEW words, IsGuests(words), NEW i \in Idx
  PROVE  WordTarget(words[i]) = Null
  BY DEF IsGuests, WordTarget

\* A free page holds its link.
LEMMA FreeHoldsLink ==
  ASSUME NEW words, IsFree(words)
  PROVE  /\ words[0] = Link(words[0].to) /\ WordTarget(words[0]) = words[0].to
         /\ \A i \in Idx : i # 0 => words[i] = Zero /\ WordTarget(words[i]) = Null
  <1>1. words = [Cleared EXCEPT ![0] = Link(words[0].to)] /\ words[0].to \in Nat
    BY Basics DEF IsFree, Null
  <1>2. words[0] = Link(words[0].to) /\ \A i \in Idx : i # 0 => words[i] = Zero
    BY <1>1, Basics DEF Cleared
  <1>3. QED BY <1>1, <1>2, WordFacts

LEMMA FreeWords ==
  ASSUME NEW to \in Pages \cup {Null}
  PROVE  /\ [Cleared EXCEPT ![0] = Link(to)] \in [Idx -> Words]
         /\ IsFree([Cleared EXCEPT ![0] = Link(to)])
         /\ [Cleared EXCEPT ![0] = Link(to)][0].to = to
  <1> DEFINE words == [Cleared EXCEPT ![0] = Link(to)]
  <1>1. to \in Nat
    BY Basics DEF Null
  <1>2. words \in [Idx -> Words]
    BY <1>1, WordFacts
  <1>3. words[0] = Link(to)
    BY Basics DEF Cleared
  <1>4. words[0].to = to
    BY <1>3 DEF Link
  <1>5. QED BY <1>2, <1>4 DEF IsFree

\* The page that alloc_one_page takes off the free list.
LEMMA TakeFacts ==
  ASSUME Structure, NEW pg \in Pages, Take(pg)
  PROVE  /\ freelist = pg /\ InPool(pg) /\ page # pg /\ vttbr # pg
         /\ freelist' \in Pages \cup {Null} /\ freelist' # pg
         /\ mem[pg][0] = Link(freelist') /\ \A i \in Idx : i # 0 => mem[pg][i] = Zero
         /\ \A q \in Pages, i \in Idx : WordTarget(mem[q][i]) # pg
         /\ \A va \in VPages, k \in 0..3 : Node(k, va) # pg
         /\ freelist' \in Pages =>
              /\ IsFree(mem[freelist']) /\ page # freelist' /\ vttbr # freelist'
              /\ \A q \in Pages, i \in Idx : WordTarget(mem[q][i]) = freelist' => q = pg /\ i = 0
              /\ \A va \in VPages, k \in 0..3 : Node(k, va) # freelist'
  <1> USE DEF Structure
  <1>1. freelist = pg /\ freelist' = mem[pg][0].to
    BY DEF Take
  <1>2. IsFree(mem[pg])
    BY <1>1, RightWords
  <1>3. /\ mem[pg][0] = Link(freelist') /\ \A i \in Idx : i # 0 => mem[pg][i] = Zero
        /\ WordTarget(mem[pg][0]) = freelist' /\ freelist' \in Pages \cup {Null}
    BY <1>1, <1>2, FreeHoldsLink DEF IsFree
  <1>4. /\ InPool(pg) /\ page # pg /\ vttbr # pg
        /\ \A q \in Pages, i \in Idx : WordTarget(mem[q][i]) # pg
    BY <1>1, Apart, Basics
  <1>5. freelist' # pg
    BY <1>3, <1>4, Basics
  <1>6. \A va \in VPages, k \in 0..3 : Node(k, va) # pg
    BY <1>1, NodeIsNotOther, PlaceIs, TargetIs
  <1>7. ASSUME freelist' \in Pages
        PROVE  /\ IsFree(mem[freelist']) /\ page # freelist' /\ vttbr # freelist'
               /\ \A q \in Pages, i \in Idx : WordTarget(mem[q][i]) = freelist' => q = pg /\ i = 0
               /\ \A va \in VPages, k \in 0..3 : Node(k, va) # freelist'
    <2>1. mem[pg][0].kind = "link"
      BY <1>3 DEF Link
    <2>2. IsFree(mem[freelist'])
      BY <1>1, <1>3, <1>7, <2>1, Basics, RightWords
    <2>3. page # freelist' /\ vttbr # freelist'
      BY <1>3, <1>7, Apart, Basics
    <2>4. ASSUME NEW q \in Pages, NEW i \in Idx, WordTarget(mem[q][i]) = freelist'
          PROVE  q = pg /\ i = 0
      <3>1. 0 \in Idx /\ WordTarget(mem[pg][0]) \in Pages
            /\ WordTarget(mem[q][i]) = WordTarget(mem[pg][0])
        BY <1>3, <1>7, <2>4, Basics
      <3>2. QED BY <3>1, Apart
    <2>5. /\ <<pg, 0>> \in Places /\ Target(<<pg, 0>>) = freelist' /\ Holds(<<pg, 0>>) = "link"
      BY <1>3, <2>1, Basics, PlaceIs, TargetIs
    <2>6. \A va \in VPages, k \in 0..3 : Node(k, va) # freelist'
      BY <1>7, <2>5, NodeIsNotOther
    <2>7. QED BY <2>2, <2>3, <2>4, <2>6
  <1>8. QED BY <1>1, <1>3, <1>4, <1>5, <1>6, <1>7

\* Steps that leave memory alone.
LEMMA MemorySame ==
  ASSUME Structure, UNCHANGED <<mem, freelist, vttbr, cfg>>,
         page' = page \/ (page \notin Pages /\ page' \notin Pages),
         \A pg \in Pages : InPool(pg)' <=> InPool(pg)
  PROVE  /\ MemoryIsRight' /\ TreeKept
         /\ \A va \in VPages, k \in 0..3 : Node(k, va)' = Node(k, va)
  <1> USE DEF Structure, TypeOK
  <1>1. \A va \in VPages, k \in 0..3 : Node(k, va)' = Node(k, va)
    BY NodesKept
  <1>2. \A va \in VPages : Leaf(va)' = Leaf(va)
    BY <1>1, LeafIs
  <1>3. TablesAreRight'
    BY <1>1, TablesKept DEF TablesAreRight
  <1>4. OwnersAreRight'
    BY RightWords
  <1>5. OutsideUntouched'
    BY DEF OutsideUntouched
  <1>6. OnePageOneOwner'
    <2>1. \A w \in Places : Target(w) = Target(w)' \/ (Target(w) \notin Pages /\ Target(w)' \notin Pages)
      <3>1. SUFFICES ASSUME NEW w \in Places
                     PROVE  Target(w) = Target(w)' \/ (Target(w) \notin Pages /\ Target(w)' \notin Pages)
        OBVIOUS
      <3>2. ASSUME NEW q \in Pages, NEW i \in Idx, w = <<q, i>> PROVE Target(w) = Target(w)'
        BY <3>2, TargetIs, TargetIsNext
      <3>3. CASE w \in {<<Null, 1>>, <<Null, 2>>, <<Null, 3>>}
        BY <3>3, TargetIs, TargetIsNext
      <3>4. QED BY <3>2, <3>3, PlaceIs
    <2>2. QED BY <2>1, OwnersSame
  <1>7. QED BY <1>1, <1>2, <1>3, <1>4, <1>5, <1>6, LeavesKept DEF MemoryIsRight

\* A page is allocated, filled and kept in hand (do_memory_mapping).
LEMMA TakeInHand ==
  ASSUME Structure, page = Null, NEW pg \in Pages, Take(pg),
         NEW words \in [Idx -> Words], IsGuests(words),
         mem' = [mem EXCEPT ![pg] = words], page' = pg, UNCHANGED <<vttbr, cfg>>,
         \A q \in Pages : InPool(q)' <=> InPool(q)
  PROVE  /\ MemoryIsRight' /\ TreeKept
         /\ \A va \in VPages, k \in 0..3 : Node(k, va)' = Node(k, va)
  <1> USE DEF Structure, TypeOK
  <1>1. mem' \in [Pages -> [Idx -> Words]] /\ freelist' \in Pages \cup {Null}
    BY TakeFacts
  <1>2. mem'[pg] = words /\ \A q \in Pages : q # pg => mem'[q] = mem[q]
    OBVIOUS
  <1>3. \A i \in Idx : WordTarget(mem'[pg][i]) = Null
    BY <1>2, GuestsHoldNothing
  <1>4. \A va \in VPages, k \in 0..3 : Node(k, va) # Null =>
          Node(k, va) \in Pages /\ mem'[Node(k, va)] = mem[Node(k, va)]
    BY <1>2, TakeFacts DEF TablesAreRight
  <1>5. \A va \in VPages, k \in 0..3 : Node(k, va)' = Node(k, va)
    BY <1>4, NodesKept
  <1>6. \A va \in VPages : Leaf(va)' = Leaf(va)
    BY <1>4, <1>5, LeafIs
  <1>7. TablesAreRight'
    BY <1>4, <1>5, TablesKept DEF TablesAreRight
  <1>8. OwnersAreRight'
    <2>1. freelist' \in Pages => IsFree(mem'[freelist'])
      BY <1>2, TakeFacts
    <2>2. page' \in Pages => IsGuests(mem'[page'])
      BY <1>2
    <2>3. ASSUME NEW q \in Pages, NEW i \in Idx, WordTarget(mem'[q][i]) \in Pages
          PROVE  /\ mem'[q][i].kind = "link" => IsFree(mem'[mem'[q][i].to])
                 /\ mem'[q][i].kind = "page" => IsGuests(mem'[mem'[q][i].to])
      <3>1. q # pg /\ mem'[q] = mem[q]
        BY <1>2, <1>3, <2>3, Basics
      <3>2. WordTarget(mem[q][i]) # pg
        BY TakeFacts
      <3>3. mem[q][i].kind \in {"link", "page"} =>
              WordTarget(mem[q][i]) = mem[q][i].to /\ mem'[mem[q][i].to] = mem[mem[q][i].to]
        BY <1>2, <2>3, <3>1, <3>2 DEF WordTarget
      <3>4. QED BY <2>3, <3>1, <3>3, RightWords
    <2>4. QED BY <2>1, <2>2, <2>3, RightWords
  <1>9. OutsideUntouched'
    <2>1. \A q \in Pages : InPool(q) \/ mem'[q] = Cleared
      BY <1>2, TakeFacts DEF OutsideUntouched
    <2>2. QED BY <2>1 DEF OutsideUntouched, Cleared, Zero
  <1>10. OnePageOneOwner'
    <2> DEFINE a == <<Null, 1>>
               b == <<pg, 0>>
               c == <<Null, 3>>
    <2>1. /\ a \in Places /\ b \in Places /\ c \in Places /\ a # b /\ a # c /\ b # c
      BY PlaceIs, Basics
    <2>2. /\ Target(a) = pg /\ Target(b) = freelist' /\ Target(c) = Null
      <3>1. WordTarget(mem[pg][0]) = freelist'
        BY TakeFacts, WordFacts, Basics DEF Null
      <3>2. QED BY <3>1, TakeFacts, TargetIs, Basics
    <2>3. /\ Target(a)' = freelist' /\ Target(b)' = Null /\ Target(c)' = pg
      BY <1>3, TargetIsNext, Basics
    <2>4. ASSUME NEW w \in Places, w \notin {a, b, c}
          PROVE  Target(w)' = Target(w)
      <3>1. ASSUME NEW q \in Pages, NEW i \in Idx, w = <<q, i>>
            PROVE  Target(w)' = Target(w)
        <4>1. CASE q = pg
          <5>1. i # 0
            BY <2>4, <3>1, <4>1
          <5>2. WordTarget(mem[pg][i]) = Null
            BY <5>1, TakeFacts, WordFacts
          <5>3. QED BY <1>3, <3>1, <4>1, <5>2, TargetIs, TargetIsNext
        <4>2. CASE q # pg
          BY <1>2, <3>1, <4>2, TargetIs, TargetIsNext
        <4>3. QED BY <4>1, <4>2
      <3>2. CASE w = <<Null, 2>>
        BY <3>2, TargetIs, TargetIsNext
      <3>3. QED BY <2>4, <3>1, <3>2, PlaceIs
    <2> HIDE DEF a, b, c
    <2>5. QED BY <2>1, <2>2, <2>3, <2>4, OwnersRotate
  <1>11. QED BY <1>1, <1>5, <1>6, <1>7, <1>8, <1>9, <1>10, LeavesKept DEF MemoryIsRight

\* The entry of the walk.
LEMMA EntryFacts ==
  ASSUME Structure, pc = "walk"
  PROVE  /\ walk.va \in VPages /\ walk.level \in 0..3
         /\ PIndex(walk.level, walk.va) \in Idx
         /\ walk.pgt \in Pages /\ walk.pgt = Node(walk.level, walk.va)
         /\ TableWord(walk.level, Entry) /\ Entry \in Words
         /\ InPool(walk.pgt) /\ walk.pgt # freelist /\ walk.pgt # page
         /\ \A q \in Pages, i \in Idx :
              mem[q][i].kind \in {"link", "page"} => mem[q][i].to # walk.pgt
         /\ vttbr \in Pages
  <1> USE DEF Structure, TypeOK, WalkOnPath
  <1>1. /\ walk.va \in VPages /\ walk.level \in 0..3 /\ PIndex(walk.level, walk.va) \in Idx
        /\ walk.pgt = Node(walk.level, walk.va)
    BY Basics, PIndexIsIndex
  <1>2. walk.pgt \in Pages /\ TableWord(walk.level, Entry)
    BY <1>1 DEF TablesAreRight, Entry
  <1>3. Entry \in Words
    BY <1>1, <1>2 DEF Entry
  <1>4. PICK w \in Places : Target(w) = walk.pgt /\ Holds(w) = "table"
    BY <1>1, <1>2, Basics, NodeOwned
  <1>5. InPool(walk.pgt)
    BY <1>2, <1>4 DEF OnePageOneOwner
  <1>6. walk.pgt # freelist /\ walk.pgt # page
    BY <1>1, <1>2, NodeIsNotOther, PlaceIs, TargetIs
  <1>7. ASSUME NEW q \in Pages, NEW i \in Idx, mem[q][i].kind \in {"link", "page"}
        PROVE  mem[q][i].to # walk.pgt
    <2>1. /\ <<q, i>> \in Places /\ Target(<<q, i>>) = mem[q][i].to
          /\ Holds(<<q, i>>) = mem[q][i].kind
      BY <1>7, PlaceIs, TargetIs DEF WordTarget
    <2>2. QED BY <1>1, <1>2, <1>7, <2>1, NodeIsNotOther
  <1>8. vttbr \in Pages
    BY DEF InHand
  <1>9. QED BY <1>1, <1>2, <1>3, <1>5, <1>6, <1>7, <1>8

\* create_guest_mapping writes the descriptor of the page in hand.
LEMMA LeafSet ==
  ASSUME Structure, pc = "walk", walk.level = 3, Entry = Zero,
         page \in Pages \cup {Device}, page = Device => walk.va = cfg.device,
         mem' = SetEntry(PageDesc(page)), page' = Null, UNCHANGED <<freelist, vttbr, cfg>>,
         \A q \in Pages : InPool(q)' <=> InPool(q)
  PROVE  /\ MemoryIsRight'
         /\ \A va \in VPages, k \in 0..3 : Node(k, va)' = Node(k, va)
         /\ \A va \in VPages : va = walk.va => Leaf(va) = Zero /\ Leaf(va)' = PageDesc(page)
         /\ \A va \in VPages : va # walk.va => Leaf(va)' = Leaf(va)
  <1> USE DEF Structure, TypeOK
  <1>0. PICK t \in Pages, v \in VPages : t = walk.pgt /\ v = walk.va
    BY EntryFacts
  <1> DEFINE x == PIndex(3, v)
  <1>1. /\ t = Node(3, v) /\ x \in Idx /\ t # Null
        /\ mem[t][x] = Zero /\ page \in Nat
    BY <1>0, EntryFacts, Basics DEF Entry
  <1>2. /\ mem' \in [Pages -> [Idx -> Words]]
        /\ mem'[t][x] = PageDesc(page) /\ \A i \in Idx : i # x => mem'[t][i] = mem[t][i]
        /\ \A q \in Pages : q # t => mem'[q] = mem[q]
    BY <1>0, <1>1, WordFacts DEF SetEntry
  <1>3. \A va \in VPages, k \in 0..3 : Node(k, va) # Null =>
          Node(k, va) \in Pages /\ (Node(k, va) = t => k = 3)
    BY <1>1, NodesDistinct DEF TablesAreRight
  <1>4. \A va \in VPages, k \in 0..3 : Node(k, va)' = Node(k, va)
    BY <1>2, <1>3, NodesKept
  <1>5. TablesAreRight'
    <2>1. ASSUME NEW va \in VPages, NEW k \in 0..3, Node(k, va) # Null, NEW i \in Idx
          PROVE  TableWord(k, mem'[Node(k, va)][i])
      <3>1. TableWord(k, mem[Node(k, va)][i])
        BY <2>1 DEF TablesAreRight
      <3>2. CASE Node(k, va) = t /\ i = x
        <4>1. k = 3 /\ mem'[Node(k, va)][i] = PageDesc(page)
          BY <1>2, <1>3, <2>1, <3>2
        <4>2. TableWord(3, PageDesc(page))
          BY DEF TableWord, PageDesc
        <4>3. QED BY <4>1, <4>2
      <3>3. CASE ~(Node(k, va) = t /\ i = x)
        BY <1>2, <1>3, <2>1, <3>1, <3>3
      <3>4. QED BY <3>2, <3>3
    <2>2. QED BY <1>4, <2>1, TablesKept
  <1>6. Leaf(v) = Zero /\ Leaf(v)' = PageDesc(page)
    BY <1>1, <1>2, <1>4, LeafIs
  <1>7. ASSUME NEW va \in VPages, va # v PROVE Leaf(va)' = Leaf(va)
    <2>1. CASE Node(3, va) = Null
      BY <1>4, <2>1, LeafIs
    <2>2. CASE Node(3, va) # Null
      <3>1. ~(Node(3, va) = t /\ PIndex(3, va) = x)
        <4>1. LeafTable(va) = Node(3, va) /\ LeafTable(v) = Node(3, v)
          BY DEF Node
        <4>2. QED BY <1>1, <1>7, <4>1, EntriesDistinct
      <3>2. PIndex(3, va) \in Idx /\ Node(3, va) \in Pages
        BY <1>3, <2>2, Basics, PIndexIsIndex
      <3>3. mem'[Node(3, va)][PIndex(3, va)] = mem[Node(3, va)][PIndex(3, va)]
        BY <1>2, <3>1, <3>2
      <3>4. QED BY <1>4, <2>2, <3>3, LeafIs
    <2>3. QED BY <2>1, <2>2
  <1>8. DeviceAtItsAddress'
    <2>1. PageDesc(page) = PageDesc(Device) => page = Device
      BY DEF PageDesc
    <2>2. \A va \in VPages : Leaf(va)' = PageDesc(Device) => va = cfg.device
      <3>1. page = Device => v = cfg.device
        BY <1>0
      <3>2. QED BY <1>6, <1>7, <2>1, <3>1 DEF DeviceAtItsAddress
    <2>3. QED BY <2>2 DEF DeviceAtItsAddress, PageDesc
  <1>9. OwnersAreRight'
    <2>1. freelist' \in Pages => IsFree(mem'[freelist'])
      BY <1>0, <1>2, EntryFacts, RightWords
    <2>2. page' \notin Pages
      BY Basics
    <2>3. ASSUME NEW q \in Pages, NEW i \in Idx, WordTarget(mem'[q][i]) \in Pages
          PROVE  /\ mem'[q][i].kind = "link" => IsFree(mem'[mem'[q][i].to])
                 /\ mem'[q][i].kind = "page" => IsGuests(mem'[mem'[q][i].to])
      <3>1. CASE q = t /\ i = x
        <4>1. WordTarget(mem'[q][i]) = page /\ mem'[q][i].kind = "page" /\ mem'[q][i].to = page
          BY <1>1, <1>2, <3>1, WordFacts DEF PageDesc
        <4>2. mem'[page] = mem[page] /\ IsGuests(mem[page])
          BY <1>0, <1>2, <2>3, <4>1, EntryFacts, RightWords
        <4>3. QED BY <4>1, <4>2
      <3>2. CASE ~(q = t /\ i = x)
        <4>1. mem'[q][i] = mem[q][i]
          BY <1>2, <3>2
        <4>2. mem[q][i].kind \in {"link", "page"} =>
                mem[q][i].to \in Pages /\ mem'[mem[q][i].to] = mem[mem[q][i].to]
          BY <1>0, <1>2, <2>3, <4>1, EntryFacts DEF WordTarget
        <4>3. QED BY <2>3, <4>1, <4>2, RightWords
      <3>3. QED BY <3>1, <3>2
    <2>4. QED BY <2>1, <2>2, <2>3, RightWords
  <1>10. OutsideUntouched'
    <2>1. \A q \in Pages : InPool(q) \/ mem'[q] = Cleared
      BY <1>0, <1>2, EntryFacts DEF OutsideUntouched
    <2>2. QED BY <2>1 DEF OutsideUntouched, Cleared, Zero
  <1>11. OnePageOneOwner'
    <2> DEFINE a == <<Null, 3>>
               b == <<t, x>>
    <2>1. a \in Places /\ b \in Places /\ a # b
      BY <1>1, PlaceIs
    <2>2. /\ Target(a) = page /\ Target(b) = Null /\ Target(a)' = Null /\ Target(b)' = page
      <3>1. WordTarget(mem[t][x]) = Null /\ WordTarget(mem'[t][x]) = page
        BY <1>1, <1>2, WordFacts
      <3>2. QED BY <1>1, <3>1, TargetIs, TargetIsNext
    <2>3. ASSUME NEW w \in Places, w \notin {a, b}
          PROVE  Target(w)' = Target(w)
      <3>1. ASSUME NEW q \in Pages, NEW i \in Idx, w = <<q, i>>
            PROVE  Target(w)' = Target(w)
        <4>1. mem'[q][i] = mem[q][i]
          BY <1>2, <2>3, <3>1
        <4>2. QED BY <3>1, <4>1, TargetIs, TargetIsNext
      <3>2. CASE w \in {<<Null, 1>>, <<Null, 2>>}
        BY <3>2, TargetIs, TargetIsNext
      <3>3. QED BY <2>3, <3>1, <3>2, PlaceIs
    <2> HIDE DEF a, b
    <2>4. QED BY <2>1, <2>2, <2>3, OwnersSwap
  <1>12. QED BY <1>0, <1>2, <1>4, <1>5, <1>6, <1>7, <1>8, <1>9, <1>10, <1>11 DEF MemoryIsRight

\* The page of a descriptor belongs to it alone.
LEMMA EntryPage ==
  ASSUME Structure, pc = "walk", walk.level = 3, Entry # Zero
  PROVE  /\ Entry = PageDesc(Entry.to) /\ Entry.to \in Pages \cup {Device}
         /\ Entry.to \in Pages =>
              /\ IsGuests(mem[Entry.to]) /\ InPool(Entry.to)
              /\ Entry.to # freelist /\ Entry.to # page /\ Entry.to # walk.pgt
              /\ \A q \in Pages, i \in Idx : WordTarget(mem[q][i]) = Entry.to =>
                   q = walk.pgt /\ i = PIndex(3, walk.va)
              /\ \A va \in VPages, k \in 0..3 : Node(k, va) # Entry.to
  <1> USE DEF Structure, TypeOK
  <1>0. PICK t \in Pages, v \in VPages : t = walk.pgt /\ v = walk.va
    BY EntryFacts
  <1> DEFINE x == PIndex(3, v)
             g == mem[t][x].to
  <1>1. /\ t = Node(3, v) /\ x \in Idx /\ t # Null /\ Entry = mem[t][x] /\ Entry.to = g
    BY <1>0, EntryFacts, Basics DEF Entry
  <1>2. mem[t][x] = PageDesc(g) /\ g \in Pages \cup {Device}
    BY <1>1, EntryFacts DEF TableWord
  <1>3. ASSUME g \in Pages
        PROVE  /\ IsGuests(mem[g]) /\ InPool(g) /\ g # freelist /\ g # page /\ g # t
               /\ \A q \in Pages, i \in Idx : WordTarget(mem[q][i]) = g => q = t /\ i = x
               /\ \A va \in VPages, k \in 0..3 : Node(k, va) # g
    <2>1. WordTarget(mem[t][x]) = g /\ mem[t][x].kind = "page"
      BY <1>2, Basics, WordFacts DEF PageDesc
    <2>2. IsGuests(mem[g])
      BY <1>1, <1>3, <2>1, RightWords
    <2>3. InPool(g) /\ g # freelist /\ g # page
      BY <1>1, <1>3, <2>1, Apart
    <2>4. \A q \in Pages, i \in Idx : WordTarget(mem[q][i]) = g => q = t /\ i = x
      BY <1>1, <1>3, <2>1, Apart
    <2>5. /\ <<t, x>> \in Places /\ Target(<<t, x>>) = g /\ Holds(<<t, x>>) = "page"
      BY <1>1, <2>1, PlaceIs, TargetIs
    <2>6. \A va \in VPages, k \in 0..3 : Node(k, va) # g
      BY <1>3, <2>5, NodeIsNotOther
    <2>7. QED BY <1>1, <2>2, <2>3, <2>4, <2>6
  <1>4. QED BY <1>0, <1>1, <1>2, <1>3

\* copy_to_ipa writes to a page of the guest.
LEMMA PageFilled ==
  ASSUME Structure, pc = "walk", walk.level = 3, Entry # Zero,
         NEW words \in [Idx -> Words], IsGuests(words),
         mem' = [mem EXCEPT ![Entry.to] = words], UNCHANGED <<freelist, vttbr, cfg, page>>,
         \A q \in Pages : InPool(q)' <=> InPool(q)
  PROVE  /\ MemoryIsRight' /\ TreeKept
         /\ \A va \in VPages, k \in 0..3 : Node(k, va)' = Node(k, va)
  <1> USE DEF Structure, TypeOK
  <1>1. CASE Entry.to = Device
    <2>1. mem' = mem
      BY <1>1, Basics
    <2>2. QED BY <2>1, MemorySame
  <1>2. CASE Entry.to # Device
    <2>0. PICK g \in Pages, t \in Pages, x \in Idx :
            g = Entry.to /\ t = walk.pgt /\ x = PIndex(3, walk.va)
      BY <1>2, EntryPage, EntryFacts
    <2>1. /\ IsGuests(mem[g]) /\ InPool(g) /\ g # freelist /\ g # page
          /\ \A q \in Pages, i \in Idx : WordTarget(mem[q][i]) = g => q = t /\ i = x
          /\ \A va \in VPages, k \in 0..3 : Node(k, va) # g
          /\ mem[t][x].kind = "page"
      BY <2>0, EntryPage DEF Entry, PageDesc
    <2>2. /\ mem' \in [Pages -> [Idx -> Words]]
          /\ mem'[g] = words /\ \A q \in Pages : q # g => mem'[q] = mem[q]
      BY <2>0
    <2>3. \A q \in Pages, i \in Idx : WordTarget(mem'[q][i]) = WordTarget(mem[q][i])
      BY <2>1, <2>2, GuestsHoldNothing
    <2>4. \A va \in VPages, k \in 0..3 : Node(k, va) # Null =>
            Node(k, va) \in Pages /\ mem'[Node(k, va)] = mem[Node(k, va)]
      BY <2>1, <2>2 DEF TablesAreRight
    <2>5. \A va \in VPages, k \in 0..3 : Node(k, va)' = Node(k, va)
      BY <2>4, NodesKept
    <2>6. \A va \in VPages : Leaf(va)' = Leaf(va)
      BY <2>4, <2>5, LeafIs
    <2>7. TablesAreRight'
      BY <2>4, <2>5, TablesKept DEF TablesAreRight
    <2>8. OwnersAreRight'
      <3>1. freelist' \in Pages => IsFree(mem'[freelist'])
        BY <2>1, <2>2, RightWords
      <3>2. page' \in Pages => IsGuests(mem'[page'])
        BY <2>1, <2>2, RightWords
      <3>3. ASSUME NEW q \in Pages, NEW i \in Idx, WordTarget(mem'[q][i]) \in Pages
            PROVE  /\ mem'[q][i].kind = "link" => IsFree(mem'[mem'[q][i].to])
                   /\ mem'[q][i].kind = "page" => IsGuests(mem'[mem'[q][i].to])
        <4>1. q # g /\ mem'[q][i] = mem[q][i] /\ WordTarget(mem[q][i]) \in Pages
          BY <2>2, <3>3, GuestsHoldNothing, Basics
        <4>2. CASE WordTarget(mem[q][i]) = g
          <5>1. mem[q][i].kind = "page" /\ mem[q][i].to = g
            BY <2>1, <4>1, <4>2 DEF WordTarget
          <5>2. QED BY <2>2, <4>1, <5>1
        <4>3. CASE WordTarget(mem[q][i]) # g
          <5>1. mem[q][i].kind \in {"link", "page"} =>
                  mem[q][i].to \in Pages /\ mem'[mem[q][i].to] = mem[mem[q][i].to]
            BY <2>2, <4>1, <4>3 DEF WordTarget
          <5>2. QED BY <4>1, <5>1, RightWords
        <4>4. QED BY <4>2, <4>3
      <3>4. QED BY <3>1, <3>2, <3>3, RightWords
    <2>9. OutsideUntouched'
      <3>1. \A q \in Pages : InPool(q) \/ mem'[q] = Cleared
        BY <2>1, <2>2 DEF OutsideUntouched
      <3>2. QED BY <3>1 DEF OutsideUntouched, Cleared, Zero
    <2>10. OnePageOneOwner'
      <3>1. ASSUME NEW w \in Places PROVE Target(w) = Target(w)'
        <4>1. ASSUME NEW q \in Pages, NEW i \in Idx, w = <<q, i>> PROVE Target(w) = Target(w)'
          BY <2>3, <4>1, TargetIs, TargetIsNext
        <4>2. CASE w \in {<<Null, 1>>, <<Null, 2>>, <<Null, 3>>}
          BY <4>2, TargetIs, TargetIsNext
        <4>3. QED BY <4>1, <4>2, PlaceIs
      <3>2. QED BY <3>1, OwnersSame
    <2>11. QED BY <2>2, <2>5, <2>6, <2>7, <2>8, <2>9, <2>10, LeavesKept DEF MemoryIsRight
  <1>3. QED BY <1>1, <1>2

\* page_unmap frees the page and clears its entry.
LEMMA PageFreed ==
  ASSUME Structure, pc = "walk", walk.level = 3, Entry # Zero, Entry.to \in Pages,
         Free(Entry.to, EntryCleared), UNCHANGED <<vttbr, cfg, page>>,
         \A q \in Pages : InPool(q)' <=> InPool(q)
  PROVE  /\ MemoryIsRight'
         /\ \A va \in VPages, k \in 0..3 : Node(k, va)' = Node(k, va)
         /\ \A va \in VPages : va = walk.va => Leaf(va).kind = "page" /\ Leaf(va)' = Zero
         /\ \A va \in VPages : va # walk.va => Leaf(va)' = Leaf(va)
  <1> USE DEF Structure, TypeOK
  <1>0. PICK g \in Pages, t \in Pages, v \in VPages :
          g = Entry.to /\ t = walk.pgt /\ v = walk.va
    BY EntryPage, EntryFacts
  <1> DEFINE x == PIndex(3, v)
             link == [Cleared EXCEPT ![0] = Link(freelist)]
  <1>1. /\ IsGuests(mem[g]) /\ InPool(g) /\ g # freelist /\ g # page /\ g # t
        /\ \A q \in Pages, i \in Idx : WordTarget(mem[q][i]) = g => q = t /\ i = x
        /\ \A va \in VPages, k \in 0..3 : Node(k, va) # g
        /\ mem[t][x] = PageDesc(g) /\ x \in Idx /\ t = Node(3, v) /\ t # Null
        /\ t # freelist /\ t # page
        /\ \A q \in Pages, i \in Idx :
             mem[q][i].kind \in {"link", "page"} => mem[q][i].to # t
    BY <1>0, EntryPage, EntryFacts, Basics DEF Entry
  <1>2. /\ link \in [Idx -> Words] /\ IsFree(link) /\ link[0].to = freelist
    BY FreeWords
  <1>3. /\ mem' \in [Pages -> [Idx -> Words]] /\ freelist' = g
        /\ mem'[g] = link
        /\ mem'[t][x] = Zero /\ \A i \in Idx : i # x => mem'[t][i] = mem[t][i]
        /\ \A q \in Pages : q # g /\ q # t => mem'[q] = mem[q]
    <2>1. mem' = [[mem EXCEPT ![t][x] = Zero] EXCEPT ![g] = link] /\ freelist' = g
      BY <1>0 DEF Free, EntryCleared, SetEntry
    <2>2. [mem EXCEPT ![t][x] = Zero] \in [Pages -> [Idx -> Words]]
      BY <1>1, WordFacts
    <2> HIDE DEF x, link
    <2>3. QED BY <1>1, <1>2, <2>1, <2>2
  <1> HIDE DEF x, link
  <1>4. \A va \in VPages, k \in 0..3 : Node(k, va) # Null =>
          Node(k, va) \in Pages /\ Node(k, va) # g /\ (Node(k, va) = t => k = 3)
    BY <1>1, NodesDistinct DEF TablesAreRight
  <1>5. \A va \in VPages, k \in 0..3 : Node(k, va)' = Node(k, va)
    BY <1>3, <1>4, NodesKept
  <1>6. TablesAreRight'
    <2>1. ASSUME NEW va \in VPages, NEW k \in 0..3, Node(k, va) # Null, NEW i \in Idx
          PROVE  TableWord(k, mem'[Node(k, va)][i])
      <3>1. TableWord(k, mem[Node(k, va)][i])
        BY <2>1 DEF TablesAreRight
      <3>2. mem'[Node(k, va)][i] \in {Zero, mem[Node(k, va)][i]}
        BY <1>3, <1>4, <2>1
      <3>3. QED BY <3>1, <3>2 DEF TableWord
    <2>2. QED BY <1>5, <2>1, TablesKept
  <1>7. Leaf(v) = PageDesc(g) /\ Leaf(v)' = Zero
    BY <1>1, <1>3, <1>5, LeafIs DEF x
  <1>8. ASSUME NEW va \in VPages, va # v PROVE Leaf(va)' = Leaf(va)
    <2>1. CASE Node(3, va) = Null
      BY <1>5, <2>1, LeafIs
    <2>2. CASE Node(3, va) # Null
      <3>1. ~(Node(3, va) = t /\ PIndex(3, va) = x)
        <4>1. LeafTable(va) = Node(3, va) /\ LeafTable(v) = Node(3, v)
          BY DEF Node
        <4>2. QED BY <1>1, <1>8, <4>1, EntriesDistinct DEF x
      <3>2. PIndex(3, va) \in Idx /\ Node(3, va) \in Pages /\ Node(3, va) # g
        BY <1>4, <2>2, Basics, PIndexIsIndex
      <3>3. mem'[Node(3, va)][PIndex(3, va)] = mem[Node(3, va)][PIndex(3, va)]
        BY <1>3, <3>1, <3>2
      <3>4. QED BY <1>5, <2>2, <3>3, LeafIs
    <2>3. QED BY <2>1, <2>2
  <1>9. DeviceAtItsAddress'
    <2>1. Zero # PageDesc(Device)
      BY DEF PageDesc, Zero
    <2>2. \A va \in VPages : Leaf(va)' = PageDesc(Device) => va = cfg.device
      BY <1>7, <1>8, <2>1 DEF DeviceAtItsAddress
    <2>3. QED BY <2>2 DEF DeviceAtItsAddress, PageDesc
  <1>10. OwnersAreRight'
    <2>1. freelist' \in Pages => IsFree(mem'[freelist'])
      BY <1>2, <1>3
    <2>2. page' \in Pages => IsGuests(mem'[page'])
      BY <1>1, <1>3, RightWords
    <2>3. ASSUME NEW q \in Pages, NEW i \in Idx, WordTarget(mem'[q][i]) \in Pages
          PROVE  /\ mem'[q][i].kind = "link" => IsFree(mem'[mem'[q][i].to])
                 /\ mem'[q][i].kind = "page" => IsGuests(mem'[mem'[q][i].to])
      <3>1. CASE q = g
        <4>1. i = 0 /\ mem'[q][i].kind = "link" /\ mem'[q][i].to = freelist /\ freelist \in Pages
          <5>1. i = 0
            BY <1>2, <1>3, <2>3, <3>1, FreeHoldsLink, Basics
          <5>2. mem'[q][i] = Link(freelist) /\ WordTarget(mem'[q][i]) = freelist
            BY <1>2, <1>3, <3>1, <5>1, FreeHoldsLink
          <5>3. QED BY <2>3, <5>1, <5>2 DEF Link
        <4>2. mem'[freelist] = mem[freelist]
          BY <1>1, <1>3, <4>1
        <4>3. QED BY <4>1, <4>2, RightWords
      <3>2. CASE q # g
        <4>1. mem'[q][i] = mem[q][i] /\ ~(q = t /\ i = x)
          BY <1>1, <1>3, <2>3, <3>2, WordFacts, Basics
        <4>2. mem[q][i].kind \in {"link", "page"} =>
                mem[q][i].to \in Pages /\ mem[q][i].to # g /\ mem[q][i].to # t
          BY <1>1, <2>3, <4>1 DEF WordTarget
        <4>3. QED BY <1>3, <2>3, <4>1, <4>2, RightWords
      <3>3. QED BY <3>1, <3>2
    <2>4. QED BY <2>1, <2>2, <2>3, RightWords
  <1>11. OutsideUntouched'
    <2>1. InPool(t)
      BY <1>0, EntryFacts
    <2>2. \A q \in Pages : InPool(q) \/ mem'[q] = Cleared
      BY <1>1, <1>3, <2>1 DEF OutsideUntouched
    <2>3. QED BY <2>2 DEF OutsideUntouched, Cleared, Zero
  <1>12. OnePageOneOwner'
    <2> DEFINE a == <<Null, 1>>
               b == <<t, x>>
               c == <<g, 0>>
    <2>1. /\ a \in Places /\ b \in Places /\ c \in Places /\ a # b /\ a # c /\ b # c
      BY <1>1, PlaceIs, Basics
    <2>2. /\ Target(a) = freelist /\ Target(b) = g /\ Target(c) = Null
      <3>1. WordTarget(mem[t][x]) = g /\ WordTarget(mem[g][0]) = Null
        BY <1>1, GuestsHoldNothing, WordFacts, Basics
      <3>2. QED BY <1>1, <3>1, TargetIs, Basics
    <2>3. /\ Target(a)' = g /\ Target(b)' = Null /\ Target(c)' = freelist
      <3>1. WordTarget(mem'[t][x]) = Null /\ WordTarget(mem'[g][0]) = freelist
        BY <1>2, <1>3, FreeHoldsLink, WordFacts
      <3>2. QED BY <1>1, <1>3, <3>1, TargetIsNext, Basics
    <2>4. ASSUME NEW w \in Places, w \notin {a, b, c}
          PROVE  Target(w)' = Target(w)
      <3>1. ASSUME NEW q \in Pages, NEW i \in Idx, w = <<q, i>>
            PROVE  Target(w)' = Target(w)
        <4>1. CASE q = g
          <5>1. i # 0
            BY <2>4, <3>1, <4>1
          <5>2. WordTarget(mem[g][i]) = Null /\ WordTarget(mem'[g][i]) = Null
            BY <1>1, <1>2, <1>3, <5>1, GuestsHoldNothing, FreeHoldsLink
          <5>3. QED BY <3>1, <4>1, <5>2, TargetIs, TargetIsNext
        <4>2. CASE q # g
          <5>1. mem'[q][i] = mem[q][i]
            BY <1>3, <2>4, <3>1, <4>2
          <5>2. QED BY <3>1, <5>1, TargetIs, TargetIsNext
        <4>3. QED BY <4>1, <4>2
      <3>2. CASE w \in {<<Null, 2>>, <<Null, 3>>}
        BY <3>2, TargetIs, TargetIsNext
      <3>3. QED BY <2>4, <3>1, <3>2, PlaceIs
    <2> HIDE DEF a, b, c
    <2>5. QED BY <2>1, <2>2, <2>3, <2>4, OwnersRotate
  <1>13. QED BY <1>0, <1>3, <1>5, <1>6, <1>7, <1>8, <1>9, <1>10, <1>11, <1>12
         DEF MemoryIsRight, PageDesc

LEMMA TablesNext ==
  ASSUME \A va \in VPages, k \in 0..3 : Node(k, va)' # Null =>
           Node(k, va)' \in Pages /\ \A i \in Idx : TableWord(k, mem'[Node(k, va)'][i])
  PROVE  TablesAreRight'
  BY TableWordIs DEF TablesAreRight

\* page_walk enters a new table: the way to the address grows by it, and no
\* other address loses or gains a table that leads anywhere.
LEMMA TableEntered ==
  ASSUME Structure, pc = "walk", walk.level < 3, Entry.kind # "table",
         NEW pg \in Pages, Take(pg), mem' = EnterTable(Zeroed(pg), pg),
         UNCHANGED <<vttbr, cfg, page>>,
         \A q \in Pages : InPool(q)' <=> InPool(q)
  PROVE  /\ MemoryIsRight' /\ TreeKept
         /\ \A va \in VPages, k \in 0..3 : va = walk.va /\ k = walk.level + 1 => Node(k, va)' = pg
  <1> USE DEF Structure, TypeOK
  <1>0. PICK t \in Pages, v \in VPages, L \in 0..2 : t = walk.pgt /\ v = walk.va /\ L = walk.level
    BY EntryFacts
  <1> DEFINE x == PIndex(L, v)
             Hit(va) == Node(L, va) = t /\ PIndex(L, va) = x
  <1>1. /\ t = Node(L, v) /\ x \in Idx /\ t # Null /\ mem[t][x] = Zero
        /\ InPool(t) /\ t # page /\ t # pg /\ t # freelist'
        /\ \A q \in Pages, i \in Idx :
             mem[q][i].kind \in {"link", "page"} => mem[q][i].to # t
    <2>1. /\ t = Node(L, v) /\ x \in Idx /\ t # Null
          /\ InPool(t) /\ t # page
          /\ \A q \in Pages, i \in Idx :
               mem[q][i].kind \in {"link", "page"} => mem[q][i].to # t
      BY <1>0, EntryFacts, Basics
    <2>2. Entry = mem[t][x] /\ TableWord(L, Entry)
      BY <1>0, EntryFacts DEF Entry
    <2>3. mem[t][x] = Zero
      BY <2>2 DEF TableWord, Table
    <2>4. t # pg /\ (freelist' \in Pages => t # freelist')
      BY <2>1, TakeFacts
    <2>5. QED BY <2>1, <2>3, <2>4
  <1>2. /\ mem' \in [Pages -> [Idx -> Words]] /\ freelist' \in Pages \cup {Null}
        /\ mem'[pg] = Cleared
        /\ mem'[t][x] = Table(pg) /\ \A i \in Idx : i # x => mem'[t][i] = mem[t][i]
        /\ \A q \in Pages : q # pg /\ q # t => mem'[q] = mem[q]
    <2>1. mem' = [[mem EXCEPT ![pg] = Cleared] EXCEPT ![t][x] = Table(pg)]
      BY <1>0 DEF EnterTable, Zeroed
    <2>2. /\ [mem EXCEPT ![pg] = Cleared] \in [Pages -> [Idx -> Words]]
          /\ Table(pg) \in Words
      BY WordFacts, Basics
    <2>3. freelist' \in Pages \cup {Null}
      BY TakeFacts
    <2> HIDE DEF x
    <2>4. QED BY <1>1, <2>1, <2>2, <2>3
  <1>3. \A va \in VPages, k \in 0..3 : Node(k, va) # Null =>
          Node(k, va) \in Pages /\ Node(k, va) # pg /\ (Node(k, va) = t => k = L)
    BY <1>1, TakeFacts, NodesDistinct DEF TablesAreRight
  <1>4. \A i \in Idx : Cleared[i] = Zero /\ Zero.kind # "table"
    BY DEF Cleared, Zero
  <1>5. Table(pg).kind = "table" /\ Table(pg).to = pg
    BY DEF Table
  <1> HIDE DEF x
  <1>6. ASSUME NEW va \in VPages
        PROVE  \A k \in 0..3 :
                 Node(k, va)' = IF k = L + 1 /\ Hit(va) THEN pg ELSE Node(k, va)
    <2> DEFINE Grown(k) == Node(k, va)' = IF k = L + 1 /\ Hit(va) THEN pg ELSE Node(k, va)
    <2>1. Grown(0)
      BY DEF Node
    <2>2. ASSUME NEW k \in 0..2, Grown(k) PROVE Grown(k + 1)
      <3>0. PIndex(k, va) \in Idx
        BY Basics, PIndexIsIndex
      <3>1. CASE k = L + 1 /\ Hit(va)
        <4>1. Node(k, va)' = pg /\ k + 1 # L + 1
          BY <2>2, <3>1
        <4>2. Node(k + 1, va)' = Null
          BY <1>2, <1>4, <3>0, <4>1, NodeStepNext
        <4>3. Node(L + 1, va) = Null
          BY <1>1, <1>4, <3>1, NodeStep DEF NextTable
        <4>4. Node(k + 1, va) = Null
          BY <3>1, <4>3, NodeStep DEF NextTable
        <4>5. QED BY <4>1, <4>2, <4>4
      <3>2. CASE ~(k = L + 1 /\ Hit(va))
        <4>1. Node(k, va)' = Node(k, va)
          BY <2>2, <3>2
        <4>2. CASE Node(k, va) = Null
          <5>1. Node(k + 1, va)' = Null /\ Node(k + 1, va) = Null
            BY <4>1, <4>2, NodeStep, NodeStepNext DEF NextTable
          <5>2. ~(k + 1 = L + 1 /\ Hit(va))
            BY <1>1, <4>2
          <5>3. QED BY <5>1, <5>2
        <4>3. CASE Node(k, va) = t /\ PIndex(k, va) = x
          <5>1. k = L /\ Hit(va)
            BY <1>1, <1>3, <4>3
          <5>2. Node(k + 1, va)' = pg
            BY <1>1, <1>2, <1>5, <4>1, <4>3, NodeStepNext
          <5>3. QED BY <5>1, <5>2
        <4>4. CASE Node(k, va) # Null /\ ~(Node(k, va) = t /\ PIndex(k, va) = x)
          <5>1. mem'[Node(k, va)][PIndex(k, va)] = mem[Node(k, va)][PIndex(k, va)]
            BY <1>2, <1>3, <3>0, <4>4
          <5>2. Node(k + 1, va)' = Node(k + 1, va)
            BY <4>1, <5>1, NodeStep, NodeStepNext DEF NextTable
          <5>3. ~(k + 1 = L + 1 /\ Hit(va))
            BY <4>4
          <5>4. QED BY <5>2, <5>3
        <4>5. QED BY <4>2, <4>3, <4>4
      <3>3. QED BY <3>1, <3>2
    <2> HIDE DEF Grown
    <2>3. Grown(0 + 1)
      BY <2>1, <2>2
    <2>4. Grown(1 + 1)
      BY <2>2, <2>3
    <2>5. Grown(2 + 1)
      BY <2>2, <2>4
    <2>6. Grown(1) /\ Grown(2) /\ Grown(3)
      BY <2>3, <2>4, <2>5
    <2>7. QED BY <2>1, <2>6 DEF Grown
  <1>7. Hit(v) /\ Node(L + 1, v)' = pg
    BY <1>1, <1>6 DEF x
  <1>8. \A va \in VPages : Leaf(va)' = Leaf(va)
    <2>1. SUFFICES ASSUME NEW va \in VPages PROVE Leaf(va)' = Leaf(va)
      OBVIOUS
    <2>0. PIndex(3, va) \in Idx
      BY Basics, PIndexIsIndex
    <2>2. CASE 3 = L + 1 /\ Hit(va)
      <3>0. Node(3, va)' = pg
        BY <1>6, <2>2
      <3>1. Leaf(va)' = Zero
        BY <1>2, <1>4, <2>0, <3>0, LeafIs
      <3>2. Node(2 + 1, va) = Null
        BY <1>1, <1>4, <2>2, NodeStep DEF NextTable
      <3>3. Leaf(va) = Zero
        BY <3>2, LeafIs
      <3>4. QED BY <3>1, <3>3
    <2>3. CASE ~(3 = L + 1 /\ Hit(va))
      <3>1. Node(3, va)' = Node(3, va)
        BY <1>6, <2>3
      <3>2. Node(3, va) # Null => mem'[Node(3, va)] = mem[Node(3, va)]
        BY <1>2, <1>3
      <3>3. QED BY <3>1, <3>2, LeafIs
    <2>4. QED BY <2>2, <2>3
  <1>9. TablesAreRight'
    <2>1. ASSUME NEW va \in VPages, NEW k \in 0..3, Node(k, va)' # Null
          PROVE  /\ Node(k, va)' \in Pages
                 /\ \A i \in Idx : TableWord(k, mem'[Node(k, va)'][i])
      <3>1. CASE Node(k, va)' = pg
        <4>1. \A i \in Idx : mem'[Node(k, va)'][i] = Zero
          BY <1>2, <1>4, <3>1
        <4>2. QED BY <3>1, <4>1 DEF TableWord
      <3>2. CASE Node(k, va)' # pg
        <4>1. /\ Node(k, va)' = Node(k, va) /\ Node(k, va) \in Pages
              /\ \A i \in Idx : TableWord(k, mem[Node(k, va)][i])
          BY <1>6, <2>1, <3>2 DEF TablesAreRight
        <4>2. ASSUME NEW i \in Idx PROVE TableWord(k, mem'[Node(k, va)][i])
          <5>1. CASE Node(k, va) = t /\ i = x
            <6>1. k < 3 /\ mem'[Node(k, va)][i] = Table(pg)
              BY <1>1, <1>2, <1>3, <5>1
            <6>2. QED BY <6>1, <1>5 DEF TableWord
          <5>2. CASE ~(Node(k, va) = t /\ i = x)
            <6>1. mem'[Node(k, va)][i] = mem[Node(k, va)][i]
              BY <1>2, <1>3, <2>1, <4>1, <5>2
            <6>2. QED BY <4>1, <6>1
          <5>3. QED BY <5>1, <5>2
        <4>3. QED BY <4>1, <4>2
      <3>3. QED BY <3>1, <3>2
    <2>2. QED BY <2>1, TablesNext
  <1>10. OwnersAreRight'
    <2>1. freelist' \in Pages => IsFree(mem'[freelist'])
      BY <1>1, <1>2, TakeFacts
    <2>2. page' \in Pages => IsGuests(mem'[page'])
      BY <1>1, <1>2, TakeFacts, RightWords
    <2>3. ASSUME NEW q \in Pages, NEW i \in Idx, WordTarget(mem'[q][i]) \in Pages
          PROVE  /\ mem'[q][i].kind = "link" => IsFree(mem'[mem'[q][i].to])
                 /\ mem'[q][i].kind = "page" => IsGuests(mem'[mem'[q][i].to])
      <3>1. CASE q = t /\ i = x
        <4>1. mem'[q][i].kind = "table"
          BY <1>2, <1>5, <3>1
        <4>2. QED BY <4>1
      <3>2. CASE ~(q = t /\ i = x)
        <4>1. q # pg
          BY <1>2, <1>4, <2>3, WordFacts, Basics
        <4>2. mem'[q][i] = mem[q][i]
          BY <1>2, <3>2, <4>1
        <4>3. mem[q][i].kind \in {"link", "page"} =>
                mem[q][i].to \in Pages /\ mem[q][i].to # pg /\ mem[q][i].to # t
          BY <1>1, <2>3, <4>2, TakeFacts DEF WordTarget
        <4>4. QED BY <1>2, <2>3, <4>2, <4>3, RightWords
      <3>3. QED BY <3>1, <3>2
    <2>4. QED BY <2>1, <2>2, <2>3, RightWords
  <1>11. OutsideUntouched'
    <2>1. \A q \in Pages : InPool(q) \/ mem'[q] = Cleared
      BY <1>1, <1>2 DEF OutsideUntouched
    <2>2. QED BY <2>1 DEF OutsideUntouched, Cleared, Zero
  <1>12. OnePageOneOwner'
    <2> DEFINE a == <<Null, 1>>
               b == <<pg, 0>>
               c == <<t, x>>
    <2>1. /\ a \in Places /\ b \in Places /\ c \in Places /\ a # b /\ a # c /\ b # c
      BY <1>1, PlaceIs, Basics
    <2>2. /\ Target(a) = pg /\ Target(b) = freelist' /\ Target(c) = Null
      <3>0. mem[pg][0] = Link(freelist') /\ freelist' \in Nat
        BY TakeFacts, Basics DEF Null
      <3>1. WordTarget(mem[pg][0]) = freelist' /\ WordTarget(mem[t][x]) = Null
        BY <1>1, <3>0, WordFacts
      <3>2. QED BY <1>1, <3>1, TakeFacts, TargetIs, Basics
    <2>3. /\ Target(a)' = freelist' /\ Target(b)' = Null /\ Target(c)' = pg
      <3>1. WordTarget(mem'[pg][0]) = Null /\ WordTarget(mem'[t][x]) = pg
        BY <1>2, <1>4, WordFacts, Basics
      <3>2. QED BY <1>1, <3>1, TargetIsNext, Basics
    <2>4. ASSUME NEW w \in Places, w \notin {a, b, c}
          PROVE  Target(w)' = Target(w)
      <3>1. ASSUME NEW q \in Pages, NEW i \in Idx, w = <<q, i>>
            PROVE  Target(w)' = Target(w)
        <4>1. CASE q = pg
          <5>1. i # 0
            BY <2>4, <3>1, <4>1
          <5>2. WordTarget(mem[pg][i]) = Null /\ WordTarget(mem'[pg][i]) = Null
            BY <1>2, <1>4, <5>1, TakeFacts, WordFacts
          <5>3. QED BY <3>1, <4>1, <5>2, TargetIs, TargetIsNext
        <4>2. CASE q # pg
          <5>1. mem'[q][i] = mem[q][i]
            BY <1>2, <2>4, <3>1, <4>2
          <5>2. QED BY <3>1, <5>1, TargetIs, TargetIsNext
        <4>3. QED BY <4>1, <4>2
      <3>2. CASE w \in {<<Null, 2>>, <<Null, 3>>}
        BY <3>2, TargetIs, TargetIsNext
      <3>3. QED BY <2>4, <3>1, <3>2, PlaceIs
    <2> HIDE DEF a, b, c
    <2>5. QED BY <2>1, <2>2, <2>3, <2>4, OwnersRotate
  <1>13. \A va \in VPages : Node(3, va) # Null => Node(3, va)' # Null
    BY <1>6, Basics
  <1>14. QED BY <1>0, <1>2, <1>7, <1>8, <1>9, <1>10, <1>11, <1>12, <1>13, LeavesKept
         DEF MemoryIsRight

\* Without a table of level 0 there is no table.
LEMMA NoRoot ==
  ASSUME NEW va, NEW k \in 0..3
  PROVE  /\ vttbr = Null => Node(k, va) = Null
         /\ vttbr' = Null => Node(k, va)' = Null
  <1>1. Node(0, va) = vttbr /\ Node(0, va)' = vttbr'
    BY DEF Node
  <1>2. ASSUME NEW j \in 0..2
        PROVE  /\ Node(j, va) = Null => Node(j + 1, va) = Null
               /\ Node(j, va)' = Null => Node(j + 1, va)' = Null
    BY NodeStep, NodeStepNext DEF NextTable
  <1>3. /\ Node(0, va) = Null => Node(0 + 1, va) = Null
        /\ Node(0, va)' = Null => Node(0 + 1, va)' = Null
    BY <1>2
  <1>4. /\ Node(1, va) = Null => Node(1 + 1, va) = Null
        /\ Node(1, va)' = Null => Node(1 + 1, va)' = Null
    BY <1>2
  <1>5. /\ Node(2, va) = Null => Node(2 + 1, va) = Null
        /\ Node(2, va)' = Null => Node(2 + 1, va)' = Null
    BY <1>2
  <1>6. k \in {0, 1, 2, 3} /\ 0 + 1 = 1 /\ 1 + 1 = 2 /\ 2 + 1 = 3
    OBVIOUS
  <1>7. QED BY <1>1, <1>3, <1>4, <1>5, <1>6

\* create_guest_vm allocates the table of level 0.
LEMMA RootTaken ==
  ASSUME Structure, pc = "vttbr", NEW pg \in Pages, Take(pg), mem' = Zeroed(pg), vttbr' = pg,
         UNCHANGED <<cfg, page>>, \A q \in Pages : InPool(q)' <=> InPool(q)
  PROVE  MemoryIsRight' /\ TreeKept
  <1> USE DEF Structure, TypeOK
  <1>1. vttbr = Null /\ page = Null
    BY DEF InHand
  <1>2. /\ mem' \in [Pages -> [Idx -> Words]] /\ freelist' \in Pages \cup {Null}
        /\ mem'[pg] = Cleared /\ \A q \in Pages : q # pg => mem'[q] = mem[q]
    BY TakeFacts, WordFacts DEF Zeroed
  <1>3. \A i \in Idx : Cleared[i] = Zero /\ Zero.kind # "table"
    BY DEF Cleared, Zero
  <1>4. ASSUME NEW va \in VPages
        PROVE  /\ Node(0, va)' = pg /\ Node(1, va)' = Null
               /\ Node(2, va)' = Null /\ Node(3, va)' = Null
    <2>1. Node(0, va)' = pg
      BY DEF Node
    <2>2. PIndex(0, va) \in Idx
      BY Basics, PIndexIsIndex
    <2>3. Node(0 + 1, va)' = Null
      BY <1>2, <1>3, <2>1, <2>2, NodeStepNext
    <2>4. Node(1 + 1, va)' = Null
      BY <2>3, NodeStepNext
    <2>5. Node(2 + 1, va)' = Null
      BY <2>4, NodeStepNext
    <2>6. QED BY <2>1, <2>3, <2>4, <2>5
  <1>5. \A va \in VPages : Leaf(va)' = Leaf(va)
    BY <1>1, <1>4, NoRoot, LeafIs
  <1>6. TablesAreRight'
    <2>1. ASSUME NEW va \in VPages, NEW k \in 0..3, Node(k, va)' # Null
          PROVE  /\ Node(k, va)' \in Pages
                 /\ \A i \in Idx : TableWord(k, mem'[Node(k, va)'][i])
      <3>1. k = 0
        BY <1>4, <2>1
      <3>2. Node(k, va)' = pg
        BY <1>4, <3>1
      <3>3. \A i \in Idx : mem'[Node(k, va)'][i] = Zero
        BY <1>2, <1>3, <3>2
      <3>4. QED BY <3>2, <3>3 DEF TableWord
    <2>2. QED BY <2>1, TablesNext
  <1>7. OwnersAreRight'
    <2>1. freelist' \in Pages => IsFree(mem'[freelist'])
      BY <1>2, TakeFacts
    <2>2. page' \notin Pages
      BY <1>1, Basics
    <2>3. ASSUME NEW q \in Pages, NEW i \in Idx, WordTarget(mem'[q][i]) \in Pages
          PROVE  /\ mem'[q][i].kind = "link" => IsFree(mem'[mem'[q][i].to])
                 /\ mem'[q][i].kind = "page" => IsGuests(mem'[mem'[q][i].to])
      <3>1. q # pg /\ mem'[q] = mem[q]
        BY <1>2, <1>3, <2>3, WordFacts, Basics
      <3>2. mem[q][i].kind \in {"link", "page"} =>
              mem[q][i].to \in Pages /\ mem[q][i].to # pg
        BY <2>3, <3>1, TakeFacts DEF WordTarget
      <3>3. QED BY <1>2, <2>3, <3>1, <3>2, RightWords
    <2>4. QED BY <2>1, <2>2, <2>3, RightWords
  <1>8. OutsideUntouched'
    <2>1. \A q \in Pages : InPool(q) \/ mem'[q] = Cleared
      BY <1>2, TakeFacts DEF OutsideUntouched
    <2>2. QED BY <2>1 DEF OutsideUntouched, Cleared, Zero
  <1>9. OnePageOneOwner'
    <2> DEFINE a == <<Null, 1>>
               b == <<pg, 0>>
               c == <<Null, 2>>
    <2>1. /\ a \in Places /\ b \in Places /\ c \in Places /\ a # b /\ a # c /\ b # c
      BY PlaceIs, Basics
    <2>2. /\ Target(a) = pg /\ Target(b) = freelist' /\ Target(c) = Null
      <3>1. mem[pg][0] = Link(freelist') /\ freelist' \in Nat
        BY TakeFacts, Basics DEF Null
      <3>2. WordTarget(mem[pg][0]) = freelist'
        BY <3>1, WordFacts
      <3>3. QED BY <1>1, <3>2, TakeFacts, TargetIs, Basics
    <2>3. /\ Target(a)' = freelist' /\ Target(b)' = Null /\ Target(c)' = pg
      BY <1>2, <1>3, WordFacts, TargetIsNext, Basics
    <2>4. ASSUME NEW w \in Places, w \notin {a, b, c}
          PROVE  Target(w)' = Target(w)
      <3>1. ASSUME NEW q \in Pages, NEW i \in Idx, w = <<q, i>>
            PROVE  Target(w)' = Target(w)
        <4>1. CASE q = pg
          <5>1. i # 0
            BY <2>4, <3>1, <4>1
          <5>2. WordTarget(mem[pg][i]) = Null /\ WordTarget(mem'[pg][i]) = Null
            BY <1>2, <1>3, <5>1, TakeFacts, WordFacts
          <5>3. QED BY <3>1, <4>1, <5>2, TargetIs, TargetIsNext
        <4>2. CASE q # pg
          BY <1>2, <3>1, <4>2, TargetIs, TargetIsNext
        <4>3. QED BY <4>1, <4>2
      <3>2. CASE w = <<Null, 3>>
        BY <3>2, TargetIs, TargetIsNext
      <3>3. QED BY <2>4, <3>1, <3>2, PlaceIs
    <2> HIDE DEF a, b, c
    <2>5. QED BY <2>1, <2>2, <2>3, <2>4, OwnersRotate
  <1>10. \A va \in VPages : Node(3, va) # Null => Node(3, va)' # Null
    BY <1>1, NoRoot
  <1>11. QED BY <1>2, <1>5, <1>6, <1>7, <1>8, <1>9, <1>10, LeavesKept DEF MemoryIsRight

\* kalloc_init adds the next page to the free list.
LEMMA PageAdded ==
  ASSUME Structure, pc = "kalloc_init", p <= cfg.npages, Free(p, mem), p' = p + 1,
         UNCHANGED <<pc, vttbr, cfg, page>>
  PROVE  MemoryIsRight' /\ TreeKept
  <1> USE DEF Structure, TypeOK
  <1> DEFINE link == [Cleared EXCEPT ![0] = Link(freelist)]
  <1>0. PICK g \in Pages : g = p
    <2>1. p \in Nat /\ p > 0 /\ cfg.npages \in Nat /\ cfg.npages <= NPages
      BY Stage2Assumption DEF InHand
    <2>2. QED BY <2>1, Basics DEF Pages
  <1>1. vttbr = Null /\ page = Null
    BY DEF InHand
  <1>2. /\ ~InPool(g) /\ mem[g] = Cleared
        /\ \A q \in Pages : InPool(q)' <=> InPool(q) \/ q = g
    <2>1. ~InPool(g)
      BY <1>0, Basics DEF InPool
    <2>2. \A q \in Pages : q \in Nat
      BY Basics
    <2>3. cfg.npages \in Nat
      BY Stage2Assumption
    <2>4. \A q \in Pages : InPool(q)' <=> InPool(q) \/ q = g
      BY <1>0, <2>2, <2>3 DEF InPool
    <2>5. QED BY <2>1, <2>4 DEF OutsideUntouched
  <1>3. /\ freelist # g
        /\ \A q \in Pages, i \in Idx : WordTarget(mem[q][i]) # g
    BY <1>2, Apart, Basics
  <1>4. /\ link \in [Idx -> Words] /\ IsFree(link) /\ link[0].to = freelist
    BY FreeWords
  <1>5. /\ mem' \in [Pages -> [Idx -> Words]] /\ freelist' = g
        /\ mem'[g] = link /\ \A q \in Pages : q # g => mem'[q] = mem[q]
    BY <1>0, <1>4 DEF Free
  <1> HIDE DEF link
  <1>6. \A va \in VPages, k \in 0..3 : Node(k, va) = Null /\ Node(k, va)' = Null
    BY <1>1, NoRoot
  <1>7. \A va \in VPages : Leaf(va)' = Leaf(va)
    BY <1>6, LeafIs
  <1>8. TablesAreRight'
    BY <1>6, TablesNext
  <1>9. OwnersAreRight'
    <2>1. freelist' \in Pages => IsFree(mem'[freelist'])
      BY <1>4, <1>5
    <2>2. page' \notin Pages
      BY <1>1, Basics
    <2>3. ASSUME NEW q \in Pages, NEW i \in Idx, WordTarget(mem'[q][i]) \in Pages
          PROVE  /\ mem'[q][i].kind = "link" => IsFree(mem'[mem'[q][i].to])
                 /\ mem'[q][i].kind = "page" => IsGuests(mem'[mem'[q][i].to])
      <3>1. CASE q = g
        <4>1. i = 0
          BY <1>4, <1>5, <2>3, <3>1, FreeHoldsLink, Basics
        <4>2. mem'[q][i] = Link(freelist) /\ WordTarget(mem'[q][i]) = freelist
          BY <1>4, <1>5, <3>1, <4>1, FreeHoldsLink
        <4>3. mem'[q][i].kind = "link" /\ mem'[q][i].to = freelist /\ freelist \in Pages
          BY <2>3, <4>2 DEF Link
        <4>4. QED BY <1>3, <1>5, <4>3, RightWords
      <3>2. CASE q # g
        <4>1. mem'[q][i] = mem[q][i]
          BY <1>5, <3>2
        <4>2. mem[q][i].kind \in {"link", "page"} =>
                mem[q][i].to \in Pages /\ mem[q][i].to # g
          BY <1>3, <2>3, <4>1 DEF WordTarget
        <4>3. QED BY <1>5, <2>3, <4>1, <4>2, RightWords
      <3>3. QED BY <3>1, <3>2
    <2>4. QED BY <2>1, <2>2, <2>3, RightWords
  <1>10. OutsideUntouched'
    <2>1. \A q \in Pages : InPool(q)' \/ mem'[q] = Cleared
      BY <1>2, <1>5 DEF OutsideUntouched
    <2>2. QED BY <2>1 DEF OutsideUntouched, Cleared, Zero
  <1>11. OnePageOneOwner'
    <2> DEFINE a == <<Null, 1>>
               b == <<g, 0>>
    <2>1. a \in Places /\ b \in Places /\ a # b
      BY PlaceIs, Basics
    <2>2. Target(a) = freelist /\ Target(a)' = g /\ Target(b) = Null /\ Target(b)' = freelist
      <3>1. WordTarget(mem'[g][0]) = freelist
        BY <1>4, <1>5, FreeHoldsLink
      <3>2. WordTarget(mem[g][0]) = Null
        BY <1>2, WordFacts, Basics, GuestsHoldNothing
      <3>3. QED BY <1>5, <3>1, <3>2, TargetIs, TargetIsNext, Basics
    <2>3. ASSUME NEW w \in Places, w \notin {a, b}
          PROVE  Target(w)' = Target(w)
      <3>1. ASSUME NEW q \in Pages, NEW i \in Idx, w = <<q, i>>
            PROVE  Target(w)' = Target(w)
        <4>1. CASE q = g
          <5>1. i # 0
            BY <2>3, <3>1, <4>1
          <5>2. WordTarget(mem'[g][i]) = Null
            BY <1>4, <1>5, <5>1, FreeHoldsLink
          <5>3. WordTarget(mem[g][i]) = Null
            BY <1>2, WordFacts, GuestsHoldNothing
          <5>4. QED BY <3>1, <4>1, <5>2, <5>3, TargetIs, TargetIsNext
        <4>2. CASE q # g
          BY <1>5, <3>1, <4>2, TargetIs, TargetIsNext
        <4>3. QED BY <4>1, <4>2
      <3>2. CASE w \in {<<Null, 2>>, <<Null, 3>>}
        BY <3>2, TargetIs, TargetIsNext
      <3>3. QED BY <2>3, <3>1, <3>2, PlaceIs
    <2>4. \A w \in Places : Target(w) # g
      BY <1>2 DEF OnePageOneOwner
    <2> HIDE DEF a, b
    <2>5. ASSUME NEW pg \in Pages, InPool(pg)'
          PROVE  \E w \in Places : Target(w)' = pg /\ \A u \in Places : Target(u)' = pg => u = w
      <3>1. CASE pg = g
        <4>1. Target(a)' = pg /\ \A u \in Places : Target(u)' = pg => u = a
          BY <1>3, <2>2, <2>3, <2>4, <3>1
        <4>2. QED BY <2>1, <4>1
      <3>2. CASE pg # g
        <4>1. PICK w \in Places : Target(w) = pg /\ \A u \in Places : Target(u) = pg => u = w
          BY <1>2, <2>5, <3>2 DEF OnePageOneOwner
        <4>2. CASE w = a
          <5>1. Target(b)' = pg /\ \A u \in Places : Target(u)' = pg => u = b
            BY <2>2, <2>3, <3>2, <4>1, <4>2
          <5>2. QED BY <2>1, <5>1
        <4>3. CASE w # a
          <5>1. w # b
            BY <2>2, <4>1, Basics
          <5>2. Target(w)' = pg /\ \A u \in Places : Target(u)' = pg => u = w
            BY <2>1, <2>2, <2>3, <3>2, <4>1, <4>3, <5>1
          <5>3. QED BY <5>2
        <4>4. QED BY <4>2, <4>3
      <3>3. QED BY <3>1, <3>2
    <2>6. ASSUME NEW w \in Places, Target(w)' \in Pages
          PROVE  InPool(Target(w))'
      <3>1. PICK r \in Pages : r = Target(w)'
        BY <2>6
      <3>2. r = g \/ \E u \in Places : Target(u) = r
        BY <2>1, <2>2, <2>3, <3>1
      <3>3. InPool(r)'
        BY <1>2, <3>2 DEF OnePageOneOwner
      <3>4. QED BY <3>1, <3>3 DEF InPool
    <2>7. QED BY <2>5, <2>6 DEF OnePageOneOwner
  <1>12. \A va \in VPages : Node(3, va) # Null => Node(3, va)' # Null
    BY <1>6
  <1>13. QED BY <1>1, <1>5, <1>7, <1>8, <1>9, <1>10, <1>11, <1>12, LeavesKept DEF MemoryIsRight

-----------------------------------------------------------------------------
(* The invariant holds.                                                    *)

\* The addresses of a configuration.
LEMMA ConfigFacts ==
  ASSUME cfg \in Configs
  PROVE  /\ cfg.npages \in Nat /\ cfg.npages <= NPages
         /\ {cfg.entry, cfg.nimage, cfg.nram, cfg.dtb, cfg.ndtb, cfg.rootfs, cfg.nrootfs} \subseteq Nat
         /\ \A n \in Nat : n < cfg.nimage \/ n < cfg.nram => cfg.entry + n \in VPages
         /\ \A n \in Nat : n < cfg.ndtb => cfg.dtb + n \in VPages
         /\ \A n \in Nat : n < cfg.nrootfs => cfg.rootfs + n \in VPages
         /\ cfg.device \in VPages
         /\ Len(cfg.traps) \in Nat
         /\ \A t \in Nat \ {0} : t <= Len(cfg.traps) =>
              /\ TrapRange(t).base \in Nat /\ TrapRange(t).size \in Nat \ {0}
              /\ \A n \in Nat : n < TrapRange(t).size => TrapRange(t).base + n \in VPages \ {cfg.device}
  <1>1. /\ cfg.npages \in 0..NPages
        /\ {cfg.entry, cfg.nimage, cfg.nram, cfg.dtb, cfg.ndtb, cfg.rootfs, cfg.nrootfs} \subseteq Nat
        /\ Area(cfg.entry, cfg.nimage) \subseteq VPages /\ Area(cfg.entry, cfg.nram) \subseteq VPages
        /\ Area(cfg.dtb, cfg.ndtb) \subseteq VPages /\ Area(cfg.rootfs, cfg.nrootfs) \subseteq VPages
        /\ cfg.device \in VPages
        /\ cfg.traps \in Seq([base : Nat, size : Nat \ {0}])
        /\ \A t \in DOMAIN cfg.traps :
             Area(cfg.traps[t].base, cfg.traps[t].size) \subseteq VPages \ {cfg.device}
    BY Stage2Assumption, ConfigAssumption
  <1>2. \A base, size, n \in Nat : n < size => base + n \in Area(base, size)
    BY DEF Area
  <1>3. ASSUME NEW t \in Nat \ {0}, t <= Len(cfg.traps)
        PROVE  /\ TrapRange(t).base \in Nat /\ TrapRange(t).size \in Nat \ {0}
               /\ \A n \in Nat : n < TrapRange(t).size => TrapRange(t).base + n \in VPages \ {cfg.device}
    <2>1. t \in 1..Len(cfg.traps) /\ DOMAIN cfg.traps = 1..Len(cfg.traps)
      BY <1>1, <1>3
    <2>2. cfg.traps[t] \in [base : Nat, size : Nat \ {0}]
      <3> DEFINE S == [base : Nat, size : Nat \ {0}]
                 seq == cfg.traps
      <3>1. seq \in Seq(S) /\ t \in 1..Len(seq)
        BY <1>1, <2>1
      <3> HIDE DEF S, seq
      <3>2. seq[t] \in S
        BY <3>1, ElementOfSeq
      <3>3. QED BY <3>2 DEF S, seq
    <2>3. Area(cfg.traps[t].base, cfg.traps[t].size) \subseteq VPages \ {cfg.device}
      BY <1>1, <2>1
    <2>4. TrapRange(t).base \in Nat /\ TrapRange(t).size \in Nat \ {0}
      BY <2>2 DEF TrapRange
    <2>5. \A n \in Nat : n < TrapRange(t).size =>
            TrapRange(t).base + n \in Area(TrapRange(t).base, TrapRange(t).size)
      BY <1>2, <2>4
    <2>6. QED BY <2>3, <2>4, <2>5 DEF TrapRange
  <1>4. cfg.npages \in Nat /\ cfg.npages <= NPages
    BY <1>1, Basics
  <1>5. /\ \A n \in Nat : n < cfg.nimage \/ n < cfg.nram => cfg.entry + n \in VPages
        /\ \A n \in Nat : n < cfg.ndtb => cfg.dtb + n \in VPages
        /\ \A n \in Nat : n < cfg.nrootfs => cfg.rootfs + n \in VPages
    BY <1>1, <1>2
  <1>6. Len(cfg.traps) \in Nat
    BY <1>1
  <1>7. QED BY <1>1, <1>3, <1>4, <1>5, <1>6

LEMMA InitStructure == Init => Structure
  <1> SUFFICES ASSUME Init PROVE Structure
    OBVIOUS
  <1> USE DEF Init
  <1>1. TypeOK
    <2>1. mem \in [Pages -> [Idx -> Words]]
      BY WordFacts
    <2>2. walk \in [va : Nat, pgt : Pages \cup {Null}, level : 0..3, alloc : BOOLEAN, ret : Rets]
      BY DEF NoWalk, Rets
    <2>3. QED BY <2>1, <2>2 DEF TypeOK, Pcs
  <1>2. \A w \in Places : Target(w) = Null
    <2>1. \A q \in Pages, i \in Idx : WordTarget(mem[q][i]) = Null
      BY WordFacts, GuestsHoldNothing
    <2>2. QED BY <2>1, PlaceIs, TargetIs
  <1>3. \A pg \in Pages : ~InPool(pg)
    BY DEF InPool, Pages
  <1>4. OnePageOneOwner
    BY <1>2, <1>3, Basics DEF OnePageOneOwner
  <1>5. OwnersAreRight
    BY <1>2, Basics DEF OwnersAreRight
  <1>6. OutsideUntouched
    BY DEF OutsideUntouched
  <1>7. \A va \in VPages, k \in 0..3 : Node(k, va) = Null
    BY NoRoot
  <1>8. TablesAreRight
    BY <1>7 DEF TablesAreRight
  <1>9. WalkOnPath
    BY DEF WalkOnPath
  <1>10. InHand
    <2>1. cfg.npages \in Nat
      BY ConfigFacts
    <2>2. QED BY <2>1 DEF InHand
  <1>11. DeviceAtItsAddress
    <2>1. \A va \in VPages : Leaf(va) = Zero
      BY <1>7, LeafIs
    <2>2. QED BY <2>1 DEF DeviceAtItsAddress, Zero, PageDesc
  <1>12. QED BY <1>1, <1>4, <1>5, <1>6, <1>8, <1>9, <1>10, <1>11 DEF Structure

\* The rest of the invariant is about the variables of the boot core.
LEMMA Rest ==
  ASSUME MemoryIsRight', WalkOnPath', InHand',
         cfg' \in Configs, pc' \in Pcs, p' \in Nat, trap' \in Nat,
         page' \in Pages \cup {Null, Device},
         walk' \in [va : Nat, pgt : Pages \cup {Null}, level : 0..3, alloc : BOOLEAN, ret : Rets]
  PROVE  Structure'
  <1>1. Words' = Words
    BY DEF Words
  <1>2. QED BY <1>1 DEF MemoryIsRight, Structure, TypeOK

\* After kalloc_init the pool does not change.
LEMMA PoolSame ==
  ASSUME pc # "kalloc_init", pc' # "kalloc_init", cfg' = cfg
  PROVE  \A q \in Pages : InPool(q)' <=> InPool(q)
  BY DEF InPool

LEMMA NodeAt ==
  ASSUME NEW k, NEW v, walk'.level = k, walk'.va = v
  PROVE  Node(walk.level, walk.va)' = Node(k, v)'
  BY DEF Node, LeafTable, NextTable, PIndex

\* A call of page_walk starts at the table of level 0.
LEMMA CallOnPath ==
  ASSUME Structure, vttbr # Null, UNCHANGED <<vttbr, cfg>>,
         NEW va \in VPages, NEW ret \in Rets \ {"none"}, NEW alloc \in BOOLEAN,
         Call(va, alloc, ret),
         alloc <=> ret \in {"memory", "dtb", "device"},
         ret = "copy" => va \in Area(cfg.rootfs, cfg.nrootfs),
         ret \in {"probe", "unmap"} =>
           /\ trap' <= Len(cfg.traps)
           /\ va = cfg.traps[trap'].base + p' /\ p' < cfg.traps[trap'].size
  PROVE  /\ WalkOnPath'
         /\ walk' \in [va : Nat, pgt : Pages \cup {Null}, level : 0..3, alloc : BOOLEAN, ret : Rets]
         /\ pc' = "walk" /\ walk'.va = va /\ walk'.ret = ret
  <1> USE DEF Structure, TypeOK
  <1>1. /\ walk' = [va |-> va, pgt |-> vttbr, level |-> 0, alloc |-> alloc, ret |-> ret]
        /\ pc' = "walk"
    BY DEF Call
  <1>2. walk' \in [va : Nat, pgt : Pages \cup {Null}, level : 0..3, alloc : BOOLEAN, ret : Rets]
    BY <1>1, Basics
  <1>3. Node(walk.level, walk.va)' = vttbr
    <2>1. Node(walk.level, walk.va)' = Node(0, va)'
      BY <1>1, NodeAt
    <2>2. Node(0, va)' = vttbr'
      BY DEF Node
    <2>3. QED BY <2>1, <2>2
  <1>4. WalkOnPath'
    <2>1. /\ walk'.va = va /\ walk'.pgt = vttbr /\ walk'.alloc = alloc /\ walk'.ret = ret
      BY <1>1
    <2>2. ret = "copy" => va \in Area(cfg.rootfs, cfg.nrootfs)'
      BY DEF Area
    <2>3. TrapRange(trap)' = cfg.traps[trap']
      BY DEF TrapRange
    <2> HIDE DEF Structure, TypeOK
    <2>4. QED BY <1>3, <2>1, <2>2, <2>3 DEF WalkOnPath
  <1>5. QED BY <1>1, <1>2, <1>4

\* The walk goes on in the table of the next level.
LEMMA WalkedOn ==
  ASSUME Structure, pc = "walk", walk.level < 3, NEW to \in Pages,
         walk' = [walk EXCEPT !.pgt = to, !.level = @ + 1], UNCHANGED <<cfg, pc, p, trap>>,
         \A va \in VPages, k \in 0..3 : va = walk.va /\ k = walk.level + 1 => Node(k, va)' = to
  PROVE  /\ WalkOnPath'
         /\ walk' \in [va : Nat, pgt : Pages \cup {Null}, level : 0..3, alloc : BOOLEAN, ret : Rets]
         /\ walk'.ret = walk.ret /\ walk'.va = walk.va
  <1> USE DEF Structure, TypeOK
  <1>0. PICK v \in VPages, L \in 0..2 : v = walk.va /\ L = walk.level
    BY EntryFacts
  <1>1. /\ walk'.va = v /\ walk'.level = L + 1 /\ walk'.pgt = to
        /\ walk'.ret = walk.ret /\ walk'.alloc = walk.alloc
    BY <1>0
  <1>2. walk' \in [va : Nat, pgt : Pages \cup {Null}, level : 0..3, alloc : BOOLEAN, ret : Rets]
    <2>1. to \in Pages \cup {Null} /\ walk.level + 1 \in 0..3
      BY <1>0
    <2>2. QED BY <2>1
  <1>3. Node(walk.level, walk.va)' = to
    <2>1. Node(walk.level, walk.va)' = Node(L + 1, v)'
      BY <1>1, NodeAt
    <2>2. L + 1 \in 0..3
      OBVIOUS
    <2>3. QED BY <1>0, <2>1, <2>2
  <1>4. WalkOnPath'
    <2>1. TrapRange(trap)' = TrapRange(trap) /\ Area(cfg.rootfs, cfg.nrootfs)' = Area(cfg.rootfs, cfg.nrootfs)
      BY DEF TrapRange, Area
    <2>2. walk'.va = walk.va /\ walk'.pgt # Null
      BY <1>0, <1>1, Basics
    <2>3. WalkOnPath
      OBVIOUS
    <2> HIDE DEF Structure, TypeOK
    <2>4. QED BY <1>0, <1>1, <1>3, <2>1, <2>2, <2>3 DEF WalkOnPath
  <1>5. QED BY <1>0, <1>1, <1>2, <1>4

\* Every abort stops the boot core where it is.
LEMMA AbortStep ==
  ASSUME Structure, pc # "kalloc_init", Abort
  PROVE  Structure' /\ TreeKept
  <1> USE DEF Abort
  <1>1. MemoryIsRight' /\ TreeKept
    BY MemorySame, PoolSame
  <1>2. WalkOnPath' /\ InHand'
    BY DEF WalkOnPath, InHand, Structure
  <1>3. QED BY <1>1, <1>2, Rest DEF Structure, TypeOK, Pcs

LEMMA KallocInitStep ==
  ASSUME Structure, KallocInit
  PROVE  Structure' /\ TreeKept
  <1> USE DEF KallocInit
  <1>1. cfg.npages \in Nat /\ p \in 1..(cfg.npages + 1) /\ page = Null /\ vttbr = Null
    BY ConfigFacts DEF Structure, TypeOK, InHand
  <1>2. WalkOnPath'
    BY DEF WalkOnPath
  <1>3. CASE p <= cfg.npages
    <2>1. MemoryIsRight' /\ TreeKept
      BY <1>3, PageAdded
    <2>2. InHand'
      BY <1>1, <1>3 DEF InHand, Structure
    <2>3. QED BY <1>1, <1>2, <1>3, <2>1, <2>2, Rest DEF Structure, TypeOK
  <1>4. CASE ~(p <= cfg.npages)
    <2>1. \A q \in Pages : InPool(q)' <=> InPool(q)
      BY <1>1, <1>4, Basics DEF InPool
    <2>2. MemoryIsRight' /\ TreeKept
      BY <1>4, <2>1, MemorySame
    <2>3. InHand'
      BY <1>1, <1>4 DEF InHand, Structure
    <2>4. QED BY <1>2, <1>4, <2>2, <2>3, Rest DEF Structure, TypeOK, Pcs
  <1>5. QED BY <1>3, <1>4

LEMMA AllocVttbrStep ==
  ASSUME Structure, AllocVttbr
  PROVE  Structure' /\ TreeKept
  <1>1. CASE Abort
    BY <1>1, AbortStep DEF AllocVttbr
  <1>2. CASE ~Abort
    <2>1. PICK pg \in Pages : Take(pg) /\ mem' = Zeroed(pg) /\ vttbr' = pg
      BY <1>2 DEF AllocVttbr
    <2>2. pc = "vttbr" /\ pc' = "memory" /\ UNCHANGED <<cfg, p, trap, page, walk>>
      BY <1>2 DEF AllocVttbr
    <2>3. MemoryIsRight' /\ TreeKept
      BY <2>1, <2>2, RootTaken, PoolSame
    <2>4. WalkOnPath' /\ InHand'
      BY <2>1, <2>2, Basics DEF WalkOnPath, InHand, Structure
    <2>5. QED BY <2>2, <2>3, <2>4, Rest DEF Structure, TypeOK, Pcs
  <1>3. QED BY <1>1, <1>2

LEMMA WalkDownStep ==
  ASSUME Structure, WalkDown
  PROVE  Structure' /\ TreeKept
  <1> USE DEF WalkDown
  <1>1. /\ MemoryIsRight' /\ TreeKept
        /\ \A va \in VPages, k \in 0..3 : Node(k, va)' = Node(k, va)
    BY MemorySame, PoolSame
  <1>2. PICK to \in Pages : to = Entry.to
    BY EntryFacts DEF TableWord, Zero, PageDesc
  <1>3. ASSUME NEW va \in VPages, NEW k \in 0..3, va = walk.va, k = walk.level + 1
        PROVE  Node(k, va)' = to
    <2>1. PICK L \in 0..2 : L = walk.level
      BY EntryFacts
    <2>2. Node(L, va) = walk.pgt /\ walk.pgt # Null
      BY <1>3, <2>1, EntryFacts, Basics
    <2>3. Node(L + 1, va) = to
      BY <1>2, <1>3, <2>1, <2>2, NodeStep DEF NextTable, Entry
    <2>4. QED BY <1>1, <1>3, <2>1, <2>3
  <1>4. /\ WalkOnPath' /\ walk'.ret = walk.ret /\ walk'.va = walk.va
        /\ walk' \in [va : Nat, pgt : Pages \cup {Null}, level : 0..3, alloc : BOOLEAN, ret : Rets]
    BY <1>2, <1>3, WalkedOn
  <1>5. InHand'
    BY <1>4 DEF InHand, Structure
  <1>6. QED BY <1>1, <1>4, <1>5, Rest DEF Structure, TypeOK

LEMMA WalkAllocStep ==
  ASSUME Structure, WalkAlloc
  PROVE  Structure' /\ TreeKept
  <1>1. CASE Abort
    BY <1>1, AbortStep DEF WalkAlloc
  <1>2. CASE ~Abort
    <2>1. PICK pg \in Pages :
            /\ Take(pg)
            /\ mem' = EnterTable(Zeroed(pg), pg)
            /\ walk' = [walk EXCEPT !.pgt = pg, !.level = @ + 1]
            /\ UNCHANGED <<vttbr, cfg, pc, p, trap, page>>
      BY <1>2 DEF WalkAlloc
    <2>2. pc = "walk" /\ walk.level < 3 /\ Entry.kind # "table"
      BY DEF WalkAlloc
    <2>3. /\ MemoryIsRight' /\ TreeKept
          /\ \A va \in VPages, k \in 0..3 : va = walk.va /\ k = walk.level + 1 => Node(k, va)' = pg
      BY <2>1, <2>2, TableEntered, PoolSame
    <2>4. /\ WalkOnPath' /\ walk'.ret = walk.ret /\ walk'.va = walk.va
          /\ walk' \in [va : Nat, pgt : Pages \cup {Null}, level : 0..3, alloc : BOOLEAN, ret : Rets]
      BY <2>1, <2>2, <2>3, WalkedOn
    <2>5. InHand'
      BY <2>1, <2>4 DEF InHand, Structure
    <2>6. QED BY <2>1, <2>3, <2>4, <2>5, Rest DEF Structure, TypeOK
  <1>3. QED BY <1>1, <1>2

LEMMA WalkMissingStep ==
  ASSUME Structure, WalkMissing
  PROVE  Structure' /\ TreeKept
  <1> USE DEF WalkMissing
  <1>1. walk.ret \in {"copy", "probe", "unmap"}
    BY DEF Structure, TypeOK, WalkOnPath, Rets
  <1>2. pc' \in {"abort", "register", "null_pte"}
    BY <1>1
  <1>3. MemoryIsRight' /\ TreeKept
    BY <1>2, MemorySame, PoolSame
  <1>4. WalkOnPath' /\ InHand'
    <2>1. page = Null /\ vttbr # Null
      BY <1>1 DEF InHand, Structure
    <2>2. QED BY <1>2, <2>1 DEF WalkOnPath, InHand, Structure
  <1>5. QED BY <1>2, <1>3, <1>4, Rest DEF Structure, TypeOK, Pcs

\* The loops of do_memory_mapping: a page is allocated and page_walk called.
LEMMA MapStep ==
  ASSUME Structure, pc \in {"memory", "dtb"}, NEW ret \in {"memory", "dtb"},
         NEW va \in VPages, NEW pg \in Pages, Take(pg),
         NEW words \in [Idx -> Words], IsGuests(words), mem' = [mem EXCEPT ![pg] = words],
         page' = pg, Call(va, TRUE, ret), UNCHANGED <<vttbr, cfg, p, trap>>
  PROVE  Structure' /\ TreeKept
  <1>1. page = Null /\ vttbr # Null
    BY DEF InHand, Structure
  <1>2. /\ WalkOnPath' /\ pc' = "walk" /\ walk'.ret = ret
        /\ walk' \in [va : Nat, pgt : Pages \cup {Null}, level : 0..3, alloc : BOOLEAN, ret : Rets]
    <2>1. ret \in Rets \ {"none"} /\ TRUE \in BOOLEAN
      BY DEF Rets
    <2>2. QED BY <1>1, <2>1, CallOnPath
  <1>3. MemoryIsRight' /\ TreeKept
    BY <1>1, <1>2, TakeInHand, PoolSame
  <1>4. InHand'
    BY <1>1, <1>2 DEF InHand, Structure
  <1>5. QED BY <1>2, <1>3, <1>4, Rest DEF Structure, TypeOK, Pcs

LEMMA MapMemoryStep ==
  ASSUME Structure, MapMemory
  PROVE  Structure' /\ TreeKept
  <1>1. CASE Abort
    BY <1>1, AbortStep DEF MapMemory
  <1>2. CASE ~Abort
    <2>1. PICK pg \in Pages :
            /\ Take(pg)
            /\ mem' = IF p < cfg.nimage THEN [Zeroed(pg) EXCEPT ![pg] = Filled("image", p)] ELSE Zeroed(pg)
            /\ page' = pg
            /\ Call(cfg.entry + p, TRUE, "memory")
            /\ UNCHANGED <<vttbr, cfg, p, trap>>
      BY <1>2 DEF MapMemory
    <2>2. cfg.entry + p \in VPages /\ p \in Nat
      BY ConfigFacts DEF MapMemory, Structure, TypeOK
    <2>3. PICK words \in [Idx -> Words] : IsGuests(words) /\ mem' = [mem EXCEPT ![pg] = words]
      <3>1. CASE p < cfg.nimage
        <4>1. mem' = [mem EXCEPT ![pg] = Filled("image", p)]
          BY <2>1, <3>1 DEF Zeroed, Structure, TypeOK
        <4>2. QED BY <2>2, <4>1, WordFacts
      <3>2. CASE ~(p < cfg.nimage)
        BY <2>1, <3>2, WordFacts DEF Zeroed
      <3>3. QED BY <3>1, <3>2
    <2>4. pc = "memory"
      BY DEF MapMemory
    <2>5. QED BY <2>1, <2>2, <2>3, <2>4, MapStep
  <1>3. QED BY <1>1, <1>2

LEMMA MapDtbStep ==
  ASSUME Structure, MapDtb
  PROVE  Structure' /\ TreeKept
  <1>1. CASE Abort
    BY <1>1, AbortStep DEF MapDtb
  <1>2. CASE ~Abort
    <2>1. PICK pg \in Pages :
            /\ Take(pg)
            /\ mem' = [Zeroed(pg) EXCEPT ![pg] = Filled("dtb", p)]
            /\ page' = pg
            /\ Call(cfg.dtb + p, TRUE, "dtb")
            /\ UNCHANGED <<vttbr, cfg, p, trap>>
      BY <1>2 DEF MapDtb
    <2>2. cfg.dtb + p \in VPages /\ p \in Nat
      BY ConfigFacts DEF MapDtb, Structure, TypeOK
    <2>3. mem' = [mem EXCEPT ![pg] = Filled("dtb", p)]
      BY <2>1 DEF Zeroed, Structure, TypeOK
    <2>4. Filled("dtb", p) \in [Idx -> Words] /\ IsGuests(Filled("dtb", p))
      BY <2>2, WordFacts
    <2>5. pc = "dtb"
      BY DEF MapDtb
    <2>6. QED BY <2>1, <2>2, <2>3, <2>4, <2>5, MapStep
  <1>3. QED BY <1>1, <1>2

LEMMA MemoryDoneStep ==
  ASSUME Structure, MemoryDone
  PROVE  Structure' /\ TreeKept
  <1> USE DEF MemoryDone
  <1>1. MemoryIsRight' /\ TreeKept
    BY MemorySame, PoolSame
  <1>2. WalkOnPath' /\ InHand'
    BY DEF WalkOnPath, InHand, Structure
  <1>3. QED BY <1>1, <1>2, Rest DEF Structure, TypeOK, Pcs

LEMMA DtbDoneStep ==
  ASSUME Structure, DtbDone
  PROVE  Structure' /\ TreeKept
  <1> USE DEF DtbDone
  <1>1. page = Null /\ vttbr # Null
    BY DEF InHand, Structure
  <1>2. PICK va \in VPages : va = cfg.device
    BY ConfigFacts DEF Structure, TypeOK
  <1>3. /\ WalkOnPath' /\ pc' = "walk" /\ walk'.va = va /\ walk'.ret = "device"
        /\ walk' \in [va : Nat, pgt : Pages \cup {Null}, level : 0..3, alloc : BOOLEAN, ret : Rets]
    <2>1. "device" \in Rets \ {"none"} /\ TRUE \in BOOLEAN
      BY DEF Rets
    <2>2. Call(va, TRUE, "device")
      BY <1>2
    <2>3. QED BY <1>1, <2>1, <2>2, CallOnPath
  <1>4. MemoryIsRight' /\ TreeKept
    BY <1>1, <1>3, MemorySame, PoolSame, Basics
  <1>5. InHand'
    BY <1>1, <1>2, <1>3 DEF InHand, Structure
  <1>6. QED BY <1>3, <1>4, <1>5, Rest DEF Structure, TypeOK, Pcs

\* A step that maps one page is a step of the abstract map.
LEMMA MapRefines ==
  ASSUME NEW v \in VPages, NEW to \in Pages \cup {Device},
         Leaf(v) = Zero, Leaf(v)' = PageDesc(to),
         \A va \in VPages : va # v => Leaf(va)' = Leaf(va),
         to # Device => \A va \in VPages : Leaf(va).kind = "page" => Leaf(va).to # to
  PROVE  Ipa!Next
  <1> DEFINE D == {va \in VPages : Leaf(va).kind = "page"}
  <1>1. DOMAIN translation = D /\ \A va \in D : translation[va] = Leaf(va).to
    BY DEF translation
  <1>2. /\ translation' = [va \in {u \in VPages : Leaf(u)'.kind = "page"} |-> Leaf(va)'.to]
    BY DEF translation
  <1>3. v \notin D /\ Leaf(v)'.kind = "page" /\ Leaf(v)'.to = to
    BY DEF Zero, PageDesc
  <1>4. {u \in VPages : Leaf(u)'.kind = "page"} = D \cup {v}
    BY <1>3
  <1>5. translation' = [w \in D \cup {v} |-> IF w = v THEN to ELSE translation[w]]
    <2>1. translation' = [w \in D \cup {v} |-> Leaf(w)'.to]
      BY <1>2, <1>4
    <2>2. \A w \in D \cup {v} : Leaf(w)'.to = IF w = v THEN to ELSE translation[w]
      BY <1>1, <1>3
    <2> HIDE DEF D
    <2>3. QED BY <2>1, <2>2
  <1>6. translation'[v] = to /\ DOMAIN translation' = D \cup {v}
    BY <1>5
  <1>7. Ipa!Map(v)
    <2>1. translation'[v] \in {Device} \/ \A w \in DOMAIN translation : translation[w] # translation'[v]
      BY <1>1, <1>6
    <2> HIDE DEF D
    <2>2. translation' = [w \in DOMAIN translation \cup {v} |->
                            IF w = v THEN translation'[v] ELSE translation[w]]
      BY <1>1, <1>5, <1>6
    <2>3. QED BY <1>6, <2>1, <2>2 DEF Ipa!Map
  <1>8. v \in DOMAIN translation' \ DOMAIN translation
    BY <1>1, <1>3, <1>6
  <1>9. QED BY <1>7, <1>8 DEF Ipa!Next

\* A step that unmaps one page is a step of the abstract map.
LEMMA UnmapRefines ==
  ASSUME NEW v \in VPages, Leaf(v).kind = "page", Leaf(v)' = Zero,
         \A va \in VPages : va # v => Leaf(va)' = Leaf(va)
  PROVE  Ipa!Next
  <1> DEFINE D == {va \in VPages : Leaf(va).kind = "page"}
  <1>1. DOMAIN translation = D /\ \A va \in D : translation[va] = Leaf(va).to
    BY DEF translation
  <1>2. /\ translation' = [va \in {u \in VPages : Leaf(u)'.kind = "page"} |-> Leaf(va)'.to]
    BY DEF translation
  <1>3. v \in D /\ Leaf(v)'.kind # "page"
    BY DEF Zero
  <1>4. {u \in VPages : Leaf(u)'.kind = "page"} = D \ {v}
    BY <1>3
  <1>5. translation' = [w \in D \ {v} |-> translation[w]]
    <2>1. translation' = [w \in D \ {v} |-> Leaf(w)'.to]
      BY <1>2, <1>4
    <2>2. \A w \in D \ {v} : Leaf(w)'.to = translation[w]
      BY <1>1
    <2> HIDE DEF D
    <2>3. QED BY <2>1, <2>2
  <1>6. Ipa!Unmap(v)
    BY <1>1, <1>5 DEF Ipa!Unmap
  <1>7. v \in DOMAIN translation \ DOMAIN translation'
    BY <1>1, <1>3, <1>5
  <1>8. QED BY <1>6, <1>7 DEF Ipa!Next

\* The page in hand backs no page of the guest yet.
LEMMA HandIsFresh ==
  ASSUME Structure, page \in Pages, NEW va \in VPages, Leaf(va).kind = "page"
  PROVE  Leaf(va).to # page
  <1> USE DEF Structure, TypeOK
  <1>1. Node(3, va) # Null /\ Leaf(va) = mem[Node(3, va)][PIndex(3, va)]
    BY LeafIs DEF Zero
  <1>2. Node(3, va) \in Pages /\ PIndex(3, va) \in Idx
    BY <1>1, Basics, PIndexIsIndex DEF TablesAreRight
  <1>3. WordTarget(mem[Node(3, va)][PIndex(3, va)]) = Leaf(va).to
    BY <1>1 DEF WordTarget
  <1>4. QED BY <1>2, <1>3, Apart

\* A step that changes the entry of the walk.
EntryBecomes(word) ==
  /\ \A va \in VPages : va = walk.va => Leaf(va)' = word
  /\ \A va \in VPages : va # walk.va => Leaf(va)' = Leaf(va)
  /\ \A va \in VPages, k \in 0..3 : Node(k, va)' = Node(k, va)

LEMMA SetLeafStep ==
  ASSUME Structure, SetLeaf
  PROVE  /\ Structure'
         /\ \/ pc' = "abort" /\ TreeKept
            \/ pc' # "abort" /\ Ipa!Next /\ Entry = Zero /\ EntryBecomes(PageDesc(page))
  <1>1. /\ pc = "walk" /\ walk.level = 3 /\ walk.ret \in {"memory", "dtb", "device"}
    BY DEF SetLeaf, Found
  <1>2. CASE Abort
    BY <1>1, <1>2, AbortStep DEF Abort
  <1>3. CASE ~Abort
    <2>1. /\ LeafUnused
          /\ mem' = SetEntry(PageDesc(page)) /\ page' = Null
          /\ CASE walk.ret = "memory" ->
                    pc' = "memory" /\ p' = p + 1 /\ UNCHANGED walk
               [] walk.ret = "dtb" ->
                    IF cfg.nrootfs = 0
                    THEN pc' = "dtb" /\ p' = p + 1 /\ UNCHANGED walk
                    ELSE Call(cfg.rootfs, FALSE, "copy") /\ UNCHANGED p
               [] walk.ret = "device" ->
                    pc' = "probe" /\ UNCHANGED <<p, walk>>
          /\ UNCHANGED <<freelist, vttbr, cfg, trap>>
      BY <1>3 DEF SetLeaf
    <2>2. Entry = Zero
      BY <1>1, <2>1, EntryFacts DEF LeafUnused, TableWord, PageDesc
    <2>3. /\ page \in Pages \cup {Device}
          /\ page = Device => walk.va = cfg.device
          /\ vttbr # Null
      BY <1>1, Basics DEF Structure, InHand
    <2>4. /\ WalkOnPath' /\ pc' \in {"memory", "dtb", "walk", "probe"} /\ p' \in Nat
          /\ pc' = "walk" => walk'.ret = "copy"
          /\ walk' \in [va : Nat, pgt : Pages \cup {Null}, level : 0..3, alloc : BOOLEAN, ret : Rets]
      <3>1. CASE walk.ret = "dtb" /\ cfg.nrootfs # 0
        <4>1. cfg.rootfs \in VPages /\ cfg.rootfs \in Area(cfg.rootfs, cfg.nrootfs)
          <5>1. cfg.rootfs \in Nat /\ cfg.nrootfs \in Nat /\ 0 < cfg.nrootfs
                /\ cfg.rootfs + 0 \in VPages
            BY <3>1, ConfigFacts DEF Structure, TypeOK
          <5>2. QED BY <5>1 DEF Area
        <4>2. Call(cfg.rootfs, FALSE, "copy") /\ UNCHANGED p
          BY <2>1, <3>1
        <4>3. PICK va \in VPages : va = cfg.rootfs
          BY <4>1
        <4>4. "copy" \in Rets \ {"none"} /\ FALSE \in BOOLEAN
          BY DEF Rets
        <4>5. /\ WalkOnPath' /\ pc' = "walk" /\ walk'.ret = "copy"
              /\ walk' \in [va : Nat, pgt : Pages \cup {Null}, level : 0..3, alloc : BOOLEAN, ret : Rets]
          BY <2>1, <2>3, <4>1, <4>2, <4>3, <4>4, CallOnPath
        <4>6. QED BY <4>2, <4>5 DEF Structure, TypeOK
      <3>2. CASE ~(walk.ret = "dtb" /\ cfg.nrootfs # 0)
        <4>0. p \in Nat /\ p + 1 \in Nat
          BY DEF Structure, TypeOK
        <4>1. /\ pc' \in {"memory", "dtb", "probe"} /\ p' \in Nat /\ UNCHANGED walk
          <5>1. CASE walk.ret = "memory"
            BY <2>1, <4>0, <5>1
          <5>2. CASE walk.ret = "dtb"
            BY <2>1, <3>2, <4>0, <5>2
          <5>3. CASE walk.ret = "device"
            BY <2>1, <4>0, <5>3
          <5>4. QED BY <1>1, <5>1, <5>2, <5>3
        <4>2. QED BY <4>1 DEF WalkOnPath, Structure, TypeOK
      <3>3. QED BY <3>1, <3>2
    <2>5. /\ MemoryIsRight'
          /\ \A va \in VPages : va = walk.va => Leaf(va) = Zero /\ Leaf(va)' = PageDesc(page)
          /\ \A va \in VPages : va # walk.va => Leaf(va)' = Leaf(va)
          /\ \A va \in VPages, k \in 0..3 : Node(k, va)' = Node(k, va)
      <3>1. \A q \in Pages : InPool(q)' <=> InPool(q)
        BY <1>1, <2>1, <2>4, PoolSame
      <3>2. /\ mem' = SetEntry(PageDesc(page)) /\ page' = Null
            /\ UNCHANGED <<freelist, vttbr, cfg>>
        BY <2>1
      <3>3. QED BY <1>1, <2>2, <2>3, <3>1, <3>2, LeafSet
    <2>6. InHand'
      BY <2>1, <2>3, <2>4 DEF InHand, Structure
    <2>7. Structure'
      BY <2>1, <2>4, <2>5, <2>6, Rest DEF Structure, TypeOK, Pcs
    <2>8. Ipa!Next
      <3>0. walk.va \in VPages
        BY <1>1, EntryFacts
      <3>1. PICK v \in VPages, to \in Pages \cup {Device} : v = walk.va /\ to = page
        BY <2>3, <3>0
      <3>2. to # Device => \A va \in VPages : Leaf(va).kind = "page" => Leaf(va).to # to
        BY <3>1, HandIsFresh
      <3>3. Leaf(v) = Zero /\ Leaf(v)' = PageDesc(to)
        BY <2>5, <3>1
      <3>4. QED BY <2>5, <3>1, <3>2, <3>3, MapRefines
    <2>9. EntryBecomes(PageDesc(page)) /\ pc' # "abort"
      BY <2>4, <2>5 DEF EntryBecomes
    <2>10. QED BY <2>2, <2>7, <2>8, <2>9
  <1>4. QED BY <1>2, <1>3

LEMMA CopyPageStep ==
  ASSUME Structure, CopyPage
  PROVE  Structure' /\ TreeKept
  <1>1. pc = "walk" /\ walk.level = 3 /\ walk.ret = "copy"
    BY DEF CopyPage, Found
  <1>2. CASE Abort
    BY <1>1, <1>2, AbortStep
  <1>3. CASE ~Abort
    <2> DEFINE k == walk.va - cfg.rootfs
    <2>1. /\ Entry.to # Null
          /\ mem' = [mem EXCEPT ![Entry.to] = Filled("rootfs", k)]
          /\ IF k + 1 < cfg.nrootfs
             THEN Call(walk.va + 1, FALSE, "copy") /\ UNCHANGED p
             ELSE pc' = "dtb" /\ p' = p + 1 /\ UNCHANGED walk
          /\ UNCHANGED <<freelist, vttbr, cfg, trap, page>>
      BY <1>3 DEF CopyPage
    <2>2. /\ k \in Nat /\ cfg.rootfs \in Nat /\ cfg.nrootfs \in Nat
          /\ walk.va \in Nat /\ walk.va = cfg.rootfs + k
      <3>1. cfg.rootfs \in Nat /\ cfg.nrootfs \in Nat /\ walk.va \in Area(cfg.rootfs, cfg.nrootfs)
        BY <1>1, ConfigFacts DEF Structure, TypeOK, WalkOnPath
      <3>2. QED BY <3>1 DEF Area
    <2>3. page = Null /\ vttbr # Null
      BY <1>1 DEF Structure, InHand
    <2>4. /\ WalkOnPath' /\ pc' \in {"dtb", "walk"} /\ p' \in Nat
          /\ pc' = "walk" => walk'.ret = "copy"
          /\ walk' \in [va : Nat, pgt : Pages \cup {Null}, level : 0..3, alloc : BOOLEAN, ret : Rets]
      <3>1. CASE k + 1 < cfg.nrootfs
        <4>1. walk.va + 1 \in VPages /\ walk.va + 1 \in Area(cfg.rootfs, cfg.nrootfs)
          <5>1. cfg.rootfs + (k + 1) \in VPages
            BY <2>2, <3>1, ConfigFacts DEF Structure, TypeOK
          <5>2. walk.va + 1 = cfg.rootfs + (k + 1)
            BY <2>2
          <5>3. QED BY <2>2, <3>1, <5>1, <5>2 DEF Area
        <4>2. Call(walk.va + 1, FALSE, "copy") /\ UNCHANGED p
          BY <2>1, <3>1
        <4>3. PICK va \in VPages : va = walk.va + 1
          BY <4>1
        <4>4. "copy" \in Rets \ {"none"} /\ FALSE \in BOOLEAN
          BY DEF Rets
        <4>5. Call(va, FALSE, "copy")
          BY <4>2, <4>3
        <4>6. /\ WalkOnPath' /\ pc' = "walk" /\ walk'.ret = "copy"
              /\ walk' \in [va : Nat, pgt : Pages \cup {Null}, level : 0..3, alloc : BOOLEAN, ret : Rets]
          BY <2>1, <2>3, <4>1, <4>3, <4>4, <4>5, CallOnPath
        <4>7. QED BY <4>2, <4>6 DEF Structure, TypeOK
      <3>2. CASE ~(k + 1 < cfg.nrootfs)
        <4>1. pc' = "dtb" /\ p' = p + 1 /\ UNCHANGED walk
          BY <2>1, <3>2
        <4>2. QED BY <4>1 DEF WalkOnPath, Structure, TypeOK
      <3>3. QED BY <3>1, <3>2
    <2>5. Filled("rootfs", k) \in [Idx -> Words] /\ IsGuests(Filled("rootfs", k))
      BY <2>2, WordFacts
    <2>6. Entry # Zero
      BY <2>1 DEF Zero
    <2>7. MemoryIsRight' /\ TreeKept
      <3> HIDE DEF k
      <3>1. \A q \in Pages : InPool(q)' <=> InPool(q)
        BY <1>1, <2>1, <2>4, PoolSame
      <3>2. QED BY <1>1, <2>1, <2>5, <2>6, <3>1, PageFilled
    <2>8. InHand'
      BY <2>1, <2>3, <2>4 DEF InHand, Structure
    <2>9. QED BY <2>1, <2>4, <2>7, <2>8, Rest DEF Structure, TypeOK, Pcs
  <1>4. QED BY <1>2, <1>3

LEMMA ProbeStep ==
  ASSUME Structure, Probe
  PROVE  Structure' /\ TreeKept
  <1> USE DEF Probe
  <1>1. page = Null /\ vttbr # Null /\ trap \in Nat \ {0} /\ cfg \in Configs
    BY DEF Structure, InHand, TypeOK
  <1>2. /\ WalkOnPath' /\ pc' \in {"walk", "done"}
        /\ pc' = "walk" => walk'.ret = "probe"
        /\ walk' \in [va : Nat, pgt : Pages \cup {Null}, level : 0..3, alloc : BOOLEAN, ret : Rets]
    <2>1. CASE trap <= Len(cfg.traps)
      <3>1. /\ TrapRange(trap).base \in Nat /\ TrapRange(trap).size \in Nat \ {0}
            /\ \A n \in Nat : n < TrapRange(trap).size =>
                 TrapRange(trap).base + n \in VPages \ {cfg.device}
        BY <1>1, <2>1, ConfigFacts
      <3>2. TrapRange(trap).base + 0 \in VPages /\ 0 < TrapRange(trap).size
            /\ TrapRange(trap).base = TrapRange(trap).base + 0
        BY <3>1
      <3>3. PICK va \in VPages : va = TrapRange(trap).base
        BY <3>2
      <3>4. Call(va, FALSE, "probe") /\ p' = 0 /\ trap' = trap /\ UNCHANGED <<vttbr, cfg>>
        BY <2>1, <3>3
      <3>5. "probe" \in Rets \ {"none"} /\ FALSE \in BOOLEAN
        BY DEF Rets
      <3>6. /\ trap' <= Len(cfg.traps)
            /\ va = cfg.traps[trap'].base + p' /\ p' < cfg.traps[trap'].size
        BY <2>1, <3>2, <3>3, <3>4 DEF TrapRange
      <3>7. /\ WalkOnPath' /\ pc' = "walk" /\ walk'.ret = "probe"
            /\ walk' \in [va : Nat, pgt : Pages \cup {Null}, level : 0..3, alloc : BOOLEAN, ret : Rets]
        BY <1>1, <3>4, <3>5, <3>6, CallOnPath
      <3>8. QED BY <3>7
    <2>2. CASE ~(trap <= Len(cfg.traps))
      BY <2>2 DEF WalkOnPath, Structure, TypeOK
    <2>3. QED BY <2>1, <2>2
  <1>3. MemoryIsRight' /\ TreeKept
    BY <1>2, MemorySame, PoolSame
  <1>4. InHand'
    BY <1>1, <1>2 DEF InHand, Structure
  <1>5. QED BY <1>1, <1>2, <1>3, <1>4, Rest DEF Structure, TypeOK, Pcs

LEMMA ProbeFoundStep ==
  ASSUME Structure, ProbeFound
  PROVE  Structure' /\ TreeKept
  <1> USE DEF ProbeFound
  <1>1. /\ pc = "walk" /\ walk.level = 3 /\ walk.ret = "probe"
    BY DEF Found
  <1>2. page = Null /\ vttbr # Null
    BY <1>1 DEF Structure, InHand
  <1>3. /\ WalkOnPath' /\ pc' = "walk" /\ walk'.ret = "unmap"
        /\ walk' \in [va : Nat, pgt : Pages \cup {Null}, level : 0..3, alloc : BOOLEAN, ret : Rets]
    <2>1. PICK va \in VPages : va = walk.va
      BY <1>1, EntryFacts
    <2>2. Call(va, FALSE, "unmap")
      BY <2>1
    <2>3. "unmap" \in Rets \ {"none"} /\ FALSE \in BOOLEAN
      BY DEF Rets
    <2>4. /\ trap' <= Len(cfg.traps)
          /\ va = cfg.traps[trap'].base + p' /\ p' < cfg.traps[trap'].size
      BY <1>1, <2>1 DEF Structure, WalkOnPath, TrapRange
    <2>5. QED BY <1>2, <2>2, <2>3, <2>4, CallOnPath
  <1>4. MemoryIsRight' /\ TreeKept
    BY <1>1, <1>3, MemorySame, PoolSame
  <1>5. InHand'
    BY <1>2, <1>3 DEF InHand, Structure
  <1>6. QED BY <1>3, <1>4, <1>5, Rest DEF Structure, TypeOK, Pcs

\* The ranges of the GIC are not the UART, so what page_unmap frees is a page
\* of the pool.
LEMMA UnmapStep ==
  ASSUME Structure, Unmap
  PROVE  /\ Structure'
         /\ \/ pc' = "abort" /\ TreeKept
            \/ pc' # "abort" /\ Ipa!Next /\ Entry.to \in Pages /\ EntryBecomes(Zero)
  <1>1. /\ pc = "walk" /\ walk.level = 3 /\ walk.ret = "unmap"
    BY DEF Unmap, Found
  <1>2. CASE Abort
    BY <1>1, <1>2, AbortStep DEF Abort
  <1>3. CASE ~Abort
    <2>1. /\ Entry # Zero
          /\ Free(Entry.to, EntryCleared)
          /\ p' = p + 1
          /\ IF p + 1 < TrapRange(trap).size
             THEN Call(walk.va + 1, FALSE, "unmap")
             ELSE pc' = "register" /\ UNCHANGED walk
          /\ UNCHANGED <<vttbr, cfg, trap, page>>
      BY <1>3 DEF Unmap
    <2>2. /\ page = Null /\ vttbr # Null /\ trap \in Nat \ {0} /\ cfg \in Configs /\ p \in Nat
      BY <1>1 DEF Structure, InHand, TypeOK
    <2>3. /\ trap <= Len(cfg.traps)
          /\ walk.va = TrapRange(trap).base + p /\ p < TrapRange(trap).size
      BY <1>1 DEF Structure, WalkOnPath
    <2>4. /\ TrapRange(trap).base \in Nat /\ TrapRange(trap).size \in Nat \ {0}
          /\ \A n \in Nat : n < TrapRange(trap).size =>
               TrapRange(trap).base + n \in VPages \ {cfg.device}
      BY <2>2, <2>3, ConfigFacts
    <2>5. PICK v \in VPages : v = walk.va /\ v # cfg.device
      BY <2>2, <2>3, <2>4
    <2>6. Entry.to \in Pages
      <3>1. Entry = PageDesc(Entry.to) /\ Entry.to \in Pages \cup {Device}
        BY <1>1, <2>1, EntryPage
      <3>2. walk.pgt = Node(3, v) /\ walk.pgt # Null
        BY <1>1, <2>5, EntryFacts, Basics
      <3>3. Leaf(v) = Entry
        BY <1>1, <2>5, <3>2, LeafIs DEF Entry
      <3>4. Entry.to # Device
        BY <2>5, <3>1, <3>3 DEF Structure, DeviceAtItsAddress
      <3>5. QED BY <3>1, <3>4
    <2>7. /\ WalkOnPath' /\ pc' \in {"walk", "register"}
          /\ pc' = "walk" => walk'.ret = "unmap"
          /\ walk' \in [va : Nat, pgt : Pages \cup {Null}, level : 0..3, alloc : BOOLEAN, ret : Rets]
      <3>1. CASE p + 1 < TrapRange(trap).size
        <4>1. TrapRange(trap).base + (p + 1) \in VPages
          BY <2>2, <2>4, <3>1
        <4>2. walk.va + 1 = TrapRange(trap).base + (p + 1)
          BY <2>2, <2>3, <2>4
        <4>3. PICK va \in VPages : va = walk.va + 1
          BY <4>1, <4>2
        <4>4. Call(va, FALSE, "unmap")
          BY <2>1, <3>1, <4>3
        <4>5. "unmap" \in Rets \ {"none"} /\ FALSE \in BOOLEAN
          BY DEF Rets
        <4>6. /\ trap' <= Len(cfg.traps)
              /\ va = cfg.traps[trap'].base + p' /\ p' < cfg.traps[trap'].size
          BY <2>1, <2>3, <3>1, <4>2, <4>3 DEF TrapRange
        <4>7. /\ WalkOnPath' /\ pc' = "walk" /\ walk'.ret = "unmap"
              /\ walk' \in [va : Nat, pgt : Pages \cup {Null}, level : 0..3, alloc : BOOLEAN, ret : Rets]
          BY <2>1, <2>2, <4>4, <4>5, <4>6, CallOnPath
        <4>8. QED BY <4>7
      <3>2. CASE ~(p + 1 < TrapRange(trap).size)
        <4>1. pc' = "register" /\ UNCHANGED walk
          BY <2>1, <3>2
        <4>2. QED BY <4>1 DEF WalkOnPath, Structure, TypeOK
      <3>3. QED BY <3>1, <3>2
    <2>8. \A q \in Pages : InPool(q)' <=> InPool(q)
      BY <1>1, <2>1, <2>7, PoolSame
    <2>9. /\ MemoryIsRight'
          /\ \A va \in VPages : va = walk.va => Leaf(va).kind = "page" /\ Leaf(va)' = Zero
          /\ \A va \in VPages : va # walk.va => Leaf(va)' = Leaf(va)
          /\ \A va \in VPages, k \in 0..3 : Node(k, va)' = Node(k, va)
      BY <1>1, <2>1, <2>6, <2>8, PageFreed
    <2>10. InHand'
      BY <2>1, <2>2, <2>7 DEF InHand, Structure
    <2>11. Structure'
      BY <2>1, <2>2, <2>7, <2>9, <2>10, Rest DEF Structure, TypeOK, Pcs
    <2>12. Ipa!Next
      BY <2>5, <2>9, UnmapRefines
    <2>13. EntryBecomes(Zero) /\ pc' # "abort"
      BY <2>7, <2>9 DEF EntryBecomes
    <2>14. QED BY <2>6, <2>11, <2>12, <2>13
  <1>4. QED BY <1>2, <1>3

LEMMA RegisterStep ==
  ASSUME Structure, Register
  PROVE  Structure' /\ TreeKept
  <1> USE DEF Register
  <1>1. MemoryIsRight' /\ TreeKept
    BY MemorySame, PoolSame
  <1>2. WalkOnPath' /\ InHand'
    BY DEF WalkOnPath, InHand, Structure, TypeOK
  <1>3. QED BY <1>1, <1>2, Rest DEF Structure, TypeOK, Pcs

-----------------------------------------------------------------------------
(* The guest's memory is built step by step.                               *)

\* The page that a descriptor maps belongs to its address alone.
LEMMA LeafPage ==
  ASSUME Structure, NEW va \in VPages, Leaf(va).kind = "page", Leaf(va).to \in Pages
  PROVE  /\ Leaf(va).to # freelist /\ Leaf(va).to # page
         /\ \A u \in VPages, k \in 0..3 : Node(k, u) # Leaf(va).to
         /\ \A u \in VPages : Leaf(u).kind = "page" /\ Leaf(u).to = Leaf(va).to => u = va
  <1> USE DEF Structure, TypeOK
  <1>1. ASSUME NEW u \in VPages, Leaf(u).kind = "page"
        PROVE  /\ Node(3, u) \in Pages /\ PIndex(3, u) \in Idx /\ Node(3, u) # Null
               /\ Leaf(u) = mem[Node(3, u)][PIndex(3, u)]
               /\ WordTarget(mem[Node(3, u)][PIndex(3, u)]) = Leaf(u).to
    <2>1. Node(3, u) # Null /\ Leaf(u) = mem[Node(3, u)][PIndex(3, u)]
      BY <1>1, LeafIs DEF Zero
    <2>2. Node(3, u) \in Pages /\ PIndex(3, u) \in Idx
      BY <2>1, Basics, PIndexIsIndex DEF TablesAreRight
    <2>3. QED BY <1>1, <2>1, <2>2 DEF WordTarget
  <1>2. PICK t \in Pages, x \in Idx :
          t = Node(3, va) /\ x = PIndex(3, va) /\ WordTarget(mem[t][x]) = Leaf(va).to
          /\ mem[t][x].kind = "page"
    BY <1>1
  <1>3. Leaf(va).to # freelist /\ Leaf(va).to # page
    BY <1>2, Apart
  <1>4. \A u \in VPages, k \in 0..3 : Node(k, u) # Leaf(va).to
    <2>1. /\ <<t, x>> \in Places /\ Target(<<t, x>>) = Leaf(va).to /\ Holds(<<t, x>>) = "page"
      BY <1>2, PlaceIs, TargetIs
    <2>2. QED BY <2>1, NodeIsNotOther
  <1>5. ASSUME NEW u \in VPages, Leaf(u).kind = "page", Leaf(u).to = Leaf(va).to
        PROVE  u = va
    <2>1. PICK s \in Pages, y \in Idx :
            s = Node(3, u) /\ y = PIndex(3, u) /\ WordTarget(mem[s][y]) = Leaf(va).to
      BY <1>1, <1>5
    <2>2. s = t /\ y = x
      BY <1>2, <2>1, Apart
    <2>3. LeafTable(va) = Node(3, va) /\ LeafTable(u) = Node(3, u)
      BY DEF Node
    <2>4. LeafTable(va) # Null /\ LeafTable(u) = LeafTable(va) /\ PIndex(3, u) = PIndex(3, va)
      BY <1>2, <2>1, <2>2, <2>3, Basics
    <2>5. QED BY <2>4, EntriesDistinct
  <1>6. QED BY <1>3, <1>4, <1>5

\* The entry of the walk at level 3 is the one of its address.
LEMMA WalkLeaf ==
  ASSUME Structure, pc = "walk", walk.level = 3
  PROVE  Leaf(walk.va) = Entry /\ Node(3, walk.va) # Null
  <1>1. walk.pgt = Node(3, walk.va) /\ walk.pgt # Null
    BY EntryFacts, Basics
  <1>2. QED BY <1>1, LeafIs DEF Entry

\* A step leaves the contents of the page of an address alone.
GuestKept(va) ==
  Leaf(va).kind = "page" /\ Leaf(va).to \in Pages => mem'[Leaf(va).to] = mem[Leaf(va).to]

LEMMA WrittenKept ==
  ASSUME NEW va, cfg' = cfg, Copied(va)' <=> Copied(va), DtbMapped(va)' <=> DtbMapped(va)
  PROVE  Written(va)' = Written(va)
  BY DEF Written, InImage, Filled, Data, Cleared, Zero

\* An address at which nothing is done stays as it is.
LEMMA AddressKept ==
  ASSUME NEW va \in VPages, BuiltAt(va), cfg' = cfg, GuestKept(va),
         Leaf(va)' = Leaf(va), Node(3, va) # Null => Node(3, va)' # Null,
         Removed(va)' <=> Removed(va), va = cfg.device => (UartMapped' <=> UartMapped),
         MemoryMapped(va)' <=> MemoryMapped(va), DtbMapped(va)' <=> DtbMapped(va),
         Copied(va)' <=> Copied(va)
  PROVE  BuiltAt(va)'
  <1>1. Written(va)' = Written(va)
    BY WrittenKept
  <1>2. Mapped(va)' <=> Mapped(va)
    BY DEF Mapped
  <1>3. /\ Mapped(va)' => Node(3, va)' # Null
        /\ Copied(va)' => Mapped(va)'
        /\ ~(MemoryMapped(va)' /\ DtbMapped(va)')
    BY <1>2 DEF BuiltAt
  <1>4. IF Removed(va)' THEN Leaf(va)' = Zero
        ELSE IF UartMapped' /\ va = cfg.device THEN Leaf(va)' = PageDesc(Device)
        ELSE IF Mapped(va)'
             THEN Leaf(va)'.kind = "page" /\ Leaf(va)'.to \in Pages /\ mem'[Leaf(va)'.to] = Written(va)'
             ELSE Leaf(va)' = Zero
    BY <1>1, <1>2 DEF BuiltAt, GuestKept
  <1>5. QED BY <1>3, <1>4 DEF BuiltAt, PageDesc, Zero

\* A step that works on the same page of the same stage.
LEMMA StageKept ==
  ASSUME NEW va, Stage' = Stage, UNCHANGED <<p, trap, cfg>>, Stage = "copy" => walk'.va = walk.va
  PROVE  /\ Removed(va)' <=> Removed(va)
         /\ UartMapped' <=> UartMapped
         /\ MemoryMapped(va)' <=> MemoryMapped(va)
         /\ DtbMapped(va)' <=> DtbMapped(va)
         /\ Copied(va)' <=> Copied(va)
  BY DEF Removed, UartMapped, MemoryMapped, DtbMapped, Copied, InImage, InRam, InDtb, InRootfs, TrapRange

LEMMA BuiltKept ==
  ASSUME Built, TreeKept, Building' => Building, cfg' = cfg,
         \A va \in VPages : GuestKept(va),
         \A va \in VPages :
           /\ Removed(va)' <=> Removed(va)
           /\ UartMapped' <=> UartMapped
           /\ MemoryMapped(va)' <=> MemoryMapped(va)
           /\ DtbMapped(va)' <=> DtbMapped(va)
           /\ Copied(va)' <=> Copied(va)
  PROVE  Built'
  <1>1. SUFFICES ASSUME cfg \in Sound, Building, NEW va \in VPages PROVE BuiltAt(va)'
    BY DEF Built
  <1>2. BuiltAt(va)
    BY <1>1 DEF Built
  <1>3. QED BY <1>2, AddressKept DEF TreeKept

\* Nothing is said of a boot that has stopped.
LEMMA StoppedBuilt ==
  ASSUME pc' \in {"abort", "null_pte"}
  PROVE  Built' /\ Counters'
  BY DEF Built, Building, UartMapped, Stage, Counters

\* The types of what the counters are compared with.
LEMMA Numbers ==
  ASSUME Structure
  PROVE  /\ p \in Nat /\ trap \in Nat \ {0} /\ cfg \in Configs
         /\ {cfg.entry, cfg.nimage, cfg.nram, cfg.dtb, cfg.ndtb, cfg.rootfs, cfg.nrootfs} \subseteq Nat
         /\ DOMAIN cfg.traps \subseteq Nat \ {0} /\ DOMAIN cfg.traps = 1..Len(cfg.traps)
         /\ Len(cfg.traps) \in Nat
         /\ \A t \in DOMAIN cfg.traps : TrapRange(t).base \in Nat /\ TrapRange(t).size \in Nat \ {0}
  <1>1. p \in Nat /\ trap \in Nat \ {0} /\ cfg \in Configs
    BY DEF Structure, TypeOK, InHand
  <1>2. /\ {cfg.entry, cfg.nimage, cfg.nram, cfg.dtb, cfg.ndtb, cfg.rootfs, cfg.nrootfs} \subseteq Nat
        /\ Len(cfg.traps) \in Nat
    BY <1>1, ConfigFacts
  <1>3. DOMAIN cfg.traps = 1..Len(cfg.traps)
    BY <1>1, ConfigAssumption
  <1>4. \A t \in DOMAIN cfg.traps : t \in Nat \ {0} /\ t <= Len(cfg.traps)
    BY <1>2, <1>3
  <1>5. \A t \in DOMAIN cfg.traps : TrapRange(t).base \in Nat /\ TrapRange(t).size \in Nat \ {0}
    BY <1>1, <1>4, ConfigFacts
  <1>6. QED BY <1>1, <1>2, <1>3, <1>4, <1>5

\* Before create_mmio_trap nothing is removed.
LEMMA NothingRemoved ==
  ASSUME Structure, trap = 1, Stage \notin {"register", "unmap"}, NEW va
  PROVE  ~Removed(va)
  <1>1. \A t \in DOMAIN cfg.traps : t \in Nat \ {0}
    BY Numbers
  <1>2. QED BY <1>1 DEF Removed

LEMMA KallocInitBuilt ==
  ASSUME IInv, KallocInit
  PROVE  Built' /\ Counters'
  <1>0. pc = "kalloc_init" /\ UNCHANGED <<cfg, trap>>
    BY DEF KallocInit
  <1>1. pc' = "kalloc_init" \/ (pc' = "vttbr" /\ p' = 0)
    <2>1. CASE p <= cfg.npages
      BY <1>0, <2>1 DEF KallocInit
    <2>2. CASE ~(p <= cfg.npages)
      BY <2>2 DEF KallocInit
    <2>3. QED BY <2>1, <2>2
  <1>2. Stage = "kalloc_init" /\ Stage' \in {"kalloc_init", "vttbr"}
    BY <1>0, <1>1 DEF Stage
  <1>3. Built'
    BY <1>2 DEF Built, Building, UartMapped
  <1>4. Counters'
    BY <1>0, <1>1, <1>2 DEF Counters, IInv
  <1>5. QED BY <1>3, <1>4

LEMMA AllocVttbrBuilt ==
  ASSUME IInv, AllocVttbr
  PROVE  Built' /\ Counters'
  <1> USE DEF IInv
  <1>1. CASE Abort
    BY <1>1, StoppedBuilt DEF Abort
  <1>2. CASE ~Abort
    <2>1. pc = "vttbr" /\ pc' = "memory" /\ UNCHANGED <<cfg, p, trap, page, walk>>
      BY <1>2 DEF AllocVttbr
    <2>2. /\ Stage = "vttbr" /\ Stage' = "memory" /\ p = 0 /\ trap = 1 /\ vttbr = Null
      BY <2>1 DEF Stage, Counters, Structure, InHand
    <2>3. Structure' /\ TreeKept
      BY AllocVttbrStep
    <2>4. ASSUME NEW va \in VPages PROVE BuiltAt(va)'
      <3>1. ~Removed(va)'
        <4>1. \A t \in DOMAIN cfg.traps : t \in Nat \ {0}
          BY Numbers
        <4>2. QED BY <2>1, <2>2, <4>1 DEF Removed
      <3>2. ~UartMapped' /\ ~DtbMapped(va)' /\ ~Copied(va)'
        BY <2>2 DEF UartMapped, DtbMapped, Copied
      <3>3. ~MemoryMapped(va)'
        <4>1. cfg.entry \in Nat /\ cfg.nimage \in Nat /\ cfg.nram \in Nat
          BY Numbers
        <4>2. va \in Nat
          BY Basics
        <4>3. QED BY <2>1, <2>2, <4>1, <4>2 DEF MemoryMapped, InImage, InRam
      <3>4. Leaf(va) = Zero /\ Leaf(va)' = Leaf(va)
        BY <2>2, <2>3, NoRoot, LeafIs DEF TreeKept
      <3>5. QED BY <3>1, <3>2, <3>3, <3>4 DEF BuiltAt, Mapped, Zero
    <2>5. Built'
      BY <2>4 DEF Built
    <2>6. Counters'
      BY <2>1, <2>2 DEF Counters, Stage
    <2>7. QED BY <2>5, <2>6
  <1>3. QED BY <1>1, <1>2

LEMMA WalkDownBuilt ==
  ASSUME IInv, WalkDown
  PROVE  Built' /\ Counters'
  <1> USE DEF IInv
  <1>1. /\ pc = "walk" /\ UNCHANGED <<mem, cfg, pc, p, trap, page>>
        /\ walk'.va = walk.va /\ walk'.ret = walk.ret
    BY DEF WalkDown, Structure, TypeOK
  <1>2. Stage' = Stage
    BY <1>1 DEF Stage
  <1>3. Built'
    <2>1. TreeKept
      BY WalkDownStep
    <2>2. \A va \in VPages : GuestKept(va)
      BY <1>1 DEF GuestKept
    <2>3. Building' => Building
      BY <1>2 DEF Building, UartMapped
    <2>4. QED BY <1>1, <1>2, <2>1, <2>2, <2>3, StageKept, BuiltKept
  <1>4. Counters'
    BY <1>1, <1>2 DEF Counters, Filled, Data, Cleared, Zero
  <1>5. QED BY <1>3, <1>4

LEMMA WalkAllocBuilt ==
  ASSUME IInv, WalkAlloc
  PROVE  Built' /\ Counters'
  <1> USE DEF IInv
  <1>1. CASE Abort
    BY <1>1, StoppedBuilt DEF Abort
  <1>2. CASE ~Abort
    <2>1. PICK pg \in Pages :
            /\ Take(pg)
            /\ mem' = EnterTable(Zeroed(pg), pg)
            /\ walk' = [walk EXCEPT !.pgt = pg, !.level = @ + 1]
            /\ UNCHANGED <<vttbr, cfg, pc, p, trap, page>>
      BY <1>2 DEF WalkAlloc
    <2>2. pc = "walk" /\ walk'.va = walk.va /\ walk'.ret = walk.ret
      BY <2>1 DEF WalkAlloc, Structure, TypeOK
    <2>3. Stage' = Stage
      BY <2>1, <2>2 DEF Stage
    <2>4. \A q \in Pages : q # pg /\ q # walk.pgt => mem'[q] = mem[q]
      BY <2>1 DEF EnterTable, Zeroed, Structure, TypeOK
    <2>5. Built'
      <3>1. TreeKept
        BY WalkAllocStep
      <3>2. ASSUME NEW va \in VPages PROVE GuestKept(va)
        <4>1. SUFFICES ASSUME Leaf(va).kind = "page", Leaf(va).to \in Pages
                       PROVE  mem'[Leaf(va).to] = mem[Leaf(va).to]
          BY DEF GuestKept
        <4>2. Leaf(va).to # pg
          BY <2>1, <4>1, LeafPage DEF Take
        <4>3. Leaf(va).to # walk.pgt
          BY <2>2, <4>1, LeafPage, EntryFacts
        <4>4. QED BY <2>4, <4>1, <4>2, <4>3
      <3>3. Building' => Building
        BY <2>3 DEF Building, UartMapped
      <3>4. QED BY <2>1, <2>2, <2>3, <3>1, <3>2, <3>3, StageKept, BuiltKept
    <2>6. page \in Pages => mem'[page] = mem[page]
      BY <2>1, <2>2, <2>4, TakeFacts, EntryFacts
    <2>7. pc = "walk" /\ walk.ret \in {"memory", "dtb"} => page \in Pages
      BY DEF Structure, InHand
    <2>8. Counters'
      <3>1. /\ pc = "walk" /\ walk.ret \in {"memory", "dtb"} => mem'[page'] = mem[page]
            /\ \A what, n : Filled(what, n)' = Filled(what, n)
        BY <2>1, <2>6, <2>7
      <3>2. QED BY <2>1, <2>2, <2>3, <3>1 DEF Counters, Cleared, Zero, Filled, Data
    <2>9. QED BY <2>5, <2>8
  <1>3. QED BY <1>1, <1>2

\* Where page_walk finds no table there is no last-level table.
LEMMA NoLeafTable ==
  ASSUME Structure, pc = "walk", walk.level < 3, Entry.kind # "table"
  PROVE  Node(3, walk.va) = Null
  <1>0. PICK L \in 0..2, v \in VPages : L = walk.level /\ v = walk.va
    BY EntryFacts
  <1>1. Node(L, v) = walk.pgt
    BY <1>0, EntryFacts
  <1>2. Node(L + 1, v) = Null
    BY <1>0, <1>1, NodeStep DEF NextTable, Entry
  <1>3. \A k \in 0..2 : Node(k, v) = Null => Node(k + 1, v) = Null
    BY NodeStep DEF NextTable
  <1>4. Node(1, v) = Null => Node(2, v) = Null
    <2>1. Node(1, v) = Null => Node(1 + 1, v) = Null
      BY <1>3
    <2>2. QED BY <2>1
  <1>5. Node(2, v) = Null => Node(3, v) = Null
    <2>1. Node(2, v) = Null => Node(2 + 1, v) = Null
      BY <1>3
    <2>2. QED BY <2>1
  <1>6. L + 1 \in {1, 2, 3}
    OBVIOUS
  <1>7. Node(3, v) = Null
    BY <1>2, <1>4, <1>5, <1>6
  <1>8. QED BY <1>0, <1>7

\* A range whose first page has no last-level table holds no page of the
\* guest's memory: create_mmio_trap has nothing to unmap.
LEMMA WalkMissingBuilt ==
  ASSUME IInv, WalkMissing
  PROVE  Built' /\ Counters'
  <1> USE DEF IInv
  <1>1. walk.ret \in {"copy", "probe", "unmap"} /\ pc = "walk"
    BY DEF WalkMissing, Structure, TypeOK, WalkOnPath, Rets
  <1>2. CASE walk.ret # "probe"
    <2>1. pc' \in {"abort", "null_pte"}
      BY <1>1, <1>2 DEF WalkMissing
    <2>2. QED BY <2>1, StoppedBuilt
  <1>3. CASE walk.ret = "probe"
    <2>1. pc' = "register" /\ UNCHANGED <<mem, cfg, p, trap, page, walk>>
      BY <1>3 DEF WalkMissing
    <2>2. Stage = "probe" /\ Stage' = "register"
      BY <1>1, <1>3, <2>1 DEF Stage
    <2>3. TreeKept
      BY WalkMissingStep
    <2>4. /\ trap \in DOMAIN cfg.traps /\ walk.va \in VPages
          /\ walk.va = TrapRange(trap).base
          /\ TrapRange(trap).base \in Nat /\ TrapRange(trap).size \in Nat \ {0}
      <3>1. /\ trap <= Len(cfg.traps) /\ walk.va \in VPages
            /\ walk.va = TrapRange(trap).base + p /\ p = 0
        BY <1>1, <1>3 DEF Structure, WalkOnPath, Counters
      <3>2. trap \in DOMAIN cfg.traps
        BY <3>1, Numbers
      <3>3. QED BY <3>1, <3>2, Numbers
    <2>5. Node(3, walk.va) = Null
      BY <1>1, NoLeafTable DEF WalkMissing
    <2>6. ASSUME cfg \in Sound, NEW va \in VPages PROVE BuiltAt(va)'
      <3> DEFINE In == va - TrapRange(trap).base \in 0..(TrapRange(trap).size - 1)
      <3>1. BuiltAt(va) /\ BuiltAt(walk.va)
        BY <2>2, <2>4, <2>6 DEF Built, Building, UartMapped
      <3>2. /\ UartMapped' <=> UartMapped
            /\ MemoryMapped(va)' <=> MemoryMapped(va)
            /\ DtbMapped(va)' <=> DtbMapped(va)
            /\ Copied(va)' <=> Copied(va)
        BY <2>1, <2>2 DEF UartMapped, MemoryMapped, DtbMapped, Copied, InImage, InRam, InDtb, InRootfs
      <3>3. Removed(va)' <=> Removed(va) \/ In
        BY <2>1, <2>2, <2>4 DEF Removed, TrapRange
      <3>4. CASE ~In
        <4>1. GuestKept(va)
          BY <2>1 DEF GuestKept
        <4>2. QED BY <2>1, <2>3, <3>1, <3>2, <3>3, <3>4, <4>1, AddressKept DEF TreeKept
      <3>5. CASE In
        <4>1. va \in Area(TrapRange(trap).base, TrapRange(trap).size)
              /\ walk.va \in Area(TrapRange(trap).base, TrapRange(trap).size)
          BY <2>4, <3>5, Basics DEF Area
        <4>2. va # cfg.device
          <5>1. Area(cfg.traps[trap].base, cfg.traps[trap].size) \subseteq VPages \ {cfg.device}
            BY <2>4, Numbers, ConfigAssumption
          <5>2. QED BY <4>1, <5>1 DEF TrapRange
        <4>3. ~Mapped(walk.va)
          BY <2>5, <3>1 DEF BuiltAt
        <4>4. ~Mapped(va)
          <5> DEFINE areas == Area(cfg.entry, cfg.nimage) \cup Area(cfg.entry, cfg.nram)
                              \cup Area(cfg.dtb, cfg.ndtb)
          <5>1. \A u \in VPages : Mapped(u) <=> u \in areas
            <6>1. /\ cfg.entry \in Nat /\ cfg.nimage \in Nat /\ cfg.nram \in Nat
                  /\ cfg.dtb \in Nat /\ cfg.ndtb \in Nat
              BY Numbers
            <6>2. \A u \in VPages : u \in Nat
              BY Basics
            <6>3. \A u \in VPages : Mapped(u) <=> InImage(u) \/ InRam(u) \/ InDtb(u)
              BY <2>2 DEF Mapped, MemoryMapped, DtbMapped
            <6>4. \A u \in VPages : /\ InImage(u) <=> u \in Area(cfg.entry, cfg.nimage)
                                    /\ InRam(u) <=> u \in Area(cfg.entry, cfg.nram)
                                    /\ InDtb(u) <=> u \in Area(cfg.dtb, cfg.ndtb)
              BY <6>1, <6>2 DEF InImage, InRam, InDtb, Area
            <6>5. QED BY <6>3, <6>4
          <5>2. LET trapped == Area(TrapRange(trap).base, TrapRange(trap).size)
                IN  trapped \subseteq areas \/ trapped \cap areas = {}
            BY <2>4, <2>6, SoundAssumption DEF TrapRange
          <5>3. walk.va \notin areas
            BY <2>4, <4>3, <5>1
          <5> HIDE DEF areas
          <5>4. va \notin areas
            BY <4>1, <5>2, <5>3
          <5>5. QED BY <5>1, <5>4
        <4>5. Leaf(va) = Zero
          BY <3>1, <4>2, <4>4 DEF BuiltAt
        <4>6. Leaf(va)' = Zero /\ Removed(va)'
          BY <2>3, <3>3, <3>5, <4>5 DEF TreeKept
        <4>7. ~Mapped(va)' /\ ~Copied(va)'
          BY <3>1, <3>2, <4>4 DEF Mapped, BuiltAt
        <4>8. QED BY <4>6, <4>7 DEF BuiltAt, Mapped, Zero
      <3>6. QED BY <3>4, <3>5
    <2>7. Built'
      BY <2>1, <2>6 DEF Built
    <2>8. Counters'
      BY <2>1, <2>2 DEF Counters
    <2>9. QED BY <2>7, <2>8
  <1>4. QED BY <1>2, <1>3

\* A page is taken off the free list and filled; the tables do not change.
LEMMA MapBuilt ==
  ASSUME IInv, pc = "memory" \/ pc = "dtb", NEW va \in VPages, NEW pg \in Pages, Take(pg),
         NEW words, mem' = [mem EXCEPT ![pg] = words], page' = pg,
         Call(va, TRUE, pc), UNCHANGED <<cfg, p, trap>>, TreeKept,
         pc = "memory" => /\ va = cfg.entry + p
                          /\ p < cfg.nimage \/ p < cfg.nram
                          /\ words = IF p < cfg.nimage THEN Filled("image", p) ELSE Cleared,
         pc = "dtb" => va = cfg.dtb + p /\ p < cfg.ndtb /\ words = Filled("dtb", p)
  PROVE  Built' /\ Counters'
  <1> USE DEF IInv
  <1>1. pc' = "walk" /\ walk'.va = va /\ walk'.ret = pc
    BY DEF Call
  <1>2. Stage = pc /\ Stage' = pc
    BY <1>1 DEF Stage
  <1>3. mem'[pg] = words /\ \A q \in Pages : q # pg => mem'[q] = mem[q]
    BY DEF Structure, TypeOK
  <1>4. Built'
    <2>1. ASSUME NEW u \in VPages PROVE GuestKept(u)
      <3>1. Leaf(u).kind = "page" /\ Leaf(u).to \in Pages => Leaf(u).to # pg
        BY LeafPage DEF Take
      <3>2. QED BY <1>3, <3>1 DEF GuestKept
    <2>2. Building' => Building
      BY <1>2 DEF Building, UartMapped
    <2>3. Stage # "copy" /\ Stage' = Stage
      BY <1>2
    <2>4. QED BY <2>1, <2>2, <2>3, StageKept, BuiltKept
  <1>5. Counters'
    <2>1. trap = 1
      BY <1>2 DEF Counters
    <2>2. /\ pc = "memory" => mem'[page'] = IF p < cfg.nimage THEN Filled("image", p) ELSE Cleared
          /\ pc = "dtb" => mem'[page'] = Filled("dtb", p) /\ p <= cfg.ndtb
      BY <1>3 DEF Counters, Stage
    <2>3. /\ (Cleared)' = Cleared /\ \A what, n : Filled(what, n)' = Filled(what, n)
      BY DEF Cleared, Zero, Filled, Data
    <2>4. QED BY <1>1, <1>2, <2>1, <2>2, <2>3 DEF Counters
  <1>6. QED BY <1>4, <1>5

LEMMA MapMemoryBuilt ==
  ASSUME IInv, MapMemory
  PROVE  Built' /\ Counters'
  <1> USE DEF IInv
  <1>1. CASE Abort
    BY <1>1, StoppedBuilt DEF Abort
  <1>2. CASE ~Abort
    <2>1. PICK pg \in Pages :
            /\ Take(pg)
            /\ mem' = IF p < cfg.nimage THEN [Zeroed(pg) EXCEPT ![pg] = Filled("image", p)] ELSE Zeroed(pg)
            /\ page' = pg
            /\ Call(cfg.entry + p, TRUE, "memory")
            /\ UNCHANGED <<vttbr, cfg, p, trap>>
      BY <1>2 DEF MapMemory
    <2>2. pc = "memory" /\ (p < cfg.nimage \/ p < cfg.nram)
      BY DEF MapMemory
    <2>3. PICK va \in VPages : va = cfg.entry + p
      BY <2>2, ConfigFacts, Numbers
    <2> DEFINE words == IF p < cfg.nimage THEN Filled("image", p) ELSE Cleared
    <2>4. mem' = [mem EXCEPT ![pg] = words]
      BY <2>1 DEF Zeroed, Structure, TypeOK
    <2>5. TreeKept
      BY MapMemoryStep
    <2>6. Call(va, TRUE, pc)
      BY <2>1, <2>2, <2>3
    <2>7. QED BY <2>1, <2>2, <2>3, <2>4, <2>5, <2>6, MapBuilt
  <1>3. QED BY <1>1, <1>2

LEMMA MapDtbBuilt ==
  ASSUME IInv, MapDtb
  PROVE  Built' /\ Counters'
  <1> USE DEF IInv
  <1>1. CASE Abort
    BY <1>1, StoppedBuilt DEF Abort
  <1>2. CASE ~Abort
    <2>1. PICK pg \in Pages :
            /\ Take(pg)
            /\ mem' = [Zeroed(pg) EXCEPT ![pg] = Filled("dtb", p)]
            /\ page' = pg
            /\ Call(cfg.dtb + p, TRUE, "dtb")
            /\ UNCHANGED <<vttbr, cfg, p, trap>>
      BY <1>2 DEF MapDtb
    <2>2. pc = "dtb" /\ p < cfg.ndtb
      BY DEF MapDtb
    <2>3. PICK va \in VPages : va = cfg.dtb + p
      BY <2>2, ConfigFacts, Numbers
    <2> DEFINE words == Filled("dtb", p)
    <2>4. mem' = [mem EXCEPT ![pg] = words]
      BY <2>1 DEF Zeroed, Structure, TypeOK
    <2>5. TreeKept
      BY MapDtbStep
    <2>6. Call(va, TRUE, pc)
      BY <2>1, <2>2, <2>3
    <2>7. QED BY <2>1, <2>2, <2>3, <2>4, <2>5, <2>6, MapBuilt
  <1>3. QED BY <1>1, <1>2

\* do_memory_mapping has reached the end of the memory.
LEMMA MemoryDoneBuilt ==
  ASSUME IInv, MemoryDone
  PROVE  Built' /\ Counters'
  <1> USE DEF IInv
  <1>1. /\ pc = "memory" /\ pc' = "dtb" /\ p' = 0 /\ UNCHANGED <<mem, cfg, trap, page, walk>>
        /\ ~(p < cfg.nimage \/ p < cfg.nram)
    BY DEF MemoryDone
  <1>2. Stage = "memory" /\ Stage' = "dtb"
    BY <1>1 DEF Stage
  <1>3. trap = 1
    BY <1>2 DEF Counters
  <1>4. /\ cfg.entry \in Nat /\ cfg.nimage \in Nat /\ cfg.nram \in Nat
        /\ cfg.dtb \in Nat /\ cfg.ndtb \in Nat /\ p \in Nat
    BY Numbers
  <1>5. Built'
    <2>1. TreeKept /\ Structure'
      BY MemoryDoneStep
    <2>2. \A va \in VPages : GuestKept(va)
      BY <1>1 DEF GuestKept
    <2>3. ASSUME NEW va \in VPages
          PROVE  /\ Removed(va)' <=> Removed(va)
                 /\ UartMapped' <=> UartMapped
                 /\ MemoryMapped(va)' <=> MemoryMapped(va)
                 /\ DtbMapped(va)' <=> DtbMapped(va)
                 /\ Copied(va)' <=> Copied(va)
      <3>1. va \in Nat
        BY Basics
      <3>2. Removed(va)' <=> Removed(va)
        BY <1>1, <1>2 DEF Removed, TrapRange
      <3>3. MemoryMapped(va)' <=> MemoryMapped(va)
        BY <1>1, <1>2, <1>4, <3>1 DEF MemoryMapped, InImage, InRam
      <3>4. ~DtbMapped(va)' /\ ~DtbMapped(va)
        BY <1>1, <1>2, <1>4, <3>1 DEF DtbMapped, InDtb
      <3>5. ~Copied(va)' /\ ~Copied(va)
        BY <1>1, <1>2 DEF Copied
      <3>6. QED BY <1>2, <3>2, <3>3, <3>4, <3>5 DEF UartMapped
    <2>4. Building
      BY <1>2 DEF Building
    <2>5. QED BY <1>1, <2>1, <2>2, <2>3, <2>4, BuiltKept
  <1>6. Counters'
    BY <1>1, <1>2, <1>3, <1>4 DEF Counters
  <1>7. QED BY <1>5, <1>6

\* All of the device tree is mapped, and the rootfs copied if there is one.
LEMMA DtbDoneBuilt ==
  ASSUME IInv, DtbDone
  PROVE  Built' /\ Counters'
  <1> USE DEF IInv
  <1>1. /\ pc = "dtb" /\ pc' = "walk" /\ walk'.ret = "device" /\ UNCHANGED <<mem, cfg, p, trap>>
        /\ ~(p < cfg.ndtb)
    BY DEF DtbDone, Call
  <1>2. Stage = "dtb" /\ Stage' = "device"
    BY <1>1 DEF Stage
  <1>3. trap = 1 /\ p <= cfg.ndtb
    BY <1>2 DEF Counters
  <1>4. cfg.dtb \in Nat /\ cfg.ndtb \in Nat /\ p \in Nat
    BY Numbers
  <1>5. Built'
    <2>1. TreeKept
      BY DtbDoneStep
    <2>2. \A va \in VPages : GuestKept(va)
      BY <1>1 DEF GuestKept
    <2>3. ASSUME NEW va \in VPages
          PROVE  /\ Removed(va)' <=> Removed(va)
                 /\ UartMapped' <=> UartMapped
                 /\ MemoryMapped(va)' <=> MemoryMapped(va)
                 /\ DtbMapped(va)' <=> DtbMapped(va)
                 /\ Copied(va)' <=> Copied(va)
      <3>1. va \in Nat
        BY Basics
      <3>2. Removed(va)' <=> Removed(va)
        BY <1>1, <1>2 DEF Removed, TrapRange
      <3>3. MemoryMapped(va)' <=> MemoryMapped(va)
        BY <1>1, <1>2 DEF MemoryMapped, InImage, InRam
      <3>4. DtbMapped(va)' <=> DtbMapped(va)
        BY <1>1, <1>2, <1>3, <1>4, <3>1 DEF DtbMapped, InDtb
      <3>5. Copied(va)' <=> Copied(va)
        BY <1>1, <1>2, <1>3, <1>4 DEF Copied, InRootfs
      <3>6. QED BY <1>2, <3>2, <3>3, <3>4, <3>5 DEF UartMapped
    <2>4. Building
      BY <1>2 DEF Building
    <2>5. QED BY <1>1, <2>1, <2>2, <2>3, <2>4, BuiltKept
  <1>6. Counters'
    BY <1>1, <1>2, <1>3 DEF Counters
  <1>7. QED BY <1>5, <1>6

LEMMA ProbeBuilt ==
  ASSUME IInv, Probe
  PROVE  Built' /\ Counters'
  <1> USE DEF IInv
  <1>1. pc = "probe" /\ p' = 0 /\ UNCHANGED <<mem, cfg, trap, page>>
    BY DEF Probe
  <1>2. \/ pc' = "walk" /\ walk'.ret = "probe"
        \/ pc' = "done" /\ trap > Len(cfg.traps)
    <2>1. CASE trap <= Len(cfg.traps)
      BY <2>1 DEF Probe, Call
    <2>2. CASE ~(trap <= Len(cfg.traps))
      BY <2>2, Numbers DEF Probe
    <2>3. QED BY <2>1, <2>2
  <1>3. Stage = "probe" /\ Stage' \in {"probe", "done"}
    BY <1>1, <1>2 DEF Stage
  <1>4. Built'
    <2>1. TreeKept
      BY ProbeStep
    <2>2. \A va \in VPages : GuestKept(va)
      BY <1>1 DEF GuestKept
    <2>3. ASSUME NEW va \in VPages
          PROVE  /\ Removed(va)' <=> Removed(va)
                 /\ UartMapped' <=> UartMapped
                 /\ MemoryMapped(va)' <=> MemoryMapped(va)
                 /\ DtbMapped(va)' <=> DtbMapped(va)
                 /\ Copied(va)' <=> Copied(va)
      BY <1>1, <1>3 DEF Removed, UartMapped, MemoryMapped, DtbMapped, Copied, InImage, InRam,
                        InDtb, InRootfs, TrapRange
    <2>4. Building
      BY <1>3 DEF Building, UartMapped
    <2>5. QED BY <1>1, <2>1, <2>2, <2>3, <2>4, BuiltKept
  <1>5. Counters'
    BY <1>1, <1>2, <1>3 DEF Counters
  <1>6. QED BY <1>4, <1>5

LEMMA ProbeFoundBuilt ==
  ASSUME IInv, ProbeFound
  PROVE  Built' /\ Counters'
  <1> USE DEF IInv
  <1>1. /\ pc = "walk" /\ walk.ret = "probe" /\ pc' = "walk" /\ walk'.ret = "unmap"
        /\ UNCHANGED <<mem, cfg, p, trap, page>>
    BY DEF ProbeFound, Found, Call
  <1>2. Stage = "probe" /\ Stage' = "unmap" /\ p = 0
    BY <1>1 DEF Stage, Counters
  <1>3. Built'
    <2>1. TreeKept
      BY ProbeFoundStep
    <2>2. \A va \in VPages : GuestKept(va)
      BY <1>1 DEF GuestKept
    <2>3. ASSUME NEW va \in VPages
          PROVE  /\ Removed(va)' <=> Removed(va)
                 /\ UartMapped' <=> UartMapped
                 /\ MemoryMapped(va)' <=> MemoryMapped(va)
                 /\ DtbMapped(va)' <=> DtbMapped(va)
                 /\ Copied(va)' <=> Copied(va)
      <3>1. Removed(va)' <=> Removed(va)
        <4>1. \A n \in Int : \A size \in Nat : n \in 0..(size - 1) => ~(n < 0)
          OBVIOUS
        <4>2. \A t \in DOMAIN cfg.traps :
                va - TrapRange(t).base \in 0..(TrapRange(t).size - 1) => ~(va - TrapRange(t).base < 0)
          BY Numbers, Basics
        <4>3. QED BY <1>1, <1>2, <4>2 DEF Removed, TrapRange
      <3>2. QED BY <1>1, <1>2, <3>1 DEF UartMapped, MemoryMapped, DtbMapped, Copied, InImage,
                                        InRam, InDtb, InRootfs
    <2>4. Building
      BY <1>2 DEF Building, UartMapped
    <2>5. QED BY <1>1, <2>1, <2>2, <2>3, <2>4, BuiltKept
  <1>4. Counters'
    BY <1>1, <1>2 DEF Counters
  <1>5. QED BY <1>3, <1>4

LEMMA RegisterBuilt ==
  ASSUME IInv, Register
  PROVE  Built' /\ Counters'
  <1> USE DEF IInv
  <1>1. pc = "register" /\ pc' = "probe" /\ trap' = trap + 1 /\ UNCHANGED <<mem, cfg, p, page, walk>>
    BY DEF Register
  <1>2. Stage = "register" /\ Stage' = "probe"
    BY <1>1 DEF Stage
  <1>3. Built'
    <2>1. TreeKept
      BY RegisterStep
    <2>2. \A va \in VPages : GuestKept(va)
      BY <1>1 DEF GuestKept
    <2>3. ASSUME NEW va \in VPages
          PROVE  /\ Removed(va)' <=> Removed(va)
                 /\ UartMapped' <=> UartMapped
                 /\ MemoryMapped(va)' <=> MemoryMapped(va)
                 /\ DtbMapped(va)' <=> DtbMapped(va)
                 /\ Copied(va)' <=> Copied(va)
      <3>1. Removed(va)' <=> Removed(va)
        <4>1. \A t \in DOMAIN cfg.traps : t < trap + 1 <=> t < trap \/ t = trap
          BY Numbers
        <4>2. QED BY <1>1, <1>2, <4>1 DEF Removed, TrapRange
      <3>2. QED BY <1>1, <1>2, <3>1 DEF UartMapped, MemoryMapped, DtbMapped, Copied, InImage,
                                        InRam, InDtb, InRootfs
    <2>4. Building
      BY <1>2 DEF Building, UartMapped
    <2>5. QED BY <1>1, <2>1, <2>2, <2>3, <2>4, BuiltKept
  <1>4. Counters'
    BY <1>1, <1>2 DEF Counters
  <1>5. QED BY <1>3, <1>4

\* The page that create_guest_mapping maps is mapped nowhere before, and what
\* is at the other addresses stays.
LEMMA MappedAt ==
  ASSUME IInv, SetLeaf, pc' # "abort", NEW v \in VPages, v = walk.va
  PROVE  /\ Leaf(v)' = PageDesc(page) /\ Node(3, v)' # Null
         /\ page \in Pages => mem'[page] = mem[page]
         /\ trap = 1 /\ UNCHANGED <<cfg, trap>>
         /\ \A va \in VPages : va # v => Leaf(va)' = Leaf(va)
         /\ \A va \in VPages : Node(3, va)' = Node(3, va) /\ GuestKept(va) /\ ~Removed(va)
         /\ Building /\ ~UartMapped
         /\ cfg \in Sound => /\ \A va \in VPages : BuiltAt(va)
                             /\ ~MemoryMapped(v) /\ ~DtbMapped(v) /\ ~Copied(v)
  <1> USE DEF IInv
  <1>1. /\ pc = "walk" /\ walk.level = 3 /\ walk.ret \in {"memory", "dtb", "device"}
        /\ mem' = SetEntry(PageDesc(page)) /\ UNCHANGED <<cfg, trap>>
    BY DEF SetLeaf, Found, Abort
  <1>2. Entry = Zero /\ EntryBecomes(PageDesc(page))
    BY SetLeafStep
  <1>3. Leaf(v) = Zero /\ Node(3, v) # Null
    BY <1>1, <1>2, WalkLeaf
  <1>4. /\ Leaf(v)' = PageDesc(page)
        /\ \A va \in VPages : va # v => Leaf(va)' = Leaf(va)
        /\ \A va \in VPages, k \in 0..3 : Node(k, va)' = Node(k, va)
    BY <1>2 DEF EntryBecomes
  <1>5. \A va \in VPages : Node(3, va)' = Node(3, va)
    BY <1>4
  <1>6. \A q \in Pages : q # walk.pgt => mem'[q] = mem[q]
    BY <1>1 DEF SetEntry, Structure, TypeOK
  <1>7. walk.pgt # page /\ walk.pgt \in Pages /\ walk.pgt = Node(3, v)
    BY <1>1, EntryFacts
  <1>8. ASSUME NEW va \in VPages PROVE GuestKept(va)
    <2>1. Leaf(va).kind = "page" /\ Leaf(va).to \in Pages => Leaf(va).to # walk.pgt
      BY <1>7, LeafPage
    <2>2. QED BY <1>6, <2>1 DEF GuestKept
  <1>9. Stage \in {"memory", "dtb", "device"} /\ Building /\ ~UartMapped
    BY <1>1 DEF Stage, Building, UartMapped
  <1>10. trap = 1
    BY <1>9 DEF Counters
  <1>11. \A va \in VPages : ~Removed(va)
    BY <1>9, <1>10, NothingRemoved
  <1>12. ASSUME cfg \in Sound
         PROVE  /\ \A va \in VPages : BuiltAt(va)
                /\ ~MemoryMapped(v) /\ ~DtbMapped(v) /\ ~Copied(v)
    <2>1. \A va \in VPages : BuiltAt(va)
      BY <1>9, <1>12 DEF Built
    <2>2. BuiltAt(v) /\ ~Removed(v)
      BY <1>11, <2>1
    <2>3. ~Mapped(v)
      BY <1>3, <1>9, <2>2 DEF BuiltAt, Zero
    <2>4. ~Copied(v)
      BY <2>2, <2>3 DEF BuiltAt
    <2>5. QED BY <2>1, <2>3, <2>4 DEF Mapped
  <1>13. QED BY <1>1, <1>3, <1>4, <1>5, <1>6, <1>7, <1>8, <1>9, <1>10, <1>11, <1>12

LEMMA SetLeafBuilt ==
  ASSUME IInv, SetLeaf
  PROVE  Built' /\ Counters'
  <1> USE DEF IInv
  <1>1. CASE pc' = "abort"
    BY <1>1, StoppedBuilt
  <1>2. CASE pc' # "abort"
    <2>1. /\ pc = "walk" /\ walk.ret \in {"memory", "dtb", "device"}
          /\ CASE walk.ret = "memory" ->
                    pc' = "memory" /\ p' = p + 1 /\ UNCHANGED walk
               [] walk.ret = "dtb" ->
                    IF cfg.nrootfs = 0
                    THEN pc' = "dtb" /\ p' = p + 1 /\ UNCHANGED walk
                    ELSE Call(cfg.rootfs, FALSE, "copy") /\ UNCHANGED p
               [] walk.ret = "device" ->
                    pc' = "probe" /\ UNCHANGED <<p, walk>>
      BY <1>2 DEF SetLeaf, Found, Abort
    <2>2. PICK v \in VPages : v = walk.va
      BY <2>1, EntryFacts
    <2>3. /\ Leaf(v)' = PageDesc(page) /\ Node(3, v)' # Null
          /\ page \in Pages => mem'[page] = mem[page]
          /\ trap = 1 /\ UNCHANGED <<cfg, trap>>
          /\ \A va \in VPages : va # v => Leaf(va)' = Leaf(va)
          /\ \A va \in VPages : Node(3, va)' = Node(3, va) /\ GuestKept(va) /\ ~Removed(va)
          /\ Building /\ ~UartMapped
          /\ cfg \in Sound => /\ \A va \in VPages : BuiltAt(va)
                              /\ ~MemoryMapped(v) /\ ~DtbMapped(v) /\ ~Copied(v)
      BY <1>2, <2>2, MappedAt
    <2>4. /\ cfg.entry \in Nat /\ cfg.nimage \in Nat /\ cfg.nram \in Nat
          /\ cfg.dtb \in Nat /\ cfg.ndtb \in Nat /\ cfg.rootfs \in Nat /\ cfg.nrootfs \in Nat
          /\ p \in Nat /\ v \in Nat /\ VPages \subseteq Nat
      BY Numbers, Basics
    <2>5. \A t \in DOMAIN cfg.traps : t \in Nat \ {0}
      BY Numbers
    <2>6. ASSUME Stage' \notin {"register", "unmap"}, NEW va \in VPages PROVE ~Removed(va)'
      BY <2>3, <2>5, <2>6 DEF Removed, TrapRange
    <2>7. ASSUME NEW va \in VPages, va # v, cfg \in Sound, Stage' \notin {"register", "unmap"},
                 va = cfg.device => (UartMapped' <=> UartMapped),
                 MemoryMapped(va)' <=> MemoryMapped(va), DtbMapped(va)' <=> DtbMapped(va),
                 Copied(va)' <=> Copied(va)
          PROVE  BuiltAt(va)'
      <3>1. /\ BuiltAt(va) /\ cfg' = cfg /\ GuestKept(va) /\ Leaf(va)' = Leaf(va)
            /\ Node(3, va)' = Node(3, va) /\ (Removed(va)' <=> Removed(va))
        BY <2>3, <2>6, <2>7
      <3>2. QED BY <2>7, <3>1, AddressKept
    <2>8. CASE walk.ret = "memory"
      <3>1. Stage = "memory" /\ Stage' = "memory" /\ pc' = "memory" /\ p' = p + 1
        BY <2>1, <2>8 DEF Stage
      <3>2. /\ v = cfg.entry + p /\ (p < cfg.nimage \/ p < cfg.nram) /\ page \in Pages
            /\ mem'[page] = IF p < cfg.nimage THEN Filled("image", p) ELSE Cleared
        BY <2>1, <2>2, <2>3, <2>8 DEF Counters, Structure, InHand
      <3>3. \A va \in VPages : ~DtbMapped(va) /\ ~DtbMapped(va)' /\ ~Copied(va) /\ ~Copied(va)'
        BY <3>1 DEF DtbMapped, Copied
      <3>4. ~UartMapped'
        BY <3>1 DEF UartMapped
      <3>5. ASSUME cfg \in Sound, NEW va \in VPages, va # v PROVE BuiltAt(va)'
        <4>1. MemoryMapped(va)' <=> MemoryMapped(va)
          BY <2>3, <2>4, <3>1, <3>2, <3>5 DEF MemoryMapped, InImage, InRam
        <4>2. QED BY <2>3, <2>7, <3>1, <3>3, <3>4, <3>5, <4>1
      <3>6. BuiltAt(v)'
        <4>1. MemoryMapped(v)' /\ Mapped(v)'
          BY <2>3, <2>4, <3>1, <3>2 DEF MemoryMapped, Mapped, InImage, InRam
        <4>2. Written(v)' = mem'[page]
          <5>1. InImage(v)' <=> p < cfg.nimage
            BY <2>3, <2>4, <3>2 DEF InImage
          <5>2. v - cfg'.entry = p
            BY <2>3, <2>4, <3>2
          <5>3. (Cleared)' = Cleared /\ Filled("image", p)' = Filled("image", p')
            BY DEF Cleared, Zero, Filled, Data
          <5>4. Filled("image", v - cfg.entry)' = Filled("image", p)
            BY <5>2 DEF Filled, Data
          <5>5. QED BY <3>2, <3>3, <5>1, <5>3, <5>4 DEF Written
        <4>3. ~Removed(v)'
          BY <2>6, <3>1
        <4>4. QED BY <2>3, <3>2, <3>3, <3>4, <4>1, <4>2, <4>3 DEF BuiltAt, PageDesc
      <3>7. Built'
        BY <2>3, <3>5, <3>6 DEF Built
      <3>8. Counters'
        BY <2>3, <3>1 DEF Counters
      <3>9. QED BY <3>7, <3>8
    <2>9. CASE walk.ret = "dtb"
      <3>1. /\ v = cfg.dtb + p /\ p < cfg.ndtb /\ page \in Pages /\ mem'[page] = Filled("dtb", p)
        BY <2>1, <2>2, <2>3, <2>9 DEF Counters, Structure, InHand
      <3>2. /\ Stage = "dtb"
            /\ \/ cfg.nrootfs = 0 /\ pc' = "dtb" /\ Stage' = "dtb" /\ p' = p + 1
               \/ /\ cfg.nrootfs # 0 /\ pc' = "walk" /\ walk'.ret = "copy" /\ Stage' = "copy" /\ p' = p
                  /\ walk'.va = cfg.rootfs
        BY <2>1, <2>9 DEF Stage, Call
      <3>3. ~UartMapped'
        BY <3>2 DEF UartMapped
      <3>4. \A va \in VPages : MemoryMapped(va)' <=> MemoryMapped(va)
        BY <2>3, <3>2 DEF MemoryMapped, InImage, InRam
      <3>5. ASSUME NEW va \in VPages PROVE Copied(va)' <=> Copied(va)
        <4>1. InRootfs(va)' <=> InRootfs(va)
          BY <2>3 DEF InRootfs
        <4>2. va \in Nat
          BY <2>4
        <4>3. CASE cfg.nrootfs = 0
          <5>1. ~InRootfs(va)
            BY <2>4, <4>2, <4>3 DEF InRootfs
          <5>2. QED BY <4>1, <5>1 DEF Copied
        <4>4. CASE cfg.nrootfs # 0
          <5>1. InRootfs(va) => ~(va < cfg.rootfs)
            BY <2>4, <4>2 DEF InRootfs
          <5>2. QED BY <3>2, <4>1, <4>4, <5>1 DEF Copied
        <4>5. QED BY <4>3, <4>4
      <3>6. ASSUME cfg \in Sound, NEW va \in VPages, va # v PROVE BuiltAt(va)'
        <4>1. DtbMapped(va)' <=> DtbMapped(va)
          <5>1. InDtb(va)' <=> InDtb(va)
            BY <2>3 DEF InDtb
          <5>2. va \in Nat /\ va - cfg.dtb # p /\ cfg'.dtb = cfg.dtb
            BY <2>3, <2>4, <3>1, <3>6
          <5>3. /\ va - cfg.dtb < p + 1 <=> va - cfg.dtb < p
                /\ va - cfg.dtb <= p <=> va - cfg.dtb < p
            BY <2>4, <5>2
          <5>4. QED BY <3>2, <5>1, <5>2, <5>3 DEF DtbMapped
        <4>2. QED BY <2>3, <2>7, <3>2, <3>3, <3>4, <3>5, <3>6, <4>1
      <3>7. ASSUME cfg \in Sound PROVE BuiltAt(v)'
        <4>1. DtbMapped(v)' /\ Mapped(v)'
          <5>1. v - cfg.dtb = p /\ cfg'.dtb = cfg.dtb /\ InDtb(v)'
            BY <2>3, <2>4, <3>1 DEF InDtb
          <5>2. QED BY <2>4, <3>2, <5>1 DEF DtbMapped, Mapped
        <4>2. ~MemoryMapped(v)' /\ ~Copied(v)'
          BY <2>3, <3>4, <3>5, <3>7
        <4>3. Written(v)' = mem'[page]
          <5>1. v - cfg'.dtb = p
            BY <2>3, <2>4, <3>1
          <5>2. Filled("dtb", v - cfg.dtb)' = Filled("dtb", p)
            BY <5>1 DEF Filled, Data
          <5>3. QED BY <3>1, <4>1, <4>2, <5>2 DEF Written
        <4>4. ~Removed(v)'
          BY <2>6, <3>2
        <4>5. QED BY <2>3, <3>1, <3>3, <4>1, <4>2, <4>3, <4>4 DEF BuiltAt, PageDesc
      <3>8. Built'
        BY <2>3, <3>6, <3>7 DEF Built
      <3>9. Counters'
        BY <2>3, <2>4, <3>1, <3>2 DEF Counters
      <3>10. QED BY <3>8, <3>9
    <2>10. CASE walk.ret = "device"
      <3>1. Stage = "device" /\ Stage' = "probe" /\ pc' = "probe" /\ p' = p
        BY <2>1, <2>10 DEF Stage
      <3>2. v = cfg.device /\ page = Device
        BY <2>1, <2>2, <2>10 DEF Structure, InHand
      <3>3. UartMapped'
        BY <3>1 DEF UartMapped
      <3>4. \A va \in VPages :
              /\ MemoryMapped(va)' <=> MemoryMapped(va)
              /\ DtbMapped(va)' <=> DtbMapped(va)
              /\ Copied(va)' <=> Copied(va)
        BY <2>3, <3>1 DEF MemoryMapped, DtbMapped, Copied, InImage, InRam, InDtb, InRootfs
      <3>5. ASSUME cfg \in Sound, NEW va \in VPages, va # v PROVE BuiltAt(va)'
        BY <2>7, <3>1, <3>2, <3>4, <3>5
      <3>6. ASSUME cfg \in Sound PROVE BuiltAt(v)'
        <4>1. ~MemoryMapped(v)' /\ ~DtbMapped(v)' /\ ~Copied(v)'
          BY <2>3, <3>4, <3>6
        <4>2. ~Removed(v)'
          BY <2>6, <3>1
        <4>3. QED BY <2>3, <3>2, <3>3, <4>1, <4>2 DEF BuiltAt, Mapped, PageDesc, Device
      <3>7. Built'
        BY <2>3, <3>5, <3>6 DEF Built
      <3>8. Counters'
        BY <2>3, <3>1 DEF Counters
      <3>9. QED BY <3>7, <3>8
    <2>11. QED BY <2>1, <2>8, <2>9, <2>10
  <1>3. QED BY <1>1, <1>2

\* copy_to_ipa writes the page of the address, and no other.
LEMMA CopyPageBuilt ==
  ASSUME IInv, CopyPage
  PROVE  Built' /\ Counters'
  <1> USE DEF IInv
  <1>1. CASE Abort
    BY <1>1, StoppedBuilt DEF Abort
  <1>2. CASE ~Abort
    <2> DEFINE k == walk.va - cfg.rootfs
    <2>1. /\ pc = "walk" /\ walk.level = 3 /\ walk.ret = "copy"
          /\ Entry.to # Null
          /\ mem' = [mem EXCEPT ![Entry.to] = Filled("rootfs", k)]
          /\ IF k + 1 < cfg.nrootfs
             THEN Call(walk.va + 1, FALSE, "copy") /\ UNCHANGED p
             ELSE pc' = "dtb" /\ p' = p + 1 /\ UNCHANGED walk
          /\ UNCHANGED <<freelist, vttbr, cfg, trap, page>>
      BY <1>2 DEF CopyPage, Found
    <2>2. PICK v \in VPages : v = walk.va /\ v \in Area(cfg.rootfs, cfg.nrootfs)
      BY <2>1, EntryFacts DEF Structure, WalkOnPath
    <2>3. /\ cfg.entry \in Nat /\ cfg.dtb \in Nat /\ cfg.ndtb \in Nat /\ cfg.rootfs \in Nat
          /\ cfg.nrootfs \in Nat /\ p \in Nat /\ v \in Nat /\ VPages \subseteq Nat
      BY Numbers, Basics
    <2>4. /\ k = v - cfg.rootfs /\ k \in Nat /\ v = cfg.rootfs + k /\ k < cfg.nrootfs
      BY <2>2, <2>3 DEF Area
    <2>5. /\ Stage = "copy" /\ trap = 1 /\ p < cfg.ndtb
          /\ \/ pc' = "walk" /\ walk'.ret = "copy" /\ Stage' = "copy" /\ p' = p
                /\ walk'.va = v + 1 /\ k + 1 < cfg.nrootfs
             \/ pc' = "dtb" /\ Stage' = "dtb" /\ p' = p + 1 /\ ~(k + 1 < cfg.nrootfs)
      BY <2>1, <2>2 DEF Stage, Counters, Call
    <2>6. TreeKept
      BY CopyPageStep
    <2>7. Leaf(v) = Entry
      BY <2>1, <2>2, WalkLeaf
    <2> HIDE DEF k
    <2>8. ASSUME NEW va \in VPages
          PROVE  /\ ~Removed(va) /\ ~Removed(va)' /\ ~UartMapped /\ ~UartMapped'
                 /\ MemoryMapped(va)' <=> MemoryMapped(va)
                 /\ DtbMapped(va)' <=> DtbMapped(va)
                 /\ Copied(va)' <=> Copied(va) \/ va = v
      <3>0. va \in Nat
        BY <2>3
      <3>1. ~Removed(va) /\ ~Removed(va)'
        <4>1. \A t \in DOMAIN cfg.traps : t \in Nat \ {0}
          BY Numbers
        <4>2. QED BY <2>1, <2>5, <4>1 DEF Removed, TrapRange
      <3>2. ~UartMapped /\ ~UartMapped'
        BY <2>5 DEF UartMapped
      <3>3. MemoryMapped(va)' <=> MemoryMapped(va)
        BY <2>1, <2>5 DEF MemoryMapped, InImage, InRam
      <3>4. DtbMapped(va)' <=> DtbMapped(va)
        <4>1. (InDtb(va)' <=> InDtb(va)) /\ cfg'.dtb = cfg.dtb
          BY <2>1 DEF InDtb
        <4>2. va - cfg.dtb < p + 1 <=> va - cfg.dtb <= p
          BY <2>3, <3>0
        <4>3. QED BY <2>5, <4>1, <4>2 DEF DtbMapped
      <3>5. Copied(va)' <=> Copied(va) \/ va = v
        <4>1. (InRootfs(va)' <=> InRootfs(va)) /\ cfg'.rootfs = cfg.rootfs
          BY <2>1 DEF InRootfs
        <4>2. InRootfs(v)
          BY <2>3, <2>4, <2>5 DEF InRootfs
        <4>3. Copied(va) <=> InRootfs(va) /\ (p > 0 \/ va < v)
          BY <2>2, <2>5 DEF Copied
        <4>4. CASE pc' = "walk"
          <5>1. Copied(va)' <=> InRootfs(va) /\ (p > 0 \/ va < v + 1)
            BY <2>5, <4>1, <4>4 DEF Copied
          <5>2. va < v + 1 <=> va < v \/ va = v
            BY <2>3, <3>0
          <5>3. QED BY <4>2, <4>3, <5>1, <5>2
        <4>5. CASE pc' = "dtb"
          <5>1. Copied(va)' <=> InRootfs(va)
            BY <2>3, <2>5, <4>1, <4>5 DEF Copied
          <5>2. InRootfs(va) => va < v \/ va = v
            BY <2>3, <2>4, <2>5, <3>0, <4>5 DEF InRootfs
          <5>3. QED BY <4>2, <4>3, <5>1, <5>2
        <4>6. QED BY <2>5, <4>4, <4>5
      <3>6. QED BY <3>1, <3>2, <3>3, <3>4, <3>5
    <2>9. ASSUME cfg \in Sound, NEW va \in VPages PROVE BuiltAt(va)'
      <3>1. BuiltAt(va) /\ BuiltAt(v)
        BY <2>5, <2>9 DEF Built, Building
      <3>2. /\ Leaf(v).kind = "page" /\ Leaf(v).to \in Pages /\ Mapped(v)
        BY <2>1, <2>2, <2>7, <2>8, <3>1 DEF BuiltAt, Zero, Mapped
      <3>3. \A q \in Pages : q # Leaf(v).to => mem'[q] = mem[q]
        BY <2>1, <2>7 DEF Structure, TypeOK
      <3>4. CASE va # v
        <4>1. GuestKept(va)
          BY <3>2, <3>3, <3>4, LeafPage DEF GuestKept
        <4>2. /\ cfg' = cfg /\ Leaf(va)' = Leaf(va) /\ (Node(3, va) # Null => Node(3, va)' # Null)
              /\ (Removed(va)' <=> Removed(va)) /\ (UartMapped' <=> UartMapped)
              /\ (MemoryMapped(va)' <=> MemoryMapped(va)) /\ (DtbMapped(va)' <=> DtbMapped(va))
              /\ (Copied(va)' <=> Copied(va))
          BY <2>1, <2>6, <2>8, <3>4 DEF TreeKept
        <4>3. QED BY <3>1, <4>1, <4>2, AddressKept
      <3>5. CASE va = v
        <4>1. Leaf(v)' = Leaf(v) /\ Node(3, v)' # Null
          BY <2>6, <3>1, <3>2 DEF TreeKept, BuiltAt
        <4>2. Copied(v)' /\ Mapped(v)' /\ ~Removed(v)' /\ ~UartMapped'
              /\ ~(MemoryMapped(v)' /\ DtbMapped(v)')
          BY <2>8, <3>1, <3>2 DEF Mapped, BuiltAt
        <4>3. mem'[Leaf(v).to] = Filled("rootfs", k)
          BY <2>1, <2>7, <3>2 DEF Structure, TypeOK
        <4>4. Written(v)' = Filled("rootfs", k)
          <5>1. v - cfg'.rootfs = k
            BY <2>1, <2>4
          <5>2. Filled("rootfs", v - cfg.rootfs)' = Filled("rootfs", k)
            BY <5>1 DEF Filled, Data
          <5>3. QED BY <4>2, <5>2 DEF Written
        <4>5. BuiltAt(v)'
          BY <3>2, <4>1, <4>2, <4>3, <4>4 DEF BuiltAt
        <4>6. QED BY <3>5, <4>5
      <3>6. QED BY <3>4, <3>5
    <2>10. Built'
      BY <2>1, <2>9 DEF Built
    <2>11. Counters'
      BY <2>1, <2>3, <2>5 DEF Counters
    <2>12. QED BY <2>10, <2>11
  <1>3. QED BY <1>1, <1>2

\* page_unmap takes a page of the range out, and the link of the free list is
\* written to that page only.
LEMMA UnmapBuilt ==
  ASSUME IInv, Unmap
  PROVE  Built' /\ Counters'
  <1> USE DEF IInv
  <1>1. CASE pc' = "abort"
    BY <1>1, StoppedBuilt
  <1>2. CASE pc' # "abort"
    <2>1. /\ pc = "walk" /\ walk.level = 3 /\ walk.ret = "unmap"
          /\ Free(Entry.to, EntryCleared)
          /\ p' = p + 1
          /\ IF p + 1 < TrapRange(trap).size
             THEN Call(walk.va + 1, FALSE, "unmap")
             ELSE pc' = "register" /\ UNCHANGED walk
          /\ UNCHANGED <<vttbr, cfg, trap, page>>
      BY <1>2 DEF Unmap, Found, Abort
    <2>2. PICK v \in VPages : v = walk.va
      BY <2>1, EntryFacts
    <2>3. Entry.to \in Pages /\ EntryBecomes(Zero)
      BY <1>2, UnmapStep
    <2>4. Leaf(v) = Entry /\ Node(3, v) # Null
      BY <2>1, <2>2, WalkLeaf
    <2>5. Leaf(v).kind = "page" /\ Leaf(v).to \in Pages
      BY <2>1, <2>3, <2>4, EntryPage DEF PageDesc, Zero, Null, Pages
    <2>6. /\ Leaf(v)' = Zero /\ Node(3, v)' # Null
          /\ \A va \in VPages : va # v => Leaf(va)' = Leaf(va)
          /\ \A va \in VPages, k \in 0..3 : Node(k, va)' = Node(k, va)
      BY <2>2, <2>3, <2>4 DEF EntryBecomes
    <2>7. \A va \in VPages : Node(3, va)' = Node(3, va)
      BY <2>6
    <2>8. /\ trap \in DOMAIN cfg.traps /\ trap \in Nat \ {0} /\ p \in Nat /\ v \in Nat
          /\ v = TrapRange(trap).base + p /\ p < TrapRange(trap).size
          /\ TrapRange(trap).base \in Nat /\ TrapRange(trap).size \in Nat \ {0}
          /\ VPages \subseteq Nat
      <3>1. /\ trap <= Len(cfg.traps)
            /\ v = TrapRange(trap).base + p /\ p < TrapRange(trap).size
        BY <2>1, <2>2 DEF Structure, WalkOnPath
      <3>2. trap \in DOMAIN cfg.traps
        BY <3>1, Numbers
      <3>3. QED BY <3>1, <3>2, Numbers, Basics
    <2>9. /\ Stage = "unmap"
          /\ \/ pc' = "walk" /\ walk'.ret = "unmap" /\ Stage' = "unmap" /\ p' = p + 1
             \/ pc' = "register" /\ Stage' = "register" /\ p' = p + 1
                /\ ~(p + 1 < TrapRange(trap).size)
      BY <2>1 DEF Stage, Call
    <2>10. ASSUME NEW va \in VPages
           PROVE  /\ UartMapped /\ UartMapped'
                  /\ MemoryMapped(va)' <=> MemoryMapped(va)
                  /\ DtbMapped(va)' <=> DtbMapped(va)
                  /\ Copied(va)' <=> Copied(va)
      BY <2>1, <2>9 DEF UartMapped, MemoryMapped, DtbMapped, Copied, InImage, InRam, InDtb, InRootfs
    <2>11. ASSUME NEW va \in VPages PROVE Removed(va)' <=> Removed(va) \/ va = v
      <3> DEFINE off == va - TrapRange(trap).base
                 size == TrapRange(trap).size
                 Before == \E t \in DOMAIN cfg.traps :
                             t < trap /\ va - TrapRange(t).base \in 0..(TrapRange(t).size - 1)
      <3>1. off \in Int /\ size \in Nat /\ (va = v <=> off = p)
        BY <2>8
      <3>2. Removed(va) <=> Before \/ (off \in 0..(size - 1) /\ off < p)
        BY <2>8, <2>9 DEF Removed
      <3>3. CASE Stage' = "unmap"
        <4>1. Removed(va)' <=> Before \/ (off \in 0..(size - 1) /\ off < p + 1)
          BY <2>1, <2>8, <2>9, <3>3 DEF Removed, TrapRange
        <4> HIDE DEF off, size, Before
        <4>2. off \in 0..(size - 1) /\ off < p + 1
              <=> (off \in 0..(size - 1) /\ off < p) \/ off = p
          BY <2>8, <3>1 DEF size
        <4>3. QED BY <3>1, <3>2, <4>1, <4>2
      <3>4. CASE Stage' = "register"
        <4>1. Removed(va)' <=> Before \/ off \in 0..(size - 1)
          BY <2>1, <2>8, <3>4 DEF Removed, TrapRange
        <4>2. ~(p + 1 < size)
          BY <2>9, <3>4
        <4> HIDE DEF off, size, Before
        <4>3. off \in 0..(size - 1) <=> (off \in 0..(size - 1) /\ off < p) \/ off = p
          BY <2>8, <3>1, <4>2 DEF size
        <4>4. QED BY <3>1, <3>2, <4>1, <4>3
      <3>5. QED BY <2>9, <3>3, <3>4
    <2>12. ASSUME cfg \in Sound, NEW va \in VPages PROVE BuiltAt(va)'
      <3>1. BuiltAt(va)
        BY <2>9, <2>12 DEF Built, Building, UartMapped
      <3>2. CASE va # v
        <4>1. GuestKept(va)
          <5>1. SUFFICES ASSUME Leaf(va).kind = "page", Leaf(va).to \in Pages
                         PROVE  mem'[Leaf(va).to] = mem[Leaf(va).to]
            BY DEF GuestKept
          <5>2. \A q \in Pages : q # Entry.to /\ q # walk.pgt => mem'[q] = mem[q]
            BY <2>1 DEF Free, EntryCleared, SetEntry, Structure, TypeOK
          <5>3. Leaf(va).to # walk.pgt
            BY <2>1, <5>1, LeafPage, EntryFacts
          <5>4. Leaf(va).to # Entry.to
            BY <2>4, <2>5, <3>2, <5>1, LeafPage
          <5>5. QED BY <5>1, <5>2, <5>3, <5>4
        <4>2. /\ cfg' = cfg /\ Leaf(va)' = Leaf(va) /\ Node(3, va)' = Node(3, va)
              /\ (Removed(va)' <=> Removed(va)) /\ (UartMapped' <=> UartMapped)
              /\ (MemoryMapped(va)' <=> MemoryMapped(va)) /\ (DtbMapped(va)' <=> DtbMapped(va))
              /\ (Copied(va)' <=> Copied(va))
          BY <2>1, <2>6, <2>7, <2>10, <2>11, <3>2
        <4>3. QED BY <3>1, <4>1, <4>2, AddressKept
      <3>3. CASE va = v
        <4>1. Removed(v)' /\ Leaf(v)' = Zero /\ Node(3, v)' # Null
          BY <2>6, <2>11
        <4>2. (Copied(v)' => Mapped(v)') /\ ~(MemoryMapped(v)' /\ DtbMapped(v)')
          BY <2>10, <3>1, <3>3 DEF BuiltAt, Mapped
        <4>3. BuiltAt(v)'
          BY <4>1, <4>2 DEF BuiltAt, Zero
        <4>4. QED BY <3>3, <4>3
      <3>4. QED BY <3>2, <3>3
    <2>13. Built'
      BY <2>1, <2>12 DEF Built
    <2>14. Counters'
      BY <2>9 DEF Counters
    <2>15. QED BY <2>13, <2>14
  <1>3. QED BY <1>1, <1>2

LEMMA InitIInv == Init => IInv
  <1> SUFFICES ASSUME Init PROVE IInv
    OBVIOUS
  <1>1. Structure
    BY InitStructure
  <1>2. Stage = "kalloc_init" /\ pc = "kalloc_init" /\ trap = 1
    BY DEF Init, Stage
  <1>3. Built /\ Counters
    BY <1>2 DEF Built, Building, UartMapped, Counters
  <1>4. QED BY <1>1, <1>3 DEF IInv

\* Every step keeps the invariant and is a step of the abstract map or none.
LEMMA Step ==
  ASSUME IInv, [Next]_vars
  PROVE  IInv' /\ (translation' = translation \/ Ipa!Next)
  <1> USE DEF IInv, TreeKept
  <1>1. CASE KallocInit
    BY <1>1, KallocInitStep, KallocInitBuilt
  <1>2. CASE AllocVttbr
    BY <1>2, AllocVttbrStep, AllocVttbrBuilt
  <1>3. CASE WalkDown
    BY <1>3, WalkDownStep, WalkDownBuilt
  <1>4. CASE WalkAlloc
    BY <1>4, WalkAllocStep, WalkAllocBuilt
  <1>5. CASE WalkMissing
    BY <1>5, WalkMissingStep, WalkMissingBuilt
  <1>6. CASE MapMemory
    BY <1>6, MapMemoryStep, MapMemoryBuilt
  <1>7. CASE MemoryDone
    BY <1>7, MemoryDoneStep, MemoryDoneBuilt
  <1>8. CASE MapDtb
    BY <1>8, MapDtbStep, MapDtbBuilt
  <1>9. CASE DtbDone
    BY <1>9, DtbDoneStep, DtbDoneBuilt
  <1>10. CASE SetLeaf
    BY <1>10, SetLeafStep, SetLeafBuilt
  <1>11. CASE CopyPage
    BY <1>11, CopyPageStep, CopyPageBuilt
  <1>12. CASE Probe
    BY <1>12, ProbeStep, ProbeBuilt
  <1>13. CASE ProbeFound
    BY <1>13, ProbeFoundStep, ProbeFoundBuilt
  <1>14. CASE Unmap
    BY <1>14, UnmapStep, UnmapBuilt
  <1>15. CASE Register
    BY <1>15, RegisterStep, RegisterBuilt
  <1>16. CASE UNCHANGED vars
    <2>1. UNCHANGED <<mem, freelist, vttbr, cfg, pc, p, trap, page, walk>>
      BY <1>16 DEF vars
    <2>2. \A q \in Pages : InPool(q)' <=> InPool(q)
      BY <2>1 DEF InPool
    <2>3. MemoryIsRight' /\ TreeKept
      BY <2>1, <2>2, MemorySame
    <2>4. WalkOnPath' /\ InHand'
      <3>1. Node(walk.level, walk.va)' = Node(walk.level, walk.va)
        BY <2>1 DEF Node, LeafTable, NextTable
      <3>2. QED BY <2>1, <3>1 DEF WalkOnPath, InHand, Area, TrapRange, Structure
    <2>5. Structure'
      BY <2>1, <2>3, <2>4, Rest DEF Structure, TypeOK
    <2>6. Stage' = Stage
      BY <2>1 DEF Stage
    <2>7. Built'
      <3>1. \A va \in VPages : GuestKept(va)
        BY <2>1 DEF GuestKept
      <3>2. Building' => Building
        BY <2>6 DEF Building, UartMapped
      <3>3. QED BY <2>1, <2>3, <2>6, <3>1, <3>2, StageKept, BuiltKept
    <2>8. Counters'
      BY <2>1, <2>6 DEF Counters, Filled, Data, Cleared, Zero
    <2>9. QED BY <2>3, <2>5, <2>7, <2>8
  <1>17. QED
    BY <1>1, <1>2, <1>3, <1>4, <1>5, <1>6, <1>7, <1>8, <1>9, <1>10, <1>11, <1>12, <1>13, <1>14, <1>15, <1>16 DEF Next

-----------------------------------------------------------------------------
(* The theorems.                                                           *)

\* The invariant of the boot code holds in every state: the free list, the
\* tree of tables and the pages of the guest share the pool out, page_walk
\* stands where the tables lead it, and the guest's memory is built as far as
\* the counters of the loops of vm.c say.
THEOREM Invariance == Spec => []IInv
  <1>1. IInv /\ [Next]_vars => IInv'
    BY Step
  <1>2. QED BY InitIInv, <1>1, PTL DEF Spec

\* The variables stay in their types, whatever the configuration.
THEOREM TypeCorrect == Spec => []TypeOK
  <1>1. IInv => TypeOK
    BY DEF IInv, Structure
  <1>2. QED BY Invariance, <1>1, PTL

\* Whatever the configuration, also when the boot ends in an abort, no page
\* of the pool is leaked, on the free list while it is in use, or in use
\* twice (kalloc.c, page_walk, create_guest_mapping and page_unmap of vmm.c).
THEOREM OneOwner == Spec => []OnePageOneOwner
  <1>1. IInv => OnePageOneOwner
    BY DEF IInv, Structure
  <1>2. QED BY Invariance, <1>1, PTL

\* When create_guest_vm is done with a sound configuration, each page of the
\* guest is what vm_config asks for, the GIC's ranges trap, and no other
\* address is mapped: whatever the sizes and places of the areas.
THEOREM MemoryReady == Spec => []GuestMemoryReady
  <1>1. IInv => GuestMemoryReady
    <2> SUFFICES ASSUME IInv, pc = "done", cfg \in Sound, NEW va \in VPages
                 PROVE  IF Trapped(va) THEN Leaf(va) = Zero
                        ELSE IF va = cfg.device THEN Leaf(va) = PageDesc(Device)
                        ELSE IF InImage(va) \/ InRam(va) \/ InDtb(va)
                             THEN Leaf(va).kind = "page" /\ mem[Leaf(va).to] = Contents(va)
                             ELSE Leaf(va) = Zero
      BY DEF GuestMemoryReady
    <2> USE DEF IInv
    <2>1. Stage = "done" /\ UartMapped /\ Building /\ trap > Len(cfg.traps)
      BY DEF Stage, UartMapped, Building, Counters
    <2>2. BuiltAt(va)
      BY <2>1 DEF Built
    <2>3. Removed(va) <=> Trapped(va)
      <3>1. \A t \in DOMAIN cfg.traps : t < trap
        BY <2>1, Numbers
      <3>2. QED BY <3>1 DEF Removed, Trapped
    <2>4. /\ MemoryMapped(va) <=> InImage(va) \/ InRam(va)
          /\ DtbMapped(va) <=> InDtb(va)
          /\ Copied(va) <=> InRootfs(va)
      BY <2>1 DEF MemoryMapped, DtbMapped, Copied
    <2>5. Contents(va) = Written(va)
      <3>1. ~(InImage(va) /\ InDtb(va))
        BY <2>2, <2>4 DEF BuiltAt
      <3>2. QED BY <2>4, <3>1 DEF Contents, Written
    <2>6. QED BY <2>1, <2>2, <2>3, <2>4, <2>5 DEF BuiltAt, Mapped
  <1>2. QED BY Invariance, <1>1, PTL

\* The translation that the tables give the hardware starts empty and changes
\* one page of the guest at a time: create_guest_mapping never remaps a page,
\* no page of the pool backs two pages of the guest, and growing the tree of
\* tables in page_walk changes the translation of no address.
THEOREM TablesImplementMap == Spec => ImplementsIpaMap
  <1>1. Init => Ipa!Init
    <2> SUFFICES ASSUME Init PROVE Ipa!Init
      OBVIOUS
    <2>1. \A va \in VPages : Leaf(va) = Zero
      BY NoRoot, LeafIs DEF Init
    <2>2. {v \in VPages : Leaf(v).kind = "page"} = {}
      BY <2>1 DEF Zero
    <2>3. translation = [v \in {} |-> 0]
      BY <2>2 DEF translation
    <2>4. QED BY <2>3 DEF Ipa!Init
  <1>2. IInv /\ [Next]_vars => [Ipa!Next]_translation
    BY Step
  <1>3. QED BY Invariance, <1>1, <1>2, PTL DEF Spec, ImplementsIpaMap, Ipa!Spec

=============================================================================
