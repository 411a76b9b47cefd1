------------------------------ MODULE XMalloc -------------------------------
(***************************************************************************)
(* The slab allocator (xmalloc.c).  The pool is cut into slices; a slice   *)
(* is given to one block type and then cut into blocks of 2^type bytes.    *)
(* Every call runs under pool->blk_lock from its first access to its last, *)
(* so a call is one action.  The clients allocate objects, use them and    *)
(* free each at most once.                                                 *)
(***************************************************************************)
EXTENDS Integers, FiniteSets

CONSTANTS
  WordSize,     \* sizeof(uintptr_t), 8
  SliceBit,     \* BLK_SLICE_BIT, 10
  SliceNum,     \* BLK_SLICE_NUM, 8
  Objects,      \* the objects of the clients
  Size,         \* Size[o]: the size passed to xmalloc for object o
  Used          \* Used[o]: how many bytes of it its owner accesses

ASSUME XMallocAssumption ==
  /\ WordSize \in Nat \ {0} /\ SliceBit \in Nat \ {0} /\ SliceNum \in Nat
  /\ Size \in [Objects -> Nat] /\ Used \in [Objects -> Nat]

\* 1 << n
Power[n \in Nat] == IF n = 0 THEN 1 ELSE 2 * Power[n - 1]

SliceSize == Power[SliceBit]
Types == 0..(SliceBit - 1)
Slices == 0..(SliceNum - 1)
Null == 0
PoolStart == SliceSize            \* an aligned address that is not NULL
PoolEnd == PoolStart + SliceNum * SliceSize
Pool == PoolStart..(PoolEnd - 1)

VARIABLES
  slice_cnt,    \* pool->slice_cnt: slices given to block types
  slice_type,   \* pool->slice_type
  blk_list,     \* pool->blk_list
  link,         \* the first word of each block that is free
  at,           \* where the clients have each object, or NULL
  aborted       \* a core stopped in blk_alloc, holding blk_lock

poolVars == <<slice_cnt, slice_type, blk_list, link, at, aborted>>

EmptyList == [freelist_cnt |-> 0, nofree_cnt |-> 0, slice_cnt |-> 0,
              slice_addr |-> Null, slice_offset |-> 0, free_head |-> Null]

PoolInit ==
  /\ slice_cnt = 0
  /\ slice_type = [s \in Slices |-> 0]
  /\ blk_list = [t \in Types |-> EmptyList]
  /\ link = [a \in Pool |-> Null]
  /\ at = [o \in Objects |-> Null]
  /\ aborted = FALSE

BlkSize(t) == Power[t]

\* Mutant: the size is rounded down to a power of two.
Size2TypeDown(size) == CHOOSE t \in 0..size : Power[t] <= size /\ size < Power[t + 1]

\* BLK_SIZE2TYPE: the smallest power of two that holds the size.
Size2Type(size) ==
  CHOOSE t \in 0..size : size <= Power[t] /\ \A u \in 0..(t-1) : Power[u] < size

\* A request is at least one word, room for the link of a free block.
Request(size) == IF size < WordSize THEN WordSize ELSE size

\* Mutant: the last block of a slice is not used.
SliceFullEarly(t) == blk_list[t].slice_offset + BlkSize(t) >= SliceSize

\* The type needs a new slice.
SliceFull(t) == blk_list[t].slice_offset = SliceSize
NeedsSlice(t) == blk_list[t].slice_addr = Null \/ SliceFull(t)

\* blk_alloc stops at the first type from that of the size on that has a free
\* block, room in its slice, or can have another slice.
Serves(t) ==
  blk_list[t].free_head # Null \/ ~NeedsSlice(t) \/ slice_cnt # SliceNum
Chosen(t, size) ==
  /\ t \in Types /\ t >= Size2Type(Request(size)) /\ Serves(t)
  /\ \A u \in Size2Type(Request(size))..(t-1) : ~Serves(u)

TakeFree(o, t) ==
  LET l == blk_list[t] IN
  /\ l.free_head # Null
  /\ at' = [at EXCEPT ![o] = l.free_head]
  /\ blk_list' = [blk_list EXCEPT ![t].free_head = link[l.free_head],
                                  ![t].freelist_cnt = @ - 1,
                                  ![t].nofree_cnt = @ + 1]
  /\ UNCHANGED <<slice_cnt, slice_type, link, aborted>>

TakeNext(o, t) ==
  LET l == blk_list[t] IN
  /\ l.free_head = Null /\ ~NeedsSlice(t)
  /\ at' = [at EXCEPT ![o] = l.slice_addr + l.slice_offset]
  /\ blk_list' = [blk_list EXCEPT ![t].slice_offset = @ + BlkSize(t),
                                  ![t].nofree_cnt = @ + 1]
  /\ UNCHANGED <<slice_cnt, slice_type, link, aborted>>

\* Mutant: the type of the new slice is not recorded.
RecordNothing(t) == slice_type

\* slice_type of the new slice.
RecordType(t) == [slice_type EXCEPT ![slice_cnt] = t]

SliceAddr(s) == PoolStart + s * SliceSize

TakeSlice(o, t) ==
  LET addr == SliceAddr(slice_cnt) IN
  /\ blk_list[t].free_head = Null /\ NeedsSlice(t)
  /\ at' = [at EXCEPT ![o] = addr]
  /\ blk_list' = [blk_list EXCEPT ![t].slice_addr = addr,
                                  ![t].slice_offset = BlkSize(t),
                                  ![t].slice_cnt = @ + 1,
                                  ![t].nofree_cnt = @ + 1]
  /\ slice_type' = RecordType(t)
  /\ slice_cnt' = slice_cnt + 1
  /\ UNCHANGED <<link, aborted>>

XMalloc(o) ==
  /\ ~aborted /\ at[o] = Null
  /\ \E t \in Types : Chosen(t, Size[o]) /\ (TakeFree(o, t) \/ TakeNext(o, t) \/ TakeSlice(o, t))

\* "xmalloc failed to get available blk".  A size above half a slice has no
\* type at all: blk_alloc answers NULL and changes nothing.
XMallocFails(o) ==
  /\ ~aborted /\ at[o] = Null
  /\ Size2Type(Request(Size[o])) \in Types
  /\ \A t \in Types : ~Chosen(t, Size[o])
  /\ aborted' = TRUE
  /\ UNCHANGED <<slice_cnt, slice_type, blk_list, link, at>>

SliceOf(a) == (a - PoolStart) \div SliceSize
TypeOf(a) == slice_type[SliceOf(a)]

XFree(o) ==
  /\ ~aborted /\ at[o] # Null
  /\ LET a == at[o] t == TypeOf(at[o]) IN
     /\ link' = [link EXCEPT ![a] = blk_list[t].free_head]
     /\ blk_list' = [blk_list EXCEPT ![t].free_head = a,
                                     ![t].freelist_cnt = @ + 1,
                                     ![t].nofree_cnt = @ - 1]
  /\ at' = [at EXCEPT ![o] = Null]
  /\ UNCHANGED <<slice_cnt, slice_type, aborted>>

PoolNext == \E o \in Objects : XMalloc(o) \/ XMallocFails(o) \/ XFree(o)

PoolSpec == PoolInit /\ [][PoolNext]_poolVars

\* create_guest_vm allocates its objects in their order and frees none.
BootNext ==
  \E o \in Objects : (\A q \in Objects : q < o => at[q] # Null) /\ XMalloc(o)
BootSpec == PoolInit /\ [][BootNext]_poolVars

-----------------------------------------------------------------------------
(* Properties                                                              *)

Lists == [freelist_cnt : Nat, nofree_cnt : Nat, slice_cnt : 0..SliceNum,
          slice_addr : Pool \cup {Null}, slice_offset : 0..SliceSize,
          free_head : Pool \cup {Null}]

PoolTypeOK ==
  /\ slice_cnt \in 0..SliceNum
  /\ slice_type \in [Slices -> Types]
  /\ blk_list \in [Types -> Lists]
  /\ link \in [Pool -> Pool \cup {Null}]
  /\ at \in [Objects -> Pool \cup {Null}]
  /\ aborted \in BOOLEAN

Live == {o \in Objects : at[o] # Null}
LiveOf(t) == {o \in Live : TypeOf(at[o]) = t}

\* xmalloc: what the clients access of their objects is in the pool and no
\* byte of it belongs to two objects.
ObjectsApart ==
  \A o \in Live :
    /\ at[o] >= PoolStart /\ at[o] + Used[o] <= PoolEnd
    /\ \A q \in Live \ {o} : at[o] + Used[o] <= at[q] \/ at[q] + Used[q] <= at[o]

\* The slice that a type cuts blocks from was given to it; it is cut in whole
\* blocks, and a type without slices has nothing.
SlicesAreRight ==
  \A t \in Types :
    LET l == blk_list[t] IN
    /\ l.slice_cnt <= slice_cnt
    /\ IF l.slice_addr = Null THEN l = EmptyList
       ELSE /\ BlkSize(t) >= WordSize /\ l.slice_cnt > 0
            /\ l.slice_offset > 0 /\ l.slice_offset % BlkSize(t) = 0
            /\ \E s \in 0..(slice_cnt - 1) :
                 slice_type[s] = t /\ l.slice_addr = SliceAddr(s)

\* a is a block that was cut from a slice: from the part cut so far if it is
\* the slice that its type cuts now.
Cut(s) ==
  LET l == blk_list[slice_type[s]] IN
  IF l.slice_addr = SliceAddr(s) THEN l.slice_offset ELSE SliceSize
IsBlock(a) ==
  LET s == SliceOf(a) IN
  /\ s \in 0..(slice_cnt - 1)
  /\ (a - SliceAddr(s)) % BlkSize(slice_type[s]) = 0
  /\ a + BlkSize(slice_type[s]) <= SliceAddr(s) + Cut(s)

\* Every object has a block to itself, which is large enough.
BlocksAreRight ==
  \A o \in Live :
    /\ IsBlock(at[o]) /\ Size[o] <= BlkSize(TypeOf(at[o]))
    /\ \A q \in Live \ {o} : at[q] # at[o]

\* Chain(t)[k]: the k-th block of the free list of a type.
ChainFrom(head, n, next) ==
  LET c[k \in 1..(n + 1)] ==
        IF k = 1 THEN head ELSE IF c[k-1] = Null THEN Null ELSE next[c[k-1]]
  IN c
Chain(t) == ChainFrom(blk_list[t].free_head, blk_list[t].freelist_cnt, link)

\* The free list of a type has the counted blocks of its slices, each once and
\* none of them occupied, and ends there.
ChainIsRight(t) ==
  LET n == blk_list[t].freelist_cnt IN
  /\ Chain(t)[n + 1] = Null
  /\ \A k \in 1..n :
       /\ Chain(t)[k] # Null /\ IsBlock(Chain(t)[k]) /\ TypeOf(Chain(t)[k]) = t
       /\ \A j \in 1..(k-1) : Chain(t)[j] # Chain(t)[k]
       /\ \A o \in Live : at[o] # Chain(t)[k]

\* One counter is that of the objects, and the two together that of the blocks
\* which were cut.
CountIsRight(t) ==
  LET l == blk_list[t] IN
  /\ l.nofree_cnt = Cardinality(LiveOf(t))
  /\ l.slice_addr # Null =>
       (l.nofree_cnt + l.freelist_cnt) * BlkSize(t) =
         (l.slice_cnt - 1) * SliceSize + l.slice_offset

\* blk_alloc and blk_free: slices, blocks, free lists and counters agree.  A
\* block is free or occupied by one object, never both, whatever was
\* allocated and freed before.
ListsAreRight ==
  /\ PoolTypeOK /\ SlicesAreRight /\ BlocksAreRight
  /\ \A t \in Types : ChainIsRight(t) /\ CountIsRight(t)

\* xmalloc: blk_alloc gives up only when there is no slice left and every block of the
\* types that could hold the object is occupied: nothing is lost by allocating
\* and freeing.
Capacity(t) == blk_list[t].slice_cnt * (SliceSize \div BlkSize(t))
FailsOnlyWhenFull ==
  [][\A o \in Objects :
       XMallocFails(o) =>
         /\ slice_cnt = SliceNum
         /\ \A t \in Types : BlkSize(t) >= Size[o] =>
              Capacity(t) = Cardinality(LiveOf(t))]_poolVars
=============================================================================
