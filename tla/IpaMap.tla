------------------------------- MODULE IpaMap -------------------------------
(***************************************************************************)
(* What stage 2 translation promises: a partial function from the pages of *)
(* the guest (IPA) to physical pages, changed one page at a time.  A page  *)
(* is never given a second meaning while it has one, and no physical page  *)
(* of the pool backs two pages of the guest.                               *)
(***************************************************************************)
CONSTANTS
  VPages,       \* the pages of the guest's physical address space
  PPages,       \* the physical pages
  Shared        \* physical pages that may be mapped more than once (devices)

VARIABLE map

Init == map = [v \in {} |-> 0]

\* One page gets a meaning, and the physical page it gets backs no other.
Map(v) ==
  /\ map'[v] \in PPages
  /\ map'[v] \in Shared \/ \A w \in DOMAIN map : map[w] # map'[v]
  /\ map' = [w \in DOMAIN map \cup {v} |-> IF w = v THEN map'[v] ELSE map[w]]

Unmap(v) == map' = [w \in DOMAIN map \ {v} |-> map[w]]

Next ==
  \/ \E v \in DOMAIN map' \ DOMAIN map : v \in VPages /\ Map(v)
  \/ \E v \in DOMAIN map \ DOMAIN map' : Unmap(v)

Spec == Init /\ [][Next]_map
=============================================================================
