----------------------------- MODULE Allocator ------------------------------
(***************************************************************************)
(* What the interface of includes/MemoryManager.hh promises its clients:   *)
(* a block of at least the size asked for, inside the heap, that shares no *)
(* address with a block some client still holds; and nothing happens to a  *)
(* block until its holder gives it back.  BLMalloc is shown to implement   *)
(* this for the blocks its clients hold.                                   *)
(***************************************************************************)
EXTENDS Naturals

CONSTANTS First, Last     \* the heap's addresses

VARIABLE live             \* the blocks held: pointer -> size

Init == live = [p \in {} |-> 0]

Fresh(p, n) ==
  /\ First <= p /\ p + n <= Last + 1
  /\ \A q \in DOMAIN live : p # q /\ (p + n <= q \/ q + live[q] <= p)

(* A call returns a block of n units. *)
Give(p, n) ==
  /\ Fresh(p, n)
  /\ live' = [q \in DOMAIN live \cup {p} |-> IF q = p THEN n ELSE live[q]]

(* A client passes a block to free or realloc. *)
Take(p) ==
  /\ p \in DOMAIN live
  /\ live' = [q \in DOMAIN live \ {p} |-> live[q]]

Next == \/ \E p \in First .. Last, n \in 0 .. Last - First + 1 : Give(p, n)
        \/ \E p \in DOMAIN live : Take(p)

Spec == Init /\ [][Next]_live
=============================================================================
