--------------------------------- MODULE Map ---------------------------------
(***************************************************************************)
(* Map<Key, Value>, src/includes/Map.hh: a Deque of pairs, ordered by key. *)
(***************************************************************************)
EXTENDS Deque, FiniteSetsExt

CONSTANTS Keys, Images      \* what clients put into the map, both integers

ASSUME KeysOrdered == Keys \subseteq Int

VARIABLES
  put,              \* auxiliary: what the client has inserted
  again             \* auxiliary: whether some key was there already

mapVars == <<put, again>>

MapInit == put = <<>> /\ again = FALSE

-----------------------------------------------------------------------------
(* The nodes in the order of ++, from begin() until the iterator is null.  *)
Order(e) == [i \in 1 .. Cardinality(DOMAIN e.node) |-> Walk(e, e.first, i - 1, "next")]

key(e, n)   == e.node[n].val.first
value(e, n) == IF IsNode(e, n) THEN e.node[n].val.second ELSE Junk

(* The first node at indices S of the order. *)
NodeOf(e, S) == IF S = {} THEN Null ELSE Order(e)[Min(S)]

(* Where insert stops; NotAbove has its test the wrong way round. *)
NotAbove(e, k) == NodeOf(e, {i \in DOMAIN Order(e) : key(e, Order(e)[i]) <= k})
NotBelow(e, k) == NodeOf(e, {i \in DOMAIN Order(e) : key(e, Order(e)[i]) >= k})

Equal(e, k) == NodeOf(e, {i \in DOMAIN Order(e) : key(e, Order(e)[i]) = k})

(* *i = v: operator* of the map's iterators is the key. *)
Assign(e, n, v) == [e EXCEPT !.node[n].val.first = v]

Pair(k, v) == [first |-> k, second |-> v]

insert(e, a, k, v) ==
  LET i == NotBelow(e, k)
  IN  IF i = Null THEN insertAfterNode(e, a, Pair(k, v))
      ELSE IF key(e, i) = k THEN Assign(e, i, v)
      ELSE insertBeforeNode(e, a, i, Pair(k, v))

-----------------------------------------------------------------------------
(* A client of the map. *)

MapInserts(k, v) ==
  /\ Calls /\ Room
  /\ \E a \in New : d' = insert(d, a, k, v)
  /\ put' = [j \in DOMAIN put \cup {k} |-> IF j = k THEN v ELSE put[j]]
  /\ again' = (again \/ k \in DOMAIN put)
  /\ UNCHANGED <<it, todo, status>>

(* map[k] *)
MapFinds(k) ==
  /\ Calls
  /\ it' = Equal(d, k)
  /\ UNCHANGED <<d, todo, status, mapVars>>

MapNext ==
  \E k \in Keys : MapFinds(k) \/ \E v \in Images : MapInserts(k, v)
=============================================================================
