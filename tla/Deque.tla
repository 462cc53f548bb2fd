-------------------------------- MODULE Deque --------------------------------
(***************************************************************************)
(* Deque<T>, src/includes/Containers.hh, and its iterators,                *)
(* src/includes/Iterators.hh: a doubly linked list with a pointer that is  *)
(* meant to follow its middle.                                             *)
(*                                                                         *)
(* Nothing traps a read through a null pointer or into a deleted node: it  *)
(* gives Junk, and so does a read through Junk.  A store or a delete       *)
(* through one may do anything, and there the model stops ("broken").      *)
(***************************************************************************)
EXTENDS Integers, Sequences, FiniteSets, Functions

CONSTANTS
  Nodes,            \* addresses operator new may return
  Values,
  Lists,            \* contents of the deques that are appended
  Offsets,          \* how far an iterator is moved
  MaxSize,          \* bound: insertions into a deque
  Null, Junk

ASSUME Pointers == Null \notin Nodes /\ Junk \notin Nodes /\ Null # Junk
ASSUME Requests ==
  /\ Lists \subseteq Seq(Values) /\ MaxSize \in Nat
  /\ Offsets \subseteq Int /\ \A off \in Offsets : -off \in Offsets

VARIABLES
  d,                \* the deque: its nodes and its members
  it,               \* the node of the client's iterator
  todo,             \* what append of another deque has yet to append
  status            \* "runs"; "failed" in an assert or failure(); "broken"

dequeVars == <<d, it, todo, status>>

Empty == [node |-> <<>>, first |-> Null, mid |-> Null, last |-> Null, size |-> 0]

DequeInit == d = Empty /\ it = Null /\ todo = <<>> /\ status = "runs"

-----------------------------------------------------------------------------
(* Pointers. *)

IsNode(e, n) == n \in DOMAIN e.node

(* n->prev and n->next, from prev = "prev" and "next". *)
Read(e, n, side) == IF IsNode(e, n) THEN e.node[n][side] ELSE Junk

(* k times n = n->side. *)
Walk(e, n, k, side) ==
  LET at[j \in 0 .. k] == IF j = 0 THEN n ELSE Read(e, at[j - 1], side)
  IN  at[k]

With(nodes, a, v, p, q) ==
  [n \in DOMAIN nodes \cup {a} |-> IF n = a THEN [val |-> v, prev |-> p, next |-> q] ELSE nodes[n]]

Without(nodes, a) == Restrict(nodes, DOMAIN nodes \ {a})

-----------------------------------------------------------------------------
(* The protected functions. *)

(* ++_size, and _mid with every second element.  *)
Grown(e) ==
  LET s == e.size + 1
  IN  [e EXCEPT !.size = s,
                !.mid  = IF s > 2 /\ s % 2 = 0 THEN Read(e, e.mid, "next") ELSE e.mid]

Single(e, a, v) ==
  [e EXCEPT !.node = With(e.node, a, v, Null, Null), !.first = a, !.mid = a, !.last = a]

(* A new node a before n, which without its link to p->next is lost to     *)
(* those that come from the front.                                         *)
KeepNext(e, a, n, v) ==
  LET p == e.node[n].prev
  IN  [e EXCEPT !.node = With([e.node EXCEPT ![n].prev = a], a, v, p, n)]

LinkBefore(e, a, n, v) ==
  LET p == e.node[n].prev
  IN  [e EXCEPT !.node = With([e.node EXCEPT ![n].prev = a, ![p].next = a], a, v, p, n)]

insertBeforeNode(e, a, n, v) ==
  Grown(IF e.size = 0 THEN Single(e, a, v)
        ELSE IF n = e.first
        THEN [e EXCEPT !.node = With([e.node EXCEPT ![n].prev = a], a, v, Null, n), !.first = a]
        ELSE LinkBefore(e, a, n, v))

(* After the last node: the only one it is called with. *)
insertAfterNode(e, a, v) ==
  Grown(IF e.size = 0 THEN Single(e, a, v)
        ELSE [e EXCEPT !.node = With([e.node EXCEPT ![e.last].next = a], a, v, e.last, Null),
                       !.last = a])

(* _size stays; _mid moves from its node even if that was n. *)
Shrunk(e) ==
  [e EXCEPT !.mid = IF e.size > 1 /\ e.size % 2 = 1 THEN Read(e, e.mid, "prev") ELSE e.mid]

(* deleteNode of one of several nodes.  Of the only one it deletes what it *)
(* reads through the null next.                                            *)
deleteNode(e, n) ==
  LET p == e.node[n].prev
      q == e.node[n].next
  IN  Shrunk(IF n = e.first
             THEN [e EXCEPT !.node = Without([e.node EXCEPT ![q].prev = Null], n), !.first = q]
             ELSE IF n = e.last
             THEN [e EXCEPT !.node = Without([e.node EXCEPT ![p].next = Null], n), !.last = p]
             ELSE [e EXCEPT !.node = Without([e.node EXCEPT ![p].next = q, ![q].prev = p], n)])

Deletes(n) == IsNode(d, n) /\ Cardinality(DOMAIN d.node) > 1

findNodeAt(e, i) ==
  LET half == e.size \div 2
  IN  CASE i >= e.size -> e.last
        [] i < e.size \div 4 -> Walk(e, e.first, i, "next")
        [] i >= e.size \div 4 /\ i <= half -> Walk(e, e.mid, half - i, "prev")
        [] i > half /\ i <= (e.size \div 4) * 3 -> Walk(e, e.mid, i - half, "next")
        [] OTHER -> Walk(e, e.last, e.size - i, "prev")

-----------------------------------------------------------------------------
(* The client's calls, one after the other. *)

Calls == status = "runs" /\ todo = <<>>
Room  == d.size < MaxSize
New   == Nodes \ DOMAIN d.node

Stops(how) == status' = how /\ UNCHANGED <<d, it, todo>>

append(v) ==
  /\ Calls /\ Room
  /\ \E a \in New : d' = insertAfterNode(d, a, v)
  /\ UNCHANGED <<it, todo, status>>

(* append of another deque, and the copy of one. *)
AppendDeque(o) ==
  /\ Calls /\ d.size + Len(o) <= MaxSize
  /\ todo' = o
  /\ UNCHANGED <<d, it, status>>

AppendNext ==
  /\ status = "runs" /\ todo # <<>>
  /\ \E a \in New : d' = insertAfterNode(d, a, Head(todo))
  /\ todo' = Tail(todo)
  /\ UNCHANGED <<it, status>>

begin == Calls /\ it' = d.first /\ UNCHANGED <<d, todo, status>>
end   == Calls /\ it' = d.last /\ UNCHANGED <<d, todo, status>>

(* insertAt(it, v).  Into an empty deque it goes before what begin()       *)
(* returns there, and the iterator then reads a null pointer's prev.       *)
InsertHere(v) ==
  /\ Calls /\ Room /\ (it # Null \/ d.size = 0)
  /\ IF IsNode(d, it) \/ d.size = 0
     THEN \E a \in New :
            /\ d' = insertBeforeNode(d, a, it, v)
            /\ it' = Read(d', it, "prev")
            /\ UNCHANGED <<todo, status>>
     ELSE Stops("broken")

(* With the iterator left at the deleted node. *)
DeleteAndStay ==
  /\ Calls /\ it # Null
  /\ IF Deletes(it)
     THEN d' = deleteNode(d, it) /\ UNCHANGED <<it, todo, status>>
     ELSE Stops("broken")

DeleteHere ==
  /\ Calls /\ it # Null
  /\ IF Deletes(it)
     THEN it' = Read(d, it, "next") /\ d' = deleteNode(d, it) /\ UNCHANGED <<todo, status>>
     ELSE Stops("broken")

(* it += off and it -= off, ++it and --it among them.  The one asserts     *)
(* that there is a node to go on from, the other that there is one before  *)
(* it; an offset the other way is left to the other one, after that.       *)
By(off) == IF off < 0 THEN Walk(d, it, -off, "prev") ELSE Walk(d, it, off, "next")

AtNone  == it = Null
AtFirst == Read(d, it, "prev") = Null

Forward(off) ==
  /\ Calls
  /\ IF AtNone \/ (off < 0 /\ AtFirst)
     THEN Stops("failed")
     ELSE it' = By(off) /\ UNCHANGED <<d, todo, status>>

Backward(off) ==
  /\ Calls
  /\ IF AtFirst \/ (off < 0 /\ AtNone)
     THEN Stops("failed")
     ELSE it' = By(-off) /\ UNCHANGED <<d, todo, status>>

InsertAtIndex(i, v) ==
  /\ Calls /\ Room
  /\ LET n == findNodeAt(d, i)
     IN  IF IsNode(d, n) \/ d.size = 0
         THEN /\ \E a \in New : d' = insertBeforeNode(d, a, n, v)
              /\ UNCHANGED <<it, todo, status>>
         ELSE Stops("broken")

(* The client lets go of an iterator whose node it deletes. *)
DeleteAtIndex(i) ==
  /\ Calls
  /\ LET n == findNodeAt(d, i)
     IN  IF i >= d.size THEN Stops("failed")
         ELSE IF Deletes(n)
         THEN /\ d' = deleteNode(d, n)
              /\ it' = IF it = n THEN Null ELSE it
              /\ UNCHANGED <<todo, status>>
         ELSE Stops("broken")

DequeNext ==
  \/ \E v \in Values : append(v) \/ InsertHere(v)
  \/ \E o \in Lists : AppendDeque(o)
  \/ AppendNext \/ begin \/ end \/ DeleteHere
  \/ \E off \in Offsets : Forward(off) \/ Backward(off)
  \/ \E i \in 0 .. MaxSize : DeleteAtIndex(i) \/ \E v \in Values : InsertAtIndex(i, v)
=============================================================================
