----------------------------- MODULE Containers -----------------------------
(***************************************************************************)
(* The users of a deque: a client of Deque itself, one of Map, and         *)
(* String::arg with its map of numbers.  Each has the deque for itself;    *)
(* the properties say what it finds in it.                                 *)
(***************************************************************************)
EXTENDS MultiArg

VARIABLE user       \* who uses it

containerVars == <<dequeVars, mapVars, argVars>>

ContainersInit ==
  /\ DequeInit /\ MapInit /\ ArgInit
  /\ IF user = "multiArg" THEN text \in Strings /\ numArgs \in Args
                          ELSE text = <<>> /\ numArgs = 0

ContainersNext ==
  \/ user = "deque" /\ DequeNext /\ UNCHANGED <<mapVars, argVars>>
  \/ user = "map" /\ MapNext /\ UNCHANGED argVars
  \/ user = "multiArg" /\ ArgNext

ContainersSpec ==
  ContainersInit /\ [][ContainersNext /\ UNCHANGED user]_<<containerVars, user>>

-----------------------------------------------------------------------------
(* Whatever was inserted and deleted where, through iterators or indices:  *)
(* ++ from begin() comes to every node once and ends at end(), -- from     *)
(* there comes back the same way, and no node is lost.                     *)
ChainExact ==
  LET o == Order(d)
      n == Len(o)
  IN  /\ {o[j] : j \in 1 .. n} = DOMAIN d.node
      /\ IF n = 0 THEN d.first = Null /\ d.last = Null
         ELSE d.last = o[n] /\ d.node[o[n]].next = Null /\ d.node[o[1]].prev = Null
      /\ \A j \in 2 .. n : d.node[o[j]].prev = o[j - 1]

Contents == [j \in DOMAIN Order(d) |-> d.node[Order(d)[j]].val]
Position ==
  LET S == {j \in DOMAIN Order(d) : Order(d)[j] = it}
  IN  IF S # {} THEN Min(S) ELSE IF it = Junk THEN -1 ELSE 0

Abstract == INSTANCE Sequence WITH
              Elements <- Values,
              seq <- IF user = "deque" THEN Contents ELSE <<>>,
              at  <- IF user = "deque" THEN Position ELSE 0

(* A deque used through its iterators is a sequence with a place in it, in *)
(* spite of what becomes of _mid, but for the iterator after insertAt into *)
(* an empty one (Containers.hh:59); calls by index change it somewhere.    *)
ImplementsSequence == Abstract!SequenceSpec

(* A map into which no key is inserted a second time is the function of    *)
(* what was inserted, its keys in order.                                   *)
MapRemembers ==
  user = "map" /\ ~again =>
    /\ Len(Order(d)) = Cardinality(DOMAIN put)
    /\ \A j \in DOMAIN Order(d) : j > 1 => key(d, Order(d)[j - 1]) < key(d, Order(d)[j])
    /\ \A k \in DOMAIN put : Equal(d, k) # Null /\ value(d, Equal(d, k)) = put[k]

(* What an escape is: a '%', an L or none, and digits, all that follow.    *)
Escape(j, from, to) ==
  /\ text[j] = "%" /\ (from = j + 1 \/ (from = j + 2 /\ text[j + 1] = "L"))
  /\ from <= to /\ \A k \in from .. to : text[k] \in DOMAIN Digit
  /\ to < Len(text) => text[to + 1] \notin DOMAIN Digit

Natural(from, to) ==
  LET n[k \in from - 1 .. to] == IF k < from THEN 0 ELSE 10 * n[k - 1] + Digit[text[k]]
  IN  n[to]

Escapes ==
  LET places == 1 .. Len(text)
  IN  {e \in places \X places \X places : Escape(e[1], e[2], e[3])}

(* The numbers of the escapes that begin in the first characters, but for  *)
(* those that arg() takes for too large.                                   *)
NumbersIn(chars) == {Natural(e[2], e[3]) : e \in {e \in Escapes : e[1] <= chars}} \cap 0 .. 999

(* Of a number that does not, the int may be any other number. *)
NumbersFit == \A e \in Escapes : Natural(e[2], e[3]) <= IntMax

(* As long as no assert stops it, the numbers that the text has are what   *)
(* the map has for keys, in order and with no argument, if they fit.       *)
ScanFills ==
  user = "multiArg" /\ In("scan") /\ NumbersFit =>
    /\ {key(d, Order(d)[j]) : j \in DOMAIN Order(d)} = NumbersIn(Min({i - 1, Len(text)}))
    /\ \A j \in DOMAIN Order(d) :
         /\ value(d, Order(d)[j]) = -1
         /\ j > 1 => key(d, Order(d)[j - 1]) < key(d, Order(d)[j])

(* "assign an argument number to each of the %n's" (String.cpp:183): what  *)
(* the replacing loop finds for a number of the text is its place among    *)
(* the numbers, if there are as many arguments.                            *)
ArgsAssigned ==
  In("replace") /\ i = 1 /\ NumbersFit =>
    LET numbers == NumbersIn(Len(text))
        rank(n) == Cardinality({m \in numbers : m < n})
    IN  \A n \in numbers : rank(n) < numArgs => value(d, Equal(d, n)) = rank(n)
=============================================================================
