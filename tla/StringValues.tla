---------------------------- MODULE StringValues ----------------------------
(***************************************************************************)
(* What the operations of includes/String.hh promise their users: a string *)
(* is a value.  An operation on one changes no other, but for the one that *)
(* is moved from, which is empty afterwards.                               *)
(***************************************************************************)
EXTENDS Sequences, Functions

CONSTANTS Names, Literals, Trails

VARIABLE value      \* the strings there are: name -> characters

With(x, v) == [y \in DOMAIN value \cup {x} |-> IF y = x THEN v ELSE value[y]]

(* What can be written down for a new value of a string. *)
Simple == Literals \cup {value[y] : y \in DOMAIN value}

Becomes(x) == \E v \in Simple : value' = With(x, v)

(* For += and +: a string followed by a text or a string. *)
Grows(x) == \E y \in DOMAIN value, v \in Simple : value' = With(x, value[y] \o v)

(* from(p) is the rest of the string, and what strlen finds behind it. *)
Rest(x) ==
  \E y \in DOMAIN value : \E p \in 0 .. Len(value[y]), t \in Trails \cup {<<>>} :
    value' = With(x, SubSeq(value[y], p + 1, Len(value[y])) \o t)

Moves(x) ==
  \E y \in DOMAIN value :
    value' = [z \in DOMAIN value \cup {x} |-> IF z = y THEN <<>> ELSE IF z = x THEN value[y] ELSE value[z]]

Ends(x) == x \in DOMAIN value /\ value' = Restrict(value, DOMAIN value \ {x})

ValueSpec ==
  /\ value = <<>>
  /\ [][\E x \in Names : Becomes(x) \/ Grows(x) \/ Rest(x) \/ Moves(x) \/ Ends(x)]_value
=============================================================================
