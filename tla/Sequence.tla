------------------------------ MODULE Sequence ------------------------------
(***************************************************************************)
(* What a deque with one iterator does: a sequence and a place in it, 0 if *)
(* the iterator is null and Wild if it is anything else that is no         *)
(* element.  It is less than the comments of Containers.hh promise, in two *)
(* ways: InsertIntoEmpty and the actions on an index, InsertSome and       *)
(* DeleteSome.                                                             *)
(***************************************************************************)
EXTENDS Integers, SequencesExt

CONSTANTS Elements, Offsets

VARIABLES seq, at

Wild == -1

EmptyInit == seq = <<>> /\ at = 0

Push == \E v \in Elements : seq' = Append(seq, v) /\ UNCHANGED at

(* insertAt by an iterator into an empty deque: the new element is there,  *)
(* and the iterator is not at it but wild.  "Iterator is still valid       *)
(* after" (Containers.hh:59) is not true of it.                            *)
InsertIntoEmpty == seq = <<>> /\ (\E v \in Elements : seq' = <<v>>) /\ at' = Wild

(* Before the iterator, which then is at the new element. *)
InsertBefore ==
  /\ at > 0
  /\ \E v \in Elements : seq' = InsertAt(seq, at, v)
  /\ UNCHANGED at

(* The iterator goes on to the next element. *)
Delete ==
  /\ at > 0
  /\ seq' = RemoveAt(seq, at)
  /\ at' = IF at = Len(seq) THEN 0 ELSE at

(* A step past either end makes the iterator null; on from there, it reads *)
(* what is not a node, and is wild.                                        *)
Place(p) ==
  IF p \in 1 .. Len(seq) THEN p ELSE IF p \in {0, Len(seq) + 1} THEN 0 ELSE Wild

Move ==
  /\ \/ at' = IF seq = <<>> THEN 0 ELSE 1
     \/ at' = Len(seq)
     \/ \E k \in Offsets : at > (IF k < 0 THEN 1 ELSE 0) /\ at' = Place(at + k)
     \/ at <= 0 /\ at' = Wild
  /\ UNCHANGED seq

(* Elsewhere: the iterator stays with its element.  An index is only       *)
(* promised to be some place, since findNodeAt counts wrongly, and a       *)
(* deletion to take some element: the size that deleteAt compares it with  *)
(* (Containers.hh:50-53) is that of all insertions, so that an index past  *)
(* the last element deletes one too, where the code means to stop.         *)
InsertSome ==
  \E i \in 1 .. Len(seq), v \in Elements :
    seq' = InsertAt(seq, i, v) /\ at' = IF at >= i THEN at + 1 ELSE at

DeleteSome ==
  \E i \in 1 .. Len(seq) :
    /\ seq' = RemoveAt(seq, i)
    /\ at' = IF at > i THEN at - 1 ELSE IF at = i THEN 0 ELSE at

SequenceNext ==
  Push \/ InsertIntoEmpty \/ InsertBefore \/ Delete \/ Move \/ InsertSome \/ DeleteSome

SequenceSpec == EmptyInit /\ [][SequenceNext]_<<seq, at>>
=============================================================================
