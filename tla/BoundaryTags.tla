---------------------------- MODULE BoundaryTags ----------------------------
(***************************************************************************)
(* The memory src/BLMalloc.cpp works on, and the operators its functions   *)
(* are written with: headers, free-list links, NEXT_HEADER, PREV_HEADER,   *)
(* ALIGN and the arithmetic of size_t.                                     *)
(*                                                                         *)
(* Everything is counted in units of 8 bytes, the size of a t_header and   *)
(* of a t_freedList.  Both structures are two words, so a memory cell has  *)
(* two words: p is prev_s or prev, c is curr_s or next.  A word is a       *)
(* multiple of 8 with the FREED_FLAG in its low bit.                       *)
(***************************************************************************)
EXTENDS Integers

CONSTANTS
  W,          \* the address space, in units: 2^29 on the machine
  Bottom,     \* the constructor's bottom ...
  Top,        \* ... and top, in units
  Ram         \* what memory holds before the allocator writes to it

Addr == 0 .. W - 1

Word == [v : Addr, f : BOOLEAN]
Cell == [p : Word, c : Word]

(* The heap holds two headers at least, and HEAP_SIZE leaves the chunk     *)
(* sizes multiples of 8 (see HeapSize).                                    *)
ASSUME Geometry ==
  /\ W \in Nat /\ Bottom \in Nat /\ Top \in Nat
  /\ 0 < Bottom /\ Bottom + 2 < Top /\ Top < W
  /\ (Top - 1 - Bottom) % 8 \in {0, 7}
  /\ Ram \in [Addr -> Cell]

(* size_t and char* arithmetic: modulo the address space. *)
Wrap(x) == IF x < 0 THEN x + W ELSE IF x >= W THEN x - W ELSE x

(* A pointer stored in a link; a size stored in a header, flagged or not.  *)
Link(a) == [v |-> a, f |-> FALSE]
Freed(n) == [v |-> n, f |-> TRUE]
Used(n) == [v |-> n, f |-> FALSE]

Null(w) == w = Link(0)

(* The comparison the wrong way round. *)
Under(w, x) == w.v < x.v

(* The comparison of two size words, flag included. *)
Above(w, x) == w.v > x.v \/ (w.v = x.v /\ w.f /\ ~x.f)

(* Rounding down. *)
AlignDown(n) == n - (n % 2)

(* ALIGN with _ALIGN_ = 16, two units: the sum may leave size_t. *)
Align(n) == IF n % 2 = 0 THEN n ELSE Wrap(n + 1)

NoMinimum == 0
MinimumBlockSize == 2

(* NEXT_HEADER and PREV_HEADER of the chunk at h in the memory m. *)
NextHeader(m, h) == Wrap(Wrap(h + m[h].c.v) + 1)
PrevHeader(m, h) == Wrap(Wrap(h - m[h].p.v) - 1)

(* The store to prev forgotten. *)
KeepPrev(m, w, x) == m

(* if (w) w->next = x;  and  if (w) w->prev = x;  on the memory m. *)
SetNext(m, w, x) == IF Null(w) THEN m ELSE [m EXCEPT ![w.v].c = x]
SetPrev(m, w, x) == IF Null(w) THEN m ELSE [m EXCEPT ![w.v].p = x]

-----------------------------------------------------------------------------
(* What the constructor lays out.                                          *)

(* minfos.end: one header below the top. *)
End == Top - 1

(* HEAP_SIZE - 2 * sizeof(t_header), in units.  HEAP_SIZE subtracts        *)
(* t_header pointers, start first: it is minus the number of headers       *)
(* between them, in a 32-bit word.  Clearing the flag bit of the byte      *)
(* count leaves a multiple of 8 under the assumption Geometry.             *)
HeapSize == W - 2 - (End - Bottom + 7) \div 8

(* The memory the constructor leaves: the header and the links of the      *)
(* first chunk, and one more header below end.                             *)
Constructed ==
  [Ram EXCEPT ![Bottom]     = [p |-> Used(0), c |-> Freed(HeapSize)],
              ![End - 1]    = [p |-> Freed(HeapSize), c |-> Used(0)],
              ![Bottom + 1] = [p |-> Link(0), c |-> Link(0)]]
=============================================================================
