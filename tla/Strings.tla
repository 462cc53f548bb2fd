------------------------------ MODULE Strings -------------------------------
(***************************************************************************)
(* String, src/String.cpp: values that own a block of the allocator, over  *)
(* the abstract allocator, which always has a block.  A block holds the    *)
(* bytes asked for and no 0 after them: strlen of a string's data goes on  *)
(* into what follows the block, which is any of Trails and then a 0.       *)
(*                                                                         *)
(* No pointer is trapped: a call that reads through a null one gets what   *)
(* lies at address 0 and changes nothing, and is left out.                 *)
(***************************************************************************)
EXTENDS Integers, Sequences, Functions

CONSTANTS
  Names,            \* the clients' variables
  Blocks,           \* addresses malloc may return
  Chars,            \* characters
  Literals,         \* texts: sequences of characters, without a 0
  Trails,           \* what may follow a block, up to the first 0
  MaxLength,        \* bound on the length of a string
  Nowhere           \* the null pointer

ASSUME StringPointers == Nowhere \notin Blocks

VARIABLES
  string,           \* the constructed strings: name -> data and len
  block,            \* the allocated blocks: address -> its bytes
  copies,           \* the blocks cstr() has given to the client
  stopped           \* an assert failed

stringVars == <<string, block, copies, stopped>>

Zero == "0"
Uninit == "?"

ASSUME StringTexts ==
  /\ {Zero, Uninit} \subseteq Chars /\ MaxLength \in Nat
  /\ Literals \subseteq Seq(Chars) /\ Trails \subseteq Seq(Chars)
  /\ \A m \in Literals \cup Trails : \A j \in DOMAIN m : m[j] # Zero

StringInit == string = <<>> /\ block = <<>> /\ copies = {} /\ stopped = FALSE

-----------------------------------------------------------------------------
(* Memory: the operators take the blocks b and give what becomes of them.  *)

Fresh(b) == Blocks \ DOMAIN b

Set(g, a, x) == [c \in DOMAIN g \cup {a} |-> IF c = a THEN x ELSE g[c]]
Drop(g, a) == Restrict(g, DOMAIN g \ {a})

free(b, a) == IF a = Nowhere THEN b ELSE Drop(b, a)

(* strndup(f, s) into a: malloc(0) is null. *)
strndup(b, a, f) == IF f = <<>> THEN b ELSE Set(b, a, f)
Given(a, f) == IF f = <<>> THEN Nowhere ELSE a

(* The first bytes of a block become those of f: memcpy, strncpy. *)
Over(x, p, f) == [j \in DOMAIN x |-> IF j \in p + 1 .. p + Len(f) THEN f[j - p] ELSE x[j]]

Zeros(k) == [j \in 1 .. k |-> Zero]

(* realloc keeps what fits. *)
Resized(x, k) == [j \in 1 .. k |-> IF j <= Len(x) THEN x[j] ELSE Uninit]

(* What strlen and strcpy see from position p of a string's data. *)
FromData(s, p) ==
  LET x == SubSeq(block[s.data], p + 1, Len(block[s.data]))
      zeros == {j \in 1 .. Len(x) : x[j] = Zero}
      first == {j \in zeros : \A k \in zeros : j <= k}
  IN  IF zeros = {} THEN {x \o t : t \in Trails} ELSE {SubSeq(x, 1, j - 1) : j \in first}

Content(s) == IF s.data = Nowhere THEN <<>> ELSE SubSeq(block[s.data], 1, s.len)

-----------------------------------------------------------------------------
Works == ~stopped
Has(x) == Works /\ x \in DOMAIN string

(* Where x is constructed, and with the blocks b has the data and len. *)
Becomes(x, b, data, len) ==
  /\ block' = b
  /\ string' = Set(string, x, [data |-> data, len |-> len])
  /\ UNCHANGED <<copies, stopped>>

(* The constructors: x is made with the text m, which is copied. *)
Make(x, m) ==
  /\ Works /\ x \notin DOMAIN string
  /\ \E a \in Fresh(block) : Becomes(x, strndup(block, a, m), Given(a, m), Len(m))

NewCopy(x, y) == Has(y) /\ Make(x, Content(string[y]))

(* String(data + p), which reads what follows the data. *)
from(x, y, p) ==
  /\ Has(y) /\ string[y].data # Nowhere /\ p <= string[y].len
  /\ \E m \in FromData(string[y], p) : Len(m) <= MaxLength /\ Make(x, m)

(* o.data = 0 left out. *)
NewMoveShares(x, y) ==
  /\ Has(y) /\ x \notin DOMAIN string
  /\ string' = Set(string, x, string[y])
  /\ UNCHANGED <<block, copies, stopped>>

NewMove(x, y) ==
  /\ Has(y) /\ x \notin DOMAIN string
  /\ string' = Set(Set(string, x, string[y]), y, [data |-> Nowhere, len |-> 0])
  /\ UNCHANGED <<block, copies, stopped>>

Delete(x) ==
  /\ Has(x)
  /\ string' = Drop(string, x) /\ block' = free(block, string[x].data)
  /\ UNCHANGED <<copies, stopped>>

(* free(data) left out. *)
AssignWithoutFree(x, m) ==
  /\ Len(m) > string[x].len
  /\ \E a \in Fresh(block) : Becomes(x, strndup(block, a, m), a, Len(m))

(* bzero left out. *)
AssignKeepsTail(x, m) ==
  LET s == string[x]
  IN  IF Len(m) > s.len
      THEN LET b == free(block, s.data)
           IN  \E a \in Fresh(b) : Becomes(x, strndup(b, a, m), a, Len(m))
      ELSE Becomes(x, IF s.data = Nowhere THEN block ELSE Set(block, s.data, Over(block[s.data], 0, m)),
                   s.data, Len(m))

(* operator=: the block is kept for a text that is no longer, and cleared  *)
(* after it as far as the old text went.                                   *)
AssignChars(x, m) ==
  LET s == string[x]
  IN  IF Len(m) > s.len
      THEN LET b == free(block, s.data)
           IN  \E a \in Fresh(b) : Becomes(x, strndup(b, a, m), a, Len(m))
      ELSE Becomes(x, IF s.data = Nowhere THEN block
                      ELSE Set(block, s.data, Over(block[s.data], 0, m \o Zeros(s.len - Len(m)))),
                   s.data, Len(m))

AssignLiteral(x, m) == Has(x) /\ AssignChars(x, m)
AssignString(x, y) == Has(x) /\ Has(y) /\ AssignChars(x, Content(string[y]))

(* The moved-from string is emptied last, so that a string moved to itself *)
(* is empty; what x owned is forgotten.                                    *)
AssignMove(x, y) ==
  /\ Has(x) /\ Has(y)
  /\ string' = [string EXCEPT ![x] = string[y], ![y] = [data |-> Nowhere, len |-> 0]]
  /\ UNCHANGED <<block, copies, stopped>>

(* realloc(data, olen + len), which may move the block, and a copy to its  *)
(* end; a realloc of nothing to nothing is null, of something a free.      *)
AppendChars(x, m) ==
  LET s == string[x]
      k == s.len + Len(m)
      old == IF s.data = Nowhere THEN <<>> ELSE block[s.data]
  IN  /\ k <= MaxLength
      /\ IF k = 0 THEN Becomes(x, free(block, s.data), Nowhere, 0)
         ELSE \E a \in Fresh(block) \cup ({s.data} \ {Nowhere}) :
                Becomes(x, Set(free(block, s.data), a, Over(Resized(old, k), s.len, m)), a, k)

AppendLiteral(x, m) == Has(x) /\ m # <<>> /\ AppendChars(x, m)
AppendString(x, y) == Has(x) /\ Has(y) /\ AppendChars(x, Content(string[y]))

(* x is made of y + z: a copy of y, which z is appended to, is copied and  *)
(* deleted.  The text comes last in m + y, too.                            *)
Plus(x, y, m) ==
  /\ Has(y) /\ string[y].len + Len(m) <= MaxLength
  /\ Make(x, Content(string[y]) \o m)
PlusString(x, y, z) == Has(z) /\ Plus(x, y, Content(string[z]))

(* cstr() of a string that is not const asserts, in strlen, that there is  *)
(* data, and copies it, with what strlen takes for a part of it.           *)
cstr(y) ==
  /\ Has(y)
  /\ IF string[y].data = Nowhere
     THEN stopped' = TRUE /\ UNCHANGED <<string, block, copies>>
     ELSE /\ \E a \in Fresh(block), m \in FromData(string[y], 0) :
               /\ block' = strndup(block, a, m)
               /\ copies' = copies \cup ({Given(a, m)} \ {Nowhere})
          /\ UNCHANGED <<string, stopped>>

(* The client is done with what cstr() gave it. *)
FreeCopy(a) ==
  /\ Works /\ a \in copies
  /\ block' = free(block, a) /\ copies' = copies \ {a}
  /\ UNCHANGED <<string, stopped>>

StringNext ==
  \/ \E x \in Names :
       \/ Delete(x) \/ cstr(x)
       \/ \E m \in Literals : Make(x, m) \/ AssignLiteral(x, m) \/ AppendLiteral(x, m)
       \/ \E y \in Names :
            \/ NewCopy(x, y) \/ NewMove(x, y) \/ AssignString(x, y) \/ AssignMove(x, y)
            \/ AppendString(x, y)
            \/ \E p \in 0 .. MaxLength : from(x, y, p)
            \/ \E m \in Literals : Plus(x, y, m)
            \/ \E z \in Names : PlusString(x, y, z)
  \/ \E a \in copies : FreeCopy(a)

StringSpec == StringInit /\ [][StringNext]_stringVars

-----------------------------------------------------------------------------
Owned == {string[x].data : x \in DOMAIN string} \ {Nowhere}

(* Through any constructions, copies, moves, assignments and appends, each *)
(* block is one string's or was given to the client once: no two strings   *)
(* share their data, none has lost its block to a free, and what a string  *)
(* counts is in its block.                                                 *)
OneOwner ==
  /\ Owned \cup copies \subseteq DOMAIN block /\ Owned \cap copies = {}
  /\ \A x \in DOMAIN string :
       LET s == string[x]
       IN  /\ IF s.data = Nowhere THEN s.len = 0 ELSE s.len <= Len(block[s.data])
           /\ \A y \in DOMAIN string \ {x} : s.data # Nowhere => string[y].data # s.data

(* No operation loses a block, with the exception of the move assignment,  *)
(* which forgets what the string had before.                               *)
Lost == DOMAIN block \ (Owned \cup copies)

LostOnlyByMove == [][Lost' \subseteq Lost \/ \E x, y \in Names : AssignMove(x, y)]_stringVars

(* Strings are values. *)
AsValues == INSTANCE StringValues WITH
              value <- [x \in DOMAIN string |-> Content(string[x])]

ImplementsValues == AsValues!ValueSpec
=============================================================================
