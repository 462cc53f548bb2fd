------------------------------ MODULE MultiArg ------------------------------
(***************************************************************************)
(* String::arg, src/String.cpp: the text's %n are to be replaced by the    *)
(* arguments, the smallest number by the first.  A map from the numbers    *)
(* to the arguments is filled, numbered and looked up.                     *)
(***************************************************************************)
EXTENDS Map, SequencesExt

CONSTANTS
  Strings,          \* the texts, sequences of characters
  Args,             \* how many arguments a call may have
  IntMax            \* the greatest int, 2^31 - 1

ASSUME ArgTexts == Strings \subseteq Seq(STRING)
ASSUME IntWidth == IntMax \in Nat

VARIABLES
  phase,            \* which of the loops multiArg is in
  text, numArgs,    \* the call
  i, arg, lastNumber, result

argVars == <<phase, text, numArgs, i, arg, lastNumber, result>>

(* assert(len) comes first. *)
ArgInit ==
  phase = "scan" /\ i = 1 /\ arg = 0 /\ lastNumber = -1 /\ result = <<>>

-----------------------------------------------------------------------------
Digit ==
  [c \in {"0", "1", "2", "3", "4", "5", "6", "7", "8", "9"} |->
     CASE c = "0" -> 0 [] c = "1" -> 1 [] c = "2" -> 2 [] c = "3" -> 3 [] c = "4" -> 4
       [] c = "5" -> 5 [] c = "6" -> 6 [] c = "7" -> 7 [] c = "8" -> 8 [] c = "9" -> 9]

(* The int that a result becomes.  One that does not fit is undefined; the *)
(* build does not optimize, and it wraps.                                  *)
ToInt(n) ==
  IF n \in -IntMax - 1 .. IntMax THEN n
  ELSE ((n + IntMax + 1) % (2 * IntMax + 2)) - IntMax - 1

(* The digits of the escape at pos, after an L if there is one. *)
EscapeDigits(s, pos) ==
  LET from == IF pos < Len(s) /\ s[pos + 1] = "L" THEN pos + 2 ELSE pos + 1
      runs == {to \in from .. Len(s) : \A j \in from .. to : s[j] \in DOMAIN Digit}
  IN  [from |-> from, to |-> Max(runs \cup {from - 1})]

(* The int that the characters of s in these places are read as. *)
Decimal(s, from, to) ==
  LET n[j \in from - 1 .. to] == IF j < from THEN 0 ELSE ToInt(10 * n[j - 1] + Digit[s[j]])
  IN  n[to]

(* The number of the escape at pos and where the text goes on; -1, and     *)
(* pos as it was, if there is none or it is too large.  What wrapped may   *)
(* be negative, which is not too large, and -1, with pos moved on.         *)
getEscape(s, pos, max) ==
  LET e == EscapeDigits(s, pos)
      n == Decimal(s, e.from, e.to)
  IN  IF e.to >= e.from /\ n <= max THEN [number |-> n, pos |-> e.to + 1]
                                    ELSE [number |-> -1, pos |-> pos]

Char(j) == IF j <= Len(text) THEN text[j] ELSE Junk

-----------------------------------------------------------------------------
(* Each turn of a loop. *)

In(p) == status = "runs" /\ phase = p

(* Without the assert. *)
ScanUnchecked ==
  /\ In("scan") /\ i <= Len(text) /\ text[i] = "%"
  /\ LET e == getEscape(text, i, 999)
     IN  /\ e.number # -1
         /\ \E a \in New : d' = insert(d, a, e.number, -1)
         /\ i' = e.pos
  /\ UNCHANGED <<it, todo, status, mapVars, phase, text, numArgs, arg, lastNumber, result>>

(* assert(numbersUsed.end().key() == number) *)
ScanEscape ==
  /\ In("scan") /\ i <= Len(text) /\ text[i] = "%"
  /\ LET e == getEscape(text, i, 999)
     IN  /\ e.number # -1
         /\ \E a \in New : d' = insert(d, a, e.number, -1)
         /\ IF key(d', d'.last) = e.number
            THEN i' = e.pos /\ UNCHANGED status
            ELSE status' = "failed" /\ UNCHANGED i
  /\ UNCHANGED <<it, todo, mapVars, phase, text, numArgs, arg, lastNumber, result>>

ScanChar ==
  /\ In("scan") /\ i <= Len(text)
  /\ text[i] = "%" => getEscape(text, i, 999).number = -1
  /\ i' = (IF text[i] = "%" THEN getEscape(text, i, 999).pos ELSE i) + 1
  /\ UNCHANGED <<dequeVars, mapVars, phase, text, numArgs, arg, lastNumber, result>>

ScanEnds ==
  /\ In("scan") /\ i > Len(text)
  /\ phase' = "assign" /\ it' = d.first
  /\ UNCHANGED <<d, todo, status, mapVars, text, numArgs, i, arg, lastNumber, result>>

(* *j = arg++ *)
AssignArg ==
  /\ In("assign") /\ it # Null /\ arg < numArgs
  /\ d' = Assign(d, it, arg)
  /\ arg' = arg + 1 /\ lastNumber' = key(d', it) /\ it' = Read(d', it, "next")
  /\ UNCHANGED <<todo, status, mapVars, phase, text, numArgs, i, result>>

AssignEnds ==
  /\ In("assign") /\ (it = Null \/ arg >= numArgs)
  /\ phase' = "replace" /\ i' = 1 /\ numArgs' = Min({numArgs, arg})
  /\ UNCHANGED <<dequeVars, mapVars, text, arg, lastNumber, result>>

(* An escape that is not replaced is dropped, up to the character after    *)
(* it, which may be past the end.                                          *)
Replace ==
  /\ In("replace") /\ i <= Len(text)
  /\ LET e == IF text[i] = "%" /\ i # Len(text) THEN getEscape(text, i, lastNumber)
                                                ELSE [number |-> -1, pos |-> i]
         n == value(d, Equal(d, e.number))
         replaces == e.number # -1 /\ n # -1
     IN  /\ result' = Append(result, IF replaces THEN n ELSE Char(e.pos))
         /\ i' = IF replaces THEN e.pos ELSE e.pos + 1
  /\ UNCHANGED <<dequeVars, mapVars, phase, text, numArgs, arg, lastNumber>>

Returns ==
  /\ In("replace") /\ i > Len(text)
  /\ phase' = "returned"
  /\ UNCHANGED <<dequeVars, mapVars, text, numArgs, i, arg, lastNumber, result>>

ArgNext ==
  ScanEscape \/ ScanChar \/ ScanEnds \/ AssignArg \/ AssignEnds \/ Replace \/ Returns
=============================================================================
