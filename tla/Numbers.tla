------------------------------ MODULE Numbers -------------------------------
(***************************************************************************)
(* number(n, base) of String and StaticString: signedToChar and            *)
(* unsignedToChar, src/CString.cpp, with the loops of src/Maths.cpp, in    *)
(* the arithmetic of the machine.  A turn of a loop is a step.             *)
(*                                                                         *)
(* Nothing handles a division by zero: it stops the machine ("trapped").   *)
(* A store past the buffer may do anything ("broken").                     *)
(***************************************************************************)
EXTENDS Integers

CONSTANTS
  W,                \* a size_t has the values 0 .. W - 1
  Types,            \* the types of n: how many values, and whether half of them are negative
  Bases,
  BufSize           \* char buff[32]

ASSUME Machine ==
  /\ W \in Nat \ {0} /\ BufSize \in Nat \ {0}
  /\ Types \subseteq [signed : BOOLEAN, mod : {m \in 1 .. W : m % 2 = 0}]
  /\ Bases \subseteq {b \in 2 .. 16 : b < W}

VARIABLES
  at,               \* which loop the conversion is in
  call,             \* the number, its base and its type
  n,
  f, r,             \* orderOfMagnitude: a power of the base, and which
  val, to,          \* pow: another one, and how many factors are missing
  disc, left, off,     \* the digits: what to divide by, how many, where they begin
  buff

numVars == <<at, call, n, f, r, val, to, disc, left, off, buff>>

Nul == "NUL"
NoChar == "?"       \* what lies after baseChar, or anything

baseChar == <<"0", "1", "2", "3", "4", "5", "6", "7", "8", "9", "A", "B", "C", "D", "E", "F">>

ValuesOf(type) ==
  IF type.signed THEN -(type.mod \div 2) .. type.mod \div 2 - 1 ELSE 0 .. type.mod - 1

(* Conversions of an integer to T and to size_t. *)
ToType(x, type) ==
  LET m == x % type.mod
  IN  IF type.signed /\ m >= type.mod \div 2 THEN m - type.mod ELSE m

ToSize(x) == x % W

NumberInit ==
  /\ at = "idle" /\ call = [n |-> 0, base |-> 2, type |-> [signed |-> FALSE, mod |-> 2]]
  /\ n = 0 /\ f = 0 /\ r = 0 /\ val = 0 /\ to = 0 /\ disc = 0 /\ left = 0 /\ off = 0
  /\ buff = <<>>

-----------------------------------------------------------------------------
number(x, base, type) ==
  /\ at = "idle"
  /\ call' = [n |-> x, base |-> base, type |-> type]
  /\ n' = x /\ at' = "sign"
  /\ buff' = [j \in 0 .. BufSize - 1 |-> Nul]
  /\ UNCHANGED <<f, r, val, to, disc, left, off>>

Negative == call.type.signed /\ n < 0

(* The sign; the smallest number of a type remains what it is. *)
Sign ==
  /\ at = "sign"
  /\ IF Negative THEN buff' = [buff EXCEPT ![0] = "-"] /\ n' = ToType(-n, call.type) /\ off' = 1
                 ELSE UNCHANGED <<buff, n, off>>
  /\ f' = call.base /\ r' = 1 /\ at' = "magnitude"
  /\ UNCHANGED <<call, val, to, disc, left>>

Trap == at' = "trapped" /\ UNCHANGED <<call, n, f, r, val, to, disc, left, off, buff>>

(* n / f without a look at f. *)
MagnitudeTraps == at = "magnitude" /\ f = 0 /\ Trap

MagnitudeGrows ==
  /\ at = "magnitude" /\ f # 0 /\ ToSize(n) \div f # 0
  /\ f' = ToSize(f * call.base) /\ r' = r + 1
  /\ UNCHANGED <<at, call, n, val, to, disc, left, off, buff>>

(* pow(base, r - 1) is called with what orderOfMagnitude returns. *)
MagnitudeKnown ==
  /\ at = "magnitude" /\ f # 0 /\ ToSize(n) \div f = 0
  /\ left' = r /\ val' = call.base /\ to' = r - 1
  /\ IF r = 1 THEN disc' = 1 /\ at' = "digits" ELSE UNCHANGED disc /\ at' = "pow"
  /\ UNCHANGED <<call, n, f, r, off, buff>>

Power ==
  /\ at = "pow"
  /\ IF to = 1 THEN disc' = val /\ at' = "digits" /\ UNCHANGED <<val, to>>
               ELSE val' = ToSize(val * call.base) /\ to' = to - 1 /\ UNCHANGED <<disc, at>>
  /\ UNCHANGED <<call, n, f, r, left, off, buff>>

DigitTraps == at = "digits" /\ left > 0 /\ disc = 0 /\ Trap

PlaceWithoutOff == r - left
PlaceAfter == r - left + off + 1

(* Where in the buffer the next store goes. *)
Place == r - left + off

Breaks ==
  /\ at = "digits" /\ Place >= BufSize /\ (left > 0 => disc # 0)
  /\ at' = "broken"
  /\ UNCHANGED <<call, n, f, r, val, to, disc, left, off, buff>>

CharOf(x) == IF x < 16 THEN baseChar[x + 1] ELSE NoChar

WriteDigit ==
  /\ at = "digits" /\ left > 0 /\ disc # 0 /\ Place < BufSize
  /\ buff' = [buff EXCEPT ![Place] = CharOf(ToSize(n) \div disc)]
  /\ n' = ToType(ToSize(n) % disc, call.type)
  /\ disc' = disc \div call.base /\ left' = left - 1
  /\ UNCHANGED <<at, call, f, r, val, to, off>>

Terminate ==
  /\ at = "digits" /\ left = 0 /\ Place < BufSize
  /\ buff' = [buff EXCEPT ![Place] = Nul]
  /\ at' = "done"
  /\ UNCHANGED <<call, n, f, r, val, to, disc, left, off>>

NumberNext ==
  \/ \E type \in Types, base \in Bases : \E x \in ValuesOf(type) : number(x, base, type)
  \/ Sign \/ MagnitudeTraps \/ MagnitudeGrows \/ MagnitudeKnown \/ Power
  \/ DigitTraps \/ Breaks \/ WriteDigit \/ Terminate
=============================================================================
