------------------------------ MODULE Message -------------------------------
(***************************************************************************)
(* How the kernel says anything: a StaticString, src/StaticString.cpp,     *)
(* made of texts and a number, and printed by kprint, which goes on to the *)
(* first 0.  A static string lives in the stack; nothing clears its buffer *)
(* and nothing writes a 0 after what is copied into it.                    *)
(***************************************************************************)
EXTENDS Numbers, SequencesExt

CONSTANTS
  Cap,              \* STATICSTRING_BUFFERSIZE
  Texts,            \* the literals of messages
  Leftovers,        \* characters that the stack may be full of
  MaxParts          \* bound: texts and numbers in a message

ASSUME Buffers == Cap \in Nat /\ BufSize <= Cap /\ \A m \in Texts : Len(m) <= Cap
ASSUME Literal == Texts \subseteq Seq(STRING \ {Nul})

VARIABLES
  stage,            \* "converting", "number", "message", "shown"; "broken"
  stack,            \* what a buffer in the stack is full of
  static,           \* the string of the number and that of the message
  said, parts,      \* auxiliary: what the message is made of
  shown             \* what kprint draws

messageVars == <<stage, stack, static, said, parts, shown>>

MessageInit ==
  /\ stage = "converting" /\ stack = Nul
  /\ static = <<>> /\ said = <<>> /\ parts = 0 /\ shown = <<>>

-----------------------------------------------------------------------------
(* The characters of an array of the given size, up to a 0 or, where there *)
(* is none, past its end.                                                  *)
UpToNul(array, size) ==
  LET nuls == {j \in 0 .. size - 1 : array[j] = Nul}
      last == IF nuls = {} THEN size ELSE Min(nuls)
  IN  [j \in 1 .. last |-> array[j - 1]] \o IF nuls = {} THEN <<NoChar>> ELSE <<>>

(* strcpy and strncpy of m to position p of d. *)
Stored(d, p, m) == [j \in 0 .. Cap - 1 |-> IF j \in p .. p + Len(m) - 1 THEN m[j - p + 1] ELSE d[j]]

StaticString(s, m) == [d |-> Stored([j \in 0 .. Cap - 1 |-> s], 0, m), len |-> Len(m)]

(* The first len characters. *)
Counted(o) == [j \in 1 .. o.len |-> o.d[j - 1]]

(* How much of m append copies: what the whole buffer would hold. *)
Copied(m) == SubSeq(m, 1, Min({Len(m), Cap}))

Appended(o, m) == [d |-> Stored(o.d, o.len, Copied(m)), len |-> o.len + Len(Copied(m))]

Size == IF call.n < 0 THEN -call.n ELSE call.n

(* The number as it is to be read: the digits the code is to find. *)
Digits ==
  LET digits[k \in 0 .. Size] ==
        IF k < call.base THEN <<baseChar[k + 1]>>
                         ELSE Append(digits[k \div call.base], baseChar[(k % call.base) + 1])
  IN  digits[Size]

Numeral == (IF call.n < 0 THEN <<"-">> ELSE <<>>) \o Digits

-----------------------------------------------------------------------------
(* number() returns its buffer as a static string. *)
NumberReturns ==
  /\ stage = "converting" /\ at = "done"
  /\ stack' \in Leftovers
  /\ static' = [number |-> StaticString(stack', UpToNul(buff, BufSize))]
  /\ stage' = "number"
  /\ UNCHANGED <<numVars, said, parts, shown>>

Construct(m) ==
  /\ stage = "number"
  /\ static' = [number |-> static.number, message |-> StaticString(stack, m)]
  /\ said' = m /\ parts' = 1 /\ stage' = "message"
  /\ UNCHANGED <<numVars, stack, shown>>

(* A copy that runs over the buffer's end may do anything. *)
extend(m) ==
  IF static.message.len + Len(Copied(m)) > Cap
  THEN stage' = "broken" /\ UNCHANGED static
  ELSE static' = [static EXCEPT !.message = Appended(@, m)] /\ UNCHANGED stage

AppendText(m) ==
  /\ stage = "message" /\ parts < MaxParts
  /\ extend(m) /\ said' = said \o m /\ parts' = parts + 1
  /\ UNCHANGED <<numVars, stack, shown>>

AppendNumber ==
  /\ stage = "message" /\ parts < MaxParts
  /\ extend(Counted(static.number)) /\ said' = said \o Numeral /\ parts' = parts + 1
  /\ UNCHANGED <<numVars, stack, shown>>

Show(o) ==
  /\ shown' = UpToNul(o.d, Cap) /\ stage' = "shown"
  /\ UNCHANGED <<numVars, stack, static, parts>>

ShowNumber == stage = "number" /\ Show(static.number) /\ said' = Numeral
ShowMessage == stage = "message" /\ Show(static.message) /\ UNCHANGED said

MessageNext ==
  \/ NumberNext /\ UNCHANGED messageVars
  \/ NumberReturns \/ ShowNumber \/ ShowMessage \/ AppendNumber
  \/ \E m \in Texts : Construct(m) \/ AppendText(m)

-----------------------------------------------------------------------------
(* A number orderOfMagnitude can tell the length of: what it sees is the   *)
(* size of the number, and it stops before its power wraps to a smaller.   *)
TopPower ==
  LET last[p \in 1 .. W] == IF p * call.base < W THEN last[p * call.base] ELSE p
  IN  last[1]

Readable ==
  /\ call.n < 0 => Size = ToSize(ToType(-call.n, call.type))
  /\ Size < TopPower \/ Size < ToSize(TopPower * call.base)

(* What kprint shows for any such number in any message is the message     *)
(* with the number in its digits, and after it only what was left in the   *)
(* stack: nothing if that was 0.                                           *)
MessageShown ==
  stage = "shown" /\ Readable =>
    /\ IsPrefix(said, shown)
    /\ \A j \in Len(said) + 1 .. Len(shown) : shown[j] \in {stack, NoChar}
    /\ stack = Nul /\ Len(said) < Cap => shown = said

(* The machine stops and memory is overrun only where the text is longer   *)
(* than its buffer: the 32 bytes of number() are too few for a sign, 31    *)
(* digits and a 0, and append never asks what is left of the 512.          *)
BuffersSuffice ==
  /\ at = "trapped" => ~Readable
  /\ at = "broken" /\ Readable => Len(Numeral) + 1 > BufSize
  /\ stage = "broken" /\ Readable => Len(said) > Cap

(* A number can be printed.  The comment at BLMalloc.cpp:559 says which    *)
(* cannot: "Uncommenting the next commented line make processor bug".      *)
NeverTraps == at # "trapped"
=============================================================================
