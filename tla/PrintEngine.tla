----------------------------- MODULE PrintEngine -----------------------------
(***************************************************************************)
(* kprint, src/PrintEngine.cpp: a text screen, a cursor, an attribute, and *)
(* operator(), which writes a text to it.  A step is a statement.          *)
(*                                                                         *)
(* Texts are printed one after the other.  The interrupt handlers of       *)
(* src/Interrupts.cpp print too, but at this commit none can be entered:   *)
(* no IDT is loaded and interrupts are never enabled.  The vectors of      *)
(* src/InterruptVectors.asm save no registers, so nothing could be said of *)
(* a print that one of them interrupted, and nothing is.                   *)
(***************************************************************************)
EXTENDS Integers, Sequences

CONSTANTS
  Cols, Rows,       \* 80 and 25: LINESIZE is Cols pairs of bytes, SCREENSIZE Rows lines
  Glyphs,           \* the characters from ' ' to '~'
  Controls,         \* all others: the four below and those that do nothing
  Attrs, Colour,    \* attributes; (c - '0') & 0b0111 of a character c
  White,            \* the constructor's: white on black
  Texts             \* what is printed

Tab     == "\t"
Newline == "\n"
Return  == "\r"
Esc     == "\\e"

Char == Glyphs \cup Controls

ASSUME Screen == Cols \in Nat /\ Cols >= 4 /\ Rows \in Nat /\ Rows >= 2
ASSUME Text ==
  /\ {Tab, Newline, Return, Esc} \subseteq Controls /\ Glyphs \cap Controls = {}
  /\ Colour \in [Char -> Attrs] /\ White \in Attrs
  /\ Texts \subseteq Seq(Char)

VARIABLES
  video,            \* the screen: a character and its attribute in each cell
  kX, kY, kAttr,    \* the members of PrintEngine
  pc,               \* where operator() is
  loc               \* msg and i; from: auxiliary, the screen at the call

vars == <<video, kX, kY, kAttr, pc, loc>>

Cells == 0 .. Rows * Cols - 1
Zero  == "0"
Blank == [c |-> Zero, a |-> Zero]   \* what memset leaves
Cell  == [c : Char \cup {Zero}, a : Attrs \cup {Zero}]

Now  == [video |-> video, x |-> kX, y |-> kY, attr |-> kAttr]
Boot == [video |-> [a \in Cells |-> Blank], x |-> 0, y |-> 0, attr |-> White]

NoText == [msg |-> <<>>, i |-> 1, from |-> Boot]

Init ==
  /\ video = Boot.video /\ kX = Boot.x /\ kY = Boot.y /\ kAttr = Boot.attr
  /\ pc = "idle" /\ loc = NoText

-----------------------------------------------------------------------------
(* To the statement at label, at character j of the text. *)
Goto(label, j) == pc' = label /\ loc' = [loc EXCEPT !.i = j]

Stay(label) == Goto(label, loc.i)
NextChar    == Goto("next", loc.i + 1)

Call ==
  /\ pc = "idle"
  /\ \E msg \in Texts : loc' = [msg |-> msg, i |-> 1, from |-> Now]
  /\ pc' = "next"
  /\ UNCHANGED <<video, kX, kY, kAttr>>

AtEnd == loc.i > Len(loc.msg)
At(c) == pc = "next" /\ ~AtEnd /\ loc.msg[loc.i] = c

(* The text and the screen before it are forgotten. *)
Leave ==
  /\ pc = "next" /\ AtEnd
  /\ pc' = "idle" /\ loc' = NoText
  /\ UNCHANGED <<video, kX, kY, kAttr>>

-----------------------------------------------------------------------------
(* operator(): one character after the other. *)

DoTab ==
  /\ At(Tab)
  /\ kX' = kX + 4
  /\ UNCHANGED <<video, kY, kAttr>>
  /\ Stay("wrap")

DoReturn ==
  /\ At(Newline) \/ At(Return)
  /\ kX' = 0
  /\ UNCHANGED <<video, kY, kAttr>>
  /\ Stay(IF At(Newline) THEN "newline" ELSE "wrap")

(* ++kY, for a newline and for a full line. *)
Down ==
  /\ pc \in {"newline", "down"}
  /\ kY' = kY + 1
  /\ UNCHANGED <<video, kX, kAttr>>
  /\ Stay(IF pc = "newline" THEN "wrap" ELSE "bottom")

(* An escape at the end of the text has no character to take. *)
DoEscape ==
  /\ At(Esc) /\ loc.i < Len(loc.msg)
  /\ kAttr' = Colour[loc.msg[loc.i + 1]]
  /\ UNCHANGED <<video, kX, kY>>
  /\ Goto("wrap", loc.i + 1)

Ignore ==
  /\ \E c \in Controls \ {Tab, Newline, Return} : At(c) /\ (c = Esc => loc.i = Len(loc.msg))
  /\ UNCHANGED <<video, kX, kY, kAttr>>
  /\ Stay("wrap")

(* Where a character goes; what is written outside of the screen is not    *)
(* seen.                                                                   *)
Address(x, y) == x + y * Cols

PutChar ==
  /\ \E c \in Glyphs : At(c)
  /\ video' = [video EXCEPT ![Address(kX, kY)].c = loc.msg[loc.i]]
  /\ UNCHANGED <<kX, kY, kAttr>>
  /\ Stay("attr")

PutAttr ==
  /\ pc = "attr"
  /\ video' = [video EXCEPT ![Address(kX, kY)].a = kAttr]
  /\ UNCHANGED <<kX, kY, kAttr>>
  /\ Stay("right")

Right ==
  /\ pc = "right"
  /\ kX' = kX + 1
  /\ UNCHANGED <<video, kY, kAttr>>
  /\ Stay("wrap")

(* The test for a full line, one column late. *)
WrapLate ==
  /\ pc = "wrap"
  /\ UNCHANGED <<video, kY, kAttr>>
  /\ IF kX > Cols THEN kX' = 0 /\ Stay("down") ELSE UNCHANGED kX /\ Stay("bottom")

Wrap ==
  /\ pc = "wrap"
  /\ UNCHANGED <<video, kY, kAttr>>
  /\ IF kX >= Cols THEN kX' = 0 /\ Stay("down") ELSE UNCHANGED kX /\ Stay("bottom")

(* The test for a full screen, one line late. *)
BottomLate ==
  /\ pc = "bottom"
  /\ UNCHANGED <<video, kX, kY, kAttr>>
  /\ IF kY > Rows THEN Stay("scroll") ELSE NextChar

Bottom ==
  /\ pc = "bottom"
  /\ UNCHANGED <<video, kX, kY, kAttr>>
  /\ IF kY >= Rows THEN Stay("scroll") ELSE NextChar

-----------------------------------------------------------------------------
(* scroll(1): memcpy of all lines but the first to the line before, memset *)
(* of the last, --kY.                                                      *)

Scroll ==
  /\ pc = "scroll"
  /\ UNCHANGED <<kX, kY, kAttr>>
  /\ IF kY > 0
     THEN /\ video' = [a \in Cells |-> IF a + Cols \in Cells THEN video[a + Cols] ELSE video[a]]
          /\ Stay("clear")
     ELSE UNCHANGED video /\ NextChar

(* A memset of the first line. *)
ClearFirst ==
  /\ pc = "clear"
  /\ video' = [a \in Cells |-> IF a < Cols THEN Blank ELSE video[a]]
  /\ UNCHANGED <<kX, kY, kAttr>>
  /\ Stay("up")

Clear ==
  /\ pc = "clear"
  /\ video' = [a \in Cells |-> IF a + Cols \in Cells THEN video[a] ELSE Blank]
  /\ UNCHANGED <<kX, kY, kAttr>>
  /\ Stay("up")

Up ==
  /\ pc = "up"
  /\ kY' = kY - 1
  /\ UNCHANGED <<video, kX, kAttr>>
  /\ NextChar

Step ==
  \/ Leave \/ DoTab \/ DoReturn \/ Down \/ DoEscape \/ Ignore
  \/ PutChar \/ PutAttr \/ Right \/ Wrap \/ Bottom
  \/ Scroll \/ Clear \/ Up

Next == Call \/ Step

Spec == Init /\ [][Next]_vars
=============================================================================
