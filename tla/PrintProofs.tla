----------------------------- MODULE PrintProofs -----------------------------
(***************************************************************************)
(* kprint's cursor, and what it prints against a terminal, for every size  *)
(* of the screen and every text.                                           *)
(***************************************************************************)
EXTENDS PrintProperties, SequenceTheorems, WellFoundedInduction, TLAPS

(* The inductive invariant: where the cursor may be at each statement.     *)
Within(at, x, y) ==
  /\ x < Cols \/ (at = "wrap" /\ y < Rows)
  /\ y < Rows \/ at \in {"wrap", "bottom", "scroll", "clear", "up"}
  /\ at \in {"scroll", "clear", "up"} => y = Rows

Inv == TypeOK /\ Within(pc, kX, kY)

Rec == [msg : Seq(Char), i : Nat, from : Screens]

-----------------------------------------------------------------------------
(* Typed reading of the state. *)
LEMMA Values ==
  ASSUME TypeOK
  PROVE  /\ video \in [Cells -> Cell] /\ kAttr \in Attrs /\ pc \in Labels
         /\ kX \in Nat /\ kX <= Cols + 3 /\ kY \in Nat /\ kY <= Rows
         /\ loc.i \in Nat /\ loc.msg \in Seq(Char)
BY Screen DEF TypeOK, Now, Screens

(* What Goto leaves. *)
LEMMA Goes ==
  ASSUME TypeOK, NEW to \in Labels, NEW j \in Nat, Goto(to, j)
  PROVE  /\ pc' = to /\ loc' \in Rec
         /\ loc'.i = j /\ loc'.msg = loc.msg /\ loc'.from = loc.from
BY DEF TypeOK, Goto, Rec

(* A statement that goes on at label to, with the cursor within bounds. *)
LEMMA Advances ==
  ASSUME TypeOK, NEW to \in Labels, NEW j \in Nat, Goto(to, j),
         kX' \in Nat, kX' <= Cols + 3, kY' \in Nat, kY' <= Rows, Within(to, kX', kY'),
         video' \in [Cells -> Cell], kAttr' \in Attrs
  PROVE  Inv'
<1>1. Now' \in Screens
  BY Screen DEF Now, Screens
<1> QED BY <1>1, Goes DEF Inv, TypeOK, Rec

(* What is drawn are cells; colours are attributes. *)
LEMMA Drawn ==
  ASSUME TypeOK, Step
  PROVE  video' \in [Cells -> Cell] /\ kAttr' \in Attrs
<1>1. video \in [Cells -> Cell] /\ kAttr \in Attrs /\ loc.msg \in Seq(Char) /\ loc.i \in Nat
  BY Values
<1>2. Blank \in Cell /\ \A a \in Cells : a \in Int
  BY DEF Blank, Cell, Zero, Cells
<1>3. CASE DoEscape
  <2>1. loc.i + 1 \in 1 .. Len(loc.msg)
    BY <1>1, <1>3 DEF DoEscape, At
  <2>2. loc.msg[loc.i + 1] \in Char
    BY <1>1, <2>1
  <2> QED BY <1>1, <1>3, <2>2, Text DEF DoEscape
<1>4. CASE PutChar
  <2>1. loc.msg[loc.i] \in Char
    BY <1>4 DEF PutChar, At, Char
  <2>2. video' = [video EXCEPT ![Address(kX, kY)].c = loc.msg[loc.i]] /\ kAttr' = kAttr
    BY <1>4 DEF PutChar
  <2>3. [video EXCEPT ![Address(kX, kY)].c = loc.msg[loc.i]] \in [Cells -> Cell]
    BY <1>1, <2>1 DEF Cell
  <2> QED BY <1>1, <2>2, <2>3
<1>5. CASE PutAttr
  BY <1>1, <1>5 DEF PutAttr, Cell
<1>6. CASE Scroll
  BY <1>1, <1>2, <1>6 DEF Scroll
<1>7. CASE Clear
  BY <1>1, <1>2, <1>7 DEF Clear
<1>8. CASE Leave \/ DoTab \/ DoReturn \/ Down \/ Ignore \/ Right \/ Wrap \/ Bottom \/ Up
  BY <1>1, <1>8 DEF Leave, DoTab, DoReturn, Down, Ignore, Right, Wrap, Bottom, Up
<1> QED BY <1>3, <1>4, <1>5, <1>6, <1>7, <1>8 DEF Step

-----------------------------------------------------------------------------
(* No text, and the screen of a machine that boots, are of their types. *)
LEMMA Booted == NoText \in Rec /\ Boot \in Screens
<1>1. [a \in Cells |-> Blank] \in [Cells -> Cell]
  BY DEF Blank, Cell, Zero
<1>2. Boot \in Screens
  BY <1>1, Screen, Text DEF Boot, Screens
<1> QED BY <1>2 DEF NoText, Rec

LEMMA CallWithin ==
  ASSUME Inv, Call
  PROVE  Inv'
<1>1. Now \in Screens /\ Now' = Now /\ kX' = kX /\ kY' = kY /\ pc = "idle" /\ pc' = "next"
  BY DEF Inv, TypeOK, Call, Now
<1>2. loc' \in Rec
  BY <1>1, Text DEF Call, Rec
<1>3. Within(pc', kX', kY')
  BY <1>1 DEF Inv, Within
<1> QED BY <1>1, <1>2, <1>3 DEF Inv, TypeOK, Rec, Labels

LEMMA LeaveWithin ==
  ASSUME Inv, Leave
  PROVE  Inv'
<1>1. Now \in Screens /\ Now' = Now /\ kX' = kX /\ kY' = kY /\ pc = "next" /\ pc' = "idle"
  BY DEF Inv, TypeOK, Leave, Now
<1>2. loc' \in Rec
  BY Booted DEF Leave
<1>3. Within(pc', kX', kY')
  BY <1>1 DEF Inv, Within
<1> QED BY <1>1, <1>2, <1>3 DEF Inv, TypeOK, Rec, Labels

LEMMA StepWithin ==
  ASSUME Inv, Step
  PROVE  Inv'
<1> DEFINE i == loc.i
<1>1. TypeOK /\ Within(pc, kX, kY) /\ i \in Nat /\ i + 1 \in Nat /\ i + 1 + 1 \in Nat
  BY Values DEF Inv
<1>2. kX \in Nat /\ kX <= Cols + 3 /\ kY \in Nat /\ kY <= Rows
  BY <1>1, Values
<1>3. video' \in [Cells -> Cell] /\ kAttr' \in Attrs
  BY <1>1, Drawn
<1>4. {"next", "newline", "attr", "right", "wrap", "down", "bottom", "scroll", "clear", "up"}
        \subseteq Labels
  BY DEF Labels
<1> HIDE DEF i
<1>5. CASE Leave
  BY <1>5, LeaveWithin
<1>6. CASE DoTab
  <2>1. pc = "next" /\ Goto("wrap", i) /\ kX' = kX + 4 /\ kY' = kY
    BY <1>6 DEF DoTab, At, Stay, i
  <2>2. kX < Cols /\ kY < Rows
    BY <1>1, <2>1 DEF Within
  <2>3. Within("wrap", kX', kY')
    BY <2>1, <2>2 DEF Within
  <2> QED BY <1>1, <1>2, <1>3, <1>4, <2>1, <2>2, <2>3, Advances, Screen
<1>7. CASE DoReturn
  <2>1. PICK to \in {"newline", "wrap"} : Goto(to, i)
    BY <1>7 DEF DoReturn, Stay, i
  <2>2. pc = "next" /\ kX' = 0 /\ kY' = kY
    BY <1>7 DEF DoReturn, At
  <2>3. kY < Rows
    BY <1>1, <2>2 DEF Within
  <2>4. Within(to, kX', kY')
    BY <2>1, <2>2, <2>3, Screen DEF Within
  <2> QED BY <1>1, <1>2, <1>3, <1>4, <2>1, <2>2, <2>4, Advances, Screen
<1>8. CASE Down
  <2>1. PICK to \in {"wrap", "bottom"} : Goto(to, i)
    BY <1>8 DEF Down, Stay, i
  <2>2. pc \in {"newline", "down"} /\ kX' = kX /\ kY' = kY + 1
    BY <1>8 DEF Down
  <2>3. kX < Cols /\ kY < Rows
    BY <1>1, <2>2 DEF Within
  <2>4. Within(to, kX', kY')
    BY <2>1, <2>2, <2>3 DEF Within
  <2> QED BY <1>1, <1>2, <1>3, <1>4, <2>1, <2>2, <2>3, <2>4, Advances, Screen
<1>9. CASE DoEscape \/ Ignore
  <2>1. PICK j \in {i, i + 1} : Goto("wrap", j)
    BY <1>9 DEF DoEscape, Ignore, Stay, i
  <2>2. pc = "next" /\ kX' = kX /\ kY' = kY
    BY <1>9 DEF DoEscape, Ignore, At
  <2>3. Within("wrap", kX', kY')
    BY <1>1, <2>2 DEF Within
  <2> QED BY <1>1, <1>2, <1>3, <1>4, <2>1, <2>2, <2>3, Advances
<1>10. CASE PutChar \/ PutAttr
  <2>1. PICK to \in {"attr", "right"} : Goto(to, i)
    BY <1>10 DEF PutChar, PutAttr, Stay, i
  <2>2. pc \in {"next", "attr"} /\ kX' = kX /\ kY' = kY
    BY <1>10 DEF PutChar, PutAttr, At
  <2>3. Within(to, kX', kY')
    BY <1>1, <2>1, <2>2 DEF Within
  <2> QED BY <1>1, <1>2, <1>3, <1>4, <2>1, <2>2, <2>3, Advances
<1>11. CASE Right
  <2>1. pc = "right" /\ Goto("wrap", i) /\ kX' = kX + 1 /\ kY' = kY
    BY <1>11 DEF Right, Stay, i
  <2>2. kX < Cols /\ kY < Rows
    BY <1>1, <2>1 DEF Within
  <2>3. Within("wrap", kX', kY')
    BY <2>1, <2>2 DEF Within
  <2> QED BY <1>1, <1>2, <1>3, <1>4, <2>1, <2>2, <2>3, Advances, Screen
<1>12. CASE Wrap
  <2>1. pc = "wrap" /\ kY' = kY
    BY <1>12 DEF Wrap
  <2>2. IF kX >= Cols THEN kX' = 0 /\ Goto("down", i) ELSE kX' = kX /\ Goto("bottom", i)
    BY <1>12 DEF Wrap, Stay, i
  <2>3. CASE kX >= Cols
    <3>1. Within("down", kX', kY')
      BY <1>1, <1>2, <2>1, <2>2, <2>3, Screen DEF Within
    <3> QED BY <1>1, <1>2, <1>3, <1>4, <2>1, <2>2, <2>3, <3>1, Advances, Screen
  <2>4. CASE ~(kX >= Cols)
    <3>1. Within("bottom", kX', kY')
      BY <1>2, <2>1, <2>2, <2>4, Screen DEF Within
    <3> QED BY <1>1, <1>2, <1>3, <1>4, <2>1, <2>2, <2>4, <3>1, Advances
  <2> QED BY <2>3, <2>4
<1>13. CASE Bottom
  <2>1. pc = "bottom" /\ kX' = kX /\ kY' = kY
    BY <1>13 DEF Bottom
  <2>2. IF kY >= Rows THEN Goto("scroll", i) ELSE Goto("next", i + 1)
    BY <1>13 DEF Bottom, Stay, NextChar, i
  <2>3. kX < Cols
    BY <1>1, <2>1 DEF Within
  <2>4. CASE kY >= Rows
    <3>1. Within("scroll", kX', kY')
      BY <1>2, <2>1, <2>3, <2>4, Screen DEF Within
    <3> QED BY <1>1, <1>2, <1>3, <1>4, <2>1, <2>2, <2>4, <3>1, Advances
  <2>5. CASE ~(kY >= Rows)
    <3>1. Within("next", kX', kY')
      BY <1>2, <2>1, <2>3, <2>5, Screen DEF Within
    <3> QED BY <1>1, <1>2, <1>3, <1>4, <2>1, <2>2, <2>5, <3>1, Advances
  <2> QED BY <2>4, <2>5
<1>14. CASE Scroll
  <2>1. pc = "scroll" /\ kX' = kX /\ kY' = kY
    BY <1>14 DEF Scroll
  <2>2. kX < Cols /\ kY = Rows
    BY <1>1, <2>1 DEF Within
  <2>3. Goto("clear", i)
    BY <1>14, <2>2, Screen DEF Scroll, Stay, i
  <2>4. Within("clear", kX', kY')
    BY <2>1, <2>2 DEF Within
  <2> QED BY <1>1, <1>2, <1>3, <1>4, <2>1, <2>3, <2>4, Advances
<1>15. CASE Clear
  <2>1. pc = "clear" /\ Goto("up", i) /\ kX' = kX /\ kY' = kY
    BY <1>15 DEF Clear, Stay, i
  <2>2. Within("up", kX', kY')
    BY <1>1, <2>1 DEF Within
  <2> QED BY <1>1, <1>2, <1>3, <1>4, <2>1, <2>2, Advances
<1>16. CASE Up
  <2>1. pc = "up" /\ Goto("next", i + 1) /\ kX' = kX /\ kY' = kY - 1
    BY <1>16 DEF Up, NextChar, i
  <2>2. kX < Cols /\ kY = Rows
    BY <1>1, <2>1 DEF Within
  <2>3. kY' \in Nat /\ kY' < Rows
    BY <2>1, <2>2, Screen
  <2>4. Within("next", kX', kY')
    BY <2>1, <2>2, <2>3 DEF Within
  <2> QED BY <1>1, <1>2, <1>3, <1>4, <2>1, <2>3, <2>4, Advances, Screen
<1> QED BY <1>5, <1>6, <1>7, <1>8, <1>9, <1>10, <1>11, <1>12, <1>13, <1>14, <1>15, <1>16 DEF Step

LEMMA InvHolds == Spec => []Inv
<1>1. Init => Inv
  <2> SUFFICES ASSUME Init PROVE Inv
    OBVIOUS
  <2>1. Now \in Screens /\ loc \in Rec
    BY Booted DEF Init, Now, Boot
  <2>2. TypeOK
    BY <2>1 DEF Init, TypeOK, Rec, Labels
  <2>3. pc = "idle" /\ kX = 0 /\ kY = 0
    BY DEF Init, Boot
  <2> QED BY <2>2, <2>3, Screen DEF Inv, Within
<1>2. Inv /\ [Next]_vars => Inv'
  <2> SUFFICES ASSUME Inv, [Next]_vars PROVE Inv'
    OBVIOUS
  <2>1. CASE UNCHANGED vars
    BY <2>1 DEF vars, Inv, TypeOK, Now
  <2> QED BY <2>1, CallWithin, StepWithin DEF Next
<1> QED BY <1>1, <1>2, PTL DEF Spec

(* In every state the cursor and the attribute are of their types, the     *)
(* cursor at most three columns and one line off the screen: all of        *)
(* operator() and scroll().                                                *)
THEOREM CursorTyped == Spec => []TypeOK
BY InvHolds, PTL DEF Inv

(* The cursor is on the screen when nobody prints and when a character or  *)
(* an attribute is written: operator() checks it after each move, and in   *)
(* time, for every size of the screen and every text.                      *)
THEOREM CursorStays == Spec => []CursorOnScreen
<1>1. Inv => CursorOnScreen
  BY DEF Inv, Within, CursorOnScreen, At
<1> QED BY <1>1, InvHolds, PTL

-----------------------------------------------------------------------------
(* A print is a terminal's. *)

(* Induction, for a set. *)
LEMMA Induct ==
  ASSUME NEW S, 0 \in S, \A n \in Nat : n \in S => n + 1 \in S
  PROVE  Nat \subseteq S
<1> SUFFICES ASSUME Nat \ S # {} PROVE FALSE
  OBVIOUS
<1>1. PICK x \in Nat \ S : \A y \in Nat \ S : <<y, x>> \notin OpToRel(<, Nat)
  BY NatLessThanWellFounded, WFMin
<1>2. \A y \in Nat \ S : <<y, x>> \in OpToRel(<, Nat) <=> y < x
  BY DEF OpToRel
<1>3. \A y \in Nat \ S : ~(y < x)
  BY <1>1, <1>2, Zenon
<1> QED BY <1>3, x - 1 \in Nat

(* f is the reference's pages, from g, as it is typed the first k          *)
(* characters of msg.                                                      *)
Feeds(f, g, msg, k) == f = [j \in 0 .. k |-> IF j = 0 THEN g ELSE Feed(f[j - 1], msg[j])]

Pages(g, msg) == CHOOSE f : Feeds(f, g, msg, Len(msg))

(* The recursive function of Typed exists. *)
LEMMA FeedsExist ==
  ASSUME NEW g, NEW msg, NEW k \in Nat
  PROVE  \E f : Feeds(f, g, msg, k)
<1> DEFINE S == {m \in Nat : \E f : Feeds(f, g, msg, m)}
<1>1. 0 \in S
  <2> DEFINE f == [j \in 0 .. 0 |-> g]
  <2>1. Feeds(f, g, msg, 0)
    BY DEF Feeds
  <2> QED BY <2>1
<1>2. ASSUME NEW m \in Nat, m \in S PROVE m + 1 \in S
  <2>1. PICK f : Feeds(f, g, msg, m)
    BY <1>2
  <2> DEFINE h == [j \in 0 .. m + 1 |-> IF j = m + 1 THEN Feed(f[m], msg[m + 1]) ELSE f[j]]
  <2>2. \A j \in 0 .. m : f[j] = IF j = 0 THEN g ELSE Feed(f[j - 1], msg[j])
    BY <2>1 DEF Feeds
  <2>3. h = [j \in 0 .. m + 1 |-> IF j = 0 THEN g ELSE Feed(h[j - 1], msg[j])]
    BY <2>2
  <2>4. Feeds(h, g, msg, m + 1)
    BY <2>3 DEF Feeds
  <2> QED BY <2>4
<1> HIDE DEF S
<1>3. Nat \subseteq S
  BY <1>1, <1>2, Induct
<1> QED BY <1>3 DEF S

LEMMA TypedPages ==
  ASSUME NEW g, NEW msg, Len(msg) \in Nat
  PROVE  /\ Pages(g, msg)[0] = g
         /\ \A j \in 1 .. Len(msg) : Pages(g, msg)[j] = Feed(Pages(g, msg)[j - 1], msg[j])
         /\ Typed(g, msg) = [Pages(g, msg)[Len(msg)] EXCEPT !.mode = "text"]
<1>1. Feeds(Pages(g, msg), g, msg, Len(msg))
  BY FeedsExist DEF Pages
<1>2. Typed(g, msg) = [Pages(g, msg)[Len(msg)] EXCEPT !.mode = "text"]
  BY DEF Typed, Pages, Feeds
<1>3. \A j \in 0 .. Len(msg) :
        Pages(g, msg)[j] = IF j = 0 THEN g ELSE Feed(Pages(g, msg)[j - 1], msg[j])
  BY <1>1 DEF Feeds
<1> QED BY <1>2, <1>3

(* Lines follow each other in the memory of the screen. *)
LEMMA LinesApart ==
  ASSUME NEW a \in Nat, NEW b \in Nat, a < b
  PROVE  a * Cols + Cols <= b * Cols /\ a * Cols \in Nat /\ b * Cols \in Nat
<1>1. PICK d \in Nat : b = a + 1 + d
  <2>1. b - a - 1 \in Nat /\ b = a + 1 + (b - a - 1)
    OBVIOUS
  <2> QED BY <2>1
<1>2. b * Cols = a * Cols + Cols + d * Cols
  BY <1>1, Screen
<1>3. a * Cols \in Nat /\ b * Cols \in Nat /\ d * Cols \in Nat /\ Cols \in Nat
  BY Screen
<1> QED BY <1>2, <1>3

LEMMA Places ==
  ASSUME NEW x \in 0 .. Cols - 1, NEW y \in 0 .. Rows - 1
  PROVE  /\ Address(x, y) \in Cells
         /\ Address(x, y) + Cols = Address(x, y + 1)
         /\ Address(x, y) + Cols \in Cells <=> y + 1 \in 0 .. Rows - 1
<1>1. x \in Nat /\ y \in Nat /\ Cols \in Nat /\ Rows \in Nat /\ x < Cols /\ y < Rows /\ y * Cols \in Nat
  BY Screen
<1>2. y * Cols + Cols <= Rows * Cols /\ Rows * Cols \in Nat
  BY <1>1, LinesApart
<1>3. (y + 1) * Cols = y * Cols + Cols
  BY <1>1
<1>4. Address(x, y) \in Cells /\ Address(x, y) + Cols = Address(x, y + 1)
  BY <1>1, <1>2, <1>3 DEF Address, Cells
<1>5. CASE y + 1 < Rows
  <2>1. (y + 1) * Cols + Cols <= Rows * Cols
    BY <1>1, <1>5, LinesApart
  <2>2. x + (y * Cols + Cols) \in 0 .. Rows * Cols - 1
    BY <1>1, <1>2, <1>3, <2>1
  <2>3. Address(x, y) + Cols \in Cells
    BY <1>1, <2>2 DEF Address, Cells
  <2> QED BY <1>1, <1>4, <1>5, <2>3
<1>6. CASE ~(y + 1 < Rows)
  <2>1. Rows = y + 1
    BY <1>1, <1>6
  <2>2. Rows * Cols = y * Cols + Cols
    BY <1>3, <2>1
  <2>3. x + y * Cols + Cols \notin 0 .. Rows * Cols - 1
    BY <1>1, <2>2
  <2>4. Address(x, y) + Cols \notin Cells
    BY <2>3 DEF Address, Cells
  <2> QED BY <1>1, <1>4, <1>6, <2>4
<1> QED BY <1>5, <1>6

(* A cell of the screen is one cell of one line. *)
LEMMA PlaceIsOne ==
  ASSUME NEW x \in 0 .. Cols - 1, NEW y \in 0 .. Rows - 1,
         NEW u \in 0 .. Cols - 1, NEW v \in 0 .. Rows - 1, Address(x, y) = Address(u, v)
  PROVE  x = u /\ y = v
<1>1. /\ x \in Nat /\ y \in Nat /\ u \in Nat /\ v \in Nat /\ x < Cols /\ u < Cols /\ Cols \in Nat
      /\ y * Cols \in Nat /\ v * Cols \in Nat
  BY Screen
<1>2. x + y * Cols = u + v * Cols
  BY DEF Address
<1>3. ~(y < v)
  <2>1. y < v => y * Cols + Cols <= v * Cols
    BY <1>1, LinesApart
  <2> QED BY <1>1, <1>2, <2>1
<1>4. ~(v < y)
  <2>1. v < y => v * Cols + Cols <= y * Cols
    BY <1>1, LinesApart
  <2> QED BY <1>1, <1>2, <2>1
<1>5. y = v
  BY <1>1, <1>3, <1>4
<1> QED BY <1>1, <1>2, <1>5

(* The screen as a page of lines. *)
LinesOf(v) == [y \in 1 .. Rows |-> [x \in 0 .. Cols - 1 |-> v[Address(x, y - 1)]]]

StoreChar(v, x, y, c) == [v EXCEPT ![Address(x, y)].c = c]
StoreAttr(v, x, y, a) == [v EXCEPT ![Address(x, y)].a = a]
WithChar(l, x, y, c) == [l EXCEPT ![y + 1][x].c = c]
WithAttr(l, x, y, a) == [l EXCEPT ![y + 1][x].a = a]

(* What is stored into a cell is stored into the page. *)
LEMMA CharStored ==
  ASSUME NEW v \in [Cells -> Cell], NEW x \in 0 .. Cols - 1, NEW y \in 0 .. Rows - 1, NEW c
  PROVE  LinesOf(StoreChar(v, x, y, c)) = WithChar(LinesOf(v), x, y, c)
<1> DEFINE w == [v EXCEPT ![Address(x, y)].c = c]
<1>1. Address(x, y) \in Cells
  BY Places
<1>2. ASSUME NEW j \in 1 .. Rows, NEW k \in 0 .. Cols - 1
      PROVE  w[Address(k, j - 1)] = IF k = x /\ j = y + 1 THEN [v[Address(x, y)] EXCEPT !.c = c]
                                    ELSE v[Address(k, j - 1)]
  <2>1. j - 1 \in 0 .. Rows - 1
    BY Screen
  <2>2. Address(k, j - 1) \in Cells
    BY <2>1, Places
  <2>3. Address(k, j - 1) = Address(x, y) <=> k = x /\ j = y + 1
    <3>1. j - 1 = y <=> j = y + 1
      BY Screen
    <3> QED BY <2>1, <3>1, PlaceIsOne
  <2> QED BY <1>1, <2>2, <2>3
<1> HIDE DEF w
<1>3. y + 1 \in 1 .. Rows /\ y + 1 - 1 = y
  BY Screen
<1>4. LinesOf(v)[y + 1][x] = v[Address(x, y)]
  BY <1>3 DEF LinesOf
<1> DEFINE l == LinesOf(v)
           e == [l[y + 1][x] EXCEPT !.c = c]
<1>5. l = [j \in 1 .. Rows |-> l[j]]
      /\ \A j \in 1 .. Rows : l[j] = [q \in 0 .. Cols - 1 |-> v[Address(q, j - 1)]]
  BY DEF LinesOf
<1>6. WithChar(l, x, y, c) = [j \in 1 .. Rows |-> IF j = y + 1 THEN [l[j] EXCEPT ![x] = e] ELSE l[j]]
  <2> HIDE DEF l
  <2> QED BY <1>3, <1>5 DEF WithChar
<1>7. ASSUME NEW j \in 1 .. Rows
      PROVE  [q \in 0 .. Cols - 1 |-> w[Address(q, j - 1)]] = IF j = y + 1 THEN [l[j] EXCEPT ![x] = e] ELSE l[j]
  <2>1. CASE j = y + 1
    <3>1. \A q \in 0 .. Cols - 1 : w[Address(q, j - 1)] = IF q = x THEN e ELSE v[Address(q, j - 1)]
      BY <1>2, <1>4, <2>1
    <3> HIDE DEF l, e
    <3>2. [l[j] EXCEPT ![x] = e] = [q \in 0 .. Cols - 1 |-> IF q = x THEN e ELSE v[Address(q, j - 1)]]
      BY <1>5
    <3>3. [q \in 0 .. Cols - 1 |-> w[Address(q, j - 1)]]
            = [q \in 0 .. Cols - 1 |-> IF q = x THEN e ELSE v[Address(q, j - 1)]]
      BY <3>1
    <3> QED BY <2>1, <3>2, <3>3
  <2>2. CASE j # y + 1
    <3> HIDE DEF l, e
    <3> QED BY <1>2, <1>5, <2>2
  <2> QED BY <2>1, <2>2
<1> HIDE DEF l, e
<1>8. LinesOf(w) = WithChar(l, x, y, c)
  BY <1>6, <1>7 DEF LinesOf
<1> QED BY <1>8 DEF StoreChar, w, l

LEMMA AttrStored ==
  ASSUME NEW v \in [Cells -> Cell], NEW x \in 0 .. Cols - 1, NEW y \in 0 .. Rows - 1, NEW a
  PROVE  LinesOf(StoreAttr(v, x, y, a)) = WithAttr(LinesOf(v), x, y, a)
<1> DEFINE w == [v EXCEPT ![Address(x, y)].a = a]
<1>1. Address(x, y) \in Cells
  BY Places
<1>2. ASSUME NEW j \in 1 .. Rows, NEW k \in 0 .. Cols - 1
      PROVE  w[Address(k, j - 1)] = IF k = x /\ j = y + 1 THEN [v[Address(x, y)] EXCEPT !.a = a]
                                    ELSE v[Address(k, j - 1)]
  <2>1. j - 1 \in 0 .. Rows - 1
    BY Screen
  <2>2. Address(k, j - 1) \in Cells
    BY <2>1, Places
  <2>3. Address(k, j - 1) = Address(x, y) <=> k = x /\ j = y + 1
    <3>1. j - 1 = y <=> j = y + 1
      BY Screen
    <3> QED BY <2>1, <3>1, PlaceIsOne
  <2> QED BY <1>1, <2>2, <2>3
<1> HIDE DEF w
<1>3. y + 1 \in 1 .. Rows /\ y + 1 - 1 = y
  BY Screen
<1>4. LinesOf(v)[y + 1][x] = v[Address(x, y)]
  BY <1>3 DEF LinesOf
<1> DEFINE l == LinesOf(v)
           e == [l[y + 1][x] EXCEPT !.a = a]
<1>5. l = [j \in 1 .. Rows |-> l[j]]
      /\ \A j \in 1 .. Rows : l[j] = [q \in 0 .. Cols - 1 |-> v[Address(q, j - 1)]]
  BY DEF LinesOf
<1>6. WithAttr(l, x, y, a) = [j \in 1 .. Rows |-> IF j = y + 1 THEN [l[j] EXCEPT ![x] = e] ELSE l[j]]
  <2> HIDE DEF l
  <2> QED BY <1>3, <1>5 DEF WithAttr
<1>7. ASSUME NEW j \in 1 .. Rows
      PROVE  [q \in 0 .. Cols - 1 |-> w[Address(q, j - 1)]] = IF j = y + 1 THEN [l[j] EXCEPT ![x] = e] ELSE l[j]
  <2>1. CASE j = y + 1
    <3>1. \A q \in 0 .. Cols - 1 : w[Address(q, j - 1)] = IF q = x THEN e ELSE v[Address(q, j - 1)]
      BY <1>2, <1>4, <2>1
    <3> HIDE DEF l, e
    <3>2. [l[j] EXCEPT ![x] = e] = [q \in 0 .. Cols - 1 |-> IF q = x THEN e ELSE v[Address(q, j - 1)]]
      BY <1>5
    <3>3. [q \in 0 .. Cols - 1 |-> w[Address(q, j - 1)]]
            = [q \in 0 .. Cols - 1 |-> IF q = x THEN e ELSE v[Address(q, j - 1)]]
      BY <3>1
    <3> QED BY <2>1, <3>2, <3>3
  <2>2. CASE j # y + 1
    <3> HIDE DEF l, e
    <3> QED BY <1>2, <1>5, <2>2
  <2> QED BY <2>1, <2>2
<1> HIDE DEF l, e
<1>8. LinesOf(w) = WithAttr(l, x, y, a)
  BY <1>6, <1>7 DEF LinesOf
<1> QED BY <1>8 DEF StoreAttr, w, l

(* The lines after memcpy, and after memset: one line up, and an empty one. *)
Copied(l)   == [y \in 1 .. Rows |-> IF y < Rows THEN l[y + 1] ELSE l[Rows]]
Cleared(l)  == [y \in 1 .. Rows |-> IF y < Rows THEN l[y] ELSE EmptyLine]
Scrolled(l) == [y \in 1 .. Rows |-> IF y < Rows THEN l[y + 1] ELSE EmptyLine]

LEMMA LinesCopied ==
  ASSUME NEW v,
         NEW w, w = [a \in Cells |-> IF a + Cols \in Cells THEN v[a + Cols] ELSE v[a]]
  PROVE  LinesOf(w) = Copied(LinesOf(v))
<1>1. ASSUME NEW j \in 1 .. Rows, NEW k \in 0 .. Cols - 1
      PROVE  w[Address(k, j - 1)] = IF j < Rows THEN v[Address(k, j)] ELSE v[Address(k, j - 1)]
  <2>1. j - 1 \in 0 .. Rows - 1 /\ j - 1 + 1 = j /\ (j \in 0 .. Rows - 1 <=> j < Rows)
    BY Screen
  <2>2. /\ Address(k, j - 1) \in Cells /\ Address(k, j - 1) + Cols = Address(k, j - 1 + 1)
        /\ Address(k, j - 1) + Cols \in Cells <=> j - 1 + 1 \in 0 .. Rows - 1
    BY <2>1, Places
  <2> QED BY <2>1, <2>2
<1>2. \A j \in 1 .. Rows : j < Rows => j + 1 \in 1 .. Rows /\ j + 1 - 1 = j
  BY Screen
<1>3. \A j \in 1 .. Rows : ~(j < Rows) => j = Rows
  BY Screen
<1>4. ASSUME NEW j \in 1 .. Rows
      PROVE  [k \in 0 .. Cols - 1 |-> w[Address(k, j - 1)]] = Copied(LinesOf(v))[j]
  <2>1. CASE j < Rows
    <3>1. LinesOf(v)[j + 1] = [k \in 0 .. Cols - 1 |-> v[Address(k, j)]]
      BY <1>2, <2>1 DEF LinesOf
    <3>2. Copied(LinesOf(v))[j] = LinesOf(v)[j + 1]
      BY <2>1 DEF Copied
    <3>3. \A k \in 0 .. Cols - 1 : w[Address(k, j - 1)] = v[Address(k, j)]
      BY <1>1, <2>1
    <3> QED BY <3>1, <3>2, <3>3
  <2>2. CASE ~(j < Rows)
    <3>1. LinesOf(v)[Rows] = [k \in 0 .. Cols - 1 |-> v[Address(k, j - 1)]]
      BY <1>3, <2>2 DEF LinesOf
    <3> QED BY <1>1, <2>2, <3>1 DEF Copied
  <2> QED BY <2>1, <2>2
<1> QED BY <1>4 DEF LinesOf, Copied

LEMMA LinesCleared ==
  ASSUME NEW v,
         NEW w, w = [a \in Cells |-> IF a + Cols \in Cells THEN v[a] ELSE Blank]
  PROVE  LinesOf(w) = Cleared(LinesOf(v))
<1>1. ASSUME NEW j \in 1 .. Rows, NEW k \in 0 .. Cols - 1
      PROVE  w[Address(k, j - 1)] = IF j < Rows THEN v[Address(k, j - 1)] ELSE Blank
  <2>1. j - 1 \in 0 .. Rows - 1 /\ j - 1 + 1 = j /\ (j \in 0 .. Rows - 1 <=> j < Rows)
    BY Screen
  <2>2. /\ Address(k, j - 1) \in Cells
        /\ Address(k, j - 1) + Cols \in Cells <=> j - 1 + 1 \in 0 .. Rows - 1
    BY <2>1, Places
  <2> QED BY <2>1, <2>2
<1>2. ASSUME NEW j \in 1 .. Rows
      PROVE  [k \in 0 .. Cols - 1 |-> w[Address(k, j - 1)]] = Cleared(LinesOf(v))[j]
  BY <1>1 DEF LinesOf, Cleared, EmptyLine
<1> QED BY <1>2 DEF LinesOf, Cleared

LEMMA CopiedCleared ==
  ASSUME NEW l
  PROVE  Cleared(Copied(l)) = Scrolled(l)
BY Screen DEF Cleared, Copied, Scrolled

(* What the reference does at the bottom. *)
LEMMA LinesUp ==
  ASSUME NEW l, l = [y \in 1 .. Rows |-> l[y]]
  PROVE  Append(Tail(l), EmptyLine) = Scrolled(l)
<1> DEFINE S == {l[y] : y \in 1 .. Rows} \cup {EmptyLine}
<1>1. l \in Seq(S) /\ Len(l) = Rows /\ l # <<>> /\ Rows \in Nat
  <2>1. Rows \in Nat /\ Rows >= 2 /\ l \in [1 .. Rows -> S]
    BY Screen
  <2>2. l \in Seq(S) /\ Len(l) = Rows
    BY <2>1, LenProperties DEF Seq
  <2> QED BY <2>1, <2>2
<1> QED BY <1>1, Screen DEF Scrolled

(* The reference's page, and what it is to become where the cursor is about *)
(* to be checked against the bottom, or against the end of the line.        *)
PageOf(l, x, y, a)  == [lines |-> l, x |-> x, y |-> y, attr |-> a, mode |-> "text"]
Escaped(l, x, y, a) == [lines |-> l, x |-> x, y |-> y, attr |-> a, mode |-> "escape"]

AtBottom(l, x, y, a) == IF y >= Rows THEN PageOf(Scrolled(l), x, y - 1, a) ELSE PageOf(l, x, y, a)

AtWrap(l, x, y, a) == IF x >= Cols THEN AtBottom(l, 0, y + 1, a) ELSE AtBottom(l, x, y, a)

IsLines(l) == l = [y \in 1 .. Rows |-> l[y]]

LEMMA PageIs == Page(Now) = PageOf(LinesOf(video), kX, kY, kAttr)
BY DEF Page, Now, PageOf, LinesOf, Address

LEMMA Parts ==
  ASSUME NEW l, NEW x, NEW y, NEW a
  PROVE  /\ PageOf(l, x, y, a).lines = l /\ PageOf(l, x, y, a).x = x /\ PageOf(l, x, y, a).y = y
         /\ PageOf(l, x, y, a).attr = a /\ PageOf(l, x, y, a).mode = "text"
         /\ Escaped(l, x, y, a).mode = "escape"
BY DEF PageOf, Escaped

LEMMA TwoChanges ==
  ASSUME NEW g, NEW u, NEW v
  PROVE  /\ [g EXCEPT !.x = u, !.y = v] = [[g EXCEPT !.x = u] EXCEPT !.y = v]
         /\ [g EXCEPT !.x = u, !.lines = v] = [[g EXCEPT !.x = u] EXCEPT !.lines = v]
         /\ [g EXCEPT !.mode = u, !.attr = v] = [[g EXCEPT !.mode = u] EXCEPT !.attr = v]
OBVIOUS

LEMMA Moves ==
  ASSUME NEW l, NEW x, NEW y, NEW a, NEW u
  PROVE  /\ [PageOf(l, x, y, a) EXCEPT !.x = u] = PageOf(l, u, y, a)
         /\ [PageOf(l, x, y, a) EXCEPT !.y = u] = PageOf(l, x, u, a)
         /\ [PageOf(l, x, y, a) EXCEPT !.attr = u] = PageOf(l, x, y, u)
         /\ [PageOf(l, x, y, a) EXCEPT !.lines = u] = PageOf(u, x, y, a)
BY DEF PageOf

LEMMA Modes ==
  ASSUME NEW l, NEW x, NEW y, NEW a
  PROVE  /\ [PageOf(l, x, y, a) EXCEPT !.mode = "escape"] = Escaped(l, x, y, a)
         /\ [PageOf(l, x, y, a) EXCEPT !.mode = "text"] = PageOf(l, x, y, a)
         /\ [Escaped(l, x, y, a) EXCEPT !.mode = "text"] = PageOf(l, x, y, a)
BY DEF PageOf, Escaped

LEMMA LineFeedIs ==
  ASSUME NEW l, IsLines(l), NEW x, NEW y \in Nat, y < Rows, NEW a
  PROVE  LineFeed(PageOf(l, x, y, a)) = AtBottom(l, 0, y + 1, a)
<1> DEFINE g == PageOf(l, x, y, a)
<1>1. g.lines = l /\ g.y = y
  BY Parts
<1>2. Append(Tail(l), EmptyLine) = Scrolled(l)
  BY LinesUp DEF IsLines
<1>3. /\ [g EXCEPT !.x = 0, !.y = y + 1] = PageOf(l, 0, y + 1, a)
      /\ [g EXCEPT !.x = 0, !.lines = Scrolled(l)] = PageOf(Scrolled(l), 0, y, a)
  <2>1. [g EXCEPT !.x = 0] = PageOf(l, 0, y, a)
    BY Moves
  <2>2. [PageOf(l, 0, y, a) EXCEPT !.y = y + 1] = PageOf(l, 0, y + 1, a)
    BY DEF PageOf
  <2>3. [PageOf(l, 0, y, a) EXCEPT !.lines = Scrolled(l)] = PageOf(Scrolled(l), 0, y, a)
    BY Moves
  <2> QED BY <2>1, <2>2, <2>3, TwoChanges
<1> HIDE DEF g
<1>4. LineFeed(g) = IF y < Rows - 1 THEN PageOf(l, 0, y + 1, a) ELSE PageOf(Scrolled(l), 0, y, a)
  BY <1>1, <1>2, <1>3 DEF LineFeed
<1>5. (y + 1 >= Rows <=> ~(y < Rows - 1)) /\ y + 1 - 1 = y
  BY Screen
<1>6. LineFeed(g) = AtBottom(l, 0, y + 1, a)
  BY <1>4, <1>5 DEF AtBottom
<1> QED BY <1>6 DEF g

LEMMA MoveToIs ==
  ASSUME NEW l, IsLines(l), NEW x, NEW y \in Nat, y < Rows, NEW a, NEW u \in Nat
  PROVE  MoveTo(PageOf(l, x, y, a), u) = AtWrap(l, u, y, a)
<1> DEFINE g == PageOf(l, x, y, a)
<1>1. [g EXCEPT !.x = u] = PageOf(l, u, y, a)
  BY Moves
<1>2. LineFeed(g) = AtBottom(l, 0, y + 1, a)
  BY LineFeedIs
<1> HIDE DEF g
<1>3. MoveTo(g, u) = IF u < Cols THEN PageOf(l, u, y, a) ELSE AtBottom(l, 0, y + 1, a)
  BY <1>1, <1>2 DEF MoveTo
<1>4. (u >= Cols <=> ~(u < Cols)) /\ ~(y >= Rows)
  BY Screen
<1>5. MoveTo(g, u) = AtWrap(l, u, y, a)
  BY <1>3, <1>4 DEF AtWrap, AtBottom
<1> QED BY <1>5 DEF g

Put(l, x, y, c, a) == [l EXCEPT ![y + 1][x] = [c |-> c, a |-> a]]

(* What each character does to the reference. *)
LEMMA TypeIs ==
  ASSUME NEW l, IsLines(l), NEW x \in 0 .. Cols - 1, NEW y \in 0 .. Rows - 1, NEW a, NEW c
  PROVE  /\ c = Esc => Feed(PageOf(l, x, y, a), c) = Escaped(l, x, y, a)
         /\ c = Newline => Feed(PageOf(l, x, y, a), c) = AtBottom(l, 0, y + 1, a)
         /\ c = Return => Feed(PageOf(l, x, y, a), c) = AtWrap(l, 0, y, a)
         /\ c = Tab => Feed(PageOf(l, x, y, a), c) = AtWrap(l, x + 4, y, a)
         /\ c \in Glyphs =>
              Feed(PageOf(l, x, y, a), c) = AtWrap(Put(l, x, y, c, a), x + 1, y, a)
         /\ c \in Controls \ {Esc, Newline, Return, Tab} => Feed(PageOf(l, x, y, a), c) = AtWrap(l, x, y, a)
<1> DEFINE g == PageOf(l, x, y, a)
           e == [c |-> c, a |-> a]
           m == [l EXCEPT ![y + 1][x] = e]
<1>1. g.lines = l /\ g.x = x /\ g.y = y /\ g.attr = a /\ g.mode = "text"
  BY Parts
<1>2. /\ x \in Nat /\ y \in Nat /\ y < Rows /\ x + 4 \in Nat /\ x + 1 \in Nat
      /\ ~(x >= Cols) /\ ~(y >= Rows) /\ ~(0 >= Cols)
  BY Screen
<1>3. /\ [g EXCEPT !.mode = "escape"] = Escaped(l, x, y, a)
      /\ [g EXCEPT !.x = 0] = PageOf(l, 0, y, a)
      /\ [g EXCEPT !.lines[y + 1][x] = e] = PageOf(m, x, y, a)
  <2> HIDE DEF e
  <2>1. [g EXCEPT !.mode = "escape"] = Escaped(l, x, y, a)
    BY Modes
  <2>2. [g EXCEPT !.x = 0] = PageOf(l, 0, y, a)
    BY Moves
  <2>3. [g EXCEPT !.lines[y + 1][x] = e] = PageOf(m, x, y, a)
    BY DEF PageOf
  <2> QED BY <2>1, <2>2, <2>3
<1>4. LineFeed(g) = AtBottom(l, 0, y + 1, a) /\ MoveTo(g, x + 4) = AtWrap(l, x + 4, y, a)
  BY <1>2, LineFeedIs, MoveToIs
<1>5. MoveTo(PageOf(m, x, y, a), x + 1) = AtWrap(m, x + 1, y, a)
  <2>1. IsLines(m)
    BY DEF IsLines
  <2> HIDE DEF m
  <2> QED BY <1>2, <2>1, MoveToIs
<1>6. AtWrap(l, 0, y, a) = PageOf(l, 0, y, a) /\ AtWrap(l, x, y, a) = g
  BY <1>2 DEF AtWrap, AtBottom
<1>7. /\ Tab # Newline /\ Tab # Return /\ Tab # Esc /\ Newline # Return /\ Newline # Esc /\ Return # Esc
      /\ Tab \notin Glyphs /\ Newline \notin Glyphs /\ Return \notin Glyphs /\ Esc \notin Glyphs
      /\ c \in Controls => c \notin Glyphs
  BY Text DEF Tab, Newline, Return, Esc
<1> HIDE DEF g, m
<1>8. c \in Glyphs => [g EXCEPT !.lines[g.y + 1][g.x] = [c |-> c, a |-> g.attr]] = PageOf(m, x, y, a)
  BY <1>1, <1>3
<1> HIDE DEF e
<1>9. Feed(g, c) = Type(g, c)
  BY <1>1 DEF Feed
<1>10. /\ c = Esc => Type(g, c) = Escaped(l, x, y, a)
       /\ c = Newline => Type(g, c) = AtBottom(l, 0, y + 1, a)
       /\ c = Return => Type(g, c) = AtWrap(l, 0, y, a)
       /\ c = Tab => Type(g, c) = AtWrap(l, x + 4, y, a)
  BY <1>1, <1>3, <1>4, <1>6, <1>7 DEF Type
<1>11. c \in Glyphs => Type(g, c) = AtWrap(m, x + 1, y, a)
  BY <1>1, <1>5, <1>7, <1>8 DEF Type
<1>12. c \in Controls \ {Esc, Newline, Return, Tab} => Type(g, c) = AtWrap(l, x, y, a)
  BY <1>6, <1>7 DEF Type
<1> QED BY <1>9, <1>10, <1>11, <1>12 DEF g, m, e, Put

LEMMA ColourIs ==
  ASSUME NEW l, NEW x, NEW y, NEW a, NEW c
  PROVE  Feed(Escaped(l, x, y, a), c) = PageOf(l, x, y, Colour[c])
<1> DEFINE g == Escaped(l, x, y, a)
<1>1. g.mode = "escape"
  BY Parts
<1>2. [g EXCEPT !.mode = "text", !.attr = Colour[c]] = PageOf(l, x, y, Colour[c])
  <2>1. [g EXCEPT !.mode = "text"] = PageOf(l, x, y, a)
    BY Modes
  <2>2. [PageOf(l, x, y, a) EXCEPT !.attr = Colour[c]] = PageOf(l, x, y, Colour[c])
    BY Moves
  <2> QED BY <2>1, <2>2, TwoChanges
<1> HIDE DEF g
<1>3. Feed(g, c) = PageOf(l, x, y, Colour[c])
  BY <1>1, <1>2 DEF Feed
<1> QED BY <1>3 DEF g

-----------------------------------------------------------------------------
(* The page that the reference shows after a character of which the        *)
(* statement at label at comes next, from lines l, cursor x, y, colour a.  *)
Ahead(at, l, x, y, a) ==
  CASE at \in {"newline", "down"} -> AtBottom(l, x, y + 1, a)
    [] at = "attr"   -> AtWrap(WithAttr(l, x, y, a), x + 1, y, a)
    [] at = "right"  -> AtWrap(l, x + 1, y, a)
    [] at = "wrap"   -> AtWrap(l, x, y, a)
    [] at = "bottom" -> AtBottom(l, x, y, a)
    [] at = "scroll" -> PageOf(Scrolled(l), x, y - 1, a)
    [] at = "clear"  -> PageOf(Cleared(l), x, y - 1, a)
    [] at = "up"     -> PageOf(l, x, y - 1, a)
    [] OTHER         -> PageOf(l, x, y, a)

(* t[j] is g, or an escape of the last of n characters makes it g.         *)
Agrees(t, j, n, g) == [t[j] EXCEPT !.mode = "text"] = g /\ (j < n => t[j] = g)

(* The characters done. *)
Done == IF pc = "next" THEN loc.i - 1 ELSE loc.i

(* The inductive invariant of a print: the reference's page after the      *)
(* characters done is what the screen is about to be.                      *)
Shown ==
  /\ loc.i >= 1 /\ Done <= Len(loc.msg)
  /\ Agrees(Pages(Page(loc.from), loc.msg), Done, Len(loc.msg),
            Ahead(pc, LinesOf(video), kX, kY, kAttr))

Shows == pc # "idle" => Shown

(* A page that is not in an escape. *)
LEMMA AheadIsPlain ==
  ASSUME NEW at, NEW l, NEW x, NEW y, NEW a
  PROVE  [Ahead(at, l, x, y, a) EXCEPT !.mode = "text"] = Ahead(at, l, x, y, a)
<1> DEFINE Plain(g) == [g EXCEPT !.mode = "text"] = g
<1>1. ASSUME NEW m, NEW u, NEW v, NEW b PROVE Plain(PageOf(m, u, v, b))
  BY Modes
<1> HIDE DEF Plain
<1>2. ASSUME NEW m, NEW u, NEW v, NEW b PROVE Plain(AtBottom(m, u, v, b))
  BY <1>1 DEF AtBottom
<1>3. ASSUME NEW m, NEW u, NEW v, NEW b PROVE Plain(AtWrap(m, u, v, b))
  BY <1>2 DEF AtWrap
<1>4. Plain(Ahead(at, l, x, y, a))
  BY <1>1, <1>2, <1>3 DEF Ahead
<1> QED BY <1>4 DEF Plain

LEMMA LinesAre ==
  ASSUME NEW v
  PROVE  IsLines(LinesOf(v))
BY DEF IsLines, LinesOf

(* A statement that is not the first of a character. *)
LEMMA Keeps ==
  ASSUME Inv, NEW at \in Labels \ {"idle", "next"}, NEW to \in Labels \ {"idle"},
         NEW j \in Nat, pc = at, Shown, Goto(to, j), j = IF to = "next" THEN loc.i + 1 ELSE loc.i,
         Ahead(to, LinesOf(video'), kX', kY', kAttr') = Ahead(at, LinesOf(video), kX, kY, kAttr)
  PROVE  Shown'
<1>1. pc' = to /\ loc'.i = j /\ loc'.msg = loc.msg /\ loc'.from = loc.from
  BY Goes DEF Inv
<1>2. loc.i \in Nat
  BY Values DEF Inv
<1>3. Done' = Done /\ loc'.i >= 1
  BY <1>1, <1>2 DEF Done, Shown
<1> QED BY <1>1, <1>3 DEF Shown

(* The first statement of a character: k is the character it is at then.   *)
LEMMA Begins ==
  ASSUME Inv, NEW to \in Labels \ {"idle", "next"}, NEW k \in Nat \ {0},
         pc = "next", Goto(to, k), k <= Len(loc.msg),
         Agrees(Pages(Page(loc.from), loc.msg), k, Len(loc.msg),
                Ahead(to, LinesOf(video'), kX', kY', kAttr'))
  PROVE  Shown'
<1>1. pc' = to /\ loc'.i = k /\ loc'.msg = loc.msg /\ loc'.from = loc.from
  BY Goes DEF Inv
<1>2. Done' = k /\ loc'.i >= 1
  BY <1>1 DEF Done
<1> QED BY <1>1, <1>2 DEF Shown

(* What a print finds at a character of its text. *)
LEMMA Reads ==
  ASSUME Inv, pc = "next", ~AtEnd, Shown
  PROVE  /\ kX \in 0 .. Cols - 1 /\ kY \in 0 .. Rows - 1
         /\ loc.i \in 1 .. Len(loc.msg) /\ Len(loc.msg) \in Nat /\ loc.msg[loc.i] \in Char
         /\ \A j \in 1 .. Len(loc.msg) :
              Pages(Page(loc.from), loc.msg)[j]
                = Feed(Pages(Page(loc.from), loc.msg)[j - 1], loc.msg[j])
         /\ Pages(Page(loc.from), loc.msg)[loc.i - 1] = PageOf(LinesOf(video), kX, kY, kAttr)
<1>1. loc.i \in Nat /\ loc.msg \in Seq(Char) /\ kX \in Nat /\ kY \in Nat
  BY Values DEF Inv
<1>2. Len(loc.msg) \in Nat
  BY <1>1, LenProperties
<1>3. loc.i \in 1 .. Len(loc.msg)
  BY <1>1, <1>2 DEF Shown, AtEnd
<1>4. loc.msg[loc.i] \in Char
  BY <1>1, <1>3, ElementOfSeq
<1>5. kX \in 0 .. Cols - 1 /\ kY \in 0 .. Rows - 1
  BY <1>1, Screen DEF Inv, Within
<1>6. Done = loc.i - 1 /\ Done < Len(loc.msg)
  BY <1>2, <1>3 DEF Done
<1>7. Pages(Page(loc.from), loc.msg)[loc.i - 1] = Ahead("next", LinesOf(video), kX, kY, kAttr)
  BY <1>6 DEF Shown, Agrees
<1>8. Ahead("next", LinesOf(video), kX, kY, kAttr) = PageOf(LinesOf(video), kX, kY, kAttr)
  BY DEF Ahead
<1>9. \A j \in 1 .. Len(loc.msg) :
        Pages(Page(loc.from), loc.msg)[j]
          = Feed(Pages(Page(loc.from), loc.msg)[j - 1], loc.msg[j])
  BY <1>2, TypedPages
<1> QED BY <1>2, <1>3, <1>4, <1>5, <1>7, <1>8, <1>9

LEMMA StoredTwice ==
  ASSUME NEW f, NEW k, NEW u, NEW v
  PROVE  [[f EXCEPT ![k] = u] EXCEPT ![k] = v] = [f EXCEPT ![k] = v]
OBVIOUS

(* A character and then its attribute make a cell. *)
LEMMA CellMade ==
  ASSUME NEW v \in [Cells -> Cell], NEW x \in 0 .. Cols - 1, NEW y \in 0 .. Rows - 1, NEW c, NEW a
  PROVE  WithAttr(WithChar(LinesOf(v), x, y, c), x, y, a) = Put(LinesOf(v), x, y, c, a)
<1> DEFINE r == LinesOf(v)[y + 1][x]
<1>1. y + 1 \in 1 .. Rows /\ y + 1 - 1 = y
  BY Screen
<1>2. r = v[Address(x, y)] /\ Address(x, y) \in Cells
  BY <1>1, Places DEF LinesOf
<1>3. r \in Cell
  BY <1>2
<1> HIDE DEF r
<1>4. [[r EXCEPT !.c = c] EXCEPT !.a = a] = [c |-> c, a |-> a]
  <2>1. [r EXCEPT !.c = c] = [c |-> c, a |-> r.a]
    BY <1>3 DEF Cell
  <2>2. [[c |-> c, a |-> r.a] EXCEPT !.a = a] = [c |-> c, a |-> a]
    OBVIOUS
  <2> QED BY <2>1, <2>2
<1>5. LinesOf(v) = [j \in 1 .. Rows |-> LinesOf(v)[j]]
      /\ LinesOf(v)[y + 1] = [k \in 0 .. Cols - 1 |-> LinesOf(v)[y + 1][k]]
  BY <1>1 DEF LinesOf
<1> DEFINE l == LinesOf(v)
           m == [l EXCEPT ![y + 1][x].c = c]
<1> HIDE DEF l
<1>6. m = [l EXCEPT ![y + 1] = [l[y + 1] EXCEPT ![x] = [r EXCEPT !.c = c]]]
  BY DEF r, l
<1>7. m[y + 1] = [l[y + 1] EXCEPT ![x] = [r EXCEPT !.c = c]] /\ m[y + 1][x] = [r EXCEPT !.c = c]
  BY <1>1, <1>5, <1>6 DEF l
<1>8. [m EXCEPT ![y + 1][x].a = a] = [m EXCEPT ![y + 1] = [m[y + 1] EXCEPT ![x] = [m[y + 1][x] EXCEPT !.a = a]]]
  OBVIOUS
<1> HIDE DEF m
<1>9. [m EXCEPT ![y + 1][x].a = a] = [m EXCEPT ![y + 1] = [m[y + 1] EXCEPT ![x] = [c |-> c, a |-> a]]]
  BY <1>4, <1>7, <1>8
<1>10. [m EXCEPT ![y + 1][x].a = a] = [l EXCEPT ![y + 1] = [l[y + 1] EXCEPT ![x] = [c |-> c, a |-> a]]]
  <2> DEFINE e == [c |-> c, a |-> a]
  <2> HIDE DEF e
  <2>1. [m[y + 1] EXCEPT ![x] = e] = [l[y + 1] EXCEPT ![x] = e]
    BY <1>7, StoredTwice
  <2> DEFINE g == [l[y + 1] EXCEPT ![x] = e]
  <2> HIDE DEF g
  <2>2. [m EXCEPT ![y + 1] = g] = [l EXCEPT ![y + 1] = g]
    BY <1>6, StoredTwice
  <2> QED BY <1>9, <2>1, <2>2 DEF e, g
<1> QED BY <1>10 DEF l, m, WithAttr, WithChar, Put

(* The first statement of a character, where it leaves what the reference  *)
(* does with it.                                                           *)
LEMMA Types ==
  ASSUME Inv, Shown, pc = "next", ~AtEnd,
         NEW to \in Labels \ {"idle", "next"}, Goto(to, loc.i),
         Feed(PageOf(LinesOf(video), kX, kY, kAttr), loc.msg[loc.i])
           = Ahead(to, LinesOf(video'), kX', kY', kAttr')
  PROVE  Shown'
<1> DEFINE t == Pages(Page(loc.from), loc.msg)
           g == Ahead(to, LinesOf(video'), kX', kY', kAttr')
<1>1. loc.i \in Nat \ {0} /\ loc.i <= Len(loc.msg)
  BY Reads
<1>2. t[loc.i] = Feed(t[loc.i - 1], loc.msg[loc.i]) /\ t[loc.i - 1] = PageOf(LinesOf(video), kX, kY, kAttr)
  BY Reads
<1>3. t[loc.i] = g
  BY <1>2
<1>4. [g EXCEPT !.mode = "text"] = g
  BY AheadIsPlain
<1>5. Agrees(t, loc.i, Len(loc.msg), g)
  <2> HIDE DEF t, g
  <2> QED BY <1>3, <1>4 DEF Agrees
<1> QED BY <1>1, <1>5, Begins

LEMMA TabShows ==
  ASSUME Inv, Shown, DoTab
  PROVE  Shown'
<1>1. pc = "next" /\ ~AtEnd /\ Goto("wrap", loc.i) /\ loc.msg[loc.i] = Tab
  BY DEF DoTab, At, Stay
<1>2. kX' = kX + 4 /\ kY' = kY /\ video' = video /\ kAttr' = kAttr
  BY DEF DoTab
<1>3. kX \in 0 .. Cols - 1 /\ kY \in 0 .. Rows - 1 /\ IsLines(LinesOf(video))
  BY <1>1, Reads, LinesAre
<1>4. Feed(PageOf(LinesOf(video), kX, kY, kAttr), Tab) = AtWrap(LinesOf(video), kX + 4, kY, kAttr)
  BY <1>3, TypeIs
<1>5. Feed(PageOf(LinesOf(video), kX, kY, kAttr), Tab) = Ahead("wrap", LinesOf(video'), kX', kY', kAttr')
  BY <1>2, <1>4 DEF Ahead
<1>6. "wrap" \in Labels \ {"idle", "next"}
  BY DEF Labels
<1> QED BY <1>1, <1>5, <1>6, Types

LEMMA ReturnShows ==
  ASSUME Inv, Shown, DoReturn
  PROVE  Shown'
<1> DEFINE c == loc.msg[loc.i]
           to == IF c = Newline THEN "newline" ELSE "wrap"
<1>1. /\ pc = "next" /\ ~AtEnd /\ c \in {Newline, Return}
      /\ Goto(to, loc.i)
      /\ kX' = 0 /\ kY' = kY /\ video' = video /\ kAttr' = kAttr
  BY DEF DoReturn, At, Stay
<1>2. kX \in 0 .. Cols - 1 /\ kY \in 0 .. Rows - 1 /\ IsLines(LinesOf(video))
  BY <1>1, Reads, LinesAre
<1>3. to \in Labels \ {"idle", "next"}
  BY DEF Labels
<1>4. Feed(PageOf(LinesOf(video), kX, kY, kAttr), c) = Ahead(to, LinesOf(video'), kX', kY', kAttr')
  <2> HIDE DEF c
  <2>1. /\ c = Newline => Feed(PageOf(LinesOf(video), kX, kY, kAttr), c)
                            = AtBottom(LinesOf(video), 0, kY + 1, kAttr)
        /\ c = Return => Feed(PageOf(LinesOf(video), kX, kY, kAttr), c)
                            = AtWrap(LinesOf(video), 0, kY, kAttr)
    BY <1>2, TypeIs
  <2>2. Newline # Return
    BY DEF Newline, Return
  <2> QED BY <1>1, <2>1, <2>2 DEF Ahead
<1> HIDE DEF to
<1> QED BY <1>1, <1>3, <1>4, Types

LEMMA PutCharShows ==
  ASSUME Inv, Shown, PutChar
  PROVE  Shown'
<1> DEFINE c == loc.msg[loc.i]
<1>1. /\ pc = "next" /\ ~AtEnd /\ c \in Glyphs /\ Goto("attr", loc.i)
      /\ kX' = kX /\ kY' = kY /\ kAttr' = kAttr /\ video' = StoreChar(video, kX, kY, c)
  BY DEF PutChar, At, Stay, StoreChar
<1>2. kX \in 0 .. Cols - 1 /\ kY \in 0 .. Rows - 1
  BY <1>1, Reads
<1>3. IsLines(LinesOf(video)) /\ video \in [Cells -> Cell]
  BY LinesAre, Values DEF Inv
<1>4. "attr" \in Labels \ {"idle", "next"}
  BY DEF Labels
<1>5. Feed(PageOf(LinesOf(video), kX, kY, kAttr), c) = Ahead("attr", LinesOf(video'), kX', kY', kAttr')
  <2> HIDE DEF c
  <2>1. Feed(PageOf(LinesOf(video), kX, kY, kAttr), c)
          = AtWrap(Put(LinesOf(video), kX, kY, c, kAttr), kX + 1, kY, kAttr)
    BY <1>1, <1>2, <1>3, TypeIs
  <2>2. LinesOf(video') = WithChar(LinesOf(video), kX, kY, c)
    BY <1>1, <1>2, <1>3, CharStored
  <2>3. WithAttr(WithChar(LinesOf(video), kX, kY, c), kX, kY, kAttr) = Put(LinesOf(video), kX, kY, c, kAttr)
    BY <1>2, <1>3, CellMade
  <2>4. Ahead("attr", LinesOf(video'), kX, kY, kAttr)
          = AtWrap(WithAttr(LinesOf(video'), kX, kY, kAttr), kX + 1, kY, kAttr)
    BY DEF Ahead
  <2> QED BY <1>1, <2>1, <2>2, <2>3, <2>4
<1> QED BY <1>1, <1>4, <1>5, Types

(* A character with nothing to do for it, and an escape with nothing to    *)
(* take.                                                                   *)
LEMMA IgnoreShows ==
  ASSUME Inv, Shown, Ignore
  PROVE  Shown'
<1> DEFINE i == loc.i
           c == loc.msg[i]
           l == LinesOf(video)
           t == Pages(Page(loc.from), loc.msg)
           g == Ahead("wrap", l, kX, kY, kAttr)
<1>1. /\ pc = "next" /\ ~AtEnd /\ c \in Controls \ {Tab, Newline, Return}
      /\ c = Esc => i = Len(loc.msg)
      /\ Goto("wrap", i)
      /\ kX' = kX /\ kY' = kY /\ kAttr' = kAttr /\ video' = video
  BY DEF Ignore, At, Stay
<1>2. "wrap" \in Labels \ {"idle", "next"}
  BY DEF Labels
<1>3. /\ kX \in 0 .. Cols - 1 /\ kY \in 0 .. Rows - 1 /\ i \in 1 .. Len(loc.msg) /\ Len(loc.msg) \in Nat
      /\ \A j \in 1 .. Len(loc.msg) : t[j] = Feed(t[j - 1], loc.msg[j])
      /\ t[i - 1] = PageOf(l, kX, kY, kAttr)
  BY <1>1, Reads
<1>4. IsLines(l)
  BY LinesAre
<1>5. CASE c # Esc
  <2>1. Feed(PageOf(l, kX, kY, kAttr), c) = g
    <3> HIDE DEF c, l
    <3>1. Feed(PageOf(l, kX, kY, kAttr), c) = AtWrap(l, kX, kY, kAttr)
      BY <1>1, <1>3, <1>4, <1>5, TypeIs
    <3> QED BY <3>1 DEF Ahead
  <2> QED BY <1>1, <1>2, <2>1, Types
<1>6. CASE c = Esc
  <2>1. i \in Nat \ {0} /\ i <= Len(loc.msg)
    BY <1>3
  <2>2. Agrees(t, i, Len(loc.msg), g)
    <3>1. t[i] = Feed(t[i - 1], c)
      BY <1>3
    <3> HIDE DEF l, c, t
    <3>2. t[i] = Escaped(l, kX, kY, kAttr)
      BY <1>3, <1>4, <1>6, <3>1, TypeIs
    <3>3. [t[i] EXCEPT !.mode = "text"] = PageOf(l, kX, kY, kAttr)
      BY <3>2, Modes
    <3>4. ~(kX >= Cols) /\ ~(kY >= Rows)
      BY <1>3, Screen
    <3>5. g = PageOf(l, kX, kY, kAttr)
      BY <3>4 DEF Ahead, AtWrap, AtBottom
    <3>6. ~(i < Len(loc.msg))
      BY <1>1, <1>3, <1>6
    <3> HIDE DEF g, i
    <3> QED BY <3>3, <3>5, <3>6 DEF Agrees
  <2> QED BY <1>1, <1>2, <2>1, <2>2, Begins
<1> QED BY <1>5, <1>6

(* An escape takes the character after it. *)
LEMMA EscapeShows ==
  ASSUME Inv, Shown, DoEscape
  PROVE  Shown'
<1> DEFINE i == loc.i
           m == loc.msg
           l == LinesOf(video)
           t == Pages(Page(loc.from), m)
           b == Colour[m[i + 1]]
           g == Ahead("wrap", l, kX, kY, b)
<1>1. /\ pc = "next" /\ ~AtEnd /\ m[i] = Esc /\ i < Len(m)
      /\ Goto("wrap", i + 1)
      /\ kX' = kX /\ kY' = kY /\ kAttr' = b /\ video' = video
  BY DEF DoEscape, At
<1>2. "wrap" \in Labels \ {"idle", "next"}
  BY DEF Labels
<1>3. /\ kX \in 0 .. Cols - 1 /\ kY \in 0 .. Rows - 1 /\ i \in 1 .. Len(m) /\ Len(m) \in Nat
      /\ t[i - 1] = PageOf(l, kX, kY, kAttr)
      /\ \A j \in 1 .. Len(m) : t[j] = Feed(t[j - 1], m[j])
  BY <1>1, Reads
<1>4. i + 1 \in Nat \ {0} /\ i + 1 <= Len(m) /\ i + 1 \in 1 .. Len(m) /\ i + 1 - 1 = i
  BY <1>1, <1>3
<1>5. IsLines(l)
  BY LinesAre
<1>6. Agrees(t, i + 1, Len(m), g)
  <2> HIDE DEF l, m, t
  <2>1. t[i] = Feed(t[i - 1], m[i])
    BY <1>3
  <2>2. t[i + 1] = Feed(t[i + 1 - 1], m[i + 1])
    BY <1>3, <1>4
  <2>3. ~(kX >= Cols) /\ ~(kY >= Rows)
    BY <1>3, Screen
  <2>4. t[i] = Escaped(l, kX, kY, kAttr)
    BY <1>1, <1>3, <1>5, <2>1, TypeIs
  <2>5. t[i + 1] = Feed(Escaped(l, kX, kY, kAttr), m[i + 1])
    BY <1>4, <2>2, <2>4
  <2>6. t[i + 1] = PageOf(l, kX, kY, b)
    BY <2>5, ColourIs
  <2> HIDE DEF b
  <2>7. g = PageOf(l, kX, kY, b)
    BY <2>3 DEF Ahead, AtWrap, AtBottom
  <2>8. [g EXCEPT !.mode = "text"] = g
    BY AheadIsPlain
  <2> HIDE DEF g
  <2> QED BY <2>6, <2>7, <2>8 DEF Agrees
<1> QED BY <1>1, <1>2, <1>4, <1>6, Begins

LEMMA DownShows ==
  ASSUME Inv, Shown, Down
  PROVE  Shown'
<1> DEFINE l == LinesOf(video)
           to == IF pc = "newline" THEN "wrap" ELSE "bottom"
<1>1. /\ pc \in {"newline", "down"} /\ Goto(to, loc.i)
      /\ kX' = kX /\ kY' = kY + 1 /\ kAttr' = kAttr /\ video' = video
  BY DEF Down, Stay
<1>2. pc \in Labels \ {"idle", "next"} /\ to \in Labels \ {"idle", "next"}
  BY <1>1 DEF Labels
<1>3. loc.i \in Nat /\ kX \in Nat /\ kX < Cols
  BY <1>1, Values DEF Inv, Within
<1>4. Ahead(to, LinesOf(video'), kX', kY', kAttr') = Ahead(pc, l, kX, kY, kAttr)
  <2>1. ~(kX >= Cols)
    BY <1>3, Screen
  <2> QED BY <1>1, <2>1 DEF Ahead, AtWrap
<1> HIDE DEF l, to
<1> QED BY <1>1, <1>2, <1>3, <1>4, Keeps DEF l

LEMMA PutAttrShows ==
  ASSUME Inv, Shown, PutAttr
  PROVE  Shown'
<1>1. /\ pc = "attr" /\ Goto("right", loc.i)
      /\ kX' = kX /\ kY' = kY /\ kAttr' = kAttr /\ video' = StoreAttr(video, kX, kY, kAttr)
  BY DEF PutAttr, Stay, StoreAttr
<1>2. {"attr", "right"} \subseteq Labels \ {"idle", "next"}
  BY DEF Labels
<1>3. loc.i \in Nat /\ kX \in 0 .. Cols - 1 /\ kY \in 0 .. Rows - 1 /\ video \in [Cells -> Cell]
  BY <1>1, Values, Screen DEF Inv, Within
<1>4. LinesOf(video') = WithAttr(LinesOf(video), kX, kY, kAttr)
  BY <1>1, <1>3, AttrStored
<1>5. Ahead("right", LinesOf(video'), kX', kY', kAttr') = Ahead("attr", LinesOf(video), kX, kY, kAttr)
  BY <1>1, <1>4 DEF Ahead
<1> QED BY <1>1, <1>2, <1>3, <1>5, Keeps

LEMMA RightShows ==
  ASSUME Inv, Shown, Right
  PROVE  Shown'
<1>1. /\ pc = "right" /\ Goto("wrap", loc.i)
      /\ kX' = kX + 1 /\ kY' = kY /\ kAttr' = kAttr /\ video' = video
  BY DEF Right, Stay
<1>2. {"right", "wrap"} \subseteq Labels \ {"idle", "next"} /\ loc.i \in Nat
  BY Values DEF Inv, Labels
<1>3. Ahead("wrap", LinesOf(video'), kX', kY', kAttr') = Ahead("right", LinesOf(video), kX, kY, kAttr)
  BY <1>1 DEF Ahead
<1> QED BY <1>1, <1>2, <1>3, Keeps

LEMMA WrapShows ==
  ASSUME Inv, Shown, Wrap
  PROVE  Shown'
<1> DEFINE l == LinesOf(video)
           to == IF kX >= Cols THEN "down" ELSE "bottom"
<1>1. /\ pc = "wrap" /\ kY' = kY /\ kAttr' = kAttr /\ video' = video
      /\ Goto(to, loc.i) /\ kX' = IF kX >= Cols THEN 0 ELSE kX
  BY DEF Wrap, Stay
<1>2. "wrap" \in Labels \ {"idle", "next"} /\ to \in Labels \ {"idle", "next"} /\ loc.i \in Nat
  BY Values DEF Inv, Labels
<1>3. Ahead(to, LinesOf(video'), kX', kY', kAttr') = Ahead("wrap", l, kX, kY, kAttr)
  BY <1>1 DEF Ahead, AtWrap
<1> HIDE DEF l, to
<1> QED BY <1>1, <1>2, <1>3, Keeps DEF l

LEMMA BottomShows ==
  ASSUME Inv, Shown, Bottom
  PROVE  Shown'
<1> DEFINE l == LinesOf(video)
           to == IF kY >= Rows THEN "scroll" ELSE "next"
           j  == IF kY >= Rows THEN loc.i ELSE loc.i + 1
<1>1. /\ pc = "bottom" /\ kX' = kX /\ kY' = kY /\ kAttr' = kAttr /\ video' = video
      /\ Goto(to, j) /\ j = IF to = "next" THEN loc.i + 1 ELSE loc.i
  BY DEF Bottom, Stay, NextChar
<1>2. "bottom" \in Labels \ {"idle", "next"} /\ to \in Labels \ {"idle"} /\ j \in Nat
  BY Values DEF Inv, Labels
<1>3. Ahead(to, LinesOf(video'), kX', kY', kAttr') = Ahead("bottom", l, kX, kY, kAttr)
  BY <1>1 DEF Ahead, AtBottom
<1> HIDE DEF l, to, j
<1> QED BY <1>1, <1>2, <1>3, Keeps DEF l

LEMMA ScrollShows ==
  ASSUME Inv, Shown, Scroll
  PROVE  Shown'
<1> DEFINE l == LinesOf(video)
           up == [a \in Cells |-> IF a + Cols \in Cells THEN video[a + Cols] ELSE video[a]]
<1>1. pc = "scroll" /\ kX' = kX /\ kY' = kY /\ kAttr' = kAttr
  BY DEF Scroll
<1>2. kY > 0
  BY <1>1, Screen DEF Inv, Within
<1>3. video' = up /\ Goto("clear", loc.i)
  BY <1>2 DEF Scroll, Stay
<1> HIDE DEF up
<1>4. {"scroll", "clear"} \subseteq Labels \ {"idle", "next"} /\ loc.i \in Nat
  BY Values DEF Inv, Labels
<1>5. LinesOf(video') = Copied(l)
  BY <1>3, LinesCopied DEF up
<1>6. Cleared(Copied(l)) = Scrolled(l)
  BY CopiedCleared
<1> HIDE DEF l
<1>7. Ahead("clear", Copied(l), kX, kY, kAttr) = Ahead("scroll", l, kX, kY, kAttr)
  BY <1>6 DEF Ahead
<1> QED BY <1>1, <1>3, <1>4, <1>5, <1>7, Keeps DEF l

LEMMA ClearShows ==
  ASSUME Inv, Shown, Clear
  PROVE  Shown'
<1> DEFINE l == LinesOf(video)
           empty == [a \in Cells |-> IF a + Cols \in Cells THEN video[a] ELSE Blank]
<1>1. /\ pc = "clear" /\ Goto("up", loc.i) /\ video' = empty
      /\ kX' = kX /\ kY' = kY /\ kAttr' = kAttr
  BY DEF Clear, Stay
<1> HIDE DEF empty
<1>2. {"clear", "up"} \subseteq Labels \ {"idle", "next"} /\ loc.i \in Nat
  BY Values DEF Inv, Labels
<1>3. LinesOf(video') = Cleared(l)
  BY <1>1, LinesCleared DEF empty
<1> HIDE DEF l
<1>4. Ahead("up", Cleared(l), kX, kY, kAttr) = Ahead("clear", l, kX, kY, kAttr)
  BY DEF Ahead
<1> QED BY <1>1, <1>2, <1>3, <1>4, Keeps DEF l

LEMMA UpShows ==
  ASSUME Inv, Shown, Up
  PROVE  Shown'
<1>1. /\ pc = "up" /\ Goto("next", loc.i + 1)
      /\ kX' = kX /\ kY' = kY - 1 /\ kAttr' = kAttr /\ video' = video
  BY DEF Up, NextChar
<1>2. "up" \in Labels \ {"idle", "next"} /\ "next" \in Labels \ {"idle"} /\ loc.i + 1 \in Nat
  BY Values DEF Inv, Labels
<1>3. Ahead("next", LinesOf(video'), kX', kY', kAttr') = Ahead("up", LinesOf(video), kX, kY, kAttr)
  BY <1>1 DEF Ahead
<1> QED BY <1>1, <1>2, <1>3, Keeps

(* A print begins: the reference begins with the screen as it is. *)
LEMMA CallShows ==
  ASSUME Inv, Call
  PROVE  Shown'
<1>1. PICK msg \in Seq(Char) : loc' = [msg |-> msg, i |-> 1, from |-> Now]
  BY Text DEF Call
<1>2. /\ loc'.msg = msg /\ loc'.i = 1 /\ loc'.from = Now
      /\ pc' = "next" /\ kX' = kX /\ kY' = kY /\ kAttr' = kAttr /\ video' = video
  BY <1>1 DEF Call
<1>3. Len(msg) \in Nat
  BY LenProperties
<1> DEFINE t == Pages(Page(Now), msg)
           g == PageOf(LinesOf(video), kX, kY, kAttr)
<1>4. t[0] = g
  BY <1>3, TypedPages, PageIs
<1>5. Ahead("next", LinesOf(video), kX, kY, kAttr) = g
  BY DEF Ahead
<1>6. [g EXCEPT !.mode = "text"] = g
  BY Modes
<1> HIDE DEF t, g
<1>7. Agrees(t, 0, Len(msg), Ahead("next", LinesOf(video), kX, kY, kAttr))
  BY <1>4, <1>5, <1>6 DEF Agrees
<1>8. Done' = 0
  BY <1>2 DEF Done
<1> QED BY <1>2, <1>3, <1>7, <1>8 DEF Shown, t

LEMMA ShowsHolds == Spec => []Shows
<1>1. Init => Shows
  BY DEF Init, Shows
<1>2. Inv /\ Shows /\ [Next]_vars => Shows'
  <2> SUFFICES ASSUME Inv, Shows, [Next]_vars PROVE Shows'
    OBVIOUS
  <2>1. CASE Call
    BY <2>1, CallShows DEF Shows
  <2>2. CASE Leave
    BY <2>2 DEF Leave, Shows
  <2>3. CASE Step /\ ~Leave
    <3>1. Shown
      BY <2>3 DEF Shows, Step, DoTab, DoReturn, Down, DoEscape, Ignore, PutChar, PutAttr, Right, Wrap,
                  Bottom, Scroll, Clear, Up, At
    <3> QED BY <2>3, <3>1, TabShows, ReturnShows, DownShows, EscapeShows, IgnoreShows, PutCharShows,
               PutAttrShows, RightShows, WrapShows, BottomShows, ScrollShows, ClearShows, UpShows
            DEF Step, Shows
  <2>4. CASE UNCHANGED vars
    BY <2>4 DEF vars, Shows, Shown, Done
  <2> QED BY <2>1, <2>2, <2>3, <2>4 DEF Next
<1> QED BY <1>1, <1>2, InvHolds, PTL DEF Spec

(* What a print leaves is the page its text makes. *)
LEMMA LeftAsTyped ==
  ASSUME Inv, Shows, Leave
  PROVE  Page(Now) = Typed(Page(loc.from), loc.msg)
<1> DEFINE g == Page(loc.from)
           m == loc.msg
           t == Pages(g, m)
<1>1. pc = "next" /\ AtEnd
  BY DEF Leave
<1>2. Shown
  BY <1>1 DEF Shows
<1>3. loc.i \in Nat /\ m \in Seq(Char)
  BY Values DEF Inv
<1>4. Len(m) \in Nat
  BY <1>3, LenProperties
<1>5. Done = Len(m)
  BY <1>1, <1>2, <1>3, <1>4 DEF Done, Shown, AtEnd
<1>6. [t[Len(m)] EXCEPT !.mode = "text"] = Ahead("next", LinesOf(video), kX, kY, kAttr)
  BY <1>1, <1>2, <1>5 DEF Shown, Agrees
<1>7. Ahead("next", LinesOf(video), kX, kY, kAttr) = Page(Now)
  BY PageIs DEF Ahead
<1>8. Typed(g, m) = [t[Len(m)] EXCEPT !.mode = "text"]
  BY <1>4, TypedPages
<1> QED BY <1>6, <1>7, <1>8

(* A print does to the screen what its text does to a terminal: all of     *)
(* operator() and scroll(), for every size of the screen and every text.   *)
THEOREM PrintsAsTerminal == Spec => ShowsText
<1>1. Inv /\ Shows /\ [Next]_vars =>
        [pc # "idle" /\ pc' = "idle" => Page(Now) = Typed(Page(loc.from), loc.msg)]_vars
  <2> SUFFICES ASSUME Inv, Shows, Next, pc # "idle", pc' = "idle"
               PROVE  Page(Now) = Typed(Page(loc.from), loc.msg)
    OBVIOUS
  <2>1. Leave
    <3>1. ASSUME NEW to, NEW j, Goto(to, j), to # "idle" PROVE FALSE
      BY <3>1 DEF Goto
    <3>2. Step
      BY DEF Next, Call
    <3> QED BY <3>1, <3>2 DEF Step, DoTab, DoReturn, Down, DoEscape, Ignore, PutChar, PutAttr, Right,
                              Wrap, Bottom, Scroll, Clear, Up, Stay, NextChar
  <2> QED BY <2>1, LeftAsTyped
<1> QED BY <1>1, ShowsHolds, InvHolds, PTL DEF Spec, ShowsText
=============================================================================
