--------------------------- MODULE PrintProperties ---------------------------
(***************************************************************************)
(* What kprint promises: a cursor that is on the screen whenever it is     *)
(* used, and a reference terminal that every print agrees with.            *)
(***************************************************************************)
EXTENDS PrintEngine

Labels == {"idle", "next", "newline", "attr", "right", "wrap", "down", "bottom",
           "scroll", "clear", "up"}

(* The cursor may be past the end of a line by three columns, after a tab, *)
(* and one line below the screen, before a scroll.                         *)
Screens == [video : [Cells -> Cell], x : 0 .. Cols + 3, y : 0 .. Rows, attr : Attrs]

TypeOK ==
  /\ Now \in Screens /\ pc \in Labels
  /\ loc \in [msg : Seq(Char), i : Nat, from : Screens]

(* The cursor is on the screen whenever nobody prints, and whenever a      *)
(* character or its attribute is written there: operator() checks it only  *)
(* after it has moved, and no write goes beyond the screen's memory.  This *)
(* is the comment at the head of PrintEngine.cpp, with its axes put right. *)
CursorOnScreen ==
  pc \in {"idle", "attr"} \/ (\E c \in Glyphs : At(c)) => kX < Cols /\ kY < Rows

-----------------------------------------------------------------------------
(* The reference: a page of lines, each a function of the column.          *)
EmptyLine == [x \in 0 .. Cols - 1 |-> Blank]

Page(v) ==
  [lines |-> [y \in 1 .. Rows |-> [x \in 0 .. Cols - 1 |-> v.video[x + (y - 1) * Cols]]],
   x |-> v.x, y |-> v.y, attr |-> v.attr, mode |-> "text"]

LineFeed(g) ==
  IF g.y < Rows - 1 THEN [g EXCEPT !.x = 0, !.y = g.y + 1]
                    ELSE [g EXCEPT !.x = 0, !.lines = Append(Tail(g.lines), EmptyLine)]

MoveTo(g, x) == IF x < Cols THEN [g EXCEPT !.x = x] ELSE LineFeed(g)

Type(g, c) ==
  CASE c = Esc      -> [g EXCEPT !.mode = "escape"]
    [] c = Newline  -> LineFeed(g)
    [] c = Return   -> [g EXCEPT !.x = 0]
    [] c = Tab      -> MoveTo(g, g.x + 4)
    [] c \in Glyphs -> MoveTo([g EXCEPT !.lines[g.y + 1][g.x] = [c |-> c, a |-> g.attr]], g.x + 1)
    [] OTHER        -> g

Feed(g, c) ==
  IF g.mode = "escape" THEN [g EXCEPT !.mode = "text", !.attr = Colour[c]] ELSE Type(g, c)

Typed(g, msg) ==
  LET page[j \in 0 .. Len(msg)] == IF j = 0 THEN g ELSE Feed(page[j - 1], msg[j])
  IN  [page[Len(msg)] EXCEPT !.mode = "text"]

(* A print does to the screen what typing its text on a terminal does:     *)
(* lines that scroll up at the bottom, escapes for colours, tabs that end  *)
(* a line.                                                                 *)
ShowsText ==
  [][pc # "idle" /\ pc' = "idle" => Page(Now) = Typed(Page(loc.from), loc.msg)]_vars
=============================================================================
