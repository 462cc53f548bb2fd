---------------------------- MODULE MCPrintEngine ----------------------------
(* Values for TLC. *)
EXTENDS PrintProperties

CONSTANTS g, bell, white, red

MCGlyphs   == {g}
MCControls == {Tab, Newline, Return, Esc, bell}
MCAttrs    == {white, red}
MCColour   == [c \in Char |-> IF c = Esc THEN white ELSE red]

(* Escapes before a glyph, before a control and at the end, tabs within    *)
(* and past the end of a line; a full line with a newline after it; a line *)
(* as the kernel prints; a text that leaves the cursor within a line.      *)
MCTexts == {<<Esc, g, Tab, g, Return, bell>>, <<Newline, Esc, Esc, g, Tab, Esc>>,
            <<g, g, g, g, Newline, g>>, <<g, Newline>>, <<Tab, g>>}
=============================================================================
