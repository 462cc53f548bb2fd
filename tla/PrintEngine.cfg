CONSTANTS
  Cols = 4
  Rows = 3
  Glyphs <- MCGlyphs
  Controls <- MCControls
  Attrs <- MCAttrs
  Colour <- MCColour
  White = white
  Texts <- MCTexts
  g = g
  bell = bell
  white = white
  red = red
SPECIFICATION Spec
INVARIANTS TypeOK CursorOnScreen
PROPERTY ShowsText
CHECK_DEADLOCK TRUE
