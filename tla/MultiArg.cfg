CONSTANTS
  n1 = n1
  n2 = n2
  n3 = n3
  n4 = n4
  v1 = v1
  v2 = v2
  Nodes <- MCNodes
  Values = {v1, v2}
  Lists <- MCLists
  Offsets <- MCOffsets
  MaxSize = 4
  Null = Null
  Junk = Junk
  Keys = {1, 2, 3}
  Images = {0, 7}
  Strings <- MCStrings
  Args = {2, 3}
  IntMax = 1023
  b1 = b1
  b2 = b2
  b3 = b3
  Names = {"x", "y"}
  Blocks <- MCBlocks
  Chars = {"a", "b", "c", "#", "0", "?"}
  Literals <- MCLiterals
  Trails <- MCTrails
  MaxLength = 2
  Nowhere = Nowhere
  W = 256
  Types <- MCTypes
  Bases = {2, 10, 16}
  BufSize = 8
  Cap = 12
  Texts <- MCTexts
  Leftovers = {"NUL", "#"}
  MaxParts = 3
  Users = {"multiArg"}
SPECIFICATION Spec
INVARIANT ArgsAssigned
CHECK_DEADLOCK TRUE
