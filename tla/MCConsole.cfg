CONSTANTS
  VGA_WIDTH = 2
  VGA_HEIGHT = 3
  Colors <- TwoColors
  Nibbles = 2
  LastDigit = 2
  BufferSize = 5
  Numbers <- SomeNumbers
  Texts <- SomeTexts
  MaxCalls = 3
SPECIFICATION Spec
INVARIANTS
  TypeOK
  TextAppearsInOrder
  NumeralsAreRight
PROPERTIES
  PrintsEnd
CHECK_DEADLOCK FALSE
