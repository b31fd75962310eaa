SPECIFICATION Texts
CONSTANTS
  Int64 = 64
  Int32 = 16
  Alphabet <- AlphabetVal
  MaxLength = 6
  Needles <- NeedlesVal
INVARIANTS FindRight NumbersRight JoinsWithin
CHECK_DEADLOCK FALSE
