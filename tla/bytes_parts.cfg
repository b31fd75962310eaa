SPECIFICATION Texts
CONSTANTS
  Int64 = 64
  Int32 = 16
  Alphabet <- AlphabetVal
  MaxLength = 3
  Needles <- NeedlesVal
INVARIANT PartsWithin
CHECK_DEADLOCK FALSE
