SPECIFICATION Spec
CONSTANTS
  Alphabet <- NestedWithAlphabet
  UpdateDeleteLimit = FALSE
  MaxDepth = 1
  MaxRounds = 50
  MaxStack = 40
INVARIANTS
  NestingCounted
