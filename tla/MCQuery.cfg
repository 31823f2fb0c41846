SPECIFICATION Spec
CONSTANTS
  Alphabet <- QueryAlphabet
  UpdateDeleteLimit = FALSE
  MaxDepth = 3
  MaxRounds = 50
  MaxStack = 26
INVARIANTS
  NestingPaired
  SameVerdict
  SameTree
