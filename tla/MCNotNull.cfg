SPECIFICATION Spec
CONSTANTS
  Alphabet <- NotNullAlphabet
  UpdateDeleteLimit = FALSE
  MaxDepth = 2
  MaxRounds = 50
  MaxStack = 40
INVARIANTS
  SameTree
