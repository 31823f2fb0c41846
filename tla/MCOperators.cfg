SPECIFICATION Spec
CONSTANTS
  Alphabet <- OperatorAlphabet
  UpdateDeleteLimit = FALSE
  MaxDepth = 3
  MaxRounds = 50
  MaxStack = 40
INVARIANTS
  TypeOK
  SameVerdict
  SameTree
