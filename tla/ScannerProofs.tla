---- MODULE ScannerProofs ----
(***************************************************************************)
(* The two tokenizers find the same token at every position of every text. *)
(***************************************************************************)
EXTENDS Scanner, GetToken, NumberProofs, SequenceTheorems

Texts == Seq(STRING)

(* At a position past the end of a text there is NUL.                      *)
LEMMA AtEndIsNUL ==
  ASSUME NEW s \in Texts, NEW j \in Nat
  PROVE  At(s, j) # "NUL" => j <= Len(s)
BY DEF At

(* The first position a set does not have, and the loop that finds it.     *)
LEMMA SkipIs ==
  ASSUME NEW s \in Texts, NEW j \in 1 .. Len(s) + 1, NEW S, "NUL" \notin S
  PROVE  /\ Skip(s, j, S) \in j .. Len(s) + 1
         /\ At(s, Skip(s, j, S)) \notin S
         /\ \A m \in j .. Skip(s, j, S) - 1 : At(s, m) \in S
<1> DEFINE N == {k \in j .. Len(s) + 1 : At(s, k) \notin S}
<1>1. N \in SUBSET Nat /\ N # {}
  <2>1. Len(s) + 1 \in N
    BY DEF Texts, At
  <2> QED
    BY <2>1 DEF Texts
<1> HIDE DEF N
<1>2. PICK k \in N : \A m \in N : k <= m
  BY <1>1, LeastNumber
<1>3. k \in j .. Len(s) + 1 /\ At(s, k) \notin S
  BY <1>2 DEF N
<1>4. \A m \in j .. k - 1 : At(s, m) \in S
  BY <1>2, <1>3 DEF N, Texts
<1>5. k \in j .. j + Len(s)
  BY <1>3 DEF Texts
<1>6. Skip(s, j, S) \in j .. j + Len(s) /\ At(s, Skip(s, j, S)) \notin S
      /\ \A m \in j .. Skip(s, j, S) - 1 : At(s, m) \in S
  BY <1>3, <1>4, <1>5 DEF Skip
<1>7. Skip(s, j, S) <= k
  BY <1>3, <1>6 DEF Texts
<1> QED
  BY <1>3, <1>6, <1>7 DEF Texts

LEMMA SkipUnique ==
  ASSUME NEW s \in Texts, NEW j \in 1 .. Len(s) + 1, NEW S, "NUL" \notin S,
         NEW k \in j .. Len(s) + 1, At(s, k) \notin S, \A m \in j .. k - 1 : At(s, m) \in S
  PROVE  Skip(s, j, S) = k
BY SkipIs DEF Texts

(* A loop that reads on while bytes are in a set.                          *)
LEMMA LoopIsSkip ==
  ASSUME NEW s \in Texts, NEW j \in 1 .. Len(s) + 1, NEW S, "NUL" \notin S
  PROVE  /\ \E f : f = [k \in j .. Len(s) + 2 |-> IF At(s, k) \in S THEN f[k + 1] ELSE k]
         /\ \A f : f = [k \in j .. Len(s) + 2 |-> IF At(s, k) \in S THEN f[k + 1] ELSE k]
                     => f[j] = Skip(s, j, S)
<1> DEFINE hi == Len(s) + 2
           H == {k \in j .. hi : At(s, k) \notin S}
           next == [k \in j .. hi |-> k + 1]
           val == [k \in j .. hi |-> k]
<1>1. Len(s) \in Nat /\ j \in Nat /\ hi \in Nat
  BY DEF Texts
<1>2. \A k \in j .. hi : At(s, k) \in S => k <= Len(s)
  BY <1>1, AtEndIsNUL
<1>3. Onward(j, hi, H, next)
  BY <1>1, <1>2 DEF Onward
<1>4. ASSUME NEW f
      PROVE  Jumps(f, j, hi, H, next, val) <=>
             f = [k \in j .. hi |-> IF At(s, k) \in S THEN f[k + 1] ELSE k]
  <2> DEFINE a(k) == IF At(s, k) \in S THEN f[k + 1] ELSE k
             b(k) == IF k \in H THEN val[k] ELSE f[next[k]]
  <2>1. \A k \in j .. hi : a(k) = b(k)
    OBVIOUS
  <2> HIDE DEF a, b
  <2>2. [k \in j .. hi |-> a(k)] = [k \in j .. hi |-> b(k)]
    BY <2>1
  <2> QED
    BY <2>2 DEF Jumps, a, b
<1>5. \E f : Jumps(f, j, hi, H, next, val)
  <2> HIDE DEF hi, H, next, val
  <2>1. j <= hi + 1
    BY <1>1 DEF hi
  <2> QED
    BY <1>1, <1>3, <2>1, JumpsExists
<1>6. ASSUME NEW f, f = [k \in j .. hi |-> IF At(s, k) \in S THEN f[k + 1] ELSE k]
      PROVE  f[j] = Skip(s, j, S)
  <2> DEFINE e == Skip(s, j, S)
             N == {k \in j .. e : f[k] # e}
  <2>1. e \in j .. Len(s) + 1 /\ At(s, e) \notin S /\ \A m \in j .. e - 1 : At(s, m) \in S
    BY SkipIs
  <2> HIDE DEF e
  <2>2. SUFFICES ASSUME N # {} PROVE FALSE
    BY <1>1, <2>1 DEF e
  <2>3. PICK k \in N : \A m \in N : m <= k
    <3>1. N \in SUBSET Int /\ e \in Int /\ \A m \in N : m <= e
      BY <1>1, <2>1
    <3> HIDE DEF N
    <3> QED
      BY <2>2, <3>1, GreatestNumber
  <2>4. k \in j .. e /\ f[k] # e
    BY <2>3
  <2>5. f[k] = IF At(s, k) \in S THEN f[k + 1] ELSE k
    BY <1>1, <1>6, <2>1, <2>4
  <2>6. k # e
    BY <2>1, <2>4, <2>5
  <2>7. At(s, k) \in S /\ k + 1 \in j .. e
    BY <1>1, <2>1, <2>4, <2>6
  <2>8. f[k + 1] = e
    BY <1>1, <2>3, <2>4, <2>7
  <2> QED
    BY <2>4, <2>5, <2>7, <2>8
<1> QED
  BY <1>4, <1>5, <1>6

(* The same for a loop that reads on until it meets a byte of a set.       *)
LEMMA FindIs ==
  ASSUME NEW s \in Texts, NEW j \in 1 .. Len(s) + 1, NEW S, "NUL" \in S
  PROVE  /\ Find(s, j, S) \in j .. Len(s) + 1
         /\ At(s, Find(s, j, S)) \in S
         /\ \A m \in j .. Find(s, j, S) - 1 : At(s, m) \notin S
<1> DEFINE N == {k \in j .. Len(s) + 1 : At(s, k) \in S}
<1>1. N \in SUBSET Nat /\ N # {}
  <2>1. Len(s) + 1 \in N
    BY DEF Texts, At
  <2> QED
    BY <2>1 DEF Texts
<1> HIDE DEF N
<1>2. PICK k \in N : \A m \in N : k <= m
  BY <1>1, LeastNumber
<1>3. k \in j .. Len(s) + 1 /\ At(s, k) \in S
  BY <1>2 DEF N
<1>4. \A m \in j .. k - 1 : At(s, m) \notin S
  BY <1>2, <1>3 DEF N, Texts
<1>5. k \in j .. j + Len(s)
  BY <1>3 DEF Texts
<1>6. Find(s, j, S) \in j .. j + Len(s) /\ At(s, Find(s, j, S)) \in S
      /\ \A m \in j .. Find(s, j, S) - 1 : At(s, m) \notin S
  BY <1>3, <1>4, <1>5 DEF Find
<1>7. Find(s, j, S) <= k
  BY <1>3, <1>6 DEF Texts
<1> QED
  BY <1>3, <1>6, <1>7 DEF Texts

(* The bytes of a text that are not in a set.                              *)
Others(s, S) == {At(s, k) : k \in 1 .. Len(s) + 2} \ S

LEMMA FindIsSkip ==
  ASSUME NEW s \in Texts, NEW j \in 1 .. Len(s) + 1, NEW S, "NUL" \in S
  PROVE  Find(s, j, S) = Skip(s, j, Others(s, S))
<1> DEFINE e == Find(s, j, S)
<1>1. /\ e \in j .. Len(s) + 1 /\ At(s, e) \in S
      /\ \A m \in j .. e - 1 : At(s, m) \notin S
  BY FindIs
<1> HIDE DEF e
<1>2. Len(s) \in Nat
  BY DEF Texts
<1>3. At(s, e) \notin Others(s, S) /\ "NUL" \notin Others(s, S)
  BY <1>1 DEF Others
<1>4. \A m \in j .. e - 1 : At(s, m) \in Others(s, S)
  BY <1>1, <1>2 DEF Others
<1> QED
  BY <1>1, <1>3, <1>4, SkipUnique DEF e

LEMMA WhileSpace ==
  ASSUME NEW s \in Texts, NEW j \in 1 .. Len(s) + 1
  PROVE  While(s, j, Isspace) = Skip(s, j, isSpace)
<1> DEFINE S == isSpace
           loop == CHOOSE f : f = [k \in j .. Len(s) + 2 |-> IF Isspace(At(s, k)) THEN f[k + 1] ELSE k]
           same(f) == f = [k \in j .. Len(s) + 2 |-> IF At(s, k) \in S THEN f[k + 1] ELSE k]
<1>1. While(s, j, Isspace) = loop[j]
  BY DEF While
<1>2. \A k \in j .. Len(s) + 2 : At(s, k) \in S <=> Isspace(At(s, k))
  BY DEF Isspace, isSpace
<1>3. \A f : same(f) <=> f = [k \in j .. Len(s) + 2 |-> IF Isspace(At(s, k)) THEN f[k + 1] ELSE k]
  <2> HIDE DEF S
  <2> QED
    BY <1>2
<1>4. "NUL" \notin S
  BY DEF Isspace, isSpace
<1>5. same(loop)
  <2>1. \E f : same(f)
    <3> HIDE DEF S
    <3> QED
      BY <1>4, LoopIsSkip
  <2> HIDE DEF same, S
  <2> QED
    BY <1>3, <2>1, Zenon
<1>6. loop[j] = Skip(s, j, S)
  <2> HIDE DEF loop, S
  <2> QED
    BY <1>4, <1>5, LoopIsSkip
<1> QED
  BY <1>1, <1>6

LEMMA WhileDigit ==
  ASSUME NEW s \in Texts, NEW j \in 1 .. Len(s) + 1
  PROVE  While(s, j, Isdigit) = Skip(s, j, isDigit)
<1> DEFINE S == isDigit
           loop == CHOOSE f : f = [k \in j .. Len(s) + 2 |-> IF Isdigit(At(s, k)) THEN f[k + 1] ELSE k]
           same(f) == f = [k \in j .. Len(s) + 2 |-> IF At(s, k) \in S THEN f[k + 1] ELSE k]
<1>1. While(s, j, Isdigit) = loop[j]
  BY DEF While
<1>2. \A k \in j .. Len(s) + 2 : At(s, k) \in S <=> Isdigit(At(s, k))
  BY DEF Isdigit, isDigit
<1>3. \A f : same(f) <=> f = [k \in j .. Len(s) + 2 |-> IF Isdigit(At(s, k)) THEN f[k + 1] ELSE k]
  <2> HIDE DEF S
  <2> QED
    BY <1>2
<1>4. "NUL" \notin S
  BY DEF Isdigit, isDigit
<1>5. same(loop)
  <2>1. \E f : same(f)
    <3> HIDE DEF S
    <3> QED
      BY <1>4, LoopIsSkip
  <2> HIDE DEF same, S
  <2> QED
    BY <1>3, <2>1, Zenon
<1>6. loop[j] = Skip(s, j, S)
  <2> HIDE DEF loop, S
  <2> QED
    BY <1>4, <1>5, LoopIsSkip
<1> QED
  BY <1>1, <1>6

LEMMA WhileHex ==
  ASSUME NEW s \in Texts, NEW j \in 1 .. Len(s) + 1
  PROVE  While(s, j, Isxdigit) = Skip(s, j, isHex)
<1> DEFINE S == isHex
           loop == CHOOSE f : f = [k \in j .. Len(s) + 2 |-> IF Isxdigit(At(s, k)) THEN f[k + 1] ELSE k]
           same(f) == f = [k \in j .. Len(s) + 2 |-> IF At(s, k) \in S THEN f[k + 1] ELSE k]
<1>1. While(s, j, Isxdigit) = loop[j]
  BY DEF While
<1>2. \A k \in j .. Len(s) + 2 : At(s, k) \in S <=> Isxdigit(At(s, k))
  BY DEF Isxdigit, isHex, isDigit
<1>3. \A f : same(f) <=> f = [k \in j .. Len(s) + 2 |-> IF Isxdigit(At(s, k)) THEN f[k + 1] ELSE k]
  <2> HIDE DEF S
  <2> QED
    BY <1>2
<1>4. "NUL" \notin S
  BY DEF Isxdigit, isHex, isDigit
<1>5. same(loop)
  <2>1. \E f : same(f)
    <3> HIDE DEF S
    <3> QED
      BY <1>4, LoopIsSkip
  <2> HIDE DEF same, S
  <2> QED
    BY <1>3, <2>1, Zenon
<1>6. loop[j] = Skip(s, j, S)
  <2> HIDE DEF loop, S
  <2> QED
    BY <1>4, <1>5, LoopIsSkip
<1> QED
  BY <1>1, <1>6

LEMMA WhileID ==
  ASSUME NEW s \in Texts, NEW j \in 1 .. Len(s) + 1
  PROVE  While(s, j, IdChar) = Skip(s, j, isIDChar)
<1> DEFINE S == isIDChar
           loop == CHOOSE f : f = [k \in j .. Len(s) + 2 |-> IF IdChar(At(s, k)) THEN f[k + 1] ELSE k]
           same(f) == f = [k \in j .. Len(s) + 2 |-> IF At(s, k) \in S THEN f[k + 1] ELSE k]
<1>1. While(s, j, IdChar) = loop[j]
  BY DEF While
<1>2. \A k \in j .. Len(s) + 2 : At(s, k) \in S <=> IdChar(At(s, k))
  BY DEF IdChar, aiClass, KeywordClass, isIDChar, isAlpha, isDigit, Lower, Upper, Words
<1>3. \A f : same(f) <=> f = [k \in j .. Len(s) + 2 |-> IF IdChar(At(s, k)) THEN f[k + 1] ELSE k]
  <2> HIDE DEF S
  <2> QED
    BY <1>2
<1>4. "NUL" \notin S
  BY DEF IdChar, aiClass, KeywordClass, isIDChar, isAlpha, isDigit, Lower, Upper, Words
<1>5. same(loop)
  <2>1. \E f : same(f)
    <3> HIDE DEF S
    <3> QED
      BY <1>4, LoopIsSkip
  <2> HIDE DEF same, S
  <2> QED
    BY <1>3, <2>1, Zenon
<1>6. loop[j] = Skip(s, j, S)
  <2> HIDE DEF loop, S
  <2> QED
    BY <1>4, <1>5, LoopIsSkip
<1> QED
  BY <1>1, <1>6

LEMMA WhileKeyword ==
  ASSUME NEW s \in Texts, NEW j \in 1 .. Len(s) + 1
  PROVE  While(s, j, LAMBDA c : aiClass(c) \in KeywordClass) = Skip(s, j, isKeywordChar)
<1> DEFINE S == isKeywordChar
           loop == CHOOSE f : f = [k \in j .. Len(s) + 2 |-> IF aiClass(At(s, k)) \in KeywordClass THEN f[k + 1] ELSE k]
           same(f) == f = [k \in j .. Len(s) + 2 |-> IF At(s, k) \in S THEN f[k + 1] ELSE k]
<1>1. While(s, j, LAMBDA c : aiClass(c) \in KeywordClass) = loop[j]
  BY DEF While
<1>2. \A k \in j .. Len(s) + 2 : At(s, k) \in S <=> aiClass(At(s, k)) \in KeywordClass
  BY DEF aiClass, KeywordClass, isKeywordChar, isAlpha, Lower, Upper, Words
<1>3. \A f : same(f) <=> f = [k \in j .. Len(s) + 2 |-> IF aiClass(At(s, k)) \in KeywordClass THEN f[k + 1] ELSE k]
  <2> HIDE DEF S
  <2> QED
    BY <1>2
<1>4. "NUL" \notin S
  BY DEF aiClass, KeywordClass, isKeywordChar, isAlpha, Lower, Upper, Words
<1>5. same(loop)
  <2>1. \E f : same(f)
    <3> HIDE DEF S
    <3> QED
      BY <1>4, LoopIsSkip
  <2> HIDE DEF same, S
  <2> QED
    BY <1>3, <2>1, Zenon
<1>6. loop[j] = Skip(s, j, S)
  <2> HIDE DEF loop, S
  <2> QED
    BY <1>4, <1>5, LoopIsSkip
<1> QED
  BY <1>1, <1>6

LEMMA UntilLine ==
  ASSUME NEW s \in Texts, NEW j \in 1 .. Len(s) + 1
  PROVE  While(s, j, LAMBDA c : c # "NUL" /\ c # "NL") = Find(s, j, {"NUL", "NL"})
<1> DEFINE S == Others(s, {"NUL", "NL"})
           loop == CHOOSE f : f = [k \in j .. Len(s) + 2 |-> IF At(s, k) # "NUL" /\ At(s, k) # "NL" THEN f[k + 1] ELSE k]
           same(f) == f = [k \in j .. Len(s) + 2 |-> IF At(s, k) \in S THEN f[k + 1] ELSE k]
<1>1. While(s, j, LAMBDA c : c # "NUL" /\ c # "NL") = loop[j]
  BY DEF While
<1>2. \A k \in j .. Len(s) + 2 : At(s, k) \in S <=> At(s, k) # "NUL" /\ At(s, k) # "NL"
  BY DEF Others, Texts
<1>3. \A f : same(f) <=> f = [k \in j .. Len(s) + 2 |-> IF At(s, k) # "NUL" /\ At(s, k) # "NL" THEN f[k + 1] ELSE k]
  <2> HIDE DEF S
  <2> QED
    BY <1>2
<1>4. "NUL" \notin S
  BY DEF Others
<1>5. same(loop)
  <2>1. \E f : same(f)
    <3> HIDE DEF S
    <3> QED
      BY <1>4, LoopIsSkip
  <2> HIDE DEF same, S
  <2> QED
    BY <1>3, <2>1, Zenon
<1>6. loop[j] = Skip(s, j, S)
  <2> HIDE DEF loop, S
  <2> QED
    BY <1>4, <1>5, LoopIsSkip
<1> QED
  BY <1>1, <1>6, FindIsSkip

LEMMA UntilArgument ==
  ASSUME NEW s \in Texts, NEW j \in 1 .. Len(s) + 1
  PROVE  While(s, j, LAMBDA c : c # "NUL" /\ ~Isspace(c) /\ c # ")") = Find(s, j, {"NUL", ")"} \cup isSpace)
<1> DEFINE S == Others(s, {"NUL", ")"} \cup isSpace)
           loop == CHOOSE f : f = [k \in j .. Len(s) + 2 |-> IF At(s, k) # "NUL" /\ ~Isspace(At(s, k)) /\ At(s, k) # ")" THEN f[k + 1] ELSE k]
           same(f) == f = [k \in j .. Len(s) + 2 |-> IF At(s, k) \in S THEN f[k + 1] ELSE k]
<1>1. While(s, j, LAMBDA c : c # "NUL" /\ ~Isspace(c) /\ c # ")") = loop[j]
  BY DEF While
<1>2. \A k \in j .. Len(s) + 2 : At(s, k) \in S <=> At(s, k) # "NUL" /\ ~Isspace(At(s, k)) /\ At(s, k) # ")"
  BY DEF Others, Isspace, isSpace, Texts
<1>3. \A f : same(f) <=> f = [k \in j .. Len(s) + 2 |-> IF At(s, k) # "NUL" /\ ~Isspace(At(s, k)) /\ At(s, k) # ")" THEN f[k + 1] ELSE k]
  <2> HIDE DEF S
  <2> QED
    BY <1>2
<1>4. "NUL" \notin S
  BY DEF Others, Isspace, isSpace
<1>5. same(loop)
  <2>1. \E f : same(f)
    <3> HIDE DEF S
    <3> QED
      BY <1>4, LoopIsSkip
  <2> HIDE DEF same, S
  <2> QED
    BY <1>3, <2>1, Zenon
<1>6. loop[j] = Skip(s, j, S)
  <2> HIDE DEF loop, S
  <2> QED
    BY <1>4, <1>5, LoopIsSkip
<1> QED
  BY <1>1, <1>6, FindIsSkip

LEMMA UntilQuote ==
  ASSUME NEW s \in Texts, NEW j \in 1 .. Len(s) + 1
  PROVE  While(s, j, LAMBDA c : c # "NUL" /\ c # "'") = Find(s, j, {"NUL", "'"})
<1> DEFINE S == Others(s, {"NUL", "'"})
           loop == CHOOSE f : f = [k \in j .. Len(s) + 2 |-> IF At(s, k) # "NUL" /\ At(s, k) # "'" THEN f[k + 1] ELSE k]
           same(f) == f = [k \in j .. Len(s) + 2 |-> IF At(s, k) \in S THEN f[k + 1] ELSE k]
<1>1. While(s, j, LAMBDA c : c # "NUL" /\ c # "'") = loop[j]
  BY DEF While
<1>2. \A k \in j .. Len(s) + 2 : At(s, k) \in S <=> At(s, k) # "NUL" /\ At(s, k) # "'"
  BY DEF Others, Texts
<1>3. \A f : same(f) <=> f = [k \in j .. Len(s) + 2 |-> IF At(s, k) # "NUL" /\ At(s, k) # "'" THEN f[k + 1] ELSE k]
  <2> HIDE DEF S
  <2> QED
    BY <1>2
<1>4. "NUL" \notin S
  BY DEF Others
<1>5. same(loop)
  <2>1. \E f : same(f)
    <3> HIDE DEF S
    <3> QED
      BY <1>4, LoopIsSkip
  <2> HIDE DEF same, S
  <2> QED
    BY <1>3, <2>1, Zenon
<1>6. loop[j] = Skip(s, j, S)
  <2> HIDE DEF loop, S
  <2> QED
    BY <1>4, <1>5, LoopIsSkip
<1> QED
  BY <1>1, <1>6, FindIsSkip

---------------------------------------------------------------------------
(* Comments, quoted and bracketed tokens.                                  *)
LEMMA CommentSame ==
  ASSUME NEW s \in Texts, NEW i \in 1 .. Len(s), At(s, i + 1) = "*", At(s, i + 2) # "NUL"
  PROVE  scanSlash(s, i) = Tk("COMMENT", comment(s, i))
<1> DEFINE hi == Len(s) + 1
           Ends(k) == At(s, k) = "NUL" \/ (At(s, k - 1) = "*" /\ At(s, k) = "/")
           Body(f, k) == IF At(s, k - 1) = "*" /\ At(s, k) = "/" THEN k + 1
                         ELSE IF At(s, k) = "NUL" THEN k ELSE f[k + 1]
           H == {k \in i + 3 .. hi : Ends(k)}
           val == [k \in i + 3 .. hi |-> IF At(s, k) = "NUL" THEN k ELSE k + 1]
           next == [k \in i + 3 .. hi |-> k + 1]
           loop == CHOOSE f : f = [k \in i + 3 .. hi |-> Body(f, k)]
<1>1. Len(s) \in Nat /\ i \in Nat /\ hi \in Int /\ i + 3 \in Int /\ i + 3 <= hi
  BY AtEndIsNUL DEF Texts
<1>2. \A k \in i + 3 .. hi : ~Ends(k) => k + 1 \in i + 3 .. hi
  BY <1>1, AtEndIsNUL DEF Texts
<1>3. comment(s, i) = loop[i + 3]
  BY DEF comment
<1>4. ASSUME NEW f
      PROVE  Jumps(f, i + 3, hi, H, next, val) <=> f = [k \in i + 3 .. hi |-> Body(f, k)]
  <2> DEFINE b(k) == IF k \in H THEN val[k] ELSE f[next[k]]
  <2>1. \A k \in i + 3 .. hi : Body(f, k) = b(k)
    OBVIOUS
  <2> HIDE DEF Body, b
  <2>2. [k \in i + 3 .. hi |-> Body(f, k)] = [k \in i + 3 .. hi |-> b(k)]
    BY <2>1
  <2> QED
    BY <2>2 DEF Jumps, b
<1>5. loop = [k \in i + 3 .. hi |-> Body(loop, k)]
  <2>1. Onward(i + 3, hi, H, next)
    BY <1>1, <1>2 DEF Onward
  <2>2. \E f : Jumps(f, i + 3, hi, H, next, val)
    <3> HIDE DEF hi, H, next, val
    <3> QED
      BY <1>1, <2>1, JumpsExists
  <2> HIDE DEF hi, H, next, val, Body
  <2> QED
    BY <1>4, <2>2
<1> HIDE DEF loop
<1> DEFINE N == {k \in i + 3 .. hi : Ends(k)}
<1>6. PICK e \in N : \A m \in N : e <= m
  <2>1. hi \in N
    BY <1>1 DEF At
  <2>2. N \in SUBSET Nat /\ N # {}
    BY <1>1, <2>1
  <2> HIDE DEF N
  <2> QED
    BY <2>2, LeastNumber
<1>7. e \in i + 3 .. hi /\ Ends(e) /\ \A m \in i + 3 .. e - 1 : ~Ends(m)
  BY <1>1, <1>6
<1> HIDE DEF N
<1>8. loop[i + 3] = loop[e]
  <2>1. \A k \in i + 3 .. e - 1 : loop[k] = loop[k + 1]
    BY <1>1, <1>5, <1>7
  <2> QED
    BY <1>1, <1>7, <2>1, SameAlong
<1>9. loop[e] = IF At(s, e) = "NUL" THEN e ELSE e + 1
  BY <1>5, <1>7
<1> DEFINE First(k) == k \in i + 3 .. i + 3 + Len(s) /\ Ends(k) /\ \A m \in i + 3 .. k - 1 : ~Ends(m)
           c == CHOOSE k \in i + 3 .. i + 3 + Len(s) : Ends(k) /\ \A m \in i + 3 .. k - 1 : ~Ends(m)
<1>10. c = e
  <2>1. First(e) /\ \A k : First(k) => k = e
    BY <1>1, <1>7
  <2>2. First(c)
    BY <2>1
  <2> QED
    BY <2>1, <2>2
<1> HIDE DEF Ends, First, c
<1>11. scanSlash(s, i) = Token("COMMENT", IF At(s, c) = "NUL" THEN c ELSE c + 1)
  BY DEF scanSlash, Ends, c
<1> QED
  BY <1>3, <1>8, <1>9, <1>10, <1>11 DEF Token, Tk

LEMMA BracketSame ==
  ASSUME NEW s \in Texts, NEW i \in 1 .. Len(s)
  PROVE  scanBracket(s, i) = bracketed(s, i)
<1> DEFINE hi == Len(s) + 1
           Body(f, k) == IF At(s, k) = "NUL" THEN Tk("ILLEGAL", k)
                         ELSE IF At(s, k) = "]" THEN Tk("ID", k + 1) ELSE f[k + 1]
           H == {k \in i + 1 .. hi : At(s, k) \in {"NUL", "]"}}
           val == [k \in i + 1 .. hi |-> IF At(s, k) = "]" THEN Tk("ID", k + 1) ELSE Tk("ILLEGAL", k)]
           next == [k \in i + 1 .. hi |-> k + 1]
           loop == CHOOSE f : f = [k \in i + 1 .. hi |-> Body(f, k)]
           e == Find(s, i + 1, {"NUL", "]"})
<1>1. Len(s) \in Nat /\ i \in Nat /\ hi \in Int /\ i + 1 \in Int /\ i + 1 <= hi
  BY DEF Texts
<1>2. bracketed(s, i) = loop[i + 1]
  BY DEF bracketed
<1>3. ASSUME NEW f
      PROVE  Jumps(f, i + 1, hi, H, next, val) <=> f = [k \in i + 1 .. hi |-> Body(f, k)]
  <2> DEFINE b(k) == IF k \in H THEN val[k] ELSE f[next[k]]
  <2>1. \A k \in i + 1 .. hi : Body(f, k) = b(k)
    OBVIOUS
  <2> HIDE DEF Body, b
  <2>2. [k \in i + 1 .. hi |-> Body(f, k)] = [k \in i + 1 .. hi |-> b(k)]
    BY <2>1
  <2> QED
    BY <2>2 DEF Jumps, b
<1>4. loop = [k \in i + 1 .. hi |-> Body(loop, k)]
  <2>1. Onward(i + 1, hi, H, next)
    BY <1>1, AtEndIsNUL DEF Onward
  <2>2. \E f : Jumps(f, i + 1, hi, H, next, val)
    <3> HIDE DEF hi, H, next, val
    <3>1. i + 1 <= hi + 1
      BY <1>1
    <3> QED
      BY <1>1, <2>1, <3>1, JumpsExists
  <2> HIDE DEF hi, H, next, val, Body
  <2> QED
    BY <1>3, <2>2
<1> HIDE DEF loop
<1>5. /\ e \in i + 1 .. hi /\ At(s, e) \in {"NUL", "]"}
      /\ \A m \in i + 1 .. e - 1 : At(s, m) \notin {"NUL", "]"}
  BY <1>1, FindIs
<1>6. scanBracket(s, i) = IF At(s, e) = "]" THEN Token("ID", e + 1) ELSE Token("ILLEGAL", e)
  BY DEF scanBracket
<1> HIDE DEF e
<1>7. loop[i + 1] = loop[e]
  <2>1. \A k \in i + 1 .. e - 1 : loop[k] = loop[k + 1]
    BY <1>1, <1>4, <1>5
  <2> QED
    BY <1>1, <1>5, <2>1, SameAlong
<1>8. loop[e] = IF At(s, e) = "]" THEN Tk("ID", e + 1) ELSE Tk("ILLEGAL", e)
  BY <1>4, <1>5
<1> QED
  BY <1>2, <1>6, <1>7, <1>8 DEF Token, Tk

(* Where a quoted token closes, as an equation.                            *)
ClosingLoop(s, i, f) ==
  f = [k \in i + 1 .. Len(s) + 2 |->
        CASE At(s, k) = "NUL" -> k
          [] At(s, k) = s[i]  -> IF At(s, k + 1) = s[i] THEN f[k + 2] ELSE k
          [] OTHER            -> f[k + 1]]

LEMMA ClosingIs ==
  ASSUME NEW s \in Texts, NEW i \in 1 .. Len(s), s[i] # "NUL"
  PROVE  \E f : ClosingLoop(s, i, f) /\ closing(s, i) = f[i + 1]
<1> DEFINE hi == Len(s) + 2
           H == {k \in i + 1 .. hi : At(s, k) = "NUL" \/ (At(s, k) = s[i] /\ At(s, k + 1) # s[i])}
           val == [k \in i + 1 .. hi |-> k]
           next == [k \in i + 1 .. hi |-> IF At(s, k) = s[i] THEN k + 2 ELSE k + 1]
           loop == CHOOSE f : ClosingLoop(s, i, f)
<1>1. Len(s) \in Nat /\ i \in Nat /\ hi \in Int /\ i + 1 \in Int /\ i + 1 <= hi + 1
  BY DEF Texts
<1>2. closing(s, i) = loop[i + 1]
  BY DEF closing, ClosingLoop
<1>3. ASSUME NEW f
      PROVE  Jumps(f, i + 1, hi, H, next, val) <=> ClosingLoop(s, i, f)
  <2> DEFINE a(k) == CASE At(s, k) = "NUL" -> k
                       [] At(s, k) = s[i]  -> IF At(s, k + 1) = s[i] THEN f[k + 2] ELSE k
                       [] OTHER            -> f[k + 1]
             b(k) == IF k \in H THEN val[k] ELSE f[next[k]]
  <2>1. \A k \in i + 1 .. hi : a(k) = b(k)
    OBVIOUS
  <2> HIDE DEF a, b
  <2>2. [k \in i + 1 .. hi |-> a(k)] = [k \in i + 1 .. hi |-> b(k)]
    BY <2>1
  <2> QED
    BY <2>2 DEF Jumps, ClosingLoop, a, b
<1>4. Onward(i + 1, hi, H, next)
  <2> SUFFICES ASSUME NEW k \in i + 1 .. hi, k \notin H PROVE next[k] \in k + 1 .. hi
    BY DEF Onward
  <2>1. k <= Len(s)
    BY <1>1, AtEndIsNUL
  <2> QED
    BY <1>1, <2>1
<1>5. \E f : Jumps(f, i + 1, hi, H, next, val)
  <2> HIDE DEF hi, H, next, val
  <2> QED
    BY <1>1, <1>4, JumpsExists
<1>6. ClosingLoop(s, i, loop)
  <2> HIDE DEF hi, H, next, val
  <2> QED
    BY <1>3, <1>5
<1> QED
  BY <1>2, <1>6

LEMMA QuoteSame ==
  ASSUME NEW s \in Texts, NEW i \in 1 .. Len(s), s[i] # "NUL"
  PROVE  scanQuote(s, i) = quoted(s, i)
<1> DEFINE hi == Len(s) + 2
           Body(f, k) == IF At(s, k) = "NUL" THEN Tk("ILLEGAL", k)
                         ELSE IF At(s, k) # s[i] THEN f[k + 1]
                         ELSE IF At(s, k + 1) = s[i] THEN f[k + 2]
                         ELSE Tk(IF s[i] = "'" THEN "STRING" ELSE "ID", k + 1)
           End(k) == CASE At(s, k) = "NUL" -> Tk("ILLEGAL", k)
                       [] At(s, k) = "'"   -> Tk("STRING", k + 1)
                       [] OTHER            -> Tk("ID", k + 1)
           loop == CHOOSE f : f = [k \in i + 1 .. hi |-> Body(f, k)]
<1>1. Len(s) \in Nat /\ i \in Nat /\ hi \in Int /\ i + 1 \in Int /\ i + 1 <= hi
  BY DEF Texts
<1>2. quoted(s, i) = loop[i + 1]
  BY DEF quoted
<1>3. PICK c : ClosingLoop(s, i, c) /\ closing(s, i) = c[i + 1]
  BY ClosingIs
<1>4. \A k \in i + 1 .. hi : At(s, k) # "NUL" => k <= Len(s)
  BY <1>1, AtEndIsNUL
<1>5. \A k \in i + 1 .. hi :
        c[k] = CASE At(s, k) = "NUL" -> k
                 [] At(s, k) = s[i]  -> IF At(s, k + 1) = s[i] THEN c[k + 2] ELSE k
                 [] OTHER            -> c[k + 1]
  BY <1>3 DEF ClosingLoop
<1> DEFINE g == [k \in i + 1 .. hi |-> End(c[k])]
<1>6. \A k \in i + 1 .. hi : g[k] = Body(g, k)
  <2> SUFFICES ASSUME NEW k \in i + 1 .. hi PROVE g[k] = Body(g, k)
    OBVIOUS
  <2>1. CASE At(s, k) = "NUL"
    BY <1>5, <2>1
  <2>2. CASE At(s, k) # "NUL" /\ At(s, k) = s[i] /\ At(s, k + 1) = s[i]
    BY <1>1, <1>4, <1>5, <2>2
  <2>3. CASE At(s, k) # "NUL" /\ At(s, k) = s[i] /\ At(s, k + 1) # s[i]
    BY <1>5, <2>3
  <2>4. CASE At(s, k) # "NUL" /\ At(s, k) # s[i]
    BY <1>1, <1>4, <1>5, <2>4
  <2> QED
    BY <2>1, <2>2, <2>3, <2>4
<1>7. loop = [k \in i + 1 .. hi |-> Body(loop, k)]
  <2>1. g = [k \in i + 1 .. hi |-> Body(g, k)]
    <3> HIDE DEF Body
    <3> QED
      BY <1>6
  <2> HIDE DEF Body, g
  <2> QED
    BY <2>1
<1> HIDE DEF loop, End
<1>8. loop[i + 1] = g[i + 1]
  <2> DEFINE N == {k \in i + 1 .. hi : loop[k] # g[k]}
  <2> SUFFICES ASSUME N # {} PROVE FALSE
    BY <1>1
  <2>1. PICK k \in N : \A m \in N : m <= k
    <3>1. N \in SUBSET Int /\ \A m \in N : m <= hi
      BY <1>1
    <3> HIDE DEF N
    <3> QED
      BY <1>1, <3>1, GreatestNumber
  <2>2. k \in i + 1 .. hi /\ loop[k] # g[k]
    BY <2>1
  <2>3. loop[k] = Body(loop, k) /\ g[k] = Body(g, k)
    BY <1>6, <1>7, <2>2
  <2>4. \A m \in i + 1 .. hi : k < m => loop[m] = g[m]
    BY <1>1, <2>1
  <2>5. At(s, k) # "NUL"
    BY <2>2, <2>3
  <2>6. k + 1 \in i + 1 .. hi /\ k + 2 \in i + 1 .. hi
    BY <1>1, <1>4, <2>2, <2>5
  <2>7. loop[k + 1] = g[k + 1] /\ loop[k + 2] = g[k + 2]
    BY <1>1, <2>2, <2>4, <2>6
  <2> HIDE DEF g
  <2> QED
    BY <2>2, <2>3, <2>7
<1>9. scanQuote(s, i) = End(closing(s, i))
  BY DEF scanQuote, End, Token, Tk
<1> QED
  BY <1>1, <1>2, <1>3, <1>8, <1>9

---------------------------------------------------------------------------
(* Variables. How far the name goes from each position, as an equation.    *)
NameLoop(s, i, f) ==
  f = [k \in i + 1 .. Len(s) + 2 |->
        CASE At(s, k) \in isIDChar                -> f[k + 1]
          [] At(s, k) = ":" /\ At(s, k + 1) = ":" -> f[k + 2]
          [] OTHER                                -> k]

LEMMA NameIs ==
  ASSUME NEW s \in Texts, NEW i \in 1 .. Len(s)
  PROVE  \E f : NameLoop(s, i, f) /\ nameEnd(s, i) = f[i + 1]
<1> DEFINE hi == Len(s) + 2
           On(k) == At(s, k) \in isIDChar \/ (At(s, k) = ":" /\ At(s, k + 1) = ":")
           H == {k \in i + 1 .. hi : ~On(k)}
           val == [k \in i + 1 .. hi |-> k]
           next == [k \in i + 1 .. hi |-> IF At(s, k) \in isIDChar THEN k + 1 ELSE k + 2]
           loop == CHOOSE f : NameLoop(s, i, f)
<1>1. Len(s) \in Nat /\ i \in Nat /\ hi \in Int /\ i + 1 \in Int /\ i + 1 <= hi + 1
  BY DEF Texts
<1>2. nameEnd(s, i) = loop[i + 1]
  BY DEF nameEnd, NameLoop
<1>3. ":" \notin isIDChar /\ "NUL" \notin isIDChar
  BY DEF isIDChar, isAlpha, isDigit, Lower, Upper
<1>4. ASSUME NEW f
      PROVE  Jumps(f, i + 1, hi, H, next, val) <=> NameLoop(s, i, f)
  <2> DEFINE a(k) == CASE At(s, k) \in isIDChar                -> f[k + 1]
                       [] At(s, k) = ":" /\ At(s, k + 1) = ":" -> f[k + 2]
                       [] OTHER                                -> k
             b(k) == IF k \in H THEN val[k] ELSE f[next[k]]
  <2>1. \A k \in i + 1 .. hi : a(k) = b(k)
    BY <1>3
  <2> HIDE DEF a, b
  <2>2. [k \in i + 1 .. hi |-> a(k)] = [k \in i + 1 .. hi |-> b(k)]
    BY <2>1
  <2> QED
    BY <2>2 DEF Jumps, NameLoop, a, b
<1>5. Onward(i + 1, hi, H, next)
  <2> SUFFICES ASSUME NEW k \in i + 1 .. hi, On(k) PROVE next[k] \in k + 1 .. hi
    BY DEF Onward
  <2>1. k <= Len(s)
    BY <1>1, <1>3, AtEndIsNUL
  <2> QED
    BY <1>1, <2>1
<1>6. \E f : Jumps(f, i + 1, hi, H, next, val)
  <2> HIDE DEF hi, H, next, val
  <2> QED
    BY <1>1, <1>5, JumpsExists
<1>7. NameLoop(s, i, loop)
  <2> HIDE DEF hi, H, next, val
  <2> QED
    BY <1>4, <1>6
<1> QED
  BY <1>2, <1>7

(* The name ends after the position it is looked for from, in the text;    *)
(* where it goes on it ends at the same place, and what is counted is the  *)
(* same but for the byte itself.                                           *)
LEMMA NameSteps ==
  ASSUME NEW s \in Texts, NEW i \in 1 .. Len(s), NEW f, NameLoop(s, i, f)
  PROVE  \A k \in i + 1 .. Len(s) + 1 :
           /\ f[k] \in k .. Len(s) + 1
           /\ At(s, f[k]) \notin isIDChar /\ ~(At(s, f[k]) = ":" /\ At(s, f[k] + 1) = ":")
<1> DEFINE Good(k) == /\ f[k] \in k .. Len(s) + 1
                      /\ At(s, f[k]) \notin isIDChar /\ ~(At(s, f[k]) = ":" /\ At(s, f[k] + 1) = ":")
           N == {k \in i + 1 .. Len(s) + 1 : ~Good(k)}
<1> SUFFICES ASSUME N # {} PROVE FALSE
  OBVIOUS
<1>1. Len(s) \in Nat /\ i \in Nat
  BY DEF Texts
<1>2. PICK k \in N : \A m \in N : m <= k
  <2>1. N \in SUBSET Int /\ Len(s) + 1 \in Int /\ \A m \in N : m <= Len(s) + 1
    BY <1>1
  <2> HIDE DEF N
  <2> QED
    BY <2>1, GreatestNumber
<1>3. k \in i + 1 .. Len(s) + 1 /\ ~Good(k)
  BY <1>2
<1>4. f[k] = CASE At(s, k) \in isIDChar                -> f[k + 1]
               [] At(s, k) = ":" /\ At(s, k + 1) = ":" -> f[k + 2]
               [] OTHER                                -> k
  <2> DEFINE a(m) == CASE At(s, m) \in isIDChar                -> f[m + 1]
                       [] At(s, m) = ":" /\ At(s, m + 1) = ":" -> f[m + 2]
                       [] OTHER                                -> m
  <2>1. f = [m \in i + 1 .. Len(s) + 2 |-> a(m)]
    BY DEF NameLoop
  <2> HIDE DEF N, Good, a
  <2>2. f[k] = a(k)
    BY <1>1, <1>3, <2>1
  <2> QED
    BY <2>2 DEF a
<1>5. ":" \notin isIDChar /\ "NUL" \notin isIDChar
  BY DEF isIDChar, isAlpha, isDigit, Lower, Upper
<1>6. \A m \in k + 1 .. Len(s) + 1 : Good(m)
  BY <1>1, <1>2, <1>3
<1>7. CASE At(s, k) \in isIDChar
  <2>1. k + 1 \in k + 1 .. Len(s) + 1
    BY <1>1, <1>3, <1>5, <1>7, AtEndIsNUL
  <2>2. Good(k + 1) /\ f[k] = f[k + 1]
    BY <1>4, <1>6, <1>7, <2>1
  <2> QED
    BY <1>1, <1>3, <2>2
<1>8. CASE At(s, k) \notin isIDChar /\ At(s, k) = ":" /\ At(s, k + 1) = ":"
  <2>1. k + 2 \in k + 1 .. Len(s) + 1
    BY <1>1, <1>3, <1>8, AtEndIsNUL
  <2>2. Good(k + 2) /\ f[k] = f[k + 2]
    BY <1>4, <1>6, <1>8, <2>1
  <2> QED
    BY <1>1, <1>3, <2>2
<1>9. CASE At(s, k) \notin isIDChar /\ ~(At(s, k) = ":" /\ At(s, k + 1) = ":")
  BY <1>1, <1>3, <1>4, <1>9
<1> QED
  BY <1>7, <1>8, <1>9

LEMMA VariableSame ==
  ASSUME NEW s \in Texts, NEW i \in 1 .. Len(s)
  PROVE  scanVariable(s, i) = variable(s, i)
<1> DEFINE hi == Len(s) + 2
           Argument(k) == LET r == While(s, k + 1, LAMBDA c : c # "NUL" /\ ~Isspace(c) /\ c # ")")
                          IN IF At(s, r) = ")" THEN Tk("VARIABLE", r + 1) ELSE Tk("ILLEGAL", r)
           Body(f, k, n) ==
             IF IdChar(At(s, k)) THEN f[k + 1][n + 1]
             ELSE IF At(s, k) = "(" /\ n > 0 THEN Argument(k)
             ELSE IF At(s, k) = ":" /\ At(s, k + 1) = ":" THEN f[k + 2][n]
             ELSE Tk(IF n = 0 THEN "ILLEGAL" ELSE "VARIABLE", k)
           loop == CHOOSE f : f = [k \in i + 1 .. hi |-> [n \in Nat |-> Body(f, k, n)]]
<1>1. Len(s) \in Nat /\ i \in Nat /\ hi \in Int /\ i + 1 \in Int /\ i + 1 <= hi
  BY DEF Texts
<1>2. variable(s, i) = loop[i + 1][0]
  BY DEF variable
<1>3. PICK c : NameLoop(s, i, c) /\ nameEnd(s, i) = c[i + 1]
  BY NameIs
<1>4. /\ ":" \notin isIDChar /\ "NUL" \notin isIDChar /\ "(" \notin isIDChar
      /\ \A b : IdChar(b) <=> b \in isIDChar
  <2>1. ":" \notin isIDChar /\ "NUL" \notin isIDChar /\ "(" \notin isIDChar
    BY DEF isIDChar, isAlpha, isDigit, Lower, Upper
  <2>2. \A b : IdChar(b) <=> b \in isIDChar
    BY DEF IdChar, aiClass, KeywordClass, isIDChar, isAlpha, isDigit, Lower, Upper, Words
  <2> QED
    BY <2>1, <2>2
<1>5. \A k \in i + 1 .. hi : At(s, k) # "NUL" => k <= Len(s)
  BY <1>1, AtEndIsNUL
<1> DEFINE on(k) == CASE At(s, k) \in isIDChar                -> c[k + 1]
                      [] At(s, k) = ":" /\ At(s, k + 1) = ":" -> c[k + 2]
                      [] OTHER                                -> k
<1>6. \A k \in i + 1 .. hi : c[k] = on(k)
  BY <1>3 DEF NameLoop
<1> HIDE DEF on
<1> DEFINE Counted(k, n) == n > 0 \/ \E m \in k .. c[k] - 1 : At(s, m) \in isIDChar
           End(k, n) == IF Counted(k, n) /\ At(s, c[k]) = "(" THEN Argument(c[k])
                        ELSE Tk(IF Counted(k, n) THEN "VARIABLE" ELSE "ILLEGAL", c[k])
           g == [k \in i + 1 .. hi |-> [n \in Nat |-> End(k, n)]]
<1> HIDE DEF Argument
<1>7. \A k \in i + 1 .. hi, n \in Nat : g[k][n] = Body(g, k, n)
  <2> SUFFICES ASSUME NEW k \in i + 1 .. hi, NEW n \in Nat PROVE End(k, n) = Body(g, k, n)
    OBVIOUS
  <2>0. (\A m \in i + 1 .. Len(s) + 1 : c[m] \in m .. Len(s) + 1) /\ c[k] = on(k)
    BY <1>3, <1>6, NameSteps
  <2>1. CASE At(s, k) \in isIDChar
    <3>1. k + 1 \in i + 1 .. hi /\ k + 1 \in i + 1 .. Len(s) + 1 /\ n + 1 \in Nat
      BY <1>1, <1>4, <1>5, <2>1
    <3>2. c[k] = c[k + 1] /\ c[k + 1] \in k + 1 .. Len(s) + 1
      <4>1. c[k] = c[k + 1]
        BY <1>4, <2>0, <2>1 DEF on
      <4>2. c[k + 1] \in k + 1 .. Len(s) + 1
        BY <2>0, <3>1
      <4> QED
        BY <4>1, <4>2
    <3>3. Counted(k, n) /\ Counted(k + 1, n + 1)
      BY <1>1, <2>1, <3>2
    <3>4. End(k, n) = End(k + 1, n + 1)
      BY <3>2, <3>3
    <3> QED
      BY <1>4, <2>1, <3>1, <3>4
  <2>2. CASE At(s, k) \notin isIDChar /\ At(s, k) = ":" /\ At(s, k + 1) = ":"
    <3>1. k + 2 \in i + 1 .. hi /\ k + 2 \in i + 1 .. Len(s) + 1
      BY <1>1, <1>5, <2>2, AtEndIsNUL
    <3>2. c[k] = c[k + 2] /\ c[k + 2] \in k + 2 .. Len(s) + 1
      BY <2>0, <2>2, <3>1 DEF on
    <3>3. Counted(k, n) <=> Counted(k + 2, n)
      BY <1>1, <1>4, <2>2, <3>2
    <3>4. End(k, n) = End(k + 2, n)
      BY <3>2, <3>3
    <3> QED
      BY <1>4, <2>2, <3>1, <3>4
  <2>3. CASE At(s, k) \notin isIDChar /\ ~(At(s, k) = ":" /\ At(s, k + 1) = ":")
    <3>1. c[k] = k
      BY <2>0, <2>3 DEF on
    <3>2. Counted(k, n) <=> n > 0
      BY <1>1, <3>1
    <3> QED
      BY <1>4, <2>3, <3>1, <3>2
  <2> QED
    BY <2>1, <2>2, <2>3
<1>8. loop = [k \in i + 1 .. hi |-> [n \in Nat |-> Body(loop, k, n)]]
  <2>1. g = [k \in i + 1 .. hi |-> [n \in Nat |-> Body(g, k, n)]]
    <3> HIDE DEF Body
    <3> QED
      BY <1>7
  <2> HIDE DEF Body, g
  <2> QED
    BY <2>1
<1> HIDE DEF loop, End
<1>9. loop[i + 1][0] = g[i + 1][0]
  <2> DEFINE N == {k \in i + 1 .. hi : \E n \in Nat : loop[k][n] # g[k][n]}
  <2> SUFFICES ASSUME N # {} PROVE FALSE
    BY <1>1
  <2>1. PICK k \in N : \A m \in N : m <= k
    <3>1. N \in SUBSET Int /\ \A m \in N : m <= hi
      BY <1>1
    <3> HIDE DEF N
    <3> QED
      BY <1>1, <3>1, GreatestNumber
  <2>2. PICK n \in Nat : loop[k][n] # g[k][n]
    BY <2>1
  <2>3. k \in i + 1 .. hi
    BY <2>1
  <2>4. loop[k][n] = Body(loop, k, n) /\ g[k][n] = Body(g, k, n)
    <3> HIDE DEF Body, g, N
    <3>1. g[k][n] = Body(g, k, n)
      BY <1>7, <2>3
    <3>2. loop[k] = [q \in Nat |-> Body(loop, k, q)]
      BY <1>8, <2>3
    <3> QED
      BY <3>1, <3>2
  <2>5. \A m \in i + 1 .. hi : k < m => \A q \in Nat : loop[m][q] = g[m][q]
    BY <1>1, <2>1
  <2>6. At(s, k) # "NUL"
    BY <1>4, <2>2, <2>4
  <2>7. k + 1 \in i + 1 .. hi /\ k + 2 \in i + 1 .. hi
    BY <1>1, <1>5, <2>3, <2>6
  <2>8. loop[k + 1][n + 1] = g[k + 1][n + 1] /\ loop[k + 2][n] = g[k + 2][n]
    <3> HIDE DEF g, Body
    <3>1. n \in Nat /\ n + 1 \in Nat /\ k < k + 1 /\ k < k + 2
      BY <1>1, <2>3
    <3> QED
      BY <2>5, <2>7, <3>1
  <2> HIDE DEF g
  <2> QED
    BY <2>2, <2>4, <2>8
<1> DEFINE e == nameEnd(s, i)
           named == \E m \in i + 1 .. e - 1 : s[m] \in isIDChar
           r == Find(s, e + 1, {"NUL", ")"} \cup isSpace)
<1>10. g[i + 1][0] = End(i + 1, 0)
  BY <1>1
<1>11. e = c[i + 1] /\ e \in i + 1 .. Len(s) + 1
  BY <1>1, <1>3, NameSteps
<1>12. Counted(i + 1, 0) <=> named
  <2>1. \A m \in i + 1 .. e - 1 : At(s, m) = s[m]
    BY <1>1, <1>11 DEF At
  <2> QED
    BY <1>1, <1>11, <2>1
<1>13. At(s, e) = "(" => Argument(e) = IF At(s, r) = ")" THEN Tk("VARIABLE", r + 1) ELSE Tk("ILLEGAL", r)
  <2> SUFFICES ASSUME At(s, e) = "("
               PROVE  Argument(e) = IF At(s, r) = ")" THEN Tk("VARIABLE", r + 1) ELSE Tk("ILLEGAL", r)
    OBVIOUS
  <2>1. e + 1 \in 1 .. Len(s) + 1
    BY <1>1, <1>11, AtEndIsNUL
  <2>2. While(s, e + 1, LAMBDA b : b # "NUL" /\ ~Isspace(b) /\ b # ")") = r
    BY <2>1, UntilArgument
  <2> QED
    BY <2>2 DEF Argument
<1>14. scanVariable(s, i) =
         CASE ~named -> Token("ILLEGAL", e)
           [] named /\ At(s, e) = "(" -> IF At(s, r) = ")" THEN Token("VARIABLE", r + 1) ELSE Token("ILLEGAL", r)
           [] OTHER -> Token("VARIABLE", e)
  BY DEF scanVariable
<1> HIDE DEF e, named, r, Counted
<1> QED
  BY <1>2, <1>9, <1>10, <1>11, <1>12, <1>13, <1>14 DEF End, Token, Tk

---------------------------------------------------------------------------
(* Numbers. One step of what is read on.                                   *)
LEMMA SkipNext ==
  ASSUME NEW s \in Texts, NEW k \in 1 .. Len(s) + 1, NEW S, "NUL" \notin S
  PROVE  /\ At(s, k) \notin S => Skip(s, k, S) = k
         /\ At(s, k) \in S => k <= Len(s) /\ Skip(s, k, S) = Skip(s, k + 1, S)
<1>1. Len(s) \in Nat /\ k \in Nat
  BY DEF Texts
<1>2. ASSUME At(s, k) \notin S PROVE Skip(s, k, S) = k
  <2>1. k \in k .. Len(s) + 1 /\ \A m \in k .. k - 1 : At(s, m) \in S
    BY <1>1
  <2> QED
    BY <1>2, <2>1, SkipUnique
<1>3. ASSUME At(s, k) \in S PROVE k <= Len(s) /\ Skip(s, k, S) = Skip(s, k + 1, S)
  <2> DEFINE e == Skip(s, k + 1, S)
  <2>1. k <= Len(s) /\ k + 1 \in 1 .. Len(s) + 1
    BY <1>1, <1>3, AtEndIsNUL
  <2>2. e \in k + 1 .. Len(s) + 1 /\ At(s, e) \notin S /\ \A m \in k + 1 .. e - 1 : At(s, m) \in S
    BY <2>1, SkipIs
  <2> HIDE DEF e
  <2>3. e \in k .. Len(s) + 1 /\ \A m \in k .. e - 1 : At(s, m) \in S
    BY <1>1, <1>3, <2>2
  <2>4. Skip(s, k, S) = e
    BY <2>2, <2>3, SkipUnique
  <2> QED
    BY <2>1, <2>4 DEF e
<1> QED
  BY <1>2, <1>3

NumberKinds == {"INTEGER", "FLOAT", "QNUMBER"}

(* A separator between two positions, and what it makes of a number.       *)
Separated(s, j, e) == \E m \in j .. e - 1 : At(s, m) = "US"
Number(s, t, j, e) == Tk(IF Separated(s, j, e) THEN "QNUMBER" ELSE t, e)

(* The digits of a number, as an equation.                                 *)
DigitsLoop(s, j, S, f) ==
  f = [k \in j .. Len(s) + 2 |->
        [t \in NumberKinds |->
          CASE At(s, k) \in S    -> f[k + 1][t]
            [] At(s, k) = "US" -> f[k + 1]["QNUMBER"]
            [] OTHER           -> Tk(t, k)]]

LEMMA DigitsLoopIs ==
  ASSUME NEW s \in Texts, NEW j \in 1 .. Len(s) + 1, NEW S, "NUL" \notin S, "US" \notin S
  PROVE  /\ \E f : DigitsLoop(s, j, S, f)
         /\ \A f : DigitsLoop(s, j, S, f) =>
              \A t \in NumberKinds : f[j][t] = Number(s, t, j, Skip(s, j, S \cup {"US"}))
<1> DEFINE hi == Len(s) + 2
           R == S \cup {"US"}
           Body(f, k, t) == CASE At(s, k) \in S    -> f[k + 1][t]
                              [] At(s, k) = "US" -> f[k + 1]["QNUMBER"]
                              [] OTHER           -> Tk(t, k)
           End(k, t) == IF k <= Len(s) + 1 THEN Number(s, t, k, Skip(s, k, R)) ELSE Tk(t, k)
           g == [k \in j .. hi |-> [t \in NumberKinds |-> End(k, t)]]
<1>1. Len(s) \in Nat /\ j \in Nat /\ hi \in Int
  BY DEF Texts
<1>2. "NUL" \notin R /\ S \subseteq R /\ "US" \in R /\ R \subseteq S \cup {"US"}
  OBVIOUS
<1> HIDE DEF R
<1>3. \A k \in j .. hi : At(s, k) # "NUL" => k <= Len(s)
  BY <1>1, AtEndIsNUL
<1>4. \A k \in j .. hi, t \in NumberKinds : End(k, t) = Body(g, k, t)
  <2> SUFFICES ASSUME NEW k \in j .. hi, NEW t \in NumberKinds PROVE End(k, t) = Body(g, k, t)
    OBVIOUS
  <2> DEFINE e == Skip(s, k + 1, R)
  <2>1. ASSUME At(s, k) \in R
        PROVE  /\ k + 1 \in j .. hi /\ k + 1 <= Len(s) + 1 /\ k <= Len(s) + 1
               /\ Skip(s, k, R) = e /\ e \in k + 1 .. Len(s) + 1
    <3>1. k <= Len(s) /\ k \in 1 .. Len(s) + 1 /\ k + 1 \in 1 .. Len(s) + 1
      BY <1>1, <1>2, <1>3, <2>1
    <3>2. Skip(s, k, R) = e
      BY <1>2, <2>1, <3>1, SkipNext
    <3>3. e \in k + 1 .. Len(s) + 1
      BY <1>2, <3>1, SkipIs
    <3> QED
      BY <1>1, <3>1, <3>2, <3>3
  <2> HIDE DEF e
  <2>2. CASE At(s, k) \in S
    <3>1. /\ k + 1 \in j .. hi /\ k + 1 <= Len(s) + 1 /\ k <= Len(s) + 1
          /\ Skip(s, k, R) = e /\ e \in k + 1 .. Len(s) + 1
      BY <1>2, <2>1, <2>2
    <3>2. Separated(s, k, e) <=> Separated(s, k + 1, e)
      BY <1>1, <2>2, <3>1 DEF Separated
    <3>3. End(k, t) = End(k + 1, t)
      BY <3>1, <3>2 DEF e, Number
    <3>4. g[k + 1][t] = End(k + 1, t)
      BY <3>1
    <3> HIDE DEF g, End
    <3> QED
      BY <2>2, <3>3, <3>4
  <2>3. CASE At(s, k) = "US"
    <3>1. /\ k + 1 \in j .. hi /\ k + 1 <= Len(s) + 1 /\ k <= Len(s) + 1
          /\ Skip(s, k, R) = e /\ e \in k + 1 .. Len(s) + 1
      BY <1>2, <2>1, <2>3
    <3>2. Separated(s, k, e)
      BY <1>1, <2>3, <3>1 DEF Separated
    <3>3. End(k, t) = End(k + 1, "QNUMBER")
      BY <3>1, <3>2 DEF e, Number
    <3>4. g[k + 1]["QNUMBER"] = End(k + 1, "QNUMBER")
      BY <3>1 DEF NumberKinds
    <3> HIDE DEF g, End
    <3> QED
      BY <2>3, <3>3, <3>4
  <2>4. CASE At(s, k) \notin R
    <3>1. CASE k <= Len(s) + 1
      <4>1. Skip(s, k, R) = k
        BY <1>1, <1>2, <2>4, <3>1, SkipNext
      <4>2. ~Separated(s, k, k)
        BY <1>1 DEF Separated
      <4> QED
        BY <1>2, <2>4, <3>1, <4>1, <4>2 DEF Number
    <3>2. CASE k > Len(s) + 1
      BY <1>1, <1>2, <2>4, <3>2
    <3> QED
      BY <1>1, <3>1, <3>2
  <2> QED
    BY <1>2, <2>2, <2>3, <2>4
<1>5. ASSUME NEW f PROVE DigitsLoop(s, j, S, f) <=> f = [k \in j .. hi |-> [t \in NumberKinds |-> Body(f, k, t)]]
  BY DEF DigitsLoop
<1>6. DigitsLoop(s, j, S, g)
  <2>1. g = [k \in j .. hi |-> [t \in NumberKinds |-> Body(g, k, t)]]
    <3> HIDE DEF Body, End
    <3> QED
      BY <1>4
  <2> HIDE DEF g
  <2> QED
    BY <1>5, <2>1
<1>7. ASSUME NEW f, DigitsLoop(s, j, S, f), NEW t \in NumberKinds
      PROVE  f[j][t] = Number(s, t, j, Skip(s, j, R))
  <2> DEFINE N == {k \in j .. hi : \E q \in NumberKinds : f[k][q] # g[k][q]}
  <2>1. f = [k \in j .. hi |-> [q \in NumberKinds |-> Body(f, k, q)]]
    BY <1>5, <1>7
  <2>2. N = {}
    <3> SUFFICES ASSUME N # {} PROVE FALSE
      OBVIOUS
    <3>1. PICK k \in N : \A m \in N : m <= k
      <4>1. N \in SUBSET Int /\ \A m \in N : m <= hi
        BY <1>1
      <4> HIDE DEF N, hi
      <4> QED
        BY <1>1, <4>1, GreatestNumber
    <3>2. PICK q \in NumberKinds : f[k][q] # g[k][q]
      BY <3>1
    <3>3. k \in j .. hi
      BY <3>1
    <3>4. f[k][q] = Body(f, k, q) /\ g[k][q] = Body(g, k, q)
      <4> HIDE DEF Body, N
      <4>1. g[k][q] = End(k, q)
        BY <3>3
      <4>2. f[k] = [p \in NumberKinds |-> Body(f, k, p)]
        BY <2>1, <3>3
      <4> HIDE DEF g, End
      <4> QED
        BY <1>4, <3>3, <4>1, <4>2
    <3>5. At(s, k) # "NUL"
      BY <1>2, <3>2, <3>4
    <3>6. k + 1 \in j .. hi /\ "QNUMBER" \in NumberKinds
      BY <1>1, <1>3, <3>3, <3>5 DEF NumberKinds
    <3>7. \A p \in NumberKinds : f[k + 1][p] = g[k + 1][p]
      <4> HIDE DEF g
      <4> QED
        BY <1>1, <3>1, <3>3, <3>6
    <3> HIDE DEF g
    <3> QED
      BY <3>2, <3>4, <3>6, <3>7
  <2>3. f[j][t] = g[j][t]
    <3> HIDE DEF g
    <3> QED
      BY <1>1, <2>2
  <2> QED
    BY <1>1, <2>3
<1> QED
  BY <1>6, <1>7 DEF R

LEMMA DigitsAre ==
  ASSUME NEW s \in Texts, NEW j \in 1 .. Len(s) + 1, NEW t \in NumberKinds
  PROVE  Digits(s, Tk(t, j), Isdigit) = Number(s, t, j, Skip(s, j, isDigit \cup {"US"}))
<1> DEFINE loop == CHOOSE f : f = [k \in j .. Len(s) + 2 |->
                     [q \in NumberKinds |->
                       CASE Isdigit(At(s, k)) -> f[k + 1][q]
                         [] At(s, k) = "US" -> f[k + 1]["QNUMBER"]
                         [] OTHER -> Tk(q, k)]]
<1>1. Digits(s, Tk(t, j), Isdigit) = loop[j][t]
  BY DEF Digits, NumberKinds, Tk
<1>2. "NUL" \notin isDigit /\ "US" \notin isDigit /\ \A b : Isdigit(b) <=> b \in isDigit
  BY DEF Isdigit, isDigit
<1>3. ASSUME NEW f
      PROVE  DigitsLoop(s, j, isDigit, f) <=>
             f = [k \in j .. Len(s) + 2 |->
                   [q \in NumberKinds |->
                     CASE Isdigit(At(s, k)) -> f[k + 1][q]
                       [] At(s, k) = "US" -> f[k + 1]["QNUMBER"]
                       [] OTHER -> Tk(q, k)]]
  <2> DEFINE a(k, q) == CASE Isdigit(At(s, k)) -> f[k + 1][q]
                          [] At(s, k) = "US" -> f[k + 1]["QNUMBER"]
                          [] OTHER -> Tk(q, k)
             b(k, q) == CASE At(s, k) \in isDigit -> f[k + 1][q]
                          [] At(s, k) = "US" -> f[k + 1]["QNUMBER"]
                          [] OTHER -> Tk(q, k)
  <2>1. \A k \in j .. Len(s) + 2, q \in NumberKinds : a(k, q) = b(k, q)
    BY <1>2
  <2> HIDE DEF a, b
  <2>2. [k \in j .. Len(s) + 2 |-> [q \in NumberKinds |-> a(k, q)]]
        = [k \in j .. Len(s) + 2 |-> [q \in NumberKinds |-> b(k, q)]]
    BY <2>1
  <2> QED
    BY <2>2 DEF DigitsLoop, a, b
<1>4. DigitsLoop(s, j, isDigit, loop)
  <2>1. \E f : DigitsLoop(s, j, isDigit, f)
    BY <1>2, DigitsLoopIs
  <2> QED
    BY <1>3, <2>1, Zenon
<1> HIDE DEF loop
<1>5. loop[j][t] = Number(s, t, j, Skip(s, j, isDigit \cup {"US"}))
  BY <1>2, <1>4, DigitsLoopIs
<1> QED
  BY <1>1, <1>5

LEMMA HexDigitsAre ==
  ASSUME NEW s \in Texts, NEW j \in 1 .. Len(s) + 1, NEW t \in NumberKinds
  PROVE  Digits(s, Tk(t, j), Isxdigit) = Number(s, t, j, Skip(s, j, isHex \cup {"US"}))
<1> DEFINE loop == CHOOSE f : f = [k \in j .. Len(s) + 2 |->
                     [q \in NumberKinds |->
                       CASE Isxdigit(At(s, k)) -> f[k + 1][q]
                         [] At(s, k) = "US" -> f[k + 1]["QNUMBER"]
                         [] OTHER -> Tk(q, k)]]
<1>1. Digits(s, Tk(t, j), Isxdigit) = loop[j][t]
  BY DEF Digits, NumberKinds, Tk
<1>2. "NUL" \notin isHex /\ "US" \notin isHex /\ \A b : Isxdigit(b) <=> b \in isHex
  BY DEF Isxdigit, isHex, isDigit
<1>3. ASSUME NEW f
      PROVE  DigitsLoop(s, j, isHex, f) <=>
             f = [k \in j .. Len(s) + 2 |->
                   [q \in NumberKinds |->
                     CASE Isxdigit(At(s, k)) -> f[k + 1][q]
                       [] At(s, k) = "US" -> f[k + 1]["QNUMBER"]
                       [] OTHER -> Tk(q, k)]]
  <2> DEFINE a(k, q) == CASE Isxdigit(At(s, k)) -> f[k + 1][q]
                          [] At(s, k) = "US" -> f[k + 1]["QNUMBER"]
                          [] OTHER -> Tk(q, k)
             b(k, q) == CASE At(s, k) \in isHex -> f[k + 1][q]
                          [] At(s, k) = "US" -> f[k + 1]["QNUMBER"]
                          [] OTHER -> Tk(q, k)
  <2>1. \A k \in j .. Len(s) + 2, q \in NumberKinds : a(k, q) = b(k, q)
    BY <1>2
  <2> HIDE DEF a, b
  <2>2. [k \in j .. Len(s) + 2 |-> [q \in NumberKinds |-> a(k, q)]]
        = [k \in j .. Len(s) + 2 |-> [q \in NumberKinds |-> b(k, q)]]
    BY <2>1
  <2> QED
    BY <2>2 DEF DigitsLoop, a, b
<1>4. DigitsLoop(s, j, isHex, loop)
  <2>1. \E f : DigitsLoop(s, j, isHex, f)
    BY <1>2, DigitsLoopIs
  <2> QED
    BY <1>3, <2>1, Zenon
<1> HIDE DEF loop
<1>5. loop[j][t] = Number(s, t, j, Skip(s, j, isHex \cup {"US"}))
  BY <1>2, <1>4, DigitsLoopIs
<1> QED
  BY <1>1, <1>5

LEMMA NumberSame ==
  ASSUME NEW s \in Texts, NEW i \in 1 .. Len(s)
  PROVE  /\ scanNumber(s, i) = number(s, i)
         /\ s[i] \in {".", "0"} =>
              scanNumber(s, i) \in [kind : NumberKinds \cup {"ILLEGAL"}, stop : i + 1 .. Len(s) + 1]
<1> DEFINE Run(j, S) == Skip(s, j, S \cup {"US"})
           hex   == s[i] = "0" /\ At(s, i + 1) \in {"x", "X"} /\ At(s, i + 2) \in isHex
           whole == Run(i, isDigit)
           dot   == At(s, whole) = "."
           frac  == IF dot THEN Run(whole + 1, isDigit) ELSE whole
           exp   == /\ At(s, frac) \in {"e", "E"}
                    /\ \/ At(s, frac + 1) \in isDigit
                       \/ At(s, frac + 1) \in {"+", "-"} /\ At(s, frac + 2) \in isDigit
           power == IF exp THEN Run(frac + 2, isDigit) ELSE frac
           end   == IF hex THEN Run(i + 3, isHex) ELSE power
           Kind(float, e) == IF Separated(s, i, e) THEN "QNUMBER" ELSE IF float THEN "FLOAT" ELSE "INTEGER"
<1>1. Len(s) \in Nat /\ i \in Nat /\ "NUL" \notin isDigit /\ "NUL" \notin isHex
      /\ "US" \notin isDigit /\ "US" \notin isHex
  BY DEF Texts, isDigit, isHex
<1>2. ASSUME NEW j \in 1 .. Len(s) + 1 PROVE Run(j, isDigit) \in j .. Len(s) + 1 /\ Run(j, isHex) \in j .. Len(s) + 1
  <2>1. "NUL" \notin isDigit \cup {"US"} /\ "NUL" \notin isHex \cup {"US"}
    BY <1>1
  <2> QED
    BY <2>1, SkipIs
<1> HIDE DEF Run
<1>3. whole \in i .. Len(s) + 1 /\ (dot => whole <= Len(s))
  <2>1. whole \in i .. Len(s) + 1
    BY <1>1, <1>2
  <2> HIDE DEF whole
  <2> QED
    BY <1>1, <2>1, AtEndIsNUL
<1> HIDE DEF whole
<1>4. frac \in whole .. Len(s) + 1 /\ (exp => frac + 2 <= Len(s) + 1)
  <2>1. frac \in whole .. Len(s) + 1
    <3>1. CASE dot
      <4>1. whole + 1 \in 1 .. Len(s) + 1
        BY <1>1, <1>3, <3>1
      <4>2. Run(whole + 1, isDigit) \in whole + 1 .. Len(s) + 1
        BY <1>2, <4>1
      <4> QED
        BY <1>1, <1>3, <3>1, <4>2
    <3>2. CASE ~dot
      BY <1>1, <1>3, <3>2
    <3> QED
      BY <3>1, <3>2
  <2> HIDE DEF frac
  <2>2. exp => At(s, frac + 1) # "NUL"
    BY <1>1
  <2> QED
    BY <1>1, <1>3, <2>1, <2>2, AtEndIsNUL
<1> HIDE DEF frac
<1>5. power \in frac .. Len(s) + 1 /\ (exp => power \in frac + 2 .. Len(s) + 1)
  <2>1. CASE exp
    <3>1. frac + 2 \in 1 .. Len(s) + 1
      BY <1>1, <1>3, <1>4, <2>1
    <3>2. Run(frac + 2, isDigit) \in frac + 2 .. Len(s) + 1
      BY <1>2, <3>1
    <3>3. power = Run(frac + 2, isDigit)
      BY <2>1
    <3> HIDE DEF power
    <3> QED
      BY <1>1, <1>3, <1>4, <3>2, <3>3
  <2>2. CASE ~exp
    <3>1. power = frac
      BY <2>2
    <3> HIDE DEF power, exp
    <3> QED
      BY <1>1, <1>3, <1>4, <2>2, <3>1
  <2> QED
    BY <2>1, <2>2
<1> HIDE DEF power
<1>6. hex => i + 3 <= Len(s) + 1
  BY <1>1, AtEndIsNUL
<1>7. end \in i .. Len(s) + 1 /\ (hex => end \in i + 3 .. Len(s) + 1)
  <2>1. CASE hex
    <3>1. i + 3 \in 1 .. Len(s) + 1
      BY <1>1, <1>6, <2>1
    <3>2. Run(i + 3, isHex) \in i + 3 .. Len(s) + 1
      BY <1>2, <3>1
    <3>3. end = Run(i + 3, isHex)
      BY <2>1
    <3> HIDE DEF end
    <3> QED
      BY <1>1, <3>2, <3>3
  <2>2. CASE ~hex
    <3>1. end = power
      BY <2>2
    <3> HIDE DEF end, hex
    <3> QED
      BY <1>1, <1>3, <1>4, <1>5, <2>2, <3>1
  <2> QED
    BY <2>1, <2>2
<1>8. s[i] \in {".", "0"} => end \in i + 1 .. Len(s) + 1
  <2>1. At(s, i) = s[i] /\ i \in 1 .. Len(s) + 1 /\ i + 1 \in 1 .. Len(s) + 1
    BY <1>1 DEF At
  <2>2. ASSUME s[i] = "0" PROVE whole \in i + 1 .. Len(s) + 1
    <3> DEFINE S == isDigit \cup {"US"}
    <3>1. At(s, i) \in S /\ "NUL" \notin S
      BY <1>1, <2>1, <2>2 DEF isDigit
    <3>2. whole = Skip(s, i, S)
      BY DEF whole, Run
    <3> HIDE DEF S
    <3>3. whole = Skip(s, i + 1, S)
      BY <2>1, <3>1, <3>2, SkipNext
    <3> QED
      BY <2>1, <3>1, <3>3, SkipIs
  <2>3. ASSUME s[i] = "." PROVE frac \in i + 1 .. Len(s) + 1
    <3> DEFINE S == isDigit \cup {"US"}
    <3>1. At(s, i) \notin S /\ "NUL" \notin S
      BY <1>1, <2>1, <2>3 DEF isDigit
    <3>2. whole = Skip(s, i, S)
      BY DEF whole, Run
    <3> HIDE DEF S
    <3>3. whole = i
      BY <2>1, <3>1, <3>2, SkipNext
    <3>4. frac = Run(i + 1, isDigit)
      BY <2>1, <2>3, <3>3 DEF frac
    <3> QED
      BY <1>2, <2>1, <3>4
  <2>4. ASSUME s[i] \in {".", "0"} PROVE frac \in i + 1 .. Len(s) + 1
    BY <1>1, <1>3, <1>4, <2>2, <2>3, <2>4
  <2>5. ASSUME ~hex PROVE end = power
    BY <2>5
  <2> HIDE DEF end
  <2>6. CASE hex
    <3> HIDE DEF hex
    <3> QED
      BY <1>1, <1>7, <2>6
  <2>7. CASE ~hex
    <3> HIDE DEF hex
    <3> QED
      BY <1>1, <1>5, <2>4, <2>5, <2>7
  <2> QED
    BY <2>6, <2>7
<1>9. ASSUME NEW a \in Nat, NEW b \in Nat, NEW c \in Nat, a <= b, b <= c
      PROVE  Separated(s, a, c) <=> Separated(s, a, b) \/ Separated(s, b, c)
  BY <1>9 DEF Separated
<1>10. ASSUME NEW j \in 1 .. Len(s) + 1, NEW t \in NumberKinds
      PROVE  /\ Digits(s, Tk(t, j), Isdigit) = Number(s, t, j, Run(j, isDigit))
             /\ Digits(s, Tk(t, j), Isxdigit) = Number(s, t, j, Run(j, isHex))
  BY DigitsAre, HexDigitsAre DEF Run
<1> DEFINE gwhole == Digits(s, Tk("INTEGER", i), Isdigit)
           gpoint == IF At(s, gwhole.stop) = "."
                       THEN Digits(s, Tk(AsFloat(gwhole.kind), gwhole.stop + 1), Isdigit) ELSE gwhole
           ge     == gpoint.stop
           gpower == IF /\ At(s, ge) \in {"e", "E"}
                        /\ \/ Isdigit(At(s, ge + 1))
                           \/ At(s, ge + 1) \in {"+", "-"} /\ Isdigit(At(s, ge + 2))
                       THEN Digits(s, Tk(AsFloat(gpoint.kind), ge + 2), Isdigit) ELSE gpoint
           ghex   == Digits(s, Tk("INTEGER", i + 3), Isxdigit)
           gn     == IF s[i] = "0" /\ At(s, i + 1) \in {"x", "X"} /\ Isxdigit(At(s, i + 2)) THEN ghex ELSE gpower
<1>11. gwhole = Tk(Kind(FALSE, whole), whole)
  <2>1. gwhole = Number(s, "INTEGER", i, whole)
    BY <1>1, <1>10 DEF NumberKinds, whole
  <2> QED
    BY <2>1 DEF Number
<1> HIDE DEF gwhole
<1>12. gpoint = Tk(Kind(dot, frac), frac)
  <2>1. CASE dot
    <3>1. gpoint = Digits(s, Tk(AsFloat(Kind(FALSE, whole)), whole + 1), Isdigit)
      BY <1>11, <2>1 DEF Tk
    <3>2. AsFloat(Kind(FALSE, whole)) = Kind(TRUE, whole) /\ Kind(TRUE, whole) \in NumberKinds
      BY DEF AsFloat, NumberKinds
    <3>3. gpoint = Number(s, Kind(TRUE, whole), whole + 1, frac)
      BY <1>1, <1>3, <1>10, <2>1, <3>1, <3>2 DEF frac
    <3>4. Separated(s, i, frac) <=> Separated(s, i, whole) \/ Separated(s, whole + 1, frac)
      <4>1. frac \in whole + 1 .. Len(s) + 1
        <5>1. whole + 1 \in 1 .. Len(s) + 1
          BY <1>1, <1>3, <2>1
        <5>2. Run(whole + 1, isDigit) \in whole + 1 .. Len(s) + 1
          BY <1>2, <5>1
        <5> QED
          BY <2>1, <5>2 DEF frac
      <4>2. Separated(s, i, frac) <=> Separated(s, i, whole) \/ Separated(s, whole, frac)
        BY <1>1, <1>3, <1>4, <1>9
      <4>3. ~Separated(s, whole, whole + 1)
        BY <1>1, <1>3, <2>1 DEF Separated
      <4>4. Separated(s, whole, frac) <=> Separated(s, whole, whole + 1) \/ Separated(s, whole + 1, frac)
        BY <1>1, <1>3, <1>9, <4>1
      <4> QED
        BY <4>2, <4>3, <4>4
    <3> QED
      BY <2>1, <3>3, <3>4 DEF Number
  <2>2. CASE ~dot
    BY <1>11, <2>2 DEF Tk, frac
  <2> QED
    BY <2>1, <2>2
<1> HIDE DEF gpoint
<1>13. gpower = Tk(Kind(dot \/ exp, power), power)
  <2>1. \A b : Isdigit(b) <=> b \in isDigit
    BY DEF Isdigit, isDigit
  <2>2. ge = frac
    BY <1>12 DEF Tk
  <2>3. CASE exp
    <3>1. gpower = Digits(s, Tk(AsFloat(Kind(dot, frac)), frac + 2), Isdigit)
      BY <1>12, <2>1, <2>2, <2>3 DEF Tk
    <3>2. AsFloat(Kind(dot, frac)) = Kind(TRUE, frac) /\ Kind(TRUE, frac) \in NumberKinds
      BY DEF AsFloat, NumberKinds
    <3>3. gpower = Number(s, Kind(TRUE, frac), frac + 2, power)
      <4>1. frac + 2 \in 1 .. Len(s) + 1 /\ power = Run(frac + 2, isDigit)
        BY <1>1, <1>3, <1>4, <2>3 DEF power
      <4> HIDE DEF gpower, Kind
      <4> QED
        BY <1>10, <3>1, <3>2, <4>1
    <3>4. Separated(s, i, power) <=> Separated(s, i, frac) \/ Separated(s, frac + 2, power)
      <4>1. power \in frac + 2 .. Len(s) + 1
        BY <1>5, <2>3
      <4>2. Separated(s, i, power) <=> Separated(s, i, frac) \/ Separated(s, frac, power)
        BY <1>1, <1>3, <1>4, <1>5, <1>9
      <4>3. ~Separated(s, frac, frac + 2)
        <5>1. At(s, frac) # "US" /\ At(s, frac + 1) # "US"
          BY <1>1, <2>3
        <5>2. \A m \in frac .. (frac + 2) - 1 : m = frac \/ m = frac + 1
          BY <1>1, <1>3, <1>4
        <5> HIDE DEF exp
        <5>3. ASSUME NEW m \in frac .. (frac + 2) - 1 PROVE At(s, m) # "US"
          BY <5>1, <5>2
        <5> QED
          BY <5>3, Zenon DEF Separated
      <4>4. Separated(s, frac, power) <=> Separated(s, frac, frac + 2) \/ Separated(s, frac + 2, power)
        BY <1>1, <1>3, <1>4, <1>9, <4>1
      <4> QED
        BY <4>2, <4>3, <4>4
    <3> HIDE DEF gpower
    <3> QED
      BY <2>3, <3>3, <3>4 DEF Number
  <2>4. CASE ~exp
    <3>1. gpower = gpoint /\ power = frac
      BY <2>1, <2>2, <2>4 DEF power
    <3> HIDE DEF gpower, exp
    <3> QED
      BY <1>12, <2>4, <3>1
  <2> QED
    BY <2>3, <2>4
<1> HIDE DEF gpower
<1>14. gn = Tk(Kind(~hex /\ (dot \/ exp), end), end)
  <2>1. \A b : Isxdigit(b) <=> b \in isHex
    BY DEF Isxdigit, isHex, isDigit
  <2>2. CASE hex
    <3>1. gn = Number(s, "INTEGER", i + 3, end)
      <4>1. gn = ghex /\ end = Run(i + 3, isHex)
        BY <2>1, <2>2
      <4>2. i + 3 \in 1 .. Len(s) + 1 /\ "INTEGER" \in NumberKinds
        BY <1>1, <1>6, <2>2 DEF NumberKinds
      <4> HIDE DEF gn, end
      <4> QED
        BY <1>10, <4>1, <4>2
    <3>2. Separated(s, i, end) <=> Separated(s, i + 3, end)
      <4>1. end \in i + 3 .. Len(s) + 1
        BY <1>7, <2>2
      <4>2. ~Separated(s, i, i + 3)
        <5>1. At(s, i) # "US" /\ At(s, i + 1) # "US" /\ At(s, i + 2) # "US"
          BY <1>1, <2>2 DEF At
        <5>2. \A m \in i .. i + 3 - 1 : m = i \/ m = i + 1 \/ m = i + 2
          BY <1>1
        <5> QED
          BY <5>1, <5>2 DEF Separated
      <4> HIDE DEF end
      <4> QED
        BY <1>1, <1>9, <4>1, <4>2
    <3> HIDE DEF end, gn, dot, exp
    <3> QED
      BY <2>2, <3>1, <3>2 DEF Number
  <2>3. CASE ~hex
    <3>1. gn = gpower /\ end = power
      BY <2>1, <2>3
    <3> HIDE DEF gn, end, hex
    <3> QED
      BY <1>13, <2>3, <3>1
  <2> QED
    BY <2>2, <2>3
<1>15. number(s, i) = IF IdChar(At(s, gn.stop)) THEN Tk("ILLEGAL", While(s, gn.stop, IdChar)) ELSE gn
  BY DEF number, gn, gpower, ge, gpoint, gwhole, ghex
<1> HIDE DEF gn
<1> DEFINE stop == Skip(s, end, isIDChar)
           hdot == ~hex /\ dot
           hexp == ~hex /\ exp
           kind == CASE \E m \in i .. end - 1 : s[m] = "US" -> "QNUMBER"
                     [] ~(\E m \in i .. end - 1 : s[m] = "US") /\ (hdot \/ hexp) -> "FLOAT"
                     [] OTHER -> "INTEGER"
<1>16. scanNumber(s, i) = Token(IF stop > end THEN "ILLEGAL" ELSE kind, stop)
  BY DEF scanNumber, Run, whole, frac, power
<1>17. kind = Kind(~hex /\ (dot \/ exp), end)
  <2>1. \A m \in i .. end - 1 : At(s, m) = s[m]
    BY <1>1, <1>7 DEF At
  <2>2. (\E m \in i .. end - 1 : s[m] = "US") <=> Separated(s, i, end)
    BY <2>1 DEF Separated
  <2> HIDE DEF end, dot, exp, hex
  <2> QED
    BY <2>2
<1> HIDE DEF kind
<1> HIDE DEF end, hex, dot, exp, Kind
<1>18. "NUL" \notin isIDChar /\ (IdChar(At(s, end)) <=> At(s, end) \in isIDChar)
  BY DEF IdChar, aiClass, KeywordClass, isIDChar, isAlpha, isDigit, Lower, Upper, Words
<1>19. end \in 1 .. Len(s) + 1
  BY <1>1, <1>7
<1>20. stop \in end .. Len(s) + 1
  BY <1>18, <1>19, SkipIs
<1>21. ASSUME s[i] \in {".", "0"}
       PROVE  scanNumber(s, i) \in [kind : NumberKinds \cup {"ILLEGAL"}, stop : i + 1 .. Len(s) + 1]
  <2> HIDE DEF stop
  <2>1. stop \in i + 1 .. Len(s) + 1
    BY <1>1, <1>19, <1>8, <1>20, <1>21
  <2>2. kind \in NumberKinds
    BY <1>17 DEF Kind, NumberKinds
  <2> QED
    BY <1>16, <2>1, <2>2 DEF Token
<1>22. ASSUME At(s, end) \in isIDChar PROVE scanNumber(s, i) = number(s, i)
  <2>1. end <= Len(s) /\ stop \in end + 1 .. Len(s) + 1
    <3>1. end <= Len(s) /\ stop = Skip(s, end + 1, isIDChar)
      BY <1>18, <1>19, <1>22, SkipNext
    <3>2. end + 1 \in 1 .. Len(s) + 1
      BY <1>1, <1>19, <3>1
    <3> QED
      BY <1>18, <3>1, <3>2, SkipIs
  <2>2. While(s, end, IdChar) = stop
    BY <1>19, WhileID
  <2> HIDE DEF stop
  <2>3. stop > end
    BY <1>1, <1>19, <2>1
  <2>4. gn.stop = end
    BY <1>14 DEF Tk
  <2> QED
    BY <1>15, <1>16, <1>18, <1>22, <2>2, <2>3, <2>4 DEF Token, Tk
<1>23. ASSUME At(s, end) \notin isIDChar PROVE scanNumber(s, i) = number(s, i)
  <2>1. stop = end
    BY <1>18, <1>19, <1>23, SkipNext
  <2> HIDE DEF stop
  <2>2. ~(stop > end)
    BY <1>1, <1>19, <2>1
  <2>3. gn.stop = end
    BY <1>14 DEF Tk
  <2> QED
    BY <1>14, <1>15, <1>16, <1>17, <1>18, <1>23, <2>1, <2>2, <2>3 DEF Token, Tk
<1> QED
  BY <1>22, <1>23, <1>21

---------------------------------------------------------------------------
(* Identifiers, blobs and keywords.                                        *)
LEMMA Classes ==
  ASSUME NEW c
  PROVE  /\ aiClass(c) \in KeywordClass <=> c \in isKeywordChar
         /\ IdChar(c) <=> c \in isIDChar
         /\ c \in isKeywordChar => c \in isIDChar
         /\ Isdigit(c) <=> c \in isDigit
<1>1. aiClass(c) \in KeywordClass <=> c \in isKeywordChar
  BY DEF aiClass, KeywordClass, isKeywordChar, isAlpha, Lower, Upper, Words
<1>2. IdChar(c) <=> c \in isIDChar
  BY DEF IdChar, aiClass, KeywordClass, isIDChar, isAlpha, isDigit, Lower, Upper, Words
<1>3. c \in isKeywordChar => c \in isIDChar
  BY DEF isKeywordChar, isIDChar
<1>4. Isdigit(c) <=> c \in isDigit
  BY DEF Isdigit, isDigit
<1> QED
  BY <1>1, <1>2, <1>3, <1>4

LEMMA NoNUL == /\ "NUL" \notin isIDChar /\ "NUL" \notin isKeywordChar /\ "NUL" \notin isDigit
               /\ "NUL" \notin isHex /\ "NUL" \notin isSpace
BY DEF isIDChar, isKeywordChar, isAlpha, isDigit, isHex, isSpace, Lower, Upper

LEMMA IdentSame ==
  ASSUME NEW s \in Texts, NEW j \in 1 .. Len(s) + 1
  PROVE  scanIdent(s, j) = identifier(s, j)
BY WhileID DEF scanIdent, identifier, Token, Tk

LEMMA BlobSame ==
  ASSUME NEW s \in Texts, NEW i \in 1 .. Len(s), At(s, i + 1) = "'"
  PROVE  scanBlob(s, i) = blob(s, i)
<1> DEFINE n    == Skip(s, i + 2, isHex)
           good == At(s, n) = "'" /\ (n - i) % 2 = 0
           odd  == At(s, n) # "'" \/ (n - i) % 2 = 1
<1>1. Len(s) \in Nat /\ i \in Nat /\ i + 2 \in 1 .. Len(s) + 1
  BY AtEndIsNUL DEF Texts
<1>2. n \in i + 2 .. Len(s) + 1 /\ n = While(s, i + 2, Isxdigit)
  BY <1>1, NoNUL, SkipIs, WhileHex
<1> HIDE DEF n
<1>3. n - i \in Nat /\ n \in 1 .. Len(s) + 1
  BY <1>1, <1>2
<1>4. odd <=> ~good
  BY <1>3
<1> DEFINE k == IF good THEN n ELSE Find(s, n, {"NUL", "'"})
<1>5. scanBlob(s, i) = Token(IF good THEN "BLOB" ELSE "ILLEGAL", IF At(s, k) = "NUL" THEN k ELSE k + 1)
  BY DEF scanBlob, n
<1> DEFINE q == IF odd THEN While(s, n, LAMBDA c : c # "NUL" /\ c # "'") ELSE n
<1>6. blob(s, i) = Tk(IF odd THEN "ILLEGAL" ELSE "BLOB", IF At(s, q) # "NUL" THEN q + 1 ELSE q)
  BY <1>2 DEF blob
<1>7. q = k
  <2>1. While(s, n, LAMBDA c : c # "NUL" /\ c # "'") = Find(s, n, {"NUL", "'"})
    BY <1>3, UntilQuote
  <2> HIDE DEF odd, good
  <2> QED
    BY <1>4, <2>1
<1> HIDE DEF odd, good, k, q
<1> QED
  BY <1>4, <1>5, <1>6, <1>7 DEF Token, Tk

(* A word of the keyword letters: SQLite looks it up only when it starts   *)
(* with one of the letters a keyword can start with, which y is not.       *)
LEMMA WordSame ==
  ASSUME NEW s \in Texts, NEW i \in 1 .. Len(s), s[i] \in isKeywordChar,
         \A w \in Texts : Lookup(w) = keywordCode(w)
  PROVE  /\ scanWord(s, i) = keyword(s, i)
         /\ s[i] = "y" => scanWord(s, i) = identifier(s, i + 1)
<1> DEFINE n == Skip(s, i + 2, isKeywordChar)
<1>1. Len(s) \in Nat /\ i \in Nat /\ i + 1 \in 1 .. Len(s) + 1
  BY DEF Texts
<1>2. CASE At(s, i + 1) \notin isKeywordChar
  <2>1. scanWord(s, i) = scanIdent(s, i + 1)
    BY <1>2 DEF scanWord
  <2>2. keyword(s, i) = identifier(s, i + 1)
    BY <1>2, Classes DEF keyword
  <2> QED
    BY <1>1, <2>1, <2>2, IdentSame
<1>3. CASE At(s, i + 1) \in isKeywordChar
  <2>1. i + 2 \in 1 .. Len(s) + 1
    BY <1>1, <1>3, NoNUL, AtEndIsNUL
  <2>2. /\ n \in i + 2 .. Len(s) + 1 /\ At(s, n) \notin isKeywordChar
        /\ \A m \in i + 2 .. n - 1 : At(s, m) \in isKeywordChar
    BY <2>1, NoNUL, SkipIs
  <2>3. While(s, i + 2, LAMBDA c : aiClass(c) \in KeywordClass) = n
    BY <2>1, WhileKeyword
  <2>4. scanWord(s, i) = CASE At(s, i + 1) \notin isKeywordChar -> scanIdent(s, i + 1)
                           [] At(s, i + 1) \in isKeywordChar /\ At(s, n) \in isIDChar -> scanIdent(s, n + 1)
                           [] OTHER -> Token(Lookup(SubSeq(s, i, n - 1)), n)
    BY DEF scanWord
  <2> HIDE DEF n
  <2>5. keyword(s, i) = IF IdChar(At(s, n)) THEN identifier(s, n + 1)
                        ELSE Tk(keywordCode(SubSeq(s, i, n - 1)), n)
    BY <1>3, <2>3, Classes DEF keyword
  <2>6. \A m \in i + 1 .. n - 1 : At(s, m) \in isIDChar
    BY <1>1, <1>3, <2>2, Classes
  <2> DEFINE w == SubSeq(s, i, n - 1)
  <2>7. w \in Texts /\ Len(w) = n - i /\ 1 \in 1 .. Len(w) /\ w[1] = s[i]
    BY <1>1, <2>2 DEF Texts
  <2>8. CASE At(s, n) \in isIDChar
    <3>1. n + 1 \in 1 .. Len(s) + 1
      BY <1>1, <2>2, <2>8, NoNUL, AtEndIsNUL
    <3>2. scanWord(s, i) = scanIdent(s, n + 1)
      BY <1>3, <2>4, <2>8
    <3>3. keyword(s, i) = identifier(s, n + 1)
      BY <2>5, <2>8, Classes
    <3>4. scanIdent(s, n + 1) = scanIdent(s, i + 1)
      <4> DEFINE e == Skip(s, n + 1, isIDChar)
      <4>1. e \in n + 1 .. Len(s) + 1 /\ At(s, e) \notin isIDChar /\ \A m \in n + 1 .. e - 1 : At(s, m) \in isIDChar
        BY <3>1, NoNUL, SkipIs
      <4> HIDE DEF e
      <4>2. e \in i + 1 .. Len(s) + 1 /\ \A m \in i + 1 .. e - 1 : At(s, m) \in isIDChar
        BY <1>1, <2>2, <2>6, <2>8, <4>1
      <4>3. Skip(s, i + 1, isIDChar) = e
        BY <1>1, <4>1, <4>2, NoNUL, SkipUnique
      <4> QED
        BY <4>3 DEF scanIdent, e
    <3> QED
      BY <1>1, <3>1, <3>2, <3>3, <3>4, IdentSame
  <2>9. CASE At(s, n) \notin isIDChar
    <3>1. scanWord(s, i) = Token(Lookup(w), n) /\ keyword(s, i) = Tk(keywordCode(w), n)
      <4> HIDE DEF w
      <4> QED
        BY <1>3, <2>4, <2>5, <2>9, Classes DEF w
    <3>2. Lookup(w) = keywordCode(w)
      BY <2>7
    <3>3. s[i] = "y" => keywordCode(w) = "ID"
      <4> SUFFICES ASSUME s[i] = "y" PROVE keywordCode(w) = "ID"
        OBVIOUS
      <4> DEFINE u == [m \in 1 .. Len(w) |-> ToUpper(w[m])]
      <4>1. u[1] = "y"
        BY <2>7 DEF ToUpper
      <4> HIDE DEF w
      <4>2. keywordCode(w) = CASE u = <<"N", "O">>      -> "NO"
                               [] u = <<"N", "O", "T">> -> "NOT"
                               [] u = <<"O", "N">>      -> "ON"
                               [] u = <<"T", "O">>      -> "TO"
                               [] OTHER                 -> "ID"
        BY DEF keywordCode
      <4> HIDE DEF u
      <4>3. u # <<"N", "O">> /\ u # <<"N", "O", "T">> /\ u # <<"O", "N">> /\ u # <<"T", "O">>
        BY <4>1
      <4> QED
        BY <4>2, <4>3
    <3>4. scanIdent(s, i + 1) = Token("ID", n)
      <4>1. n \in i + 1 .. Len(s) + 1
        BY <1>1, <2>2
      <4> QED
        BY <1>1, <2>6, <2>9, <4>1, NoNUL, SkipUnique DEF scanIdent
    <3> HIDE DEF w
    <3> QED
      BY <1>1, <3>1, <3>2, <3>3, <3>4, IdentSame DEF Token, Tk
  <2> QED
    BY <2>8, <2>9
<1> QED
  BY <1>2, <1>3

---------------------------------------------------------------------------
(* What a scan finds: a token that has at least one byte and ends in the   *)
(* text.                                                                   *)
ScanKinds ==
  Words \cup
  { "ILLEGAL", "SPACE", "COMMENT", "MINUS", "PTR", "SLASH", "LP", "RP", "SEMI", "PLUS", "STAR", "EQ",
    "LT", "LE", "LSHIFT", "GT", "GE", "RSHIFT", "NE", "BITOR", "CONCAT", "DOT", "BLOB", "VARIABLE",
    "INTEGER", "FLOAT", "QNUMBER", "NO", "NOT", "ON", "TO" }

Found(s, i) == [kind : ScanKinds, stop : i + 1 .. Len(s) + 1]

LEMMA IsFound ==
  ASSUME NEW s, NEW i, NEW k \in ScanKinds, NEW p \in i + 1 .. Len(s) + 1
  PROVE  Token(k, p) \in Found(s, i)
BY DEF Found, Token

LEMMA SomeKinds ==
  /\ {"ILLEGAL", "SPACE", "COMMENT", "MINUS", "PTR", "SLASH", "DOT", "BLOB", "VARIABLE"} \subseteq ScanKinds
  /\ {"INTEGER", "FLOAT", "QNUMBER", "ID", "STRING", "NO", "NOT", "ON", "TO"} \subseteq ScanKinds
  /\ {"LP", "RP", "SEMI", "PLUS", "STAR"} \subseteq ScanKinds
  /\ {"EQ", "LT", "LE", "LSHIFT", "GT", "GE", "RSHIFT", "NE", "BITOR", "CONCAT"} \subseteq ScanKinds
  /\ Words \subseteq ScanKinds /\ "EOF" \notin ScanKinds
<1>1. {"ILLEGAL", "SPACE", "COMMENT", "MINUS", "PTR", "SLASH", "DOT", "BLOB", "VARIABLE"} \subseteq ScanKinds
  BY DEF ScanKinds
<1>2. {"INTEGER", "FLOAT", "QNUMBER", "ID", "STRING", "NO", "NOT", "ON", "TO"} \subseteq ScanKinds
  BY DEF ScanKinds, Words
<1>3. {"LP", "RP", "SEMI", "PLUS", "STAR"} \subseteq ScanKinds
  BY DEF ScanKinds
<1>4. {"EQ", "LT", "LE", "LSHIFT", "GT", "GE", "RSHIFT", "NE", "BITOR", "CONCAT"} \subseteq ScanKinds
  BY DEF ScanKinds
<1>5. Words \subseteq ScanKinds /\ "EOF" \notin ScanKinds
  BY DEF ScanKinds, Words
<1> QED
  BY <1>1, <1>2, <1>3, <1>4, <1>5

LEMMA IdentFound ==
  ASSUME NEW s \in Texts, NEW i \in 1 .. Len(s), NEW j \in i + 1 .. Len(s) + 1
  PROVE  scanIdent(s, j) \in Found(s, i)
<1>1. Len(s) \in Nat /\ j \in 1 .. Len(s) + 1 /\ i \in Nat
  BY DEF Texts
<1>2. Skip(s, j, isIDChar) \in i + 1 .. Len(s) + 1
  <2>1. Skip(s, j, isIDChar) \in j .. Len(s) + 1
    BY <1>1, NoNUL, SkipIs
  <2> QED
    BY <1>1, <2>1
<1> QED
  BY <1>2, IsFound, SomeKinds DEF scanIdent

LEMMA SpaceFound ==
  ASSUME NEW s \in Texts, NEW i \in 1 .. Len(s)
  PROVE  scanSpace(s, i) \in Found(s, i)
<1>1. i + 1 \in 1 .. Len(s) + 1
  BY DEF Texts
<1>2. Skip(s, i + 1, isSpace) \in i + 1 .. Len(s) + 1
  BY <1>1, NoNUL, SkipIs
<1> QED
  BY <1>2, IsFound, SomeKinds DEF scanSpace

LEMMA MinusFound ==
  ASSUME NEW s \in Texts, NEW i \in 1 .. Len(s)
  PROVE  scanMinus(s, i) \in Found(s, i)
<1>1. Len(s) \in Nat /\ i \in Nat /\ i + 1 \in i + 1 .. Len(s) + 1
  BY DEF Texts
<1>2. CASE At(s, i + 1) = "-"
  <2>1. i + 2 \in 1 .. Len(s) + 1
    BY <1>1, <1>2, AtEndIsNUL
  <2>2. Find(s, i + 2, {"NUL", "NL"}) \in i + 2 .. Len(s) + 1
    BY <2>1, FindIs
  <2>3. Find(s, i + 2, {"NUL", "NL"}) \in i + 1 .. Len(s) + 1
    BY <1>1, <2>2
  <2> QED
    BY <1>2, <2>3, IsFound, SomeKinds DEF scanMinus
<1>3. CASE At(s, i + 1) = ">"
  <2>1. (IF At(s, i + 2) = ">" THEN i + 3 ELSE i + 2) \in i + 1 .. Len(s) + 1
    BY <1>1, <1>3, AtEndIsNUL
  <2> QED
    BY <1>3, <2>1, IsFound, SomeKinds DEF scanMinus
<1>4. CASE At(s, i + 1) \notin {"-", ">"}
  BY <1>1, <1>4, IsFound, SomeKinds DEF scanMinus
<1> QED
  BY <1>2, <1>3, <1>4

LEMMA SlashFound ==
  ASSUME NEW s \in Texts, NEW i \in 1 .. Len(s)
  PROVE  scanSlash(s, i) \in Found(s, i)
<1>1. Len(s) \in Nat /\ i \in Nat /\ i + 1 \in i + 1 .. Len(s) + 1
  BY DEF Texts
<1>2. CASE At(s, i + 1) # "*" \/ At(s, i + 2) = "NUL"
  BY <1>1, <1>2, IsFound, SomeKinds DEF scanSlash
<1>3. CASE At(s, i + 1) = "*" /\ At(s, i + 2) # "NUL"
  <2> DEFINE Ends(k) == At(s, k) = "NUL" \/ (At(s, k - 1) = "*" /\ At(s, k) = "/")
             First(k) == k \in i + 3 .. i + 3 + Len(s) /\ Ends(k) /\ \A m \in i + 3 .. k - 1 : ~Ends(m)
             c == CHOOSE k \in i + 3 .. i + 3 + Len(s) : Ends(k) /\ \A m \in i + 3 .. k - 1 : ~Ends(m)
             N == {k \in i + 3 .. Len(s) + 1 : Ends(k)}
  <2>1. i + 3 <= Len(s) + 1 /\ Ends(Len(s) + 1)
    BY <1>1, <1>3, AtEndIsNUL DEF At
  <2>2. PICK e \in N : \A m \in N : e <= m
    <3>1. N \in SUBSET Nat /\ N # {}
      <4>1. Len(s) + 1 \in N
        BY <1>1, <2>1
      <4> QED
        BY <1>1, <4>1
    <3> HIDE DEF N
    <3> QED
      BY <3>1, LeastNumber
  <2>3. e \in i + 3 .. Len(s) + 1 /\ Ends(e)
    BY <2>2
  <2>4. First(e)
    <3>1. \A m \in i + 3 .. e - 1 : m \in i + 3 .. Len(s) + 1 /\ ~(e <= m)
      BY <1>1, <2>3
    <3>2. \A m \in i + 3 .. e - 1 : ~Ends(m)
      BY <2>2, <3>1
    <3> HIDE DEF Ends
    <3> QED
      BY <1>1, <2>3, <3>2
  <2>5. First(c)
    BY <2>4
  <2>6. scanSlash(s, i) = Token("COMMENT", IF At(s, c) = "NUL" THEN c ELSE c + 1)
    BY <1>3 DEF scanSlash
  <2> HIDE DEF c
  <2>7. c <= Len(s) + 1
    <3>1. e \notin i + 3 .. c - 1
      BY <2>3, <2>5
    <3>2. c \in Int /\ e <= Len(s) + 1 /\ e \in Int
      BY <1>1, <2>3, <2>5
    <3> HIDE DEF Ends, First, N
    <3> QED
      BY <1>1, <2>3, <3>1, <3>2
  <2>8. c \in i + 3 .. Len(s) + 1
    BY <1>1, <2>5, <2>7
  <2> HIDE DEF Ends, First, N
  <2>9. (IF At(s, c) = "NUL" THEN c ELSE c + 1) \in i + 1 .. Len(s) + 1
    BY <1>1, <2>8, AtEndIsNUL
  <2> QED
    BY <2>6, <2>9, IsFound, SomeKinds
<1> QED
  BY <1>2, <1>3

LEMMA OperatorFound ==
  ASSUME NEW s \in Texts, NEW i \in 1 .. Len(s), s[i] \in {"=", "<", ">", "!", "|"}
  PROVE  scanOperator(s, i) \in Found(s, i)
<1>1. i + 1 \in i + 1 .. Len(s) + 1 /\ (At(s, i + 1) # "NUL" => i + 2 \in i + 1 .. Len(s) + 1)
  BY AtEndIsNUL DEF Texts
<1>2. \E k \in ScanKinds, p \in {i + 1, i + 2} :
        scanOperator(s, i) = Token(k, p) /\ (p = i + 2 => At(s, i + 1) # "NUL")
  <2>1. CASE s[i] = "="
    BY <2>1, SomeKinds DEF scanOperator
  <2>2. CASE s[i] = "<"
    BY <2>2, SomeKinds DEF scanOperator
  <2>3. CASE s[i] = ">"
    BY <2>3, SomeKinds DEF scanOperator
  <2>4. CASE s[i] = "!"
    BY <2>4, SomeKinds DEF scanOperator
  <2>5. CASE s[i] = "|"
    BY <2>5, SomeKinds DEF scanOperator
  <2> QED
    BY <2>1, <2>2, <2>3, <2>4, <2>5
<1> QED
  BY <1>1, <1>2, IsFound

LEMMA BracketFound ==
  ASSUME NEW s \in Texts, NEW i \in 1 .. Len(s)
  PROVE  scanBracket(s, i) \in Found(s, i)
<1> DEFINE k == Find(s, i + 1, {"NUL", "]"})
<1>1. Len(s) \in Nat /\ i \in Nat /\ i + 1 \in 1 .. Len(s) + 1
  BY DEF Texts
<1>2. k \in i + 1 .. Len(s) + 1
  BY <1>1, FindIs
<1>3. scanBracket(s, i) = IF At(s, k) = "]" THEN Token("ID", k + 1) ELSE Token("ILLEGAL", k)
  BY DEF scanBracket
<1> HIDE DEF k
<1>4. At(s, k) = "]" => k + 1 \in i + 1 .. Len(s) + 1
  BY <1>1, <1>2, AtEndIsNUL
<1> QED
  BY <1>2, <1>3, <1>4, IsFound, SomeKinds

LEMMA VarnumFound ==
  ASSUME NEW s \in Texts, NEW i \in 1 .. Len(s)
  PROVE  scanVarnum(s, i) \in Found(s, i)
<1>1. i + 1 \in 1 .. Len(s) + 1
  BY DEF Texts
<1>2. Skip(s, i + 1, isDigit) \in i + 1 .. Len(s) + 1
  BY <1>1, NoNUL, SkipIs
<1> QED
  BY <1>2, IsFound, SomeKinds DEF scanVarnum

LEMMA VariableFound ==
  ASSUME NEW s \in Texts, NEW i \in 1 .. Len(s)
  PROVE  scanVariable(s, i) \in Found(s, i)
<1> DEFINE k     == nameEnd(s, i)
           named == \E m \in i + 1 .. k - 1 : s[m] \in isIDChar
           r     == Find(s, k + 1, {"NUL", ")"} \cup isSpace)
<1>1. Len(s) \in Nat /\ i \in Nat /\ i + 1 \in i + 1 .. Len(s) + 1
  BY DEF Texts
<1>2. k \in i + 1 .. Len(s) + 1
  <2>1. PICK c : NameLoop(s, i, c) /\ nameEnd(s, i) = c[i + 1]
    BY NameIs
  <2> QED
    BY <1>1, <2>1, NameSteps
<1>3. scanVariable(s, i) =
        CASE ~named -> Token("ILLEGAL", k)
          [] named /\ At(s, k) = "(" -> IF At(s, r) = ")" THEN Token("VARIABLE", r + 1) ELSE Token("ILLEGAL", r)
          [] OTHER -> Token("VARIABLE", k)
  BY DEF scanVariable
<1> HIDE DEF k
<1>4. At(s, k) = "(" => r \in i + 1 .. Len(s) + 1 /\ (At(s, r) = ")" => r + 1 \in i + 1 .. Len(s) + 1)
  <2> SUFFICES ASSUME At(s, k) = "("
               PROVE  r \in i + 1 .. Len(s) + 1 /\ (At(s, r) = ")" => r + 1 \in i + 1 .. Len(s) + 1)
    OBVIOUS
  <2>1. k + 1 \in 1 .. Len(s) + 1
    BY <1>1, <1>2, AtEndIsNUL
  <2>2. r \in k + 1 .. Len(s) + 1
    BY <2>1, FindIs
  <2> HIDE DEF r
  <2> QED
    BY <1>1, <1>2, <2>2, AtEndIsNUL
<1> HIDE DEF named, r
<1> QED
  BY <1>2, <1>3, <1>4, IsFound, SomeKinds

LEMMA BlobFound ==
  ASSUME NEW s \in Texts, NEW i \in 1 .. Len(s), At(s, i + 1) = "'"
  PROVE  scanBlob(s, i) \in Found(s, i)
<1> DEFINE n    == Skip(s, i + 2, isHex)
           good == At(s, n) = "'" /\ (n - i) % 2 = 0
           k    == IF good THEN n ELSE Find(s, n, {"NUL", "'"})
<1>1. Len(s) \in Nat /\ i \in Nat /\ i + 2 \in 1 .. Len(s) + 1
  BY AtEndIsNUL DEF Texts
<1>2. n \in i + 2 .. Len(s) + 1
  BY <1>1, NoNUL, SkipIs
<1>3. scanBlob(s, i) = Token(IF good THEN "BLOB" ELSE "ILLEGAL", IF At(s, k) = "NUL" THEN k ELSE k + 1)
  BY DEF scanBlob
<1> HIDE DEF n
<1>4. Find(s, n, {"NUL", "'"}) \in n .. Len(s) + 1
  BY <1>1, <1>2, FindIs
<1>5. k \in i + 2 .. Len(s) + 1
  BY <1>1, <1>2, <1>4
<1> HIDE DEF good, k
<1>6. (IF At(s, k) = "NUL" THEN k ELSE k + 1) \in i + 1 .. Len(s) + 1
  BY <1>1, <1>5, AtEndIsNUL
<1> QED
  BY <1>3, <1>6, IsFound, SomeKinds

LEMMA QuoteFound ==
  ASSUME NEW s \in Texts, NEW i \in 1 .. Len(s), s[i] # "NUL"
  PROVE  scanQuote(s, i) \in Found(s, i)
<1> DEFINE e == closing(s, i)
<1>1. Len(s) \in Nat /\ i \in Nat /\ i + 1 \in i + 1 .. Len(s) + 1
  BY DEF Texts
<1>2. PICK f : ClosingLoop(s, i, f) /\ e = f[i + 1]
  BY ClosingIs
<1> DEFINE N == {k \in i + 1 .. Len(s) + 1 : f[k] \notin k .. Len(s) + 1}
<1>3. N = {}
  <2> SUFFICES ASSUME N # {} PROVE FALSE
    OBVIOUS
  <2>1. PICK k \in N : \A m \in N : m <= k
    <3>1. N \in SUBSET Int /\ Len(s) + 1 \in Int /\ \A m \in N : m <= Len(s) + 1
      BY <1>1
    <3> HIDE DEF N
    <3> QED
      BY <3>1, GreatestNumber
  <2>2. k \in i + 1 .. Len(s) + 1 /\ f[k] \notin k .. Len(s) + 1
    BY <2>1
  <2> DEFINE a(m) == CASE At(s, m) = "NUL" -> m
                       [] At(s, m) = s[i]  -> IF At(s, m + 1) = s[i] THEN f[m + 2] ELSE m
                       [] OTHER            -> f[m + 1]
  <2>3. f = [m \in i + 1 .. Len(s) + 2 |-> a(m)]
    BY <1>2 DEF ClosingLoop
  <2>4. \A m \in k + 1 .. Len(s) + 1 : f[m] \in m .. Len(s) + 1
    BY <1>1, <2>1, <2>2
  <2> HIDE DEF N, a
  <2>5. f[k] = a(k)
    BY <1>1, <2>2, <2>3
  <2>6. CASE At(s, k) = "NUL" \/ (At(s, k) = s[i] /\ At(s, k + 1) # s[i])
    BY <1>1, <2>2, <2>5, <2>6 DEF a
  <2>7. CASE At(s, k) # "NUL" /\ At(s, k) = s[i] /\ At(s, k + 1) = s[i]
    <3>1. k + 2 \in k + 1 .. Len(s) + 1
      BY <1>1, <2>2, <2>7, AtEndIsNUL
    <3>2. f[k] = f[k + 2] /\ f[k + 2] \in k + 2 .. Len(s) + 1
      BY <2>4, <2>5, <2>7, <3>1 DEF a
    <3> QED
      BY <1>1, <2>2, <3>2
  <2>8. CASE At(s, k) # "NUL" /\ At(s, k) # s[i]
    <3>1. k + 1 \in k + 1 .. Len(s) + 1
      BY <1>1, <2>2, <2>8, AtEndIsNUL
    <3>2. f[k] = f[k + 1] /\ f[k + 1] \in k + 1 .. Len(s) + 1
      BY <2>4, <2>5, <2>8, <3>1 DEF a
    <3> QED
      BY <1>1, <2>2, <3>2
  <2> QED
    BY <2>6, <2>7, <2>8
<1>4. e \in i + 1 .. Len(s) + 1
  BY <1>1, <1>2, <1>3
<1>5. scanQuote(s, i) = CASE At(s, e) = "NUL" -> Token("ILLEGAL", e)
                          [] At(s, e) = "'"   -> Token("STRING", e + 1)
                          [] OTHER            -> Token("ID", e + 1)
  BY DEF scanQuote
<1> HIDE DEF e, N
<1>6. At(s, e) # "NUL" => e + 1 \in i + 1 .. Len(s) + 1
  BY <1>1, <1>4, AtEndIsNUL
<1>7. CASE At(s, e) = "NUL"
  BY <1>4, <1>5, <1>7, IsFound, SomeKinds
<1>8. CASE At(s, e) # "NUL"
  <2>1. scanQuote(s, i) \in {Token("STRING", e + 1), Token("ID", e + 1)}
    BY <1>5, <1>8
  <2> QED
    BY <1>6, <1>8, <2>1, IsFound, SomeKinds
<1> QED
  BY <1>7, <1>8

LEMMA NumberFound ==
  ASSUME NEW s \in Texts, NEW i \in 1 .. Len(s), s[i] \in {".", "0"}
  PROVE  scanNumber(s, i) \in Found(s, i)
<1>1. NumberKinds \cup {"ILLEGAL"} \subseteq ScanKinds
  BY SomeKinds DEF NumberKinds
<1>2. scanNumber(s, i) \in [kind : NumberKinds \cup {"ILLEGAL"}, stop : i + 1 .. Len(s) + 1]
  BY NumberSame
<1> QED
  BY <1>1, <1>2 DEF Found

LEMMA WordFound ==
  ASSUME NEW s \in Texts, NEW i \in 1 .. Len(s), \A w \in Texts : Lookup(w) = keywordCode(w)
  PROVE  scanWord(s, i) \in Found(s, i)
<1> DEFINE n == Skip(s, i + 2, isKeywordChar)
           w == SubSeq(s, i, n - 1)
<1>1. Len(s) \in Nat /\ i \in Nat /\ i + 1 \in i + 1 .. Len(s) + 1
  BY DEF Texts
<1>2. CASE At(s, i + 1) \notin isKeywordChar
  <2>1. scanWord(s, i) = scanIdent(s, i + 1)
    BY <1>2 DEF scanWord
  <2> QED
    BY <1>1, <2>1, IdentFound
<1>3. CASE At(s, i + 1) \in isKeywordChar
  <2>1. i + 2 \in 1 .. Len(s) + 1
    BY <1>1, <1>3, NoNUL, AtEndIsNUL
  <2>2. n \in i + 2 .. Len(s) + 1
    BY <2>1, NoNUL, SkipIs
  <2>3. scanWord(s, i) = CASE At(s, i + 1) \notin isKeywordChar -> scanIdent(s, i + 1)
                           [] At(s, i + 1) \in isKeywordChar /\ At(s, n) \in isIDChar -> scanIdent(s, n + 1)
                           [] OTHER -> Token(Lookup(w), n)
    BY DEF scanWord
  <2> HIDE DEF n
  <2>4. CASE At(s, n) \in isIDChar
    <3>1. n + 1 \in i + 1 .. Len(s) + 1
      BY <1>1, <2>2, <2>4, NoNUL, AtEndIsNUL
    <3>2. scanWord(s, i) = scanIdent(s, n + 1)
      BY <1>3, <2>3, <2>4
    <3> QED
      BY <3>1, <3>2, IdentFound
  <2>5. CASE At(s, n) \notin isIDChar
    <3>1. w \in Texts
      BY <1>1, <2>2 DEF Texts
    <3>2. keywordCode(w) \in {"ID", "NO", "NOT", "ON", "TO"}
      BY DEF keywordCode
    <3> HIDE DEF w
    <3>3. scanWord(s, i) = Token(Lookup(w), n) /\ Lookup(w) \in ScanKinds
      BY <1>3, <2>3, <2>5, <3>1, <3>2, SomeKinds
    <3>4. n \in i + 1 .. Len(s) + 1
      BY <1>1, <2>2
    <3> QED
      BY <3>3, <3>4, IsFound
  <2> QED
    BY <2>4, <2>5
<1> QED
  BY <1>2, <1>3

---------------------------------------------------------------------------
(* The two switches on the first byte.                                     *)
LEMMA MinusSame ==
  ASSUME NEW s \in Texts, NEW i \in 1 .. Len(s), s[i] = "-"
  PROVE  scan(s, i) = GetToken(s, i) /\ scan(s, i) \in Found(s, i)
<1>1. scan(s, i) = scanMinus(s, i)
  BY DEF scan, isSpaceStart, isSpace, Single, isDigit, isKeywordStart, isAlpha, Lower, Upper, Words
<1>2. aiClass(s[i]) = "-"
  BY DEF aiClass, Lower, Upper, Words
<1> DEFINE b == At(s, i + 1)
<1>3. GetToken(s, i) =
        IF b = "-" THEN Tk("COMMENT", While(s, i + 2, LAMBDA c : c # "NUL" /\ c # "NL"))
        ELSE IF b = ">" THEN Tk("PTR", IF At(s, i + 2) = ">" THEN i + 3 ELSE i + 2)
        ELSE Tk("MINUS", i + 1)
  BY <1>2 DEF GetToken
<1>4. b = "-" => While(s, i + 2, LAMBDA c : c # "NUL" /\ c # "NL") = Find(s, i + 2, {"NUL", "NL"})
  <2> SUFFICES ASSUME b = "-"
               PROVE  While(s, i + 2, LAMBDA c : c # "NUL" /\ c # "NL") = Find(s, i + 2, {"NUL", "NL"})
    OBVIOUS
  <2>1. i + 2 \in 1 .. Len(s) + 1
    BY AtEndIsNUL DEF Texts
  <2> QED
    BY <2>1, UntilLine
<1> QED
  <2>1. scanMinus(s, i) = GetToken(s, i)
    BY <1>3, <1>4 DEF scanMinus, Token, Tk
  <2> QED
    BY <1>1, <2>1, MinusFound

LEMMA OperatorSame ==
  ASSUME NEW s \in Texts, NEW i \in 1 .. Len(s),
         s[i] \in {"(", ")", "SC", "+", "*", "=", "<", ">", "!", "|"}
  PROVE  scan(s, i) = GetToken(s, i) /\ scan(s, i) \in Found(s, i)
<1>1. aiClass(s[i]) = s[i]
  BY DEF aiClass, Lower, Upper, Words
<1>2. CASE s[i] \in {"(", ")", "SC", "+", "*"}
  <2>1. scan(s, i) = Token(Single[s[i]], i + 1)
    BY <1>2 DEF scan, isSpaceStart, isSpace, Single, isDigit, isKeywordStart, isAlpha, Lower, Upper, Words
  <2>2. scan(s, i) = GetToken(s, i)
    BY <1>1, <1>2, <2>1 DEF GetToken, Single, Token, Tk
  <2>3. Single[s[i]] \in ScanKinds
    BY <1>2, SomeKinds DEF Single
  <2>4. i + 1 \in i + 1 .. Len(s) + 1
    BY DEF Texts
  <2> QED
    BY <2>1, <2>2, <2>3, <2>4, IsFound
<1>3. CASE s[i] \in {"=", "<", ">", "!", "|"}
  <2>1. scan(s, i) = scanOperator(s, i)
    BY <1>3 DEF scan, isSpaceStart, isSpace, Single, isDigit, isKeywordStart, isAlpha, Lower, Upper, Words
  <2>2. scanOperator(s, i) = GetToken(s, i)
    BY <1>1, <1>3 DEF GetToken, scanOperator, Token, Tk
  <2> QED
    BY <1>3, <2>1, <2>2, OperatorFound
<1> QED
  BY <1>2, <1>3

LEMMA SpaceSame ==
  ASSUME NEW s \in Texts, NEW i \in 1 .. Len(s), s[i] \in {"SP", "NL"}
  PROVE  scan(s, i) = GetToken(s, i) /\ scan(s, i) \in Found(s, i)
<1>1. scan(s, i) = scanSpace(s, i)
  BY DEF scan, isSpaceStart, isSpace, Single, isDigit, isKeywordStart, isAlpha, Lower, Upper, Words
<1>2. aiClass(s[i]) = "SPACE"
  BY DEF aiClass, Lower, Upper, Words
<1>3. GetToken(s, i) = Tk("SPACE", While(s, i + 1, Isspace))
  BY <1>2 DEF GetToken
<1>4. i + 1 \in 1 .. Len(s) + 1
  BY DEF Texts
<1> QED
  <2>1. scanSpace(s, i) = GetToken(s, i)
    BY <1>3, <1>4, WhileSpace DEF scanSpace, Token, Tk
  <2> QED
    BY <1>1, <2>1, SpaceFound

LEMMA SlashSame ==
  ASSUME NEW s \in Texts, NEW i \in 1 .. Len(s), s[i] = "/"
  PROVE  scan(s, i) = GetToken(s, i) /\ scan(s, i) \in Found(s, i)
<1>1. scan(s, i) = scanSlash(s, i)
  BY DEF scan, isSpaceStart, isSpace, Single, isDigit, isKeywordStart, isAlpha, Lower, Upper, Words
<1>2. aiClass(s[i]) = "/"
  BY DEF aiClass, Lower, Upper, Words
<1>3. GetToken(s, i) = IF At(s, i + 1) # "*" \/ At(s, i + 2) = "NUL" THEN Tk("SLASH", i + 1)
                       ELSE Tk("COMMENT", comment(s, i))
  BY <1>2 DEF GetToken
<1>4. scanSlash(s, i) = GetToken(s, i)
  <2>1. CASE At(s, i + 1) # "*" \/ At(s, i + 2) = "NUL"
    BY <1>3, <2>1 DEF scanSlash, Token, Tk
  <2>2. CASE At(s, i + 1) = "*" /\ At(s, i + 2) # "NUL"
    BY <1>3, <2>2, CommentSame
  <2> QED
    BY <2>1, <2>2
<1> QED
  BY <1>1, <1>4, SlashFound

LEMMA DelimitedSame ==
  ASSUME NEW s \in Texts, NEW i \in 1 .. Len(s), s[i] \in {"'", "DQ", "BQ", "["}
  PROVE  scan(s, i) = GetToken(s, i) /\ scan(s, i) \in Found(s, i)
<1>1. CASE s[i] # "["
  <2>1. scan(s, i) = scanQuote(s, i)
    BY <1>1 DEF scan, isSpaceStart, isSpace, Single, isDigit, isKeywordStart, isAlpha, Lower, Upper, Words
  <2>2. aiClass(s[i]) = "QUOTE"
    BY <1>1 DEF aiClass, Lower, Upper, Words
  <2>3. GetToken(s, i) = quoted(s, i)
    BY <2>2 DEF GetToken
  <2> QED
    BY <1>1, <2>1, <2>3, QuoteSame, QuoteFound
<1>2. CASE s[i] = "["
  <2>1. scan(s, i) = scanBracket(s, i)
    BY <1>2 DEF scan, isSpaceStart, isSpace, Single, isDigit, isKeywordStart, isAlpha, Lower, Upper, Words
  <2>2. aiClass(s[i]) = "QUOTE2"
    BY <1>2 DEF aiClass, Lower, Upper, Words
  <2>3. GetToken(s, i) = bracketed(s, i)
    BY <2>2 DEF GetToken
  <2> QED
    BY <2>1, <2>3, BracketSame, BracketFound
<1> QED
  BY <1>1, <1>2

LEMMA NumericSame ==
  ASSUME NEW s \in Texts, NEW i \in 1 .. Len(s), s[i] \in {".", "0"}
  PROVE  scan(s, i) = GetToken(s, i) /\ scan(s, i) \in Found(s, i)
<1>1. CASE s[i] = "." /\ At(s, i + 1) \notin isDigit
  <2>1. scan(s, i) = Token("DOT", i + 1)
    BY <1>1 DEF scan, isSpaceStart, isSpace, Single, isDigit, isKeywordStart, isAlpha, Lower, Upper, Words
  <2>2. aiClass(s[i]) = "." /\ ~Isdigit(At(s, i + 1))
    BY <1>1, Classes DEF aiClass, Lower, Upper, Words
  <2>3. GetToken(s, i) = Tk("DOT", i + 1)
    BY <2>2 DEF GetToken
  <2>4. i + 1 \in i + 1 .. Len(s) + 1
    BY DEF Texts
  <2> QED
    BY <2>1, <2>3, <2>4, IsFound, SomeKinds DEF Token, Tk
<1>2. CASE s[i] = "." /\ At(s, i + 1) \in isDigit
  <2>1. scan(s, i) = scanNumber(s, i)
    BY <1>2 DEF scan, isSpaceStart, isSpace, Single, isDigit, isKeywordStart, isAlpha, Lower, Upper, Words
  <2>2. aiClass(s[i]) = "." /\ Isdigit(At(s, i + 1))
    BY <1>2, Classes DEF aiClass, Lower, Upper, Words
  <2>3. GetToken(s, i) = number(s, i)
    BY <2>2 DEF GetToken
  <2> QED
    BY <2>1, <2>3, NumberSame, NumberFound
<1>3. CASE s[i] = "0"
  <2>1. scan(s, i) = scanNumber(s, i)
    BY <1>3 DEF scan, isSpaceStart, isSpace, Single, isDigit, isKeywordStart, isAlpha, Lower, Upper, Words
  <2>2. aiClass(s[i]) = "DIGIT"
    BY <1>3 DEF aiClass, Lower, Upper, Words
  <2>3. GetToken(s, i) = number(s, i)
    BY <2>2 DEF GetToken
  <2> QED
    BY <2>1, <2>3, NumberSame, NumberFound
<1> QED
  BY <1>1, <1>2, <1>3

LEMMA ParameterSame ==
  ASSUME NEW s \in Texts, NEW i \in 1 .. Len(s), s[i] \in {"?", "$", "@", "#", ":"}
  PROVE  scan(s, i) = GetToken(s, i) /\ scan(s, i) \in Found(s, i)
<1>1. CASE s[i] = "?"
  <2>1. scan(s, i) = scanVarnum(s, i)
    BY <1>1 DEF scan, isSpaceStart, isSpace, Single, isDigit, isKeywordStart, isAlpha, Lower, Upper, Words
  <2>2. aiClass(s[i]) = "VARNUM"
    BY <1>1 DEF aiClass, Lower, Upper, Words
  <2>3. GetToken(s, i) = Tk("VARIABLE", While(s, i + 1, Isdigit))
    BY <2>2 DEF GetToken
  <2>4. i + 1 \in 1 .. Len(s) + 1
    BY DEF Texts
  <2>5. scanVarnum(s, i) = GetToken(s, i)
    BY <2>3, <2>4, WhileDigit DEF scanVarnum, Token, Tk
  <2> QED
    BY <2>1, <2>5, VarnumFound
<1>2. CASE s[i] # "?"
  <2>1. scan(s, i) = scanVariable(s, i)
    BY <1>2 DEF scan, isSpaceStart, isSpace, Single, isDigit, isKeywordStart, isAlpha, Lower, Upper, Words
  <2>2. aiClass(s[i]) \in {"DOLLAR", "VARALPHA"}
    BY <1>2 DEF aiClass, Lower, Upper, Words
  <2>3. GetToken(s, i) = variable(s, i)
    BY <2>2 DEF GetToken
  <2> QED
    BY <2>1, <2>3, VariableSame, VariableFound
<1> QED
  BY <1>1, <1>2

LEMMA LetterSame ==
  ASSUME NEW s \in Texts, NEW i \in 1 .. Len(s), s[i] \in isIDChar, s[i] \notin {"0", "$"},
         \A w \in Texts : Lookup(w) = keywordCode(w)
  PROVE  scan(s, i) = GetToken(s, i) /\ scan(s, i) \in Found(s, i)
<1> DEFINE c == s[i]
<1>1. i + 1 \in 1 .. Len(s) + 1
  BY DEF Texts
<1>2. scanIdent(s, i + 1) = identifier(s, i + 1) /\ scanIdent(s, i + 1) \in Found(s, i)
  <2>1. i + 1 \in i + 1 .. Len(s) + 1
    BY DEF Texts
  <2> QED
    BY <1>1, <2>1, IdentSame, IdentFound
<1>3. CASE c \in {"x", "X"} /\ At(s, i + 1) = "'"
  <2>1. scan(s, i) = scanBlob(s, i)
    BY <1>3 DEF scan, isSpaceStart, isSpace, Single, isDigit, isKeywordStart, isAlpha, Lower, Upper, Words
  <2>2. aiClass(c) = "X"
    BY <1>3 DEF aiClass, Lower, Upper, Words
  <2>3. GetToken(s, i) = blob(s, i)
    BY <1>3, <2>2 DEF GetToken
  <2> QED
    BY <1>3, <2>1, <2>3, BlobSame, BlobFound
<1>4. CASE c \in {"x", "X"} /\ At(s, i + 1) # "'"
  <2>1. scan(s, i) = scanIdent(s, i + 1)
    BY <1>4 DEF scan, isSpaceStart, isSpace, Single, isDigit, isKeywordStart, isAlpha, Lower, Upper, Words
  <2>2. aiClass(c) = "X"
    BY <1>4 DEF aiClass, Lower, Upper, Words
  <2>3. GetToken(s, i) = identifier(s, i + 1)
    BY <1>4, <2>2 DEF GetToken
  <2> QED
    BY <1>2, <2>1, <2>3
<1>5. CASE c = "EF"
  <2>1. scan(s, i) = scanBOM(s, i)
    BY <1>5 DEF scan, isSpaceStart, isSpace, Single, isDigit, isKeywordStart, isAlpha, Lower, Upper, Words
  <2>2. aiClass(c) = "BOM"
    BY <1>5 DEF aiClass, Lower, Upper, Words
  <2>3. GetToken(s, i) = IF At(s, i + 1) = "BB" /\ At(s, i + 2) = "BF" THEN Tk("SPACE", i + 3)
                         ELSE identifier(s, i + 1)
    BY <2>2 DEF GetToken
  <2>4. scan(s, i) = GetToken(s, i)
    BY <1>2, <2>1, <2>3 DEF scanBOM, Token, Tk
  <2>5. At(s, i + 1) = "BB" /\ At(s, i + 2) = "BF" => i + 3 \in i + 1 .. Len(s) + 1
    BY AtEndIsNUL DEF Texts
  <2>6. scanBOM(s, i) \in Found(s, i)
    BY <1>2, <2>5, IsFound, SomeKinds DEF scanBOM
  <2> QED
    BY <2>1, <2>4, <2>6
<1>6. CASE c \in {"US", "BB", "BF", "HI"}
  <2>1. scan(s, i) = scanIdent(s, i + 1)
    BY <1>6 DEF scan, isSpaceStart, isSpace, Single, isDigit, isKeywordStart, isAlpha, Lower, Upper, Words
  <2>2. aiClass(c) \in {"KYWD", "ID"}
    BY <1>6 DEF aiClass, Lower, Upper, Words
  <2>3. GetToken(s, i) = identifier(s, i + 1)
    BY <2>2 DEF GetToken
  <2> QED
    BY <1>2, <2>1, <2>3
<1>7. CASE c \in isAlpha \ {"x", "X"}
  <2>1. scan(s, i) = scanWord(s, i)
    BY <1>7 DEF scan, isSpaceStart, isSpace, Single, isDigit, isKeywordStart, isAlpha, Lower, Upper, Words
  <2>2. c \in isKeywordChar
    BY <1>7 DEF isKeywordChar
  <2>3. CASE c = "y"
    <3>1. aiClass(c) = "KYWD"
      BY <2>3 DEF aiClass, Lower, Upper, Words
    <3>2. GetToken(s, i) = identifier(s, i + 1)
      BY <3>1 DEF GetToken
    <3> QED
      BY <2>1, <2>2, <2>3, <3>2, WordSame, WordFound
  <2>4. CASE c # "y"
    <3>1. aiClass(c) = "KYWD0"
      BY <1>7, <2>4 DEF aiClass, isAlpha, Lower, Upper, Words
    <3>2. GetToken(s, i) = keyword(s, i)
      BY <3>1 DEF GetToken
    <3> QED
      BY <2>1, <2>2, <3>2, WordSame, WordFound
  <2> QED
    BY <2>3, <2>4
<1>8. \/ c \in {"x", "X"} \/ c = "EF" \/ c \in {"US", "BB", "BF", "HI"} \/ c \in isAlpha \ {"x", "X"}
  BY DEF isIDChar, isDigit
<1> QED
  BY <1>3, <1>4, <1>5, <1>6, <1>7, <1>8

(* Any other byte, and the words that stand for one token.                 *)
LEMMA OtherSame ==
  ASSUME NEW s \in Texts, NEW i \in 1 .. Len(s),
         s[i] \notin isIDChar \cup {"SP", "NL", "-", "/", "(", ")", "SC", "+", "*", "=", "<", ">", "!", "|",
                                    "'", "DQ", "BQ", "[", ".", "?", "@", "#", ":", "NUL"}
  PROVE  scan(s, i) = GetToken(s, i) /\ scan(s, i) \in Found(s, i)
<1> DEFINE c == s[i]
<1>1. scan(s, i) = IF c \in Words THEN Token(c, i + 1) ELSE Token("ILLEGAL", i + 1)
  BY DEF scan, isSpaceStart, isSpace, Single, isDigit, isIDChar, isKeywordStart, isAlpha, Lower, Upper, Words
<1>2. aiClass(c) = IF c \in Words THEN "WORD" ELSE "ILLEGAL"
  BY DEF aiClass, isIDChar, isDigit, isAlpha, Lower, Upper
<1>3. GetToken(s, i) = IF c \in Words THEN Tk(c, i + 1) ELSE Tk("ILLEGAL", i + 1)
  <2>1. CASE c \in Words
    BY <1>2, <2>1 DEF GetToken
  <2>2. CASE c \notin Words
    BY <1>2, <2>2 DEF GetToken
  <2> QED
    BY <2>1, <2>2
<1>4. i + 1 \in i + 1 .. Len(s) + 1
  BY DEF Texts
<1>5. scan(s, i) \in Found(s, i)
  BY <1>1, <1>4, IsFound, SomeKinds
<1> QED
  BY <1>1, <1>3, <1>5 DEF Token, Tk

---------------------------------------------------------------------------
(* The keyword table, sorted, and what is found in it.                     *)
Entry(n) == CASE n = 1 -> [name |-> <<"N", "O">>, kind |-> "NO"]
              [] n = 2 -> [name |-> <<"O", "N">>, kind |-> "ON"]
              [] n = 3 -> [name |-> <<"T", "O">>, kind |-> "TO"]
              [] n = 4 -> [name |-> <<"N", "O", "T">>, kind |-> "NOT"]

LEMMA EntriesAre ==
  /\ keywords = {Entry(1), Entry(2), Entry(3), Entry(4)}
  /\ \A m, n \in 1 .. 4 : Entry(m) = Entry(n) => m = n
  /\ Cardinality(keywords) = 4
<1>1. keywords = {Entry(1), Entry(2), Entry(3), Entry(4)}
  BY DEF keywords, Entry
<1>2. \A m, n \in 1 .. 4 : Entry(m) = Entry(n) => m = n
  <2>1. \A n \in 1 .. 4 : n = 1 \/ n = 2 \/ n = 3 \/ n = 4
    OBVIOUS
  <2>2. Entry(1).kind = "NO" /\ Entry(2).kind = "ON" /\ Entry(3).kind = "TO" /\ Entry(4).kind = "NOT"
    BY DEF Entry
  <2> QED
    BY <2>1, <2>2
<1>3. Cardinality(keywords) = 4
  <2> DEFINE A == {Entry(1)}
             B == A \cup {Entry(2)}
             C == B \cup {Entry(3)}
             D == C \cup {Entry(4)}
  <2>1. IsFiniteSet(A) /\ Cardinality(A) = 1
    BY FS_Singleton
  <2>2. Entry(2) \notin A /\ Entry(3) \notin B /\ Entry(4) \notin C
    BY <1>2
  <2> HIDE DEF A
  <2>3. IsFiniteSet(B) /\ Cardinality(B) = 2
    BY <2>1, <2>2, FS_AddElement
  <2> HIDE DEF B
  <2>4. IsFiniteSet(C) /\ Cardinality(C) = 3
    BY <2>2, <2>3, FS_AddElement
  <2> HIDE DEF C
  <2>5. IsFiniteSet(D) /\ Cardinality(D) = 4
    BY <2>2, <2>4, FS_AddElement
  <2>6. keywords = D
    BY <1>1 DEF A, B, C
  <2> QED
    BY <2>5, <2>6
<1> QED
  BY <1>1, <1>2, <1>3

LEMMA EntriesSorted == \A m, n \in 1 .. 4 : Before(Entry(m), Entry(n)) <=> m < n
<1>1. \A n \in 1 .. 4 : n = 1 \/ n = 2 \/ n = 3 \/ n = 4
  OBVIOUS
<1>2. /\ Entry(1).name = <<"N", "O">> /\ Entry(2).name = <<"O", "N">>
      /\ Entry(3).name = <<"T", "O">> /\ Entry(4).name = <<"N", "O", "T">>
  BY DEF Entry
<1>3. Rank("N") = 3 /\ Rank("O") = 4 /\ Rank("T") = 5
  <2>1. Len(Letters) = 6 /\ Letters[1] = "A" /\ Letters[2] = "E" /\ Letters[3] = "N"
        /\ Letters[4] = "O" /\ Letters[5] = "T" /\ Letters[6] = "X"
    BY DEF Letters
  <2>2. \A n \in 1 .. 6 : n = 1 \/ n = 2 \/ n = 3 \/ n = 4 \/ n = 5 \/ n = 6
    OBVIOUS
  <2>3. Rank("N") = 3
    BY <2>1, <2>2 DEF Rank
  <2>4. Rank("O") = 4
    BY <2>1, <2>2 DEF Rank
  <2>5. Rank("T") = 5
    BY <2>1, <2>2 DEF Rank
  <2> QED
    BY <2>3, <2>4, <2>5
<1>4. ASSUME NEW a, NEW b, Len(a.name) = 2, Len(b.name) = 2
      PROVE  Before(a, b) <=> \/ Rank(a.name[1]) < Rank(b.name[1])
                              \/ a.name[1] = b.name[1] /\ Rank(a.name[2]) < Rank(b.name[2])
  <2>1. 1 .. 2 = {1, 2} /\ 1 .. 1 - 1 = {} /\ 1 .. 2 - 1 = {1}
    OBVIOUS
  <2>2. Before(a, b) <=> \E n \in {1, 2} : /\ \A m \in 1 .. n - 1 : a.name[m] = b.name[m]
                                           /\ Rank(a.name[n]) < Rank(b.name[n])
    BY <1>4, <2>1 DEF Before
  <2> QED
    BY <2>1, <2>2
<1>5. \A m, n \in 1 .. 3 : Before(Entry(m), Entry(n)) <=> m < n
  <2>1. \A n \in 1 .. 3 : n = 1 \/ n = 2 \/ n = 3
    OBVIOUS
  <2>2. \A n \in 1 .. 3 : Len(Entry(n).name) = 2
    BY <1>2, <2>1
  <2>3. Rank(Entry(1).name[1]) = 3 /\ Rank(Entry(2).name[1]) = 4 /\ Rank(Entry(3).name[1]) = 5
        /\ Rank(Entry(1).name[2]) = 4 /\ Rank(Entry(2).name[2]) = 3 /\ Rank(Entry(3).name[2]) = 4
    BY <1>2, <1>3
  <2> SUFFICES ASSUME NEW m \in 1 .. 3, NEW n \in 1 .. 3 PROVE Before(Entry(m), Entry(n)) <=> m < n
    OBVIOUS
  <2>4. Before(Entry(m), Entry(n)) <=>
          \/ Rank(Entry(m).name[1]) < Rank(Entry(n).name[1])
          \/ Entry(m).name[1] = Entry(n).name[1] /\ Rank(Entry(m).name[2]) < Rank(Entry(n).name[2])
    BY <1>4, <2>2
  <2> QED
    BY <2>1, <2>3, <2>4
<1>6. \A n \in 1 .. 3 : Before(Entry(n), Entry(4)) /\ ~Before(Entry(4), Entry(n))
  <2>1. \A n \in 1 .. 3 : Len(Entry(n).name) = 2
    BY <1>1, <1>2
  <2>2. Len(Entry(4).name) = 3
    BY <1>2
  <2>3. ASSUME NEW a, NEW b, Len(a.name) = 2, Len(b.name) = 3 PROVE Before(a, b) /\ ~Before(b, a)
    <3>1. 2 < 3 /\ ~(3 < 2) /\ ~(3 = 2)
      OBVIOUS
    <3>2. Before(a, b)
      BY <2>3, <3>1, Zenon DEF Before
    <3>3. ~Before(b, a)
      BY <2>3, <3>1, Zenon DEF Before
    <3> QED
      BY <3>2, <3>3
  <2> QED
    BY <2>1, <2>2, <2>3
<1>7. ~Before(Entry(4), Entry(4))
  <2>1. \A p \in 1 .. 3 : Entry(4).name[p] \in {"N", "O", "T"}
    BY <1>2
  <2>2. \A c \in {"N", "O", "T"} : Rank(c) \in Nat
    BY <1>3
  <2>3. Len(Entry(4).name) = 3
    BY <1>2
  <2> QED
    BY <2>1, <2>2, <2>3 DEF Before
<1> QED
  BY <1>1, <1>5, <1>6, <1>7

LEMMA TableIs == keywordTable = [n \in 1 .. 4 |-> Entry(n)]
<1> DEFINE T == [n \in 1 .. 4 |-> Entry(n)]
           Sorted(t) == \A m, n \in 1 .. 4 : m < n => Before(t[m], t[n])
<1>1. \A n \in 1 .. 4 : Entry(n) \in keywords
  <2>1. \A n \in 1 .. 4 : n = 1 \/ n = 2 \/ n = 3 \/ n = 4
    OBVIOUS
  <2> QED
    BY <2>1, EntriesAre
<1>2. \A e \in keywords : \E n \in 1 .. 4 : e = Entry(n)
  BY EntriesAre
<1>3. T \in [1 .. 4 -> keywords] /\ Sorted(T)
  BY <1>1, EntriesSorted
<1>4. ASSUME NEW t \in [1 .. 4 -> keywords], Sorted(t) PROVE t = T
  <2>1. PICK a \in 1 .. 4 : t[1] = Entry(a)
    BY <1>2
  <2>2. PICK b \in 1 .. 4 : t[2] = Entry(b)
    BY <1>2
  <2>3. PICK c \in 1 .. 4 : t[3] = Entry(c)
    BY <1>2
  <2>4. PICK d \in 1 .. 4 : t[4] = Entry(d)
    BY <1>2
  <2>5. Before(t[1], t[2]) /\ Before(t[2], t[3]) /\ Before(t[3], t[4])
    BY <1>4
  <2>6. a < b /\ b < c /\ c < d
    BY <2>1, <2>2, <2>3, <2>4, <2>5, EntriesSorted
  <2>7. a = 1 /\ b = 2 /\ c = 3 /\ d = 4
    BY <2>6
  <2>8. \A n \in 1 .. 4 : n = 1 \/ n = 2 \/ n = 3 \/ n = 4
    OBVIOUS
  <2> QED
    BY <2>1, <2>2, <2>3, <2>4, <2>7, <2>8
<1>5. keywordTable = CHOOSE t \in [1 .. 4 -> keywords] : Sorted(t)
  BY EntriesAre DEF keywordTable
<1> HIDE DEF T, Sorted
<1> QED
  BY <1>3, <1>4, <1>5 DEF T

LEMMA EntryNames ==
  /\ Entry(1) = [name |-> <<"N", "O">>, kind |-> "NO"]
  /\ Entry(2) = [name |-> <<"O", "N">>, kind |-> "ON"]
  /\ Entry(3) = [name |-> <<"T", "O">>, kind |-> "TO"]
  /\ Entry(4) = [name |-> <<"N", "O", "T">>, kind |-> "NOT"]
BY DEF Entry

LEMMA Names ==
  ASSUME NEW S, NEW p \in S, NEW q \in S, NEW r \in S
  PROVE  /\ <<p, q>> \in Seq(S) /\ <<p, q, r>> \in Seq(S)
         /\ Len(<<p, q>>) = 2 /\ <<p, q>>[1] = p /\ <<p, q>>[2] = q
         /\ Len(<<p, q, r>>) = 3 /\ <<p, q, r>>[1] = p
<1>1. <<p, q>> \in Seq(S)
  OBVIOUS
<1>2. <<p, q, r>> \in Seq(S)
  OBVIOUS
<1>3. Len(<<p, q>>) = 2 /\ <<p, q>>[1] = p /\ <<p, q>>[2] = q
  OBVIOUS
<1>4. Len(<<p, q, r>>) = 3 /\ <<p, q, r>>[1] = p
  OBVIOUS
<1> QED
  BY <1>1, <1>2, <1>3, <1>4

(* No index of the table is narrowed as long as its length fits: then the  *)
(* rows of a length and first letter are the keywords that have them.      *)
LEMMA CandidatesAre ==
  ASSUME Len(keywordTable) < IndexRange, NEW len, NEW c
  PROVE  Candidates(len, c) = {e \in keywords : Len(e.name) = len /\ e.name[1] = c}
<1> DEFINE g == Group(len, c)
           Has(n) == Len(Entry(n).name) = len /\ Entry(n).name[1] = c
<1>1. \A n \in 1 .. 4 : n = 1 \/ n = 2 \/ n = 3 \/ n = 4
  OBVIOUS
<1>3. \A m, n \in 1 .. 4 : Has(m) /\ Has(n) => m = n
  <2>1. Len(Entry(1).name) = 2 /\ Entry(1).name[1] = "N"
    BY EntryNames
  <2>2. Len(Entry(2).name) = 2 /\ Entry(2).name[1] = "O"
    BY EntryNames
  <2>3. Len(Entry(3).name) = 2 /\ Entry(3).name[1] = "T"
    BY EntryNames
  <2>4. Len(Entry(4).name) = 3
    BY EntryNames
  <2> QED
    BY <1>1, <2>1, <2>2, <2>3, <2>4
<1>4. keywordTable \in Seq(keywords) /\ Len(keywordTable) = 4 /\ \A n \in 1 .. 4 : keywordTable[n] = Entry(n)
  <2>1. \A n \in 1 .. 4 : Entry(n) \in keywords
    BY <1>1, EntriesAre
  <2> QED
    BY <2>1, TableIs
<1>5. g = {n \in 1 .. 4 : Has(n)}
  BY <1>4 DEF Group
<1>6. {e \in keywords : Len(e.name) = len /\ e.name[1] = c} = {Entry(n) : n \in g}
  <2>1. \A e : e \in keywords <=> \E n \in 1 .. 4 : e = Entry(n)
    BY <1>1, EntriesAre
  <2> QED
    BY <1>5, <2>1
<1>7. IndexRange \in Nat /\ 4 < IndexRange
  BY <1>4, IndexRangeAssumption
<1> HIDE DEF g, Has
<1>8. CASE g = {}
  <2>1. keywordShape(len, c).lo = 0 /\ keywordShape(len, c).n = 0
    <3>1. 0 % IndexRange = 0
      BY <1>7
    <3> QED
      BY <1>8, <3>1, FS_EmptySet DEF keywordShape, g
  <2>2. Candidates(len, c) = {}
    <3>1. (0 + 0) % IndexRange = 0 /\ 0 + 1 .. 0 = {}
      BY <1>7
    <3> QED
      BY <2>1, <3>1 DEF Candidates
  <2> QED
    BY <1>6, <1>8, <2>2
<1>9. CASE g # {}
  <2>1. PICK r \in 1 .. 4 : g = {r}
    BY <1>3, <1>5, <1>9
  <2>2. keywordShape(len, c).lo = r - 1 /\ keywordShape(len, c).n = 1
    <3>1. (CHOOSE q \in g : \A p \in g : q <= p) = r
      BY <2>1
    <3>2. Cardinality(g) = 1
      BY <2>1, FS_Singleton
    <3>3. (r - 1) % IndexRange = r - 1 /\ 1 % IndexRange = 1
      BY <1>7
    <3> QED
      BY <1>9, <3>1, <3>2, <3>3 DEF keywordShape, g
  <2>3. Candidates(len, c) = {keywordTable[q] : q \in r .. r}
    <3>1. (r - 1 + 1) % IndexRange = r /\ r - 1 + 1 = r
      BY <1>7
    <3> QED
      BY <2>2, <3>1 DEF Candidates
  <2>4. {keywordTable[q] : q \in r .. r} = {Entry(r)}
    BY <1>4
  <2>5. {Entry(n) : n \in g} = {Entry(r)}
    BY <2>1
  <2> QED
    BY <1>6, <2>3, <2>4, <2>5
<1> QED
  BY <1>8, <1>9

(* The table lookup is keywordCode, whatever the bytes of the name.        *)
LEMMA LookupSame ==
  ASSUME Len(keywordTable) < IndexRange, NEW w \in Texts
  PROVE  Lookup(w) = keywordCode(w)
<1> DEFINE u == [n \in 1 .. Len(w) |-> ToUpper(w[n])]
           Spelled == {"N", "O", "T"}
           rows == {e \in Candidates(Len(w), ToUpper(w[1])) : equalUpper(w, e.name)}
<1>1. Len(w) \in Nat
  BY DEF Texts
<1>2. \A n \in 1 .. 4 : n = 1 \/ n = 2 \/ n = 3 \/ n = 4
  OBVIOUS
<1>3. /\ Entry(1).name = <<"N", "O">> /\ Entry(1).kind = "NO"
      /\ Entry(2).name = <<"O", "N">> /\ Entry(2).kind = "ON"
      /\ Entry(3).name = <<"T", "O">> /\ Entry(3).kind = "TO"
      /\ Entry(4).name = <<"N", "O", "T">> /\ Entry(4).kind = "NOT"
  BY EntryNames
<1>4. keywordCode(w) = CASE u = <<"N", "O">>      -> "NO"
                         [] u = <<"N", "O", "T">> -> "NOT"
                         [] u = <<"O", "N">>      -> "ON"
                         [] u = <<"T", "O">>      -> "TO"
                         [] OTHER                 -> "ID"
  BY DEF keywordCode
<1>5. \A v \in Seq(Spelled) : u = v <=> Len(w) = Len(v) /\ \A n \in 1 .. Len(w) : ToUpper(w[n]) = v[n]
  <2> SUFFICES ASSUME NEW v \in Seq(Spelled)
               PROVE  u = v <=> Len(w) = Len(v) /\ \A n \in 1 .. Len(w) : ToUpper(w[n]) = v[n]
    OBVIOUS
  <2>1. v = [n \in 1 .. Len(v) |-> v[n]] /\ Len(v) \in Nat /\ DOMAIN v = 1 .. Len(v)
    OBVIOUS
  <2>2. DOMAIN u = 1 .. Len(w) /\ \A n \in 1 .. Len(w) : u[n] = ToUpper(w[n])
    OBVIOUS
  <2> HIDE DEF u
  <2>3. ASSUME u = v PROVE Len(w) = Len(v) /\ \A n \in 1 .. Len(w) : ToUpper(w[n]) = v[n]
    BY <1>1, <2>1, <2>2, <2>3
  <2>4. ASSUME Len(w) = Len(v), \A n \in 1 .. Len(w) : ToUpper(w[n]) = v[n] PROVE u = v
    BY <2>1, <2>4 DEF u
  <2> QED
    BY <2>3, <2>4
<1>6. /\ <<"N", "O">> \in Seq(Spelled) /\ Len(<<"N", "O">>) = 2
      /\ <<"O", "N">> \in Seq(Spelled) /\ Len(<<"O", "N">>) = 2
      /\ <<"T", "O">> \in Seq(Spelled) /\ Len(<<"T", "O">>) = 2
      /\ <<"N", "O", "T">> \in Seq(Spelled) /\ Len(<<"N", "O", "T">>) = 3
  <2>1. "N" \in Spelled /\ "O" \in Spelled /\ "T" \in Spelled
    OBVIOUS
  <2> HIDE DEF Spelled
  <2> QED
    BY <2>1, Names
<1> HIDE DEF u, Spelled
<1>7. \A e \in keywords : e.name \in Seq(Spelled) /\ Len(e.name) \in 2 .. 3
  <2>1. \A e \in keywords : e.name \in {<<"N", "O">>, <<"O", "N">>, <<"T", "O">>, <<"N", "O", "T">>}
    BY <1>3, EntriesAre
  <2>2. 2 \in 2 .. 3 /\ 3 \in 2 .. 3
    OBVIOUS
  <2> QED
    BY <1>6, <2>1, <2>2
<1>8. CASE Len(w) \notin minKeywordLen .. maxKeywordLen
  <2>1. Lookup(w) = "ID"
    BY <1>8 DEF Lookup
  <2>2. u # <<"N", "O">> /\ u # <<"N", "O", "T">> /\ u # <<"O", "N">> /\ u # <<"T", "O">>
    <3>1. Len(w) # 2 /\ Len(w) # 3
      BY <1>8 DEF minKeywordLen, maxKeywordLen
    <3> QED
      BY <1>5, <1>6, <3>1
  <2> QED
    BY <1>4, <2>1, <2>2
<1>9. CASE Len(w) \in minKeywordLen .. maxKeywordLen
  <2>1. Lookup(w) = IF rows = {} THEN "ID" ELSE (CHOOSE e \in rows : TRUE).kind
    BY <1>9 DEF Lookup
  <2>2. rows = {e \in keywords : e.name = u}
    <3>1. Candidates(Len(w), ToUpper(w[1])) = {e \in keywords : Len(e.name) = Len(w) /\ e.name[1] = ToUpper(w[1])}
      BY CandidatesAre
    <3>2. 1 \in 1 .. Len(w)
      BY <1>9 DEF minKeywordLen, maxKeywordLen
    <3>3. ASSUME NEW e \in keywords
          PROVE  e.name = u <=> /\ Len(e.name) = Len(w) /\ e.name[1] = ToUpper(w[1])
                                /\ equalUpper(w, e.name)
      BY <1>5, <1>7, <3>2 DEF equalUpper
    <3> QED
      BY <3>1, <3>3
  <2> HIDE DEF rows
  <2>3. keywords = {Entry(1), Entry(2), Entry(3), Entry(4)}
    BY EntriesAre
  <2>4. <<"N", "O">> # <<"N", "O", "T">> /\ <<"N", "O">> # <<"O", "N">> /\ <<"N", "O">> # <<"T", "O">>
        /\ <<"O", "N">> # <<"N", "O", "T">> /\ <<"T", "O">> # <<"N", "O", "T">> /\ <<"O", "N">> # <<"T", "O">>
    OBVIOUS
  <2>5. CASE u = <<"N", "O">>
    <3>1. Entry(1).name = u /\ Entry(2).name # u /\ Entry(3).name # u /\ Entry(4).name # u
      BY <1>3, <2>4, <2>5, Zenon
    <3>2. rows = {Entry(1)}
      BY <2>2, <2>3, <3>1
    <3> QED
      BY <1>3, <1>4, <2>1, <2>4, <2>5, <3>2
  <2>6. CASE u = <<"O", "N">>
    <3>1. Entry(2).name = u /\ Entry(1).name # u /\ Entry(3).name # u /\ Entry(4).name # u
      BY <1>3, <2>4, <2>6, Zenon
    <3>2. rows = {Entry(2)}
      BY <2>2, <2>3, <3>1
    <3> QED
      BY <1>3, <1>4, <2>1, <2>4, <2>6, <3>2
  <2>7. CASE u = <<"T", "O">>
    <3>1. Entry(3).name = u /\ Entry(1).name # u /\ Entry(2).name # u /\ Entry(4).name # u
      BY <1>3, <2>4, <2>7, Zenon
    <3>2. rows = {Entry(3)}
      BY <2>2, <2>3, <3>1
    <3> QED
      BY <1>3, <1>4, <2>1, <2>4, <2>7, <3>2
  <2>8. CASE u = <<"N", "O", "T">>
    <3>1. Entry(4).name = u /\ Entry(1).name # u /\ Entry(2).name # u /\ Entry(3).name # u
      BY <1>3, <2>4, <2>8, Zenon
    <3>2. rows = {Entry(4)}
      BY <2>2, <2>3, <3>1
    <3> QED
      BY <1>3, <1>4, <2>1, <2>4, <2>8, <3>2
  <2>9. CASE u # <<"N", "O">> /\ u # <<"O", "N">> /\ u # <<"T", "O">> /\ u # <<"N", "O", "T">>
    <3>1. Entry(1).name # u /\ Entry(2).name # u /\ Entry(3).name # u /\ Entry(4).name # u
      BY <1>3, <2>9, Zenon
    <3>2. rows = {}
      BY <2>2, <2>3, <3>1
    <3> QED
      BY <1>4, <2>1, <2>9, <3>2
  <2> QED
    BY <2>5, <2>6, <2>7, <2>8, <2>9
<1> QED
  BY <1>8, <1>9

---------------------------------------------------------------------------
(* meyer's scanner finds, at every position of every text that is not a    *)
(* NUL, the token that sqlite3GetToken finds there: the same kind and the  *)
(* same end, which is behind the position and in the text. At a NUL it     *)
(* reports the end of the input. The one hypothesis is that the keyword    *)
(* table fits the integers that index it.                                  *)
THEOREM ScanIsGetToken ==
  ASSUME Len(keywordTable) < IndexRange, NEW s \in Texts, NEW i \in 1 .. Len(s)
  PROVE  IF s[i] = "NUL"
           THEN scan(s, i) = Token("EOF", i)
           ELSE scan(s, i) = GetToken(s, i) /\ scan(s, i) \in Found(s, i)
<1>1. CASE s[i] = "NUL"
  BY <1>1 DEF scan, isSpaceStart, isSpace, Single, isDigit, isKeywordStart, isAlpha, Lower, Upper, Words
<1>2. CASE s[i] # "NUL"
  <2>1. \A w \in Texts : Lookup(w) = keywordCode(w)
    BY LookupSame
  <2>2. CASE s[i] \in {"SP", "NL"}
    BY <2>2, SpaceSame, <1>2
  <2>3. CASE s[i] = "-"
    BY <2>3, MinusSame, <1>2
  <2>4. CASE s[i] = "/"
    BY <2>4, SlashSame, <1>2
  <2>5. CASE s[i] \in {"(", ")", "SC", "+", "*", "=", "<", ">", "!", "|"}
    BY <2>5, OperatorSame, <1>2
  <2>6. CASE s[i] \in {"'", "DQ", "BQ", "["}
    BY <2>6, DelimitedSame, <1>2
  <2>7. CASE s[i] \in {".", "0"}
    BY <2>7, NumericSame, <1>2
  <2>8. CASE s[i] \in {"?", "$", "@", "#", ":"}
    BY <2>8, ParameterSame, <1>2
  <2>9. CASE s[i] \in isIDChar /\ s[i] \notin {"0", "$"}
    BY <2>1, <2>9, LetterSame, <1>2
  <2>10. CASE s[i] \notin isIDChar \cup {"SP", "NL", "-", "/", "(", ")", "SC", "+", "*", "=", "<", ">", "!", "|",
                                        "'", "DQ", "BQ", "[", ".", "?", "@", "#", ":", "NUL"}
    BY <2>10, OtherSame, <1>2
  <2> QED
    BY <1>2, <2>2, <2>3, <2>4, <2>5, <2>6, <2>7, <2>8, <2>9, <2>10
<1> QED
  BY <1>1, <1>2
====
