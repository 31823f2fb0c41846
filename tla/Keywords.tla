---- MODULE Keywords ----
(***************************************************************************)
(* The keyword lookup of token/keywords.go: the keywords sorted by length  *)
(* and spelling, and for each length and first letter the place of the     *)
(* group in the table, in the narrow integer the code keeps it in.         *)
(***************************************************************************)
EXTENDS Integers, Sequences, FiniteSets, Characters

CONSTANT IndexRange     \* 2^8: keywordShape holds its indexes as uint8

ASSUME IndexRangeAssumption == IndexRange \in Nat \ {0}

(* The keywords the letters n, o and t and the words can form.             *)
keywords ==
  { [name |-> <<"N", "O">>, kind |-> "NO"],
    [name |-> <<"N", "O", "T">>, kind |-> "NOT"],
    [name |-> <<"O", "N">>, kind |-> "ON"],
    [name |-> <<"T", "O">>, kind |-> "TO"] }

minKeywordLen == 2
maxKeywordLen == 3

Letters == <<"A", "E", "N", "O", "T", "X">>
Rank(c) == CHOOSE n \in 1 .. Len(Letters) : Letters[n] = c

(* The order of init's SortFunc: by length, then alphabetically.           *)
Before(a, b) ==
  \/ Len(a.name) < Len(b.name)
  \/ /\ Len(a.name) = Len(b.name)
     /\ \E n \in 1 .. Len(a.name) :
          /\ \A m \in 1 .. n - 1 : a.name[m] = b.name[m]
          /\ Rank(a.name[n]) < Rank(b.name[n])

keywordTable ==
  CHOOSE t \in [1 .. Cardinality(keywords) -> keywords] :
    \A m, n \in 1 .. Cardinality(keywords) : m < n => Before(t[m], t[n])

Group(len, c) ==
  {r \in 1 .. Len(keywordTable) : Len(keywordTable[r].name) = len /\ keywordTable[r].name[1] = c}

(* One entry of keywordShape, with indexes from 0.                         *)
keywordShape(len, c) ==
  LET g == Group(len, c)
  IN [lo |-> IF g = {} THEN 0 ELSE ((CHOOSE r \in g : \A q \in g : r <= q) - 1) % IndexRange,
      n  |-> Cardinality(g) % IndexRange]

(* keywordTable[g.lo : g.lo+g.n], the sum in uint8 as well. A sum that     *)
(* wraps leaves nothing here and is a panic in the code; it takes a table  *)
(* of IndexRange rows, which no run and no theorem has.                    *)
Candidates(len, c) ==
  LET g == keywordShape(len, c)
  IN {keywordTable[r] : r \in g.lo + 1 .. (g.lo + g.n) % IndexRange}

equalUpper(name, kw) == \A n \in 1 .. Len(name) : ToUpper(name[n]) = kw[n]

Lookup(name) ==
  IF Len(name) \notin minKeywordLen .. maxKeywordLen
    THEN "ID"
    ELSE LET rows == {e \in Candidates(Len(name), ToUpper(name[1])) : equalUpper(name, e.name)}
         IN IF rows = {} THEN "ID" ELSE (CHOOSE e \in rows : TRUE).kind
====
