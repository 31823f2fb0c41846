---- MODULE Lemon ----
(***************************************************************************)
(* The parser Lemon generates from parse.y, for the part of the grammar    *)
(* that derives inputs over Alphabet: an LALR(1) automaton whose conflicts *)
(* are resolved by precedence, with default reductions, %fallback and      *)
(* %wildcard, and the push-down engine that runs it. The repository calls  *)
(* this parser "SQLite": it is the oracle its corpus is made with.         *)
(*                                                                         *)
(* The generator is a pipeline: each of its stages takes the record g that *)
(* the stages before it have built, and adds fields.                       *)
(***************************************************************************)
EXTENDS ParseY

(* f, each value computed once; the second for a sequence.                 *)
Memo(f)     == f @@ <<>>
MemoList(f) == f \o <<>>

---------------------------------------------------------------------------
(* The rules that derive some input over Alphabet.                         *)

ClassNames == { c \in DOMAIN TokenClass : TokenClass[c] \cap Alphabet # {} }
Terminals  == Alphabet \cup ClassNames \cup {"ANY"}

Derives(r, symbols) == \A k \in DOMAIN r.rhs : r.rhs[k] \in symbols

RECURSIVE Productive(_, _, _)
Productive(grammar, terminals, found) ==
  LET more == { grammar[r].lhs : r \in
                 { q \in DOMAIN grammar : Derives(grammar[q], terminals \cup found) } }
  IN IF more = found THEN found ELSE Productive(grammar, terminals, more)

RulesOver(grammar, nonterms) ==
  [ nonterms |-> nonterms,
    rules    |-> SelectSeq(grammar, LAMBDA r : Derives(r, Terminals \cup nonterms)) ]

RECURSIVE Nullable(_, _)
Nullable(rules, found) ==
  LET more == { rules[r].lhs : r \in { q \in DOMAIN rules : Derives(rules[q], found) } }
  IN IF more = found THEN found ELSE Nullable(rules, more)

Indexed(g) ==
  g @@ [ ids      |-> DOMAIN g.rules,
         lhs      |-> MemoList([r \in DOMAIN g.rules |-> g.rules[r].lhs]),
         rhs      |-> MemoList([r \in DOMAIN g.rules |-> g.rules[r].rhs]),
         size     |-> MemoList([r \in DOMAIN g.rules |-> Len(g.rules[r].rhs)]),
         of       |-> Memo([a \in g.nonterms |->
                              { r \in DOMAIN g.rules : g.rules[r].lhs = a }]),
         nullable |-> Nullable(g.rules, {}) ]

---------------------------------------------------------------------------
(* LR(0). The item  r : A ::= X1..Xd . Xd+1..Xn  is the number r * W + d,  *)
(* a state is the set of its kernel items; item 0 is the start.            *)

W == 32

(* The symbol after the dot, "" if there is none.                          *)
After(g) ==
  Memo([it \in {0} \cup UNION { { r * W + d : d \in 0 .. g.size[r] } : r \in g.ids } |->
          IF it = 0 THEN "input"
          ELSE IF it % W = g.size[it \div W] THEN ""
          ELSE g.rhs[it \div W][(it % W) + 1]])

RECURSIVE LeftCorners(_, _)
LeftCorners(g, found) ==
  LET more == found \cup
              ({ g.rhs[r][1] : r \in { q \in UNION { g.of[a] : a \in found } : g.size[q] > 0 } }
                 \cap g.nonterms)
  IN IF more = found THEN found ELSE LeftCorners(g, more)

(* What closing a state over a nonterminal adds to it.                     *)
Starts(g) ==
  Memo([a \in g.nonterms |->
          { r * W : r \in UNION { g.of[b] : b \in LeftCorners(g, {a}) } }])

Itemized(g) == g @@ [ after |-> After(g), starts |-> Starts(g) ]

Closure(g, kernel) ==
  kernel \cup UNION { g.starts[a] : a \in { g.after[it] : it \in kernel } \cap g.nonterms }

GotosOf(g, items) ==
  Memo([x \in { g.after[it] : it \in items } \ {"", "input"} |->
          { it + 1 : it \in { j \in items : g.after[j] = x } }])
Gotos(g, kernel) == GotosOf(g, Closure(g, kernel))

RECURSIVE Listed(_)
Listed(S) == IF S = {} THEN <<>> ELSE LET x == CHOOSE y \in S : TRUE IN <<x>> \o Listed(S \ {x})

Kernels(gotos) == { gotos[x] : x \in DOMAIN gotos }

(* The states, those nearest to the start first.                           *)
RECURSIVE Explore(_, _, _, _)
Explore(g, list, seen, todo) ==
  LET next == UNION { Kernels(Gotos(g, k)) : k \in todo } \ seen
  IN IF next = {} THEN list ELSE Explore(g, list \o Listed(next), seen \cup next, next)

Explored(g) == g @@ [ states |-> Explore(g, << {0} >>, { {0} }, { {0} }) ]

(* The transitions of each state, on terminals (or classes of them) and on *)
(* nonterminals.                                                           *)
Numbered(gotos, index) == Memo([x \in DOMAIN gotos |-> index[gotos[x]]])
Goto(g, index) ==
  MemoList([n \in DOMAIN g.states |-> Numbered(Gotos(g, g.states[n]), index)])

Index(states) ==
  Memo([k \in { states[n] : n \in DOMAIN states } |-> CHOOSE n \in DOMAIN states : states[n] = k])

Linked(g) == g @@ [ goto |-> Goto(g, Index(g.states)) ]

---------------------------------------------------------------------------
(* LALR(1) lookaheads, by the relations of DeRemer and Pennello on the     *)
(* transitions <<state, nonterminal>>.                                     *)

Members(x) == IF x \in DOMAIN TokenClass THEN TokenClass[x] ELSE {x}

Trans(g) ==
  {<<1, "input">>} \cup
  UNION { { <<n, a>> : a \in DOMAIN g.goto[n] \cap g.nonterms } : n \in DOMAIN g.states }

(* The states passed when rule r is read from state n.                     *)
Path(g, n, r) ==
  LET p[k \in 0 .. g.size[r]] == IF k = 0 THEN n ELSE g.goto[p[k - 1]][g.rhs[r][k]]
  IN Memo(p)

(* <<transition, rule, path>> for every way to complete a transition.      *)
Walks(g) ==
  UNION { { <<tr, r, Path(g, tr[1], r)>> : r \in g.of[tr[2]] } : tr \in g.trans }

TailNullable(g) ==
  MemoList([r \in g.ids |->
     { k \in 1 .. g.size[r] : \A j \in k + 1 .. g.size[r] : g.rhs[r][j] \in g.nullable }])

(* What a transition's lookaheads include, in one step: those of a nested  *)
(* nullable transition, and those of a transition it ends.                 *)
Reads(g) ==
  Memo([tr \in g.trans |->
     IF tr[2] = "input" THEN {}
     ELSE { <<g.goto[tr[1]][tr[2]], a>> :
              a \in DOMAIN g.goto[g.goto[tr[1]][tr[2]]] \cap g.nullable }])

IncludePairs(g, tails) ==
  UNION { { << <<w[3][k - 1], g.rhs[w[2]][k]>>, w[1] >> :
              k \in { j \in tails[w[2]] : g.rhs[w[2]][j] \in g.nonterms } } : w \in g.walks }

Includes(g, pairs) == Memo([tr \in g.trans |-> { q[2] : q \in { p \in pairs : p[1] = tr } }])

DirectReads(g) ==
  Memo([tr \in g.trans |->
     IF tr[2] = "input" THEN {"$"}
     ELSE UNION { Members(x) : x \in DOMAIN g.goto[g.goto[tr[1]][tr[2]]] \ g.nonterms }])

RECURSIVE Close(_, _)
Close(f, rel) ==
  LET more == Memo([x \in DOMAIN f |-> f[x] \cup UNION { f[y] : y \in rel[x] }])
  IN IF more = f THEN f ELSE Close(more, rel)

Follow(g) ==
  Close(Close(DirectReads(g), Reads(g)), Includes(g, IncludePairs(g, TailNullable(g))))

Walked(g)   == g @@ [ trans |-> Trans(g) ]
Followed(g) == g @@ [ walks |-> Walks(g) ]
Looked(g)   == g @@ [ follow |-> Follow(g) ]

Lookahead(g, n, r) ==
  UNION { g.follow[w[1]] : w \in { v \in g.walks : v[2] = r /\ v[3][g.size[r]] = n } }

---------------------------------------------------------------------------
(* The action table.                                                       *)

Inputs == Alphabet \cup {"$"}


LevelOf(levels) == IF levels = {} THEN 0 ELSE CHOOSE k \in levels : TRUE
Level(x) == LevelOf({ k \in DOMAIN Precedence : Members(x) \cap Precedence[k] # {} })

(* The precedence of a rule: that of its mark, or of its first terminal    *)
(* that has one.                                                           *)
FirstOf(levels) ==
  LET ks == { k \in DOMAIN levels : levels[k] > 0 }
  IN IF ks = {} THEN 0 ELSE levels[CHOOSE k \in ks : \A j \in ks : k <= j]

RuleLevel(g) ==
  MemoList([r \in g.ids |->
     IF g.rules[r].mark # "" THEN Level(g.rules[r].mark)
     ELSE FirstOf([k \in 1 .. g.size[r] |-> Level(g.rhs[r][k])])])

Ranked(g) == g @@ [ level |-> RuleLevel(g) ]

(* resolve_conflict: rule r against shifting t, of precedence level.       *)
Reduces(g, r, t, level) ==
  g.level[r] > 0 /\ level > 0 /\
  (g.level[r] > level \/ (g.level[r] = level /\ t \notin RightAssoc))

(* rule r against rule q.                                                  *)
Preferred(g, r, q) == g.level[r] > g.level[q] \/ (g.level[r] = g.level[q] /\ r <= q)

(* What is left on t in state n of the rules that are ready and the        *)
(* symbols that can be shifted: the state to shift to, the negated rule to *)
(* reduce by, or 0.                                                        *)
Action(g, n, t, ready, shifts) ==
  LET best == CHOOSE q \in ready : \A p \in ready : Preferred(g, q, p)
  IN IF shifts # {} /\ (ready = {} \/ ~ Reduces(g, best, t, Level(t)))
       THEN g.goto[n][CHOOSE x \in shifts : TRUE]
     ELSE IF ready # {} THEN -best ELSE 0

ActionsOf(g, n, follows) ==
  Memo([t \in Inputs \cup {"ANY"} |->
     Action(g, n, t,
            { q \in DOMAIN follows : t \in follows[q] },
            { x \in DOMAIN g.goto[n] \ g.nonterms : t \in Members(x) })])

(* The rules that are complete in a state, with their lookaheads.          *)
Follows(g, n) ==
  Memo([q \in { it \div W : it \in { k \in Closure(g, g.states[n]) : g.after[k] = "" } } |->
          Lookahead(g, n, q)])

Explicit(g) == MemoList([n \in DOMAIN g.states |-> ActionsOf(g, n, Follows(g, n))])

(* The rule most lookaheads of a state reduce by, unless the wildcard can  *)
(* be shifted there; never a rule of the start symbol.                     *)
Default(g, actions) ==
  LET rules == { -actions[t] : t \in { u \in Inputs : actions[u] < 0 } } \ g.of["input"]
      Uses(r) == Cardinality({ u \in Inputs : actions[u] = -r })
  IN IF actions["ANY"] > 0 \/ rules = {} THEN 0
     ELSE CHOOSE r \in rules : \A q \in rules :
            Uses(r) > Uses(q) \/ (Uses(r) = Uses(q) /\ r <= q)

(* yy_find_shift_action: what the state does on t, what it does on the     *)
(* fallback of t, the wildcard, and the default reduction.                 *)
Look(actions, default) ==
  LET Own(t) == IF actions[t] = -default THEN 0 ELSE actions[t]
  IN Memo([t \in Inputs |->
       IF Own(t) # 0 THEN Own(t)
       ELSE IF t \in Fallback /\ Own("ID") # 0 THEN Own("ID")
       ELSE IF t # "$" /\ Own("ANY") # 0 THEN Own("ANY")
       ELSE -default])

LookOf(g, actions) == Look(actions, Default(g, actions))
Tabled(g, explicit) == MemoList([n \in DOMAIN explicit |-> LookOf(g, explicit[n])])

(* What of it the generated parser has: the tables.                        *)
Generated(g) ==
  [ look |-> Tabled(g, Explicit(g)), goto |-> g.goto, lhs |-> g.lhs, size |-> g.size,
    node |-> MemoList([r \in g.ids |-> g.rules[r].node]) ]

Automaton ==
  Generated(Ranked(Looked(Followed(Walked(Linked(Explored(Itemized(Indexed(
    RulesOver(Grammar, Productive(Grammar, Terminals, {})))))))))))

---------------------------------------------------------------------------
(* The engine: a stack of states, the nodes built, and what the grammar    *)
(* made of the input so far. a is the automaton.                           *)

Raising == {"Register", "BadNumber"}   \* the actions that raise an error

EngineInit == [states |-> <<1>>, nodes |-> <<>>, raised |-> FALSE, outcome |-> "running"]
Halt(e, o) == [e EXCEPT !.outcome = o]

(* Reduce by rule r; the rule for "input" accepts.                         *)
Reduce(a, e, r) ==
  LET rest == SubSeq(e.states, 1, Len(e.states) - a.size[r])
  IN [ states  |-> IF a.lhs[r] = "input" THEN rest
                   ELSE Append(rest, a.goto[rest[Len(rest)]][a.lhs[r]]),
       nodes   |-> IF a.node[r] = "" THEN e.nodes ELSE Append(e.nodes, a.node[r]),
       raised  |-> e.raised \/ a.node[r] \in Raising,
       outcome |-> IF a.lhs[r] = "input" THEN "ok" ELSE "running" ]

(* sqlite3Parser: handle one token. A syntax error overrides an error      *)
(* raised on the way.                                                      *)
RECURSIVE Handle(_, _, _)
Handle(a, e, t) ==
  LET act  == a.look[e.states[Len(e.states)]][t]
      next == Reduce(a, e, -act)
  IN IF act = 0 THEN Halt(e, "syntax")
     ELSE IF act > 0
       THEN [e EXCEPT !.states = Append(@, act), !.outcome = IF e.raised THEN "action" ELSE @]
     ELSE IF next.outcome = "running" THEN Handle(a, next, t)
     ELSE IF next.raised THEN Halt(next, "action")
     ELSE next

(* sqlite3RunParser at the end of the input: a semicolon, unless the last  *)
(* token was one or there was none, and the end marker.                    *)
HandleEnd(a, e, final) ==
  LET closed == IF final = "SEMI" THEN e ELSE Handle(a, e, "SEMI")
  IN IF final = "" THEN Halt(e, "ok")
     ELSE IF closed.outcome = "running" THEN Handle(a, closed, "$")
     ELSE closed
====
