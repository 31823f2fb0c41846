# meyer in TLA+

meyer is a parser for SQLite's SQL written in Go by hand: a lexer, a recursive
descent parser with precedence climbing, a syntax tree, and a renderer. Its
promise (README.md:123-128 of the repository) is strong and unusual: it must
accept exactly what the LALR(1) parser Lemon generates from SQLite's `parse.y`
accepts, and reject everything else with the same message at the same offset.
The repository defends it with a corpus of 21,326 cases and a differential
tester, which both ask SQLite itself. This directory states the promise as
properties and decides them: for restricted alphabets and *every* input over
them with TLC, and for the tokenizer, the lexer's passes, the token loop, the recursion
count and the numbering of parameters with every input and every limit with TLAPS. It does the same for
the programs the evidence comes from, the corpus generator and the tester: what
they may be trusted with when they are killed, race, or talk to an oracle that
exits is checked by TLC and proved for any scripts, texts and number of workers.

* [Inventory](#inventory) – the parts of the system, and what is hard in them
* [Modules](#modules) – what models what
* [Runs](#runs) – what TLC checks, with which bounds
* [Disagreements](#disagreements) – what the code does against its documentation
* [Proofs](#proofs) – what holds for every value of the constants
* [Limits](#limits) – what is only model-checked, and what is not modelled
* [Plan](#plan) – what comes next

## Inventory

| Part | State | Operations | Interacts with |
|---|---|---|---|
| Lexer (`lexer/lexer.go`) | offset in the source, tokens and trivia so far | `Lex`, `LexFile`: one pass over the bytes, then `resolveWindowKeywords` over the tokens | calls `token.Lookup`; its slice is read by the parser |
| Token kinds (`token/`) | the keyword table, built at start | `Lookup`, `CanFallback`, `IsName`, `IsIDS`, `IsIDJ`, `IsPlainID` | lexer and parser |
| Cursor and statement loop (`parser/parser.go`) | `toks`, `i`, `depth`, `deferred`, `deferIndex` | `advance`, `peek`, `enter`, `leave`, `fail`, `defer_`, `flushDeferred`; `parseScript`, `parseExplainable`, `parseCmd`; `ParseString`, `ParseFile`, `ParseStatement`, `ParseExpr` | every parse function is written on it |
| Parse functions (`parser/parse_*.go`) | the Go call stack | one function for one or a few nonterminals of `parse.y` | cursor; build `ast` nodes |
| Bind parameters (`parser/parse_expr.go`) | `nVar`, `varNums` | `bindParam` | may raise a deferred error |
| Syntax tree and renderer (`ast/`) | none | constructors, `Statements` (text of a tree) | round trip |
| Round trip, dump (`internal/`) | none | `Check`, `Stmts` | parser and renderer |
| Oracle (`internal/sqlitesrc/`) | cache directory; one C process and two pipes per `Runner` | `Oracle`, `TestScripts`, `download`, `unzip`, `NewRunner`, `Run`, `Close` | network, disk, `cc`, the process |
| Corpus (`internal/testfile`, `internal/tclextract`, `cmd/regenerate-parse`) | `*.test` files and their todo sidecars; a pool of runners | extraction, classification by workers, `Write`, `mergeMetadata` | oracle, disk |
| Differential tester (`cmd/difftest`) | counters, workers | `check` | oracle, parser, round trip |
| Reference (`internal/reference/`) | – | `parse.y`, `tokenize.c`, kept as documentation | what the parser is a port of |

What is hard:

* **Two automata for one language.** SQLite decides with a state of its LALR
  table, default reductions, `%fallback ID`, `%wildcard ANY` and precedence.
  meyer decides with the kind of one to three tokens. They agree only if every
  lookahead test of a parse function is the trace the automaton leaves, in
  every context the function is called from. About eighty of the keywords can
  be names, so a wrong test is rarely met by a test case.
* **The order of errors.** SQLite's tokenizer runs one token ahead of the
  parser, an error of a grammar action stops it only after the token being
  handled, and a syntax error at that token overtakes it. meyer has the whole
  token slice at once and reproduces this with a deferred error.
* **Recursion.** SQLite's stack is on the heap. meyer's is the goroutine stack,
  guarded by `depth`, which all recursive functions must keep in balance.
* **Positions.** Spans are computed from the previous token and the lookahead
  at the time a function returns.
* **Context in the tokenizer.** WINDOW, OVER and FILTER are keywords or names
  depending on their neighbours. SQLite decides while it reads, with a second
  tokenizer running ahead; meyer in a pass of its own that overwrites the slice
  it reads.
* **Numbers across statements.** Parameters are numbered through a script, by
  a counter that `?NNN` moves and nothing limits.
* **Files, processes and goroutines** in the corpus tooling: crashes between two
  writes, a cache judged by the presence of one file, a pipe protocol whose
  frames are ended by a line, a worker pool, an oracle that exits.
* **Evidence from a partial observation.** An oracle that stops at a semantic
  error has not seen the rest of the text; what its answer proves about the
  parser has to be worked out from offsets.

What makes each part correct: the cursor reports the error SQLite reports and
delimits statements; the parse functions accept what SQLite accepts, stop at
the token it stops at, and build nodes in the order it reduces; the depth is
the number of active recursive functions; the corpus never marks a case as
passing that nobody looked at. `PROJECT.json` lists the hazards at their lines.

## Modules

### The token loop

| Module | What it is |
|---|---|
| `RunParser` | what `sqlite3RunParser` (tokenize.c) promises about errors, whatever the grammar: the abstract specification |
| `Parser` | the cursor and the statement loop of `parser.go` |
| `ParserProofs` | its theorems |
| `MCParser` | its instance for TLC |

`Parser` has one variable for each field of Go's `parser` struct the loop uses
(`toks`, `i`, `depth`, `deferred`, `deferIndex`), the span list and the start
position of `parseScript` (`stmts`, `start`), and where the caller chain is
(`entry`, the exported function; `pc`, the position in it). `result` is
`Running` until the call returns or `panic(bail{..})` unwinds it. One action is
one call of a primitive with all that it does: `Consume` is `advance` with its
test for a deferred error and its `checkIllegal`; `BindRegister` is `advance`
followed by `bindParam`'s `defer_`; `EndStatement` is the tail of the loop of
`parseScript`, with the semicolon, the flush and the span. The body of a
statement is *any* sequence of the primitives, so what holds of `Parser` holds
for every grammar; positions are token indices.

`BindParams` adds the numbering of parameters to it: `raw` is the text of each
VARIABLE token, `nVar` and `varNums` are the fields of the struct, `params` the
`BindParam` nodes in source order. Its `Bind` is `parsePrimary` on a VARIABLE:
the advance, and if that did not fail, one of the branches of `bindParam`. An
int ends at `IntMax`; `Wrap` is Go's `++` there, and `Explicit` what a failing
`Atoi` leaves. `ParserProofs` has its theorems as well, among them that it
implements `Parser`.

### The lexer

| Module | What it models |
|---|---|
| `Characters` | the bytes, as far as either tokenizer tells them apart |
| `Keywords` | `token.Lookup` and the table `init` builds for it |
| `Scanner` | `scan` and its helpers (`lexer/lexer.go`) |
| `Lexer` | `lex`, `resolveWindowKeywords`, and the parser reading the slice |
| `GetToken` | `sqlite3GetToken` (tokenize.c) |
| `TokenLoop` | the loop of `sqlite3RunParser` as a tokenizer: the abstract specification |
| `SplitDiffers` | where the oracle cuts a text into statements (`runScript` in oracle.c), and `SplitDiffers` of `internal/sqlitesrc`, which is to tell from the tokens where that is not where statements end |
| `NumberProofs` | lemmas about numbers and recursive functions over positions, for all the proofs below |
| `ScannerProofs` | `Scanner` and `GetToken` find the same tokens |
| `LexerProofs` | the theorems of `Lexer` and `SplitDiffers` |

`Lexer` has one action for a round of each loop: `LexOne` scans a token, which
goes to `toks` or `trivia`; `ResolveOne` overwrites the kind of one token;
`ParserReads` is the parser taking the next. `scan` is a constant of it, so the
proofs hold for any scanner, and the instance has `Scanner`. The refinement to
`TokenLoop` says what the two have in common: SQLite has handed over the tokens
the parser has read, `zSql` is where the last of them stops. The two tokenizers are written
independently, one from the Go code and one from the C code: `Scanner` finds
the first position where a class ends, `GetToken` counts round by round.
`SplitDiffers` adds the third scanner of the same text, that of
`sqlite3_complete`, and has no action of its own: it is a function of the source
and of the tokens `Lexer` has made of it. `Beyond` is where that scanner goes on
behind what it finds at a position, `Semicolons` what it sees from the start to the
end, and `Cuts` the loop of `runScript` around it. `Keywords` has the rows of the
table that the letters of a run can spell, sorted and indexed as `init` does.

### The grammar

| Module | What it models |
|---|---|
| `Tokens` | token kinds and their classes (`token/`) |
| `Calls` | the notation of a parse function, node names |
| `ParseExpr` | `parse_expr.go` |
| `ParseSelect` | `parse_select.go` |
| `ParseDML` | `parse_dml.go`, `parse_trigger.go` |
| `ParseDDL` | `parse_ddl.go` |
| `ParseMisc` | `parse_misc.go` |
| `Descent` | the grammar part of `parser.go`, and the machine that runs all tables |
| `Meyer` | the machine reading an input one token at a time |
| `DescentProofs` | the theorems of `Meyer` |
| `ParseY` | `parse.y`: rules, classes, precedence, fallback |
| `Lemon` | the parser Lemon makes of it: LR(0) states, LALR lookaheads, conflict resolution, default reductions, and the engine with the end-of-input protocol of `sqlite3RunParser` |
| `Lockstep` | both parsers fed the same tokens |

A parse function is a **table** from the kind of the token it looks at to what
it does: consume a token of a kind or class, call, `enter`, `leave`, raise an
error, build a node. Where a function looks again, the rest of it is a table of
its own (`parseIn`, `inOperand`, `inList`). Few functions look further than the
lookahead: `ExprPeeks` and `SelectPeeks` are the tables for `p.peek(1)`,
`SelectPeeks2` the one for `p.peek(2)`. `Expr(min)` and `Ops(min)` are
`parseExpr(min)` and its loop. Go's call stack becomes `stack`, the symbols the
active functions have left to do; `Descent!Run` executes it until it needs a
token it has not been given. One `Round` of it does what the symbol on top says: `Symbol`
has for each symbol what it is, a table, a node, an instruction such as `enter`, or an
expectation.

`Lemon` is external code, modelled from the grammar in the repository and the
published behaviour of the generator, because "SQLite accepts" has no meaning
without it. It is a pipeline like the generator: `Indexed`, `Itemized`,
`Explored`, ..., `Ranked` each extend a record of what is known of the grammar, and
`Automaton`, the tables, is what they make of `ParseY` restricted to the rules
that derive inputs over the alphabet. Rules that build a node of `ast` name it,
and reducing by them records it, so that the two parsers can be compared on the
tree as well.

`Meyer` is this parser alone: a step gives it one more token, chosen freely, and lets
it run (`Given`, `Becomes`). In `Lockstep`, which EXTENDS it, a step gives both parsers the
token. The
engine handles what meyer consumed; when meyer stops, the engine handles the
lookahead meyer stopped at. What a step of `Lockstep` does to meyer's variables is
`Reading /\ Becomes(Given(t))`, a step of `MeyerNext`, or nothing (`Done`), so that the
theorems of `Meyer` speak of the states of these runs. The state is the two stacks and no
history, so a finite state space covers inputs **of every length**; what bounds it is
the nesting.

### The corpus tooling

| Module | What it models |
|---|---|
| `Artifacts` | the cache of `internal/sqlitesrc`: `Oracle`, `TestScripts`, `download`, `unzip`, and what an interruption leaves of each file |
| `Runner` | `Runner.Run` and the process behind its pipes (`oracle.c -batch`) |
| `Regenerate` | `cmd/regenerate-parse`: main goroutine, workers, pool, the corpus file and its sidecar, kills and further runs |
| `Expectation` | `Case.Expected` (`internal/testfile`) and the comparison in `check` |
| `Difftest` | `cmd/difftest`: main goroutine, workers, report |
| `RunnerProofs` | lemmas about `Run` and what one record leaves in a pipe for the next; both programs' proofs use them |
| `RegenerateProofs` | the theorems of `Regenerate`: types, pool and sidecar; what the corpus says, and what a run that ends well has done |
| `DifftestProofs` | the theorems of `Difftest` |

Each goroutine has a program counter (`pc`, `worker[w].pc`, and `at[p]` inside
`sqlitesrc`), and one action is what it does between two points where another
one can interfere: a channel operation, a system call, an atomic or a lock. A
file is absent, torn or good; `Crash` ends a run at any of these points and
tears what was being written. A pipe is the sequence of lines in it, and a line is
known to `Run` by its text only (`LineKinds`), so that the rest of a message may read
like the end of a reply or like a result, good or spoiled. `Regenerate` and `Difftest` EXTEND `Artifacts` and
`Runner`, and `Difftest` the judgement of `Expectation`.

An input of `Difftest` is what its text is worth to a tester: where its statements and
their syntax errors really are (`Legible`), what SQLite says of each piece
it is given (`Plausible`: it stops at the end of a statement, at a syntax error, whose
place it may not know, or before it at an error that is not about syntax), and
what meyer answers (`Answerable`). `InputsAssumption` is all the proofs know of it.

In `Regenerate`, `CheckParse` is the step between two runs: the parser's tests with
`-check-parse` strike cases off the sidecar that pass. It is what makes the
sidecar mean something, and `passed` remembers it.

## Runs

The runs of the parser and the lexer check safety and refinement and state no
fairness. Neither waits for anything: a parse is one call whose only environment
is its token slice. A parser that loops without asking for a token has the verdict
"endless" in `Descent!Run`, a state without successor. Deadlock is checked
in all runs (`Returned`, `Done` and `Rest` are the states where a call or a
program is over), so that each lockstep run shows that there is no such loop;
`statements`, which has the loop that consumes any token, states it as `NeverEndless`.

`regenerate` and `difftest` check liveness, under weak fairness of the main
goroutine, of each worker, of the send between them, and of each oracle process
answering what it was asked. The Go scheduler and the operating system give
that much; nothing is assumed of kills, of the user who starts a run, of tests, of
downloads succeeding, of a compiler that works, or of an oracle exiting.

| Run | Constants | Distinct states | Question |
|---|---|---|---|
| `core` | streams of up to 4 legal tokens, then EOF or an illegal token; limit 1; scripts of two statements with up to 3 parameters, ints up to 3 | 620,542 | errors, spans, numbers, refinement of `RunParser` |
| `lexer` | thirteen alphabets of 3 to 10 bytes, sources of up to 3 to 5 of them | 294,928 | tokens, trivia, contextual keywords, the oracle's statements, refinement of `TokenLoop` |
| `operators` | 30 kinds, depth 3 | 89,109 | precedence climbing, EXPLAIN |
| `terms` | 45 kinds, depth 2 | 105,817 | primaries, keyword names, calls, windows, register references |
| `query` | 36 kinds, depth 3, stack 26 | 144,446 | SELECT, joins, subqueries, INSERT with upserts, DELETE |
| `statements` | 96 kinds, depth 1, stack 22, `UpdateDeleteLimit` | 45,436 | all other statements |
| `regenerate` | 2 scripts, 6 releases, 0 or 2 workers, 2 runs, 1 oracle exit | 308,540 | the corpus after crashes, framing, pool, termination |
| `difftest` | every script of up to 2 statements in 4 bytes with 1 worker; 0 or 2 workers on chosen ones, and on messages that break the framing | 124,640 | the verdict on a partial observation, the report, termination |

`Alphabet` bounds the kinds inputs are made of; a kind that behaves like
another one of the alphabet in every function and rule (`MINUS` beside `PLUS`
as an operator, the other join of a class) is left out. A run's alphabet has to
be *closed*: where meyer tests for `NOT` and then expects `INDEXED`, leaving
`INDEXED` out would make SQLite's restricted automaton reject at `NOT` already.
`MaxDepth` stands for the 10,000 of `maxDepth`; a limit of 2 or 3 has every
function called from every other one at least once, and the limit itself is
met. `MaxStack` bounds both stacks. It only matters where recursion is not
counted by `depth`: nested `WITH` (meyer) and the right recursive rule for
`upsert` (SQLite); 22 admits two upsert clauses or four nested `WITH`s.
`MaxRounds`, 50 in all runs, bounds what meyer does on one token: four times as many
rounds. The code has no such bound; that no run meets a deadlock shows that it is never reached.

In `core`, 4 tokens are one more than the longest pattern a property is about
(a register, the token that makes its error final, and one behind it, in a
second statement); 3 parameters are a name, a marker that moves the counter,
and the name again; and an int that ends at 3 lets `?3` exhaust the numbers, `?4`
overflow `Atoi`, and the counter wrap. In `lexer`, each alphabet has
the bytes of one family of tokens, with 5 bytes for numbers, where the longest
decision is (`0e+0x`), and whole words where only their kinds matter: 4 tokens are
one more than the three the resolving pass looks at. Three alphabets have a
semicolon with quotes, with comments and with variables, where 5 bytes are the shortest
comment or argument that hides one. `IndexRange` has its
true value. In `regenerate`, two scripts with at most two cases are enough for
a reply to be read by the wrong case of the same script or of the next, two
workers for a race, and two runs for what the second believes of the first. In
`difftest`, two statements in four bytes give every order of the offsets a
rule compares: a tail, an error, the end of a statement and the end of the text.

The properties of the lockstep runs:

* `SameVerdict` – the promise of the README: same verdict, same kind of error,
  same token. Because it is an invariant, it also says that while meyer goes on
  SQLite has found no fault in the tokens consumed (the *viable prefix*
  property): meyer never reports an error later than SQLite. When meyer meets
  an illegal token or its limit, SQLite must have no complaint before.
* `SameTree` – between any two tokens both build the same nodes in the same
  order. For two bottom-up orders over the same tokens this makes the trees
  equal in shape; it is what sees a wrong associativity, which changes no verdict.
* `NestingPaired` – `depth` is the number of functions that will call `leave`.
* `NeverEndless` – whatever the input, meyer asks for another token or ends.
  `advance` does not move at the end of the input, where a loop that consumes whatever
  comes would go on for ever; `parseVTabArgs` has to look for it.
* `TypeOK` – with the two facts that meyer never waits for more than two tokens
  after the lookahead, and never exceeds its limit.

The properties of `lexer`: `ReadsAsSQLite` (the refinement: kinds, extents and
order of the tokens, and where it ends, are SQLite's), `ResolvedAsStreamed`
(resolving in place gives what looking ahead in the raw text gives; an invariant, so
it is about every intermediate state of the slice), `TokensTile`
(LexFile's promise that tokens and trivia cover the source), `CutsAtSemicolons`
(the oracle ends the statements of a script that `SplitDiffers` lets pass only at
semicolons of the tokenizer, outside brackets; the excuse is under
[Disagreements](#disagreements)), `TypeOK`.

The properties of `core`, in the order of their depth: `StatementsTile` (spans
are ordered, disjoint, and leave out only stray semicolons),
`ErrorAtFrontier` (where each kind of error may point),
`DeferredIsCurrent` and `DeferredIsReported` (a deferred error is about the token
just consumed, survives no advance, and is never lost), `NeverPastIllegal`, `TypeOK`.
`OneNumberPerName` and `OnePastTheHighest` are about the numbering: the same
parameter has the same number and different ones different numbers throughout a
script, and a new one is one past the highest so far, until a marker has used
up the numbers.
`ImplementsRunParser` maps meyer to SQLite's loop: `at` is `i`, except that
a deferred error that has become final stopped SQLite one token earlier than it stopped
meyer's cursor, which has moved on.

The properties of `regenerate`:

* `CorpusIsTrue` – the corpus says of a case what the oracle said of that case,
  with misaligned runners, dead oracles and torn binaries around, and each line of it
  is the result of a statement (`Genuine`). Excused are a case
  whose message has a line `==`, a release with a case that leaves something for
  the next one (`Phantom`: what follows the line `==` is not rejected by `Run`), and, from
  the second half only, a case whose message has a line that reads like a good result
  (`stmtgood`): the code files that line as a result that no statement has had.
* `TrustedIffPassed` – a case without a todo mark has passed a test, and one that has
  passed is not marked again; scripts hit by a crash between their two
  files are excused. `passed` is what the tests have seen of a script's
  corpus as it is; what leaves the corpus is forgotten.
* `EveryScriptRegenerated` – a run that ends well has regenerated every script
  and cleared away what has become empty, unless unpacking was interrupted once, or
  a message of the release has a line `==` (`Unsafe`).
* `RunnersAccounted` – no runner is shared, none is lost between two scripts.
* `RunsEnd` – with any `-j`, and whatever its oracles do.

The excuses are narrow on purpose: each names a place where the code is at fault, and
the property says that it is kept everywhere else. All but `broken`, `cut` and what
`Crash` tears come from one weakness, the framing of replies, which is described under
[Disagreements](#disagreements).

The properties of `difftest`:

* `NoFalseAlarm` – a parser that answers as SQLite's would, if nothing but syntax
  mattered, is never reported; `NothingMissed` – a wrong answer is, if
  SQLite has read the text where it departs from the right one and placed its error.
  Together they say that `Expected`'s ranges are exact. Both excuse a call with an input
  whose message has a line that reads like one of the oracle's own (`Forged`).
* `ReportAddsUp` – the printed total is the sum of its parts, and final.
* `BuiltOnce` – no goroutine uses or writes the oracle while another writes it.
* `ProgramEnds`.

Every property of a passing run has a mutant: a definition of the same module,
next to the one it replaces, that is wrong the way a slip in the code would be.

## Disagreements

Four runs of `MCDisagreements` are expected to fail. Each alphabet is as small as the
disagreement allows, and the passing runs leave out what triggers it.

* `nested_with` – parser.go:253-255 says nothing in the grammar can nest
  without passing through `enter`. `parseSelect` calls `parseWith` first, whose
  common table expressions call `parseSelect`: that cycle is not counted.
* `separator` – an error in a number's digit separators is raised by a grammar
  action, which by parser.go:235-239 does not stop SQLite at once.
  `dequoteNumber` calls `fail` and not `defer_`. For `DETACH 1__0 (` SQLite
  reports the parenthesis, meyer the number.
* `not_null` – `NOT x NOT NULL` is `(NOT x) NOT NULL` for meyer and
  `NOT (x NOT NULL)` for SQLite, where `NOT` is `%right`.
* `keyword_star` – `SELECT current_date.*` is accepted by meyer; SQLite has
  shifted the keyword as a literal and rejects the dot.

Met while modelling, and kept out of the passing runs by the alphabet or by an
excuse in a property:

* A register reference as the last token of an unfinished trigger body, as in
  `CREATE TRIGGER t INSERT ON t BEGIN SELECT x WHERE #1`: SQLite first feeds the
  SEMI of the end of input, at which the deferred error stops it; meyer
  reports the end of input.
* The framing of replies: oracle.c and `Run` end a reply with a line `==` and know a
  result by `stmt `, and both can be lines of the script that a message
  quotes. A line `==` cuts the case short, and the rest of its reply is read
  as the next one's (`Unsafe`, `Phantom`). A line that begins with `stmt ` is taken for a
  result: if it can be parsed, the corpus has one result more than the
  case has statements, and nothing rejects it (`stmtgood`; `Forged` for the tester); if it
  cannot, the run ends. That a reply
  which is cut short leaves a line which `Run` rejects, and that the run then ends, is
  what keeps the damage to these cases; it is part of what `RegenerateProofs` proves.
* `SplitDiffers` (sqlitesrc.go:300-302) is to report whether `Run` would cut a script
  "somewhere the tokenizer would not". It looks at tokens that contain a
  semicolon. In `$a(')';'` none does that is not a string, but for
  `sqlite3_complete` the quote inside the variable's argument opens a string that ends
  at the next quote, and the semicolon inside the tokenizer's string ends a
  statement (`Misread`). `--` and `/*` in an argument do the same.
* The corpus file is written before its sidecar: killed in between, the next run
  takes new cases for passing (`broken`).
* `TestScripts` takes one file for all of them: interrupted while unpacking, every later
  run regenerates from what is there (`cut`).

## Proofs

Eight modules hold proofs. Every theorem is about the specification TLC checks, with
its constants free; the inductive invariants were checked by TLC as invariants of the runs
before they were proved.

### The token loop and the parameters

`ParserProofs` proves for every set of token streams
(`StreamsAssumption`: each ends with its only EOF, which is what `lexer.Lex`
returns) and every limit (`MaxDepthAssumption`: a natural number):

| Theorem | Statement |
|---|---|
| `TypeCorrect` | `Spec => []TypeOK` |
| `IllegalStops` | `Spec => []NeverPastIllegal` |
| `DeferredErrors` | `Spec => []DeferredIsCurrent` |
| `NoErrorLost` | `Spec => []DeferredIsReported` |
| `ErrorPosition` | `Spec => []ErrorAtFrontier` |
| `StatementSpans` | `Spec => []StatementsTile` |
| `Refinement` | `Spec => ImplementsRunParser` |

The argument is one inductive invariant, `IInv` (`Invariance`). The properties
alone are not inductive. `StatementsTile` says what is covered when the call
*returns*; on the way one has to know that everything before the *frontier* –
the cursor between statements, the start of the statement inside one – is
covered (`Accounted`). For that the start must not be behind the cursor, a
deferred error must not cross a statement, and a statement must not be empty,
which is `LoopInv`. `CursorStep`, `LoopStep` and `TileStep` prove the three
parts for one step, with a case for each action; `AdvanceMoves`,
`AppendSpan`, `KeepTile` and `FinishTile` are the facts they share.
`Refinement` uses `IInv` as well: that an error raised by `BindRegister` is
about the token before the cursor is what lets the abstract loop take
`ActionError` in the step where meyer's error becomes final.

Of `BindParams` it proves, for every set of markers, every assignment of markers to
the tokens of a stream, and every `IntMax`:

| Theorem | Statement |
|---|---|
| `ParamRefinement` | `ParamSpec => Spec`, so the theorems above hold of it |
| `NamesAreNumbered` | `ParamSpec => []OneNumberPerName` |
| `NumbersClimb` | `ParamSpec => []OnePastTheHighest` |

Its invariant `ParamInv` relates the counter to the nodes: until the
numbers are exhausted `nVar` is the highest number given, `varNums` has exactly the
named markers built, and each with the number of its nodes. A step appends one node;
there is a lemma for each branch of `bindParam`.

### The recursive descent

`DescentProofs` proves for every set of kinds `Alphabet` without the empty string
(`AlphabetAssumption`), with and without `UpdateDeleteLimit`, for every limit and every
`MaxRounds` (natural numbers), and so for inputs of any length and nesting:

| Theorem | Statement |
|---|---|
| `NestingIsPaired` | `MeyerSpec => []NestingPaired` |
| `DescentTypes` | `MeyerSpec => []TypeOK` |

That `enter` and `leave` pair up is a property of each function and of the machine.

* Of the functions: the table of each is `Sound`, that is, defined for every kind, and
  each entry either has neither instruction, or begins with `enter`, ends with `leave` and
  has neither between. There is a lemma for each file (`ExprSound`, `SelectSound`, ...), and the
  tables of precedence climbing (`Expr(min)`, `Ops(min)`, `NotOps(min)`) are shown for any
  `min` of the levels. `TablesSound` puts them together.
* Of the machine: `Balanced` says that `leave` occurs on the stack as often as `nesting`
  says, and once more when there is an `enter` on top that has not run, and that there is no
  `enter` deeper down. `Round` keeps it, with a case for each sort of symbol, and pushing a sound
  entry is the case that matters. `Run` is a recursive function; that it
  keeps what a round keeps is shown by the least number of rounds for which it would not.
* Of the parser between two tokens: `MeyerInv`. An `enter` does not wait for a token, so
  there is none on the stack when the machine does, and the count is `depth` itself.

`NestingPaired` without the position of `enter` is not inductive: an
`enter` on the stack is a level whose `leave` is already there. The proof is the
reason why `Descent!Run` is a recursive function and no RECURSIVE operator, which the
provers do not take, and why `Meyer` is a module without the LALR engine.

### The three scanners

`LexerProofs` proves for every set of sources and every scanner that neither
goes back nor past the end (`ScanAssumption`):

| Theorem | Statement |
|---|---|
| `LexerInvariance` | `Spec => []LexInv` |
| `LexerTypes` | `Spec => []TypeOK` |
| `SpansTile` | `Spec => []TokensTile` |
| `InPlaceIsStreamed` | `Spec => []ResolvedAsStreamed` |
| `ImplementsTokenLoop` | `SameTokenizer` implies `Spec => ReadsAsSQLite` |

`TokensTile` needs to be strengthened by where the two slices end, at most at
`i` (`Behind`). `ResolvedAsStreamed` says of a token before `k` what it has become,
and of the ones behind, which the pass looks ahead at, that they have their raw
kinds; to be inductive it needs that every token has a byte to read its
raw kind from (`NoEmpty`), that `prev` is the kind of the token before, and that without
`ambiguous` there is nothing to resolve (`PassInv`). The refinement needs `Linked`
on top: skipping spaces and comments from where one token stops leads to the next,
and what SQLite finds there is that token, with the kind it had before the second pass.
Then `ResolvedAsStreamed` turns into what `analyzeWindowKeyword` and its siblings
find when they run ahead (`AnalyzedIsStreamed`).

That the two scanners agree, which `SameTokenizer` takes for granted, is a theorem of its
own, about every text and every position in it:

| Theorem | Statement |
|---|---|
| `ScannerProofs!ScanIsGetToken` | at a NUL `scan` reports the end of input; elsewhere it returns what `GetToken` returns, kind and end, and the end is behind the position and in the text |
| `LexerReadsAsSQLite` | so with these two scanners `Spec => ReadsAsSQLite` |

Both count on `Len(keywordTable) < IndexRange`, which `MCLexer` has TLC evaluate. The
code has 147 keywords and indexes of eight bits; with a table as long as the range
`Lookup` loses keywords, or panics where the end of a group wraps, and the theorem is
false. There is a lemma for each class of bytes a token can begin with (`NumberSame`, `VariableSame`, `QuoteSame`, ...). Where the
Go code looks for the end of a class and the C code counts rounds, `Skip` – the first
position whose byte is not in a set – is what both come to (`LoopIsSkip`, `FindIsSkip`). The hardest
are the numbers, whose parts go on from one another, and the arguments of variables,
where the C loop has a counter and two exits.

The third scanner is that of `sqlite3_complete`:

| Theorem | Statement |
|---|---|
| `CutsAreAtSemicolons` | with the first two scanners as above, `Spec => []CutsAtSemicolons` |

`Seen` is what that scanner sees from each position on. What it sees in the rest of a text is
what it saw of it in the text (`RestSeen`), so that starting anew behind a cut makes no difference
and every cut is among the semicolons seen from the start (`CutsAreSeen`). Each
token of `scan` takes it from its first byte to its end, seeing nothing but a SEMI token,
unless the token `Hides` something from it: a semicolon inside it, or a quote or the
start of a comment in a variable (`StepSeen`, with a lemma for each kind of token). The invariant is
`HeardSoFar`: what it sees from the start are the SEMI tokens so far and what it sees from `i` on,
unless a token so far hides something. A token that does is one that `SplitDiffers` or `Misread`
reports (`HidingIsReported`): so the two excuses of the property are all there are.

Recursive functions over positions (`Until`, `Seen`, `Depth`, the loops of
`GetToken`) have no value in a proof before it is known that they exist. `NumberProofs`
shows it for the two shapes that occur, `Jumps` and `Collects`, and that the function is
unique. In place of induction, which the provers cannot use, stands the least or greatest
exception to a claim (`LeastNumber`, `GreatestNumber`).

### The corpus generator

For every list of scripts, every set of releases and of values of `-j`, every archive, and
every text of replies. `JobsAssumption` numbers the workers and runners;
`CasesAssumption` says that an extraction is a sequence of cases, a reply a
sequence of lines, and the case of the corpus that is there before the first run one
that the format can represent; `ArchivesAssumption` says that the scripts and `fuzzdata1.db` come in the
source archive and in no other. Nothing is assumed of the number of kills, runs and exits.

| Theorem | Statement |
|---|---|
| `RegenerateProofs!TypeCorrect` | `Spec => []TypeOK` |
| `RegenerateProofs!PoolIsAccounted` | `Spec => []RunnersAccounted` |
| `RegenerateProofs!MetadataIsTrusted` | `Spec => []TrustedIffPassed` |
| `RegenerateProofs!CorpusIsTheOracles` | `Spec => []CorpusIsTrue` |
| `RegenerateProofs!ReleaseIsRegenerated` | `Spec => []EveryScriptRegenerated` |

There are three inductive invariants, each proved with the ones before it.

* `Core` has the types of each group of variables (`PlaceTypes`, `MainTypes`,
  `WorkTypes`, `PipeTypes`, `FileTypes`) and two parts that are not types: `Numbers`
  (no worker outlives its script or has a number that was not sent) and `Held` (a
  runner is with one worker or in one place of the pool). `RunnersAccounted` counts;
  `Held` says the same without counting, as `NotShared`, `OneHolder`, `OnePlace` and
  `NoneLost`, which is what a step can be shown to keep.
* `Trusted` follows the two files of a script through the steps of a run. `Agrees` is the
  property; while workers are busy the snapshot must still be that of
  the files (`Snapped`), and between the corpus file and its sidecar what has
  passed must be what `mergeMetadata` is about to keep (`MergeDue`).
* `Framing` is about what a case may leave in a pipe. A runner nobody reads is empty or
  begins with a line that `Run` rejects; one that is read holds a part of the reply to the
  case its reader asked about, or is rejected (`Aligned`). So whatever `Run` returned
  without an error was that reply, and the reply had no line that `Run` would have
  rejected, or it was cut at `==` (`Known`, `Recorded`). What has been written is such a
  reply as well, and has no message of several lines, which `CheckCase` drops
  (`Truthful`): what is left is lines that are results, and those that read like
  good ones. An error ends the run with the script (`NoErrorYet`).

`Unpacks` (where the main goroutine may be in `sqlitesrc`, and which files are
there unless unpacking was interrupted) and `Finished` (the scripts before `idx`
are regenerated) complete the argument for `ReleaseIsRegenerated`: the
existence of one file stands for all of them only as long as `cut` is false.

### The differential tester

For every set of calls (`PlansAssumption`) with any inputs (`InputsAssumption`, see
[Modules](#modules)), any number of workers and of mutations.

| Theorem | Statement |
|---|---|
| `PerfectIsNotReported` | `Spec => []NoFalseAlarm` |
| `DepartureIsReported` | `Spec => []NothingMissed` |
| `ReportIsComplete` | `Spec => []ReportAddsUp` |
| `OracleIsBuiltOnce` | `Spec => []BuiltOnce` |

The first two have a part about the verdict and a part about the machine. The verdict
is a statement about texts and observations without any state: `PerfectIsNoFalseAlarm` and
`WrongIsReported`. Every statement with a syntax error lies in the piece of some
result (`Owner`, `Within`); if that result is not a syntax error, the error is in text
that `Expected` calls unread, or the text was cut short before it (`BadIsUnread`), so the
right answer is excused. The other way round, what SQLite has read is never called unread
(`ReadIsNotUnread`), so there is no excuse for a departure in it (`NoExcuse`). The
machine is `Workers` and `Framed`: the lines a worker reads are those of its
input, so that `Compared` was given what the oracle observed. `Counted` has the total
ahead of the buckets by the workers between the two (`Adding`); `Places` has main alone
with the cache until the oracle is there.

The proof of the verdict changed the model once: the arms of `Compared` overlapped in
a `CASE`, where the code returns from the first that applies. TLC takes the first
arm too, so no run could see it; it is a chain of `IF`s now.

`LeastNumber` stands for
induction here too: the first result, line or step that is different is what
`FirstStop`, `FirstBad` and `FirstReported` argue about.

## Limits

* The lockstep runs cover inputs of any length and bounded nesting over the
  alphabets given. Interactions of groups of keywords in different alphabets (a
  window inside a trigger) are covered only as far as the functions' tables are
  the same in all contexts, which they are by construction of the Go code, and
  SQLite's states are not. `NULL` is missing where `NOT` can be a prefix, `RAISE` and
  `CTIME_KW` where `SELECT x.*` is possible, and `REG` where triggers are: the
  disagreements above.
* Nothing about the LALR engine is proved: `Lemon` uses RECURSIVE
  operators, and what is said of it is about a table computed from 400 rules. It stays
  with TLC: `SameVerdict` and `SameTree`. So does that meyer is never "endless", which
  would need a measure that every table lowers, and
  liveness (`RunsEnd`, `ProgramEnds`), which needs ENABLED. Every other property of a
  passing run has a theorem.
* The bytes of `Characters` are those the two tokenizers tell apart, one name for each class of
  the others; the theorems about scanners hold for texts of any length over these.
* `Parser` has the deferred error of register references only. The other error
  raised by a grammar action, of digit separators, is immediate in meyer and is
  the subject of `separator`.
* Messages are reduced to their kind. Texts, spans of nodes and field values are
  left out, so a clause parsed into the wrong field of the right node is not seen;
  the repository's round trip test is for that.
* `SQLite` means the grammar, the tokenizer and the token loop. Semantic errors that
  meyer does not report (a missing table) are not errors here.
* Not modelled: the renderer and the dump (pure functions of a tree with all its
  fields; the renderer decides nothing, since brackets are nodes of the tree and
  optional words are fields, so that what can go wrong is a field forgotten), TCL
  extraction (a pure scan of another language), which texts `mutations` makes, the
  outcome of the round trip in `Difftest`, the text of the corpus format, and the two
  developer tools, which print.
* `Difftest` takes `SplitDiffers` for an attribute of a script; what it is worth is
  the subject of `lexer`. The automaton by which `sqlite3_complete` passes over the
  semicolons of a trigger body is left out: it takes cuts away and adds none.
* Of the world around the tooling: two programs at work in one cache at the
  same time, a download that never ends, and a disk that loses what was written
  are not modelled. A write that fails is a crash at that write.

## Plan

Done: the token loop and the numbering of parameters with their proofs, the lexer,
its refinement of SQLite's token loop and the statements of the oracle with proofs for every
text, the whole grammar in lockstep with SQLite's, a proof that its recursion is counted in
balance, and the corpus tooling with
crashes, liveness, and proofs of all its safety properties.

What is left, in this order:

1. Proof that meyer never loops without consuming a token: a rank of the symbols that
   each table lowers until it consumes.
2. The renderer on trees with their fields, on top of `Calls`: that rendering and
   parsing give the tree back. It needs the tables to build trees, and not only
   to name their nodes.
