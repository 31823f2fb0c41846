---- MODULE BindParams ----
(***************************************************************************)
(* The numbers of bind parameters (parse_expr.go, bindParam) on top of the *)
(* cursor and the statement loop. nVar and varNums belong to the parser    *)
(* and not to a statement: a script is numbered through.                   *)
(***************************************************************************)
EXTENDS Parser

CONSTANTS Markers,       \* the texts a VARIABLE token may have
          Variables(_),  \* which tokens of a stream are VARIABLEs, as which text
          IntMax         \* the largest int of the build

(* The text of a VARIABLE token. id is the value of the digits behind ?,   *)
(* or stands for the name behind a sigil. "#1" is named like any other:    *)
(* its error is deferred, and bindParam goes on to number it.              *)
ParamKind == {"anon", "number", "colon", "at", "dollar", "register"}
Marker == [kind : ParamKind, id : Nat]
Named(m) == m.kind \notin {"anon", "number"}

ASSUME MarkersAssumption == Markers \subseteq Marker
ASSUME IntMaxAssumption == IntMax \in Nat \ {0}
ASSUME VariablesAssumption ==
  \A s \in Streams : \A f \in Variables(s) :
    /\ DOMAIN f \subseteq { j \in DOMAIN s : s[j] \in {"WORD", "REG"} }
    /\ \A j \in DOMAIN s : s[j] = "REG" => j \in DOMAIN f
    /\ \A j \in DOMAIN f : f[j] \in Markers /\ (f[j].kind = "register" <=> s[j] = "REG")

VARIABLES raw,      \* the text of each VARIABLE token
          nVar,     \* p.nVar
          varNums,  \* p.varNums
          params    \* the BindParam nodes built, in source order

binding == <<raw, nVar, varNums, params>>
paramVars == <<vars, binding>>

(* Two's complement.                                                       *)
Wrap(n) == IF n > IntMax THEN n - 2 * (IntMax + 1) ELSE n

Build(m, number) == params' = Append(params, [marker |-> m, number |-> number])

---------------------------------------------------------------------------

(* case raw == "?".                                                        *)
Anonymous(m) ==
  /\ m.kind = "anon"
  /\ nVar' = Wrap(nVar + 1)
  /\ Build(m, nVar')
  /\ UNCHANGED varNums

(* Mutant of Explicit: nVar is not raised.                                 *)
ExplicitUncounted(m) ==
  /\ m.kind = "number"
  /\ Build(m, IF m.id <= IntMax THEN m.id ELSE 0)
  /\ UNCHANGED <<nVar, varNums>>

(* case raw[0] == '?': when Atoi fails, Number keeps its zero value.       *)
Explicit(m) ==
  /\ m.kind = "number"
  /\ Build(m, IF m.id <= IntMax THEN m.id ELSE 0)
  /\ nVar' = IF m.id <= IntMax /\ m.id > nVar THEN m.id ELSE nVar
  /\ UNCHANGED varNums

Known(m) ==
  /\ Named(m) /\ m \in DOMAIN varNums
  /\ Build(m, varNums[m])
  /\ UNCHANGED <<nVar, varNums>>

(* p.varNums[raw] = p.nVar, raw being the text of every marker in ms.      *)
Remember(ms) ==
  varNums' = [m \in DOMAIN varNums \cup ms |-> IF m \in ms THEN nVar' ELSE varNums[m]]

(* Mutant of New: the key is the name without its sigil.                   *)
NewUnsigned(m) ==
  /\ Named(m) /\ m \notin DOMAIN varNums
  /\ nVar' = Wrap(nVar + 1)
  /\ Remember({ k \in Markers : Named(k) /\ k.id = m.id })
  /\ Build(m, nVar')

New(m) ==
  /\ Named(m) /\ m \notin DOMAIN varNums
  /\ nVar' = Wrap(nVar + 1)
  /\ Remember({m})
  /\ Build(m, nVar')

bindParam(m) == Anonymous(m) \/ Explicit(m) \/ Known(m) \/ New(m)

(* parsePrimary on a VARIABLE: an advance that fails does not reach        *)
(* bindParam.                                                              *)
Bind ==
  /\ i \in DOMAIN raw
  /\ BindRegister \/ (At("WORD") /\ Consume)
  /\ IF result' = Running THEN bindParam(raw[i]) ELSE UNCHANGED <<nVar, varNums, params>>
  /\ UNCHANGED raw

ParamInit ==
  /\ Init
  /\ raw \in Variables(toks)
  /\ nVar = 0
  /\ varNums = <<>>
  /\ params = <<>>

(* The arguments of a virtual table take a VARIABLE without binding it.    *)
ParamNext == Bind \/ (Unbound /\ UNCHANGED binding)

ParamSpec == ParamInit /\ [][ParamNext]_paramVars

---------------------------------------------------------------------------

(* Once a marker has the largest number there is none left for the next:   *)
(* ++ wraps around, and from then on a number may be given twice.          *)
Exhausted(k) == \E j \in 1 .. k - 1 : params[j].number = IntMax

(* A parameter's name is its sigil and its name: throughout a script the   *)
(* same parameter has the same number, and different ones have different   *)
(* numbers, however ?NNN markers moved the counter in between.             *)
OneNumberPerName ==
  \A j, k \in 1 .. Len(params) :
    Named(params[j].marker) /\ Named(params[k].marker) /\ j < k /\ ~Exhausted(k) =>
      (params[j].marker = params[k].marker <=> params[j].number = params[k].number)

(* A new parameter, and every "?", is one past the highest number used so  *)
(* far (ast/expr.go:111-113), in whatever statement that number was used.  *)
OnePastTheHighest ==
  \A k \in 1 .. Len(params) :
    /\ params[k].marker.kind # "number"
    /\ Named(params[k].marker) => \A j \in 1 .. k - 1 : params[j].marker # params[k].marker
    /\ ~Exhausted(k)
    => /\ \A j \in 1 .. k - 1 : params[j].number < params[k].number
       /\ \/ params[k].number = 1
          \/ \E j \in 1 .. k - 1 : params[j].number = params[k].number - 1
====
