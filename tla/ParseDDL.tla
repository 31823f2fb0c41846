---- MODULE ParseDDL ----
(***************************************************************************)
(* parser/parse_ddl.go: CREATE, DROP and ALTER TABLE.                      *)
(***************************************************************************)
EXTENDS Calls

parseCreate == Else(<<"CREATE", "createKind">>)
createKind  == On({"TEMP"}, <<"TEMP", "createTemp">>) ?? Else(<<"createAny">>)
createTemp  ==
  On({"TABLE"}, <<"parseCreateTable">>) ?? On({"VIEW"}, <<"parseCreateView">>)
  ?? On({"TRIGGER"}, <<"parseCreateTrigger">>) ?? SyntaxError
createAny   ==
  On({"UNIQUE"}, <<"UNIQUE", "parseCreateIndex">>) ?? On({"INDEX"}, <<"parseCreateIndex">>)
  ?? On({"VIRTUAL"}, <<"parseCreateVirtualTable">>) ?? createTemp

parseIfNotExists == Opt("IF", <<"NOT", "EXISTS">>)
parseIfExists    == Opt("IF", <<"EXISTS">>)

parseCreateTable ==
  Else(<<"TABLE", "parseIfNotExists", "qualifiedName", "tableBody", "CreateTable">>)
tableBody ==
  On({"AS"}, <<"AS", "parseSelect">>)
  ?? Else(<<"LP", "parseColumnDef", "ColumnDef", "moreColumnDefs", "RP", "parseTableOptions">>)

(* parseColumnAndConstraintList: columns up to the first constraint, then  *)
(* constraints, whose commas are optional.                                 *)
TableConstraints == {"CONSTRAINT", "PRIMARY", "UNIQUE", "CHECK", "FOREIGN"}
moreColumnDefs == Opt("COMMA", <<"columnOrConstraint">>)
columnOrConstraint ==
  On(TableConstraints, <<"tableConstraints">>)
  ?? Else(<<"parseColumnDef", "ColumnDef", "moreColumnDefs">>)
tableConstraints ==
  On({"CONSTRAINT"}, <<"CONSTRAINT", "nm", "ConstraintName", "moreConstraints">>)
  ?? Else(<<"parseTableConstraint", "TableConstraint", "moreConstraints">>)
moreConstraints ==
  On({"COMMA"}, <<"COMMA", "tableConstraints">>)
  ?? On(TableConstraints, <<"tableConstraints">>)
  ?? Else(<<>>)

parseTableConstraint ==
  On({"PRIMARY"}, <<"PRIMARY", "KEY", "LP", "parseSortList", "autoincr", "RP", "parseOnConflict">>)
  ?? On({"UNIQUE"}, <<"UNIQUE", "LP", "parseSortList", "RP", "parseOnConflict">>)
  ?? On({"CHECK"}, <<"CHECK", "LP", "parseExpr0", "RP", "parseOnConflict">>)
  ?? On({"FOREIGN"}, <<"FOREIGN", "KEY", "LP", "parseIndexedColumnList", "RP", "parseReferences",
                       "deferOpt">>)
  ?? SyntaxError
autoincr == Opt("AUTOINCR", <<>>)
deferOpt == On({"DEFERRABLE"}, <<"parseDeferClause">>) ?? Opt("NOT", <<"parseDeferClause">>)

(* WITHOUT is a name too; option tells it first.                           *)
parseTableOptions ==
  On({"WITHOUT"} \cup Name, <<"option", "moreOptions">>) ?? Else(<<"moreOptions">>)
option      == On({"WITHOUT"}, <<"WITHOUT", "nm", "TableOption">>) ?? Else(<<"nm", "TableOption">>)
moreOptions == Opt("COMMA", <<"option", "moreOptions">>)

---------------------------------------------------------------------------
(* Columns.                                                                *)

parseColumnDef == Else(<<"nm", "parseTypeToken", "columnConstraints">>)
columnConstraints ==
  On({"CONSTRAINT"}, <<"CONSTRAINT", "nm", "ConstraintName", "columnConstraints">>)
  ?? On({ "NULL", "NOT", "DEFERRABLE", "PRIMARY", "UNIQUE", "CHECK", "COLLATE", "DEFAULT",
          "REFERENCES", "GENERATED", "AS" },
        <<"parseColumnConstraint", "ColumnConstraint", "columnConstraints">>)
  ?? Else(<<>>)

parseColumnConstraint ==
  On({"NULL"}, <<"NULL", "parseOnConflict">>)
  ?? On({"NOT"}, <<"NOT", "notNull">>)
  ?? On({"DEFERRABLE"}, <<"parseDeferClause">>)
  ?? On({"PRIMARY"}, <<"PRIMARY", "KEY", "sortOrder", "parseOnConflict", "autoincr">>)
  ?? On({"UNIQUE"}, <<"UNIQUE", "parseOnConflict">>)
  ?? On({"CHECK"}, <<"CHECK", "LP", "parseExpr0", "RP">>)
  ?? On({"COLLATE"}, <<"COLLATE", "ids">>)
  ?? On({"DEFAULT"}, <<"DEFAULT", "parseDefaultValue">>)
  ?? On({"REFERENCES"}, <<"parseReferences">>)
  ?? On({"GENERATED"}, <<"GENERATED", "ALWAYS", "AS", "parseGenerated">>)
  ?? On({"AS"}, <<"AS", "parseGenerated">>)
  ?? Else(<<>>)
notNull == On({"NULL"}, <<"NULL", "parseOnConflict">>) ?? Else(<<"parseDeferClause">>)

(* Mutant of parseDefaultValue: a sign makes it an expression.             *)
parseDefaultExpr ==
  On({"LP"}, <<"LP", "parseExpr0", "RP">>)
  ?? On({"PLUS", "MINUS"}, <<"parsePrefix">>)
  ?? On({"NULL", "FLOAT", "BLOB", "STRING", "INTEGER", "QNUMBER", "BADQ", "CTIME_KW"}, <<"parseTerm">>)
  ?? On(PlainID \cup {"INDEXED"}, <<"advance">>)
  ?? SyntaxError

parseDefaultValue ==
  On({"LP"}, <<"LP", "parseExpr0", "RP">>)
  ?? On({"PLUS", "MINUS"}, <<"advance", "parseTerm">>)
  ?? On({"NULL", "FLOAT", "BLOB", "STRING", "INTEGER", "QNUMBER", "BADQ", "CTIME_KW"}, <<"parseTerm">>)
  ?? On(PlainID \cup {"INDEXED"}, <<"advance">>)
  ?? SyntaxError

parseGenerated  == Else(<<"LP", "parseExpr0", "RP", "generatedKind">>)
generatedKind   == OneOf(PlainID) ?? Else(<<>>)
parseOnConflict == Opt("ON", <<"CONFLICT", "parseResolveType">>)

parseDeferClause == Else(<<"DEFERRABLE", "initially", "DeferClause">>)
initially        == Opt("INITIALLY", <<"initialMode">>)
initialMode      == OneOf({"DEFERRED", "IMMEDIATE"}) ?? SyntaxError

parseReferences == Else(<<"REFERENCES", "nm", "cteColumns", "referenceArgs">>)
referenceArgs ==
  On({"MATCH"}, <<"MATCH", "nm", "ForeignKeyArg", "referenceArgs">>)
  ?? On({"ON"}, <<"ON", "referenceEvent", "parseRefAct", "ForeignKeyArg", "referenceArgs">>)
  ?? Else(<<>>)
referenceEvent == OneOf({"INSERT", "DELETE", "UPDATE"}) ?? SyntaxError
parseRefAct ==
  On({"SET"}, <<"SET", "setValue">>) ?? OneOf({"CASCADE", "RESTRICT"})
  ?? On({"NO"}, <<"NO", "ACTION">>) ?? SyntaxError
setValue == OneOf({"NULL", "DEFAULT"}) ?? SyntaxError

---------------------------------------------------------------------------
(* The other CREATEs, DROP and ALTER TABLE.                                *)

parseCreateIndex ==
  Else(<<"INDEX", "parseIfNotExists", "qualifiedName", "ON", "nm", "LP", "parseSortList", "RP",
         "whereOpt", "CreateIndex">>)
parseCreateView ==
  Else(<<"VIEW", "parseIfNotExists", "qualifiedName", "cteColumns", "AS", "parseSelect",
         "CreateView">>)

parseCreateVirtualTable ==
  Else(<<"VIRTUAL", "TABLE", "parseIfNotExists", "qualifiedName", "USING", "nm", "vtabOpt",
         "CreateVirtualTable">>)
vtabOpt == Opt("LP", <<"parseVTabArgs", "RP">>)

(* Mutant of parseVTabArgs: it does not look for the end of the input.     *)
parseVTabArgsOn ==
  On({"LP"}, <<"LP", "nestedArgs", "parseVTabArgs">>)
  ?? On({"RP"}, <<>>) ?? Else(<<"advance", "parseVTabArgs">>)

(* Any token is part of an argument; the local depth of parseVTabArgs is   *)
(* the number of nestedArgs on the stack.                                  *)
parseVTabArgs ==
  On({"EOF"}, <<"syntaxError">>) ?? On({"LP"}, <<"LP", "nestedArgs", "parseVTabArgs">>)
  ?? On({"RP"}, <<>>) ?? Else(<<"advance", "parseVTabArgs">>)
nestedArgs ==
  On({"EOF"}, <<"syntaxError">>) ?? On({"LP"}, <<"LP", "nestedArgs", "nestedArgs">>)
  ?? On({"RP"}, <<"RP">>) ?? Else(<<"advance", "nestedArgs">>)

parseDrop == Else(<<"DROP", "dropKind", "parseIfExists", "qualifiedName", "Drop">>)
dropKind  == OneOf({"TABLE", "VIEW", "INDEX", "TRIGGER"}) ?? SyntaxError

parseAlterTable == Else(<<"ALTER", "TABLE", "qualifiedName", "alterAction", "AlterTable">>)
alterAction ==
  On({"RENAME"}, <<"RENAME", "renameWhat">>) ?? On({"ADD"}, <<"ADD", "addWhat">>)
  ?? On({"DROP"}, <<"DROP", "dropWhat">>)
  ?? On({"ALTER"}, <<"ALTER", "columnWord", "nm", "alterNull">>)
  ?? SyntaxError
columnWord == Opt("COLUMNKW", <<>>)
renameWhat == On({"TO"}, <<"TO", "nm">>) ?? Else(<<"columnWord", "nm", "TO", "nm">>)
addWhat ==
  On({"CONSTRAINT"}, <<"CONSTRAINT", "nm", "CHECK", "LP", "parseExpr0", "RP", "parseOnConflict">>)
  ?? On({"CHECK"}, <<"CHECK", "LP", "parseExpr0", "RP", "parseOnConflict">>)
  ?? Else(<<"columnWord", "parseColumnDef">>)
dropWhat  == On({"CONSTRAINT"}, <<"CONSTRAINT", "nm">>) ?? Else(<<"columnWord", "nm">>)
alterNull ==
  On({"DROP"}, <<"DROP", "NOT", "NULL">>) ?? On({"SET"}, <<"SET", "NOT", "NULL", "parseOnConflict">>)
  ?? SyntaxError

DDLTables ==
  [ parseCreate |-> parseCreate, createKind |-> createKind, createTemp |-> createTemp,
    createAny |-> createAny, parseIfNotExists |-> parseIfNotExists,
    parseIfExists |-> parseIfExists, parseCreateTable |-> parseCreateTable,
    tableBody |-> tableBody, moreColumnDefs |-> moreColumnDefs,
    columnOrConstraint |-> columnOrConstraint, tableConstraints |-> tableConstraints,
    moreConstraints |-> moreConstraints, parseTableConstraint |-> parseTableConstraint,
    autoincr |-> autoincr, deferOpt |-> deferOpt, parseTableOptions |-> parseTableOptions,
    option |-> option, moreOptions |-> moreOptions, parseColumnDef |-> parseColumnDef,
    columnConstraints |-> columnConstraints,
    parseColumnConstraint |-> parseColumnConstraint, notNull |-> notNull,
    parseDefaultValue |-> parseDefaultValue, parseGenerated |-> parseGenerated,
    generatedKind |-> generatedKind, parseOnConflict |-> parseOnConflict,
    parseDeferClause |-> parseDeferClause, initially |-> initially,
    initialMode |-> initialMode, parseReferences |-> parseReferences,
    referenceArgs |-> referenceArgs, referenceEvent |-> referenceEvent,
    parseRefAct |-> parseRefAct, setValue |-> setValue,
    parseCreateIndex |-> parseCreateIndex, parseCreateView |-> parseCreateView,
    parseCreateVirtualTable |-> parseCreateVirtualTable, vtabOpt |-> vtabOpt,
    parseVTabArgs |-> parseVTabArgs, nestedArgs |-> nestedArgs, parseDrop |-> parseDrop,
    dropKind |-> dropKind, parseAlterTable |-> parseAlterTable, alterAction |-> alterAction,
    columnWord |-> columnWord, renameWhat |-> renameWhat, addWhat |-> addWhat,
    dropWhat |-> dropWhat, alterNull |-> alterNull ]
====
