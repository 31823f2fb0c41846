---- MODULE ParseMisc ----
(***************************************************************************)
(* parser/parse_misc.go: transactions, savepoints, ATTACH, PRAGMA and the  *)
(* maintenance commands.                                                   *)
(***************************************************************************)
EXTENDS Calls

parseBegin    == Else(<<"BEGIN", "transType", "parseTransOpt", "Begin">>)
transType     == OneOf({"DEFERRED", "IMMEDIATE", "EXCLUSIVE"}) ?? Else(<<>>)
parseTransOpt == Opt("TRANSACTION", <<"optName">>)
optName       == On(Name, <<"nm">>) ?? Else(<<>>)

parseCommit    == Else(<<"advance", "parseTransOpt", "Commit">>)
parseRollback  == Else(<<"ROLLBACK", "parseTransOpt", "rollbackTo">>)
rollbackTo     == On({"TO"}, <<"TO", "optSavepoint", "nm", "RollbackTo">>) ?? Else(<<"Rollback">>)
optSavepoint   == Opt("SAVEPOINT", <<>>)
parseSavepoint == Else(<<"SAVEPOINT", "nm", "Savepoint">>)
parseRelease   == Else(<<"RELEASE", "optSavepoint", "nm", "Release">>)

parseAttach == Else(<<"ATTACH", "optDatabase", "parseExpr0", "AS", "parseExpr0", "attachKey", "Attach">>)
optDatabase == Opt("DATABASE", <<>>)
attachKey   == Opt("KEY", <<"parseExpr0">>)
parseDetach == Else(<<"DETACH", "optDatabase", "parseExpr0", "Detach">>)

parsePragma == Else(<<"PRAGMA", "qualifiedName", "pragmaValue", "Pragma">>)
pragmaValue == On({"LP"}, <<"LP", "parsePragmaValue", "RP">>) ?? Opt("EQ", <<"parsePragmaValue">>)
parsePragmaValue ==
  On({"PLUS", "MINUS"}, <<"parseSignedNumber">>)
  ?? OneOf({"INTEGER", "FLOAT", "ON", "DELETE", "DEFAULT"})
  ?? Else(<<"nm">>)

parseVacuum  == Else(<<"VACUUM", "optName", "vacuumInto", "Vacuum">>)
vacuumInto   == Opt("INTO", <<"parseExpr0">>)
optQualified == On(Name, <<"qualifiedName">>) ?? Else(<<>>)
parseAnalyze == Else(<<"ANALYZE", "optQualified", "Analyze">>)
parseReindex == Else(<<"REINDEX", "optQualified", "Reindex">>)

MiscTables ==
  [ parseBegin |-> parseBegin, transType |-> transType, parseTransOpt |-> parseTransOpt,
    optName |-> optName, parseCommit |-> parseCommit, parseRollback |-> parseRollback,
    rollbackTo |-> rollbackTo, optSavepoint |-> optSavepoint,
    parseSavepoint |-> parseSavepoint, parseRelease |-> parseRelease,
    parseAttach |-> parseAttach, optDatabase |-> optDatabase, attachKey |-> attachKey,
    parseDetach |-> parseDetach,
    parsePragma |-> parsePragma, pragmaValue |-> pragmaValue,
    parsePragmaValue |-> parsePragmaValue, parseVacuum |-> parseVacuum,
    vacuumInto |-> vacuumInto, optQualified |-> optQualified,
    parseAnalyze |-> parseAnalyze, parseReindex |-> parseReindex ]
====
