---- MODULE ParseDML ----
(***************************************************************************)
(* parser/parse_dml.go and parser/parse_trigger.go: INSERT, UPDATE, DELETE *)
(* and the restricted forms of them a trigger body admits.                 *)
(***************************************************************************)
EXTENDS Calls

parseInsert  == Else(<<"insertTarget", "insertSource", "Insert">>)
insertSource == On({"DEFAULT"}, <<"DEFAULT", "VALUES", "parseReturning">>)
                ?? Else(<<"parseSelect", "parseUpsert">>)
insertTarget == Else(<<"insertWord", "INTO", "xfullname", "insertColumns">>)
insertWord   == On({"REPLACE"}, <<"REPLACE">>) ?? Else(<<"INSERT", "parseOrConflict">>)
insertColumns == Opt("LP", <<"parseIDList", "RP">>)

parseOrConflict  == Opt("OR", <<"parseResolveType">>)
parseResolveType == On({"ROLLBACK", "ABORT", "FAIL", "IGNORE", "REPLACE"}, <<"advance", "ConflictAction">>)
                    ?? SyntaxError

(* An ON CONFLICT clause without a target is the last one.                 *)
parseUpsert  == On({"ON"}, <<"ON", "CONFLICT", "upsertTarget">>) ?? Else(<<"parseReturning">>)
(* Mutant of upsertTarget: clauses go on after one without a target.       *)
upsertTargetOn ==
  On({"LP"}, <<"LP", "parseSortList", "RP", "whereOpt", "DO", "upsertAction", "parseUpsert">>)
  ?? Else(<<"DO", "upsertAction", "parseUpsert">>)

upsertTarget ==
  On({"LP"}, <<"LP", "parseSortList", "RP", "whereOpt", "DO", "upsertAction", "parseUpsert">>)
  ?? Else(<<"DO", "upsertAction", "parseReturning">>)
upsertAction ==
  On({"NOTHING"}, <<"NOTHING">>) ?? Else(<<"UPDATE", "SET", "parseSetList", "whereOpt">>)

parseReturning == Opt("RETURNING", <<"parseResultColumns", "Returning">>)

parseSetList == Else(<<"setColumns", "EQ", "parseExpr0", "SetPair", "moreSets">>)
setColumns   == On({"LP"}, <<"LP", "parseIDList", "RP">>) ?? Else(<<"nm">>)
moreSets     == Opt("COMMA", <<"parseSetList">>)

parseWhereOptRet == Else(<<"whereWithReturning", "parseReturning">>)
whereWithReturning == Opt("WHERE", <<"parseExpr0">>)

(* orderby_opt limit_opt, if the option is on.                             *)
parseUpdateDeleteLimit ==
  IF UpdateDeleteLimit THEN Else(<<"orderByOpt", "parseLimit">>) ELSE Else(<<>>)

parseUpdate == Else(<<"updateCore", "parseWhereOptRet", "parseUpdateDeleteLimit", "Update">>)
updateCore  == Else(<<"UPDATE", "parseOrConflict", "xfullname", "parseIndexedOpt", "SET",
                      "parseSetList", "fromOpt">>)
parseDelete == Else(<<"deleteCore", "parseWhereOptRet", "parseUpdateDeleteLimit", "Delete">>)
deleteCore  == Else(<<"DELETE", "FROM", "xfullname", "parseIndexedOpt">>)

---------------------------------------------------------------------------
(* parse_trigger.go                                                        *)

parseCreateTrigger ==
  Else(<<"TRIGGER", "parseIfNotExists", "qualifiedName", "triggerTime", "triggerEvent", "ON",
         "qualifiedName", "forEachRow", "triggerWhen", "BEGIN", "triggerBody", "CreateTrigger">>)
triggerTime  == OneOf({"BEFORE", "AFTER"}) ?? On({"INSTEAD"}, <<"INSTEAD", "OF">>) ?? Else(<<>>)
triggerEvent == OneOf({"DELETE", "INSERT"}) ?? On({"UPDATE"}, <<"UPDATE", "updateOf">>) ?? SyntaxError
updateOf     == Opt("OF", <<"parseIDList">>)
forEachRow   == Opt("FOR", <<"EACH", "ROW">>)
triggerWhen  == Opt("WHEN", <<"parseExpr0">>)
triggerBody  == Else(<<"parseTriggerCmd", "SEMI", "triggerEnd">>)
triggerEnd   == On({"END"}, <<"END">>) ?? Else(<<"triggerBody">>)

parseTriggerCmd ==
  On({"UPDATE"}, <<"updateCore", "whereOpt", "Update">>)
  ?? On({"INSERT", "REPLACE"}, <<"insertTarget", "parseSelect", "parseUpsert", "Insert">>)
  ?? On({"DELETE"}, <<"deleteCore", "whereOpt", "Delete">>)
  ?? Else(<<"parseSelect">>)

DMLTables ==
  [ parseInsert |-> parseInsert, insertSource |-> insertSource, insertTarget |-> insertTarget,
    insertWord |-> insertWord, insertColumns |-> insertColumns,
    parseOrConflict |-> parseOrConflict, parseResolveType |-> parseResolveType,
    parseUpsert |-> parseUpsert, upsertTarget |-> upsertTarget,
    upsertAction |-> upsertAction, parseReturning |-> parseReturning,
    parseSetList |-> parseSetList, setColumns |-> setColumns, moreSets |-> moreSets,
    parseWhereOptRet |-> parseWhereOptRet, whereWithReturning |-> whereWithReturning,
    parseUpdateDeleteLimit |-> parseUpdateDeleteLimit,
    parseUpdate |-> parseUpdate, updateCore |-> updateCore, parseDelete |-> parseDelete,
    deleteCore |-> deleteCore, parseCreateTrigger |-> parseCreateTrigger,
    triggerTime |-> triggerTime, triggerEvent |-> triggerEvent, updateOf |-> updateOf,
    forEachRow |-> forEachRow, triggerWhen |-> triggerWhen, triggerBody |-> triggerBody,
    triggerEnd |-> triggerEnd, parseTriggerCmd |-> parseTriggerCmd ]
====
