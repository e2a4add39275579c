------------------------------ MODULE SqlGate ------------------------------
(***************************************************************************)
(* Arms 4 to 6 of readonly_query.run: the plain-SELECT gate, the object    *)
(* allow-set and the row bound, over what sqlglot reports of a text:       *)
(*   outcome  "parsed", "ParseError" or "crash" (any other exception);     *)
(*   words    the leading words the tokenizer sees, upper-cased; <<>> when *)
(*            there is none or the tokenizer fails too;                    *)
(*   stmts    the statements parsed, empty ones dropped.                   *)
(* A statement is a record: kind, locks, into, nodes (every node type of   *)
(* its walk), tables (every table node), ctes (the names its CTEs bind)    *)
(* and limit (its own row bound).  A table node has three identifiers,     *)
(* catalog, db and name, and cte, which says whether the database takes it *)
(* for a CTE; the gate does not know that.                                 *)
(* A text is <<words, case>>: what stands between its dots, and how it is  *)
(* spelt.  An identifier is a text, of no words if it is absent; a quoted  *)
(* one may hold dots like any other text.                                  *)
(***************************************************************************)
EXTENDS Integers, Sequences, FiniteSets

MaxRowsDefault == 100
MaxRowsCeiling == 500

Words(text) == text[1]
Fold(text)  == <<Words(text), "upper">>          \* str.upper()

Dual    == <<<<"DUAL">>, "upper">>
SysDual == <<<<"SYS", "DUAL">>, "upper">>

DeniedNodeTypes ==
    {"Command", "Insert", "Update", "Delete", "Merge", "Create", "Drop",
     "Alter", "Grant", "TruncateTable", "Transaction", "Commit", "Rollback"}

(* PL/SQL blocks and WITH FUNCTION do not parse but are not-SELECT, not    *)
(* unparseable.                                                            *)
ClassifyParseFailure(words) ==
    IF \/ Len(words) > 0 /\ words[1] \in {"BEGIN", "DECLARE"}
       \/ Len(words) > 1 /\ words[1] = "WITH" /\ words[2] \in {"FUNCTION", "PROCEDURE"}
    THEN "sql_not_select_only"
    ELSE "sql_parse_failed"

PlainSelect(stmt) ==
    /\ stmt.kind = "Select"
    /\ ~stmt.locks
    /\ ~stmt.into
    /\ stmt.nodes \cap DeniedNodeTypes = {}

(* "pass", or the reason arm 4 refuses the text with.                      *)
Analyze(sql) ==
    IF sql.outcome = "ParseError" THEN ClassifyParseFailure(sql.words)
    ELSE IF sql.outcome = "crash" \/ Len(sql.stmts) = 0 THEN "sql_parse_failed"
    ELSE IF Len(sql.stmts) = 1 /\ PlainSelect(sql.stmts[1]) THEN "pass"
    ELSE "sql_not_select_only"

(* ".".join(parts).upper(): where one part ends is no longer seen.         *)
Dotted(t) == Fold(<<Words(t.catalog) \o Words(t.db) \o Words(t.name), t.name[2]>>)

(* An unqualified name that some CTE of the statement has, in whatever     *)
(* scope and however quoted, is taken for that CTE.                        *)
TakenForCte(stmt, t) ==
    /\ Words(t.catalog) = <<>> /\ Words(t.db) = <<>>
    /\ Fold(t.name) \in {Fold(alias) : alias \in stmt.ctes}

(* The folded names of the objects a statement refers to, as the gate has  *)
(* them; a table function has no name.                                     *)
ReferencedObjects(stmt) ==
    {Dotted(t) : t \in {u \in stmt.tables : Words(u.name) # <<>> /\ ~TakenForCte(stmt, u)}}

OutOfScopeObjects(referenced, allowedObjects) ==
    referenced \ ({Fold(o) : o \in allowedObjects} \cup {Dual, SysDual})

(* The statement's own literal row bound; -1 when it has none that counts  *)
(* (absent, a bind or an expression, a percentage).                        *)
AuthorRowBound(stmt) ==
    IF \/ stmt.limit.kind = "limit"
       \/ stmt.limit.kind = "fetch" /\ ~stmt.limit.percent
    THEN stmt.limit.count
    ELSE -1

Least(a, b)    == IF a <= b THEN a ELSE b
Greatest(a, b) == IF a >= b THEN a ELSE b

(* Fault: no floor under a negative max_rows.                              *)
ApplyRowBoundNoFloor(stmt, maxRows) ==
    LET asked  == IF maxRows = 0 THEN MaxRowsDefault ELSE maxRows
        author == AuthorRowBound(stmt)
    IN  IF author >= 0 THEN Least(Least(asked, MaxRowsCeiling), author)
        ELSE Least(asked, MaxRowsCeiling)

(* The bound written into the SQL.  maxRows = 0 stands for None as well:   *)
(* both fall to the default ("max_rows or 100").                           *)
ApplyRowBound(stmt, maxRows) ==
    LET asked  == IF maxRows = 0 THEN MaxRowsDefault ELSE maxRows
        capped == Greatest(1, Least(asked, MaxRowsCeiling))
        author == AuthorRowBound(stmt)
    IN  IF author >= 0 THEN Least(capped, author) ELSE capped
=============================================================================
