--------------------------- MODULE MCGovernedQuery ---------------------------
(***************************************************************************)
(* Values for model-checking GovernedQuery: a few SQL texts and what       *)
(* sqlglot makes of them, tokens, and one set of requests per question.    *)
(***************************************************************************)
EXTENDS GovernedQuery, TLC

CONSTANTS c1, c2, c3

CallSymmetry == Permutations(Calls)

---------------------------------------------------------------------------
(* SQL texts                                                               *)

NoPart == <<<<>>, "upper">>
Id(word, case) == <<<<word>>, case>>
Table(db, name, cte) == [catalog |-> NoPart, db |-> db, name |-> name, cte |-> cte]

Emp      == Table(Id("HR", "upper"), Id("EMP", "mixed"), FALSE)      \* hr.Emp
Pay      == Table(Id("HR", "upper"), Id("PAY", "upper"), FALSE)
ThreePart == [Emp EXCEPT !.catalog = Id("LINK", "upper")]
EmpScope == <<<<"HR", "EMP">>, "upper">>
CteName  == Id("X", "mixed")
Function == Table(NoPart, NoPart, FALSE)

NoLimit == [kind |-> "none", percent |-> FALSE, count |-> -1]
Fetch3  == [kind |-> "fetch", percent |-> FALSE, count |-> 3]
Percent == [kind |-> "fetch", percent |-> TRUE, count |-> 3]

Select(tables, ctes, limit) ==
    [kind |-> "Select", locks |-> FALSE, into |-> FALSE,
     nodes |-> {"Select", "Table"}, tables |-> tables, ctes |-> ctes, limit |-> limit]

Parsed(stmts) == [outcome |-> "parsed", words |-> <<"SELECT">>, stmts |-> stmts]
Unparsed(outcome, words) == [outcome |-> outcome, words |-> words, stmts |-> <<>>]

Plain == Select({Emp}, {}, NoLimit)

MCParse ==
    [emp |-> Parsed(<<Plain>>),
     few |-> Parsed(<<Select({Emp, Function}, {}, Fetch3)>>),
     percent |-> Parsed(<<Select({Emp}, {}, Percent)>>),
     cte |-> Parsed(<<Select({Emp, Table(NoPart, CteName, TRUE)}, {CteName}, NoLimit)>>),
     dual |-> Parsed(<<Select({Table(NoPart, Id("DUAL", "mixed"), FALSE)}, {}, NoLimit)>>),
     pay |-> Parsed(<<Select({Emp, Pay}, {}, NoLimit)>>),
     three |-> Parsed(<<Select({ThreePart}, {}, NoLimit)>>),
     \* X is a CTE in one subquery and a table in another
     reused |-> Parsed(<<Select({Emp, Table(NoPart, CteName, FALSE)}, {CteName}, NoLimit)>>),
     \* a quoted name with a dot in it
     quoted |-> Parsed(<<Select({Table(NoPart, EmpScope, FALSE)}, {}, NoLimit)>>),
     locked |-> Parsed(<<[Plain EXCEPT !.locks = TRUE]>>),
     into |-> Parsed(<<[Plain EXCEPT !.into = TRUE]>>),
     nested |-> Parsed(<<[Plain EXCEPT !.nodes = @ \cup {"Update"}]>>),
     union |-> Parsed(<<[Plain EXCEPT !.kind = "Union"]>>),
     two |-> Parsed(<<Plain, Plain>>),
     empty |-> Parsed(<<>>),
     block |-> Unparsed("ParseError", <<"BEGIN", "NULL">>),
     fn |-> Unparsed("ParseError", <<"WITH", "FUNCTION">>),
     noise |-> Unparsed("ParseError", <<"SELEC">>),
     crash |-> Unparsed("crash", <<>>)]

---------------------------------------------------------------------------
(* Tokens and requests                                                     *)

Absent == [kind |-> "absent", value |-> 0]
Null   == [kind |-> "null", value |-> 0]
Int_(n) == [kind |-> "int", value |-> n]

Token(jti, exp, sql, maxRows) ==
    [signer |-> "k1", fields |-> ClaimFields, mistyped |-> {},
     claims |-> [iss |-> Issuer, aud |-> ExpectedAud, sub |-> "amir",
                 objects |-> {EmpScope}, proxy_db_identity |-> "AGENT_RO",
                 args_sha256 |-> Digest("scope", sql, maxRows), jti |-> jti, exp |-> exp]]

Request(token, sql, maxRows) ==
    [token |-> token, scope_id |-> "scope", sql |-> sql, max_rows |-> maxRows]

Minted(jti, exp, sql, maxRows) == Request(Token(jti, exp, sql, maxRows), sql, maxRows)

(* Replay: two tokens with different lifetimes.                            *)
ReplayRequests == {Minted("j1", 1, "emp", Absent), Minted("j2", 2, "emp", Absent)}

(* Rotation: a good request for each of two subjects.                      *)
Second == [Minted("j2", 1, "emp", Int_(2)) EXCEPT
             !.token.claims.sub = "bea", !.token.claims.proxy_db_identity = "AGENT_2"]
PairRequests == {Minted("j1", 1, "emp", Absent), Second}

(* Every arm: one request per way in and per way to be refused.            *)
Good == Minted("j1", 1, "emp", Absent)
ArmRequests ==
    {Minted("j1", 1, s, Absent) : s \in DOMAIN MCParse}
    \cup {Minted("j1", 1, "emp", Int_(n)) : n \in {-1, 0, 7, 501}}
    \cup {[Good EXCEPT !.token = NoToken],
          [Good EXCEPT !.token.signer = "k2"],
          [Good EXCEPT !.token.signer = "unsigned"],
          [Good EXCEPT !.token.fields = @ \ {"jti"}],
          [Good EXCEPT !.token.mistyped = {"iat"}],
          [Good EXCEPT !.token.claims.iss = "other"],
          [Good EXCEPT !.token.claims.aud = "other"],
          [Good EXCEPT !.token.claims.proxy_db_identity = "not an identifier"],
          [Good EXCEPT !.sql = "pay"],
          [Good EXCEPT !.max_rows = Int_(9)]}
ReusedRequests == {Good, Minted("j1", 1, "reused", Absent)}
NullRequests == {Minted("j1", 1, "emp", Null), Minted("j1", 1, "emp", Int_(2))}

OneKeyFile == [p1 |-> "k1"]
TwoKeyFiles == [p1 |-> "k2", p2 |-> "k1"]

Seconds30 == [infinite |-> FALSE, micros |-> 30000000]
Unset     == [infinite |-> FALSE, micros |-> 0]
HalfMilli == [infinite |-> FALSE, micros |-> 500]
Infinite  == [infinite |-> TRUE, micros |-> 0]
DefaultOnly == {Unset}
TimeoutsOfAllKinds == {Unset, Seconds30, Infinite}
SubMillisecond == {HalfMilli}
=============================================================================
