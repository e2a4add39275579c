----------------------------- MODULE MCToolServer -----------------------------
(***************************************************************************)
(* Values for model-checking ToolServer: environments, tokens, a small     *)
(* dictionary with a composite foreign key across owners, and requests.    *)
(***************************************************************************)
EXTENDS ToolServer

Name(n)   == [word |-> n, case |-> "upper", padded |-> FALSE]
Quoted(n) == [word |-> n, case |-> "lower", padded |-> FALSE]
Loose(n)  == [word |-> n, case |-> "lower", padded |-> TRUE]     \* " hr "
Blank     == [word |-> 0, case |-> "lower", padded |-> TRUE]

---------------------------------------------------------------------------
(* Environments                                                            *)

Unset    == [kind |-> "unset"]
Text     == [kind |-> "text"]
Value(v) == [kind |-> "value", value |-> v]

Complete == RequiredSettings \cup OAuthSettings
Production ==
    [legacy_password |-> FALSE, auth_mode |-> Unset, cognic_env |-> "unset",
     allowed_owners |-> {}, max_rows |-> Unset, required_scopes |-> Unset,
     given |-> Complete, pool_max |-> Unset]
Development == [Production EXCEPT !.auth_mode = Value("dev_insecure"), !.cognic_env = "dev",
                                  !.given = RequiredSettings]
Refused ==
    {[Production EXCEPT !.legacy_password = TRUE],
     [Production EXCEPT !.auth_mode = Value("dev_insecure")],
     [Production EXCEPT !.auth_mode = Value("none")],
     [Production EXCEPT !.max_rows = Text],
     [Production EXCEPT !.pool_max = Text],
     [Production EXCEPT !.required_scopes = Value({Blank})],
     [Production EXCEPT !.given = RequiredSettings],
     [Production EXCEPT !.given = OAuthSettings]}

HR  == Name(1)
FIN == Name(2)
Narrow == [Production EXCEPT !.allowed_owners = {Loose(1), Blank}]
MCEnvironments ==
    {Production, Development, Narrow,
     [Narrow EXCEPT !.max_rows = Value(2)],
     [Development EXCEPT !.max_rows = Value(0)],
     [Production EXCEPT !.max_rows = Value(5000), !.allowed_owners = {Blank},
                        !.required_scopes = Value({ReadScope, Loose(2)})]}

---------------------------------------------------------------------------
(* Bearer tokens                                                           *)

Falsy    == [kind |-> "falsy", items |-> {}, pure |-> TRUE]
Words(s) == [kind |-> "str", items |-> s, pure |-> TRUE]
List(s, pure) == [kind |-> "list", items |-> s, pure |-> pure]
Other    == [kind |-> "other", items |-> {}, pure |-> TRUE]

Good ==
    [signer |-> "issuer", empty |-> FALSE,
     claims |-> {"exp", "iat", "nbf", "aud", "iss"}, aud |-> {"this server"}, iss |-> "issuer",
     iat |-> 0, nbf |-> 0, exp |-> [seconds |-> 1, fraction |-> FALSE],
     scope |-> Words({ReadScope, Quoted(2)}), scp |-> Falsy]
MCTokens ==
    {NoBearer, Good,
     [Good EXCEPT !.signer = "another"],
     [Good EXCEPT !.claims = @ \ {"nbf"}],
     [Good EXCEPT !.aud = {"another server"}],
     [Good EXCEPT !.iss = "another"],
     [Good EXCEPT !.nbf = 1, !.exp.seconds = 2],
     [Good EXCEPT !.exp.fraction = TRUE],
     [Good EXCEPT !.scope = Words({ReadScope})],
     [Good EXCEPT !.scope = Falsy, !.scp = List({ReadScope}, TRUE)],
     [Good EXCEPT !.scope = Words({}), !.scp = List({ReadScope}, TRUE)],
     [Good EXCEPT !.scope = List({ReadScope}, FALSE)],
     [Good EXCEPT !.scope = Other]}

---------------------------------------------------------------------------
(* Dictionaries: HR.EMP refers to FIN.DEPT by two columns, the other way   *)
(* round, and to itself by one                                             *)

EMP  == Name(11)
DEPT == Name(12)
NOTE == Quoted(13)
V    == Name(14)
A == Name(21)
B == Name(22)
C == Quoted(23)

Object(kind, owner, name, comments) ==
    [kind |-> kind, owner |-> owner, name |-> name, comments |-> comments]
Column(owner, table, name, id) ==
    [owner |-> owner, table |-> table, name |-> name, column_id |-> id,
     nullable |-> IF id = 1 THEN "N" ELSE "Y", data_default |-> "none"]
Key(owner, table, name, type, columns, r_owner, r_name) ==
    [owner |-> owner, table |-> table, name |-> name, type |-> type, columns |-> columns,
     r_owner |-> r_owner, r_constraint_name |-> r_name]

Full ==
    [objects |-> {Object("table", HR, EMP, "staff"), Object("table", HR, NOTE, "none"),
                  Object("view", HR, V, "none"), Object("table", FIN, DEPT, "none")},
     columns |-> {Column(HR, EMP, A, 1), Column(HR, EMP, B, 2), Column(HR, NOTE, C, 1),
                  Column(HR, V, A, 1), Column(FIN, DEPT, A, 2), Column(FIN, DEPT, B, 1)},
     constraints |->
        {Key(HR, EMP, Name(31), "P", <<A>>, NoArg, NoArg),
         Key(HR, EMP, Name(32), "R", <<B, A>>, FIN, Name(31)),
         Key(HR, EMP, Name(33), "R", <<B>>, HR, Name(31)),
         Key(HR, EMP, Name(34), "C", <<>>, NoArg, NoArg),
         Key(FIN, DEPT, Name(31), "P", <<A, B>>, NoArg, NoArg)},
     grants |-> {<<HR, EMP>>, <<HR, NOTE>>, <<HR, V>>, <<FIN, DEPT>>}]
Revoked == [Full EXCEPT !.grants = @ \ {<<FIN, DEPT>>}]
Dropped == [Full EXCEPT !.objects = {o \in @ : o.name # NOTE},
                        !.columns = {c \in @ : c.table # NOTE},
                        !.grants = @ \ {<<HR, NOTE>>}]
MCDictionaries == {Full, Revoked, Dropped}

---------------------------------------------------------------------------
(* Requests                                                                *)

Ask(tool, owner, table, pattern) ==
    [tool |-> tool, owner |-> owner, table |-> table, pattern |-> pattern]
MCRequests ==
    {Ask("list_schemas", NoArg, NoArg, {}),
     Ask("find_columns", NoArg, NoArg, {A, B, C}),
     Ask("find_columns", FIN, NoArg, {A}),
     Ask("find_columns", Loose(1), NoArg, {C})}
    \cup {Ask("list_tables", o, NoArg, {}) : o \in {Loose(1), FIN, Blank}}
    \cup {Ask(t, HR, Loose(11), {}) :
            t \in {"describe_table", "list_relationships", "get_constraints"}}
    \cup {Ask("list_relationships", Quoted(1), NoArg, {}),
          Ask("list_relationships", FIN, DEPT, {}),
          Ask("describe_table", HR, V, {}),
          Ask("describe_table", HR, NOTE, {}),
          Ask("get_constraints", FIN, DEPT, {})}

StartableAndNot == MCEnvironments \cup Refused
=============================================================================
