------------------------------ MODULE ToolServer ------------------------------
(***************************************************************************)
(* A metadata tool call from its bearer token to its answer (server.py,    *)
(* auth.py, tools.py), in a process configured by its environment, over a  *)
(* clock and a dictionary that change between the awaits: the token is     *)
(* decoded in a thread, FastMCP looks at the expiry when that is back, and *)
(* the query reads the dictionary when the pool has lent a connection.     *)
(* Calls share nothing but the pool (MetadataPool), so one is enough here. *)
(***************************************************************************)
EXTENDS BearerAuth, MetadataTools

CONSTANTS
    Environments,   \* what os.environ may hold
    Tokens,         \* what an Authorization header may hold
    Requests,       \* a tool and its arguments
    Dictionaries,   \* what the database's dictionary may hold
    NoConfig,       \* a process that has no Config
    MaxTime         \* bound of the clock

ASSUME MaxTimeAssumption == MaxTime \in Nat

(* The environment is text; a token that a key of the issuer signs holds   *)
(* integers where PyJWT asks for them; the wire schema asks for the owner  *)
(* that a tool needs, and passes on none that it does not take.            *)
ASSUME EnvironmentsAssumption ==
    \A e \in Environments :
        /\ e.allowed_owners \subseteq Strings
        /\ e.max_rows.kind \in {"unset", "text", "value"}
        /\ e.max_rows.kind = "value" => e.max_rows.value \in Int
ASSUME TokensAssumption ==
    \A t \in Tokens \ {NoBearer} : t.empty = FALSE /\ {t.iat, t.nbf, t.exp.seconds} \subseteq Int
ASSUME RequestsAssumption ==
    \A q \in Requests :
        /\ q.tool \in Tools
        /\ q.owner \in Strings \cup {NoArg}
        /\ q.tool = "list_schemas" => q.owner = NoArg
        /\ q.tool \in TakesOwner => q.owner # NoArg
ASSUME DictionariesAssumption == \A d \in Dictionaries : WellFormed(d)

VARIABLES
    env,
    cfg,          \* Config.from_env(), or NoConfig
    server,       \* has build_server returned, or raised?
    now,          \* time.time()
    dictionary,
    pc,           \* where the call is suspended
    token, request,
    arrivedAt,    \* history: when the call came
    access,       \* what verify_token returned
    keysFetched,  \* history: did the issuer's keys come?
    admittedAt,   \* history: when FastMCP let the call pass
    asked,        \* history: the dictionary the query read
    reply

world == <<env, now, dictionary>>
input == <<token, request, arrivedAt>>
verified == <<access, keysFetched>>
vars  == <<world, cfg, server, pc, input, verified, admittedAt, asked, reply>>

NoReply == [status |-> "none", items |-> <<>>, truncated |-> FALSE]
Answered(status) == [NoReply EXCEPT !.status = status]

Init ==
    /\ env \in Environments
    /\ cfg = NoConfig
    /\ server = "building"
    /\ now \in 0..MaxTime
    /\ dictionary \in Dictionaries
    /\ pc = "idle"
    /\ token = NoBearer
    /\ request \in {q \in Requests : q.tool = "list_schemas"}    \* until it arrives
    /\ arrivedAt = 0
    /\ access = None /\ keysFetched = FALSE
    /\ admittedAt = 0
    /\ asked = dictionary
    /\ reply = NoReply

Build ==
    /\ server = "building"
    /\ \/ Starts(env) /\ server' = "up" /\ cfg' = Config(env)
       \/ ~Starts(env) /\ server' = "refused" /\ UNCHANGED cfg
    /\ UNCHANGED <<world, pc, input, verified, admittedAt, asked, reply>>

Receive ==
    /\ server = "up"
    /\ pc = "idle"
    /\ \E t \in Tokens, q \in Requests : token' = t /\ request' = q
    /\ arrivedAt' = now
    /\ pc' = "verifying"
    /\ UNCHANGED <<world, cfg, server, verified, admittedAt, asked, reply>>

(* A failure to fetch the issuer's keys (PyJWKClient) is one of the        *)
(* exceptions that verify_token takes for a bad token.                     *)
Verify ==
    /\ pc = "verifying"
    /\ \/ keysFetched' = TRUE /\ access' = VerifyToken(cfg, token, now)
       \/ cfg.auth_mode = "jwt" /\ keysFetched' = FALSE /\ access' = None
    /\ pc' = "verified"
    /\ UNCHANGED <<world, cfg, server, input, admittedAt, asked, reply>>

Finish(outcome) == pc' = "done" /\ reply' = outcome

Admit ==
    /\ pc = "verified"
    /\ \/ /\ access.verdict = "raises"
          /\ Finish(Answered("server error")) /\ UNCHANGED admittedAt
       \/ /\ access.verdict # "raises" /\ ~Admits(cfg, access, now)
          /\ Finish(Answered("unauthorized")) /\ UNCHANGED admittedAt
       \/ /\ Admits(cfg, access, now)
          /\ admittedAt' = now
          /\ \/ ~Guarded(request, cfg) /\ Finish(Answered("owner not allowed"))
             \/ Guarded(request, cfg) /\ pc' = "querying" /\ UNCHANGED reply
    /\ UNCHANGED <<world, cfg, server, input, verified, asked>>

Query ==
    /\ pc = "querying"
    /\ asked' = dictionary
    /\ Finish(Answer(request, cfg, dictionary))
    /\ UNCHANGED <<world, cfg, server, input, verified, admittedAt>>

---------------------------------------------------------------------------
(* The world, while there is a call to disturb                             *)

Tick ==
    /\ pc # "done" /\ now < MaxTime
    /\ now' = now + 1
    /\ UNCHANGED <<env, dictionary, cfg, server, pc, input, verified, admittedAt, asked, reply>>

Alter ==
    /\ pc # "done"
    /\ dictionary' \in Dictionaries \ {dictionary}
    /\ UNCHANGED <<env, now, cfg, server, pc, input, verified, admittedAt, asked, reply>>

Next == Build \/ Receive \/ Verify \/ Admit \/ Query \/ Tick \/ Alter

Spec == Init /\ [][Next]_vars

---------------------------------------------------------------------------
(* Properties                                                              *)

(* Types; the row cap is in its range whatever the environment says, and   *)
(* no answer is longer.                                                    *)
TypeOK ==
    /\ env \in Environments
    /\ server \in {"building", "up", "refused"}
    /\ server = "up" => cfg.max_rows \in 1..HardMaxRows /\ Len(reply.items) <= cfg.max_rows
    /\ {now, arrivedAt, admittedAt} \subseteq 0..MaxTime
    /\ {dictionary, asked} \subseteq Dictionaries
    /\ pc \in {"idle", "verifying", "verified", "querying", "done"}
    /\ token \in Tokens \cup {NoBearer} /\ request \in Requests
    /\ access.verdict \in {"none", "raises", "token"}
    /\ reply.status \in {"none", "ok", "server error", "unauthorized", "owner not allowed"}

(* Whatever passes between the decoding and the start of the tool, a call  *)
(* reaches a tool only on a token of the issuer, for this server, with     *)
(* every required scope, that has not expired by then; or in a process     *)
(* that was told twice that it is for development.                         *)
ReachedATool == pc = "querying" \/ reply.status \in {"ok", "owner not allowed"}
ReachedUnderAuthority ==
    ReachedATool =>
        /\ server = "up"
        /\ \/ AuthMode(env) = "dev_insecure" /\ env.cognic_env = "dev" /\ ~token.empty
           \/ /\ token.signer = "issuer" /\ "this server" \in token.aud
              /\ RequiredScopes(env) \subseteq Granted(token)
              /\ token.nbf <= admittedAt /\ admittedAt <= token.exp.seconds

(* Once the issuer's keys are there, a token that is good from its arrival *)
(* on is not turned away, whichever of its two claims carries the scopes   *)
(* and however long the decoding takes; and only the issuer can sign a     *)
(* token that the server fails on.                                         *)
Grants(claim, other) ==
    /\ other.kind = "falsy"
    /\ claim.kind = "str" \/ (claim.kind = "list" /\ claim.pure)
    /\ RequiredScopes(env) \subseteq claim.items
GoodSinceArrival ==
    /\ ~token.empty
    /\ \/ AuthMode(env) = "dev_insecure"
       \/ /\ keysFetched
          /\ token.signer = "issuer" /\ token.iss = "issuer" /\ "this server" \in token.aud
          /\ {"exp", "iat", "nbf", "aud", "iss"} \subseteq token.claims
          /\ token.iat <= arrivedAt /\ token.nbf <= arrivedAt /\ now < token.exp.seconds
          /\ Grants(token.scope, token.scp) \/ Grants(token.scp, token.scope)
RefusalsHaveAReason ==
    /\ reply.status = "unauthorized" => ~GoodSinceArrival
    /\ reply.status = "server error" =>
          /\ ~token.empty /\ token.signer = "issuer" /\ token.exp.fraction
          /\ RequiredScopes(env) \subseteq Granted(token)

(* What an answer should hold, read off the database's objects rather than *)
(* off joined views.                                                       *)
Spelt(owner, table) == <<Folded(request.owner), Folded(request.table)>> = <<owner, table>>
Permitted(owner) ==
    /\ request.owner # NoArg => owner = Folded(request.owner)
    /\ cfg.allowed_owners # {} => owner \in cfg.allowed_owners
KeyOf(fk) ==
    CHOOSE k \in asked.constraints : k.owner = fk.r_owner /\ k.name = fk.r_constraint_name
Visible(c) == Sees(asked, c.owner, c.table)

WholeSchemas ==
    {[owner |-> o] : o \in {p \in {g[1] : g \in asked.grants} : Permitted(p) /\
        \E t \in asked.objects : t.kind = "table" /\ t.owner = p /\ Sees(asked, p, t.name)}}

WholeTables ==
    {[table_name |-> t.name, comments |-> t.comments] : t \in {o \in asked.objects :
        o.kind = "table" /\ Permitted(o.owner) /\ Sees(asked, o.owner, o.name)}}

WholeColumns ==
    {[column_name |-> c.name, nullable |-> c.nullable = "Y", data_default |-> c.data_default] :
        c \in {x \in asked.columns : Spelt(x.owner, x.table) /\ Visible(x)}}

WholeMatches ==
    {[owner |-> c.owner, table_name |-> c.table, column_name |-> c.name] :
        c \in {x \in asked.columns :
                 x.name \in request.pattern /\ Permitted(x.owner) /\ Visible(x)}}

WholeKeys ==
    {fk \in asked.constraints :
        /\ fk.type = "R" /\ fk.owner = Folded(request.owner)
        /\ request.table # NoArg => fk.table = Folded(request.table)
        /\ Visible(fk) /\ Visible(KeyOf(fk))}
Paired(fk, i) ==
    [constraint_name |-> fk.name, child_owner |-> fk.owner, child_table |-> fk.table,
     child_column |-> fk.columns[i], parent_owner |-> KeyOf(fk).owner,
     parent_table |-> KeyOf(fk).table, parent_column |-> KeyOf(fk).columns[i]]
WholeRelationships == UNION {{Paired(fk, i) : i \in DOMAIN fk.columns} : fk \in WholeKeys}

Places(c) == IF c.columns = <<>> THEN {0} ELSE DOMAIN c.columns
Constrained(c, i) ==
    [constraint_name |-> c.name, constraint_type |-> c.type,
     column_name |-> IF c.columns = <<>> THEN NoArg ELSE c.columns[i],
     r_owner |-> c.r_owner, r_constraint_name |-> c.r_constraint_name]
WholeConstraints ==
    UNION {{Constrained(c, i) : i \in Places(c)} :
        c \in {x \in asked.constraints : Spelt(x.owner, x.table) /\ Visible(x)}}

Whole ==
    CASE request.tool = "list_schemas"       -> WholeSchemas
      [] request.tool = "list_tables"        -> WholeTables
      [] request.tool = "describe_table"     -> WholeColumns
      [] request.tool = "find_columns"       -> WholeMatches
      [] request.tool = "list_relationships" -> WholeRelationships
      [] request.tool = "get_constraints"    -> WholeConstraints

(* The rows of an answer are in the dictionary as the query found it, none *)
(* twice, and none is missing unless truncated says so.                    *)
Items == {reply.items[i] : i \in DOMAIN reply.items}
AnswersAreWhole ==
    reply.status = "ok" =>
        /\ Items \subseteq Whole
        /\ Cardinality(Items) = Len(reply.items)
        /\ ~reply.truncated => Items = Whole

(* truncated is set exactly when something is missing, and then the page   *)
(* is full.                                                                *)
TruncationIsTold ==
    reply.status = "ok" =>
        /\ reply.truncated <=> Items # Whole
        /\ reply.truncated => Len(reply.items) = cfg.max_rows

(* The owners the operator listed, in whatever case or spacing, are served *)
(* to whoever spells them in whatever case or spacing.                     *)
Listed(owner) ==
    \E o \in env.allowed_owners : o.word # 0 /\ o.word = owner.word
Narrowed == \E o \in env.allowed_owners : o.word # 0
ListedOwnersAreServed ==
    reply.status = "owner not allowed" => ~Listed(request.owner)

(* And no other owner is asked about, with or without an owner argument.    *)
OwnersAskedAbout ==
    {x \in {"owner", "child_owner"} : \E i \in Items : x \in DOMAIN i}
NarrowedToListed ==
    reply.status = "ok" /\ Narrowed =>
        /\ request.owner # NoArg => Listed(request.owner)
        /\ \A i \in Items, x \in OwnersAskedAbout : x \in DOMAIN i => Listed(i[x])
=============================================================================
