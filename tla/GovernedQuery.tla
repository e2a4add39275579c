---------------------------- MODULE GovernedQuery ----------------------------
(***************************************************************************)
(* One server process running run_readonly_query (readonly_query.py) for   *)
(* several concurrent tool calls, over the credential file, the database   *)
(* and the operators who rotate keys and passwords.                        *)
(*                                                                         *)
(* A call is a coroutine of one event loop.  Arms 1 to 6 contain no await, *)
(* so they are one step; the credential read that follows them holds the   *)
(* loop too, but other processes write the file between its stat and its   *)
(* read.  Every await is a step boundary at which other calls run, the     *)
(* caller may cancel, and the database answers or fails.                   *)
(***************************************************************************)
EXTENDS ReplayCache, QueryContext, SqlGate

CONSTANTS
    Calls,             \* tool calls, each made at most once
    Requests,          \* wire arguments a call may carry
    NoToken,           \* the default of _cognic_query_context, ""
    Jtis,              \* token identifiers
    Keys,              \* public keys
    KeyPaths,          \* paths of COGNIC_QUERY_CONTEXT_PUBLIC_KEYS
    InitialKeys,       \* what those files hold at first
    KeyWrites,         \* what an operator may write into one
    OracleIdentifiers, \* proxy identities of the shape _PROXY_IDENTITY_RE
    ResultSizes,       \* row counts an unbounded statement may match
    TimeoutSettings,   \* values of COGNIC_ORACLE_QUERY_TIMEOUT_S
    Parse,             \* what sqlglot reports of each SQL text
    MaxTime, MaxRotations, MaxRestarts,        \* bounds of the exploration
    RotationSkew,      \* may the file and the database change apart?
    ClockMayStepBack   \* may time.time() go backwards?

VARIABLES
    now,          \* int(time.time())
    keyFiles,     \* contents of the key files
    seen,         \* _replay_cache
    file,         \* credential file: kind, and the version written last
    dbPassword,   \* version of the password the database accepts
    timeoutEnv,   \* the process's COGNIC_ORACLE_QUERY_TIMEOUT_S
    restarts,
    pc,           \* where each coroutine is suspended
    req,          \* its arguments
    statMtime,    \* mtime its stat() returned
    credential,   \* CredentialRead: password and rotation_ref
    logins,       \* connection attempts it made
    session,      \* its dedicated connection
    matched,      \* rows its statement matches without our bound
    firstRead,    \* history: version of the file its first read returned
    result,       \* what the try block leaves for after conn.close()
    reply,        \* what run() returned
    audit,        \* user statements the database executed
    spent         \* history: jtis accepted since the process started

env   == <<now, keyFiles, file, dbPassword>>
proc  == <<seen, spent, timeoutEnv, restarts>>
conns == <<statMtime, credential, logins, session, matched, firstRead, audit>>
vars  == <<env, proc, conns, pc, req, result, reply>>

ExpectedAud == "cognic-tool-oracle-schema/run_readonly_query"

---------------------------------------------------------------------------
(* Envelopes                                                               *)

PreCheckReasons ==
    {"query_context_missing_or_invalid", "query_context_replayed",
     "query_context_args_mismatch", "sql_parse_failed", "sql_not_select_only",
     "agent_sql_object_out_of_scope"}
RefusalReason ==
    PreCheckReasons \cup {"query_identity_stamp_failed", "query_execution_failed"}

(* Not envelopes: the call was cancelled, or its process died.             *)
NoReply == {"none", "cancelled", "lost"}

Outcome(reason) == [reason |-> reason, rows |-> 0, truncated |-> FALSE, rotation_ref |-> 0]
Pending == Outcome("none")
Failed  == Outcome("query_execution_failed")
(* Fault: an exactly full page is taken for the whole answer.              *)
SuccessFullPageIsAll(rows, bound, ref) ==
    [reason |-> "ok", rows |-> rows, truncated |-> rows > bound, rotation_ref |-> ref]
Success(rows, bound, ref) ==
    [reason |-> "ok", rows |-> rows, truncated |-> rows >= bound, rotation_ref |-> ref]

NoSession == [state |-> "none", user |-> "none", client_identifier |-> <<>>]

SubjectReference(sub) == <<"sha256", sub>>

---------------------------------------------------------------------------
(* What the arms compute from a request                                    *)

Claims(r) == r.token.claims
Stmt(r)   == Parse[r.sql].stmts[1]
Rows(r)   == IF r.max_rows.kind = "int" THEN r.max_rows.value ELSE 0
Bound(r)  == ApplyRowBound(Stmt(r), Rows(r))

(* The digest of the arguments as the caller wrote them, and as the server *)
(* recomputes it: a null max_rows and an absent one both arrive as None.   *)
AbsentRows == [kind |-> "absent", value |-> 0]
Digest(scope, sql, maxRows) == <<scope, sql, maxRows>>
WireArgsSha256(r) == Digest(r.scope_id, r.sql, r.max_rows)
ArgsSha256(r) ==
    Digest(r.scope_id, r.sql, IF r.max_rows.kind = "int" THEN r.max_rows ELSE AbsentRows)

(* One missing or blank file makes the whole set unusable.                 *)
LoadPublicKeys ==
    IF \A p \in KeyPaths : keyFiles[p] \in Keys
    THEN {keyFiles[p] : p \in KeyPaths}
    ELSE {}

Verified(r) ==
    /\ r.token # NoToken
    /\ VerifyQueryContext(r.token, LoadPublicKeys, ExpectedAud, now) = "verified"

Sighting(r) == CheckAndInsert(seen, Claims(r).jti, Claims(r).exp, now)

(* Arms 3 to 6 and the proxy identity check that opens arm 7.              *)
Gate(r) ==
    IF ArgsSha256(r) # Claims(r).args_sha256 THEN "query_context_args_mismatch"
    ELSE IF Analyze(Parse[r.sql]) # "pass" THEN Analyze(Parse[r.sql])
    ELSE IF OutOfScopeObjects(ReferencedObjects(Stmt(r)), Claims(r).objects) # {}
         THEN "agent_sql_object_out_of_scope"
    ELSE IF Claims(r).proxy_db_identity \notin OracleIdentifiers
         THEN "query_execution_failed"
    ELSE "pass"

(* conn.call_timeout in milliseconds.  A setting is "infinite" or a number *)
(* of microseconds; 0 stands for one that is absent, does not parse or is  *)
(* not positive, and means the default.  The driver takes a call_timeout   *)
(* of 0 as "no timeout"; int(inf * 1000) raises, which leaves it at that.  *)
DefaultTimeout == 30000000
QueryTimeoutUnchecked == timeoutEnv.micros     \* fault: no default for 0
QueryTimeout == IF timeoutEnv.micros > 0 THEN timeoutEnv.micros ELSE DefaultTimeout
CallTimeout  == IF timeoutEnv.infinite THEN 0 ELSE QueryTimeout \div 1000

---------------------------------------------------------------------------
(* Assumptions on the constants                                            *)

ASSUME BoundsAssumption ==
    MaxTime \in Nat /\ MaxRotations \in Nat /\ MaxRestarts \in Nat /\ ResultSizes \subseteq Nat

(* json.loads and pydantic give these fields their types.                  *)
ASSUME RequestsAssumption ==
    /\ Requests # {}
    /\ \A r \in Requests :
          /\ Rows(r) \in Int
          /\ r.token # NoToken => Claims(r).jti \in Jtis /\ Claims(r).exp \in Int
          /\ Analyze(Parse[r.sql]) = "pass" => AuthorRowBound(Stmt(r)) \in Int

ASSUME KeysAssumption ==
    /\ DOMAIN InitialKeys = KeyPaths
    /\ InitialKeys = [p \in KeyPaths |-> InitialKeys[p]]

(* A kernel mints each jti once: two signed tokens that share it agree on  *)
(* the instant it expires.                                                 *)
ASSUME JtiAssumption ==
    /\ NoToken \notin Jtis
    /\ \A r, q \in Requests :
          /\ r.token # NoToken /\ r.token.signer \in Keys
          /\ q.token # NoToken /\ q.token.signer \in Keys
          /\ Claims(r).jti = Claims(q).jti
          => Claims(r).exp = Claims(q).exp

---------------------------------------------------------------------------
Idle == "idle"
Done == "done"
Reading  == {"stat", "read"}
Awaiting == {"connect", "stamp", "execute", "fetch", "close"}

(* No coroutine is between the two system calls of a credential read.      *)
LoopFree == \A c \in Calls : pc[c] \notin Reading

Goto(c, where)  == pc' = [pc EXCEPT ![c] = where]
Answer(c, outcome) == Goto(c, Done) /\ reply' = [reply EXCEPT ![c] = outcome]
CloseWith(c, outcome) == Goto(c, "close") /\ result' = [result EXCEPT ![c] = outcome]

Init ==
    /\ now = 0
    /\ keyFiles = InitialKeys
    /\ seen = EmptyCache
    /\ file = [kind |-> "good", version |-> 0]
    /\ dbPassword = 0
    /\ timeoutEnv \in TimeoutSettings
    /\ restarts = 0
    /\ pc = [c \in Calls |-> Idle]
    /\ req = [c \in Calls |-> CHOOSE r \in Requests : TRUE]   \* until it arrives
    /\ statMtime = [c \in Calls |-> 0]
    /\ credential = [c \in Calls |-> [password |-> 0, rotation_ref |-> 0]]
    /\ logins = [c \in Calls |-> 0]
    /\ session = [c \in Calls |-> NoSession]
    /\ matched = [c \in Calls |-> 0]
    /\ firstRead = [c \in Calls |-> 0]
    /\ result = [c \in Calls |-> Pending]
    /\ reply = [c \in Calls |-> Pending]
    /\ audit = {}
    /\ spent = {}

---------------------------------------------------------------------------
(* Arms 1 to 6: one step, from the arrival of the request                  *)

Arrive(c, r) ==
    /\ pc[c] = Idle
    /\ LoopFree
    /\ req' = [req EXCEPT ![c] = r]
    /\ UNCHANGED <<env, conns, timeoutEnv, restarts, result>>

RefuseContext(c, r) ==
    /\ Arrive(c, r)
    /\ ~Verified(r)
    /\ Answer(c, Outcome("query_context_missing_or_invalid"))
    /\ UNCHANGED <<seen, spent>>

RefuseReplay(c, r) ==
    /\ Arrive(c, r)
    /\ Verified(r)
    /\ ~Sighting(r).first
    /\ seen' = Sighting(r).seen
    /\ Answer(c, Outcome("query_context_replayed"))
    /\ UNCHANGED spent

(* From here on the jti is burned, whatever becomes of the call.           *)
Accept(c, r) ==
    /\ Arrive(c, r)
    /\ Verified(r)
    /\ Sighting(r).first
    /\ seen' = Sighting(r).seen
    /\ spent' = spent \cup {Claims(r).jti}

RefuseGate(c, r) ==
    /\ Accept(c, r)
    /\ Gate(r) # "pass"
    /\ Answer(c, Outcome(Gate(r)))

Admit(c, r) ==
    /\ Accept(c, r)
    /\ Gate(r) = "pass"
    /\ Goto(c, "stat")
    /\ UNCHANGED reply

---------------------------------------------------------------------------
(* read_credential, before the first login and again before the retry      *)

(* resolve() and stat(): "missing" stands for a file that is absent,       *)
(* unreadable, oversized or outside its mount directory.                   *)
Stat(c) ==
    /\ pc[c] = "stat"
    /\ \/ /\ file.kind = "missing"
          /\ Answer(c, Failed)
          /\ UNCHANGED statMtime
       \/ /\ file.kind # "missing"
          /\ statMtime' = [statMtime EXCEPT ![c] = file.version]
          /\ Goto(c, "read")
          /\ UNCHANGED reply
    /\ UNCHANGED <<env, proc, req, credential, logins, session, matched, firstRead, audit, result>>

(* Fault: the file is read first and stat()ed after.                       *)
ReadThenStat(c) ==
    /\ pc[c] = "read"
    /\ \/ /\ file.kind # "good"
          /\ Answer(c, Failed)
          /\ UNCHANGED credential
       \/ /\ file.kind = "good"
          /\ credential' = [credential EXCEPT ![c] =
                [password |-> statMtime[c], rotation_ref |-> file.version]]
          /\ Goto(c, "connect")
          /\ UNCHANGED reply
    /\ UNCHANGED <<env, proc, req, statMtime, logins, session, matched, firstRead, audit, result>>

(* read_bytes() sees the file of now; rotation_ref comes from the stat.    *)
Read(c) ==
    /\ pc[c] = "read"
    /\ \/ /\ file.kind # "good"
          /\ Answer(c, Failed)
          /\ UNCHANGED <<credential, firstRead>>
       \/ /\ file.kind = "good"
          /\ credential' = [credential EXCEPT ![c] =
                [password |-> file.version, rotation_ref |-> statMtime[c]]]
          /\ firstRead' = IF logins[c] = 0
                          THEN [firstRead EXCEPT ![c] = file.version] ELSE firstRead
          /\ Goto(c, "connect")
          /\ UNCHANGED reply
    /\ UNCHANGED <<env, proc, req, statMtime, logins, session, matched, audit, result>>

---------------------------------------------------------------------------
(* The Oracle leg: one step per round trip                                 *)

Login(c) ==
    /\ pc[c] = "connect"
    /\ LoopFree
    /\ logins' = [logins EXCEPT ![c] = @ + 1]
    /\ UNCHANGED <<env, proc, req, statMtime, credential, matched, firstRead, audit>>

(* Fault: a connection that a call is through with is used again.          *)
LoginReused(c) ==
    /\ Login(c)
    /\ credential[c].password = dbPassword
    /\ \E d \in Calls :
          session' = [session EXCEPT ![c] =
              [state |-> "open",
               user |-> IF session[d].state = "closed" THEN session[d].user
                        ELSE Claims(req[c]).proxy_db_identity,
               client_identifier |-> <<>>]]
    /\ Goto(c, "stamp")
    /\ UNCHANGED <<result, reply>>

(* The session is open before the timeout is armed; arming it may raise.   *)
LoginAccepted(c) ==
    /\ Login(c)
    /\ credential[c].password = dbPassword
    /\ session' = [session EXCEPT ![c] =
          [state |-> "open", user |-> Claims(req[c]).proxy_db_identity,
           client_identifier |-> <<>>]]
    /\ IF timeoutEnv.infinite
       THEN CloseWith(c, Failed)
       ELSE Goto(c, "stamp") /\ UNCHANGED result
    /\ UNCHANGED reply

(* Fault: the retry uses the credential already in hand.                   *)
LoginDeniedSameCredential(c) ==
    /\ Login(c)
    /\ credential[c].password # dbPassword
    /\ IF logins[c] = 0
       THEN Goto(c, "connect") /\ UNCHANGED reply
       ELSE Answer(c, Failed)
    /\ UNCHANGED <<session, result>>

(* Fault: the retry is not counted.                                        *)
LoginDeniedUntilAccepted(c) ==
    /\ Login(c)
    /\ credential[c].password # dbPassword
    /\ IF logins[c] < 2
       THEN Goto(c, "stat") /\ UNCHANGED reply
       ELSE Answer(c, Failed)
    /\ UNCHANGED <<session, result>>

(* ORA-01017: read the file again and retry, once.                         *)
LoginDenied(c) ==
    /\ Login(c)
    /\ credential[c].password # dbPassword
    /\ IF logins[c] = 0
       THEN Goto(c, "stat") /\ UNCHANGED reply
       ELSE Answer(c, Failed)
    /\ UNCHANGED <<session, result>>

(* Any other connection error: listener down, no proxy grant, ...          *)
LoginFailed(c) ==
    /\ Login(c)
    /\ Answer(c, Failed)
    /\ UNCHANGED <<session, result>>

RoundTrip(c, where) ==
    /\ pc[c] = where
    /\ LoopFree
    /\ UNCHANGED <<env, proc, req, statMtime, credential, logins, firstRead>>

(* Fault: the refusal returns from before the try/finally.                 *)
StampWithoutFinally(c) ==
    /\ RoundTrip(c, "stamp")
    /\ \/ /\ session' = [session EXCEPT ![c].client_identifier =
                SubjectReference(Claims(req[c]).sub)]
          /\ Goto(c, "execute")
          /\ UNCHANGED reply
       \/ /\ Answer(c, Outcome("query_identity_stamp_failed"))
          /\ UNCHANGED session
    /\ UNCHANGED <<matched, audit, result>>

(* Fault: a failed stamp is logged and the statement runs anyway.          *)
StampBestEffort(c) ==
    /\ RoundTrip(c, "stamp")
    /\ Goto(c, "execute")
    /\ \/ session' = [session EXCEPT ![c].client_identifier =
                SubjectReference(Claims(req[c]).sub)]
       \/ UNCHANGED session
    /\ UNCHANGED <<matched, audit, result, reply>>

Stamp(c) ==
    /\ RoundTrip(c, "stamp")
    /\ \/ /\ session' = [session EXCEPT ![c].client_identifier =
                SubjectReference(Claims(req[c]).sub)]
          /\ Goto(c, "execute")
          /\ UNCHANGED result
       \/ /\ CloseWith(c, Outcome("query_identity_stamp_failed"))
          /\ UNCHANGED session
    /\ UNCHANGED <<matched, audit, reply>>

Statement(c) ==
    [call |-> c, life |-> restarts, jti |-> Claims(req[c]).jti,
     user |-> session[c].user, client_identifier |-> session[c].client_identifier,
     sql |-> req[c].sql, bound |-> Bound(req[c])]

(* Fault: the stamp's handler also covers the statement.                   *)
ExecuteUnderStampHandler(c) ==
    /\ RoundTrip(c, "execute")
    /\ audit' = audit \cup {Statement(c)}
    /\ \/ /\ \E n \in ResultSizes : matched' = [matched EXCEPT ![c] = n]
          /\ Goto(c, "fetch")
          /\ UNCHANGED result
       \/ /\ CloseWith(c, Outcome("query_identity_stamp_failed"))
          /\ UNCHANGED matched
    /\ UNCHANGED <<session, reply>>

Execute(c) ==
    /\ RoundTrip(c, "execute")
    /\ audit' = audit \cup {Statement(c)}
    /\ \/ /\ \E n \in ResultSizes : matched' = [matched EXCEPT ![c] = n]
          /\ Goto(c, "fetch")
          /\ UNCHANGED result
       \/ /\ CloseWith(c, Failed)
          /\ UNCHANGED matched
    /\ UNCHANGED <<session, reply>>

Fetch(c) ==
    /\ RoundTrip(c, "fetch")
    /\ \/ CloseWith(c, Success(Least(matched[c], Bound(req[c])), Bound(req[c]),
                               credential[c].rotation_ref))
       \/ CloseWith(c, Failed)
    /\ UNCHANGED <<session, matched, audit, reply>>

(* A close that raises replaces whatever the try block returned or raised. *)
Close(c) ==
    /\ RoundTrip(c, "close")
    /\ \/ /\ session' = [session EXCEPT ![c].state = "closed"]
          /\ Answer(c, result[c])
       \/ /\ \E s \in {"closed", "abandoned"} : session' = [session EXCEPT ![c].state = s]
          /\ Answer(c, Failed)
    /\ UNCHANGED <<matched, audit, result>>

(* CancelledError at an await.  It is no Exception, so the handlers let it *)
(* through; the finally clause still closes the connection.  A statement   *)
(* that was sent may have run.                                             *)
Cancel(c) ==
    /\ pc[c] \in Awaiting
    /\ LoopFree
    /\ \/ /\ pc[c] = "connect"
          /\ Answer(c, Outcome("cancelled"))
          /\ UNCHANGED <<result, session, audit>>
       \/ /\ pc[c] \in {"stamp", "execute", "fetch"}
          /\ CloseWith(c, Outcome("cancelled"))
          /\ \/ UNCHANGED audit
             \/ pc[c] = "execute" /\ audit' = audit \cup {Statement(c)}
          /\ UNCHANGED <<reply, session>>
       \/ /\ pc[c] = "close"
          /\ \E s \in {"closed", "abandoned"} : session' = [session EXCEPT ![c].state = s]
          /\ Answer(c, Outcome("cancelled"))
          /\ UNCHANGED <<result, audit>>
    /\ UNCHANGED <<env, proc, req, statMtime, credential, logins, matched, firstRead>>

---------------------------------------------------------------------------
(* The world around the process                                            *)

others == <<proc, conns, pc, req, result, reply>>

Tick == now < MaxTime /\ now' = now + 1 /\ UNCHANGED <<keyFiles, file, dbPassword, others>>

StepBack ==
    /\ ClockMayStepBack
    /\ now > 0
    /\ now' = now - 1
    /\ UNCHANGED <<keyFiles, file, dbPassword, others>>

WriteKeyFile ==
    /\ \E p \in KeyPaths, k \in KeyWrites : keyFiles' = [keyFiles EXCEPT ![p] = k]
    /\ UNCHANGED <<now, file, dbPassword, others>>

(* Password rotation.  Without skew the file is replaced in the instant    *)
(* the database changes; with it the two change in either order, and a     *)
(* write may leave the file unusable.                                      *)
Rotate ==
    /\ ~RotationSkew
    /\ file.version < MaxRotations
    /\ file' = [kind |-> "good", version |-> file.version + 1]
    /\ dbPassword' = file.version + 1
    /\ UNCHANGED <<now, keyFiles, others>>

WriteCredentialFile ==
    /\ RotationSkew
    /\ file.version < MaxRotations
    /\ \E k \in {"good", "malformed", "missing"} :
          file' = [kind |-> k, version |-> file.version + 1]
    /\ UNCHANGED <<now, keyFiles, dbPassword, others>>

AlterUser ==
    /\ RotationSkew
    /\ dbPassword < MaxRotations
    /\ dbPassword' = dbPassword + 1
    /\ UNCHANGED <<now, keyFiles, file, others>>

(* The process dies and another takes its place with an empty cache.  Any  *)
(* of the statements it had sent may have run.                             *)
Restart ==
    /\ restarts < MaxRestarts
    /\ restarts' = restarts + 1
    /\ seen' = EmptyCache
    /\ spent' = {}
    /\ timeoutEnv' \in TimeoutSettings
    /\ pc' = [c \in Calls |-> IF pc[c] = Idle THEN Idle ELSE Done]
    /\ reply' = [c \in Calls |->
          IF pc[c] \in {Idle, Done} THEN reply[c] ELSE Outcome("lost")]
    /\ session' = [c \in Calls |->
          IF session[c].state = "open"
          THEN [session[c] EXCEPT !.state = "abandoned"] ELSE session[c]]
    /\ \E sent \in SUBSET {c \in Calls : pc[c] = "execute"} :
          audit' = audit \cup {Statement(c) : c \in sent}
    /\ UNCHANGED <<env, req, statMtime, credential, logins, matched, firstRead, result>>

---------------------------------------------------------------------------
Arms(c)   == \E r \in Requests :
                RefuseContext(c, r) \/ RefuseReplay(c, r) \/ RefuseGate(c, r) \/ Admit(c, r)
Local(c)  == Stat(c) \/ Read(c)
Connect(c) == LoginAccepted(c) \/ LoginDenied(c) \/ LoginFailed(c)
Query(c)  == Stamp(c) \/ Execute(c) \/ Fetch(c) \/ Close(c)
Rotation  == WriteKeyFile \/ Rotate \/ WriteCredentialFile \/ AlterUser

Next ==
    \/ \E c \in Calls : Arms(c) \/ Local(c) \/ Connect(c) \/ Query(c) \/ Cancel(c)
    \/ Tick \/ StepBack \/ Rotation \/ Restart

Spec == Init /\ [][Next]_vars

(* A coroutine that can run is run; a login ends, at the latest at the     *)
(* driver's own connect timeout; any later round trip ends if the call     *)
(* timeout is armed, and otherwise only if the database pleases.           *)
Fairness ==
    \A c \in Calls :
        /\ WF_vars(Local(c))
        /\ WF_vars(Connect(c))
        /\ WF_vars(CallTimeout > 0 /\ Query(c))

FairSpec == Spec /\ Fairness

---------------------------------------------------------------------------
(* Properties                                                              *)

Outcomes ==
    [reason : RefusalReason \cup NoReply \cup {"ok"}, rows : Nat,
     truncated : BOOLEAN, rotation_ref : Nat]

Subjects == {Claims(r).sub : r \in {q \in Requests : q.token # NoToken}}
Sessions ==
    [state : {"none", "open", "closed", "abandoned"},
     user : OracleIdentifiers \cup {"none"},
     client_identifier : {<<>>} \cup {SubjectReference(s) : s \in Subjects}]

WorldOK ==
    /\ now \in 0..MaxTime
    /\ keyFiles \in [KeyPaths -> KeyWrites \cup {InitialKeys[p] : p \in KeyPaths}]
    /\ file \in [kind : {"good", "malformed", "missing"}, version : 0..MaxRotations]
    /\ dbPassword \in 0..MaxRotations

ProcessOK ==
    /\ DOMAIN seen \subseteq Jtis /\ \A j \in DOMAIN seen : seen[j] \in Int
    /\ spent \subseteq Jtis
    /\ timeoutEnv \in TimeoutSettings
    /\ restarts \in 0..MaxRestarts

CoroutinesOK ==
    /\ pc \in [Calls -> {Idle, Done} \cup Reading \cup Awaiting]
    /\ req \in [Calls -> Requests]
    /\ result \in [Calls -> Outcomes]
    /\ reply \in [Calls -> Outcomes]

OracleLegOK ==
    /\ statMtime \in [Calls -> 0..MaxRotations]
    /\ credential \in [Calls -> [password : 0..MaxRotations, rotation_ref : 0..MaxRotations]]
    /\ logins \in [Calls -> 0..2]
    /\ session \in [Calls -> Sessions]
    /\ matched \in [Calls -> ResultSizes \cup {0}]
    /\ firstRead \in [Calls -> 0..MaxRotations]
    /\ \A e \in audit : e.bound \in 0..MaxRowsCeiling

TypeOK == WorldOK /\ ProcessOK /\ CoroutinesOK /\ OracleLegOK

(* Arm 2 keeps its promise although the cache forgets: with eviction at    *)
(* exp and a fresh cache per process, a token is accepted once per process *)
(* lifetime and pays for one statement (ReplayCache, README "each token's  *)
(* jti is single-use").                                                    *)
HoldsPermit == {"stat", "read", "connect", "stamp", "execute"}
Permit(c) == IF pc[c] \in HoldsPermit THEN Claims(req[c]).jti ELSE NoToken
Permits == [c \in Calls |-> Permit(c)]
Ran == {<<e.call, e.jti>> : e \in {a \in audit : a.life = restarts}}

Once == INSTANCE SingleUse WITH
    Tokens <- Jtis, NoPermit <- NoToken,
    permit <- Permits, ran <- Ran

SingleUseSpec == Once!Spec

(* And so the audit trail shows no two statements on one token in one      *)
(* process lifetime, those included that were in flight when their call    *)
(* was cancelled or their process died.                                    *)
TokenPaysOnce ==
    \A e, f \in audit : e.life = f.life /\ e.jti = f.jti => e = f

(* The cache remembers an accepted token for as long as the token would    *)
(* still verify: what eviction forgets, the expiry arm refuses.            *)
RememberedWhileLive ==
    \A r \in Requests :
        /\ r.token # NoToken
        /\ r.token.signer \in Keys
        /\ Claims(r).jti \in spent
        /\ now < Claims(r).exp
        => /\ Claims(r).jti \in DOMAIN seen
           /\ seen[Claims(r).jti] = Claims(r).exp

(* Eviction bounds the cache: once a call has consulted it, every token in *)
(* it is unexpired.                                                        *)
CacheHoldsLiveTokens ==
    [][seen' # seen => \A j \in DOMAIN seen' : now < seen'[j]]_vars

(* An entry of a token's list, or DUAL, is the table node t: the words of  *)
(* the entry are the parts of the name, one by one, whatever their case.   *)
Parts(t) == {t.catalog, t.db, t.name}
Denotes(entry, t) ==
    /\ \A p \in Parts(t) : Len(Words(p)) <= 1
    /\ Words(entry) = Words(t.catalog) \o Words(t.db) \o Words(t.name)
Listed(t, objects) == \E entry \in objects \cup {Dual, SysDual} : Denotes(entry, t)

(* The tables of the database that a statement reads.                      *)
TablesRead(stmt) == {t \in stmt.tables : Words(t.name) # <<>> /\ ~t.cte}

(* Its names mean one thing: no quoted part holds a dot, and a table that  *)
(* has the name of a CTE is that CTE.                                      *)
NamesAreClear(stmt) ==
    /\ \A t \in stmt.tables : \A p \in Parts(t) : Len(Words(p)) <= 1
    /\ \A t \in TablesRead(stmt) : ~TakenForCte(stmt, t)

(* A statement e was governed by a request r: a kernel key signed for      *)
(* exactly these arguments, it runs as the token's identity, is already    *)
(* stamped with its subject and, if its names are clear, reads only tables *)
(* of the token's list and DUAL (without that see EveryTableIsListed).     *)
GovernedBy(e, r) ==
    LET t    == r.token
        stmt == Parse[e.sql].stmts[1]
    IN  /\ t # NoToken /\ t.signer \in Keys /\ t.claims.aud = ExpectedAud
        /\ e.sql = r.sql /\ t.claims.args_sha256 = ArgsSha256(r)
        /\ e.user = t.claims.proxy_db_identity
        /\ e.client_identifier = SubjectReference(t.claims.sub)
        /\ Len(Parse[e.sql].stmts) = 1
        /\ NamesAreClear(stmt) => \A n \in TablesRead(stmt) : Listed(n, t.claims.objects)

(* Every statement the database executed was governed by the request of    *)
(* the call that sent it, whatever ran between its arms and its statement. *)
ExecutedIsGoverned == \A e \in audit : GovernedBy(e, req[e.call])

(* The reply tells the caller what happened at the database: a pre-check   *)
(* refusal means no login was tried, a stamp failure that no user SQL ran, *)
(* success that exactly this call's statement ran in this process.         *)
ReplyMatchesDatabase ==
    \A c \in Calls :
        LET mine == {e \in audit : e.call = c}
            why  == reply[c].reason
        IN  /\ why \in PreCheckReasons => logins[c] = 0 /\ session[c] = NoSession
            /\ why \in PreCheckReasons \cup {"query_identity_stamp_failed"} => mine = {}
            /\ why = "ok" => \E e \in mine : mine = {e} /\ reply[c].rows <= e.bound

(* A finished call holds no open session, whichever way it ended.          *)
SessionsReleased ==
    \A c \in Calls : session[c].state = "open" => pc[c] \in Awaiting \ {"connect"}

(* The retry is worth making: if the file follows the database, a call is  *)
(* refused its second login only when the password has changed twice since *)
(* its own first read; one rotation never costs a call both its logins     *)
(* (CHANGELOG 0.5.0).                                                      *)
RetrySurvivesRotation ==
    ~RotationSkew =>
        \A c \in Calls :
            pc[c] = "connect" /\ logins[c] = 1 /\ credential[c].password # dbPassword
            => dbPassword >= firstRead[c] + 2

(* The marker of a success never names a rotation later than the password  *)
(* that opened the session: seeing it proves nothing newer was used.       *)
RotationRefNeverAhead ==
    \A c \in Calls : reply[c].reason = "ok" =>
        reply[c].rotation_ref <= credential[c].password

(* Rows are never lost silently, and never exceed the ceiling.             *)
TruncationIsReported ==
    \A c \in Calls : reply[c].reason = "ok" =>
        /\ reply[c].rows <= MaxRowsCeiling
        /\ ~reply[c].truncated => reply[c].rows = matched[c]

(* A call ends after at most eleven steps of its own, whatever happens     *)
(* around it, because nothing but the read and the login is ever done      *)
(* again, and they once; the one reply that it then has is final.          *)
Ahead ==
    [idle |-> 8, stat |-> 7, read |-> 6, connect |-> 5, stamp |-> 4,
     execute |-> 3, fetch |-> 2, close |-> 1, done |-> 0]
StepsLeft(c) ==
    Ahead[pc[c]] + IF logins[c] = 0 /\ Ahead[pc[c]] >= Ahead.connect THEN 3 ELSE 0
CallsOnlyAdvance ==
    [][\A c \in Calls :
         /\ pc'[c] # pc[c] => StepsLeft(c)' < StepsLeft(c)
         /\ pc[c] = Done => pc'[c] = Done /\ reply'[c] = reply[c]]_vars

(* Every call that arrives is answered, cancelled or lost with its process.*)
EveryCallEnds ==
    \A c \in Calls : pc[c] # Idle ~> pc[c] = Done

---------------------------------------------------------------------------
(* What the repository says and the code does not do (see README.md)       *)

(* "Stamp failure -> query_identity_stamp_failed" (readonly_query.py:43).  *)
StampFailureIsNamed ==
    \A c \in Calls :
        /\ pc[c] = Done
        /\ result[c].reason = "query_identity_stamp_failed"
        => reply[c].reason \in {"query_identity_stamp_failed"} \cup NoReply

(* "max_rows ONLY when the wire carried it" (readonly_query.py:18): a call *)
(* whose arguments are those its token was minted for is not a mismatch.   *)
MintedArgsMatch ==
    \A c \in Calls : reply[c].reason = "query_context_args_mismatch" =>
        Claims(req[c]).args_sha256 # WireArgsSha256(req[c])

(* "every referenced table (including inside CTEs / subqueries / joins...) *)
(* must be in the TOKEN's objects set" (README.md:68-71): a statement that *)
(* the database executed read no other table.                              *)
EveryTableIsListed ==
    \A e \in audit :
        \A t \in TablesRead(Parse[e.sql].stmts[1]) : Listed(t, Claims(req[e.call]).objects)
=============================================================================
