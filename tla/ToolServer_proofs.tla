--------------------------- MODULE ToolServer_proofs ---------------------------
(***************************************************************************)
(* Theorems of ToolServer for every environment, token, request and        *)
(* dictionary, and every length of time.                                   *)
(*                                                                         *)
(* The argument: what a call has met is kept in its locals and stays true  *)
(* of them (Met): the process is configured by its environment, access is  *)
(* what verify_token made of the token at some time since the call came,   *)
(* or None for want of keys, and a call past FastMCP was admitted on that  *)
(* access at a time not before it, a call turned away refused then.        *)
(* An answer is the tool's answer from the dictionary that was asked, and  *)
(* what that holds is a fact about the queries (MetadataTools_proofs).     *)
(***************************************************************************)
EXTENDS ToolServer, MetadataTools_proofs

Authority ==
    /\ Admits(cfg, access, admittedAt)
    /\ \E v \in 0..admittedAt : access = VerifyToken(cfg, token, v)

(* access comes from a decoding at time v, or from no keys.                *)
VerifiedAt(v) ==
    \/ access = VerifyToken(cfg, token, v)
    \/ cfg.auth_mode = "jwt" /\ ~keysFetched /\ access = None

Met ==
    /\ server = "up" => Starts(env) /\ cfg = Config(env)
    /\ pc # "idle" => server = "up" /\ token \in Tokens
    /\ pc \in {"verified", "querying", "done"} =>
          \E v \in arrivedAt..now : VerifiedAt(v)
    /\ reply.status = "server error" => pc = "done" /\ access.verdict = "raises"
    /\ reply.status = "unauthorized" =>
          pc = "done" /\ access.verdict # "raises" /\ ~Admits(cfg, access, now)
    /\ pc = "querying" => Guarded(request, cfg)
    /\ pc # "done" => reply = NoReply
    /\ ReachedATool => Authority /\ pc \in {"querying", "done"}
    /\ reply.status = "owner not allowed" => ~Guarded(request, cfg)
    /\ reply.status = "ok" => Guarded(request, cfg) /\ reply = Answer(request, cfg, asked)
    /\ reply.status \in {"none", "server error", "unauthorized", "owner not allowed"} =>
          reply.items = <<>>

IInv ==
    /\ env \in Environments /\ server \in {"building", "up", "refused"}
    /\ now \in 0..MaxTime /\ arrivedAt \in 0..now /\ admittedAt \in 0..MaxTime
    /\ dictionary \in Dictionaries /\ asked \in Dictionaries
    /\ pc \in {"idle", "verifying", "verified", "querying", "done"}
    /\ token \in Tokens \cup {NoBearer} /\ request \in Requests
    /\ access.verdict \in {"none", "raises", "token"}
    /\ reply.status \in {"none", "ok", "server error", "unauthorized", "owner not allowed"}
    /\ Met

---------------------------------------------------------------------------
(* What one step leaves behind                                             *)

LEMMA VerdictOf ==
    ASSUME NEW c, NEW t, NEW v
    PROVE  VerifyToken(c, t, v).verdict \in {"none", "raises", "token"}
  BY DEF VerifyToken, DevVerify, JwtVerify, Access, None

LEMMA AnsweredIs ==
    ASSUME NEW s
    PROVE  Answered(s).status = s /\ Answered(s).items = <<>> /\ Answered(s).truncated = FALSE
  BY DEF Answered, NoReply

LEMMA AnswerIsOk ==
    ASSUME NEW q, NEW c, NEW d
    PROVE  Answer(q, c, d).status = "ok"
  BY DEF Answer, Page

LEMMA TimesAreNumbers ==
    ASSUME IInv
    PROVE  /\ now \in 0..MaxTime /\ now \in Nat /\ admittedAt \in Nat
           /\ arrivedAt \in Nat /\ arrivedAt <= now
<1>1. now \in 0..MaxTime /\ arrivedAt \in 0..now /\ admittedAt \in 0..MaxTime
  BY DEF IInv
<1> QED BY <1>1, MaxTimeAssumption

LEMMA IInvInit == Init => IInv
<1> SUFFICES ASSUME Init PROVE IInv
  OBVIOUS
<1>1. 0 \in 0..MaxTime /\ (now \in 0..MaxTime => 0 \in 0..now)
  BY MaxTimeAssumption
<1>2. reply = NoReply /\ reply.status = "none" /\ reply.items = <<>>
  BY DEF Init, NoReply
<1>3. access.verdict = "none"
  BY DEF Init, None, Access
<1>4. ~ReachedATool
  BY <1>2 DEF Init, ReachedATool
<1>5. Met
  BY <1>2, <1>4 DEF Init, Met
<1> QED BY <1>1, <1>2, <1>3, <1>5 DEF Init, IInv

LEMMA BuildKeeps == ASSUME IInv, Build PROVE IInv'
<1>1. UNCHANGED <<world, pc, input, verified, admittedAt, asked, reply>> /\ server = "building"
  BY DEF Build
<1>2. pc = "idle" /\ ~ReachedATool /\ reply = NoReply /\ ~ReachedATool'
  BY <1>1 DEF IInv, Met, VerifiedAt, ReachedATool, NoReply
<1>3. server' \in {"up", "refused"} /\ (server' = "up" => Starts(env) /\ cfg' = Config(env))
  BY DEF Build
<1>4. Met'
  BY <1>1, <1>2, <1>3 DEF Met, VerifiedAt, IInv, world, input, verified, NoReply
<1> QED BY <1>1, <1>3, <1>4 DEF IInv, world, input, verified

LEMMA ReceiveKeeps == ASSUME IInv, Receive PROVE IInv'
<1>1. /\ UNCHANGED <<world, cfg, server, verified, admittedAt, asked, reply>>
      /\ server = "up" /\ pc = "idle" /\ pc' = "verifying"
      /\ token' \in Tokens /\ request' \in Requests /\ arrivedAt' = now
  BY DEF Receive
<1>2. reply = NoReply /\ ~ReachedATool'
  BY <1>1 DEF IInv, Met, VerifiedAt, ReachedATool, NoReply
<1>3. Met'
  BY <1>1, <1>2 DEF Met, VerifiedAt, IInv, world, verified, NoReply
<1>4. arrivedAt' \in 0..now'
  BY <1>1, TimesAreNumbers DEF world
<1> QED BY <1>1, <1>3, <1>4 DEF IInv, world, verified

LEMMA VerifyKeeps == ASSUME IInv, Verify PROVE IInv'
<1>1. /\ UNCHANGED <<world, cfg, server, input, admittedAt, asked, reply>>
      /\ pc = "verifying" /\ pc' = "verified"
      /\ \/ access' = VerifyToken(cfg, token, now)
         \/ cfg.auth_mode = "jwt" /\ ~keysFetched' /\ access' = None
  BY DEF Verify
<1>2. reply = NoReply /\ ~ReachedATool'
  BY <1>1 DEF IInv, Met, VerifiedAt, ReachedATool, NoReply
<1>3. now \in arrivedAt'..now'
  <2>1. now' = now /\ now \in Nat /\ arrivedAt' = arrivedAt /\ arrivedAt \in Nat /\ arrivedAt <= now
    BY <1>1, TimesAreNumbers DEF world, input, verified
  <2> QED BY <2>1
<1>4. Met'
  BY <1>1, <1>2, <1>3 DEF Met, VerifiedAt, IInv, world, input, verified, NoReply
<1>5. access'.verdict \in {"none", "raises", "token"}
  BY <1>1, VerdictOf DEF None, Access
<1> QED BY <1>1, <1>4, <1>5 DEF IInv, world, input, verified

LEMMA AdmitKeeps == ASSUME IInv, Admit PROVE IInv'
<1>1. UNCHANGED <<world, cfg, server, input, verified, asked>> /\ pc = "verified" /\ server = "up"
  BY DEF Admit, IInv, Met
<1>2. PICK v \in arrivedAt..now : VerifiedAt(v)
  BY <1>1 DEF IInv, Met, VerifiedAt
<1>v. v \in 0..now
  BY TimesAreNumbers
<1>3. ASSUME NEW s \in {"server error", "unauthorized"}, Finish(Answered(s)), UNCHANGED admittedAt,
             s = "server error" => access.verdict = "raises",
             s = "unauthorized" => access.verdict # "raises" /\ ~Admits(cfg, access, now)
      PROVE  IInv'
  <2>1. pc' = "done" /\ reply'.status = s /\ reply'.items = <<>> /\ ~ReachedATool'
    BY <1>3, AnsweredIs DEF Finish, ReachedATool
  <2>2. s = "unauthorized" => ~Admits(cfg, access, now)'
    BY <1>1, <1>3 DEF Admits, world, verified
  <2>3. Met'
    BY <1>1, <1>2, <1>3, <2>1, <2>2 DEF Met, VerifiedAt, IInv, world, input, verified
  <2> QED BY <1>1, <1>3, <2>1, <2>3 DEF IInv, world, input, verified
<1>4. ASSUME Admits(cfg, access, now), admittedAt' = now,
             \/ ~Guarded(request, cfg) /\ Finish(Answered("owner not allowed"))
             \/ Guarded(request, cfg) /\ pc' = "querying" /\ UNCHANGED reply
      PROVE  IInv'
  <2>1. access = VerifyToken(cfg, token, v)
    <3>1. access # None
      <4>1. access.verdict = "token"
        BY <1>4 DEF Admits
      <4>2. None.verdict = "none"
        BY DEF None, Access
      <4> QED BY <4>1, <4>2
    <3> QED BY <1>2, <3>1 DEF VerifiedAt
  <2>a. Authority'
    BY <1>1, <1>v, <1>4, <2>1 DEF Authority, input, verified
  <2>2. CASE ~Guarded(request, cfg) /\ Finish(Answered("owner not allowed"))
    <3>1. pc' = "done" /\ reply'.status = "owner not allowed" /\ reply'.items = <<>>
      BY <2>2, AnsweredIs DEF Finish
    <3>2. Met'
      BY <1>1, <1>2, <2>a, <2>2, <3>1 DEF Met, VerifiedAt, IInv, world, input, verified
    <3> QED BY <1>1, <1>4, <3>1, <3>2 DEF IInv, world, input, verified
  <2>3. CASE Guarded(request, cfg) /\ pc' = "querying" /\ UNCHANGED reply
    <3>1. Met'
      BY <1>1, <1>2, <2>a, <2>3 DEF Met, VerifiedAt, IInv, world, input, verified, NoReply
    <3> QED BY <1>1, <1>4, <2>3, <3>1 DEF IInv, world, input, verified
  <2> QED BY <1>4, <2>2, <2>3
<1> QED BY <1>3, <1>4 DEF Admit

LEMMA QueryKeeps == ASSUME IInv, Query PROVE IInv'
<1>1. /\ UNCHANGED <<world, cfg, server, input, verified, admittedAt>> /\ pc = "querying"
      /\ asked' = dictionary /\ pc' = "done" /\ reply' = Answer(request, cfg, dictionary)
  BY DEF Query, Finish
<1>2. reply'.status = "ok"
  BY <1>1, AnswerIsOk
<1>3. Authority'
  BY <1>1 DEF IInv, Met, VerifiedAt, ReachedATool, Authority, input, verified
<1>4. Met'
  BY <1>1, <1>2, <1>3 DEF Met, VerifiedAt, IInv, world, input, verified
<1> QED BY <1>1, <1>2, <1>4 DEF IInv, world, input, verified

LEMMA WorldKeeps == ASSUME IInv, Tick \/ Alter PROVE IInv'
<1>1. /\ UNCHANGED <<env, cfg, server, pc, input, verified, admittedAt, asked, reply>>
      /\ now' \in 0..MaxTime /\ dictionary' \in Dictionaries
      /\ now' = now \/ now' = now + 1
      /\ pc # "done"
  <2>1. now < MaxTime => now + 1 \in 0..MaxTime
    BY TimesAreNumbers, MaxTimeAssumption
  <2>2. now \in 0..MaxTime /\ dictionary \in Dictionaries
    BY DEF IInv
  <2> QED BY <2>1, <2>2 DEF Tick, Alter
<1>2. \A u \in Nat : \A v \in u..now : v \in u..now'
  BY <1>1, TimesAreNumbers
<1>3. /\ pc \in {"verified", "querying"} =>
            \E v \in arrivedAt..now' : VerifiedAt(v)
      /\ arrivedAt \in 0..now'
  BY <1>2, TimesAreNumbers DEF IInv, Met, VerifiedAt
<1>4. reply.status = "none"
  <2>1. reply = NoReply
    BY <1>1 DEF IInv, Met, VerifiedAt
  <2> QED BY <2>1 DEF NoReply
<1>5. Met'
  BY <1>1, <1>3, <1>4 DEF Met, VerifiedAt, IInv, input, verified, Authority, ReachedATool
<1> QED BY <1>1, <1>3, <1>5 DEF IInv, input, verified

LEMMA IInvStep == IInv /\ [Next]_vars => IInv'
<1> SUFFICES ASSUME IInv, [Next]_vars PROVE IInv'
  OBVIOUS
<1>1. CASE Next
  BY <1>1, BuildKeeps, ReceiveKeeps, VerifyKeeps, AdmitKeeps, QueryKeeps, WorldKeeps DEF Next
<1>2. CASE UNCHANGED vars
  <2>1. UNCHANGED <<env, now, dictionary, cfg, server, pc, token, request, arrivedAt,
                  access, keysFetched, admittedAt, asked, reply>>
    BY <1>2 DEF vars, world, input, verified
  <2>2. Authority' = Authority /\ ReachedATool' = ReachedATool
    BY <2>1 DEF Authority, ReachedATool
  <2>3. Met'
    BY <2>1, <2>2 DEF IInv, Met, VerifiedAt
  <2> QED BY <2>1, <2>3 DEF IInv
<1> QED BY <1>1, <1>2

LEMMA IInvAlways == Spec => []IInv
  BY IInvInit, IInvStep, PTL DEF Spec

---------------------------------------------------------------------------
(* Refusals                                                                *)

LEMMA ConfiguredIs ==
    ASSUME IInv, server = "up"
    PROVE  /\ cfg.auth_mode = AuthMode(env) /\ cfg.required_scopes = RequiredScopes(env)
           /\ cfg.allowed_owners = AllowedOwners(env)
           /\ cfg.max_rows = Clamp(Given(env.max_rows, DefaultMaxRows))
           /\ Starts(env)
<1>1. cfg = Config(env) /\ Starts(env)
  BY DEF IInv, Met
<1> QED BY <1>1 DEF Config

(* What a good token, and one that makes the verifier raise, amount to.    *)
LEMMA GoodIsVerified ==
    ASSUME NEW c, NEW t, NEW v, c.auth_mode # "dev_insecure", ~t.empty, Decodes(t, v),
           NEW claim, Raw(t) = claim, c.required_scopes \subseteq claim.items,
           claim.kind = "str" \/ (claim.kind = "list" /\ claim.pure)
    PROVE  \/ VerifyToken(c, t, v) = Access("raises", {}, NoExpiry)
           \/ VerifyToken(c, t, v) = Access("token", claim.items, t.exp.seconds)
<1>1. Granted(t) = claim.items /\ ~Malformed(claim)
  BY DEF Granted, Malformed
<1> QED BY <1>1 DEF VerifyToken, JwtVerify

LEMMA RaisesIs ==
    ASSUME NEW c, NEW t, NEW v, VerifyToken(c, t, v).verdict = "raises"
    PROVE  /\ ~t.empty /\ t.signer = "issuer" /\ t.exp.fraction
           /\ c.required_scopes \subseteq Granted(t)
<1>1. VerifyToken(c, t, v) = JwtVerify(c, t, v)
  BY DEF VerifyToken, DevVerify, Access, None
<1>2. ~t.empty /\ Decodes(t, v) /\ c.required_scopes \subseteq Granted(t) /\ t.exp.fraction
  BY <1>1 DEF JwtVerify, Access, None
<1> QED BY <1>2 DEF Decodes

LEMMA GoodIsAdmitted ==
    ASSUME IInv, pc = "done", access.verdict # "raises", GoodSinceArrival
    PROVE  Admits(cfg, access, now)
<1>1. server = "up" /\ token \in Tokens /\ ~token.empty
  BY DEF IInv, Met, GoodSinceArrival
<1>2. PICK v \in arrivedAt..now : access = VerifyToken(cfg, token, v)
  <2>1. PICK v \in arrivedAt..now : VerifiedAt(v)
    BY DEF IInv, Met
  <2>2. ~(cfg.auth_mode = "jwt" /\ ~keysFetched)
    BY <1>1, ConfiguredIs DEF GoodSinceArrival
  <2> QED BY <2>1, <2>2 DEF VerifiedAt
<1>3. cfg.auth_mode = AuthMode(env) /\ cfg.required_scopes = RequiredScopes(env)
  BY <1>1, ConfiguredIs
<1>4. CASE cfg.auth_mode = "dev_insecure"
  BY <1>1, <1>2, <1>4 DEF VerifyToken, DevVerify, Access, Admits, NoExpiry
<1>5. CASE cfg.auth_mode # "dev_insecure"
  <2>1. /\ token.signer = "issuer" /\ token.iss = "issuer" /\ "this server" \in token.aud
        /\ {"exp", "iat", "nbf", "aud", "iss"} \subseteq token.claims
        /\ token.iat <= arrivedAt /\ token.nbf <= arrivedAt /\ now < token.exp.seconds
        /\ Grants(token.scope, token.scp) \/ Grants(token.scp, token.scope)
    BY <1>3, <1>5 DEF GoodSinceArrival
  <2>2. token \in Tokens \ {NoBearer}
    BY <1>1 DEF NoBearer
  <2>3. PICK iat \in Int, nbf \in Int, exp \in Int :
           iat = token.iat /\ nbf = token.nbf /\ exp = token.exp.seconds
    BY <2>2, TokensAssumption
  <2>4. iat <= v /\ nbf <= v /\ v < exp /\ now < exp
    <3>1. v \in Nat /\ arrivedAt <= v /\ v <= now /\ arrivedAt \in Nat /\ now \in Nat
      BY <1>2, TimesAreNumbers
    <3>2. iat <= arrivedAt /\ nbf <= arrivedAt /\ now < exp
      BY <2>1, <2>3
    <3> QED BY <2>3, <3>1, <3>2
  <2>5. Decodes(token, v)
    BY <2>1, <2>3, <2>4 DEF Decodes
  <2>6. PICK claim : /\ Raw(token) = claim /\ cfg.required_scopes \subseteq claim.items
                     /\ claim.kind = "str" \/ (claim.kind = "list" /\ claim.pure)
    BY <1>3, <2>1 DEF Grants, Raw
  <2>7. access = Access("token", claim.items, exp)
    BY <1>1, <1>2, <1>5, <2>3, <2>5, <2>6, GoodIsVerified DEF Access
  <2>8. exp >= now
    BY <2>3, <2>4, TimesAreNumbers
  <2> QED BY <2>6, <2>7, <2>8 DEF Access, Admits
<1> QED BY <1>4, <1>5

(* RefusalsHaveAReason: the time that the decoding takes, the place of the *)
(* scopes and a clock that moves on cost no good token its call, and what  *)
(* the server answers with an error was signed by the issuer.              *)
THEOREM GoodTokensGetThrough == Spec => []RefusalsHaveAReason
<1>1. ASSUME IInv PROVE RefusalsHaveAReason
  <2>1. ASSUME reply.status = "unauthorized" PROVE ~GoodSinceArrival
    BY <1>1, <2>1, GoodIsAdmitted DEF IInv, Met
  <2>2. ASSUME reply.status = "server error"
        PROVE  /\ ~token.empty /\ token.signer = "issuer" /\ token.exp.fraction
               /\ RequiredScopes(env) \subseteq Granted(token)
    <3>1. access.verdict = "raises" /\ server = "up" /\ pc = "done"
      BY <1>1, <2>2 DEF IInv, Met
    <3>2. PICK v \in arrivedAt..now : VerifiedAt(v)
      BY <1>1, <3>1 DEF IInv, Met
    <3>3. access = VerifyToken(cfg, token, v)
      BY <3>1, <3>2 DEF VerifiedAt, None, Access
    <3> QED BY <1>1, <3>1, <3>3, RaisesIs, ConfiguredIs
  <2> QED BY <2>1, <2>2 DEF RefusalsHaveAReason
<1> QED BY <1>1, IInvAlways, PTL

---------------------------------------------------------------------------
(* Authority                                                               *)

(* What a token access says of the token, and of the time of its decoding. *)
LEMMA TokenAccess ==
    ASSUME NEW c, NEW t, NEW v, VerifyToken(c, t, v).verdict = "token"
    PROVE  \/ c.auth_mode = "dev_insecure" /\ ~t.empty
           \/ /\ ~t.empty /\ Decodes(t, v) /\ c.required_scopes \subseteq Granted(t)
              /\ VerifyToken(c, t, v).expires_at = t.exp.seconds
<1>1. CASE c.auth_mode = "dev_insecure"
  BY <1>1 DEF VerifyToken, DevVerify, Access, None
<1>2. CASE c.auth_mode # "dev_insecure"
  <2>1. VerifyToken(c, t, v) = JwtVerify(c, t, v)
    BY <1>2 DEF VerifyToken
  <2>2. ~t.empty /\ Decodes(t, v) /\ c.required_scopes \subseteq Granted(t) /\ ~t.exp.fraction
    BY <2>1 DEF JwtVerify, Access, None
  <2>3. JwtVerify(c, t, v) = Access("token", Granted(t), t.exp.seconds)
    BY <2>1, <2>2 DEF JwtVerify, Access, None
  <2> QED BY <2>1, <2>2, <2>3 DEF Access
<1> QED BY <1>1, <1>2

LEMMA AuthorityHolds == IInv => ReachedUnderAuthority
<1> SUFFICES ASSUME IInv, ReachedATool
             PROVE  /\ server = "up"
                    /\ \/ AuthMode(env) = "dev_insecure" /\ env.cognic_env = "dev" /\ ~token.empty
                       \/ /\ token.signer = "issuer" /\ "this server" \in token.aud
                          /\ RequiredScopes(env) \subseteq Granted(token)
                          /\ token.nbf <= admittedAt /\ admittedAt <= token.exp.seconds
  BY DEF ReachedUnderAuthority
<1>1. Authority /\ server = "up" /\ token \in Tokens
  BY DEF IInv, Met
<1>2. PICK v \in 0..admittedAt : access = VerifyToken(cfg, token, v)
  BY <1>1 DEF Authority
<1>3. access.verdict = "token" /\ (access.expires_at # NoExpiry => access.expires_at >= admittedAt)
  BY <1>1 DEF Authority, Admits
<1>4. /\ cfg.auth_mode = AuthMode(env) /\ cfg.required_scopes = RequiredScopes(env)
      /\ Starts(env)
  BY <1>1, ConfiguredIs
<1>5. CASE cfg.auth_mode = "dev_insecure" /\ ~token.empty
  BY <1>1, <1>4, <1>5 DEF Starts, ConfigError
<1>6. CASE /\ ~token.empty /\ Decodes(token, v) /\ cfg.required_scopes \subseteq Granted(token)
           /\ access.expires_at = token.exp.seconds
  <2>1. token \in Tokens \ {NoBearer}
    BY <1>1, <1>6 DEF NoBearer
  <2>2. PICK nbf \in Int, exp \in Int : nbf = token.nbf /\ exp = token.exp.seconds
    BY <2>1, TokensAssumption
  <2>3. nbf <= v /\ v < exp /\ token.signer = "issuer" /\ "this server" \in token.aud
    BY <1>6, <2>2 DEF Decodes
  <2>4. v \in Nat /\ v <= admittedAt /\ admittedAt \in Nat
    BY <1>2, TimesAreNumbers
  <2>5. exp # 0 /\ nbf <= admittedAt
    <3>1. nbf \in Int /\ exp \in Int /\ nbf <= v /\ v < exp
      BY <2>2, <2>3
    <3> QED BY <2>4, <3>1
  <2>6. admittedAt <= exp
    BY <1>3, <1>6, <2>2, <2>5 DEF NoExpiry
  <2> QED BY <1>1, <1>4, <1>6, <2>2, <2>3, <2>5, <2>6
<1> QED BY <1>2, <1>3, <1>5, <1>6, TokenAccess

(* ReachedUnderAuthority: however long the decoding thread takes, a call   *)
(* reaches a tool only on a token that has not expired when FastMCP looks, *)
(* or in a process that was told twice that it is for development.         *)
THEOREM ToolsAreReachedUnderAuthority == Spec => []ReachedUnderAuthority
  BY AuthorityHolds, IInvAlways, PTL

---------------------------------------------------------------------------
(* Listed owners                                                           *)

LEMMA StringIs ==
    ASSUME NEW s \in Strings, NEW t \in Strings,
           s.word = t.word, s.case = t.case, s.padded = t.padded
    PROVE  s = t
  BY DEF Strings

LEMMA FoldedFields ==
    ASSUME NEW s \in Strings
    PROVE  /\ Folded(s) \in Strings
           /\ Folded(s).word = s.word /\ Folded(s).case = "upper" /\ Folded(s).padded = FALSE
<1>1. Strip(s) \in Strings /\ Strip(s).word = s.word /\ Strip(s).padded = FALSE
  BY DEF Strip, Strings
<1>2. \A t \in Strings : /\ Upper(t) \in Strings /\ Upper(t).word = t.word
                         /\ Upper(t).case = "upper" /\ Upper(t).padded = t.padded
  BY DEF Upper, Strings
<1> QED BY <1>1, <1>2 DEF Folded

LEMMA FoldedSame ==
    ASSUME NEW s \in Strings, NEW t \in Strings
    PROVE  Folded(s) = Folded(t) <=> s.word = t.word
<1>1. /\ Folded(s) \in Strings
      /\ Folded(s).word = s.word /\ Folded(s).case = "upper" /\ Folded(s).padded = FALSE
  BY FoldedFields
<1>2. /\ Folded(t) \in Strings
      /\ Folded(t).word = t.word /\ Folded(t).case = "upper" /\ Folded(t).padded = FALSE
  BY FoldedFields
<1>3. PICK a \in Strings, b \in Strings : a = Folded(s) /\ b = Folded(t)
  BY <1>1, <1>2
<1>4. ASSUME s.word = t.word PROVE a = b
  <2>1. a.word = b.word /\ a.case = b.case /\ a.padded = b.padded
    BY <1>1, <1>2, <1>3, <1>4
  <2> QED BY <2>1, StringIs
<1> QED BY <1>1, <1>2, <1>3, <1>4

(* A name folds to a listed one exactly if it is one but for spelling.     *)
LEMMA ListedIsAllowed ==
    ASSUME NEW e \in Environments, NEW s \in Strings
    PROVE  Folded(s) \in AllowedOwners(e) <=> \E o \in e.allowed_owners : o.word # 0 /\ o.word = s.word
<1>1. e.allowed_owners \subseteq Strings
  BY EnvironmentsAssumption
<1>2. \A o \in e.allowed_owners : Folded(o) = Folded(s) <=> o.word = s.word
  BY <1>1, FoldedSame
<1>3. AllowedOwners(e) = {Folded(o) : o \in {x \in e.allowed_owners : x.word # 0}}
  BY DEF AllowedOwners, NonBlank
<1> QED BY <1>2, <1>3

LEMMA RefusedIsUnlisted == IInv => ListedOwnersAreServed
<1> SUFFICES ASSUME IInv, reply.status = "owner not allowed"
             PROVE  ~Listed(request.owner)
  BY DEF ListedOwnersAreServed
<1>1. ReachedATool /\ ~Guarded(request, cfg)
  BY DEF IInv, Met, ReachedATool
<1>2. server = "up"
  BY <1>1 DEF IInv, Met
<1>3. request.owner \in Strings /\ Folded(request.owner) \notin AllowedOwners(env)
  BY <1>1, <1>2, ConfiguredIs, RequestsAssumption DEF IInv, Guarded, OwnerRefused
<1> QED BY <1>3, ListedIsAllowed DEF IInv, Listed

(* ListedOwnersAreServed: case and spaces, in the environment or in the    *)
(* argument, never keep a listed owner out.                                *)
THEOREM ListedOwnersGetThrough == Spec => []ListedOwnersAreServed
  BY RefusedIsUnlisted, IInvAlways, PTL

---------------------------------------------------------------------------
(* What the six queries select                                             *)

Asking == WellFormed(asked) /\ request \in Requests /\ Guarded(request, cfg)
Told(rows, whole) == Sortable(rows) /\ ItemsOf(rows) = whole

LEMMA RowIs ==
    ASSUME NEW order, NEW item
    PROVE  Row(order, item).order = order /\ Row(order, item).item = item
  BY DEF Row

(* guard_owner and the predicate of a query let through the same owners.   *)
LEMMA PredicateIs ==
    ASSUME Asking
    PROVE  /\ \A o : OwnerPredicate(request.owner, cfg, o) <=> Permitted(o)
           /\ request.owner # NoArg => \A o : Permitted(o) <=> o = Folded(request.owner)
  BY DEF Asking, Guarded, OwnerRefused, OwnerPredicate, Permitted

LEMMA TablesAreTold ==
    ASSUME Asking, request.owner # NoArg
    PROVE  Told(ListTables(request, cfg, asked), WholeTables)
<1> DEFINE S == {x \in AllTables(asked) : x.owner = Folded(request.owner)}
           item(t) == [table_name |-> t.name, comments |-> t.comments]
           f == [t \in S |-> Row(<<Rank(t.name)>>, item(t))]
<1>1. IsFiniteSet(S)
  <2>1. S \in SUBSET AllTables(asked)
    OBVIOUS
  <2> QED BY <2>1, DictionaryIsFinite, FS_Subset DEF Asking
<1>2. \A t \in S : /\ t \in asked.objects /\ t.owner = Folded(request.owner)
                   /\ t.name \in Identifiers
                   /\ f[t].order = <<Rank(t.name)>> /\ f[t].item = item(t)
  <2>1. \A t \in S : /\ t \in asked.objects /\ t.owner = Folded(request.owner)
                     /\ t.name \in Identifiers
    BY DEF AllTables, Asking, WellFormed
  <2>2. \A t \in S : f[t].order = <<Rank(t.name)>> /\ f[t].item = item(t)
    BY RowIs
  <2> QED BY <2>1, <2>2
<1>3. {f[t] : t \in S} = ListTables(request, cfg, asked)
  BY DEF ListTables
<1>4. \A t \in S : f[t].order \in Orders(1)
  BY <1>2, NamesOrder
<1>5. ASSUME NEW t \in S, NEW u \in S, f[t].order = f[u].order \/ f[t].item = f[u].item
      PROVE  f[t] = f[u]
  <2>1. Rank(t.name) = Rank(u.name) \/ t.name = u.name
    BY <1>2, <1>5
  <2>2. t.name = u.name /\ t.owner = u.owner
    BY <1>2, <2>1, RankIs
  <2>3. t = u
    BY <1>2, <2>2 DEF Asking, WellFormed
  <2> QED BY <2>3
<1>6. {f[t].item : t \in S} = WholeTables
  <2>1. S = {o \in asked.objects :
               o.kind = "table" /\ Permitted(o.owner) /\ Sees(asked, o.owner, o.name)}
    BY PredicateIs DEF AllTables
  <2>2. WholeTables = {item(t) : t \in S}
    BY <2>1 DEF WholeTables
  <2>3. \A t \in S : f[t].item = item(t)
    BY <1>2
  <2> HIDE DEF f, S, item
  <2>4. {f[t].item : t \in S} = {item(t) : t \in S}
    BY <2>3
  <2> QED BY <2>2, <2>4
<1> HIDE DEF f, S
<1>7. Sortable({f[t] : t \in S}) /\ ItemsOf({f[t] : t \in S}) = {f[t].item : t \in S}
  <2>1. 1 \in 1..3
    OBVIOUS
  <2> QED BY <1>1, <1>4, <1>5, <2>1, SortableImage
<1> QED BY <1>3, <1>6, <1>7 DEF Told

LEMMA SchemasAreTold ==
    ASSUME Asking, request.owner = NoArg
    PROVE  Told(ListSchemas(request, cfg, asked), WholeSchemas)
<1> DEFINE S == {x \in AllTables(asked) : OwnerPredicate(NoArg, cfg, x.owner)}
           item(t) == [owner |-> t.owner]
           f == [t \in S |-> Row(<<Rank(t.owner)>>, item(t))]
<1>1. IsFiniteSet(S)
  <2>1. S \in SUBSET AllTables(asked)
    OBVIOUS
  <2> QED BY <2>1, DictionaryIsFinite, FS_Subset DEF Asking
<1>2. \A t \in S : /\ t \in asked.objects /\ t.owner \in Identifiers
                   /\ f[t].order = <<Rank(t.owner)>> /\ f[t].item = item(t)
  <2>1. \A t \in S : t \in asked.objects /\ t.owner \in Identifiers
    BY DEF AllTables, Asking, WellFormed
  <2>2. \A t \in S : f[t].order = <<Rank(t.owner)>> /\ f[t].item = item(t)
    BY RowIs
  <2> QED BY <2>1, <2>2
<1>3. {f[t] : t \in S} = ListSchemas(request, cfg, asked)
  BY DEF ListSchemas
<1>4. \A t \in S : f[t].order \in Orders(1)
  BY <1>2, NamesOrder
<1>5. ASSUME NEW t \in S, NEW u \in S, f[t].order = f[u].order \/ f[t].item = f[u].item
      PROVE  f[t] = f[u]
  <2>1. Rank(t.owner) = Rank(u.owner) \/ t.owner = u.owner
    BY <1>2, <1>5
  <2>2. t.owner = u.owner
    BY <1>2, <2>1, RankIs
  <2> QED BY <2>2
<1>6. {f[t].item : t \in S} = WholeSchemas
  <2>1. S = {o \in asked.objects :
               o.kind = "table" /\ Permitted(o.owner) /\ Sees(asked, o.owner, o.name)}
    BY PredicateIs DEF AllTables
  <2>2. \A t \in S : f[t].item = item(t)
    BY <1>2
  <2>3. \A t \in S : <<t.owner, t.name>> \in asked.grants /\ <<t.owner, t.name>>[1] = t.owner
    BY <2>1 DEF Sees
  <2>4. \A x : x \in WholeSchemas <=> \E t \in S : x = item(t)
    BY <2>1, <2>3 DEF WholeSchemas, Sees
  <2> HIDE DEF f, S, item
  <2>5. {f[t].item : t \in S} = {item(t) : t \in S}
    BY <2>2
  <2> QED BY <2>4, <2>5
<1> HIDE DEF f, S
<1>7. Sortable({f[t] : t \in S}) /\ ItemsOf({f[t] : t \in S}) = {f[t].item : t \in S}
  <2>1. 1 \in 1..3
    OBVIOUS
  <2> QED BY <1>1, <1>4, <1>5, <2>1, SortableImage
<1> QED BY <1>3, <1>6, <1>7 DEF Told

LEMMA ColumnsAreTold ==
    ASSUME Asking
    PROVE  Told(DescribeTable(request, cfg, asked), WholeColumns)
<1> DEFINE S == {x \in AllTabColumns(asked) :
                   x.owner = Folded(request.owner) /\ x.table = Folded(request.table)}
           item(c) == [column_name |-> c.name, nullable |-> c.nullable = "Y",
                       data_default |-> c.data_default]
           f == [c \in S |-> Row(<<c.column_id>>, item(c))]
<1>1. IsFiniteSet(S)
  <2>1. S \in SUBSET AllTabColumns(asked)
    OBVIOUS
  <2> QED BY <2>1, DictionaryIsFinite, FS_Subset DEF Asking
<1>2. \A c \in S : /\ c \in asked.columns /\ c.column_id \in Int
                   /\ c.owner = Folded(request.owner) /\ c.table = Folded(request.table)
                   /\ f[c].order = <<c.column_id>> /\ f[c].item = item(c)
  <2>1. \A c \in S : /\ c \in asked.columns /\ c.column_id \in Int
                     /\ c.owner = Folded(request.owner) /\ c.table = Folded(request.table)
    BY DEF AllTabColumns, Asking, WellFormed
  <2>2. \A c \in S : f[c].order = <<c.column_id>> /\ f[c].item = item(c)
    BY RowIs
  <2> QED BY <2>1, <2>2
<1>3. {f[c] : c \in S} = DescribeTable(request, cfg, asked)
  BY DEF DescribeTable
<1>4. \A c \in S : f[c].order \in Orders(1)
  BY <1>2, OrdersOf
<1>5. ASSUME NEW c \in S, NEW e \in S, f[c].order = f[e].order \/ f[c].item = f[e].item
      PROVE  f[c] = f[e]
  <2>1. c.column_id = e.column_id \/ c.name = e.name
    BY <1>2, <1>5
  <2>2. /\ c \in asked.columns /\ e \in asked.columns /\ c.owner = e.owner /\ c.table = e.table
        /\ WellFormed(asked)
    BY <1>2 DEF Asking
  <2> HIDE DEF f, S
  <2>3. c = e
    BY <2>1, <2>2 DEF WellFormed
  <2> QED BY <2>3
<1>6. {f[c].item : c \in S} = WholeColumns
  <2>1. S = {x \in asked.columns : Spelt(x.owner, x.table) /\ Visible(x)}
    BY DEF AllTabColumns, Spelt, Visible
  <2>2. WholeColumns = {item(c) : c \in S}
    BY <2>1 DEF WholeColumns
  <2>3. \A c \in S : f[c].item = item(c)
    BY <1>2
  <2> HIDE DEF f, S, item
  <2>4. {f[c].item : c \in S} = {item(c) : c \in S}
    BY <2>3
  <2> QED BY <2>2, <2>4
<1> HIDE DEF f, S
<1>7. Sortable({f[c] : c \in S}) /\ ItemsOf({f[c] : c \in S}) = {f[c].item : c \in S}
  <2>1. 1 \in 1..3
    OBVIOUS
  <2> QED BY <1>1, <1>4, <1>5, <2>1, SortableImage
<1> QED BY <1>3, <1>6, <1>7 DEF Told

LEMMA MatchesAreTold ==
    ASSUME Asking
    PROVE  Told(FindColumns(request, cfg, asked), WholeMatches)
<1> DEFINE S == {x \in AllTabColumns(asked) :
                   x.name \in request.pattern /\ OwnerPredicate(request.owner, cfg, x.owner)}
           item(c) == [owner |-> c.owner, table_name |-> c.table, column_name |-> c.name]
           f == [c \in S |-> Row(<<Rank(c.owner), Rank(c.table), Rank(c.name)>>, item(c))]
<1>1. IsFiniteSet(S)
  <2>1. S \in SUBSET AllTabColumns(asked)
    OBVIOUS
  <2> QED BY <2>1, DictionaryIsFinite, FS_Subset DEF Asking
<1>2. \A c \in S : /\ c \in asked.columns
                   /\ c.owner \in Identifiers /\ c.table \in Identifiers /\ c.name \in Identifiers
                   /\ f[c].order = <<Rank(c.owner), Rank(c.table), Rank(c.name)>>
                   /\ f[c].item = item(c)
  <2>1. \A c \in S : c \in asked.columns /\ c.owner \in Identifiers
                     /\ c.table \in Identifiers /\ c.name \in Identifiers
    BY DEF AllTabColumns, Asking, WellFormed
  <2>2. \A c \in S : /\ f[c].order = <<Rank(c.owner), Rank(c.table), Rank(c.name)>>
                     /\ f[c].item = item(c)
    BY RowIs
  <2> QED BY <2>1, <2>2
<1>3. {f[c] : c \in S} = FindColumns(request, cfg, asked)
  BY DEF FindColumns
<1>4. \A c \in S : f[c].order \in Orders(3)
  BY <1>2, NamesOrder
<1>5. ASSUME NEW c \in S, NEW e \in S, f[c].order = f[e].order \/ f[c].item = f[e].item
      PROVE  f[c] = f[e]
  <2>1. \/ Rank(c.owner) = Rank(e.owner) /\ Rank(c.table) = Rank(e.table)
           /\ Rank(c.name) = Rank(e.name)
        \/ c.owner = e.owner /\ c.table = e.table /\ c.name = e.name
    <3>1. CASE f[c].order = f[e].order
      <4>1. <<Rank(c.owner), Rank(c.table), Rank(c.name)>> = <<Rank(e.owner), Rank(e.table), Rank(e.name)>>
        BY <1>2, <3>1
      <4> QED BY <4>1
    <3>2. CASE f[c].item = f[e].item
      <4>1. item(c) = item(e)
        BY <1>2, <3>2
      <4> QED BY <4>1
    <3> QED BY <1>5, <3>1, <3>2
  <2>2. c.owner = e.owner /\ c.table = e.table /\ c.name = e.name
    BY <1>2, <2>1, RankIs
  <2>3. c = e
    BY <1>2, <2>2 DEF Asking, WellFormed
  <2> QED BY <2>3
<1>6. {f[c].item : c \in S} = WholeMatches
  <2>1. S = {x \in asked.columns :
               x.name \in request.pattern /\ Permitted(x.owner) /\ Visible(x)}
    BY PredicateIs DEF AllTabColumns, Visible
  <2>2. WholeMatches = {item(c) : c \in S}
    BY <2>1 DEF WholeMatches
  <2>3. \A c \in S : f[c].item = item(c)
    BY <1>2
  <2> HIDE DEF f, S, item
  <2>4. {f[c].item : c \in S} = {item(c) : c \in S}
    BY <2>3
  <2> QED BY <2>2, <2>4
<1> HIDE DEF f, S
<1>7. Sortable({f[c] : c \in S}) /\ ItemsOf({f[c] : c \in S}) = {f[c].item : c \in S}
  <2>1. 3 \in 1..3
    OBVIOUS
  <2> QED BY <1>1, <1>4, <1>5, <2>1, SortableImage
<1> QED BY <1>3, <1>6, <1>7 DEF Told

(* The joined rows of a foreign key are its pairs of columns, if the key   *)
(* that it refers to is visible.                                           *)
LEMMA JoinedIs ==
    ASSUME Asking, NEW c \in AllConstraints(asked), c.type = "R", NEW r
    PROVE  (\E cc \in ColumnsOf(c, asked) : \E rc \in ReferredTo(c, asked) :
               \E rcc \in Opposite(cc, rc, asked) : r = Relationship(c, cc, rc, rcc))
           <=> (/\ Visible(KeyOf(c))
                /\ \E i \in DOMAIN c.columns : r = Row(<<Rank(c.name), i>>, Paired(c, i)))
<1> DEFINE k == KeyOf(c)
<1>1. WellFormed(asked) /\ k = Parent(c, asked)
  BY DEF Asking, KeyOf, Parent
<1> HIDE DEF k
<1>2. /\ k \in asked.constraints /\ Len(k.columns) = Len(c.columns)
      /\ ReferredTo(c, asked) = {m \in {k} : Sees(asked, m.owner, m.table)}
  BY <1>1, ReferredToIs
<1>3. ColumnsOf(c, asked) = {ConsColumn(c, i) : i \in DOMAIN c.columns}
  BY <1>1, ColumnsOfIs
<1>4. CASE ~Visible(k)
  <2>1. ReferredTo(c, asked) = {}
    BY <1>2, <1>4 DEF Visible
  <2> QED BY <2>1, <1>4 DEF k
<1>5. CASE Visible(k)
  <2>1. ReferredTo(c, asked) = {k} /\ k \in AllConstraints(asked)
    BY <1>2, <1>5 DEF Visible, AllConstraints
  <2>2. \A i \in DOMAIN c.columns : Opposite(ConsColumn(c, i), k, asked) = {ConsColumn(k, i)}
    BY <1>1, <1>2, <2>1, OppositeIs
  <2>3. \A i \in DOMAIN c.columns :
           Relationship(c, ConsColumn(c, i), k, ConsColumn(k, i))
              = Row(<<Rank(c.name), i>>, Paired(c, i))
    BY DEF Relationship, Paired, ConsColumn, k
  <2>4. (\E cc \in ColumnsOf(c, asked) : \E rc \in ReferredTo(c, asked) :
            \E rcc \in Opposite(cc, rc, asked) : r = Relationship(c, cc, rc, rcc))
        <=> \E i \in DOMAIN c.columns : r = Relationship(c, ConsColumn(c, i), k, ConsColumn(k, i))
    BY <1>3, <2>1, <2>2
  <2> QED BY <1>5, <2>3, <2>4 DEF k
<1> QED BY <1>4, <1>5

LEMMA RelationshipsAreTold ==
    ASSUME Asking
    PROVE  Told(ListRelationships(request, cfg, asked), WholeRelationships)
<1> DEFINE keys == {c \in AllConstraints(asked) :
                      /\ c.type = "R" /\ c.owner = Folded(request.owner)
                      /\ request.table # NoArg => c.table = Folded(request.table)}
           S == UNION {{c} \X DOMAIN c.columns : c \in WholeKeys}
           f == [x \in S |-> Row(<<Rank(x[1].name), x[2]>>, Paired(x[1], x[2]))]
<1>1. WholeKeys = {c \in keys : Visible(KeyOf(c))} /\ WholeKeys \subseteq AllConstraints(asked)
  BY DEF WholeKeys, AllConstraints, Visible
<1>2. IsFiniteSet(S)
  <2> DEFINE places == [c \in WholeKeys |-> DOMAIN c.columns]
  <2>1. IsFiniteSet(WholeKeys)
    <3>1. IsFiniteSet(AllConstraints(asked)) /\ WholeKeys \in SUBSET AllConstraints(asked)
      BY <1>1, DictionaryIsFinite DEF Asking
    <3> QED BY <3>1, FS_Subset
  <2>2. \A c \in WholeKeys : IsFiniteSet(DOMAIN c.columns)
    <3>1. \A c \in WholeKeys : DOMAIN c.columns = 1..Len(c.columns) /\ Len(c.columns) \in Int
      BY <1>1, ConstraintIs DEF Asking
    <3>2. \A m \in Int : IsFiniteSet(1..m)
      BY FS_Interval
    <3> QED BY <3>1, <3>2
  <2>3. \A c \in WholeKeys : IsFiniteSet(places[c])
    BY <2>2
  <2>4. S = UNION {{c} \X places[c] : c \in WholeKeys}
    OBVIOUS
  <2> HIDE DEF places, S
  <2> QED BY <2>1, <2>3, <2>4, PairsAreFinite
<1>3. \A x : x \in S <=> \E c \in WholeKeys : \E i \in DOMAIN c.columns : x = <<c, i>>
  OBVIOUS
<1>4. \A c \in WholeKeys : \A i \in DOMAIN c.columns :
         /\ <<c, i>> \in S /\ f[<<c, i>>] = Row(<<Rank(c.name), i>>, Paired(c, i))
         /\ f[<<c, i>>].order = <<Rank(c.name), i>> /\ f[<<c, i>>].item = Paired(c, i)
  BY <1>3, RowIs
<1> HIDE DEF f, S
<1>5. \A r : r \in ListRelationships(request, cfg, asked)
             <=> \E c \in keys : \E cc \in ColumnsOf(c, asked) : \E rc \in ReferredTo(c, asked) :
                    \E rcc \in Opposite(cc, rc, asked) : r = Relationship(c, cc, rc, rcc)
  BY DEF ListRelationships
<1>6. \A r : r \in ListRelationships(request, cfg, asked)
             <=> \E c \in WholeKeys : \E i \in DOMAIN c.columns :
                    r = Row(<<Rank(c.name), i>>, Paired(c, i))
  <2> SUFFICES ASSUME NEW r
               PROVE  r \in ListRelationships(request, cfg, asked)
                      <=> \E c \in WholeKeys : \E i \in DOMAIN c.columns :
                             r = Row(<<Rank(c.name), i>>, Paired(c, i))
    OBVIOUS
  <2>1. \A c \in keys :
          (\E cc \in ColumnsOf(c, asked) : \E rc \in ReferredTo(c, asked) :
               \E rcc \in Opposite(cc, rc, asked) : r = Relationship(c, cc, rc, rcc))
          <=> (/\ Visible(KeyOf(c))
               /\ \E i \in DOMAIN c.columns : r = Row(<<Rank(c.name), i>>, Paired(c, i)))
    BY JoinedIs
  <2> HIDE DEF keys
  <2> QED BY <1>1, <1>5, <2>1
<1>7. {f[x] : x \in S} = ListRelationships(request, cfg, asked)
  <2>1. ASSUME NEW x \in S PROVE f[x] \in ListRelationships(request, cfg, asked)
    <3>1. PICK c \in WholeKeys : \E i \in DOMAIN c.columns : x = <<c, i>>
      BY <1>3
    <3> QED BY <1>4, <1>6, <3>1
  <2>2. ASSUME NEW r \in ListRelationships(request, cfg, asked) PROVE \E x \in S : r = f[x]
    <3>1. PICK c \in WholeKeys :
             \E i \in DOMAIN c.columns : r = Row(<<Rank(c.name), i>>, Paired(c, i))
      BY <1>6
    <3>2. PICK i \in DOMAIN c.columns : r = Row(<<Rank(c.name), i>>, Paired(c, i))
      BY <3>1
    <3>3. <<c, i>> \in S /\ r = f[<<c, i>>]
      BY <1>4, <3>2
    <3> QED BY <3>3
  <2> QED BY <2>1, <2>2
<1>8. {f[x].item : x \in S} = WholeRelationships
  <2>1. \A p : p \in WholeRelationships
               <=> \E c \in WholeKeys : \E i \in DOMAIN c.columns : p = Paired(c, i)
    BY DEF WholeRelationships
  <2>2. ASSUME NEW x \in S PROVE f[x].item \in WholeRelationships
    <3>1. PICK c \in WholeKeys : \E i \in DOMAIN c.columns : x = <<c, i>>
      BY <1>3
    <3>2. PICK i \in DOMAIN c.columns : x = <<c, i>>
      BY <3>1
    <3>3. f[x].item = Paired(c, i)
      BY <1>4, <3>2
    <3> QED BY <2>1, <3>3
  <2>3. ASSUME NEW p \in WholeRelationships PROVE \E x \in S : p = f[x].item
    <3>1. PICK c \in WholeKeys : \E i \in DOMAIN c.columns : p = Paired(c, i)
      BY <2>1
    <3>2. PICK i \in DOMAIN c.columns : p = Paired(c, i)
      BY <3>1
    <3>3. <<c, i>> \in S /\ p = f[<<c, i>>].item
      BY <1>4, <3>2
    <3> QED BY <3>3
  <2> QED BY <2>2, <2>3
<1>9. ASSUME NEW x \in S PROVE f[x].order \in Orders(2)
  <2>1. PICK c \in WholeKeys : \E i \in DOMAIN c.columns : x = <<c, i>>
    BY <1>3
  <2>2. PICK i \in DOMAIN c.columns : x = <<c, i>>
    BY <2>1
  <2>3. c.name \in Identifiers /\ i \in Int
    BY <1>1, ConstraintIs DEF Asking
  <2>4. f[x].order = <<Rank(c.name), i>>
    BY <1>4, <2>2
  <2> QED BY <2>3, <2>4, NamesOrder
<1>10. ASSUME NEW x \in S, NEW y \in S, f[x].order = f[y].order \/ f[x].item = f[y].item
       PROVE  f[x] = f[y]
  <2>1. PICK c \in WholeKeys : \E i \in DOMAIN c.columns : x = <<c, i>>
    BY <1>3
  <2>2. PICK e \in WholeKeys : \E j \in DOMAIN e.columns : y = <<e, j>>
    BY <1>3
  <2>8. PICK i \in DOMAIN c.columns : x = <<c, i>>
    BY <2>1
  <2>9. PICK j \in DOMAIN e.columns : y = <<e, j>>
    BY <2>2
  <2>3. \/ Rank(c.name) = Rank(e.name) /\ i = j
        \/ c.name = e.name /\ c.columns[i] = e.columns[j]
    <3>1. f[x].order = <<Rank(c.name), i>> /\ f[x].item = Paired(c, i)
      BY <1>4, <2>8
    <3>2. f[y].order = <<Rank(e.name), j>> /\ f[y].item = Paired(e, j)
      BY <1>4, <2>9
    <3>3. /\ Paired(c, i).constraint_name = c.name /\ Paired(c, i).child_column = c.columns[i]
          /\ Paired(e, j).constraint_name = e.name /\ Paired(e, j).child_column = e.columns[j]
      BY DEF Paired
    <3>4. CASE f[x].order = f[y].order
      BY <3>1, <3>2, <3>4
    <3>5. CASE f[x].item = f[y].item
      BY <3>1, <3>2, <3>3, <3>5
    <3> QED BY <1>10, <3>4, <3>5
  <2>4. /\ c \in AllConstraints(asked) /\ e \in AllConstraints(asked) /\ c.owner = e.owner
        /\ WellFormed(asked)
    BY <1>1 DEF WholeKeys, Asking
  <2>5. c.name = e.name
    BY <2>3, <2>4, ConstraintIs, RankIs
  <2>6. c = e
    BY <2>4, <2>5, ConstraintIs
  <2>7. i = j
    BY <2>3, <2>4, <2>6, ConstraintIs
  <2> QED BY <2>6, <2>7, <2>8, <2>9
<1>11. Sortable({f[x] : x \in S}) /\ ItemsOf({f[x] : x \in S}) = {f[x].item : x \in S}
  <2>1. 2 \in 1..3
    OBVIOUS
  <2> QED BY <1>2, <1>9, <1>10, <2>1, SortableImage
<1> QED BY <1>7, <1>8, <1>11 DEF Told

(* The left join gives a constraint one row for each of its places.        *)
LEMMA ConstraintRowsAre ==
    ASSUME Asking, NEW c \in AllConstraints(asked), NEW r
    PROVE  r \in ConstraintRows(c, asked)
              <=> \E i \in Places(c) : r = Row(<<Rank(c.name), i>>, Constrained(c, i))
<1>1. ColumnsOf(c, asked) = {ConsColumn(c, i) : i \in DOMAIN c.columns}
  BY ColumnsOfIs DEF Asking
<1>2. c.columns \in Seq(Identifiers)
  BY ConstraintIs DEF Asking
<1>3. CASE c.columns = <<>>
  <2>1. ColumnsOf(c, asked) = {}
    BY <1>1, <1>3
  <2>2. Places(c) = {0} /\ Constraint(c, 0, NoArg) = Row(<<Rank(c.name), 0>>, Constrained(c, 0))
    BY <1>3 DEF Places, Constraint, Constrained
  <2> QED BY <2>1, <2>2 DEF ConstraintRows
<1>4. CASE c.columns # <<>>
  <2>1. Places(c) = DOMAIN c.columns /\ 1 \in DOMAIN c.columns
    BY <1>2, <1>4, EmptySeq, LenProperties DEF Places
  <2>2. \A i \in DOMAIN c.columns :
           /\ ConsColumn(c, i).position = i /\ ConsColumn(c, i).column = c.columns[i]
           /\ Constraint(c, i, c.columns[i]) = Row(<<Rank(c.name), i>>, Constrained(c, i))
    BY <1>4 DEF ConsColumn, Constraint, Constrained
  <2>3. ColumnsOf(c, asked) # {}
    BY <1>1, <2>1
  <2>4. ConstraintRows(c, asked)
           = {Constraint(c, cc.position, cc.column) : cc \in ColumnsOf(c, asked)}
    BY <2>3 DEF ConstraintRows
  <2>5. r \in ConstraintRows(c, asked)
           <=> \E i \in DOMAIN c.columns : r = Constraint(c, i, c.columns[i])
    <3>1. r \in ConstraintRows(c, asked)
             <=> \E cc \in ColumnsOf(c, asked) : r = Constraint(c, cc.position, cc.column)
      BY <2>4
    <3>2. \A i \in DOMAIN c.columns :
             Constraint(c, ConsColumn(c, i).position, ConsColumn(c, i).column)
                = Constraint(c, i, c.columns[i])
      BY <2>2
    <3> QED BY <1>1, <3>1, <3>2
  <2> QED BY <2>1, <2>2, <2>5
<1> QED BY <1>3, <1>4

LEMMA ConstraintsAreTold ==
    ASSUME Asking
    PROVE  Told(GetConstraints(request, cfg, asked), WholeConstraints)
<1> DEFINE keys == {x \in AllConstraints(asked) :
                      x.owner = Folded(request.owner) /\ x.table = Folded(request.table)}
           S == UNION {{c} \X Places(c) : c \in keys}
           f == [x \in S |-> Row(<<Rank(x[1].name), x[2]>>, Constrained(x[1], x[2]))]
<1>1. /\ keys = {x \in asked.constraints : Spelt(x.owner, x.table) /\ Visible(x)}
      /\ keys \subseteq AllConstraints(asked)
  BY DEF Spelt, Visible, AllConstraints
<1>2. \A c \in keys : IsFiniteSet(Places(c)) /\ Places(c) \subseteq Int
  <2>1. \A c \in keys : DOMAIN c.columns = 1..Len(c.columns) /\ Len(c.columns) \in Int
    BY <1>1, ConstraintIs DEF Asking
  <2>2. \A m \in Int : IsFiniteSet(1..m)
    BY FS_Interval
  <2>3. IsFiniteSet({0})
    BY FS_Singleton
  <2> QED BY <2>1, <2>2, <2>3 DEF Places
<1>3. IsFiniteSet(S)
  <2> DEFINE places == [c \in keys |-> Places(c)]
  <2>1. IsFiniteSet(keys)
    <3>1. IsFiniteSet(AllConstraints(asked)) /\ keys \in SUBSET AllConstraints(asked)
      BY <1>1, DictionaryIsFinite DEF Asking
    <3> QED BY <3>1, FS_Subset
  <2>2. \A c \in keys : IsFiniteSet(places[c])
    BY <1>2
  <2>3. S = UNION {{c} \X places[c] : c \in keys}
    OBVIOUS
  <2> HIDE DEF places, S, keys
  <2> QED BY <2>1, <2>2, <2>3, PairsAreFinite
<1>4. \A x : x \in S <=> \E c \in keys : \E i \in Places(c) : x = <<c, i>>
  OBVIOUS
<1>5. \A c \in keys : \A i \in Places(c) :
         /\ <<c, i>> \in S /\ f[<<c, i>>] = Row(<<Rank(c.name), i>>, Constrained(c, i))
         /\ f[<<c, i>>].order = <<Rank(c.name), i>> /\ f[<<c, i>>].item = Constrained(c, i)
  BY <1>4, RowIs
<1>6. \A r : r \in GetConstraints(request, cfg, asked)
             <=> \E c \in keys : r \in ConstraintRows(c, asked)
  BY DEF GetConstraints
<1>7. \A p : p \in WholeConstraints <=> \E c \in keys : \E i \in Places(c) : p = Constrained(c, i)
  BY <1>1 DEF WholeConstraints
<1>8. \A c \in keys : c.owner = Folded(request.owner)
  OBVIOUS
<1> HIDE DEF f, S, keys
<1>9. \A r : r \in GetConstraints(request, cfg, asked)
             <=> \E c \in keys : \E i \in Places(c) :
                    r = Row(<<Rank(c.name), i>>, Constrained(c, i))
  <2> SUFFICES ASSUME NEW r
               PROVE  r \in GetConstraints(request, cfg, asked)
                      <=> \E c \in keys : \E i \in Places(c) :
                             r = Row(<<Rank(c.name), i>>, Constrained(c, i))
    OBVIOUS
  <2>1. \A c \in keys : r \in ConstraintRows(c, asked)
           <=> \E i \in Places(c) : r = Row(<<Rank(c.name), i>>, Constrained(c, i))
    BY <1>1, ConstraintRowsAre
  <2>2. r \in GetConstraints(request, cfg, asked) <=> \E c \in keys : r \in ConstraintRows(c, asked)
    BY <1>6
  <2> QED BY <2>1, <2>2, Zenon
<1>10. {f[x] : x \in S} = GetConstraints(request, cfg, asked)
  <2>1. ASSUME NEW x \in S PROVE f[x] \in GetConstraints(request, cfg, asked)
    <3>1. PICK c \in keys : \E i \in Places(c) : x = <<c, i>>
      BY <1>4
    <3>2. PICK i \in Places(c) : x = <<c, i>>
      BY <3>1
    <3>3. f[x] = Row(<<Rank(c.name), i>>, Constrained(c, i))
      BY <1>5, <3>2
    <3> QED BY <1>9, <3>3
  <2>2. ASSUME NEW r \in GetConstraints(request, cfg, asked) PROVE \E x \in S : r = f[x]
    <3>1. PICK c \in keys : \E i \in Places(c) : r = Row(<<Rank(c.name), i>>, Constrained(c, i))
      BY <1>9
    <3>2. PICK i \in Places(c) : r = Row(<<Rank(c.name), i>>, Constrained(c, i))
      BY <3>1
    <3>3. <<c, i>> \in S /\ r = f[<<c, i>>]
      BY <1>5, <3>2
    <3> QED BY <3>3
  <2> QED BY <2>1, <2>2
<1>11. {f[x].item : x \in S} = WholeConstraints
  <2>1. ASSUME NEW x \in S PROVE f[x].item \in WholeConstraints
    <3>1. PICK c \in keys : \E i \in Places(c) : x = <<c, i>>
      BY <1>4
    <3>2. PICK i \in Places(c) : x = <<c, i>>
      BY <3>1
    <3>3. f[x].item = Constrained(c, i)
      BY <1>5, <3>2
    <3> QED BY <1>7, <3>3
  <2>2. ASSUME NEW p \in WholeConstraints PROVE \E x \in S : p = f[x].item
    <3>1. PICK c \in keys : \E i \in Places(c) : p = Constrained(c, i)
      BY <1>7
    <3>2. PICK i \in Places(c) : p = Constrained(c, i)
      BY <3>1
    <3>3. <<c, i>> \in S /\ p = f[<<c, i>>].item
      BY <1>5, <3>2
    <3> QED BY <3>3
  <2> QED BY <2>1, <2>2
<1>12. ASSUME NEW x \in S PROVE f[x].order \in Orders(2)
  <2>1. PICK c \in keys : \E i \in Places(c) : x = <<c, i>>
    BY <1>4
  <2>2. PICK i \in Places(c) : x = <<c, i>>
    BY <2>1
  <2>3. c.name \in Identifiers /\ i \in Int
    BY <1>1, <1>2, ConstraintIs DEF Asking
  <2>4. f[x].order = <<Rank(c.name), i>>
    BY <1>5, <2>2
  <2> QED BY <2>3, <2>4, NamesOrder
<1>13. ASSUME NEW x \in S, NEW y \in S, f[x].order = f[y].order \/ f[x].item = f[y].item
       PROVE  f[x] = f[y]
  <2>1. PICK c \in keys : \E i \in Places(c) : x = <<c, i>>
    BY <1>4
  <2>2. PICK e \in keys : \E j \in Places(e) : y = <<e, j>>
    BY <1>4
  <2>3. PICK i \in Places(c) : x = <<c, i>>
    BY <2>1
  <2>4. PICK j \in Places(e) : y = <<e, j>>
    BY <2>2
  <2>5. /\ f[x].order = <<Rank(c.name), i>> /\ f[x].item = Constrained(c, i)
        /\ f[y].order = <<Rank(e.name), j>> /\ f[y].item = Constrained(e, j)
    BY <1>5, <2>3, <2>4
  <2>6. /\ Constrained(c, i).constraint_name = c.name
        /\ Constrained(c, i).column_name = IF c.columns = <<>> THEN NoArg ELSE c.columns[i]
        /\ Constrained(e, j).constraint_name = e.name
        /\ Constrained(e, j).column_name = IF e.columns = <<>> THEN NoArg ELSE e.columns[j]
    BY DEF Constrained
  <2>7. /\ c \in AllConstraints(asked) /\ e \in AllConstraints(asked) /\ c.owner = e.owner
        /\ WellFormed(asked)
    BY <1>1, <1>8 DEF Asking
  <2>8. c.name = e.name
    <3>1. Rank(c.name) = Rank(e.name) \/ c.name = e.name
      BY <1>13, <2>5, <2>6
    <3> QED BY <2>7, <3>1, ConstraintIs, RankIs
  <2>9. c = e
    BY <2>7, <2>8, ConstraintIs
  <2>10. i = j
    <3>1. CASE f[x].order = f[y].order
      BY <2>5, <3>1
    <3>2. CASE f[x].item = f[y].item /\ c.columns = <<>>
      BY <2>9, <3>2 DEF Places
    <3>3. CASE f[x].item = f[y].item /\ c.columns # <<>>
      <4>1. c.columns[i] = c.columns[j] /\ i \in DOMAIN c.columns /\ j \in DOMAIN c.columns
        BY <2>5, <2>6, <2>9, <3>3 DEF Places
      <4> QED BY <2>7, <4>1, ConstraintIs
    <3> QED BY <1>13, <3>1, <3>2, <3>3
  <2> QED BY <2>3, <2>4, <2>9, <2>10
<1>14. Sortable({f[x] : x \in S}) /\ ItemsOf({f[x] : x \in S}) = {f[x].item : x \in S}
  <2>1. 2 \in 1..3
    OBVIOUS
  <2> QED BY <1>3, <1>12, <1>13, <2>1, SortableImage
<1> QED BY <1>10, <1>11, <1>14 DEF Told

LEMMA SelectIsTold ==
    ASSUME Asking
    PROVE  Told(Select(request, cfg, asked), Whole)
<1>1. request \in Requests /\ request.tool \in Tools
  BY RequestsAssumption DEF Asking
<1>2. CASE request.tool = "list_schemas"
  <2>1. request.owner = NoArg
    BY <1>1, <1>2, RequestsAssumption
  <2> QED BY <1>2, <2>1, SchemasAreTold DEF Select, Whole
<1>3. CASE request.tool = "list_tables"
  <2>1. request.owner # NoArg
    BY <1>1, <1>3, RequestsAssumption DEF TakesOwner
  <2> QED BY <1>3, <2>1, TablesAreTold DEF Select, Whole
<1>4. CASE request.tool = "describe_table"
  BY <1>4, ColumnsAreTold DEF Select, Whole
<1>5. CASE request.tool = "find_columns"
  BY <1>5, MatchesAreTold DEF Select, Whole
<1>6. CASE request.tool = "list_relationships"
  BY <1>6, RelationshipsAreTold DEF Select, Whole
<1>7. CASE request.tool = "get_constraints"
  BY <1>7, ConstraintsAreTold DEF Select, Whole
<1> QED BY <1>1, <1>2, <1>3, <1>4, <1>5, <1>6, <1>7 DEF Tools, TakesOwner

---------------------------------------------------------------------------
(* What a reply holds                                                      *)

LEMMA CapIs ==
    ASSUME IInv, server = "up"
    PROVE  cfg.max_rows \in 1..HardMaxRows /\ cfg.max_rows \in Nat
<1>1. cfg.max_rows = Clamp(Given(env.max_rows, DefaultMaxRows)) /\ env \in Environments
  BY ConfiguredIs DEF IInv
<1>2. ~ConfigError(env)
  BY ConfiguredIs DEF Starts
<1>3. Given(env.max_rows, DefaultMaxRows) \in Int
  BY <1>1, <1>2, EnvironmentsAssumption DEF ConfigError, Given, DefaultMaxRows
<1>4. ASSUME NEW n \in Int, NEW m, m = Clamp(n) PROVE m \in 1..HardMaxRows /\ m \in Nat
  BY <1>4 DEF Clamp, HardMaxRows
<1> QED BY <1>1, <1>3, <1>4

LEMMA ReplyIsPage ==
    ASSUME IInv, reply.status = "ok"
    PROVE  /\ server = "up" /\ Asking
           /\ Len(reply.items) \in Nat /\ Len(reply.items) <= cfg.max_rows
           /\ Items \subseteq Whole /\ Cardinality(Items) = Len(reply.items)
           /\ reply.truncated <=> Items # Whole
           /\ reply.truncated => Len(reply.items) = cfg.max_rows
<1>1. Guarded(request, cfg) /\ reply = Answer(request, cfg, asked) /\ pc # "idle"
  BY DEF IInv, Met, ReachedATool
<1>2. server = "up"
  BY <1>1 DEF IInv, Met
<1>3. Asking
  BY <1>1, DictionariesAssumption DEF IInv, Asking
<1>4. Sortable(Select(request, cfg, asked)) /\ ItemsOf(Select(request, cfg, asked)) = Whole
  BY <1>3, SelectIsTold DEF Told
<1>5. reply = Page(Select(request, cfg, asked), cfg.max_rows)
  BY <1>1 DEF Answer
<1>6. Items = Members(reply.items)
  BY DEF Items, Members
<1>7. cfg.max_rows \in Nat
  BY <1>2, CapIs
<1>8. /\ Len(reply.items) \in Nat /\ Len(reply.items) <= cfg.max_rows
      /\ Members(reply.items) \subseteq Whole
      /\ Cardinality(Members(reply.items)) = Len(reply.items)
      /\ reply.truncated <=> Members(reply.items) # Whole
      /\ reply.truncated => Len(reply.items) = cfg.max_rows
  BY <1>4, <1>5, <1>7, PageIs
<1> QED BY <1>2, <1>3, <1>6, <1>8

LEMMA TypesHold == IInv => TypeOK
<1> SUFFICES ASSUME IInv PROVE TypeOK
  OBVIOUS
<1>1. ASSUME server = "up"
      PROVE  cfg.max_rows \in 1..HardMaxRows /\ Len(reply.items) <= cfg.max_rows
  <2>1. cfg.max_rows \in 1..HardMaxRows /\ cfg.max_rows \in Nat
    BY <1>1, CapIs
  <2>2. CASE reply.status = "ok"
    BY <2>1, <2>2, ReplyIsPage
  <2>3. CASE reply.status # "ok"
    <3>1. reply.items = <<>>
      BY <2>3 DEF IInv, Met
    <3>2. Len(reply.items) = 0
      BY <3>1
    <3> QED BY <2>1, <3>2
  <2> QED BY <2>1, <2>2, <2>3
<1>2. {now, arrivedAt, admittedAt} \subseteq 0..MaxTime
  <2>1. arrivedAt \in 0..MaxTime
    BY TimesAreNumbers, MaxTimeAssumption
  <2> QED BY <2>1 DEF IInv
<1> QED BY <1>1, <1>2 DEF IInv, TypeOK

(* TypeOK: the row cap of a process that starts is between one and the     *)
(* hard maximum whatever its environment says, and no answer exceeds it.   *)
THEOREM ServerTypes == Spec => []TypeOK
  BY TypesHold, IInvAlways, PTL

(* AnswersAreWhole: the joins, the order and the cut give every caller the *)
(* rows of the dictionary that was asked, each once, and all of them when  *)
(* the answer is not marked as truncated.                                  *)
THEOREM AnswersHoldWhatTheDictionaryHolds == Spec => []AnswersAreWhole
<1>1. IInv => AnswersAreWhole
  BY ReplyIsPage DEF AnswersAreWhole
<1> QED BY <1>1, IInvAlways, PTL

(* TruncationIsTold: the row that is asked for beyond the limit tells a    *)
(* full page from a cut one.                                               *)
THEOREM CutsAreTold == Spec => []TruncationIsTold
<1>1. IInv => TruncationIsTold
  BY ReplyIsPage DEF TruncationIsTold
<1> QED BY <1>1, IInvAlways, PTL

---------------------------------------------------------------------------
(* No owner but the listed ones                                            *)

LEMMA AllowedIsListed ==
    ASSUME IInv, server = "up"
    PROVE  /\ Narrowed => cfg.allowed_owners # {}
           /\ \A o \in cfg.allowed_owners : Listed(o)
<1>1. /\ cfg.allowed_owners = {Folded(o) : o \in {x \in env.allowed_owners : x.word # 0}}
      /\ env.allowed_owners \subseteq Strings
  BY ConfiguredIs, EnvironmentsAssumption DEF IInv, AllowedOwners, NonBlank
<1>2. \A o \in env.allowed_owners : Folded(o).word = o.word
  BY <1>1, FoldedFields
<1> QED BY <1>1, <1>2 DEF Narrowed, Listed

(* The owners that an item names and that its query was narrowed by.       *)
LEMMA OwnersOfItems ==
    ASSUME Asking, cfg.allowed_owners # {}, NEW i \in Whole, NEW x \in {"owner", "child_owner"},
           x \in DOMAIN i
    PROVE  i[x] \in cfg.allowed_owners
<1>1. request \in Requests /\ request.tool \in Tools
  BY RequestsAssumption DEF Asking
<1>2. \A o : Permitted(o) => o \in cfg.allowed_owners
  BY DEF Permitted
<1>3. CASE request.tool = "list_schemas"
  <2>1. PICK o : i = [owner |-> o] /\ Permitted(o)
    BY <1>3 DEF Whole, WholeSchemas
  <2>2. i.owner = o /\ DOMAIN i = {"owner"}
    BY <2>1
  <2> QED BY <1>2, <2>1, <2>2
<1>4. CASE request.tool = "list_tables"
  <2>1. PICK t : i = [table_name |-> t.name, comments |-> t.comments]
    BY <1>4 DEF Whole, WholeTables
  <2> QED BY <2>1
<1>5. CASE request.tool = "describe_table"
  <2>1. PICK c : i = [column_name |-> c.name, nullable |-> c.nullable = "Y",
                      data_default |-> c.data_default]
    BY <1>5 DEF Whole, WholeColumns
  <2>2. DOMAIN i = {"column_name", "nullable", "data_default"}
    BY <2>1
  <2> QED BY <2>2
<1>6. CASE request.tool = "find_columns"
  <2>1. PICK c : /\ i = [owner |-> c.owner, table_name |-> c.table, column_name |-> c.name]
                 /\ Permitted(c.owner)
    BY <1>6 DEF Whole, WholeMatches
  <2>2. i.owner = c.owner /\ DOMAIN i = {"owner", "table_name", "column_name"}
    BY <2>1
  <2> QED BY <1>2, <2>1, <2>2
<1>7. CASE request.tool = "list_relationships"
  <2>1. PICK fk \in WholeKeys : \E j \in DOMAIN fk.columns : i = Paired(fk, j)
    BY <1>7 DEF Whole, WholeRelationships
  <2>2. i.child_owner = fk.owner /\ x = "child_owner"
    BY <2>1 DEF Paired
  <2>3. fk.owner = Folded(request.owner) /\ request.owner # NoArg
    BY <1>1, <1>7, RequestsAssumption DEF WholeKeys, TakesOwner
  <2> QED BY <1>2, <2>2, <2>3, PredicateIs
<1>8. CASE request.tool = "get_constraints"
  <2>1. PICK c : \E j : i = Constrained(c, j)
    BY <1>8 DEF Whole, WholeConstraints
  <2>2. DOMAIN i = {"constraint_name", "constraint_type", "column_name", "r_owner",
                    "r_constraint_name"}
    BY <2>1 DEF Constrained
  <2> QED BY <2>2
<1> QED BY <1>1, <1>3, <1>4, <1>5, <1>6, <1>7, <1>8 DEF Tools, TakesOwner

(* NarrowedToListed: on a narrowed server no answer is about an owner that *)
(* the operator did not list, whether or not the caller named one.         *)
THEOREM OnlyListedAreAskedAbout == Spec => []NarrowedToListed
<1>1. IInv => NarrowedToListed
  <2> SUFFICES ASSUME IInv, reply.status = "ok", Narrowed
               PROVE  /\ request.owner # NoArg => Listed(request.owner)
                      /\ \A i \in Items, x \in OwnersAskedAbout : x \in DOMAIN i => Listed(i[x])
    BY DEF NarrowedToListed
  <2>1. server = "up" /\ Asking /\ Items \subseteq Whole
    BY ReplyIsPage
  <2>2. cfg.allowed_owners # {} /\ \A o \in cfg.allowed_owners : Listed(o)
    BY <2>1, AllowedIsListed
  <2>3. ASSUME request.owner # NoArg PROVE Listed(request.owner)
    <3>1. request.owner \in Strings
      BY <2>3, RequestsAssumption DEF IInv
    <3>2. Listed(Folded(request.owner))
      BY <2>1, <2>2, <2>3 DEF Asking, Guarded, OwnerRefused
    <3> QED BY <3>1, <3>2, FoldedFields DEF Listed
  <2>4. OwnersAskedAbout \subseteq {"owner", "child_owner"}
    BY DEF OwnersAskedAbout
  <2> QED BY <2>1, <2>2, <2>3, <2>4, OwnersOfItems
<1> QED BY <1>1, IInvAlways, PTL
=============================================================================
