------------------------------ MODULE BearerAuth ------------------------------
(***************************************************************************)
(* The token verifiers (auth.py), and what PyJWT and FastMCP do around     *)
(* them.  A bearer token is its signer, the claims it carries and their    *)
(* values; a scope claim is falsy, a string of words, a list (of strings   *)
(* only, or not), or something else.                                       *)
(***************************************************************************)
EXTENDS ServerConfig

NoBearer == [signer |-> "nobody", empty |-> TRUE]

(* jwt.decode as _verify_sync asks for it, by keys the issuer publishes.   *)
Decodes(t, now) ==
    /\ t.signer = "issuer"
    /\ {"exp", "iat", "nbf", "aud", "iss"} \subseteq t.claims
    /\ "this server" \in t.aud /\ t.iss = "issuer"
    /\ t.iat <= now /\ t.nbf <= now /\ now < t.exp.seconds

(* Fault: scopes are looked for in scope only.                             *)
RawWithoutScp(t) == t.scope
Raw(t) == IF t.scope.kind # "falsy" THEN t.scope ELSE t.scp
Malformed(claim) == claim.kind = "other" \/ (claim.kind = "list" /\ ~claim.pure)
Granted(t) == IF Raw(t).kind = "falsy" THEN {} ELSE Raw(t).items

NoExpiry == 0
Access(verdict, scopes, expires) ==
    [verdict |-> verdict, scopes |-> scopes, expires_at |-> expires]
None == Access("none", {}, NoExpiry)

DevVerify(cfg, t) ==
    IF t.empty THEN None ELSE Access("token", cfg.required_scopes, NoExpiry)

(* Fault: the expiry is not handed on.                                     *)
JwtVerifyForgetsExpiry(cfg, t, now) ==
    IF \/ t.empty \/ ~Decodes(t, now) \/ Malformed(Raw(t))
       \/ ~(cfg.required_scopes \subseteq Granted(t))
    THEN None
    ELSE Access("token", Granted(t), NoExpiry)

(* AccessToken takes whole seconds only: a fraction in exp passes the      *)
(* decoding and raises where verify_token builds its answer.               *)
JwtVerify(cfg, t, now) ==
    IF \/ t.empty \/ ~Decodes(t, now) \/ Malformed(Raw(t))
       \/ ~(cfg.required_scopes \subseteq Granted(t))
    THEN None
    ELSE IF t.exp.fraction THEN Access("raises", {}, NoExpiry)
    ELSE Access("token", Granted(t), t.exp.seconds)

VerifyToken(cfg, t, now) ==
    IF cfg.auth_mode = "dev_insecure" THEN DevVerify(cfg, t) ELSE JwtVerify(cfg, t, now)

(* FastMCP, when the verifier has answered: None is unauthorized, and so   *)
(* is an expiry in the past; then the scopes are looked at once more.      *)
Admits(cfg, access, now) ==
    /\ access.verdict = "token"
    /\ access.expires_at # NoExpiry => access.expires_at >= now
    /\ cfg.required_scopes \subseteq access.scopes
=============================================================================
