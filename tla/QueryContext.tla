---------------------------- MODULE QueryContext ----------------------------
(***************************************************************************)
(* Verification of the kernel-signed query-context token                   *)
(* (query_context.py).  A wire token is a record                           *)
(*   signer   the key whose RS256 signature it carries, or a value that is *)
(*            no key: unsigned, another algorithm, not a compact JWS;      *)
(*   fields   the claim names of its payload ({} when the payload is not a *)
(*            JSON object);                                                *)
(*   mistyped the claims whose JSON type is wrong;                         *)
(*   claims   the claims the server reads after the shape gate.            *)
(***************************************************************************)
EXTENDS Integers

Issuer == "cognic-agentos"

ClaimFields ==
    {"iss", "aud", "sub", "act", "tenant_id", "scope_id", "objects",
     "proxy_db_identity", "args_sha256", "jti", "iat", "exp"}

WellFormed(token) ==
    /\ token.fields = ClaimFields
    /\ token.mistyped = {}
    /\ token.claims.iss = Issuer

(* The key list is tried in order and the first success wins, so only the  *)
(* set of usable keys matters; a PEM that does not import verifies nothing.*)
VerifyQueryContext(token, keys, expectedAud, now) ==
    IF token.signer \notin keys           THEN "query_context_signature_invalid"
    ELSE IF ~WellFormed(token)            THEN "query_context_claims_malformed"
    ELSE IF now >= token.claims.exp       THEN "query_context_expired"
    ELSE IF token.claims.aud # expectedAud THEN "query_context_audience_mismatch"
    ELSE "verified"
=============================================================================
