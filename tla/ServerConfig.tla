----------------------------- MODULE ServerConfig -----------------------------
(***************************************************************************)
(* Config.from_env (config.py): what a process makes of its environment.   *)
(*                                                                         *)
(* A string is a word, the case it is written in, and whether space is put *)
(* around it; word 0 is the empty one.  A setting is unset, or a text that *)
(* is not what it should be, or a value.                                   *)
(***************************************************************************)
EXTENDS Integers

HardMaxRows    == 1000
DefaultMaxRows == 200
DefaultPoolMax == 4

(* Words are numbered in the order of the alphabet.                        *)
MaxWord == 999      \* bound: the words there are
Strings == [word : 0..MaxWord, case : {"upper", "lower"}, padded : BOOLEAN]

Strip(s) == [s EXCEPT !.padded = FALSE]
Upper(s) == [s EXCEPT !.case = "upper"]
Folded(s) == Upper(Strip(s))
NonBlank(strings) == {s \in strings : s.word # 0}

Given(setting, default) == IF setting.kind = "unset" THEN default ELSE setting.value

AuthMode(env) == Given(env.auth_mode, "jwt")

(* Fault: the allow-list is compared as it is written.                     *)
AllowedOwnersAsWritten(env) == {Strip(o) : o \in NonBlank(env.allowed_owners)}
AllowedOwners(env) == {Folded(o) : o \in NonBlank(env.allowed_owners)}

ReadScope == [word |-> 1, case |-> "lower", padded |-> FALSE]   \* oracle_schema.read
RequiredScopes(env) ==
    {Strip(s) : s \in NonBlank(Given(env.required_scopes, {ReadScope}))}

(* Fault: no lower end.                                                    *)
ClampFromAbove(n) == IF n > HardMaxRows THEN HardMaxRows ELSE n
Clamp(n) == IF n > HardMaxRows THEN HardMaxRows ELSE IF n < 1 THEN 1 ELSE n

OAuthSettings    == {"COGNIC_OAUTH_ISSUER", "COGNIC_OAUTH_JWKS_URI", "COGNIC_OAUTH_AUDIENCE"}
RequiredSettings ==
    {"COGNIC_ORACLE_DSN", "COGNIC_ORACLE_USER", "COGNIC_ORACLE_PASSWORD_FILE"}

(* env.given: the settings among these two sets that are not empty.        *)
ConfigError(env) ==
    \/ env.legacy_password
    \/ AuthMode(env) = "dev_insecure" /\ env.cognic_env # "dev"
    \/ AuthMode(env) \notin {"jwt", "dev_insecure"}
    \/ env.max_rows.kind = "text"
    \/ AuthMode(env) = "jwt" /\ ~(OAuthSettings \subseteq env.given)
    \/ RequiredScopes(env) = {}
    \/ ~(RequiredSettings \subseteq env.given)

(* A COGNIC_ORACLE_POOL_MAX that is no number is a bare ValueError.        *)
Starts(env) == ~ConfigError(env) /\ env.pool_max.kind # "text"

Config(env) ==
    [allowed_owners |-> AllowedOwners(env),
     max_rows |-> Clamp(Given(env.max_rows, DefaultMaxRows)),
     pool_max |-> Given(env.pool_max, DefaultPoolMax),
     auth_mode |-> AuthMode(env),
     required_scopes |-> RequiredScopes(env)]
=============================================================================
