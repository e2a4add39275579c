------------------------------ MODULE SingleUse ------------------------------
(***************************************************************************)
(* What arm 2 of run_readonly_query promises, without a cache, a clock or  *)
(* an expiry: while a server process lives it remembers every token it has *)
(* accepted, a call that gets past the arms holds the permit of its token, *)
(* and a permit pays for one statement.                                    *)
(***************************************************************************)
CONSTANTS Calls, Tokens, NoPermit

VARIABLES
    spent,    \* tokens accepted since the process started
    permit,   \* the token each call may still run a statement for
    ran       \* the statements run, as pairs <<call, token>>

vars == <<spent, permit, ran>>

Init ==
    /\ spent = {}
    /\ permit = [c \in Calls |-> NoPermit]
    /\ ran = {}

Accept(c, t) ==
    /\ permit[c] = NoPermit
    /\ t \notin spent
    /\ spent' = spent \cup {t}
    /\ permit' = [permit EXCEPT ![c] = t]
    /\ UNCHANGED ran

(* Accepted, then refused by a later arm: the token is spent all the same. *)
Burn(t) ==
    /\ t \notin spent
    /\ spent' = spent \cup {t}
    /\ UNCHANGED <<permit, ran>>

Run(c) ==
    /\ permit[c] # NoPermit
    /\ ran' = ran \cup {<<c, permit[c]>>}
    /\ permit' = [permit EXCEPT ![c] = NoPermit]
    /\ UNCHANGED spent

Drop(c) ==
    /\ permit' = [permit EXCEPT ![c] = NoPermit]
    /\ UNCHANGED <<spent, ran>>

Restart ==
    /\ spent' = {}
    /\ permit' = [c \in Calls |-> NoPermit]
    /\ ran' = {}

Next ==
    \/ \E c \in Calls, t \in Tokens : Accept(c, t)
    \/ \E t \in Tokens : Burn(t)
    \/ \E c \in Calls : Run(c) \/ Drop(c)
    \/ Restart

Spec == Init /\ [][Next]_vars

---------------------------------------------------------------------------
TypeOK ==
    /\ spent \subseteq Tokens
    /\ permit \in [Calls -> Tokens \cup {NoPermit}]
    /\ ran \subseteq Calls \X Tokens

(* A token pays for at most one statement of one call.                     *)
OneStatementPerToken ==
    \A x, y \in ran : x[2] = y[2] => x = y

(* Why: nobody holds a token that is unspent, that another call holds, or  *)
(* that has run.                                                           *)
PermitsAreExclusive ==
    /\ \A c \in Calls : permit[c] # NoPermit =>
          /\ permit[c] \in spent
          /\ \A x \in ran : x[2] # permit[c]
          /\ \A d \in Calls : permit[d] = permit[c] => d = c
    /\ \A x \in ran : x[2] \in spent
=============================================================================
