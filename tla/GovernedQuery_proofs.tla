------------------------- MODULE GovernedQuery_proofs -------------------------
(***************************************************************************)
(* Theorems of GovernedQuery for every number of calls, requests, keys and *)
(* tokens.                                                                 *)
(*                                                                         *)
(* The argument: (1) the state has its type and a coroutine past the arms  *)
(* carries a request that passed them (Typed, Governed); (2) while the     *)
(* clock does not step back the replay cache remembers each accepted token *)
(* until the verifier refuses it anyway (RememberedWhileLive); (3) hence   *)
(* no token is accepted twice and the process implements SingleUse.        *)
(***************************************************************************)
EXTENDS GovernedQuery, TLAPS

Active == Reading \cup Awaiting

(* A coroutine past the arms carries a request that passed them, on a      *)
(* token the process has accepted.                                         *)
Governed ==
    \A c \in Calls : pc[c] \in Active =>
        /\ req[c].token # NoToken
        /\ req[c].token.signer \in Keys
        /\ WellFormed(req[c].token)
        /\ Claims(req[c]).aud = ExpectedAud
        /\ Gate(req[c]) = "pass"
        /\ Claims(req[c]).jti \in Jtis

(* A coroutine that may still log in has used at most one of its logins.   *)
LoginLeft ==
    \A c \in Calls :
        /\ pc[c] = Idle => logins[c] = 0
        /\ pc[c] \in {"stat", "read", "connect"} => logins[c] \in {0, 1}

IInv == TypeOK /\ Governed /\ LoginLeft

---------------------------------------------------------------------------
(* The row bound                                                           *)

(* arm 6: whatever max_rows and the statement ask for, the bound is a row  *)
(* count no larger than the ceiling.                                       *)
LEMMA RowBoundInRange ==
    ASSUME NEW stmt, NEW maxRows \in Int, AuthorRowBound(stmt) \in Int
    PROVE  ApplyRowBound(stmt, maxRows) \in 0..MaxRowsCeiling
  BY DEF ApplyRowBound, Least, Greatest, MaxRowsDefault, MaxRowsCeiling

(* The bound of an admitted request is in range.                           *)
LEMMA BoundInRange ==
    ASSUME NEW r \in Requests, Gate(r) = "pass"
    PROVE  Bound(r) \in 0..MaxRowsCeiling
<1>1. Analyze(Parse[r.sql]) = "pass"
  BY DEF Gate
<1>2. Rows(r) \in Int /\ AuthorRowBound(Stmt(r)) \in Int
  BY <1>1, RequestsAssumption
<1> QED BY <1>2, RowBoundInRange DEF Bound

---------------------------------------------------------------------------
(* The arms                                                                *)

(* What verification establishes of a request.                             *)
LEMMA VerifiedRequest ==
    ASSUME NEW r \in Requests, Verified(r), now \in Int
    PROVE  /\ r.token # NoToken
           /\ r.token.signer \in Keys
           /\ WellFormed(r.token)
           /\ Claims(r).aud = ExpectedAud
           /\ now < Claims(r).exp
           /\ Claims(r).jti \in Jtis
           /\ Claims(r).exp \in Int
<1>1. r.token # NoToken
  BY DEF Verified
<1>2. Claims(r).jti \in Jtis /\ Claims(r).exp \in Int
  BY <1>1, RequestsAssumption
<1>3. VerifyQueryContext(r.token, LoadPublicKeys, ExpectedAud, now) = "verified"
  BY DEF Verified
<1>4. /\ r.token.signer \in LoadPublicKeys
      /\ WellFormed(r.token)
      /\ ~(now >= r.token.claims.exp)
      /\ r.token.claims.aud = ExpectedAud
  BY <1>3 DEF VerifyQueryContext
<1>5. LoadPublicKeys \subseteq Keys
  BY DEF LoadPublicKeys
<1> QED BY <1>1, <1>2, <1>4, <1>5 DEF Claims

---------------------------------------------------------------------------
(* Types                                                                   *)

(* The outcomes the arms and the error paths produce are outcomes.         *)
LEMMA OutcomeTypes ==
    /\ Failed \in Outcomes
    /\ Pending \in Outcomes
    /\ \A why \in RefusalReason \cup NoReply : Outcome(why) \in Outcomes
    /\ Outcome("query_identity_stamp_failed") \in Outcomes
    /\ Outcome("cancelled") \in Outcomes
    /\ \A rows \in Nat, bound \in Nat, ref \in Nat : Success(rows, bound, ref) \in Outcomes
  BY DEF Failed, Pending, Outcome, Outcomes, Success, RefusalReason, PreCheckReasons, NoReply

(* Gate refuses with a reason of the closed vocabulary.                    *)
LEMMA GateReasons == ASSUME NEW r PROVE Gate(r) = "pass" \/ Gate(r) \in RefusalReason
  BY DEF Gate, Analyze, ClassifyParseFailure, RefusalReason, PreCheckReasons

(* The cache stays a function from jtis to instants.                       *)
LEMMA SightingType ==
    ASSUME NEW r \in Requests, Claims(r).jti \in Jtis, Claims(r).exp \in Int,
           DOMAIN seen \subseteq Jtis, \A j \in DOMAIN seen : seen[j] \in Int
    PROVE  /\ DOMAIN Sighting(r).seen \subseteq Jtis
           /\ \A j \in DOMAIN Sighting(r).seen : Sighting(r).seen[j] \in Int
  BY DEF Sighting, CheckAndInsert, Evict, Remember

(* Initially.                                                              *)
LEMMA IInvInit == Init => IInv
<1> SUFFICES ASSUME Init PROVE IInv
  OBVIOUS
<1> USE BoundsAssumption, RequestsAssumption, KeysAssumption, OutcomeTypes DEF Init
<1>1. WorldOK
  BY DEF WorldOK
<1>2. ProcessOK
  BY DEF ProcessOK, EmptyCache
<1>3. CoroutinesOK /\ Governed
  BY DEF CoroutinesOK, Idle, Done, Reading, Awaiting, Active, Governed
<1>4. OracleLegOK /\ LoginLeft
  BY DEF OracleLegOK, NoSession, Sessions, LoginLeft, Idle
<1> QED BY <1>1, <1>2, <1>3, <1>4 DEF IInv, TypeOK

(* A step that lets no coroutine past the arms keeps Governed.             *)
LEMMA GovernedFrame ==
    ASSUME Governed, req' = req,
           \A c \in Calls : pc'[c] \in Active => pc[c] \in Active
    PROVE  Governed'
  BY DEF Governed

(* A step that moves one coroutine and leaves outcomes keeps the types.    *)
LEMMA CoroutineFrame ==
    ASSUME CoroutinesOK, NEW c \in Calls, req' = req,
           \E where \in {Idle, Done} \cup Reading \cup Awaiting : Goto(c, where),
           reply' = reply \/ \E o \in Outcomes : reply' = [reply EXCEPT ![c] = o],
           result' = result \/ \E o \in Outcomes : result' = [result EXCEPT ![c] = o]
    PROVE  CoroutinesOK'
  BY DEF CoroutinesOK, Goto

(* However a connection ends, it stays a session record.                   *)
LEMMA SessionEnds ==
    ASSUME session \in [Calls -> Sessions], NEW c \in Calls,
           NEW state \in {"closed", "abandoned"}
    PROVE  [session EXCEPT ![c].state = state] \in [Calls -> Sessions]
  BY DEF Sessions

(* Only a statement in flight joins the audit trail, and a call keeps the  *)
(* request it arrived with.                                                *)
Grows ==
    /\ \A e \in audit' :
          e \in audit \/ \E c \in Calls : pc[c] = "execute" /\ e = Statement(c)
    /\ restarts' \in {restarts, restarts + 1}
    /\ \A c \in Calls : pc[c] # Idle => req'[c] = req[c]

(* Every step grows the trail so.                                          *)
LEMMA AuditGrows ==
    ASSUME req \in [Calls -> Requests], [Next]_vars
    PROVE  Grows
<1> USE DEF Grows
<1>1. ASSUME NEW c \in Calls, NEW r \in Requests,
             RefuseContext(c, r) \/ RefuseReplay(c, r) \/ RefuseGate(c, r) \/ Admit(c, r)
      PROVE  Grows
  BY <1>1 DEF RefuseContext, RefuseReplay, RefuseGate, Admit, Accept, Arrive, conns
<1>2. ASSUME NEW c \in Calls, Execute(c) \/ Cancel(c) PROVE Grows
  BY <1>2 DEF Execute, Cancel, RoundTrip, proc
<1>3. CASE Restart
  BY <1>3 DEF Restart
<1>4. CASE UNCHANGED <<audit, restarts, req>>
  BY <1>4
<1>5. ASSUME NEW c \in Calls, Local(c) \/ Connect(c) PROVE UNCHANGED <<audit, restarts, req>>
  BY <1>5 DEF Local, Stat, Read, Connect, LoginAccepted, LoginDenied, LoginFailed, Login, proc
<1>6. ASSUME NEW c \in Calls, Stamp(c) \/ Fetch(c) \/ Close(c)
      PROVE  UNCHANGED <<audit, restarts, req>>
  BY <1>6 DEF Stamp, Fetch, Close, RoundTrip, proc
<1>7. CASE Tick \/ StepBack \/ Rotation \/ UNCHANGED vars
  BY <1>7 DEF Tick, StepBack, Rotation, WriteKeyFile, Rotate, WriteCredentialFile, AlterUser,
              proc, conns, others, vars
<1> QED BY <1>1, <1>2, <1>3, <1>4, <1>5, <1>6, <1>7 DEF Next, Arms, Query

(* Every bound that joins the audit trail is in range.                     *)
LEMMA AuditBounds ==
    ASSUME CoroutinesOK, OracleLegOK, Governed, [Next]_vars
    PROVE  \A e \in audit' : e.bound \in 0..MaxRowsCeiling
<1>1. ASSUME NEW c \in Calls, pc[c] = "execute"
      PROVE  Statement(c).bound \in 0..MaxRowsCeiling
  BY <1>1, BoundInRange DEF Governed, Active, Awaiting, CoroutinesOK, Statement
<1> QED BY <1>1, AuditGrows DEF Grows, OracleLegOK, CoroutinesOK

(* Every step.  Governed is preserved because a request is only replaced   *)
(* by an arrival, and only Admit lets one past the arms.                   *)
LEMMA IInvStep == IInv /\ [Next]_vars => IInv'
<1> SUFFICES ASSUME IInv, [Next]_vars PROVE IInv'
  OBVIOUS
<1> USE DEF env, proc, conns, Goto, Answer, CloseWith, Idle, Done, Reading, Awaiting
<1>a. WorldOK /\ ProcessOK /\ CoroutinesOK /\ OracleLegOK /\ Governed /\ LoginLeft
  BY DEF IInv, TypeOK
<1>b. now \in Int
  BY <1>a, BoundsAssumption DEF WorldOK
<1>c. SUFFICES WorldOK' /\ ProcessOK' /\ CoroutinesOK' /\ OracleLegOK' /\ Governed' /\ LoginLeft'
  BY DEF IInv, TypeOK
<1> DEFINE Kept == WorldOK' /\ ProcessOK' /\ CoroutinesOK' /\ OracleLegOK' /\ Governed' /\ LoginLeft'
<1>1. ASSUME NEW c \in Calls, NEW r \in Requests, RefuseContext(c, r) PROVE Kept
  <2>1. WorldOK' /\ OracleLegOK'
    BY <1>a, <1>1 DEF RefuseContext, Arrive, WorldOK, OracleLegOK
  <2>2. ProcessOK'
    BY <1>a, <1>b, <1>1, VerifiedRequest, SightingType DEF RefuseContext, Arrive, ProcessOK
  <2>3. CoroutinesOK'
    BY <1>a, <1>1, OutcomeTypes
       DEF RefuseContext, Arrive, CoroutinesOK, RefusalReason, PreCheckReasons
  <2>4. Governed' /\ LoginLeft'
    BY <1>a, <1>b, <1>1, VerifiedRequest
       DEF RefuseContext, Arrive, CoroutinesOK, OracleLegOK, Governed, LoginLeft, Active
  <2> QED BY <2>1, <2>2, <2>3, <2>4
<1>2. ASSUME NEW c \in Calls, NEW r \in Requests, RefuseReplay(c, r) PROVE Kept
  <2>1. WorldOK' /\ OracleLegOK'
    BY <1>a, <1>2 DEF RefuseReplay, Arrive, WorldOK, OracleLegOK
  <2>2. ProcessOK'
    BY <1>a, <1>b, <1>2, VerifiedRequest, SightingType DEF RefuseReplay, Arrive, ProcessOK
  <2>3. CoroutinesOK'
    BY <1>a, <1>2, OutcomeTypes
       DEF RefuseReplay, Arrive, CoroutinesOK, RefusalReason, PreCheckReasons
  <2>4. Governed' /\ LoginLeft'
    BY <1>a, <1>b, <1>2, VerifiedRequest
       DEF RefuseReplay, Arrive, CoroutinesOK, OracleLegOK, Governed, LoginLeft, Active
  <2> QED BY <2>1, <2>2, <2>3, <2>4
<1>3. ASSUME NEW c \in Calls, NEW r \in Requests, RefuseGate(c, r) PROVE Kept
  <2>1. WorldOK' /\ OracleLegOK'
    BY <1>a, <1>3 DEF RefuseGate, Accept, Arrive, WorldOK, OracleLegOK
  <2>2. ProcessOK'
    BY <1>a, <1>b, <1>3, VerifiedRequest, SightingType DEF RefuseGate, Accept, Arrive, ProcessOK
  <2>3. CoroutinesOK'
    BY <1>a, <1>3, OutcomeTypes, GateReasons
       DEF RefuseGate, Accept, Arrive, CoroutinesOK, RefusalReason, PreCheckReasons
  <2>4. Governed' /\ LoginLeft'
    BY <1>a, <1>b, <1>3, VerifiedRequest
       DEF RefuseGate, Accept, Arrive, CoroutinesOK, OracleLegOK, Governed, LoginLeft, Active
  <2> QED BY <2>1, <2>2, <2>3, <2>4
<1>4. ASSUME NEW c \in Calls, NEW r \in Requests, Admit(c, r) PROVE Kept
  <2>1. WorldOK' /\ OracleLegOK'
    BY <1>a, <1>4 DEF Admit, Accept, Arrive, WorldOK, OracleLegOK
  <2>2. ProcessOK'
    BY <1>a, <1>b, <1>4, VerifiedRequest, SightingType DEF Admit, Accept, Arrive, ProcessOK
  <2>3. CoroutinesOK'
    BY <1>a, <1>4, OutcomeTypes
       DEF Admit, Accept, Arrive, CoroutinesOK, RefusalReason, PreCheckReasons
  <2>4. Governed' /\ LoginLeft'
    BY <1>a, <1>b, <1>4, VerifiedRequest
       DEF Admit, Accept, Arrive, CoroutinesOK, OracleLegOK, Governed, LoginLeft, Active
  <2> QED BY <2>1, <2>2, <2>3, <2>4
<1>5. ASSUME NEW c \in Calls, Stat(c) PROVE Kept
  <2>1. WorldOK' /\ ProcessOK'
    BY <1>a, <1>5 DEF Stat, WorldOK, ProcessOK
  <2>2. CoroutinesOK'
    BY <1>a, <1>5, CoroutineFrame, OutcomeTypes DEF Stat
  <2>3. OracleLegOK'
    BY <1>a, <1>5 DEF Stat, OracleLegOK, WorldOK
  <2>4. Governed'
    BY <1>a, <1>5, GovernedFrame DEF Stat, CoroutinesOK, Active
  <2>5. LoginLeft'
    BY <1>a, <1>5 DEF Stat, CoroutinesOK, OracleLegOK, LoginLeft
  <2> QED BY <2>1, <2>2, <2>3, <2>4, <2>5
<1>6. ASSUME NEW c \in Calls, Read(c) PROVE Kept
  <2>1. WorldOK' /\ ProcessOK'
    BY <1>a, <1>6 DEF Read, WorldOK, ProcessOK
  <2>2. CoroutinesOK'
    BY <1>a, <1>6, CoroutineFrame, OutcomeTypes DEF Read
  <2>3. OracleLegOK'
    <3>1. /\ file.version \in 0..MaxRotations /\ statMtime[c] \in 0..MaxRotations
          /\ UNCHANGED <<statMtime, logins, session, matched, audit>>
      BY <1>a, <1>6 DEF Read, OracleLegOK, WorldOK
    <3>2. firstRead' \in [Calls -> 0..MaxRotations]
      BY <1>a, <1>6, <3>1 DEF Read, OracleLegOK
    <3>3. credential' \in [Calls -> [password : 0..MaxRotations, rotation_ref : 0..MaxRotations]]
      BY <1>a, <1>6, <3>1 DEF Read, OracleLegOK
    <3> QED BY <1>a, <3>1, <3>2, <3>3 DEF OracleLegOK
  <2>4. Governed'
    BY <1>a, <1>6, GovernedFrame DEF Read, CoroutinesOK, Active
  <2>5. LoginLeft'
    BY <1>a, <1>6 DEF Read, CoroutinesOK, OracleLegOK, LoginLeft
  <2> QED BY <2>1, <2>2, <2>3, <2>4, <2>5
<1>7. ASSUME NEW c \in Calls, LoginAccepted(c) PROVE Kept
  <2>1. WorldOK' /\ ProcessOK'
    BY <1>a, <1>7 DEF LoginAccepted, Login, WorldOK, ProcessOK
  <2>2. CoroutinesOK'
    BY <1>a, <1>7, CoroutineFrame, OutcomeTypes DEF LoginAccepted, Login
  <2>3. OracleLegOK'
    <3>1. UNCHANGED <<statMtime, credential, matched, firstRead, audit>>
      BY <1>7 DEF LoginAccepted, Login
    <3>2. logins' \in [Calls -> 0..2]
      <4>1. pc[c] = "connect" /\ logins' = [logins EXCEPT ![c] = @ + 1]
        BY <1>7 DEF LoginAccepted, Login
      <4> QED BY <1>a, <4>1 DEF OracleLegOK, LoginLeft
    <3>3. session' \in [Calls -> Sessions]
      BY <1>a, <1>7 DEF LoginAccepted, Login, OracleLegOK, Sessions, Governed, Active, CoroutinesOK, Gate
    <3> QED BY <1>a, <3>1, <3>2, <3>3 DEF OracleLegOK
  <2>4. Governed'
    BY <1>a, <1>7, GovernedFrame DEF LoginAccepted, Login, CoroutinesOK, Active
  <2>5. LoginLeft'
    BY <1>a, <1>7 DEF LoginAccepted, Login, CoroutinesOK, OracleLegOK, LoginLeft
  <2> QED BY <2>1, <2>2, <2>3, <2>4, <2>5
<1>8. ASSUME NEW c \in Calls, LoginDenied(c) PROVE Kept
  <2>1. WorldOK' /\ ProcessOK'
    BY <1>a, <1>8 DEF LoginDenied, Login, WorldOK, ProcessOK
  <2>2. CoroutinesOK'
    BY <1>a, <1>8, CoroutineFrame, OutcomeTypes DEF LoginDenied, Login
  <2>3. OracleLegOK'
    BY <1>a, <1>8 DEF LoginDenied, Login, OracleLegOK, LoginLeft
  <2>4. Governed'
    BY <1>a, <1>8, GovernedFrame DEF LoginDenied, Login, CoroutinesOK, Active
  <2>5. LoginLeft'
    BY <1>a, <1>8 DEF LoginDenied, Login, CoroutinesOK, OracleLegOK, LoginLeft
  <2> QED BY <2>1, <2>2, <2>3, <2>4, <2>5
<1>9. ASSUME NEW c \in Calls, LoginFailed(c) PROVE Kept
  <2>1. WorldOK' /\ ProcessOK'
    BY <1>a, <1>9 DEF LoginFailed, Login, WorldOK, ProcessOK
  <2>2. CoroutinesOK'
    BY <1>a, <1>9, CoroutineFrame, OutcomeTypes DEF LoginFailed, Login
  <2>3. OracleLegOK'
    BY <1>a, <1>9 DEF LoginFailed, Login, OracleLegOK, LoginLeft
  <2>4. Governed'
    BY <1>a, <1>9, GovernedFrame DEF LoginFailed, Login, CoroutinesOK, Active
  <2>5. LoginLeft'
    BY <1>a, <1>9 DEF LoginFailed, Login, CoroutinesOK, OracleLegOK, LoginLeft
  <2> QED BY <2>1, <2>2, <2>3, <2>4, <2>5
<1>10. ASSUME NEW c \in Calls, Stamp(c) PROVE Kept
  <2>1. WorldOK' /\ ProcessOK'
    BY <1>a, <1>10 DEF Stamp, RoundTrip, WorldOK, ProcessOK
  <2>2. CoroutinesOK'
    BY <1>a, <1>10, CoroutineFrame, OutcomeTypes DEF Stamp, RoundTrip
  <2>3. OracleLegOK'
    <3>1. SubjectReference(Claims(req[c]).sub) \in {SubjectReference(x) : x \in Subjects}
      BY <1>a, <1>10 DEF Stamp, RoundTrip, Subjects, Governed, Active, CoroutinesOK
    <3>2. session' \in [Calls -> Sessions]
      <4>1. session \in [Calls -> Sessions]
        BY <1>a DEF OracleLegOK
      <4>2. [session EXCEPT ![c].client_identifier = SubjectReference(Claims(req[c]).sub)]
               \in [Calls -> Sessions]
        BY <3>1, <4>1 DEF Sessions
      <4>3. \/ session' = [session EXCEPT ![c].client_identifier =
                  SubjectReference(Claims(req[c]).sub)]
            \/ session' = session
        BY <1>10 DEF Stamp
      <4> QED BY <4>1, <4>2, <4>3
    <3> QED BY <1>a, <1>10, <3>2 DEF Stamp, RoundTrip, OracleLegOK
  <2>4. Governed'
    BY <1>a, <1>10, GovernedFrame DEF Stamp, RoundTrip, CoroutinesOK, Active
  <2>5. LoginLeft'
    BY <1>a, <1>10 DEF Stamp, RoundTrip, CoroutinesOK, OracleLegOK, LoginLeft
  <2> QED BY <2>1, <2>2, <2>3, <2>4, <2>5
<1>11. ASSUME NEW c \in Calls, Execute(c) PROVE Kept
  <2>1. WorldOK' /\ ProcessOK'
    BY <1>a, <1>11 DEF Execute, RoundTrip, Statement, WorldOK, ProcessOK
  <2>2. CoroutinesOK'
    BY <1>a, <1>11, CoroutineFrame, OutcomeTypes DEF Execute, RoundTrip, Statement
  <2>3. OracleLegOK'
    <3>1. \A e \in audit' : e.bound \in 0..MaxRowsCeiling
      BY <1>a, AuditBounds
    <3>2. matched' \in [Calls -> ResultSizes \cup {0}]
      BY <1>a, <1>11 DEF Execute, OracleLegOK
    <3> QED BY <1>a, <1>11, <3>1, <3>2 DEF Execute, RoundTrip, OracleLegOK
  <2>4. Governed'
    BY <1>a, <1>11, GovernedFrame DEF Execute, RoundTrip, Statement, CoroutinesOK, Active
  <2>5. LoginLeft'
    BY <1>a, <1>11 DEF Execute, RoundTrip, Statement, CoroutinesOK, OracleLegOK, LoginLeft
  <2> QED BY <2>1, <2>2, <2>3, <2>4, <2>5
<1>12. ASSUME NEW c \in Calls, Fetch(c) PROVE Kept
  <2>1. WorldOK' /\ ProcessOK'
    BY <1>a, <1>12 DEF Fetch, RoundTrip, WorldOK, ProcessOK
  <2>2. CoroutinesOK'
    <3>1. Bound(req[c]) \in Nat
      BY <1>a, <1>12, BoundInRange DEF Fetch, RoundTrip, Governed, Active, CoroutinesOK
    <3>2. matched[c] \in Nat
      <4>1. matched[c] \in ResultSizes \cup {0}
        BY <1>a DEF OracleLegOK
      <4>2. CASE matched[c] = 0
        BY <4>2
      <4>3. CASE matched[c] \in ResultSizes
        BY <4>3, BoundsAssumption
      <4> QED BY <4>1, <4>2, <4>3
    <3>5. credential[c].rotation_ref \in Nat
      BY <1>a, BoundsAssumption DEF OracleLegOK
    <3>3. Success(Least(matched[c], Bound(req[c])), Bound(req[c]), credential[c].rotation_ref)
             \in Outcomes
      BY <3>1, <3>2, <3>5, OutcomeTypes DEF Least
    <3> QED BY <1>a, <1>12, <3>3, CoroutineFrame, OutcomeTypes DEF Fetch, RoundTrip
  <2>3. OracleLegOK'
    BY <1>a, <1>12 DEF Fetch, RoundTrip, OracleLegOK
  <2>4. Governed'
    BY <1>a, <1>12, GovernedFrame DEF Fetch, RoundTrip, CoroutinesOK, Active
  <2>5. LoginLeft'
    BY <1>a, <1>12 DEF Fetch, RoundTrip, CoroutinesOK, OracleLegOK, LoginLeft
  <2> QED BY <2>1, <2>2, <2>3, <2>4, <2>5
<1>13. ASSUME NEW c \in Calls, Close(c) PROVE Kept
  <2>1. WorldOK' /\ ProcessOK'
    BY <1>a, <1>13 DEF Close, RoundTrip, WorldOK, ProcessOK
  <2>2. CoroutinesOK'
    BY <1>a, <1>13, OutcomeTypes DEF Close, RoundTrip, CoroutinesOK
  <2>3. OracleLegOK'
    <3>1. session' = session \/ \E st \in {"closed", "abandoned"} :
             session' = [session EXCEPT ![c].state = st]
      BY <1>13 DEF Close, RoundTrip
    <3>2. session' \in [Calls -> Sessions]
      <4>1. session \in [Calls -> Sessions]
        BY <1>a DEF OracleLegOK
      <4>2. \A st \in {"closed", "abandoned"} :
               [session EXCEPT ![c].state = st] \in [Calls -> Sessions]
        BY <4>1, SessionEnds
      <4> QED BY <3>1, <4>1, <4>2
    <3> QED BY <1>a, <1>13, <3>2 DEF Close, RoundTrip, OracleLegOK
  <2>4. Governed'
    BY <1>a, <1>13, GovernedFrame DEF Close, RoundTrip, CoroutinesOK, Active
  <2>5. LoginLeft'
    BY <1>a, <1>13 DEF Close, RoundTrip, CoroutinesOK, OracleLegOK, LoginLeft
  <2> QED BY <2>1, <2>2, <2>3, <2>4, <2>5
<1>14. ASSUME NEW c \in Calls, Cancel(c) PROVE Kept
  <2>1. WorldOK' /\ ProcessOK'
    BY <1>a, <1>14 DEF Cancel, WorldOK, ProcessOK
  <2>2. CoroutinesOK'
    BY <1>a, <1>14, OutcomeTypes DEF Cancel, CoroutinesOK
  <2>3. OracleLegOK'
    <3>1. session' = session \/ \E st \in {"closed", "abandoned"} :
             session' = [session EXCEPT ![c].state = st]
      BY <1>14 DEF Cancel
    <3>2. session' \in [Calls -> Sessions]
      <4>1. session \in [Calls -> Sessions]
        BY <1>a DEF OracleLegOK
      <4>2. \A st \in {"closed", "abandoned"} :
               [session EXCEPT ![c].state = st] \in [Calls -> Sessions]
        BY <4>1, SessionEnds
      <4> QED BY <3>1, <4>1, <4>2
    <3> QED BY <1>a, <1>14, <3>2, AuditBounds DEF Cancel, OracleLegOK
  <2>4. Governed'
    BY <1>a, <1>14, GovernedFrame DEF Cancel, CoroutinesOK, Active
  <2>5. LoginLeft'
    BY <1>a, <1>14 DEF Cancel, CoroutinesOK, OracleLegOK, LoginLeft
  <2> QED BY <2>1, <2>2, <2>3, <2>4, <2>5
<1>15. CASE Tick \/ StepBack \/ Rotation
  <2>1. WorldOK'
    BY <1>a, <1>15, BoundsAssumption
       DEF Tick, StepBack, Rotation, WriteKeyFile, Rotate, WriteCredentialFile,
           AlterUser, WorldOK
  <2>2. UNCHANGED others
    BY <1>15 DEF Tick, StepBack, Rotation, WriteKeyFile, Rotate, WriteCredentialFile, AlterUser
  <2> QED
    BY <1>a, <2>1, <2>2
       DEF others, ProcessOK, CoroutinesOK, OracleLegOK, Governed, LoginLeft
<1>16. CASE Restart
  <2>1. WorldOK' /\ ProcessOK'
    BY <1>a, <1>16, BoundsAssumption DEF Restart, WorldOK, ProcessOK, EmptyCache
  <2>2. CoroutinesOK'
    BY <1>a, <1>16, OutcomeTypes DEF Restart, CoroutinesOK, NoReply
  <2>3. OracleLegOK'
    <3>1. \A e \in audit' : e.bound \in 0..MaxRowsCeiling
      BY <1>a, AuditBounds
    <3>2. session' \in [Calls -> Sessions]
      <4>1. \A s \in Sessions : [s EXCEPT !.state = "abandoned"] \in Sessions
        BY DEF Sessions
      <4>2. session \in [Calls -> Sessions]
        BY <1>a DEF OracleLegOK
      <4>3. session' = [c \in Calls |->
               IF session[c].state = "open"
               THEN [session[c] EXCEPT !.state = "abandoned"] ELSE session[c]]
        BY <1>16 DEF Restart
      <4> QED BY <4>1, <4>2, <4>3
    <3> QED BY <1>a, <1>16, <3>1, <3>2 DEF Restart, OracleLegOK
  <2>4. Governed' /\ LoginLeft'
    BY <1>a, <1>16 DEF Restart, Governed, LoginLeft, Active, CoroutinesOK
  <2> QED BY <2>1, <2>2, <2>3, <2>4
<1>17. CASE UNCHANGED vars
  BY <1>a, <1>17 DEF vars, WorldOK, ProcessOK, CoroutinesOK, OracleLegOK, Governed, LoginLeft
<1> QED BY <1>1, <1>2, <1>3, <1>4, <1>5, <1>6, <1>7, <1>8, <1>9, <1>10, <1>11, <1>12,
           <1>13, <1>14, <1>15, <1>16, <1>17 DEF Next, Arms, Local, Connect, Query

(* The state has its type in every behaviour.                              *)
THEOREM TypeSafety == Spec => []TypeOK
<1>1. Spec => []IInv
  BY IInvInit, IInvStep, PTL DEF Spec
<1>2. IInv => TypeOK
  BY DEF IInv
<1> QED BY <1>1, <1>2, PTL

---------------------------------------------------------------------------
(* The replay cache                                                        *)

(* A consultation keeps every live token the cache remembered, and with a  *)
(* first sighting also the token it consults for.                          *)
LEMMA SightingRemembers ==
    ASSUME NEW r \in Requests, NEW q \in Requests, Verified(r), now \in Int,
           q.token # NoToken, q.token.signer \in Keys, now < Claims(q).exp,
           \/ Claims(q).jti \in DOMAIN seen /\ seen[Claims(q).jti] = Claims(q).exp
           \/ Sighting(r).first /\ Claims(q).jti = Claims(r).jti
    PROVE  /\ Claims(q).jti \in DOMAIN Sighting(r).seen
           /\ Sighting(r).seen[Claims(q).jti] = Claims(q).exp
<1>1. Claims(q).jti = Claims(r).jti => Claims(q).exp = Claims(r).exp
  BY VerifiedRequest, JtiAssumption
<1> QED BY <1>1 DEF Sighting, CheckAndInsert, Evict, Remember

(* A first sighting is of a token not accepted before: were it spent, the  *)
(* cache would still hold it, since it verifies.                           *)
LEMMA FirstSightingIsUnspent ==
    ASSUME RememberedWhileLive, NEW r \in Requests, Verified(r), Sighting(r).first, now \in Int
    PROVE  Claims(r).jti \notin spent
<1>1. SUFFICES ASSUME Claims(r).jti \in spent PROVE FALSE
  OBVIOUS
<1>2. Claims(r).jti \in DOMAIN seen /\ seen[Claims(r).jti] = Claims(r).exp
  BY <1>1, VerifiedRequest DEF RememberedWhileLive
<1>3. now < Claims(r).exp
  BY VerifiedRequest
<1> QED BY <1>2, <1>3 DEF Sighting, CheckAndInsert, Evict, Remember

(* What the arms do to the cache.                                          *)
Consultation ==
    /\ now' = now
    /\ \E r \in Requests :
          /\ Verified(r)
          /\ seen' = Sighting(r).seen
          /\ \/ spent' = spent
             \/ Sighting(r).first /\ spent' = spent \cup {Claims(r).jti}

(* Most steps leave the clock, the cache and the spent tokens alone.       *)
LEMMA CacheFrame ==
    ASSUME [Next]_vars
    PROVE  \/ UNCHANGED <<now, seen, spent>>
           \/ Tick \/ StepBack \/ Restart
           \/ Consultation
<1> USE DEF env, proc, conns, others
<1>1. ASSUME NEW c \in Calls, NEW r \in Requests, RefuseContext(c, r)
      PROVE  UNCHANGED <<now, seen, spent>>
  BY <1>1 DEF RefuseContext, Arrive
<1>2. ASSUME NEW c \in Calls, NEW r \in Requests,
             RefuseReplay(c, r) \/ RefuseGate(c, r) \/ Admit(c, r)
      PROVE  Consultation
  BY <1>2 DEF Consultation, RefuseReplay, RefuseGate, Admit, Accept, Arrive
<1>3. ASSUME NEW c \in Calls, Local(c) PROVE UNCHANGED <<now, seen, spent>>
  BY <1>3 DEF Local, Stat, Read
<1>4. ASSUME NEW c \in Calls, Connect(c) PROVE UNCHANGED <<now, seen, spent>>
  BY <1>4 DEF Connect, LoginAccepted, LoginDenied, LoginFailed, Login
<1>5. ASSUME NEW c \in Calls, Query(c) PROVE UNCHANGED <<now, seen, spent>>
  BY <1>5 DEF Query, Stamp, Execute, Fetch, Close, RoundTrip
<1>6. ASSUME NEW c \in Calls, Cancel(c) PROVE UNCHANGED <<now, seen, spent>>
  BY <1>6 DEF Cancel
<1>7. CASE Rotation
  BY <1>7 DEF Rotation, WriteKeyFile, Rotate, WriteCredentialFile, AlterUser
<1>8. CASE UNCHANGED vars
  BY <1>8 DEF vars
<1> QED BY <1>1, <1>2, <1>3, <1>4, <1>5, <1>6, <1>7, <1>8 DEF Next, Arms

(* Every step keeps the cache's memory, if the clock does not step back.   *)
LEMMA RememberedStep ==
    ASSUME ~ClockMayStepBack
    PROVE  IInv /\ RememberedWhileLive /\ [Next]_vars => RememberedWhileLive'
<1> SUFFICES ASSUME IInv, RememberedWhileLive, [Next]_vars, NEW q \in Requests,
                    q.token # NoToken, q.token.signer \in Keys,
                    Claims(q).jti \in spent', now' < Claims(q).exp
             PROVE  Claims(q).jti \in DOMAIN seen' /\ seen'[Claims(q).jti] = Claims(q).exp
  BY DEF RememberedWhileLive
<1>1. now \in Int /\ Claims(q).exp \in Int
  BY RequestsAssumption, BoundsAssumption DEF IInv, TypeOK, WorldOK
<1>2. CASE UNCHANGED <<now, seen, spent>>
  BY <1>2 DEF RememberedWhileLive
<1>3. CASE Tick
  BY <1>1, <1>3 DEF Tick, others, proc, RememberedWhileLive
<1>4. CASE Restart
  BY <1>4 DEF Restart
<1>5. CASE Consultation
  <2>1. PICK r \in Requests :
           /\ Verified(r)
           /\ seen' = Sighting(r).seen
           /\ \/ spent' = spent
              \/ Sighting(r).first /\ spent' = spent \cup {Claims(r).jti}
    BY <1>5 DEF Consultation
  <2>2. \/ Claims(q).jti \in DOMAIN seen /\ seen[Claims(q).jti] = Claims(q).exp
        \/ Sighting(r).first /\ Claims(q).jti = Claims(r).jti
    BY <1>5, <2>1 DEF Consultation, RememberedWhileLive
  <2>3. now < Claims(q).exp
    BY <1>5 DEF Consultation
  <2>4. /\ Claims(q).jti \in DOMAIN Sighting(r).seen
        /\ Sighting(r).seen[Claims(q).jti] = Claims(q).exp
    BY <1>1, <2>1, <2>2, <2>3, SightingRemembers
  <2> QED BY <2>1, <2>4
<1>6. ~StepBack
  BY DEF StepBack
<1> QED BY <1>2, <1>3, <1>4, <1>5, <1>6, CacheFrame

(* Whatever a consultation leaves in the cache is unexpired: eviction      *)
(* comes first, and what is inserted has just been verified.               *)
LEMMA SightingLive ==
    ASSUME NEW r \in Requests, Verified(r), now \in Int,
           NEW j \in DOMAIN Sighting(r).seen
    PROVE  now < Sighting(r).seen[j]
<1>1. now < Claims(r).exp
  BY VerifiedRequest
<1> QED BY <1>1 DEF Sighting, CheckAndInsert, Evict, Remember

(* The cache is bounded by the tokens that are alive, whatever the clock   *)
(* does: a step that changes it leaves no expired token in it.             *)
THEOREM CacheIsPruned == Spec => CacheHoldsLiveTokens
<1>1. ASSUME IInv, [Next]_vars
      PROVE  [seen' # seen => \A j \in DOMAIN seen' : now < seen'[j]]_vars
  <2> SUFFICES ASSUME seen' # seen, NEW j \in DOMAIN seen' PROVE now < seen'[j]
    OBVIOUS
  <2>1. now \in Int
    BY <1>1, BoundsAssumption DEF IInv, TypeOK, WorldOK
  <2>2. CASE Consultation
    BY <2>1, <2>2, SightingLive DEF Consultation
  <2>3. CASE Restart
    BY <2>3 DEF Restart, EmptyCache
  <2>4. CASE Tick \/ StepBack
    BY <2>4 DEF Tick, StepBack, others, proc
  <2> QED BY <1>1, <2>2, <2>3, <2>4, CacheFrame
<1> QED BY <1>1, IInvInit, IInvStep, PTL DEF Spec, CacheHoldsLiveTokens

(* The cache remembers an accepted token for as long as it would verify.   *)
THEOREM CacheRemembers ==
    ASSUME ~ClockMayStepBack
    PROVE  Spec => []RememberedWhileLive
<1>1. Init => RememberedWhileLive
  BY DEF Init, RememberedWhileLive
<1>2. Spec => [](IInv /\ RememberedWhileLive)
  BY <1>1, IInvInit, IInvStep, RememberedStep, PTL DEF Spec
<1> QED BY <1>2, PTL

---------------------------------------------------------------------------
(* Refinement                                                              *)

(* Statements are recorded under the life of the process that ran them.    *)
AuditLives == \A e \in audit : e.life \in 0..restarts

(* Every step.                                                             *)
LEMMA AuditStep == IInv /\ AuditLives /\ [Next]_vars => AuditLives'
<1> SUFFICES ASSUME IInv, AuditLives, [Next]_vars PROVE AuditLives'
  OBVIOUS
<1>1. restarts \in Nat /\ req \in [Calls -> Requests]
  BY BoundsAssumption DEF IInv, TypeOK, ProcessOK, CoroutinesOK
<1>2. \A c \in Calls : Statement(c).life = restarts
  BY DEF Statement
<1> QED BY <1>1, <1>2, AuditGrows DEF Grows, AuditLives

(* The process starts as the abstract gate does.                           *)
LEMMA RefinementInit == Init => Once!Init
  BY DEF Init, Once!Init, Permits, Permit, HoldsPermit, Ran, Idle

(* A coroutine that moves on keeps its permit or gives it up.              *)
LEMMA PermitMove ==
    ASSUME pc \in [Calls -> {Idle, Done} \cup Reading \cup Awaiting],
           NEW c \in Calls, NEW where, Goto(c, where), req' = req
    PROVE  /\ where \in HoldsPermit /\ pc[c] \in HoldsPermit => Permits' = Permits
           /\ where \notin HoldsPermit => Permits' = [Permits EXCEPT ![c] = NoToken]
  BY DEF Goto, Permits, Permit

(* Every step is a step of the abstract gate, or none: acceptance finds an *)
(* unspent token because the cache remembers, a statement uses the permit  *)
(* its call holds, and every other way out drops it.                       *)
LEMMA RefinementStep ==
    ASSUME IInv, AuditLives, RememberedWhileLive, [Next]_vars
    PROVE  [Once!Next]_(Once!vars)
<1>a. /\ pc \in [Calls -> {Idle, Done} \cup Reading \cup Awaiting]
      /\ req \in [Calls -> Requests] /\ Governed /\ now \in Int
  BY BoundsAssumption DEF IInv, TypeOK, CoroutinesOK, WorldOK
<1>s. ASSUME spent' = spent, Permits' = Permits, audit' = audit, restarts' = restarts
      PROVE  [Once!Next]_(Once!vars)
  BY <1>s DEF Once!vars, Ran
<1>d. ASSUME NEW c \in Calls, spent' = spent, Permits' = [Permits EXCEPT ![c] = NoToken],
             audit' = audit, restarts' = restarts
      PROVE  [Once!Next]_(Once!vars)
  BY <1>d DEF Once!Next, Once!Drop, Ran
<1> USE DEF env, proc, conns
<1>1. ASSUME NEW c \in Calls, NEW r \in Requests, RefuseContext(c, r) \/ RefuseReplay(c, r)
      PROVE  [Once!Next]_(Once!vars)
  <2>1. Permits' = Permits
    BY <1>a, <1>1 DEF RefuseContext, RefuseReplay, Arrive, Answer, Goto,
                      Permits, Permit, HoldsPermit, Idle, Done
  <2> QED BY <1>1, <1>s, <2>1 DEF RefuseContext, RefuseReplay, Arrive
<1>2. ASSUME NEW c \in Calls, NEW r \in Requests, RefuseGate(c, r)
      PROVE  [Once!Next]_(Once!vars)
  <2>1. Permits' = Permits
    BY <1>a, <1>2 DEF RefuseGate, Accept, Arrive, Answer, Goto,
                      Permits, Permit, HoldsPermit, Idle, Done
  <2>2. Claims(r).jti \in Jtis /\ Claims(r).jti \notin spent
    BY <1>a, <1>2, VerifiedRequest, FirstSightingIsUnspent DEF RefuseGate, Accept
  <2>3. Once!Burn(Claims(r).jti)
    BY <1>2, <2>1, <2>2 DEF Once!Burn, RefuseGate, Accept, Arrive, Ran
  <2> QED BY <2>2, <2>3 DEF Once!Next
<1>3. ASSUME NEW c \in Calls, NEW r \in Requests, Admit(c, r)
      PROVE  [Once!Next]_(Once!vars)
  <2>1. Permits' = [Permits EXCEPT ![c] = Claims(r).jti] /\ Permits[c] = NoToken
    BY <1>a, <1>3 DEF Admit, Accept, Arrive, Goto, Permits, Permit, HoldsPermit, Idle
  <2>2. Claims(r).jti \in Jtis /\ Claims(r).jti \notin spent
    BY <1>a, <1>3, VerifiedRequest, FirstSightingIsUnspent DEF Admit, Accept
  <2>3. Once!Accept(c, Claims(r).jti)
    BY <1>3, <2>1, <2>2 DEF Once!Accept, Admit, Accept, Arrive, Ran
  <2> QED BY <2>2, <2>3 DEF Once!Next
<1>4. ASSUME NEW c \in Calls, Stat(c) \/ Read(c) \/ Connect(c)
      PROVE  [Once!Next]_(Once!vars)
  <2>1. Permits' = Permits \/ Permits' = [Permits EXCEPT ![c] = NoToken]
    BY <1>a, <1>4, PermitMove
       DEF Stat, Read, Connect, LoginAccepted, LoginDenied, LoginFailed, Login,
           Answer, CloseWith, HoldsPermit, Done
  <2> QED
    BY <1>4, <1>s, <1>d, <2>1
       DEF Stat, Read, Connect, LoginAccepted, LoginDenied, LoginFailed, Login
<1>r. ASSUME NEW c \in Calls, pc[c] = "execute", audit' = audit \cup {Statement(c)},
             restarts' = restarts, spent' = spent, Permits' = [Permits EXCEPT ![c] = NoToken]
      PROVE  [Once!Next]_(Once!vars)
  <2>1. Permits[c] = Claims(req[c]).jti /\ Permits[c] # NoToken
    BY <1>a, <1>r, JtiAssumption DEF Permits, Permit, HoldsPermit, Governed, Active, Awaiting
  <2>2. Statement(c).life = restarts /\ Statement(c).call = c /\ Statement(c).jti = Permits[c]
    BY <2>1 DEF Statement
  <2>3. Ran' = Ran \cup {<<c, Permits[c]>>}
    BY <1>r, <2>2 DEF Ran
  <2> QED BY <1>r, <2>1, <2>3 DEF Once!Next, Once!Run
<1>5. ASSUME NEW c \in Calls, Stamp(c) \/ Cancel(c) PROVE [Once!Next]_(Once!vars)
  <2>1. Permits' = Permits \/ Permits' = [Permits EXCEPT ![c] = NoToken]
    BY <1>a, <1>5, PermitMove
       DEF Stamp, Cancel, RoundTrip, Answer, CloseWith, HoldsPermit, Done
  <2>2. CASE audit' = audit
    BY <1>5, <1>s, <1>d, <2>1, <2>2 DEF Stamp, Cancel, RoundTrip
  <2>3. CASE Cancel(c) /\ pc[c] = "execute" /\ audit' = audit \cup {Statement(c)}
    <3>1. Permits' = [Permits EXCEPT ![c] = NoToken]
      BY <1>a, <2>3, PermitMove DEF Cancel, CloseWith, HoldsPermit
    <3> QED BY <1>r, <2>3, <3>1 DEF Cancel
  <2> QED BY <1>5, <2>2, <2>3 DEF Stamp, Cancel
<1>6. ASSUME NEW c \in Calls, Execute(c) PROVE [Once!Next]_(Once!vars)
  <2>1. Permits' = [Permits EXCEPT ![c] = NoToken]
    BY <1>a, <1>6, PermitMove DEF Execute, RoundTrip, CloseWith, HoldsPermit
  <2> QED BY <1>6, <1>r, <2>1 DEF Execute, RoundTrip
<1>7. ASSUME NEW c \in Calls, Fetch(c) \/ Close(c) PROVE [Once!Next]_(Once!vars)
  <2>1. Permits' = [Permits EXCEPT ![c] = NoToken]
    BY <1>a, <1>7, PermitMove
       DEF Fetch, Close, RoundTrip, Answer, CloseWith, HoldsPermit, Done
  <2> QED BY <1>7, <1>d, <2>1 DEF Fetch, Close, RoundTrip
<1>8. CASE Tick \/ StepBack \/ Rotation \/ UNCHANGED vars
  <2>1. UNCHANGED others
    BY <1>8 DEF Tick, StepBack, Rotation, WriteKeyFile, Rotate, WriteCredentialFile,
                AlterUser, vars, others
  <2>2. Permits' = Permits
    BY <2>1 DEF others, Permits, Permit
  <2> QED BY <1>s, <2>1, <2>2 DEF others
<1>9. CASE Restart
  <2>1. Permits' = [c \in Calls |-> NoToken]
    BY <1>a, <1>9 DEF Restart, Permits, Permit, HoldsPermit, Idle, Done
  <2>2. restarts \in Nat
    BY BoundsAssumption DEF IInv, TypeOK, ProcessOK
  <2>3. Ran' = {}
    <3>1. \A e \in audit' : e.life \in 0..restarts
      BY <1>9, <2>2 DEF Restart, AuditLives, Statement
    <3> QED BY <1>9, <2>2, <3>1 DEF Restart, Ran
  <2> QED BY <1>9, <2>1, <2>3 DEF Restart, Once!Next, Once!Restart
<1> QED BY <1>1, <1>2, <1>3, <1>4, <1>5, <1>6, <1>7, <1>8, <1>9
        DEF Next, Arms, Local, Query

(* The process implements the abstract gate: a token is accepted once in a *)
(* process lifetime and pays for one statement, although the cache evicts. *)
THEOREM ImplementsSingleUse ==
    ASSUME ~ClockMayStepBack
    PROVE  Spec => SingleUseSpec
<1>1. Init => IInv /\ AuditLives /\ RememberedWhileLive /\ Once!Init
  BY IInvInit, RefinementInit DEF Init, AuditLives, RememberedWhileLive
<1>2. IInv /\ AuditLives /\ RememberedWhileLive /\ [Next]_vars
      => /\ IInv' /\ AuditLives' /\ RememberedWhileLive'
         /\ [Once!Next]_(Once!vars)
  BY IInvStep, AuditStep, RememberedStep, RefinementStep
<1> QED BY <1>1, <1>2, PTL DEF Spec, SingleUseSpec, Once!Spec

(* What the abstract gate keeps, read on the process.                      *)
Gatekeeper == INSTANCE SingleUse_proofs WITH
    Tokens <- Jtis, NoPermit <- NoToken,
    permit <- Permits, ran <- Ran

(* A step of Once is one of Gatekeeper: the two are one module.            *)
LEMMA SameGate ==
    /\ Once!Init => Gatekeeper!Init
    /\ [Once!Next]_(Once!vars) => [Gatekeeper!Next]_(Gatekeeper!vars)
<1>1. Once!Init => Gatekeeper!Init
  BY DEF Once!Init, Gatekeeper!Init
<1>2. Once!Next => Gatekeeper!Next
  BY DEF Once!Next, Once!Accept, Once!Burn, Once!Run, Once!Drop, Once!Restart,
         Gatekeeper!Next, Gatekeeper!Accept, Gatekeeper!Burn, Gatekeeper!Run,
         Gatekeeper!Drop, Gatekeeper!Restart
<1>3. UNCHANGED Once!vars => UNCHANGED Gatekeeper!vars
  BY DEF Once!vars, Gatekeeper!vars
<1> QED BY <1>1, <1>2, <1>3

(* What joins the audit trail was in flight, on the permit of its call;    *)
(* no statement of this life has run on that permit and no other call      *)
(* holds it, so the trail keeps one statement to a token.                  *)
LEMMA PaysOnceStep ==
    ASSUME IInv, AuditLives, Gatekeeper!IInv, TokenPaysOnce, [Next]_vars
    PROVE  TokenPaysOnce'
<1>a. req \in [Calls -> Requests] /\ restarts \in Nat
  BY BoundsAssumption DEF IInv, TypeOK, CoroutinesOK, ProcessOK
<1>1. ASSUME NEW c \in Calls, pc[c] = "execute"
      PROVE  /\ Statement(c).life = restarts
             /\ Statement(c).jti = Permits[c]
             /\ Permits[c] # NoToken
  BY <1>1, JtiAssumption
     DEF Statement, Permits, Permit, HoldsPermit, IInv, Governed, Active, Awaiting
<1>2. ASSUME NEW c \in Calls, pc[c] = "execute", NEW e \in audit, e.life = restarts
      PROVE  e.jti # Statement(c).jti
  <2>1. <<e.call, e.jti>> \in Ran
    BY <1>2 DEF Ran
  <2> QED BY <1>1, <1>2, <2>1 DEF Gatekeeper!IInv, Gatekeeper!PermitsAreExclusive
<1>3. ASSUME NEW c \in Calls, pc[c] = "execute", NEW d \in Calls, pc[d] = "execute",
             Statement(c).jti = Statement(d).jti
      PROVE  c = d
  BY <1>1, <1>3 DEF Gatekeeper!IInv, Gatekeeper!PermitsAreExclusive
<1> SUFFICES ASSUME NEW e \in audit', NEW f \in audit', e.life = f.life, e.jti = f.jti
             PROVE  e = f
  BY DEF TokenPaysOnce
<1>4. /\ e \in audit \/ \E c \in Calls : pc[c] = "execute" /\ e = Statement(c)
      /\ f \in audit \/ \E c \in Calls : pc[c] = "execute" /\ f = Statement(c)
  BY <1>a, AuditGrows DEF Grows
<1> QED BY <1>1, <1>2, <1>3, <1>4 DEF TokenPaysOnce

(* No two statements of one process lifetime on one token, whichever calls *)
(* sent them, however those calls ended, whatever the cache forgot.        *)
THEOREM NoTokenPaysTwice ==
    ASSUME ~ClockMayStepBack
    PROVE  Spec => []TokenPaysOnce
<1> DEFINE All == IInv /\ AuditLives /\ RememberedWhileLive /\ Gatekeeper!IInv /\ TokenPaysOnce
<1>1. Init => All
  BY IInvInit, RefinementInit, SameGate, Gatekeeper!IInvInit
     DEF Init, AuditLives, RememberedWhileLive, TokenPaysOnce
<1>2. All /\ [Next]_vars => All'
  BY IInvStep, AuditStep, RememberedStep, RefinementStep, SameGate, Gatekeeper!IInvStep,
     PaysOnceStep
<1>3. Spec => []All
  BY <1>1, <1>2, PTL DEF Spec
<1> QED BY <1>3, PTL

---------------------------------------------------------------------------
(* The governed session                                                    *)

(* Most steps leave the sessions, the statements and the arrived requests  *)
(* alone, and lead no coroutine to a session.                              *)
SessionFrame ==
    /\ session' = session
    /\ audit' = audit
    /\ \A c \in Calls :
          \/ pc'[c] = pc[c] /\ req'[c] = req[c]
          \/ pc[c] = Idle
          \/ req'[c] = req[c] /\ pc'[c] \notin {Idle, "stamp", "execute"}
    /\ \A c \in Calls : pc[c] = Idle => pc'[c] \in {Idle, "stat", Done}
    /\ \A c \in Calls :
          session[c].state = "open" /\ pc[c] \in Awaiting \ {"connect"} =>
             pc'[c] \in Awaiting \ {"connect"}

(* The steps that are no SessionFrame.                                     *)
LEMMA SessionCases ==
    ASSUME IInv, [Next]_vars
    PROVE  \/ SessionFrame
           \/ \E c \in Calls : LoginAccepted(c) \/ Stamp(c) \/ Execute(c) \/ Close(c) \/ Cancel(c)
           \/ Restart
<1>a. pc \in [Calls -> {Idle, Done} \cup Reading \cup Awaiting] /\ req \in [Calls -> Requests]
  BY DEF IInv, TypeOK, CoroutinesOK
<1> USE DEF env, proc, conns, others, Goto, Answer, CloseWith, SessionFrame,
            Idle, Done, Reading, Awaiting
<1>1. ASSUME NEW c \in Calls, NEW r \in Requests,
             RefuseContext(c, r) \/ RefuseReplay(c, r) \/ RefuseGate(c, r) \/ Admit(c, r)
      PROVE  SessionFrame
  BY <1>a, <1>1 DEF RefuseContext, RefuseReplay, RefuseGate, Admit, Accept, Arrive
<1>2. ASSUME NEW c \in Calls, Local(c) PROVE SessionFrame
  BY <1>a, <1>2 DEF Local, Stat, Read
<1>3. ASSUME NEW c \in Calls, LoginDenied(c) \/ LoginFailed(c) PROVE SessionFrame
  BY <1>a, <1>3 DEF LoginDenied, LoginFailed, Login
<1>4. ASSUME NEW c \in Calls, Fetch(c) PROVE SessionFrame
  BY <1>a, <1>4 DEF Fetch, RoundTrip
<1>5. CASE Tick \/ StepBack \/ Rotation
  BY <1>5 DEF Tick, StepBack, Rotation, WriteKeyFile, Rotate, WriteCredentialFile, AlterUser
<1>6. CASE UNCHANGED vars
  BY <1>6 DEF vars
<1> QED BY <1>1, <1>2, <1>3, <1>4, <1>5, <1>6 DEF Next, Arms, Connect, Query

(* Nothing is open but behind a round trip.                                *)
LEMMA ReleasedStep == IInv /\ SessionsReleased /\ [Next]_vars => SessionsReleased'
<1> SUFFICES ASSUME IInv, SessionsReleased, [Next]_vars PROVE SessionsReleased'
  OBVIOUS
<1>a. /\ pc \in [Calls -> {Idle, Done} \cup Reading \cup Awaiting]
      /\ session \in [Calls -> Sessions]
  BY DEF IInv, TypeOK, CoroutinesOK, OracleLegOK
<1> USE DEF Goto, Answer, CloseWith, SessionsReleased, Sessions, Done, Awaiting
<1>1. CASE SessionFrame
  BY <1>1 DEF SessionFrame
<1>2. ASSUME NEW c \in Calls, LoginAccepted(c) PROVE SessionsReleased'
  BY <1>a, <1>2 DEF LoginAccepted, Login
<1>3. ASSUME NEW c \in Calls, Stamp(c) \/ Execute(c) PROVE SessionsReleased'
  BY <1>a, <1>3 DEF Stamp, Execute, RoundTrip
<1>4. ASSUME NEW c \in Calls, Close(c) PROVE SessionsReleased'
  BY <1>a, <1>4 DEF Close, RoundTrip
<1>5. ASSUME NEW c \in Calls, Cancel(c) PROVE SessionsReleased'
  BY <1>a, <1>5 DEF Cancel
<1>6. CASE Restart
  BY <1>a, <1>6 DEF Restart
<1> QED BY <1>1, <1>2, <1>3, <1>4, <1>5, <1>6, SessionCases

(* A finished call holds no open session, whichever way it ended.          *)
THEOREM SessionsAreReleased == Spec => []SessionsReleased
<1>1. Init => SessionsReleased
  BY DEF Init, SessionsReleased, NoSession
<1>2. Spec => [](IInv /\ SessionsReleased)
  BY <1>1, IInvInit, IInvStep, ReleasedStep, PTL DEF Spec
<1> QED BY <1>2, PTL

(* If no part of a name holds a dot, its dotted form denotes it.           *)
LEMMA DottedDenotes ==
    ASSUME NEW t, NEW entry, Dotted(t) = Fold(entry), \A p \in Parts(t) : Len(Words(p)) <= 1
    PROVE  Denotes(entry, t)
<1>1. Dotted(t)[1] = Words(t.catalog) \o Words(t.db) \o Words(t.name)
  BY DEF Dotted, Fold, Words
<1>2. Fold(entry)[1] = Words(entry)
  BY DEF Fold
<1> QED BY <1>1, <1>2 DEF Denotes

(* What an admitted request was checked for.  Where the names are clear,   *)
(* the gate takes for a CTE what is one, and for an entry of the list what *)
(* the entry denotes.                                                      *)
LEMMA GateMeans ==
    ASSUME NEW r, Gate(r) = "pass"
    PROVE  /\ Claims(r).args_sha256 = ArgsSha256(r)
           /\ Len(Parse[r.sql].stmts) = 1
           /\ NamesAreClear(Stmt(r)) =>
                 \A t \in TablesRead(Stmt(r)) : Listed(t, Claims(r).objects)
<1>1. /\ Claims(r).args_sha256 = ArgsSha256(r)
      /\ Analyze(Parse[r.sql]) = "pass"
      /\ OutOfScopeObjects(ReferencedObjects(Stmt(r)), Claims(r).objects) = {}
  BY DEF Gate, Analyze, ClassifyParseFailure
<1>2. Len(Parse[r.sql].stmts) = 1
  BY <1>1 DEF Analyze, ClassifyParseFailure
<1>3. \A x \in ReferencedObjects(Stmt(r)) :
         \E entry \in Claims(r).objects \cup {Dual, SysDual} : x = Fold(entry)
  <2>1. Dual = Fold(Dual) /\ SysDual = Fold(SysDual)
    BY DEF Dual, SysDual, Fold, Words
  <2> QED BY <1>1, <2>1 DEF OutOfScopeObjects
<1>4. ASSUME NamesAreClear(Stmt(r)), NEW t \in TablesRead(Stmt(r))
      PROVE  Listed(t, Claims(r).objects)
  <2>1. Dotted(t) \in ReferencedObjects(Stmt(r))
    BY <1>4 DEF NamesAreClear, TablesRead, ReferencedObjects
  <2>2. \A p \in Parts(t) : Len(Words(p)) <= 1
    BY <1>4 DEF NamesAreClear, TablesRead
  <2> QED BY <1>3, <2>1, <2>2, DottedDenotes DEF Listed
<1> QED BY <1>1, <1>2, <1>4

(* A session carries the identity and, before user SQL, the stamp of the   *)
(* token whose call opened it; statements belong to calls that arrived.    *)
SessionGoverned ==
    /\ \A c \in Calls :
          /\ pc[c] \in {"stamp", "execute"} =>
                session[c].user = Claims(req[c]).proxy_db_identity
          /\ pc[c] = "execute" =>
                session[c].client_identifier = SubjectReference(Claims(req[c]).sub)
    /\ \A e \in audit : e.call \in Calls /\ pc[e.call] # Idle

(* A frame step leads no coroutine to its stamp or its statement.          *)
LEMMA SessionGovernedStep ==
    IInv /\ SessionGoverned /\ [Next]_vars => SessionGoverned'
<1> SUFFICES ASSUME IInv, SessionGoverned, [Next]_vars PROVE SessionGoverned'
  OBVIOUS
<1>a. /\ pc \in [Calls -> {Idle, Done} \cup Reading \cup Awaiting]
      /\ session \in [Calls -> Sessions]
      /\ req \in [Calls -> Requests]
  BY DEF IInv, TypeOK, CoroutinesOK, OracleLegOK
<1> USE DEF Goto, Answer, CloseWith, SessionGoverned, Sessions, Idle, Done, Awaiting
<1>1. CASE SessionFrame
  <2>1. ASSUME NEW c \in Calls, pc'[c] \in {"stamp", "execute"}
        PROVE  pc'[c] = pc[c] /\ req'[c] = req[c] /\ session'[c] = session[c]
    BY <1>1, <2>1 DEF SessionFrame
  <2>2. \A e \in audit' : e.call \in Calls /\ pc'[e.call] # Idle
    BY <1>1 DEF SessionFrame
  <2> QED BY <2>1, <2>2 DEF Claims
<1>2. ASSUME NEW c \in Calls, LoginAccepted(c) PROVE SessionGoverned'
  BY <1>a, <1>2 DEF LoginAccepted, Login, proc
<1>3. ASSUME NEW c \in Calls, Stamp(c) PROVE SessionGoverned'
  BY <1>a, <1>3 DEF Stamp, RoundTrip
<1>4. ASSUME NEW c \in Calls, Execute(c) PROVE SessionGoverned'
  <2>1. \A e \in audit' : e.call \in Calls /\ pc'[e.call] # Idle
    BY <1>a, <1>4 DEF Execute, RoundTrip, Statement
  <2> QED BY <1>a, <1>4, <2>1 DEF Execute, RoundTrip
<1>5. ASSUME NEW c \in Calls, Close(c) PROVE SessionGoverned'
  BY <1>a, <1>5 DEF Close, RoundTrip
<1>6. ASSUME NEW c \in Calls, Cancel(c) PROVE SessionGoverned'
  <2>1. \A e \in audit' : e.call \in Calls /\ pc'[e.call] # Idle
    BY <1>a, <1>6 DEF Cancel, Statement
  <2> QED BY <1>a, <1>6, <2>1 DEF Cancel
<1>7. CASE Restart
  <2>1. \A e \in audit' : e.call \in Calls /\ pc'[e.call] # Idle
    BY <1>a, <1>7 DEF Restart, Statement
  <2> QED BY <1>a, <1>7, <2>1 DEF Restart
<1> QED BY <1>1, <1>2, <1>3, <1>4, <1>5, <1>6, <1>7, SessionCases

(* The statement a coroutine sends is governed by its request.             *)
LEMMA StatementGoverned ==
    ASSUME IInv, SessionGoverned, NEW c \in Calls, pc[c] = "execute"
    PROVE  GovernedBy(Statement(c), req[c])
<1>1. /\ req[c].token # NoToken /\ req[c].token.signer \in Keys
      /\ Claims(req[c]).aud = ExpectedAud /\ Gate(req[c]) = "pass"
  BY DEF IInv, Governed, Active, Awaiting
<1>2. /\ session[c].user = Claims(req[c]).proxy_db_identity
      /\ session[c].client_identifier = SubjectReference(Claims(req[c]).sub)
  BY DEF SessionGoverned
<1>3. /\ Statement(c).sql = req[c].sql
      /\ Statement(c).user = session[c].user
      /\ Statement(c).client_identifier = session[c].client_identifier
  BY DEF Statement
<1>4. /\ Claims(req[c]).args_sha256 = ArgsSha256(req[c])
      /\ Len(Parse[req[c].sql].stmts) = 1
      /\ NamesAreClear(Stmt(req[c])) =>
            \A t \in TablesRead(Stmt(req[c])) : Listed(t, Claims(req[c]).objects)
  BY <1>1, GateMeans
<1> QED BY <1>1, <1>2, <1>3, <1>4 DEF GovernedBy, Claims, Stmt

(* A call keeps its request, and only Execute adds to the audit trail.     *)
LEMMA ExecutedStep ==
    IInv /\ SessionGoverned /\ ExecutedIsGoverned /\ [Next]_vars => ExecutedIsGoverned'
<1> SUFFICES ASSUME IInv, SessionGoverned, ExecutedIsGoverned, [Next]_vars,
                    NEW e \in audit'
             PROVE  GovernedBy(e, req'[e.call])
  BY DEF ExecutedIsGoverned
<1>1. req \in [Calls -> Requests]
  BY DEF IInv, TypeOK, CoroutinesOK
<1>2. CASE e \in audit
  BY <1>1, <1>2, AuditGrows DEF Grows, SessionGoverned, ExecutedIsGoverned
<1>3. ASSUME NEW c \in Calls, pc[c] = "execute", e = Statement(c)
      PROVE  GovernedBy(e, req'[e.call])
  <2>1. e.call = c /\ req'[c] = req[c]
    BY <1>1, <1>3, AuditGrows DEF Grows, Statement, Idle
  <2> QED BY <1>3, <2>1, StatementGoverned
<1> QED BY <1>1, <1>2, <1>3, AuditGrows DEF Grows

(* No statement reaches the database but a governed one: signed arguments, *)
(* the token's identity, its subject stamped, and where its names are      *)
(* clear no table but those of the token's list.                           *)
THEOREM StatementsAreGoverned == Spec => []ExecutedIsGoverned
<1>1. Init => SessionGoverned /\ ExecutedIsGoverned
  BY DEF Init, SessionGoverned, ExecutedIsGoverned, Idle
<1>2. Spec => [](IInv /\ SessionGoverned /\ ExecutedIsGoverned)
  BY <1>1, IInvInit, IInvStep, SessionGovernedStep, ExecutedStep, PTL DEF Spec
<1> QED BY <1>2, PTL
=============================================================================
