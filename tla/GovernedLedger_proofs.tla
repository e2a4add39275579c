------------------------- MODULE GovernedLedger_proofs -------------------------
(***************************************************************************)
(* What a call is told, against what the database did (GovernedQuery), for *)
(* every number of calls and requests and any interleaving of theirs.      *)
(*                                                                         *)
(* The argument is local to a call: its ledger relates its program counter *)
(* to the statements on the audit trail, to the outcome that waits for     *)
(* conn.close() and to the reply.  A step of another call, of the database *)
(* or of an operator leaves the ledger of a call as it is; a restart       *)
(* settles it.                                                             *)
(***************************************************************************)
EXTENDS GovernedQuery_proofs

Mine(c) == {e \in audit : e.call = c}

(* What an outcome tells of call c is what happened at the database.       *)
RefusedEarly(c, o) ==
    o.reason \in PreCheckReasons => logins[c] = 0 /\ session[c] = NoSession
NothingRan(c, o) ==
    o.reason \in PreCheckReasons \cup {"query_identity_stamp_failed"} => Mine(c) = {}
OneRan(c, o) ==
    o.reason = "ok" => \E e \in Mine(c) : Mine(c) = {e} /\ o.rows <= e.bound
RowsTold(c, o) ==
    o.reason = "ok" =>
        /\ o.rows <= MaxRowsCeiling
        /\ ~o.truncated => o.rows = matched[c]
MarkerBehind(c, o) == o.reason = "ok" => o.rotation_ref <= credential[c].password

Tells(c, o) ==
    /\ RefusedEarly(c, o)
    /\ NothingRan(c, o)
    /\ OneRan(c, o)
    /\ RowsTold(c, o)
    /\ MarkerBehind(c, o)

BeforeStatement == {Idle, "stat", "read", "connect", "stamp", "execute"}

LedgerOf(c) ==
    /\ pc[c] \notin {"close", Done} => result[c] = Pending
    /\ pc[c] # Done => reply[c] = Pending
    /\ pc[c] = Idle => logins[c] = 0 /\ session[c] = NoSession
    /\ pc[c] \in BeforeStatement => Mine(c) = {}
    /\ pc[c] = "fetch" => \E e \in Mine(c) : Mine(c) = {e} /\ e.bound = Bound(req[c])
    /\ pc[c] = "read" => statMtime[c] <= file.version
    /\ credential[c].rotation_ref <= credential[c].password
    /\ result[c].reason \notin PreCheckReasons
    /\ Tells(c, result[c])
    /\ Tells(c, reply[c])

Ledger == \A c \in Calls : LedgerOf(c)

---------------------------------------------------------------------------
(* Steps of others                                                         *)

Untouched(d) ==
    /\ pc'[d] = pc[d] /\ req'[d] = req[d]
    /\ result'[d] = result[d] /\ reply'[d] = reply[d]
    /\ logins'[d] = logins[d] /\ session'[d] = session[d] /\ matched'[d] = matched[d]
    /\ credential'[d] = credential[d] /\ statMtime'[d] = statMtime[d]
    /\ Mine(d)' = Mine(d)
    /\ file.version <= file'.version

(* The ledger of a call speaks of nothing else.                            *)
LEMMA LedgerFrame ==
    ASSUME IInv, NEW d \in Calls, LedgerOf(d), Untouched(d), file'.version \in Int
    PROVE  LedgerOf(d)'
<1>1. statMtime[d] \in Int /\ file.version \in Int
  BY BoundsAssumption DEF IInv, TypeOK, OracleLegOK, WorldOK
<1>2. Tells(d, result[d])' /\ Tells(d, reply[d])'
  BY DEF Untouched, LedgerOf, Tells, RefusedEarly, NothingRan, OneRan, RowsTold, MarkerBehind
<1>3. pc[d] = "read" => statMtime[d] <= file'.version
  BY <1>1 DEF Untouched, LedgerOf
<1> QED BY <1>2, <1>3 DEF Untouched, LedgerOf, Bound, Stmt, Rows

CallStep(c) == Arms(c) \/ Local(c) \/ Connect(c) \/ Query(c) \/ Cancel(c)

(* A step of one call does not touch another.                              *)
LEMMA OthersUntouched ==
    ASSUME IInv, NEW c \in Calls, CallStep(c), NEW d \in Calls, d # c
    PROVE  Untouched(d)
<1>a. /\ pc \in [Calls -> {Idle, Done} \cup Reading \cup Awaiting]
      /\ DOMAIN req = Calls /\ DOMAIN result = Calls /\ DOMAIN reply = Calls
      /\ DOMAIN statMtime = Calls /\ DOMAIN credential = Calls /\ DOMAIN logins = Calls
      /\ DOMAIN session = Calls /\ DOMAIN matched = Calls
      /\ file.version \in Int
  BY BoundsAssumption DEF IInv, TypeOK, CoroutinesOK, OracleLegOK, WorldOK
<1>b. ASSUME audit' = audit \/ audit' = audit \cup {Statement(c)} PROVE Mine(d)' = Mine(d)
  BY <1>b DEF Mine, Statement
<1> USE DEF env, proc, conns, Goto, Answer, CloseWith
<1>1. ASSUME NEW r \in Requests,
             RefuseContext(c, r) \/ RefuseReplay(c, r) \/ RefuseGate(c, r) \/ Admit(c, r)
      PROVE  Untouched(d)
  BY <1>a, <1>b, <1>1 DEF RefuseContext, RefuseReplay, RefuseGate, Admit, Accept, Arrive, Untouched
<1>2. CASE Stat(c) \/ Read(c)
  BY <1>a, <1>b, <1>2 DEF Stat, Read, Untouched
<1>3. CASE LoginAccepted(c) \/ LoginDenied(c) \/ LoginFailed(c)
  BY <1>a, <1>b, <1>3 DEF LoginAccepted, LoginDenied, LoginFailed, Login, Untouched
<1>4. CASE Stamp(c)
  BY <1>a, <1>b, <1>4 DEF Stamp, RoundTrip, Untouched
<1>5. CASE Execute(c)
  BY <1>a, <1>b, <1>5 DEF Execute, RoundTrip, Untouched
<1>6. CASE Fetch(c) \/ Close(c)
  BY <1>a, <1>b, <1>6 DEF Fetch, Close, RoundTrip, Untouched
<1>7. CASE Cancel(c)
  BY <1>a, <1>b, <1>7 DEF Cancel, Untouched
<1> QED BY <1>1, <1>2, <1>3, <1>4, <1>5, <1>6, <1>7 DEF CallStep, Arms, Local, Connect, Query

(* Nor does a step of the world.                                           *)
LEMMA WorldTouchesNone ==
    ASSUME IInv, Tick \/ StepBack \/ Rotation \/ UNCHANGED vars, NEW d \in Calls
    PROVE  Untouched(d)
<1>1. UNCHANGED others
  BY DEF Tick, StepBack, Rotation, WriteKeyFile, Rotate, WriteCredentialFile,
         AlterUser, vars, others
<1>2. file.version \in Int
  BY BoundsAssumption DEF IInv, TypeOK, WorldOK
<1>3. file.version <= file'.version
  BY <1>2 DEF Tick, StepBack, Rotation, WriteKeyFile, Rotate, WriteCredentialFile,
              AlterUser, vars, env
<1> QED BY <1>1, <1>3 DEF others, proc, conns, Untouched, Mine

---------------------------------------------------------------------------
(* Steps of the call itself                                                *)

(* Outcomes that claim nothing of the database tell the truth.             *)
LEMMA ModestOutcomes ==
    ASSUME NEW c, NEW o, o.reason \notin PreCheckReasons,
           o.reason \notin {"query_identity_stamp_failed", "ok"}
    PROVE  Tells(c, o)
  BY DEF Tells, RefusedEarly, NothingRan, OneRan, RowsTold, MarkerBehind

LEMMA ModestReasons ==
    \A o \in {Pending, Failed, Outcome("cancelled"), Outcome("lost")} :
        o.reason \notin PreCheckReasons \cup {"query_identity_stamp_failed", "ok"}
  BY DEF Pending, Failed, Outcome, PreCheckReasons

(* An arrival: a refusal is told of a call that tried no login.            *)
LEMMA ArmsLedger ==
    ASSUME IInv, NEW c \in Calls, LedgerOf(c), Arms(c)
    PROVE  LedgerOf(c)'
<1>a. /\ DOMAIN pc = Calls /\ DOMAIN reply = Calls /\ DOMAIN result = Calls
  BY DEF IInv, TypeOK, CoroutinesOK
<1>1. PICK r \in Requests :
         RefuseContext(c, r) \/ RefuseReplay(c, r) \/ RefuseGate(c, r) \/ Admit(c, r)
  BY DEF Arms
<1>2. /\ pc[c] = Idle /\ UNCHANGED <<conns, result, file>>
      /\ \/ pc'[c] = "stat" /\ reply' = reply
         \/ pc'[c] = Done /\ \E why \in RefusalReason \ {"query_identity_stamp_failed"} :
                reply'[c] = Outcome(why)
  <2>1. Gate(r) = "pass" \/ Gate(r) \in RefusalReason \ {"query_identity_stamp_failed"}
    BY DEF Gate, Analyze, ClassifyParseFailure, RefusalReason, PreCheckReasons
  <2> QED BY <1>a, <1>1, <2>1 DEF RefuseContext, RefuseReplay, RefuseGate, Admit, Accept, Arrive,
             Answer, Goto, env, RefusalReason, PreCheckReasons
<1>3. /\ result[c] = Pending /\ reply[c] = Pending /\ Mine(c) = {} /\ Mine(c)' = {}
      /\ logins'[c] = 0 /\ session'[c] = NoSession
  BY <1>2 DEF LedgerOf, Idle, Done, BeforeStatement, Mine, conns
<1>4. reply'[c].reason # "ok" /\ result'[c].reason # "ok"
  <2>1. Pending.reason # "ok" /\ \A why : Outcome(why).reason = why
    BY DEF Pending, Outcome
  <2>2. "ok" \notin RefusalReason
    BY DEF RefusalReason, PreCheckReasons
  <2> QED BY <1>2, <1>3, <2>1, <2>2
<1>5. Tells(c, result[c])' /\ Tells(c, reply[c])'
  BY <1>3, <1>4 DEF Tells, RefusedEarly, NothingRan, OneRan, RowsTold, MarkerBehind
<1>6. result'[c].reason \notin PreCheckReasons
  BY <1>3, <1>2 DEF LedgerOf
<1> QED BY <1>2, <1>3, <1>5, <1>6 DEF LedgerOf, BeforeStatement, Idle, Done, conns

(* The reads and the logins: nothing has run, nothing is promised.         *)
LEMMA EarlyLedger ==
    ASSUME IInv, NEW c \in Calls, LedgerOf(c), Local(c) \/ Connect(c)
    PROVE  LedgerOf(c)'
<1>a. /\ DOMAIN pc = Calls /\ DOMAIN reply = Calls /\ DOMAIN result = Calls
      /\ DOMAIN statMtime = Calls /\ DOMAIN credential = Calls
      /\ file.version \in Int /\ statMtime[c] \in Int
  BY BoundsAssumption DEF IInv, TypeOK, CoroutinesOK, OracleLegOK, WorldOK
<1> DEFINE Early ==
      /\ pc[c] \in {"stat", "read", "connect"}
      /\ UNCHANGED <<req, audit, matched, file>>
      /\ \/ pc'[c] \in {"stat", "read", "connect", "stamp"} /\ reply' = reply /\ result' = result
         \/ pc'[c] = Done /\ reply'[c] = Failed /\ result' = result
         \/ pc'[c] = "close" /\ reply' = reply /\ result'[c] = Failed
      /\ pc'[c] = "read" => statMtime'[c] = file.version
      /\ \/ credential'[c] = credential[c]
         \/ credential'[c] = [password |-> file.version, rotation_ref |-> statMtime[c]]
            /\ pc[c] = "read"
<1>1. Early
  <2> USE DEF Answer, CloseWith, Goto, env, proc, Done
  <2>1. CASE Stat(c)
    BY <1>a, <2>1 DEF Stat
  <2>2. CASE Read(c)
    BY <1>a, <2>2 DEF Read
  <2>3. CASE LoginAccepted(c)
    BY <1>a, <2>3 DEF LoginAccepted, Login
  <2>4. CASE LoginDenied(c) \/ LoginFailed(c)
    BY <1>a, <2>4 DEF LoginDenied, LoginFailed, Login
  <2> QED BY <2>1, <2>2, <2>3, <2>4 DEF Local, Connect
<1>2. result[c] = Pending /\ reply[c] = Pending /\ Mine(c) = {} /\ Mine(c)' = {}
  BY <1>1 DEF LedgerOf, Done, BeforeStatement, Mine
<1>3. Tells(c, result[c])' /\ Tells(c, reply[c])'
  <2>1. {result'[c], reply'[c]} \subseteq {Pending, Failed}
    BY <1>1, <1>2
  <2> QED BY <2>1, ModestReasons
          DEF Tells, RefusedEarly, NothingRan, OneRan, RowsTold, MarkerBehind
<1>4. credential'[c].rotation_ref <= credential'[c].password
  BY <1>a, <1>1 DEF LedgerOf
<1>5. result'[c].reason \notin PreCheckReasons
  BY <1>1, <1>2, ModestReasons
<1> QED BY <1>a, <1>1, <1>2, <1>3, <1>4, <1>5 DEF LedgerOf, BeforeStatement, Idle, Done

(* What the round trips change.                                            *)
LEMMA QueryChanges ==
    ASSUME IInv, NEW c \in Calls, Query(c) \/ Cancel(c)
    PROVE  /\ UNCHANGED <<req, logins, credential, statMtime, file>>
           /\ pc'[c] \in {"execute", "fetch", "close", Done}
           /\ matched' = matched \/ pc[c] = "execute"
           /\ result'[c] = result[c] \/ pc'[c] = "close"
           /\ reply'[c] = reply[c] \/ pc'[c] = Done
<1>a. DOMAIN pc = Calls /\ DOMAIN reply = Calls /\ DOMAIN result = Calls
  BY DEF IInv, TypeOK, CoroutinesOK
<1> USE DEF Answer, CloseWith, Goto, env, proc, Done
<1>1. CASE Stamp(c)
  BY <1>a, <1>1 DEF Stamp, RoundTrip
<1>2. CASE Execute(c)
  BY <1>a, <1>2 DEF Execute, RoundTrip
<1>3. CASE Fetch(c)
  BY <1>a, <1>3 DEF Fetch, RoundTrip
<1>4. CASE Close(c)
  BY <1>a, <1>4 DEF Close, RoundTrip
<1>5. CASE Cancel(c)
  BY <1>a, <1>5 DEF Cancel
<1> QED BY <1>1, <1>2, <1>3, <1>4, <1>5 DEF Query

(* A failed stamp is told of a call that ran nothing.                      *)
LEMMA StampLedger ==
    ASSUME IInv, NEW c \in Calls, LedgerOf(c), Stamp(c)
    PROVE  LedgerOf(c)'
<1>a. DOMAIN pc = Calls /\ DOMAIN result = Calls
  BY DEF IInv, TypeOK, CoroutinesOK
<1>1. /\ pc[c] = "stamp" /\ audit' = audit /\ reply' = reply
      /\ \/ pc'[c] = "execute" /\ result' = result
         \/ pc'[c] = "close" /\ result'[c] = Outcome("query_identity_stamp_failed")
  BY <1>a DEF Stamp, RoundTrip, Goto, CloseWith
<1>2. result[c] = Pending /\ reply[c] = Pending /\ Mine(c) = {} /\ Mine(c)' = {}
  BY <1>1 DEF LedgerOf, Done, BeforeStatement, Mine
<1>3. \A o \in {Pending, Outcome("query_identity_stamp_failed")} :
         o.reason \notin PreCheckReasons \cup {"ok"}
  BY DEF Pending, Outcome, PreCheckReasons
<1>4. Tells(c, result[c])' /\ Tells(c, reply[c])'
  <2>1. {result'[c], reply'[c]} \subseteq {Pending, Outcome("query_identity_stamp_failed")}
    BY <1>1, <1>2
  <2> QED BY <1>2, <1>3, <2>1
          DEF Tells, RefusedEarly, NothingRan, OneRan, RowsTold, MarkerBehind
<1>5. result'[c].reason \notin PreCheckReasons
  BY <1>1, <1>2, <1>3
<1> QED BY <1>1, <1>2, <1>4, <1>5, QueryChanges
        DEF LedgerOf, Query, BeforeStatement, Idle, Done

(* The statement is the first and only one of its call.                    *)
LEMMA ExecuteLedger ==
    ASSUME IInv, NEW c \in Calls, LedgerOf(c), Execute(c)
    PROVE  LedgerOf(c)'
<1>a. DOMAIN pc = Calls /\ DOMAIN result = Calls
  BY DEF IInv, TypeOK, CoroutinesOK
<1>1. /\ pc[c] = "execute" /\ audit' = audit \cup {Statement(c)} /\ reply' = reply
      /\ \/ pc'[c] = "fetch" /\ result' = result
         \/ pc'[c] = "close" /\ result'[c] = Failed
  BY <1>a DEF Execute, RoundTrip, Goto, CloseWith
<1>2. result[c] = Pending /\ reply[c] = Pending /\ Mine(c) = {}
  BY <1>1 DEF LedgerOf, Done, BeforeStatement
<1>3. Mine(c)' = {Statement(c)} /\ Statement(c).bound = Bound(req[c])
  BY <1>1, <1>2 DEF Mine, Statement
<1>4. Tells(c, result[c])' /\ Tells(c, reply[c])' /\ result'[c].reason \notin PreCheckReasons
  <2>1. {result'[c], reply'[c]} \subseteq {Pending, Failed}
    BY <1>1, <1>2
  <2> QED BY <2>1, ModestReasons
          DEF Tells, RefusedEarly, NothingRan, OneRan, RowsTold, MarkerBehind
<1>5. req' = req
  BY QueryChanges DEF Query
<1> QED BY <1>1, <1>2, <1>3, <1>4, <1>5, QueryChanges
        DEF LedgerOf, Query, BeforeStatement, Idle, Done, Bound, Stmt, Rows

(* The page: no more rows than the bound, and short only if it says so.    *)
PageOf(o, m, b, ref) ==
    /\ o.reason = "ok" /\ o.rows <= b /\ o.rows <= MaxRowsCeiling
    /\ ~o.truncated => o.rows = m
    /\ o.rotation_ref = ref

LEMMA PageTold ==
    ASSUME NEW m \in Nat, NEW b \in 0..MaxRowsCeiling, NEW ref
    PROVE  PageOf(Success(Least(m, b), b, ref), m, b, ref)
<1>1. MaxRowsCeiling \in Nat
  BY DEF MaxRowsCeiling
<1>2. Least(m, b) \in Nat /\ Least(m, b) <= b /\ (Least(m, b) < b => Least(m, b) = m)
  BY <1>1 DEF Least
<1>3. LET o == Success(Least(m, b), b, ref) IN
      /\ o.reason = "ok" /\ o.rows = Least(m, b) /\ o.rotation_ref = ref
      /\ o.truncated = (Least(m, b) >= b)
  BY Zenon DEF Success
<1>4. b <= MaxRowsCeiling /\ (~(Least(m, b) >= b) => Least(m, b) = m)
      /\ Least(m, b) <= MaxRowsCeiling
  BY <1>1, <1>2
<1> QED BY <1>2, <1>3, <1>4, Zenon DEF PageOf

(* The answer is made of the statement of this call.                       *)
LEMMA FetchLedger ==
    ASSUME IInv, NEW c \in Calls, LedgerOf(c), Fetch(c)
    PROVE  LedgerOf(c)'
<1>a. DOMAIN pc = Calls /\ DOMAIN result = Calls
  BY DEF IInv, TypeOK, CoroutinesOK
<1>b. Bound(req[c]) \in 0..MaxRowsCeiling
  BY BoundInRange DEF Fetch, RoundTrip, IInv, TypeOK, Governed, Active, Awaiting, CoroutinesOK
<1>c. matched[c] \in Nat
  <2>1. matched[c] \in ResultSizes \cup {0}
    BY DEF IInv, TypeOK, OracleLegOK
  <2>2. CASE matched[c] = 0
    BY <2>2
  <2>3. CASE matched[c] \in ResultSizes
    BY <2>3, BoundsAssumption
  <2> QED BY <2>1, <2>2, <2>3
<1>1. /\ pc[c] = "fetch" /\ audit' = audit /\ reply' = reply /\ matched' = matched
      /\ pc'[c] = "close"
  BY <1>a DEF Fetch, RoundTrip, Goto, CloseWith
<1>2. PICK page : /\ PageOf(page, matched[c], Bound(req[c]), credential[c].rotation_ref)
                  /\ result'[c] \in {page, Failed}
  BY <1>a, <1>b, <1>c, PageTold DEF Fetch, CloseWith
<1>3. /\ reply[c] = Pending
      /\ \E e \in Mine(c)' : Mine(c)' = {e} /\ e.bound = Bound(req[c])
  BY <1>1 DEF LedgerOf, Done, Mine
<1>4. UNCHANGED <<req, logins, credential, statMtime, file>>
  BY QueryChanges DEF Query
<1>5. page.reason \notin PreCheckReasons \cup {"query_identity_stamp_failed"}
  BY <1>2 DEF PageOf, PreCheckReasons
<1>6. Tells(c, page)'
  BY <1>1, <1>2, <1>3, <1>4, <1>5
     DEF LedgerOf, PageOf, Tells, RefusedEarly, NothingRan, OneRan, RowsTold, MarkerBehind
<1>7. \A o \in {Pending, Failed} : Tells(c, o)' /\ o.reason \notin PreCheckReasons
  BY ModestReasons DEF Tells, RefusedEarly, NothingRan, OneRan, RowsTold, MarkerBehind
<1>8. Tells(c, result[c])' /\ result'[c].reason \notin PreCheckReasons
  <2>1. CASE result'[c] = page
    BY <1>5, <1>6, <2>1
       DEF Tells, RefusedEarly, NothingRan, OneRan, RowsTold, MarkerBehind
  <2>2. CASE result'[c] = Failed
    BY <1>7, <2>2
       DEF Tells, RefusedEarly, NothingRan, OneRan, RowsTold, MarkerBehind
  <2> QED BY <1>2, <2>1, <2>2
<1>9. Tells(c, reply[c])'
  <2>1. reply'[c] = Pending
    BY <1>1, <1>3
  <2> QED BY <1>7, <2>1
          DEF Tells, RefusedEarly, NothingRan, OneRan, RowsTold, MarkerBehind
<1> QED BY <1>1, <1>3, <1>4, <1>8, <1>9 DEF LedgerOf, BeforeStatement, Idle, Done

(* What waited for conn.close() is what the call is told.                  *)
LEMMA CloseLedger ==
    ASSUME IInv, NEW c \in Calls, LedgerOf(c), Close(c)
    PROVE  LedgerOf(c)'
<1>a. DOMAIN pc = Calls /\ DOMAIN reply = Calls
  BY DEF IInv, TypeOK, CoroutinesOK
<1>1. /\ pc[c] = "close" /\ audit' = audit /\ result' = result /\ matched' = matched
      /\ pc'[c] = Done /\ reply'[c] \in {result[c], Failed}
  BY <1>a DEF Close, RoundTrip, Goto, Answer
<1>2. UNCHANGED <<req, logins, credential, statMtime, file>>
  BY QueryChanges DEF Query
<1>3. Mine(c)' = Mine(c)
  BY <1>1 DEF Mine
<1>4. Tells(c, result[c])'
  BY <1>1, <1>2, <1>3
     DEF LedgerOf, Tells, RefusedEarly, NothingRan, OneRan, RowsTold, MarkerBehind
<1>5. Tells(c, reply[c])'
  <2>1. CASE reply'[c] = result'[c]
    BY <1>4, <2>1 DEF Tells, RefusedEarly, NothingRan, OneRan, RowsTold, MarkerBehind
  <2>2. CASE reply'[c] = Failed
    BY <2>2, ModestReasons
       DEF Tells, RefusedEarly, NothingRan, OneRan, RowsTold, MarkerBehind
  <2> QED BY <1>1, <2>1, <2>2
<1> QED BY <1>1, <1>2, <1>4, <1>5 DEF LedgerOf, BeforeStatement, Idle, Done

(* A cancelled call is told so, whether its statement ran or not.          *)
LEMMA CancelLedger ==
    ASSUME IInv, NEW c \in Calls, LedgerOf(c), Cancel(c)
    PROVE  LedgerOf(c)'
<1>a. DOMAIN pc = Calls /\ DOMAIN reply = Calls /\ DOMAIN result = Calls
  BY DEF IInv, TypeOK, CoroutinesOK
<1>1. /\ matched' = matched
      /\ \/ /\ pc'[c] = "close" /\ reply' = reply /\ result'[c] = Outcome("cancelled")
            /\ pc[c] \notin {"close", Done}
         \/ /\ pc'[c] = Done /\ audit' = audit /\ result' = result
            /\ reply'[c] = Outcome("cancelled")
  BY <1>a DEF Cancel, Goto, CloseWith, Answer, Done
<1>2. UNCHANGED <<req, logins, credential, statMtime, file>>
  BY QueryChanges
<1>m. ASSUME NEW o, o \in {Pending, Outcome("cancelled")}
      PROVE  Tells(c, o)' /\ o.reason \notin PreCheckReasons
  BY <1>m, ModestReasons
     DEF Tells, RefusedEarly, NothingRan, OneRan, RowsTold, MarkerBehind
<1>3. Tells(c, reply[c])'
  <2>1. reply'[c] \in {Pending, Outcome("cancelled")}
    BY <1>1 DEF LedgerOf, Done
  <2> QED BY <1>m, <2>1 DEF Tells, RefusedEarly, NothingRan, OneRan, RowsTold, MarkerBehind
<1>4. Tells(c, result[c])' /\ result'[c].reason \notin PreCheckReasons
  <2>1. CASE result'[c] = Outcome("cancelled")
    BY <1>m, <2>1 DEF Tells, RefusedEarly, NothingRan, OneRan, RowsTold, MarkerBehind
  <2>2. CASE audit' = audit /\ result' = result
    <3>1. Mine(c)' = Mine(c)
      BY <2>2 DEF Mine
    <3> QED BY <1>1, <1>2, <2>2, <3>1
            DEF LedgerOf, Tells, RefusedEarly, NothingRan, OneRan, RowsTold, MarkerBehind
  <2> QED BY <1>1, <2>1, <2>2
<1> QED BY <1>1, <1>2, <1>3, <1>4 DEF LedgerOf, BeforeStatement, Idle, Done

(* A restart adds to the trail only for calls that it loses.               *)
LEMMA RestartLedger ==
    ASSUME IInv, NEW d \in Calls, LedgerOf(d), Restart
    PROVE  LedgerOf(d)'
<1>1. UNCHANGED <<file, req, statMtime, credential, logins, matched, result>>
  BY DEF Restart, env
<1>2. /\ pc'[d] = IF pc[d] = Idle THEN Idle ELSE Done
      /\ reply'[d] = IF pc[d] \in {Idle, Done} THEN reply[d] ELSE Outcome("lost")
      /\ session[d].state # "open" => session'[d] = session[d]
  BY DEF Restart
<1>3. pc[d] # "execute" => Mine(d)' = Mine(d)
  BY DEF Restart, Mine, Statement
<1>4. NoSession.state # "open"
  BY DEF NoSession
<1>m. ASSUME NEW o, o \in {Pending, Outcome("lost")}
      PROVE  Tells(d, o)'
  BY <1>m, ModestReasons
     DEF Tells, RefusedEarly, NothingRan, OneRan, RowsTold, MarkerBehind
<1>k. ASSUME NEW o, Tells(d, o), pc[d] # "execute" PROVE Tells(d, o)'
  BY <1>1, <1>2, <1>3, <1>4, <1>k
     DEF Tells, RefusedEarly, NothingRan, OneRan, RowsTold, MarkerBehind
<1>5. Tells(d, reply[d])'
  <2>1. CASE pc[d] \in {Idle, Done}
    <3>1. Tells(d, reply[d]) /\ pc[d] # "execute"
      BY <2>1 DEF LedgerOf, Idle, Done
    <3>2. PICK o : o = reply[d]
      OBVIOUS
    <3> QED BY <1>2, <1>k, <2>1, <3>1, <3>2
            DEF Tells, RefusedEarly, NothingRan, OneRan, RowsTold, MarkerBehind
  <2>2. CASE pc[d] \notin {Idle, Done}
    BY <1>2, <1>m, <2>2 DEF Tells, RefusedEarly, NothingRan, OneRan, RowsTold, MarkerBehind
  <2> QED BY <2>1, <2>2
<1>6. Tells(d, result[d])'
  <2>0. PICK o : o = result[d] /\ result'[d] = o
    BY <1>1
  <2>1. CASE pc[d] = "execute"
    <3>1. o = Pending
      BY <2>0, <2>1 DEF LedgerOf, Done
    <3> QED BY <1>m, <2>0, <3>1
            DEF Tells, RefusedEarly, NothingRan, OneRan, RowsTold, MarkerBehind
  <2>2. CASE pc[d] # "execute"
    <3>1. Tells(d, o)
      BY <2>0 DEF LedgerOf
    <3> QED BY <1>k, <2>0, <2>2, <3>1
            DEF Tells, RefusedEarly, NothingRan, OneRan, RowsTold, MarkerBehind
  <2> QED BY <2>1, <2>2
<1> QED BY <1>1, <1>2, <1>3, <1>4, <1>5, <1>6 DEF LedgerOf, BeforeStatement, Idle, Done

---------------------------------------------------------------------------
(* The invariant                                                           *)

LEMMA LedgerInit == Init => Ledger
<1> SUFFICES ASSUME Init, NEW c \in Calls PROVE LedgerOf(c)
  BY DEF Ledger
<1>1. Tells(c, Pending) /\ Pending.reason \notin PreCheckReasons
  BY ModestReasons, ModestOutcomes
<1> QED BY <1>1 DEF Init, LedgerOf, Mine, Idle, Done

LEMMA LedgerStep == IInv /\ Ledger /\ [Next]_vars => Ledger'
<1> SUFFICES ASSUME IInv, Ledger, [Next]_vars, NEW d \in Calls PROVE LedgerOf(d)'
  BY DEF Ledger
<1>1. LedgerOf(d)
  BY DEF Ledger
<1>2. file'.version \in Int
  BY IInvStep, BoundsAssumption DEF IInv, TypeOK, WorldOK
<1>3. ASSUME NEW c \in Calls, CallStep(c), c # d PROVE LedgerOf(d)'
  BY <1>1, <1>2, <1>3, OthersUntouched, LedgerFrame
<1>4. CASE CallStep(d)
  BY <1>1, <1>4, ArmsLedger, EarlyLedger, StampLedger, ExecuteLedger, FetchLedger,
     CloseLedger, CancelLedger DEF CallStep, Query
<1>5. CASE Tick \/ StepBack \/ Rotation \/ UNCHANGED vars
  BY <1>1, <1>2, <1>5, WorldTouchesNone, LedgerFrame
<1>6. CASE Restart
  BY <1>1, <1>6, RestartLedger
<1> QED BY <1>3, <1>4, <1>5, <1>6 DEF Next, CallStep

LEMMA LedgerAlways == Spec => [](IInv /\ Ledger)
  BY IInvInit, IInvStep, LedgerInit, LedgerStep, PTL DEF Spec

(* The reply tells the caller what happened at the database: after a       *)
(* pre-check refusal no login was tried, after a stamp failure no user SQL *)
(* ran, after a success exactly one statement of this call did.            *)
THEOREM RepliesMatchTheDatabase == Spec => []ReplyMatchesDatabase
<1>1. Ledger => ReplyMatchesDatabase
  BY DEF Ledger, LedgerOf, Tells, RefusedEarly, NothingRan, OneRan, Mine, ReplyMatchesDatabase
<1> QED BY <1>1, LedgerAlways, PTL

(* Rows beyond the bound are announced, and never exceed the ceiling,      *)
(* whatever max_rows, the author's own limit and the result size are.      *)
THEOREM RowsAreNotLostSilently == Spec => []TruncationIsReported
<1>1. Ledger => TruncationIsReported
  BY DEF Ledger, LedgerOf, Tells, RowsTold, TruncationIsReported
<1> QED BY <1>1, LedgerAlways, PTL

(* The rotation marker of a success is never ahead of the password that    *)
(* opened its session, however file and database are rotated meanwhile.    *)
THEOREM MarkerNeverAhead == Spec => []RotationRefNeverAhead
<1>1. Ledger => RotationRefNeverAhead
  BY DEF Ledger, LedgerOf, Tells, MarkerBehind, RotationRefNeverAhead
<1> QED BY <1>1, LedgerAlways, PTL

---------------------------------------------------------------------------
(* The retry after ORA-01017                                               *)

(* While the file follows the database, a denied login shows that the      *)
(* password is later than the one the call read, and the file that is read *)
(* next is not older.                                                      *)
RotationSeen ==
    ~RotationSkew =>
        /\ file.kind = "good" /\ file.version = dbPassword
        /\ \A c \in Calls :
              /\ credential[c].password <= dbPassword
              /\ pc[c] = "connect" /\ logins[c] = 0 => credential[c].password = firstRead[c]
              /\ pc[c] \in {"stat", "read", "connect"} /\ logins[c] = 1 =>
                    dbPassword >= firstRead[c] + 1
              /\ pc[c] = "connect" /\ logins[c] = 1 =>
                    credential[c].password >= firstRead[c] + 1

LEMMA RotationSeenStep == IInv /\ Ledger /\ RotationSeen /\ [Next]_vars => RotationSeen'
<1> SUFFICES ASSUME IInv, Ledger, RotationSeen, [Next]_vars, ~RotationSkew PROVE RotationSeen'
  BY DEF RotationSeen
<1>a. /\ pc \in [Calls -> {Idle, Done} \cup Reading \cup Awaiting]
      /\ logins \in [Calls -> 0..2]
      /\ dbPassword \in Int /\ dbPassword >= 0
      /\ DOMAIN credential = Calls /\ \A c \in Calls : credential[c].password \in Nat
      /\ firstRead \in [Calls -> Int]
  BY BoundsAssumption DEF IInv, TypeOK, CoroutinesOK, OracleLegOK, WorldOK
<1> USE DEF RotationSeen, Goto, Answer, CloseWith, Idle, Done, Reading, Awaiting,
            env, proc, conns
<1>1. ASSUME NEW c \in Calls, Arms(c) PROVE RotationSeen'
  <2>1. logins[c] = 0
    BY <1>1 DEF Arms, RefuseContext, RefuseReplay, RefuseGate, Admit, Accept, Arrive,
                Ledger, LedgerOf
  <2> QED BY <1>a, <1>1, <2>1 DEF Arms, RefuseContext, RefuseReplay, RefuseGate, Admit,
                                  Accept, Arrive
<1>2. ASSUME NEW c \in Calls, Stat(c) PROVE RotationSeen'
  BY <1>a, <1>2 DEF Stat
<1>3. ASSUME NEW c \in Calls, Read(c) PROVE RotationSeen'
  BY <1>a, <1>3 DEF Read
<1>4. ASSUME NEW c \in Calls, LoginDenied(c) PROVE RotationSeen'
  BY <1>a, <1>4 DEF LoginDenied, Login
<1>5. ASSUME NEW c \in Calls, LoginAccepted(c) \/ LoginFailed(c) PROVE RotationSeen'
  <2>1. UNCHANGED <<file, dbPassword, credential, firstRead>>
    BY <1>5 DEF LoginAccepted, LoginFailed, Login
  <2>2. pc'[c] \notin {"stat", "read", "connect"}
    BY <1>a, <1>5 DEF LoginAccepted, LoginFailed, Login
  <2>3. \A d \in Calls : d # c => pc'[d] = pc[d] /\ logins'[d] = logins[d]
    BY <1>a, <1>5 DEF LoginAccepted, LoginFailed, Login
  <2> QED BY <1>a, <2>1, <2>2, <2>3
<1>6. ASSUME NEW c \in Calls, Query(c) \/ Cancel(c) PROVE RotationSeen'
  <2>1. UNCHANGED <<dbPassword, firstRead>>
    BY <1>6 DEF Query, Stamp, Execute, Fetch, Close, RoundTrip, Cancel
  <2>2. \A d \in Calls : d # c => pc'[d] = pc[d]
    BY <1>a, <1>6 DEF Query, Stamp, Execute, Fetch, Close, RoundTrip, Cancel
  <2> QED BY <1>a, <1>6, <2>1, <2>2, QueryChanges
<1>7. CASE Rotate
  BY <1>a, <1>7 DEF Rotate, others
<1>8. CASE Tick \/ StepBack \/ WriteKeyFile \/ WriteCredentialFile \/ AlterUser \/ UNCHANGED vars
  BY <1>a, <1>8 DEF Tick, StepBack, WriteKeyFile, WriteCredentialFile, AlterUser, others, vars
<1>9. CASE Restart
  BY <1>a, <1>9 DEF Restart
<1> QED BY <1>1, <1>2, <1>3, <1>4, <1>5, <1>6, <1>7, <1>8, <1>9
        DEF Next, Local, Connect, Rotation

(* The retry is worth making: if the file follows the database, a call is  *)
(* refused its second login only when the password has changed twice since *)
(* its own first read.                                                     *)
THEOREM RetryIsWorthMaking == Spec => []RetrySurvivesRotation
<1>1. Init => RotationSeen
  BY DEF Init, RotationSeen, Idle
<1>2. IInv /\ RotationSeen => RetrySurvivesRotation
  <2> SUFFICES ASSUME IInv, RotationSeen, ~RotationSkew, NEW c \in Calls,
                      pc[c] = "connect", logins[c] = 1, credential[c].password # dbPassword
               PROVE  dbPassword >= firstRead[c] + 2
    BY DEF RetrySurvivesRotation
  <2>1. /\ dbPassword \in 0..MaxRotations /\ credential[c].password \in 0..MaxRotations
        /\ firstRead[c] \in 0..MaxRotations
    BY DEF IInv, TypeOK, WorldOK, OracleLegOK
  <2> QED BY <2>1, BoundsAssumption DEF RotationSeen
<1> QED BY <1>1, <1>2, LedgerAlways, RotationSeenStep, PTL DEF Spec

---------------------------------------------------------------------------
(* A call ends                                                             *)

(* The count, read off Ahead.                                              *)
LEMMA StepsCounted ==
    ASSUME NEW c \in Calls
    PROVE  /\ pc[c] = Idle /\ logins[c] = 0 => StepsLeft(c) = 11
           /\ pc[c] = "stat" => StepsLeft(c) = IF logins[c] = 0 THEN 10 ELSE 7
           /\ pc[c] = "read" => StepsLeft(c) = IF logins[c] = 0 THEN 9 ELSE 6
           /\ pc[c] = "connect" => StepsLeft(c) = IF logins[c] = 0 THEN 8 ELSE 5
           /\ pc[c] = "stamp" => StepsLeft(c) = 4
           /\ pc[c] = "execute" => StepsLeft(c) = 3
           /\ pc[c] = "fetch" => StepsLeft(c) = 2
           /\ pc[c] = "close" => StepsLeft(c) = 1
           /\ pc[c] = Done => StepsLeft(c) = 0
  BY DEF StepsLeft, Ahead, Idle, Done

(* Where a step of its own takes a coroutine: back to the file only from   *)
(* its first login, otherwise onward.                                      *)
Onward(c) ==
    \/ pc[c] = Idle /\ pc'[c] \in {"stat", Done} /\ logins'[c] = logins[c]
    \/ pc[c] = "stat" /\ pc'[c] \in {"read", Done} /\ logins'[c] = logins[c]
    \/ pc[c] = "read" /\ pc'[c] \in {"connect", Done} /\ logins'[c] = logins[c]
    \/ /\ pc[c] = "connect" /\ logins'[c] \in {logins[c], logins[c] + 1}
       /\ \/ pc'[c] \in {"stamp", "close", Done}
          \/ pc'[c] = "stat" /\ logins[c] = 0 /\ logins'[c] = 1
    \/ pc[c] = "stamp" /\ pc'[c] \in {"execute", "close"}
    \/ pc[c] = "execute" /\ pc'[c] \in {"fetch", "close"}
    \/ pc[c] = "fetch" /\ pc'[c] = "close"
    \/ pc[c] = "close" /\ pc'[c] = Done

LEMMA OwnStepIsOnward ==
    ASSUME IInv, NEW c \in Calls, CallStep(c)
    PROVE  Onward(c)
<1>a. pc \in [Calls -> {Idle, Done} \cup Reading \cup Awaiting] /\ logins \in [Calls -> 0..2]
  BY DEF IInv, TypeOK, CoroutinesOK, OracleLegOK
<1> USE DEF env, proc, conns, Goto, Answer, CloseWith, Onward, Idle, Done
<1>1. ASSUME NEW r \in Requests,
             RefuseContext(c, r) \/ RefuseReplay(c, r) \/ RefuseGate(c, r) \/ Admit(c, r)
      PROVE  Onward(c)
  BY <1>a, <1>1 DEF RefuseContext, RefuseReplay, RefuseGate, Admit, Accept, Arrive
<1>2. CASE Stat(c) \/ Read(c)
  BY <1>a, <1>2 DEF Stat, Read
<1>3. CASE LoginAccepted(c) \/ LoginDenied(c) \/ LoginFailed(c)
  BY <1>a, <1>3 DEF LoginAccepted, LoginDenied, LoginFailed, Login
<1>4. CASE Stamp(c) \/ Execute(c)
  BY <1>a, <1>4 DEF Stamp, Execute, RoundTrip
<1>5. CASE Fetch(c) \/ Close(c)
  BY <1>a, <1>5 DEF Fetch, Close, RoundTrip
<1>6. CASE Cancel(c)
  BY <1>a, <1>6 DEF Cancel, Awaiting
<1> QED BY <1>1, <1>2, <1>3, <1>4, <1>5, <1>6 DEF CallStep, Arms, Local, Connect, Query

(* Onward is down.                                                         *)
LEMMA OnwardIsDown ==
    ASSUME IInv, NEW c \in Calls, Onward(c)
    PROVE  StepsLeft(c)' < StepsLeft(c) /\ pc[c] # Done
<1>a. pc[c] = Idle => logins[c] = 0
  BY DEF IInv, LoginLeft
<1>b. logins[c] \in 0..2
  BY DEF IInv, TypeOK, OracleLegOK
<1>1. /\ pc'[c] = "stat" => StepsLeft(c)' = IF logins'[c] = 0 THEN 10 ELSE 7
      /\ pc'[c] = "read" => StepsLeft(c)' = IF logins'[c] = 0 THEN 9 ELSE 6
      /\ pc'[c] = "connect" => StepsLeft(c)' = IF logins'[c] = 0 THEN 8 ELSE 5
      /\ pc'[c] = "stamp" => StepsLeft(c)' = 4
      /\ pc'[c] = "execute" => StepsLeft(c)' = 3
      /\ pc'[c] = "fetch" => StepsLeft(c)' = 2
      /\ pc'[c] = "close" => StepsLeft(c)' = 1
      /\ pc'[c] = Done => StepsLeft(c)' = 0
  BY DEF StepsLeft, Ahead, Done
<1> QED BY <1>a, <1>b, <1>1, StepsCounted DEF Onward, Idle, Done

(* EveryCallEnds without its fairness: whatever the database, the clock,   *)
(* the operators and the other calls do, each step of a call brings it     *)
(* nearer its one reply, and a restart brings it there.                    *)
THEOREM CallsAdvance == Spec => CallsOnlyAdvance
<1> DEFINE Advances(c) ==
      /\ pc'[c] # pc[c] => StepsLeft(c)' < StepsLeft(c)
      /\ pc[c] = Done => pc'[c] = Done /\ reply'[c] = reply[c]
<1>1. ASSUME IInv, [Next]_vars, NEW d \in Calls PROVE Advances(d)
  <2>1. ASSUME NEW c \in Calls, CallStep(c) PROVE Advances(d)
    <3>1. CASE d = c
      BY <1>1, <2>1, <3>1, OwnStepIsOnward, OnwardIsDown
    <3>2. CASE d # c
      BY <1>1, <2>1, <3>2, OthersUntouched DEF Untouched
    <3> QED BY <3>1, <3>2
  <2>2. CASE Tick \/ StepBack \/ Rotation \/ UNCHANGED vars
    BY <1>1, <2>2, WorldTouchesNone DEF Untouched
  <2>3. CASE Restart
    <3>1. /\ pc'[d] = IF pc[d] = Idle THEN Idle ELSE Done
          /\ reply'[d] = IF pc[d] \in {Idle, Done} THEN reply[d] ELSE Outcome("lost")
      BY <2>3 DEF Restart
    <3>2. pc[d] \in {Idle, Done} \cup Reading \cup Awaiting /\ logins[d] \in 0..2
      BY <1>1 DEF IInv, TypeOK, CoroutinesOK, OracleLegOK
    <3>3. pc'[d] = Done => StepsLeft(d)' = 0
      BY DEF StepsLeft, Ahead, Done
    <3>4. pc[d] \in Reading \cup Awaiting => StepsLeft(d) \in 1..10
      BY <3>2, StepsCounted DEF Reading, Awaiting
    <3> QED BY <3>1, <3>2, <3>3, <3>4 DEF Idle, Done
  <2> QED BY <1>1, <2>1, <2>2, <2>3 DEF Next, CallStep
<1>2. IInv /\ [Next]_vars => [\A c \in Calls : Advances(c)]_vars
  BY <1>1
<1> QED BY <1>2, IInvInit, IInvStep, PTL DEF Spec, CallsOnlyAdvance
=============================================================================
