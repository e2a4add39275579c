----------------------------- MODULE MetadataPool -----------------------------
(***************************************************************************)
(* The metadata connection pool (oracle.py) under several concurrent tool  *)
(* calls: fetch() with its one rebuild on ORA-01017, around the module     *)
(* global _pool, and the lifespan that opens and closes the pool.          *)
(*                                                                         *)
(* FastMCP (external) enters the lifespan once for every session of a      *)
(* stateful transport, which is the one server.py asks for, and leaves it  *)
(* when the calls of that session have ended: all sessions share _pool.    *)
(*                                                                         *)
(* A pool object is an element of pools and _pool is an index into it:     *)
(* objects outlive the global that named them.  Of the driver we assume    *)
(* that a pool lends an idle connection if it has one, logs a new one in   *)
(* while there is room, makes the caller wait otherwise, and refuses to    *)
(* close when it is closed or has lent connections.  An established        *)
(* connection survives a change of the password; a statement on it is      *)
(* answered all the same, or refused with ORA-01017 like a login.  Between *)
(* two awaits a task runs alone.                                           *)
(***************************************************************************)
EXTENDS Integers, Sequences, FiniteSets

CONSTANTS
    Calls,          \* fetch() calls, each made at most once
    Sessions,       \* client sessions, each a task that runs the lifespan
    Home,           \* the session each call comes from
    PoolMax,        \* COGNIC_ORACLE_POOL_MAX
    MaxRotations    \* bound: versions of the password

ASSUME PoolAssumption == PoolMax \in Nat \ {0} /\ MaxRotations \in Nat
ASSUME TasksAssumption ==
    /\ IsFiniteSet(Calls) /\ IsFiniteSet(Sessions)
    /\ Calls \cap Sessions = {}
    /\ Home \in [Calls -> Sessions]

VARIABLES
    file,        \* credential file: kind, and the version written last
    dbPassword,  \* version of the password the database accepts
    apart,       \* do file and database change apart in this deployment?
    pool,        \* _pool: an index of pools, or None
    pools,       \* the pool objects created so far
    pc,          \* where each task is suspended
    using,       \* the pool a task acquires from, or closes
    rebuilt,     \* has the call rebuilt the pool?
    reply

world == <<file, dbPassword, apart>>
vars  == <<world, pool, pools, pc, using, rebuilt, reply>>

Tasks == Calls \cup Sessions
None  == 0

Goto(t, where)    == pc' = [pc EXCEPT ![t] = where]
Finish(c, answer) == Goto(c, "done") /\ reply' = [reply EXCEPT ![c] = answer]

(* Fault: the password of the first pool is kept and used again.           *)
NewPoolCached ==
    [password |-> IF pools = <<>> THEN file.version ELSE pools[1].password,
     state |-> "open", idle |-> 0, busy |-> 0]
NewPool == [password |-> file.version, state |-> "open", idle |-> 0, busy |-> 0]

(* close_pool up to its await: a close() that the driver accepts, and one  *)
(* that it refuses.  A second close() of a pool that is still closing may  *)
(* go either way.                                                          *)
ClosableByForce == pools[pool].state # "closed"      \* fault: close(force=True)
Closable == pools[pool].state # "closed" /\ pools[pool].busy = 0
CloseMayRaise == pools[pool].state # "open" \/ pools[pool].busy > 0

StartClosing(t) ==
    /\ pools' = [pools EXCEPT ![pool].state = "closing"]
    /\ using' = [using EXCEPT ![t] = pool]
    /\ Goto(t, "close")

(* After it: the object the close() was awaited on is closed, and _pool is *)
(* cleared whatever it names by now.                                       *)
AfterClose(t) == [pools EXCEPT ![using[t]].state = "closed", ![using[t]].idle = 0]

Init ==
    /\ file = [kind |-> "good", version |-> 0]
    /\ dbPassword = 0
    /\ apart \in BOOLEAN
    /\ pool = None
    /\ pools = <<>>
    /\ pc = [t \in Tasks |-> IF t \in Sessions THEN "down" ELSE "idle"]
    /\ using = [t \in Tasks |-> None]
    /\ rebuilt = [c \in Calls |-> FALSE]
    /\ reply = [c \in Calls |-> "none"]

---------------------------------------------------------------------------
(* The lifespan: init_pool on entry, close_pool on exit                    *)

(* A pool that _pool named before is forgotten, not closed.                *)
Startup(s) ==
    /\ pc[s] = "down"
    /\ file.kind = "good"
    /\ pools' = Append(pools, NewPool)
    /\ pool' = Len(pools) + 1
    /\ Goto(s, "up")
    /\ UNCHANGED <<world, using, rebuilt, reply>>

InFlight == {"acquire", "query", "refused", "close"}

Shutdown(s) ==
    /\ pc[s] = "up"
    /\ \A c \in Calls : Home[c] = s => pc[c] \notin InFlight
    /\ \/ pool = None /\ Goto(s, "ended") /\ UNCHANGED <<pools, using>>
       \/ pool # None /\ CloseMayRaise /\ Goto(s, "ended") /\ UNCHANGED <<pools, using>>
       \/ pool # None /\ Closable /\ StartClosing(s)
    /\ UNCHANGED <<world, pool, rebuilt, reply>>

(* Fault: close_pool does not clear _pool.                                 *)
ShutdownKeepsName(s) ==
    /\ pc[s] = "close"
    /\ \/ pools' = AfterClose(s)
       \/ pools[using[s]].state = "closed" /\ UNCHANGED pools
    /\ Goto(s, "ended")
    /\ UNCHANGED <<world, pool, using, rebuilt, reply>>

ShutdownEnds(s) ==
    /\ pc[s] = "close"
    /\ \/ pools' = AfterClose(s) /\ pool' = None
       \/ pools[using[s]].state = "closed" /\ UNCHANGED <<pools, pool>>   \* close() raised
    /\ Goto(s, "ended")
    /\ UNCHANGED <<world, using, rebuilt, reply>>

---------------------------------------------------------------------------
(* fetch(), from _require_pool to its answer                               *)

Fetch(c) ==
    /\ pc[Home[c]] = "up"
    /\ pc[c] = "idle"
    /\ \/ /\ pool = None
          /\ Finish(c, "uninitialised")
          /\ UNCHANGED using
       \/ /\ pool # None
          /\ using' = [using EXCEPT ![c] = pool]
          /\ Goto(c, "acquire")
          /\ UNCHANGED reply
    /\ UNCHANGED <<world, pool, pools, rebuilt>>

(* What the acquire() a call awaits may come to.                           *)
Source(c) == pools[using[c]]
LogsIn(c) ==
    /\ pc[c] = "acquire"
    /\ Source(c).state = "open"
    /\ Source(c).idle = 0 /\ Source(c).busy < PoolMax

Lend(c) ==
    /\ pc[c] = "acquire"
    /\ Source(c).state = "open"
    /\ \/ /\ Source(c).idle > 0
          /\ pools' = [pools EXCEPT ![using[c]].idle = @ - 1, ![using[c]].busy = @ + 1]
       \/ /\ LogsIn(c) /\ Source(c).password = dbPassword
          /\ pools' = [pools EXCEPT ![using[c]].busy = @ + 1]
    /\ Goto(c, "query")
    /\ UNCHANGED <<world, pool, using, rebuilt, reply>>

(* The pool was closed, or the connection failed: no ORA-01017, no retry.  *)
AcquireFails(c) ==
    /\ pc[c] = "acquire"
    /\ \/ Source(c).state # "open" /\ Finish(c, "pool closed")
       \/ LogsIn(c) /\ Finish(c, "failed")
    /\ UNCHANGED <<world, pool, pools, using, rebuilt>>

(* init_pool and the acquire() that follows it, nothing awaited between.   *)
Rebuild(c, closed) ==
    \/ /\ file.kind = "good"
       /\ pools' = Append(closed, NewPool)
       /\ pool' = Len(closed) + 1
       /\ using' = [using EXCEPT ![c] = Len(closed) + 1]
       /\ rebuilt' = [rebuilt EXCEPT ![c] = TRUE]
       /\ Goto(c, "acquire")
       /\ UNCHANGED reply
    \/ /\ file.kind # "good"
       /\ pools' = closed
       /\ pool' = None
       /\ Finish(c, "no credential")
       /\ UNCHANGED <<using, rebuilt>>

(* Fault: every failure of the acquire() is taken for ORA-01017.           *)
AnyFailureIsRefusal(c) ==
    \/ pc[c] = "refused"
    \/ pc[c] = "acquire" /\ (LogsIn(c) \/ Source(c).state # "open")

(* A statement was refused, and its connection has gone back; or a login   *)
(* is refused, and one that was under way when the pool was closed may be  *)
(* refused as well.                                                        *)
AuthError(c) ==
    \/ pc[c] = "refused"
    \/ /\ pc[c] = "acquire"
       /\ Source(c).password # dbPassword
       /\ LogsIn(c) \/ Source(c).state # "open"

(* ORA-01017.  The first time the pool is closed and rebuilt: _pool, which *)
(* need not be the pool that the refusal came from.                        *)
RefusedAgainAndAgain(c) ==              \* fault: the retry is in a loop
    /\ AuthError(c)
    /\ pool # None /\ Closable /\ StartClosing(c)
    /\ UNCHANGED <<world, pool, rebuilt, reply>>
Refused(c) ==
    /\ AuthError(c)
    /\ \/ /\ rebuilt[c]
          /\ Finish(c, "ORA-01017")
          /\ UNCHANGED <<pool, pools, using, rebuilt>>
       \/ /\ ~rebuilt[c] /\ pool = None
          /\ Rebuild(c, pools)
       \/ /\ ~rebuilt[c] /\ pool # None /\ CloseMayRaise
          /\ Finish(c, "close failed")
          /\ UNCHANGED <<pool, pools, using, rebuilt>>
       \/ /\ ~rebuilt[c] /\ pool # None /\ Closable
          /\ StartClosing(c)
          /\ UNCHANGED <<pool, rebuilt, reply>>
    /\ UNCHANGED world

CloseReturns(c) ==
    /\ pc[c] = "close"
    /\ \/ Rebuild(c, AfterClose(c))
       \/ /\ pools[using[c]].state = "closed"    \* somebody else closed it
          /\ Finish(c, "close failed")
          /\ UNCHANGED <<pool, pools, using, rebuilt>>
    /\ UNCHANGED world

Returned(c) == [pools EXCEPT ![using[c]].busy = @ - 1, ![using[c]].idle = @ + 1]

(* Fault: the connection is not given back when the statement fails.       *)
QueryWithoutRelease(c) ==
    /\ pc[c] = "query"
    /\ \/ pools' = Returned(c) /\ Finish(c, "ok")
       \/ UNCHANGED pools /\ Finish(c, "failed")
    /\ UNCHANGED <<world, pool, using, rebuilt>>

(* execute(), fetchmany(), and the end of "async with pool.acquire()",     *)
(* which is awaited before the except clause sees the refusal.             *)
Query(c) ==
    /\ pc[c] = "query"
    /\ pools' = Returned(c)
    /\ \/ Finish(c, "ok")
       \/ Finish(c, "failed")
       \/ Source(c).password # dbPassword /\ Goto(c, "refused") /\ UNCHANGED reply
    /\ UNCHANGED <<world, pool, using, rebuilt>>

(* Fault: a connection is given back by a call that has none yet.          *)
CancelReturnsAlways(c) ==
    /\ \/ pc[c] \in {"refused", "close"} /\ UNCHANGED pools
       \/ pc[c] \in {"acquire", "query"} /\ pools' = Returned(c)
    /\ Finish(c, "cancelled")
    /\ UNCHANGED <<world, pool, using, rebuilt>>

(* CancelledError at an await: a lent connection goes back; a close() that *)
(* is under way leaves _pool naming the pool that is closing.              *)
Cancel(c) ==
    /\ \/ pc[c] \in {"acquire", "refused"} /\ UNCHANGED pools /\ Finish(c, "cancelled")
       \/ pc[c] = "close" /\ UNCHANGED pools /\ Finish(c, "cancelled in close")
       \/ pc[c] = "query" /\ pools' = Returned(c) /\ Finish(c, "cancelled")
    /\ UNCHANGED <<world, pool, using, rebuilt>>

---------------------------------------------------------------------------
(* The credential store and the database                                   *)

here == <<pool, pools, pc, using, rebuilt, reply>>

Rotate ==
    /\ ~apart
    /\ file.version < MaxRotations
    /\ file' = [kind |-> "good", version |-> file.version + 1]
    /\ dbPassword' = file.version + 1
    /\ UNCHANGED <<apart, here>>

WriteCredentialFile ==
    /\ apart
    /\ file.version < MaxRotations
    /\ \E k \in {"good", "unusable"} : file' = [kind |-> k, version |-> file.version + 1]
    /\ UNCHANGED <<dbPassword, apart, here>>

AlterUser ==
    /\ apart
    /\ dbPassword < MaxRotations
    /\ dbPassword' = dbPassword + 1
    /\ UNCHANGED <<file, apart, here>>

Acquire(c) == Lend(c) \/ AcquireFails(c) \/ Refused(c)

Next ==
    \/ \E s \in Sessions : Startup(s) \/ Shutdown(s) \/ ShutdownEnds(s)
    \/ \E c \in Calls : Fetch(c) \/ Acquire(c) \/ CloseReturns(c) \/ Query(c) \/ Cancel(c)
    \/ Rotate \/ WriteCredentialFile \/ AlterUser

Spec == Init /\ [][Next]_vars

(* An acquire() that can end does (a login by the driver's own connect     *)
(* timeout), a refusal is handled, and a close() ends.  No statement of    *)
(* this pool has a timeout, so nothing is assumed of Query.                *)
FairSpec == Spec /\ \A c \in Calls : WF_vars(Acquire(c)) /\ WF_vars(CloseReturns(c))

---------------------------------------------------------------------------
(* Properties                                                              *)

(* Types; no pool lends or keeps more connections than its maximum.        *)
TypeOK ==
    /\ file \in [kind : {"good", "unusable"}, version : 0..MaxRotations]
    /\ dbPassword \in 0..MaxRotations
    /\ apart \in BOOLEAN
    /\ pool \in {None} \cup DOMAIN pools
    /\ pools \in Seq([password : 0..MaxRotations, state : {"open", "closing", "closed"},
                      idle : 0..PoolMax, busy : 0..PoolMax])
    /\ \A p \in DOMAIN pools : pools[p].idle + pools[p].busy <= PoolMax
    /\ \A c \in Calls : pc[c] \in {"idle", "acquire", "query", "refused", "close", "done"}
    /\ \A s \in Sessions : pc[s] \in {"down", "up", "close", "ended"}
    /\ \A t \in Tasks : using[t] \in {None} \cup DOMAIN pools
    /\ rebuilt \in [Calls -> BOOLEAN]

(* One pool per session and per refused call, and none besides: a second   *)
(* refusal is passed on (tests/test_oracle_pool.py:148).                   *)
OneRebuildPerCall ==
    Len(pools) = Cardinality({c \in Calls : rebuilt[c]})
                 + Cardinality({s \in Sessions : pc[s] # "down"})

(* A pool counts as lent exactly what calls hold, however they end.        *)
ConnectionsReturned ==
    \A p \in DOMAIN pools :
        pools[p].busy = Cardinality({c \in Calls : pc[c] = "query" /\ using[c] = p})

(* A rebuild or a shutdown never closes a pool under a running statement.  *)
StatementsKeepTheirPool ==
    \A c \in Calls : pc[c] = "query" => pools[using[c]].state = "open"

(* The rebuilt pool reads the file afresh: if the file follows the         *)
(* database, one rotation never costs a call both its tries.               *)
RefusedTwiceTakesTwoRotations ==
    \A c \in Calls : reply[c] = "ORA-01017" => apart \/ file.version >= 2

(* _pool never names a pool that has closed, and it names one that is      *)
(* closing only while a task awaits that close(), or since a call was      *)
(* cancelled at this very await, and so never gets to clear it.            *)
ClosesOrGaveUp(t, p) ==
    using[t] = p /\ (pc[t] = "close" \/ (t \in Calls /\ reply[t] = "cancelled in close"))
NamedPoolIsUsable ==
    pool # None =>
        /\ pools[pool].state # "closed"
        /\ pools[pool].state = "closing" => \E t \in Tasks : ClosesOrGaveUp(t, pool)

(* A fetch loses its pool, or is refused its close(), only after a session *)
(* has left, or the password has changed and another call has got past its *)
(* first acquire(): what is no ORA-01017 leaves the pool alone             *)
(* (_is_auth_error), and no call gets in its own way.                      *)
LostPoolHasACause ==
    \A c \in Calls : reply[c] \in {"pool closed", "close failed"} =>
        \/ \E s \in Sessions : pc[s] \in {"close", "ended"}
        \/ /\ file.version + dbPassword > 0
           /\ \E d \in Calls \ {c} : rebuilt[d] \/ pc[d] \in {"query", "refused", "close", "done"}

(* A fetch goes back once at most, to acquire from the pool it has rebuilt, *)
(* and takes eight steps at most, with one close, one rebuild and two       *)
(* statements among them.                                                   *)
Ahead == [idle |-> 8, acquire |-> 3, query |-> 2, refused |-> 1, close |-> 4, done |-> 0]
StepsLeft(c) ==
    Ahead[pc[c]] + IF pc[c] \in {"acquire", "query", "refused"} /\ ~rebuilt[c] THEN 4 ELSE 0
FetchesOnlyAdvance ==
    [][\A c \in Calls : StepsLeft(c)' < StepsLeft(c)
                       \/ UNCHANGED <<pc[c], using[c], rebuilt[c], reply[c]>>]_vars

(* To the fetches the pools are what Lending describes: however the tasks  *)
(* interleave, none is shut under a borrower or opens again, none lends    *)
(* beyond its room, and each step of this module is one of Lending or none.*)
Promise ==
    INSTANCE Lending WITH
        Borrowers <- Calls, Room <- PoolMax,
        opened <- Len(pools),
        shut <- {p \in DOMAIN pools : pools[p].state # "open"},
        holds <- [c \in Calls |-> IF pc[c] = "query" THEN using[c] ELSE 0],
        done <- {c \in Calls : pc[c] = "done"}
LendingSpec == Promise!Spec

(* A fetch ends unless some statement runs for ever: rebuilds strand no    *)
(* waiter, and a full pool is waited for only while it is in use.          *)
DatabaseAnswers == \A c \in Calls : []<>(pc[c] # "query")
EveryFetchEnds ==
    DatabaseAnswers => \A c \in Calls : (pc[c] = "acquire" ~> pc[c] = "done")

---------------------------------------------------------------------------
(* What the repository says and the code does not do (see README.md)       *)

(* "oracle pool not initialised; call init_pool(cfg) at startup"           *)
(* (oracle.py:87): no call is told so by a server that started.            *)
StartedIsInitialised ==
    \A c \in Calls : reply[c] # "uninitialised"

(* "Open the async pool on entry, close it on shutdown" (server.py:87-88): *)
(* when all sessions of a server have ended, and its calls met nothing     *)
(* unusual, the pool it opened first is closed.                            *)
FirstPoolIsClosed ==
    /\ \A s \in Sessions : pc[s] = "ended"
    /\ \A c \in Calls : reply[c] \in {"none", "ok"}
    => pools[1].state # "open"
=============================================================================
