# A TLA+ verification of cognic-tool-oracle-schema

`cognic-tool-oracle-schema` is an MCP server with six read-only metadata tools
and one governed query tool. A kernel signs a short-lived token for each agent
call of `run_readonly_query`; the server checks the token, the SQL and the
objects it touches in seven fail-closed arms, and then runs the statement on a
dedicated Oracle session that acts as the token's database identity. This
directory holds the models of that program, the TLC runs that check them on
small instances, and the theorems TLAPS proves of them for every instance.

Paths below are relative to `src/cognic_tool_oracle_schema/` of the repository.

## The system

| Part | State it keeps | Operations | Interacts with |
|---|---|---|---|
| `readonly_query.run` / `_execute` | per call: where its coroutine is suspended, the credential read, its dedicated connection, the result pending behind `close()` | arms 1-7, one retry of the login, stamp, execute, fetch, close | replay cache, key files, credential file, database, its caller (cancellation) |
| `readonly_query.ReplayCache` | jti -> exp of the tokens seen | `check_and_insert` (evicts, then tests, then inserts) | every call, the wall clock |
| `query_context.verify_query_context` | none | signature, shape, expiry, audience, in that order | arm 1 |
| SQL gate (`_analyze`, `_referenced_objects`, `_out_of_scope_objects`, `_apply_row_bound`) | none | arms 4-6 | sqlglot |
| `credential.read_credential` | none; reads a file others replace | resolve, stat, read, validate | credential store, both database legs |
| `oracle` (metadata pool) | the module global `_pool` and its connections | `init_pool`, `close_pool`, `fetch` with one rebuild on ORA-01017 | metadata tools, lifespan, database, credential file |
| `tools` | none | six fixed queries with binds, owner guard, limit+1 truncation | `oracle.fetch` |
| `server` | the FastMCP app | registers the tools, pool lifespan | FastMCP, everything above |
| `config` | none | `Config.from_env`, fail-closed | environment |
| `auth` | a JWKS client | bearer verification, scope check | FastMCP |

Everything runs in one process on one asyncio event loop. A coroutine runs
without interruption between two awaits; at each await any other call runs, the
caller may cancel, the clock moves, operators rotate keys and passwords. What is
hard here is therefore: the arms are checked at one instant and used at another;
the replay cache forgets and dies with the process; the credential file and the
database password change independently of each other and of the two system calls
that read the file; the retry, `close()` in a `finally` clause and cancellation
combine; the pool is rebuilt by whoever meets ORA-01017 first, and second.

What makes each part correct:

* replay cache: a token is accepted at most once in a process lifetime although
  entries are evicted; eviction really bounds the cache;
* governed query: only checked statements reach the database, under the right
  identity and already stamped; the reply tells what happened at the database;
  every session is closed; every call ends; truncation is never silent;
* credential reads: the several system calls of a read amount to one read of what
  the path showed; a rotation does not cost a call both logins; the rotation
  marker of a reply never runs ahead of the password used;
* pool: a rebuild does not disturb statements that are running, connections go
  back and stay within the configured maximum, later fetches find a pool;
* metadata tools: an answer is what the dictionary held, whole or marked as cut;
  the allow-list serves the owners it lists, however spelt, and no others;
* bearer tokens and configuration: a tool is reached under authority only, also
  when the clock moves between the decoding of a token and its use.

## Modules

| Module | Models | Remarks |
|---|---|---|
| `ReplayCache` | `ReplayCache` | operators on the one field, a function jti -> exp |
| `QueryContext` | `verify_query_context`, `_parse_claims` | a token is its signer, the claim names present, those mistyped, and the claims |
| `SqlGate` | arms 4-6 | over what sqlglot reports of a text; identifiers are `<<words, case>>`, cut at dots, so that folding and joining are visible |
| `GovernedQuery` | `run`, `_execute`, `_load_public_keys`, `read_credential`, process, operators, database | extends the three above; one action per stretch between awaits |
| `SingleUse` | abstract: what arm 2 promises | no cache, clock or expiry; `GovernedQuery` implements it |
| `MCGovernedQuery` | values for TLC | SQL texts, tokens, request sets |
| `CredentialFile`, `MCCredentialFile` | `credential.read_credential` and the ways a store writes the file | refines `Stat` and `Read` of `GovernedQuery` in prose, not by a mapping |
| `CredentialReads` | abstract: what a reader may count on | no links or system calls; `CredentialFile` implements it |
| `MetadataPool`, `MCMetadataPool` | `oracle.py` and the pool lifespan of `server.py` | stands alone: the governed leg never touches the pool |
| `Lending` | abstract: what the pools are to those who borrow from them | no passwords, logins, counters or global; `MetadataPool` implements it |
| `ServerConfig` | `Config.from_env` | operators; strings are `[word, case, padded]` so that stripping and folding are visible |
| `BearerAuth` | `auth.py`, with what PyJWT and FastMCP do around it | operators, extends `ServerConfig` |
| `MetadataTools` | `tools.py`, `guard_owner` and the page of `fetch` | operators, extends `ServerConfig`; a query is a set of rows over the `ALL_*` views |
| `ToolServer`, `MCToolServer` | `build_server` and a metadata call from token to answer | composes the three above |
| `SingleUse_proofs`, `GovernedQuery_proofs`, `GovernedLedger_proofs` | theorems of the governed query | the last extends the second: what a call is told against what the database did |
| `MetadataPool_proofs`, `PoolLending_proofs` | theorems of the metadata pool | the second extends the first: the step cases of the refinement |
| `CredentialFile_proofs` | theorems of `CredentialFile` | |
| `MetadataTools_proofs`, `ToolServer_proofs` | theorems of the metadata tools | the first is about sorted rows, pages and joins, for any dictionary; the second about calls |

### GovernedQuery, action by action

Arms 1 to 6 and the identity check that opens arm 7 hold no await, so each way
through them is one step from `idle`: `RefuseContext` (arm 1), `RefuseReplay`
(arm 2, keeping the eviction), `RefuseGate` (arms 3-7, the jti already burned)
and `Admit`. `Stat` and `Read` are `read_credential`: the event loop is held
(`LoopFree`), but the credential store is another process and may write between
the two. `LoginAccepted`, `LoginDenied` (ORA-01017: read again, once) and
`LoginFailed` are `connect`; `LoginAccepted` includes the assignment of
`call_timeout`, which raises for an infinite setting when the session is already
open. `Stamp`, `Execute`, `Fetch` and `Close` are the four round trips, each
with its failure; `result` is what waits behind the `finally` clause. `Cancel`
is `CancelledError` at any await. `Restart` empties the cache and loses the
calls; statements in flight at a cancellation or a restart may have run.

`Tick`, `StepBack`, `WriteKeyFile`, `Rotate`, `WriteCredentialFile` and
`AlterUser` are the world: clock, operators, credential store, database.
`RotationSkew` says whether file and database change apart or in one instant.

Variables correspond to the code's own where it has them: `seen` is
`_replay_cache._seen`, `statMtime` the `stat` local, `credential` the
`CredentialRead`, `session` the `conn` with what the database knows of it,
`result` and `reply` the envelope. `audit` is the database's audit trail. `spent`
(the jtis accepted since the process started) and `firstRead` (the version of the
file a call read first) are history variables that no action reads.

### MetadataPool, action by action

`pools` holds every pool object created and `pool` is the module global `_pool`,
an index into it, because objects outlive the global that named them. `Fetch` is
`fetch` up to the `acquire()` it awaits; `Lend`, `AcquireFails` and `Refused` are
what that may come to. `Refused` (ORA-01017) contains everything up to the next
await: `close_pool` may find no pool, may raise, or starts closing whatever
`_pool` names. `CloseReturns` is the rest of `close_pool`, `init_pool` with its
credential read, and the second `acquire()`. `Query` is `execute`, `fetchmany`
and the return of the connection: an answer, a failure, or a statement refused
with ORA-01017 (`tests/test_oracle_pool.py:126` raises it there). A refused
statement has given its connection back before the `except` clause looks at the
error; in between the call is at `refused`, and `Refused` goes on from there as
it does from a refused login (`AuthError`). `Cancel` is cancellation at each
await; one that strikes at `close()` answers `cancelled in close`, because only
that one leaves something behind.
`Startup`, `Shutdown` and `ShutdownEnds` are the lifespan, entered once per
session: `server.py:101` asks for a stateful transport, and FastMCP (the version
`uv.lock` pins) runs the low-level server, lifespan included, for each session of
one. All sessions share the one global, so `Startup` of a second session forgets
the pool of the first. A session leaves its lifespan after its own calls have
ended (`InFlight`). `apart` says whether this deployment changes file and
database in one instant or independently.

`Lending` says what this is to the fetches: pools are opened one by one and shut
for good, never while they have lent a connection, none lends more than its room,
and a fetch holds one connection at a time and none when it is through. The end of
a refused statement is `Return`. A rebuild is `Shut` at the step that starts the
`close()` and `Open` at the step that returns from it; the second `close()` of a
pool that is closing, and what a `close()` does when it returns, are stutters.

The driver is external and assumed to do what the header of the module says. The
one liberty left to it is a second `close()` of a pool that is still closing,
which may complete or raise. A connection that is open when the password changes
stays usable; a statement on it may be answered, or refused with ORA-01017.

### CredentialFile, action by action

`files` is what lies in each place (a directory), `place` where the configured
path leads now. `Begin`, `Resolve`, `Stat` and `Read` are the system calls of
`read_credential`: the mount directory is resolved, the path is resolved and
tested to lie inside it, the size and mtime are taken, the bytes are read and
checked. `Replace`, `WriteInPlace`, `Switch` and `RemoveOld` are the store in
its four styles. `shown` and `since` are history: the files the path has led to,
and how many there were when the read began.

`CredentialReads` says in terms of `shown` alone what a read may do: return the
mtime of one file and the password of the same or a later one, both shown during
the call, or refuse if the file was bad or something was written during the
call. This is what `Stat` and `Read` of `GovernedQuery` and `NewPool` of
`MetadataPool` build on. They leave out one failure that `CredentialFile` has: a
read that a switch of the link disturbs fails although the file is good
(`GovernedQuery` has a failing read for other reasons, with the same effect).
The size bound is that of the file that was `stat()`ed: a file replaced
before `read_bytes()` is read whatever its size.

### ToolServer, action by action

`Build` is `build_server`: the process is up with a `Config` or refuses to start.
`Receive` is a request at FastMCP, `Verify` the verifier (whose decoding runs in
a thread), `Admit` FastMCP's check of expiry and scopes followed by the tool up to
its first await, which contains `guard_owner`; `Query` is the statement and the
page. `Tick` and `Alter` are the clock and DDL or grants by others. `asked`,
`arrivedAt`, `admittedAt` and `keysFetched` are history. The fetch of the issuer's
keys may fail at any `Verify` in jwt mode; the blanket `except` of `verify_token`
makes that a refusal like any other. A fraction in `exp` makes `verify_token` raise
(`AccessToken.expires_at` is an `int`), outside the `try` that makes every other
bad token `None`.

Identifiers of the dictionary are strings like those of the environment; a quoted
identifier is one in lower case, and folding an argument to upper case cannot
name it. `d.grants` is what the connecting user may see: the `ALL_*` views leave
out everything else, a parent key included. A `LIKE` pattern is the set of names
it matches, taken as it is written (the code does not fold it).

### Abstractions

* What the gate makes of names is modelled as the code has it: the parts of a
  reference are joined with dots, everything is folded to upper case, and an
  unqualified reference with the name of any CTE of the statement is skipped
  (`Dotted`, `TakenForCte`). What the database makes of them is given with each
  table node: its identifiers and whether it is a CTE there (`cte`). Scoping
  itself is not computed. Where the two may differ is `NamesAreClear`: a quoted
  identifier with a dot in it, or a table that shares its name with a CTE of the
  statement. `ExecutedIsGoverned` says which tables are read only for statements
  whose names are clear; `reused_names` shows the second case, and matching on
  the dotted name (the first) is documented (`README.md:71`), as is folding. A
  table function has no name and is no table of the token's list.
* A digest is injective: `Digest` is the tuple of what is digested. What the
  two sides feed into it differs exactly where the code's differs (a null
  `max_rows`).
* A credential version stands for both password and mtime: the writer gives
  each version of the file its own.
* Key files are read with the clock in one step; a call that reads two files
  around a rewrite sees a mix of contents, each of which some state offers.
* A statement's rows are a count; the database honours the FETCH clause.
* Time is in seconds, timeouts in microseconds (`int(s * 1000)` is a division).
* A login that is cancelled while the driver is connecting is the driver's to
  clean up; the code never receives that connection.
* Messages, logging and the projection of cells to JSON are left out.

## Runs

All runs set `CHECK_DEADLOCK FALSE`: calls are finite in number, so a state in
which all have ended and every counter has met its bound is a normal end.

| Run | Instance | Shows |
|---|---|---|
| `replay` | 3 calls, 2 tokens expiring at 1 and 2, clock 0..2, 1 restart, symmetric calls | `RememberedWhileLive`, `TokenPaysOnce`, `CacheHoldsLiveTokens`, `SingleUseSpec` |
| `retry` | 2 calls of 2 subjects, 2 rotations of file and database at once, fairness | `ExecutedIsGoverned`, `RetrySurvivesRotation`, `EveryCallEnds` |
| `arms` | 1 call, a request per way to be admitted or refused, 2 key files rewritten, 1 write of the credential file and 1 change of the database password, independent, 3 timeout settings, clock back and forth, 1 restart | `TypeOK`, `ExecutedIsGoverned`, `ReplyMatchesDatabase`, `TruncationIsReported`, `RotationRefNeverAhead`, `SessionsReleased`, `CallsOnlyAdvance` |
| `pool` | 2 sessions with a fetch each, pool of 1, 2 rotations, together or apart, failures and cancellation, fairness | `TypeOK`, `OneRebuildPerCall`, `ConnectionsReturned`, `StatementsKeepTheirPool`, `RefusedTwiceTakesTwoRotations`, `NamedPoolIsUsable`, `LostPoolHasACause`, `FetchesOnlyAdvance`, `LendingSpec`, `EveryFetchEnds` |
| `credential` | 4 writer styles, 3 writes, a file for every check, any number of reads | `TypeOK`, `RenameNeverRefuses`, `CredentialReadsSpec` |
| `tools` | 14 environments (8 that do not start), 13 bearer tokens, 15 requests over all six tools, 3 dictionaries, clock 0..2 | `TypeOK`, `ReachedUnderAuthority`, `RefusalsHaveAReason`, `AnswersAreWhole`, `TruncationIsTold`, `ListedOwnersAreServed`, `NarrowedToListed` |

Bounds (`MaxTime`, `MaxRotations`, `MaxRestarts`) cut only counters. Three calls
are enough for a token to be accepted, evicted and presented again while another
one lives; two rotations are enough to cost a call both logins; an expiry of 1
and one of 2 put eviction strictly between two live tokens. `replay` keeps the
clock from being set back, which its properties need (see below).
`arms` has one call and every kind of request; what other calls may do between the
arms of a call and its statement is in `retry`, where two calls of two subjects
meet at every await. `retry` has no restart: `replay` and `arms` have. Two fetches of two sessions
are enough to close a pool that another is acquiring from or has replaced, and
for both to find the pool gone. Three writes put one before, one during and one
after a read, each style with the removal of what it replaced. The dictionaries
hold a foreign key of two columns whose parent key has them in another order and
belongs to another owner, a check on no column, a view, a quoted table, a revoked
grant and a dropped table; row caps of 1 and 2 are met exactly and exceeded.
`ToolServer` needs one call because calls share nothing but the pool.

### Fairness

`FairSpec` assumes weak fairness of three things for each call: the steps the
event loop takes by itself (`Local`); the end of a login attempt, because the
driver bounds it by its own connect timeout; and the end of each later round
trip only when `CallTimeout > 0`, because then the driver ends it. Nothing is
assumed of operators, of cancellation or of the clock.

`MetadataPool!FairSpec` assumes that an `acquire()` that can end does and that a
`close()` does. Statements of the pool have no timeout, so nothing is assumed of
them: `EveryFetchEnds` has the premise that no statement runs for ever.

### Disagreements between text and code

Each of these runs checks one sentence of the repository and TLC finds it
violated by what the code does.

| Run | Sentence | What happens |
|---|---|---|
| `stamp_then_close` | `readonly_query.py:43` "Stamp failure -> query_identity_stamp_failed" | a `close()` that raises in the `finally` clause replaces the refusal by query_execution_failed |
| `null_max_rows` | `readonly_query.py:18` "max_rows ONLY when the wire carried it" | a null on the wire is digested by the kernel and dropped by the server |
| `submillisecond_timeout` | `README.md:77` "a per-call statement timeout" | below 1 ms `int(s * 1000)` is 0, which disarms the timeout |
| `reused_names` | `README.md:68` "every referenced table (including inside CTEs / subqueries / joins [...]) must be in the TOKEN's `objects` set" | a name that is a CTE in one scope and a table in another is taken for the CTE in both |
| `pool_lost` | `oracle.py:87` "oracle pool not initialised; call init_pool(cfg) at startup" | a rebuild that finds the file unusable leaves `_pool` None; fetches are told so until another session's lifespan, or a restart, initialises the pool |
| `sessions_share_pool` | `server.py:87` "Open the async pool on entry, close it on shutdown" | two sessions up together: the second start puts its pool under `_pool`, whichever leaves first closes that one, and the pool of the first start is never closed |

(`README.md` here is the repository's.) In `sessions_share_pool` no call meets a
refusal, a failure or a cancellation. The second session may also start while the
first one is still closing its pool; then that `close_pool` clears `_pool` when it
returns, and the pool of the second start is the one that nobody closes.

Five more, seen while modelling and not made runs. `ReplayCache` evicts a token
at `exp` because "after that instant the verifier's expiry arm refuses the token
anyway" (`readonly_query.py:145`); both compare `exp` with a wall clock, and once
that is set back to before `exp` the evicted token verifies again
(`RememberedWhileLive` fails in `replay` with `ClockMayStepBack = TRUE`). The
allow-list "further restricts which owners the tools return" (`README.md:128`), but
`guard_owner` narrows the owner asked about only: the owner and the table of a
foreign key's parent are returned although that owner is not listed. `CHANGELOG.md:18` calls the
rotation reference a "file-mtime marker", but `stat()` precedes `read_bytes()`:
the new password may travel with the old mtime (`RotationRefNeverAhead` is what
does hold). `CHANGELOG.md:14` promises "one fresh-read retry on ORA-01017
rotation races", but one rotation may fail one of two concurrent fetches: its
pool is closed under its `acquire()`, or its own `close()` finds the new pool in
use, and neither is ORA-01017. And if the driver accepts a second `close()` of a
pool that is closing, the second of two calls that close it also clears the pool
the first has built, which stays open and unreachable.

### Faults

A definition whose comment starts with "Fault:" is the code with a plausible
mistake (an off-by-one in eviction, a dropped floor, a refusal returned from
outside the `finally`). It is used by no specification; put in the place of the
definition it follows, TLC refutes the property it is paired with in
`PROJECT.json`.

## Theorems

Proved by TLAPS for every number of calls, sessions, requests, keys, tokens,
rotations, writes and restarts, every pool size, environment and dictionary.
Every safety property that a passing run checks is the statement of one of these
theorems. Each inductive invariant was checked by TLC on the instance of its
run before it was proved.

### The governed query

* `SingleUse_proofs!AtMostOnce`: in the abstract gate a token pays for at most
  one statement. The inductive invariant adds that permits are exclusive and
  that what has run is spent.
* `TypeSafety`: types, with every executed bound in `0..500` and at most two
  logins a call. `IInv` adds `Governed` (a call past the arms carries a request
  that passed them), without which the bound of a statement is unknown, and
  `LoginLeft`, without which the login count is.
* `CacheIsPruned`: a jti only enters a cache in which every token is live.
* `CacheRemembers`: eviction never forgets a token that still verifies. Rests
  on `JtiAssumption` and on `~ClockMayStepBack`, which is a premise of this theorem
  and of the two that follow, and is needed (see "Disagreements").
* `ImplementsSingleUse`: the process implements `SingleUse`, by `IInv`,
  `RememberedWhileLive` and `AuditLives` (statements are filed under a process
  life not later than the current one). Every action maps to an abstract one or
  to a stutter: acceptance to `Accept` or `Burn`, the statement to `Run`, every
  other way out to `Drop`. A restart is the abstract `Restart`, which forgets.
* `NoTokenPaysTwice`: and so the audit trail shows no two statements on a token
  in one process lifetime. The invariant of the gate (`SingleUse_proofs!IInv`)
  is carried over the refinement: what joins the trail was in flight on a permit
  nobody else holds and nothing has run on. That holds at a restart too, where
  several statements may join at once and the abstract gate has no more to say.
* `SessionsAreReleased`: no ending leaves a session open.
* `StatementsAreGoverned`: no statement reaches the database but a governed
  one, by `IInv` and `SessionGoverned` (the session carries the identity of the
  call's token and, before the statement, its stamp). It has the signed arguments,
  the identity and the stamp for every statement, and the tables for those whose
  names are clear: there what the gate compares is what the database reads
  (`DottedDenotes`, `GateMeans`).
* `RepliesMatchTheDatabase`, `RowsAreNotLostSilently`, `MarkerNeverAhead`: what a
  call is told is what happened. `Ledger` says of each call what its program
  counter means for the audit trail, and that the outcome waiting for `close()`
  and the reply both tell it (`Tells`): both, because `close()` may put its own
  failure in the place of the outcome. A step of another call leaves a ledger as
  it is (`LedgerFrame`), so one call at a time is enough.
* `RetryIsWorthMaking`: when file and password change together, a call that is
  refused its second login has seen the password change twice since its own first
  read, however often the process rotates in all. `RotationSeen` adds what a call
  that is reading again knows: a rotation has happened since `firstRead`, and the
  file is not older than it.

* `CallsAdvance`: the half of `EveryCallEnds` that needs no fairness. `StepsLeft`
  counts down from eleven with every step of a call, because the credential read
  and the login are done again once and nothing else is. `Onward` lists where a
  step can take a coroutine; a step of another call leaves the count as it is.

### The metadata pool

* `PoolTypes`, `NoStatementLosesItsPool`, `NoConnectionLeaks`: one invariant. A
  task in flight uses an object that exists, and one suspended in `close()` an
  object that is not open (`Held`); since `close()` without force starts only on
  an object that has lent nothing, and the count of what it has lent is exact
  (`ConnectionsReturned`), no statement loses its pool. None of the three is
  inductive without the others.
* `PoolsAreCounted`: as many pools as sessions entered and calls that rebuilt.
  Needs `RebuildsOnce`: a call that waits in `close()` has not rebuilt before.
* `OneRotationIsSurvived`: when file and password change together, being refused
  twice takes two rotations. `Fresh` and `Aware` carry what a call knows from its
  first refusal to its second: its rebuilt pool holds a rotated password. A call
  whose statement was refused knows it still when it gets to act on it.
* `LaterFetchesFindAPool`: `_pool` never names a pool that has closed, and names one
  that is closing only while a task awaits that `close()`, or since a call was
  cancelled at this await and at no other. A step of a task does one of three things to
  the states of the pools (`Closes`): nothing, or it only adds one (`Stays`); it
  starts to close what `_pool` names (`Starts`); it has closed its own and puts None
  or a new pool under `_pool` in the same breath (`Ends`). `Named` is the invariant;
  it needs `Answered`: a cancelled call does no more.
* `LossesHaveACause`: while no session leaves, a fetch finds its pool closed, or is
  refused its `close()`, only after a change of password and because of another
  call. `NoneAhead` tells that a refusal takes a change (no pool has a password the
  file never held). `Explained` says of each pool that is not open who may have
  closed it: a call still in `close()`, one that is done, or one that uses a younger pool. The
  younger pool is why a call is never the cause of its own loss.
* `FetchesAdvance`: the half of `EveryFetchEnds` that needs no fairness. `Onward`
  lists where a step can take a fetch. The longest way has eight: `_require_pool`,
  a connection, a refused statement, `close()`, the rebuild, a connection, another
  refused statement, and the answer.
* `ImplementsLending`: the process implements `Lending`. A step of a call is a case
  of `Onward` and a case of `Closes`, and each pair is one abstract action or a
  stutter (`CallKeepsPromise`): it ends is `Leave`, it has a connection is `Borrow`,
  its statement was refused is `Return`, it starts closing an open pool is `Shut`, it has rebuilt is `Open`. What makes
  `Shut` and `Borrow` allowed is `ConnectionsReturned`: the counts by which
  `close()` and `acquire()` go are the numbers of borrowers (`HoldersAreCounted`).

### Credential reads

* `ReadTypes`, `ReadsAreOneRead`: the system calls implement `CredentialReads`.
  `Unhurried` says that until the store writes, the read looks where the path
  led when it began; `Traced` that what it has open is a file shown since then,
  and what it measured one shown no later; `Placed` what each style of writing
  guarantees about places, without which a file could be overwritten after it was
  shown. `Stat` maps to a stutter, the end of a read to `Return` or `Refuse`.
* `RenamesAreSafe`: while good files are renamed over one another, the path has
  shown nothing but good files, so no check of a read can fail.

### The metadata tools

* `MetadataTools_proofs!PageIs`: for any finite set of rows and any limit, the page
  has no item twice, is marked as truncated exactly when one is missing, and is
  then full. `ORDER BY` puts a strict linear order on the rows (`SoonerOrNot`,
  `SoonerThanSooner`, `OneIsSooner`), so each row has one more before it than the
  one it follows, and by counting every place is held by one row
  (`EveryPlaceIsHeld`, `RowsArePlaced`). This needs keys that tell the rows apart
  (`Sortable`), which the queries' own `ORDER BY` lists are shown to be.
* `AnswersHoldWhatTheDictionaryHolds`, `CutsAreTold`, `ServerTypes`: each query
  selects such rows and exactly what `Whole` reads off the objects
  (`SchemasAreTold` to `ConstraintsAreTold`, gathered in `SelectIsTold`). The
  joins over constraints rest on the uniqueness of names and positions in a
  dictionary (`ColumnsOfIs`, `ReferredToIs`, `OppositeIs`).
* `ToolsAreReachedUnderAuthority`: `Met` keeps what the call has met, `Authority`
  that its access is what `verify_token` made of its token at a time not later
  than its admission; the expiry FastMCP looks at is then the token's.
* `GoodTokensGetThrough`: once the keys are there, no token that is good from its
  arrival on is refused, and a server error takes a token of the issuer. `Met` keeps
  that `access` is of a time since the arrival (`VerifiedAt`), and a token good then
  and now was good in between; the two places for scopes are read in one order, so
  this needs that the other one is empty (`Grants`).
* `ListedOwnersGetThrough`, `OnlyListedAreAskedAbout`: two spellings fold to the
  same owner exactly if they are one word (`FoldedSame`); `guard_owner` and the
  predicate of a query let through the same owners (`PredicateIs`).

### Assumptions

Each is stated in the module that declares its constants, and TLC evaluates it on
the values of every run of that module.

| Module | Assumption | Why the code or its surroundings justify it |
|---|---|---|
| `GovernedQuery` | `BoundsAssumption` | bounds are naturals |
| | `RequestsAssumption` | JSON and the wire schema give fields their types |
| | `KeysAssumption` | the key files are a function on the paths |
| | `JtiAssumption` | two signed tokens that share a jti share their expiry: the kernel mints a jti once |
| `MetadataPool` | `PoolAssumption` | a pool has room for a connection (the driver's minimum) |
| | `TasksAssumption` | finitely many calls and sessions, a call belongs to one session |
| `CredentialFile` | `CredentialFileAssumption` | the four styles of writing; the values for "no file" and "no text" are neither |
| `MetadataTools` | `NoArgAssumption` | None is no string |
| `ToolServer` | `MaxTimeAssumption` | the bound of the clock is a natural |
| | `EnvironmentsAssumption` | the environment is text, a number in it an integer |
| | `TokensAssumption` | PyJWT takes integers for the claims it compares (a fraction in `exp` is kept apart) |
| | `RequestsAssumption` | the wire schema demands the owner of the tools that take one |
| | `DictionariesAssumption` | what Oracle keeps true of its dictionary: `WellFormed`, unique names and positions, a foreign key refers to a key of as many columns |

`MaxWord` of `ServerConfig` bounds how many words there are, at 1000, so that
`Rank` can put quoted names after the others; nothing else depends on it.

### Only model-checked

`EveryCallEnds` and `EveryFetchEnds`: liveness under fairness is out of the
prover's reach. `CallsAdvance` and `FetchesAdvance` prove that there is nothing to
wait for but at most eleven steps of a call and eight of a fetch; that these are
taken, and that a step is always enabled, stays with TLC. Nothing else that a
passing run checks is left to TLC alone.

## Not modelled

Two refinements were considered and are left out. An abstract metadata server that
answers from `Whole` in one step would say what `AnswersAreWhole`,
`ReachedUnderAuthority` and `NarrowedToListed` say together, which are theorems.
That `Stat` and `Read` of `GovernedQuery` implement `CredentialReads` stays in prose:
`GovernedQuery` keeps the current file and no history of what the path has shown,
and the history would serve no property of it.

Hazards without a property are listed in `PROJECT.json` with the reason. A metadata
statement without a timeout and an expiry between the check and the statement have
no promise in the repository to state; the models contain the steps. That a call
cancelled during `close()` leaves `_pool` naming a pool nobody will open again is
not caught: the code does it, and `NamedPoolIsUsable` makes an exception for a call
cancelled at this await, and for no other. Nor is a foreign key whose parent the
user may not see: `Whole` asks for the others only. Nor a password that is read
while it is written in place, which no check can tell from a whole one. Two
limits of the input are noted here only: `COGNIC_ORACLE_POOL_MAX` has no lower
bound (`MetadataPool` assumes at least 1), and a quoted lower-case table is listed
but cannot be named in an argument, which is folded to upper case.

Left out for good: sqlglot, joserfc, PyJWT, FastMCP and oracledb (external; used
through what the code asks of them), the caching of the JWKS (PyJWT's), the host,
port and URLs of the server, `_json_safe` (a projection of cells),
`__init__.py` (two constants), the release scripts and workflows.
