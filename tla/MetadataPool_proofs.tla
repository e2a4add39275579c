-------------------------- MODULE MetadataPool_proofs --------------------------
(***************************************************************************)
(* Theorems of MetadataPool for every number of calls, sessions and        *)
(* rotations, and every pool size.                                         *)
(*                                                                         *)
(* The argument: a task in flight uses a pool object that exists, and one  *)
(* that is suspended in close() uses an object that is no longer open      *)
(* (Held); a close() is only ever awaited on an object that has lent       *)
(* nothing, by a count that is exact (ConnectionsReturned); hence no       *)
(* statement loses its pool.  Rebuilds are counted by rebuilt, which a     *)
(* call sets once (RebuildsOnce), and a rebuilt pool is as new as the file *)
(* (Fresh).                                                                *)
(***************************************************************************)
EXTENDS MetadataPool, FiniteSetTheorems, TLAPS

Held ==
    /\ \A t \in Tasks : pc[t] \in InFlight => using[t] \in DOMAIN pools
    /\ \A t \in Tasks : pc[t] = "close" => pools[using[t]].state # "open"

RebuildsOnce == \A c \in Calls : pc[c] \in {"idle", "close"} => ~rebuilt[c]

(* What a call may know of the rotations, when the file follows them: it   *)
(* is refused, and closes a pool, only after one, its rebuilt pool reads a *)
(* rotated password, and it is refused for good only after another.        *)
Aware(c) ==
    /\ pc[c] \in {"refused", "close"} => dbPassword >= 1
    /\ pc[c] = "refused" /\ rebuilt[c] => dbPassword >= 2
    /\ rebuilt[c] => using[c] \in DOMAIN pools /\ pools[using[c]].password >= 1
    /\ reply[c] = "ORA-01017" => dbPassword >= 2

Fresh ==
    ~apart =>
        /\ file.kind = "good" /\ file.version = dbPassword
        /\ \A p \in DOMAIN pools : pools[p].password <= dbPassword
        /\ \A c \in Calls : Aware(c)

Borrowers(p) == {c \in Calls : pc[c] = "query" /\ using[c] = p}

IInv ==
    /\ TypeOK
    /\ pc \in [Tasks -> {"down", "up", "ended", "idle", "done"} \cup InFlight]
    /\ using \in [Tasks -> Nat]
    /\ reply \in [Calls -> {"none", "ok", "failed", "uninitialised", "pool closed",
                            "no credential", "close failed", "cancelled",
                            "cancelled in close", "ORA-01017"}]
    /\ Held
    /\ StatementsKeepTheirPool
    /\ ConnectionsReturned
    /\ RebuildsOnce

---------------------------------------------------------------------------
(* Pool objects                                                            *)

Objects ==
    [password : 0..MaxRotations, state : {"open", "closing", "closed"},
     idle : 0..PoolMax, busy : 0..PoolMax]
Sound(s) == s \in Seq(Objects) /\ \A p \in DOMAIN s : s[p].idle + s[p].busy <= PoolMax

(* new is old but for object p, which keeps its password.                  *)
Edited(old, new, p) ==
    /\ Len(new) = Len(old) /\ DOMAIN new = DOMAIN old
    /\ \A i \in DOMAIN old : i # p => new[i] = old[i]
    /\ new[p].password = old[p].password

LEMMA SoundIndices ==
    ASSUME NEW s, Sound(s)
    PROVE  /\ Len(s) \in Nat /\ DOMAIN s = 1..Len(s)
           /\ \A p \in DOMAIN s : s[p] \in Objects
  BY DEF Sound

(* Replacing one object by another that keeps its password.                *)
Put(s, p, o) == [s EXCEPT ![p] = o]

LEMMA EditObject ==
    ASSUME NEW s, Sound(s), NEW p \in DOMAIN s,
           NEW o \in Objects, o.password = s[p].password, o.idle + o.busy <= PoolMax
    PROVE  Sound(Put(s, p, o)) /\ Edited(s, Put(s, p, o), p) /\ Put(s, p, o)[p] = o
  BY SoundIndices DEF Sound, Edited, Put

(* A login, an idle connection lent, and a connection given back.          *)
WithCounts(s, p, i, b) == [s EXCEPT ![p] = [@ EXCEPT !.idle = i, !.busy = b]]

LEMMA EditCounts ==
    ASSUME NEW s, Sound(s), NEW p \in DOMAIN s, NEW i \in 0..PoolMax, NEW b \in 0..PoolMax,
           i + b <= PoolMax
    PROVE  /\ Sound(WithCounts(s, p, i, b)) /\ Edited(s, WithCounts(s, p, i, b), p)
           /\ WithCounts(s, p, i, b)[p].state = s[p].state
           /\ WithCounts(s, p, i, b)[p].busy = b
<1>1. s[p] \in Objects
  BY SoundIndices
<1>2. PICK o : o = [s[p] EXCEPT !.idle = i, !.busy = b]
  OBVIOUS
<1>3. /\ o \in Objects /\ o.password = s[p].password /\ o.state = s[p].state
      /\ o.idle = i /\ o.busy = b
  BY <1>1, <1>2 DEF Objects
<1>4. WithCounts(s, p, i, b) = Put(s, p, o)
  BY <1>2 DEF WithCounts, Put
<1> QED BY <1>3, <1>4, EditObject

(* A connection leaves the pool for a call, idle or newly logged in.       *)
LEMMA LendEdits ==
    ASSUME Sound(pools), NEW c \in Calls, Lend(c), using[c] \in DOMAIN pools
    PROVE  /\ Sound(pools') /\ Edited(pools, pools', using[c])
           /\ pools'[using[c]].state = "open"
           /\ pools'[using[c]].busy = pools[using[c]].busy + 1
<1>p. PICK p : p = using[c]
  OBVIOUS
<1>q. PICK i, b : i = pools[p].idle /\ b = pools[p].busy
  OBVIOUS
<1>1. pools[p] \in Objects /\ i + b <= PoolMax /\ pools[p].state = "open"
  BY <1>p, <1>q, SoundIndices DEF Sound, Lend, Source
<1>2. i \in 0..PoolMax /\ b \in 0..PoolMax
  BY <1>1, <1>q DEF Objects
<1>3. CASE i > 0 /\ pools' = [pools EXCEPT ![p].idle = @ - 1, ![p].busy = @ + 1]
  <2>1. i - 1 \in 0..PoolMax /\ b + 1 \in 0..PoolMax /\ (i - 1) + (b + 1) <= PoolMax
    BY <1>1, <1>2, <1>3, PoolAssumption
  <2>2. pools' = WithCounts(pools, p, i - 1, b + 1)
    BY <1>q, <1>1, <1>3 DEF WithCounts, Objects
  <2>3. PICK n : n = WithCounts(pools, p, i - 1, b + 1)
    OBVIOUS
  <2>4. Sound(n) /\ Edited(pools, n, p) /\ n[p].state = pools[p].state /\ n[p].busy = b + 1
    BY <1>p, <1>1, <1>2, <2>1, <2>3, EditCounts
  <2> QED BY <1>p, <1>q, <1>1, <2>2, <2>3, <2>4
<1>4. CASE i = 0 /\ b < PoolMax /\ pools' = [pools EXCEPT ![p].busy = @ + 1]
  <2>1. i \in 0..PoolMax /\ b + 1 \in 0..PoolMax /\ i + (b + 1) <= PoolMax
    BY <1>1, <1>2, <1>4, PoolAssumption
  <2>2. pools' = WithCounts(pools, p, i, b + 1)
    BY <1>q, <1>1, <1>4 DEF WithCounts, Objects
  <2>3. PICK n : n = WithCounts(pools, p, i, b + 1)
    OBVIOUS
  <2>4. Sound(n) /\ Edited(pools, n, p) /\ n[p].state = pools[p].state /\ n[p].busy = b + 1
    BY <1>p, <1>1, <1>2, <2>1, <2>3, EditCounts
  <2> QED BY <1>p, <1>q, <1>1, <2>2, <2>3, <2>4
<1> QED BY <1>p, <1>q, <1>3, <1>4 DEF Lend, LogsIn, Source

(* And comes back.                                                         *)
LEMMA ReturnEdits ==
    ASSUME Sound(pools), NEW c \in Calls, using[c] \in DOMAIN pools, pools[using[c]].busy >= 1
    PROVE  /\ Sound(Returned(c)) /\ Edited(pools, Returned(c), using[c])
           /\ Returned(c)[using[c]].state = pools[using[c]].state
           /\ Returned(c)[using[c]].busy = pools[using[c]].busy - 1
<1>p. PICK p : p = using[c]
  OBVIOUS
<1>q. PICK i, b : i = pools[p].idle /\ b = pools[p].busy
  OBVIOUS
<1>1. pools[p] \in Objects /\ i + b <= PoolMax /\ b >= 1
  BY <1>p, <1>q, SoundIndices DEF Sound
<1>2. i \in 0..PoolMax /\ b \in 0..PoolMax
  BY <1>1, <1>q DEF Objects
<1>3. i + 1 \in 0..PoolMax /\ b - 1 \in 0..PoolMax /\ (i + 1) + (b - 1) <= PoolMax
  BY <1>1, <1>2, PoolAssumption
<1>4. Returned(c) = WithCounts(pools, p, i + 1, b - 1)
  BY <1>p, <1>q, <1>1 DEF Returned, WithCounts, Objects
<1> QED BY <1>p, <1>q, <1>3, <1>4, EditCounts

(* A pool that starts to close.                                            *)
LEMMA StartEdits ==
    ASSUME Sound(pools), NEW t \in Tasks, pool \in DOMAIN pools, StartClosing(t)
    PROVE  /\ Sound(pools') /\ Edited(pools, pools', pool)
           /\ pools'[pool].state = "closing"
           /\ pools'[pool].busy = pools[pool].busy
<1> DEFINE o == [pools[pool] EXCEPT !.state = "closing"]
<1>1. pools[pool].idle + pools[pool].busy <= PoolMax /\ pools[pool] \in Objects
  BY SoundIndices DEF Sound
<1>2. /\ o \in Objects /\ o.password = pools[pool].password /\ o.state = "closing"
      /\ o.idle = pools[pool].idle /\ o.busy = pools[pool].busy
  BY <1>1 DEF Objects
<1>3. pools' = Put(pools, pool, o)
  BY DEF StartClosing, Put
<1> HIDE DEF o
<1> QED BY <1>1, <1>2, <1>3, EditObject

(* And one that has closed.                                                *)
LEMMA AfterEdits ==
    ASSUME Sound(pools), NEW t \in Tasks, using[t] \in DOMAIN pools
    PROVE  /\ Sound(AfterClose(t)) /\ Edited(pools, AfterClose(t), using[t])
           /\ AfterClose(t)[using[t]].state = "closed"
           /\ AfterClose(t)[using[t]].busy = pools[using[t]].busy
<1>p. PICK p : p = using[t]
  OBVIOUS
<1>1. pools[p].idle + pools[p].busy <= PoolMax /\ pools[p] \in Objects
  BY <1>p, SoundIndices DEF Sound
<1>2. PICK o : o = [pools[p] EXCEPT !.state = "closed", !.idle = 0]
  OBVIOUS
<1>3. /\ o \in Objects /\ o.password = pools[p].password /\ o.state = "closed"
      /\ o.idle = 0 /\ o.busy = pools[p].busy
  <2>1. PICK r \in Objects : r = pools[p]
    BY <1>1
  <2>2. 0 \in 0..PoolMax
    BY PoolAssumption
  <2>3. o = [password |-> r.password, state |-> "closed", idle |-> 0, busy |-> r.busy]
    BY <1>2, <2>1 DEF Objects
  <2>4. r.password \in 0..MaxRotations /\ r.busy \in 0..PoolMax
    BY <2>1 DEF Objects
  <2>5. o \in Objects
    BY <2>2, <2>3, <2>4 DEF Objects
  <2> QED BY <2>1, <2>3, <2>5
<1>4. AfterClose(t) = Put(pools, p, o)
  BY <1>p, <1>2 DEF AfterClose, Put
<1>5. o.idle + o.busy <= PoolMax
  BY <1>1, <1>3, PoolAssumption DEF Objects
<1> QED BY <1>p, <1>3, <1>4, <1>5, EditObject

(* new is old and one pool more, which reads the credential of now.        *)
Grown(old, new) ==
    /\ Len(new) = Len(old) + 1 /\ DOMAIN new = 1..(Len(old) + 1)
    /\ \A i \in DOMAIN old : new[i] = old[i]
    /\ new[Len(old) + 1] = NewPool

LEMMA AppendGrows ==
    ASSUME NEW s, Sound(s), file.version \in 0..MaxRotations
    PROVE  Sound(Append(s, NewPool)) /\ Grown(s, Append(s, NewPool))
<1>1. NewPool \in Objects /\ NewPool.idle + NewPool.busy <= PoolMax
  BY PoolAssumption DEF NewPool, Objects
<1>2. Grown(s, Append(s, NewPool)) /\ Append(s, NewPool) \in Seq(Objects)
  BY <1>1, SoundIndices DEF Sound, Grown
<1>3. \A i \in 1..(Len(s) + 1) : i \in DOMAIN s \/ i = Len(s) + 1
  BY SoundIndices
<1> QED BY <1>1, <1>2, <1>3 DEF Sound, Grown

---------------------------------------------------------------------------
(* Steps that leave every statement alone                                  *)

(* No pool is lost, none lends more or fewer connections, none opens       *)
(* again, and none that has lent a connection stops being open.            *)
Kept(old, new) ==
    /\ DOMAIN old \subseteq DOMAIN new
    /\ \A p \in DOMAIN old :
          /\ new[p].busy = old[p].busy /\ new[p].password = old[p].password
          /\ new[p].state = "open" => old[p].state = "open"
          /\ old[p].state = "open" => new[p].state = "open" \/ old[p].busy = 0
    /\ \A p \in DOMAIN new \ DOMAIN old : new[p].busy = 0

LEMMA GrownKeeps ==
    ASSUME NEW s, NEW old, NEW new, Sound(old), Sound(s), Kept(old, s), Grown(s, new)
    PROVE  Kept(old, new)
<1>1. \A p \in DOMAIN new : p \in DOMAIN s \/ p = Len(s) + 1
  BY SoundIndices DEF Grown
<1>2. DOMAIN s \subseteq DOMAIN new
  BY SoundIndices DEF Grown
<1>3. new[Len(s) + 1].busy = 0
  BY DEF Grown, NewPool
<1> QED BY <1>1, <1>2, <1>3 DEF Kept, Grown

(* A call that runs a statement is one its pool counts.                    *)
LEMMA BorrowedIsBusy ==
    ASSUME IInv, NEW c \in Calls, pc[c] = "query"
    PROVE  /\ using[c] \in DOMAIN pools /\ pools[using[c]].busy >= 1
           /\ pools[using[c]].state = "open"
<1>1. using[c] \in DOMAIN pools
  BY DEF IInv, Held, Tasks, InFlight
<1>p. PICK p \in DOMAIN pools : p = using[c]
  BY <1>1
<1>2. c \in Borrowers(p) /\ IsFiniteSet(Borrowers(p))
  BY <1>p, TasksAssumption, FS_Subset DEF Borrowers
<1>3. Cardinality(Borrowers(p)) # 0 /\ Cardinality(Borrowers(p)) \in Nat
  BY <1>2, FS_EmptySet, FS_CardinalityType
<1>4. pools[p].busy = Cardinality(Borrowers(p))
  BY DEF IInv, ConnectionsReturned, Borrowers
<1>5. pools[p].state = "open"
  BY <1>p DEF IInv, StatementsKeepTheirPool
<1> QED BY <1>p, <1>3, <1>4, <1>5

(* The parts of the invariant that no fetch() and no lifespan disturbs but *)
(* at the task that takes the step.                                        *)
Places == {"down", "up", "ended", "idle", "done"} \cup InFlight
CallPlaces == {"idle", "acquire", "query", "refused", "close", "done"}
SessionPlaces == {"down", "up", "close", "ended"}
Replies == {"none", "ok", "failed", "uninitialised", "pool closed",
            "no credential", "close failed", "cancelled", "cancelled in close", "ORA-01017"}

LEMMA QuietStep ==
    ASSUME IInv, NEW t \in Tasks, NEW w, NEW u,
           UNCHANGED world, Sound(pools'), Kept(pools, pools'),
           pool' \in {None} \cup DOMAIN pools',
           pc' = [pc EXCEPT ![t] = w], using' = [using EXCEPT ![t] = u],
           pc[t] # "query", w # "query",
           t \in Calls => w \in CallPlaces, t \in Sessions => w \in SessionPlaces,
           u \in {None} \cup DOMAIN pools', w \in InFlight => u \in DOMAIN pools',
           w = "close" => pools'[u].state # "open",
           rebuilt' \in [Calls -> BOOLEAN], reply' \in [Calls -> Replies],
           \A c \in Calls : c # t => rebuilt'[c] = rebuilt[c],
           w \in {"idle", "close"} /\ t \in Calls => ~rebuilt'[t]
    PROVE  IInv'
<1>1. w \in Places /\ pc' \in [Tasks -> Places]
  BY DEF IInv, Places, CallPlaces, SessionPlaces, InFlight, Tasks
<1>2. \A x \in Tasks : x # t => pc'[x] = pc[x] /\ using'[x] = using[x]
  BY DEF IInv
<1>3. pc'[t] = w /\ using'[t] = u
  BY DEF IInv
<1>4. DOMAIN pools \subseteq DOMAIN pools' /\ \A p \in DOMAIN pools' : p \in Nat
  <2>1. DOMAIN pools' = 1..Len(pools') /\ Len(pools') \in Nat
    BY DEF Sound
  <2> QED BY <2>1 DEF Kept
<1>5. using' \in [Tasks -> Nat]
  <2>1. u \in Nat
    BY <1>4 DEF None
  <2>2. using \in [Tasks -> Nat]
    BY DEF IInv
  <2> QED BY <2>1, <2>2
<1>6. TypeOK'
  <2>1. /\ pools' \in Seq(Objects) /\ \A p \in DOMAIN pools' : pools'[p].idle + pools'[p].busy <= PoolMax
    BY DEF Sound
  <2>2. \A c \in Calls : pc'[c] \in CallPlaces
    BY <1>2, <1>3 DEF IInv, TypeOK, CallPlaces, Tasks
  <2>3. \A s \in Sessions : pc'[s] \in SessionPlaces
    BY <1>2, <1>3 DEF IInv, TypeOK, SessionPlaces, Tasks
  <2>4. \A x \in Tasks : using'[x] \in {None} \cup DOMAIN pools'
    BY <1>2, <1>3, <1>4 DEF IInv, TypeOK
  <2>5. /\ file' \in [kind : {"good", "unusable"}, version : 0..MaxRotations]
        /\ dbPassword' \in 0..MaxRotations /\ apart' \in BOOLEAN
    BY DEF IInv, TypeOK, world
  <2> QED BY <2>1, <2>2, <2>3, <2>4, <2>5 DEF TypeOK, Objects, CallPlaces, SessionPlaces
<1>7. Held'
  BY <1>2, <1>3, <1>4 DEF IInv, Held, Kept
<1>8. \A c \in Calls : pc'[c] = "query" <=> pc[c] = "query"
  BY <1>2, <1>3 DEF Tasks
<1>9. \A c \in Calls : pc[c] = "query" => using'[c] = using[c]
  BY <1>2 DEF Tasks
<1>10. StatementsKeepTheirPool'
  <2>1. SUFFICES ASSUME NEW c \in Calls, pc[c] = "query", using'[c] = using[c]
                 PROVE  pools'[using[c]].state = "open"
    BY <1>8, <1>9 DEF StatementsKeepTheirPool
  <2>2. PICK p \in DOMAIN pools : p = using[c]
    BY <2>1, BorrowedIsBusy
  <2>3. pools[p].state = "open" /\ pools[p].busy >= 1
    BY <2>1, <2>2, BorrowedIsBusy
  <2>4. pools[p].busy # 0
    BY <2>3
  <2> QED BY <2>2, <2>3, <2>4 DEF Kept
<1>11. ConnectionsReturned'
  <2>1. ASSUME NEW p \in DOMAIN pools'
        PROVE  pools'[p].busy = Cardinality(Borrowers(p)')
    <3>1. Borrowers(p)' = Borrowers(p)
      BY <1>8, <1>9 DEF Borrowers
    <3>2. CASE p \in DOMAIN pools
      <4>1. pools'[p].busy = pools[p].busy
        BY <3>2 DEF Kept
      <4>2. pools[p].busy = Cardinality(Borrowers(p))
        BY <3>2 DEF IInv, ConnectionsReturned, Borrowers
      <4> QED BY <3>1, <4>1, <4>2
    <3>3. CASE p \notin DOMAIN pools
      <4>1. Borrowers(p) = {}
        BY <3>3, BorrowedIsBusy DEF Borrowers
      <4> QED BY <3>1, <3>3, <4>1, FS_EmptySet DEF Kept
    <3> QED BY <3>2, <3>3
  <2> QED BY <2>1 DEF ConnectionsReturned, Borrowers
<1>12. RebuildsOnce'
  BY <1>2, <1>3 DEF IInv, RebuildsOnce, Tasks
<1> QED BY <1>1, <1>5, <1>6, <1>7, <1>10, <1>11, <1>12 DEF IInv, Places, Replies

LEMMA InvFacts ==
    ASSUME IInv
    PROVE  /\ Sound(pools) /\ pool \in {None} \cup DOMAIN pools
           /\ file.version \in 0..MaxRotations
           /\ pc \in [Tasks -> Places] /\ using \in [Tasks -> Nat]
           /\ rebuilt \in [Calls -> BOOLEAN] /\ reply \in [Calls -> Replies]
           /\ \A t \in Tasks : using[t] \in {None} \cup DOMAIN pools
           /\ \A t \in Tasks : pc[t] \in InFlight => using[t] \in DOMAIN pools
  BY DEF IInv, TypeOK, Held, Sound, Objects, Places, Replies

LEMMA SameKeeps == ASSUME NEW s PROVE Kept(s, s)
  BY DEF Kept

LEMMA StartKeeps ==
    ASSUME IInv, NEW t \in Tasks, pool # None, Closable, StartClosing(t)
    PROVE  Sound(pools') /\ Kept(pools, pools') /\ pools'[pool].state = "closing"
           /\ DOMAIN pools' = DOMAIN pools
<1>1. pool \in DOMAIN pools /\ Sound(pools)
  BY InvFacts
<1>2. /\ Sound(pools') /\ Edited(pools, pools', pool)
      /\ pools'[pool].state = "closing" /\ pools'[pool].busy = pools[pool].busy
  BY <1>1, StartEdits
<1>3. pools[pool].busy = 0
  BY DEF Closable
<1> QED BY <1>1, <1>2, <1>3 DEF Edited, Kept

LEMMA AfterKeeps ==
    ASSUME IInv, NEW t \in Tasks, pc[t] = "close"
    PROVE  /\ Sound(AfterClose(t)) /\ Kept(pools, AfterClose(t))
           /\ DOMAIN AfterClose(t) = DOMAIN pools
<1>1. using[t] \in DOMAIN pools /\ pools[using[t]].state # "open"
  BY DEF IInv, Held, InFlight
<1>2. PICK s : s = AfterClose(t)
  OBVIOUS
<1>3. PICK p : p = using[t]
  OBVIOUS
<1>4. /\ Sound(s) /\ Edited(pools, s, p)
      /\ s[p].state = "closed" /\ s[p].busy = pools[p].busy
  BY <1>1, <1>2, <1>3, InvFacts, AfterEdits
<1> QED BY <1>1, <1>2, <1>3, <1>4 DEF Edited, Kept

---------------------------------------------------------------------------
(* Each action preserves the invariant                                     *)

LEMMA IInvInit == Init => IInv
<1> SUFFICES ASSUME Init PROVE IInv
  OBVIOUS
<1>1. pools \in Seq(Objects) /\ DOMAIN pools = {}
  BY DEF Init
<1>2. pc \in [Tasks -> {"down", "up", "ended", "idle", "done"} \cup InFlight]
      /\ using \in [Tasks -> Nat] /\ \A t \in Tasks : using[t] = None
  BY DEF Init, None
<1>3. \A t \in Tasks : pc[t] \notin InFlight
  BY DEF Init, InFlight
<1>4. \A c \in Calls : pc[c] = "idle"
  BY TasksAssumption DEF Init, Tasks
<1>5. \A s \in Sessions : pc[s] = "down"
  BY DEF Init, Tasks
<1>6. TypeOK
  BY <1>1, <1>2, <1>4, <1>5, PoolAssumption DEF Init, TypeOK, Objects
<1>7. reply \in [Calls -> Replies]
  BY DEF Init, Replies
<1>8. Held /\ StatementsKeepTheirPool /\ RebuildsOnce
  <2>1. \A c \in Calls : ~rebuilt[c]
    BY DEF Init
  <2> QED BY <1>3, <1>4, <2>1 DEF Held, StatementsKeepTheirPool, RebuildsOnce, InFlight
<1>9. ConnectionsReturned
  BY <1>1 DEF ConnectionsReturned
<1> QED BY <1>2, <1>6, <1>7, <1>8, <1>9 DEF IInv, Replies

LEMMA StartupKeeps == ASSUME IInv, NEW s \in Sessions, Startup(s) PROVE IInv'
<1>1. Sound(pools') /\ Grown(pools, pools')
  BY InvFacts, AppendGrows DEF Startup
<1>2. Kept(pools, pools') /\ pool' \in DOMAIN pools'
  <2>1. Kept(pools, pools')
    BY <1>1, InvFacts, GrownKeeps, SameKeeps
  <2>2. Len(pools) \in Nat /\ DOMAIN pools' = 1..(Len(pools) + 1)
    BY <1>1, InvFacts, SoundIndices DEF Grown
  <2> QED BY <2>1, <2>2 DEF Startup
<1>3. s \in Tasks /\ s \notin Calls
  BY TasksAssumption DEF Tasks
<1>4. pc' = [pc EXCEPT ![s] = "up"] /\ using' = [using EXCEPT ![s] = using[s]]
  BY <1>3, InvFacts DEF Startup, Goto
<1>5. using[s] \in {None} \cup DOMAIN pools'
  BY <1>2, <1>3, InvFacts DEF Kept
<1> QED BY <1>1, <1>2, <1>3, <1>4, <1>5, QuietStep, InvFacts DEF Startup, SessionPlaces, InFlight

LEMMA ShutdownKeeps == ASSUME IInv, NEW s \in Sessions, Shutdown(s) PROVE IInv'
<1>1. s \in Tasks /\ s \notin Calls
  BY TasksAssumption DEF Tasks
<1>2. CASE UNCHANGED <<pools, using>> /\ Goto(s, "ended")
  <2>1. pc' = [pc EXCEPT ![s] = "ended"] /\ using' = [using EXCEPT ![s] = using[s]]
    BY <1>1, <1>2, InvFacts DEF Goto
  <2>2. Kept(pools, pools') /\ Sound(pools')
    BY <1>2, SameKeeps, InvFacts
  <2> QED BY <1>1, <1>2, <2>1, <2>2, QuietStep, InvFacts DEF Shutdown, SessionPlaces, InFlight
<1>3. CASE pool # None /\ Closable /\ StartClosing(s)
  <2>1. Sound(pools') /\ Kept(pools, pools') /\ pools'[pool].state = "closing"
        /\ DOMAIN pools' = DOMAIN pools
    BY <1>1, <1>3, StartKeeps
  <2>2. pc' = [pc EXCEPT ![s] = "close"] /\ using' = [using EXCEPT ![s] = pool]
    BY <1>3 DEF StartClosing, Goto
  <2> QED BY <1>1, <1>3, <2>1, <2>2, QuietStep, InvFacts DEF Shutdown, SessionPlaces, InFlight
<1> QED BY <1>2, <1>3 DEF Shutdown

LEMMA ShutdownEndsKeeps == ASSUME IInv, NEW s \in Sessions, ShutdownEnds(s) PROVE IInv'
<1>1. s \in Tasks /\ s \notin Calls
  BY TasksAssumption DEF Tasks
<1>2. pc' = [pc EXCEPT ![s] = "ended"] /\ using' = [using EXCEPT ![s] = using[s]]
  BY <1>1, InvFacts DEF ShutdownEnds, Goto
<1>3. /\ Sound(pools') /\ Kept(pools, pools') /\ DOMAIN pools' = DOMAIN pools
      /\ pool' \in {None} \cup DOMAIN pools
  <2>1. CASE pools' = AfterClose(s) /\ pool' = None
    BY <1>1, <2>1, AfterKeeps DEF ShutdownEnds
  <2>2. CASE UNCHANGED <<pools, pool>>
    BY <2>2, SameKeeps, InvFacts
  <2> QED BY <2>1, <2>2 DEF ShutdownEnds
<1> QED BY <1>1, <1>2, <1>3, QuietStep, InvFacts DEF ShutdownEnds, SessionPlaces, InFlight

LEMMA FetchKeeps == ASSUME IInv, NEW c \in Calls, Fetch(c) PROVE IInv'
<1>1. c \in Tasks /\ c \notin Sessions
  BY TasksAssumption DEF Tasks
<1>2. Kept(pools, pools') /\ Sound(pools') /\ pool' \in {None} \cup DOMAIN pools'
  BY SameKeeps, InvFacts DEF Fetch
<1>3. CASE pool = None /\ Finish(c, "uninitialised") /\ UNCHANGED using
  <2>1. pc' = [pc EXCEPT ![c] = "done"] /\ using' = [using EXCEPT ![c] = using[c]]
    BY <1>1, <1>3, InvFacts DEF Finish, Goto
  <2>2. reply' \in [Calls -> Replies]
    BY <1>3, InvFacts DEF Finish, Replies
  <2> QED BY <1>1, <1>2, <1>3, <2>1, <2>2, QuietStep, InvFacts DEF Fetch, CallPlaces, InFlight
<1>4. CASE pool # None /\ using' = [using EXCEPT ![c] = pool] /\ Goto(c, "acquire") /\ UNCHANGED reply
  <2>1. pc' = [pc EXCEPT ![c] = "acquire"] /\ using' = [using EXCEPT ![c] = pool]
    BY <1>4 DEF Goto
  <2> QED BY <1>1, <1>2, <1>4, <2>1, QuietStep, InvFacts DEF Fetch, CallPlaces, InFlight
<1> QED BY <1>3, <1>4 DEF Fetch

(* A call that ends without having a connection.                           *)
LEMMA FinishKeeps ==
    ASSUME IInv, NEW c \in Calls, NEW a \in Replies, Finish(c, a), pc[c] # "query",
           UNCHANGED <<world, pool, pools, using, rebuilt>>
    PROVE  IInv'
<1>1. c \in Tasks /\ c \notin Sessions
  BY TasksAssumption DEF Tasks
<1>2. Kept(pools, pools') /\ Sound(pools') /\ pool' \in {None} \cup DOMAIN pools'
  BY SameKeeps, InvFacts
<1>3. pc' = [pc EXCEPT ![c] = "done"] /\ using' = [using EXCEPT ![c] = using[c]]
  BY <1>1, InvFacts DEF Finish, Goto
<1>4. reply' \in [Calls -> Replies]
  BY InvFacts DEF Finish
<1> QED BY <1>1, <1>2, <1>3, <1>4, QuietStep, InvFacts DEF CallPlaces, InFlight

LEMMA AcquireFailsKeeps == ASSUME IInv, NEW c \in Calls, AcquireFails(c) PROVE IInv'
<1>1. "pool closed" \in Replies /\ "failed" \in Replies
  BY DEF Replies
<1> QED BY <1>1, FinishKeeps DEF AcquireFails

LEMMA RebuildKeeps ==
    ASSUME IInv, NEW c \in Calls, NEW s, Sound(s), Kept(pools, s), Rebuild(c, s),
           pc[c] # "query", UNCHANGED world
    PROVE  IInv'
<1>1. c \in Tasks /\ c \notin Sessions
  BY TasksAssumption DEF Tasks
<1>2. CASE file.kind = "good"
  <2>1. Sound(pools') /\ Grown(s, pools')
    <3>1. pools' = Append(s, NewPool)
      BY <1>2 DEF Rebuild
    <3> QED BY <3>1, InvFacts, AppendGrows
  <2>2. Kept(pools, pools')
    BY <2>1, InvFacts, GrownKeeps
  <2>3. PICK n : n = Len(s) + 1
    OBVIOUS
  <2>4. n \in DOMAIN pools' /\ pool' = n
    BY <1>2, <2>1, <2>3, SoundIndices DEF Rebuild, Grown
  <2>5. pc' = [pc EXCEPT ![c] = "acquire"] /\ using' = [using EXCEPT ![c] = n]
    BY <1>2, <2>3 DEF Rebuild, Goto
  <2>6. rebuilt' \in [Calls -> BOOLEAN] /\ \A d \in Calls : d # c => rebuilt'[d] = rebuilt[d]
    BY <1>2, InvFacts DEF Rebuild
  <2>7. reply' \in [Calls -> Replies]
    BY <1>2, InvFacts DEF Rebuild
  <2> QED BY <1>1, <2>1, <2>2, <2>4, <2>5, <2>6, <2>7, QuietStep DEF CallPlaces, InFlight
<1>3. CASE file.kind # "good"
  <2>1. Sound(pools') /\ Kept(pools, pools') /\ pool' \in {None} \cup DOMAIN pools'
    BY <1>3 DEF Rebuild
  <2>2. pc' = [pc EXCEPT ![c] = "done"] /\ using' = [using EXCEPT ![c] = using[c]]
    BY <1>1, <1>3, InvFacts DEF Rebuild, Finish, Goto
  <2>3. reply' \in [Calls -> Replies]
    BY <1>3, InvFacts DEF Rebuild, Finish, Replies
  <2>4. using[c] \in {None} \cup DOMAIN pools' /\ rebuilt' = rebuilt
    BY <1>1, <1>3, <2>1, InvFacts DEF Rebuild, Kept
  <2> QED BY <1>1, <2>1, <2>2, <2>3, <2>4, QuietStep, InvFacts DEF CallPlaces, InFlight
<1> QED BY <1>2, <1>3

LEMMA RefusedKeeps == ASSUME IInv, NEW c \in Calls, Refused(c) PROVE IInv'
<1>1. c \in Tasks /\ c \notin Sessions /\ pc[c] # "query"
  BY TasksAssumption DEF Tasks, Refused, AuthError
<1>2. "ORA-01017" \in Replies /\ "close failed" \in Replies
  BY DEF Replies
<1>3. CASE Finish(c, "ORA-01017") /\ UNCHANGED <<pool, pools, using, rebuilt>>
  BY <1>1, <1>2, <1>3, FinishKeeps DEF Refused
<1>4. CASE Rebuild(c, pools)
  BY <1>1, <1>4, InvFacts, SameKeeps, RebuildKeeps DEF Refused
<1>5. CASE Finish(c, "close failed") /\ UNCHANGED <<pool, pools, using, rebuilt>>
  BY <1>1, <1>2, <1>5, FinishKeeps DEF Refused
<1>6. CASE ~rebuilt[c] /\ pool # None /\ Closable /\ StartClosing(c) /\ UNCHANGED <<pool, rebuilt, reply>>
  <2>1. Sound(pools') /\ Kept(pools, pools') /\ pools'[pool].state = "closing"
        /\ DOMAIN pools' = DOMAIN pools
    BY <1>1, <1>6, StartKeeps
  <2>2. pc' = [pc EXCEPT ![c] = "close"] /\ using' = [using EXCEPT ![c] = pool]
    BY <1>6 DEF StartClosing, Goto
  <2>3. UNCHANGED world
    BY DEF Refused
  <2> QED BY <1>1, <1>6, <2>1, <2>2, <2>3, QuietStep, InvFacts DEF CallPlaces, InFlight
<1> QED BY <1>3, <1>4, <1>5, <1>6 DEF Refused

LEMMA CloseReturnsKeeps == ASSUME IInv, NEW c \in Calls, CloseReturns(c) PROVE IInv'
<1>1. c \in Tasks /\ pc[c] # "query"
  BY DEF Tasks, CloseReturns
<1>2. CASE Rebuild(c, AfterClose(c))
  BY <1>1, <1>2, AfterKeeps, RebuildKeeps DEF CloseReturns
<1>3. CASE Finish(c, "close failed") /\ UNCHANGED <<pool, pools, using, rebuilt>>
  BY <1>1, <1>3, FinishKeeps DEF CloseReturns, Replies
<1> QED BY <1>2, <1>3 DEF CloseReturns

---------------------------------------------------------------------------
(* A connection is lent, and given back                                    *)

(* What lending and returning leave as it was.                             *)
LEMMA CountedStep ==
    ASSUME IInv, NEW c \in Calls, NEW w \in {"query", "refused", "done"},
           UNCHANGED <<world, pool, using, rebuilt>>,
           Sound(pools'), Edited(pools, pools', using[c]), pools'[using[c]].state = pools[using[c]].state,
           pools[using[c]].state = "open", using[c] \in DOMAIN pools,
           pc' = [pc EXCEPT ![c] = w], reply' \in [Calls -> Replies],
           ConnectionsReturned'
    PROVE  IInv'
<1>1. \A p \in DOMAIN pools : pools'[p].state = pools[p].state
  BY DEF Edited
<1>2. DOMAIN pools' = DOMAIN pools
  BY DEF Edited
<1>3. c \in Tasks /\ c \notin Sessions
  BY TasksAssumption DEF Tasks
<1>4. pc'[c] = w /\ \A x \in Tasks : x # c => pc'[x] = pc[x]
  BY <1>3, InvFacts
<1>5. TypeOK'
  <2>1. pools' \in Seq(Objects) /\ \A p \in DOMAIN pools' : pools'[p].idle + pools'[p].busy <= PoolMax
    BY DEF Sound
  <2>2. \A d \in Calls : pc'[d] \in CallPlaces
    BY <1>4 DEF IInv, TypeOK, CallPlaces, Tasks
  <2>3. \A s \in Sessions : pc'[s] \in SessionPlaces
    BY <1>3, <1>4 DEF IInv, TypeOK, SessionPlaces, Tasks
  <2> QED BY <1>2, <2>1, <2>2, <2>3 DEF IInv, TypeOK, world, Objects, CallPlaces, SessionPlaces
<1>6. pc' \in [Tasks -> Places]
  BY <1>3, InvFacts DEF Places, InFlight
<1>7. Held'
  <2>1. SUFFICES ASSUME NEW t \in Tasks, pc'[t] \in InFlight
                 PROVE  /\ using[t] \in DOMAIN pools
                        /\ pc'[t] = "close" => pools'[using[t]].state # "open"
    BY <1>2 DEF Held, InFlight
  <2>2. CASE t = c
    BY <1>4, <2>2
  <2>3. CASE t # c
    BY <1>1, <1>4, <2>1, <2>3 DEF IInv, Held
  <2> QED BY <2>2, <2>3
<1>8. StatementsKeepTheirPool'
  <2>1. SUFFICES ASSUME NEW d \in Calls, pc'[d] = "query" PROVE pools'[using[d]].state = "open"
    BY DEF StatementsKeepTheirPool
  <2>2. CASE d = c
    BY <2>2
  <2>3. CASE d # c
    BY <1>1, <1>4, <2>1, <2>3, BorrowedIsBusy DEF Tasks
  <2> QED BY <2>2, <2>3
<1>9. RebuildsOnce'
  BY <1>4 DEF IInv, RebuildsOnce, Tasks
<1> QED BY <1>5, <1>6, <1>7, <1>8, <1>9, InvFacts DEF IInv, Places, Replies

LEMMA LendKeeps == ASSUME IInv, NEW c \in Calls, Lend(c) PROVE IInv'
<1>1. c \in Tasks /\ using[c] \in DOMAIN pools /\ pc[c] # "query"
  BY InvFacts DEF Lend, Tasks, InFlight
<1>2. /\ Sound(pools') /\ Edited(pools, pools', using[c])
      /\ pools'[using[c]].state = "open" /\ pools[using[c]].state = "open"
      /\ pools'[using[c]].busy = pools[using[c]].busy + 1
  BY <1>1, InvFacts, LendEdits DEF Lend, Source
<1>3. pc' = [pc EXCEPT ![c] = "query"] /\ pc'[c] = "query" /\ \A x \in Tasks : x # c => pc'[x] = pc[x]
  BY <1>1, InvFacts DEF Lend, Goto
<1>4. ConnectionsReturned'
  <2>1. SUFFICES ASSUME NEW p \in DOMAIN pools PROVE pools'[p].busy = Cardinality(Borrowers(p)')
    BY <1>2 DEF Edited, ConnectionsReturned, Borrowers
  <2>2. pools[p].busy = Cardinality(Borrowers(p)) /\ IsFiniteSet(Borrowers(p)) /\ c \notin Borrowers(p)
    BY <1>1, TasksAssumption, FS_Subset DEF IInv, ConnectionsReturned, Borrowers
  <2>3. CASE p = using[c]
    <3>1. Borrowers(p)' = Borrowers(p) \cup {c}
      BY <1>3, <2>3 DEF Borrowers, Lend, Tasks
    <3>2. Cardinality(Borrowers(p) \cup {c}) = Cardinality(Borrowers(p)) + 1
      BY <2>2, FS_AddElement
    <3> QED BY <1>2, <2>2, <2>3, <3>1, <3>2
  <2>4. CASE p # using[c]
    <3>1. Borrowers(p)' = Borrowers(p)
      BY <1>1, <1>3, <2>4 DEF Borrowers, Lend, Tasks
    <3> QED BY <1>2, <2>2, <2>4, <3>1 DEF Edited
  <2> QED BY <2>3, <2>4
<1> QED BY <1>1, <1>2, <1>3, <1>4, CountedStep, InvFacts DEF Lend

LEMMA ReturnKeeps ==
    ASSUME IInv, NEW c \in Calls, NEW w \in {"refused", "done"}, pc[c] = "query",
           pools' = Returned(c), Goto(c, w), reply' \in [Calls -> Replies],
           UNCHANGED <<world, pool, using, rebuilt>>
    PROVE  IInv'
<1>1. c \in Tasks /\ using[c] \in DOMAIN pools /\ pools[using[c]].state = "open"
      /\ pools[using[c]].busy >= 1
  BY BorrowedIsBusy DEF Tasks
<1>2. /\ Sound(pools') /\ Edited(pools, pools', using[c])
      /\ pools'[using[c]].state = pools[using[c]].state
      /\ pools'[using[c]].busy = pools[using[c]].busy - 1
  BY <1>1, InvFacts, ReturnEdits
<1>3. pc' = [pc EXCEPT ![c] = w] /\ pc'[c] = w /\ \A x \in Tasks : x # c => pc'[x] = pc[x]
  BY <1>1, InvFacts DEF Goto
<1>4. ConnectionsReturned'
  <2>1. SUFFICES ASSUME NEW p \in DOMAIN pools PROVE pools'[p].busy = Cardinality(Borrowers(p)')
    BY <1>2 DEF Edited, ConnectionsReturned, Borrowers
  <2>2. pools[p].busy = Cardinality(Borrowers(p)) /\ IsFiniteSet(Borrowers(p))
    BY TasksAssumption, FS_Subset DEF IInv, ConnectionsReturned, Borrowers
  <2>3. CASE p = using[c]
    <3>1. Borrowers(p)' = Borrowers(p) \ {c} /\ c \in Borrowers(p)
      BY <1>3, <2>3 DEF Borrowers, Tasks
    <3>2. Cardinality(Borrowers(p) \ {c}) = Cardinality(Borrowers(p)) - 1
      BY <2>2, <3>1, FS_RemoveElement
    <3> QED BY <1>2, <2>2, <2>3, <3>1, <3>2
  <2>4. CASE p # using[c]
    <3>1. Borrowers(p)' = Borrowers(p)
      BY <1>1, <1>3, <2>4 DEF Borrowers, Tasks
    <3> QED BY <1>2, <2>2, <2>4, <3>1 DEF Edited
  <2> QED BY <2>3, <2>4
<1> QED BY <1>1, <1>2, <1>3, <1>4, CountedStep

LEMMA QueryKeeps == ASSUME IInv, NEW c \in Calls, Query(c) PROVE IInv'
<1>1. Goto(c, "done") \/ Goto(c, "refused")
  BY DEF Query, Finish
<1>2. reply' \in [Calls -> Replies]
  BY InvFacts DEF Query, Finish, Replies
<1> QED BY <1>1, <1>2, ReturnKeeps DEF Query

LEMMA CancelKeeps == ASSUME IInv, NEW c \in Calls, Cancel(c) PROVE IInv'
<1>1. "cancelled" \in Replies /\ "cancelled in close" \in Replies
  BY DEF Replies
<1>2. CASE pc[c] = "query"
  <2>1. Goto(c, "done") /\ reply' \in [Calls -> Replies]
    BY <1>2, InvFacts DEF Cancel, Finish, Replies
  <2> QED BY <1>2, <2>1, ReturnKeeps DEF Cancel
<1>3. CASE pc[c] # "query"
  BY <1>1, <1>3, FinishKeeps DEF Cancel
<1> QED BY <1>2, <1>3

LEMMA HereKeeps ==
    ASSUME IInv, UNCHANGED here,
           file' \in [kind : {"good", "unusable"}, version : 0..MaxRotations],
           dbPassword' \in 0..MaxRotations, apart' \in BOOLEAN
    PROVE  IInv'
<1> USE DEF here
<1>1. TypeOK'
  BY DEF IInv, TypeOK
<1>2. Held' /\ RebuildsOnce'
  BY DEF IInv, Held, RebuildsOnce
<1>3. StatementsKeepTheirPool' /\ ConnectionsReturned'
  BY DEF IInv, StatementsKeepTheirPool, ConnectionsReturned
<1> QED BY <1>1, <1>2, <1>3 DEF IInv

LEMMA WorldKeeps == ASSUME IInv, Rotate \/ WriteCredentialFile \/ AlterUser PROVE IInv'
<1>1. /\ file \in [kind : {"good", "unusable"}, version : 0..MaxRotations]
      /\ dbPassword \in 0..MaxRotations /\ apart \in BOOLEAN
  BY DEF IInv, TypeOK
<1>2. \A n \in 0..MaxRotations : n < MaxRotations => n + 1 \in 0..MaxRotations
  BY PoolAssumption
<1>3. CASE Rotate
  BY <1>1, <1>2, <1>3, HereKeeps DEF Rotate
<1>4. CASE WriteCredentialFile
  BY <1>1, <1>2, <1>4, HereKeeps DEF WriteCredentialFile
<1>5. CASE AlterUser
  BY <1>1, <1>2, <1>5, HereKeeps DEF AlterUser
<1> QED BY <1>3, <1>4, <1>5

LEMMA IInvStep == IInv /\ [Next]_vars => IInv'
<1> SUFFICES ASSUME IInv, [Next]_vars PROVE IInv'
  OBVIOUS
<1>1. CASE Next
  BY <1>1, StartupKeeps, ShutdownKeeps, ShutdownEndsKeeps, FetchKeeps, LendKeeps, AcquireFailsKeeps,
     RefusedKeeps, CloseReturnsKeeps, QueryKeeps, CancelKeeps, WorldKeeps DEF Next, Acquire
<1>2. CASE UNCHANGED vars
  BY <1>2, HereKeeps DEF vars, world, here, IInv, TypeOK
<1> QED BY <1>1, <1>2

LEMMA IInvAlways == Spec => []IInv
  BY IInvInit, IInvStep, PTL DEF Spec

(* TypeOK: the driver's own arithmetic.  The busy and idle counts of a     *)
(* pool never leave 0..COGNIC_ORACLE_POOL_MAX, alone or together, whatever *)
(* is lent, returned, cancelled and closed in whatever order.              *)
THEOREM PoolTypes == Spec => []TypeOK
<1>1. IInv => TypeOK
  BY DEF IInv
<1> QED BY <1>1, IInvAlways, PTL

(* StatementsKeepTheirPool: the rebuild of one call and the shutdown of    *)
(* one session never close a pool on which another call runs a statement.  *)
THEOREM NoStatementLosesItsPool == Spec => []StatementsKeepTheirPool
<1>1. IInv => StatementsKeepTheirPool
  BY DEF IInv
<1> QED BY <1>1, IInvAlways, PTL

(* ConnectionsReturned: however a call ends, a pool counts as lent exactly *)
(* the connections that calls hold.                                        *)
THEOREM NoConnectionLeaks == Spec => []ConnectionsReturned
<1>1. IInv => ConnectionsReturned
  BY DEF IInv
<1> QED BY <1>1, IInvAlways, PTL

---------------------------------------------------------------------------
(* How many pools there are, and what their passwords are                  *)

(* As many pool objects, with the passwords they had; or one more, with    *)
(* the password of the file.                                               *)
Alike(old, new) ==
    /\ Len(new) = Len(old) /\ DOMAIN new = DOMAIN old
    /\ \A p \in DOMAIN old : new[p].password = old[p].password
Longer(old, new) ==
    /\ Len(new) = Len(old) + 1 /\ DOMAIN new = DOMAIN old \cup {Len(old) + 1}
    /\ \A p \in DOMAIN old : new[p].password = old[p].password
    /\ new[Len(old) + 1].password = file.version
    /\ Len(old) + 1 \notin DOMAIN old

LEMMA EditedAlike == ASSUME NEW s, NEW n, NEW p \in DOMAIN s, Edited(s, n, p) PROVE Alike(s, n)
  BY DEF Edited, Alike

LEMMA GrownLonger ==
    ASSUME NEW s, NEW m, NEW n, Sound(s), Sound(m), Alike(s, m), Grown(m, n) PROVE Longer(s, n)
<1>1. Len(s) \in Nat /\ DOMAIN s = 1..Len(s) /\ DOMAIN m = DOMAIN s /\ Len(m) = Len(s)
  BY SoundIndices DEF Alike
<1>2. DOMAIN n = DOMAIN s \cup {Len(s) + 1} /\ Len(s) + 1 \notin DOMAIN s
  BY <1>1 DEF Grown
<1>3. n[Len(s) + 1].password = file.version
  BY <1>1 DEF Grown, NewPool
<1> QED BY <1>1, <1>2, <1>3 DEF Alike, Longer, Grown

LEMMA StartAlike ==
    ASSUME IInv, NEW t \in Tasks, pool # None, StartClosing(t) PROVE Alike(pools, pools')
  BY InvFacts, StartEdits, EditedAlike

LEMMA AfterAlike ==
    ASSUME IInv, NEW t \in Tasks, pc[t] = "close"
    PROVE  Alike(pools, AfterClose(t)) /\ Sound(AfterClose(t))
  BY InvFacts, AfterEdits, EditedAlike DEF InFlight

CallStep(c) == Fetch(c) \/ Acquire(c) \/ CloseReturns(c) \/ Query(c) \/ Cancel(c)

(* The one way a call makes a pool.                                        *)
Rebuilds(c) ==
    /\ ~rebuilt[c] /\ rebuilt' = [rebuilt EXCEPT ![c] = TRUE]
    /\ Longer(pools, pools')
    /\ using' = [using EXCEPT ![c] = Len(pools) + 1]
    /\ pc' = [pc EXCEPT ![c] = "acquire"] /\ reply' = reply

LEMMA RebuildMoves ==
    ASSUME IInv, NEW c \in Calls, ~rebuilt[c], NEW s, Sound(s), Alike(pools, s), Rebuild(c, s)
    PROVE  \/ Rebuilds(c)
           \/ /\ Alike(pools, pools') /\ UNCHANGED <<rebuilt, using>>
              /\ Finish(c, "no credential")
<1>1. CASE file.kind = "good"
  <2>1. pools' = Append(s, NewPool)
    BY <1>1 DEF Rebuild
  <2>2. Longer(pools, pools')
    BY <2>1, InvFacts, AppendGrows, GrownLonger
  <2>3. Len(s) = Len(pools)
    BY DEF Alike
  <2> QED BY <1>1, <2>2, <2>3 DEF Rebuild, Rebuilds, Goto
<1>2. CASE file.kind # "good"
  BY <1>2 DEF Rebuild
<1> QED BY <1>1, <1>2

LEMMA CallMoves ==
    ASSUME IInv, NEW c \in Calls, CallStep(c)
    PROVE  Rebuilds(c) \/ (Alike(pools, pools') /\ UNCHANGED rebuilt)
<1>1. c \in Tasks
  BY DEF Tasks
<1>2. Sound(pools) /\ Alike(pools, pools)
  BY InvFacts DEF Alike
<1>3. CASE Fetch(c) \/ AcquireFails(c)
  BY <1>2, <1>3 DEF Fetch, AcquireFails
<1>4. CASE Lend(c)
  BY <1>1, <1>2, <1>4, InvFacts, LendEdits, EditedAlike DEF Lend, InFlight
<1>5. CASE Refused(c)
  <2>1. CASE UNCHANGED <<pool, pools, using, rebuilt>>
    BY <1>2, <2>1
  <2>2. CASE ~rebuilt[c] /\ Rebuild(c, pools)
    BY <1>2, <2>2, RebuildMoves
  <2>3. CASE pool # None /\ StartClosing(c) /\ UNCHANGED rebuilt
    BY <1>1, <2>3, StartAlike
  <2> QED BY <1>5, <2>1, <2>2, <2>3 DEF Refused
<1>6. CASE CloseReturns(c)
  <2>1. pc[c] = "close" /\ ~rebuilt[c]
    BY <1>6 DEF CloseReturns, IInv, RebuildsOnce
  <2>2. CASE Rebuild(c, AfterClose(c))
    BY <1>1, <2>1, <2>2, AfterAlike, RebuildMoves
  <2>3. CASE UNCHANGED <<pool, pools, using, rebuilt>>
    BY <1>2, <2>3
  <2> QED BY <1>6, <2>2, <2>3 DEF CloseReturns
<1>7. CASE Query(c)
  BY <1>2, <1>7, BorrowedIsBusy, ReturnEdits, EditedAlike DEF Query
<1>8. CASE Cancel(c)
  BY <1>2, <1>8, BorrowedIsBusy, ReturnEdits, EditedAlike DEF Cancel
<1> QED BY <1>3, <1>4, <1>5, <1>6, <1>7, <1>8 DEF CallStep, Acquire

LEMMA CallTouches ==
    ASSUME IInv, NEW c \in Calls, CallStep(c)
    PROVE  /\ UNCHANGED world
           /\ \A t \in Tasks : t # c => pc'[t] = pc[t] /\ using'[t] = using[t]
           /\ \A d \in Calls : d # c => rebuilt'[d] = rebuilt[d] /\ reply'[d] = reply[d]
<1>1. CASE Fetch(c) \/ Lend(c) \/ AcquireFails(c) \/ Query(c) \/ Cancel(c)
  BY <1>1, InvFacts DEF Fetch, Lend, AcquireFails, Query, Cancel, Finish, Goto
<1>2. CASE Refused(c) \/ CloseReturns(c)
  BY <1>2, InvFacts DEF Refused, CloseReturns, Rebuild, StartClosing, Finish, Goto
<1> QED BY <1>1, <1>2 DEF CallStep, Acquire

LEMMA SessionMoves ==
    ASSUME IInv, NEW s \in Sessions, Startup(s) \/ Shutdown(s) \/ ShutdownEnds(s)
    PROVE  /\ UNCHANGED <<world, rebuilt, reply>>
           /\ \A t \in Tasks : t # s => pc'[t] = pc[t] /\ using'[t] = using[t]
           /\ \/ Startup(s) /\ Longer(pools, pools') /\ pc[s] = "down" /\ pc'[s] # "down"
              \/ Alike(pools, pools') /\ pc[s] # "down" /\ pc'[s] # "down"
<1>1. s \in Tasks
  BY DEF Tasks
<1>2. Sound(pools) /\ Alike(pools, pools)
  BY InvFacts DEF Alike
<1>3. CASE Startup(s)
  <2>1. pools' = Append(pools, NewPool)
    BY <1>3 DEF Startup
  <2>2. Longer(pools, pools')
    BY <1>2, <2>1, InvFacts, AppendGrows, GrownLonger
  <2> QED BY <1>1, <1>3, <2>2, InvFacts DEF Startup, Goto
<1>4. CASE Shutdown(s)
  <2>1. Alike(pools, pools')
    BY <1>1, <1>2, <1>4, StartAlike DEF Shutdown
  <2> QED BY <1>1, <1>4, <2>1, InvFacts DEF Shutdown, StartClosing, Goto
<1>5. CASE ShutdownEnds(s)
  <2>1. Alike(pools, pools')
    BY <1>1, <1>2, <1>5, AfterAlike DEF ShutdownEnds
  <2> QED BY <1>1, <1>5, <2>1, InvFacts DEF ShutdownEnds, Goto
<1> QED BY <1>3, <1>4, <1>5

---------------------------------------------------------------------------
(* One rebuild per call                                                    *)

Rebuilders == {c \in Calls : rebuilt[c]}
Started == {s \in Sessions : pc[s] # "down"}

LEMMA CountStep ==
    ASSUME IInv, OneRebuildPerCall, [Next]_vars
    PROVE  OneRebuildPerCall'
<1> DEFINE R == Cardinality(Rebuilders)
           S == Cardinality(Started)
<1>1. IsFiniteSet(Rebuilders) /\ IsFiniteSet(Started) /\ R \in Nat /\ S \in Nat
  BY TasksAssumption, FS_Subset, FS_CardinalityType DEF Rebuilders, Started
<1>2. Len(pools) = R + S /\ Len(pools) \in Nat
  BY InvFacts, SoundIndices DEF OneRebuildPerCall, Rebuilders, Started
<1>3. SUFFICES Len(pools') = Cardinality(Rebuilders') + Cardinality(Started')
  BY DEF OneRebuildPerCall, Rebuilders, Started
<1>4. ASSUME NEW c \in Calls, CallStep(c)
      PROVE  Len(pools') = Cardinality(Rebuilders') + Cardinality(Started')
  <2>1. Started' = Started
    BY <1>4, CallTouches, TasksAssumption DEF Started, Tasks
  <2>2. CASE Alike(pools, pools') /\ UNCHANGED rebuilt
    BY <1>2, <2>1, <2>2 DEF Alike, Rebuilders
  <2>3. CASE Rebuilds(c)
    <3>1. Rebuilders' = Rebuilders \cup {c} /\ c \notin Rebuilders
      BY <2>3, InvFacts DEF Rebuilds, Rebuilders
    <3>2. Cardinality(Rebuilders \cup {c}) = R + 1
      BY <1>1, <3>1, FS_AddElement
    <3>3. Len(pools') = Len(pools) + 1
      BY <2>3 DEF Rebuilds, Longer
    <3> QED BY <1>1, <1>2, <2>1, <3>1, <3>2, <3>3
  <2> QED BY <1>4, <2>2, <2>3, CallMoves
<1>5. ASSUME NEW s \in Sessions, Startup(s) \/ Shutdown(s) \/ ShutdownEnds(s)
      PROVE  Len(pools') = Cardinality(Rebuilders') + Cardinality(Started')
  <2>1. Rebuilders' = Rebuilders
    BY <1>5, SessionMoves DEF Rebuilders
  <2>2. \A x \in Sessions : x # s => pc'[x] = pc[x]
    BY <1>5, SessionMoves DEF Tasks
  <2>3. CASE Longer(pools, pools') /\ pc[s] = "down" /\ pc'[s] # "down"
    <3>1. Started' = Started \cup {s} /\ s \notin Started
      BY <2>2, <2>3 DEF Started
    <3>2. Cardinality(Started \cup {s}) = S + 1
      BY <1>1, <3>1, FS_AddElement
    <3>3. Len(pools') = Len(pools) + 1
      BY <2>3 DEF Longer
    <3> QED BY <1>1, <1>2, <2>1, <3>1, <3>2, <3>3
  <2>4. CASE Alike(pools, pools') /\ pc[s] # "down" /\ pc'[s] # "down"
    <3>1. Started' = Started
      BY <2>2, <2>4 DEF Started
    <3> QED BY <1>2, <2>1, <2>4, <3>1 DEF Alike
  <2> QED BY <1>5, <2>3, <2>4, SessionMoves
<1>6. CASE UNCHANGED here
  BY <1>2, <1>6 DEF here, Rebuilders, Started
<1> HIDE DEF R, S
<1> QED BY <1>4, <1>5, <1>6 DEF Next, CallStep, Rotate, WriteCredentialFile, AlterUser, vars, here

(* OneRebuildPerCall: a call whose second login is refused too passes the  *)
(* refusal on instead of rebuilding again, so pool objects are made once   *)
(* per started session and once per refused call.                          *)
THEOREM PoolsAreCounted == Spec => []OneRebuildPerCall
<1>1. Init => OneRebuildPerCall
  <2> SUFFICES ASSUME Init PROVE OneRebuildPerCall
    OBVIOUS
  <2>1. {c \in Calls : rebuilt[c]} = {} /\ Len(pools) = 0
    BY DEF Init
  <2>2. {s \in Sessions : pc[s] # "down"} = {}
    BY DEF Init, Tasks
  <2>3. Cardinality({c \in Calls : rebuilt[c]}) = 0
        /\ Cardinality({s \in Sessions : pc[s] # "down"}) = 0
    BY <2>1, <2>2, FS_EmptySet
  <2> QED BY <2>1, <2>3 DEF OneRebuildPerCall
<1>2. IInv /\ OneRebuildPerCall /\ [Next]_vars => OneRebuildPerCall'
  BY CountStep
<1> QED BY <1>1, <1>2, IInvAlways, PTL DEF Spec

---------------------------------------------------------------------------
(* Refused twice takes two rotations                                       *)

LEMMA VersionsAreNumbers ==
    ASSUME IInv
    PROVE  dbPassword \in Nat /\ \A p \in DOMAIN pools : pools[p].password \in Nat
<1>1. dbPassword \in 0..MaxRotations /\ \A n \in 0..MaxRotations : n \in Nat
  <2>1. dbPassword \in 0..MaxRotations
    BY DEF IInv, TypeOK
  <2> QED BY <2>1, PoolAssumption
<1>2. \A p \in DOMAIN pools : pools[p].password \in 0..MaxRotations
  BY InvFacts, SoundIndices DEF Objects
<1> QED BY <1>1, <1>2

(* A password that the database does not take is an older one; the one of  *)
(* a rebuilt pool is not the first.                                        *)
LEMMA StaleTellsOfRotation ==
    ASSUME IInv, Fresh, ~apart, NEW c \in Calls, pc[c] \in InFlight,
           pools[using[c]].password # dbPassword
    PROVE  dbPassword >= 1 /\ (rebuilt[c] => dbPassword >= 2)
<1>1. using[c] \in DOMAIN pools
  BY InvFacts DEF Tasks
<1>2. PICK n : n = pools[using[c]].password
  OBVIOUS
<1>3. n \in Nat /\ dbPassword \in Nat
  BY <1>1, <1>2, VersionsAreNumbers
<1>4. n <= dbPassword /\ n # dbPassword /\ (rebuilt[c] => n >= 1)
  BY <1>1, <1>2 DEF Fresh, Aware
<1> QED BY <1>3, <1>4

LEMMA RefusalTellsOfRotation ==
    ASSUME IInv, Fresh, ~apart, NEW c \in Calls, AuthError(c)
    PROVE  dbPassword >= 1 /\ (rebuilt[c] => dbPassword >= 2)
<1>1. CASE pc[c] = "refused"
  BY <1>1 DEF Fresh, Aware
<1>2. CASE pc[c] # "refused"
  <2>1. pc[c] = "acquire" /\ pools[using[c]].password # dbPassword
    BY <1>2 DEF AuthError, Source
  <2> QED BY <2>1, StaleTellsOfRotation DEF InFlight
<1> QED BY <1>1, <1>2

LEMMA AwareStep ==
    ASSUME IInv, Fresh, ~apart, NEW c \in Calls, CallStep(c)
    PROVE  Aware(c)'
<1>1. Aware(c) /\ dbPassword' = dbPassword /\ c \in Tasks
  BY CallTouches DEF Fresh, world, Tasks
<1>2. CASE Rebuilds(c)
  <2>1. dbPassword >= 1
    <3>1. Refused(c) \/ CloseReturns(c)
      BY <1>2, InvFacts DEF CallStep, Rebuilds, Fetch, Acquire, Lend, AcquireFails, Query, Cancel
    <3> QED BY <1>1, <3>1, RefusalTellsOfRotation DEF Refused, CloseReturns, Aware
  <2>2. PICK n : n = Len(pools) + 1
    OBVIOUS
  <2>3. n \in DOMAIN pools' /\ pools'[n].password = dbPassword
    BY <1>2, <2>2 DEF Rebuilds, Longer, Fresh
  <2>4. using'[c] = n /\ pc'[c] = "acquire" /\ reply'[c] = reply[c]
    BY <1>1, <1>2, <2>2, InvFacts DEF Rebuilds
  <2> QED BY <1>1, <2>1, <2>3, <2>4 DEF Aware
<1>3. CASE Alike(pools, pools') /\ UNCHANGED rebuilt
  <2>1. pc'[c] = "close" => dbPassword >= 1
    <3>1. CASE AuthError(c)
      BY <3>1, RefusalTellsOfRotation
    <3>2. CASE ~AuthError(c)
      BY <1>1, <3>2, InvFacts DEF CallStep, Fetch, Acquire, Lend, AcquireFails, Refused,
         CloseReturns, Rebuild, Query, Cancel, Finish, Goto
    <3> QED BY <3>1, <3>2
  <2>2. rebuilt[c] => using'[c] = using[c]
    <3>1. rebuilt[c] => pc[c] # "idle"
      BY DEF IInv, RebuildsOnce
    <3>2. rebuilt[c] => ~Rebuilds(c)
      BY DEF Rebuilds
    <3>3. CASE Refused(c)
      BY <1>3, <3>3, InvFacts DEF Refused
    <3>4. CASE CloseReturns(c)
      BY <3>4 DEF CloseReturns, IInv, RebuildsOnce
    <3>5. CASE Fetch(c) \/ Lend(c) \/ AcquireFails(c) \/ Query(c) \/ Cancel(c)
      BY <3>1, <3>5 DEF Fetch, Lend, AcquireFails, Query, Cancel
    <3> QED BY <3>3, <3>4, <3>5 DEF CallStep, Acquire
  <2>3. reply'[c] = "ORA-01017" => dbPassword >= 2
    <3>1. CASE AuthError(c) /\ rebuilt[c]
      BY <3>1, RefusalTellsOfRotation
    <3>2. CASE ~(AuthError(c) /\ rebuilt[c])
      <4>1. reply'[c] = "ORA-01017" => reply'[c] = reply[c]
        BY <1>1, <3>2, InvFacts DEF CallStep, Fetch, Acquire, Lend, AcquireFails, Refused,
           CloseReturns, Rebuild, StartClosing, Query, Cancel, Finish, Goto
      <4> QED BY <1>1, <4>1 DEF Aware
    <3> QED BY <3>1, <3>2
  <2>4. pc'[c] = "refused" => dbPassword >= 1 /\ (rebuilt[c] => dbPassword >= 2)
    <3>1. CASE pc[c] = "query" /\ pools[using[c]].password # dbPassword
      BY <3>1, StaleTellsOfRotation DEF InFlight
    <3>2. CASE ~(pc[c] = "query" /\ pools[using[c]].password # dbPassword)
      BY <1>1, <3>2, InvFacts DEF CallStep, Fetch, Acquire, Lend, AcquireFails, Refused,
         CloseReturns, Rebuild, StartClosing, Query, Source, Cancel, Finish, Goto
    <3> QED BY <3>1, <3>2
  <2> QED BY <1>1, <1>3, <2>1, <2>2, <2>3, <2>4 DEF Aware, Alike
<1> QED BY <1>2, <1>3, CallMoves

LEMMA AwareOthers ==
    ASSUME NEW c \in Calls, Aware(c), UNCHANGED <<dbPassword>>,
           pc'[c] = pc[c], using'[c] = using[c], rebuilt'[c] = rebuilt[c], reply'[c] = reply[c],
           Alike(pools, pools') \/ Longer(pools, pools')
    PROVE  Aware(c)'
  BY DEF Aware, Alike, Longer

LEMMA FreshStep == ASSUME IInv, Fresh, [Next]_vars PROVE Fresh'
<1> SUFFICES ASSUME ~apart'
             PROVE  /\ file'.kind = "good" /\ file'.version = dbPassword'
                    /\ \A p \in DOMAIN pools' : pools'[p].password <= dbPassword'
                    /\ \A c \in Calls : Aware(c)'
  BY DEF Fresh
<1> USE DEF Fresh
<1>1. ASSUME NEW c \in Calls, CallStep(c)
      PROVE  /\ file'.kind = "good" /\ file'.version = dbPassword'
             /\ \A p \in DOMAIN pools' : pools'[p].password <= dbPassword'
             /\ \A d \in Calls : Aware(d)'
  <2>1. UNCHANGED <<file, dbPassword, apart>> /\ ~apart /\ dbPassword \in Nat
    BY <1>1, CallTouches, VersionsAreNumbers DEF world
  <2>2. Alike(pools, pools') \/ Longer(pools, pools')
    BY <1>1, CallMoves DEF Rebuilds
  <2>3. \A p \in DOMAIN pools' : pools'[p].password <= dbPassword
    BY <2>1, <2>2 DEF Alike, Longer
  <2>4. Aware(c)'
    BY <1>1, <2>1, AwareStep
  <2>5. ASSUME NEW d \in Calls, d # c PROVE Aware(d)'
    BY <1>1, <2>1, <2>2, <2>5, CallTouches, AwareOthers DEF Tasks
  <2> QED BY <2>1, <2>3, <2>4, <2>5
<1>2. ASSUME NEW s \in Sessions, Startup(s) \/ Shutdown(s) \/ ShutdownEnds(s)
      PROVE  /\ file'.kind = "good" /\ file'.version = dbPassword'
             /\ \A p \in DOMAIN pools' : pools'[p].password <= dbPassword'
             /\ \A d \in Calls : Aware(d)'
  <2>1. UNCHANGED <<file, dbPassword, apart, rebuilt, reply>> /\ ~apart /\ dbPassword \in Nat
    BY <1>2, SessionMoves, VersionsAreNumbers DEF world
  <2>2. Alike(pools, pools') \/ Longer(pools, pools')
    BY <1>2, SessionMoves
  <2>3. \A p \in DOMAIN pools' : pools'[p].password <= dbPassword
    BY <2>1, <2>2 DEF Alike, Longer
  <2>4. ASSUME NEW d \in Calls PROVE Aware(d)'
    <3>1. d # s /\ d \in Tasks
      BY TasksAssumption DEF Tasks
    <3> QED BY <1>2, <2>1, <2>2, <3>1, SessionMoves, AwareOthers
  <2> QED BY <2>1, <2>3, <2>4
<1>3. CASE Rotate
  <2>1. /\ file'.kind = "good" /\ file'.version = file.version + 1 /\ dbPassword' = file.version + 1
        /\ ~apart /\ UNCHANGED here
    BY <1>3 DEF Rotate
  <2>2. dbPassword' = dbPassword + 1 /\ dbPassword \in Nat
    BY <2>1, VersionsAreNumbers
  <2>3. \A p \in DOMAIN pools : pools[p].password \in Nat
    BY VersionsAreNumbers
  <2>4. \A p \in DOMAIN pools' : pools'[p].password <= dbPassword'
    BY <2>1, <2>2, <2>3 DEF here
  <2>5. ASSUME NEW c \in Calls PROVE Aware(c)'
    BY <2>1, <2>2 DEF here, Aware
  <2> QED BY <2>1, <2>2, <2>4, <2>5
<1>4. CASE WriteCredentialFile \/ AlterUser
  BY <1>4 DEF WriteCredentialFile, AlterUser
<1>5. CASE UNCHANGED vars
  BY <1>5 DEF vars, world, Aware
<1> QED BY <1>1, <1>2, <1>3, <1>4, <1>5 DEF Next, CallStep

(* RefusedTwiceTakesTwoRotations: where the file is rotated together with  *)
(* the database, a call that is refused twice has met two rotations: the   *)
(* pool it rebuilt read the file of its own time, not a remembered one.    *)
THEOREM OneRotationIsSurvived == Spec => []RefusedTwiceTakesTwoRotations
<1>1. Init => Fresh
  <2> SUFFICES ASSUME Init PROVE Fresh
    OBVIOUS
  <2>1. \A c \in Calls : pc[c] = "idle" /\ ~rebuilt[c] /\ reply[c] = "none"
    BY TasksAssumption DEF Init, Tasks
  <2> QED BY <2>1 DEF Init, Fresh, Aware
<1>2. IInv /\ Fresh /\ [Next]_vars => Fresh'
  BY FreshStep
<1>3. Fresh => RefusedTwiceTakesTwoRotations
  BY DEF Fresh, Aware, RefusedTwiceTakesTwoRotations
<1> QED BY <1>1, <1>2, <1>3, IInvAlways, PTL DEF Spec

---------------------------------------------------------------------------
(* A fetch only advances                                                   *)

(* Where a step can take a call.                                           *)
Onward(c) ==
    \/ /\ pc[c] # "done" /\ pc'[c] = "done"
       /\ rebuilt'[c] = rebuilt[c] /\ using'[c] = using[c]
    \/ pc[c] = "idle" /\ pc'[c] = "acquire" /\ rebuilt'[c] = rebuilt[c]
    \/ /\ pc[c] = "acquire" /\ pc'[c] = "query"
       /\ rebuilt'[c] = rebuilt[c] /\ using'[c] = using[c]
    \/ /\ pc[c] = "query" /\ pc'[c] = "refused"
       /\ rebuilt'[c] = rebuilt[c] /\ using'[c] = using[c]
    \/ /\ pc[c] \in {"acquire", "refused"} /\ pc'[c] = "close"
       /\ ~rebuilt[c] /\ ~rebuilt'[c]
    \/ /\ pc[c] \in {"acquire", "refused", "close"} /\ pc'[c] = "acquire"
       /\ ~rebuilt[c] /\ rebuilt'[c] /\ using'[c] = Len(pools) + 1

LEMMA FinishIsOnward ==
    ASSUME IInv, NEW c \in Calls, NEW a, Finish(c, a), UNCHANGED <<using, rebuilt>>, pc[c] # "done"
    PROVE  Onward(c)
  BY InvFacts DEF Finish, Goto, Onward, Tasks

LEMMA RebuildIsOnward ==
    ASSUME IInv, NEW c \in Calls, ~rebuilt[c], pc[c] \in {"acquire", "refused", "close"},
           NEW s, Sound(s), Alike(pools, s), Rebuild(c, s)
    PROVE  Onward(c)
<1>1. CASE Rebuilds(c)
  BY <1>1, InvFacts DEF Rebuilds, Onward, Tasks
<1>2. CASE Finish(c, "no credential") /\ UNCHANGED <<rebuilt, using>>
  BY <1>2, FinishIsOnward
<1> QED BY <1>1, <1>2, RebuildMoves

LEMMA CallIsOnward == ASSUME IInv, NEW c \in Calls, CallStep(c) PROVE Onward(c)
<1>1. c \in Tasks /\ Sound(pools) /\ Alike(pools, pools)
  BY InvFacts DEF Tasks, Alike
<1>2. CASE Fetch(c)
  <2>1. CASE pool = None
    BY <1>2, <2>1, FinishIsOnward DEF Fetch
  <2>2. CASE pool # None
    BY <1>1, <1>2, <2>2, InvFacts DEF Fetch, Goto, Onward
  <2> QED BY <2>1, <2>2
<1>3. CASE Lend(c)
  BY <1>1, <1>3, InvFacts DEF Lend, Goto, Onward
<1>4. CASE AcquireFails(c)
  BY <1>4, FinishIsOnward DEF AcquireFails, LogsIn
<1>5. CASE Refused(c)
  <2>1. pc[c] \in {"acquire", "refused"}
    BY <1>5 DEF Refused, AuthError
  <2>2. CASE \E a \in {"ORA-01017", "close failed"} : Finish(c, a) /\ UNCHANGED <<using, rebuilt>>
    BY <2>1, <2>2, FinishIsOnward
  <2>3. CASE ~rebuilt[c] /\ Rebuild(c, pools)
    BY <1>1, <2>1, <2>3, RebuildIsOnward
  <2>4. CASE ~rebuilt[c] /\ StartClosing(c) /\ UNCHANGED rebuilt
    BY <1>1, <2>1, <2>4, InvFacts DEF StartClosing, Goto, Onward
  <2> QED BY <1>5, <2>2, <2>3, <2>4 DEF Refused
<1>6. CASE CloseReturns(c)
  <2>1. pc[c] = "close" /\ ~rebuilt[c]
    BY <1>6 DEF CloseReturns, IInv, RebuildsOnce
  <2>2. CASE Rebuild(c, AfterClose(c))
    BY <1>1, <2>1, <2>2, AfterAlike, RebuildIsOnward
  <2>3. CASE Finish(c, "close failed") /\ UNCHANGED <<using, rebuilt>>
    BY <2>1, <2>3, FinishIsOnward
  <2> QED BY <1>6, <2>2, <2>3 DEF CloseReturns
<1>7. CASE Query(c) \/ Cancel(c)
  <2>1. pc[c] # "done" /\ UNCHANGED <<using, rebuilt>>
    BY <1>7 DEF Query, Cancel
  <2>2. CASE \E a \in {"ok", "failed", "cancelled", "cancelled in close"} : Finish(c, a)
    BY <2>1, <2>2, FinishIsOnward
  <2>3. CASE pc[c] = "query" /\ Goto(c, "refused")
    BY <1>1, <2>1, <2>3, InvFacts DEF Goto, Onward
  <2> QED BY <1>7, <2>2, <2>3 DEF Query, Cancel
<1> QED BY <1>2, <1>3, <1>4, <1>5, <1>6, <1>7 DEF CallStep, Acquire

LEMMA OnwardCounts ==
    ASSUME IInv, NEW c \in Calls, Onward(c) PROVE StepsLeft(c)' < StepsLeft(c)
<1>1. /\ pc[c] \in {"idle", "acquire", "query", "refused", "close", "done"}
      /\ pc[c] \in {"idle", "close"} => ~rebuilt[c]
      /\ rebuilt[c] \in BOOLEAN
  BY DEF IInv, TypeOK, RebuildsOnce
<1>2. CASE pc'[c] = "done"
  <2>1. StepsLeft(c)' = 0
    BY <1>2 DEF StepsLeft, Ahead
  <2>2. StepsLeft(c) \in 1..8
    BY <1>1, <1>2 DEF Onward, StepsLeft, Ahead
  <2> QED BY <2>1, <2>2
<1>3. CASE pc[c] = "idle" /\ pc'[c] = "acquire" /\ rebuilt'[c] = rebuilt[c]
  BY <1>1, <1>3 DEF StepsLeft, Ahead
<1>4. CASE /\ \/ pc[c] = "acquire" /\ pc'[c] = "query"
              \/ pc[c] = "query" /\ pc'[c] = "refused"
           /\ rebuilt'[c] = rebuilt[c]
  BY <1>1, <1>4 DEF StepsLeft, Ahead
<1>5. CASE pc[c] \in {"acquire", "refused"} /\ pc'[c] = "close" /\ ~rebuilt[c]
  BY <1>5 DEF StepsLeft, Ahead
<1>6. CASE /\ pc[c] \in {"acquire", "refused", "close"} /\ pc'[c] = "acquire"
           /\ ~rebuilt[c] /\ rebuilt'[c]
  BY <1>6 DEF StepsLeft, Ahead
<1> QED BY <1>2, <1>3, <1>4, <1>5, <1>6 DEF Onward

(* What a task's step leaves alone of the calls that do not take it.       *)
Apart(c) == UNCHANGED <<pc[c], using[c], rebuilt[c], reply[c]>>

LEMMA OthersStayApart ==
    ASSUME IInv, NEW d \in Calls, CallStep(d), NEW c \in Calls, c # d PROVE Apart(c)
  BY CallTouches DEF Tasks, Apart

LEMMA SessionsStayApart ==
    ASSUME IInv, NEW s \in Sessions, Startup(s) \/ Shutdown(s) \/ ShutdownEnds(s), NEW c \in Calls
    PROVE  Apart(c)
<1>1. c \in Tasks /\ c # s
  BY TasksAssumption DEF Tasks
<1> QED BY <1>1, SessionMoves DEF Apart

(* FetchesOnlyAdvance: a fetch takes eight steps of its own at most,       *)
(* whatever other fetches and sessions do to the pool: it is retried once, *)
(* also when both its statements are refused.                              *)
THEOREM FetchesAdvance == Spec => FetchesOnlyAdvance
<1>1. ASSUME IInv, [Next]_vars, NEW c \in Calls
      PROVE  StepsLeft(c)' < StepsLeft(c) \/ Apart(c)
  <2>1. CASE \E d \in Calls : CallStep(d)
    BY <1>1, <2>1, CallIsOnward, OnwardCounts, OthersStayApart
  <2>2. CASE \E s \in Sessions : Startup(s) \/ Shutdown(s) \/ ShutdownEnds(s)
    BY <1>1, <2>2, SessionsStayApart
  <2>3. CASE UNCHANGED here
    BY <2>3 DEF here, Apart
  <2> QED BY <1>1, <2>1, <2>2, <2>3
          DEF Next, CallStep, Rotate, WriteCredentialFile, AlterUser, vars, here
<1>2. IInv /\ [Next]_vars =>
        [\A c \in Calls : StepsLeft(c)' < StepsLeft(c)
                          \/ UNCHANGED <<pc[c], using[c], rebuilt[c], reply[c]>>]_vars
  BY <1>1 DEF Apart
<1> QED BY <1>2, IInvAlways, PTL DEF Spec, FetchesOnlyAdvance

---------------------------------------------------------------------------
(* Which pools are usable, and who closed the others                       *)

(* The states are as they were, but for object q; new objects are open.    *)
Shut(old, new, q, state) ==
    /\ DOMAIN old \subseteq DOMAIN new
    /\ \A p \in DOMAIN old : new[p].state = IF p = q THEN state ELSE old[p].state
    /\ \A p \in DOMAIN new \ DOMAIN old : new[p].state = "open"
AsBefore(old, new) ==
    /\ DOMAIN old \subseteq DOMAIN new
    /\ \A p \in DOMAIN old : new[p].state = old[p].state
    /\ \A p \in DOMAIN new \ DOMAIN old : new[p].state = "open"

NamesAFreshOne == pool' # None => pool' \in DOMAIN pools' \ DOMAIN pools

(* What a step of task t does to the states: nothing, or it only adds a    *)
(* pool; it starts to close the pool of _pool; it has closed its own.      *)
Stays(t) ==
    /\ AsBefore(pools, pools')
    /\ pool' = pool \/ NamesAFreshOne
    /\ pc[t] = "close" =>
          \/ pools[using[t]].state = "closed"
          \/ pc'[t] = "done" /\ using'[t] = using[t] /\ t \in Calls
             /\ reply'[t] = "cancelled in close"
Starts(t) ==
    /\ Shut(pools, pools', pool, "closing")
    /\ pool \in DOMAIN pools /\ pool' = pool
    /\ pc'[t] = "close" /\ using'[t] = pool
    /\ t \in Calls => AuthError(t)
Ends(t) ==
    /\ pc[t] = "close" /\ pc'[t] # "close"
    /\ Shut(pools, pools', using[t], "closed")
    /\ NamesAFreshOne
Closes(t) == Stays(t) \/ Starts(t) \/ Ends(t)

LEMMA SameStays ==
    ASSUME NEW t, UNCHANGED <<pools, pool>>, pc[t] # "close" \/ pools[using[t]].state = "closed"
    PROVE  Stays(t)
  BY DEF Stays, AsBefore

LEMMA EditedStays ==
    ASSUME NEW t, NEW p \in DOMAIN pools, Edited(pools, pools', p),
           pools'[p].state = pools[p].state, pool' = pool, pc[t] # "close"
    PROVE  Stays(t)
  BY DEF Edited, Stays, AsBefore

LEMMA GrownStays ==
    ASSUME Sound(pools), NEW t, Grown(pools, pools'), pool' = Len(pools) + 1, pc[t] # "close"
    PROVE  Stays(t)
<1>1. Len(pools) \in Nat /\ DOMAIN pools = 1..Len(pools)
  BY SoundIndices
<1>2. PICK n : n = Len(pools) + 1
  OBVIOUS
<1>3. DOMAIN pools' = DOMAIN pools \cup {n} /\ n \notin DOMAIN pools
  BY <1>1, <1>2 DEF Grown
<1>4. pools'[n].state = "open" /\ pool' = n
  BY <1>2 DEF Grown, NewPool
<1>5. AsBefore(pools, pools')
  BY <1>3, <1>4 DEF Grown, AsBefore
<1> QED BY <1>3, <1>4, <1>5 DEF Stays, NamesAFreshOne

LEMMA StartStarts ==
    ASSUME IInv, NEW t \in Tasks, pool # None, StartClosing(t), UNCHANGED pool,
           t \in Calls => AuthError(t)
    PROVE  Starts(t)
<1>1. pool \in DOMAIN pools /\ Sound(pools)
  BY InvFacts
<1>2. Edited(pools, pools', pool) /\ pools'[pool].state = "closing"
  BY <1>1, StartEdits
<1>3. Shut(pools, pools', pool, "closing")
  BY <1>1, <1>2 DEF Edited, Shut
<1>4. pc'[t] = "close" /\ using'[t] = pool
  BY InvFacts DEF StartClosing, Goto
<1> QED BY <1>1, <1>3, <1>4 DEF Starts

LEMMA AfterShuts ==
    ASSUME IInv, NEW t \in Tasks, pc[t] = "close"
    PROVE  /\ Shut(pools, AfterClose(t), using[t], "closed")
           /\ DOMAIN AfterClose(t) = DOMAIN pools /\ Sound(AfterClose(t))
<1>1. using[t] \in DOMAIN pools /\ Sound(pools)
  BY InvFacts DEF InFlight
<1>2. PICK s : s = AfterClose(t)
  OBVIOUS
<1>3. Sound(s) /\ Edited(pools, s, using[t]) /\ s[using[t]].state = "closed"
  BY <1>1, <1>2, AfterEdits
<1>4. Shut(pools, s, using[t], "closed")
  BY <1>1, <1>3 DEF Edited, Shut
<1> QED BY <1>2, <1>3, <1>4 DEF Edited

LEMMA RebuildEnds ==
    ASSUME IInv, NEW c \in Calls, pc[c] = "close", Rebuild(c, AfterClose(c))
    PROVE  Ends(c)
<1>1. c \in Tasks
  BY DEF Tasks
<1>2. PICK s : s = AfterClose(c)
  OBVIOUS
<1>3. Shut(pools, s, using[c], "closed") /\ DOMAIN s = DOMAIN pools /\ Sound(s)
  BY <1>1, <1>2, AfterShuts
<1>4. CASE file.kind = "good"
  <2>0. pools' = Append(s, NewPool) /\ pool' = Len(s) + 1 /\ pc' = [pc EXCEPT ![c] = "acquire"]
    BY <1>2, <1>4 DEF Rebuild, Goto
  <2>1. Grown(s, pools') /\ pool' = Len(s) + 1 /\ pc' = [pc EXCEPT ![c] = "acquire"]
    BY <1>3, <2>0, InvFacts, AppendGrows
  <2>2. Len(s) \in Nat /\ DOMAIN s = 1..Len(s)
    BY <1>3, SoundIndices
  <2>3. PICK n : n = Len(s) + 1
    OBVIOUS
  <2>4. DOMAIN pools' = DOMAIN pools \cup {n} /\ n \notin DOMAIN pools
    BY <1>3, <2>1, <2>2, <2>3 DEF Grown
  <2>5. \A p \in DOMAIN pools : pools'[p] = s[p]
    BY <1>3, <2>1 DEF Grown
  <2>6. pools'[n].state = "open" /\ pool' = n
    BY <2>1, <2>3 DEF Grown, NewPool
  <2>7. Shut(pools, pools', using[c], "closed")
    BY <1>3, <2>4, <2>5, <2>6 DEF Shut
  <2>8. pc'[c] # "close"
    BY <1>1, <2>1, InvFacts
  <2> QED BY <2>4, <2>6, <2>7, <2>8 DEF Ends, NamesAFreshOne
<1>5. CASE file.kind # "good"
  BY <1>1, <1>2, <1>3, <1>5, InvFacts DEF Rebuild, Finish, Goto, Ends, NamesAFreshOne
<1> QED BY <1>4, <1>5

LEMMA CallCloses == ASSUME IInv, NEW c \in Calls, CallStep(c) PROVE Closes(c)
<1>1. c \in Tasks /\ Sound(pools)
  BY InvFacts DEF Tasks
<1>2. CASE Fetch(c) \/ AcquireFails(c)
  BY <1>2, SameStays DEF Fetch, AcquireFails, LogsIn, Closes
<1>3. CASE Lend(c)
  <2>1. using[c] \in DOMAIN pools /\ pools[using[c]].state = "open" /\ pc[c] = "acquire"
    BY <1>1, <1>3, InvFacts DEF Lend, Source, InFlight
  <2> QED BY <1>1, <1>3, <2>1, LendEdits, EditedStays DEF Lend, Closes
<1>4. CASE Refused(c)
  <2>1. pc[c] \in {"acquire", "refused"} /\ AuthError(c)
    BY <1>4 DEF Refused, AuthError
  <2>2. CASE UNCHANGED <<pool, pools>>
    BY <2>1, <2>2, SameStays DEF Closes
  <2>3. CASE pool = None /\ Rebuild(c, pools)
    <3>1. CASE file.kind = "good"
      <4>1. pools' = Append(pools, NewPool) /\ pool' = Len(pools) + 1
        BY <2>3, <3>1 DEF Rebuild
      <4>2. Grown(pools, pools')
        BY <1>1, <4>1, InvFacts, AppendGrows
      <4> QED BY <1>1, <2>1, <4>1, <4>2, GrownStays DEF Closes
    <3>2. CASE file.kind # "good"
      BY <2>1, <2>3, <3>2, SameStays DEF Rebuild, Closes
    <3> QED BY <3>1, <3>2
  <2>4. CASE pool # None /\ StartClosing(c) /\ UNCHANGED pool
    BY <1>1, <2>1, <2>4, StartStarts DEF Closes
  <2> QED BY <1>4, <2>2, <2>3, <2>4 DEF Refused
<1>5. CASE CloseReturns(c)
  BY <1>5, RebuildEnds, SameStays DEF CloseReturns, Closes
<1>6. CASE Query(c)
  <2>1. pc[c] = "query" /\ pools' = Returned(c) /\ pool' = pool
    BY <1>6 DEF Query
  <2> QED BY <1>1, <2>1, BorrowedIsBusy, ReturnEdits, EditedStays DEF Closes
<1>7. CASE Cancel(c)
  <2>1. CASE pc[c] = "query"
    BY <1>1, <1>7, <2>1, BorrowedIsBusy, ReturnEdits, EditedStays DEF Cancel, Closes
  <2>2. CASE pc[c] # "query"
    <3>1. UNCHANGED <<pools, pool, using>>
      BY <1>7, <2>2 DEF Cancel
    <3>2. pc'[c] = "done" /\ (pc[c] = "close" => reply'[c] = "cancelled in close")
      BY <1>1, <1>7, <2>2, InvFacts DEF Cancel, Finish, Goto
    <3> QED BY <3>1, <3>2 DEF Stays, AsBefore, Closes
  <2> QED BY <2>1, <2>2
<1> QED BY <1>2, <1>3, <1>4, <1>5, <1>6, <1>7 DEF CallStep, Acquire

LEMMA SessionCloses ==
    ASSUME IInv, NEW s \in Sessions, Startup(s) \/ Shutdown(s) \/ ShutdownEnds(s) PROVE Closes(s)
<1>1. s \in Tasks /\ s \notin Calls /\ Sound(pools)
  BY TasksAssumption, InvFacts DEF Tasks
<1>2. CASE Startup(s)
  <2>1. Grown(pools, pools') /\ pool' = Len(pools) + 1 /\ pc[s] # "close"
    BY <1>1, <1>2, InvFacts, AppendGrows DEF Startup
  <2> QED BY <1>1, <2>1, GrownStays DEF Closes
<1>3. CASE Shutdown(s)
  <2>1. pc[s] # "close" /\ pool' = pool
    BY <1>3 DEF Shutdown
  <2>2. CASE UNCHANGED pools
    BY <2>1, <2>2, SameStays DEF Closes
  <2>3. CASE pool # None /\ StartClosing(s)
    BY <1>1, <2>1, <2>3, StartStarts DEF Closes
  <2> QED BY <1>3, <2>2, <2>3 DEF Shutdown
<1>4. CASE ShutdownEnds(s)
  <2>1. pc[s] = "close" /\ pc'[s] # "close"
    BY <1>1, <1>4, InvFacts DEF ShutdownEnds, Goto
  <2>2. CASE pools' = AfterClose(s) /\ pool' = None
    BY <1>1, <2>1, <2>2, AfterShuts DEF Ends, NamesAFreshOne, Closes
  <2>3. CASE pools[using[s]].state = "closed" /\ UNCHANGED <<pools, pool>>
    BY <2>3, SameStays DEF Closes
  <2> QED BY <1>4, <2>2, <2>3 DEF ShutdownEnds
<1> QED BY <1>2, <1>3, <1>4

---------------------------------------------------------------------------
(* The pool that _pool names                                               *)

(* It is never one that has closed: who closes it clears _pool, or puts a  *)
(* new pool in its place, in the same breath.                              *)
Named ==
    pool # None =>
        \/ pools[pool].state = "open"
        \/ pools[pool].state = "closing" /\ \E t \in Tasks : ClosesOrGaveUp(t, pool)

(* A call that has its answer is done.                                     *)
Answered == \A c \in Calls : reply[c] # "none" => pc[c] = "done"

LEMMA AnsweredCallStep ==
    ASSUME IInv, NEW c \in Calls, CallStep(c)
    PROVE  pc[c] # "done" /\ (reply'[c] # reply[c] => pc'[c] = "done")
<1>1. \/ UNCHANGED reply
      \/ \E a \in Replies : Finish(c, a)
  BY DEF CallStep, Fetch, Acquire, Lend, AcquireFails, Refused, CloseReturns, Rebuild, Query,
         Cancel, Replies
<1>2. pc[c] # "done"
  BY CallIsOnward DEF Onward
<1> QED BY <1>1, <1>2, InvFacts DEF Finish, Goto, Tasks

LEMMA AnsweredStep == ASSUME IInv, Answered, [Next]_vars PROVE Answered'
<1>1. ASSUME NEW d \in Calls, CallStep(d), NEW c \in Calls, reply'[c] # "none"
      PROVE  pc'[c] = "done"
  BY <1>1, AnsweredCallStep, OthersStayApart DEF Answered, Apart
<1>2. ASSUME NEW s \in Sessions, Startup(s) \/ Shutdown(s) \/ ShutdownEnds(s),
             NEW c \in Calls, reply'[c] # "none"
      PROVE  pc'[c] = "done"
  BY <1>2, SessionsStayApart DEF Answered, Apart
<1>3. CASE UNCHANGED here
  BY <1>3 DEF here, Answered
<1> QED BY <1>1, <1>2, <1>3
        DEF Next, CallStep, Answered, Rotate, WriteCredentialFile, AlterUser, vars, here

(* A task that has given up does nothing more.                             *)
LEMMA NamedTaskStep ==
    ASSUME IInv, Named, Answered, NEW t \in Tasks, Closes(t),
           \A u \in Tasks : u # t => pc'[u] = pc[u] /\ using'[u] = using[u],
           \A c \in Calls : c # t => reply'[c] = reply[c],
           t \in Calls => pc[t] # "done"
    PROVE  Named'
<1>1. pool \in {None} \cup DOMAIN pools
  BY InvFacts
<1>2. CASE NamesAFreshOne
  BY <1>2 DEF NamesAFreshOne, Closes, Stays, Starts, Ends, AsBefore, Shut, Named
<1>3. CASE Starts(t)
  <2>1. pools'[pool].state = "closing" /\ pool' = pool /\ ClosesOrGaveUp(t, pool)'
    BY <1>3 DEF Starts, Shut, ClosesOrGaveUp
  <2> QED BY <2>1 DEF Named, ClosesOrGaveUp
<1>4. CASE Stays(t) /\ pool' = pool
  <2>1. SUFFICES ASSUME pool # None, pools[pool].state # "open"
                 PROVE  /\ pools'[pool].state = "closing"
                        /\ \E u \in Tasks : ClosesOrGaveUp(u, pool)'
    <3>1. pool # None /\ pools[pool].state = "open" => pools'[pool].state = "open"
      BY <1>1, <1>4 DEF Stays, AsBefore
    <3> QED BY <1>4, <3>1 DEF Named, ClosesOrGaveUp
  <2>2. pools[pool].state = "closing"
    BY <2>1 DEF Named
  <2>3. PICK u \in Tasks : ClosesOrGaveUp(u, pool)
    BY <2>1 DEF Named
  <2>4. pools'[pool].state = "closing"
    BY <1>1, <1>4, <2>1, <2>2 DEF Stays, AsBefore
  <2>5. CASE u # t
    <3>1. pc'[u] = pc[u] /\ using'[u] = using[u] /\ (u \in Calls => reply'[u] = reply[u])
      BY <2>5
    <3> QED BY <1>4, <2>3, <2>4, <3>1 DEF ClosesOrGaveUp
  <2>6. CASE u = t
    <3>1. using[t] = pool
      BY <2>3, <2>6 DEF ClosesOrGaveUp
    <3>2. pc[t] = "close"
      BY <2>3, <2>6 DEF ClosesOrGaveUp, Answered
    <3>3. using'[t] = using[t] /\ t \in Calls /\ reply'[t] = "cancelled in close"
      BY <1>4, <2>2, <3>1, <3>2 DEF Stays
    <3> QED BY <1>4, <2>4, <3>1, <3>3 DEF ClosesOrGaveUp
  <2> QED BY <2>4, <2>5, <2>6
<1> QED BY <1>2, <1>3, <1>4 DEF Closes, Stays, Ends

LEMMA NamedStep == ASSUME IInv, Named, Answered, [Next]_vars PROVE Named'
<1>1. ASSUME NEW c \in Calls, CallStep(c) PROVE Named'
  <2>1. c \in Tasks
    BY DEF Tasks
  <2> QED BY <1>1, <2>1, CallCloses, CallTouches, AnsweredCallStep, NamedTaskStep
<1>2. ASSUME NEW s \in Sessions, Startup(s) \/ Shutdown(s) \/ ShutdownEnds(s) PROVE Named'
  <2>1. s \in Tasks /\ s \notin Calls
    BY TasksAssumption DEF Tasks
  <2>2. UNCHANGED reply /\ \A u \in Tasks : u # s => pc'[u] = pc[u] /\ using'[u] = using[u]
    BY <1>2, SessionMoves
  <2> QED BY <1>2, <2>1, <2>2, SessionCloses, NamedTaskStep
<1>3. CASE UNCHANGED here
  BY <1>3 DEF here, Named, ClosesOrGaveUp
<1> QED BY <1>1, <1>2, <1>3 DEF Next, CallStep, Rotate, WriteCredentialFile, AlterUser, vars, here

LEMMA AnsweredAlways == Spec => []Answered
<1>1. Init => Answered
  BY DEF Init, Answered
<1>2. IInv /\ Answered /\ [Next]_vars => Answered'
  BY AnsweredStep
<1> QED BY <1>1, <1>2, IInvAlways, PTL DEF Spec

(* NamedPoolIsUsable: however rebuilds, session ends and rotations meet,   *)
(* _pool never names a pool that has closed.  It names one that is closing *)
(* only while close_pool awaits that very close(), or since a call was     *)
(* cancelled at this await: no other failure or cancellation leaves a pool *)
(* there that lends nothing.                                               *)
THEOREM LaterFetchesFindAPool == Spec => []NamedPoolIsUsable
<1>1. Init => Named
  BY DEF Init, Named
<1>2. IInv /\ Answered /\ Named /\ [Next]_vars => Named'
  BY NamedStep
<1>3. Named => NamedPoolIsUsable
  BY DEF Named, NamedPoolIsUsable
<1> QED BY <1>1, <1>2, <1>3, IInvAlways, AnsweredAlways, PTL DEF Spec

---------------------------------------------------------------------------
(* Why a fetch loses its pool                                              *)

SessionLeft == \E s \in Sessions : pc[s] \in {"close", "ended"}
Changed == file.version + dbPassword > 0
PastAcquire(d) == rebuilt[d] \/ pc[d] \in {"query", "refused", "close", "done"}

(* A call that may have closed pool p is in close(), or is done, or uses a *)
(* pool younger than p, which it has built.                                *)
MayHaveClosed(d, p) == (rebuilt[d] /\ p < using[d]) \/ pc[d] = "done"
MayBeClosing(d, p) == pc[d] = "close" \/ MayHaveClosed(d, p)

Explained(p) ==
    /\ pools[p].state # "open" =>
          SessionLeft \/ (Changed /\ \E d \in Calls : MayBeClosing(d, p))
    /\ pools[p].state = "closed" =>
          SessionLeft \/ (Changed /\ \E d \in Calls : MayHaveClosed(d, p))

(* Nobody has a password that the file never held, and a call that has     *)
(* been refused has met a change.                                          *)
NoneAhead ==
    /\ \A p \in DOMAIN pools : pools[p].password <= file.version
    /\ \A c \in Calls : pc[c] = "refused" => Changed

Causes == NoneAhead /\ (\A p \in DOMAIN pools : Explained(p)) /\ LostPoolHasACause

LEMMA IndicesAreNumbers ==
    ASSUME IInv
    PROVE  /\ \A p \in DOMAIN pools : p \in Nat /\ p < Len(pools) + 1
           /\ file.version \in Nat /\ dbPassword \in Nat
           /\ \A p \in DOMAIN pools : pools[p].password \in Nat
<1>1. Len(pools) \in Nat /\ DOMAIN pools = 1..Len(pools)
  BY InvFacts, SoundIndices
<1>2. file.version \in 0..MaxRotations
  BY InvFacts
<1>3. file.version \in Nat
  BY <1>2, PoolAssumption
<1> QED BY <1>1, <1>3, VersionsAreNumbers

(* What explains a loss once explains it for good.                         *)
LEMMA CallsGoFurther ==
    ASSUME IInv, NEW d \in Calls, Onward(d) \/ Apart(d)
    PROVE  /\ PastAcquire(d) => PastAcquire(d)'
           /\ \A p \in DOMAIN pools : /\ MayHaveClosed(d, p) => MayHaveClosed(d, p)'
                                      /\ MayBeClosing(d, p) => MayBeClosing(d, p)'
<1>1. rebuilt[d] => pc[d] \notin {"idle", "close"}
  BY DEF IInv, RebuildsOnce
<1>2. \A p \in DOMAIN pools : p < Len(pools) + 1
  BY IndicesAreNumbers
<1>3. CASE Onward(d)
  BY <1>1, <1>2, <1>3 DEF Onward, PastAcquire, MayHaveClosed, MayBeClosing
<1>4. CASE Apart(d)
  BY <1>4 DEF Apart, PastAcquire, MayHaveClosed, MayBeClosing
<1> QED BY <1>3, <1>4

LEMMA EachGoesFurther ==
    ASSUME IInv, [Next]_vars, NEW d \in Calls PROVE Onward(d) \/ Apart(d)
<1>1. CASE \E c \in Calls : CallStep(c)
  BY <1>1, CallIsOnward, OthersStayApart
<1>2. CASE \E s \in Sessions : Startup(s) \/ Shutdown(s) \/ ShutdownEnds(s)
  BY <1>2, SessionsStayApart
<1>3. CASE UNCHANGED here
  BY <1>3 DEF here, Apart
<1> QED BY <1>1, <1>2, <1>3 DEF Next, CallStep, Rotate, WriteCredentialFile, AlterUser, vars, here

LEMMA SessionsStayGone == ASSUME IInv, [Next]_vars, SessionLeft PROVE SessionLeft'
<1>1. PICK s \in Sessions : pc[s] \in {"close", "ended"}
  BY DEF SessionLeft
<1>2. s \in Tasks /\ s \notin Calls
  BY TasksAssumption DEF Tasks
<1>3. CASE \E c \in Calls : CallStep(c)
  BY <1>1, <1>2, <1>3, CallTouches DEF SessionLeft
<1>4. ASSUME NEW x \in Sessions, Startup(x) \/ Shutdown(x) \/ ShutdownEnds(x)
      PROVE  SessionLeft'
  <2>1. CASE x = s
    BY <1>1, <1>2, <1>4, <2>1, InvFacts DEF Startup, Shutdown, ShutdownEnds, Goto, SessionLeft
  <2>2. CASE x # s
    BY <1>1, <1>2, <1>4, <2>2, SessionMoves DEF SessionLeft
  <2> QED BY <2>1, <2>2
<1>5. CASE UNCHANGED here
  BY <1>1, <1>5 DEF here, SessionLeft
<1> QED BY <1>3, <1>4, <1>5 DEF Next, CallStep, Rotate, WriteCredentialFile, AlterUser, vars, here

LEMMA VersionsGrow ==
    ASSUME IInv, [Next]_vars
    PROVE  /\ file'.version \in Nat /\ file'.version >= file.version
           /\ Changed => Changed'
<1>1. file.version \in Nat /\ dbPassword \in Nat
  BY IndicesAreNumbers
<1>2. CASE UNCHANGED world
  BY <1>1, <1>2 DEF world, Changed
<1>3. CASE Rotate \/ WriteCredentialFile \/ AlterUser
  BY <1>1, <1>3 DEF Rotate, WriteCredentialFile, AlterUser, Changed
<1>4. CASE \E c \in Calls : CallStep(c)
  BY <1>2, <1>4, CallTouches
<1>5. CASE \E s \in Sessions : Startup(s) \/ Shutdown(s) \/ ShutdownEnds(s)
  BY <1>2, <1>5, SessionMoves
<1> QED BY <1>2, <1>3, <1>4, <1>5 DEF Next, CallStep, vars

(* A pool has a password that the database does not take: then it changed. *)
LEMMA StaleTellsOfChange ==
    ASSUME IInv, NoneAhead, NEW c \in Calls, pc[c] \in InFlight,
           pools[using[c]].password # dbPassword
    PROVE  Changed
<1>1. using[c] \in DOMAIN pools
  BY InvFacts DEF Tasks
<1>2. PICK n : n = pools[using[c]].password
  OBVIOUS
<1>3. n \in Nat /\ file.version \in Nat /\ dbPassword \in Nat
  BY <1>1, <1>2, IndicesAreNumbers
<1>4. n <= file.version /\ n # dbPassword
  BY <1>1, <1>2 DEF NoneAhead
<1> QED BY <1>3, <1>4 DEF Changed

LEMMA RefusedStep ==
    ASSUME IInv, NoneAhead, [Next]_vars, NEW c \in Calls, pc'[c] = "refused" PROVE Changed'
<1>1. CASE pc[c] = "refused"
  BY <1>1, VersionsGrow DEF NoneAhead
<1>2. CASE pc[c] # "refused"
  <2>1. CallStep(c)
    <3>1. c \in Tasks /\ \A s \in Sessions : c # s
      BY TasksAssumption DEF Tasks
    <3>2. CASE \E d \in Calls : CallStep(d)
      BY <1>2, <3>1, <3>2, CallTouches
    <3>3. CASE \E s \in Sessions : Startup(s) \/ Shutdown(s) \/ ShutdownEnds(s)
      BY <1>2, <3>1, <3>3, SessionMoves
    <3>4. CASE UNCHANGED here
      BY <1>2, <3>4 DEF here
    <3> QED BY <3>2, <3>3, <3>4
            DEF Next, CallStep, Rotate, WriteCredentialFile, AlterUser, vars, here
  <2>2. pc[c] = "query" /\ pools[using[c]].password # dbPassword
    BY <1>2, <2>1, InvFacts DEF CallStep, Fetch, Acquire, Lend, AcquireFails, Refused,
       CloseReturns, Rebuild, StartClosing, Query, Source, Cancel, Finish, Goto, Tasks
  <2> QED BY <2>2, StaleTellsOfChange, VersionsGrow DEF InFlight
<1> QED BY <1>1, <1>2

LEMMA NoneAheadStep == ASSUME IInv, NoneAhead, [Next]_vars PROVE NoneAhead'
<1>1. \A c \in Calls : pc'[c] = "refused" => Changed'
  BY RefusedStep
<1>2. /\ file'.version \in Nat /\ file'.version >= file.version /\ file.version \in Nat
      /\ \A p \in DOMAIN pools : pools[p].password \in Nat
  BY VersionsGrow, IndicesAreNumbers
<1>3. CASE \E c \in Calls : CallStep(c)
  <2>1. (Alike(pools, pools') \/ Longer(pools, pools')) /\ UNCHANGED world
    BY <1>3, CallMoves, CallTouches DEF Rebuilds
  <2> QED BY <1>1, <1>2, <2>1 DEF Alike, Longer, NoneAhead, world
<1>4. CASE \E s \in Sessions : Startup(s) \/ Shutdown(s) \/ ShutdownEnds(s)
  <2>1. (Alike(pools, pools') \/ Longer(pools, pools')) /\ UNCHANGED world
    BY <1>4, SessionMoves
  <2> QED BY <1>1, <1>2, <2>1 DEF Alike, Longer, NoneAhead, world
<1>5. CASE UNCHANGED here
  <2>1. pools' = pools
    BY <1>5 DEF here
  <2> QED BY <1>1, <1>2, <2>1 DEF NoneAhead
<1> QED BY <1>3, <1>4, <1>5 DEF Next, CallStep, Rotate, WriteCredentialFile, AlterUser, vars, here

(* A refusal tells that the password has changed.                          *)
LEMMA RefusalTellsOfChange ==
    ASSUME IInv, NoneAhead, NEW c \in Calls, AuthError(c) PROVE Changed
<1>1. CASE pc[c] = "refused"
  BY <1>1 DEF NoneAhead
<1>2. CASE pc[c] # "refused"
  <2>1. pc[c] = "acquire" /\ pools[using[c]].password # dbPassword
    BY <1>2 DEF AuthError, Source
  <2> QED BY <2>1, StaleTellsOfChange DEF InFlight
<1> QED BY <1>1, <1>2

(* The task that takes a step explains what the step closes; what was      *)
(* closed before stays explained.                                          *)
LEMMA ExplainedStays ==
    ASSUME IInv, [Next]_vars, NEW p \in DOMAIN pools, Explained(p),
           pools'[p].state = pools[p].state
    PROVE  Explained(p)'
<1>1. (SessionLeft => SessionLeft') /\ (Changed => Changed')
  BY SessionsStayGone, VersionsGrow
<1>2. \A d \in Calls : /\ MayHaveClosed(d, p) => MayHaveClosed(d, p)'
                       /\ MayBeClosing(d, p) => MayBeClosing(d, p)'
  BY EachGoesFurther, CallsGoFurther
<1> QED BY <1>1, <1>2 DEF Explained

LEMMA ExplainedTaskStep ==
    ASSUME IInv, NoneAhead, \A p \in DOMAIN pools : Explained(p), [Next]_vars, NEW t \in Tasks, Closes(t),
           t \in Calls => Onward(t),
           t \in Sessions => pc[t] # "close" \/ pc'[t] = "ended",
           NEW p \in DOMAIN pools'
    PROVE  Explained(p)'
<1>1. pools'[p].state = "open" => Explained(p)'
  BY DEF Explained
<1>2. CASE p \notin DOMAIN pools
  BY <1>1, <1>2 DEF Closes, Stays, Starts, Ends, AsBefore, Shut
<1>3. CASE p \in DOMAIN pools /\ pools'[p].state = pools[p].state
  BY <1>3, ExplainedStays
<1>4. CASE p \in DOMAIN pools /\ Starts(t) /\ p = pool
  <2>1. pools'[p].state = "closing" /\ pc'[t] = "close"
    BY <1>4 DEF Starts, Shut
  <2>2. CASE t \in Sessions
    BY <2>1, <2>2 DEF Explained, SessionLeft
  <2>3. CASE t \in Calls
    <3>1. Changed'
      BY <1>4, <2>3, RefusalTellsOfChange, VersionsGrow DEF Starts
    <3> QED BY <2>1, <2>3, <3>1 DEF Explained, MayBeClosing
  <2> QED BY <2>2, <2>3 DEF Tasks
<1>5. CASE p \in DOMAIN pools /\ Ends(t) /\ p = using[t]
  <2>1. pools'[p].state = "closed" /\ pools[p].state # "open" /\ pc[t] = "close" /\ pc'[t] # "close"
    BY <1>5 DEF Ends, Shut, IInv, Held
  <2>2. CASE t \in Sessions
    <3>1. SessionLeft'
      BY <2>1, <2>2 DEF SessionLeft
    <3> QED BY <3>1 DEF Explained
  <2>3. CASE t \in Calls
    <3>1. MayHaveClosed(t, p)'
      <4>1. p < Len(pools) + 1
        BY <1>5, IndicesAreNumbers
      <4> QED BY <2>1, <2>3, <4>1 DEF Onward, MayHaveClosed
    <3>2. SessionLeft \/ Changed
      BY <1>5, <2>1 DEF Explained
    <3>3. SessionLeft' \/ Changed'
      BY <3>2, SessionsStayGone, VersionsGrow
    <3> QED BY <2>3, <3>1, <3>3 DEF Explained, MayBeClosing
  <2> QED BY <2>2, <2>3 DEF Tasks
<1> QED BY <1>2, <1>3, <1>4, <1>5 DEF Closes, Stays, Starts, Ends, AsBefore, Shut

LEMMA ExplainedStep ==
    ASSUME IInv, NoneAhead, \A p \in DOMAIN pools : Explained(p), [Next]_vars,
           NEW p \in DOMAIN pools'
    PROVE  Explained(p)'
<1>1. ASSUME NEW c \in Calls, CallStep(c) PROVE Explained(p)'
  <2>1. c \in Tasks /\ c \notin Sessions
    BY TasksAssumption DEF Tasks
  <2> QED BY <1>1, <2>1, CallCloses, CallIsOnward, ExplainedTaskStep
<1>2. ASSUME NEW s \in Sessions, Startup(s) \/ Shutdown(s) \/ ShutdownEnds(s) PROVE Explained(p)'
  <2>1. s \in Tasks /\ s \notin Calls
    BY TasksAssumption DEF Tasks
  <2>2. pc[s] # "close" \/ pc'[s] = "ended"
    BY <1>2, <2>1, InvFacts DEF Startup, Shutdown, ShutdownEnds, Goto
  <2> QED BY <1>2, <2>1, <2>2, SessionCloses, ExplainedTaskStep
<1>3. CASE UNCHANGED here
  BY <1>3, ExplainedStays DEF here
<1> QED BY <1>1, <1>2, <1>3 DEF Next, CallStep, Rotate, WriteCredentialFile, AlterUser, vars, here

(* The cause of a loss, for the call that suffers it.                      *)
Lost == {"pool closed", "close failed"}
Cause(c) == SessionLeft \/ (Changed /\ \E d \in Calls \ {c} : PastAcquire(d))

LEMMA CauseStays == ASSUME IInv, [Next]_vars, NEW c \in Calls, Cause(c) PROVE Cause(c)'
<1>1. \A d \in Calls : PastAcquire(d) => PastAcquire(d)'
  BY EachGoesFurther, CallsGoFurther
<1> QED BY <1>1, SessionsStayGone, VersionsGrow DEF Cause

LEMMA ClosedUnderAcquire ==
    ASSUME IInv, NEW c \in Calls, NEW p, p \in DOMAIN pools, Explained(p),
           pools[p].state # "open", pc[c] \in {"acquire", "refused"}, rebuilt[c] => using[c] = p
    PROVE  Cause(c)
<1>1. SUFFICES ASSUME ~SessionLeft PROVE Cause(c)
  BY DEF Cause
<1>2. PICK d \in Calls : MayBeClosing(d, p)
  BY <1>1 DEF Explained
<1>3. p \in Nat
  BY IndicesAreNumbers
<1>4. d # c /\ PastAcquire(d)
  BY <1>2, <1>3 DEF MayBeClosing, MayHaveClosed, PastAcquire
<1>5. Changed
  BY <1>1 DEF Explained
<1> QED BY <1>4, <1>5 DEF Cause

LEMMA ClosedUnderClose ==
    ASSUME IInv, NEW c \in Calls, NEW p, p \in DOMAIN pools, Explained(p),
           pools[p].state = "closed", pc[c] = "close"
    PROVE  Cause(c)
<1>1. SUFFICES ASSUME ~SessionLeft PROVE Cause(c)
  BY DEF Cause
<1>2. PICK d \in Calls : MayHaveClosed(d, p)
  BY <1>1 DEF Explained
<1>3. d # c /\ PastAcquire(d)
  BY <1>2 DEF MayHaveClosed, PastAcquire, IInv, RebuildsOnce
<1>4. Changed
  BY <1>1 DEF Explained
<1> QED BY <1>3, <1>4 DEF Cause

(* A pool that has lent a connection has a borrower.                       *)
LEMMA BusyIsBorrowed ==
    ASSUME IInv, NEW p \in DOMAIN pools, pools[p].busy > 0
    PROVE  \E d \in Calls : pc[d] = "query"
<1>1. pools[p].busy = Cardinality(Borrowers(p))
  BY DEF IInv, ConnectionsReturned, Borrowers
<1>2. Borrowers(p) # {}
  BY <1>1, FS_EmptySet
<1> QED BY <1>2 DEF Borrowers

LEMMA LossHasACause ==
    ASSUME IInv, Causes, NEW c \in Calls, CallStep(c), reply'[c] # reply[c], reply'[c] \in Lost
    PROVE  Cause(c)
<1>1. c \in Tasks /\ \A p \in DOMAIN pools : Explained(p)
  BY DEF Tasks, Causes
<1>2. CASE AcquireFails(c)
  <2>1. pc[c] = "acquire" /\ using[c] \in DOMAIN pools
    BY <1>1, <1>2, InvFacts DEF AcquireFails, LogsIn, InFlight
  <2>2. ~Finish(c, "failed")
    BY InvFacts DEF Finish, Lost
  <2>3. pools[using[c]].state # "open"
    BY <1>2, <2>2 DEF AcquireFails, Source
  <2> QED BY <1>1, <2>1, <2>3, ClosedUnderAcquire
<1>3. CASE Refused(c)
  <2>1. pc[c] \in {"acquire", "refused"} /\ AuthError(c)
    BY <1>3 DEF Refused, AuthError
  <2>2. ~rebuilt[c] /\ pool # None /\ CloseMayRaise
    BY <1>3, InvFacts DEF Refused, Rebuild, StartClosing, Finish, Lost
  <2>3. pool \in DOMAIN pools
    BY <2>2, InvFacts
  <2>4. CASE pools[pool].state # "open"
    <3>1. PICK p \in DOMAIN pools : p = pool
      BY <2>3
    <3>2. Explained(p) /\ pools[p].state # "open" /\ ~rebuilt[c]
      BY <1>1, <2>2, <2>4, <3>1
    <3> QED BY <2>1, <3>2, ClosedUnderAcquire
  <2>5. CASE pools[pool].busy > 0
    <3>1. PICK d \in Calls : pc[d] = "query"
      BY <2>3, <2>5, BusyIsBorrowed
    <3>2. Changed
      BY <2>1, RefusalTellsOfChange DEF Causes
    <3> QED BY <2>1, <3>1, <3>2 DEF Cause, PastAcquire
  <2> QED BY <2>2, <2>4, <2>5 DEF CloseMayRaise
<1>4. CASE CloseReturns(c)
  <2>1. pc[c] = "close" /\ using[c] \in DOMAIN pools
    BY <1>1, <1>4, InvFacts DEF CloseReturns, InFlight
  <2>2. pools[using[c]].state = "closed"
    BY <1>4, InvFacts DEF CloseReturns, Rebuild, Finish, Lost
  <2> QED BY <1>1, <2>1, <2>2, ClosedUnderClose
<1>5. CASE Fetch(c) \/ Lend(c) \/ Query(c) \/ Cancel(c)
  BY <1>5, InvFacts DEF Fetch, Lend, Query, Cancel, Finish, Lost
<1> QED BY <1>2, <1>3, <1>4, <1>5 DEF CallStep, Acquire

LEMMA CausesStep == ASSUME IInv, Causes, [Next]_vars PROVE Causes'
<1>1. NoneAhead' /\ \A p \in DOMAIN pools' : Explained(p)'
  BY NoneAheadStep, ExplainedStep DEF Causes
<1>2. ASSUME NEW c \in Calls, reply'[c] \in Lost PROVE Cause(c)'
  <2>1. CASE reply'[c] = reply[c]
    <3>1. Cause(c)
      BY <1>2, <2>1 DEF Causes, LostPoolHasACause, Lost, Cause, SessionLeft, Changed, PastAcquire
    <3> QED BY <3>1, CauseStays
  <2>2. CASE reply'[c] # reply[c]
    <3>1. CallStep(c)
      <4>1. CASE \E d \in Calls : CallStep(d)
        BY <2>2, <4>1, CallTouches
      <4>2. CASE \E s \in Sessions : Startup(s) \/ Shutdown(s) \/ ShutdownEnds(s)
        BY <2>2, <4>2, SessionMoves
      <4>3. CASE UNCHANGED here
        BY <2>2, <4>3 DEF here
      <4> QED BY <4>1, <4>2, <4>3
              DEF Next, CallStep, Rotate, WriteCredentialFile, AlterUser, vars, here
    <3> QED BY <1>2, <2>2, <3>1, LossHasACause, CauseStays
  <2> QED BY <2>1, <2>2
<1> QED BY <1>1, <1>2 DEF Causes, LostPoolHasACause, Lost, Cause, SessionLeft, Changed, PastAcquire

(* LostPoolHasACause: while no session leaves, a fetch that fails for the  *)
(* want of its pool, or whose close() raises, has met a change of password *)
(* and another call; a failure that is no ORA-01017 closes no pool.        *)
THEOREM LossesHaveACause == Spec => []LostPoolHasACause
<1>1. Init => Causes
  <2>1. Init => \A c \in Calls : pc[c] = "idle"
    BY TasksAssumption DEF Init, Tasks
  <2> QED BY <2>1 DEF Init, Causes, NoneAhead, LostPoolHasACause
<1>2. IInv /\ Causes /\ [Next]_vars => Causes'
  BY CausesStep
<1>3. Causes => LostPoolHasACause
  BY DEF Causes
<1> QED BY <1>1, <1>2, <1>3, IInvAlways, PTL DEF Spec
=============================================================================
