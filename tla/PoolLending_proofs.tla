--------------------------- MODULE PoolLending_proofs ---------------------------
(***************************************************************************)
(* MetadataPool implements Lending, for every number of calls, sessions    *)
(* and rotations, and every pool size.                                     *)
(*                                                                         *)
(* The argument: a step of one task is a step of one call, which goes      *)
(* onward (Onward), or of one session, and does to the pools' states one   *)
(* of three things (Closes).  The two together leave one action of Lending *)
(* or none: a call that ends is Leave, a loan is Borrow, the end of a      *)
(* statement that was refused is Return, a close() that starts on an open  *)
(* pool is Shut, a new pool is Open; what a close() does to a pool when it *)
(* returns Lending does not see.  ConnectionsReturned makes the pools' own *)
(* counts say what Lending asks of the borrowers.                          *)
(***************************************************************************)
EXTENDS MetadataPool_proofs

(* The variables of Lending, as MetadataPool gives them.                   *)
NotOpen == {p \in DOMAIN pools : pools[p].state # "open"}
Lent == [c \in Calls |-> IF pc[c] = "query" THEN using[c] ELSE 0]
Through == {c \in Calls : pc[c] = "done"}

LendingVars == <<Len(pools), NotOpen, Lent, Through>>

---------------------------------------------------------------------------
(* What a step does to them                                                *)

LEMMA LoansStay ==
    ASSUME \A c \in Calls : /\ (pc'[c] = "query") = (pc[c] = "query")
                            /\ (pc'[c] = "done") = (pc[c] = "done")
                            /\ pc[c] = "query" => using'[c] = using[c]
    PROVE  UNCHANGED <<Lent, Through>>
  BY DEF Lent, Through

LEMMA LoanEnds ==
    ASSUME NEW c \in Calls, pc'[c] = "done",
           \A d \in Calls : d # c => pc'[d] = pc[d] /\ using'[d] = using[d]
    PROVE  Lent' = [Lent EXCEPT ![c] = 0] /\ Through' = Through \cup {c}
  BY DEF Lent, Through

LEMMA LoanReturns ==
    ASSUME NEW c \in Calls, pc[c] = "query", pc'[c] = "refused",
           \A d \in Calls : d # c => pc'[d] = pc[d] /\ using'[d] = using[d]
    PROVE  Lent' = [Lent EXCEPT ![c] = 0] /\ Through' = Through
  BY DEF Lent, Through

LEMMA LoanBegins ==
    ASSUME NEW c \in Calls, pc[c] = "acquire", pc'[c] = "query", using'[c] = using[c],
           \A d \in Calls : d # c => pc'[d] = pc[d] /\ using'[d] = using[d]
    PROVE  Lent' = [Lent EXCEPT ![c] = using[c]] /\ Through' = Through
  BY DEF Lent, Through

(* A pool that is added, or whose close() returns, is no news to NotOpen.  *)
LEMMA OpenStay ==
    ASSUME IInv, NEW t \in Tasks, Stays(t) \/ Ends(t) PROVE NotOpen' = NotOpen
<1>1. CASE Stays(t)
  BY <1>1 DEF Stays, AsBefore, NotOpen
<1>2. CASE Ends(t)
  <2>1. using[t] \in DOMAIN pools /\ pools[using[t]].state # "open"
    BY <1>2 DEF Ends, IInv, Held, InFlight
  <2> QED BY <1>2, <2>1 DEF Ends, Shut, NotOpen
<1> QED BY <1>1, <1>2

LEMMA OneIsShut ==
    ASSUME NEW t \in Tasks, Starts(t), DOMAIN pools' = DOMAIN pools
    PROVE  NotOpen' = NotOpen \cup {pool}
  BY DEF Starts, Shut, NotOpen

(* Who holds something of p is who its count counts.                       *)
LEMMA HoldersAreCounted ==
    ASSUME IInv, NEW p \in DOMAIN pools
    PROVE  /\ {c \in Calls : Lent[c] = p} = Borrowers(p)
           /\ pools[p].busy = Cardinality(Borrowers(p))
<1>1. p # 0
  BY InvFacts, SoundIndices
<1> QED BY <1>1 DEF IInv, ConnectionsReturned, Lent, Borrowers

LEMMA NoneHolds ==
    ASSUME IInv, NEW p \in DOMAIN pools, pools[p].busy = 0
    PROVE  {c \in Calls : Lent[c] = p} = {}
<1>1. Borrowers(p) \subseteq Calls /\ IsFiniteSet(Borrowers(p))
  BY TasksAssumption, FS_Subset DEF Borrowers
<1> QED BY <1>1, HoldersAreCounted, FS_EmptySet

---------------------------------------------------------------------------
(* The actions                                                             *)

LEMMA LenIs == ASSUME IInv PROVE Len(pools) \in Nat /\ DOMAIN pools = 1..Len(pools)
  BY InvFacts, SoundIndices

LEMMA LeaveOfLending ==
    ASSUME IInv, NEW c \in Calls, CallStep(c), pc'[c] = "done" PROVE Promise!Leave(c)
<1>1. c \in Tasks /\ pc[c] # "done" /\ (Stays(c) \/ Ends(c))
  BY CallCloses, AnsweredCallStep DEF Tasks, Closes, Starts
<1>2. ~Rebuilds(c)
  BY InvFacts DEF Rebuilds, Tasks
<1>3. Len(pools') = Len(pools)
  BY <1>2, CallMoves DEF Alike
<1>4. NotOpen' = NotOpen
  BY <1>1, OpenStay
<1>5. Lent' = [Lent EXCEPT ![c] = 0] /\ Through' = Through \cup {c}
  BY CallTouches, LoanEnds DEF Tasks
<1>6. c \notin Through
  BY <1>1 DEF Through
<1> QED BY <1>3, <1>4, <1>5, <1>6 DEF Promise!Leave, Promise!Nothing, NotOpen, Lent, Through

LEMMA ReturnOfLending ==
    ASSUME IInv, NEW c \in Calls, CallStep(c), pc[c] = "query", pc'[c] = "refused"
    PROVE  Promise!Return(c)
<1>1. c \in Tasks /\ Stays(c)
  BY CallCloses DEF Tasks, Closes, Starts, Ends
<1>2. Len(pools') = Len(pools)
  <2>1. ~Rebuilds(c)
    BY <1>1, InvFacts DEF Rebuilds
  <2> QED BY <2>1, CallMoves DEF Alike
<1>3. NotOpen' = NotOpen
  BY <1>1, OpenStay
<1>4. Lent' = [Lent EXCEPT ![c] = 0] /\ Through' = Through
  BY CallTouches, LoanReturns DEF Tasks
<1>5. Lent[c] # 0
  <2>1. PICK p \in DOMAIN pools : p = using[c]
    BY BorrowedIsBusy
  <2> QED BY <2>1, LenIs DEF Lent
<1> QED BY <1>2, <1>3, <1>4, <1>5 DEF Promise!Return, Promise!Nothing, NotOpen, Lent, Through

(* The instance has the library's Cardinality under a name of its own.     *)
LEMMA SameCardinality == ASSUME NEW S PROVE Promise!Cardinality(S) = Cardinality(S)
  BY DEF Promise!Cardinality, Promise!IsFiniteSet, Cardinality, IsFiniteSet

LEMMA BorrowOfLending ==
    ASSUME IInv, NEW c \in Calls, Lend(c)
    PROVE  \E p \in DOMAIN pools : Promise!Borrow(c, p)
<1>1. /\ c \in Tasks /\ pc[c] = "acquire" /\ pc'[c] = "query" /\ UNCHANGED using
      /\ pools[using[c]].state = "open"
  BY InvFacts DEF Lend, Goto, Source, Tasks
<1>2. PICK p \in DOMAIN pools : p = using[c]
  BY <1>1, InvFacts DEF InFlight
<1>3. CallStep(c)
  BY DEF CallStep, Acquire
<1>4. /\ Len(pools') = Len(pools) /\ Sound(pools) /\ Sound(pools')
      /\ pools'[p].busy = pools[p].busy + 1 /\ DOMAIN pools' = DOMAIN pools
  BY <1>2, LendEdits, InvFacts DEF Edited
<1>5. pools[p].busy < PoolMax
  <2>1. pools[p] \in Objects /\ pools'[p] \in Objects
    BY <1>2, <1>4, SoundIndices
  <2>2. PICK b : b = pools[p].busy
    OBVIOUS
  <2>3. b \in Nat /\ b + 1 <= PoolMax
    BY <1>4, <2>1, <2>2, PoolAssumption DEF Objects
  <2> QED BY <2>2, <2>3, PoolAssumption
<1>6. Cardinality({d \in Calls : Lent[d] = p}) < PoolMax
  BY <1>5, HoldersAreCounted
<1>7. NotOpen' = NotOpen
  <2>1. Stays(c) \/ Ends(c)
    BY <1>1, <1>3, CallCloses DEF Closes, Starts
  <2> QED BY <1>1, <2>1, OpenStay
<1>8. Lent' = [Lent EXCEPT ![c] = p] /\ Through' = Through
  BY <1>1, <1>2, <1>3, CallTouches, LoanBegins DEF Tasks
<1>9. c \notin Through /\ Lent[c] = 0 /\ p \in 1..Len(pools) /\ p \notin NotOpen
  BY <1>1, <1>2, LenIs DEF Through, Lent, NotOpen
<1>10. Promise!HoldersOf(p) = {d \in Calls : Lent[d] = p}
  BY DEF Promise!HoldersOf, Lent
<1>11. Promise!Cardinality(Promise!HoldersOf(p)) < PoolMax
  BY <1>6, <1>10, SameCardinality
<1>12. c \notin Through /\ UNCHANGED <<Len(pools), NotOpen, Through>>
  BY <1>4, <1>7, <1>8, <1>9
<1>13. Promise!Borrow(c, p)
  BY <1>8, <1>9, <1>11, <1>12 DEF Promise!Borrow, Promise!Nothing, NotOpen, Lent, Through
<1> QED BY <1>13

LEMMA OpenOfLending ==
    ASSUME IInv, NEW t \in Tasks, Stays(t) \/ Ends(t), Longer(pools, pools'), UNCHANGED <<Lent, Through>>
    PROVE  Promise!Open
<1>1. NotOpen' = NotOpen
  BY OpenStay
<1> QED BY <1>1 DEF Longer, Promise!Open, NotOpen, Lent, Through

(* A close() that the driver accepts shuts a pool, or goes on closing one. *)
LEMMA ShutOfLending ==
    ASSUME IInv, NEW t \in Tasks, Starts(t), Closable, Alike(pools, pools'),
           UNCHANGED <<Lent, Through>>
    PROVE  (\E p \in DOMAIN pools : Promise!Shut(p)) \/ UNCHANGED LendingVars
<1>p. PICK p \in DOMAIN pools : p = pool
  BY DEF Starts
<1>1. NotOpen' = NotOpen \cup {p} /\ Len(pools') = Len(pools)
  BY <1>p, OneIsShut DEF Alike
<1>2. CASE p \in NotOpen
  <2>1. NotOpen' = NotOpen
    BY <1>1, <1>2
  <2> QED BY <1>1, <2>1 DEF LendingVars
<1>3. CASE p \notin NotOpen
  <2>1. {c \in Calls : Lent[c] = p} = {}
    BY <1>p, NoneHolds DEF Closable
  <2>2. p \in 1..Len(pools)
    BY <1>p, LenIs
  <2>3. Promise!Shut(p)
    BY <1>1, <1>3, <2>1, <2>2 DEF Promise!Shut, Promise!HoldersOf, NotOpen, Lent, Through
  <2> QED BY <2>3
<1> QED BY <1>2, <1>3

LEMMA NothingOfLending ==
    ASSUME IInv, NEW t \in Tasks, Stays(t) \/ Ends(t), Alike(pools, pools'), UNCHANGED <<Lent, Through>>
    PROVE  UNCHANGED LendingVars
<1>1. NotOpen' = NotOpen
  BY OpenStay
<1> QED BY <1>1 DEF Alike, LendingVars

---------------------------------------------------------------------------
(* The steps                                                               *)

LEMMA OnlyLendStarts ==
    ASSUME IInv, NEW c \in Calls, CallStep(c)
    PROVE  /\ pc[c] = "acquire" /\ pc'[c] = "query" => Lend(c)
           /\ pc'[c] = "close" => Closable /\ Starts(c)
<1>1. c \in Tasks
  BY DEF Tasks
<1>2. CASE Lend(c)
  BY <1>1, <1>2, InvFacts DEF Lend, Goto
<1>3. CASE Fetch(c) \/ AcquireFails(c) \/ Query(c) \/ Cancel(c)
  BY <1>1, <1>3, InvFacts DEF Fetch, AcquireFails, Query, Cancel, Finish, Goto
<1>4. CASE CloseReturns(c)
  BY <1>1, <1>4, InvFacts DEF CloseReturns, Rebuild, Finish, Goto
<1>5. CASE Refused(c)
  <2>1. CASE pool # None /\ Closable /\ StartClosing(c) /\ UNCHANGED pool
    <3>1. AuthError(c)
      BY <1>5 DEF Refused
    <3>2. Starts(c)
      BY <1>1, <2>1, <3>1, StartStarts
    <3>3. pc'[c] = "close"
      BY <1>1, <2>1, InvFacts DEF StartClosing, Goto
    <3> QED BY <2>1, <3>2, <3>3
  <2>2. CASE \E a : Finish(c, a)
    BY <1>1, <2>2, InvFacts DEF Finish, Goto
  <2>3. CASE Rebuild(c, pools)
    BY <1>1, <2>3, InvFacts DEF Rebuild, Finish, Goto
  <2> QED BY <1>5, <2>1, <2>2, <2>3 DEF Refused
<1> QED BY <1>2, <1>3, <1>4, <1>5 DEF CallStep, Acquire

Promised ==
    \/ Promise!Open
    \/ \E c \in Calls : Promise!Return(c) \/ Promise!Leave(c) \/ \E p \in DOMAIN pools : Promise!Borrow(c, p)
    \/ \E p \in DOMAIN pools : Promise!Shut(p)
    \/ UNCHANGED LendingVars

LEMMA CallKeepsPromise == ASSUME IInv, NEW c \in Calls, CallStep(c) PROVE Promised
<1>1. c \in Tasks /\ Onward(c) /\ Closes(c)
  BY CallIsOnward, CallCloses DEF Tasks
<1>2. CASE pc'[c] = "done"
  BY <1>2, LeaveOfLending DEF Promised
<1>3. CASE pc[c] = "acquire" /\ pc'[c] = "query"
  <2>1. Lend(c)
    BY <1>3, OnlyLendStarts
  <2> QED BY <2>1, BorrowOfLending DEF Promised
<1>4. ASSUME pc[c] \notin {"query", "done"}, pc'[c] \notin {"query", "done"}
      PROVE  UNCHANGED <<Lent, Through>>
  BY <1>4, CallTouches, LoansStay DEF Tasks
<1>5. CASE pc[c] = "query" /\ pc'[c] = "refused"
  BY <1>5, ReturnOfLending DEF Promised
<1>6. CASE pc[c] \in {"acquire", "refused"} /\ pc'[c] = "close"
  <2>1. ~Rebuilds(c)
    BY <1>1, <1>6, InvFacts DEF Rebuilds
  <2>2. Alike(pools, pools') /\ Starts(c) /\ Closable
    BY <1>6, <2>1, CallMoves, OnlyLendStarts
  <2>3. UNCHANGED <<Lent, Through>>
    BY <1>4, <1>6
  <2> QED BY <1>1, <2>2, <2>3, ShutOfLending DEF Promised
<1>7. CASE pc[c] \in {"idle", "acquire", "refused", "close"} /\ pc'[c] = "acquire"
  <2>1. Stays(c) \/ Ends(c)
    BY <1>1, <1>7 DEF Closes, Starts
  <2>2. UNCHANGED <<Lent, Through>>
    BY <1>4, <1>7
  <2>3. Longer(pools, pools') \/ Alike(pools, pools')
    BY CallMoves DEF Rebuilds
  <2> QED BY <1>1, <2>1, <2>2, <2>3, OpenOfLending, NothingOfLending DEF Promised
<1> QED BY <1>1, <1>2, <1>3, <1>5, <1>6, <1>7 DEF Onward

LEMMA SessionKeepsPromise ==
    ASSUME IInv, NEW s \in Sessions, Startup(s) \/ Shutdown(s) \/ ShutdownEnds(s) PROVE Promised
<1>1. s \in Tasks /\ s \notin Calls
  BY TasksAssumption DEF Tasks
<1>2. UNCHANGED <<Lent, Through>>
  <2>1. \A c \in Calls : c \in Tasks /\ c # s
    BY <1>1 DEF Tasks
  <2> QED BY <2>1, SessionMoves, LoansStay
<1>3. Longer(pools, pools') \/ Alike(pools, pools')
  BY SessionMoves
<1>4. CASE Stays(s) \/ Ends(s)
  BY <1>1, <1>2, <1>3, <1>4, OpenOfLending, NothingOfLending DEF Promised
<1>5. CASE Starts(s)
  <2>1. pc'[s] = "close" /\ pool \in DOMAIN pools
    BY <1>5 DEF Starts
  <2>2. Closable /\ StartClosing(s)
    BY <1>1, <2>1, InvFacts DEF Startup, Shutdown, ShutdownEnds, Goto
  <2>3. pool # None
    BY <2>1, LenIs DEF None
  <2>4. Alike(pools, pools')
    BY <1>1, <2>2, <2>3, StartAlike
  <2> QED BY <1>1, <1>2, <1>5, <2>2, <2>4, ShutOfLending DEF Promised
<1> QED BY <1>4, <1>5, SessionCloses DEF Closes

LEMMA StepKeepsPromise == ASSUME IInv, [Next]_vars PROVE [Promise!Next]_Promise!vars
<1>1. Promised => [Promise!Next]_Promise!vars
  BY LenIs DEF Promised, Promise!Next, Promise!vars, LendingVars, NotOpen, Lent, Through
<1>2. CASE UNCHANGED here
  <2>1. UNCHANGED LendingVars
    BY <1>2 DEF here, LendingVars, NotOpen, Lent, Through
  <2> QED BY <1>1, <2>1 DEF Promised
<1>3. CASE (\E c \in Calls : CallStep(c)) \/ \E s \in Sessions : Startup(s) \/ Shutdown(s) \/ ShutdownEnds(s)
  BY <1>1, <1>3, CallKeepsPromise, SessionKeepsPromise
<1> QED BY <1>2, <1>3 DEF Next, CallStep, Rotate, WriteCredentialFile, AlterUser, vars, here

(* LendingSpec: whatever fetches, sessions, rotations and cancellations    *)
(* meet, the pools of oracle.py only ever do what Lending lets them.       *)
THEOREM ImplementsLending == Spec => LendingSpec
<1>1. Init => Promise!Init
  <2> SUFFICES ASSUME Init PROVE Promise!Init
    OBVIOUS
  <2>1. pools = <<>> /\ \A c \in Calls : pc[c] = "idle"
    BY TasksAssumption DEF Init, Tasks
  <2> QED BY <2>1 DEF Promise!Init, Promise!Nothing
<1>2. IInv /\ [Next]_vars => [Promise!Next]_Promise!vars
  BY StepKeepsPromise
<1> QED BY <1>1, <1>2, IInvAlways, PTL DEF Spec, LendingSpec, Promise!Spec
=============================================================================
