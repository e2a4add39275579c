------------------------------- MODULE Lending -------------------------------
(***************************************************************************)
(* What the metadata pool promises those who borrow from it, without       *)
(* passwords, logins, counters or a global: lenders are opened one by one  *)
(* and shut for good, none is shut while it has lent something, none lends *)
(* more than Room at a time, and a borrower holds one thing at a time and  *)
(* nothing when it is through.                                             *)
(***************************************************************************)
EXTENDS Integers, FiniteSets

CONSTANTS Borrowers, Room

VARIABLES
    opened,   \* how many lenders have been opened
    shut,     \* those that lend no more
    holds,    \* the lender that each borrower holds something of, or 0
    done      \* the borrowers that are through

vars == <<opened, shut, holds, done>>

Nothing == 0
HoldersOf(p) == {b \in Borrowers : holds[b] = p}

Init ==
    /\ opened = 0
    /\ shut = {}
    /\ holds = [b \in Borrowers |-> Nothing]
    /\ done = {}

Open ==
    /\ opened' = opened + 1
    /\ UNCHANGED <<shut, holds, done>>

Borrow(b, p) ==
    /\ b \notin done /\ holds[b] = Nothing
    /\ p \in 1..opened /\ p \notin shut
    /\ Cardinality(HoldersOf(p)) < Room
    /\ holds' = [holds EXCEPT ![b] = p]
    /\ UNCHANGED <<opened, shut, done>>

Return(b) ==
    /\ holds[b] # Nothing
    /\ holds' = [holds EXCEPT ![b] = Nothing]
    /\ UNCHANGED <<opened, shut, done>>

(* With what it holds given back, or without having got anything.          *)
Leave(b) ==
    /\ b \notin done
    /\ done' = done \cup {b}
    /\ holds' = [holds EXCEPT ![b] = Nothing]
    /\ UNCHANGED <<opened, shut>>

Shut(p) ==
    /\ p \in 1..opened /\ p \notin shut
    /\ HoldersOf(p) = {}
    /\ shut' = shut \cup {p}
    /\ UNCHANGED <<opened, holds, done>>

Next ==
    \/ Open
    \/ \E b \in Borrowers : Return(b) \/ Leave(b) \/ \E p \in 1..opened : Borrow(b, p)
    \/ \E p \in 1..opened : Shut(p)

Spec == Init /\ [][Next]_vars
=============================================================================
