--------------------------- MODULE SingleUse_proofs ---------------------------
(***************************************************************************)
(* Why the abstract gate never lets a token pay twice: permits are         *)
(* exclusive (PermitsAreExclusive), so a statement runs on a token no      *)
(* other statement has run on.                                             *)
(***************************************************************************)
EXTENDS SingleUse, TLAPS

(* The invariant behind OneStatementPerToken.                              *)
IInv == TypeOK /\ PermitsAreExclusive /\ OneStatementPerToken

(* Nothing is held or has run when the process starts.                     *)
LEMMA IInvInit == Init => IInv
  BY DEF Init, IInv, TypeOK, PermitsAreExclusive, OneStatementPerToken

(* Every step of the gate keeps permits exclusive and statements unique.   *)
LEMMA IInvStep == IInv /\ [Next]_vars => IInv'
<1> SUFFICES ASSUME IInv, [Next]_vars PROVE IInv'
  OBVIOUS
<1> USE DEF IInv, TypeOK, PermitsAreExclusive, OneStatementPerToken
<1>1. ASSUME NEW c \in Calls, NEW t \in Tokens, Accept(c, t) PROVE IInv'
  <2>1. TypeOK'
    BY <1>1 DEF Accept
  <2>2. PermitsAreExclusive'
    BY <1>1 DEF Accept
  <2>3. OneStatementPerToken'
    BY <1>1 DEF Accept
  <2> QED BY <2>1, <2>2, <2>3
<1>2. ASSUME NEW t \in Tokens, Burn(t) PROVE IInv'
  BY <1>2 DEF Burn
<1>3. ASSUME NEW c \in Calls, Run(c) PROVE IInv'
  <2>1. TypeOK'
    BY <1>3 DEF Run
  <2>2. PermitsAreExclusive'
    BY <1>3 DEF Run
  <2>3. OneStatementPerToken'
    BY <1>3 DEF Run
  <2> QED BY <2>1, <2>2, <2>3
<1>4. ASSUME NEW c \in Calls, Drop(c) PROVE IInv'
  BY <1>4 DEF Drop
<1>5. CASE Restart
  BY <1>5 DEF Restart
<1>6. CASE UNCHANGED vars
  BY <1>6 DEF vars
<1> QED BY <1>1, <1>2, <1>3, <1>4, <1>5, <1>6 DEF Next

(* A token pays for at most one statement, in every behaviour of the gate. *)
THEOREM AtMostOnce == Spec => []OneStatementPerToken
<1>1. Spec => []IInv
  BY IInvInit, IInvStep, PTL DEF Spec
<1>2. IInv => OneStatementPerToken
  BY DEF IInv
<1> QED BY <1>1, <1>2, PTL
=============================================================================
