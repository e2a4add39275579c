------------------------- MODULE CredentialFile_proofs -------------------------
(***************************************************************************)
(* Theorems of CredentialFile for every number of writes and every kind of *)
(* file: the system calls of read_credential, taken together, are the one  *)
(* read of CredentialReads.                                                *)
(*                                                                         *)
(* The argument: until the store writes, the read looks at the place the   *)
(* path led to when it began (Unhurried).  What it has open afterwards is  *)
(* a file the path has led to since, and the file whose size and mtime it  *)
(* took was there no later (Traced): a place is overwritten only by styles *)
(* that have a single place, and emptied only when it is no longer shown   *)
(* (Placed).                                                               *)
(***************************************************************************)
EXTENDS CredentialFile, SequenceTheorems, TLAPS

Files == [version : 0..MaxWrites, fits : BOOLEAN, inside : BOOLEAN, bytes : Contents]

Types ==
    /\ style \in Styles
    /\ files \in [0..MaxWrites -> Files \cup {Missing}]
    /\ place \in 0..MaxWrites /\ writes \in 0..MaxWrites
    /\ piece \in {"none", "both", "second"}
    /\ shown \in Seq(Files \cup {Missing}) /\ Len(shown) >= 1
    /\ pc \in {"idle", "resolve", "stat", "read"}
    /\ mount \in 0..MaxWrites /\ resolved \in 0..MaxWrites /\ mtime \in 0..MaxWrites
    /\ since \in 0..Len(shown) /\ (since = 0 <=> pc = "idle")
    /\ credential \in [password : Texts \cup {NoText}, rotation_ref : 0..MaxWrites]
    /\ outcome \in {"none", "ok", "unreadable", "outside", "too big", "malformed"}
    /\ outcome = "ok" => credential.password \in Texts

Placed ==
    /\ shown[Len(shown)] = files[place]
    /\ Linked => place = writes /\ resolved <= writes /\ files[place] # Missing
    /\ ~Linked => place = 0 /\ resolved = 0 /\ (files[0] # Missing => files[0].inside)

Unhurried ==
    Len(shown) = since =>
        /\ mount = place
        /\ pc \in {"stat", "read"} => resolved = place

(* The file that is open was shown at i or later, during this read.        *)
Open(i) ==
    files[resolved] # Missing =>
        files[resolved].inside /\ \E j \in i..Len(shown) : shown[j] = files[resolved]

(* The file whose size and mtime were taken was shown at i.                *)
Measured(i) ==
    /\ shown[i] # Missing /\ shown[i].inside /\ shown[i].fits /\ shown[i].version = mtime
    /\ Open(i)

Traced ==
    /\ pc = "stat" => Open(since)
    /\ pc = "read" => \E i \in since..Len(shown) : Measured(i)

IInv == Types /\ Placed /\ Unhurried /\ Traced

Shown == Files \cup {Missing}

LEMMA FilesAreFiles ==
    /\ Missing \notin Files /\ NoText \notin Texts
    /\ \A l \in Kinds, n \in 0..MaxWrites :
          /\ File(l, n) \in Files /\ File(l, n) # Missing
          /\ File(l, n).inside = l.inside /\ File(l, n).fits = l.fits
          /\ File(l, n).bytes = l.bytes /\ File(l, n).version = n
    /\ First \in Kinds /\ First.inside
    /\ \A b \in Contents : [First EXCEPT !.bytes = b] \in Kinds /\ [First EXCEPT !.bytes = b].inside
<1>1. \A n \in 0..MaxWrites : n \in Nat
  BY CredentialFileAssumption
<1>2. Missing \notin Files
  <2>1. Files \subseteq [version : Nat, fits : BOOLEAN, inside : BOOLEAN, bytes : Contents]
    BY <1>1 DEF Files
  <2> QED BY <2>1, CredentialFileAssumption
<1>3. NoText \notin Texts
  <2>1. Texts \subseteq Nat \X {"whole", "part"}
    BY <1>1 DEF Texts
  <2> QED BY <2>1, CredentialFileAssumption
<1>4. \A l \in Kinds, n \in 0..MaxWrites :
          /\ File(l, n) \in Files /\ File(l, n).inside = l.inside /\ File(l, n).fits = l.fits
          /\ File(l, n).bytes = l.bytes /\ File(l, n).version = n
  BY DEF Kinds, File, Files
<1>5. First \in Kinds /\ First.inside
  BY DEF First, Kinds, Contents
<1>6. \A b \in Contents : [First EXCEPT !.bytes = b] \in Kinds /\ [First EXCEPT !.bytes = b].inside
  BY DEF First, Kinds
<1> QED BY <1>2, <1>3, <1>4, <1>5, <1>6

(* The texts of the files of a mount.                                      *)
LEMMA TextsAreTexts ==
    ASSUME NEW f \in Files
    PROVE  Text(f) \in Texts \cup {NoText}
  BY DEF Files, Text, Texts

---------------------------------------------------------------------------
(* The store                                                               *)

LEMMA InitInv == Init => IInv
<1> SUFFICES ASSUME Init PROVE IInv
  OBVIOUS
<1>0. 0 \in 0..MaxWrites
  BY CredentialFileAssumption
<1>1. PICK f : f = File(First, 0)
  OBVIOUS
<1>2. f \in Files /\ f # Missing /\ f.inside
  BY <1>0, <1>1, FilesAreFiles
<1>3. files \in [0..MaxWrites -> Shown] /\ files[0] = f
  BY <1>0, <1>1, <1>2 DEF Init, Shown
<1>4. shown \in Seq(Shown) /\ Len(shown) = 1 /\ shown[1] = f
  BY <1>1, <1>2 DEF Init, Shown
<1>5. Types
  BY <1>0, <1>3, <1>4 DEF Init, Types, Shown
<1>6. Placed
  BY <1>0, <1>2, <1>3, <1>4 DEF Init, Placed
<1>7. Unhurried /\ Traced
  BY <1>4 DEF Init, Unhurried, Traced
<1> QED BY <1>5, <1>6, <1>7 DEF IInv

LEMMA Appended ==
    ASSUME NEW s \in Seq(Shown), NEW f \in Shown, Len(s) >= 1
    PROVE  /\ Append(s, f) \in Seq(Shown) /\ Len(Append(s, f)) = Len(s) + 1
           /\ \A i \in 1..Len(s) : Append(s, f)[i] = s[i]
           /\ Append(s, f)[Len(s) + 1] = f
           /\ Len(s) \in Nat
  OBVIOUS

(* A write shows one more file, in the only place there is or in a new one.*)
LEMMA PutKeeps ==
    ASSUME IInv, NEW f \in Shown, NEW p \in 0..MaxWrites, Put(f, p),
           writes' \in 0..MaxWrites, piece' \in {"none", "both", "second"},
           Linked => p = writes' /\ writes' = writes + 1 /\ f # Missing,
           ~Linked => p = 0 /\ (f # Missing => f.inside)
    PROVE  IInv'
<1> USE DEF Shown
<1>1. /\ files \in [0..MaxWrites -> Shown] /\ shown \in Seq(Shown) /\ Len(shown) >= 1
      /\ since \in 0..Len(shown) /\ resolved \in 0..MaxWrites /\ writes \in 0..MaxWrites
  BY DEF IInv, Types
<1>2. /\ files' = [files EXCEPT ![p] = f] /\ shown' = Append(shown, f) /\ place' = p
      /\ UNCHANGED <<style, pc, mount, resolved, mtime, since, credential, outcome>>
  BY DEF Put, locals
<1>3. /\ shown' \in Seq(Shown) /\ Len(shown') = Len(shown) + 1 /\ Len(shown) \in Nat
      /\ \A i \in 1..Len(shown) : shown'[i] = shown[i]
      /\ shown'[Len(shown) + 1] = f
  BY <1>1, <1>2, Appended
<1>4. files' \in [0..MaxWrites -> Shown] /\ files'[p] = f
      /\ \A q \in 0..MaxWrites : q # p => files'[q] = files[q]
  BY <1>1, <1>2
<1>5. since' \in 0..Len(shown') /\ Len(shown') # since' /\ since \in Nat
  BY <1>1, <1>2, <1>3
<1>6. Types'
  <2>1. /\ style' \in Styles /\ writes' \in 0..MaxWrites /\ piece' \in {"none", "both", "second"}
        /\ pc' \in {"idle", "resolve", "stat", "read"} /\ place' \in 0..MaxWrites
        /\ mount' \in 0..MaxWrites /\ resolved' \in 0..MaxWrites /\ mtime' \in 0..MaxWrites
        /\ (since' = 0 <=> pc' = "idle")
    BY <1>2 DEF IInv, Types
  <2>2. /\ credential' \in [password : Texts \cup {NoText}, rotation_ref : 0..MaxWrites]'
        /\ outcome' \in {"none", "ok", "unreadable", "outside", "too big", "malformed"}
        /\ outcome' = "ok" => credential'.password \in Texts
    BY <1>2 DEF IInv, Types
  <2>3. Len(shown') >= 1
    BY <1>1, <1>3
  <2> QED BY <1>3, <1>4, <1>5, <2>1, <2>2, <2>3 DEF Types
<1>7. Placed'
  <2>1. Linked' = Linked
    BY <1>2 DEF Linked
  <2>2. shown'[Len(shown')] = files'[place']
    BY <1>2, <1>3, <1>4
  <2>3. Linked => place' = writes' /\ resolved' <= writes' /\ files'[place'] # Missing
    BY <1>1, <1>2, <1>4, CredentialFileAssumption DEF IInv, Placed
  <2>4. ~Linked => place' = 0 /\ resolved' = 0 /\ (files'[0] # Missing => files'[0].inside)
    BY <1>2, <1>4 DEF IInv, Placed
  <2> QED BY <2>1, <2>2, <2>3, <2>4 DEF Placed
<1>8. Unhurried'
  BY <1>5 DEF Unhurried
<1>9. ASSUME NEW i \in 1..Len(shown), Open(i) PROVE Open(i)'
  <2>1. CASE p = resolved
    <3>1. ~Linked
      BY <1>1, <2>1, CredentialFileAssumption DEF IInv, Placed
    <3>2. files'[resolved'] = f
      BY <1>2, <1>4, <2>1
    <3>3. i \in 1..(Len(shown) + 1) /\ Len(shown) + 1 \in i..Len(shown')
      BY <1>3
    <3> QED BY <1>3, <3>1, <3>2, <3>3 DEF Open
  <2>2. CASE p # resolved
    <3>1. files'[resolved'] = files[resolved]
      BY <1>1, <1>2, <1>4, <2>2
    <3>2. \A j \in i..Len(shown) : j \in i..Len(shown') /\ shown'[j] = shown[j]
      BY <1>3
    <3> QED BY <1>9, <3>1, <3>2 DEF Open
  <2> QED BY <2>1, <2>2
<1>10. Traced'
  <2>1. pc = "stat" \/ pc = "read" => since \in 1..Len(shown)
    <3>1. pc # "idle" => since # 0
      BY DEF IInv, Types
    <3> QED BY <1>1, <1>3, <1>5, <3>1
  <2>2. pc = "stat" => Open(since)'
    <3>1. ASSUME pc = "stat" PROVE Open(since)'
      <4>1. PICK i \in 1..Len(shown) : i = since /\ i = since' /\ Open(i)
        BY <1>2, <2>1, <3>1 DEF IInv, Traced
      <4> QED BY <1>9, <4>1 DEF Open
    <3> QED BY <3>1
  <2>3. ASSUME pc = "read" PROVE \E i \in since'..Len(shown') : Measured(i)'
    <3>1. PICK i \in since..Len(shown) : Measured(i)
      BY <2>3 DEF IInv, Traced
    <3>2. i \in 1..Len(shown) /\ i \in since'..Len(shown')
      BY <1>1, <1>2, <1>3, <2>1, <2>3
    <3>3. shown'[i] = shown[i] /\ mtime' = mtime /\ Open(i)'
      BY <1>2, <1>3, <1>9, <3>1, <3>2 DEF Measured
    <3> QED BY <3>1, <3>2, <3>3 DEF Measured
  <2> QED BY <1>2, <2>2, <2>3 DEF Traced, Open
<1> QED BY <1>6, <1>7, <1>8, <1>10 DEF IInv

LEMMA Known ==
    ASSUME IInv
    PROVE  /\ writes \in 0..MaxWrites /\ writes \in Nat /\ 0 \in 0..MaxWrites
           /\ writes < MaxWrites => writes + 1 \in 0..MaxWrites
           /\ piece \in {"none", "both", "second"}
           /\ Len(shown) \in Nat /\ Len(shown) >= 1 /\ Len(shown) # 0
           /\ Len(shown) \in 0..Len(shown) /\ 0 \in 0..Len(shown)
           /\ mount \in 0..MaxWrites /\ resolved \in 0..MaxWrites /\ mtime \in 0..MaxWrites
           /\ place \in 0..MaxWrites
           /\ credential \in [password : Texts \cup {NoText}, rotation_ref : 0..MaxWrites]
           /\ outcome \in {"none", "ok", "unreadable", "outside", "too big", "malformed"}
           /\ outcome = "ok" => credential.password \in Texts
           /\ since \in 0..Len(shown) /\ (since = 0 <=> pc = "idle")
           /\ Len(shown) \in since..Len(shown) /\ since \in Nat
           /\ since # 0 => since \in 1..Len(shown)
           /\ Len(shown) = since \/ Len(shown) > since
<1>1. writes \in 0..MaxWrites /\ MaxWrites \in Nat
  BY CredentialFileAssumption DEF IInv, Types
<1>2. writes \in Nat /\ 0 \in 0..MaxWrites /\ (writes < MaxWrites => writes + 1 \in 0..MaxWrites)
  BY <1>1
<1>3. Len(shown) \in Nat /\ Len(shown) >= 1
  <2>1. shown \in Seq(Shown) /\ Len(shown) >= 1
    BY DEF IInv, Types, Shown
  <2> QED BY <2>1
<1>4. /\ Len(shown) # 0 /\ Len(shown) \in 0..Len(shown) /\ 0 \in 0..Len(shown)
  BY <1>3
<1>5. /\ piece \in {"none", "both", "second"}
      /\ mount \in 0..MaxWrites /\ resolved \in 0..MaxWrites /\ mtime \in 0..MaxWrites
      /\ place \in 0..MaxWrites
      /\ since \in 0..Len(shown) /\ (since = 0 <=> pc = "idle")
  BY DEF IInv, Types
<1>6. /\ credential \in [password : Texts \cup {NoText}, rotation_ref : 0..MaxWrites]
      /\ outcome \in {"none", "ok", "unreadable", "outside", "too big", "malformed"}
      /\ outcome = "ok" => credential.password \in Texts
  BY DEF IInv, Types
<1>7. /\ Len(shown) \in since..Len(shown) /\ since \in Nat
      /\ since # 0 => since \in 1..Len(shown)
      /\ Len(shown) = since \/ Len(shown) > since
  BY <1>3, <1>5
<1> QED BY <1>1, <1>2, <1>3, <1>4, <1>5, <1>6, <1>7

LEMMA ReplaceKeeps == ASSUME IInv, Replace PROVE IInv'
<1>1. writes' = writes + 1 /\ writes' \in 0..MaxWrites /\ 0 \in 0..MaxWrites
      /\ piece' \in {"none", "both", "second"} /\ ~Linked
  BY Known DEF Replace, CanWrite, NextWrite, Linked
<1>2. Leaves \subseteq Kinds
  BY CredentialFileAssumption
<1>3. PICK n : n = writes + 1
  OBVIOUS
<1>4. ASSUME NEW leaf \in Leaves, leaf.inside, Put(File(leaf, n), 0) PROVE IInv'
  <2>1. File(leaf, n) \in Shown /\ File(leaf, n).inside
    BY <1>1, <1>2, <1>3, <1>4, FilesAreFiles DEF Shown
  <2> QED BY <1>1, <1>4, <2>1, PutKeeps
<1>5. CASE Put(Missing, 0)
  BY <1>1, <1>5, PutKeeps DEF Shown
<1> QED BY <1>3, <1>4, <1>5 DEF Replace

LEMMA WriteInPlaceKeeps == ASSUME IInv, WriteInPlace PROVE IInv'
<1>1. ~Linked /\ 0 \in 0..MaxWrites /\ writes \in 0..MaxWrites
  BY Known DEF WriteInPlace, Linked
<1>2. ASSUME NEW b \in Contents, NEW n \in 0..MaxWrites
      PROVE  Piece(b, n) \in Shown /\ Piece(b, n).inside
  BY FilesAreFiles DEF Piece, Shown
<1>3. CASE CanWrite /\ NextWrite /\ Put(Piece("empty", writes + 1), 0) /\ piece' = "both"
  <2>1. writes' = writes + 1 /\ writes' \in 0..MaxWrites
    BY <1>1, <1>3, CredentialFileAssumption DEF CanWrite, NextWrite
  <2>2. PICK f : f = Piece("empty", writes + 1)
    OBVIOUS
  <2>3. f \in Shown /\ f.inside
    BY <1>2, <2>1, <2>2 DEF Contents
  <2> QED BY <1>1, <1>3, <2>1, <2>2, <2>3, PutKeeps
<1>4. ASSUME NEW b \in Contents, UNCHANGED writes, Put(Piece(b, writes), 0), piece' \in {"none", "second"}
      PROVE  IInv'
  BY <1>1, <1>2, <1>4, PutKeeps
<1> QED BY <1>3, <1>4 DEF WriteInPlace, Contents

LEMMA SwitchKeeps == ASSUME IInv, Switch PROVE IInv'
<1>1. writes' = writes + 1 /\ writes' \in 0..MaxWrites /\ Linked
      /\ piece' \in {"none", "both", "second"}
  BY Known DEF Switch, CanWrite, NextWrite
<1>2. PICK n : n = writes + 1
  OBVIOUS
<1>3. PICK leaf \in Leaves : Put(File(leaf, n), n)
  BY <1>2 DEF Switch
<1>4. File(leaf, n) \in Shown /\ File(leaf, n) # Missing
  BY <1>1, <1>2, FilesAreFiles, CredentialFileAssumption DEF Shown
<1> QED BY <1>1, <1>2, <1>3, <1>4, PutKeeps

LEMMA RemoveOldKeeps == ASSUME IInv, RemoveOld PROVE IInv'
<1>1. /\ files' \in [0..MaxWrites -> Shown] /\ files'[place] = files[place]
      /\ \A p \in 0..MaxWrites : files'[p] = Missing \/ files'[p] = files[p]
  BY DEF IInv, Types, RemoveOld, Old, Shown
<1>2. Linked /\ UNCHANGED <<style, place, writes, piece, shown, pc, mount, resolved, mtime,
                            since, credential, outcome>>
  BY DEF RemoveOld, locals
<1>3. Types'
  BY <1>1, <1>2 DEF IInv, Types, Shown
<1>4. Placed' /\ Unhurried'
  BY <1>1, <1>2 DEF IInv, Placed, Unhurried, Linked
<1>5. ASSUME NEW i, Open(i) PROVE Open(i)'
  BY <1>1, <1>2, <1>5 DEF Open, IInv, Types
<1>6. Traced'
  <2>1. pc = "stat" => Open(since)'
    <3>1. ASSUME pc = "stat" PROVE Open(since)'
      <4>1. PICK i : i = since
        OBVIOUS
      <4>2. Open(i)'
        BY <1>5, <3>1, <4>1 DEF IInv, Traced
      <4> QED BY <1>2, <4>1, <4>2 DEF Open
    <3> QED BY <3>1
  <2>2. ASSUME pc = "read" PROVE \E i \in since..Len(shown) : Measured(i)'
    BY <1>2, <1>5, <2>2 DEF IInv, Traced, Measured
  <2> QED BY <1>2, <2>1, <2>2 DEF Traced, Open
<1> QED BY <1>3, <1>4, <1>6 DEF IInv

---------------------------------------------------------------------------
(* The read                                                                *)

LEMMA PlaceWritten == ASSUME IInv, Linked PROVE place <= writes
<1>1. place = writes /\ writes \in Nat
  BY Known DEF IInv, Placed
<1> QED BY <1>1

LEMMA StoreStands ==
    ASSUME IInv, UNCHANGED store, mount' \in 0..MaxWrites, mtime' \in 0..MaxWrites,
           resolved' \in 0..MaxWrites, resolved' = resolved \/ resolved' = place,
           pc' \in {"idle", "resolve", "stat", "read"},
           since' \in 0..Len(shown), since' = 0 <=> pc' = "idle",
           credential' \in [password : Texts \cup {NoText}, rotation_ref : 0..MaxWrites],
           outcome' \in {"none", "ok", "unreadable", "outside", "too big", "malformed"},
           outcome' = "ok" => credential'.password \in Texts
    PROVE  Types' /\ Placed'
<1>1. Types'
  BY DEF store, IInv, Types, Texts
<1>2. Placed'
  <2>1. UNCHANGED <<style, files, place, writes, shown>> /\ Linked' = Linked
    BY DEF store, Linked
  <2>2. Linked => resolved' <= writes
    <3>1. CASE resolved' = resolved
      BY <3>1 DEF IInv, Placed
    <3>2. CASE resolved' = place
      BY <3>2, PlaceWritten
    <3> QED BY <3>1, <3>2
  <2>3. ~Linked => resolved' = 0
    BY DEF IInv, Placed
  <2> QED BY <2>1, <2>2, <2>3 DEF IInv, Placed
<1> QED BY <1>1, <1>2

LEMMA BeginKeeps == ASSUME IInv, Begin PROVE IInv'
<1>1. /\ UNCHANGED <<store, resolved, mtime, credential, outcome>> /\ mount' = place
      /\ since' = Len(shown) /\ pc' = "resolve"
  BY DEF Begin, Goto
<1>2. Len(shown) \in 0..Len(shown) /\ Len(shown) # 0
  BY Known
<1>3. Types' /\ Placed'
  BY <1>1, <1>2, Known, StoreStands
<1> QED BY <1>1, <1>3 DEF IInv, Unhurried, Traced, store

LEMMA RefuseKeeps ==
    ASSUME IInv, UNCHANGED store, NEW why \in {"unreadable", "outside", "too big", "malformed"},
           Refuse(why)
    PROVE  IInv'
<1>1. UNCHANGED <<mount, resolved, mtime, credential>> /\ since' = 0 /\ pc' = "idle" /\ outcome' = why
  BY DEF Refuse, Goto, locals
<1>2. Len(shown) # 0
  BY Known
<1>3. Types' /\ Placed'
  <2>1. why # "ok" /\ why \in {"none", "ok", "unreadable", "outside", "too big", "malformed"}
    OBVIOUS
  <2>2. 0 \in 0..Len(shown) /\ pc' \in {"idle", "resolve", "stat", "read"}
    BY <1>1, Known
  <2>3. mount' \in 0..MaxWrites /\ mtime' \in 0..MaxWrites
        /\ resolved' \in 0..MaxWrites /\ resolved' = resolved
    BY <1>1, Known
  <2>4. credential' \in [password : Texts \cup {NoText}, rotation_ref : 0..MaxWrites]
    BY <1>1, Known
  <2>5. /\ outcome' \in {"none", "ok", "unreadable", "outside", "too big", "malformed"}
        /\ outcome' # "ok" /\ since' \in 0..Len(shown) /\ since' = 0 /\ pc' = "idle"
    BY <1>1, <2>1, <2>2
  <2> QED BY <2>2, <2>3, <2>4, <2>5, StoreStands
<1> QED BY <1>1, <1>2, <1>3 DEF IInv, Unhurried, Traced, store

(* What the read sees of the store, whichever step it is at.               *)
LEMMA PathLeads ==
    ASSUME IInv
    PROVE  /\ shown[Len(shown)] = files[place] /\ files[place] \in Shown /\ files[resolved] \in Shown
           /\ \A i \in 1..Len(shown) : shown[i] \in Shown
<1>1. files \in [0..MaxWrites -> Shown] /\ shown \in Seq(Shown)
  BY DEF IInv, Types, Shown
<1>2. \A i \in 1..Len(shown) : shown[i] \in Shown
  BY <1>1
<1> QED BY <1>1, <1>2, Known DEF IInv, Placed

LEMMA ResolveKeeps == ASSUME IInv, Resolve PROVE IInv'
<1>1. CASE Refuse("unreadable") \/ Refuse("outside")
  BY <1>1, RefuseKeeps DEF Resolve
<1>2. CASE /\ files[place] # Missing /\ ~Escapes /\ resolved' = place /\ Goto("stat")
           /\ UNCHANGED <<mount, mtime, since, credential, outcome>>
  <2>1. /\ UNCHANGED store /\ pc = "resolve" /\ pc' = "stat" /\ resolved' = place
        /\ mount' = mount /\ mtime' = mtime /\ since' = since
        /\ credential' = credential /\ outcome' = outcome
    BY <1>2 DEF Resolve, Goto
  <2>2. pc' \in {"idle", "resolve", "stat", "read"} /\ pc' # "idle"
    BY <2>1
  <2>3. Types' /\ Placed'
    BY <2>1, <2>2, Known, StoreStands
  <2>4. Unhurried'
    BY <2>1 DEF IInv, Unhurried, store
  <2>5. Open(since)'
    <3>1. PICK L : L = Len(shown) /\ L \in since..Len(shown)
      BY Known
    <3>2. files[place].inside /\ shown[L] = files[place]
      BY <1>2, <3>1, PathLeads DEF Escapes
    <3>3. files'[resolved'] = files[place] /\ UNCHANGED shown /\ since' = since
      BY <2>1 DEF store
    <3> QED BY <3>1, <3>2, <3>3 DEF Open
  <2>6. Traced'
    BY <2>1, <2>5 DEF Traced, Open
  <2> QED BY <2>3, <2>4, <2>6 DEF IInv
<1> QED BY <1>1, <1>2 DEF Resolve

LEMMA StatKeeps == ASSUME IInv, Stat PROVE IInv'
<1>1. CASE Refuse("unreadable") \/ Refuse("too big")
  BY <1>1, RefuseKeeps DEF Stat
<1>2. CASE /\ files[resolved] # Missing /\ files[resolved].fits
           /\ mtime' = files[resolved].version /\ Goto("read")
           /\ UNCHANGED <<mount, resolved, since, credential, outcome>>
  <2>1. /\ UNCHANGED store /\ pc = "stat" /\ pc' = "read" /\ resolved' = resolved
        /\ mount' = mount /\ since' = since /\ credential' = credential /\ outcome' = outcome
    BY <1>2 DEF Stat, Goto
  <2>2. files[resolved] \in Files
    BY <1>2, PathLeads DEF Shown
  <2>3. mtime' \in 0..MaxWrites /\ mtime' = files[resolved].version
    BY <1>2, <2>2 DEF Files
  <2>4. pc' \in {"idle", "resolve", "stat", "read"} /\ pc' # "idle"
    BY <2>1
  <2>5. Types' /\ Placed'
    BY <2>1, <2>3, <2>4, Known, StoreStands
  <2>6. Unhurried'
    BY <2>1 DEF IInv, Unhurried, store
  <2>7. PICK j \in since..Len(shown) : shown[j] = files[resolved] /\ files[resolved].inside
    BY <1>2, <2>1 DEF IInv, Traced, Open
  <2>8. UNCHANGED <<files, shown>>
    BY <2>1 DEF store
  <2>9. j \in j..Len(shown)
    <3>1. Len(shown) \in Nat /\ since \in Nat
      BY Known
    <3> QED BY <2>7, <3>1
  <2>10. Measured(j)'
    BY <1>2, <2>1, <2>3, <2>7, <2>8, <2>9 DEF Measured, Open
  <2>11. Traced'
    BY <2>1, <2>7, <2>8, <2>10 DEF Traced
  <2> QED BY <2>5, <2>6, <2>11 DEF IInv
<1> QED BY <1>1, <1>2 DEF Stat

LEMMA ReadKeeps == ASSUME IInv, Read PROVE IInv'
<1>1. CASE Refuse("unreadable") \/ Refuse("malformed")
  BY <1>1, RefuseKeeps DEF Read
<1>2. CASE /\ files[resolved] # Missing /\ Text(files[resolved]) # NoText
           /\ Accept(Text(files[resolved]), mtime)
  <2>1. /\ UNCHANGED store /\ pc' = "idle" /\ since' = 0 /\ outcome' = "ok"
        /\ resolved' = resolved /\ mount' = mount /\ mtime' = mtime
        /\ credential' = [password |-> Text(files[resolved]), rotation_ref |-> mtime]
    BY <1>2 DEF Read, Accept, Goto, locals
  <2>2. Text(files[resolved]) \in Texts
    BY <1>2, PathLeads, TextsAreTexts DEF Shown
  <2>3. credential' \in [password : Texts \cup {NoText}, rotation_ref : 0..MaxWrites]
        /\ credential'.password \in Texts
    BY <2>1, <2>2, Known
  <2>4. Types' /\ Placed'
    <3>1. /\ mount' \in 0..MaxWrites /\ mtime' \in 0..MaxWrites /\ resolved' \in 0..MaxWrites
          /\ since' \in 0..Len(shown)
      BY <2>1, Known
    <3> QED BY <2>1, <2>3, <3>1, StoreStands
  <2>5. Len(shown') # since'
    BY <2>1, Known DEF store
  <2> QED BY <2>1, <2>4, <2>5 DEF IInv, Unhurried, Traced
<1> QED BY <1>1, <1>2 DEF Read

LEMMA IInvStep == IInv /\ [Next]_vars => IInv'
<1> SUFFICES ASSUME IInv, [Next]_vars PROVE IInv'
  OBVIOUS
<1>1. CASE Next
  BY <1>1, ReplaceKeeps, WriteInPlaceKeeps, SwitchKeeps, RemoveOldKeeps, BeginKeeps, ResolveKeeps,
     StatKeeps, ReadKeeps DEF Next
<1>2. CASE UNCHANGED vars
  <2>1. Types'
    BY <1>2 DEF vars, store, locals, IInv, Types
  <2>2. Placed' /\ Unhurried'
    BY <1>2 DEF vars, store, locals, IInv, Placed, Unhurried, Linked
  <2>3. Traced'
    BY <1>2 DEF vars, store, locals, IInv, Traced, Measured, Open
  <2> QED BY <2>1, <2>2, <2>3 DEF IInv
<1> QED BY <1>1, <1>2

LEMMA IInvAlways == Spec => []IInv
  BY InitInv, IInvStep, PTL DEF Spec

(* TypeOK: in particular a read that ends well returns a text, never the   *)
(* remains of a file without one.                                          *)
THEOREM ReadTypes == Spec => []TypeOK
<1>1. IInv => TypeOK
  <2> SUFFICES ASSUME IInv PROVE TypeOK
    OBVIOUS
  <2>1. DOMAIN files = 0..MaxWrites /\ shown[Len(shown)] = files[place]
    BY DEF IInv, Types, Placed
  <2>2. {mount, resolved, mtime, credential.rotation_ref} \subseteq 0..MaxWrites
        /\ credential.password \in Texts \cup {NoText}
    BY Known
  <2>3. style \in Styles /\ pc \in {"idle", "resolve", "stat", "read"}
    BY DEF IInv, Types
  <2> QED BY <2>1, <2>2, <2>3, Known DEF TypeOK
<1> QED BY <1>1, IInvAlways, PTL

---------------------------------------------------------------------------
(* Reading through the path alone                                          *)

LEMMA ViewOf ==
    ASSUME NEW f \in Shown
    PROVE  /\ f # Missing /\ f.inside =>
                /\ View(f).version = f.version /\ View(f).text = Text(f)
                /\ View(f).fits <=> f.fits
           /\ f = Missing \/ ~f.inside => ~View(f).fits
           /\ IsGood(f) <=> f # Missing /\ f.inside /\ f.fits /\ Text(f) # NoText
<1>1. CASE f # Missing /\ f.inside
  <2>1. View(f) = [version |-> f.version, fits |-> f.fits, text |-> Text(f)]
    BY <1>1 DEF View
  <2>2. f.fits \in BOOLEAN
    BY <1>1 DEF Shown, Files
  <2>3. View(f).version = f.version /\ View(f).text = Text(f) /\ View(f).fits = f.fits
    BY <2>1
  <2> QED BY <1>1, <2>2, <2>3, Zenon DEF IsGood
<1>2. CASE f = Missing \/ ~f.inside
  <2>1. View(f) = [version |-> 0, fits |-> FALSE, text |-> NoText]
    BY <1>2 DEF View
  <2>2. View(f).fits = FALSE
    BY <2>1
  <2> QED BY <1>2, <2>2, Zenon DEF IsGood
<1> QED BY <1>1, <1>2

(* What a refusal says of the file that was shown if the store did not     *)
(* write meanwhile.                                                        *)
LEMMA RefusalHasACause ==
    ASSUME IInv, NEW why \in {"unreadable", "outside", "too big", "malformed"}, Refuse(why),
           Resolve \/ Stat \/ Read, Len(shown) = since
    PROVE  ~IsGood(shown[since])
<1>0. pc' = "idle" /\ outcome' # "ok"
  BY DEF Refuse, Goto
<1>1. shown[since] = files[place] /\ files[place] \in Shown
  BY PathLeads
<1>2. CASE Resolve
  <2>1. mount = place
    BY DEF IInv, Unhurried
  <2>2. files[place] = Missing \/ ~files[place].inside
    BY <1>0, <1>2, <2>1 DEF Resolve, Goto, Escapes
  <2> QED BY <1>1, <2>2, ViewOf
<1>3. CASE Stat
  <2>1. resolved = place
    BY <1>3 DEF IInv, Unhurried, Stat
  <2>2. files[place] = Missing \/ ~files[place].fits
    BY <1>0, <1>3, <2>1 DEF Stat, Goto
  <2> QED BY <1>1, <2>2, ViewOf
<1>4. CASE Read
  <2>1. resolved = place
    BY <1>4 DEF IInv, Unhurried, Read
  <2>2. files[place] = Missing \/ Text(files[place]) = NoText
    BY <1>0, <1>4, <2>1 DEF Read, Accept
  <2> QED BY <1>1, <2>2, ViewOf
<1> QED BY <1>2, <1>3, <1>4

(* The path's history as the abstract reader sees it.                      *)
Views(s) == [i \in DOMAIN s |-> View(s[i])]
ViewSet == {View(f) : f \in Shown}

LEMMA ViewsMirror ==
    ASSUME NEW s \in Seq(Shown)
    PROVE  /\ Views(s) \in Seq(ViewSet) /\ Len(Views(s)) = Len(s) /\ Len(s) \in Nat
           /\ \A i \in 1..Len(s) : Views(s)[i] = View(s[i]) /\ Views(s)[i] \in ViewSet
<1>1. DOMAIN s = 1..Len(s) /\ Len(s) \in Nat
  OBVIOUS
<1>2. \A i \in 1..Len(s) : View(s[i]) \in ViewSet
  BY <1>1 DEF ViewSet
<1>3. Views(s) \in Seq(ViewSet)
  BY <1>1, <1>2 DEF Views
<1> QED BY <1>1, <1>2, <1>3 DEF Views

(* A step of the store shows one file more.                                *)
LEMMA PutShows ==
    ASSUME IInv, NEW f \in Shown, NEW p, Put(f, p)
    PROVE  Reads!Show
<1>1. shown' = Append(shown, f) /\ UNCHANGED <<since, credential, outcome>>
  BY DEF Put
<1>2. shown \in Seq(Shown) /\ Len(shown) >= 1
  BY DEF IInv, Types, Shown
<1>3. /\ shown' \in Seq(Shown) /\ Len(shown') = Len(shown) + 1 /\ Len(shown) \in Nat
      /\ \A i \in 1..Len(shown) : shown'[i] = shown[i]
  BY <1>1, <1>2, Appended
<1>4. PICK v : v = Views(shown)
  OBVIOUS
<1>5. PICK w : w = Views(shown')
  OBVIOUS
<1>6. /\ v \in Seq(ViewSet) /\ Len(v) = Len(shown)
      /\ \A i \in 1..Len(shown) : v[i] = View(shown[i])
  BY <1>2, <1>4, ViewsMirror
<1>7. Len(w) = Len(shown') /\ \A i \in 1..Len(shown') : w[i] = View(shown'[i]) /\ w[i] \in ViewSet
  BY <1>3, <1>5, ViewsMirror
<1>8. SubSeq(w, 1, Len(v)) = v
  <2>1. \A i \in 1..Len(shown) : w[i] = v[i] /\ w[i] \in ViewSet
    BY <1>3, <1>6, <1>7
  <2>2. PICK n \in Nat : n = Len(shown)
    BY <1>3
  <2>3. /\ SubSeq(w, 1, n) \in Seq(ViewSet) /\ Len(SubSeq(w, 1, n)) = n
        /\ \A i \in 1..n : SubSeq(w, 1, n)[i] = w[i]
    BY <2>1, <2>2, SubSeqProperties
  <2> QED BY <1>6, <2>1, <2>2, <2>3, SeqEqual
<1>9. Len(w) = Len(v) + 1
  BY <1>3, <1>6, <1>7
<1> QED BY <1>1, <1>4, <1>5, <1>8, <1>9 DEF Reads!Show, Views

LEMMA WritesPut ==
    ASSUME IInv, Replace \/ WriteInPlace \/ Switch
    PROVE  \E f \in Shown, p \in 0..MaxWrites : Put(f, p)
<1>1. PICK n : n = writes + 1
  OBVIOUS
<1>2. 0 \in 0..MaxWrites /\ writes \in 0..MaxWrites /\ (CanWrite => n \in 0..MaxWrites)
  BY <1>1, Known DEF CanWrite
<1>3. Leaves \subseteq Kinds
  BY CredentialFileAssumption
<1>4. CASE Replace
  <2>1. \A leaf \in Leaves : File(leaf, n) \in Shown
    BY <1>2, <1>3, <1>4, FilesAreFiles DEF Replace, Shown
  <2>2. Missing \in Shown
    BY DEF Shown
  <2> QED BY <1>1, <1>2, <1>4, <2>1, <2>2 DEF Replace
<1>5. CASE WriteInPlace
  <2>1. \A b \in Contents, m \in 0..MaxWrites : Piece(b, m) \in Shown
    BY FilesAreFiles DEF Piece, Shown
  <2> QED BY <1>1, <1>2, <1>5, <2>1 DEF WriteInPlace, Contents
<1>6. CASE Switch
  <2>1. \A leaf \in Leaves : File(leaf, n) \in Shown
    BY <1>2, <1>3, <1>6, FilesAreFiles DEF Switch, Shown
  <2> QED BY <1>1, <1>2, <1>6, <2>1 DEF Switch
<1> QED BY <1>4, <1>5, <1>6

(* The steps of a read as the abstract reader sees them.                   *)
LEMMA RefusalRefines ==
    ASSUME IInv, NEW why \in {"unreadable", "outside", "too big", "malformed"}, Refuse(why),
           Resolve \/ Stat \/ Read
    PROVE  Reads!Refuse
<1>1. /\ since' = 0 /\ outcome' = why /\ credential' = credential
      /\ UNCHANGED store /\ pc # "idle"
  BY DEF Refuse, Resolve, Stat, Read
<1>2. since # 0 /\ since \in 1..Len(shown) /\ (Len(shown) = since \/ Len(shown) > since)
  BY <1>1, Known
<1>3. PICK v : v = Views(shown)
  OBVIOUS
<1>4. Len(v) = Len(shown) /\ \A i \in 1..Len(shown) : v[i] = View(shown[i])
  BY <1>3, ViewsMirror DEF IInv, Types, Shown
<1>5. Len(v) > since \/ ~v[since].fits \/ v[since].text = NoText
  <2>1. CASE Len(shown) = since
    <3>1. ~IsGood(shown[since])
      BY <2>1, RefusalHasACause
    <3>2. v[since] = View(shown[since])
      BY <1>2, <1>4
    <3> QED BY <3>1, <3>2 DEF IsGood
  <2>2. CASE Len(shown) # since
    BY <1>2, <1>4, <2>2
  <2> QED BY <2>1, <2>2
<1>6. (outcome' \notin {"none", "ok"}) = TRUE /\ UNCHANGED shown
  BY <1>1 DEF store
<1> QED BY <1>1, <1>2, <1>3, <1>5, <1>6 DEF Reads!Refuse, Views

LEMMA AcceptRefines ==
    ASSUME IInv, Read, files[resolved] # Missing, Text(files[resolved]) # NoText,
           Accept(Text(files[resolved]), mtime)
    PROVE  Reads!Return
<1>1. /\ since' = 0 /\ outcome' = "ok" /\ UNCHANGED store /\ pc = "read"
      /\ credential' = [password |-> Text(files[resolved]), rotation_ref |-> mtime]
  BY DEF Accept, Read
<1>2. since # 0 /\ since \in Nat /\ Len(shown) \in Nat
  BY <1>1, Known
<1>3. PICK i \in since..Len(shown) : Measured(i)
  BY <1>1 DEF IInv, Traced
<1>4. PICK j \in i..Len(shown) : shown[j] = files[resolved] /\ files[resolved].inside
  BY <1>3 DEF Measured, Open
<1>5. i \in 1..Len(shown) /\ j \in 1..Len(shown) /\ j \in since..Len(shown) /\ i <= j
  BY <1>2, <1>3, <1>4
<1>6. PICK v : v = Views(shown)
  OBVIOUS
<1>7. Len(v) = Len(shown) /\ v[i] = View(shown[i]) /\ v[j] = View(shown[j])
  BY <1>5, <1>6, ViewsMirror DEF IInv, Types, Shown
<1>8. v[i].fits /\ v[i].version = mtime
  <2>1. PICK f \in Shown : f = shown[i]
    BY <1>5, PathLeads
  <2>2. f # Missing /\ f.inside /\ f.fits /\ f.version = mtime
    BY <1>3, <2>1 DEF Measured
  <2>3. View(f).fits /\ View(f).version = mtime
    BY <2>1, <2>2, ViewOf
  <2>4. v[i] = View(f)
    BY <1>7, <2>1
  <2> QED BY <2>3, <2>4
<1>9. v[j].text = Text(files[resolved])
  <2>1. PICK f \in Shown : f = files[resolved]
    BY PathLeads
  <2>2. f # Missing /\ f.inside
    BY <1>4, <2>1
  <2>3. View(f).text = Text(f)
    BY <2>2, ViewOf
  <2> QED BY <1>4, <1>7, <2>1, <2>3
<1>10. credential' = [password |-> v[j].text, rotation_ref |-> v[i].version] /\ v[j].text # NoText
  BY <1>1, <1>8, <1>9
<1>11. (outcome' \notin {"none", "ok"}) = FALSE /\ UNCHANGED shown
  BY <1>1 DEF store
<1>12. i \in since..Len(v) /\ j \in since..Len(v)
  BY <1>3, <1>5, <1>7
<1> QED BY <1>1, <1>2, <1>5, <1>6, <1>8, <1>10, <1>11, <1>12 DEF Reads!Return, Views

LEMMA RefinementStep ==
    ASSUME IInv, [Next]_vars
    PROVE  [Reads!Next]_<<[i \in DOMAIN shown |-> View(shown[i])], since, credential,
                          outcome \notin {"none", "ok"}>>
<1>1. CASE Replace \/ WriteInPlace \/ Switch
  BY <1>1, WritesPut, PutShows DEF Reads!Next
<1>2. CASE Begin
  <2>1. since = 0
    BY <1>2, Known DEF Begin
  <2>2. Len(Views(shown)) = Len(shown)
    BY ViewsMirror DEF IInv, Types, Shown
  <2>3. since' = Len(shown) /\ UNCHANGED <<shown, credential, outcome>>
    BY <1>2 DEF Begin, store
  <2>4. Reads!Begin
    BY <2>1, <2>2, <2>3 DEF Reads!Begin, Views
  <2> QED BY <2>4 DEF Reads!Next
<1>3. ASSUME NEW why \in {"unreadable", "outside", "too big", "malformed"}, Refuse(why),
             Resolve \/ Stat \/ Read
      PROVE  Reads!Next
  BY <1>3, RefusalRefines DEF Reads!Next
<1>4. CASE RemoveOld \/ UNCHANGED vars
  BY <1>4 DEF RemoveOld, vars, store
<1>5. CASE Resolve
  <2>1. CASE UNCHANGED <<mount, mtime, since, credential, outcome>>
    BY <1>5, <2>1 DEF Resolve, store
  <2> QED BY <1>3, <1>5, <2>1 DEF Resolve
<1>6. CASE Stat
  <2>1. CASE UNCHANGED <<mount, resolved, since, credential, outcome>>
    BY <1>6, <2>1 DEF Stat, store
  <2> QED BY <1>3, <1>6, <2>1 DEF Stat
<1>7. CASE Read
  BY <1>3, <1>7, AcceptRefines DEF Read, Reads!Next
<1> QED BY <1>1, <1>2, <1>4, <1>5, <1>6, <1>7 DEF Next

(* CredentialReadsSpec: the system calls of read_credential are one read   *)
(* of what the configured path has shown, whichever way the store writes:  *)
(* the marker is never newer than the password, and a failure has its      *)
(* cause in the file or in a write.                                        *)
THEOREM ReadsAreOneRead == Spec => CredentialReadsSpec
<1>1. Init => Reads!Init
  BY DEF Init, Reads!Init, View
<1>2. IInv /\ [Next]_vars => [Reads!Next]_<<[i \in DOMAIN shown |-> View(shown[i])], since, credential,
                          outcome \notin {"none", "ok"}>>
  BY RefinementStep
<1> QED BY <1>1, <1>2, IInvAlways, PTL DEF Spec, CredentialReadsSpec, Reads!Spec

---------------------------------------------------------------------------
(* A store that renames                                                    *)

LEMMA RenameStep ==
    ASSUME IInv, RenameNeverRefuses, [Next]_vars
    PROVE  RenameNeverRefuses'
<1>1. SUFFICES ASSUME style' = "rename", \A i \in DOMAIN shown' : IsGood(shown'[i])
               PROVE  outcome' \in {"none", "ok"}
  BY DEF RenameNeverRefuses, IsGood, View, Text
<1>2. shown \in Seq(Shown) /\ DOMAIN shown = 1..Len(shown) /\ Len(shown) >= 1
  <2>1. shown \in Seq(Shown) /\ Len(shown) >= 1
    BY DEF IInv, Types, Shown
  <2> QED BY <2>1
<1>3. CASE Replace \/ WriteInPlace \/ Switch
  <2>1. PICK f \in Shown, p \in 0..MaxWrites : Put(f, p)
    BY <1>3, WritesPut
  <2>2. /\ shown' = Append(shown, f) /\ style' = style /\ outcome' = outcome
    BY <2>1 DEF Put
  <2>3. \A i \in DOMAIN shown : i \in DOMAIN shown' /\ shown'[i] = shown[i]
    BY <1>2, <2>2
  <2> QED BY <1>1, <2>2, <2>3 DEF RenameNeverRefuses
<1>4. CASE Begin \/ RemoveOld \/ UNCHANGED vars
  BY <1>1, <1>4 DEF Begin, RemoveOld, vars, store, RenameNeverRefuses
<1>5. CASE Resolve \/ Stat \/ Read
  <2>1. style = "rename" /\ shown' = shown
    BY <1>1, <1>5 DEF Resolve, Stat, Read, store
  <2>2. outcome \in {"none", "ok"}
    BY <1>1, <2>1 DEF RenameNeverRefuses
  <2>3. place = 0 /\ resolved = 0
    BY <2>1 DEF IInv, Placed, Linked
  <2>4. PICK f \in Shown : f = files[0] /\ IsGood(f)
    <3>1. PICK L \in DOMAIN shown : L = Len(shown)
      <4>1. Len(shown) \in 1..Len(shown)
        BY <1>2
      <4> QED BY <1>2, <4>1
    <3>2. shown[L] = files[0] /\ files[0] \in Shown
      BY <2>3, <3>1, PathLeads
    <3>3. IsGood(shown[L])
      BY <1>1, <2>1
    <3> QED BY <3>2, <3>3
  <2>5. f # Missing /\ f.inside /\ f.fits /\ Text(f) # NoText
    BY <2>4, ViewOf
  <2>6. ~Escapes
    BY <2>1, <2>3, <2>4, <2>5 DEF Escapes
  <2> QED BY <1>5, <2>2, <2>3, <2>4, <2>5, <2>6 DEF Resolve, Stat, Read, Accept
<1> QED BY <1>3, <1>4, <1>5 DEF Next

(* RenameNeverRefuses: a store that renames good files over one another    *)
(* never makes a read fail, whenever it does so: the retry after ORA-01017 *)
(* and the rebuild of the pool find a credential.                          *)
THEOREM RenamesAreSafe == Spec => []RenameNeverRefuses
<1>1. Init => RenameNeverRefuses
  BY DEF Init, RenameNeverRefuses
<1> QED BY <1>1, RenameStep, IInvAlways, PTL DEF Spec
=============================================================================
