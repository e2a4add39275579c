---------------------------- MODULE CredentialReads ----------------------------
(***************************************************************************)
(* What a reader of the credential file may count on, whichever way the    *)
(* store writes it: no directories, links or system calls, only the        *)
(* sequence of files the configured path has led to.                       *)
(***************************************************************************)
EXTENDS Naturals, Sequences

CONSTANTS NoText     \* the text of a file that holds no credential

VARIABLES
    shown,        \* the files the path has led to; the last is there now
    since,        \* where shown stood when the read began; 0: no read
    credential,   \* the credential returned last
    refused       \* did the last read fail?

Begin ==
    /\ since = 0
    /\ since' = Len(shown)
    /\ UNCHANGED <<shown, credential, refused>>

(* One more file is shown, any file.                                       *)
Show ==
    /\ Len(shown') = Len(shown) + 1
    /\ SubSeq(shown', 1, Len(shown)) = shown
    /\ UNCHANGED <<since, credential, refused>>

(* Marker and password come from files shown during the read, the marker   *)
(* from the earlier one.  The size bound is that of the marker's file.     *)
Return ==
    /\ since # 0
    /\ \E i, j \in since..Len(shown) :
          /\ i <= j /\ shown[i].fits /\ shown[j].text # NoText
          /\ credential' = [password |-> shown[j].text, rotation_ref |-> shown[i].version]
    /\ refused' = FALSE
    /\ since' = 0
    /\ UNCHANGED shown

(* A read fails only if the file was bad or the store was writing.         *)
Refuse ==
    /\ since # 0
    /\ \/ Len(shown) > since
       \/ ~shown[since].fits
       \/ shown[since].text = NoText
    /\ refused' = TRUE
    /\ since' = 0
    /\ UNCHANGED <<shown, credential>>

Init ==
    /\ Len(shown) = 1
    /\ since = 0
    /\ credential = [password |-> NoText, rotation_ref |-> 0]
    /\ refused = FALSE

Next == Begin \/ Show \/ Return \/ Refuse

Spec == Init /\ [][Next]_<<shown, since, credential, refused>>
=============================================================================
