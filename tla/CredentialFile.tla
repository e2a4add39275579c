---------------------------- MODULE CredentialFile ----------------------------
(***************************************************************************)
(* read_credential (credential.py), system call by system call, against    *)
(* the ways a credential store writes the file it mounts:                  *)
(*   "rename"   a new file is renamed over the old one                     *)
(*   "inplace"  the file is truncated and written, in two pieces           *)
(*   "data"     the configured path leads through a link in its directory, *)
(*              the link is switched and the old directory removed         *)
(*              (tests/test_credential.py:40)                              *)
(*   "parent"   the same, and the link is the configured directory         *)
(* Reads hold the event loop, so there is one at a time; the store is      *)
(* another process.                                                        *)
(***************************************************************************)
EXTENDS Naturals, Sequences

CONSTANTS
    Styles,      \* writer styles to explore
    Leaves,      \* what a writer may leave: [fits, inside, bytes]
    MaxWrites,   \* bound: files written after the first
    Missing,     \* no file
    NoText       \* no credential

(* What a file holds: a text alone, with one newline after it, with other  *)
(* space around it, half of it, nothing, bytes that are not UTF-8.         *)
Contents == {"clean", "newline", "padded", "torn", "empty", "binary"}
Kinds == [fits : BOOLEAN, inside : BOOLEAN, bytes : Contents]

ASSUME CredentialFileAssumption ==
    /\ MaxWrites \in Nat
    /\ Styles \subseteq {"rename", "inplace", "data", "parent"}
    /\ Leaves \subseteq Kinds
    /\ Missing \notin [version : Nat, fits : BOOLEAN, inside : BOOLEAN, bytes : Contents]
    /\ NoText \notin Nat \X {"whole", "part"}

VARIABLES
    style,
    files,       \* the file in each place, which is a directory, or Missing
    place,       \* the place the configured path leads to
    writes,      \* number of the last write, and the mtime it gave the file
    piece,       \* of an in-place write: what is still to be written
    shown,       \* history: the files the path has led to
    pc,          \* the next system call of the read
    mount,       \* mount_dir
    resolved,
    mtime,       \* stat.st_mtime
    since,       \* history: where shown stood when the read began
    credential,  \* the CredentialRead returned last
    outcome      \* of the last read

store  == <<style, files, place, writes, piece, shown>>
locals == <<mount, resolved, mtime>>
vars   == <<store, locals, pc, since, credential, outcome>>

First == [fits |-> TRUE, inside |-> TRUE, bytes |-> "clean"]
File(leaf, n) ==
    [version |-> n, fits |-> leaf.fits, inside |-> leaf.inside, bytes |-> leaf.bytes]

(* What decoding and the checks of the text make of the bytes: one newline *)
(* at the end is dropped; other space around the text, no text, and bytes  *)
(* that are not UTF-8 are refused.  A torn file reads like a shorter one.  *)
Text(f) ==
    IF f.bytes \in {"clean", "newline"} THEN <<f.version, "whole">>
    ELSE IF f.bytes = "torn" THEN <<f.version, "part">>
    ELSE NoText

Init ==
    /\ style \in Styles
    /\ files = [p \in 0..MaxWrites |-> IF p = 0 THEN File(First, 0) ELSE Missing]
    /\ place = 0
    /\ writes = 0
    /\ piece = "none"
    /\ shown = <<File(First, 0)>>
    /\ pc = "idle"
    /\ mount = 0
    /\ resolved = 0
    /\ mtime = 0
    /\ since = 0
    /\ credential = [password |-> NoText, rotation_ref |-> 0]
    /\ outcome = "none"

---------------------------------------------------------------------------
(* The store                                                               *)

Put(f, p) ==
    /\ files' = [files EXCEPT ![p] = f]
    /\ place' = p
    /\ shown' = Append(shown, f)
    /\ UNCHANGED <<style, pc, locals, since, credential, outcome>>

CanWrite == piece = "none" /\ writes < MaxWrites
NextWrite == writes' = writes + 1

Replace ==
    /\ style = "rename" /\ CanWrite
    /\ NextWrite
    /\ \/ \E leaf \in {l \in Leaves : l.inside} : Put(File(leaf, writes + 1), 0)
       \/ Put(Missing, 0)
    /\ UNCHANGED piece

(* The text of this style is good; it is the two pieces that may harm.     *)
Piece(bytes, n) == File([First EXCEPT !.bytes = bytes], n)
WriteInPlace ==
    /\ style = "inplace"
    /\ \/ /\ CanWrite
          /\ NextWrite /\ Put(Piece("empty", writes + 1), 0) /\ piece' = "both"
       \/ /\ piece = "both"
          /\ UNCHANGED writes /\ Put(Piece("torn", writes), 0) /\ piece' = "second"
       \/ /\ piece = "second"
          /\ UNCHANGED writes /\ Put(Piece("clean", writes), 0) /\ piece' = "none"

Linked == style \in {"data", "parent"}
Old == {p \in 0..MaxWrites : p # place /\ files[p] # Missing}

Switch ==
    /\ Linked /\ CanWrite /\ Old = {}
    /\ NextWrite
    /\ \E leaf \in Leaves : Put(File(leaf, writes + 1), writes + 1)
    /\ UNCHANGED piece

RemoveOld ==
    /\ Linked /\ Old # {}
    /\ files' = [p \in DOMAIN files |-> IF p \in Old THEN Missing ELSE files[p]]
    /\ UNCHANGED <<style, place, writes, piece, shown, pc, locals, since, credential, outcome>>

---------------------------------------------------------------------------
(* read_credential                                                         *)

Goto(where) == pc' = where

Refuse(why) ==
    /\ Goto("idle")
    /\ outcome' = why
    /\ since' = 0
    /\ UNCHANGED <<locals, credential>>

(* configured.parent.resolve(strict=False)                                 *)
Begin ==
    /\ pc = "idle"
    /\ mount' = place
    /\ since' = Len(shown)
    /\ Goto("resolve")
    /\ UNCHANGED <<store, resolved, mtime, credential, outcome>>

(* is_relative_to(mount_dir): a directory that is itself the link and was  *)
(* switched since does not contain the file.                               *)
Escapes == ~files[place].inside \/ (style = "parent" /\ place # mount)

(* Fault: the path is resolved once, and the result used for ever after.   *)
ResolveOnce ==
    /\ pc = "resolve"
    /\ resolved' = IF outcome = "none" THEN place ELSE resolved
    /\ Goto("stat")
    /\ UNCHANGED <<store, mount, mtime, since, credential, outcome>>

(* configured.resolve(strict=True)                                         *)
Resolve ==
    /\ pc = "resolve"
    /\ \/ files[place] = Missing /\ Refuse("unreadable")
       \/ files[place] # Missing /\ Escapes /\ Refuse("outside")
       \/ /\ files[place] # Missing /\ ~Escapes
          /\ resolved' = place
          /\ Goto("stat")
          /\ UNCHANGED <<mount, mtime, since, credential, outcome>>
    /\ UNCHANGED store

Stat ==
    /\ pc = "stat"
    /\ \/ files[resolved] = Missing /\ Refuse("unreadable")
       \/ files[resolved] # Missing /\ ~files[resolved].fits /\ Refuse("too big")
       \/ /\ files[resolved] # Missing /\ files[resolved].fits
          /\ mtime' = files[resolved].version
          /\ Goto("read")
          /\ UNCHANGED <<mount, resolved, since, credential, outcome>>
    /\ UNCHANGED store

Accept(text, ref) ==
    /\ credential' = [password |-> text, rotation_ref |-> ref]
    /\ outcome' = "ok"
    /\ since' = 0
    /\ Goto("idle")
    /\ UNCHANGED locals

(* Fault: the text is not checked.                                         *)
ReadUnchecked ==
    /\ pc = "read"
    /\ \/ files[resolved] = Missing /\ Refuse("unreadable")
       \/ files[resolved] # Missing /\ Accept(Text(files[resolved]), mtime)
    /\ UNCHANGED store

(* Fault: a file that changed since the stat() is refused.                 *)
ReadUnchanged ==
    /\ pc = "read"
    /\ LET same == files[resolved] # Missing /\ Text(files[resolved]) # NoText
                   /\ files[resolved].version = mtime
       IN  \/ ~same /\ Refuse("unreadable")
           \/ same /\ Accept(Text(files[resolved]), mtime)
    /\ UNCHANGED store

(* read_bytes() and the checks of the text.                                *)
Read ==
    /\ pc = "read"
    /\ \/ files[resolved] = Missing /\ Refuse("unreadable")
       \/ /\ files[resolved] # Missing /\ Text(files[resolved]) = NoText
          /\ Refuse("malformed")
       \/ /\ files[resolved] # Missing /\ Text(files[resolved]) # NoText
          /\ Accept(Text(files[resolved]), mtime)
    /\ UNCHANGED store

---------------------------------------------------------------------------
Next ==
    \/ Replace \/ WriteInPlace \/ Switch \/ RemoveOld
    \/ Begin \/ Resolve \/ Stat \/ Read

Spec == Init /\ [][Next]_vars

---------------------------------------------------------------------------
(* Properties                                                              *)

Texts == (0..MaxWrites) \X {"whole", "part"}

(* Types; a read that ends well returns a text, torn or whole, of some     *)
(* version.                                                                *)
TypeOK ==
    /\ style \in Styles
    /\ DOMAIN files = 0..MaxWrites
    /\ place \in 0..MaxWrites
    /\ writes \in 0..MaxWrites
    /\ piece \in {"none", "both", "second"}
    /\ shown[Len(shown)] = files[place]
    /\ pc \in {"idle", "resolve", "stat", "read"}
    /\ {mount, resolved, mtime, credential.rotation_ref} \subseteq 0..MaxWrites
    /\ since \in 0..Len(shown) /\ (since = 0 <=> pc = "idle")
    /\ credential.password \in Texts \cup {NoText}
    /\ outcome = "ok" => credential.password \in Texts

(* Seen through the path alone, the system calls are one read: marker and  *)
(* password come from files shown during the call, the marker never from   *)
(* the later one, and a failure has its cause in the file or in a write.   *)
View(f) ==
    IF f = Missing \/ (f # Missing /\ ~f.inside)
    THEN [version |-> 0, fits |-> FALSE, text |-> NoText]
    ELSE [version |-> f.version, fits |-> f.fits, text |-> Text(f)]

Reads == INSTANCE CredentialReads WITH
    shown <- [i \in DOMAIN shown |-> View(shown[i])],
    refused <- outcome \notin {"none", "ok"}

CredentialReadsSpec == Reads!Spec

(* A store that renames good files never costs a reader its read, whenever *)
(* it does so: the read that opens the retry after ORA-01017 finds a       *)
(* credential (oracle.py:81, readonly_query.py:437).                       *)
IsGood(f) == View(f).fits /\ View(f).text # NoText
RenameNeverRefuses ==
    style = "rename" /\ (\A i \in DOMAIN shown : IsGood(shown[i]))
        => outcome \in {"none", "ok"}
=============================================================================
