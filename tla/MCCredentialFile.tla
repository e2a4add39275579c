--------------------------- MODULE MCCredentialFile ---------------------------
(***************************************************************************)
(* Values for model-checking CredentialFile: one file per check that       *)
(* read_credential makes.                                                  *)
(***************************************************************************)
EXTENDS CredentialFile

Leaf(bytes) == [First EXCEPT !.bytes = bytes]
MCLeaves ==
    {Leaf(b) : b \in {"clean", "newline", "padded", "empty", "binary"}}
    \cup {[First EXCEPT !.fits = FALSE], [First EXCEPT !.inside = FALSE]}
=============================================================================
