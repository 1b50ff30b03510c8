---------------------------- MODULE MCGuestAgent ----------------------------
(* GuestAgent for TLC. *)
EXTENDS GuestAgent

\* Two pieces can be exchanged; a second stream needs only to be there.
SomeChunks == [s \in Streams |-> IF s = "Stderr" THEN 1 ELSE 2]
FewChunks == [s \in Streams |-> 1]
=============================================================================
