----------------------------- MODULE MCEntryExit -----------------------------
(* Three people, a threshold two of them reach and three exceed. *)
EXTENDS EntryExit

CONSTANTS a, b, c
MCSID == {a, b, c}

=============================================================================
