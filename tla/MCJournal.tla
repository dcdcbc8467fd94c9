------------------------------ MODULE MCJournal ------------------------------
(***************************************************************************)
(* A small instance of Journal: one supplied name, two values to tell a    *)
(* repeated record from a different one, and identities enough for a slot, *)
(* a decision, and an event before and at its publication.                 *)
(***************************************************************************)
EXTENDS Journal
=============================================================================
