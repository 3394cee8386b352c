------------------------------ MODULE MCFSDrive ------------------------------
(***************************************************************************)
(* FSDrive for TLC: a content and the empty file, two remote puts and a    *)
(* remote delete.                                                          *)
(***************************************************************************)
EXTENDS FSDrive

CONSTANTS a, b, empty

\* A peer puts a without knowing what is there, empties a, or deletes a, all in
\* second 1.
RemoteEntries ==
  {[op |-> "put", sum |-> a, prev |-> NoSum, ts |-> 1, dev |-> 2, seq |-> 1],
   [op |-> "put", sum |-> Empty, prev |-> a, ts |-> 1, dev |-> 2, seq |-> 2],
   [op |-> "delete", sum |-> NoSum, prev |-> a, ts |-> 1, dev |-> 2, seq |-> 2]}
=============================================================================
