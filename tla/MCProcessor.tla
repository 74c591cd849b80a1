----------------------------- MODULE MCProcessor -----------------------------
(* Processor for TLC: every user has two repositories.                     *)
EXTENDS Processor

TwoRepositories == [u \in Users |-> {1, 2}]
=============================================================================
