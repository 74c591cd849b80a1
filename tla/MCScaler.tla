------------------------------ MODULE MCScaler ------------------------------
(* Scaler for TLC: the runner names are interchangeable.                   *)
EXTENDS Scaler, TLC

Symmetry == Permutations(Names)
=============================================================================
