-------------------------------- MODULE Pages --------------------------------
(***************************************************************************)
(* Lists that the GitHub API returns page by page, as internal/client      *)
(* reads them: a list is a set of numbers, the latest entry first, and     *)
(* page p is cut from what the list is when the call is made.              *)
(***************************************************************************)
EXTENDS Integers, FiniteSets

CONSTANT PageSize  \* per_page, 100 in every call

ASSUME PageSizeAssumption == PageSize \in Nat \ {0}

Position(list, x) == Cardinality({y \in list : y >= x})

Page(list, p) ==
  {x \in list : Position(list, x) \in (p - 1) * PageSize + 1 .. p * PageSize}
=============================================================================
