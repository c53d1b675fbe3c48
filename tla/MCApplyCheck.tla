---------------------------- MODULE MCApplyCheck ----------------------------
(***************************************************************************)
(* Two locators in scope and one outside; a path for each, a path no       *)
(* target_map entry names, and, in the second map, two paths for one       *)
(* locator.                                                                *)
(***************************************************************************)
EXTENDS ApplyCheck, TLC

CONSTANTS A, B, X, a, b, x, u, old, new

OneToOne == a :> A @@ b :> B @@ x :> X
TwoToOne == a :> A @@ b :> A
=============================================================================
