---------------------------- MODULE MCSearchView ----------------------------
(* Values of the constants of SearchView for TLC: four entries under a     *)
(* window of two, so that both "more" rows, the clamped steps and a window *)
(* in the middle occur; two groups at the start and one that may be added. *)
EXTENDS SearchView, TLC

MCInitialGroup == (0 :> 0) @@ (1 :> None) @@ (2 :> 0) @@ (3 :> 1)
MCMatches == ("" :> Slots) @@ ("a" :> {0, 2})
=============================================================================
