---------------------------- MODULE MCMainWindow ----------------------------
(* Values of the constants of MainWindow for TLC: two entries that differ  *)
(* by name and tie by date, one with a TOTP secret and in an active group, *)
(* one in a deleted group, which the drop-downs skip; a free slot, whose   *)
(* entry would be the latest and the last by name; a group to be added.    *)
EXTENDS MainWindow, TLC

MCInitialGroup == (0 :> 1) @@ (1 :> 0) @@ (2 :> Absent)
MCInitialState == (0 :> "deleted") @@ (1 :> "active") @@ (2 :> "absent")
MCName == (0 :> 1) @@ (1 :> 0) @@ (2 :> 2)
MCCreatedAt == (0 :> 1) @@ (1 :> 1) @@ (2 :> 2)
MCType == [s \in Slots |-> s % 2]
MCMatches == ("" :> Slots) @@ ("a" :> {1})
=============================================================================
