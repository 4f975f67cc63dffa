------------------------------ MODULE GroupsView ------------------------------
(* The groups section of the main window, desktop/src/groups_view.c: a     *)
(* list of the groups, the deleted ones included, whose rows delete or     *)
(* purge, and a form that adds or renames a group.  Names and colours are  *)
(* left out.                                                               *)
EXTENDS VaultService

VARIABLES
  view_stack,   \* the page shown
  group_rows,   \* the groups listed, NULL for an empty list; rows that are
                \* not on screen are left out, the page lists them anew
  edit_index,   \* the group the form renames, -1 when it adds one (every way
                \* into the form sets it, so a closed form has -1 here)
  deletedHere   \* the groups this view has deleted (history)

groupsVars == <<view_stack, group_rows, edit_index, deletedHere>>

InitGroups ==
  /\ view_stack = "list"
  /\ group_rows = NULL
  /\ edit_index = -1
  /\ deletedHere = {}

\* "state" is the vault's groups once the handler's own write is done.
refresh_groups(state, locked) ==
  \E answer \in IF locked THEN {"not asked"} ELSE Answers :
    /\ group_rows' = IF answer = "ok" THEN state ELSE NULL
    /\ clientLocked' = LockedAfter(locked, answer)

Listed(g) == group_rows # NULL /\ group_rows[g] \in {"active", "deleted"}

on_row_edit(g) ==
  /\ view_stack = "list"
  /\ Listed(g) /\ group_rows[g] = "active"
  /\ edit_index' = g
  /\ view_stack' = "edit"
  /\ group_rows' = NULL
  /\ UNCHANGED <<vaultVars, lockVars, deletedHere>>

\* The row knows whether its group was deleted when it was listed; the
\* vault deletes a group it has and purges one that is deleted.
on_row_delete(g) ==
  /\ view_stack = "list"
  /\ Listed(g)
  /\ LET wanted   == IF group_rows[g] = "deleted" THEN "purged" ELSE "deleted"
         accepted == groupState[g] \in DOMAIN NextState /\ NextState[groupState[g]] = wanted
     IN \E answer \in WriteAnswers(accepted) :
          /\ CountWrite(answer)
          /\ groupState' = IF Done(answer) THEN [groupState EXCEPT ![g] = wanted]
                           ELSE groupState
          /\ deletedHere' = IF Done(answer) THEN deletedHere \cup {g} ELSE deletedHere
          /\ refresh_groups(groupState', LockedAfter(clientLocked, answer))
  /\ UNCHANGED <<entryGroup, srvLocked, trayLocked, view_stack, edit_index>>

on_add_clicked ==
  /\ view_stack = "list"
  /\ edit_index' = -1
  /\ view_stack' = "edit"
  /\ group_rows' = NULL
  /\ UNCHANGED <<vaultVars, lockVars, deletedHere>>

\* The form closes whatever the answer.  The list page refreshes as it
\* appears and the handler refreshes it again, with one outcome.
on_save_clicked ==
  /\ view_stack = "edit"
  /\ LET next     == {g \in Groups : NextGroup(g)}
         accepted == IF edit_index < 0 THEN next # {} ELSE groupState[edit_index] = "active"
     IN \E answer \in WriteAnswers(accepted) :
          /\ CountWrite(answer)
          /\ groupState' = [g \in Groups |->
                              IF Done(answer) /\ edit_index < 0 /\ g \in next
                                THEN "active" ELSE groupState[g]]
          /\ refresh_groups(groupState', LockedAfter(clientLocked, answer))
  /\ view_stack' = "list"
  /\ edit_index' = -1
  /\ UNCHANGED <<entryGroup, srvLocked, trayLocked, deletedHere>>

on_cancel_clicked ==
  /\ view_stack = "edit"
  /\ view_stack' = "list"
  /\ edit_index' = -1
  /\ refresh_groups(groupState, clientLocked)
  /\ UNCHANGED <<vaultVars, trayLocked, deletedHere>>

GroupsNext ==
  \/ \E g \in Groups : on_row_edit(g) \/ on_row_delete(g)
  \/ on_add_clicked
  \/ on_save_clicked
  \/ on_cancel_clicked

GroupsTypeOK ==
  /\ view_stack \in {"list", "edit"}
  /\ group_rows \in [Groups -> GroupStates] \cup {NULL}
  /\ edit_index \in Groups \cup {-1}
  /\ deletedHere \subseteq Groups
=============================================================================
