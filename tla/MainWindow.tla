------------------------------ MODULE MainWindow ------------------------------
(* The main window, desktop/src/main_window.c: its sections share one      *)
(* client and one vault process.  A section that comes on screen fetches   *)
(* what it shows.  For the dashboard and the settings see DesktopPopup.    *)
EXTENDS VaultView, GroupsView

VARIABLE section  \* the section on screen, "none" before the window opens

vars == <<vaultVars, lockVars, viewVars, running, groupsVars, section>>

Sections == {"vault", "groups"}

Init ==
  /\ InitService
  /\ InitView
  /\ InitGroups
  /\ section = "none"

\* The vault is the first section.
ShowMainWindow ==
  /\ section = "none"
  /\ section' = "vault"
  /\ vault_refresh_entries(entryGroup, clientLocked, sort_mode, text)
  /\ UNCHANGED <<vaultVars, queryVars, add, add_page, detailVars, dialog, groupsVars>>

\* Mutated: the vault section comes back as it was left.
OnSidebarRowSelectedStale(s) ==
  /\ section # "none" /\ section # s
  /\ ~dialog
  /\ section' = s
  /\ IF s = "groups" /\ view_stack = "list"
       THEN refresh_groups(groupState, clientLocked)
     ELSE group_rows' = NULL /\ UNCHANGED clientLocked
  /\ UNCHANGED <<vaultVars, trayLocked, listVars, filter, queryVars, add, add_page,
                 detailVars, dialog, view_stack, edit_index, deletedHere>>

on_sidebar_row_selected(s) ==
  /\ section # "none" /\ section # s
  /\ ~dialog
  /\ section' = s
  /\ CASE s = "vault" ->
              /\ vault_refresh_entries(entryGroup, clientLocked, sort_mode, text)
              /\ group_rows' = NULL
       [] s = "groups" /\ view_stack = "list" ->
              /\ refresh_groups(groupState, clientLocked)
              /\ UNCHANGED <<trayLocked, listVars, filter>>
       [] OTHER ->
              /\ group_rows' = NULL
              /\ UNCHANGED <<lockVars, listVars, filter>>
  /\ UNCHANGED <<vaultVars, queryVars, add, add_page, detailVars, dialog,
                 view_stack, edit_index, deletedHere>>

VaultSection ==
  /\ section = "vault"
  /\ Keys \/ Pointer
  /\ UNCHANGED <<groupsVars, section>>

GroupsSection ==
  /\ section = "groups"
  /\ GroupsNext
  /\ UNCHANGED <<viewVars, section>>

\* Callbacks that come whatever section is on screen.
Announced == on_search_changed /\ UNCHANGED <<groupsVars, section>>
Tick      == vault_update_totp /\ UNCHANGED <<groupsVars, section>>

Others ==
  /\ \/ \E s \in Slots, g \in Groups \cup {None, Absent} : EntryChanges(s, g)
     \/ \E g \in Groups : GroupChanges(g)
     \/ VaultLocks
     \/ Unlock
  /\ UNCHANGED <<viewVars, groupsVars, section>>

Next ==
  /\ running
  /\ \/ Tick
     \/ /\ \/ ShowMainWindow
           \/ \E s \in Sections : on_sidebar_row_selected(s)
           \/ VaultSection
           \/ GroupsSection
           \/ Announced
           \/ Others
        /\ UNCHANGED running

Spec == Init /\ [][Next]_vars

-----------------------------------------------------------------------------
(* Properties *)

(* Every variable has its type.                                            *)
TypeOK ==
  /\ ServiceTypeOK
  /\ ViewTypeOK
  /\ GroupsTypeOK
  /\ section \in Sections \cup {"none"}

(* Each row stands for the entry it shows: the position it carries is the  *)
(* entry's in the sorted list, though the rows are filtered and the list   *)
(* is fetched again under other orders, texts and filters; and the rows    *)
(* are all the entries that pass the filter, once each and in order.       *)
RowsNameTheirEntries ==
  /\ entries = NULL => rows = <<>>
  /\ entries # NULL =>
       /\ \A r \in DOMAIN rows :
            /\ rows[r].index \in DOMAIN entries
            /\ entries[rows[r].index].slot = rows[r].slot
       /\ \A i \in DOMAIN entries :
            (\E r \in DOMAIN rows : rows[r].index = i)
              <=> (filter_group_index = All \/ entries[i].group = filter_group_index)
       /\ \A q, r \in DOMAIN rows : q < r => rows[q].index < rows[r].index

(* What the buttons of the detail panel act on is what the panel shows:    *)
(* there is an entry if and only if the panel shows one, a form or a       *)
(* question about an entry has it, and the TOTP secret kept is that        *)
(* entry's.                                                                *)
DetailHonest ==
  /\ page = "detail" <=> selected_id # NULL
  /\ editing \/ dialog => page = "detail"
  /\ totp.secret # NULL => totp.secret = selected_id

(* The TOTP timer runs as long as there is a secret, and its row is on the *)
(* panel except while the edit form has taken its place.                   *)
TotpTimerHasItsRow ==
  /\ totp.timer <=> totp.secret # NULL
  /\ totp.timer => totp.row = IF editing THEN "gone" ELSE "shown"

Offered(d) == IF d.selected = 0 THEN None ELSE d.model[d.selected]
UpToDate(d) == d.model = vault_populate_group_dropdown(cached_groups).model

(* A form that saves stores the group its drop-down shows, deleted groups  *)
(* between the others notwithstanding, provided that the list of active    *)
(* groups is still the one the drop-down was filled from.                  *)
SavesWhatItShows ==
  [][/\ on_edit_save_clicked /\ ~editing' /\ UpToDate(edit)
          => entryGroup'[selected_id] = Offered(edit)
     /\ on_add_save_clicked /\ ~add_page' /\ UpToDate(add)
          => \E s \in Slots : entryGroup[s] = Absent /\ entryGroup'[s] = Offered(add)]_vars

(* A group this window has deleted is not offered again: the section with  *)
(* the drop-downs has fetched the groups anew by the time it is on screen, *)
(* and what its forms save is resolved against that list, so nothing is    *)
(* saved into the deleted group even by a form that still shows it.        *)
NoGroupDeletedHereIsOffered ==
  section = "vault" =>
    /\ ActiveIn(cached_groups) \cap deletedHere = {}
    /\ \A p \in DOMAIN filter.model : filter.model[p] \notin deletedHere

(* "update filter dropdown model preserving selection": the drop-down      *)
(* shows "All groups" if and only if the list is not filtered.             *)
FilterLabelHonest == filter.selected = 0 <=> filter_group_index = All
=============================================================================
