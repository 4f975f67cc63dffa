------------------------------ MODULE VaultView ------------------------------
(* The vault section of the main window, desktop/src/vault_view.c: a list  *)
(* of entries with a search text, a sort order and a group filter; the     *)
(* detail of one entry with its edit form; and a form that adds an entry.  *)
(*                                                                         *)
(* Three drop-downs choose a group by position: the filter, the edit form  *)
(* and the add form.  Each was filled from a list of groups fetched at     *)
(* some time, and all three are resolved against the one list the view     *)
(* keeps, the last it fetched.                                             *)
(***************************************************************************)
EXTENDS VaultService

CONSTANTS
  Name, CreatedAt, Type,  \* what the sort orders compare
  HasTotp,                \* the entries with a TOTP secret
  SortModes,              \* the orders the user may choose
  MaxSettings,            \* bound on texts, orders and filters chosen (of the model)
  Texts, NoText,          \* texts of the search entry, and the empty one
  Matches                 \* the entries that match a text

ASSUME ViewAssumption ==
  /\ {Name, CreatedAt, Type} \subseteq [Slots -> Nat]
  /\ HasTotp \subseteq Slots
  /\ SortModes \subseteq 0 .. 2
  /\ MaxSettings \in Nat
  /\ NoText \in Texts
  /\ Matches \in [Texts -> SUBSET Slots] /\ Matches[NoText] = Slots

VARIABLES
  text, delayed,       \* the search text; whether it is still to be announced
  sort_mode,           \* 0 = name, 1 = date, 2 = type
  filter_group_index,  \* "-1 = all"
  settings,            \* how often one of these was chosen
  cached_groups,       \* the last list of groups fetched
  entries,             \* the last list of entries fetched, sorted
  rows,                \* the rows on screen: the entry shown and its position
  filter, add, edit,   \* the drop-downs: the groups offered, and the choice
  add_page,            \* whether the add form covers the list
  selected_id, page, editing,  \* the detail panel
  totp,                \* its TOTP row: the secret's entry, the timer, the row
  dialog,              \* whether the question before a deletion is open
  running              \* whether the process has not crashed

listVars   == <<cached_groups, entries, rows>>
queryVars  == <<text, delayed, sort_mode, filter_group_index, settings>>
detailVars == <<selected_id, page, editing, edit, totp>>
viewVars   == <<listVars, queryVars, filter, add, add_page, detailVars, dialog>>

NoTotp == [secret |-> NULL, timer |-> FALSE, row |-> "none"]
EmptyDropDown == [model |-> <<>>, selected |-> 0]

InitView ==
  /\ text = NoText /\ delayed = FALSE
  /\ sort_mode = 0
  /\ settings = 0
  /\ filter_group_index = All
  /\ cached_groups = NULL
  /\ entries = NULL
  /\ rows = <<>>
  /\ filter = EmptyDropDown /\ add = EmptyDropDown /\ edit = EmptyDropDown
  /\ add_page = FALSE
  /\ selected_id = NULL /\ page = "empty" /\ editing = FALSE
  /\ totp = NoTotp
  /\ dialog = FALSE
  /\ running = TRUE

-----------------------------------------------------------------------------
(* Lists *)

sort_compare_name(s, t) == Name[s] < Name[t]

sort_compare_date(s, t) == CreatedAt[s] > CreatedAt[t]

sort_compare_type(s, t) ==
  \/ Type[s] < Type[t]
  \/ Type[s] = Type[t] /\ sort_compare_name(s, t)

\* Whether s comes before t; neither may.
Precedes(mode, s, t) ==
  CASE mode = 0 -> sort_compare_name(s, t)
    [] mode = 1 -> sort_compare_date(s, t)
    [] mode = 2 -> sort_compare_type(s, t)

\* qsort leaves open how entries that compare equal are arranged.
sort_json_array(found, mode) ==
  {order \in [1 .. Cardinality(found) -> found] :
     \A q, r \in DOMAIN order :
       q < r => order[q] # order[r] /\ ~Precedes(mode, order[r], order[q])}

ListedEntries(there, mode, query) ==
  LET found == {s \in Matches[query] : there[s] # Absent}
  IN {[r \in DOMAIN order |-> [slot |-> order[r], group |-> there[order[r]]]] :
        order \in sort_json_array(found, mode)}

\* Mutated: a row carries its own position.
EntryRowsRenumbered(list, group) ==
  LET kept == InOrder({i \in DOMAIN list : group = All \/ list[i].group = group}, Smaller)
  IN [r \in DOMAIN kept |-> [index |-> r, slot |-> list[kept[r]].slot]]

\* A row carries the position of its entry in the list, filtered or not.
EntryRows(list, group) ==
  LET kept == InOrder({i \in DOMAIN list : group = All \/ list[i].group = group}, Smaller)
  IN [r \in DOMAIN kept |-> [index |-> kept[r], slot |-> list[kept[r]].slot]]

vault_populate_group_dropdown(snapshot) ==
  [model |-> InOrder(ActiveIn(snapshot), Smaller), selected |-> 0]

\* Mutated: "All groups" or "No group" is counted twice.
PositionAfter(model, group) ==
  LET at == {p \in DOMAIN model : model[p] = group}
  IN IF at = {} THEN 0 ELSE 1 + CHOOSE p \in at : TRUE

\* The position of a group among those offered, 0 when it is not one.
PositionOf(model, group) ==
  LET at == {p \in DOMAIN model : model[p] = group}
  IN IF at = {} THEN 0 ELSE CHOOSE p \in at : TRUE

\* Mutated: deleted groups are not skipped.
GroupIndexUnskipped(snapshot, selected) ==
  LET there == IF snapshot = NULL THEN {}
               ELSE {g \in DOMAIN snapshot : snapshot[g] \in {"active", "deleted"}}
      order == InOrder(there, Smaller)
  IN IF selected \in DOMAIN order THEN order[selected] ELSE -1

vault_get_group_index_from_dropdown(snapshot, selected) ==
  LET active == InOrder(ActiveIn(snapshot), Smaller)
  IN IF selected \in DOMAIN active THEN active[selected] ELSE -1

-----------------------------------------------------------------------------
(* Steps shared by the handlers.  "there" is the vault's entries once the  *)
(* handler's own write is done, "locked" what the client then knows.       *)

\* The client does not ask a vault it knows to be locked.
AskUnless(locked) == IF locked THEN {"not asked"} ELSE Answers

vault_rebuild_list(there, locked, mode, query, group) ==
  \E answer \in AskUnless(locked) :
    /\ entries' \in IF answer = "ok" THEN ListedEntries(there, mode, query) ELSE {NULL}
    /\ rows' = IF entries' = NULL THEN <<>> ELSE EntryRows(entries', group)
    /\ clientLocked' = LockedAfter(locked, answer)
    /\ trayLocked' = (trayLocked \/ answer = "locked")

vault_refresh_entries(there, locked, mode, query) ==
  \E answer \in AskUnless(locked) :
    LET snapshot == GroupList(answer)
        offered  == vault_populate_group_dropdown(snapshot)
    IN /\ cached_groups' = snapshot
       /\ filter' = [offered EXCEPT !.selected =
                       PositionOf(offered.model, filter_group_index)]
       /\ vault_rebuild_list(there, LockedAfter(locked, answer), mode, query, filter_group_index)

\* The two forms fetch the groups anew, of a locked vault too.
vault_refresh_group_dropdown(answer) ==
  /\ cached_groups' = GroupList(answer)
  /\ clientLocked' = LockedAfter(clientLocked, answer)
  /\ UNCHANGED trayLocked

\* Mutated: the TOTP secret and its timer stay.
ClearDetailKeepingTotp ==
  /\ selected_id' = NULL
  /\ page' = "empty"
  /\ editing' = FALSE
  /\ edit' = EmptyDropDown
  /\ UNCHANGED totp

\* The edit form, when it is open, is out of reach from here on.
vault_clear_detail ==
  /\ selected_id' = NULL
  /\ page' = "empty"
  /\ editing' = FALSE
  /\ edit' = EmptyDropDown
  /\ totp' = NoTotp

\* Mutated: the timer of the entry shown before is not stopped.
ShowDetailKeepingTimer(slot) ==
  /\ selected_id' = slot
  /\ page' = "detail"
  /\ editing' = FALSE
  /\ edit' = EmptyDropDown
  /\ totp' = IF slot \in HasTotp
               THEN [secret |-> slot, timer |-> TRUE, row |-> "shown"]
             ELSE [NoTotp EXCEPT !.timer = totp.timer]

\* The TOTP row asks for a code at once and then every second.
vault_show_detail(slot) ==
  /\ selected_id' = slot
  /\ page' = "detail"
  /\ editing' = FALSE
  /\ edit' = EmptyDropDown
  /\ totp' = IF slot \in HasTotp
               THEN [secret |-> slot, timer |-> TRUE, row |-> "shown"]
             ELSE NoTotp

-----------------------------------------------------------------------------
(* The list *)

ChooseSetting ==
  /\ ~add_page /\ ~dialog
  /\ settings < MaxSettings
  /\ settings' = settings + 1

on_entry_row_activated(r) ==
  /\ ~add_page /\ ~dialog
  /\ r \in DOMAIN rows
  /\ LET slot == entries[rows[r].index].slot
     IN /\ vault_show_detail(slot)
        /\ \E answer \in IF slot \in HasTotp THEN Answers ELSE {"not asked"} :
             clientLocked' = LockedAfter(clientLocked, answer)
  /\ UNCHANGED <<vaultVars, trayLocked, listVars, queryVars, filter, add,
                 add_page, dialog>>

\* An emptied text is announced at once, another after a delay.
TypeText(t) ==
  /\ ChooseSetting
  /\ t # NoText /\ t # text
  /\ text' = t
  /\ delayed' = TRUE
  /\ UNCHANGED <<vaultVars, lockVars, listVars, sort_mode, filter_group_index,
                 filter, add, add_page, detailVars, dialog>>

DeleteText ==
  /\ ~add_page /\ ~dialog
  /\ text # NoText
  /\ text' = NoText
  /\ delayed' = FALSE
  /\ vault_refresh_entries(entryGroup, clientLocked, sort_mode, NoText)
  /\ UNCHANGED <<vaultVars, sort_mode, filter_group_index, settings, add,
                 add_page, detailVars, dialog>>

on_search_changed ==
  /\ delayed
  /\ delayed' = FALSE
  /\ vault_refresh_entries(entryGroup, clientLocked, sort_mode, text)
  /\ UNCHANGED <<vaultVars, text, sort_mode, filter_group_index, settings, add,
                 add_page, detailVars, dialog>>

on_sort_changed(mode) ==
  /\ ChooseSetting
  /\ mode # sort_mode
  /\ sort_mode' = mode
  /\ vault_refresh_entries(entryGroup, clientLocked, mode, text)
  /\ UNCHANGED <<vaultVars, text, delayed, filter_group_index, add,
                 add_page, detailVars, dialog>>

\* The choice is resolved against the last groups fetched.
on_group_filter_changed(p) ==
  /\ ChooseSetting
  /\ p \in 0 .. Len(filter.model) /\ p # filter.selected
  /\ filter' = [filter EXCEPT !.selected = p]
  /\ filter_group_index' = IF p = 0 THEN All
                           ELSE vault_get_group_index_from_dropdown(cached_groups, p)
  /\ vault_rebuild_list(entryGroup, clientLocked, sort_mode, text, filter_group_index')
  /\ UNCHANGED <<vaultVars, cached_groups, text, delayed, sort_mode, add,
                 add_page, detailVars, dialog>>

-----------------------------------------------------------------------------
(* The detail panel; its buttons are hidden while the edit form is open *)

on_delete_clicked ==
  /\ ~dialog
  /\ page = "detail" /\ ~editing
  /\ dialog' = TRUE
  /\ UNCHANGED <<vaultVars, lockVars, listVars, queryVars, filter, add,
                 add_page, detailVars>>

on_delete_response(delete) ==
  /\ dialog
  /\ dialog' = FALSE
  /\ IF ~delete \/ selected_id = NULL
       THEN UNCHANGED <<vaultVars, lockVars, listVars, filter, detailVars>>
     ELSE \E answer \in WriteAnswers(entryGroup[selected_id] # Absent) :
            /\ CountWrite(answer)
            /\ entryGroup' = IF Done(answer) THEN [entryGroup EXCEPT ![selected_id] = Absent]
                             ELSE entryGroup
            /\ IF answer = "ok"
                 THEN /\ vault_clear_detail
                      /\ vault_refresh_entries(entryGroup', clientLocked, sort_mode, text)
               ELSE /\ clientLocked' = LockedAfter(clientLocked, answer)
                    /\ UNCHANGED <<trayLocked, listVars, filter, detailVars>>
            /\ UNCHANGED <<groupState, srvLocked>>
  /\ UNCHANGED <<queryVars, add, add_page>>

\* The form shows the entry as the list has it, and its group when it is
\* among those offered.  The TOTP row goes, its timer stays.
on_edit_clicked ==
  /\ ~dialog
  /\ page = "detail" /\ ~editing
  /\ entries # NULL
  /\ \E i \in DOMAIN entries, answer \in Answers :
       /\ entries[i].slot = selected_id
       /\ vault_refresh_group_dropdown(answer)
       /\ LET offered == vault_populate_group_dropdown(cached_groups')
          IN edit' = [offered EXCEPT !.selected =
                        PositionOf(offered.model, entries[i].group)]
  /\ editing' = TRUE
  /\ totp' = [totp EXCEPT !.row = IF @ = "shown" THEN "gone" ELSE @]
  /\ UNCHANGED <<vaultVars, entries, rows, queryVars, filter, add, add_page,
                 selected_id, page, dialog>>

ChooseEditGroup(p) ==
  /\ ~dialog
  /\ editing
  /\ p \in 0 .. Len(edit.model) /\ p # edit.selected
  /\ edit' = [edit EXCEPT !.selected = p]
  /\ UNCHANGED <<vaultVars, lockVars, listVars, queryVars, filter, add,
                 add_page, selected_id, page, editing, totp, dialog>>

\* The entry is fetched and shown again, or the panel is emptied.
ReloadDetail(there) ==
  \E answer \in EntryAnswers(there, selected_id) :
    IF answer = "ok" THEN vault_show_detail(selected_id) ELSE vault_clear_detail

on_edit_save_clicked ==
  /\ ~dialog
  /\ editing
  /\ LET group == vault_get_group_index_from_dropdown(cached_groups, edit.selected)
         moved == [entryGroup EXCEPT ![selected_id] =
                     UpdatedGroup(@, group, edit.selected = 0)]
     IN \E answer \in WriteAnswers(entryGroup[selected_id] # Absent) :
          /\ CountWrite(answer)
          /\ entryGroup' = IF Done(answer) THEN moved ELSE entryGroup
          /\ IF answer = "ok"
               THEN /\ vault_refresh_entries(moved, clientLocked, sort_mode, text)
                    /\ ReloadDetail(moved)
             ELSE /\ clientLocked' = LockedAfter(clientLocked, answer)
                  /\ UNCHANGED <<trayLocked, listVars, filter, detailVars>>
  /\ UNCHANGED <<groupState, srvLocked, queryVars, add, add_page, dialog>>

on_edit_cancel_clicked ==
  /\ ~dialog
  /\ editing
  /\ \E answer \in EntryAnswers(entryGroup, selected_id) :
       /\ IF answer = "ok" THEN vault_show_detail(selected_id) ELSE vault_clear_detail
       /\ clientLocked' = LockedAfter(clientLocked, answer)
  /\ UNCHANGED <<vaultVars, trayLocked, listVars, queryVars, filter, add,
                 add_page, dialog>>

\* A button of the two forms.
on_generate_password ==
  /\ ~dialog
  /\ editing \/ add_page
  /\ \E answer \in Answers : clientLocked' = LockedAfter(clientLocked, answer)
  /\ UNCHANGED <<vaultVars, trayLocked, viewVars>>

\* Escape, in the form too.
on_detail_key_pressed ==
  /\ ~dialog
  /\ page = "detail"
  /\ vault_clear_detail
  /\ UNCHANGED <<vaultVars, lockVars, listVars, queryVars, filter, add,
                 add_page, dialog>>

-----------------------------------------------------------------------------
(* The add form; its drop-down is filled anew whenever it opens *)

on_add_button_clicked ==
  /\ ~add_page /\ ~dialog
  /\ \E answer \in Answers : vault_refresh_group_dropdown(answer)
  /\ add' = vault_populate_group_dropdown(cached_groups')
  /\ add_page' = TRUE
  /\ UNCHANGED <<vaultVars, entries, rows, queryVars, filter, detailVars, dialog>>

ChooseAddGroup(p) ==
  /\ add_page /\ ~dialog
  /\ p \in 0 .. Len(add.model) /\ p # add.selected
  /\ add' = [add EXCEPT !.selected = p]
  /\ UNCHANGED <<vaultVars, lockVars, listVars, queryVars, filter,
                 add_page, detailVars, dialog>>

\* The vault gives the entry a free slot.
on_add_save_clicked ==
  /\ add_page /\ ~dialog
  /\ LET group == vault_get_group_index_from_dropdown(cached_groups, add.selected)
         free  == {s \in Slots : entryGroup[s] = Absent}
     IN \E answer \in WriteAnswers(free # {}) :
          /\ CountWrite(answer)
          /\ IF Done(answer)
               THEN \E s \in free : entryGroup' = [entryGroup EXCEPT ![s] = group]
             ELSE UNCHANGED entryGroup
          /\ IF answer = "ok"
               THEN /\ add_page' = FALSE
                    /\ add' = EmptyDropDown
                    /\ vault_refresh_entries(entryGroup', clientLocked, sort_mode, text)
                    /\ vault_clear_detail
             ELSE /\ clientLocked' = LockedAfter(clientLocked, answer)
                  /\ UNCHANGED <<trayLocked, listVars, filter, detailVars, add, add_page>>
  /\ UNCHANGED <<groupState, srvLocked, queryVars, dialog>>

on_add_cancel_clicked ==
  /\ add_page /\ ~dialog
  /\ add_page' = FALSE
  /\ add' = EmptyDropDown
  /\ UNCHANGED <<vaultVars, lockVars, listVars, queryVars, filter, detailVars, dialog>>

-----------------------------------------------------------------------------
(* The TOTP timer.  A code that is written to a row that no longer exists  *)
(* is a use of freed memory: the process goes on or it ends.               *)

vault_update_totp ==
  /\ totp.timer
  /\ \E answer \in Answers :
       /\ clientLocked' = LockedAfter(clientLocked, answer)
       /\ running' \in IF answer = "ok" /\ totp.row = "gone" THEN BOOLEAN ELSE {TRUE}
  /\ UNCHANGED <<vaultVars, trayLocked, viewVars>>

Keys ==
  \/ \E t \in Texts : TypeText(t)
  \/ DeleteText
  \/ on_detail_key_pressed

Pointer ==
  \/ \E r \in DOMAIN rows : on_entry_row_activated(r)
  \/ \E mode \in SortModes : on_sort_changed(mode)
  \/ \E p \in 0 .. Cardinality(Groups) : on_group_filter_changed(p)
  \/ on_delete_clicked
  \/ \E delete \in BOOLEAN : on_delete_response(delete)
  \/ on_edit_clicked
  \/ \E p \in 0 .. Cardinality(Groups) : ChooseEditGroup(p)
  \/ on_edit_save_clicked
  \/ on_edit_cancel_clicked
  \/ on_generate_password
  \/ on_add_button_clicked
  \/ \E p \in 0 .. Cardinality(Groups) : ChooseAddGroup(p)
  \/ on_add_save_clicked
  \/ on_add_cancel_clicked

ViewTypeOK ==
  /\ {text} \subseteq Texts /\ {delayed, editing, add_page, dialog, running} \subseteq BOOLEAN
  /\ sort_mode \in 0 .. 2
  /\ filter_group_index \in Groups \cup {All}
  /\ cached_groups \in [Groups -> GroupStates] \cup {NULL}
  /\ entries = NULL \/ entries \in Seq([slot : Slots, group : Groups \cup {None}])
  /\ rows \in Seq([index : Nat, slot : Slots])
  /\ \A d \in {filter, add, edit} : d.model \in Seq(Groups) /\ d.selected \in 0 .. Len(d.model)
  /\ selected_id \in Slots \cup {NULL} /\ page \in {"empty", "detail"}
  /\ totp \in [secret : Slots \cup {NULL}, timer : BOOLEAN, row : {"none", "shown", "gone"}]
=============================================================================
