----------------------------- MODULE SearchView -----------------------------
(***************************************************************************)
(* The search view of the popup, desktop/src/search.c: a list of entries   *)
(* filtered by a text and a group, of which a window of                    *)
(* MAX_VISIBLE_ENTRIES rows is on screen, driven by the keyboard.          *)
(*                                                                         *)
(* The vault process and its other users are the environment: they change  *)
(* entries, groups and the lock between two callbacks of the view.  Each   *)
(* handler of the view runs to its end on the GTK main loop, the calls it  *)
(* makes included; a call answers, fails, or is refused by a locked vault. *)
(* The one asynchronous step inside the view is GtkSearchEntry's: a text   *)
(* that is not empty is announced ("search-changed") after a delay, an     *)
(* empty one at once.                                                      *)
(***************************************************************************)
EXTENDS ListOrder

CONSTANTS
  MAX_VISIBLE_ENTRIES,  \* rows of the window
  LABEL_CHARS_LEN,      \* keys that open a row
  Slots,                \* slot indices of entries
  Groups,               \* indices of groups
  Colored,              \* the groups that have a colour
  InitialGroup,         \* the group of each entry at the start
  InitialGroups,        \* the groups there are at the start
  Texts,                \* texts the search can hold
  NoText,               \* the empty one
  Matches,              \* the entries that match a text
  MaxChange             \* bound on changes by others (a bound of the model)

ASSUME SearchAssumption ==
  /\ MAX_VISIBLE_ENTRIES \in Nat \ {0}
  /\ LABEL_CHARS_LEN \in Nat
  /\ IsFiniteSet(Slots) /\ Slots \subseteq Nat
  /\ IsFiniteSet(Groups) /\ Groups \subseteq Nat
  /\ Colored \subseteq Groups /\ InitialGroups \subseteq Groups
  /\ InitialGroup \in [Slots -> Groups \cup {None, Absent}]
  /\ NoText \in Texts
  /\ Matches \in [Texts -> SUBSET Slots]
  /\ Matches[NoText] = Slots
  /\ MaxChange \in Nat
  /\ NULL \notin [Groups -> GroupStates]

VARIABLES
  entryGroup,    \* the group of each entry in the vault
  groupState,    \* the groups of the vault
  accessed,      \* when each entry was last opened
  srvLocked,     \* whether the vault is locked
  changes,       \* how often the vault has changed
  clientLocked,  \* SolockClient.locked
  trayLocked,    \* TrayData.locked
  mapped,        \* whether the view is on screen
  revealed,      \* whether the search entry is
  text,          \* its text
  delayed,       \* whether "search-changed" is still to come for it
  groups,        \* SearchData.groups
  active_group,
  entries,       \* SearchData.entries
  filtered,      \* SearchData.filtered_indices
  visible_offset,
  selected_filtered,
  rows,          \* the children of the list box
  selected_row,  \* the position of the selected row among them, 0 for none
  opened,        \* the entry handed to the detail view
  listed         \* the text of the last list fetched (history)

vaultVars  == <<entryGroup, groupState, accessed, srvLocked, changes>>
lockVars   == <<clientLocked, trayLocked>>
inputVars  == <<mapped, revealed, text, delayed>>
groupVars  == <<groups, active_group>>
windowVars == <<visible_offset, selected_filtered, rows, selected_row>>
listVars   == <<entries, filtered, listed>>
vars == <<vaultVars, lockVars, inputVars, groupVars, listVars, windowVars, opened>>

-----------------------------------------------------------------------------
(* What the view computes *)

\* Most recently opened first, then by slot.
sort_compare_recently_used(s, t) ==
  \/ accessed[s] > accessed[t]
  \/ accessed[s] = accessed[t] /\ s < t

\* The answer to list_entries or search_entries, sorted.
FetchedEntries(t) ==
  LET found == {s \in Matches[t] : entryGroup[s] # Absent}
      order == InOrder(found, sort_compare_recently_used)
  IN [r \in DOMAIN order |-> [slot |-> order[r], group |-> entryGroup[order[r]]]]

\* The positions of the entries that pass the group filter.
FilteredIndices(list, g) ==
  IF list = NULL THEN <<>>
  ELSE InOrder({i \in DOMAIN list : g = All \/ list[i].group = g}, Smaller)

\* The chips of the group bar, which is hidden when no group is active.
Chips(snapshot) ==
  IF ActiveIn(snapshot) = {} THEN {} ELSE ActiveIn(snapshot) \cup {All}

HasGroups(snapshot) ==
  snapshot # NULL /\ \E g \in DOMAIN snapshot : snapshot[g] # "absent"

\* The loops of the Tab keys run over the active groups in their order.
cycle_group_forward(snapshot, g) ==
  LET order == InOrder(ActiveIn(snapshot), Smaller)
      next  == {p \in DOMAIN order :
                  IF g = All THEN p = 1 ELSE p > 1 /\ order[p - 1] = g}
  IN IF next = {} THEN All ELSE order[CHOOSE p \in next : TRUE]

\* Mutated: the group itself counts as passed.
CycleBackwardStuck(snapshot, g) ==
  LET order  == InOrder(ActiveIn(snapshot), Smaller)
      before == {p \in 0 .. Len(order) : \A k \in 1 .. p - 1 : order[k] # g}
      last   == CHOOSE p \in before : \A k \in before : k <= p
  IN IF last = 0 THEN All ELSE order[last]

cycle_group_backward(snapshot, g) ==
  LET order  == InOrder(ActiveIn(snapshot), Smaller)
      before == {p \in 0 .. Len(order) : \A k \in 1 .. p : order[k] # g}
      last   == CHOOSE p \in before : \A k \in before : k <= p
  IN IF last = 0 THEN All ELSE order[last]

\* A group's colour shows on its entries when no group is chosen.
group_color_for_index(snapshot, filter, g) ==
  IF filter = All /\ snapshot # NULL /\ g \in DOMAIN snapshot \cap Colored
    THEN IF snapshot[g] = "absent" THEN None ELSE g
  ELSE None

label_char_for_index(v) == IF v < LABEL_CHARS_LEN THEN v ELSE -1

EntryRow(list, i, v, color) ==
  [kind |-> "entry", index |-> i, label |-> label_char_for_index(v), color |-> color]
PlainRow(kind) == [kind |-> kind, index |-> 0, label |-> -1, color |-> None]

\* rebuild_visible_list: the rows for a list, a window and a group filter.
WindowEnd(found, offset) ==
  IF offset + MAX_VISIBLE_ENTRIES > Len(found) THEN Len(found)
  ELSE offset + MAX_VISIBLE_ENTRIES

VisibleRows(list, found, offset, snapshot, filter, open) ==
  LET end == WindowEnd(found, offset)
  IN IF found = <<>>
       THEN <<PlainRow(IF list # NULL /\ open THEN "no_results" ELSE "no_entries")>>
     ELSE (IF offset > 0 THEN <<PlainRow("more")>> ELSE <<>>)
          \o [v \in 1 .. end - offset |->
                EntryRow(list, found[offset + v], v - 1,
                         group_color_for_index(snapshot, filter,
                                               list[found[offset + v]].group))]
          \o (IF end < Len(found) THEN <<PlainRow("more")>> ELSE <<>>)

\* Mutated: the "more" row above the window is not counted.
SelectedRowUnshifted(found, offset, sel) ==
  IF found = <<>> THEN 0 ELSE sel - offset + 1

SelectedRow(found, offset, sel) ==
  IF found = <<>> THEN 0
  ELSE sel - offset + 1 + (IF offset > 0 THEN 1 ELSE 0)

\* The row a label key stands for.
RowForLabel(l) == l + 1 + (IF visible_offset > 0 THEN 1 ELSE 0)

-----------------------------------------------------------------------------
(* Steps shared by the handlers *)

rebuild_visible_list(list, found, offset, sel, snapshot, filter, open) ==
  /\ rows' = VisibleRows(list, found, offset, snapshot, filter, open)
  /\ selected_row' = SelectedRow(found, offset, sel)

\* A call of the vault process answers, is refused because the vault is
\* locked, or fails on the way.
Answers == IF srvLocked THEN {"locked", "failed"} ELSE {"ok", "failed"}

refresh_entries(t, snapshot, filter, open, refused) ==
  \E answer \in Answers :
    LET list   == IF answer = "ok" THEN FetchedEntries(t) ELSE NULL
        found  == FilteredIndices(list, filter)
        locked == clientLocked \/ refused \/ answer = "locked"
    IN /\ entries' = list
       /\ filtered' = found
       /\ visible_offset' = 0
       /\ selected_filtered' = 0
       /\ rebuild_visible_list(list, found, 0, 0, snapshot, filter, open)
       /\ clientLocked' = locked
       /\ trayLocked' = (trayLocked \/ (answer # "ok" /\ locked))
       /\ listed' = t

\* Mutated: the filter outlives the group bar.
RebuildKeepingFilter(g, t, open) ==
  \E answer \in Answers :
    LET snapshot == IF answer = "ok" THEN groupState ELSE NULL
    IN /\ groups' = snapshot
       /\ active_group' = g
       /\ refresh_entries(t, snapshot, g, open, answer = "locked")

\* rebuild_group_bar with the group that is to be active, then
\* refresh_entries, which the handlers call one after the other.
RebuildAndRefresh(g, t, open) ==
  \E answer \in Answers :
    LET snapshot == IF answer = "ok" THEN groupState ELSE NULL
        filter   == IF Chips(snapshot) = {} THEN All ELSE g
    IN /\ groups' = snapshot
       /\ active_group' = filter
       /\ refresh_entries(t, snapshot, filter, open, answer = "locked")

activate_entry_at_index(r) ==
  /\ r \in DOMAIN rows
  /\ rows[r].kind = "entry"
  /\ opened' = entries[rows[r].index].slot
  /\ mapped' = FALSE
  /\ UNCHANGED <<vaultVars, lockVars, revealed, text, delayed, groupVars,
                 listVars, visible_offset, selected_filtered, rows>>

-----------------------------------------------------------------------------
(* The handlers *)

Init ==
  /\ entryGroup = InitialGroup
  /\ groupState = [g \in Groups |-> IF g \in InitialGroups THEN "active" ELSE "absent"]
  /\ accessed = [s \in Slots |-> 0]
  /\ srvLocked = FALSE
  /\ changes = 0
  /\ clientLocked = FALSE
  /\ trayLocked = FALSE
  /\ mapped = FALSE
  /\ revealed = FALSE
  /\ text = NoText
  /\ delayed = FALSE
  /\ groups = NULL
  /\ active_group = All
  /\ entries = NULL
  /\ filtered = <<>>
  /\ visible_offset = 0
  /\ selected_filtered = 0
  /\ rows = <<>>
  /\ selected_row = 0
  /\ opened = NULL
  /\ listed = NoText

\* The popup turns to the search page.
on_view_map ==
  /\ ~mapped
  /\ mapped' = TRUE
  /\ revealed' = FALSE
  /\ text' = NoText
  /\ delayed' = FALSE
  /\ opened' = NULL
  /\ RebuildAndRefresh(active_group, NoText, FALSE)
  /\ UNCHANGED vaultVars

\* Escape with the search closed, or the popup's own toggle.
Hide ==
  /\ mapped
  /\ mapped' = FALSE
  /\ UNCHANGED <<vaultVars, lockVars, revealed, text, delayed, groupVars,
                 listVars, windowVars, opened>>

\* A printable key: the search opens and the key is inserted.
TypeCharacter(t) ==
  /\ mapped
  /\ t # NoText /\ t # text
  /\ text' = t
  /\ revealed' = TRUE
  /\ delayed' = TRUE
  /\ UNCHANGED <<vaultVars, lockVars, mapped, groupVars, listVars, windowVars, opened>>

\* The search entry edits its own text.  An emptied text is announced at
\* once and closes the search.
DeleteText ==
  /\ mapped /\ revealed /\ text # NoText
  /\ text' = NoText
  /\ delayed' = FALSE
  /\ revealed' = FALSE
  /\ refresh_entries(NoText, groups, active_group, FALSE, FALSE)
  /\ UNCHANGED <<vaultVars, mapped, groupVars, opened>>

\* Mutated: a text announced after the view was hidden is dropped.
OnSearchChangedIfMapped ==
  /\ delayed
  /\ delayed' = FALSE
  /\ IF mapped THEN refresh_entries(text, groups, active_group, revealed, FALSE)
     ELSE UNCHANGED <<lockVars, listVars, windowVars>>
  /\ UNCHANGED <<vaultVars, mapped, revealed, text, groupVars, opened>>

\* "search-changed" for a text that is not empty.
on_search_changed ==
  /\ delayed
  /\ delayed' = FALSE
  /\ refresh_entries(text, groups, active_group, revealed, FALSE)
  /\ UNCHANGED <<vaultVars, mapped, revealed, text, groupVars, opened>>

\* Mutated: the search entry is hidden with its text.
CloseSearchKeepingText ==
  /\ mapped /\ revealed
  /\ revealed' = FALSE
  /\ refresh_entries(text, groups, active_group, FALSE, FALSE)
  /\ UNCHANGED <<vaultVars, mapped, text, delayed, groupVars, opened>>

\* Escape with the search open, or BackSpace in an empty one.
close_search ==
  /\ mapped /\ revealed
  /\ text' = NoText
  /\ delayed' = FALSE
  /\ revealed' = FALSE
  /\ refresh_entries(NoText, groups, active_group, FALSE, FALSE)
  /\ UNCHANGED <<vaultVars, mapped, groupVars, opened>>

on_group_chip_clicked(g) ==
  /\ mapped
  /\ g \in Chips(groups)
  /\ RebuildAndRefresh(g, text, revealed)
  /\ UNCHANGED <<vaultVars, inputVars, opened>>

\* The Tab keys do nothing when there is no group, deleted ones included.
TabForward ==
  /\ mapped
  /\ HasGroups(groups)
  /\ RebuildAndRefresh(cycle_group_forward(groups, active_group), text, revealed)
  /\ UNCHANGED <<vaultVars, inputVars, opened>>

TabBackward ==
  /\ mapped
  /\ HasGroups(groups)
  /\ RebuildAndRefresh(cycle_group_backward(groups, active_group), text, revealed)
  /\ UNCHANGED <<vaultVars, inputVars, opened>>

\* Mutated: the window follows one row late.
FollowedOffsetLate(sel) ==
  IF sel < visible_offset THEN sel
  ELSE IF sel > visible_offset + MAX_VISIBLE_ENTRIES
    THEN sel - MAX_VISIBLE_ENTRIES + 1
  ELSE visible_offset

\* The window follows the selection.
FollowedOffset(sel) ==
  IF sel < visible_offset THEN sel
  ELSE IF sel >= visible_offset + MAX_VISIBLE_ENTRIES
    THEN sel - MAX_VISIBLE_ENTRIES + 1
  ELSE visible_offset

MoveSelection(sel) ==
  /\ selected_filtered' = sel
  /\ visible_offset' = FollowedOffset(sel)
  /\ rebuild_visible_list(entries, filtered, FollowedOffset(sel), sel,
                          groups, active_group, revealed)
  /\ UNCHANGED <<vaultVars, lockVars, inputVars, groupVars, listVars, opened>>

\* Up and Down stop at the ends.
UpOrDown(step) ==
  /\ mapped
  /\ selected_filtered + step \in 0 .. Len(filtered) - 1
  /\ MoveSelection(selected_filtered + step)

\* Mutated: an empty list is scrolled, too.
ScrollEmptyList(step) ==
  /\ mapped
  /\ LET next == selected_filtered + step
     IN MoveSelection(IF next < 0 THEN 0
                      ELSE IF next >= Len(filtered) THEN Len(filtered) - 1
                      ELSE next)

\* The wheel moves by two and is clamped to the ends.
on_entry_scroll(step) ==
  /\ mapped
  /\ filtered # <<>>
  /\ LET next == selected_filtered + step
     IN MoveSelection(IF next < 0 THEN 0
                      ELSE IF next >= Len(filtered) THEN Len(filtered) - 1
                      ELSE next)

\* Control with a label key.
OpenByLabel(l) ==
  /\ mapped
  /\ activate_entry_at_index(RowForLabel(l))
  /\ UNCHANGED selected_row

ReturnKey ==
  /\ mapped
  /\ activate_entry_at_index(selected_row)
  /\ UNCHANGED selected_row

on_row_activated(r) ==
  /\ mapped
  /\ activate_entry_at_index(r)
  /\ selected_row' = r

-----------------------------------------------------------------------------
(* The environment *)

\* Opening an entry also fetches it, when the main loop is idle, for the
\* vault to stamp it.  The answer is dropped, a refusal is not reported.
touch_entry_idle ==
  /\ opened # NULL
  /\ changes < MaxChange
  /\ changes' = changes + 1
  /\ accessed' = IF srvLocked THEN accessed ELSE [accessed EXCEPT ![opened] = changes + 1]
  /\ clientLocked' = (clientLocked \/ srvLocked)
  /\ UNCHANGED <<entryGroup, groupState, srvLocked, trayLocked, inputVars,
                 groupVars, listVars, windowVars, opened>>

VaultChanges ==
  /\ changes < MaxChange
  /\ changes' = changes + 1
  /\ UNCHANGED <<accessed, lockVars, inputVars, groupVars, listVars, windowVars, opened>>

EntryChanges(s, g) ==
  /\ VaultChanges
  /\ g \in {None, Absent} \cup ActiveIn(groupState)
  /\ entryGroup[s] # g
  /\ entryGroup' = [entryGroup EXCEPT ![s] = g]
  /\ UNCHANGED <<groupState, srvLocked>>

\* A group is added, or deleted with or without its entries.
GroupChanges(g) ==
  /\ VaultChanges
  /\ groupState[g] # "deleted"
  /\ groupState' = [groupState EXCEPT ![g] = IF @ = "absent" THEN "active" ELSE "deleted"]
  /\ \/ UNCHANGED entryGroup
     \/ entryGroup' = [s \in Slots |-> IF entryGroup[s] = g THEN Absent ELSE entryGroup[s]]
  /\ UNCHANGED srvLocked

VaultLocks ==
  /\ VaultChanges
  /\ ~srvLocked
  /\ srvLocked' = TRUE
  /\ UNCHANGED <<entryGroup, groupState>>

\* The unlock view, which the popup shows instead of this one.
Unlock ==
  /\ ~mapped
  /\ clientLocked
  /\ srvLocked' = FALSE
  /\ clientLocked' = FALSE
  /\ trayLocked' = FALSE
  /\ UNCHANGED <<entryGroup, groupState, accessed, changes, inputVars,
                 groupVars, listVars, windowVars, opened>>

Keys ==
  \/ \E t \in Texts : TypeCharacter(t)
  \/ DeleteText
  \/ close_search
  \/ TabForward
  \/ TabBackward
  \/ \E step \in {-1, 1} : UpOrDown(step)
  \/ \E l \in 0 .. LABEL_CHARS_LEN - 1 : OpenByLabel(l)
  \/ ReturnKey

Pointer ==
  \/ \E g \in Groups \cup {All} : on_group_chip_clicked(g)
  \/ \E step \in {-2, 2} : on_entry_scroll(step)
  \/ \E r \in DOMAIN rows : on_row_activated(r)

Environment ==
  \/ touch_entry_idle
  \/ \E s \in Slots, g \in Groups \cup {None, Absent} : EntryChanges(s, g)
  \/ \E g \in Groups : GroupChanges(g)
  \/ VaultLocks
  \/ Unlock

Next ==
  \/ on_view_map
  \/ Hide
  \/ on_search_changed
  \/ Keys
  \/ Pointer
  \/ Environment

\* The delay of the search entry is a timer of the main loop.
Spec == Init /\ [][Next]_vars /\ WF_vars(on_search_changed)

-----------------------------------------------------------------------------
(* Properties *)

Entry == [slot : Slots, group : Groups \cup {None}]
RowKinds == {"entry", "more", "no_results", "no_entries"}

(* Every variable has its type.                                            *)
TypeOK ==
  /\ entryGroup \in [Slots -> Groups \cup {None, Absent}]
  /\ groupState \in [Groups -> GroupStates]
  /\ accessed \in [Slots -> Nat]
  /\ changes \in 0 .. MaxChange
  /\ {srvLocked, clientLocked, trayLocked, mapped, revealed, delayed} \subseteq BOOLEAN
  /\ {text, listed} \subseteq Texts
  /\ groups = NULL \/ groups \in [Groups -> GroupStates]
  /\ active_group \in Groups \cup {All}
  /\ entries = NULL \/ entries \in Seq(Entry)
  /\ filtered \in Seq(Nat)
  /\ visible_offset \in Nat /\ selected_filtered \in Nat
  /\ \A r \in DOMAIN rows : rows[r].kind \in RowKinds
  /\ selected_row \in Nat
  /\ opened \in Slots \cup {NULL}

(* The selection is an entry of the list and lies inside the window, and   *)
(* the window starts no later than its last full position, whatever        *)
(* sequence of keys, wheel steps and new lists led there.                  *)
WindowSound ==
  /\ \/ selected_filtered < Len(filtered)
     \/ filtered = <<>> /\ selected_filtered = 0
  /\ visible_offset <= selected_filtered
  /\ selected_filtered < visible_offset + MAX_VISIBLE_ENTRIES
  /\ visible_offset > 0 => visible_offset + MAX_VISIBLE_ENTRIES <= Len(filtered)

(* A key opens what the screen says it opens: a label key the row that     *)
(* shows the label, or nothing when no row shows it, and Return the entry  *)
(* at the selection, though scrolling inserts a row above the window and   *)
(* the entries behind the rows are filtered and sorted.                    *)
KeysOpenWhatTheyShow ==
  mapped =>
    /\ \A l \in 0 .. LABEL_CHARS_LEN - 1, r \in DOMAIN rows :
         rows[r].kind = "entry" => (rows[r].label = l <=> r = RowForLabel(l))
    /\ filtered # <<>> =>
         /\ selected_row \in DOMAIN rows
         /\ rows[selected_row].kind = "entry"
         /\ rows[selected_row].index = filtered[selected_filtered + 1]
    /\ filtered = <<>> => \A r \in DOMAIN rows : rows[r].kind # "entry"

(* The list on screen is the one for the text in the search entry, unless  *)
(* its announcement is still to come, and no text filters the list while   *)
(* the search entry is hidden.                                             *)
SearchHonest ==
  /\ ~delayed => listed = text
  /\ ~revealed => listed = NoText /\ text = NoText /\ ~delayed

(* When the group bar is hidden, because the groups could not be fetched   *)
(* or the last one was deleted, the list is not filtered by a group.       *)
HiddenBarFiltersNothing == Chips(groups) = {} => active_group = All

(* Tab and Shift-Tab undo each other on the chips, so that Tab goes round  *)
(* all of them, whatever deleted groups lie between; from a group that has *)
(* lost its chip both lead to a chip.                                      *)
TabGoesRound ==
  groups # NULL =>
    /\ \A g \in Chips(groups) :
         /\ cycle_group_backward(groups, cycle_group_forward(groups, g)) = g
         /\ cycle_group_forward(groups, cycle_group_backward(groups, g)) = g
    /\ Chips(groups) # {} =>
         {cycle_group_forward(groups, active_group),
          cycle_group_backward(groups, active_group)} \subseteq Chips(groups)

(* A text that stays in the search entry is searched for at last.          *)
TypedTextIsSearched ==
  \A t \in Texts : text = t ~> (listed = t \/ text # t)
=============================================================================
