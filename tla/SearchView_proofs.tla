------------------------- MODULE SearchView_proofs -------------------------
(***************************************************************************)
(* Proofs about the search view, for every size of the window, number of   *)
(* label keys, set of entries, groups and texts.                           *)
(***************************************************************************)
EXTENDS SearchView, ListOrder_proofs

\* Expanded everywhere: the groups of variables in UNCHANGED.
USE DEF vaultVars, lockVars, inputVars, groupVars, windowVars, listVars

-----------------------------------------------------------------------------
(* Lists *)

(* The fetched entries are a list, each of them in the vault, and of the   *)
(* entries that match each is there.                                       *)
LEMMA FetchedIsList ==
  ASSUME NEW t \in Texts, accessed \in [Slots -> Nat],
         entryGroup \in [Slots -> Groups \cup {None, Absent}]
  PROVE  FetchedEntries(t) \in Seq(Entry)
<1> DEFINE found == {s \in Matches[t] : entryGroup[s] # Absent}
           R == {p \in found \X found : sort_compare_recently_used(p[1], p[2])}
           order == InOrder(found, sort_compare_recently_used)
<1>1. found \in SUBSET Slots /\ IsFiniteSet(Slots) /\ Slots \subseteq Nat
  BY SearchAssumption
<1>2. \A s \in found : entryGroup[s] \in Groups \cup {None}
  BY <1>1
<1>3. \A s \in found : s \in Nat /\ accessed[s] \in Nat
  BY <1>1
<1>4. FetchedEntries(t) = [r \in DOMAIN order |-> [slot |-> order[r], group |-> entryGroup[order[r]]]]
  BY DEF FetchedEntries
<1> HIDE DEF found
<1>5. \A s, u \in found : <<s, u>> \in R <=> sort_compare_recently_used(s, u)
  OBVIOUS
<1>6. StrictOrder(R, found)
  <2> HIDE DEF R
  <2> QED BY <1>3, <1>5 DEF StrictOrder, sort_compare_recently_used
<1> HIDE DEF R
<1>7. IsFiniteSet(found)
  BY <1>1, FS_Subset
<1>8. order = Ordered(R, found)
  <2>1. ASSUME NEW x \in found
        PROVE  {y \in found : sort_compare_recently_used(y, x)} = Below(R, found, x)
    BY <1>5 DEF Below
  <2> DEFINE a(r) == CHOOSE x \in found :
                       Cardinality({y \in found : sort_compare_recently_used(y, x)}) = r - 1
             b(r) == CHOOSE x \in found : Rank(R, found, x) = r - 1
  <2>2. ASSUME NEW r \in 1 .. Cardinality(found)
        PROVE  a(r) = b(r)
    <3>1. \A x \in found : Cardinality({y \in found : sort_compare_recently_used(y, x)}) = r - 1
                            <=> Rank(R, found, x) = r - 1
      BY <2>1 DEF Rank
    <3> QED BY <3>1
  <2>3. /\ order = [r \in 1 .. Cardinality(found) |-> a(r)]
        /\ Ordered(R, found) = [r \in 1 .. Cardinality(found) |-> b(r)]
    BY DEF InOrder, Ordered
  <2> HIDE DEF a, b, order
  <2> QED BY <2>2, <2>3
<1> HIDE DEF order
<1>9. order \in Seq(found)
  BY <1>6, <1>7, <1>8, OrderedEnumerates DEF Enumerates
<1>10. /\ Len(order) \in Nat /\ DOMAIN order = 1 .. Len(order)
       /\ \A r \in 1 .. Len(order) : order[r] \in found
  BY <1>9, LenProperties, ElementOfSeq
<1>11. \A r \in DOMAIN order : [slot |-> order[r], group |-> entryGroup[order[r]]] \in Entry
  BY <1>1, <1>2, <1>10 DEF Entry
<1> QED BY <1>4, <1>10, <1>11

(* What passes the filter is a list of positions, after a failed fetch an  *)
(* empty one.                                                              *)
LEMMA FilteredIsList ==
  ASSUME NEW list, NEW g, list = NULL \/ list \in Seq(Entry)
  PROVE  /\ list = NULL => FilteredIndices(list, g) = <<>>
         /\ list # NULL => FilteredIndices(list, g) \in Seq(DOMAIN list)
         /\ FilteredIndices(list, g) \in Seq(Nat)
<1>1. CASE list = NULL
  <2>1. FilteredIndices(list, g) = <<>>
    BY <1>1 DEF FilteredIndices
  <2> QED BY <1>1, <2>1, EmptySeq
<1>2. CASE list # NULL
  <2> DEFINE passed == {i \in DOMAIN list : g = All \/ list[i].group = g}
             f == FilteredIndices(list, g)
  <2>1. DOMAIN list = 1 .. Len(list) /\ Len(list) \in Nat
    BY <1>2, LenProperties
  <2>2. IsFiniteSet(passed) /\ passed \subseteq DOMAIN list /\ passed \subseteq Nat
    <3>1. IsFiniteSet(DOMAIN list) /\ passed \in SUBSET DOMAIN list
      BY <2>1, FS_Interval
    <3> HIDE DEF passed
    <3> QED BY <2>1, <3>1, FS_Subset
  <2>3. f = InOrder(passed, Smaller)
    BY <1>2 DEF FilteredIndices
  <2> HIDE DEF passed, f
  <2>4. f \in Seq(passed)
    BY <2>2, <2>3, SmallerEnumerates
  <2>5. f \in Seq(DOMAIN list) /\ f \in Seq(Nat)
    BY <2>2, <2>4, SeqMonotonic
  <2> QED BY <1>2, <2>5 DEF f
<1> QED BY <1>1, <1>2

-----------------------------------------------------------------------------
(* What the handlers do to the list and the window *)

(* A list, and the positions in it that pass the filter.                   *)
FilteredList(list, found) ==
  /\ list = NULL \/ list \in Seq(Entry)
  /\ list = NULL => found = <<>>
  /\ list # NULL => found \in Seq(DOMAIN list)
  /\ found \in Seq(Nat) /\ IsList(found)

(* What the calls answer from.                                             *)
VaultTyped ==
  /\ entryGroup \in [Slots -> Groups \cup {None, Absent}]
  /\ groupState \in [Groups -> GroupStates]
  /\ accessed \in [Slots -> Nat]
  /\ changes \in 0 .. MaxChange

(* The vault, the inputs, and a window over a list.                        *)
Listing ==
  /\ VaultTyped
  /\ text \in Texts /\ revealed \in BOOLEAN
  /\ FilteredList(entries, filtered)
  /\ visible_offset \in Nat /\ selected_filtered \in Nat

(* While the view is on screen its rows are those of the window, drawn     *)
(* with the search open or not.                                            *)
OnScreen ==
  mapped =>
    /\ \E open \in BOOLEAN :
         rows = VisibleRows(entries, filtered, visible_offset, groups, active_group, open)
    /\ selected_row = SelectedRow(filtered, visible_offset, selected_filtered)

(* A new list, with the window at its start; ...                           *)
Refreshed ==
  /\ FilteredList(entries', filtered')
  /\ visible_offset' = 0 /\ selected_filtered' = 0
  /\ \E open \in BOOLEAN :
       rows' = VisibleRows(entries', filtered', 0, groups', active_group', open)
  /\ selected_row' = SelectedRow(filtered', 0, 0)

(* ... a step inside the list; ...                                         *)
Moved ==
  /\ \E sel \in Nat : sel < Len(filtered) /\ MoveSelection(sel)
  /\ UNCHANGED <<mapped, groupVars, listVars>>

(* ... or neither.                                                         *)
Kept ==
  /\ UNCHANGED <<groupVars, listVars, visible_offset, selected_filtered, rows>>
  /\ mapped' => mapped /\ UNCHANGED selected_row
  /\ selected_row' # selected_row => selected_row' \in DOMAIN rows

(* A fetch leaves a new list, with the window at its start.                *)
LEMMA RefreshRefreshes ==
  ASSUME Listing, NEW t \in Texts, NEW open \in BOOLEAN, NEW refused \in BOOLEAN,
         refresh_entries(t, groups', active_group', open, refused)
  PROVE  Refreshed /\ listed' = t
<1>1. PICK answer \in Answers :
        LET list   == IF answer = "ok" THEN FetchedEntries(t) ELSE NULL
            found  == FilteredIndices(list, active_group')
        IN /\ entries' = list
           /\ filtered' = found
           /\ visible_offset' = 0
           /\ selected_filtered' = 0
           /\ rebuild_visible_list(list, found, 0, 0, groups', active_group', open)
           /\ listed' = t
  BY DEF refresh_entries
<1> DEFINE list == IF answer = "ok" THEN FetchedEntries(t) ELSE NULL
<1>2. list = NULL \/ list \in Seq(Entry)
  BY FetchedIsList DEF Listing, VaultTyped
<1>3. /\ entries' = list /\ filtered' = FilteredIndices(list, active_group')
      /\ visible_offset' = 0 /\ selected_filtered' = 0 /\ listed' = t
      /\ rebuild_visible_list(entries', filtered', 0, 0, groups', active_group', open)
  BY <1>1
<1> HIDE DEF list
<1>4. FilteredList(entries', filtered')
  BY <1>2, <1>3, FilteredIsList, SeqIsList DEF FilteredList
<1> QED BY <1>3, <1>4 DEF Refreshed, rebuild_visible_list

(* So does one after the groups, and without chips no group filters it.    *)
LEMMA RebuildRefreshes ==
  ASSUME Listing, NEW g, NEW t \in Texts, NEW open \in BOOLEAN,
         RebuildAndRefresh(g, t, open)
  PROVE  /\ Refreshed /\ listed' = t
         /\ Chips(groups') = {} => active_group' = All
<1>1. PICK answer \in Answers :
        LET snapshot == IF answer = "ok" THEN groupState ELSE NULL
            filter   == IF Chips(snapshot) = {} THEN All ELSE g
        IN /\ groups' = snapshot
           /\ active_group' = filter
           /\ refresh_entries(t, snapshot, filter, open, answer = "locked")
  BY DEF RebuildAndRefresh
<1>2. refresh_entries(t, groups', active_group', open, answer = "locked")
  BY <1>1
<1>3. Chips(groups') = {} => active_group' = All
  BY <1>1
<1> DEFINE refused == answer = "locked"
<1>4. refused \in BOOLEAN /\ refresh_entries(t, groups', active_group', open, refused)
  BY <1>2
<1> HIDE DEF refused
<1> QED BY <1>3, <1>4, RefreshRefreshes

(* Without fetching the groups anew.                                       *)
LEMMA OwnGroupsRefresh ==
  ASSUME Listing, NEW t \in Texts, NEW open \in BOOLEAN, UNCHANGED groupVars,
         refresh_entries(t, groups, active_group, open, FALSE)
  PROVE  Refreshed /\ listed' = t
<1>1. refresh_entries(t, groups', active_group', open, FALSE)
  OBVIOUS
<1> QED BY <1>1, RefreshRefreshes

(* Wherever the wheel or a key wants the selection, it stays in the list.  *)
LEMMA StepsMove ==
  ASSUME Listing, NEW step \in Int, UpOrDown(step) \/ on_entry_scroll(step)
  PROVE  Moved
<1>1. Len(filtered) \in Nat /\ (filtered = <<>> <=> Len(filtered) = 0)
  BY ListLength DEF Listing, FilteredList
<1>2. CASE UpOrDown(step)
  BY <1>1, <1>2 DEF UpOrDown, MoveSelection, Moved, Listing
<1>3. CASE on_entry_scroll(step)
  <2> DEFINE next == selected_filtered + step
             sel  == IF next < 0 THEN 0
                     ELSE IF next >= Len(filtered) THEN Len(filtered) - 1 ELSE next
  <2>1. sel \in Nat /\ sel < Len(filtered)
    BY <1>1, <1>3 DEF on_entry_scroll, Listing
  <2>2. MoveSelection(sel)
    BY <1>3 DEF on_entry_scroll
  <2> HIDE DEF sel
  <2> QED BY <2>1, <2>2 DEF MoveSelection, Moved
<1> QED BY <1>2, <1>3

(* The three kinds of steps.                                               *)
LEMMA StepKinds == ASSUME Listing, [Next]_vars PROVE Refreshed \/ Moved \/ Kept
<1>1. CASE on_view_map
  BY <1>1, RebuildRefreshes, SearchAssumption DEF on_view_map
<1>2. CASE Hide
  BY <1>2 DEF Hide, Kept
<1>3. CASE on_search_changed
  BY <1>3, OwnGroupsRefresh DEF on_search_changed, Listing
<1>4. CASE Keys
  <2>1. CASE \E t \in Texts : TypeCharacter(t)
    BY <2>1 DEF TypeCharacter, Kept
  <2>2. CASE DeleteText \/ close_search
    BY <2>2, OwnGroupsRefresh, SearchAssumption DEF DeleteText, close_search
  <2>3. CASE TabForward \/ TabBackward
    BY <2>3, RebuildRefreshes DEF TabForward, TabBackward, Listing
  <2>4. CASE \E step \in {-1, 1} : UpOrDown(step)
    BY <2>4, StepsMove
  <2>5. CASE ReturnKey \/ \E l \in 0 .. LABEL_CHARS_LEN - 1 : OpenByLabel(l)
    BY <2>5 DEF ReturnKey, OpenByLabel, activate_entry_at_index, Kept
  <2> QED BY <1>4, <2>1, <2>2, <2>3, <2>4, <2>5 DEF Keys
<1>5. CASE Pointer
  <2>1. CASE \E g \in Groups \cup {All} : on_group_chip_clicked(g)
    BY <2>1, RebuildRefreshes DEF on_group_chip_clicked, Listing
  <2>2. CASE \E step \in {-2, 2} : on_entry_scroll(step)
    BY <2>2, StepsMove
  <2>3. CASE \E r \in DOMAIN rows : on_row_activated(r)
    BY <2>3 DEF on_row_activated, activate_entry_at_index, Kept
  <2> QED BY <1>5, <2>1, <2>2, <2>3 DEF Pointer
<1>6. CASE Environment
  BY <1>6 DEF Environment, touch_entry_idle, EntryChanges, GroupChanges, VaultLocks,
              VaultChanges, Unlock, Kept
<1>7. CASE UNCHANGED vars
  BY <1>7 DEF vars, Kept
<1> QED BY <1>1, <1>2, <1>3, <1>4, <1>5, <1>6, <1>7 DEF Next

-----------------------------------------------------------------------------
(* The window *)

ViewInv == Listing /\ WindowSound /\ OnScreen

(* The view starts empty.                                                  *)
LEMMA ViewInit == Init => ViewInv
<1> SUFFICES ASSUME Init PROVE ViewInv
  OBVIOUS
<1>1. FilteredList(entries, filtered) /\ filtered = <<>>
  BY EmptySeq, SeqIsList DEF Init, FilteredList
<1>2. MAX_VISIBLE_ENTRIES \in Nat \ {0} /\ NoText \in Texts
  BY SearchAssumption
<1>3. /\ text = NoText /\ revealed = FALSE /\ mapped = FALSE
      /\ visible_offset = 0 /\ selected_filtered = 0
      /\ VaultTyped
  BY SearchAssumption DEF Init, VaultTyped, GroupStates
<1>4. Listing /\ OnScreen
  BY <1>1, <1>2, <1>3 DEF Listing, OnScreen
<1>5. WindowSound
  BY <1>1, <1>2, <1>3 DEF WindowSound
<1> QED BY <1>4, <1>5 DEF ViewInv

(* The vault changes by steps of the environment only.                     *)
LEMMA VaultKept == ASSUME VaultTyped, [Next]_vars PROVE VaultTyped'
<1>1. MaxChange \in Nat
  BY SearchAssumption
<1>2. CASE UNCHANGED <<entryGroup, groupState, accessed, changes>>
  BY <1>2 DEF VaultTyped
<1>3. CASE touch_entry_idle
  <2>1. changes + 1 \in 0 .. MaxChange /\ changes + 1 \in Nat
    BY <1>1, <1>3 DEF touch_entry_idle, VaultTyped
  <2> QED BY <1>3, <2>1 DEF touch_entry_idle, VaultTyped
<1>4. CASE /\ VaultChanges
           /\ \/ \E s \in Slots, g \in Groups \cup {None, Absent} : EntryChanges(s, g)
              \/ \E g \in Groups : GroupChanges(g)
              \/ VaultLocks
  <2>1. changes' \in 0 .. MaxChange /\ UNCHANGED accessed
    BY <1>1, <1>4 DEF VaultChanges, VaultTyped
  <2>2. CASE \E s \in Slots, g \in Groups \cup {None, Absent} : EntryChanges(s, g)
    BY <2>1, <2>2 DEF EntryChanges, VaultTyped
  <2>3. CASE \E g \in Groups : GroupChanges(g)
    <3>1. PICK g \in Groups : GroupChanges(g)
      BY <2>3
    <3>2. entryGroup' \in [Slots -> Groups \cup {None, Absent}]
      BY <3>1 DEF GroupChanges, VaultTyped
    <3>3. groupState' \in [Groups -> GroupStates]
      BY <3>1 DEF GroupChanges, VaultTyped, GroupStates
    <3> QED BY <2>1, <3>2, <3>3 DEF VaultTyped
  <2>4. CASE VaultLocks
    BY <2>1, <2>4 DEF VaultLocks, VaultTyped
  <2> QED BY <1>4, <2>2, <2>3, <2>4
<1>5. \/ UNCHANGED <<entryGroup, groupState, accessed, changes>>
      \/ touch_entry_idle
      \/ /\ VaultChanges
         /\ \/ \E s \in Slots, g \in Groups \cup {None, Absent} : EntryChanges(s, g)
            \/ \E g \in Groups : GroupChanges(g)
            \/ VaultLocks
  <2>1. CASE on_view_map \/ Hide \/ on_search_changed
    BY <2>1 DEF on_view_map, Hide, on_search_changed
  <2>2. CASE Keys
    BY <2>2 DEF Keys, TypeCharacter, DeleteText, close_search, TabForward, TabBackward,
                UpOrDown, MoveSelection, OpenByLabel, ReturnKey, activate_entry_at_index
  <2>3. CASE Pointer
    BY <2>3 DEF Pointer, on_group_chip_clicked, on_entry_scroll, MoveSelection,
                on_row_activated, activate_entry_at_index
  <2>4. CASE Environment
    BY <2>4 DEF Environment, EntryChanges, GroupChanges, VaultLocks, Unlock
  <2>5. CASE UNCHANGED vars
    BY <2>5 DEF vars
  <2> QED BY <2>1, <2>2, <2>3, <2>4, <2>5 DEF Next
<1> QED BY <1>2, <1>3, <1>4, <1>5

(* The inputs stay what they are.                                          *)
LEMMA InputsTyped ==
  ASSUME Listing, [Next]_vars
  PROVE  text' \in Texts /\ revealed' \in BOOLEAN
<1>1. NoText \in Texts
  BY SearchAssumption
<1>2. CASE on_view_map \/ Hide \/ on_search_changed
  BY <1>1, <1>2 DEF on_view_map, Hide, on_search_changed, Listing
<1>3. CASE Keys
  <2>1. CASE \E t \in Texts : TypeCharacter(t)
    BY <2>1 DEF TypeCharacter, Listing
  <2>2. CASE DeleteText \/ close_search
    BY <1>1, <2>2 DEF DeleteText, close_search, Listing
  <2>3. CASE TabForward \/ TabBackward
    BY <2>3 DEF TabForward, TabBackward, Listing
  <2>4. CASE \E step \in {-1, 1} : UpOrDown(step)
    BY <2>4 DEF UpOrDown, MoveSelection, Listing
  <2>5. CASE ReturnKey \/ \E l \in 0 .. LABEL_CHARS_LEN - 1 : OpenByLabel(l)
    BY <2>5 DEF ReturnKey, OpenByLabel, activate_entry_at_index, Listing
  <2> QED BY <1>3, <2>1, <2>2, <2>3, <2>4, <2>5 DEF Keys
<1>4. CASE Pointer
  BY <1>4 DEF Pointer, on_group_chip_clicked, on_entry_scroll, MoveSelection,
              on_row_activated, activate_entry_at_index, Listing
<1>5. CASE Environment
  BY <1>5 DEF Environment, touch_entry_idle, EntryChanges, GroupChanges, VaultLocks,
              VaultChanges, Unlock, Listing
<1>6. CASE UNCHANGED vars
  BY <1>6 DEF vars, Listing
<1> QED BY <1>2, <1>3, <1>4, <1>5, <1>6 DEF Next

(* The window that follows a selection contains it and does not start past *)
(* its last full position.                                                 *)
LEMMA WindowFollows ==
  ASSUME Listing, WindowSound, NEW sel \in Nat, sel < Len(filtered)
  PROVE  LET o == FollowedOffset(sel)
         IN /\ o \in Nat
            /\ o <= sel /\ sel < o + MAX_VISIBLE_ENTRIES
            /\ o > 0 => o + MAX_VISIBLE_ENTRIES <= Len(filtered)
<1>1. MAX_VISIBLE_ENTRIES \in Nat \ {0} /\ Len(filtered) \in Nat
  BY SearchAssumption, ListLength DEF Listing, FilteredList
<1> QED BY <1>1 DEF FollowedOffset, Listing, WindowSound

(* A new list, a step inside the list and any other step keep the window.  *)
LEMMA ViewStep == ASSUME ViewInv, [Next]_vars PROVE ViewInv'
<1> USE DEF ViewInv
<1>1. VaultTyped' /\ text' \in Texts /\ revealed' \in BOOLEAN
  BY InputsTyped, VaultKept DEF Listing
<1>2. MAX_VISIBLE_ENTRIES \in Nat \ {0}
  BY SearchAssumption
<1>3. CASE Refreshed
  <2>1. Len(filtered') \in Nat /\ (filtered' = <<>> <=> Len(filtered') = 0)
    BY <1>3, ListLength DEF Refreshed, FilteredList
  <2>2. Listing'
    BY <1>1, <1>3 DEF Refreshed, Listing
  <2>3. WindowSound'
    BY <1>2, <1>3, <2>1 DEF Refreshed, WindowSound
  <2>4. OnScreen'
    BY <1>3 DEF Refreshed, OnScreen
  <2> QED BY <2>2, <2>3, <2>4
<1>4. CASE Moved
  <2>1. PICK sel \in Nat : sel < Len(filtered) /\ MoveSelection(sel)
    BY <1>4 DEF Moved
  <2> DEFINE o == FollowedOffset(sel)
  <2>2. /\ o \in Nat
        /\ o <= sel /\ sel < o + MAX_VISIBLE_ENTRIES
        /\ o > 0 => o + MAX_VISIBLE_ENTRIES <= Len(filtered)
    BY <2>1, WindowFollows
  <2>3. /\ selected_filtered' = sel /\ visible_offset' = o
        /\ rows' = VisibleRows(entries, filtered, o, groups, active_group, revealed)
        /\ selected_row' = SelectedRow(filtered, o, sel)
        /\ UNCHANGED <<mapped, groupVars, listVars>>
    BY <1>4, <2>1 DEF MoveSelection, rebuild_visible_list, Moved
  <2> HIDE DEF o
  <2>4. Listing'
    BY <1>1, <2>2, <2>3 DEF Listing
  <2>5. WindowSound'
    BY <2>1, <2>2, <2>3 DEF WindowSound
  <2>6. OnScreen'
    BY <2>3 DEF OnScreen, Listing
  <2> QED BY <2>4, <2>5, <2>6
<1>5. CASE Kept
  BY <1>1, <1>5 DEF Kept, Listing, WindowSound, OnScreen
<1> QED BY <1>3, <1>4, <1>5, StepKinds

(* The window, its list and its rows stay together in every behaviour.     *)
THEOREM ViewInvariance == Spec => []ViewInv
<1> QED BY ViewInit, ViewStep, PTL DEF Spec

(* The selection lies in the list and in the window, and the window in the *)
(* list, after any sequence of keys, wheel steps and new lists.            *)
THEOREM WindowSoundCorrect == Spec => []WindowSound
<1>1. ViewInv => WindowSound
  BY DEF ViewInv
<1> QED BY ViewInvariance, <1>1, PTL

-----------------------------------------------------------------------------
(* The rows *)

\* The rows above the window and in it.
Above(offset) == IF offset > 0 THEN 1 ELSE 0
Size(found, offset) == WindowEnd(found, offset) - offset

(* What rows show a window of a list: one entry of the list each, behind a *)
(* "more" row when the window is not at the start.                         *)
ShowsWindow(shown, found, offset) ==
  /\ DOMAIN shown \subseteq Nat
  /\ \A r \in DOMAIN shown : shown[r].kind \in RowKinds
  /\ \A r \in DOMAIN shown :
       shown[r].kind = "entry" => r - Above(offset) \in 1 .. Size(found, offset)
  /\ \A v \in 1 .. Size(found, offset) :
       LET r == v + Above(offset)
       IN /\ r \in DOMAIN shown
          /\ shown[r].kind = "entry"
          /\ shown[r].index = found[offset + v]
          /\ shown[r].label = label_char_for_index(v - 1)

(* The window holds what it has room for, or the rest of the list.         *)
LEMMA WindowSize ==
  ASSUME NEW found, IsList(found), NEW offset \in Nat, offset < Len(found)
  PROVE  LET size == Size(found, offset)
         IN /\ size \in Nat /\ size > 0
            /\ offset + MAX_VISIBLE_ENTRIES <= Len(found) => size = MAX_VISIBLE_ENTRIES
            /\ offset + MAX_VISIBLE_ENTRIES > Len(found) => size = Len(found) - offset
<1>1. Len(found) \in Nat /\ MAX_VISIBLE_ENTRIES \in Nat \ {0}
  BY ListLength, SearchAssumption
<1> QED BY <1>1 DEF WindowEnd, Size

(* The rows that are drawn show the window.                                *)
LEMMA RowsShowWindow ==
  ASSUME NEW list, NEW found, IsList(found), found # <<>>, NEW offset \in Nat,
         offset < Len(found), NEW snapshot, NEW filter, NEW open
  PROVE  ShowsWindow(VisibleRows(list, found, offset, snapshot, filter, open), found, offset)
<1> DEFINE shown == VisibleRows(list, found, offset, snapshot, filter, open)
           above == IF offset > 0 THEN 1 ELSE 0
           end   == WindowEnd(found, offset)
           size  == end - offset
           more  == PlainRow("more")
           row(v) == EntryRow(list, found[offset + v], v - 1,
                              group_color_for_index(snapshot, filter,
                                                    list[found[offset + v]].group))
           A == IF offset > 0 THEN <<more>> ELSE <<>>
           B == [v \in 1 .. size |-> row(v)]
           C == IF end < Len(found) THEN <<more>> ELSE <<>>
           S == {more} \cup {row(v) : v \in 1 .. size}
<1>1. above = Above(offset) /\ size = Size(found, offset)
  BY DEF Above, Size
<1>2. size \in Nat
  BY <1>1, WindowSize
<1>3. shown = (A \o B) \o C
  BY DEF VisibleRows
<1>4. \A v \in 1 .. size : /\ row(v).kind = "entry"
                           /\ row(v).index = found[offset + v]
                           /\ row(v).label = label_char_for_index(v - 1)
  BY DEF EntryRow
<1>5. more.kind = "more"
  BY DEF PlainRow
<1> HIDE DEF shown, more, row, size, end
<1>6. more \in S /\ \A v \in 1 .. size : row(v) \in S
  OBVIOUS
<1> HIDE DEF S
<1>7. A \in Seq(S) /\ Len(A) = above /\ \A i \in 1 .. above : A[i] = more
  <2>1. CASE offset > 0
    BY <1>6, <2>1
  <2>2. CASE ~(offset > 0)
    BY <2>2
  <2> QED BY <2>1, <2>2
<1>8. B \in Seq(S) /\ Len(B) = size /\ \A v \in 1 .. size : B[v] = row(v)
  BY <1>2, <1>6
<1>9. C \in Seq(S) /\ Len(C) \in Nat /\ \A i \in 1 .. Len(C) : C[i] = more
  <2>1. CASE end < Len(found)
    BY <1>6, <2>1
  <2>2. CASE ~(end < Len(found))
    BY <2>2
  <2> QED BY <2>1, <2>2
<1> HIDE DEF A, B, C
<1>10. above \in Nat
  OBVIOUS
<1> HIDE DEF above
<1>11. /\ A \o B \in Seq(S) /\ Len(A \o B) = above + size
       /\ \A i \in 1 .. above + size :
            (A \o B)[i] = IF i <= above THEN A[i] ELSE B[i - above]
  BY <1>7, <1>8, ConcatProperties
<1> DEFINE length == (above + size) + Len(C)
<1>12. /\ shown \in Seq(S) /\ Len(shown) = length
       /\ \A i \in 1 .. length :
            shown[i] = IF i <= above + size THEN (A \o B)[i] ELSE C[i - (above + size)]
  BY <1>3, <1>9, <1>11, ConcatProperties
<1>13. DOMAIN shown = 1 .. length
  BY <1>12, LenProperties
<1>14. \A v \in 1 .. size : v + above \in DOMAIN shown /\ shown[v + above] = row(v)
  <2> SUFFICES ASSUME NEW v \in 1 .. size
               PROVE  v + above \in DOMAIN shown /\ shown[v + above] = row(v)
    OBVIOUS
  <2> DEFINE i == v + above
  <2>1. i \in 1 .. above + size /\ ~(i <= above) /\ i - above = v
    BY <1>2, <1>10
  <2>2. i \in 1 .. length /\ i <= above + size
    BY <1>2, <1>9, <1>10, <2>1
  <2> HIDE DEF i, length
  <2>3. shown[i] = (A \o B)[i] /\ (A \o B)[i] = B[i - above]
    BY <1>11, <1>12, <2>1, <2>2
  <2>4. i \in DOMAIN shown /\ shown[i] = row(v)
    BY <1>8, <1>13, <2>1, <2>2, <2>3
  <2> QED BY <2>4 DEF i
<1>15. \A r \in DOMAIN shown : r - above \in 1 .. size \/ shown[r] = more
  <2> SUFFICES ASSUME NEW r \in DOMAIN shown, r - above \notin 1 .. size
               PROVE  shown[r] = more
    OBVIOUS
  <2>1. r \in 1 .. length /\ r \in Nat /\ r >= 1 /\ r <= length
    BY <1>2, <1>9, <1>10, <1>13
  <2>2. CASE r <= above
    <3>1. r \in 1 .. above /\ r \in 1 .. above + size /\ r <= above + size
      BY <1>2, <1>10, <2>1, <2>2
    <3> HIDE DEF length
    <3> QED BY <1>7, <1>11, <1>12, <2>1, <2>2, <3>1
  <2>3. CASE r > above + size
    <3>1. r - (above + size) \in 1 .. Len(C) /\ ~(r <= above + size)
      BY <1>2, <1>9, <1>10, <2>1, <2>3
    <3> HIDE DEF length
    <3> QED BY <1>9, <1>12, <2>1, <3>1
  <2> QED BY <1>2, <1>10, <2>1, <2>2, <2>3
<1>16. DOMAIN shown \subseteq Nat
  BY <1>2, <1>9, <1>10, <1>13
<1>17. \A r \in DOMAIN shown : shown[r].kind \in {"entry", "more"}
  <2> SUFFICES ASSUME NEW r \in DOMAIN shown, r - above \in 1 .. size
               PROVE  shown[r].kind = "entry"
    BY <1>5, <1>15
  <2> DEFINE v == r - above
  <2>1. v \in 1 .. size /\ v + above = r
    BY <1>10, <1>16
  <2> HIDE DEF v
  <2> QED BY <1>4, <1>14, <2>1
<1>18. ShowsWindow(shown, found, offset)
  BY <1>1, <1>4, <1>5, <1>14, <1>15, <1>16, <1>17 DEF ShowsWindow, RowKinds
<1> QED BY <1>18 DEF shown

(* What the keys open, from what is on screen.                             *)
LEMMA KeysFollowScreen == ASSUME ViewInv PROVE KeysOpenWhatTheyShow
<1> SUFFICES ASSUME mapped PROVE KeysOpenWhatTheyShow
  BY DEF KeysOpenWhatTheyShow
<1>1. PICK open \in BOOLEAN :
        rows = VisibleRows(entries, filtered, visible_offset, groups, active_group, open)
  BY DEF ViewInv, OnScreen
<1>2. selected_row = SelectedRow(filtered, visible_offset, selected_filtered)
  BY DEF ViewInv, OnScreen
<1>3. CASE filtered = <<>>
  <2>1. \A r \in DOMAIN rows : rows[r].kind # "entry"
    BY <1>1, <1>3 DEF VisibleRows, PlainRow
  <2> QED BY <1>3, <2>1 DEF KeysOpenWhatTheyShow
<1>4. CASE filtered # <<>>
  <2> DEFINE above == Above(visible_offset)
             size  == Size(filtered, visible_offset)
  <2>1. /\ IsList(filtered) /\ visible_offset \in Nat /\ selected_filtered \in Nat
        /\ visible_offset <= selected_filtered
        /\ selected_filtered < visible_offset + MAX_VISIBLE_ENTRIES
        /\ selected_filtered < Len(filtered)
    BY <1>4 DEF ViewInv, Listing, FilteredList, WindowSound
  <2>2. Len(filtered) \in Nat /\ MAX_VISIBLE_ENTRIES \in Nat /\ LABEL_CHARS_LEN \in Nat
    BY <2>1, ListLength, SearchAssumption
  <2>3. visible_offset < Len(filtered)
    BY <2>1, <2>2
  <2>4. /\ size \in Nat /\ size > 0
        /\ visible_offset + MAX_VISIBLE_ENTRIES <= Len(filtered) => size = MAX_VISIBLE_ENTRIES
        /\ visible_offset + MAX_VISIBLE_ENTRIES > Len(filtered)
             => size = Len(filtered) - visible_offset
    BY <2>1, <2>3, WindowSize
  <2>5. ShowsWindow(rows, filtered, visible_offset)
    BY <1>1, <1>4, <2>1, <2>3, RowsShowWindow
  <2>6. above \in Nat /\ \A l \in Nat : RowForLabel(l) = l + 1 + above
    BY DEF RowForLabel, Above
  <2> HIDE DEF above, size
  <2>7. ASSUME NEW l \in 0 .. LABEL_CHARS_LEN - 1, NEW r \in DOMAIN rows,
               rows[r].kind = "entry"
        PROVE  rows[r].label = l <=> r = RowForLabel(l)
    <3> DEFINE v == r - above
    <3>1. r \in Nat /\ v \in 1 .. size
      BY <2>5, <2>7 DEF ShowsWindow, above, size
    <3>2. size \in Nat
      BY <2>4
    <3>3. v \in Nat /\ v >= 1 /\ v + above = r
      BY <2>6, <3>1, <3>2
    <3> HIDE DEF v
    <3>4. rows[r].label = label_char_for_index(v - 1)
      BY <2>5, <3>1, <3>3 DEF ShowsWindow, above, size
    <3>5. l \in Nat /\ l < LABEL_CHARS_LEN /\ RowForLabel(l) = l + 1 + above
      BY <2>2, <2>6
    <3>6. label_char_for_index(v - 1) = l <=> v = l + 1
      BY <2>2, <3>3, <3>5 DEF label_char_for_index
    <3> QED BY <2>6, <3>3, <3>4, <3>5, <3>6
  <2>8. /\ selected_row \in DOMAIN rows
        /\ rows[selected_row].kind = "entry"
        /\ rows[selected_row].index = filtered[selected_filtered + 1]
    <3> DEFINE v == selected_filtered - visible_offset + 1
    <3>1. v \in 1 .. size /\ visible_offset + v = selected_filtered + 1
      BY <2>1, <2>2, <2>4
    <3>2. selected_row = v + above
      BY <1>2, <1>4 DEF SelectedRow, above, Above
    <3> HIDE DEF v
    <3> QED BY <2>5, <3>1, <3>2 DEF ShowsWindow, above, size
  <2> QED BY <1>4, <2>7, <2>8 DEF KeysOpenWhatTheyShow
<1> QED BY <1>3, <1>4

(* A label key opens the row that shows its label and Return the entry at  *)
(* the selection, for every size of the window and every list.             *)
THEOREM KeysOpenWhatTheyShowCorrect == Spec => []KeysOpenWhatTheyShow
<1>1. ViewInv => KeysOpenWhatTheyShow
  BY KeysFollowScreen
<1> QED BY ViewInvariance, <1>1, PTL

-----------------------------------------------------------------------------
(* The text and the group *)

(* Each handler fetches for the text it leaves, or waits for the timer.    *)
LEMMA SearchHonestStep == ASSUME ViewInv, SearchHonest, [Next]_vars PROVE SearchHonest'
<1> USE DEF SearchHonest
<1>1. Listing /\ text \in Texts /\ revealed \in BOOLEAN /\ NoText \in Texts
  BY SearchAssumption DEF ViewInv, Listing
<1>2. CASE on_view_map
  <2>1. listed' = NoText
    BY <1>1, <1>2, RebuildRefreshes DEF on_view_map
  <2> QED BY <1>2, <2>1 DEF on_view_map
<1>3. CASE Hide
  BY <1>3 DEF Hide
<1>4. CASE on_search_changed
  <2>1. listed' = text
    BY <1>1, <1>4, OwnGroupsRefresh DEF on_search_changed
  <2> QED BY <1>4, <2>1 DEF on_search_changed
<1>5. CASE Keys
  <2>1. CASE \E t \in Texts : TypeCharacter(t)
    BY <2>1 DEF TypeCharacter
  <2>2. CASE DeleteText \/ close_search
    <3>1. listed' = NoText
      BY <1>1, <2>2, OwnGroupsRefresh DEF DeleteText, close_search
    <3> QED BY <2>2, <3>1 DEF DeleteText, close_search
  <2>3. CASE TabForward \/ TabBackward
    <3>1. listed' = text
      BY <1>1, <2>3, RebuildRefreshes DEF TabForward, TabBackward
    <3> QED BY <2>3, <3>1 DEF TabForward, TabBackward
  <2>4. CASE \E step \in {-1, 1} : UpOrDown(step)
    BY <2>4 DEF UpOrDown, MoveSelection
  <2>5. CASE ReturnKey \/ \E l \in 0 .. LABEL_CHARS_LEN - 1 : OpenByLabel(l)
    BY <2>5 DEF ReturnKey, OpenByLabel, activate_entry_at_index
  <2> QED BY <1>5, <2>1, <2>2, <2>3, <2>4, <2>5 DEF Keys
<1>6. CASE Pointer
  <2>1. CASE \E g \in Groups \cup {All} : on_group_chip_clicked(g)
    <3>1. listed' = text
      BY <1>1, <2>1, RebuildRefreshes DEF on_group_chip_clicked
    <3> QED BY <2>1, <3>1 DEF on_group_chip_clicked
  <2>2. CASE \E step \in {-2, 2} : on_entry_scroll(step)
    BY <2>2 DEF on_entry_scroll, MoveSelection
  <2>3. CASE \E r \in DOMAIN rows : on_row_activated(r)
    BY <2>3 DEF on_row_activated, activate_entry_at_index
  <2> QED BY <1>6, <2>1, <2>2, <2>3 DEF Pointer
<1>7. CASE Environment
  BY <1>7 DEF Environment, touch_entry_idle, EntryChanges, GroupChanges, VaultLocks,
              VaultChanges, Unlock
<1>8. CASE UNCHANGED vars
  BY <1>8 DEF vars
<1> QED BY <1>2, <1>3, <1>4, <1>5, <1>6, <1>7, <1>8 DEF Next

(* The list is the one for the text, unless the announcement of the text   *)
(* is still to come, and no hidden text filters it.                        *)
THEOREM SearchHonestCorrect == Spec => []SearchHonest
<1>1. Init => SearchHonest
  BY DEF Init, SearchHonest
<1>2. ViewInv /\ SearchHonest /\ [Next]_vars => SearchHonest'
  BY SearchHonestStep
<1> QED BY ViewInvariance, <1>1, <1>2, PTL DEF Spec

(* The groups and the filter change together or not at all.                *)
LEMMA GroupSteps ==
  ASSUME [Next]_vars
  PROVE  \/ on_view_map \/ TabForward \/ TabBackward
         \/ \E g \in Groups \cup {All} : on_group_chip_clicked(g)
         \/ UNCHANGED groupVars
<1>1. CASE Hide \/ on_search_changed
  BY <1>1 DEF Hide, on_search_changed
<1>2. CASE Keys
  BY <1>2 DEF Keys, TypeCharacter, DeleteText, close_search, UpOrDown, MoveSelection,
              OpenByLabel, ReturnKey, activate_entry_at_index
<1>3. CASE Pointer
  BY <1>3 DEF Pointer, on_entry_scroll, MoveSelection, on_row_activated,
              activate_entry_at_index
<1>4. CASE Environment
  BY <1>4 DEF Environment, touch_entry_idle, EntryChanges, GroupChanges, VaultLocks,
              VaultChanges, Unlock
<1>5. CASE UNCHANGED vars
  BY <1>5 DEF vars
<1> QED BY <1>1, <1>2, <1>3, <1>4, <1>5 DEF Next

(* The handlers that fetch the groups drop a filter that lost its bar.     *)
LEMMA BarStep ==
  ASSUME ViewInv, HiddenBarFiltersNothing, [Next]_vars
  PROVE  HiddenBarFiltersNothing'
<1> USE DEF HiddenBarFiltersNothing
<1>1. Listing /\ text \in Texts /\ revealed \in BOOLEAN /\ NoText \in Texts
  BY SearchAssumption DEF ViewInv, Listing
<1>2. CASE on_view_map
  BY <1>1, <1>2, RebuildRefreshes DEF on_view_map
<1>3. CASE TabForward \/ TabBackward
  BY <1>1, <1>3, RebuildRefreshes DEF TabForward, TabBackward
<1>4. CASE \E g \in Groups \cup {All} : on_group_chip_clicked(g)
  BY <1>1, <1>4, RebuildRefreshes DEF on_group_chip_clicked
<1>5. CASE UNCHANGED groupVars
  BY <1>5
<1> QED BY <1>2, <1>3, <1>4, <1>5, GroupSteps

(* A hidden group bar filters nothing, however the groups were fetched,    *)
(* deleted or chosen.                                                      *)
THEOREM HiddenBarCorrect == Spec => []HiddenBarFiltersNothing
<1>1. Init => HiddenBarFiltersNothing
  BY DEF Init, HiddenBarFiltersNothing
<1>2. ViewInv /\ HiddenBarFiltersNothing /\ [Next]_vars => HiddenBarFiltersNothing'
  BY BarStep
<1> QED BY ViewInvariance, <1>1, <1>2, PTL DEF Spec

-----------------------------------------------------------------------------
(* The Tab keys *)

\* The order of the chips.
Order(snapshot) == InOrder(ActiveIn(snapshot), Smaller)

GroupList(snapshot) == snapshot = NULL \/ snapshot \in [Groups -> GroupStates]

(* The active groups in their order: each of them once.                    *)
LEMMA ActiveOrder ==
  ASSUME NEW snapshot, GroupList(snapshot)
  PROVE  LET order == Order(snapshot)
         IN /\ ActiveIn(snapshot) \subseteq Groups
            /\ Len(order) \in Nat /\ DOMAIN order = 1 .. Len(order)
            /\ \A i \in 1 .. Len(order) : order[i] \in ActiveIn(snapshot) /\ order[i] # All
            /\ \A g \in ActiveIn(snapshot) : \E i \in 1 .. Len(order) : order[i] = g
            /\ \A i, j \in 1 .. Len(order) : order[i] = order[j] => i = j
<1> DEFINE A == ActiveIn(snapshot)
           order == Order(snapshot)
<1>1. A \in SUBSET Groups
  BY DEF ActiveIn, GroupList
<1>2. IsFiniteSet(A) /\ A \subseteq Int /\ All \notin A
  <2>1. IsFiniteSet(Groups) /\ Groups \subseteq Nat
    BY SearchAssumption
  <2> HIDE DEF A
  <2>2. A \subseteq Int /\ \A g \in A : g \in Nat
    BY <1>1, <2>1
  <2>3. All \notin A
    BY <2>2 DEF All
  <2>4. IsFiniteSet(A)
    BY <1>1, <2>1, FS_Subset
  <2> QED BY <2>2, <2>3, <2>4
<1>3. order = InOrder(A, Smaller)
  BY DEF Order
<1> HIDE DEF A, order
<1>4. /\ order \in Seq(A)
      /\ \A x \in A : \E i \in 1 .. Len(order) : order[i] = x
      /\ \A i, j \in 1 .. Len(order) : i < j => order[i] < order[j]
  BY <1>2, <1>3, SmallerEnumerates
<1>5. /\ Len(order) \in Nat /\ DOMAIN order = 1 .. Len(order)
      /\ \A i \in 1 .. Len(order) : order[i] \in A
  BY <1>4, LenProperties, ElementOfSeq
<1>6. \A i, j \in 1 .. Len(order) : order[i] = order[j] => i = j
  <2> SUFFICES ASSUME NEW i \in 1 .. Len(order), NEW j \in 1 .. Len(order), i < j
               PROVE  order[i] # order[j]
    BY <1>5
  <2>1. order[i] \in Int /\ order[j] \in Int /\ order[i] < order[j]
    BY <1>2, <1>4, <1>5
  <2> QED BY <2>1
<1> QED BY <1>1, <1>2, <1>4, <1>5, <1>6 DEF A, order

(* The group after another is the next in the order; All comes before the  *)
(* first and after the last.                                               *)
LEMMA ForwardSteps ==
  ASSUME NEW snapshot, GroupList(snapshot), NEW g
  PROVE  LET order == Order(snapshot)
             n     == Len(order)
             f     == cycle_group_forward(snapshot, g)
         IN /\ g = All => f = IF n = 0 THEN All ELSE order[1]
            /\ \A i \in 1 .. n :
                 order[i] = g => f = IF i = n THEN All ELSE order[i + 1]
            /\ g # All /\ (\A i \in 1 .. n : order[i] # g) => f = All
<1> DEFINE order == Order(snapshot)
           n     == Len(order)
           next  == {p \in DOMAIN order :
                       IF g = All THEN p = 1 ELSE p > 1 /\ order[p - 1] = g}
           q     == CHOOSE p \in next : TRUE
           f     == cycle_group_forward(snapshot, g)
<1>1. /\ n \in Nat /\ DOMAIN order = 1 .. n
      /\ \A i \in 1 .. n : order[i] # All
      /\ \A i, j \in 1 .. n : order[i] = order[j] => i = j
  BY ActiveOrder
<1>2. f = IF next = {} THEN All ELSE order[q]
  BY DEF cycle_group_forward, Order
<1>3. next # {} => q \in next
  OBVIOUS
<1> HIDE DEF order, f, q
<1>4. ASSUME g = All
      PROVE  f = IF n = 0 THEN All ELSE order[1]
  <2>1. next = {p \in 1 .. n : p = 1}
    BY <1>1, <1>4
  <2>2. CASE n = 0
    BY <1>1, <1>2, <2>1, <2>2
  <2>3. CASE n # 0
    <3>1. 1 \in next /\ \A p \in next : p = 1
      BY <1>1, <2>1, <2>3
    <3> HIDE DEF next, n
    <3> QED BY <1>2, <1>3, <2>3, <3>1
  <2> QED BY <2>2, <2>3
<1>5. ASSUME g # All
      PROVE  next = {p \in 1 .. n : p > 1 /\ order[p - 1] = g}
  BY <1>1, <1>5
<1>6. ASSUME NEW i \in 1 .. n, order[i] = g
      PROVE  f = IF i = n THEN All ELSE order[i + 1]
  <2>1. g # All
    BY <1>1, <1>6
  <2>2. \A p \in next : p = i + 1 /\ p \in 1 .. n
    <3> SUFFICES ASSUME NEW p \in next PROVE p = i + 1 /\ p \in 1 .. n
      OBVIOUS
    <3>1. p \in 1 .. n /\ p - 1 \in 1 .. n /\ order[p - 1] = order[i]
      BY <1>1, <1>5, <1>6, <2>1
    <3> QED BY <1>1, <3>1
  <2>3. i # n => i + 1 \in next
    <3> HAVE i # n
    <3> DEFINE p == i + 1
    <3>1. n \in Nat
      BY <1>1
    <3> HIDE DEF n
    <3>2. p \in 1 .. n /\ p > 1 /\ p - 1 = i
      BY <3>1
    <3> HIDE DEF p
    <3>3. p \in next
      BY <1>5, <1>6, <2>1, <3>2
    <3> QED BY <3>3 DEF p
  <2>4. i = n => next = {}
    BY <1>1, <2>2
  <2> HIDE DEF next, n
  <2> QED BY <1>2, <1>3, <2>2, <2>3, <2>4
<1>7. ASSUME g # All, \A i \in 1 .. n : order[i] # g
      PROVE  f = All
  <2>1. \A p \in 1 .. n : p > 1 => p - 1 \in 1 .. n
    BY <1>1
  <2>2. next = {}
    BY <1>5, <1>7, <2>1
  <2> QED BY <1>2, <2>2
<1> QED BY <1>4, <1>6, <1>7 DEF order, f

(* The group before another is the one before it in the order; All comes   *)
(* before the first, and the last before All and what has no chip.         *)
LEMMA BackwardSteps ==
  ASSUME NEW snapshot, GroupList(snapshot), NEW g
  PROVE  LET order == Order(snapshot)
             n     == Len(order)
             b     == cycle_group_backward(snapshot, g)
         IN /\ \A i \in 1 .. n :
                 order[i] = g => b = IF i = 1 THEN All ELSE order[i - 1]
            /\ (\A i \in 1 .. n : order[i] # g) => b = IF n = 0 THEN All ELSE order[n]
<1> DEFINE order  == Order(snapshot)
           n      == Len(order)
           before == {p \in 0 .. n : \A k \in 1 .. p : order[k] # g}
           last   == CHOOSE p \in before : \A k \in before : k <= p
           b      == cycle_group_backward(snapshot, g)
<1>1. /\ n \in Nat
      /\ \A i, j \in 1 .. n : order[i] = order[j] => i = j
  BY ActiveOrder
<1>2. b = IF last = 0 THEN All ELSE order[last]
  BY DEF cycle_group_backward, Order
<1>3. ASSUME NEW m \in before, \A k \in before : k <= m
      PROVE  last = m
  <2>1. before \subseteq Int
    BY <1>1
  <2> HIDE DEF before
  <2>2. last \in before /\ \A k \in before : k <= last
    BY <1>3
  <2> HIDE DEF last
  <2>3. last <= m /\ m <= last /\ last \in Int /\ m \in Int
    BY <1>3, <2>1, <2>2
  <2> QED BY <2>3
<1> HIDE DEF order, b, last
<1>4. ASSUME NEW i \in 1 .. n, order[i] = g
      PROVE  b = IF i = 1 THEN All ELSE order[i - 1]
  <2> DEFINE m == i - 1
  <2>1. m \in 0 .. n /\ m \in Nat /\ m + 1 = i
    BY <1>1
  <2>2. \A k \in 1 .. m : k \in 1 .. n /\ k # i
    BY <1>1
  <2> HIDE DEF m
  <2>3. \A k \in 1 .. m : order[k] # g
    BY <1>1, <1>4, <2>2
  <2>4. \A p \in before : p <= m
    <3> SUFFICES ASSUME NEW p \in 0 .. n, p > m
                 PROVE  i \in 1 .. p
      BY <1>1, <1>4, <2>1
    <3> QED BY <1>1, <2>1
  <2>5. m \in before
    BY <2>1, <2>3
  <2> HIDE DEF before
  <2>6. last = m
    BY <1>3, <2>4, <2>5
  <2>7. m = 0 <=> i = 1
    BY <2>1
  <2> QED BY <1>2, <2>6, <2>7 DEF m
<1>5. ASSUME \A i \in 1 .. n : order[i] # g
      PROVE  b = IF n = 0 THEN All ELSE order[n]
  <2>1. n \in before /\ \A p \in before : p <= n
    BY <1>1, <1>5
  <2> HIDE DEF before, n
  <2>2. last = n
    BY <1>3, <2>1
  <2> QED BY <1>2, <2>2
<1> QED BY <1>4, <1>5 DEF order, b

(* What a Tab key chooses has a chip, if there is any.                     *)
LEMMA CyclesTyped ==
  ASSUME NEW snapshot, GroupList(snapshot), NEW g
  PROVE  /\ {cycle_group_forward(snapshot, g), cycle_group_backward(snapshot, g)}
              \subseteq Groups \cup {All}
         /\ Chips(snapshot) # {} =>
              {cycle_group_forward(snapshot, g), cycle_group_backward(snapshot, g)}
                \subseteq Chips(snapshot)
<1> DEFINE order == Order(snapshot)
           n     == Len(order)
           f     == cycle_group_forward(snapshot, g)
           b     == cycle_group_backward(snapshot, g)
           A     == ActiveIn(snapshot)
<1>1. A \subseteq Groups /\ n \in Nat /\ \A i \in 1 .. n : order[i] \in A
  BY ActiveOrder
<1>2. /\ g = All => f = IF n = 0 THEN All ELSE order[1]
      /\ \A i \in 1 .. n : order[i] = g => f = IF i = n THEN All ELSE order[i + 1]
      /\ g # All /\ (\A i \in 1 .. n : order[i] # g) => f = All
  BY ForwardSteps
<1>3. /\ \A i \in 1 .. n : order[i] = g => b = IF i = 1 THEN All ELSE order[i - 1]
      /\ (\A i \in 1 .. n : order[i] # g) => b = IF n = 0 THEN All ELSE order[n]
  BY BackwardSteps
<1> HIDE DEF order, f, b
<1>4. \A i \in 1 .. n : (i # n => i + 1 \in 1 .. n) /\ (i # 1 => i - 1 \in 1 .. n)
  BY <1>1
<1>5. n # 0 => 1 \in 1 .. n /\ n \in 1 .. n
  BY <1>1
<1> HIDE DEF n
<1>6. f \in A \cup {All}
  BY <1>1, <1>2, <1>4, <1>5
<1>7. b \in A \cup {All}
  BY <1>1, <1>3, <1>4, <1>5
<1> QED BY <1>1, <1>6, <1>7 DEF Chips, f, b, A

(* The Tab keys undo each other.                                           *)
LEMMA CyclesUndone ==
  ASSUME NEW snapshot, GroupList(snapshot), NEW g \in Chips(snapshot)
  PROVE  /\ cycle_group_backward(snapshot, cycle_group_forward(snapshot, g)) = g
         /\ cycle_group_forward(snapshot, cycle_group_backward(snapshot, g)) = g
<1> DEFINE order == Order(snapshot)
           n     == Len(order)
           f(h)  == cycle_group_forward(snapshot, h)
           b(h)  == cycle_group_backward(snapshot, h)
<1>1. /\ n \in Nat
      /\ \A i \in 1 .. n : order[i] # All
      /\ \A i, j \in 1 .. n : order[i] = order[j] => i = j
      /\ \A h \in ActiveIn(snapshot) : \E i \in 1 .. n : order[i] = h
  BY ActiveOrder
<1>2. /\ f(All) = IF n = 0 THEN All ELSE order[1]
      /\ \A i \in 1 .. n : f(order[i]) = IF i = n THEN All ELSE order[i + 1]
  BY ForwardSteps
<1>3. /\ \A i \in 1 .. n : b(order[i]) = IF i = 1 THEN All ELSE order[i - 1]
      /\ b(All) = IF n = 0 THEN All ELSE order[n]
  <2>1. \A i \in 1 .. n : b(order[i]) = IF i = 1 THEN All ELSE order[i - 1]
    BY BackwardSteps
  <2>2. (\A i \in 1 .. n : order[i] # All) => b(All) = IF n = 0 THEN All ELSE order[n]
    BY BackwardSteps
  <2> HIDE DEF n, order, b
  <2> QED BY <1>1, <2>1, <2>2
<1> HIDE DEF order, f, b
<1>4. CASE g = All
  <2>1. n # 0
    <3>1. PICK h \in ActiveIn(snapshot) : TRUE
      BY DEF Chips
    <3> QED BY <1>1, <3>1
  <2>2. 1 \in 1 .. n /\ n \in 1 .. n
    BY <1>1, <2>1
  <2> HIDE DEF n
  <2>3. b(f(g)) = g /\ f(b(g)) = g
    BY <1>2, <1>3, <1>4, <2>1, <2>2
  <2> QED BY <2>3 DEF f, b
<1>5. CASE g # All
  <2>1. PICK i \in 1 .. n : order[i] = g
    BY <1>1, <1>5 DEF Chips
  <2>2. b(f(g)) = g
    <3>1. CASE i = n
      <4>1. n # 0
        BY <1>1
      <4> HIDE DEF n
      <4> QED BY <1>2, <1>3, <2>1, <3>1, <4>1
    <3>2. CASE i # n
      <4> DEFINE j == i + 1
      <4>1. j \in 1 .. n /\ j # 1 /\ j - 1 = i
        BY <1>1, <3>2
      <4>2. f(order[i]) = order[j]
        BY <1>2, <3>2
      <4> HIDE DEF j, n
      <4> QED BY <1>3, <2>1, <4>1, <4>2
    <3> QED BY <3>1, <3>2
  <2>3. f(b(g)) = g
    <3>1. CASE i = 1
      <4>1. n # 0
        BY <1>1
      <4> HIDE DEF n
      <4> QED BY <1>2, <1>3, <2>1, <3>1, <4>1
    <3>2. CASE i # 1
      <4> DEFINE j == i - 1
      <4>1. j \in 1 .. n /\ j # n /\ j + 1 = i
        BY <1>1, <3>2
      <4>2. b(order[i]) = order[j]
        BY <1>3, <3>2
      <4> HIDE DEF j, n
      <4> QED BY <1>2, <2>1, <4>1, <4>2
    <3> QED BY <3>1, <3>2
  <2> QED BY <2>2, <2>3 DEF f, b
<1> QED BY <1>4, <1>5

(* The groups a view holds are those of an answer, its filter one of them. *)
GroupsTyped == GroupList(groups) /\ active_group \in Groups \cup {All}

(* The groups are those of the vault, and the filter is the one asked for. *)
LEMMA RebuildTyped ==
  ASSUME VaultTyped, NEW g \in Groups \cup {All}, NEW t, NEW open,
         RebuildAndRefresh(g, t, open)
  PROVE  GroupsTyped'
<1>1. PICK answer \in Answers :
        /\ groups' = IF answer = "ok" THEN groupState ELSE NULL
        /\ active_group' \in {All, g}
  BY DEF RebuildAndRefresh
<1> QED BY <1>1 DEF VaultTyped, GroupsTyped, GroupList

(* Chips and Tab keys lead to groups.                                      *)
LEMMA GroupsStep == ASSUME VaultTyped, GroupsTyped, [Next]_vars PROVE GroupsTyped'
<1>1. GroupList(groups) /\ active_group \in Groups \cup {All}
  BY DEF GroupsTyped
<1>2. CASE on_view_map
  BY <1>1, <1>2, RebuildTyped DEF on_view_map
<1>3. CASE TabForward
  <2> DEFINE g == cycle_group_forward(groups, active_group)
  <2>1. g \in Groups \cup {All}
    BY <1>1, CyclesTyped
  <2>2. RebuildAndRefresh(g, text, revealed)
    BY <1>3 DEF TabForward
  <2> HIDE DEF g
  <2> QED BY <2>1, <2>2, RebuildTyped
<1>4. CASE TabBackward
  <2> DEFINE g == cycle_group_backward(groups, active_group)
  <2>1. g \in Groups \cup {All}
    BY <1>1, CyclesTyped
  <2>2. RebuildAndRefresh(g, text, revealed)
    BY <1>4 DEF TabBackward
  <2> HIDE DEF g
  <2> QED BY <2>1, <2>2, RebuildTyped
<1>5. CASE \E g \in Groups \cup {All} : on_group_chip_clicked(g)
  BY <1>5, RebuildTyped DEF on_group_chip_clicked
<1>6. CASE UNCHANGED groupVars
  BY <1>6 DEF GroupsTyped, GroupList
<1> QED BY <1>2, <1>3, <1>4, <1>5, <1>6, GroupSteps

(* The groups and the filter keep their types.                             *)
LEMMA GroupsInvariance == Spec => []GroupsTyped
<1>1. Init => GroupsTyped
  BY DEF Init, GroupsTyped, GroupList
<1>2. ViewInv /\ GroupsTyped /\ [Next]_vars => GroupsTyped'
  BY GroupsStep DEF ViewInv, Listing
<1> QED BY ViewInvariance, <1>1, <1>2, PTL DEF Spec

(* Tab and Shift-Tab undo each other on the chips of any list of groups,   *)
(* and both lead to a chip from a group that has lost its own.             *)
THEOREM TabGoesRoundCorrect == Spec => []TabGoesRound
<1>1. GroupsTyped => TabGoesRound
  <2> SUFFICES ASSUME GroupsTyped, groups # NULL
               PROVE  TabGoesRound
    BY DEF TabGoesRound
  <2>1. GroupList(groups)
    BY DEF GroupsTyped
  <2>2. \A g \in Chips(groups) :
          /\ cycle_group_backward(groups, cycle_group_forward(groups, g)) = g
          /\ cycle_group_forward(groups, cycle_group_backward(groups, g)) = g
    BY <2>1, CyclesUndone
  <2>3. Chips(groups) # {} =>
          {cycle_group_forward(groups, active_group),
           cycle_group_backward(groups, active_group)} \subseteq Chips(groups)
    BY <2>1, CyclesTyped
  <2> QED BY <2>2, <2>3 DEF TabGoesRound
<1> QED BY GroupsInvariance, <1>1, PTL

-----------------------------------------------------------------------------
(* Types *)

RowsTyped ==
  /\ DOMAIN rows \subseteq Nat
  /\ \A r \in DOMAIN rows : rows[r].kind \in RowKinds
  /\ selected_row \in Nat

(* The rows that are drawn are entries, "more" rows or a message.          *)
LEMMA WindowRowsTyped ==
  ASSUME NEW list, NEW found, FilteredList(list, found), NEW offset \in Nat,
         found = <<>> \/ offset < Len(found), NEW snapshot, NEW filter, NEW open
  PROVE  LET shown == VisibleRows(list, found, offset, snapshot, filter, open)
         IN /\ DOMAIN shown \subseteq Nat
            /\ \A r \in DOMAIN shown : shown[r].kind \in RowKinds
<1>1. CASE found = <<>>
  BY <1>1 DEF VisibleRows, PlainRow, RowKinds
<1>2. CASE found # <<>>
  <2>1. IsList(found)
    BY DEF FilteredList
  <2>2. ShowsWindow(VisibleRows(list, found, offset, snapshot, filter, open), found, offset)
    BY <1>2, <2>1, RowsShowWindow
  <2> QED BY <2>2 DEF ShowsWindow
<1> QED BY <1>1, <1>2

(* A window of the view is inside its list.                                *)
LEMMA InsideList ==
  ASSUME ViewInv
  PROVE  /\ filtered = <<>> \/ visible_offset < Len(filtered)
         /\ SelectedRow(filtered, visible_offset, selected_filtered) \in Nat
<1>1. /\ Len(filtered) \in Nat /\ visible_offset \in Nat /\ selected_filtered \in Nat
      /\ visible_offset <= selected_filtered
      /\ selected_filtered < Len(filtered) \/ filtered = <<>>
  BY ListLength DEF ViewInv, Listing, FilteredList, WindowSound
<1> QED BY <1>1 DEF SelectedRow

(* Rows are drawn by the steps that change the window, and only by them.   *)
LEMMA RowsStep == ASSUME ViewInv, ViewInv', RowsTyped, [Next]_vars PROVE RowsTyped'
<1>1. CASE Refreshed \/ Moved
  <2>1. PICK open : rows' = VisibleRows(entries', filtered', visible_offset', groups',
                                         active_group', open)
    BY <1>1 DEF Refreshed, Moved, MoveSelection, rebuild_visible_list
  <2>2. selected_row' = SelectedRow(filtered', visible_offset', selected_filtered')
    BY <1>1 DEF Refreshed, Moved, MoveSelection, rebuild_visible_list
  <2>3. /\ FilteredList(entries', filtered') /\ visible_offset' \in Nat
        /\ filtered' = <<>> \/ visible_offset' < Len(filtered')
        /\ SelectedRow(filtered', visible_offset', selected_filtered') \in Nat
    <3>1. (FilteredList(entries, filtered) /\ visible_offset \in Nat)'
      BY DEF ViewInv, Listing
    <3>2. (ViewInv => /\ filtered = <<>> \/ visible_offset < Len(filtered)
                      /\ SelectedRow(filtered, visible_offset, selected_filtered) \in Nat)'
      BY InsideList, PTL
    <3> QED BY <3>1, <3>2
  <2>4. DOMAIN rows' \subseteq Nat /\ \A r \in DOMAIN rows' : rows'[r].kind \in RowKinds
    BY <2>1, <2>3, WindowRowsTyped
  <2> QED BY <2>2, <2>3, <2>4 DEF RowsTyped
<1>2. CASE Kept
  BY <1>2 DEF Kept, RowsTyped
<1> QED BY <1>1, <1>2, StepKinds DEF ViewInv

(* An opened row is an entry of the list.                                  *)
LEMMA OpenedSlot ==
  ASSUME ViewInv, mapped, NEW r, activate_entry_at_index(r)
  PROVE  opened' \in Slots
<1>1. r \in DOMAIN rows /\ rows[r].kind = "entry" /\ opened' = entries[rows[r].index].slot
  BY DEF activate_entry_at_index
<1>2. PICK open \in BOOLEAN :
        rows = VisibleRows(entries, filtered, visible_offset, groups, active_group, open)
  BY DEF ViewInv, OnScreen
<1>3. filtered # <<>>
  BY <1>1, <1>2 DEF VisibleRows, PlainRow
<1> DEFINE above == Above(visible_offset)
           size  == Size(filtered, visible_offset)
           v     == r - above
<1>4. /\ IsList(filtered) /\ visible_offset \in Nat /\ visible_offset < Len(filtered)
      /\ filtered \in Seq(DOMAIN entries) /\ entries \in Seq(Entry)
  BY <1>3, InsideList DEF ViewInv, Listing, FilteredList
<1>5. Len(filtered) \in Nat /\ MAX_VISIBLE_ENTRIES \in Nat
  BY <1>4, ListLength, SearchAssumption
<1>6. ShowsWindow(rows, filtered, visible_offset)
  BY <1>2, <1>3, <1>4, RowsShowWindow
<1>7. /\ size \in Nat
      /\ visible_offset + MAX_VISIBLE_ENTRIES <= Len(filtered) => size = MAX_VISIBLE_ENTRIES
      /\ visible_offset + MAX_VISIBLE_ENTRIES > Len(filtered)
           => size = Len(filtered) - visible_offset
  BY <1>4, WindowSize
<1>8. r \in Nat /\ v \in 1 .. size
  BY <1>1, <1>6 DEF ShowsWindow
<1>9. above \in Nat
  BY DEF Above
<1> HIDE DEF above, size
<1>10. v + above = r /\ v \in Nat /\ visible_offset + v \in 1 .. Len(filtered)
  BY <1>4, <1>5, <1>7, <1>8, <1>9
<1> HIDE DEF v
<1>11. rows[r].index = filtered[visible_offset + v]
  BY <1>6, <1>8, <1>10 DEF ShowsWindow, above, size
<1>12. rows[r].index \in DOMAIN entries
  BY <1>4, <1>10, <1>11, ElementOfSeq
<1>13. entries[rows[r].index] \in Entry
  BY <1>4, <1>12, LenProperties, ElementOfSeq
<1> QED BY <1>1, <1>13 DEF Entry

(* The flags, the history and the opened entry.                            *)
FlagsTyped ==
  /\ {srvLocked, clientLocked, trayLocked, mapped, delayed} \subseteq BOOLEAN
  /\ listed \in Texts
  /\ opened \in Slots \cup {NULL}

(* A fetch sets the lock flags and notes its text.                         *)
LEMMA RefreshFlags ==
  ASSUME FlagsTyped, NEW t \in Texts, NEW snapshot, NEW filter, NEW open,
         NEW refused \in BOOLEAN, refresh_entries(t, snapshot, filter, open, refused)
  PROVE  {clientLocked', trayLocked'} \subseteq BOOLEAN /\ listed' \in Texts
<1>1. PICK answer \in Answers :
        /\ clientLocked' = (clientLocked \/ refused \/ answer = "locked")
        /\ trayLocked' = (trayLocked \/ (answer # "ok"
                                          /\ (clientLocked \/ refused \/ answer = "locked")))
        /\ listed' = t
  BY DEF refresh_entries
<1> QED BY <1>1

(* So does one after the groups.                                           *)
LEMMA RebuildFlags ==
  ASSUME FlagsTyped, NEW g, NEW t \in Texts, NEW open, RebuildAndRefresh(g, t, open)
  PROVE  {clientLocked', trayLocked'} \subseteq BOOLEAN /\ listed' \in Texts
<1>1. PICK answer \in Answers : \E snapshot, filter :
        refresh_entries(t, snapshot, filter, open, answer = "locked")
  BY DEF RebuildAndRefresh
<1> DEFINE refused == answer = "locked"
<1>2. refused \in BOOLEAN /\ \E snapshot, filter :
        refresh_entries(t, snapshot, filter, open, refused)
  BY <1>1
<1> HIDE DEF refused
<1> QED BY <1>2, RefreshFlags

(* The flags keep their types and an opened row is an entry.               *)
LEMMA FlagsStep ==
  ASSUME ViewInv, FlagsTyped, [Next]_vars PROVE FlagsTyped'
<1>1. text \in Texts /\ NoText \in Texts
  BY SearchAssumption DEF ViewInv, Listing
<1>2. CASE on_view_map
  <2>1. {clientLocked', trayLocked'} \subseteq BOOLEAN /\ listed' \in Texts
    BY <1>1, <1>2, RebuildFlags DEF on_view_map
  <2> QED BY <1>2, <2>1 DEF on_view_map, FlagsTyped
<1>3. CASE Hide
  BY <1>3 DEF Hide, FlagsTyped
<1>4. CASE on_search_changed
  <2>1. {clientLocked', trayLocked'} \subseteq BOOLEAN /\ listed' \in Texts
    BY <1>1, <1>4, RefreshFlags DEF on_search_changed
  <2> QED BY <1>4, <2>1 DEF on_search_changed, FlagsTyped
<1>5. CASE Keys
  <2>1. CASE \E t \in Texts : TypeCharacter(t)
    BY <2>1 DEF TypeCharacter, FlagsTyped
  <2>2. CASE DeleteText \/ close_search
    <3>1. {clientLocked', trayLocked'} \subseteq BOOLEAN /\ listed' \in Texts
      BY <1>1, <2>2, RefreshFlags DEF DeleteText, close_search
    <3> QED BY <2>2, <3>1 DEF DeleteText, close_search, FlagsTyped
  <2>3. CASE TabForward \/ TabBackward
    <3>1. {clientLocked', trayLocked'} \subseteq BOOLEAN /\ listed' \in Texts
      BY <1>1, <2>3, RebuildFlags DEF TabForward, TabBackward
    <3> QED BY <2>3, <3>1 DEF TabForward, TabBackward, FlagsTyped
  <2>4. CASE \E step \in {-1, 1} : UpOrDown(step)
    BY <2>4 DEF UpOrDown, MoveSelection, FlagsTyped
  <2>5. CASE ReturnKey \/ \E l \in 0 .. LABEL_CHARS_LEN - 1 : OpenByLabel(l)
    <3>1. opened' \in Slots
      BY <2>5, OpenedSlot DEF ReturnKey, OpenByLabel
    <3> QED BY <2>5, <3>1 DEF ReturnKey, OpenByLabel, activate_entry_at_index, FlagsTyped
  <2> QED BY <1>5, <2>1, <2>2, <2>3, <2>4, <2>5 DEF Keys
<1>6. CASE Pointer
  <2>1. CASE \E g \in Groups \cup {All} : on_group_chip_clicked(g)
    <3>1. {clientLocked', trayLocked'} \subseteq BOOLEAN /\ listed' \in Texts
      BY <1>1, <2>1, RebuildFlags DEF on_group_chip_clicked
    <3> QED BY <2>1, <3>1 DEF on_group_chip_clicked, FlagsTyped
  <2>2. CASE \E step \in {-2, 2} : on_entry_scroll(step)
    BY <2>2 DEF on_entry_scroll, MoveSelection, FlagsTyped
  <2>3. CASE \E r \in DOMAIN rows : on_row_activated(r)
    <3>1. opened' \in Slots
      BY <2>3, OpenedSlot DEF on_row_activated
    <3> QED BY <2>3, <3>1 DEF on_row_activated, activate_entry_at_index, FlagsTyped
  <2> QED BY <1>6, <2>1, <2>2, <2>3 DEF Pointer
<1>7. CASE Environment
  BY <1>7 DEF Environment, touch_entry_idle, EntryChanges, GroupChanges, VaultLocks,
              VaultChanges, Unlock, FlagsTyped
<1>8. CASE UNCHANGED vars
  BY <1>8 DEF vars, FlagsTyped
<1> QED BY <1>2, <1>3, <1>4, <1>5, <1>6, <1>7, <1>8 DEF Next

(* Every variable of the view keeps its type: the positions in the filter  *)
(* are positions, the group of the filter is a group, what was opened is   *)
(* an entry.                                                               *)
THEOREM TypeCorrect == Spec => []TypeOK
<1>1. Init => RowsTyped /\ FlagsTyped
  <2> SUFFICES ASSUME Init PROVE RowsTyped /\ FlagsTyped
    OBVIOUS
  <2>1. /\ rows = <<>> /\ selected_row = 0
        /\ {srvLocked, clientLocked, trayLocked, mapped, delayed} = {FALSE}
        /\ listed = NoText /\ opened = NULL
    BY DEF Init
  <2>2. RowsTyped
    BY <2>1 DEF RowsTyped
  <2>3. FlagsTyped
    BY <2>1, SearchAssumption DEF FlagsTyped
  <2> QED BY <2>2, <2>3
<1>2. ViewInv /\ ViewInv' /\ RowsTyped /\ FlagsTyped /\ [Next]_vars
        => RowsTyped' /\ FlagsTyped'
  BY RowsStep, FlagsStep
<1>3. ViewInv /\ GroupsTyped /\ RowsTyped /\ FlagsTyped => TypeOK
  <2> SUFFICES ASSUME ViewInv, GroupsTyped, RowsTyped, FlagsTyped PROVE TypeOK
    OBVIOUS
  <2>1. /\ VaultTyped /\ text \in Texts /\ revealed \in BOOLEAN
        /\ FilteredList(entries, filtered)
        /\ visible_offset \in Nat /\ selected_filtered \in Nat
    BY DEF ViewInv, Listing
  <2>2. (entries = NULL \/ entries \in Seq(Entry)) /\ filtered \in Seq(Nat)
    BY <2>1 DEF FilteredList
  <2>3. (groups = NULL \/ groups \in [Groups -> GroupStates])
        /\ active_group \in Groups \cup {All}
    BY DEF GroupsTyped, GroupList
  <2>4. {srvLocked, clientLocked, trayLocked, mapped, revealed, delayed} \subseteq BOOLEAN
        /\ {text, listed} \subseteq Texts
    BY <2>1 DEF FlagsTyped
  <2>5. opened \in Slots \cup {NULL} /\ selected_row \in Nat
        /\ \A r \in DOMAIN rows : rows[r].kind \in RowKinds
    BY DEF FlagsTyped, RowsTyped
  <2>6. /\ entryGroup \in [Slots -> Groups \cup {None, Absent}]
        /\ groupState \in [Groups -> GroupStates]
        /\ accessed \in [Slots -> Nat]
        /\ changes \in 0 .. MaxChange
    BY <2>1 DEF VaultTyped
  <2> QED BY <2>1, <2>2, <2>3, <2>4, <2>5, <2>6 DEF TypeOK
<1> QED BY ViewInvariance, GroupsInvariance, <1>1, <1>2, <1>3, PTL DEF Spec
=============================================================================
