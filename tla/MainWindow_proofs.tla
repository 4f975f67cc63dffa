-------------------------- MODULE MainWindow_proofs --------------------------
(***************************************************************************)
(* Proofs about the main window, for every set of entries and groups,      *)
(* every set of texts and whatever they match, entries that compare equal  *)
(* under a sort order included.                                            *)
(***************************************************************************)
EXTENDS MainWindow, ListOrder_proofs

\* Expanded everywhere: the groups of variables in UNCHANGED.
USE DEF vaultVars, lockVars, listVars, queryVars, detailVars, viewVars, groupsVars

EntryGroups == Groups \cup {None, Absent}
Listing     == [slot : Slots, group : Groups \cup {None}]
DropDowns   == [model : Seq(Groups), selected : Nat]
Snapshots   == [Groups -> GroupStates] \cup {NULL}

(* The rows are those drawn from the entries and the filter as they are    *)
(* now: whatever changes one of the three draws the rows anew.             *)
Drawn(list, group) == IF list = NULL THEN <<>> ELSE EntryRows(list, group)

ListInv ==
  /\ text \in Texts
  /\ delayed \in BOOLEAN
  /\ sort_mode \in 0 .. 2
  /\ filter_group_index \in Groups \cup {All}
  /\ entries = NULL \/ entries \in Seq(Listing)
  /\ rows = Drawn(entries, filter_group_index)

(* A drop-down stands at a position it offers.                             *)
DropDownOK(d) == d \in DropDowns /\ d.selected <= Len(d.model)

FormsInv ==
  /\ cached_groups \in Snapshots
  /\ DropDownOK(filter) /\ DropDownOK(add) /\ DropDownOK(edit)
  /\ add_page \in BOOLEAN

DetailInv ==
  /\ selected_id \in Slots \cup {NULL} /\ page \in {"empty", "detail"}
  /\ totp \in [secret : Slots \cup {NULL}, timer : BOOLEAN, row : {"none", "shown", "gone"}]
  /\ editing \in BOOLEAN /\ dialog \in BOOLEAN /\ running \in BOOLEAN
  /\ DetailHonest
  /\ TotpTimerHasItsRow

GroupsInv == GroupsTypeOK /\ section \in Sections \cup {"none"}

(* A group deleted here never becomes active again, nor is its index given *)
(* to another, whatever others do to the vault.                            *)
DeletedStays == \A g \in deletedHere : groupState[g] \in {"deleted", "purged"}

OfferedInv == DeletedStays /\ NoGroupDeletedHereIsOffered

Inv ==
  /\ ServiceTypeOK
  /\ ListInv
  /\ FormsInv
  /\ DetailInv
  /\ GroupsInv
  /\ OfferedInv

-----------------------------------------------------------------------------
(* Lists, rows and drop-downs *)

(* The rows of a list: those of its entries that pass the filter, in order *)
(* and with the positions they have in the list.                           *)
LEMMA RowsDrawn ==
  ASSUME NEW list \in Seq(Listing), NEW group
  PROVE  LET drawn == EntryRows(list, group)
             passes(i) == group = All \/ list[i].group = group
         IN /\ drawn \in Seq([index : Nat, slot : Slots])
            /\ \A r \in DOMAIN drawn :
                 /\ drawn[r].index \in DOMAIN list
                 /\ list[drawn[r].index].slot = drawn[r].slot
                 /\ passes(drawn[r].index)
            /\ \A i \in DOMAIN list : passes(i) => \E r \in DOMAIN drawn : drawn[r].index = i
            /\ \A q, r \in DOMAIN drawn : q < r => drawn[q].index < drawn[r].index
<1> DEFINE P == {i \in DOMAIN list : group = All \/ list[i].group = group}
           kept == InOrder(P, Smaller)
           drawn == [r \in DOMAIN kept |-> [index |-> kept[r], slot |-> list[kept[r]].slot]]
<1>1. Len(list) \in Nat /\ DOMAIN list = 1 .. Len(list)
  BY LenProperties
<1>2. \A i \in DOMAIN list : list[i] \in Listing
  BY <1>1, ElementOfSeq
<1>3. IsFiniteSet(P) /\ P \subseteq Int
  <2>1. IsFiniteSet(DOMAIN list) /\ P \in SUBSET DOMAIN list
    BY <1>1, FS_Interval
  <2> HIDE DEF P
  <2> QED BY <1>1, <2>1, FS_Subset
<1>4. P \subseteq DOMAIN list /\ \A i \in P : group = All \/ list[i].group = group
  OBVIOUS
<1>5. \A i \in DOMAIN list : group = All \/ list[i].group = group => i \in P
  OBVIOUS
<1>6. EntryRows(list, group) = drawn
  BY DEF EntryRows
<1> HIDE DEF P
<1>7. /\ kept \in Seq(P)
      /\ \A x \in P : \E i \in 1 .. Len(kept) : kept[i] = x
      /\ \A i, j \in 1 .. Len(kept) : i < j => kept[i] < kept[j]
  BY <1>3, SmallerEnumerates
<1> HIDE DEF kept
<1>8. Len(kept) \in Nat /\ DOMAIN kept = 1 .. Len(kept) /\ kept \in [1 .. Len(kept) -> P]
  BY <1>7, LenProperties
<1>9. \A r \in DOMAIN kept : kept[r] \in P /\ kept[r] \in DOMAIN list /\ kept[r] \in Nat
  BY <1>1, <1>4, <1>8
<1>10. DOMAIN drawn = 1 .. Len(kept)
  BY <1>8
<1>11. \A r \in DOMAIN kept : /\ drawn[r].index = kept[r]
                              /\ drawn[r].slot = list[kept[r]].slot
                              /\ drawn[r] \in [index : Nat, slot : Slots]
  BY <1>2, <1>9 DEF Listing
<1>12. drawn \in Seq([index : Nat, slot : Slots])
  <2> DEFINE Row == [index : Nat, slot : Slots]
  <2>1. \A r \in 1 .. Len(kept) : drawn[r] \in Row
    BY <1>8, <1>11
  <2>2. drawn = [r \in 1 .. Len(kept) |-> drawn[r]]
    BY <1>10
  <2> HIDE DEF drawn, Row
  <2>3. drawn \in [1 .. Len(kept) -> Row]
    BY <2>1, <2>2
  <2>4. drawn \in Seq(Row)
    BY <1>8, <2>3
  <2> QED BY <2>4 DEF Row
<1> HIDE DEF drawn
<1>13. \A r \in DOMAIN drawn :
         /\ drawn[r].index \in DOMAIN list
         /\ list[drawn[r].index].slot = drawn[r].slot
         /\ group = All \/ list[drawn[r].index].group = group
  BY <1>4, <1>8, <1>9, <1>10, <1>11
<1>14. \A i \in DOMAIN list : group = All \/ list[i].group = group
         => \E r \in DOMAIN drawn : drawn[r].index = i
  BY <1>5, <1>7, <1>8, <1>10, <1>11
<1>15. \A q, r \in DOMAIN drawn : q < r => drawn[q].index < drawn[r].index
  BY <1>7, <1>8, <1>10, <1>11
<1> QED BY <1>6, <1>12, <1>13, <1>14, <1>15

(* What the vault answers is a list of entries that are there.             *)
LEMMA ListTyped ==
  ASSUME NEW there \in [Slots -> EntryGroups], NEW mode, NEW query \in Texts,
         NEW list \in ListedEntries(there, mode, query)
  PROVE  list \in Seq(Listing)
<1> DEFINE found == {s \in Matches[query] : there[s] # Absent}
<1>1. found \subseteq Slots /\ IsFiniteSet(found)
  BY ViewAssumption, ServiceAssumption, FS_Subset
<1>2. \A s \in found : there[s] \in Groups \cup {None}
  BY <1>1 DEF EntryGroups
<1>3. PICK order \in sort_json_array(found, mode) :
        list = [r \in DOMAIN order |-> [slot |-> order[r], group |-> there[order[r]]]]
  BY DEF ListedEntries
<1>4. Cardinality(found) \in Nat
  BY <1>1, FS_CardinalityType
<1> HIDE DEF found
<1>5. order \in [1 .. Cardinality(found) -> found]
  BY <1>3 DEF sort_json_array
<1>6. list \in [1 .. Cardinality(found) -> Listing]
  BY <1>1, <1>2, <1>3, <1>5 DEF Listing
<1> QED BY <1>4, <1>6

(* A drop-down filled from a list of groups offers the active ones.        *)
LEMMA Populated ==
  ASSUME NEW snapshot \in Snapshots
  PROVE  LET d == vault_populate_group_dropdown(snapshot)
         IN /\ d = [model |-> d.model, selected |-> 0]
            /\ d.model = InOrder(ActiveIn(snapshot), Smaller)
            /\ d.model \in Seq(Groups)
            /\ Len(d.model) \in Nat /\ DOMAIN d.model = 1 .. Len(d.model)
            /\ \A p \in DOMAIN d.model : d.model[p] \in ActiveIn(snapshot) \cap Groups
<1> DEFINE A == ActiveIn(snapshot)
           order == InOrder(A, Smaller)
<1>1. A \subseteq Groups
  BY DEF ActiveIn, Snapshots
<1>2. IsFiniteSet(A) /\ A \subseteq Int
  <2> HIDE DEF A
  <2>1. A \in SUBSET Groups /\ IsFiniteSet(Groups)
    BY <1>1, ServiceAssumption
  <2>2. IsFiniteSet(A)
    BY <2>1, FS_Subset
  <2>3. A \subseteq Int
    BY <1>1, ServiceAssumption
  <2> QED BY <2>2, <2>3
<1>3. vault_populate_group_dropdown(snapshot) = [model |-> order, selected |-> 0]
  BY DEF vault_populate_group_dropdown
<1> HIDE DEF A
<1>4. order \in Seq(A)
  BY <1>2, SmallerEnumerates
<1> HIDE DEF order
<1>5. /\ Len(order) \in Nat /\ DOMAIN order = 1 .. Len(order)
      /\ order \in [1 .. Len(order) -> A]
  BY <1>4, LenProperties
<1>6. order \in Seq(Groups)
  BY <1>1, <1>5
<1> QED BY <1>1, <1>3, <1>5, <1>6 DEF A, order

LEMMA PositionTyped ==
  ASSUME NEW model \in Seq(Groups), NEW group
  PROVE  PositionOf(model, group) \in 0 .. Len(model)
<1> DEFINE at == {p \in DOMAIN model : model[p] = group}
<1>1. Len(model) \in Nat /\ at \subseteq 1 .. Len(model)
  BY LenProperties
<1> HIDE DEF at
<1>2. CASE at = {}
  BY <1>1, <1>2 DEF PositionOf, at
<1>3. CASE at # {}
  <2> DEFINE chosen == CHOOSE p \in at : TRUE
  <2>1. chosen \in at
    BY <1>3
  <2>2. PositionOf(model, group) = chosen
    BY <1>3 DEF PositionOf, at
  <2> HIDE DEF chosen
  <2> QED BY <1>1, <2>1, <2>2
<1> QED BY <1>2, <1>3

(* Filled, a drop-down stands at any of the groups it offers, or at its    *)
(* first line.                                                             *)
LEMMA PlacedOK ==
  ASSUME NEW snapshot \in Snapshots, NEW group
  PROVE  LET d == vault_populate_group_dropdown(snapshot)
             placed == [d EXCEPT !.selected = PositionOf(d.model, group)]
         IN /\ DropDownOK(d)
            /\ DropDownOK(placed)
            /\ placed.model = d.model
<1> DEFINE d == vault_populate_group_dropdown(snapshot)
<1>1. d = [model |-> d.model, selected |-> 0] /\ d.model \in Seq(Groups) /\ Len(d.model) \in Nat
  BY Populated
<1>2. PositionOf(d.model, group) \in 0 .. Len(d.model)
  BY <1>1, PositionTyped
<1> HIDE DEF d
<1>3. DropDownOK(d)
  BY <1>1 DEF DropDownOK, DropDowns
<1>4. PICK k \in 0 .. Len(d.model) : k = PositionOf(d.model, group)
  BY <1>2
<1>5. [d EXCEPT !.selected = k] = [model |-> d.model, selected |-> k]
  BY <1>1
<1>6. DropDownOK([d EXCEPT !.selected = k]) /\ [d EXCEPT !.selected = k].model = d.model
  BY <1>1, <1>4, <1>5 DEF DropDownOK, DropDowns
<1> QED BY <1>3, <1>4, <1>6 DEF d

(* The group a position stands for in the list last fetched: none without  *)
(* one there, and the one shown if the drop-down was filled from that list.*)
LEMMA GroupChosen ==
  ASSUME NEW snapshot \in Snapshots, NEW selected
  PROVE  LET group == vault_get_group_index_from_dropdown(snapshot, selected)
             model == vault_populate_group_dropdown(snapshot).model
         IN /\ group \in Groups \cup {-1}
            /\ group = IF selected \in 1 .. Len(model) THEN model[selected] ELSE -1
  BY Populated DEF vault_get_group_index_from_dropdown

-----------------------------------------------------------------------------
(* What the handlers do *)

(* The rows are drawn from the list that was fetched with them.            *)
LEMMA RebuildStep ==
  ASSUME trayLocked \in BOOLEAN,
         NEW there \in [Slots -> EntryGroups], NEW locked \in BOOLEAN,
         NEW mode, NEW query \in Texts, NEW group,
         vault_rebuild_list(there, locked, mode, query, group)
  PROVE  /\ entries' = NULL \/ entries' \in Seq(Listing)
         /\ rows' = Drawn(entries', group)
         /\ clientLocked' \in BOOLEAN /\ trayLocked' \in BOOLEAN
<1>1. PICK answer \in AskUnless(locked) :
        /\ entries' \in IF answer = "ok" THEN ListedEntries(there, mode, query) ELSE {NULL}
        /\ rows' = IF entries' = NULL THEN <<>> ELSE EntryRows(entries', group)
        /\ clientLocked' = LockedAfter(locked, answer)
        /\ trayLocked' = (trayLocked \/ answer = "locked")
  BY DEF vault_rebuild_list
<1>2. entries' = NULL \/ entries' \in Seq(Listing)
  BY <1>1, ListTyped
<1>3. rows' = Drawn(entries', group)
  BY <1>1 DEF Drawn
<1>4. clientLocked' \in BOOLEAN /\ trayLocked' \in BOOLEAN
  BY <1>1 DEF LockedAfter
<1> QED BY <1>2, <1>3, <1>4

(* A refresh also fetches the groups, and fills the filter with the active *)
(* ones of them.                                                           *)
LEMMA RefreshStep ==
  ASSUME trayLocked \in BOOLEAN, groupState \in [Groups -> GroupStates],
         NEW there \in [Slots -> EntryGroups], NEW locked \in BOOLEAN,
         NEW mode, NEW query \in Texts,
         vault_refresh_entries(there, locked, mode, query)
  PROVE  /\ entries' = NULL \/ entries' \in Seq(Listing)
         /\ rows' = Drawn(entries', filter_group_index)
         /\ clientLocked' \in BOOLEAN /\ trayLocked' \in BOOLEAN
         /\ cached_groups' \in {NULL, groupState}
         /\ DropDownOK(filter')
         /\ \A p \in DOMAIN filter'.model : filter'.model[p] \in ActiveIn(cached_groups')
<1> DEFINE offered(snapshot) == vault_populate_group_dropdown(snapshot)
<1>1. PICK answer \in AskUnless(locked) :
        /\ cached_groups' = GroupList(answer)
        /\ filter' = [offered(GroupList(answer)) EXCEPT !.selected =
                        PositionOf(offered(GroupList(answer)).model, filter_group_index)]
        /\ vault_rebuild_list(there, LockedAfter(locked, answer), mode, query, filter_group_index)
  BY DEF vault_refresh_entries
<1>2. LockedAfter(locked, answer) \in BOOLEAN
  BY DEF LockedAfter
<1>3. /\ entries' = NULL \/ entries' \in Seq(Listing)
      /\ rows' = Drawn(entries', filter_group_index)
      /\ clientLocked' \in BOOLEAN /\ trayLocked' \in BOOLEAN
  BY <1>1, <1>2, RebuildStep
<1>4. GroupList(answer) \in {NULL, groupState} /\ GroupList(answer) \in Snapshots
  BY DEF GroupList, Snapshots
<1>5. DropDownOK(filter') /\ filter'.model = offered(GroupList(answer)).model
  BY <1>1, <1>4, PlacedOK
<1>6. \A p \in DOMAIN offered(GroupList(answer)).model :
         offered(GroupList(answer)).model[p] \in ActiveIn(GroupList(answer))
  BY <1>4, Populated
<1> QED BY <1>1, <1>3, <1>4, <1>5, <1>6

(* A list of groups just fetched, or none, has no deleted group active.    *)
LEMMA OfferKept ==
  ASSUME OfferedInv, deletedHere' = deletedHere, groupState' = groupState,
         cached_groups' \in {cached_groups, NULL, groupState},
         \/ /\ filter'.model = filter.model
            /\ section' = section
         \/ /\ \A p \in DOMAIN filter'.model : filter'.model[p] \in ActiveIn(cached_groups')
            /\ cached_groups' \in {NULL, groupState}
  PROVE  OfferedInv'
<1>1. DeletedStays'
  BY DEF OfferedInv, DeletedStays
<1>2. ActiveIn(NULL) \cap deletedHere = {} /\ ActiveIn(groupState) \cap deletedHere = {}
  BY DEF OfferedInv, DeletedStays, ActiveIn
<1>3. NoGroupDeletedHereIsOffered'
  BY <1>2 DEF OfferedInv, NoGroupDeletedHereIsOffered
<1> QED BY <1>1, <1>3 DEF OfferedInv

-----------------------------------------------------------------------------
(* Steps that refresh the list and leave the panel alone *)

LEMMA ListStep ==
  ASSUME Inv,
         \/ DeleteText \/ on_search_changed
         \/ \E mode \in SortModes : on_sort_changed(mode),
         UNCHANGED <<groupsVars, section, running>>
  PROVE  Inv'
<1>1. /\ UNCHANGED <<vaultVars, filter_group_index, add, add_page, detailVars, dialog>>
      /\ text' \in Texts /\ delayed' \in BOOLEAN /\ sort_mode' \in 0 .. 2
      /\ \E mode : vault_refresh_entries(entryGroup, clientLocked, mode, text')
  <2>1. CASE DeleteText
    BY <2>1, ViewAssumption DEF DeleteText, Inv, ListInv
  <2>2. CASE on_search_changed
    BY <2>2 DEF on_search_changed, Inv, ListInv
  <2>3. CASE \E mode \in SortModes : on_sort_changed(mode)
    BY <2>3, ViewAssumption DEF on_sort_changed, Inv, ListInv
  <2> QED BY <2>1, <2>2, <2>3
<1>2. entryGroup \in [Slots -> EntryGroups]
  BY DEF Inv, ServiceTypeOK, EntryGroups
<1>3. /\ entries' = NULL \/ entries' \in Seq(Listing)
      /\ rows' = Drawn(entries', filter_group_index)
      /\ clientLocked' \in BOOLEAN /\ trayLocked' \in BOOLEAN
      /\ cached_groups' \in {NULL, groupState}
      /\ DropDownOK(filter')
      /\ \A p \in DOMAIN filter'.model : filter'.model[p] \in ActiveIn(cached_groups')
  BY <1>1, <1>2, RefreshStep DEF Inv, ServiceTypeOK
<1>4. ServiceTypeOK'
  BY <1>1, <1>3 DEF Inv, ServiceTypeOK
<1>5. ListInv'
  BY <1>1, <1>3 DEF Inv, ListInv
<1>6. FormsInv'
  BY <1>1, <1>3 DEF Inv, FormsInv, ServiceTypeOK, Snapshots
<1>7. DetailInv' /\ GroupsInv'
  BY <1>1 DEF Inv, DetailInv, DetailHonest, TotpTimerHasItsRow, GroupsInv, GroupsTypeOK
<1>8. OfferedInv'
  BY <1>1, <1>3, OfferKept DEF Inv
<1> QED BY <1>4, <1>5, <1>6, <1>7, <1>8 DEF Inv

(* The section that comes on screen; the vault section fetches its list.   *)
LEMMA SectionStep ==
  ASSUME Inv, ShowMainWindow \/ \E s \in Sections : on_sidebar_row_selected(s),
         UNCHANGED running
  PROVE  Inv'
<1>1. /\ UNCHANGED <<vaultVars, queryVars, add, add_page, detailVars, dialog,
                     view_stack, edit_index, deletedHere>>
      /\ section' \in Sections
  BY DEF ShowMainWindow, on_sidebar_row_selected, Sections
<1>2. entryGroup \in [Slots -> EntryGroups]
  BY DEF Inv, ServiceTypeOK, EntryGroups
<1>3. DetailInv'
  BY <1>1 DEF Inv, DetailInv, DetailHonest, TotpTimerHasItsRow
<1>4. DeletedStays'
  BY <1>1 DEF Inv, OfferedInv, DeletedStays
<1>5. CASE /\ vault_refresh_entries(entryGroup, clientLocked, sort_mode, text)
           /\ group_rows' \in {group_rows, NULL}
  <2>1. /\ entries' = NULL \/ entries' \in Seq(Listing)
        /\ rows' = Drawn(entries', filter_group_index)
        /\ clientLocked' \in BOOLEAN /\ trayLocked' \in BOOLEAN
        /\ cached_groups' \in {NULL, groupState}
        /\ DropDownOK(filter')
        /\ \A p \in DOMAIN filter'.model : filter'.model[p] \in ActiveIn(cached_groups')
    BY <1>2, <1>5, RefreshStep DEF Inv, ServiceTypeOK, ListInv
  <2>2. ServiceTypeOK'
    BY <1>1, <2>1 DEF Inv, ServiceTypeOK
  <2>3. ListInv'
    BY <1>1, <2>1 DEF Inv, ListInv
  <2>4. FormsInv'
    BY <1>1, <2>1 DEF Inv, FormsInv, ServiceTypeOK, Snapshots
  <2>5. GroupsInv'
    BY <1>1, <1>5 DEF Inv, GroupsInv, GroupsTypeOK
  <2>6. OfferedInv'
    BY <1>1, <2>1, OfferKept DEF Inv
  <2> QED BY <1>3, <2>2, <2>3, <2>4, <2>5, <2>6 DEF Inv
<1>6. CASE /\ section' = "groups"
           /\ UNCHANGED <<trayLocked, listVars, filter>>
           /\ \/ refresh_groups(groupState, clientLocked)
              \/ /\ group_rows' = NULL
                 /\ UNCHANGED clientLocked
  <2>1. group_rows' \in Snapshots /\ clientLocked' \in BOOLEAN
    BY <1>6 DEF refresh_groups, LockedAfter, Inv, ServiceTypeOK, Snapshots
  <2>2. ServiceTypeOK'
    BY <1>1, <1>6, <2>1 DEF Inv, ServiceTypeOK
  <2>3. ListInv' /\ FormsInv'
    BY <1>1, <1>6 DEF Inv, ListInv, FormsInv
  <2>4. GroupsInv'
    BY <1>1, <2>1 DEF Inv, GroupsInv, GroupsTypeOK, Snapshots
  <2>5. OfferedInv'
    BY <1>4, <1>6 DEF OfferedInv, NoGroupDeletedHereIsOffered
  <2> QED BY <1>3, <2>2, <2>3, <2>4, <2>5 DEF Inv
<1> QED
  <2>1. CASE ShowMainWindow
    BY <1>5, <2>1 DEF ShowMainWindow
  <2>2. ASSUME NEW s \in Sections, on_sidebar_row_selected(s)
        PROVE  Inv'
    <3>1. CASE s = "vault"
      <4>1. vault_refresh_entries(entryGroup, clientLocked, sort_mode, text) /\ group_rows' = NULL
        BY <2>2, <3>1 DEF on_sidebar_row_selected
      <4> QED BY <1>5, <4>1
    <3>2. CASE s = "groups" /\ view_stack = "list"
      <4>1. /\ section' = "groups"
            /\ UNCHANGED <<trayLocked, listVars, filter>>
            /\ refresh_groups(groupState, clientLocked)
        BY <2>2, <3>2 DEF on_sidebar_row_selected
      <4> QED BY <1>6, <4>1
    <3>3. CASE s = "groups" /\ view_stack # "list"
      <4>1. /\ section' = "groups"
            /\ UNCHANGED <<lockVars, listVars, filter>>
            /\ group_rows' = NULL
        BY <2>2, <3>3 DEF on_sidebar_row_selected
      <4> QED BY <1>6, <4>1
    <3> QED BY <3>1, <3>2, <3>3 DEF Sections
  <2> QED BY <2>1, <2>2

-----------------------------------------------------------------------------
(* Steps of the panel and of the forms *)

LEMMA RowEntry ==
  ASSUME ListInv, NEW r \in DOMAIN rows
  PROVE  /\ entries # NULL /\ rows[r].index \in DOMAIN entries
         /\ entries[rows[r].index].slot \in Slots
<1>1. CASE entries = NULL
  BY <1>1 DEF ListInv, Drawn
<1>2. CASE entries # NULL
  <2>1. entries \in Seq(Listing) /\ rows = EntryRows(entries, filter_group_index)
    BY <1>2 DEF ListInv, Drawn
  <2>2. rows[r].index \in DOMAIN entries
    BY <2>1, RowsDrawn
  <2>3. \A i \in DOMAIN entries : entries[i] \in Listing
    BY <2>1, LenProperties, ElementOfSeq
  <2> QED BY <1>2, <2>2, <2>3 DEF Listing
<1> QED BY <1>1, <1>2

LEMMA EmptyDropDownOK == DropDownOK(EmptyDropDown)
<1>1. <<>> \in Seq(Groups) /\ Len(<<>>) = 0
  OBVIOUS
<1> QED BY <1>1 DEF DropDownOK, DropDowns, EmptyDropDown

(* The panel emptied, and the panel that shows an entry.                   *)
LEMMA PanelCleared ==
  ASSUME vault_clear_detail, dialog' = FALSE, running' \in BOOLEAN
  PROVE  DetailInv' /\ DropDownOK(edit)'
BY EmptyDropDownOK
   DEF vault_clear_detail, DetailInv, DetailHonest, TotpTimerHasItsRow, NoTotp

LEMMA PanelShown ==
  ASSUME NEW slot \in Slots, vault_show_detail(slot), dialog' = FALSE, running' \in BOOLEAN
  PROVE  DetailInv' /\ DropDownOK(edit)'
<1>1. slot # NULL
  BY ServiceAssumption
<1>2. CASE slot \in HasTotp
  BY <1>1, <1>2, EmptyDropDownOK
     DEF vault_show_detail, DetailInv, DetailHonest, TotpTimerHasItsRow
<1>3. CASE slot \notin HasTotp
  BY <1>1, <1>3, EmptyDropDownOK
     DEF vault_show_detail, DetailInv, DetailHonest, TotpTimerHasItsRow, NoTotp
<1> QED BY <1>2, <1>3

(* What the panel has is kept while it is left alone.                      *)
LEMMA PanelKept ==
  ASSUME Inv, UNCHANGED <<selected_id, page, editing, totp, dialog>>, running' \in BOOLEAN
  PROVE  DetailInv'
BY DEF Inv, DetailInv, DetailHonest, TotpTimerHasItsRow

(* A choice in a drop-down is one of its positions.                        *)
LEMMA ChoiceOK ==
  ASSUME NEW d, DropDownOK(d), NEW p \in 0 .. Len(d.model)
  PROVE  DropDownOK([d EXCEPT !.selected = p])
<1>1. d = [model |-> d.model, selected |-> d.selected] /\ d.model \in Seq(Groups)
  BY DEF DropDownOK, DropDowns
<1>2. [d EXCEPT !.selected = p] = [model |-> d.model, selected |-> p]
  BY <1>1
<1> QED BY <1>1, <1>2, LenProperties DEF DropDownOK, DropDowns

(* A step that leaves the list and the filter as they are.                 *)
LEMMA ListKept ==
  ASSUME Inv, ServiceTypeOK', DetailInv',
         UNCHANGED <<groupState, entries, rows, sort_mode, filter_group_index, filter,
                     groupsVars, section>>,
         text' \in Texts, delayed' \in BOOLEAN, add_page' \in BOOLEAN,
         cached_groups' \in {cached_groups, NULL, groupState},
         DropDownOK(add)', DropDownOK(edit)'
  PROVE  Inv'
<1>1. ListInv' /\ GroupsInv'
  BY DEF Inv, ListInv, GroupsInv, GroupsTypeOK
<1>2. FormsInv'
  BY DEF Inv, FormsInv, ServiceTypeOK, Snapshots
<1>3. OfferedInv'
  BY OfferKept DEF Inv
<1> QED BY <1>1, <1>2, <1>3 DEF Inv

(* A step that fetches the list and the groups anew, from a vault that it  *)
(* may have written an entry of.                                           *)
LEMMA ListRefreshed ==
  ASSUME Inv, DetailInv',
         vault_refresh_entries(entryGroup', clientLocked, sort_mode, text),
         entryGroup' \in [Slots -> EntryGroups], changes' \in 0 .. MaxChange,
         UNCHANGED <<groupState, srvLocked, queryVars, groupsVars, section>>,
         add_page' \in BOOLEAN, DropDownOK(add)', DropDownOK(edit)'
  PROVE  Inv'
<1>1. /\ entries' = NULL \/ entries' \in Seq(Listing)
      /\ rows' = Drawn(entries', filter_group_index)
      /\ clientLocked' \in BOOLEAN /\ trayLocked' \in BOOLEAN
      /\ cached_groups' \in {NULL, groupState}
      /\ DropDownOK(filter')
      /\ \A p \in DOMAIN filter'.model : filter'.model[p] \in ActiveIn(cached_groups')
  BY RefreshStep DEF Inv, ServiceTypeOK, ListInv
<1>2. ServiceTypeOK'
  BY <1>1 DEF Inv, ServiceTypeOK, EntryGroups
<1>3. ListInv' /\ GroupsInv'
  BY <1>1 DEF Inv, ListInv, GroupsInv, GroupsTypeOK
<1>4. FormsInv'
  BY <1>1 DEF Inv, FormsInv, ServiceTypeOK, Snapshots
<1>5. OfferedInv'
  BY <1>1, OfferKept DEF Inv
<1> QED BY <1>2, <1>3, <1>4, <1>5 DEF Inv

(* A write is carried out only by an open vault that accepts it, and is    *)
(* counted.                                                                *)
LEMMA WriteTyped ==
  ASSUME ServiceTypeOK, NEW accepted \in BOOLEAN, NEW answer \in WriteAnswers(accepted),
         CountWrite(answer)
  PROVE  changes' \in 0 .. MaxChange /\ (Done(answer) => accepted)
<1>1. CASE srvLocked \/ ~accepted \/ changes = MaxChange
  <2>1. ~Done(answer)
    BY <1>1 DEF WriteAnswers, Refused, Answers, Done
  <2> QED BY <2>1 DEF CountWrite, ServiceTypeOK
<1>2. CASE ~(srvLocked \/ ~accepted \/ changes = MaxChange)
  <2>1. changes' = changes \/ changes' = changes + 1
    BY DEF CountWrite, ServiceTypeOK
  <2> QED BY <1>2, <2>1, ServiceAssumption DEF ServiceTypeOK
<1> QED BY <1>1, <1>2

(* The client's view of the lock after the answer of any call.             *)
LEMMA LockTyped ==
  ASSUME ServiceTypeOK, NEW answer
  PROVE  LockedAfter(clientLocked, answer) \in BOOLEAN
BY DEF ServiceTypeOK, LockedAfter

(* Steps that show an entry or empty the panel.                            *)
LEMMA PanelStep ==
  ASSUME Inv,
         \/ \E r \in DOMAIN rows : on_entry_row_activated(r)
         \/ on_edit_cancel_clicked \/ on_detail_key_pressed,
         UNCHANGED <<groupsVars, section, running>>
  PROVE  Inv'
<1>1. /\ UNCHANGED <<vaultVars, trayLocked, listVars, queryVars, filter, add, add_page>>
      /\ clientLocked' \in BOOLEAN
      /\ vault_clear_detail \/ \E slot \in Slots : vault_show_detail(slot)
      /\ dialog' = FALSE
  <2>1. CASE \E r \in DOMAIN rows : on_entry_row_activated(r)
    <3>1. PICK r \in DOMAIN rows : on_entry_row_activated(r)
      BY <2>1
    <3>2. entries[rows[r].index].slot \in Slots
      BY RowEntry DEF Inv
    <3>3. clientLocked' \in BOOLEAN
      BY <3>1, LockTyped DEF on_entry_row_activated, Inv
    <3> QED BY <3>1, <3>2, <3>3 DEF on_entry_row_activated, Inv, DetailInv
  <2>2. CASE on_edit_cancel_clicked
    <3>1. selected_id \in Slots
      BY <2>2 DEF on_edit_cancel_clicked, Inv, DetailInv, DetailHonest
    <3>2. clientLocked' \in BOOLEAN
      BY <2>2, LockTyped DEF on_edit_cancel_clicked, Inv
    <3> QED BY <2>2, <3>1, <3>2 DEF on_edit_cancel_clicked, Inv, DetailInv
  <2>3. CASE on_detail_key_pressed
    BY <2>3 DEF on_detail_key_pressed, Inv, DetailInv, ServiceTypeOK
  <2> QED BY <2>1, <2>2, <2>3
<1>2. DetailInv' /\ DropDownOK(edit)'
  BY <1>1, PanelCleared, PanelShown DEF Inv, DetailInv
<1>3. ServiceTypeOK'
  BY <1>1 DEF Inv, ServiceTypeOK
<1>4. DropDownOK(add)' /\ add_page' \in BOOLEAN
  BY <1>1 DEF Inv, FormsInv
<1> QED BY <1>1, <1>2, <1>3, <1>4, ListKept DEF Inv, ListInv

(* Steps that leave the panel as it is.                                    *)
LEMMA FormStep ==
  ASSUME Inv,
         \/ \E t \in Texts : TypeText(t)
         \/ on_generate_password
         \/ on_add_cancel_clicked
         \/ \E p \in 0 .. Cardinality(Groups) : ChooseAddGroup(p) \/ ChooseEditGroup(p),
         UNCHANGED <<groupsVars, section, running>>
  PROVE  Inv'
<1>1. /\ UNCHANGED <<vaultVars, trayLocked, listVars, sort_mode, filter_group_index, filter,
                     selected_id, page, editing, totp, dialog>>
      /\ clientLocked' \in BOOLEAN /\ text' \in Texts /\ delayed' \in BOOLEAN
      /\ add_page' \in BOOLEAN /\ DropDownOK(add)' /\ DropDownOK(edit)'
  <2>1. CASE \E t \in Texts : TypeText(t)
    BY <2>1 DEF TypeText, Inv, ListInv, FormsInv, ServiceTypeOK
  <2>2. CASE on_generate_password
    BY <2>2, LockTyped DEF on_generate_password, Inv, ListInv, FormsInv
  <2>3. CASE on_add_cancel_clicked
    BY <2>3, EmptyDropDownOK DEF on_add_cancel_clicked, Inv, ListInv, FormsInv, ServiceTypeOK
  <2>4. CASE \E p \in 0 .. Cardinality(Groups) : ChooseAddGroup(p)
    <3>1. PICK p : ChooseAddGroup(p)
      BY <2>4
    <3>2. DropDownOK(add')
      BY <3>1, ChoiceOK DEF ChooseAddGroup, Inv, FormsInv
    <3> QED BY <3>1, <3>2 DEF ChooseAddGroup, Inv, ListInv, FormsInv, ServiceTypeOK
  <2>5. CASE \E p \in 0 .. Cardinality(Groups) : ChooseEditGroup(p)
    <3>1. PICK p : ChooseEditGroup(p)
      BY <2>5
    <3>2. DropDownOK(edit')
      BY <3>1, ChoiceOK DEF ChooseEditGroup, Inv, FormsInv
    <3> QED BY <3>1, <3>2 DEF ChooseEditGroup, Inv, ListInv, FormsInv, ServiceTypeOK
  <2> QED BY <2>1, <2>2, <2>3, <2>4, <2>5
<1>2. DetailInv'
  BY <1>1, PanelKept DEF Inv, DetailInv
<1>3. ServiceTypeOK'
  BY <1>1 DEF Inv, ServiceTypeOK
<1> QED BY <1>1, <1>2, <1>3, ListKept

(* The timer asks for a code.                                              *)
LEMMA TickStep ==
  ASSUME Inv, vault_update_totp, UNCHANGED <<groupsVars, section>>
  PROVE  Inv'
<1>1. UNCHANGED <<vaultVars, trayLocked, viewVars>> /\ running' \in BOOLEAN
  BY DEF vault_update_totp
<1>2. clientLocked' \in BOOLEAN
  BY LockTyped DEF vault_update_totp, Inv
<1>3. DetailInv'
  BY <1>1, PanelKept
<1>4. ServiceTypeOK'
  BY <1>1, <1>2 DEF Inv, ServiceTypeOK
<1>5. DropDownOK(add)' /\ DropDownOK(edit)' /\ add_page' \in BOOLEAN
  BY <1>1 DEF Inv, FormsInv
<1> QED BY <1>1, <1>3, <1>4, <1>5, ListKept DEF Inv, ListInv

(* The two forms open over a list of groups fetched for them.              *)
LEMMA OpenStep ==
  ASSUME Inv, on_add_button_clicked \/ on_edit_clicked \/ on_delete_clicked,
         UNCHANGED <<groupsVars, section, running>>
  PROVE  Inv'
<1>1. ASSUME NEW answer, vault_refresh_group_dropdown(answer)
      PROVE  /\ cached_groups' \in {NULL, groupState}
             /\ clientLocked' \in BOOLEAN /\ trayLocked' = trayLocked
             /\ DropDownOK(vault_populate_group_dropdown(cached_groups'))
             /\ \A group : LET d == vault_populate_group_dropdown(cached_groups')
                           IN DropDownOK([d EXCEPT !.selected = PositionOf(d.model, group)])
  <2>1. cached_groups' \in {NULL, groupState}
    BY <1>1 DEF vault_refresh_group_dropdown, GroupList
  <2>2. cached_groups' \in Snapshots
    BY <2>1 DEF Snapshots, Inv, ServiceTypeOK
  <2>3. clientLocked' \in BOOLEAN /\ trayLocked' = trayLocked
    BY <1>1, LockTyped DEF vault_refresh_group_dropdown, Inv
  <2> QED BY <2>1, <2>2, <2>3, PlacedOK
<1>2. CASE on_add_button_clicked
  <2>1. PICK answer : vault_refresh_group_dropdown(answer)
    BY <1>2 DEF on_add_button_clicked
  <2>2. DropDownOK(add)' /\ add_page' = TRUE
    BY <1>1, <1>2, <2>1 DEF on_add_button_clicked
  <2>3. UNCHANGED <<vaultVars, entries, rows, queryVars, filter, detailVars, dialog>>
    BY <1>2 DEF on_add_button_clicked
  <2>4. DetailInv'
    BY <2>3, PanelKept DEF Inv, DetailInv
  <2>5. ServiceTypeOK' /\ DropDownOK(edit)'
    BY <1>1, <2>1, <2>3 DEF Inv, ServiceTypeOK, FormsInv
  <2> QED BY <1>1, <2>1, <2>2, <2>3, <2>4, <2>5, ListKept DEF Inv, ListInv
<1>3. CASE on_edit_clicked
  <2>1. PICK i, answer :
          /\ vault_refresh_group_dropdown(answer)
          /\ LET offered == vault_populate_group_dropdown(cached_groups')
             IN edit' = [offered EXCEPT !.selected = PositionOf(offered.model, entries[i].group)]
    BY <1>3 DEF on_edit_clicked
  <2>2. DropDownOK(edit)'
    BY <1>1, <2>1
  <2>3. /\ UNCHANGED <<vaultVars, entries, rows, queryVars, filter, add, add_page,
                       selected_id, page, dialog>>
        /\ ~editing /\ page = "detail" /\ editing' = TRUE
        /\ totp' = [totp EXCEPT !.row = IF totp.row = "shown" THEN "gone" ELSE totp.row]
    BY <1>3 DEF on_edit_clicked
  <2>4. DetailInv'
    BY <2>3 DEF Inv, DetailInv, DetailHonest, TotpTimerHasItsRow
  <2>5. ServiceTypeOK' /\ DropDownOK(add)' /\ add_page' \in BOOLEAN
    BY <1>1, <2>1, <2>3 DEF Inv, ServiceTypeOK, FormsInv
  <2> QED BY <1>1, <2>1, <2>2, <2>3, <2>4, <2>5, ListKept DEF Inv, ListInv
<1>4. CASE on_delete_clicked
  <2>1. /\ UNCHANGED <<vaultVars, lockVars, listVars, queryVars, filter, add, add_page, detailVars>>
        /\ page = "detail" /\ dialog' = TRUE
    BY <1>4 DEF on_delete_clicked
  <2>2. DetailInv'
    BY <2>1 DEF Inv, DetailInv, DetailHonest, TotpTimerHasItsRow
  <2>3. ServiceTypeOK' /\ DropDownOK(add)' /\ DropDownOK(edit)' /\ add_page' \in BOOLEAN
    BY <2>1 DEF Inv, ServiceTypeOK, FormsInv
  <2> QED BY <2>1, <2>2, <2>3, ListKept DEF Inv, ListInv
<1> QED BY <1>2, <1>3, <1>4

(* Another group is chosen to filter by.                                   *)
LEMMA FilterStep ==
  ASSUME Inv, NEW p, on_group_filter_changed(p), UNCHANGED <<groupsVars, section, running>>
  PROVE  Inv'
<1>1. /\ UNCHANGED <<vaultVars, cached_groups, text, delayed, sort_mode, add, add_page,
                     detailVars, dialog>>
      /\ p \in 0 .. Len(filter.model)
      /\ filter' = [filter EXCEPT !.selected = p]
      /\ filter_group_index' = IF p = 0 THEN All
                               ELSE vault_get_group_index_from_dropdown(cached_groups, p)
      /\ vault_rebuild_list(entryGroup, clientLocked, sort_mode, text, filter_group_index')
  BY DEF on_group_filter_changed
<1>2. entryGroup \in [Slots -> EntryGroups]
  BY DEF Inv, ServiceTypeOK, EntryGroups
<1>3. /\ entries' = NULL \/ entries' \in Seq(Listing)
      /\ rows' = Drawn(entries', filter_group_index')
      /\ clientLocked' \in BOOLEAN /\ trayLocked' \in BOOLEAN
  BY <1>1, <1>2, RebuildStep DEF Inv, ServiceTypeOK, ListInv
<1>4. filter_group_index' \in Groups \cup {All}
  BY <1>1, GroupChosen DEF Inv, FormsInv, All
<1>5. DropDownOK(filter') /\ filter'.model = filter.model
  <2>1. filter \in DropDowns /\ DropDownOK(filter)
    BY DEF Inv, FormsInv, DropDownOK
  <2>2. DropDownOK([filter EXCEPT !.selected = p])
    BY <1>1, <2>1, ChoiceOK
  <2>3. [filter EXCEPT !.selected = p].model = filter.model
    BY <2>1 DEF DropDowns
  <2> QED BY <1>1, <2>2, <2>3
<1>6. ServiceTypeOK'
  BY <1>1, <1>3 DEF Inv, ServiceTypeOK
<1>7. ListInv'
  BY <1>1, <1>3, <1>4 DEF Inv, ListInv
<1>8. FormsInv' /\ GroupsInv'
  BY <1>1, <1>5 DEF Inv, FormsInv, GroupsInv, GroupsTypeOK
<1>9. DetailInv'
  BY <1>1, PanelKept DEF Inv, DetailInv
<1>10. OfferedInv'
  BY <1>1, <1>5, OfferKept DEF Inv
<1> QED BY <1>6, <1>7, <1>8, <1>9, <1>10 DEF Inv

-----------------------------------------------------------------------------
(* Writes: of an entry, by the dialog and the two forms *)

(* The question before a deletion, answered.                               *)
LEMMA DeleteStep ==
  ASSUME Inv, NEW delete, on_delete_response(delete),
         UNCHANGED <<groupsVars, section, running>>
  PROVE  Inv'
<1>1. dialog' = FALSE /\ UNCHANGED <<queryVars, add, add_page>>
  BY DEF on_delete_response
<1>2. DropDownOK(add)' /\ add_page' \in BOOLEAN
  BY <1>1 DEF Inv, FormsInv
<1>3. CASE ~delete \/ selected_id = NULL
  <2>1. UNCHANGED <<vaultVars, lockVars, listVars, filter, detailVars>>
    BY <1>3 DEF on_delete_response
  <2>2. DetailInv'
    BY <1>1, <2>1 DEF Inv, DetailInv, DetailHonest, TotpTimerHasItsRow
  <2>3. ServiceTypeOK' /\ DropDownOK(edit)'
    BY <2>1 DEF Inv, ServiceTypeOK, FormsInv
  <2> QED BY <1>1, <1>2, <2>1, <2>2, <2>3, ListKept DEF Inv, ListInv
<1>4. CASE ~(~delete \/ selected_id = NULL)
  <2> DEFINE accepted == entryGroup[selected_id] # Absent
  <2>1. PICK answer \in WriteAnswers(accepted) :
          /\ CountWrite(answer)
          /\ entryGroup' = IF Done(answer) THEN [entryGroup EXCEPT ![selected_id] = Absent]
                           ELSE entryGroup
          /\ IF answer = "ok"
               THEN /\ vault_clear_detail
                    /\ vault_refresh_entries(entryGroup', clientLocked, sort_mode, text)
             ELSE /\ clientLocked' = LockedAfter(clientLocked, answer)
                  /\ UNCHANGED <<trayLocked, listVars, filter, detailVars>>
          /\ UNCHANGED <<groupState, srvLocked>>
    BY <1>4 DEF on_delete_response
  <2> HIDE DEF accepted
  <2>2. changes' \in 0 .. MaxChange
    BY <2>1, WriteTyped DEF Inv, accepted
  <2>3. entryGroup' \in [Slots -> EntryGroups]
    BY <2>1 DEF Inv, ServiceTypeOK, EntryGroups
  <2>4. CASE answer = "ok"
    <3>1. DetailInv' /\ DropDownOK(edit)'
      BY <1>1, <2>1, <2>4, PanelCleared DEF Inv, DetailInv
    <3> QED BY <1>1, <1>2, <2>1, <2>2, <2>3, <2>4, <3>1, ListRefreshed
  <2>5. CASE answer # "ok"
    <3>1. clientLocked' \in BOOLEAN /\ UNCHANGED <<trayLocked, listVars, filter, detailVars>>
      BY <2>1, <2>5, LockTyped DEF Inv
    <3>2. DetailInv'
      BY <1>1, <3>1 DEF Inv, DetailInv, DetailHonest, TotpTimerHasItsRow
    <3>3. ServiceTypeOK' /\ DropDownOK(edit)'
      BY <2>1, <2>2, <2>3, <3>1 DEF Inv, ServiceTypeOK, FormsInv, EntryGroups
    <3> QED BY <1>1, <1>2, <2>1, <3>1, <3>2, <3>3, ListKept DEF Inv, ListInv
  <2> QED BY <2>4, <2>5
<1> QED BY <1>3, <1>4

(* The edit form saved.                                                    *)
LEMMA EditSaveStep ==
  ASSUME Inv, on_edit_save_clicked, UNCHANGED <<groupsVars, section, running>>
  PROVE  Inv'
<1> DEFINE group == vault_get_group_index_from_dropdown(cached_groups, edit.selected)
           updated == UpdatedGroup(entryGroup[selected_id], group, edit.selected = 0)
           moved == [entryGroup EXCEPT ![selected_id] = updated]
           accepted == entryGroup[selected_id] # Absent
<1>1. /\ UNCHANGED <<groupState, srvLocked, queryVars, add, add_page, dialog>>
      /\ ~dialog /\ editing
  BY DEF on_edit_save_clicked
<1>2. selected_id \in Slots
  BY <1>1 DEF Inv, DetailInv, DetailHonest
<1>3. group \in Groups \cup {None}
  BY GroupChosen DEF Inv, FormsInv, None
<1>4. entryGroup[selected_id] \in EntryGroups
  BY <1>2 DEF Inv, ServiceTypeOK, EntryGroups
<1>5. PICK answer \in WriteAnswers(accepted) :
        /\ CountWrite(answer)
        /\ entryGroup' = IF Done(answer) THEN moved ELSE entryGroup
        /\ IF answer = "ok"
             THEN /\ vault_refresh_entries(moved, clientLocked, sort_mode, text)
                  /\ ReloadDetail(moved)
           ELSE /\ clientLocked' = LockedAfter(clientLocked, answer)
                /\ UNCHANGED <<trayLocked, listVars, filter, detailVars>>
  BY DEF on_edit_save_clicked
<1> HIDE DEF group, accepted
<1>6. updated \in EntryGroups
  BY <1>3, <1>4 DEF UpdatedGroup, EntryGroups
<1> HIDE DEF updated
<1>7. moved \in [Slots -> EntryGroups]
  BY <1>6 DEF Inv, ServiceTypeOK, EntryGroups
<1> HIDE DEF moved
<1>8. changes' \in 0 .. MaxChange
  BY <1>5, WriteTyped DEF Inv, accepted
<1>9. entryGroup' \in [Slots -> EntryGroups]
  BY <1>5, <1>7 DEF Inv, ServiceTypeOK, EntryGroups
<1>10. DropDownOK(add)' /\ add_page' \in BOOLEAN
  BY <1>1 DEF Inv, FormsInv
<1>11. CASE answer = "ok"
  <2>1. entryGroup' = moved /\ vault_refresh_entries(entryGroup', clientLocked, sort_mode, text)
    BY <1>5, <1>11 DEF Done
  <2>2. vault_show_detail(selected_id) \/ vault_clear_detail
    BY <1>5, <1>11 DEF ReloadDetail
  <2>3. DetailInv' /\ DropDownOK(edit)'
    BY <1>1, <1>2, <2>2, PanelCleared, PanelShown DEF Inv, DetailInv
  <2> QED BY <1>1, <1>8, <1>9, <1>10, <2>1, <2>3, ListRefreshed
<1>12. CASE answer # "ok"
  <2>1. clientLocked' \in BOOLEAN /\ UNCHANGED <<trayLocked, listVars, filter, detailVars>>
    BY <1>5, <1>12, LockTyped DEF Inv
  <2>2. DetailInv'
    BY <1>1, <2>1, PanelKept DEF Inv, DetailInv
  <2>3. ServiceTypeOK' /\ DropDownOK(edit)'
    BY <1>1, <1>8, <1>9, <2>1 DEF Inv, ServiceTypeOK, FormsInv, EntryGroups
  <2> QED BY <1>1, <1>10, <2>1, <2>2, <2>3, ListKept DEF Inv, ListInv
<1> QED BY <1>11, <1>12

(* The add form saved.                                                     *)
LEMMA AddSaveStep ==
  ASSUME Inv, on_add_save_clicked, UNCHANGED <<groupsVars, section, running>>
  PROVE  Inv'
<1> DEFINE group == vault_get_group_index_from_dropdown(cached_groups, add.selected)
           free == {s \in Slots : entryGroup[s] = Absent}
           accepted == free # {}
<1>1. UNCHANGED <<groupState, srvLocked, queryVars, dialog>> /\ ~dialog
  BY DEF on_add_save_clicked
<1>2. group \in Groups \cup {None}
  BY GroupChosen DEF Inv, FormsInv, None
<1>3. PICK answer \in WriteAnswers(accepted) :
        /\ CountWrite(answer)
        /\ IF Done(answer)
             THEN \E s \in free : entryGroup' = [entryGroup EXCEPT ![s] = group]
           ELSE UNCHANGED entryGroup
        /\ IF answer = "ok"
             THEN /\ add_page' = FALSE
                  /\ add' = EmptyDropDown
                  /\ vault_refresh_entries(entryGroup', clientLocked, sort_mode, text)
                  /\ vault_clear_detail
           ELSE /\ clientLocked' = LockedAfter(clientLocked, answer)
                /\ UNCHANGED <<trayLocked, listVars, filter, detailVars, add, add_page>>
  BY DEF on_add_save_clicked
<1> HIDE DEF group, accepted
<1>4. changes' \in 0 .. MaxChange
  BY <1>3, WriteTyped DEF Inv, accepted
<1>5. entryGroup' \in [Slots -> EntryGroups]
  BY <1>2, <1>3 DEF Inv, ServiceTypeOK, EntryGroups
<1>6. CASE answer = "ok"
  <2>1. DetailInv' /\ DropDownOK(edit)'
    BY <1>1, <1>3, <1>6, PanelCleared DEF Inv, DetailInv
  <2> QED BY <1>1, <1>3, <1>4, <1>5, <1>6, <2>1, EmptyDropDownOK, ListRefreshed
<1>7. CASE answer # "ok"
  <2>1. /\ clientLocked' \in BOOLEAN
        /\ UNCHANGED <<trayLocked, listVars, filter, detailVars, add, add_page>>
    BY <1>3, <1>7, LockTyped DEF Inv
  <2>2. DetailInv'
    BY <1>1, <2>1, PanelKept DEF Inv, DetailInv
  <2>3. ServiceTypeOK' /\ DropDownOK(edit)' /\ DropDownOK(add)' /\ add_page' \in BOOLEAN
    BY <1>1, <1>4, <1>5, <2>1 DEF Inv, ServiceTypeOK, FormsInv, EntryGroups
  <2> QED BY <1>1, <2>1, <2>2, <2>3, ListKept DEF Inv, ListInv
<1> QED BY <1>6, <1>7

-----------------------------------------------------------------------------
(* The groups section, and the vault's other users *)

(* A change of the groups keeps the deleted ones deleted.                  *)
LEMMA GroupsKept ==
  ASSUME Inv, GroupsSection, UNCHANGED running
  PROVE  Inv'
<1>1. /\ UNCHANGED <<viewVars, section, running, entryGroup, srvLocked, trayLocked>>
      /\ section = "groups" /\ GroupsNext
  BY DEF GroupsSection, GroupsNext, on_row_edit, on_row_delete, on_add_clicked,
         on_save_clicked, on_cancel_clicked
<1>2. /\ groupState' \in [Groups -> GroupStates] /\ changes' \in 0 .. MaxChange
      /\ clientLocked' \in BOOLEAN
      /\ GroupsTypeOK'
      /\ DeletedStays'
  <2>1. ASSUME NEW state \in [Groups -> GroupStates], NEW locked \in BOOLEAN,
               refresh_groups(state, locked)
        PROVE  group_rows' \in [Groups -> GroupStates] \cup {NULL} /\ clientLocked' \in BOOLEAN
    BY <2>1 DEF refresh_groups, LockedAfter
  <2>2. CASE (\E g \in Groups : on_row_edit(g)) \/ on_add_clicked
    BY <1>1, <2>2 DEF on_row_edit, on_add_clicked, Inv, ServiceTypeOK, GroupsInv, GroupsTypeOK,
                      OfferedInv, DeletedStays
  <2>3. CASE on_cancel_clicked
    <3>1. refresh_groups(groupState, clientLocked) /\ UNCHANGED <<vaultVars, deletedHere>>
          /\ view_stack' = "list" /\ edit_index' = -1
      BY <2>3 DEF on_cancel_clicked
    <3>2. group_rows' \in [Groups -> GroupStates] \cup {NULL} /\ clientLocked' \in BOOLEAN
      BY <2>1, <3>1 DEF Inv, ServiceTypeOK
    <3> QED BY <3>1, <3>2 DEF Inv, ServiceTypeOK, GroupsInv, GroupsTypeOK, OfferedInv, DeletedStays
  <2>4. CASE on_save_clicked
    <3> DEFINE next == {g \in Groups : NextGroup(g)}
               accepted == IF edit_index < 0 THEN next # {} ELSE groupState[edit_index] = "active"
    <3>1. PICK answer \in WriteAnswers(accepted) :
            /\ CountWrite(answer)
            /\ groupState' = [g \in Groups |->
                                IF Done(answer) /\ edit_index < 0 /\ g \in next
                                  THEN "active" ELSE groupState[g]]
            /\ refresh_groups(groupState', LockedAfter(clientLocked, answer))
      BY <2>4 DEF on_save_clicked
    <3>2. accepted \in BOOLEAN
      OBVIOUS
    <3> HIDE DEF accepted
    <3>3. changes' \in 0 .. MaxChange
      BY <3>1, <3>2, WriteTyped DEF Inv
    <3>4. groupState' \in [Groups -> GroupStates]
      BY <3>1 DEF Inv, ServiceTypeOK, GroupStates
    <3>5. group_rows' \in [Groups -> GroupStates] \cup {NULL} /\ clientLocked' \in BOOLEAN
      BY <2>1, <3>1, <3>4, LockTyped DEF Inv
    <3>6. \A g \in Groups : groupState[g] # "absent" => groupState'[g] = groupState[g]
      BY <3>1 DEF NextGroup
    <3>7. view_stack' = "list" /\ edit_index' = -1 /\ deletedHere' = deletedHere
      BY <2>4 DEF on_save_clicked
    <3>8. GroupsTypeOK'
      BY <3>5, <3>7 DEF Inv, GroupsInv, GroupsTypeOK
    <3>9. DeletedStays'
      BY <3>6, <3>7 DEF Inv, GroupsInv, GroupsTypeOK, OfferedInv, DeletedStays
    <3> QED BY <3>3, <3>4, <3>5, <3>8, <3>9
  <2>5. CASE \E g \in Groups : on_row_delete(g)
    <3>1. PICK g \in Groups : on_row_delete(g)
      BY <2>5
    <3> DEFINE wanted == IF group_rows[g] = "deleted" THEN "purged" ELSE "deleted"
               accepted == groupState[g] \in DOMAIN NextState /\ NextState[groupState[g]] = wanted
    <3>2. PICK answer \in WriteAnswers(accepted) :
            /\ CountWrite(answer)
            /\ groupState' = IF Done(answer) THEN [groupState EXCEPT ![g] = wanted]
                             ELSE groupState
            /\ deletedHere' = IF Done(answer) THEN deletedHere \cup {g} ELSE deletedHere
            /\ refresh_groups(groupState', LockedAfter(clientLocked, answer))
      BY <3>1 DEF on_row_delete
    <3>3. accepted \in BOOLEAN /\ wanted \in {"deleted", "purged"}
      OBVIOUS
    <3> HIDE DEF accepted, wanted
    <3>4. changes' \in 0 .. MaxChange
      BY <3>2, <3>3, WriteTyped DEF Inv
    <3>5. groupState' \in [Groups -> GroupStates]
      BY <3>2, <3>3 DEF Inv, ServiceTypeOK, GroupStates
    <3>6. group_rows' \in [Groups -> GroupStates] \cup {NULL} /\ clientLocked' \in BOOLEAN
      BY <2>1, <3>2, <3>5, LockTyped DEF Inv
    <3>7. UNCHANGED <<view_stack, edit_index>>
      BY <3>1 DEF on_row_delete
    <3>8. GroupsTypeOK'
      BY <3>2, <3>6, <3>7 DEF Inv, GroupsInv, GroupsTypeOK
    <3>9. DeletedStays'
      BY <3>2, <3>3 DEF Inv, ServiceTypeOK, GroupsInv, GroupsTypeOK, OfferedInv, DeletedStays
    <3> QED BY <3>4, <3>5, <3>6, <3>8, <3>9
  <2> QED BY <1>1, <2>2, <2>3, <2>4, <2>5 DEF GroupsNext
<1>3. ServiceTypeOK'
  BY <1>1, <1>2 DEF Inv, ServiceTypeOK
<1>4. ListInv' /\ FormsInv'
  BY <1>1 DEF Inv, ListInv, FormsInv
<1>5. DetailInv'
  BY <1>1, PanelKept DEF Inv, DetailInv
<1>6. GroupsInv' /\ OfferedInv'
  BY <1>1, <1>2 DEF Inv, GroupsInv, OfferedInv, NoGroupDeletedHereIsOffered
<1> QED BY <1>3, <1>4, <1>5, <1>6 DEF Inv

LEMMA OthersStep ==
  ASSUME Inv, Others, UNCHANGED running
  PROVE  Inv'
<1>1. UNCHANGED <<viewVars, groupsVars, section, running>>
  BY DEF Others
<1>2. ServiceTypeOK' /\ (\A g \in Groups : groupState[g] \in {"deleted", "purged"}
                                           => groupState'[g] \in {"deleted", "purged"})
  <2>1. ASSUME OthersChange
        PROVE  changes' \in 0 .. MaxChange /\ UNCHANGED lockVars
    BY <2>1, ServiceAssumption DEF OthersChange, Inv, ServiceTypeOK
  <2>2. CASE \E s \in Slots, g \in Groups \cup {None, Absent} : EntryChanges(s, g)
    BY <2>1, <2>2 DEF EntryChanges, Inv, ServiceTypeOK
  <2>3. CASE \E g \in Groups : GroupChanges(g)
    <3> PICK g \in Groups : GroupChanges(g)
      BY <2>3
    <3>1. /\ OthersChange /\ UNCHANGED <<entryGroup, srvLocked>>
          /\ groupState[g] \in DOMAIN NextState
          /\ groupState' = [groupState EXCEPT ![g] = NextState[groupState[g]]]
      BY DEF GroupChanges
    <3>2. NextState[groupState[g]] \in GroupStates
      BY <3>1 DEF NextState, GroupStates
    <3>3. groupState[g] = "deleted" => NextState[groupState[g]] = "purged"
      BY DEF NextState
    <3>4. groupState[g] # "purged"
      BY <3>1 DEF NextState
    <3>5. ServiceTypeOK'
      BY <2>1, <3>1, <3>2 DEF Inv, ServiceTypeOK
    <3>6. \A h \in Groups : groupState'[h] = IF h = g THEN NextState[groupState[g]]
                                             ELSE groupState[h]
      BY <3>1 DEF Inv, ServiceTypeOK
    <3> QED BY <3>3, <3>4, <3>5, <3>6
  <2>4. CASE VaultLocks
    BY <2>1, <2>4 DEF VaultLocks, Inv, ServiceTypeOK
  <2>5. CASE Unlock
    BY <2>5 DEF Unlock, Inv, ServiceTypeOK
  <2> QED BY <2>2, <2>3, <2>4, <2>5 DEF Others
<1>3. ListInv' /\ FormsInv' /\ GroupsInv'
  BY <1>1 DEF Inv, ListInv, FormsInv, GroupsInv, GroupsTypeOK
<1>4. DetailInv'
  BY <1>1, PanelKept DEF Inv, DetailInv
<1>5. OfferedInv'
  BY <1>1, <1>2 DEF Inv, GroupsInv, GroupsTypeOK, OfferedInv, DeletedStays, NoGroupDeletedHereIsOffered
<1> QED BY <1>2, <1>3, <1>4, <1>5 DEF Inv

-----------------------------------------------------------------------------
(* The invariant *)

LEMMA InitInv == Init => Inv
<1> SUFFICES ASSUME Init PROVE Inv
  OBVIOUS
<1> USE DEF Init, InitService, InitView, InitGroups
<1>1. ServiceTypeOK
  <2>1. /\ entryGroup \in [Slots -> Groups \cup {None, Absent}]
        /\ groupState \in [Groups -> GroupStates]
        /\ changes \in 0 .. MaxChange
    BY ServiceAssumption
  <2>2. {srvLocked, clientLocked, trayLocked} \subseteq BOOLEAN
    OBVIOUS
  <2> QED BY <2>1, <2>2 DEF ServiceTypeOK
<1>2. ListInv
  <2>1. text \in Texts /\ sort_mode \in 0 .. 2
    <3>1. NoText \in Texts
      BY ViewAssumption
    <3> QED BY <3>1
  <2>2. delayed \in BOOLEAN /\ filter_group_index \in Groups \cup {All}
    OBVIOUS
  <2>3. rows = Drawn(entries, filter_group_index)
    BY DEF Drawn
  <2> QED BY <2>1, <2>2, <2>3 DEF ListInv
<1>3. FormsInv
  BY EmptyDropDownOK DEF FormsInv, Snapshots
<1>4. DetailInv
  BY DEF DetailInv, DetailHonest, TotpTimerHasItsRow, NoTotp
<1>5. GroupsInv
  BY DEF GroupsInv, GroupsTypeOK
<1>6. OfferedInv
  BY DEF OfferedInv, DeletedStays, NoGroupDeletedHereIsOffered
<1> QED BY <1>1, <1>2, <1>3, <1>4, <1>5, <1>6 DEF Inv

(* The steps of the vault section, whatever the section on screen.         *)
LEMMA VaultStep ==
  ASSUME Inv, Keys \/ Pointer, UNCHANGED <<groupsVars, section, running>>
  PROVE  Inv'
<1>1. CASE Keys
  BY <1>1, FormStep, ListStep, PanelStep DEF Keys
<1>2. CASE Pointer
  <2>1. CASE \/ \E r \in DOMAIN rows : on_entry_row_activated(r)
             \/ on_edit_cancel_clicked
    BY <2>1, PanelStep
  <2>2. CASE \E mode \in SortModes : on_sort_changed(mode)
    BY <2>2, ListStep
  <2>3. CASE \E p \in 0 .. Cardinality(Groups) : on_group_filter_changed(p)
    BY <2>3, FilterStep
  <2>4. CASE \E delete \in BOOLEAN : on_delete_response(delete)
    BY <2>4, DeleteStep
  <2>5. CASE on_delete_clicked \/ on_edit_clicked \/ on_add_button_clicked
    BY <2>5, OpenStep
  <2>6. CASE \/ \E p \in 0 .. Cardinality(Groups) : ChooseEditGroup(p)
             \/ \E p \in 0 .. Cardinality(Groups) : ChooseAddGroup(p)
             \/ on_generate_password \/ on_add_cancel_clicked
    BY <2>6, FormStep
  <2>7. CASE on_edit_save_clicked \/ on_add_save_clicked
    BY <2>7, EditSaveStep, AddSaveStep
  <2> QED BY <1>2, <2>1, <2>2, <2>3, <2>4, <2>5, <2>6, <2>7 DEF Pointer
<1> QED BY <1>1, <1>2

LEMMA NextKeepsInv == Inv /\ [Next]_vars => Inv'
<1> SUFFICES ASSUME Inv, [Next]_vars PROVE Inv'
  OBVIOUS
<1>1. CASE Tick
  BY <1>1, TickStep DEF Tick
<1>2. CASE ShowMainWindow /\ UNCHANGED running
  BY <1>2, SectionStep
<1>3. CASE (\E s \in Sections : on_sidebar_row_selected(s)) /\ UNCHANGED running
  BY <1>3, SectionStep
<1>4. CASE VaultSection /\ UNCHANGED running
  BY <1>4, VaultStep DEF VaultSection
<1>5. CASE GroupsSection /\ UNCHANGED running
  BY <1>5, GroupsKept
<1>6. CASE Announced /\ UNCHANGED running
  BY <1>6, ListStep DEF Announced
<1>7. CASE Others /\ UNCHANGED running
  BY <1>7, OthersStep
<1>8. CASE UNCHANGED vars
  <2>1. UNCHANGED <<vaultVars, lockVars, viewVars, running, groupsVars, section>>
    BY <1>8 DEF vars
  <2>2. DetailInv'
    BY <2>1, PanelKept DEF Inv, DetailInv
  <2>3. ServiceTypeOK' /\ DropDownOK(add)' /\ DropDownOK(edit)' /\ add_page' \in BOOLEAN
    BY <2>1 DEF Inv, ServiceTypeOK, FormsInv
  <2> QED BY <2>1, <2>2, <2>3, ListKept DEF Inv, ListInv
<1> QED BY <1>1, <1>2, <1>3, <1>4, <1>5, <1>6, <1>7, <1>8 DEF Next

(* The invariant holds throughout.                                         *)
THEOREM WindowInvariance == Spec => []Inv
<1>1. Init => Inv
  BY InitInv
<1>2. Inv /\ [Next]_vars => Inv'
  BY NextKeepsInv
<1> QED BY <1>1, <1>2, PTL DEF Spec

-----------------------------------------------------------------------------
(* The properties *)

(* Every variable has its type.                                            *)
THEOREM WindowTypeCorrect == Spec => []TypeOK
<1>1. Inv => TypeOK
  <2> SUFFICES ASSUME Inv PROVE TypeOK
    OBVIOUS
  <2>1. rows \in Seq([index : Nat, slot : Slots])
    <3>1. CASE entries = NULL
      <4>1. rows = <<>>
        BY <3>1 DEF Inv, ListInv, Drawn
      <4> QED BY <4>1, EmptySeq
    <3>2. CASE entries # NULL
      <4>1. entries \in Seq(Listing) /\ rows = EntryRows(entries, filter_group_index)
        BY <3>2 DEF Inv, ListInv, Drawn
      <4> QED BY <4>1, RowsDrawn
    <3> QED BY <3>1, <3>2
  <2>2. \A d \in {filter, add, edit} : d.model \in Seq(Groups) /\ d.selected \in 0 .. Len(d.model)
    <3>1. \A d : DropDownOK(d) => d.model \in Seq(Groups) /\ d.selected \in 0 .. Len(d.model)
      BY LenProperties DEF DropDownOK, DropDowns
    <3> QED BY <3>1 DEF Inv, FormsInv
  <2>3. ViewTypeOK
    BY <2>1, <2>2 DEF Inv, ListInv, FormsInv, DetailInv, ViewTypeOK, Listing, Snapshots
  <2> QED BY <2>3 DEF Inv, GroupsInv, TypeOK
<1> QED BY <1>1, WindowInvariance, PTL

(* Each row stands for the entry it shows, and the rows are all the        *)
(* entries that pass the filter, once each and in the order of the list,   *)
(* whatever arrangement the sort gave entries that compare equal.          *)
THEOREM RowsNameTheirEntriesCorrect == Spec => []RowsNameTheirEntries
<1>1. Inv => RowsNameTheirEntries
  <2> SUFFICES ASSUME Inv PROVE RowsNameTheirEntries
    OBVIOUS
  <2>1. CASE entries = NULL
    BY <2>1 DEF Inv, ListInv, Drawn, RowsNameTheirEntries
  <2>2. CASE entries # NULL
    <3>1. entries \in Seq(Listing) /\ rows = EntryRows(entries, filter_group_index)
      BY <2>2 DEF Inv, ListInv, Drawn
    <3> DEFINE passes(i) == filter_group_index = All \/ entries[i].group = filter_group_index
    <3>2. \A r \in DOMAIN rows : /\ rows[r].index \in DOMAIN entries
                                 /\ entries[rows[r].index].slot = rows[r].slot
                                 /\ passes(rows[r].index)
      BY <3>1, RowsDrawn
    <3>3. \A i \in DOMAIN entries : passes(i) => \E r \in DOMAIN rows : rows[r].index = i
      BY <3>1, RowsDrawn
    <3>4. \A q, r \in DOMAIN rows : q < r => rows[q].index < rows[r].index
      BY <3>1, RowsDrawn
    <3> QED BY <2>2, <3>2, <3>3, <3>4 DEF RowsNameTheirEntries
  <2> QED BY <2>1, <2>2
<1> QED BY <1>1, WindowInvariance, PTL

(* What the buttons of the detail panel act on is what the panel shows.    *)
THEOREM DetailHonestCorrect == Spec => []DetailHonest
<1>1. Inv => DetailHonest
  BY DEF Inv, DetailInv
<1> QED BY <1>1, WindowInvariance, PTL

(* The TOTP timer runs as long as there is a secret, and has its row       *)
(* except while the edit form has taken its place.                         *)
THEOREM TotpTimerHasItsRowCorrect == Spec => []TotpTimerHasItsRow
<1>1. Inv => TotpTimerHasItsRow
  BY DEF Inv, DetailInv
<1> QED BY <1>1, WindowInvariance, PTL

(* A group deleted in this window is not offered again, nor resolved by a  *)
(* form that still shows it.                                               *)
THEOREM NoGroupDeletedHereIsOfferedCorrect == Spec => []NoGroupDeletedHereIsOffered
<1>1. Inv => NoGroupDeletedHereIsOffered
  BY DEF Inv, OfferedInv
<1> QED BY <1>1, WindowInvariance, PTL

(* The group a position stands for in an up-to-date drop-down is the one   *)
(* the drop-down shows there.                                              *)
LEMMA ChosenIsOffered ==
  ASSUME Inv, NEW d, DropDownOK(d), UpToDate(d)
  PROVE  LET group == vault_get_group_index_from_dropdown(cached_groups, d.selected)
         IN /\ group = Offered(d)
            /\ d.selected # 0 => group >= 0
<1> DEFINE model == vault_populate_group_dropdown(cached_groups).model
           group == vault_get_group_index_from_dropdown(cached_groups, d.selected)
<1>1. /\ group = IF d.selected \in 1 .. Len(model) THEN model[d.selected] ELSE -1
      /\ model \in Seq(Groups) /\ Len(model) \in Nat
  BY GroupChosen, Populated DEF Inv, FormsInv
<1>2. d.model = model /\ d.selected \in Nat /\ d.selected <= Len(model)
  BY DEF UpToDate, DropDownOK, DropDowns
<1> HIDE DEF model, group
<1>3. d.selected = 0 => group = Offered(d)
  BY <1>1 DEF Offered, None
<1>4. ASSUME d.selected # 0
      PROVE  group = Offered(d) /\ group >= 0
  <2>1. d.selected \in 1 .. Len(model)
    BY <1>1, <1>2, <1>4
  <2>2. model[d.selected] \in Groups
    BY <1>1, <2>1, ElementOfSeq
  <2>3. group = model[d.selected] /\ group >= 0
    BY <1>1, <2>1, <2>2, ServiceAssumption
  <2> QED BY <1>2, <1>4, <2>3 DEF Offered
<1> QED BY <1>3, <1>4 DEF group

(* A form that saves stores the group its drop-down shows, as long as the  *)
(* active groups are the ones the drop-down was filled from.               *)
THEOREM SavesWhatItShowsCorrect == Spec => SavesWhatItShows
<1>1. ASSUME Inv, on_edit_save_clicked, ~editing', UpToDate(edit)
      PROVE  entryGroup'[selected_id] = Offered(edit)
  <2> DEFINE group == vault_get_group_index_from_dropdown(cached_groups, edit.selected)
             updated == UpdatedGroup(entryGroup[selected_id], group, edit.selected = 0)
             moved == [entryGroup EXCEPT ![selected_id] = updated]
             accepted == entryGroup[selected_id] # Absent
  <2>1. PICK answer \in WriteAnswers(accepted) :
          /\ entryGroup' = IF Done(answer) THEN moved ELSE entryGroup
          /\ answer # "ok" => UNCHANGED detailVars
    BY <1>1 DEF on_edit_save_clicked
  <2>2. editing /\ selected_id \in Slots
    BY <1>1 DEF on_edit_save_clicked, Inv, DetailInv, DetailHonest
  <2>3. answer = "ok"
    BY <1>1, <2>1, <2>2
  <2>4. entryGroup'[selected_id] = updated
    BY <1>1, <2>1, <2>2, <2>3 DEF Done, Inv, ServiceTypeOK
  <2>5. group = Offered(edit) /\ (edit.selected # 0 => group >= 0)
    BY <1>1, ChosenIsOffered DEF Inv, FormsInv
  <2> HIDE DEF group
  <2> QED BY <2>4, <2>5 DEF UpdatedGroup, Offered
<1>2. ASSUME Inv, on_add_save_clicked, ~add_page', UpToDate(add)
      PROVE  \E s \in Slots : entryGroup[s] = Absent /\ entryGroup'[s] = Offered(add)
  <2> DEFINE group == vault_get_group_index_from_dropdown(cached_groups, add.selected)
             free == {s \in Slots : entryGroup[s] = Absent}
  <2>1. PICK answer \in WriteAnswers(free # {}) :
          /\ IF Done(answer)
               THEN \E s \in free : entryGroup' = [entryGroup EXCEPT ![s] = group]
             ELSE UNCHANGED entryGroup
          /\ answer # "ok" => UNCHANGED add_page
    BY <1>2 DEF on_add_save_clicked
  <2>2. add_page /\ answer = "ok"
    BY <1>2, <2>1 DEF on_add_save_clicked
  <2>3. PICK s \in free : entryGroup' = [entryGroup EXCEPT ![s] = group]
    BY <2>1, <2>2 DEF Done
  <2>4. group = Offered(add)
    BY <1>2, ChosenIsOffered DEF Inv, FormsInv
  <2> HIDE DEF group
  <2>5. entryGroup[s] = Absent /\ entryGroup'[s] = Offered(add)
    BY <1>2, <2>3, <2>4 DEF Inv, ServiceTypeOK
  <2> QED BY <2>3, <2>5
<1>3. Inv => (/\ on_edit_save_clicked /\ ~editing' /\ UpToDate(edit)
                   => entryGroup'[selected_id] = Offered(edit)
              /\ on_add_save_clicked /\ ~add_page' /\ UpToDate(add)
                   => \E s \in Slots : entryGroup[s] = Absent /\ entryGroup'[s] = Offered(add))
  BY <1>1, <1>2
<1> QED BY <1>3, WindowInvariance, PTL DEF SavesWhatItShows
=============================================================================
