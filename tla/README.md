# SoLock in TLA+

Specifications, model checks and machine-checked proofs for SoLock, a password
vault whose entries live in accounts of a Solana program and in a SQLite cache on
each device.  The modules are written from the source; every definition that
models code is mapped to its lines in `PROJECT.json`.

1. [Components](#components)
2. [Modules](#modules)
3. [What the runs check](#what-the-runs-check)
4. [What is proved](#what-is-proved)
5. [Findings](#findings)
6. [What is not modelled](#what-is-not-modelled)
7. [Plan](#plan)

## Components

| Component | State it keeps | Operations | Talks to |
|---|---|---|---|
| On-chain program (`program/.../lib.rs`) | per owner: `VaultMeta` (next_index, entry_count, free_slots, next_group_index, group_count), entry accounts, group accounts | initialize_vault, reset_vault, add/update/delete_entry, add/update/delete/purge_group | called by transactions; reads the cluster's clock |
| RPC adapter (`repository/adapter/solana.go`) | none besides keys and URL | one method per instruction, account reads, `send` with preflight, polling and deadline; program deployment, transfers | program (transactions at the confirmed commitment, reads at the finalized one) |
| Entry use cases (`usecase/add_entry.go`, `update_entry.go`, `delete_entry.go`) | none between calls | allocate a slot, send, retry, fall back to the local database | adapter, storage |
| Sync (`usecase/sync.go`) | none between calls | read the metadata, fetch in batches, save rows, delete stale rows, save the sync state | adapter, storage |
| Group use cases (`usecase/*_group.go`) | none between calls | add with retries, update, soft delete (optionally with the entries), purge | adapter, storage |
| Storage (`repository/storage`) | tables entries, groups, config, sync_state | single statements; ClearAll is four of them | SQLite |
| Session (`application/app.go`, `usecase/unlock.go`) | keys, expiry, repositories, use cases, background-sync status, under two mutexes | unlock, lock, expiry, background sync | all use cases |
| JSON-RPC server (`transport/jsonrpc`) | listener, token, shutdown channel, one goroutine per connection, expiry watcher | one handler per method, each with its deadline | session, use cases |
| Terminal client (`transport/tui`) | screen, form, pending flags, entry list | key handlers, commands run concurrently and answered by messages | session, use cases |
| Desktop: client calls (`client.c`) | locked flag, socket, token, child process | one synchronous call per method; what an answer, a refusal and a lost answer make of the locked flag | JSON-RPC server |
| Desktop: search view (`search.c`) | text, group filter, list, filtered positions, window and selection, rows | keys, label keys, Tab, wheel, clicks, delayed "search-changed" | client calls |
| Desktop: vault view (`vault_view.c`) | list settings, last groups and entries fetched, rows, three drop-downs, detail panel, edit and add form, TOTP timer | choosing, sorting, filtering, deleting, editing, adding | client calls |
| Desktop: groups view (`groups_view.c`) | page, rows, index the form edits | delete, purge, add, rename | client calls |
| Desktop: main window (`main_window.c`) | section on screen | opening, switching sections | its sections |
| Desktop: popup (`popup.c`, `unlock.c`, `fields.c`) | visibility, page, remembered page, reset timer, delayed unlocks, detail page with TOTP timer and label mode | show, hide, reset, unlock, open, paste | search view, client calls, clipboard |
| Desktop: clipboard and typing (`clipboard.c`, `wtype.c`) | clearing timer | copy, clear, type | `wl-copy`, `wtype` |
| Desktop: application and tray (`application.c`, `tray.c`) | tray status, its place on the bus | activation, expiry check, menu, quit | popup, client calls, D-Bus |
| Desktop: dashboard, settings | figures, configuration file | fetch, save | client calls |
| Pure functions | none | AES-GCM/CBC formats, key derivation, password and TOTP generation, sort and fuzzy search | |

What is hard here, in the order of what it costs when it goes wrong:

* **Several devices, one vault.**  Slots are allocated on the client from metadata
  that is already old, so devices race for slots; updates race with updates and
  with deletions that free the slot for another entry.  The program's `init`
  constraint and the `expected_updated_at` comparison are all that stands between
  a race and a lost entry.
* **Transactions outlive the calls that sent them.**  A lost answer, a deadline or
  the end of the process leaves a transaction behind that may still land; adding
  is not idempotent.
* **Reads trail.**  Account reads see the finalized state, transactions run on the
  confirmed one.
* **Sync works in batches** on a moving chain and deletes rows by what it did not
  see.
* **Several use cases share one database**: the server runs one goroutine per
  connection, the TUI runs commands concurrently, and the background sync runs
  besides both, with no lock around a use case.
* **The accounting of the vault** (free list without duplicates, counters at the
  ends of u32, metadata that is wiped while accounts stay) spans long sequences of
  instructions.
* **Sessions end under running use cases**: lock, expiry and shutdown.
* **The desktop's handlers run one at a time** on the GTK main loop, and each of them
  runs to its end; what goes wrong lies between them.  Unlocks and pastes are
  delayed by timers and run when the popup may be hidden or shown again; the reset,
  TOTP and clearing timers outlive what they are for unless someone stops them; the
  vault process locks itself and tells nobody, so each view finds out by a refused
  call; several views keep lists fetched at different times from one vault, and
  resolve positions against them; an answer may be lost after a write was done.

Correctness, by component: the program keeps its free list, counters and accounts
consistent under any sequence of instructions; the clients lose no slot, store
nothing twice except where an answer was lost, and never commit an update over
content its transaction was not built on; a sync fetches what stays and deletes
only what was gone; every use case ends.  In the desktop client, a key opens what the
row on screen shows, the list on screen is the one for the text and the filter on
screen, a form saves the group its drop-down shows, no timer outlives what it serves
or is missing where a secret waits for it, no page of one session is there in the
next, and the tray can always lock.  For the components that are planned:
a soft-deleted group is gone for every client; a locked session keeps no key in
use; no answer of a command is lost or misapplied in the terminal client.

## Modules

```
OptimisticStore      what a vault promises          SoLockProgram   the program
        ^                                             |        |
        | implements                           EXTENDS|        |EXTENDS
        +---------------------------- SoLockClients <-+        v
                                       |       |      SoLockProgram_proofs
                             MCSoLockClients   |               |
                                               v               v
                                          SoLockClients_proofs
                                               |
                                               v
                                          SoLockCopies_proofs

ListOrder  <---- EXTENDS ---- SearchView <---- MCSearchView, SearchView_proofs
  ^    ^                                                       |
  |    +---------------------- ListOrder_proofs  <-------------+
VaultService                           ^
  ^       ^                            |         DesktopPopup <-- MCDesktopPopup,
VaultView GroupsView                   |                          DesktopPopup_proofs
  ^       ^                            |
  MainWindow <---- MCMainWindow, MainWindow_proofs
```

### SoLockProgram

One owner's accounts.  All addresses are derived from the signer's key, so two
owners never share an account; the `Unauthorized` checks and the stored owners
and bumps are left out.  An instruction is atomic: `XxxOk` collects the account
constraints and every `require!` and `checked_add`, and the action `Xxx` adds the
writes of the handler.  Payloads are opaque; the program distinguishes the empty
one and, for groups, the oversized ones.  Indices and counters are `0..U32Max`
with the checked increments and the saturating decrements of the source.
`initialize_vault` uses `init_if_needed` and wipes a vault that exists, exactly as
`reset_vault` does; neither closes the entry or group accounts.  The history
variable `orphaned` says whether the last wipe left accounts behind, which is what
the accounting properties depend on.

### SoLockClients

Any number of processes on any number of devices run use cases against the
program.  Every RPC call and every SQL statement is a step of its own, and the
record `op[p]` holds what the Go code holds in local variables between them.

| Code | Actions |
|---|---|
| handlers and commands that start a use case | StartAdd, StartUpdate, StartDelete, StartSync, StartClear; `Offered` |
| `AddEntryUseCase.Execute`, `saveLocalOnly` | AddReadMeta, AddOffline, AddRetry, AddLocalGet, AddLocalSet, SaveRow, MarkRow |
| `UpdateEntryUseCase.Execute` | ReadEntry, ReadMissing, SaveRow, MarkRow |
| `DeleteEntryUseCase.Execute` | ReadEntry, ReadMissing, DropRow |
| `SolanaVaultRepo.send` | Submit, PreflightReject, Land, Reject, SendLost |
| deadline, error or end of the process at any point | GiveUp |
| a transaction nobody waits for | LateLand, LateDrop |
| `SyncUseCase.Execute` | SyncReadMeta, SyncFetch, SyncSave, SyncMark, SyncList, SyncDelete, SyncFinish |
| `EntryRepo.ClearAll` | ClearEntries, ClearState |
| owner's initialize and reset | OwnerInstruction |
| cluster | Finalize, Second |

Choices a reader should know of:

* `finalExists`, `finalVault` and `finalEntries` are the finalized state; they catch
  up in `Finalize`, at any time.  All account reads use them.  The preflight and the
  execution of a transaction use the current state.
* `Exists` and `GetMeta` of an add are one read: a vault that is finalized never
  disappears, so nothing can change between them.  `ReadMissing` is always
  possible, because the use cases drop the error of `GetEntry`.
* The polling loop of `send` is one wait for the outcome.  Its own limit of thirty
  polls never comes before the caller's fifteen-second deadline (thirty seconds
  for a delete, where either ends the call with the same result), so both are
  `GiveUp`.
* An entry's content is its id and a version; a version is an index into `authors`,
  the history of who edited.  `entry_count` of the sync state, time stamps in rows,
  entries that do not decrypt, and the tables groups and config are left out.
* An update or a delete starts on an entry that is `Offered`.  A request of the
  JSON-RPC server names an id, and its handler reads the row.  A command of the
  terminal client (a process in `Terminals`) is given an entry of the list in memory,
  which may be older than the row, or outlive it.  `listed` keeps every entry a
  terminal of the device may have in memory: any row it could have listed, and its own
  edits of one, which it makes in memory before it knows what becomes of the update.
* The end of a batch and the cursor after it are sums of u32 and wrap, as in Go.
* `created`, `authors`, `lostSends`, `stored`, `lastWrite`, `overtaken` and the fields
  `occupied`, `steady` and `seen` of a scan are history: no guard of a client reads
  them, except that an id is new (it is a time in nanoseconds).  `overtaken[p]` are the
  ids whose row another process of the device has written or deleted since `p` saved
  it.  `occupied` are the slots that were never vacant, and `steady` those that always
  held the same entry (in whatever version), since the sync read the metadata.
* `SameSecondWrites` is the one assumption about the environment.  The program's
  clock has a granularity of a second, and two writes of one slot within a second
  carry the same stamp, so the second of two competing updates is not refused.
  With FALSE, at most one write falls into a second; a run with TRUE violates the
  refinement below within a few thousand states.  `editors`, the run of the
  refinement, and `device` assume FALSE; in `writers` and `sync` the stamps play no
  part, so they run with TRUE and a clock that stands still, which allows every
  number of writes.

### OptimisticStore

The promise of the vault without stamps, counters or free list: a store of values
by slot, where a write commits only if the slot still holds the value the write
was built on (its basis; for an add, the empty slot), and a removal needs something
to remove.  `SoLockClients` implements it under the mapping `Stored` (the payload
of each entry account) and `Pending` (the transactions sent and not yet settled).

### ListOrder

What the views of the desktop share: `InOrder`, the list that sorting a set by a
comparison gives (where the comparisons are strict orders, so that a set has one such
list), the markers -1 for "all" and "none", and
`ActiveIn`, the groups of a fetched list that are not deleted.  A failed fetch leaves
NULL where the code has a null pointer.

### SearchView

The search page of the popup.  A state is what `SearchData` holds between two
callbacks, with the GTK rows as `rows` and `selected_row`.

| Code (`search.c`) | Definitions |
|---|---|
| `refresh_entries`, `rebuild_visible_list` | `refresh_entries`, `FetchedEntries`, `FilteredIndices`, `VisibleRows`, `SelectedRow` |
| `rebuild_group_bar` and the refresh that follows it | `RebuildAndRefresh`, `Chips` |
| `cycle_group_forward`, `cycle_group_backward` | the same, used by TabForward, TabBackward |
| `on_key_pressed` | TypeCharacter, close_search, UpOrDown, OpenByLabel, ReturnKey, Tab... |
| `on_entry_scroll`, `on_row_activated`, `on_group_chip_clicked` | the same |
| `on_search_changed` of a `GtkSearchEntry` | TypeCharacter sets `delayed`, on_search_changed runs later; an emptied text is announced at once (DeleteText) |
| `touch_entry_idle` | the same; the vault stamps the entry, which reorders the next list |
| vault process and its other users | EntryChanges, GroupChanges, VaultLocks, Unlock |

`listed` is history: the text of the last fetch.  `mapped` is whether the page is on
screen; hiding the popup leaves everything as it is, and `on_view_map` resets the text
when it comes back.

### VaultService, VaultView, GroupsView and MainWindow

`VaultService` is the vault process seen from the desktop: a call answers, is
refused by a locked vault (and the client remembers), or fails; a write may also be
done with its answer lost.  The other users of the vault change entries and groups and
lock it between any two handlers.

`VaultView` keeps three drop-downs (`filter`, `edit`, `add`), each a list of groups as
it was when the drop-down was filled and a position in it, and `cached_groups`, the
one list all three are resolved against.  `rows` carry the position of their entry in
`entries`, as the code's row data do.  Two of the three sort orders leave entries tied (equal names,
equal dates) and `qsort` promises nothing about ties, so `sort_json_array` is the set of
the arrangements a sort may return.  `totp` is the secret kept, its timer and whether
its row is on the panel: `on_edit_clicked` removes the row but not the timer, and
a code written to a row that is gone is a use of freed memory, which `vault_update_totp`
models as going on or ending the process (`running`).  `GroupsView` is the list of
groups and its form.  `MainWindow` composes the two over one vault and one client:
the section that comes on screen fetches, a section that is left keeps its state, and a
search text typed in the vault section may be announced while the groups are on screen.

### DesktopPopup

The popup with its pages, timers and paste jobs, the tray, the expiry check and the
clipboard, and the main window as far as it shares the client and the clipboard with
them: its calls may find the vault locked, most without telling the tray, and a copied
address stops the clearing timer of a value pasted before it.

| Code | Actions |
|---|---|
| `popup.c` | on_activate (first activation), solock_popup_toggle, on_popup_key, on_reset_timer, solock_popup_switch_to_detail |
| `unlock.c` | on_unlock_activate (keeps the password and delays the call), do_unlock |
| `fields.c` | LabelKey, update_totp, on_field_clicked, on_totp_clicked, on_key_pressed, do_paste_delayed |
| `search.c` | SearchAgain and touch_entry_idle; see SearchView for the rest |
| `clipboard.c`, `wtype.c` | solock_clipboard_copy, clear_clipboard_cb, solock_wtype_type |
| `dashboard.c`, `settings.c`, `vault_view.c` | dashboard_refresh, on_refresh_clicked, on_clear_local_db_clicked, on_network_changed, vault_rebuild_list, on_copy_deployer: what the main window does to the client, the tray and the clipboard |
| `tray.c`, `application.c` | MenuLock, on_bus_acquired, on_expiry_check, Quit |
| vault process, other programs | SessionEnds, OthersCopy |

`detail.session`, `tray.missed` and `abandoned` are history: the session a detail page
was opened in, that an update of the tray came before it was on the bus, and that
`wl-copy` failed or the application ended since the last copy.  The `paste_method`
setting is stored but `do_paste_value` never reads it, so typing or copying is
decided by Shift and by whether `wtype` works; whether a copy is to be cleared is read
from settings that change at any time, hence the free choice of `clear`.

## What the runs check

All runs finish within five minutes.  Deadlock is checked in `search`, which can always
do something; elsewhere it is off because the system may legitimately stop: all ids
used, all versions made, the clock at its bound, every process idle, and in `window`
and `filter_label` the process ended by the use of freed memory.

| Run | Model | Properties |
|---|---|---|
| `program` | U32Max 3 (four indices), free list of 2, two seconds, one payload besides the empty and the oversized one | TypeOK, FreeListSound, SlotsBelowNext, EntryCountSound, GroupsAccounted, VaultFits, EntriesNeverReplaced, DeletedGroupsFrozen, SlotsOnlyReclaimed |
| `writers` | two terminals on two devices adding and deleting two entries, listed at any time before; one abandoned transaction | ClientsTypeOK, NoSlotLeak, DuplicatesOnlyFromLostSends |
| `editors` | an author (add, update) and an editor (sync, update) on one device, one entry, two updates, one abandoned transaction | AttemptsBounded, SyncedRowsWereStored, ImplementsOptimisticStore |
| `sync` | a writer (add, delete, clear) beside a second process (sync, update) on one device, two entries, batches of one | SyncKeepsLive, SyncFetchesAll |
| `device` | one device, one process adding and clearing and one adding and syncing, two entries, resets allowed | Terminates |
| `search` | four entries under a window of two with three label keys, two groups and one to be added, two texts, two changes by others | TypeOK, WindowSound, KeysOpenWhatTheyShow, SearchHonest, HiddenBarFiltersNothing, TabGoesRound, TypedTextIsSearched |
| `window` | two entries and a free slot, a deleted, an active and an absent group, one chosen setting, one change of the vault | TypeOK, RowsNameTheirEntries, DetailHonest, TotpTimerHasItsRow, NoGroupDeletedHereIsOffered, SavesWhatItShows |
| `popup` | one entry with a field and a TOTP secret, two sessions, two unlocks under way at once, two copies | TypeOK, DetailOfThisSession, DetailHasItsTimers, ClearingIsArmed, TrayCanLock, ShownAfresh, HiddenDetailGoes |
| `stale_update`, `unpushed`, `missing`, `filter_label` | see [Findings](#findings) | one property each, violated |

**Bounds.**  `U32Max`, `FREE_SLOTS_CAPACITY` and `BatchSize` stand for 2^32-1, 200 and
100.  They are constants of the code that the specification does not depend on;
the small values put the ends of the ranges, the full free list and the seam
between two batches within reach.  `TimeMax` bounds the clock, `MaxVer` the number
of updates, `MaxLate` the transactions that nobody waits for (a process may not
abandon one beyond it), and `Ids` the entries ever made.  Two processes suffice for
the races the properties are about: each involves one use case and one competitor,
or one use case and its own late transaction.  In `editors` and `sync` both are on one
device, as a background sync and the requests of a client are, and share its rows;
a writer whose context ends before it has saved stands for one on another device.
The proofs below hold for every value of these constants.  Three things a run leaves to
them: `editors` has no deletes; in `program`, with its single payload, an edit of a
deleted group would change nothing; and no run has a vault whose end the u32 cursor of
a scan wraps over (in the code the scan then starts again, until its deadline).
`ImplementsStoreCorrect`, `DeletedGroupsFrozenCorrect` and the theorems on `sync` cover
them.

In the desktop's runs, `MaxChange` bounds what others (and in `window` the window itself)
do to the vault, `MaxSettings` how often a text, an order or a filter is chosen, and
`MaxSessions`, `MaxUnlocks` and `MaxCopies` the unlocks and copies.  Four entries under a window of
two give both "more" rows at once, a window in the middle and a last wheel step that is
clamped.  The two entries of `window` differ by name and tie by date, so
both of their orders occur under one setting, and
the deleted group comes before the active one, so a position is never an index by
accident.  Two sessions are one lock and unlock, which is what a page has to survive
to be wrong; two copies are a timer and the copy it must not clear.  The
proofs hold for every value of these bounds too.

**Symmetry** is used only where every definition treats the permuted values alike
(entry ids; in `writers` also the two devices together with their processes), and
never in the liveness run.

**Fairness.**  `FairClientsSpec` adds, for each process, weak fairness of
`Work(p) \/ GiveUp(p)`: the Go scheduler runs every goroutine, and every call of a
use case ends by its context's deadline (15, 30 or 120 seconds) if by nothing else.
It does not say which of the two happens, so `Terminates` does not rest on any
transaction landing.  A command that never stops retrying would violate it even so:
the mutant that drops the attempt counter does (an account stranded by a reset makes
every attempt of an add fail).  Updates and deletes are left out of this run: a delete
is a straight line, and that an update is sent twice at most is `AttemptsBounded` in
`editors`, whose mutant allows it a third time.  The cluster is not assumed fair.

In `search`, weak fairness of `on_search_changed`, and in `popup`, of `on_reset_timer`: both are
timers of the GTK main loop, whose handlers all end.  A text typed again restarts the
delay, and showing the popup stops the reset timer, so the properties allow for both.  No
fairness is assumed of users, the vault or the `window` run.

Each property has a mutant: an operator, placed before the definition it replaces
and commented `Mutated`, that changes the code's behaviour the way a plausible bug
would (a dropped guard, a missing reset, an off-by-one), under which the property fails.

## What is proved

TLAPS checks, for every value of the constants that satisfies `ProgramAssumption`
and `ClientsAssumption`:

* **`SoLockProgram_proofs`.**  `Spec => []TypeOK`, and every invariant and action
  property of the run `program`.  `FreeListSound`, `VaultFits`, `SlotsBelowNext` and
  `EntryCountSound` are inductive only together (`EntryInv`): that `add_entry`
  clears a slot from the free list rests on the list being free of duplicates,
  that a freed slot is no duplicate rests on the list being disjoint from the live
  entries, and `saturating_sub` is exact only because the count is.  The lemmas on
  `RemoveAt`, `RemoveFirst` and `Append` do the work on sequences; the counts use the
  library's theorems on finite cardinality.
* **`ListOrder_proofs`.**  `OrderedEnumerates`: a finite set ordered by the ranks of a
  strict order is a sequence of all its elements, each once.  Ranks are below the size of
  the set and grow along the order, so they are an injection into 0..n-1, which is onto
  by the pigeonhole theorem on finite sets; `SmallerEnumerates` is the case of numbers.
* **`MainWindow_proofs`.**  Every property of the run `window`, for any entries and groups,
  any texts and what they match, and entries that compare equal.  The invariant `Inv`
  says that the rows are those drawn from the list and the filter (`ListInv`), that every
  drop-down stands at a position it offers (`FormsInv`), that panel, form and timer agree
  (`DetailInv`), and that a group deleted here stays deleted or purged whatever others do
  (`DeletedStays`), from which it follows that no later fetch offers it.  `RowsDrawn` says
  what the filtered rows are and rests on `SmallerEnumerates`; `Populated` and
  `GroupChosen` do the same for the positions of a drop-down, deleted groups left out.
* **`SearchView_proofs`.**  Every invariant of the run `search`, for every size of the
  window, number of label keys, set of entries, groups and texts.  The inductive
  invariant `ViewInv` relates the list, the positions that pass the filter, the
  window and the selection, and says that the rows on screen are drawn from them.
  Each step is of one of three kinds (`StepKinds`): a new list with the window at its start, a
  move inside the list, or neither.  `RowsShowWindow` says what the concatenation of
  "more" rows and entries is at each position, which is what the arithmetic of label keys
  and Return rests on; `CyclesUndone` does the same for the Tab keys.  `TypeCorrect` needs all
  of it: that what is opened is an entry follows only from the rows being those of the list.
* **`DesktopPopup_proofs`.**  Every invariant of the run `popup` and `ShownAfresh`, for any
  entries, sessions, unlocks under way and copies.  The invariant adds to the properties that
  nothing is left of an application that has ended (`Stopped`), that no page but unlock
  is there before the first session (`UnlockedFirst`), and that the paste jobs are within their
  bound (`PastesCounted`).  `DetailOfThisSession` holds although locking closes no page, because the
  one way to unlock removes the page as it succeeds, hidden or not; `ShownAfresh` follows
  from there being one action that shows the popup (`OnlyShowShows`).
* **`SoLockClients_proofs`.**
  * `ClientsTypeCorrect`: `ClientsSpec => []ClientsTypeOK`, by the invariant
    `TypeInv`, which adds which use cases may be at which step (`OpShape`), how often
    each may have tried, and that all accounts hold payloads; `AttemptsBoundedCorrect`
    is its part on the attempts.
  * `ClientsUseProgram`: `ClientsSpec => Spec`.  Every step of the clients is an
    instruction, a tick, or leaves the accounts alone; so all theorems about the
    program hold of the composed system.
  * `NoSlotLeakCorrect`: `ClientsSpec => []NoSlotLeak`.  The program alone does not
    keep this (an add far above next_index leaves a gap); it holds because no
    client ever submits one.  The invariant `SlotInv` says why: the finalized
    metadata is behind the current one, next_index never goes down without a wipe,
    and hence every slot that is allocated, submitted or abandoned is at most the
    current next_index.
  * `ImplementsStoreCorrect`: if no two writes share a second, `ClientsSpec =>
    ImplementsOptimisticStore`.  The invariant `StampInv` says that an update on
    its way carries the stamp *and* the content of one version of its slot, that
    all stamps are at most the second of the last write, and hence that a slot that
    still has the stamp still has the content: whatever lands in between is stamped
    later than everything known.  `FlightMoves` shows that each step sends one
    transaction, settles one, or touches none; `ExecuteWrites` that executing one is
    the store's `Write` or `Remove`.
* **`SoLockCopies_proofs`**, on the copies that clients make of an entry.
  * `SyncedRowsCorrect`: `ClientsSpec => SyncedRowsWereStored`.  The invariant
    `StoredInv` adds that all accounts, at either commitment, hold contents of `stored`
    (`AccountsStored`), and what each process knows at each step (`KnownStored`): at
    `mark`, that the transaction's content has landed, and that the row still has
    content that was stored unless the row is overtaken; while it syncs, that every
    account it has fetched was.
  * `SyncFetchesAllCorrect`: `ClientsSpec => SyncFetchesAll`.  A sync finds every slot
    that holds the same entry while it runs, and unless the owner may reset the vault
    that is every such slot of the vault.  The invariant `SyncInv` follows the scan:
    the slots below the cursor that were never vacant have been found by a batch
    (`CursorInv`); an entry that was found is still to be saved, or is in a row whose
    content was seen, or its row is overtaken (`SavedInv`); and what is to be deleted was
    listed in the scanned range, at a slot that was not found (`StaleInv`).  That the
    scan reaches all accounts at all is `FinalBelow`: without a wipe, finalized entries
    are below the finalized next_index.  A reset breaks exactly that, which is why the
    property speaks of the scanned range if there may be one.
  * `SyncKeepsLiveCorrect`: `ClientsSpec => SyncKeepsLive`.  A row that is deleted still
    lies at the slot it was listed with, which `SyncInv` says was vacant at some time
    since the sync began, or it was moved.  A row moves only to another site of its entry (below),
    and by `CopiesInv` an entry has two only after a lost answer.
  * `DuplicatesCorrect`: `ClientsSpec => []DuplicatesOnlyFromLostSends`.  A bound on the
    slots an entry sits in is not inductive, since a late transaction, a local row or an
    entry in a terminal's memory may put the entry, or a copy of its slot, back later.
    The invariant `CopiesInv` therefore counts the *sites* of an entry: every slot where
    it sits at either commitment or that a row of any database, a terminal's list, a late
    transaction, a use case that carries it, a fetched account or a stale row of a scan
    remembers.  It has at most one more site than lost answers, and none of its own
    while its add is still trying, since an add allocates anew only after its last
    transaction is known to have failed or its answer was lost.

No lock surrounds a use case, so none of these theorems assumes that the use cases of a
device take turns.  What they say of a row therefore has the exception that the other
use cases of the device leave room for: an update writes an unsynced version between
the save and the mark of a sync, or the cache is cleared while a scan saves.  `overtaken`
names it, per process and id, so nothing else can go wrong.

**Only model-checked**: the liveness properties `Terminates`, `TypedTextIsSearched` and
`HiddenDetailGoes` (fairness and ENABLED are out of the prover's reach), and what the
runs of [Findings](#findings) say of the documentation.  Every other property of a
passing run is stated by a theorem.
No module uses a RECURSIVE operator, which the prover cannot handle, and nothing here
rests on induction over data.

## Findings

Three statements of the documentation and one of a comment that the code does not
keep; each run ends with a short counterexample.

* `stale_update`: an update is said to fail if another client modified the entry.
  `UpdateEntryUseCase` fetches `UpdatedAt` immediately before it sends, so it compares
  the chain with itself a moment ago: an update made since the user opened the entry
  is overwritten and acknowledged.
* `unpushed`: changes made offline are said to be synced when connected.  Sync only
  pulls; an offline update is overwritten, and an offline add is deleted if the slot
  it guessed is vacant on chain.
* `missing`: sync is said to delete entries missing on chain.  It does not when the
  scan finds no account at all, so the last entries of a vault stay on the other
  devices.
* `filter_label`: the vault view is said to update the filter drop-down preserving the
  selection.  When the chosen group is not among those fetched, or the fetch fails,
  `vault_refresh_entries` selects "All groups" and keeps `filter_group_index`: the list stays
  filtered, and appears empty or short under a drop-down that says all.

Further behaviour that the models show and that no document contradicts is listed
under "hazards" in `PROJECT.json`: an initialization or reset that strands accounts
blocks adding at the first stranded slot, deletions are refused when 200 slots are
free, a conflict that is detected only on execution is not recognized
(`isConflictError` looks for another code), and an update goes by the slot of the
row, whichever entry is there by now.  In the desktop: the TOTP timer outlives its row while
the edit form is open and then writes to freed memory; an edit form that opened on an entry
of a deleted group, or without a list of groups, saves the entry into no group; the session's end
is noticed by `on_expiry_check` only in its last second, because a locked vault process
names no remaining seconds, so the tray may show an unlocked vault that is locked; and the
clearing timer clears whatever the clipboard holds by then, another program's text included.

## What is not modelled

`PROJECT.json` lists every component with its status.  Out of scope: ciphers and key
derivation (payloads are opaque), the byte layout of accounts, fees and priority
fees, program deployment and closing, transfers of funds, rendering.

In the desktop's modules: names, colours and other texts of groups and entries, the
hints of label keys while Control is held, scrolling and icons; the figures of the dashboard
and the time of its last fetch (that it may skip one is in `DesktopPopup`); the configuration
file, of which `DesktopPopup` has that clearing is on or off; destruction of the main window; the
syncing icon and D-Bus property reads.  The vault does not change in the middle of one handler,
though a handler may make two or three calls: each call of it may still fail on its own.  A password typed and not submitted stays in the hidden unlock page; it is not state the
properties tell apart.

Planned but not yet there: see below.

## Plan

Groups 1 to 4 are done.

1. `SoLockProgram` with its run and proofs.
2. `OptimisticStore`, `SoLockClients` with its runs and proofs.
3. The desktop client: `SearchView`, `VaultService`, `VaultView`, `GroupsView`, `MainWindow`,
   `DesktopPopup` with their runs, and the proofs of the search view and the popup.
4. Proofs of every safety property of `MainWindow`, and of `DuplicatesOnlyFromLostSends`,
   `SyncedRowsWereStored`, `SyncKeepsLive` and `SyncFetchesAll`.
5. `SoLockGroups`, EXTENDS `SoLockProgram`: the group use cases, `syncGroups` and
   the references from entries to groups; soft delete with the entries and its
   partial failure; purge against sync.  Abstract specification: a group is active,
   deleted or gone, and only moves forward.
6. `Session`: `app.go` with its two mutexes, the key that lock wipes in place, the
   expiry watcher, the background-sync guard, and the server's connections and
   shutdown.  One run with liveness (shutdown completes).
7. `Tui`: screens, pending commands and the messages that answer them (the entries in its
   memory, and the commands started on them, are in `SoLockClients`).
8. Pure functions against reference definitions: ciphertext format dispatch,
   PKCS#7, fuzzy search, password generation, TOTP windows.
