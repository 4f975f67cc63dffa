--------------------------- MODULE SoLockClients ---------------------------
(***************************************************************************)
(* The clients of one vault: the entry use cases of app/internal/usecase   *)
(* running on several devices against the program of SoLockProgram,        *)
(* through the RPC adapter of repository/adapter/solana.go and the local   *)
(* SQLite cache of repository/storage.                                     *)
(*                                                                         *)
(* Each process runs one use case at a time, one RPC call or SQL statement *)
(* per step.  Processes of one device share its database, as the goroutine *)
(* per connection, the commands of the TUI and the background sync do.     *)
(* Account reads use the default commitment and see the last finalized     *)
(* state, which trails the confirmed one that transactions run on.  A      *)
(* deadline, a failing statement or the end of the process may stop a use  *)
(* case at any step; a transaction it had sent may still land.             *)
(***************************************************************************)
EXTENDS SoLockProgram

CONSTANTS
  Procs,            \* use cases that run at the same time
  Devices,          \* local databases
  DeviceOf,         \* the device of a process
  UseCases,         \* the kinds of use case a process runs
  Terminals,        \* the processes that are commands of the terminal client
  Ids,              \* entry ids (creation times in nanoseconds)
  MaxVer,           \* bound on the number of updates (a bound of the model)
  MaxLate,          \* bound on abandoned transactions (a bound of the model)
  BatchSize,        \* syncBatchSize
  SameSecondWrites, \* whether two writes may share a second of the clock
  WithReset,        \* whether the owner may reset the vault
  NoRow             \* what the database holds for an id without a row

\* The content of an entry, encrypted, is its id and a version.
Versions == 0 .. MaxVer
Kinds    == {"add", "update", "delete", "sync", "clear"}
Payload  == [id : Ids, ver : Versions]
Row      == [slot : U32, ver : Versions, synced : BOOLEAN]
Listed   == [id : Ids, slot : U32, ver : Versions]

ASSUME ClientsAssumption ==
  /\ DeviceOf \in [Procs -> Devices]
  /\ UseCases \in [Procs -> SUBSET Kinds]
  /\ Terminals \subseteq Procs
  /\ MaxVer \in Nat
  /\ MaxLate \in Nat
  /\ BatchSize \in 1 .. U32Max
  /\ SameSecondWrites \in BOOLEAN
  /\ WithReset \in BOOLEAN
  /\ Payload \subseteq Data \ {EmptyData}
  /\ NoRow \notin Row \cup Payload

VARIABLES
  finalExists,   \* whether the vault exists at the finalized commitment
  finalVault,    \* VaultMeta at the finalized commitment
  finalEntries,  \* the entry accounts at the finalized commitment
  rows,          \* table entries of each device, by id
  syncState,     \* next_index in table sync_state of each device
  listed,        \* entries a terminal of the device may have in memory
  op,            \* the use case each process runs
  scan,          \* progress of a running sync
  late,          \* transactions nobody waits for, which may still land
  created,       \* ids handed out (history)
  authors,       \* who made each version (history)
  lostSends,     \* adds retried though the first was submitted (history)
  stored,        \* payloads that have been on chain (history)
  lastWrite,     \* second of the last add or update (history)
  overtaken      \* ids whose row another process of the device wrote or
                 \* deleted since the process saved it (history)

finalVars   == <<finalExists, finalVault, finalEntries>>
rowVars     == <<rows, listed, overtaken>>
localVars   == <<rowVars, syncState>>
processVars == <<op, scan, late>>
historyVars == <<created, authors, lostSends, stored, lastWrite>>
vars == <<programVars, finalVars, localVars, processVars, historyVars>>

IdleOp ==
  [pc |-> "idle", kind |-> "none", id |-> NoRow, ver |-> 0, base |-> 0,
   slot |-> 0, expected |-> 0, read |-> NoRow, attempt |-> 0]

IdleScan ==
  [next |-> 0, cursor |-> 0, remote |-> {}, fetched |-> {},
   stale |-> {}, occupied |-> {}, steady |-> {}, seen |-> {}]

ClientsInit ==
  /\ Init
  /\ finalExists = vaultExists
  /\ finalVault = vault
  /\ finalEntries = entries
  /\ rows = [d \in Devices |-> [id \in Ids |-> NoRow]]
  /\ syncState = [d \in Devices |-> 0]
  /\ listed = [d \in Devices |-> {}]
  /\ op = [p \in Procs |-> IdleOp]
  /\ scan = [p \in Procs |-> IdleScan]
  /\ late = {}
  /\ created = {}
  /\ authors = <<>>
  /\ lostSends = [id \in Ids |-> 0]
  /\ stored = {}
  /\ lastWrite = 0
  /\ overtaken = [p \in Procs |-> {}]

-----------------------------------------------------------------------------
(* Helpers *)

At(p, kind, pc) == op[p].kind = kind /\ op[p].pc = pc
Goto(p, pc)      == op' = [op EXCEPT ![p].pc = pc]
Finish(p)        == op' = [op EXCEPT ![p] = IdleOp]
Begin(p, start)  == op' = [op EXCEPT ![p] = start]

Rows(p)   == rows[DeviceOf[p]]
State(p)  == syncState[DeviceOf[p]]
Content(p) == [id |-> op[p].id, ver |-> op[p].ver]

\* The state a vault client would have read if the chain stopped here.
FinalLive == {i \in U32 : finalEntries[i] # NoAccount}

\* Addition on u32 wraps in Go.
U32Sum(n, k) == IF n + k > U32Max THEN n + k - (U32Max + 1) ELSE n + k

\* VaultMeta.AllocateSlot; its update of the client's own copy of
\* the metadata is discarded by every caller.
AllocateSlot(meta) ==
  IF meta.free_slots # <<>> THEN Head(meta.free_slots) ELSE meta.next_index

\* A terminal lists the rows of its database and works on that list until it
\* lists them again; the answers of two queries may arrive in either order.
\* The model keeps the rows it may have listed.
Remember(p, row) ==
  listed' = [listed EXCEPT ![DeviceOf[p]] =
               IF \E q \in Terminals : DeviceOf[q] = DeviceOf[p] THEN @ \cup {row} ELSE @]

\* p writes or deletes rows that the other processes of its device may have
\* saved (history).
Overtake(p, ids) ==
  [q \in Procs |-> IF q # p /\ DeviceOf[q] = DeviceOf[p]
                   THEN overtaken[q] \cup ids ELSE overtaken[q]]

\* Mutated: every row counts as synced.
SaveMarked(p, id, slot, ver) ==
  /\ rows' = [rows EXCEPT ![DeviceOf[p]][id] =
                [slot |-> slot, ver |-> ver, synced |-> TRUE]]
  /\ Remember(p, [id |-> id, slot |-> slot, ver |-> ver])
  /\ overtaken' = [Overtake(p, {id}) EXCEPT ![p] = @ \ {id}]

\* Save is an upsert by id that clears the synced flag, MarkSynced sets it
\* on the row that is there by then.
Save(p, id, slot, ver) ==
  /\ rows' = [rows EXCEPT ![DeviceOf[p]][id] =
                [slot |-> slot, ver |-> ver, synced |-> FALSE]]
  /\ Remember(p, [id |-> id, slot |-> slot, ver |-> ver])
  /\ overtaken' = [Overtake(p, {id}) EXCEPT ![p] = @ \ {id}]

MarkSynced(p, id) ==
  /\ rows' = [rows EXCEPT ![DeviceOf[p]][id] =
                IF @ = NoRow THEN NoRow ELSE [@ EXCEPT !.synced = TRUE]]
  /\ UNCHANGED <<listed, overtaken>>

DeleteRows(p, ids) ==
  /\ rows' = [rows EXCEPT ![DeviceOf[p]] =
                [id \in Ids |-> IF id \in ids THEN NoRow ELSE Rows(p)[id]]]
  /\ overtaken' = Overtake(p, ids)
  /\ UNCHANGED listed

\* A transaction is what a process sends: instruction and arguments, with
\* the value and the local version its author started from (history).
TxOf(p) ==
  [kind |-> op[p].kind, slot |-> op[p].slot, data |-> Content(p),
   expected |-> op[p].expected, read |-> op[p].read, base |-> op[p].base]

TxOk(tx) ==
  \/ tx.kind = "add" /\ AddEntryOk(tx.slot, tx.data)
  \/ tx.kind = "update" /\ UpdateEntryOk(tx.slot, tx.data, tx.expected)
  \/ tx.kind = "delete" /\ DeleteEntryOk(tx.slot)

\* Whether a write may fall into the current second of the clock.
SecondAvailable == SameSecondWrites \/ lastWrite < clock

Execute(tx) ==
  \/ /\ tx.kind \in {"add", "update"}
     /\ SecondAvailable
     /\ \/ tx.kind = "add" /\ AddEntry(tx.slot, tx.data)
        \/ tx.kind = "update" /\ UpdateEntry(tx.slot, tx.data, tx.expected)
     /\ stored' = stored \cup {tx.data}
     /\ lastWrite' = clock
  \/ /\ tx.kind = "delete"
     /\ DeleteEntry(tx.slot)
     /\ UNCHANGED <<stored, lastWrite>>

\* Mutated: one attempt too many, of an add or of an update.
AttemptsPlusOne(kind) == IF kind = "add" THEN 4 ELSE 2
UpdateAttemptsPlusOne(kind) == 3

\* The bounds of the retry loops of AddEntryUseCase and UpdateEntryUseCase.
Attempts(kind) == IF kind = "add" THEN 3 ELSE 2

-----------------------------------------------------------------------------
(* Starting a use case *)

CanStart(p, kind) == op[p].pc = "idle" /\ kind \in UseCases[p]

\* Mutated: an id may come up twice.
StartAddRepeatedId(p, id) ==
  /\ CanStart(p, "add")
  /\ created' = created \cup {id}
  /\ Begin(p, [IdleOp EXCEPT !.pc = "meta", !.kind = "add", !.id = id])
  /\ UNCHANGED <<programVars, finalVars, localVars, scan, late, authors,
                 lostSends, stored, lastWrite>>

\* The form makes a new id; the version is the first of that entry.
StartAdd(p, id) ==
  /\ CanStart(p, "add")
  /\ id \notin created
  /\ created' = created \cup {id}
  /\ Begin(p, [IdleOp EXCEPT !.pc = "meta", !.kind = "add", !.id = id])
  /\ UNCHANGED <<programVars, finalVars, localVars, scan, late, authors,
                 lostSends, stored, lastWrite>>

\* The entries a use case may be started on: the handler of a request reads
\* the row, a terminal takes the entry from the list it has in memory.
Offered(p) ==
  IF p \in Terminals THEN listed[DeviceOf[p]]
  ELSE {[id |-> id, slot |-> Rows(p)[id].slot, ver |-> Rows(p)[id].ver] :
          id \in {x \in Ids : Rows(p)[x] # NoRow}}

\* The use case carries the slot and the version of the entry it is given.
\* A terminal edits the entry in memory, whatever becomes of the update.
StartUpdate(p, entry) ==
  /\ CanStart(p, "update")
  /\ Len(authors) < MaxVer
  /\ authors' = Append(authors, p)
  /\ Begin(p, [IdleOp EXCEPT
                 !.pc = "get", !.kind = "update", !.id = entry.id,
                 !.slot = entry.slot, !.base = entry.ver,
                 !.ver = Len(authors) + 1])
  /\ IF p \in Terminals THEN Remember(p, [entry EXCEPT !.ver = Len(authors) + 1])
                         ELSE UNCHANGED listed
  /\ UNCHANGED <<programVars, finalVars, rows, syncState, overtaken, scan, late,
                 created, lostSends, stored, lastWrite>>

StartDelete(p, entry) ==
  /\ CanStart(p, "delete")
  /\ Begin(p, [IdleOp EXCEPT !.pc = "get", !.kind = "delete", !.id = entry.id,
                             !.slot = entry.slot])
  /\ UNCHANGED <<programVars, finalVars, localVars, scan, late, historyVars>>

StartSync(p) ==
  /\ CanStart(p, "sync")
  /\ Begin(p, [IdleOp EXCEPT !.pc = "meta", !.kind = "sync"])
  /\ UNCHANGED <<programVars, finalVars, localVars, scan, late, historyVars>>

StartClear(p) ==
  /\ CanStart(p, "clear")
  /\ Begin(p, [IdleOp EXCEPT !.pc = "entries", !.kind = "clear"])
  /\ UNCHANGED <<programVars, finalVars, localVars, scan, late, historyVars>>

-----------------------------------------------------------------------------
(* Sending a transaction: SolanaVaultRepo.send.  The preflight simulates it *)
(* on the confirmed state; a transaction that was sent runs later, on what  *)
(* the state is then.                                                       *)

Submit(p) ==
  /\ op[p].pc = "submit"
  /\ TxOk(TxOf(p))
  /\ Goto(p, "sent")
  /\ UNCHANGED <<programVars, finalVars, localVars, scan, late, historyVars>>

\* Which failure the use case sees decides what it does: add reads fresh
\* metadata, update reads the entry again after a conflict, up to the
\* number of its attempts.
Conflict(tx) ==
  /\ tx.kind = "update"
  /\ entries[tx.slot] # NoAccount
  /\ entries[tx.slot].updated_at # tx.expected

PreflightReject(p) ==
  /\ op[p].pc = "submit"
  /\ ~TxOk(TxOf(p))
  /\ \/ op[p].kind = "add" /\ Goto(p, "retry")
     \/ /\ Conflict(TxOf(p))
        /\ op[p].attempt + 1 < Attempts("update")
        /\ op' = [op EXCEPT ![p].pc = "get", ![p].attempt = @ + 1]
     \/ /\ op[p].kind # "add"
        /\ Conflict(TxOf(p)) => op[p].attempt + 1 >= Attempts("update")
        /\ Finish(p)
  /\ UNCHANGED <<programVars, finalVars, localVars, scan, late, historyVars>>

Land(p) ==
  /\ op[p].pc = "sent"
  /\ Execute(TxOf(p))
  /\ Goto(p, IF op[p].kind = "delete" THEN "drop" ELSE "save")
  /\ UNCHANGED <<finalVars, localVars, scan, late, created, authors, lostSends>>

\* A transaction that fails when it runs is reported as Custom:6003, which
\* isConflictError does not recognize.
Reject(p) ==
  /\ op[p].pc = "sent"
  /\ ~TxOk(TxOf(p))
  /\ IF op[p].kind = "add" THEN Goto(p, "retry") ELSE Finish(p)
  /\ UNCHANGED <<programVars, finalVars, localVars, scan, late, historyVars>>

\* The answer to SendTransaction is lost: the use case takes the transaction
\* for failed.  Only add goes on (GiveUp covers the others).
SendLost(p) ==
  /\ At(p, "add", "submit")
  /\ TxOk(TxOf(p))
  /\ Cardinality(late \cup {TxOf(p)}) <= MaxLate
  /\ late' = late \cup {TxOf(p)}
  /\ lostSends' = [lostSends EXCEPT ![op[p].id] = @ + 1]
  /\ Goto(p, "retry")
  /\ UNCHANGED <<programVars, finalVars, localVars, scan, created, authors,
                 stored, lastWrite>>

\* The transaction that may be on its way, if any.
Submitted(p) ==
  {tx \in {TxOf(p)} : \/ op[p].pc = "sent"
                      \/ op[p].pc = "submit" /\ TxOk(tx)}

\* The context's deadline, a failing call or statement, or the end of the
\* process.  Whatever was sent may still land.
GiveUp(p) ==
  /\ op[p].pc # "idle"
  /\ late' \in {late} \cup
       {late \cup {tx} : tx \in Submitted(p)}
  /\ Cardinality(late') <= MaxLate
  /\ Finish(p)
  /\ scan' = [scan EXCEPT ![p] = IdleScan]
  /\ UNCHANGED <<programVars, finalVars, localVars, historyVars>>

LateLand(tx) ==
  /\ Execute(tx)
  /\ late' = late \ {tx}
  /\ UNCHANGED <<finalVars, localVars, op, scan, created, authors, lostSends>>

\* It fails, or its blockhash expires.
LateDrop(tx) ==
  /\ late' = late \ {tx}
  /\ UNCHANGED <<programVars, finalVars, localVars, op, scan, historyVars>>

-----------------------------------------------------------------------------
(* AddEntryUseCase.Execute *)

\* Exists and GetMeta; a vault once finalized stays, so one read does.
AddReadMeta(p) ==
  /\ At(p, "add", "meta")
  /\ finalExists
  /\ op' = [op EXCEPT ![p].pc = "submit", ![p].slot = AllocateSlot(finalVault)]
  /\ UNCHANGED <<programVars, finalVars, localVars, scan, late, historyVars>>

\* No vault, or any error of the two reads: saveLocalOnly.
AddOffline(p) ==
  /\ At(p, "add", "meta")
  /\ Goto(p, "localGet")
  /\ UNCHANGED <<programVars, finalVars, localVars, scan, late, historyVars>>

AddLocalGet(p) ==
  /\ At(p, "add", "localGet")
  /\ op' = [op EXCEPT ![p].pc = "localSet", ![p].slot = State(p)]
  /\ UNCHANGED <<programVars, finalVars, localVars, scan, late, historyVars>>

AddLocalSet(p) ==
  /\ At(p, "add", "localSet")
  /\ syncState' = [syncState EXCEPT ![DeviceOf[p]] =
                     U32Sum(op[p].slot, 1)]
  /\ Goto(p, "localSave")
  /\ UNCHANGED <<programVars, finalVars, rowVars, scan, late, historyVars>>

\* Mutated: the attempt is not counted.
AddRetryForever(p) ==
  /\ At(p, "add", "retry")
  /\ op' = [op EXCEPT ![p].pc = "submit", ![p].slot = AllocateSlot(finalVault)]
  /\ UNCHANGED <<programVars, finalVars, localVars, scan, late, historyVars>>

AddRetry(p) ==
  /\ At(p, "add", "retry")
  /\ IF op[p].attempt + 1 < Attempts("add")
     THEN op' = [op EXCEPT ![p].pc = "submit", ![p].attempt = @ + 1,
                           ![p].slot = AllocateSlot(finalVault)]
     ELSE Finish(p)
  /\ UNCHANGED <<programVars, finalVars, localVars, scan, late, historyVars>>

-----------------------------------------------------------------------------
(* UpdateEntryUseCase.Execute and DeleteEntryUseCase.Execute *)

ReadEntry(p) ==
  /\ op[p].kind \in {"update", "delete"}
  /\ op[p].pc = "get"
  /\ finalEntries[op[p].slot] # NoAccount
  /\ op' = [op EXCEPT ![p].pc = "submit",
                      ![p].expected = finalEntries[op[p].slot].updated_at,
                      ![p].read = finalEntries[op[p].slot].encrypted_data]
  /\ UNCHANGED <<programVars, finalVars, localVars, scan, late, historyVars>>

\* No account, or any error of the read, which is dropped: the operation is
\* done on the local database alone.
ReadMissing(p) ==
  /\ op[p].kind \in {"update", "delete"}
  /\ op[p].pc = "get"
  /\ Goto(p, IF op[p].kind = "update" THEN "localSave" ELSE "drop")
  /\ UNCHANGED <<programVars, finalVars, localVars, scan, late, historyVars>>

-----------------------------------------------------------------------------
(* The local database after the chain *)

SaveRow(p) ==
  /\ op[p].pc \in {"save", "localSave"}
  /\ Save(p, op[p].id, op[p].slot, op[p].ver)
  /\ IF op[p].pc = "save" THEN Goto(p, "mark") ELSE Finish(p)
  /\ UNCHANGED <<programVars, finalVars, syncState, scan, late, historyVars>>

MarkRow(p) ==
  /\ op[p].pc = "mark"
  /\ MarkSynced(p, op[p].id)
  /\ Finish(p)
  /\ UNCHANGED <<programVars, finalVars, syncState, scan, late, historyVars>>

DropRow(p) ==
  /\ op[p].pc = "drop"
  /\ DeleteRows(p, {op[p].id})
  /\ Finish(p)
  /\ UNCHANGED <<programVars, finalVars, syncState, scan, late, historyVars>>

-----------------------------------------------------------------------------
(* SyncUseCase.Execute and ClearLocalDataUseCase.Execute *)

FinalHolders == {<<i, finalEntries[i].encrypted_data.id>> : i \in FinalLive}
FinalContent  == {<<i, finalEntries[i].encrypted_data>> : i \in FinalLive}

\* Mutated: the loop steps over a slot.
NextCursorSkipping(cursor) == U32Sum(cursor, BatchSize + 1)

\* start += syncBatchSize on a u32
NextCursor(cursor) == U32Sum(cursor, BatchSize)

SyncReadMeta(p) ==
  /\ At(p, "sync", "meta")
  /\ finalExists
  /\ scan' = [scan EXCEPT ![p] =
                [IdleScan EXCEPT !.next = finalVault.next_index,
                                 !.occupied = FinalLive,
                                 !.steady = FinalHolders,
                                 !.seen = FinalContent]]
  /\ overtaken' = [overtaken EXCEPT ![p] = {}]
  /\ Goto(p, "fetch")
  /\ UNCHANGED <<programVars, finalVars, rows, syncState, listed, late, historyVars>>

\* The indices of the batch that starts at start; its end wraps too, which
\* leaves the batch empty.
Batch(start, next) ==
  {i \in U32 : start <= i /\ i < next /\ i < U32Sum(start, BatchSize)}

\* Mutated: each batch starts a new set of remote slots.
SyncFetchForgetting(p) ==
  /\ At(p, "sync", "fetch")
  /\ scan[p].fetched = {}
  /\ scan[p].cursor < scan[p].next
  /\ LET found == Batch(scan[p].cursor, scan[p].next) \cap FinalLive IN
       scan' = [scan EXCEPT
                  ![p].cursor = NextCursor(@),
                  ![p].remote = found,
                  ![p].fetched = {<<i, finalEntries[i].encrypted_data>> : i \in found}]
  /\ UNCHANGED <<programVars, finalVars, localVars, op, late, historyVars>>

\* One GetMultipleAccounts call.  The loop's counter is a u32.
SyncFetch(p) ==
  /\ At(p, "sync", "fetch")
  /\ scan[p].fetched = {}
  /\ scan[p].cursor < scan[p].next
  /\ LET found == Batch(scan[p].cursor, scan[p].next) \cap FinalLive IN
       scan' = [scan EXCEPT
                  ![p].cursor = NextCursor(@),
                  ![p].remote = @ \cup found,
                  ![p].fetched = {<<i, finalEntries[i].encrypted_data>> : i \in found}]
  /\ UNCHANGED <<programVars, finalVars, localVars, op, late, historyVars>>

\* The accounts of a batch are saved in no particular order (a Go map).
SyncSave(p) ==
  /\ At(p, "sync", "fetch")
  /\ \E f \in scan[p].fetched :
       /\ Save(p, f[2].id, f[1], f[2].ver)
       /\ op' = [op EXCEPT ![p].pc = "markRow", ![p].id = f[2].id]
       /\ scan' = [scan EXCEPT ![p].fetched = @ \ {f}]
  /\ UNCHANGED <<programVars, finalVars, syncState, late, historyVars>>

SyncMark(p) ==
  /\ At(p, "sync", "markRow")
  /\ MarkSynced(p, op[p].id)
  /\ op' = [op EXCEPT ![p].pc = "fetch", ![p].id = NoRow]
  /\ UNCHANGED <<programVars, finalVars, syncState, scan, late, historyVars>>

\* The rows in the scanned range whose slot no batch found an account at;
\* none if the chain looked empty.
StaleRows(p) ==
  {<<id, Rows(p)[id].slot>> :
     id \in {x \in Ids : /\ Rows(p)[x] # NoRow
                         /\ Rows(p)[x].slot < scan[p].next
                         /\ Rows(p)[x].slot \notin scan[p].remote}}

SyncList(p) ==
  /\ At(p, "sync", "fetch")
  /\ scan[p].fetched = {}
  /\ scan[p].cursor >= scan[p].next
  /\ scan' = [scan EXCEPT ![p].stale =
                IF scan[p].next > 0 /\ scan[p].remote # {} THEN StaleRows(p) ELSE {}]
  /\ Goto(p, "deleteStale")
  /\ UNCHANGED <<programVars, finalVars, localVars, late, historyVars>>

SyncDelete(p) ==
  /\ At(p, "sync", "deleteStale")
  /\ \E row \in scan[p].stale :
       /\ DeleteRows(p, {row[1]})
       /\ scan' = [scan EXCEPT ![p].stale = @ \ {row}]
  /\ UNCHANGED <<programVars, finalVars, syncState, op, late, historyVars>>

SyncFinish(p) ==
  /\ At(p, "sync", "deleteStale")
  /\ scan[p].stale = {}
  /\ syncState' = [syncState EXCEPT ![DeviceOf[p]] = scan[p].next]
  /\ Finish(p)
  /\ scan' = [scan EXCEPT ![p] = IdleScan]
  /\ UNCHANGED <<programVars, finalVars, rowVars, late, historyVars>>

\* ClearAll: two statements, no transaction.
ClearEntries(p) ==
  /\ At(p, "clear", "entries")
  /\ DeleteRows(p, Ids)
  /\ Goto(p, "state")
  /\ UNCHANGED <<programVars, finalVars, syncState, scan, late, historyVars>>

ClearState(p) ==
  /\ At(p, "clear", "state")
  /\ syncState' = [syncState EXCEPT ![DeviceOf[p]] = 0]
  /\ Finish(p)
  /\ UNCHANGED <<programVars, finalVars, rowVars, scan, late, historyVars>>

-----------------------------------------------------------------------------
(* The chain *)

\* The owner initializes the vault, and resets it where that is allowed; the
\* program initializes a vault that exists as readily.
OwnerInstruction ==
  /\ ~vaultExists \/ WithReset
  /\ VaultInstruction
  /\ UNCHANGED <<finalVars, localVars, processVars, historyVars>>

\* The finalized state catches up with the confirmed one.  A running sync
\* keeps (history) the slots that were never vacant since it read the
\* metadata, those that always held the same entry, and everything that was
\* finalized in the meantime.
Finalize ==
  /\ finalExists' = vaultExists
  /\ finalVault' = vault
  /\ finalEntries' = entries
  /\ scan' = [p \in Procs |->
       IF op[p].kind = "sync" /\ op[p].pc # "meta"
       THEN [scan[p] EXCEPT !.occupied = @ \cap FinalLive',
                            !.steady = @ \cap FinalHolders',
                            !.seen = @ \cup FinalContent']
       ELSE scan[p]]
  /\ UNCHANGED <<programVars, localVars, op, late, historyVars>>

\* A second in which nothing is written changes nothing and is left out.
Second ==
  /\ lastWrite = clock
  /\ Tick
  /\ UNCHANGED <<finalVars, localVars, processVars, historyVars>>

Start(p) ==
  \/ \E id \in Ids : StartAdd(p, id)
  \/ \E entry \in Offered(p) : StartUpdate(p, entry) \/ StartDelete(p, entry)
  \/ StartSync(p)
  \/ StartClear(p)

Send(p) == Submit(p) \/ PreflightReject(p) \/ Land(p) \/ Reject(p) \/ SendLost(p)

AddStep(p) ==
  \/ AddReadMeta(p) \/ AddOffline(p) \/ AddRetry(p)
  \/ AddLocalGet(p) \/ AddLocalSet(p)

RowStep(p) == SaveRow(p) \/ MarkRow(p) \/ DropRow(p)

SyncStep(p) ==
  \/ SyncReadMeta(p) \/ SyncFetch(p) \/ SyncSave(p) \/ SyncMark(p)
  \/ SyncList(p) \/ SyncDelete(p) \/ SyncFinish(p)

Work(p) ==
  \/ Send(p) \/ AddStep(p) \/ ReadEntry(p) \/ ReadMissing(p) \/ RowStep(p)
  \/ SyncStep(p) \/ ClearEntries(p) \/ ClearState(p)

Chain ==
  \/ OwnerInstruction \/ Finalize \/ Second
  \/ \E tx \in late : LateLand(tx) \/ LateDrop(tx)

ClientsNext == Chain \/ \E p \in Procs : Start(p) \/ Work(p) \/ GiveUp(p)

ClientsSpec == ClientsInit /\ [][ClientsNext]_vars

\* The Go scheduler runs every goroutine, and each call a use case makes
\* returns by the deadline of its context.
FairClientsSpec ==
  ClientsSpec /\ \A p \in Procs : WF_vars(Work(p) \/ GiveUp(p))

-----------------------------------------------------------------------------
(* Properties *)

Steps == {"idle", "meta", "submit", "sent", "retry", "localGet", "localSet",
          "localSave", "get", "save", "mark", "drop", "fetch", "markRow",
          "deleteStale", "entries", "state"}

SlotContent == U32 \X Payload

OpType ==
  [pc : Steps, kind : Kinds \cup {"none"},
   id : Ids \cup {NoRow}, ver : Versions, base : Versions, slot : U32,
   expected : Time, read : Payload \cup {NoRow}, attempt : 0 .. 2]

ScanType ==
  [next : U32, cursor : U32, remote : SUBSET U32,
   fetched : SUBSET SlotContent, stale : SUBSET (Ids \X U32), occupied : SUBSET U32,
   steady : SUBSET (U32 \X Ids), seen : SUBSET SlotContent]

TxType ==
  [kind : {"add", "update", "delete"}, slot : U32, data : Payload,
   expected : Time, read : Payload \cup {NoRow}, base : Versions]

(* Type invariant of the clients; an add stays within its three attempts.   *)
ClientsTypeOK ==
  /\ finalExists \in BOOLEAN
  /\ finalVault \in VaultMeta
  /\ finalEntries \in [U32 -> EntryAccount \cup {NoAccount}]
  /\ rows \in [Devices -> [Ids -> Row \cup {NoRow}]]
  /\ syncState \in [Devices -> U32]
  /\ listed \in [Devices -> SUBSET Listed]
  /\ overtaken \in [Procs -> SUBSET Ids]
  /\ op \in [Procs -> OpType]
  /\ scan \in [Procs -> ScanType]
  /\ late \subseteq TxType
  /\ created \subseteq Ids
  /\ authors \in Seq(Procs)
  /\ lostSends \in [Ids -> Nat]
  /\ stored \subseteq Payload
  /\ lastWrite \in Time

(* As long as the owner resets nothing, no slot is lost, whatever the       *)
(* clients race, retry or abandon: below next_index a slot holds an entry   *)
(* or is in the free list.  An add that ran ahead of next_index would leave *)
(* slots behind that nothing ever allocates.                                *)
NoSlotLeak ==
  ~WithReset =>
    \A i \in U32 : i < vault.next_index <=> i \in LiveEntries \cup FreeSlots

(* Adding is not idempotent, but an entry sits in a second slot only if an  *)
(* answer to SendTransaction was lost: no other retry, and no deadline,     *)
(* stores an entry twice.                                                   *)
HoldersOf(id) == {i \in LiveEntries : entries[i].encrypted_data.id = id}
DuplicatesOnlyFromLostSends ==
  \A id \in Ids : Cardinality(HoldersOf(id)) <= 1 + lostSends[id]

(* Retries are bounded whatever the chain refuses: an add is sent three     *)
(* times at most, an update twice, and nothing else is sent again.          *)
AttemptsBounded ==
  \A p \in Procs :
    /\ op[p].kind = "add" => op[p].attempt <= 2
    /\ op[p].kind = "update" => op[p].attempt <= 1
    /\ op[p].kind \notin {"add", "update"} => op[p].attempt = 0

(* A row marked synced whose content never was on chain.                    *)
Unbacked(d, id) ==
  /\ rows[d][id] # NoRow
  /\ rows[d][id].synced
  /\ [id |-> id, ver |-> rows[d][id].ver] \notin stored

(* Save clears the mark, and the mark follows only a transaction that       *)
(* landed or an account that was read, but as a statement of its own that   *)
(* goes by the id: content that never was on chain is marked synced only if *)
(* another use case of the device wrote the row between the two statements; *)
(* no retry, lost answer, deadline or crash has it marked.                  *)
SyncedRowsWereStored ==
  [][\A d \in Devices, id \in Ids :
       Unbacked(d, id)' /\ ~Unbacked(d, id)
       => \E p \in Procs : /\ DeviceOf[p] = d /\ id \in overtaken[p]
                           /\ op[p].pc \in {"mark", "markRow"} /\ op[p].id = id
                           /\ op'[p] # op[p]]_vars

(* A sync deletes a row only if the row's slot was vacant, at the finalized *)
(* commitment, at some time since the sync read the metadata, however long  *)
(* the sync takes and whatever lands in the meantime.  Other use cases of   *)
(* the device may write the row after the sync listed it, but they move it  *)
(* to another slot only if the entry is stored twice, after a lost answer.  *)
SyncKeepsLive ==
  [][\A p \in Procs, id \in Ids :
       /\ SyncDelete(p)
       /\ Rows(p)[id] # NoRow
       /\ rows'[DeviceOf[p]][id] = NoRow
       => \/ Rows(p)[id].slot \notin scan[p].occupied
          \/ lostSends[id] > 0 /\ <<id, Rows(p)[id].slot>> \notin scan[p].stale]_vars

(* A sync that ends has found every slot, among those below the next_index  *)
(* it read, that held the same entry while it ran, and without a reset that *)
(* is every such slot.  The entry's row holds a copy that was on chain in   *)
(* the meantime, unless another use case of the device has written or       *)
(* deleted the row since the sync saved it.                                 *)
SyncFetchesAll ==
  [][\A p \in Procs :
       SyncFinish(p)
       => \A s \in scan[p].steady :
            (WithReset => s[1] < scan[p].next)
            => LET id == s[2]
                   row == Rows(p)[id]
               IN  /\ s[1] \in scan[p].remote
                   /\ \/ id \in overtaken[p]
                      \/ /\ row # NoRow
                         /\ <<row.slot, [id |-> id, ver |-> row.ver]>> \in scan[p].seen]_vars

(* With one write per second of the cluster's clock, the vault is an        *)
(* OptimisticStore: an update commits only over the very content its author *)
(* read at the finalized commitment, an add only into a vacant slot.        *)
Stored == [i \in U32 |-> IF entries[i] = NoAccount THEN NoRow
                                                  ELSE entries[i].encrypted_data]
InFlight == late \cup {TxOf(p) : p \in {q \in Procs : op[q].pc = "sent"}}
Abstract(tx) ==
  [slot |-> tx.slot,
   basis |-> IF tx.kind = "add" THEN NoRow ELSE tx.read,
   value |-> IF tx.kind = "delete" THEN NoRow ELSE tx.data]

Pending == {Abstract(tx) : tx \in InFlight}

Store == INSTANCE OptimisticStore WITH
  Slots <- U32, Values <- Payload, None <- NoRow,
  store <- Stored, pending <- Pending

ImplementsOptimisticStore == Store!StoreSpec

(* A use case ends: retries are bounded, a sync's scan is.                  *)
Terminates == \A p \in Procs : op[p].pc # "idle" ~> op[p].pc = "idle"

-----------------------------------------------------------------------------
(* What the documentation says of the clients *)

(* app/README.md: "If another client modified the entry, the TX fails and   *)
(* sync is required": an update that is acknowledged replaced the content   *)
(* its author edited, or one of its author's own, unless the edited content *)
(* never was on chain.                                                      *)
StaleUpdateRejected ==
  [][\A p \in Procs :
       LET edited   == [id |-> op[p].id, ver |-> op[p].base]
           replaced == entries[op[p].slot].encrypted_data
       IN  /\ At(p, "update", "sent")
           /\ op'[p].pc = "save"
           /\ edited \in stored
           => \/ replaced = edited
              \/ replaced.ver > 0 /\ authors[replaced.ver] = p]_vars

(* README.md: "Local-first - works offline, syncs when connected": a sync   *)
(* keeps what was saved locally and has never been on chain.                *)
SyncKeepsUnpushed ==
  [][\A p \in Procs, id \in Ids :
       LET row == Rows(p)[id] IN
       /\ op[p].kind = "sync"
       /\ row # NoRow
       /\ [id |-> id, ver |-> row.ver] \notin stored
       /\ op'[p] # op[p] \/ scan'[p] # scan[p]
       => rows'[DeviceOf[p]][id] = row]_vars

(* docs/architecture.md: sync deletes "entries missing on-chain": when a    *)
(* sync ends, an entry whose row lies in the scanned range was on chain at  *)
(* some time since it began.                                                *)
SyncDeletesMissing ==
  [][\A p \in Procs, id \in Ids :
       /\ SyncFinish(p)
       /\ Rows(p)[id] # NoRow
       /\ Rows(p)[id].slot < scan[p].next
       => \E s \in scan[p].seen : s[2].id = id]_vars
=============================================================================
