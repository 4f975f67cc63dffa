------------------------ MODULE SoLockCopies_proofs ------------------------
(***************************************************************************)
(* Proofs about the copies that the clients make of an entry: the rows of  *)
(* the local databases, what a sync does to them, and the slots an entry   *)
(* comes to sit in; for every number of processes, devices, entries and    *)
(* slots, and every mix of use cases.                                      *)
(***************************************************************************)
EXTENDS SoLockClients_proofs

-----------------------------------------------------------------------------
(* What a step of a process leaves alone *)

Moves(p) == Start(p) \/ Work(p) \/ GiveUp(p)

LEMMA MovesTyped ==
  ASSUME TypeInv
  PROVE  /\ op \in [Procs -> OpType] /\ scan \in [Procs -> ScanType]
         /\ rows \in [Devices -> [Ids -> Row \cup {NoRow}]]
         /\ overtaken \in [Procs -> SUBSET Ids]
         /\ \A p \in Procs : DeviceOf[p] \in Devices /\ Rows(p) \in [Ids -> Row \cup {NoRow}]
BY ClientsAssumption DEF TypeInv, ClientTypes, ClientsTypeOK, Rows

(* The use cases and the syncs of the other processes.                     *)
LEMMA OthersRest ==
  ASSUME TypeInv, NEW p \in Procs, Moves(p), NEW q \in Procs \ {p}
  PROVE  op'[q] = op[q] /\ scan'[q] = scan[q]
<1>1. op \in [Procs -> OpType] /\ scan \in [Procs -> ScanType]
  BY MovesTyped
<1> USE DEF Begin, Goto, Finish, historyVars
<1>2. CASE Start(p)
  BY <1>1, <1>2 DEF Start, StartAdd, StartUpdate, StartDelete, StartSync, StartClear
<1>3. CASE GiveUp(p)
  BY <1>1, <1>3 DEF GiveUp
<1>4. CASE Send(p)
  BY <1>1, <1>4 DEF Send, Submit, PreflightReject, Land, Reject, SendLost
<1>5. CASE AddStep(p)
  BY <1>1, <1>5 DEF AddStep, AddReadMeta, AddOffline, AddRetry, AddLocalGet, AddLocalSet
<1>6. CASE ReadEntry(p) \/ ReadMissing(p) \/ RowStep(p)
  BY <1>1, <1>6 DEF ReadEntry, ReadMissing, RowStep, SaveRow, MarkRow, DropRow
<1>7. CASE SyncStep(p)
  BY <1>1, <1>7 DEF SyncStep, SyncReadMeta, SyncFetch, SyncSave, SyncMark, SyncList,
                    SyncDelete, SyncFinish
<1>8. CASE ClearEntries(p) \/ ClearState(p)
  BY <1>1, <1>8 DEF ClearEntries, ClearState
<1> QED BY <1>2, <1>3, <1>4, <1>5, <1>6, <1>7, <1>8 DEF Moves, Work

(* A step that writes a row is one of the three statements on it.          *)
LEMMA RowSteps ==
  ASSUME TypeInv, NEW p \in Procs, Moves(p)
  PROVE  \/ rows' = rows /\ \A q \in Procs \ {p} : overtaken'[q] = overtaken[q]
         \/ \E id \in Ids : \E slot, ver : Save(p, id, slot, ver)
         \/ \E id \in Ids : MarkSynced(p, id)
         \/ \E ids \in SUBSET Ids : DeleteRows(p, ids)
<1>1. /\ op[p] \in OpType /\ OpShape(op[p])
      /\ scan[p] \in ScanType /\ overtaken \in [Procs -> SUBSET Ids]
  BY MovesTyped DEF TypeInv, ClientTypes
<1> DEFINE Quiet == rows' = rows /\ \A q \in Procs \ {p} : overtaken'[q] = overtaken[q]
<1>2. UNCHANGED rowVars => Quiet
  BY DEF rowVars
<1> USE DEF localVars
<1>3. CASE Start(p)
  <2>1. rows' = rows /\ overtaken' = overtaken
    BY <1>3 DEF Start, StartAdd, StartUpdate, StartDelete, StartSync, StartClear, rowVars
  <2> QED BY <2>1
<1>4. CASE GiveUp(p)
  BY <1>2, <1>4 DEF GiveUp
<1>5. CASE Send(p)
  BY <1>2, <1>5 DEF Send, Submit, PreflightReject, Land, Reject, SendLost
<1>6. CASE AddStep(p)
  BY <1>2, <1>6 DEF AddStep, AddReadMeta, AddOffline, AddRetry, AddLocalGet, AddLocalSet
<1>7. CASE ReadEntry(p) \/ ReadMissing(p) \/ SyncFetch(p) \/ SyncList(p) \/ SyncFinish(p)
           \/ ClearState(p)
  BY <1>2, <1>7 DEF ReadEntry, ReadMissing, SyncFetch, SyncList, SyncFinish, ClearState
<1>8. CASE SyncReadMeta(p)
  BY <1>1, <1>8 DEF SyncReadMeta
<1>9. CASE SaveRow(p) \/ MarkRow(p) \/ DropRow(p)
  <2>1. op[p].id \in Ids
    BY <1>1, <1>9 DEF SaveRow, MarkRow, DropRow, OpShape
  <2> QED BY <1>9, <2>1 DEF SaveRow, MarkRow, DropRow
<1>10. CASE SyncSave(p)
  <2>1. PICK f \in scan[p].fetched : Save(p, f[2].id, f[1], f[2].ver)
    BY <1>10 DEF SyncSave
  <2>2. f[2].id \in Ids
    BY <1>1, <2>1 DEF ScanType, SlotContent, Payload
  <2> QED BY <2>1, <2>2
<1>11. CASE SyncMark(p)
  BY <1>1, <1>11 DEF SyncMark, At, OpShape
<1>12. CASE SyncDelete(p)
  <2>1. PICK row \in scan[p].stale : DeleteRows(p, {row[1]})
    BY <1>12 DEF SyncDelete
  <2>2. {row[1]} \in SUBSET Ids
    BY <1>1, <2>1 DEF ScanType
  <2> QED BY <2>1, <2>2
<1>13. CASE ClearEntries(p)
  BY <1>13 DEF ClearEntries
<1> QED BY <1>3, <1>4, <1>5, <1>6, <1>7, <1>8, <1>9, <1>10, <1>11, <1>12, <1>13, Zenon
        DEF Moves, Work, RowStep, SyncStep

(* The databases of the other devices.                                     *)
LEMMA DevicesRest ==
  ASSUME TypeInv, NEW p \in Procs, Moves(p), NEW d \in Devices \ {DeviceOf[p]}
  PROVE  rows'[d] = rows[d]
<1>1. rows \in [Devices -> [Ids -> Row \cup {NoRow}]]
  BY MovesTyped
<1>2. ASSUME NEW id, NEW slot, NEW ver, Save(p, id, slot, ver)
      PROVE  rows'[d] = rows[d]
  BY <1>1, <1>2 DEF Save
<1>3. ASSUME NEW id, MarkSynced(p, id)
      PROVE  rows'[d] = rows[d]
  BY <1>1, <1>3 DEF MarkSynced
<1>4. ASSUME NEW ids, DeleteRows(p, ids)
      PROVE  rows'[d] = rows[d]
  BY <1>1, <1>4 DEF DeleteRows
<1> QED BY <1>2, <1>3, <1>4, RowSteps

(* The finalized state.                                                    *)
LEMMA FinalRests ==
  ASSUME NEW p \in Procs, Moves(p)
  PROVE  UNCHANGED finalVars
<1>1. CASE Start(p)
  BY <1>1 DEF Start, StartAdd, StartUpdate, StartDelete, StartSync, StartClear
<1>2. CASE GiveUp(p)
  BY <1>2 DEF GiveUp
<1>3. CASE Send(p)
  BY <1>3 DEF Send, Submit, PreflightReject, Land, Reject, SendLost
<1>4. CASE AddStep(p)
  BY <1>4 DEF AddStep, AddReadMeta, AddOffline, AddRetry, AddLocalGet, AddLocalSet
<1>5. CASE ReadEntry(p) \/ ReadMissing(p) \/ RowStep(p)
  BY <1>5 DEF ReadEntry, ReadMissing, RowStep, SaveRow, MarkRow, DropRow
<1>6. CASE SyncStep(p)
  BY <1>6 DEF SyncStep, SyncReadMeta, SyncFetch, SyncSave, SyncMark, SyncList,
              SyncDelete, SyncFinish
<1>7. CASE ClearEntries(p) \/ ClearState(p)
  BY <1>7 DEF ClearEntries, ClearState
<1> QED BY <1>1, <1>2, <1>3, <1>4, <1>5, <1>6, <1>7 DEF Moves, Work

-----------------------------------------------------------------------------
(* What a step does to the rows of its own device *)

(* The three statements on the table entries.                              *)
LEMMA RowEffects ==
  ASSUME TypeInv, NEW p \in Procs
  PROVE  /\ \A id \in Ids : \A slot, ver : Save(p, id, slot, ver) =>
              /\ overtaken'[p] = overtaken[p] \ {id}
              /\ \A j \in Ids : Rows(p)'[j] =
                   IF j = id THEN [slot |-> slot, ver |-> ver, synced |-> FALSE]
                             ELSE Rows(p)[j]
         /\ \A id \in Ids : MarkSynced(p, id) =>
              /\ overtaken'[p] = overtaken[p]
              /\ \A j \in Ids : Rows(p)'[j] =
                   IF j = id /\ Rows(p)[id] # NoRow
                   THEN [Rows(p)[id] EXCEPT !.synced = TRUE] ELSE Rows(p)[j]
         /\ \A ids : DeleteRows(p, ids) =>
              /\ overtaken'[p] = overtaken[p]
              /\ \A j \in Ids : Rows(p)'[j] = IF j \in ids THEN NoRow ELSE Rows(p)[j]
<1>1. /\ rows \in [Devices -> [Ids -> Row \cup {NoRow}]] /\ DeviceOf[p] \in Devices
      /\ \A ids : p \in DOMAIN Overtake(p, ids) /\ Overtake(p, ids)[p] = overtaken[p]
  BY MovesTyped DEF Overtake
<1>2. ASSUME NEW id \in Ids, NEW slot, NEW ver, Save(p, id, slot, ver)
      PROVE  /\ overtaken'[p] = overtaken[p] \ {id}
             /\ \A j \in Ids : Rows(p)'[j] =
                  IF j = id THEN [slot |-> slot, ver |-> ver, synced |-> FALSE]
                            ELSE Rows(p)[j]
  <2>1. rows' = [rows EXCEPT ![DeviceOf[p]][id] =
                   [slot |-> slot, ver |-> ver, synced |-> FALSE]]
        /\ overtaken' = [Overtake(p, {id}) EXCEPT ![p] = @ \ {id}]
    BY <1>2 DEF Save
  <2> QED BY <1>1, <2>1 DEF Rows
<1>3. ASSUME NEW id \in Ids, MarkSynced(p, id), NEW j \in Ids
      PROVE  Rows(p)'[j] = IF j = id /\ Rows(p)[id] # NoRow
                           THEN [Rows(p)[id] EXCEPT !.synced = TRUE] ELSE Rows(p)[j]
  BY <1>1, <1>3 DEF MarkSynced, Rows
<1>4. ASSUME NEW ids, DeleteRows(p, ids), NEW j \in Ids
      PROVE  Rows(p)'[j] = IF j \in ids THEN NoRow ELSE Rows(p)[j]
  BY <1>1, <1>4 DEF DeleteRows, Rows
<1>5. /\ \A id : MarkSynced(p, id) => overtaken'[p] = overtaken[p]
      /\ \A ids : DeleteRows(p, ids) => overtaken'[p] = overtaken[p]
  BY <1>1 DEF MarkSynced, DeleteRows
<1> QED BY <1>2, <1>3, <1>4, <1>5

(* MarkSynced changes nothing but the mark.                                *)
LEMMA MarkedRow ==
  ASSUME TypeInv, NEW p \in Procs, NEW id \in Ids, MarkSynced(p, id), NEW j \in Ids
  PROVE  /\ Rows(p)'[j] = NoRow <=> Rows(p)[j] = NoRow
         /\ Rows(p)[j] # NoRow => /\ Rows(p)'[j].slot = Rows(p)[j].slot
                                  /\ Rows(p)'[j].ver = Rows(p)[j].ver
<1>1. Rows(p)[j] \in Row \cup {NoRow}
  BY MovesTyped
<1>2. Rows(p)'[j] = IF j = id /\ Rows(p)[id] # NoRow
                    THEN [Rows(p)[id] EXCEPT !.synced = TRUE] ELSE Rows(p)[j]
  BY RowEffects
<1>3. CASE Rows(p)[j] \in Row
  <2>1. [Rows(p)[j] EXCEPT !.synced = TRUE] \in Row
    BY <1>3 DEF Row
  <2> QED BY <1>2, <1>3, <2>1, ClientsAssumption DEF Row
<1>4. CASE Rows(p)[j] = NoRow
  BY <1>2, <1>4
<1> QED BY <1>1, <1>3, <1>4

(* A row is there as before, but for its mark.                             *)
Untouched(p, id) ==
  /\ Rows(p)'[id] = NoRow <=> Rows(p)[id] = NoRow
  /\ Rows(p)[id] # NoRow => /\ Rows(p)'[id].slot = Rows(p)[id].slot
                            /\ Rows(p)'[id].ver = Rows(p)[id].ver

(* What the step of another process, of the same device or not, means to a *)
(* use case: a row is untouched, or it counts as overtaken.                *)
LEMMA OthersRows ==
  ASSUME TypeInv, NEW p \in Procs, Moves(p), NEW q \in Procs \ {p}
  PROVE  /\ op'[q] = op[q] /\ scan'[q] = scan[q]
         /\ overtaken[q] \subseteq overtaken'[q]
         /\ \A id \in Ids : id \in overtaken'[q] \/ Untouched(q, id)
<1>1. op'[q] = op[q] /\ scan'[q] = scan[q]
  BY OthersRest
<1>2. /\ rows \in [Devices -> [Ids -> Row \cup {NoRow}]]
      /\ overtaken \in [Procs -> SUBSET Ids]
      /\ DeviceOf[p] \in Devices /\ DeviceOf[q] \in Devices
      /\ \A id \in Ids : Rows(q)[id] \in Row \cup {NoRow}
  BY MovesTyped
<1> DEFINE Goal == /\ overtaken[q] \subseteq overtaken'[q]
                   /\ \A id \in Ids : id \in overtaken'[q] \/ Untouched(q, id)
<1>3. Rows(q)' = Rows(q) => \A id \in Ids : Untouched(q, id)
  BY DEF Untouched
<1>4. CASE rows' = rows /\ overtaken'[q] = overtaken[q]
  <2>1. Rows(q)' = Rows(q)
    BY <1>4 DEF Rows
  <2>2. \A id \in Ids : Untouched(q, id)
    BY <1>3, <2>1
  <2> QED BY <1>1, <1>4, <2>2
<1>5. ASSUME NEW ids, overtaken'[q] = Overtake(p, ids)[q],
             DeviceOf[q] = DeviceOf[p] =>
               \A id \in Ids : id \in ids \/ Rows(p)'[id] = Rows(p)[id]
      PROVE  Goal
  <2>1. CASE DeviceOf[q] = DeviceOf[p]
    <3>1. overtaken'[q] = overtaken[q] \cup ids /\ Rows(q) = Rows(p) /\ Rows(q)' = Rows(p)'
      BY <1>5, <2>1 DEF Overtake, Rows
    <3> QED BY <1>5, <2>1, <3>1 DEF Untouched
  <2>2. CASE DeviceOf[q] # DeviceOf[p]
    <3>1. overtaken'[q] = overtaken[q]
      BY <1>5, <2>2 DEF Overtake
    <3>2. Rows(q)' = Rows(q)
      BY <1>2, <2>2, DevicesRest DEF Rows
    <3> QED BY <1>3, <3>1, <3>2
  <2> QED BY <2>1, <2>2
<1>6. ASSUME NEW id \in Ids, NEW slot, NEW ver, Save(p, id, slot, ver)
      PROVE  Goal
  <2> DEFINE ids == {id}
  <2>1. overtaken'[q] = Overtake(p, ids)[q]
    <3>1. DOMAIN Overtake(p, ids) = Procs
      BY DEF Overtake
    <3> QED BY <1>6, <3>1 DEF Save
  <2>2. \A j \in Ids : j \in ids \/ Rows(p)'[j] = Rows(p)[j]
    <3>1. \A j \in Ids : Rows(p)'[j] =
            IF j = id THEN [slot |-> slot, ver |-> ver, synced |-> FALSE] ELSE Rows(p)[j]
      BY <1>6, RowEffects
    <3> QED BY <3>1
  <2> HIDE DEF ids
  <2> QED BY <1>5, <2>1, <2>2
<1>7. ASSUME NEW ids \in SUBSET Ids, DeleteRows(p, ids)
      PROVE  Goal
  <2>1. overtaken'[q] = Overtake(p, ids)[q]
    BY <1>7 DEF DeleteRows
  <2>2. \A j \in Ids : j \in ids \/ Rows(p)'[j] = Rows(p)[j]
    BY <1>7, RowEffects
  <2> QED BY <1>5, <2>1, <2>2
<1>8. ASSUME NEW id \in Ids, MarkSynced(p, id)
      PROVE  Goal
  <2>1. overtaken'[q] = overtaken[q]
    BY <1>8 DEF MarkSynced
  <2>2. CASE DeviceOf[q] = DeviceOf[p]
    <3>1. Rows(q) = Rows(p) /\ Rows(q)' = Rows(p)'
      BY <2>2 DEF Rows
    <3>2. ASSUME NEW j \in Ids
          PROVE  Untouched(q, j)
      BY <1>2, <1>8, <3>1, MarkedRow DEF Untouched
    <3> QED BY <2>1, <3>2
  <2>3. CASE DeviceOf[q] # DeviceOf[p]
    <3>1. Rows(q)' = Rows(q)
      BY <1>2, <2>3, DevicesRest DEF Rows
    <3> QED BY <1>3, <2>1, <3>1
  <2> QED BY <2>2, <2>3
<1>9. Goal
  BY <1>4, <1>6, <1>7, <1>8, RowSteps
<1> QED BY <1>1, <1>9

Scanning == {"fetch", "markRow", "deleteStale"}

(* A step that leaves a process neither scanning nor about to save or mark *)
(* a row, and that has written no row.                                     *)
Retires(p) ==
  /\ op'[p].pc \notin Scanning \cup {"save", "mark"}
  /\ scan'[p].fetched \subseteq scan[p].fetched /\ scan'[p].stale \subseteq scan[p].stale
  /\ \A id \in Ids : Rows(p)'[id] \in {Rows(p)[id], NoRow}

(* Every step of a process is of this kind but nine.                       *)
LEMMA StepKinds ==
  ASSUME TypeInv, NEW p \in Procs, Moves(p)
  PROVE  \/ Retires(p) \/ Land(p) \/ SaveRow(p) \/ MarkRow(p)
         \/ SyncReadMeta(p) \/ SyncFetch(p) \/ SyncSave(p) \/ SyncMark(p)
         \/ SyncList(p) \/ SyncDelete(p)
<1> DEFINE NotThere == op'[p].pc \notin Scanning \cup {"save", "mark"}
           Still    == scan'[p] = scan[p] /\ Rows(p)' = Rows(p)
<1>1. /\ op \in [Procs -> OpType] /\ scan \in [Procs -> ScanType]
      /\ op[p] \in OpType /\ scan[p] \in ScanType
  BY MovesTyped
<1>2. NotThere /\ Still => Retires(p)
  BY DEF Retires
<1>3. ASSUME NEW pc, Goto(p, pc), pc \notin Scanning \cup {"save", "mark"}
      PROVE  NotThere
  BY <1>1, <1>3 DEF Goto, OpType
<1>4. Finish(p) => NotThere
  BY <1>1 DEF Finish, IdleOp, Scanning
<1> HIDE DEF NotThere
<1>5. CASE Start(p)
  <2>1. Still
    BY <1>5 DEF Start, StartAdd, StartUpdate, StartDelete, StartSync, StartClear,
                localVars, rowVars, Rows
  <2>2. op'[p].pc \in {"meta", "get", "entries"}
    <3>1. ASSUME NEW id \in Ids, StartAdd(p, id)
          PROVE  op'[p].pc \in {"meta", "get", "entries"}
      BY <1>1, <3>1 DEF StartAdd, Begin, IdleOp
    <3>2. ASSUME NEW entry \in Offered(p), StartUpdate(p, entry) \/ StartDelete(p, entry)
          PROVE  op'[p].pc \in {"meta", "get", "entries"}
      BY <1>1, <3>2 DEF StartUpdate, StartDelete, Begin, IdleOp
    <3>3. CASE StartSync(p) \/ StartClear(p)
      BY <1>1, <3>3 DEF StartSync, StartClear, Begin, IdleOp
    <3> QED BY <1>5, <3>1, <3>2, <3>3 DEF Start
  <2> QED BY <1>2, <2>1, <2>2 DEF Scanning, NotThere
<1>6. CASE GiveUp(p)
  <2>1. scan'[p].fetched = {} /\ scan'[p].stale = {} /\ Rows(p)' = Rows(p)
    BY <1>1, <1>6 DEF GiveUp, localVars, rowVars, Rows, IdleScan
  <2>2. NotThere
    BY <1>4, <1>6 DEF GiveUp
  <2> QED BY <2>1, <2>2 DEF NotThere, Retires
<1>7. CASE Send(p)
  <2>1. Land(p) \/ Still
    BY <1>7 DEF Send, Submit, PreflightReject, Reject, SendLost, localVars, rowVars, Rows
  <2>2. CASE Submit(p) \/ Reject(p) \/ SendLost(p)
    BY <1>2, <1>3, <1>4, <2>1, <2>2 DEF Submit, Reject, SendLost, Scanning
  <2>3. CASE PreflightReject(p)
    <3>1. Goto(p, "retry") \/ Finish(p) \/ op'[p].pc = "get"
      BY <1>1, <2>3 DEF PreflightReject, OpType
    <3> QED BY <1>2, <1>3, <1>4, <2>1, <3>1 DEF Scanning, NotThere
  <2> QED BY <1>2, <1>7, <2>1, <2>2, <2>3 DEF Send
<1>8. CASE AddStep(p)
  <2>1. Still
    BY <1>8 DEF AddStep, AddReadMeta, AddOffline, AddRetry, AddLocalGet, AddLocalSet,
                localVars, rowVars, Rows
  <2>2. CASE AddOffline(p) \/ AddLocalSet(p)
    BY <1>2, <1>3, <2>1, <2>2 DEF AddOffline, AddLocalSet, Scanning
  <2>3. CASE AddReadMeta(p) \/ AddRetry(p) \/ AddLocalGet(p)
    <3>1. Finish(p) \/ op'[p].pc \in {"submit", "localSet"}
      BY <1>1, <2>3 DEF AddReadMeta, AddRetry, AddLocalGet, OpType
    <3> QED BY <1>2, <1>4, <2>1, <3>1 DEF Scanning, NotThere
  <2> QED BY <1>2, <1>8, <2>1, <2>2, <2>3 DEF AddStep
<1>9. CASE ReadEntry(p) \/ ReadMissing(p)
  <2>1. Still
    BY <1>9 DEF ReadEntry, ReadMissing, localVars, rowVars, Rows
  <2>2. op'[p].pc \in {"submit", "localSave", "drop"}
    BY <1>1, <1>9 DEF ReadEntry, ReadMissing, Goto, OpType
  <2> QED BY <1>2, <2>1, <2>2 DEF Scanning, NotThere
<1>10. CASE DropRow(p) \/ ClearEntries(p)
  <2>1. \A id \in Ids : Rows(p)'[id] \in {Rows(p)[id], NoRow}
    BY <1>10, RowEffects DEF DropRow, ClearEntries
  <2>2. scan' = scan /\ NotThere
    BY <1>3, <1>4, <1>10 DEF DropRow, ClearEntries, Scanning
  <2> QED BY <2>1, <2>2 DEF NotThere, Retires
<1>11. CASE ClearState(p)
  BY <1>2, <1>4, <1>11 DEF ClearState, rowVars, Rows
<1>12. CASE SyncFinish(p)
  <2>1. scan'[p].fetched = {} /\ scan'[p].stale = {} /\ Rows(p)' = Rows(p)
    BY <1>1, <1>12 DEF SyncFinish, rowVars, Rows, IdleScan
  <2>2. NotThere
    BY <1>4, <1>12 DEF SyncFinish
  <2> QED BY <2>1, <2>2 DEF NotThere, Retires
<1> QED BY <1>5, <1>6, <1>7, <1>8, <1>9, <1>10, <1>11, <1>12, Zenon
        DEF Moves, Work, RowStep, SyncStep

-----------------------------------------------------------------------------
(* Synced rows were on chain *)

(* What an account holds, at either commitment, has been on chain; so has  *)
(* what a use case saves and marks, or a sync has fetched; and so has what *)
(* the row that is about to be marked holds, unless another use case of    *)
(* the device has written it since it was saved.                           *)
AccountsStored ==
  \A i \in U32 :
    /\ entries[i] # NoAccount => entries[i].encrypted_data \in stored
    /\ finalEntries[i] # NoAccount => finalEntries[i].encrypted_data \in stored

RowContent(row, id) == [id |-> id, ver |-> row.ver]

KnownStored(p) ==
  /\ op[p].pc \in {"save", "mark"} => Content(p) \in stored
  /\ \A f \in scan[p].fetched : f[2] \in stored
  /\ /\ op[p].pc \in {"mark", "markRow"}
     /\ op[p].id \notin overtaken[p]
     /\ Rows(p)[op[p].id] # NoRow
     => RowContent(Rows(p)[op[p].id], op[p].id) \in stored

StoredInv ==
  /\ AccountsStored
  /\ \A p \in Procs : KnownStored(p)

(* A transaction writes its payload into its slot, or removes an entry.    *)
LEMMA ExecuteEffect ==
  ASSUME TypeInv, NEW tx \in TxType, Execute(tx)
  PROVE  /\ stored \subseteq stored'
         /\ tx.kind \in {"add", "update"} => tx.data \in stored'
         /\ \A i \in U32 : \/ entries'[i] = entries[i] \/ entries'[i] = NoAccount
                           \/ /\ i = tx.slot /\ entries'[i].encrypted_data = tx.data
                              /\ tx.data \in stored'
<1>1. /\ entries \in [U32 -> EntryAccount \cup {NoAccount}]
      /\ tx.slot \in U32 /\ tx.data \in Data
  BY ClientsAssumption DEF TypeInv, TypeOK, TxType
<1>2. CASE tx.kind = "delete" /\ DeleteEntry(tx.slot) /\ stored' = stored
  BY <1>1, <1>2 DEF DeleteEntry
<1>3. CASE /\ AddEntry(tx.slot, tx.data) \/ UpdateEntry(tx.slot, tx.data, tx.expected)
           /\ stored' = stored \cup {tx.data}
  BY <1>1, <1>3 DEF AddEntry, UpdateEntry, UpdateEntryOk, EntryAccount
<1> QED BY <1>2, <1>3, Zenon DEF Execute

(* Nothing is forgotten, and every account still holds what has been on    *)
(* chain.                                                                  *)
LEMMA StoredStep ==
  ASSUME TypeInv, AccountsStored, [ClientsNext]_vars
  PROVE  stored \subseteq stored' /\ AccountsStored'
<1>1. stored \subseteq stored'
      /\ \A i \in U32 : entries'[i] # NoAccount => entries'[i].encrypted_data \in stored'
  <2>1. ASSUME NEW tx \in TxType, Execute(tx)
        PROVE  /\ stored \subseteq stored'
               /\ \A i \in U32 : entries'[i] # NoAccount => entries'[i].encrypted_data \in stored'
    BY <2>1, ExecuteEffect DEF AccountsStored
  <2>2. ASSUME NEW tx \in late, LateLand(tx)
        PROVE  tx \in TxType /\ Execute(tx)
    BY <2>2, Landing
  <2>3. ASSUME NEW p \in Procs, Land(p)
        PROVE  TxOf(p) \in TxType /\ Execute(TxOf(p))
    BY <2>3, Landing
  <2>4. CASE UNCHANGED <<entries, stored>>
    BY <2>4 DEF AccountsStored
  <2>5. CASE OwnerInstruction \/ Second
    BY <2>4, <2>5 DEF OwnerInstruction, VaultInstruction, InitializeVault, ResetVault,
                      WipeVault, Second, Tick, historyVars
  <2>6. CASE ~OnChain
    BY <2>4, <2>6, OffChain, WriteFrame DEF programVars
  <2> QED BY <2>1, <2>2, <2>3, <2>5, <2>6 DEF OnChain
<1>2. \A i \in U32 : finalEntries'[i] # NoAccount
                       => finalEntries'[i].encrypted_data \in stored'
  <2>1. CASE UNCHANGED finalVars
    BY <1>1, <2>1 DEF AccountsStored, finalVars
  <2>2. CASE Finalize
    BY <1>1, <2>2 DEF Finalize, AccountsStored, programVars
  <2> QED BY <2>1, <2>2, Frame
<1> QED BY <1>1, <1>2 DEF AccountsStored

(* What the process that moves knows.                                      *)
LEMMA OwnStored ==
  ASSUME TypeInv, StoredInv, NEW p \in Procs, Moves(p), stored \subseteq stored'
  PROVE  KnownStored(p)'
<1>1. /\ op \in [Procs -> OpType] /\ scan \in [Procs -> ScanType]
      /\ op[p] \in OpType /\ scan[p] \in ScanType /\ OpShape(op[p])
  BY MovesTyped DEF TypeInv, ClientTypes
<1>2. KnownStored(p) /\ AccountsStored
  BY DEF StoredInv
<1>3. ASSUME scan'[p].fetched \subseteq scan[p].fetched, op'[p].pc \notin {"save", "mark", "markRow"}
      PROVE  KnownStored(p)'
  BY <1>2, <1>3 DEF KnownStored
<1>4. CASE Retires(p)
  BY <1>3, <1>4 DEF Retires, Scanning
<1>5. CASE Land(p)
  <2>1. scan' = scan
    BY <1>5 DEF Land
  <2>2. CASE op[p].kind = "delete"
    BY <1>1, <1>3, <1>5, <2>1, <2>2 DEF Land, Goto, OpType
  <2>3. CASE op[p].kind # "delete"
    <3>1. Content(p) \in stored'
      <4>1. TxOf(p) \in TxType /\ Execute(TxOf(p)) /\ op[p].kind \in Writing
        BY <1>1, <1>5, Landing DEF Land, OpShape
      <4>2. TxOf(p).kind = op[p].kind /\ TxOf(p).data = Content(p)
        BY DEF TxOf
      <4> QED BY <2>3, <4>1, <4>2, ExecuteEffect DEF Writing
    <3>2. op'[p] = [op[p] EXCEPT !.pc = "save"]
      BY <1>1, <1>5, <2>3 DEF Land, Goto
    <3>3. op'[p].pc = "save" /\ Content(p)' = Content(p)
      BY <1>1, <3>2 DEF OpType, Content
    <3> QED BY <1>2, <2>1, <3>1, <3>3 DEF KnownStored
  <2> QED BY <2>2, <2>3
<1>6. CASE SaveRow(p)
  <2>1. /\ op[p].id \in Ids /\ scan' = scan
        /\ \A j \in Ids : Rows(p)'[j] =
             IF j = op[p].id
             THEN [slot |-> op[p].slot, ver |-> op[p].ver, synced |-> FALSE]
             ELSE Rows(p)[j]
    BY <1>1, <1>6, RowEffects DEF SaveRow, OpShape, Writing
  <2>2. CASE op[p].pc = "localSave"
    BY <1>1, <1>3, <1>6, <2>1, <2>2 DEF SaveRow, Finish, IdleOp
  <2>3. CASE op[p].pc = "save"
    <3>1. op'[p] = [op[p] EXCEPT !.pc = "mark"]
      BY <1>1, <1>6, <2>3 DEF SaveRow, Goto
    <3>2. op'[p].pc = "mark" /\ op'[p].id = op[p].id /\ op'[p].ver = op[p].ver
      BY <1>1, <3>1 DEF OpType
    <3>3. Content(p) \in stored
      BY <1>2, <2>3 DEF KnownStored
    <3> QED BY <1>2, <2>1, <3>2, <3>3 DEF KnownStored, Content, RowContent
  <2> QED BY <1>6, <2>2, <2>3 DEF SaveRow
<1>7. CASE MarkRow(p)
  BY <1>1, <1>3, <1>7 DEF MarkRow, Finish, IdleOp
<1>8. CASE SyncReadMeta(p) \/ SyncList(p)
  <2>1. scan'[p].fetched \subseteq scan[p].fetched
    <3>1. CASE SyncReadMeta(p)
      BY <1>1, <3>1 DEF SyncReadMeta, IdleScan
    <3>2. CASE SyncList(p)
      <4>1. PICK stale : scan' = [scan EXCEPT ![p].stale = stale]
        BY <3>2 DEF SyncList
      <4> QED BY <1>1, <4>1 DEF ScanType
    <3> QED BY <1>8, <3>1, <3>2
  <2>2. op'[p].pc \in {"fetch", "deleteStale"}
    BY <1>1, <1>8 DEF SyncReadMeta, SyncList, Goto, OpType
  <2> QED BY <1>3, <2>1, <2>2
<1>9. CASE SyncFetch(p)
  <2>1. /\ op'[p].pc = "fetch"
        /\ \A f \in scan'[p].fetched : \E i \in FinalLive : f[2] = finalEntries[i].encrypted_data
    BY <1>1, <1>9 DEF SyncFetch, At, ScanType
  <2>2. \A f \in scan'[p].fetched : f[2] \in stored'
    BY <1>2, <2>1 DEF AccountsStored, FinalLive
  <2> QED BY <2>1, <2>2 DEF KnownStored
<1>10. CASE SyncSave(p)
  <2>1. PICK f \in scan[p].fetched :
          /\ Save(p, f[2].id, f[1], f[2].ver)
          /\ op' = [op EXCEPT ![p].pc = "markRow", ![p].id = f[2].id]
          /\ scan' = [scan EXCEPT ![p].fetched = @ \ {f}]
    BY <1>10 DEF SyncSave
  <2>2. f[2] \in Payload /\ f[2].id \in Ids /\ f[2] \in stored
    BY <1>1, <1>2, <2>1 DEF ScanType, SlotContent, Payload, KnownStored
  <2>3. \A j \in Ids : Rows(p)'[j] =
          IF j = f[2].id THEN [slot |-> f[1], ver |-> f[2].ver, synced |-> FALSE]
                         ELSE Rows(p)[j]
    BY <2>1, <2>2, RowEffects
  <2>4. op'[p].pc = "markRow" /\ op'[p].id = f[2].id /\ scan'[p].fetched \subseteq scan[p].fetched
    BY <1>1, <2>1 DEF OpType, ScanType
  <2>5. f[2] = [id |-> f[2].id, ver |-> f[2].ver]
    BY <2>2 DEF Payload
  <2> QED BY <1>2, <2>2, <2>3, <2>4, <2>5 DEF KnownStored, RowContent
<1>11. CASE SyncMark(p)
  <2>1. op'[p].pc = "fetch" /\ scan' = scan
    BY <1>1, <1>11 DEF SyncMark, OpType
  <2> QED BY <1>3, <2>1
<1>12. CASE SyncDelete(p)
  <2>1. PICK gone : scan' = [scan EXCEPT ![p].stale = gone]
    BY <1>12 DEF SyncDelete
  <2>2. op'[p].pc = "deleteStale" /\ scan'[p].fetched = scan[p].fetched
    BY <1>1, <1>12, <2>1 DEF SyncDelete, At, ScanType
  <2> QED BY <1>3, <2>2
<1> QED BY <1>4, <1>5, <1>6, <1>7, <1>8, <1>9, <1>10, <1>11, <1>12, StepKinds

(* What another process knows: its row has been left alone or overtaken.   *)
LEMMA OthersStored ==
  ASSUME TypeInv, NEW p \in Procs, Moves(p), stored \subseteq stored',
         NEW q \in Procs \ {p}, KnownStored(q)
  PROVE  KnownStored(q)'
<1>1. /\ op'[q] = op[q] /\ scan'[q] = scan[q] /\ overtaken[q] \subseteq overtaken'[q]
      /\ \A id \in Ids : id \in overtaken'[q] \/ Untouched(q, id)
  BY OthersRows
<1>2. op[q].pc \in {"mark", "markRow"} => op[q].id \in Ids
  BY DEF TypeInv, ClientTypes, OpShape, Writing
<1>3. ASSUME op[q].pc \in {"mark", "markRow"}, op[q].id \notin overtaken'[q],
             Rows(q)'[op[q].id] # NoRow
      PROVE  RowContent(Rows(q)'[op[q].id], op[q].id) \in stored'
  <2>1. Untouched(q, op[q].id) /\ op[q].id \notin overtaken[q]
    BY <1>1, <1>2, <1>3
  <2> QED BY <1>3, <2>1 DEF KnownStored, Untouched, RowContent
<1> QED BY <1>1, <1>3 DEF KnownStored, Content

(* A step of the chain moves no use case and no row.                       *)
LEMMA ChainRests ==
  ASSUME TypeInv, Chain \/ UNCHANGED vars
  PROVE  /\ op' = op /\ rows' = rows /\ listed' = listed /\ overtaken' = overtaken
         /\ Finalize \/ UNCHANGED <<scan, finalVars>>
         /\ \A p \in Procs : /\ scan'[p].fetched = scan[p].fetched
                             /\ scan'[p].stale = scan[p].stale
<1>1. CASE Finalize
  <2>1. \A p \in Procs : scan[p] \in ScanType
    BY MovesTyped
  <2> QED BY <1>1, <2>1 DEF Finalize, localVars, rowVars, ScanType
<1>2. CASE ~Finalize
  BY <1>2 DEF Chain, OwnerInstruction, Second, LateLand, LateDrop, localVars, rowVars,
              processVars, vars
<1> QED BY <1>1, <1>2

(* Every step keeps the copies apart from what was never on chain.         *)
LEMMA StoredInvStep ==
  ASSUME TypeInv, StoredInv, [ClientsNext]_vars
  PROVE  StoredInv'
<1>1. stored \subseteq stored' /\ AccountsStored'
  BY StoredStep DEF StoredInv
<1>2. ASSUME NEW p \in Procs, Moves(p)
      PROVE  StoredInv'
  BY <1>1, <1>2, OwnStored, OthersStored DEF StoredInv
<1>3. CASE Chain \/ UNCHANGED vars
  <2>1. /\ op' = op /\ rows' = rows /\ overtaken' = overtaken
        /\ \A p \in Procs : scan'[p].fetched = scan[p].fetched
    BY <1>3, ChainRests
  <2>2. \A p \in Procs : KnownStored(p)'
    BY <1>1, <2>1 DEF StoredInv, KnownStored, Content, RowContent, Rows
  <2> QED BY <1>1, <2>2 DEF StoredInv
<1> QED BY <1>2, <1>3 DEF ClientsNext, Moves

(* At the start there are no copies.                                       *)
LEMMA StoredInit == ClientsInit => StoredInv
BY DEF ClientsInit, Init, StoredInv, AccountsStored, KnownStored, IdleOp, IdleScan

(* A row comes to be marked only by a mark of a use case.                  *)
LEMMA MarkingSteps ==
  ASSUME TypeInv, NEW p \in Procs, Moves(p), NEW id \in Ids,
         Rows(p)'[id] # NoRow, Rows(p)'[id].synced, Rows(p)'[id] # Rows(p)[id]
  PROVE  /\ MarkRow(p) \/ SyncMark(p)
         /\ id = op[p].id /\ Rows(p)[id] # NoRow /\ Rows(p)'[id].ver = Rows(p)[id].ver
<1>1. /\ op[p] \in OpType /\ scan[p] \in ScanType /\ OpShape(op[p])
      /\ \A j \in Ids : Rows(p)[j] \in Row \cup {NoRow}
  BY MovesTyped DEF TypeInv, ClientTypes
<1>2. ~Retires(p)
  BY DEF Retires
<1>3. ~SaveRow(p)
  <2> SUFFICES ASSUME SaveRow(p)
               PROVE  FALSE
    OBVIOUS
  <2>1. op[p].id \in Ids
    BY <1>1 DEF SaveRow, OpShape, Writing
  <2>2. Rows(p)'[id] = IF id = op[p].id
                       THEN [slot |-> op[p].slot, ver |-> op[p].ver, synced |-> FALSE]
                       ELSE Rows(p)[id]
    BY <2>1, RowEffects DEF SaveRow
  <2> QED BY <2>2
<1>4. ~SyncSave(p)
  <2> SUFFICES ASSUME SyncSave(p)
               PROVE  FALSE
    OBVIOUS
  <2>1. PICK f \in scan[p].fetched : Save(p, f[2].id, f[1], f[2].ver)
    BY DEF SyncSave
  <2>2. f[2].id \in Ids
    BY <1>1, <2>1 DEF ScanType, SlotContent, Payload
  <2>3. Rows(p)'[id] = IF id = f[2].id
                       THEN [slot |-> f[1], ver |-> f[2].ver, synced |-> FALSE]
                       ELSE Rows(p)[id]
    BY <2>1, <2>2, RowEffects
  <2> QED BY <2>3
<1>5. ~SyncDelete(p)
  <2> SUFFICES ASSUME SyncDelete(p)
               PROVE  FALSE
    OBVIOUS
  <2>1. PICK row \in scan[p].stale : DeleteRows(p, {row[1]})
    BY DEF SyncDelete
  <2>2. Rows(p)'[id] = IF id \in {row[1]} THEN NoRow ELSE Rows(p)[id]
    BY <2>1, RowEffects
  <2> QED BY <2>2
<1>6. ~Land(p) /\ ~SyncReadMeta(p) /\ ~SyncFetch(p) /\ ~SyncList(p)
  BY DEF Land, SyncReadMeta, SyncFetch, SyncList, localVars, rowVars, Rows
<1>7. MarkRow(p) \/ SyncMark(p)
  BY <1>2, <1>3, <1>4, <1>5, <1>6, StepKinds
<1>8. op[p].id \in Ids /\ MarkSynced(p, op[p].id)
  BY <1>1, <1>7 DEF MarkRow, SyncMark, At, OpShape, Writing
<1>9. id = op[p].id /\ Rows(p)[id] # NoRow
  <2>1. Rows(p)'[id] = IF id = op[p].id /\ Rows(p)[op[p].id] # NoRow
                       THEN [Rows(p)[op[p].id] EXCEPT !.synced = TRUE] ELSE Rows(p)[id]
    BY <1>8, RowEffects
  <2> QED BY <2>1
<1> QED BY <1>7, <1>8, <1>9, MarkedRow

(* Whatever fails, is retried, lost or abandoned, and whatever the use     *)
(* cases of a device interleave: content that never was on chain is marked *)
(* as synced only by the mark of a use case whose row another use case of  *)
(* the device has written since.                                           *)
THEOREM SyncedRowsCorrect == ClientsSpec => SyncedRowsWereStored
<1> DEFINE Backed ==
      \A d \in Devices, id \in Ids :
        Unbacked(d, id)' /\ ~Unbacked(d, id)
        => \E p \in Procs : /\ DeviceOf[p] = d /\ id \in overtaken[p]
                            /\ op[p].pc \in {"mark", "markRow"} /\ op[p].id = id
                            /\ op'[p] # op[p]
<1>1. ASSUME TypeInv, StoredInv, [ClientsNext]_vars
      PROVE  [Backed]_vars
  <2>1. ASSUME NEW d \in Devices, NEW id \in Ids, Unbacked(d, id)', ~Unbacked(d, id)
        PROVE  \E p \in Procs : /\ DeviceOf[p] = d /\ id \in overtaken[p]
                               /\ op[p].pc \in {"mark", "markRow"} /\ op[p].id = id
                               /\ op'[p] # op[p]
    <3>1. stored \subseteq stored'
      BY <1>1, StoredStep DEF StoredInv
    <3>2. rows'[d][id] # rows[d][id]
      BY <2>1, <3>1 DEF Unbacked
    <3>3. PICK p \in Procs : Moves(p)
      <4>1. ~(Chain \/ UNCHANGED vars)
        BY <1>1, <3>2, ChainRests
      <4> QED BY <1>1, <4>1 DEF ClientsNext, Moves
    <3>4. DeviceOf[p] = d
      BY <1>1, <3>2, <3>3, DevicesRest
    <3>5. Rows(p)[id] = rows[d][id] /\ Rows(p)'[id] = rows'[d][id]
      BY <3>4 DEF Rows
    <3>6. /\ MarkRow(p) \/ SyncMark(p)
          /\ id = op[p].id /\ Rows(p)[id] # NoRow /\ Rows(p)'[id].ver = Rows(p)[id].ver
      BY <1>1, <2>1, <3>2, <3>3, <3>5, MarkingSteps DEF Unbacked
    <3>7. op[p].pc \in {"mark", "markRow"} /\ op'[p] # op[p]
      <4>1. op \in [Procs -> OpType] /\ op[p] \in OpType
        BY <1>1, MovesTyped
      <4> QED BY <3>6, <4>1 DEF MarkRow, SyncMark, At, Finish, IdleOp, OpType
    <3>8. id \in overtaken[p]
      <4>1. KnownStored(p)
        BY <1>1 DEF StoredInv
      <4> QED BY <2>1, <3>1, <3>5, <3>6, <3>7, <4>1 DEF KnownStored, RowContent, Unbacked
    <3> QED BY <3>4, <3>6, <3>7, <3>8
  <2> QED BY <2>1
<1>2. [][Backed]_vars => SyncedRowsWereStored
  BY DEF SyncedRowsWereStored
<1> HIDE DEF Backed
<1>3. TypeInv /\ StoredInv /\ [ClientsNext]_vars => StoredInv'
  BY StoredInvStep
<1> QED BY <1>1, <1>2, <1>3, StoredInit, TypeInvariance, PTL DEF ClientsSpec

-----------------------------------------------------------------------------
(* What a sync scans and deletes *)

(* What a scanning sync knows, at least, of the row of an entry it has     *)
(* saved: the row holds a copy that was finalized while it ran, at a slot  *)
(* that a batch found an account at.                                       *)
Holds(p, id) ==
  /\ Rows(p)[id] # NoRow
  /\ Rows(p)[id].slot \in scan[p].remote
  /\ <<Rows(p)[id].slot, RowContent(Rows(p)[id], id)>> \in scan[p].seen

(* What the scan has seen, of what it was to fetch.                        *)
SeenInv(p) ==
  /\ scan[p].occupied \subseteq FinalLive
  /\ scan[p].steady \subseteq FinalHolders
  /\ \A s \in scan[p].steady : s[1] \in scan[p].occupied
  /\ FinalContent \cup scan[p].fetched \subseteq scan[p].seen
  /\ \A f \in scan[p].fetched : f[1] \in scan[p].remote

(* Where the cursor has passed, the slots that stay occupied are found.    *)
CursorInv(p) ==
  /\ \A i \in scan[p].occupied :
       i < scan[p].next /\ i < scan[p].cursor => i \in scan[p].remote
  /\ ~WithReset => \A s \in scan[p].steady : s[1] < scan[p].next

(* What was found is still to be saved, or the row holds a copy, or        *)
(* another use case of the device has written or deleted the row since.    *)
SavedInv(p) ==
  \A s \in scan[p].steady :
    s[1] \in scan[p].remote =>
      \/ \E f \in scan[p].fetched : f[2].id = s[2]
      \/ s[2] \in overtaken[p]
      \/ Holds(p, s[2])

(* The rows that are left to delete lay where no batch found an account,   *)
(* and lie there still unless another use case has written them since.     *)
StaleInv(p) ==
  op[p].pc = "deleteStale" =>
    /\ scan[p].fetched = {}
    /\ scan[p].cursor >= scan[p].next
    /\ \A row \in scan[p].stale :
         /\ row[2] < scan[p].next /\ row[2] \notin scan[p].remote
         /\ \/ row[1] \in overtaken[p]
            \/ Rows(p)[row[1]] # NoRow => Rows(p)[row[1]].slot = row[2]

ScanInv(p) ==
  /\ op[p].kind = "sync"
  /\ SeenInv(p) /\ CursorInv(p) /\ SavedInv(p) /\ StaleInv(p)

FinalBelow == ~WithReset => \A i \in FinalLive : i < finalVault.next_index

SyncInv ==
  /\ FinalBelow
  /\ \A p \in Procs : op[p].pc \in Scanning => ScanInv(p)

(* The finalized accounts and their contents, while Finalize does nothing. *)
LEMMA FinalSame ==
  ASSUME UNCHANGED finalVars
  PROVE  FinalLive' = FinalLive /\ FinalHolders' = FinalHolders /\ FinalContent' = FinalContent
BY DEF finalVars, FinalLive, FinalHolders, FinalContent

(* The parts of a scan.                                                    *)
LEMMA ScanParts ==
  ASSUME TypeInv, NEW p \in Procs
  PROVE  /\ \A s \in scan[p].steady : s[1] \in U32 /\ s[2] \in Ids
         /\ \A row \in scan[p].stale : row[1] \in Ids /\ row[2] \in U32
<1>1. scan[p].steady \subseteq U32 \X Ids /\ scan[p].stale \subseteq Ids \X U32
  BY MovesTyped DEF ScanType
<1> QED BY <1>1

(* The scan of a process that does not move: another use case leaves the   *)
(* rows of the device alone, or overtakes them.                            *)
LEMMA ScanRests ==
  ASSUME TypeInv, NEW p \in Procs, ScanInv(p), UNCHANGED finalVars,
         op'[p] = op[p], scan'[p] = scan[p], overtaken[p] \subseteq overtaken'[p],
         \A id \in Ids : id \in overtaken'[p] \/ Untouched(p, id)
  PROVE  ScanInv(p)'
<1>1. SeenInv(p)' /\ CursorInv(p)'
  BY FinalSame DEF ScanInv, SeenInv, CursorInv
<1>2. ASSUME NEW id \in Ids, Holds(p, id), id \notin overtaken'[p]
      PROVE  Holds(p, id)'
  <2>1. Untouched(p, id)
    BY <1>2
  <2> QED BY <1>2, <2>1 DEF Holds, Untouched, RowContent
<1>3. SavedInv(p)'
  <2>1. ASSUME NEW s \in scan[p].steady, s[1] \in scan[p].remote,
               ~ \E f \in scan[p].fetched : f[2].id = s[2], s[2] \notin overtaken'[p]
        PROVE  Holds(p, s[2])'
    <3>1. Holds(p, s[2])
      BY <2>1 DEF ScanInv, SavedInv
    <3> QED BY <1>2, <2>1, <3>1, ScanParts
  <2> QED BY <2>1 DEF SavedInv
<1>4. StaleInv(p)'
  <2>1. ASSUME op[p].pc = "deleteStale", NEW row \in scan[p].stale,
               row[1] \notin overtaken'[p], Rows(p)'[row[1]] # NoRow
        PROVE  Rows(p)'[row[1]].slot = row[2]
    <3>1. Untouched(p, row[1]) /\ row[1] \notin overtaken[p]
      BY <2>1, ScanParts
    <3> QED BY <2>1, <3>1 DEF Untouched, ScanInv, StaleInv
  <2> QED BY <2>1 DEF ScanInv, StaleInv
<1> QED BY <1>1, <1>3, <1>4 DEF ScanInv

(* A scan begins.                                                          *)
LEMMA ScanBegins ==
  ASSUME TypeInv, FinalBelow, NEW p \in Procs, SyncReadMeta(p)
  PROVE  ScanInv(p)'
<1>1. /\ op \in [Procs -> OpType] /\ scan \in [Procs -> ScanType] /\ op[p] \in OpType
      /\ \A i \in U32 : i \in Nat
  BY MovesTyped DEF U32
<1>2. /\ op'[p].pc = "fetch" /\ op'[p].kind = "sync"
      /\ FinalLive' = FinalLive /\ FinalHolders' = FinalHolders
      /\ FinalContent' = FinalContent
  BY <1>1, FinalSame DEF SyncReadMeta, At, Goto, OpType
<1>3. /\ scan'[p].next = finalVault.next_index /\ scan'[p].cursor = 0
      /\ scan'[p].remote = {} /\ scan'[p].fetched = {} /\ scan'[p].occupied = FinalLive
      /\ scan'[p].steady = FinalHolders /\ scan'[p].seen = FinalContent
  BY <1>1 DEF SyncReadMeta, IdleScan
<1>4. \A s \in FinalHolders : s[1] \in FinalLive
  BY DEF FinalHolders
<1>5. SeenInv(p)' /\ SavedInv(p)' /\ StaleInv(p)'
  BY <1>2, <1>3, <1>4 DEF SeenInv, SavedInv, StaleInv
<1>6. CursorInv(p)'
  <2>1. \A i \in FinalLive : i \in Nat
    BY <1>1 DEF FinalLive
  <2> QED BY <1>3, <1>4, <2>1 DEF CursorInv, FinalBelow
<1> QED BY <1>2, <1>5, <1>6 DEF ScanInv

(* A batch is fetched; the counter may wrap, and then covers nothing more  *)
(* than it did.                                                            *)
LEMMA ScanFetches ==
  ASSUME TypeInv, NEW p \in Procs, ScanInv(p), SyncFetch(p)
  PROVE  ScanInv(p)'
<1> DEFINE found == Batch(scan[p].cursor, scan[p].next) \cap FinalLive
<1>1. /\ op \in [Procs -> OpType] /\ scan \in [Procs -> ScanType]
      /\ op[p] \in OpType /\ scan[p] \in ScanType
  BY MovesTyped
<1>2. /\ op[p].pc = "fetch" /\ op' = op /\ Rows(p)' = Rows(p) /\ overtaken' = overtaken
      /\ FinalLive' = FinalLive /\ FinalHolders' = FinalHolders
      /\ FinalContent' = FinalContent
      /\ scan[p].fetched = {} /\ scan[p].cursor < scan[p].next
  BY FinalSame DEF SyncFetch, At, localVars, rowVars, Rows
<1>3. /\ scan'[p].next = scan[p].next /\ scan'[p].cursor = NextCursor(scan[p].cursor)
      /\ scan'[p].remote = scan[p].remote \cup found
      /\ scan'[p].fetched = {<<i, finalEntries[i].encrypted_data>> : i \in found}
      /\ scan'[p].occupied = scan[p].occupied
      /\ scan'[p].steady = scan[p].steady /\ scan'[p].seen = scan[p].seen
  BY <1>1 DEF SyncFetch, ScanType
<1>4. found \subseteq FinalLive
  OBVIOUS
<1>5. SeenInv(p)'
  <2>1. scan'[p].fetched \subseteq FinalContent /\ FinalContent \subseteq scan[p].seen
    BY <1>3, <1>4 DEF FinalContent, ScanInv, SeenInv
  <2> QED BY <1>2, <1>3, <2>1 DEF ScanInv, SeenInv
<1>6. ASSUME NEW i \in scan[p].occupied, i < scan[p].next, i < NextCursor(scan[p].cursor)
      PROVE  i \in scan[p].remote \cup found
  <2>1. i \in FinalLive /\ i \in U32 /\ i \in Nat /\ scan[p].cursor \in Nat
    BY <1>1 DEF U32, ScanType, ScanInv, SeenInv, FinalLive
  <2>2. CASE i < scan[p].cursor
    BY <1>6, <2>2 DEF ScanInv, CursorInv
  <2>3. CASE scan[p].cursor <= i
    BY <1>6, <2>1, <2>3 DEF Batch, NextCursor
  <2> QED BY <2>1, <2>2, <2>3
<1>7. CursorInv(p)'
  BY <1>3, <1>6 DEF ScanInv, CursorInv
<1>8. SavedInv(p)'
  <2>1. ASSUME NEW s \in scan[p].steady, s[1] \in scan[p].remote
        PROVE  s[2] \in overtaken'[p] \/ Holds(p, s[2])'
    <3>1. s[2] \in overtaken[p] \/ Holds(p, s[2])
      BY <1>2, <2>1 DEF ScanInv, SavedInv
    <3> QED BY <1>2, <1>3, <3>1 DEF Holds, RowContent
  <2>2. ASSUME NEW s \in scan[p].steady, s[1] \in found
        PROVE  \E f \in scan'[p].fetched : f[2].id = s[2]
    <3>1. s[2] = finalEntries[s[1]].encrypted_data.id
      BY DEF ScanInv, SeenInv, FinalHolders
    <3>2. <<s[1], finalEntries[s[1]].encrypted_data>> \in scan'[p].fetched
      BY <1>3, <2>2
    <3> QED BY <3>1, <3>2
  <2> QED BY <1>3, <2>1, <2>2 DEF SavedInv
<1> QED BY <1>2, <1>5, <1>7, <1>8 DEF ScanInv, StaleInv

(* A fetched account is saved.                                             *)
LEMMA ScanSaves ==
  ASSUME TypeInv, NEW p \in Procs, ScanInv(p), SyncSave(p)
  PROVE  ScanInv(p)'
<1>1. /\ op \in [Procs -> OpType] /\ scan \in [Procs -> ScanType]
      /\ op[p] \in OpType /\ scan[p] \in ScanType
  BY MovesTyped
<1>2. PICK f \in scan[p].fetched :
        /\ Save(p, f[2].id, f[1], f[2].ver)
        /\ op' = [op EXCEPT ![p].pc = "markRow", ![p].id = f[2].id]
        /\ scan' = [scan EXCEPT ![p].fetched = @ \ {f}]
  BY DEF SyncSave
<1>3. f[1] \in U32 /\ f[2] \in Payload /\ f = <<f[1], f[2]>>
      /\ f[2].id \in Ids /\ f[2] = [id |-> f[2].id, ver |-> f[2].ver]
  BY <1>1, <1>2 DEF ScanType, SlotContent, Payload
<1>4. /\ overtaken'[p] = overtaken[p] \ {f[2].id}
      /\ \A j \in Ids : Rows(p)'[j] =
           IF j = f[2].id THEN [slot |-> f[1], ver |-> f[2].ver, synced |-> FALSE]
                          ELSE Rows(p)[j]
  BY <1>2, <1>3, RowEffects
<1>5. /\ op'[p].pc = "markRow" /\ op'[p].kind = op[p].kind
      /\ scan'[p].next = scan[p].next /\ scan'[p].cursor = scan[p].cursor
      /\ scan'[p].remote = scan[p].remote /\ scan'[p].fetched = scan[p].fetched \ {f}
      /\ scan'[p].occupied = scan[p].occupied
      /\ scan'[p].steady = scan[p].steady /\ scan'[p].seen = scan[p].seen
      /\ FinalLive' = FinalLive /\ FinalHolders' = FinalHolders
      /\ FinalContent' = FinalContent
  BY <1>1, <1>2, FinalSame DEF OpType, ScanType, SyncSave
<1>6. Holds(p, f[2].id)'
  <2>1. f[1] \in scan[p].remote /\ f \in scan[p].seen
    BY <1>2 DEF ScanInv, SeenInv
  <2>2. /\ Rows(p)'[f[2].id].slot = f[1]
        /\ RowContent(Rows(p)'[f[2].id], f[2].id) = f[2]
        /\ Rows(p)'[f[2].id] # NoRow
    <3>1. Rows(p)'[f[2].id] = [slot |-> f[1], ver |-> f[2].ver, synced |-> FALSE]
      BY <1>3, <1>4
    <3>2. [slot |-> f[1], ver |-> f[2].ver, synced |-> FALSE] \in Row
      BY <1>3 DEF Row, Payload
    <3>3. Rows(p)'[f[2].id] # NoRow
      BY <3>1, <3>2, ClientsAssumption
    <3>4. Rows(p)'[f[2].id].slot = f[1] /\ Rows(p)'[f[2].id].ver = f[2].ver
      BY <3>1
    <3> QED BY <1>3, <3>3, <3>4 DEF RowContent
  <2> QED BY <1>3, <1>5, <2>1, <2>2 DEF Holds, RowContent
<1>7. ASSUME NEW id \in Ids, id # f[2].id, Holds(p, id)
      PROVE  Holds(p, id)'
  <2>1. Rows(p)'[id] = Rows(p)[id]
    BY <1>4, <1>7
  <2> QED BY <1>5, <1>7, <2>1 DEF Holds, RowContent
<1>8. SavedInv(p)'
  <2>1. ASSUME NEW s \in scan[p].steady, s[1] \in scan[p].remote, s[2] # f[2].id
        PROVE  \/ \E g \in scan'[p].fetched : g[2].id = s[2]
               \/ s[2] \in overtaken'[p]
               \/ Holds(p, s[2])'
    <3>1. CASE Holds(p, s[2])
      BY <1>7, <2>1, <3>1, ScanParts
    <3>2. CASE s[2] \in overtaken[p]
      BY <1>4, <2>1, <3>2
    <3>3. CASE \E g \in scan[p].fetched : g[2].id = s[2]
      BY <1>5, <2>1, <3>3
    <3> QED BY <2>1, <3>1, <3>2, <3>3 DEF ScanInv, SavedInv
  <2> QED BY <1>5, <1>6, <2>1 DEF SavedInv
<1>9. SeenInv(p)' /\ CursorInv(p)' /\ StaleInv(p)'
  BY <1>5 DEF ScanInv, SeenInv, CursorInv, StaleInv
<1> QED BY <1>5, <1>8, <1>9 DEF ScanInv

(* What a step of a sync that fetches nothing and saves nothing keeps.     *)
LEMMA ScanKeeps ==
  ASSUME TypeInv, NEW p \in Procs, ScanInv(p),
         SyncMark(p) \/ SyncList(p) \/ SyncDelete(p)
  PROVE  /\ op'[p].kind = op[p].kind
         /\ op'[p].pc = IF SyncMark(p) THEN "fetch" ELSE "deleteStale"
         /\ scan'[p].next = scan[p].next /\ scan'[p].cursor = scan[p].cursor
         /\ scan'[p].remote = scan[p].remote /\ scan'[p].fetched = scan[p].fetched
         /\ scan'[p].steady = scan[p].steady /\ scan'[p].seen = scan[p].seen
         /\ SeenInv(p)' /\ CursorInv(p)'
<1>1. /\ op \in [Procs -> OpType] /\ scan \in [Procs -> ScanType]
      /\ op[p] \in OpType /\ scan[p] \in ScanType
  BY MovesTyped
<1>2. /\ FinalLive' = FinalLive /\ FinalHolders' = FinalHolders
      /\ FinalContent' = FinalContent
  BY FinalSame DEF SyncMark, SyncList, SyncDelete
<1>3. /\ op'[p].kind = op[p].kind
      /\ op'[p].pc = IF SyncMark(p) THEN "fetch" ELSE "deleteStale"
      /\ scan'[p].next = scan[p].next /\ scan'[p].cursor = scan[p].cursor
      /\ scan'[p].remote = scan[p].remote /\ scan'[p].fetched = scan[p].fetched
      /\ scan'[p].occupied = scan[p].occupied
      /\ scan'[p].steady = scan[p].steady /\ scan'[p].seen = scan[p].seen
  <2>1. CASE SyncMark(p)
    BY <1>1, <2>1 DEF SyncMark, OpType
  <2>2. CASE SyncList(p)
    <3>1. PICK stale : scan' = [scan EXCEPT ![p].stale = stale] /\ Goto(p, "deleteStale")
      BY <2>2 DEF SyncList
    <3>2. ~SyncMark(p)
      BY <2>2 DEF SyncList, SyncMark, At
    <3> QED BY <1>1, <3>1, <3>2 DEF Goto, OpType, ScanType
  <2>3. CASE SyncDelete(p)
    <3>1. PICK stale : scan' = [scan EXCEPT ![p].stale = stale] /\ op' = op
      BY <2>3 DEF SyncDelete
    <3>2. op[p].pc = "deleteStale" /\ ~SyncMark(p)
      BY <2>3 DEF SyncDelete, SyncMark, At
    <3> QED BY <1>1, <3>1, <3>2 DEF ScanType
  <2> QED BY <2>1, <2>2, <2>3
<1>4. SeenInv(p)' /\ CursorInv(p)'
  BY <1>2, <1>3 DEF ScanInv, SeenInv, CursorInv
<1> QED BY <1>3, <1>4

(* A row is marked, the stale rows are listed or one is deleted.           *)
LEMMA ScanGoesOn ==
  ASSUME TypeInv, NEW p \in Procs, ScanInv(p),
         SyncMark(p) \/ SyncList(p) \/ SyncDelete(p)
  PROVE  ScanInv(p)'
<1>1. /\ op \in [Procs -> OpType] /\ scan \in [Procs -> ScanType]
      /\ op[p] \in OpType /\ scan[p] \in ScanType /\ OpShape(op[p])
  BY MovesTyped DEF TypeInv, ClientTypes
<1>2. /\ op'[p].kind = op[p].kind
      /\ op'[p].pc = IF SyncMark(p) THEN "fetch" ELSE "deleteStale"
      /\ scan'[p].next = scan[p].next /\ scan'[p].cursor = scan[p].cursor
      /\ scan'[p].remote = scan[p].remote /\ scan'[p].fetched = scan[p].fetched
      /\ scan'[p].steady = scan[p].steady /\ scan'[p].seen = scan[p].seen
      /\ SeenInv(p)' /\ CursorInv(p)'
  BY ScanKeeps
<1>3. ASSUME overtaken'[p] = overtaken[p],
             \A id \in Ids : Holds(p, id) => Holds(p, id)' \/ id \in overtaken[p]
      PROVE  SavedInv(p)'
  BY <1>2, <1>3, ScanParts DEF ScanInv, SavedInv
<1>4. CASE SyncMark(p)
  <2>1. op[p].id \in Ids /\ MarkSynced(p, op[p].id)
    BY <1>1, <1>4 DEF SyncMark, At, OpShape
  <2>2. ASSUME NEW id \in Ids, Holds(p, id)
        PROVE  Holds(p, id)'
    <3>1. /\ Rows(p)'[id] # NoRow
          /\ Rows(p)'[id].slot = Rows(p)[id].slot /\ Rows(p)'[id].ver = Rows(p)[id].ver
      BY <2>1, <2>2, MarkedRow DEF Holds
    <3> QED BY <1>2, <2>2, <3>1 DEF Holds, RowContent
  <2>3. overtaken'[p] = overtaken[p]
    BY <2>1, RowEffects
  <2> QED BY <1>2, <1>3, <1>4, <2>2, <2>3 DEF ScanInv, StaleInv
<1>5. CASE SyncList(p)
  <2>1. /\ Rows(p)' = Rows(p) /\ overtaken' = overtaken
        /\ scan[p].fetched = {} /\ scan[p].cursor >= scan[p].next
        /\ scan'[p].stale \subseteq StaleRows(p)
    BY <1>1, <1>5 DEF SyncList, ScanType, localVars, rowVars, Rows
  <2>2. SavedInv(p)'
    BY <1>2, <1>3, <2>1 DEF Holds, RowContent
  <2>3. StaleInv(p)'
    <3>1. ASSUME NEW row \in StaleRows(p)
          PROVE  /\ row[2] < scan[p].next /\ row[2] \notin scan[p].remote
                 /\ Rows(p)[row[1]].slot = row[2]
      BY <3>1 DEF StaleRows
    <3> QED BY <1>2, <2>1, <3>1 DEF StaleInv
  <2> QED BY <1>2, <2>2, <2>3 DEF ScanInv
<1>6. CASE SyncDelete(p)
  <2>1. PICK gone \in scan[p].stale :
          /\ DeleteRows(p, {gone[1]})
          /\ scan' = [scan EXCEPT ![p].stale = @ \ {gone}]
    BY <1>6 DEF SyncDelete
  <2>2. /\ overtaken'[p] = overtaken[p]
        /\ \A j \in Ids : Rows(p)'[j] = IF j \in {gone[1]} THEN NoRow ELSE Rows(p)[j]
    BY <2>1, RowEffects
  <2>3. /\ op[p].pc = "deleteStale" /\ scan'[p].stale \subseteq scan[p].stale
    BY <1>1, <1>6, <2>1 DEF SyncDelete, At, ScanType
  <2>4. ASSUME NEW id \in Ids, Holds(p, id), id \notin overtaken[p]
        PROVE  Holds(p, id)'
    <3>1. id # gone[1]
      BY <2>1, <2>3, <2>4 DEF ScanInv, StaleInv, Holds
    <3>2. Rows(p)'[id] = Rows(p)[id]
      BY <2>2, <3>1
    <3> QED BY <1>2, <2>4, <3>2 DEF Holds, RowContent
  <2>5. StaleInv(p)'
    <3>1. ASSUME NEW row \in scan'[p].stale, row[1] \notin overtaken[p],
                 Rows(p)'[row[1]] # NoRow
          PROVE  Rows(p)'[row[1]].slot = row[2]
      <4>1. row \in scan[p].stale /\ row[1] \in Ids
        BY <2>3, ScanParts
      <4>2. Rows(p)'[row[1]] = Rows(p)[row[1]]
        BY <2>2, <3>1, <4>1
      <4> QED BY <2>3, <3>1, <4>1, <4>2 DEF ScanInv, StaleInv
    <3>2. \A row \in scan'[p].stale : row[2] < scan[p].next /\ row[2] \notin scan[p].remote
      BY <2>3 DEF ScanInv, StaleInv
    <3>3. scan[p].fetched = {} /\ scan[p].cursor >= scan[p].next
      BY <2>3 DEF ScanInv, StaleInv
    <3> QED BY <1>2, <2>2, <3>1, <3>2, <3>3 DEF StaleInv
  <2> QED BY <1>2, <1>3, <2>2, <2>4, <2>5 DEF ScanInv
<1> QED BY <1>4, <1>5, <1>6

(* While a sync runs, the finalized state catches up.                      *)
LEMMA ScanFinalizes ==
  ASSUME TypeInv, NEW p \in Procs, op[p].pc \in Scanning, ScanInv(p), Finalize
  PROVE  ScanInv(p)'
<1>1. /\ scan[p] \in ScanType /\ op' = op /\ Rows(p)' = Rows(p) /\ overtaken' = overtaken
  BY MovesTyped DEF Finalize, localVars, rowVars, Rows
<1>2. scan'[p] = [scan[p] EXCEPT !.occupied = @ \cap FinalLive',
                                 !.steady = @ \cap FinalHolders',
                                 !.seen = @ \cup FinalContent']
  BY DEF ScanInv, Finalize, Scanning
<1>3. /\ scan'[p].next = scan[p].next /\ scan'[p].cursor = scan[p].cursor
      /\ scan'[p].remote = scan[p].remote /\ scan'[p].fetched = scan[p].fetched
      /\ scan'[p].stale = scan[p].stale
      /\ scan'[p].occupied = scan[p].occupied \cap FinalLive'
      /\ scan'[p].steady = scan[p].steady \cap FinalHolders'
      /\ scan'[p].seen = scan[p].seen \cup FinalContent'
  BY <1>1, <1>2 DEF ScanType
<1>4. SeenInv(p)'
  <2>1. \A s \in FinalHolders' : s[1] \in FinalLive'
    BY DEF FinalHolders
  <2> QED BY <1>3, <2>1 DEF ScanInv, SeenInv
<1>5. CursorInv(p)' /\ StaleInv(p)'
  BY <1>1, <1>3 DEF ScanInv, CursorInv, StaleInv
<1>6. SavedInv(p)'
  <2>1. \A id : Holds(p, id) => Holds(p, id)'
    BY <1>1, <1>3 DEF Holds, RowContent
  <2> QED BY <1>1, <1>3, <2>1 DEF ScanInv, SavedInv
<1> QED BY <1>1, <1>4, <1>5, <1>6 DEF ScanInv

(* The slots of the finalized accounts lie below the finalized next_index, *)
(* where the owner resets nothing.                                         *)
LEMMA FinalBelowStep ==
  ASSUME ClientsInv, FinalBelow, [ClientsNext]_vars
  PROVE  FinalBelow'
<1>1. CASE UNCHANGED finalVars
  BY <1>1, FinalSame DEF FinalBelow, finalVars
<1>2. CASE Finalize
  BY <1>2 DEF Finalize, FinalBelow, FinalLive, LiveEntries, ClientsInv, SlotInv,
              SlotsAccounted, programVars
<1> QED BY <1>1, <1>2, Frame

(* The steps of a sync that keep it scanning keep what it knows.           *)
LEMMA OwnScan ==
  ASSUME TypeInv, SyncInv, NEW p \in Procs, Moves(p), op'[p].pc \in Scanning
  PROVE  ScanInv(p)'
<1>1. op \in [Procs -> OpType] /\ op[p] \in OpType
  BY MovesTyped
<1>2. ~Retires(p) /\ ~Land(p) /\ ~SaveRow(p) /\ ~MarkRow(p)
  BY <1>1 DEF Retires, Land, SaveRow, MarkRow, Goto, Finish, IdleOp, OpType, Scanning
<1>3. op[p].pc \in Scanning => ScanInv(p)
  BY DEF SyncInv
<1>4. CASE SyncReadMeta(p)
  BY <1>4, ScanBegins DEF SyncInv
<1>5. CASE SyncFetch(p) \/ SyncSave(p) \/ SyncMark(p) \/ SyncList(p) \/ SyncDelete(p)
  <2>1. op[p].pc \in Scanning
    BY <1>5 DEF SyncFetch, SyncSave, SyncMark, SyncList, SyncDelete, At, Scanning
  <2> QED BY <1>3, <1>5, <2>1, ScanFetches, ScanSaves, ScanGoesOn
<1> QED BY <1>2, <1>4, <1>5, StepKinds

(* Every step keeps what the syncs know.                                   *)
LEMMA SyncInvStep ==
  ASSUME ClientsInv, SyncInv, [ClientsNext]_vars
  PROVE  SyncInv'
<1>1. FinalBelow' /\ TypeInv
  BY FinalBelowStep DEF SyncInv, ClientsInv
<1>2. ASSUME NEW p \in Procs, Moves(p), NEW q \in Procs, op'[q].pc \in Scanning
      PROVE  ScanInv(q)'
  <2>1. CASE q = p
    BY <1>1, <1>2, <2>1, OwnScan
  <2>2. CASE q # p
    <3>1. /\ op'[q] = op[q] /\ scan'[q] = scan[q] /\ UNCHANGED finalVars
          /\ overtaken[q] \subseteq overtaken'[q]
          /\ \A id \in Ids : id \in overtaken'[q] \/ Untouched(q, id)
      BY <1>1, <1>2, <2>2, OthersRows, FinalRests
    <3>2. ScanInv(q)
      BY <1>2, <3>1 DEF SyncInv
    <3> QED BY <1>1, <3>1, <3>2, ScanRests
  <2> QED BY <2>1, <2>2
<1>3. ASSUME Chain \/ UNCHANGED vars, NEW q \in Procs, op'[q].pc \in Scanning
      PROVE  ScanInv(q)'
  <2>1. /\ op' = op /\ Rows(q)' = Rows(q) /\ overtaken' = overtaken
        /\ Finalize \/ UNCHANGED <<scan, finalVars>>
    BY <1>1, <1>3, ChainRests DEF Rows
  <2>2. ScanInv(q)
    BY <1>3, <2>1 DEF SyncInv
  <2>3. CASE Finalize
    BY <1>1, <1>3, <2>1, <2>2, <2>3, ScanFinalizes
  <2>4. CASE UNCHANGED <<scan, finalVars>>
    <3>1. \A id \in Ids : Untouched(q, id)
      BY <2>1 DEF Untouched
    <3> QED BY <1>1, <2>1, <2>2, <2>4, <3>1, ScanRests
  <2> QED BY <2>1, <2>3, <2>4
<1>4. \A q \in Procs : op'[q].pc \in Scanning => ScanInv(q)'
  BY <1>2, <1>3 DEF ClientsNext, Moves
<1> QED BY <1>1, <1>4 DEF SyncInv

(* At the start nothing scans, and nothing is finalized.                   *)
LEMMA SyncInit == ClientsInit => SyncInv
BY DEF ClientsInit, Init, SyncInv, FinalBelow, FinalLive, IdleOp, Scanning

(* What the syncs know holds in every state.                               *)
LEMMA SyncInvariance == ClientsSpec => [](ClientsInv /\ SyncInv)
<1>1. ClientsInv /\ SyncInv /\ [ClientsNext]_vars => SyncInv'
  BY SyncInvStep
<1> QED BY <1>1, SyncInit, ClientsInvariance, PTL DEF ClientsSpec

(* A sync that ends has found every slot in its range that held the same   *)
(* entry while it ran, and every such slot of the vault unless the owner   *)
(* resets it; the entry's row is a copy that was on chain meanwhile, but   *)
(* for what other use cases of the device did to the row after it was      *)
(* saved; whatever the size of the batches and wherever the cursor wraps.  *)
THEOREM SyncFetchesAllCorrect == ClientsSpec => SyncFetchesAll
<1> DEFINE Complete ==
      \A p \in Procs :
        SyncFinish(p)
        => \A s \in scan[p].steady :
             (WithReset => s[1] < scan[p].next)
             => LET id == s[2]
                    row == Rows(p)[id]
                IN  /\ s[1] \in scan[p].remote
                    /\ \/ id \in overtaken[p]
                       \/ /\ row # NoRow
                          /\ <<row.slot, [id |-> id, ver |-> row.ver]>> \in scan[p].seen
<1>1. ASSUME ClientsInv, SyncInv
      PROVE  Complete
  <2>1. ASSUME NEW p \in Procs, SyncFinish(p), NEW s \in scan[p].steady,
               WithReset => s[1] < scan[p].next
        PROVE  s[1] \in scan[p].remote /\ (s[2] \in overtaken[p] \/ Holds(p, s[2]))
    <3>1. op[p].pc = "deleteStale" /\ ScanInv(p)
      BY <1>1, <2>1 DEF SyncFinish, At, SyncInv, Scanning
    <3>2. /\ s[1] \in Nat /\ scan[p].next \in Nat /\ scan[p].cursor \in Nat
      <4>1. s[1] \in U32 /\ scan[p].next \in U32 /\ scan[p].cursor \in U32
        BY <1>1, MovesTyped, ScanParts DEF ClientsInv, ScanType
      <4> QED BY <4>1 DEF U32
    <3>3. s[1] < scan[p].next /\ scan[p].cursor >= scan[p].next /\ scan[p].fetched = {}
      BY <2>1, <3>1, ClientsAssumption DEF ScanInv, CursorInv, StaleInv
    <3>4. s[1] \in scan[p].remote
      BY <3>1, <3>2, <3>3 DEF ScanInv, SeenInv, CursorInv
    <3> QED BY <3>1, <3>3, <3>4 DEF ScanInv, SavedInv
  <2> QED BY <2>1 DEF Holds, RowContent
<1>2. [][Complete]_vars => SyncFetchesAll
  BY DEF SyncFetchesAll
<1> HIDE DEF Complete
<1>3. ClientsInv /\ SyncInv /\ [ClientsNext]_vars => [Complete]_vars
  BY <1>1
<1> QED BY <1>2, <1>3, SyncInvariance, PTL DEF ClientsSpec

-----------------------------------------------------------------------------
(* The slots an entry may come to sit in *)

(* A slot is a site of an entry if the entry sits there, at either         *)
(* commitment, or something remembers that slot for the entry and may put  *)
(* it there again: a row of any database, an entry that a terminal has in  *)
(* memory, a transaction nobody waits for, a use case that carries the     *)
(* slot, an account that a sync has fetched or a row that it has listed.   *)
AccountAt(id, i) ==
  \/ entries[i] # NoAccount /\ entries[i].encrypted_data.id = id
  \/ finalEntries[i] # NoAccount /\ finalEntries[i].encrypted_data.id = id

RowAt(id, i) ==
  \E d \in Devices : \/ rows[d][id] # NoRow /\ rows[d][id].slot = i
                     \/ \E entry \in listed[d] : entry.id = id /\ entry.slot = i

LateAt(id, i) == \E tx \in late : tx.data.id = id /\ tx.slot = i

Settled == {"save", "mark", "localSave"}

OpAt(p, id, i) ==
  /\ op[p].id = id /\ op[p].slot = i
  /\ \/ op[p].kind \in {"update", "delete"}
     \/ op[p].kind = "add" /\ op[p].pc \in Settled

ScanAt(p, id, i) ==
  \/ \E f \in scan[p].fetched : f[1] = i /\ f[2].id = id
  \/ <<id, i>> \in scan[p].stale

Site(id, i) ==
  \/ AccountAt(id, i) \/ RowAt(id, i) \/ LateAt(id, i)
  \/ \E p \in Procs : OpAt(p, id, i) \/ ScanAt(p, id, i)

Sites(id) == {i \in U32 : Site(id, i)}

(* An add that has not got its slot yet, and may allocate one.             *)
Trying(p, id) == op[p].kind = "add" /\ op[p].id = id /\ op[p].pc \notin Settled

AddsOwnTheirIds ==
  /\ \A p \in Procs : op[p].kind = "add" => op[p].id \in created
  /\ \A p, q \in Procs :
       op[p].kind = "add" /\ op[q].kind = "add" /\ op[p].id = op[q].id => p = q

(* An entry has no site before it is made, one at most from then on, and   *)
(* one more for every answer that was lost; an add that still tries has    *)
(* no site of its own.                                                     *)
CopiesInv ==
  /\ AddsOwnTheirIds
  /\ \A id \in Ids \ created : Sites(id) = {}
  /\ \A id \in Ids :
       /\ Cardinality(Sites(id)) <= 1 + lostSends[id]
       /\ (\E p \in Procs : Trying(p, id)) => Cardinality(Sites(id)) <= lostSends[id]

(* The slot that the use case of a process carries.                        *)
Carries(p, id, i) == op[p].id = id /\ op[p].slot = i /\ op[p].kind \in Writing

(* It is a site, or the add still tries.                                   *)
LEMMA CarriedSite ==
  ASSUME NEW p \in Procs, NEW id, NEW i, Carries(p, id, i)
  PROVE  OpAt(p, id, i) \/ Trying(p, id)
BY DEF Carries, OpAt, Trying, Writing

(* Accounts appear where an entry was carried.                             *)
LEMMA AccountMoves ==
  ASSUME TypeInv, NEW p \in Procs, Moves(p), NEW id \in Ids, NEW i \in U32, AccountAt(id, i)'
  PROVE  AccountAt(id, i) \/ Carries(p, id, i)
<1>1. finalEntries' = finalEntries
  BY FinalRests DEF finalVars
<1>2. CASE Land(p)
  <2>1. TxOf(p) \in TxType /\ Execute(TxOf(p)) /\ op[p].kind \in Writing
    BY <1>2, Landing DEF Land, TypeInv, ClientTypes, OpShape
  <2>2. TxOf(p).slot = op[p].slot /\ TxOf(p).data.id = op[p].id
    BY DEF TxOf, Content
  <2>3. \/ entries'[i] = entries[i] \/ entries'[i] = NoAccount
        \/ i = TxOf(p).slot /\ entries'[i].encrypted_data = TxOf(p).data
    BY <2>1, ExecuteEffect
  <2> QED BY <1>1, <2>1, <2>2, <2>3 DEF AccountAt, Carries
<1>3. CASE ~Land(p)
  <2>1. entries' = entries
    <3>1. CASE Start(p) \/ GiveUp(p)
      BY <3>1 DEF Start, StartAdd, StartUpdate, StartDelete, StartSync, StartClear, GiveUp,
                  programVars
    <3>2. CASE Send(p)
      BY <1>3, <3>2 DEF Send, Submit, PreflightReject, Reject, SendLost, programVars
    <3>3. CASE Work(p) /\ ~Send(p)
      BY <3>3, QuietSteps DEF programVars
    <3> QED BY <3>1, <3>2, <3>3 DEF Moves
  <2> QED BY <1>1, <2>1 DEF AccountAt
<1> QED BY <1>2, <1>3

(* So do transactions that nobody waits for.                               *)
LEMMA LateMoves ==
  ASSUME TypeInv, NEW p \in Procs, Moves(p), NEW id, NEW i, LateAt(id, i)'
  PROVE  LateAt(id, i) \/ Carries(p, id, i)
<1>1. ASSUME \/ late' = late
             \/ late' = late \cup {TxOf(p)} /\ op[p].pc \in {"submit", "sent"}
      PROVE  LateAt(id, i) \/ Carries(p, id, i)
  <2>1. op[p].pc \in {"submit", "sent"} => op[p].kind \in Writing
    BY DEF TypeInv, ClientTypes, OpShape
  <2>2. TxOf(p).slot = op[p].slot /\ TxOf(p).data.id = op[p].id
    BY DEF TxOf, Content
  <2> QED BY <1>1, <2>1, <2>2 DEF LateAt, Carries
<1>2. CASE Start(p)
  BY <1>1, <1>2 DEF Start, StartAdd, StartUpdate, StartDelete, StartSync, StartClear
<1>3. CASE GiveUp(p)
  BY <1>1, <1>3 DEF GiveUp, Submitted
<1>4. CASE Send(p)
  BY <1>1, <1>4 DEF Send, Submit, PreflightReject, Land, Reject, SendLost, At
<1>5. CASE AddStep(p)
  BY <1>1, <1>5 DEF AddStep, AddReadMeta, AddOffline, AddRetry, AddLocalGet, AddLocalSet
<1>6. CASE ReadEntry(p) \/ ReadMissing(p) \/ RowStep(p)
  BY <1>1, <1>6 DEF ReadEntry, ReadMissing, RowStep, SaveRow, MarkRow, DropRow
<1>7. CASE SyncStep(p)
  BY <1>1, <1>7 DEF SyncStep, SyncReadMeta, SyncFetch, SyncSave, SyncMark, SyncList,
                    SyncDelete, SyncFinish
<1>8. CASE ClearEntries(p) \/ ClearState(p)
  BY <1>1, <1>8 DEF ClearEntries, ClearState
<1> QED BY <1>2, <1>3, <1>4, <1>5, <1>6, <1>7, <1>8 DEF Moves, Work

(* What is offered to a use case has its site.                             *)
LEMMA OfferedAt ==
  ASSUME TypeInv, NEW p \in Procs, NEW entry \in Offered(p)
  PROVE  entry.id \in Ids /\ RowAt(entry.id, entry.slot)
<1>1. DeviceOf[p] \in Devices /\ entry.id \in Ids
  BY MovesTyped, OfferedType DEF Listed
<1>2. CASE p \in Terminals
  BY <1>1, <1>2 DEF Offered, RowAt
<1>3. CASE p \notin Terminals
  <2>1. PICK id \in Ids :
          /\ Rows(p)[id] # NoRow
          /\ entry = [id |-> id, slot |-> Rows(p)[id].slot, ver |-> Rows(p)[id].ver]
    BY <1>3 DEF Offered
  <2> QED BY <1>1, <2>1 DEF RowAt, Rows
<1> QED BY <1>2, <1>3

(* The steps that a terminal may come to list an entry by.                 *)
LEMMA ListingSteps ==
  ASSUME TypeInv, NEW p \in Procs, Moves(p)
  PROVE  \/ listed' = listed
         \/ SaveRow(p) \/ SyncSave(p)
         \/ \E entry \in Offered(p) : StartUpdate(p, entry)
<1>1. UNCHANGED rowVars => listed' = listed
  BY DEF rowVars
<1> USE DEF localVars
<1>2. CASE Start(p)
  BY <1>1, <1>2 DEF Start, StartAdd, StartDelete, StartSync, StartClear
<1>3. CASE GiveUp(p)
  BY <1>1, <1>3 DEF GiveUp
<1>4. CASE Send(p)
  BY <1>1, <1>4 DEF Send, Submit, PreflightReject, Land, Reject, SendLost
<1>5. CASE AddStep(p)
  BY <1>1, <1>5 DEF AddStep, AddReadMeta, AddOffline, AddRetry, AddLocalGet, AddLocalSet
<1>6. CASE ReadEntry(p) \/ ReadMissing(p) \/ RowStep(p)
  BY <1>1, <1>6 DEF ReadEntry, ReadMissing, RowStep, MarkRow, DropRow, MarkSynced, DeleteRows
<1>7. CASE SyncStep(p)
  BY <1>1, <1>7 DEF SyncStep, SyncReadMeta, SyncFetch, SyncMark, SyncList, SyncDelete,
                    SyncFinish, MarkSynced, DeleteRows
<1>8. CASE ClearEntries(p) \/ ClearState(p)
  BY <1>1, <1>8 DEF ClearEntries, ClearState, DeleteRows
<1> QED BY <1>2, <1>3, <1>4, <1>5, <1>6, <1>7, <1>8 DEF Moves, Work

(* A terminal lists what was saved, or what it edits.                      *)
LEMMA ListedMoves ==
  ASSUME TypeInv, NEW p \in Procs, Moves(p), NEW d \in Devices, NEW entry \in listed'[d]
  PROVE  \/ RowAt(entry.id, entry.slot)
         \/ Carries(p, entry.id, entry.slot)
         \/ ScanAt(p, entry.id, entry.slot)
<1>1. OpShape(op[p]) /\ listed \in [Devices -> SUBSET Listed]
  BY DEF TypeInv, ClientTypes, ClientsTypeOK
<1>2. ASSUME NEW row, Remember(p, row)
      PROVE  entry \in listed[d] \/ entry = row
  BY <1>1, <1>2 DEF Remember
<1>3. entry \in listed[d] => RowAt(entry.id, entry.slot)
  BY DEF RowAt
<1>4. CASE SaveRow(p)
  <2>1. Remember(p, [id |-> op[p].id, slot |-> op[p].slot, ver |-> op[p].ver])
    BY <1>4 DEF SaveRow, Save
  <2>2. op[p].kind \in Writing
    BY <1>1, <1>4 DEF SaveRow, OpShape
  <2>3. CASE entry = [id |-> op[p].id, slot |-> op[p].slot, ver |-> op[p].ver]
    BY <2>2, <2>3 DEF Carries
  <2> QED BY <1>2, <1>3, <2>1, <2>3
<1>5. CASE SyncSave(p)
  <2>1. PICK f \in scan[p].fetched : Save(p, f[2].id, f[1], f[2].ver)
    BY <1>5 DEF SyncSave
  <2>2. Remember(p, [id |-> f[2].id, slot |-> f[1], ver |-> f[2].ver])
    BY <2>1 DEF Save
  <2>3. CASE entry = [id |-> f[2].id, slot |-> f[1], ver |-> f[2].ver]
    BY <2>1, <2>3 DEF ScanAt
  <2> QED BY <1>2, <1>3, <2>2, <2>3
<1>6. ASSUME NEW edited \in Offered(p), StartUpdate(p, edited)
      PROVE  RowAt(entry.id, entry.slot)
  <2>1. CASE listed' = listed
    BY <1>3, <2>1
  <2>2. CASE Remember(p, [edited EXCEPT !.ver = Len(authors) + 1])
    <3>1. edited \in Listed /\ RowAt(edited.id, edited.slot)
      BY OfferedType, OfferedAt
    <3>2. CASE entry = [edited EXCEPT !.ver = Len(authors) + 1]
      <4>1. entry.id = edited.id /\ entry.slot = edited.slot
        BY <3>1, <3>2 DEF Listed
      <4> QED BY <3>1, <4>1
    <3> QED BY <1>2, <1>3, <2>2, <3>2
  <2> QED BY <1>6, <2>1, <2>2 DEF StartUpdate
<1>7. CASE listed' = listed
  BY <1>3, <1>7
<1> QED BY <1>4, <1>5, <1>6, <1>7, ListingSteps

(* A row takes the slot that a use case carries, or that of an account     *)
(* that was fetched.                                                       *)
LEMMA RowMoves ==
  ASSUME TypeInv, NEW p \in Procs, Moves(p), NEW id \in Ids, NEW i, RowAt(id, i)'
  PROVE  RowAt(id, i) \/ Carries(p, id, i) \/ ScanAt(p, id, i)
<1>1. /\ op \in [Procs -> OpType] /\ scan \in [Procs -> ScanType]
      /\ op[p] \in OpType /\ scan[p] \in ScanType /\ OpShape(op[p])
      /\ DeviceOf[p] \in Devices
      /\ \A j \in Ids : Rows(p)[j] \in Row \cup {NoRow}
  BY MovesTyped DEF TypeInv, ClientTypes
<1>2. ASSUME NEW d \in Devices, NEW entry \in listed'[d], entry.id = id, entry.slot = i
      PROVE  RowAt(id, i) \/ Carries(p, id, i) \/ ScanAt(p, id, i)
  BY <1>2, ListedMoves DEF RowAt
<1>3. ASSUME NEW d \in Devices \ {DeviceOf[p]}, rows'[d][id] # NoRow, rows'[d][id].slot = i
      PROVE  RowAt(id, i)
  BY <1>3, DevicesRest DEF RowAt
<1>4. ASSUME rows'[DeviceOf[p]][id] # NoRow, rows'[DeviceOf[p]][id].slot = i
      PROVE  RowAt(id, i) \/ Carries(p, id, i) \/ ScanAt(p, id, i)
  <2>1. Rows(p)'[id] # NoRow /\ Rows(p)'[id].slot = i
    BY <1>4 DEF Rows
  <2>2. ASSUME Rows(p)[id] # NoRow, Rows(p)[id].slot = i
        PROVE  RowAt(id, i)
    BY <1>1, <2>2 DEF RowAt, Rows
  <2>3. CASE Rows(p)'[id] \in {Rows(p)[id], NoRow}
    BY <2>1, <2>2, <2>3
  <2>4. CASE SaveRow(p)
    <3>1. op[p].id \in Ids /\ op[p].kind \in Writing
      BY <1>1, <2>4 DEF SaveRow, OpShape
    <3>2. Rows(p)'[id] = IF id = op[p].id
                         THEN [slot |-> op[p].slot, ver |-> op[p].ver, synced |-> FALSE]
                         ELSE Rows(p)[id]
      BY <2>4, <3>1, RowEffects DEF SaveRow
    <3> QED BY <2>1, <2>2, <3>1, <3>2 DEF Carries
  <2>5. CASE SyncSave(p)
    <3>1. PICK f \in scan[p].fetched : Save(p, f[2].id, f[1], f[2].ver)
      BY <2>5 DEF SyncSave
    <3>2. f[2].id \in Ids
      BY <1>1, <3>1 DEF ScanType, SlotContent, Payload
    <3>3. Rows(p)'[id] = IF id = f[2].id
                         THEN [slot |-> f[1], ver |-> f[2].ver, synced |-> FALSE]
                         ELSE Rows(p)[id]
      BY <3>1, <3>2, RowEffects
    <3> QED BY <2>1, <2>2, <3>1, <3>3 DEF ScanAt
  <2>6. CASE MarkRow(p) \/ SyncMark(p)
    <3>1. op[p].id \in Ids /\ MarkSynced(p, op[p].id)
      BY <1>1, <2>6 DEF MarkRow, SyncMark, At, OpShape, Writing
    <3> QED BY <2>1, <2>2, <3>1, MarkedRow
  <2>7. CASE Land(p) \/ SyncReadMeta(p) \/ SyncFetch(p) \/ SyncList(p)
    <3>1. Rows(p)' = Rows(p)
      BY <2>7 DEF Land, SyncReadMeta, SyncFetch, SyncList, localVars, rowVars, Rows
    <3> QED BY <2>3, <3>1
  <2>8. CASE SyncDelete(p)
    <3>1. PICK gone : DeleteRows(p, {gone})
      BY <2>8 DEF SyncDelete
    <3> QED BY <2>3, <3>1, RowEffects
  <2> QED BY <2>3, <2>4, <2>5, <2>6, <2>7, <2>8, StepKinds DEF Retires
<1> QED BY <1>2, <1>3, <1>4 DEF RowAt

(* A sync fetches what is finalized, and lists the rows of its device.     *)
LEMMA ScanMoves ==
  ASSUME TypeInv, NEW p \in Procs, Moves(p), NEW id, NEW i \in U32, ScanAt(p, id, i)'
  PROVE  ScanAt(p, id, i) \/ AccountAt(id, i) \/ RowAt(id, i)
<1>1. scan \in [Procs -> ScanType] /\ scan[p] \in ScanType /\ DeviceOf[p] \in Devices
  BY MovesTyped
<1>2. CASE /\ scan'[p].fetched \subseteq scan[p].fetched
           /\ scan'[p].stale \subseteq scan[p].stale
  BY <1>2 DEF ScanAt
<1>3. CASE SyncFetch(p)
  <2>1. /\ \A f \in scan'[p].fetched :
             \E j \in FinalLive : f = <<j, finalEntries[j].encrypted_data>>
        /\ scan'[p].stale = scan[p].stale
    BY <1>1, <1>3 DEF SyncFetch, ScanType
  <2> QED BY <2>1 DEF ScanAt, AccountAt, FinalLive
<1>4. CASE Land(p) \/ SaveRow(p) \/ MarkRow(p) \/ SyncMark(p)
  BY <1>2, <1>4 DEF Land, SaveRow, MarkRow, SyncMark
<1>5. CASE SyncReadMeta(p)
  BY <1>1, <1>2, <1>5 DEF SyncReadMeta, IdleScan
<1>6. CASE SyncSave(p)
  <2>1. PICK f : scan' = [scan EXCEPT ![p].fetched = @ \ {f}]
    BY <1>6 DEF SyncSave
  <2> QED BY <1>1, <1>2, <2>1 DEF ScanType
<1>7. CASE SyncList(p)
  <2>1. /\ scan'[p].fetched = scan[p].fetched
        /\ scan'[p].stale \subseteq StaleRows(p)
    BY <1>1, <1>7 DEF SyncList, ScanType
  <2>2. <<id, i>> \in StaleRows(p) => RowAt(id, i)
    BY <1>1 DEF StaleRows, RowAt, Rows
  <2> QED BY <2>1, <2>2 DEF ScanAt
<1>8. CASE SyncDelete(p)
  <2>1. PICK row : scan' = [scan EXCEPT ![p].stale = @ \ {row}]
    BY <1>8 DEF SyncDelete
  <2> QED BY <1>1, <1>2, <2>1 DEF ScanType
<1> QED BY <1>2, <1>3, <1>4, <1>5, <1>6, <1>7, <1>8, StepKinds DEF Retires

(* What a step makes of the use case of its process: it is still about the *)
(* same entry and slot, an add changes its slot while it tries, it is not  *)
(* about an entry any more, or it has just begun.                          *)
Stays(p) ==
  /\ op'[p].kind = op[p].kind /\ op'[p].id = op[p].id /\ op'[p].slot = op[p].slot
  /\ op[p].kind = "add" /\ op[p].pc \in Settled => op'[p].pc \in Settled

Tries(p) ==
  /\ op[p].kind = "add" /\ op'[p].kind = "add" /\ op'[p].id = op[p].id
  /\ op[p].pc \notin Settled /\ op'[p].pc \notin Settled

Leaves(p) == op'[p].kind \in {"none", "sync", "clear"}

StartsAdd(p, id) ==
  /\ id \notin created /\ created' = created \cup {id}
  /\ op'[p].kind = "add" /\ op'[p].id = id /\ op'[p].pc \notin Settled

StartsOn(p, entry) ==
  /\ op'[p].kind \in {"update", "delete"}
  /\ op'[p].id = entry.id /\ op'[p].slot = entry.slot

(* Starting one.                                                           *)
LEMMA StartKinds ==
  ASSUME TypeInv, NEW p \in Procs, Start(p)
  PROVE  \/ \E id \in Ids : StartsAdd(p, id)
         \/ created' = created /\ Leaves(p)
         \/ created' = created /\ \E entry \in Offered(p) : StartsOn(p, entry)
<1>1. op \in [Procs -> OpType]
  BY MovesTyped
<1>2. ASSUME NEW id \in Ids, StartAdd(p, id)
      PROVE  StartsAdd(p, id)
  <2>1. op'[p] = [IdleOp EXCEPT !.pc = "meta", !.kind = "add", !.id = id]
    BY <1>1, <1>2 DEF StartAdd, Begin
  <2> QED BY <1>2, <2>1 DEF StartAdd, StartsAdd, IdleOp, Settled
<1>3. ASSUME NEW entry \in Offered(p), StartUpdate(p, entry)
      PROVE  created' = created /\ StartsOn(p, entry)
  <2>1. op'[p] = [IdleOp EXCEPT
                   !.pc = "get", !.kind = "update", !.id = entry.id,
                   !.slot = entry.slot, !.base = entry.ver,
                   !.ver = Len(authors) + 1]
    BY <1>1, <1>3 DEF StartUpdate, Begin
  <2>2. op'[p].kind = "update" /\ op'[p].id = entry.id /\ op'[p].slot = entry.slot
    BY <2>1 DEF IdleOp
  <2> QED BY <1>3, <2>2 DEF StartUpdate, StartsOn
<1>4. ASSUME NEW entry \in Offered(p), StartDelete(p, entry)
      PROVE  created' = created /\ StartsOn(p, entry)
  <2>1. op'[p] = [IdleOp EXCEPT !.pc = "get", !.kind = "delete", !.id = entry.id,
                                !.slot = entry.slot]
    BY <1>1, <1>4 DEF StartDelete, Begin
  <2>2. op'[p].kind = "delete" /\ op'[p].id = entry.id /\ op'[p].slot = entry.slot
    BY <2>1 DEF IdleOp
  <2> QED BY <1>4, <2>2 DEF StartDelete, StartsOn, historyVars
<1>5. CASE StartSync(p) \/ StartClear(p)
  BY <1>1, <1>5 DEF StartSync, StartClear, Begin, IdleOp, Leaves, historyVars
<1> QED BY <1>2, <1>3, <1>4, <1>5 DEF Start

(* Carrying it on.                                                         *)
LEMMA WorkKinds ==
  ASSUME TypeInv, NEW p \in Procs, Work(p) \/ GiveUp(p)
  PROVE  created' = created /\ (Stays(p) \/ Tries(p) \/ Leaves(p))
<1> DEFINE Kind == Stays(p) \/ Tries(p) \/ Leaves(p)
<1>1. op \in [Procs -> OpType] /\ op[p] \in OpType
  BY MovesTyped
<1>2. ASSUME NEW pc, Goto(p, pc),
             op[p].kind = "add" /\ op[p].pc \in Settled => pc \in Settled
      PROVE  Kind
  BY <1>1, <1>2 DEF Goto, OpType, Stays
<1>3. Finish(p) => Kind
  BY <1>1 DEF Finish, IdleOp, Leaves
<1>4. CASE GiveUp(p)
  BY <1>3, <1>4 DEF GiveUp, historyVars
<1>5. CASE Send(p)
  <2>1. created' = created
    BY <1>5 DEF Send, Submit, PreflightReject, Land, Reject, SendLost, historyVars
  <2>2. CASE Submit(p) \/ Land(p) \/ Reject(p) \/ SendLost(p)
    BY <1>2, <1>3, <2>1, <2>2 DEF Submit, Land, Reject, SendLost, At, Settled
  <2>3. CASE PreflightReject(p)
    <3>1. \/ Goto(p, "retry") \/ Finish(p)
          \/ op' = [op EXCEPT ![p].pc = "get", ![p].attempt = @ + 1]
      BY <2>3 DEF PreflightReject
    <3>2. op[p].pc \notin Settled
      BY <2>3 DEF PreflightReject, Settled
    <3>3. CASE op' = [op EXCEPT ![p].pc = "get", ![p].attempt = @ + 1]
      BY <1>1, <2>1, <3>2, <3>3 DEF OpType, Stays
    <3> QED BY <1>2, <1>3, <2>1, <3>1, <3>2, <3>3
  <2> QED BY <1>5, <2>2, <2>3 DEF Send
<1>6. CASE AddStep(p)
  <2>1. created' = created
    BY <1>6 DEF AddStep, AddReadMeta, AddOffline, AddRetry, AddLocalGet, AddLocalSet,
                historyVars
  <2>2. CASE AddOffline(p) \/ AddLocalSet(p)
    BY <1>2, <2>1, <2>2 DEF AddOffline, AddLocalSet, At, Settled
  <2>3. CASE AddReadMeta(p) \/ AddRetry(p) \/ AddLocalGet(p)
    <3>1. op[p].kind = "add" /\ op[p].pc \notin Settled
      BY <2>3 DEF AddReadMeta, AddRetry, AddLocalGet, At, Settled
    <3>2. CASE Finish(p)
      BY <1>3, <2>1, <3>2
    <3>3. CASE ~Finish(p)
      <4>1. /\ op'[p].pc \in {"submit", "localSet"}
            /\ op'[p].kind = op[p].kind /\ op'[p].id = op[p].id
        BY <1>1, <2>3, <3>3 DEF AddReadMeta, AddRetry, AddLocalGet, OpType
      <4> QED BY <2>1, <3>1, <4>1 DEF Tries, Settled
    <3> QED BY <3>2, <3>3
  <2> QED BY <1>6, <2>2, <2>3 DEF AddStep
<1>7. CASE ReadEntry(p) \/ ReadMissing(p)
  <2>1. /\ op[p].kind # "add" /\ created' = created
        /\ op'[p].kind = op[p].kind /\ op'[p].id = op[p].id /\ op'[p].slot = op[p].slot
    BY <1>1, <1>7 DEF ReadEntry, ReadMissing, Goto, OpType, historyVars
  <2> QED BY <2>1 DEF Stays
<1>8. CASE RowStep(p)
  <2>1. created' = created /\ (Finish(p) \/ Goto(p, "mark"))
    BY <1>8 DEF RowStep, SaveRow, MarkRow, DropRow, historyVars
  <2> QED BY <1>2, <1>3, <2>1 DEF Settled
<1>9. CASE SyncStep(p)
  <2>1. created' = created /\ op[p].kind = "sync"
    BY <1>9 DEF SyncStep, SyncReadMeta, SyncFetch, SyncSave, SyncMark, SyncList,
                SyncDelete, SyncFinish, At, historyVars
  <2>2. CASE SyncReadMeta(p) \/ SyncList(p) \/ SyncFinish(p) \/ SyncFetch(p) \/ SyncDelete(p)
    BY <1>1, <1>2, <1>3, <2>1, <2>2
       DEF SyncReadMeta, SyncList, SyncFinish, SyncFetch, SyncDelete, Leaves
  <2>3. CASE SyncSave(p) \/ SyncMark(p)
    <3>1. PICK pc, id : op' = [op EXCEPT ![p].pc = pc, ![p].id = id]
      BY <2>3 DEF SyncSave, SyncMark
    <3> QED BY <1>1, <2>1, <3>1 DEF OpType, Leaves
  <2> QED BY <1>9, <2>2, <2>3 DEF SyncStep
<1>10. CASE ClearEntries(p) \/ ClearState(p)
  BY <1>1, <1>2, <1>3, <1>10 DEF ClearEntries, ClearState, At, historyVars
<1> QED BY <1>4, <1>5, <1>6, <1>7, <1>8, <1>9, <1>10 DEF Work

(* A use case comes by a slot from an entry it is started on or from an    *)
(* add that tried.                                                         *)
LEMMA OpSites ==
  ASSUME TypeInv, NEW p \in Procs, Moves(p), NEW id, NEW i, OpAt(p, id, i)'
  PROVE  RowAt(id, i) \/ Carries(p, id, i)
<1>2. CASE Stays(p)
  BY <1>2 DEF Stays, OpAt, Carries, Writing
<1>3. CASE Tries(p) \/ Leaves(p) \/ \E x \in Ids : StartsAdd(p, x)
  BY <1>3 DEF Tries, Leaves, StartsAdd, OpAt
<1>4. CASE \E entry \in Offered(p) : StartsOn(p, entry)
  BY <1>4, OfferedAt DEF StartsOn, OpAt
<1> QED BY <1>2, <1>3, <1>4, StartKinds, WorkKinds DEF Moves

(* An entry gets a new site only by the slot of the add that tries.        *)
LEMMA SitesGrow ==
  ASSUME TypeInv, NEW p \in Procs, Moves(p), NEW id \in Ids, NEW i \in U32, Site(id, i)'
  PROVE  \/ Site(id, i)
         \/ Trying(p, id) /\ i = op[p].slot
<1>1. Carries(p, id, i) => \/ Site(id, i)
                           \/ Trying(p, id) /\ i = op[p].slot
  BY CarriedSite DEF Carries, Site
<1>2. RowAt(id, i) \/ AccountAt(id, i) \/ ScanAt(p, id, i) => Site(id, i)
  BY DEF Site
<1>3. CASE AccountAt(id, i)'
  BY <1>1, <1>3, AccountMoves DEF Site
<1>4. CASE RowAt(id, i)'
  BY <1>1, <1>2, <1>4, RowMoves DEF Site
<1>5. CASE LateAt(id, i)'
  BY <1>1, <1>5, LateMoves DEF Site
<1>6. CASE OpAt(p, id, i)' \/ ScanAt(p, id, i)'
  <2>1. CASE OpAt(p, id, i)'
    BY <1>1, <2>1, OpSites DEF Site
  <2>2. CASE ScanAt(p, id, i)'
    BY <1>2, <2>2, ScanMoves
  <2> QED BY <1>6, <2>1, <2>2
<1>7. ASSUME NEW q \in Procs \ {p}, OpAt(q, id, i)' \/ ScanAt(q, id, i)'
      PROVE  Site(id, i)
  <2>1. op'[q] = op[q] /\ scan'[q] = scan[q]
    BY OthersRest
  <2>2. OpAt(q, id, i) \/ ScanAt(q, id, i)
    BY <1>7, <2>1 DEF OpAt, ScanAt
  <2> QED BY <2>2 DEF Site
<1> QED BY <1>3, <1>4, <1>5, <1>6, <1>7 DEF Site

(* An add that goes on trying has made no site, unless its answer was lost. *)
LEMMA TryingQuiet ==
  ASSUME TypeInv, AddsOwnTheirIds, NEW p \in Procs, Moves(p), NEW id \in Ids,
         Trying(p, id), Trying(p, id)'
  PROVE  SendLost(p) \/ Sites(id)' \subseteq Sites(id)
<1>1. op \in [Procs -> OpType] /\ op[p] \in OpType
  BY MovesTyped
<1>2. ~Start(p)
  BY StartKinds DEF StartsAdd, Leaves, StartsOn, AddsOwnTheirIds, Trying
<1>3. ~Finish(p)
  BY <1>1 DEF Finish, IdleOp, Trying
<1>4. \A pc \in Settled : ~Goto(p, pc)
  BY <1>1 DEF Goto, OpType, Trying
<1>5. ~GiveUp(p) /\ ~Land(p) /\ ~AddLocalSet(p)
  BY <1>3, <1>4 DEF GiveUp, Land, AddLocalSet, Trying, Settled
<1>6. ~ReadEntry(p) /\ ~ReadMissing(p) /\ ~RowStep(p) /\ ~SyncStep(p)
      /\ ~ClearEntries(p) /\ ~ClearState(p)
  BY <1>3 DEF ReadEntry, ReadMissing, RowStep, SaveRow, MarkRow, DropRow, SyncStep,
     SyncReadMeta, SyncFetch, SyncSave, SyncMark, SyncList, SyncDelete, SyncFinish,
     ClearEntries, ClearState, At, Trying, Settled
<1>7. CASE \/ Submit(p) \/ PreflightReject(p) \/ Reject(p)
           \/ AddReadMeta(p) \/ AddOffline(p) \/ AddRetry(p) \/ AddLocalGet(p)
  <2>1. UNCHANGED <<entries, finalEntries, rows, listed, late, scan>>
    BY <1>7 DEF Submit, PreflightReject, Reject, AddReadMeta, AddOffline, AddRetry,
                AddLocalGet, programVars, finalVars, localVars, rowVars
  <2>2. ASSUME NEW q \in Procs, NEW i, OpAt(q, id, i)'
        PROVE  OpAt(q, id, i)
    <3>1. q # p
      BY <2>2 DEF OpAt, Trying
    <3>2. op'[q] = op[q]
      BY <3>1, OthersRest
    <3> QED BY <2>2, <3>2 DEF OpAt
  <2>3. ASSUME NEW i \in U32, Site(id, i)'
        PROVE  Site(id, i)
    BY <2>1, <2>2, <2>3 DEF Site, AccountAt, RowAt, LateAt, ScanAt
  <2> QED BY <2>3 DEF Sites
<1> QED BY <1>2, <1>5, <1>6, <1>7, Zenon DEF Moves, Work, Send, AddStep

(* The sites can be counted.                                               *)
LEMMA SitesFinite ==
  ASSUME NEW id
  PROVE  /\ IsFiniteSet(Sites(id)) /\ Cardinality(Sites(id)) \in Nat
         /\ Sites(id)' \subseteq Sites(id) => Cardinality(Sites(id)') <= Cardinality(Sites(id))
         /\ \A i : Sites(id)' \subseteq Sites(id) \cup {i}
                     => Cardinality(Sites(id)') <= Cardinality(Sites(id)) + 1
<1>1. IsFiniteSet(U32)
  BY ProgramAssumption, FS_Interval DEF U32
<1>2. Sites(id) \in SUBSET U32
  BY DEF Sites
<1>3. IsFiniteSet(Sites(id))
  BY <1>1, <1>2, FS_Subset
<1>4. Cardinality(Sites(id)) \in Nat
  BY <1>3, FS_CardinalityType
<1>5. ASSUME Sites(id)' \subseteq Sites(id)
      PROVE  Cardinality(Sites(id)') <= Cardinality(Sites(id))
  <2>1. Sites(id)' \in SUBSET Sites(id)
    BY <1>5
  <2> QED BY <1>3, <2>1, FS_Subset
<1>6. ASSUME NEW i, Sites(id)' \subseteq Sites(id) \cup {i}
      PROVE  Cardinality(Sites(id)') <= Cardinality(Sites(id)) + 1
  <2> DEFINE More == Sites(id) \cup {i}
  <2>1. Sites(id)' \in SUBSET More
    BY <1>6
  <2>2. IsFiniteSet(More) /\ Cardinality(More) <= Cardinality(Sites(id)) + 1
    BY <1>3, <1>4, FS_AddElement
  <2> HIDE DEF More
  <2>3. Cardinality(Sites(id)') <= Cardinality(More)
    BY <2>1, <2>2, FS_Subset
  <2>4. Cardinality(Sites(id)') \in Nat /\ Cardinality(More) \in Nat
    BY <2>1, <2>2, FS_Subset, FS_CardinalityType
  <2> QED BY <1>4, <2>2, <2>3, <2>4
<1> QED BY <1>3, <1>4, <1>5, <1>6

(* The count of lost answers.                                              *)
LEMMA LostMoves ==
  ASSUME TypeInv, NEW p \in Procs, Moves(p)
  PROVE  /\ \A id \in Ids : lostSends[id] \in Nat /\ lostSends[id] <= lostSends'[id]
         /\ SendLost(p) => \A id \in Ids : Trying(p, id) => lostSends'[id] = lostSends[id] + 1
<1>1. lostSends \in [Ids -> Nat] /\ OpShape(op[p])
  BY DEF TypeInv, ClientTypes, ClientsTypeOK
<1>2. CASE SendLost(p)
  <2>1. /\ op[p].id \in Ids
        /\ lostSends' = [lostSends EXCEPT ![op[p].id] = @ + 1]
    BY <1>1, <1>2 DEF SendLost, At, OpShape, Writing
  <2> QED BY <1>1, <2>1 DEF Trying
<1>3. CASE ~SendLost(p)
  <2>1. lostSends' = lostSends
    <3> USE DEF historyVars
    <3>1. CASE Start(p) \/ GiveUp(p)
      BY <3>1 DEF Start, StartAdd, StartUpdate, StartDelete, StartSync, StartClear, GiveUp
    <3>2. CASE Send(p) \/ AddStep(p)
      BY <1>3, <3>2 DEF Send, Submit, PreflightReject, Land, Reject, AddStep, AddReadMeta,
                        AddOffline, AddRetry, AddLocalGet, AddLocalSet
    <3>3. CASE ReadEntry(p) \/ ReadMissing(p) \/ RowStep(p)
      BY <3>3 DEF ReadEntry, ReadMissing, RowStep, SaveRow, MarkRow, DropRow
    <3>4. CASE SyncStep(p)
      BY <3>4 DEF SyncStep, SyncReadMeta, SyncFetch, SyncSave, SyncMark, SyncList,
                  SyncDelete, SyncFinish
    <3>5. CASE ClearEntries(p) \/ ClearState(p)
      BY <3>5 DEF ClearEntries, ClearState
    <3> QED BY <3>1, <3>2, <3>3, <3>4, <3>5 DEF Moves, Work
  <2> QED BY <1>1, <1>3, <2>1
<1> QED BY <1>2, <1>3

(* Adds keep to the ids they made.                                         *)
LEMMA AddsStep ==
  ASSUME TypeInv, AddsOwnTheirIds, NEW p \in Procs, Moves(p)
  PROVE  /\ AddsOwnTheirIds'
         /\ created \subseteq created'
         /\ \A id : Trying(p, id)' => Trying(p, id) \/ id \notin created
<1>1. \A q \in Procs \ {p} : op'[q] = op[q]
  BY OthersRest
<1>2. CASE \E id \in Ids : StartsAdd(p, id)
  BY <1>1, <1>2 DEF StartsAdd, AddsOwnTheirIds, Trying
<1>3. CASE created' = created /\ (Leaves(p) \/ \E entry \in Offered(p) : StartsOn(p, entry))
  BY <1>1, <1>3 DEF Leaves, StartsOn, AddsOwnTheirIds, Trying
<1>4. CASE created' = created /\ (Stays(p) \/ Tries(p))
  BY <1>1, <1>4 DEF Stays, Tries, AddsOwnTheirIds, Trying
<1> QED BY <1>2, <1>3, <1>4, StartKinds, WorkKinds DEF Moves

(* Every step of a process keeps the count of the sites.                   *)
LEMMA CopiesMove ==
  ASSUME TypeInv, CopiesInv, NEW p \in Procs, Moves(p)
  PROVE  CopiesInv'
<1>1. AddsOwnTheirIds
  BY DEF CopiesInv
<1>2. /\ AddsOwnTheirIds' /\ created \subseteq created'
      /\ \A id : Trying(p, id)' => Trying(p, id) \/ id \notin created
  BY <1>1, AddsStep
<1>3. ASSUME NEW id \in Ids
      PROVE  /\ Sites(id)' \subseteq Sites(id) \cup {op[p].slot}
             /\ ~Trying(p, id) => Sites(id)' \subseteq Sites(id)
  BY SitesGrow DEF Sites
<1>4. ASSUME NEW id \in Ids \ created'
      PROVE  Sites(id)' = {}
  <2>1. Sites(id) = {} /\ ~Trying(p, id)
    BY <1>1, <1>2 DEF CopiesInv, AddsOwnTheirIds, Trying
  <2> QED BY <1>3, <2>1
<1>5. ASSUME NEW id \in Ids
      PROVE  /\ Cardinality(Sites(id)') <= 1 + lostSends'[id]
             /\ (\E q \in Procs : Trying(q, id)') => Cardinality(Sites(id)') <= lostSends'[id]
  <2>1. /\ lostSends[id] \in Nat /\ lostSends[id] <= lostSends'[id]
        /\ SendLost(p) /\ Trying(p, id) => lostSends'[id] = lostSends[id] + 1
    BY LostMoves
  <2>2. lostSends'[id] \in Nat
    <3>1. TypeInv'
      BY TypeInvStep DEF ClientsNext, Moves
    <3> QED BY <3>1 DEF TypeInv, ClientTypes, ClientsTypeOK
  <2>3. /\ Cardinality(Sites(id)) \in Nat
        /\ Cardinality(Sites(id)) <= 1 + lostSends[id]
        /\ (\E q \in Procs : Trying(q, id)) => Cardinality(Sites(id)) <= lostSends[id]
    BY SitesFinite DEF CopiesInv
  <2>4. Cardinality(Sites(id)') \in Nat
    <3>1. IsFiniteSet(Sites(id)')
      <4>1. IsFiniteSet(U32) /\ Sites(id)' \in SUBSET U32
        BY ProgramAssumption, FS_Interval DEF U32, Sites
      <4> QED BY <4>1, FS_Subset
    <3> QED BY <3>1, FS_CardinalityType
  <2>5. CASE Trying(p, id)
    <3>1. Cardinality(Sites(id)) <= lostSends[id]
      BY <2>3, <2>5
    <3>2. Cardinality(Sites(id)') <= Cardinality(Sites(id)) + 1
      BY <1>3, SitesFinite
    <3>3. ASSUME NEW q \in Procs, Trying(q, id)'
          PROVE  Cardinality(Sites(id)') <= lostSends'[id]
      <4>1. q = p
        <5>1. q # p => Trying(q, id)
          BY <3>3, OthersRest DEF Trying
        <5> QED BY <1>1, <2>5, <5>1 DEF AddsOwnTheirIds, Trying
      <4>2. CASE SendLost(p)
        BY <2>1, <2>3, <2>4, <2>5, <3>1, <3>2, <4>2
      <4>3. CASE Sites(id)' \subseteq Sites(id)
        <5>1. Cardinality(Sites(id)') <= Cardinality(Sites(id))
          BY <4>3, SitesFinite
        <5> QED BY <2>1, <2>2, <2>3, <2>4, <3>1, <5>1
      <4> QED BY <1>1, <2>5, <3>3, <4>1, <4>2, <4>3, TryingQuiet
    <3> QED BY <2>1, <2>2, <2>3, <2>4, <3>1, <3>2, <3>3
  <2>6. CASE ~Trying(p, id)
    <3>1. Cardinality(Sites(id)') <= Cardinality(Sites(id))
      BY <1>3, <2>6, SitesFinite
    <3>2. ASSUME NEW q \in Procs, Trying(q, id)'
          PROVE  Cardinality(Sites(id)') <= lostSends'[id]
      <4>1. CASE q # p
        <5>1. Trying(q, id)
          BY <3>2, <4>1, OthersRest DEF Trying
        <5> QED BY <2>1, <2>2, <2>3, <2>4, <3>1, <5>1
      <4>2. CASE q = p
        <5>1. Sites(id) = {}
          BY <1>2, <2>6, <3>2, <4>2 DEF CopiesInv
        <5>2. Cardinality(Sites(id)) = 0
          BY <5>1, FS_EmptySet
        <5> QED BY <2>2, <2>4, <3>1, <5>2
      <4> QED BY <4>1, <4>2
    <3> QED BY <2>1, <2>2, <2>3, <2>4, <3>1, <3>2
  <2> QED BY <2>5, <2>6
<1>6. /\ \A id \in Ids \ created' : Sites(id)' = {}
      /\ \A id \in Ids :
           /\ Cardinality(Sites(id)') <= 1 + lostSends'[id]
           /\ (\E q \in Procs : Trying(q, id)') => Cardinality(Sites(id)') <= lostSends'[id]
  BY <1>4, <1>5
<1> QED BY <1>2, <1>6 DEF CopiesInv

(* No step of the chain makes a site: what lands late had its slot.        *)
LEMMA CopiesChain ==
  ASSUME TypeInv, CopiesInv, Chain \/ UNCHANGED vars
  PROVE  CopiesInv'
<1>1. /\ op' = op /\ rows' = rows /\ listed' = listed
      /\ \A p \in Procs : /\ scan'[p].fetched = scan[p].fetched
                          /\ scan'[p].stale = scan[p].stale
  BY ChainRests
<1>2. created' = created /\ lostSends' = lostSends /\ late' \subseteq late
  BY DEF Chain, OwnerInstruction, Finalize, Second, LateLand, LateDrop, historyVars,
         processVars, vars
<1>3. ASSUME NEW id \in Ids, NEW i \in U32, AccountAt(id, i)'
      PROVE  AccountAt(id, i) \/ LateAt(id, i)
  <2>1. CASE entries' = entries /\ finalEntries' \in {entries, finalEntries}
    BY <1>3, <2>1 DEF AccountAt
  <2>2. ASSUME NEW tx \in late, LateLand(tx)
        PROVE  AccountAt(id, i) \/ LateAt(id, i)
    <3>1. tx \in TxType /\ Execute(tx) /\ finalEntries' = finalEntries
      BY <2>2, Landing DEF LateLand, finalVars
    <3>2. \/ entries'[i] = entries[i] \/ entries'[i] = NoAccount
          \/ i = tx.slot /\ entries'[i].encrypted_data = tx.data
      BY <3>1, ExecuteEffect
    <3> QED BY <1>3, <3>1, <3>2 DEF AccountAt, LateAt
  <2>3. CASE OwnerInstruction \/ Finalize \/ Second \/ UNCHANGED vars
    BY <2>1, <2>3 DEF OwnerInstruction, VaultInstruction, InitializeVault, ResetVault,
       WipeVault, Finalize, Second, Tick, vars, programVars, finalVars
  <2>4. ASSUME NEW tx \in late, LateDrop(tx)
        PROVE  AccountAt(id, i) \/ LateAt(id, i)
    BY <2>1, <2>4 DEF LateDrop, programVars, finalVars
  <2> QED BY <2>2, <2>3, <2>4 DEF Chain
<1>4. ASSUME NEW id \in Ids, NEW i \in U32, Site(id, i)'
      PROVE  Site(id, i)
  <2>1. RowAt(id, i)' => RowAt(id, i)
    BY <1>1 DEF RowAt
  <2>2. LateAt(id, i)' => LateAt(id, i)
    BY <1>2 DEF LateAt
  <2>3. \A p \in Procs : /\ OpAt(p, id, i)' => OpAt(p, id, i)
                         /\ ScanAt(p, id, i)' => ScanAt(p, id, i)
    BY <1>1 DEF OpAt, ScanAt
  <2> QED BY <1>3, <1>4, <2>1, <2>2, <2>3 DEF Site
<1>5. ASSUME NEW id \in Ids
      PROVE  /\ Sites(id)' \subseteq Sites(id)
             /\ Cardinality(Sites(id)') \in Nat /\ Cardinality(Sites(id)) \in Nat
             /\ Cardinality(Sites(id)') <= Cardinality(Sites(id))
  <2>1. Sites(id)' \subseteq Sites(id)
    BY <1>4 DEF Sites
  <2>2. IsFiniteSet(Sites(id)) /\ Sites(id)' \in SUBSET Sites(id)
    BY <2>1, SitesFinite
  <2>3. IsFiniteSet(Sites(id)')
    BY <2>2, FS_Subset
  <2> QED BY <2>1, <2>2, <2>3, SitesFinite, FS_CardinalityType
<1>6. \A p \in Procs, id \in Ids : Trying(p, id)' <=> Trying(p, id)
  BY <1>1 DEF Trying
<1>7. AddsOwnTheirIds' /\ \A id \in Ids \ created' : Sites(id)' = {}
  BY <1>1, <1>2, <1>5 DEF CopiesInv, AddsOwnTheirIds
<1>8. ASSUME NEW id \in Ids
      PROVE  /\ Cardinality(Sites(id)') <= 1 + lostSends'[id]
             /\ (\E q \in Procs : Trying(q, id)') => Cardinality(Sites(id)') <= lostSends'[id]
  <2>1. lostSends[id] \in Nat /\ lostSends'[id] = lostSends[id]
    BY <1>2 DEF TypeInv, ClientTypes, ClientsTypeOK
  <2>2. /\ Cardinality(Sites(id)) <= 1 + lostSends[id]
        /\ (\E q \in Procs : Trying(q, id)) => Cardinality(Sites(id)) <= lostSends[id]
    BY DEF CopiesInv
  <2> QED BY <1>5, <1>6, <2>1, <2>2
<1> QED BY <1>7, <1>8 DEF CopiesInv

(* At the start no entry has a site.                                       *)
LEMMA CopiesInit == ClientsInit => CopiesInv
<1> SUFFICES ASSUME ClientsInit
             PROVE  CopiesInv
  OBVIOUS
<1>1. ASSUME NEW id \in Ids
      PROVE  Sites(id) = {}
  BY DEF ClientsInit, Init, Sites, Site, AccountAt, RowAt, LateAt, OpAt, ScanAt,
         IdleOp, IdleScan
<1>2. \A p \in Procs : op[p].kind = "none"
  BY DEF ClientsInit, IdleOp
<1>3. \A id \in Ids : Cardinality(Sites(id)) = 0 /\ lostSends[id] = 0
  BY <1>1, FS_EmptySet DEF ClientsInit
<1> QED BY <1>1, <1>2, <1>3 DEF CopiesInv, AddsOwnTheirIds, Trying

(* The count of the sites holds in every state.                            *)
LEMMA CopiesInvariance == ClientsSpec => [](TypeInv /\ CopiesInv)
<1>1. TypeInv /\ CopiesInv /\ [ClientsNext]_vars => CopiesInv'
  BY CopiesMove, CopiesChain DEF ClientsNext, Moves
<1> QED BY <1>1, CopiesInit, TypeInvariance, PTL DEF ClientsSpec

(* Adding is not idempotent and its use case retries, but whatever the     *)
(* clients race, retry or abandon, on one device or on many, and even if   *)
(* the owner resets the vault in between: an entry sits in one slot at     *)
(* most, and in one more for every answer to SendTransaction that was lost.*)
THEOREM DuplicatesCorrect == ClientsSpec => []DuplicatesOnlyFromLostSends
<1>1. TypeInv /\ CopiesInv => DuplicatesOnlyFromLostSends
  <2> SUFFICES ASSUME TypeInv, CopiesInv, NEW id \in Ids
               PROVE  Cardinality(HoldersOf(id)) <= 1 + lostSends[id]
    BY DEF DuplicatesOnlyFromLostSends
  <2>1. HoldersOf(id) \in SUBSET Sites(id)
    BY DEF HoldersOf, LiveEntries, Sites, Site, AccountAt
  <2>2. /\ IsFiniteSet(HoldersOf(id)) /\ Cardinality(HoldersOf(id)) <= Cardinality(Sites(id))
        /\ Cardinality(Sites(id)) \in Nat
    BY <2>1, SitesFinite, FS_Subset
  <2>3. Cardinality(HoldersOf(id)) \in Nat
    BY <2>2, FS_CardinalityType
  <2>4. lostSends[id] \in Nat /\ Cardinality(Sites(id)) <= 1 + lostSends[id]
    BY DEF CopiesInv, TypeInv, ClientTypes, ClientsTypeOK
  <2> QED BY <2>2, <2>3, <2>4
<1> QED BY <1>1, CopiesInvariance, PTL

(* A sync deletes a row only if its slot was vacant at some time since the *)
(* sync began, whatever the other devices, the other use cases of this one *)
(* and the late transactions do, and wherever the batches end; but for a   *)
(* row that another use case moved, after the sync listed it, to the other *)
(* slot of an entry that a lost answer stored twice.                       *)
THEOREM SyncKeepsLiveCorrect == ClientsSpec => SyncKeepsLive
<1> DEFINE Kept ==
      \A p \in Procs, id \in Ids :
        /\ SyncDelete(p)
        /\ Rows(p)[id] # NoRow
        /\ rows'[DeviceOf[p]][id] = NoRow
        => \/ Rows(p)[id].slot \notin scan[p].occupied
           \/ lostSends[id] > 0 /\ <<id, Rows(p)[id].slot>> \notin scan[p].stale
<1>1. ASSUME TypeInv, SyncInv, CopiesInv
      PROVE  Kept
  <2> SUFFICES ASSUME NEW p \in Procs, NEW id \in Ids, SyncDelete(p),
                      Rows(p)[id] # NoRow, rows'[DeviceOf[p]][id] = NoRow
               PROVE  \/ Rows(p)[id].slot \notin scan[p].occupied
                      \/ /\ lostSends[id] > 0
                         /\ <<id, Rows(p)[id].slot>> \notin scan[p].stale
    OBVIOUS
  <2> DEFINE slot == Rows(p)[id].slot
  <2>1. /\ scan[p] \in ScanType /\ Rows(p)[id] \in Row /\ DeviceOf[p] \in Devices
    BY <1>1, MovesTyped
  <2>2. op[p].pc = "deleteStale" /\ ScanInv(p)
    BY <1>1 DEF SyncDelete, At, SyncInv, Scanning
  <2>3. CASE <<id, slot>> \in scan[p].stale
    <3>1. /\ slot < scan[p].next /\ slot \notin scan[p].remote
          /\ scan[p].cursor >= scan[p].next
      BY <2>2, <2>3 DEF ScanInv, StaleInv
    <3>2. slot \in Nat /\ scan[p].next \in Nat /\ scan[p].cursor \in Nat
      BY <2>1 DEF Row, ScanType, U32
    <3> QED BY <2>2, <3>1, <3>2 DEF ScanInv, CursorInv
  <2>4. CASE <<id, slot>> \notin scan[p].stale
    <3>1. PICK i \in U32 : <<id, i>> \in scan[p].stale
      <4>1. PICK gone \in scan[p].stale : DeleteRows(p, {gone[1]})
        BY DEF SyncDelete
      <4>2. Rows(p)'[id] = IF id \in {gone[1]} THEN NoRow ELSE Rows(p)[id]
        BY <1>1, <4>1, RowEffects
      <4>3. id = gone[1]
        BY <4>2 DEF Rows
      <4> QED BY <2>1, <4>3 DEF ScanType
    <3>2. slot \in Sites(id) /\ i \in Sites(id) /\ slot # i
      <4>1. RowAt(id, slot) /\ ScanAt(p, id, i)
        BY <2>1, <3>1 DEF RowAt, ScanAt, Rows
      <4>2. slot \in U32
        BY <2>1 DEF Row
      <4> QED BY <2>4, <3>1, <4>1, <4>2 DEF Sites, Site
    <3>3. Cardinality(Sites(id)) >= 2
      <4> DEFINE One == {slot}
                 Two == One \cup {i}
      <4>1. Cardinality(Two) = 2
        <5>1. IsFiniteSet(One) /\ Cardinality(One) = 1 /\ i \notin One
          BY <3>2, FS_Singleton
        <5> HIDE DEF One
        <5>2. Cardinality(Two) = Cardinality(One) + 1
          BY <5>1, FS_AddElement
        <5> QED BY <5>1, <5>2
      <4>2. Two \in SUBSET Sites(id)
        BY <3>2
      <4> HIDE DEF Two
      <4>3. Cardinality(Two) <= Cardinality(Sites(id)) /\ Cardinality(Sites(id)) \in Nat
        BY <4>2, SitesFinite, FS_Subset
      <4> QED BY <4>1, <4>3
    <3>4. /\ Cardinality(Sites(id)) <= 1 + lostSends[id]
          /\ Cardinality(Sites(id)) \in Nat /\ lostSends[id] \in Nat
      BY <1>1, SitesFinite DEF CopiesInv, TypeInv, ClientTypes, ClientsTypeOK
    <3> QED BY <2>4, <3>3, <3>4
  <2> QED BY <2>3, <2>4
<1>2. [][Kept]_vars => SyncKeepsLive
  BY DEF SyncKeepsLive
<1> HIDE DEF Kept
<1>3. TypeInv /\ SyncInv /\ CopiesInv /\ [ClientsNext]_vars => [Kept]_vars
  BY <1>1
<1> QED BY <1>2, <1>3, SyncInvariance, CopiesInvariance, PTL DEF ClientsSpec

=============================================================================
