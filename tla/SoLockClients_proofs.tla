----------------------- MODULE SoLockClients_proofs -----------------------
(***************************************************************************)
(* Proofs about the clients of a vault, for every number of processes,     *)
(* devices, entries and slots.                                             *)
(***************************************************************************)
EXTENDS SoLockClients, SoLockProgram_proofs

\* The use cases that send a transaction about an entry.
Writing == {"add", "update", "delete"}

(* What the type invariant rests on: only a writing use case submits,      *)
(* every one that touches a row knows the entry's id, and only an add or   *)
(* an update counts attempts, an update one of them.                       *)
OpShape(o) ==
  /\ o.kind \in Writing => o.id \in Ids
  /\ o.pc \in {"submit", "sent", "save", "localSave", "mark", "drop"} => o.kind \in Writing
  /\ o.pc = "markRow" => o.id \in Ids
  /\ o.kind = "update" => o.attempt <= 1
  /\ o.kind \notin {"add", "update"} => o.attempt = 0

(* Every account holds what some client encrypted.                         *)
HoldsPayloads(accounts) ==
  \A i \in U32 : accounts[i] # NoAccount => accounts[i].encrypted_data \in Payload

ClientTypes ==
  /\ ClientsTypeOK
  /\ \A p \in Procs : OpShape(op[p])
  /\ HoldsPayloads(entries)
  /\ HoldsPayloads(finalEntries)

TypeInv == TypeOK /\ ClientTypes

\* The part of the types that the statements on a row are about.
RowTypes ==
  /\ rows \in [Devices -> [Ids -> Row \cup {NoRow}]]
  /\ listed \in [Devices -> SUBSET Listed]
  /\ overtaken \in [Procs -> SUBSET Ids]

-----------------------------------------------------------------------------
(* The clients against the program *)

(* The content of an entry that is being written is a payload.             *)
LEMMA TxTyped ==
  ASSUME TypeInv, NEW p \in Procs, op[p].pc \in {"submit", "sent"}
  PROVE  TxOf(p) \in TxType
<1>1. op[p] \in OpType /\ op[p].kind \in Writing /\ op[p].id \in Ids
  BY DEF TypeInv, ClientTypes, ClientsTypeOK, OpShape
<1> QED BY <1>1 DEF OpType, TxType, TxOf, Content, Payload, Writing

(* A transaction is an instruction of the program.                         *)
LEMMA ExecuteIsInstruction ==
  ASSUME NEW tx \in TxType, Execute(tx)
  PROVE  EntryInstruction
<1>1. tx.slot \in U32 /\ tx.data \in Data /\ tx.expected \in Time
  BY ClientsAssumption DEF TxType
<1> QED BY <1>1, Zenon DEF Execute, EntryInstruction

(* The only steps that touch the accounts or the clock.                    *)
OnChain ==
  \/ OwnerInstruction \/ Second
  \/ \E tx \in late : LateLand(tx)
  \/ \E p \in Procs : Land(p)

(* Every other step leaves them alone.                                     *)
LEMMA OffChain ==
  ASSUME [ClientsNext]_vars, ~OnChain
  PROVE  UNCHANGED programVars
<1>1. CASE Finalize
  BY <1>1 DEF Finalize
<1>2. ASSUME NEW tx \in late, LateDrop(tx)
      PROVE  UNCHANGED programVars
  BY <1>2 DEF LateDrop
<1>3. ASSUME NEW p \in Procs, Start(p)
      PROVE  UNCHANGED programVars
  BY <1>3 DEF Start, StartAdd, StartUpdate, StartDelete, StartSync, StartClear
<1>4. ASSUME NEW p \in Procs, GiveUp(p)
      PROVE  UNCHANGED programVars
  BY <1>4 DEF GiveUp
<1>5. ASSUME NEW p \in Procs, Work(p)
      PROVE  UNCHANGED programVars
  <2>1. ASSUME Send(p)
        PROVE  UNCHANGED programVars
    BY <2>1 DEF OnChain, Send, Submit, PreflightReject, Reject, SendLost
  <2>2. ASSUME AddStep(p)
        PROVE  UNCHANGED programVars
    BY <2>2 DEF AddStep, AddReadMeta, AddOffline, AddRetry, AddLocalGet, AddLocalSet
  <2>3. ASSUME ReadEntry(p) \/ ReadMissing(p) \/ RowStep(p)
        PROVE  UNCHANGED programVars
    BY <2>3 DEF ReadEntry, ReadMissing, RowStep, SaveRow, MarkRow, DropRow
  <2>4. ASSUME SyncStep(p)
        PROVE  UNCHANGED programVars
    BY <2>4 DEF SyncStep, SyncReadMeta, SyncFetch, SyncSave, SyncMark, SyncList,
                SyncDelete, SyncFinish
  <2>5. ASSUME ClearEntries(p) \/ ClearState(p)
        PROVE  UNCHANGED programVars
    BY <2>5 DEF ClearEntries, ClearState
  <2> QED BY <1>5, <2>1, <2>2, <2>3, <2>4, <2>5 DEF Work
<1>6. CASE UNCHANGED vars
  BY <1>6 DEF vars
<1> QED BY <1>1, <1>2, <1>3, <1>4, <1>5, <1>6 DEF ClientsNext, Chain, OnChain

(* ... and only a transaction records a write.                             *)
LEMMA WriteFrame ==
  ASSUME [ClientsNext]_vars, ~OnChain
  PROVE  UNCHANGED <<stored, lastWrite>>
<1> USE DEF historyVars
<1>1. CASE Finalize
  BY <1>1 DEF Finalize
<1>2. ASSUME NEW tx \in late, LateDrop(tx)
      PROVE  UNCHANGED <<stored, lastWrite>>
  BY <1>2 DEF LateDrop
<1>3. ASSUME NEW p \in Procs, Start(p)
      PROVE  UNCHANGED <<stored, lastWrite>>
  BY <1>3 DEF Start, StartAdd, StartUpdate, StartDelete, StartSync, StartClear
<1>4. ASSUME NEW p \in Procs, GiveUp(p)
      PROVE  UNCHANGED <<stored, lastWrite>>
  BY <1>4 DEF GiveUp
<1>5. ASSUME NEW p \in Procs, Work(p)
      PROVE  UNCHANGED <<stored, lastWrite>>
  <2>1. CASE Send(p)
    BY <2>1 DEF OnChain, Send, Submit, PreflightReject, Reject, SendLost
  <2>2. CASE AddStep(p)
    BY <2>2 DEF AddStep, AddReadMeta, AddOffline, AddRetry, AddLocalGet, AddLocalSet
  <2>3. CASE ReadEntry(p) \/ ReadMissing(p) \/ RowStep(p)
    BY <2>3 DEF ReadEntry, ReadMissing, RowStep, SaveRow, MarkRow, DropRow
  <2>4. CASE SyncStep(p)
    BY <2>4 DEF SyncStep, SyncReadMeta, SyncFetch, SyncSave, SyncMark, SyncList,
                SyncDelete, SyncFinish
  <2>5. CASE ClearEntries(p) \/ ClearState(p)
    BY <2>5 DEF ClearEntries, ClearState
  <2> QED BY <1>5, <2>1, <2>2, <2>3, <2>4, <2>5 DEF Work
<1>6. CASE UNCHANGED vars
  BY <1>6 DEF vars
<1> QED BY <1>1, <1>2, <1>3, <1>4, <1>5, <1>6 DEF ClientsNext, Chain, OnChain

(* A transaction that lands has the type of a transaction.                 *)
LEMMA Landing ==
  ASSUME TypeInv
  PROVE  /\ \A tx \in late : LateLand(tx) => tx \in TxType /\ Execute(tx)
         /\ \A p \in Procs : Land(p) => TxOf(p) \in TxType /\ Execute(TxOf(p))
BY TxTyped DEF LateLand, Land, TypeInv, ClientTypes, ClientsTypeOK

(* Every step of the clients and of the chain is a step of the program or  *)
(* leaves its accounts alone.                                              *)
LEMMA StepOfProgram ==
  ASSUME TypeInv, [ClientsNext]_vars
  PROVE  [Next]_programVars
<1>1. CASE OwnerInstruction
  BY <1>1 DEF OwnerInstruction, Next
<1>2. CASE Second
  BY <1>2 DEF Second, Next
<1>3. ASSUME NEW tx \in late, LateLand(tx)
      PROVE  Next
  BY <1>3, Landing, ExecuteIsInstruction DEF Next
<1>4. ASSUME NEW p \in Procs, Land(p)
      PROVE  Next
  BY <1>4, Landing, ExecuteIsInstruction DEF Next
<1> QED BY <1>1, <1>2, <1>3, <1>4, OffChain DEF OnChain

-----------------------------------------------------------------------------
(* Types *)

(* Helpers: the slot that is allocated and the sum of two u32.             *)
LEMMA AllocateSlotType ==
  ASSUME NEW meta \in VaultMeta
  PROVE  AllocateSlot(meta) \in U32
<1>1. meta.free_slots \in Seq(U32) /\ meta.next_index \in U32
  BY DEF VaultMeta
<1>2. meta.free_slots # <<>> => Head(meta.free_slots) \in U32
  BY <1>1
<1> QED BY <1>1, <1>2 DEF AllocateSlot

(* The sum of two u32 wraps into the range of a u32.                       *)
LEMMA U32SumType ==
  ASSUME NEW n \in U32, NEW k \in 0 .. U32Max
  PROVE  U32Sum(n, k) \in U32
BY ProgramAssumption DEF U32Sum, U32

(* One process moves on: the types of all of them survive if its own does. *)
LEMMA OpMoves ==
  ASSUME TypeInv, NEW p \in Procs, NEW o \in OpType, OpShape(o),
         op' = [op EXCEPT ![p] = o]
  PROVE  /\ op' \in [Procs -> OpType]
         /\ \A q \in Procs : OpShape(op[q])'
BY DEF TypeInv, ClientTypes, ClientsTypeOK, OpShape

(* A process only changes its place in the use case.                       *)
LEMMA GotoMoves ==
  ASSUME TypeInv, NEW p \in Procs, NEW pc \in Steps, Goto(p, pc),
         pc \in {"submit", "sent", "save", "localSave", "mark", "drop"} =>
           op[p].kind \in Writing,
         pc # "markRow"
  PROVE  /\ op' \in [Procs -> OpType]
         /\ \A q \in Procs : OpShape(op[q])'
<1> DEFINE o == [op[p] EXCEPT !.pc = pc]
<1>1. op[p] \in OpType /\ OpShape(op[p])
  BY DEF TypeInv, ClientTypes, ClientsTypeOK
<1>2. o \in OpType /\ OpShape(o)
  BY <1>1 DEF OpType, OpShape
<1>3. op' = [op EXCEPT ![p] = o]
  BY DEF Goto
<1> QED BY <1>2, <1>3, OpMoves

(* A process that runs nothing, and a sync that has read nothing, are      *)
(* typed.                                                                  *)
LEMMA IdleType ==
  /\ IdleOp \in OpType /\ OpShape(IdleOp)
  /\ IdleScan \in ScanType
<1>1. 0 \in U32 /\ 0 \in Time /\ 0 \in Versions
  BY ProgramAssumption, ClientsAssumption DEF U32, Time, Versions
<1> QED BY <1>1 DEF IdleOp, OpType, OpShape, Steps, IdleScan, ScanType, Writing

(* A use case ends.                                                        *)
LEMMA FinishMoves ==
  ASSUME TypeInv, NEW p \in Procs, Finish(p)
  PROVE  /\ op' \in [Procs -> OpType]
         /\ \A q \in Procs : OpShape(op[q])'
BY IdleType, OpMoves DEF Finish

(* An instruction on a transaction keeps every account a payload.          *)
LEMMA ExecuteType ==
  ASSUME TypeInv, NEW tx \in TxType, Execute(tx)
  PROVE  /\ HoldsPayloads(entries)'
         /\ stored' \subseteq Payload
         /\ lastWrite' \in Time
<1>1. tx.data \in Payload /\ tx.slot \in U32
  BY DEF TxType
<1>2. /\ entries \in [U32 -> EntryAccount \cup {NoAccount}]
      /\ clock \in Time /\ lastWrite \in Time /\ stored \subseteq Payload
  BY DEF TypeInv, TypeOK, ClientTypes, ClientsTypeOK
<1>3. stored' \subseteq Payload /\ lastWrite' \in Time
  BY <1>1, <1>2 DEF Execute
<1>4. HoldsPayloads(entries)
  BY DEF TypeInv, ClientTypes
<1>5. CASE AddEntry(tx.slot, tx.data)
  BY <1>1, <1>2, <1>3, <1>4, <1>5 DEF HoldsPayloads, AddEntry
<1>6. CASE UpdateEntry(tx.slot, tx.data, tx.expected)
  BY <1>1, <1>2, <1>3, <1>4, <1>6
     DEF HoldsPayloads, UpdateEntry, UpdateEntryOk, EntryAccount
<1>7. CASE DeleteEntry(tx.slot)
  BY <1>1, <1>2, <1>3, <1>4, <1>7 DEF HoldsPayloads, DeleteEntry
<1> QED BY <1>5, <1>6, <1>7, Zenon DEF Execute

(* The steps that send a transaction.                                      *)
LEMMA SendTyped ==
  ASSUME TypeInv, NEW p \in Procs, Send(p)
  PROVE  /\ op' \in [Procs -> OpType]
         /\ \A q \in Procs : OpShape(op[q])'
         /\ late' \subseteq TxType
         /\ lostSends' \in [Ids -> Nat]
<1>1. op[p] \in OpType /\ OpShape(op[p]) /\ late \subseteq TxType
      /\ lostSends \in [Ids -> Nat]
  BY DEF TypeInv, ClientTypes, ClientsTypeOK
<1>2. CASE Submit(p)
  BY <1>1, <1>2, GotoMoves DEF Submit, Steps, OpShape, historyVars
<1>3. CASE PreflightReject(p)
  <2>1. CASE Goto(p, "retry")
    BY <1>1, <1>3, <2>1, GotoMoves DEF PreflightReject, Steps, historyVars
  <2>2. CASE Finish(p)
    BY <1>1, <1>3, <2>2, FinishMoves DEF PreflightReject, historyVars
  <2>3. CASE /\ Conflict(TxOf(p))
             /\ op[p].attempt + 1 < Attempts("update")
             /\ op' = [op EXCEPT ![p].pc = "get", ![p].attempt = @ + 1]
    <3> DEFINE o == [op[p] EXCEPT !.pc = "get", !.attempt = @ + 1]
    <3>1. /\ op[p].attempt \in 0 .. 2 /\ op[p].attempt + 1 \in 0 .. 2
          /\ op[p].attempt + 1 <= 1 /\ op[p].kind = "update"
      BY <1>1, <2>3 DEF OpType, Attempts, Conflict, TxOf
    <3>2. o \in OpType
      BY <1>1, <3>1 DEF OpType, Steps
    <3>3. o.kind = "update" /\ o.id \in Ids /\ o.attempt <= 1 /\ o.pc = "get"
      BY <1>1, <3>1 DEF OpType, OpShape, Writing
    <3>4. OpShape(o)
      BY <3>3 DEF OpShape
    <3>5. op' = [op EXCEPT ![p] = o]
      BY <2>3
    <3> QED BY <1>1, <1>3, <3>2, <3>4, <3>5, OpMoves DEF PreflightReject, historyVars
  <2> QED BY <1>3, <2>1, <2>2, <2>3 DEF PreflightReject
<1>4. CASE Land(p)
  BY <1>1, <1>4, GotoMoves DEF Land, Steps, OpShape, historyVars
<1>5. CASE Reject(p)
  BY <1>1, <1>5, GotoMoves, FinishMoves DEF Reject, Steps, historyVars
<1>6. CASE SendLost(p)
  <2>1. TxOf(p) \in TxType /\ op[p].id \in Ids
    BY <1>1, <1>6, TxTyped DEF SendLost, At, OpShape, Writing
  <2>2. op' \in [Procs -> OpType] /\ \A q \in Procs : OpShape(op[q])'
    BY <1>6, GotoMoves DEF SendLost, Steps
  <2> QED BY <1>1, <1>6, <2>1, <2>2 DEF SendLost
<1> QED BY <1>2, <1>3, <1>4, <1>5, <1>6 DEF Send

(* What a terminal may have listed keeps its type.                         *)
LEMMA RememberType ==
  ASSUME TypeInv, NEW p, NEW row \in Listed, Remember(p, row)
  PROVE  listed' \in [Devices -> SUBSET Listed]
BY DEF TypeInv, ClientTypes, ClientsTypeOK, Remember

(* A use case is started on an entry with an id, a slot and a version.     *)
LEMMA OfferedType ==
  ASSUME TypeInv, NEW p \in Procs
  PROVE  Offered(p) \subseteq Listed
<1>1. /\ DeviceOf[p] \in Devices
      /\ listed[DeviceOf[p]] \subseteq Listed
      /\ Rows(p) \in [Ids -> Row \cup {NoRow}]
  BY ClientsAssumption DEF TypeInv, ClientTypes, ClientsTypeOK, Rows
<1>2. ASSUME NEW id \in Ids, Rows(p)[id] # NoRow
      PROVE  [id |-> id, slot |-> Rows(p)[id].slot, ver |-> Rows(p)[id].ver] \in Listed
  <2>1. Rows(p)[id] \in Row
    BY <1>1, <1>2
  <2> QED BY <2>1 DEF Row, Listed
<1> QED BY <1>1, <1>2 DEF Offered

(* A use case starts.                                                      *)
LEMMA StartTyped ==
  ASSUME TypeInv, NEW p \in Procs, Start(p)
  PROVE  ClientTypes'
<1> DEFINE Moved == op' \in [Procs -> OpType] /\ \A q \in Procs : OpShape(op[q])'
<1>1. /\ IdleOp \in OpType /\ IdleOp.attempt = 0
      /\ listed \in [Devices -> SUBSET Listed]
      /\ authors \in Seq(Procs) /\ created \subseteq Ids
  BY IdleType DEF TypeInv, ClientTypes, ClientsTypeOK, IdleOp
<1>2. ASSUME NEW id \in Ids, StartAdd(p, id)
      PROVE  Moved /\ created' \subseteq Ids /\ authors' \in Seq(Procs)
  <2> DEFINE o == [IdleOp EXCEPT !.pc = "meta", !.kind = "add", !.id = id]
  <2>1. o \in OpType
    BY <1>1 DEF OpType, Steps, Kinds
  <2>2. OpShape(o)
    BY <1>1 DEF OpType, OpShape
  <2> QED BY <1>1, <1>2, <2>1, <2>2, OpMoves DEF StartAdd, Begin
<1>3. ASSUME NEW entry \in Listed, StartUpdate(p, entry)
      PROVE  /\ Moved /\ created' \subseteq Ids /\ authors' \in Seq(Procs)
             /\ listed' \in [Devices -> SUBSET Listed]
  <2> DEFINE o == [IdleOp EXCEPT
                     !.pc = "get", !.kind = "update", !.id = entry.id,
                     !.slot = entry.slot, !.base = entry.ver,
                     !.ver = Len(authors) + 1]
  <2>1. entry.id \in Ids /\ entry.slot \in U32 /\ entry.ver \in Versions
    BY DEF Listed
  <2>2. Len(authors) + 1 \in Versions
    BY <1>1, <1>3, ClientsAssumption DEF StartUpdate, Versions
  <2>3. o \in OpType
    BY <1>1, <2>1, <2>2 DEF OpType, Steps, Kinds
  <2>4. Moved
    <3>1. OpShape(o)
      BY <1>1, <2>1 DEF OpType, OpShape
    <3> QED BY <1>3, <2>3, <3>1, OpMoves DEF StartUpdate, Begin
  <2>5. authors' \in Seq(Procs) /\ UNCHANGED created
    BY <1>1, <1>3 DEF StartUpdate
  <2>6. [entry EXCEPT !.ver = Len(authors) + 1] \in Listed
    BY <2>2 DEF Listed
  <2>7. listed' \in [Devices -> SUBSET Listed]
    BY <1>1, <1>3, <2>6, RememberType DEF StartUpdate
  <2> QED BY <1>1, <2>4, <2>5, <2>7
<1>4. ASSUME NEW entry \in Listed, StartDelete(p, entry)
      PROVE  Moved
  <2> DEFINE o == [IdleOp EXCEPT !.pc = "get", !.kind = "delete", !.id = entry.id,
                                 !.slot = entry.slot]
  <2>1. entry.id \in Ids /\ entry.slot \in U32
    BY DEF Listed
  <2>2. o \in OpType
    BY <1>1, <2>1 DEF OpType, Steps, Kinds
  <2>3. OpShape(o)
    BY <1>1, <2>1 DEF OpType, OpShape
  <2> QED BY <1>4, <2>2, <2>3, OpMoves DEF StartDelete, Begin
<1>5. CASE StartSync(p)
  <2> DEFINE o == [IdleOp EXCEPT !.pc = "meta", !.kind = "sync"]
  <2>1. o \in OpType /\ OpShape(o)
    BY <1>1 DEF OpType, OpShape, Steps, Kinds, Writing
  <2>2. Moved
    BY <1>5, <2>1, OpMoves DEF StartSync, Begin
  <2> QED BY <1>5, <2>2
          DEF StartSync, TypeInv, ClientTypes, ClientsTypeOK, HoldsPayloads,
              programVars, finalVars, localVars, rowVars, historyVars
<1>6. CASE StartClear(p)
  <2> DEFINE o == [IdleOp EXCEPT !.pc = "entries", !.kind = "clear"]
  <2>1. o \in OpType /\ OpShape(o)
    BY <1>1 DEF OpType, OpShape, Steps, Kinds, Writing
  <2>2. Moved
    BY <1>6, <2>1, OpMoves DEF StartClear, Begin
  <2> QED BY <1>6, <2>2
          DEF StartClear, TypeInv, ClientTypes, ClientsTypeOK, HoldsPayloads,
              programVars, finalVars, localVars, rowVars, historyVars
<1>7. ASSUME NEW id \in Ids, StartAdd(p, id)
      PROVE  ClientTypes'
  BY <1>2, <1>7
     DEF StartAdd, TypeInv, ClientTypes, ClientsTypeOK,
         HoldsPayloads, programVars, finalVars, localVars, rowVars, historyVars
<1>8. ASSUME NEW entry \in Offered(p), StartUpdate(p, entry) \/ StartDelete(p, entry)
      PROVE  ClientTypes'
  <2>1. entry \in Listed
    BY OfferedType
  <2> QED BY <1>3, <1>4, <1>8, <2>1
          DEF StartUpdate, StartDelete, TypeInv, ClientTypes, ClientsTypeOK,
              HoldsPayloads, programVars, finalVars, localVars, rowVars, historyVars
<1> QED BY <1>5, <1>6, <1>7, <1>8 DEF Start

(* The steps of an add that do not send.                                   *)
LEMMA AddTyped ==
  ASSUME TypeInv, NEW p \in Procs, AddStep(p)
  PROVE  /\ op' \in [Procs -> OpType] /\ \A q \in Procs : OpShape(op[q])'
         /\ syncState' \in [Devices -> U32]
         /\ UNCHANGED <<programVars, finalVars, rowVars, scan, late, historyVars>>
<1>1. /\ op[p] \in OpType /\ OpShape(op[p])
      /\ syncState \in [Devices -> U32] /\ State(p) \in U32
      /\ AllocateSlot(finalVault) \in U32
  BY AllocateSlotType, ClientsAssumption
     DEF TypeInv, ClientTypes, ClientsTypeOK, State
<1>2. CASE AddReadMeta(p)
  <2> DEFINE o == [op[p] EXCEPT !.pc = "submit", !.slot = AllocateSlot(finalVault)]
  <2>1. o \in OpType /\ OpShape(o)
    BY <1>1, <1>2 DEF AddReadMeta, At, OpType, OpShape, Steps, Writing
  <2>2. op' = [op EXCEPT ![p] = o]
    BY <1>2 DEF AddReadMeta
  <2> QED BY <1>1, <1>2, <2>1, <2>2, OpMoves DEF AddReadMeta, localVars
<1>3. CASE AddOffline(p)
  BY <1>1, <1>3, GotoMoves DEF AddOffline, Steps, localVars
<1>4. CASE AddLocalGet(p)
  <2> DEFINE o == [op[p] EXCEPT !.pc = "localSet", !.slot = State(p)]
  <2>1. o \in OpType /\ OpShape(o)
    BY <1>1 DEF OpType, OpShape, Steps
  <2>2. op' = [op EXCEPT ![p] = o]
    BY <1>4 DEF AddLocalGet
  <2> QED BY <1>1, <1>4, <2>1, <2>2, OpMoves DEF AddLocalGet, localVars
<1>5. CASE AddLocalSet(p)
  <2>1. U32Sum(op[p].slot, 1) \in U32
    BY <1>1, U32SumType, ProgramAssumption DEF OpType
  <2>2. op' \in [Procs -> OpType] /\ \A q \in Procs : OpShape(op[q])'
    BY <1>1, <1>5, GotoMoves DEF AddLocalSet, At, Steps, Writing
  <2> QED BY <1>1, <1>5, <2>1, <2>2 DEF AddLocalSet
<1>6. CASE AddRetry(p)
  <2>1. CASE Finish(p)
    BY <1>1, <1>6, <2>1, FinishMoves DEF AddRetry, localVars
  <2>2. CASE ~Finish(p)
    <3> DEFINE o == [op[p] EXCEPT !.pc = "submit", !.attempt = @ + 1,
                                  !.slot = AllocateSlot(finalVault)]
    <3>1. op[p].attempt \in 0 .. 2 /\ op[p].attempt + 1 \in 0 .. 2
      BY <1>1, <1>6, <2>2 DEF AddRetry, OpType, Attempts
    <3>2. o \in OpType /\ OpShape(o)
      BY <1>1, <1>6, <3>1 DEF AddRetry, At, OpType, OpShape, Steps, Writing
    <3>3. op' = [op EXCEPT ![p] = o]
      BY <1>6, <2>2 DEF AddRetry
    <3> QED BY <1>1, <1>6, <3>2, <3>3, OpMoves DEF AddRetry, localVars
  <2> QED BY <2>1, <2>2
<1> QED BY <1>2, <1>3, <1>4, <1>5, <1>6 DEF AddStep

(* The read of an account that an update or a delete begins with.          *)
LEMMA ReadTyped ==
  ASSUME TypeInv, NEW p \in Procs, ReadEntry(p) \/ ReadMissing(p)
  PROVE  op' \in [Procs -> OpType] /\ \A q \in Procs : OpShape(op[q])'
<1>1. /\ op[p] \in OpType /\ OpShape(op[p])
      /\ finalEntries \in [U32 -> EntryAccount \cup {NoAccount}]
      /\ HoldsPayloads(finalEntries)
  BY DEF TypeInv, ClientTypes, ClientsTypeOK
<1>2. CASE ReadEntry(p)
  <2> DEFINE account == finalEntries[op[p].slot]
             o == [op[p] EXCEPT !.pc = "submit", !.expected = account.updated_at,
                                !.read = account.encrypted_data]
  <2>1. account.updated_at \in Time /\ account.encrypted_data \in Payload
    BY <1>1, <1>2 DEF ReadEntry, OpType, HoldsPayloads, EntryAccount
  <2>2. o \in OpType /\ OpShape(o)
    BY <1>1, <1>2, <2>1 DEF ReadEntry, OpType, OpShape, Steps, Writing
  <2>3. op' = [op EXCEPT ![p] = o]
    BY <1>2 DEF ReadEntry
  <2> QED BY <2>2, <2>3, OpMoves
<1>3. CASE ReadMissing(p)
  BY <1>1, <1>3, GotoMoves DEF ReadMissing, Steps, Writing
<1> QED BY <1>2, <1>3

(* The history of what the use cases of a device write keeps its type.     *)
LEMMA OvertakeType ==
  ASSUME TypeInv, NEW p, NEW ids \in SUBSET Ids
  PROVE  Overtake(p, ids) \in [Procs -> SUBSET Ids]
BY DEF TypeInv, ClientTypes, ClientsTypeOK, Overtake

(* What the three statements on a row do to the table.                     *)
LEMMA RowStatements ==
  ASSUME TypeInv, NEW p \in Procs, NEW id \in Ids
  PROVE  /\ \A slot \in U32, ver \in Versions : Save(p, id, slot, ver) => RowTypes'
         /\ MarkSynced(p, id) => RowTypes'
         /\ \A ids \in SUBSET Ids : DeleteRows(p, ids) => RowTypes'
<1>1. /\ rows \in [Devices -> [Ids -> Row \cup {NoRow}]]
      /\ listed \in [Devices -> SUBSET Listed]
      /\ overtaken \in [Procs -> SUBSET Ids]
      /\ DeviceOf[p] \in Devices
  BY ClientsAssumption DEF TypeInv, ClientTypes, ClientsTypeOK
<1>2. ASSUME NEW slot \in U32, NEW ver \in Versions, Save(p, id, slot, ver)
      PROVE  RowTypes'
  <2>1. rows' \in [Devices -> [Ids -> Row \cup {NoRow}]]
    BY <1>1, <1>2 DEF Save, Row
  <2>2. [id |-> id, slot |-> slot, ver |-> ver] \in Listed
    BY DEF Listed
  <2>3. listed' \in [Devices -> SUBSET Listed]
    BY <1>2, <2>2, RememberType DEF Save
  <2>4. overtaken' \in [Procs -> SUBSET Ids]
    <3>1. Overtake(p, {id}) \in [Procs -> SUBSET Ids]
      BY OvertakeType
    <3> QED BY <1>2, <3>1 DEF Save
  <2> QED BY <2>1, <2>3, <2>4 DEF RowTypes
<1>3. ASSUME MarkSynced(p, id)
      PROVE  RowTypes'
  <2> DEFINE d   == DeviceOf[p]
             row == IF rows[d][id] = NoRow THEN NoRow
                    ELSE [rows[d][id] EXCEPT !.synced = TRUE]
  <2>1. row \in Row \cup {NoRow}
    <3>1. rows[d][id] \in Row \cup {NoRow}
      BY <1>1
    <3>2. CASE rows[d][id] = NoRow
      BY <3>2
    <3>3. CASE rows[d][id] # NoRow
      BY <3>1, <3>3 DEF Row
    <3> QED BY <3>2, <3>3
  <2>2. rows' = [rows EXCEPT ![d][id] = row] /\ UNCHANGED <<listed, overtaken>>
    BY <1>3 DEF MarkSynced
  <2> HIDE DEF row
  <2> QED BY <1>1, <2>1, <2>2 DEF RowTypes
<1>4. ASSUME NEW ids \in SUBSET Ids, DeleteRows(p, ids)
      PROVE  RowTypes'
  <2>1. rows' \in [Devices -> [Ids -> Row \cup {NoRow}]]
    BY <1>1, <1>4 DEF DeleteRows, Rows
  <2> QED BY <1>1, <1>4, <2>1, OvertakeType DEF DeleteRows, RowTypes
<1> QED BY <1>2, <1>3, <1>4

(* The database after the chain.                                           *)
LEMMA RowTyped ==
  ASSUME TypeInv, NEW p \in Procs, RowStep(p)
  PROVE  /\ op' \in [Procs -> OpType] /\ \A q \in Procs : OpShape(op[q])'
         /\ RowTypes'
<1>1. op[p] \in OpType /\ OpShape(op[p])
  BY DEF TypeInv, ClientTypes, ClientsTypeOK
<1>2. op[p].id \in Ids /\ op[p].kind \in Writing
  BY <1>1 DEF RowStep, SaveRow, MarkRow, DropRow, OpShape
<1>3. CASE SaveRow(p)
  BY <1>1, <1>2, <1>3, RowStatements, GotoMoves, FinishMoves
     DEF SaveRow, OpType, Steps
<1>4. CASE MarkRow(p)
  BY <1>2, <1>4, RowStatements, FinishMoves DEF MarkRow
<1>5. CASE DropRow(p)
  BY <1>2, <1>5, RowStatements, FinishMoves DEF DropRow
<1> QED BY <1>3, <1>4, <1>5 DEF RowStep

(* What a sync reads from the finalized accounts.                          *)
LEMMA FinalTyped ==
  ASSUME TypeInv
  PROVE  /\ FinalLive \subseteq U32
         /\ FinalHolders \subseteq U32 \X Ids
         /\ FinalContent \subseteq SlotContent
         /\ \A I \in SUBSET FinalLive :
              {<<i, finalEntries[i].encrypted_data>> : i \in I} \subseteq SlotContent
<1>1. /\ finalEntries \in [U32 -> EntryAccount \cup {NoAccount}]
      /\ HoldsPayloads(finalEntries)
  BY DEF TypeInv, ClientTypes, ClientsTypeOK
<1>2. \A i \in FinalLive : /\ finalEntries[i].encrypted_data \in Payload
                           /\ finalEntries[i].encrypted_data.id \in Ids
  BY <1>1 DEF FinalLive, HoldsPayloads, Payload
<1> QED BY <1>2 DEF FinalLive, FinalHolders, FinalContent, SlotContent

(* The steps of a sync.                                                    *)
LEMMA SyncTyped ==
  ASSUME TypeInv, NEW p \in Procs, SyncStep(p)
  PROVE  /\ op' \in [Procs -> OpType] /\ \A q \in Procs : OpShape(op[q])'
         /\ scan' \in [Procs -> ScanType]
         /\ RowTypes'
         /\ syncState' \in [Devices -> U32]
<1> DEFINE OpOk  == op' \in [Procs -> OpType] /\ \A q \in Procs : OpShape(op[q])'
<1>1. /\ op \in [Procs -> OpType] /\ \A q \in Procs : OpShape(op[q])
      /\ scan \in [Procs -> ScanType]
      /\ RowTypes
      /\ syncState \in [Devices -> U32] /\ finalVault \in VaultMeta
  BY DEF TypeInv, ClientTypes, ClientsTypeOK, RowTypes
<1>2. op[p] \in OpType /\ OpShape(op[p]) /\ scan[p] \in ScanType
  BY <1>1
<1>3. ASSUME NEW s \in ScanType, scan' = [scan EXCEPT ![p] = s]
      PROVE  scan' \in [Procs -> ScanType]
  BY <1>1, <1>3
<1>4. /\ UNCHANGED op => OpOk
      /\ UNCHANGED rowVars => RowTypes'
  BY <1>1 DEF rowVars, RowTypes
<1>5. CASE SyncReadMeta(p)
  <2> DEFINE s == [IdleScan EXCEPT !.next = finalVault.next_index,
                                   !.occupied = FinalLive, !.steady = FinalHolders,
                                   !.seen = FinalContent]
  <2>1. s \in ScanType
    BY <1>1, IdleType, FinalTyped DEF ScanType, VaultMeta
  <2>2. scan' = [scan EXCEPT ![p] = s]
    BY <1>5 DEF SyncReadMeta
  <2>3. OpOk
    BY <1>5, GotoMoves DEF SyncReadMeta, Steps
  <2>4. RowTypes'
    BY <1>1, <1>5 DEF SyncReadMeta, RowTypes
  <2> QED BY <1>1, <1>3, <1>5, <2>1, <2>2, <2>3, <2>4 DEF SyncReadMeta
<1>6. CASE SyncFetch(p)
  <2> DEFINE found == Batch(scan[p].cursor, scan[p].next) \cap FinalLive
             content == {<<i, finalEntries[i].encrypted_data>> : i \in found}
             s == [scan[p] EXCEPT !.cursor = NextCursor(@),
                                  !.remote = @ \cup found, !.fetched = content]
  <2>1. found \subseteq U32 /\ content \subseteq SlotContent
    BY FinalTyped
  <2>2. NextCursor(scan[p].cursor) \in U32
    BY <1>2, U32SumType, ClientsAssumption, ProgramAssumption DEF NextCursor, ScanType
  <2>3. scan' = [scan EXCEPT ![p] = s]
    BY <1>6 DEF SyncFetch
  <2> HIDE DEF found, content
  <2>4. s \in ScanType
    BY <1>2, <2>1, <2>2 DEF ScanType
  <2> QED BY <1>1, <1>3, <1>4, <1>6, <2>3, <2>4 DEF SyncFetch, localVars, rowVars
<1>7. CASE SyncSave(p)
  <2>1. PICK f \in scan[p].fetched :
          /\ Save(p, f[2].id, f[1], f[2].ver)
          /\ op' = [op EXCEPT ![p].pc = "markRow", ![p].id = f[2].id]
          /\ scan' = [scan EXCEPT ![p].fetched = @ \ {f}]
    BY <1>7 DEF SyncSave
  <2>2. f[1] \in U32 /\ f[2].id \in Ids /\ f[2].ver \in Versions
    BY <1>2, <2>1 DEF ScanType, SlotContent, Payload
  <2> DEFINE o == [op[p] EXCEPT !.pc = "markRow", !.id = f[2].id]
             s == [scan[p] EXCEPT !.fetched = @ \ {f}]
  <2>3. RowTypes'
    BY <2>1, <2>2, RowStatements
  <2>4. o \in OpType /\ OpShape(o)
    BY <1>2, <2>2 DEF OpType, OpShape, Steps
  <2>5. OpOk
    <3>1. op' = [op EXCEPT ![p] = o]
      BY <2>1
    <3> QED BY <2>4, <3>1, OpMoves
  <2>6. scan' \in [Procs -> ScanType]
    <3>1. s \in ScanType /\ scan' = [scan EXCEPT ![p] = s]
      BY <1>2, <2>1 DEF ScanType
    <3> QED BY <1>3, <3>1
  <2> QED BY <1>1, <1>7, <2>3, <2>5, <2>6 DEF SyncSave
<1>8. CASE SyncMark(p)
  <2> DEFINE o == [op[p] EXCEPT !.pc = "fetch", !.id = NoRow]
  <2>1. o \in OpType /\ OpShape(o) /\ op[p].id \in Ids
    BY <1>2, <1>8 DEF SyncMark, At, OpType, OpShape, Steps, Writing
  <2>2. op' = [op EXCEPT ![p] = o] /\ MarkSynced(p, op[p].id)
    BY <1>8 DEF SyncMark
  <2> QED BY <1>1, <1>8, <2>1, <2>2, OpMoves, RowStatements DEF SyncMark
<1>9. CASE SyncList(p)
  <2> DEFINE gone == IF scan[p].next > 0 /\ scan[p].remote # {}
                     THEN StaleRows(p) ELSE {}
             s == [scan[p] EXCEPT !.stale = gone]
  <2>1. gone \subseteq Ids \X U32
    BY <1>1, ClientsAssumption DEF StaleRows, Rows, RowTypes, Row
  <2>2. scan' = [scan EXCEPT ![p] = s]
    BY <1>9 DEF SyncList
  <2> HIDE DEF gone
  <2>3. s \in ScanType
    BY <1>2, <2>1 DEF ScanType
  <2>4. OpOk
    BY <1>9, GotoMoves DEF SyncList, Steps
  <2>5. UNCHANGED <<rowVars, syncState>>
    BY <1>9 DEF SyncList, localVars
  <2>6. RowTypes' /\ syncState' \in [Devices -> U32]
    BY <1>1, <1>4, <2>5
  <2> QED BY <1>3, <2>2, <2>3, <2>4, <2>6
<1>10. CASE SyncDelete(p)
  <2>1. PICK row \in scan[p].stale :
          /\ DeleteRows(p, {row[1]})
          /\ scan' = [scan EXCEPT ![p].stale = @ \ {row}]
    BY <1>10 DEF SyncDelete
  <2> DEFINE s == [scan[p] EXCEPT !.stale = @ \ {row}]
  <2>2. s \in ScanType /\ scan' = [scan EXCEPT ![p] = s] /\ row[1] \in Ids
    BY <1>2, <2>1 DEF ScanType
  <2>3. RowTypes'
    BY <2>1, <2>2, RowStatements
  <2> QED BY <1>1, <1>3, <1>4, <1>10, <2>2, <2>3 DEF SyncDelete
<1>11. CASE SyncFinish(p)
  <2>1. scan' = [scan EXCEPT ![p] = IdleScan] /\ scan[p].next \in U32
    BY <1>2, <1>11 DEF SyncFinish, ScanType
  <2>2. OpOk
    BY <1>11, FinishMoves DEF SyncFinish
  <2> QED BY <1>1, <1>3, <1>4, <1>11, <2>1, <2>2, IdleType DEF SyncFinish
<1> QED BY <1>5, <1>6, <1>7, <1>8, <1>9, <1>10, <1>11 DEF SyncStep

(* A use case that stops half-way leaves its transaction behind.           *)
LEMMA GiveUpTyped ==
  ASSUME TypeInv, NEW p \in Procs, GiveUp(p)
  PROVE  /\ op' \in [Procs -> OpType] /\ \A q \in Procs : OpShape(op[q])'
         /\ scan' \in [Procs -> ScanType]
         /\ late' \subseteq TxType
<1>1. op' \in [Procs -> OpType] /\ \A q \in Procs : OpShape(op[q])'
  BY FinishMoves DEF GiveUp
<1>2. scan' \in [Procs -> ScanType]
  BY IdleType DEF GiveUp, TypeInv, ClientTypes, ClientsTypeOK
<1>3. late \subseteq TxType
  BY DEF TypeInv, ClientTypes, ClientsTypeOK
<1>4. Submitted(p) \subseteq TxType
  BY TxTyped DEF Submitted
<1> QED BY <1>1, <1>2, <1>3, <1>4 DEF GiveUp

(* The finalized state catches up.                                         *)
LEMMA FinalizeTyped ==
  ASSUME TypeInv, Finalize
  PROVE  /\ scan' \in [Procs -> ScanType]
         /\ finalExists' \in BOOLEAN /\ finalVault' \in VaultMeta
         /\ finalEntries' \in [U32 -> EntryAccount \cup {NoAccount}]
         /\ HoldsPayloads(finalEntries)'
<1>1. /\ finalExists' \in BOOLEAN /\ finalVault' \in VaultMeta
      /\ finalEntries' \in [U32 -> EntryAccount \cup {NoAccount}]
      /\ HoldsPayloads(finalEntries')
  BY DEF Finalize, TypeInv, TypeOK, ClientTypes
<1>2. FinalContent' \subseteq SlotContent
  BY <1>1 DEF FinalLive, FinalContent, SlotContent, HoldsPayloads
<1>3. ASSUME NEW p \in Procs
      PROVE  [scan[p] EXCEPT !.occupied = @ \cap FinalLive',
                             !.steady = @ \cap FinalHolders',
                             !.seen = @ \cup FinalContent'] \in ScanType
  <2>1. scan[p] \in ScanType
    BY DEF TypeInv, ClientTypes, ClientsTypeOK
  <2> QED BY <1>2, <2>1 DEF ScanType
<1>4. scan \in [Procs -> ScanType]
  BY DEF TypeInv, ClientTypes, ClientsTypeOK
<1> QED BY <1>1, <1>3, <1>4 DEF Finalize, HoldsPayloads

(* The types hold at the start.                                            *)
LEMMA TypeInvInit == ClientsInit => TypeInv
<1> SUFFICES ASSUME ClientsInit
             PROVE  TypeInv
  OBVIOUS
<1>1. TypeOK
  BY TypeInit DEF ClientsInit
<1>2. 0 \in U32 /\ 0 \in Time
  BY ProgramAssumption DEF U32, Time
<1>3. op \in [Procs -> OpType] /\ (\A p \in Procs : OpShape(op[p]))
      /\ scan \in [Procs -> ScanType]
  BY IdleType DEF ClientsInit
<1>4. \A i \in U32 : entries[i] = NoAccount /\ finalEntries[i] = NoAccount
  BY DEF ClientsInit, Init
<1> QED BY <1>1, <1>2, <1>3, <1>4
        DEF ClientsInit, TypeInv, ClientTypes, ClientsTypeOK, TypeOK, HoldsPayloads

(* Every step keeps the types.                                             *)
LEMMA TypeInvStep == TypeInv /\ [ClientsNext]_vars => TypeInv'
<1> SUFFICES ASSUME TypeInv, [ClientsNext]_vars
             PROVE  TypeInv'
  OBVIOUS
<1>1. TypeOK'
  BY StepOfProgram, TypeStep DEF TypeInv
<1> SUFFICES ClientTypes'
  BY <1>1 DEF TypeInv
<1> USE DEF ClientTypes, ClientsTypeOK, HoldsPayloads, programVars, finalVars,
            localVars, rowVars, processVars, historyVars
<1>2. CASE OwnerInstruction
  BY <1>2 DEF OwnerInstruction, TypeInv, VaultInstruction, InitializeVault,
              ResetVault, WipeVault
<1>3. CASE Finalize
  BY <1>3, FinalizeTyped DEF Finalize, TypeInv
<1>4. CASE Second
  BY <1>4 DEF Second, Tick, TypeInv
<1>5. ASSUME NEW tx \in late, LateLand(tx)
      PROVE  ClientTypes'
  <2>1. tx \in TxType
    BY DEF TypeInv
  <2>2. Execute(tx)
    BY <1>5 DEF LateLand
  <2>3. HoldsPayloads(entries)' /\ stored' \subseteq Payload /\ lastWrite' \in Time
    BY <2>1, <2>2, ExecuteType
  <2> QED BY <1>5, <2>3 DEF LateLand, TypeInv
<1>6. ASSUME NEW tx \in late, LateDrop(tx)
      PROVE  ClientTypes'
  BY <1>6 DEF LateDrop, TypeInv
<1>7. ASSUME NEW p \in Procs, Start(p)
      PROVE  ClientTypes'
  BY <1>7, StartTyped
<1>8. ASSUME NEW p \in Procs, GiveUp(p)
      PROVE  ClientTypes'
  BY <1>8, GiveUpTyped DEF GiveUp, TypeInv
<1>9. ASSUME NEW p \in Procs, Work(p)
      PROVE  ClientTypes'
  <2>1. CASE Land(p)
    <3>1. op' \in [Procs -> OpType] /\ \A q \in Procs : OpShape(op[q])'
      BY <2>1, SendTyped DEF Send
    <3>2. TxOf(p) \in TxType /\ Execute(TxOf(p))
      BY <2>1, TxTyped DEF Land
    <3>3. HoldsPayloads(entries)' /\ stored' \subseteq Payload /\ lastWrite' \in Time
      BY <3>2, ExecuteType
    <3> QED BY <2>1, <3>1, <3>3 DEF Land, TypeInv
  <2>2. CASE Send(p) /\ ~Land(p)
    <3>1. /\ op' \in [Procs -> OpType] /\ \A q \in Procs : OpShape(op[q])'
          /\ late' \subseteq TxType /\ lostSends' \in [Ids -> Nat]
      BY <2>2, SendTyped
    <3>2. UNCHANGED <<entries, finalVars, localVars, scan, created, authors, stored,
                      lastWrite>>
      BY <2>2 DEF Send, Submit, PreflightReject, Reject, SendLost
    <3> QED BY <3>1, <3>2 DEF TypeInv
  <2>3. CASE AddStep(p)
    BY <2>3, AddTyped DEF TypeInv
  <2>4. CASE ReadEntry(p) \/ ReadMissing(p)
    BY <2>4, ReadTyped DEF ReadEntry, ReadMissing, TypeInv
  <2>5. CASE RowStep(p)
    BY <2>5, RowTyped DEF RowStep, SaveRow, MarkRow, DropRow, RowTypes, TypeInv
  <2>6. CASE SyncStep(p)
    <3>1. UNCHANGED <<entries, finalVars, late, historyVars>>
      BY <2>6 DEF SyncStep, SyncReadMeta, SyncFetch, SyncSave, SyncMark, SyncList,
                  SyncDelete, SyncFinish
    <3> QED BY <2>6, <3>1, SyncTyped DEF RowTypes, TypeInv
  <2>7. CASE ClearEntries(p)
    <3>1. RowTypes'
      <4>1. rows' \in [Devices -> [Ids -> Row \cup {NoRow}]]
        BY <2>7, ClientsAssumption DEF ClearEntries, DeleteRows, TypeInv
      <4>2. overtaken' = Overtake(p, Ids) /\ UNCHANGED listed
        BY <2>7 DEF ClearEntries, DeleteRows
      <4> QED BY <4>1, <4>2, OvertakeType DEF RowTypes, TypeInv
    <3>2. op' \in [Procs -> OpType] /\ \A q \in Procs : OpShape(op[q])'
      BY <2>7, GotoMoves DEF ClearEntries, Steps
    <3> QED BY <2>7, <3>1, <3>2 DEF ClearEntries, RowTypes, TypeInv
  <2>8. CASE ClearState(p)
    <3>0. 0 \in U32
      BY ProgramAssumption DEF U32
    <3>1. syncState' \in [Devices -> U32]
      BY <2>8, <3>0 DEF ClearState, TypeInv
    <3>2. op' \in [Procs -> OpType] /\ \A q \in Procs : OpShape(op[q])'
      BY <2>8, FinishMoves DEF ClearState
    <3> QED BY <2>8, <3>1, <3>2 DEF ClearState, TypeInv
  <2> QED BY <1>9, <2>1, <2>2, <2>3, <2>4, <2>5, <2>6, <2>7, <2>8 DEF Work
<1>10. CASE UNCHANGED vars
  BY <1>10 DEF vars, TypeInv
<1> QED BY <1>2, <1>3, <1>4, <1>5, <1>6, <1>7, <1>8, <1>9, <1>10
        DEF ClientsNext, Chain

(* The types hold in every state.                                          *)
LEMMA TypeInvariance == ClientsSpec => []TypeInv
BY TypeInvInit, TypeInvStep, PTL DEF ClientsSpec

(* The clients keep their types, whatever they race, retry or abandon: no  *)
(* transaction carries anything but a slot, a payload and a stamp.         *)
THEOREM ClientsTypeCorrect == ClientsSpec => []ClientsTypeOK
BY TypeInvariance, PTL DEF TypeInv, ClientTypes

(* An add is sent three times at most, an update twice, and nothing else   *)
(* is sent again, whatever the chain refuses or loses.                     *)
THEOREM AttemptsBoundedCorrect == ClientsSpec => []AttemptsBounded
<1>1. TypeInv => AttemptsBounded
  <2> SUFFICES ASSUME TypeInv, NEW p \in Procs
               PROVE  /\ op[p].kind = "add" => op[p].attempt <= 2
                      /\ op[p].kind = "update" => op[p].attempt <= 1
                      /\ op[p].kind \notin {"add", "update"} => op[p].attempt = 0
    BY DEF AttemptsBounded
  <2>1. op[p].attempt \in 0 .. 2 /\ OpShape(op[p])
    BY DEF TypeInv, ClientTypes, ClientsTypeOK, OpType
  <2> QED BY <2>1 DEF OpShape
<1> QED BY <1>1, TypeInvariance, PTL

(* The clients, with the deadlines, lost answers and late transactions,    *)
(* are users of the program and nothing else: what is proved of the        *)
(* program holds of the vault they share.                                  *)
THEOREM ClientsUseProgram == ClientsSpec => Spec
<1>1. ClientsInit => Init
  BY DEF ClientsInit
<1> QED BY <1>1, TypeInvariance, StepOfProgram, PTL DEF ClientsSpec, Spec

-----------------------------------------------------------------------------
(* No slot is lost *)

(* Without resets: below next_index every slot is live or free; nobody,    *)
(* not the finalized metadata that adds allocate from, nor a transaction   *)
(* on its way, knows a slot above the confirmed next_index.                *)
BlankBeforeInit == ~vaultExists => vault = EmptyVault /\ LiveEntries = {}
SlotsAccounted  ==
  \A i \in U32 : i < vault.next_index <=> i \in LiveEntries \cup FreeSlots
FinalBehind ==
  /\ finalVault.next_index <= vault.next_index
  /\ \A i \in ToSet(finalVault.free_slots) : i < finalVault.next_index
AddsBounded ==
  /\ \A p \in Procs : op[p].kind = "add" /\ op[p].pc \in {"submit", "sent"}
                        => op[p].slot <= vault.next_index
  /\ \A tx \in late : tx.kind = "add" => tx.slot <= vault.next_index

SlotInv == BlankBeforeInit /\ SlotsAccounted /\ FinalBehind /\ AddsBounded

\* The invariant as a whole.
ClientsInv == TypeInv /\ EntryInv /\ (~WithReset => SlotInv)

(* A transaction that lands keeps the slots accounted for, if it does not  *)
(* add above next_index.                                                   *)
LEMMA ExecuteSlots ==
  ASSUME TypeInv, EntryInv, SlotsAccounted, BlankBeforeInit,
         NEW tx \in TxType, Execute(tx),
         tx.kind = "add" => tx.slot <= vault.next_index
  PROVE  /\ SlotsAccounted' /\ BlankBeforeInit'
         /\ vault.next_index <= vault'.next_index
<1>1. /\ TypeOK /\ FreeListSound
      /\ tx.slot \in U32 /\ tx.data \in Data /\ tx.expected \in Time
  BY ClientsAssumption DEF TypeInv, EntryInv, TxType
<1>2. vault.next_index \in Nat /\ \A i \in U32 : i \in Nat
  BY <1>1, VaultMetaFields, CounterRange
<1>3. CASE tx.kind = "add" /\ AddEntry(tx.slot, tx.data)
  BY <1>1, <1>2, <1>3, AddEntrySlots DEF SlotsAccounted, BlankBeforeInit, NextAfter
<1>4. CASE UpdateEntry(tx.slot, tx.data, tx.expected)
  <2>1. /\ vault' = vault /\ vaultExists' = vaultExists /\ vaultExists
        /\ LiveEntries' = LiveEntries
    BY <1>1, <1>4, ProgramAssumption
       DEF UpdateEntry, UpdateEntryOk, LiveEntries, TypeOK, EntryAccount
  <2> QED BY <1>2, <2>1 DEF SlotsAccounted, BlankBeforeInit, FreeSlots
<1>5. CASE DeleteEntry(tx.slot)
  BY <1>1, <1>2, <1>5, DeleteEntrySlots DEF SlotsAccounted, BlankBeforeInit
<1> QED BY <1>3, <1>4, <1>5, Zenon DEF Execute

(* What an add allocates from finalized metadata is not above next_index.  *)
LEMMA AllocateBehind ==
  ASSUME TypeInv, FinalBehind
  PROVE  AllocateSlot(finalVault) <= vault.next_index
<1>1. /\ finalVault.free_slots \in Seq(U32)
      /\ finalVault.next_index \in Nat /\ vault.next_index \in Nat
      /\ \A i \in U32 : i \in Nat
  BY VaultMetaFields, CounterRange
     DEF TypeInv, ClientTypes, ClientsTypeOK, VaultMeta, U32
<1>2. CASE finalVault.free_slots # <<>>
  <2>1. Head(finalVault.free_slots) \in ToSet(finalVault.free_slots)
    BY <1>1, <1>2 DEF ToSet
  <2>2. Head(finalVault.free_slots) \in Nat
    BY <1>1, <1>2
  <2> QED BY <1>1, <1>2, <2>1, <2>2 DEF AllocateSlot, FinalBehind
<1>3. CASE finalVault.free_slots = <<>>
  BY <1>1, <1>3 DEF AllocateSlot, FinalBehind
<1> QED BY <1>2, <1>3

(* A process never submits an add above next_index.                        *)
AddBounded(o) ==
  o.kind = "add" /\ o.pc \in {"submit", "sent"} => o.slot <= vault.next_index

(* No step of a process takes it to submit an add above next_index.        *)
LEMMA OpsBounded ==
  ASSUME TypeInv, FinalBehind, AddsBounded,
         NEW p \in Procs, Start(p) \/ Work(p) \/ GiveUp(p)
  PROVE  \A q \in Procs : AddBounded(op'[q])
<1> DEFINE Goal == \A q \in Procs : AddBounded(op'[q])
<1>1. /\ op \in [Procs -> OpType] /\ op[p] \in OpType
      /\ \A q \in Procs : AddBounded(op[q])
  BY DEF TypeInv, ClientTypes, ClientsTypeOK, AddsBounded, AddBounded
<1>2. ASSUME NEW o, AddBounded(o), op' = [op EXCEPT ![p] = o]
      PROVE  Goal
  BY <1>1, <1>2
<1>3. ASSUME Finish(p)
      PROVE  Goal
  BY <1>2, <1>3 DEF Finish, IdleOp, AddBounded
<1>4. ASSUME NEW pc, Goto(p, pc),
             pc \in {"submit", "sent"} => op[p].pc \in {"submit", "sent"}
      PROVE  Goal
  <2> DEFINE o == [op[p] EXCEPT !.pc = pc]
  <2>1. AddBounded(o)
    BY <1>1, <1>4 DEF AddBounded, OpType
  <2> QED BY <1>2, <1>4, <2>1 DEF Goto
<1>5. CASE Start(p)
  BY <1>2, <1>5 DEF Start, StartAdd, StartUpdate, StartDelete, StartSync, StartClear,
                    Begin, IdleOp, AddBounded
<1>6. CASE GiveUp(p)
  BY <1>3, <1>6 DEF GiveUp
<1>7. CASE Send(p)
  <2>1. CASE Submit(p) \/ Land(p) \/ Reject(p) \/ SendLost(p)
    BY <1>3, <1>4, <2>1 DEF Submit, Land, Reject, SendLost
  <2>2. CASE PreflightReject(p)
    <3> DEFINE o == [op[p] EXCEPT !.pc = "get", !.attempt = @ + 1]
    <3>1. AddBounded(o)
      BY <1>1 DEF AddBounded, OpType
    <3>2. \/ Goto(p, "retry") \/ Finish(p) \/ op' = [op EXCEPT ![p] = o]
      BY <2>2 DEF PreflightReject
    <3> QED BY <1>2, <1>3, <1>4, <3>1, <3>2
  <2> QED BY <1>7, <2>1, <2>2 DEF Send
<1>8. CASE AddStep(p)
  <2>1. AllocateSlot(finalVault) <= vault.next_index
    BY AllocateBehind
  <2>2. CASE AddReadMeta(p)
    <3> DEFINE o == [op[p] EXCEPT !.pc = "submit", !.slot = AllocateSlot(finalVault)]
    <3>1. AddBounded(o)
      BY <1>1, <2>1 DEF AddBounded, OpType
    <3> QED BY <1>2, <2>2, <3>1 DEF AddReadMeta
  <2>3. CASE AddRetry(p)
    <3> DEFINE o == [op[p] EXCEPT !.pc = "submit", !.attempt = @ + 1,
                                  !.slot = AllocateSlot(finalVault)]
    <3>1. AddBounded(o)
      BY <1>1, <2>1 DEF AddBounded, OpType
    <3>2. Finish(p) \/ op' = [op EXCEPT ![p] = o]
      BY <2>3 DEF AddRetry
    <3> QED BY <1>2, <1>3, <3>1, <3>2
  <2>4. CASE AddLocalGet(p)
    <3> DEFINE o == [op[p] EXCEPT !.pc = "localSet", !.slot = State(p)]
    <3>1. AddBounded(o)
      BY <1>1 DEF AddBounded, OpType
    <3> QED BY <1>2, <2>4, <3>1 DEF AddLocalGet
  <2> QED BY <1>4, <1>8, <2>2, <2>3, <2>4 DEF AddStep, AddOffline, AddLocalSet
<1>9. CASE ReadEntry(p)
  <2> DEFINE o == [op[p] EXCEPT !.pc = "submit",
                                !.expected = finalEntries[op[p].slot].updated_at,
                                !.read = finalEntries[op[p].slot].encrypted_data]
  <2>1. AddBounded(o)
    BY <1>1, <1>9 DEF ReadEntry, AddBounded, OpType
  <2> QED BY <1>2, <1>9, <2>1 DEF ReadEntry
<1>10. CASE ReadMissing(p) \/ RowStep(p) \/ ClearEntries(p) \/ ClearState(p)
  BY <1>3, <1>4, <1>10
     DEF ReadMissing, RowStep, SaveRow, MarkRow, DropRow, ClearEntries, ClearState
<1>11. CASE SyncStep(p)
  <2>1. CASE SyncSave(p)
    <3>1. PICK f \in scan[p].fetched :
            op' = [op EXCEPT ![p].pc = "markRow", ![p].id = f[2].id]
      BY <2>1 DEF SyncSave
    <3> DEFINE o == [op[p] EXCEPT !.pc = "markRow", !.id = f[2].id]
    <3>2. AddBounded(o)
      BY <1>1 DEF AddBounded, OpType
    <3> QED BY <1>2, <3>1, <3>2
  <2>2. CASE SyncMark(p)
    <3> DEFINE o == [op[p] EXCEPT !.pc = "fetch", !.id = NoRow]
    <3>1. AddBounded(o)
      BY <1>1 DEF AddBounded, OpType
    <3> QED BY <1>2, <2>2, <3>1 DEF SyncMark
  <2>3. CASE SyncReadMeta(p) \/ SyncList(p) \/ SyncFinish(p)
    BY <1>3, <1>4, <2>3 DEF SyncReadMeta, SyncList, SyncFinish
  <2>4. CASE SyncFetch(p) \/ SyncDelete(p)
    BY <1>1, <2>4 DEF SyncFetch, SyncDelete
  <2> QED BY <1>11, <2>1, <2>2, <2>3, <2>4 DEF SyncStep
<1> QED BY <1>5, <1>6, <1>7, <1>8, <1>9, <1>10, <1>11 DEF Work

(* Only Finalize moves the finalized state, and only a process that was    *)
(* submitting leaves a transaction behind.                                 *)
LEMMA Frame ==
  ASSUME [ClientsNext]_vars
  PROVE  /\ Finalize \/ UNCHANGED finalVars
         /\ \A tx \in late' :
              \/ tx \in late
              \/ \E p \in Procs : op[p].pc \in {"submit", "sent"} /\ tx = TxOf(p)
<1> DEFINE Late == \A tx \in late' :
              \/ tx \in late
              \/ \E p \in Procs : op[p].pc \in {"submit", "sent"} /\ tx = TxOf(p)
<1>1. CASE Chain
  BY <1>1 DEF Chain, OwnerInstruction, Finalize, Second, LateLand, LateDrop,
              finalVars, processVars
<1>2. ASSUME NEW p \in Procs, Start(p)
      PROVE  UNCHANGED <<finalVars, late>>
  BY <1>2 DEF Start, StartAdd, StartUpdate, StartDelete, StartSync, StartClear
<1>3. ASSUME NEW p \in Procs, GiveUp(p)
      PROVE  UNCHANGED finalVars /\ Late
  BY <1>3 DEF GiveUp, Submitted
<1>4. ASSUME NEW p \in Procs, SendLost(p)
      PROVE  UNCHANGED finalVars /\ Late
  BY <1>4 DEF SendLost, At
<1>5. ASSUME NEW p \in Procs, Work(p), ~SendLost(p)
      PROVE  UNCHANGED <<finalVars, late>>
  <2>1. CASE Send(p)
    BY <1>5, <2>1 DEF Send, Submit, PreflightReject, Land, Reject
  <2>2. CASE AddStep(p)
    BY <2>2 DEF AddStep, AddReadMeta, AddOffline, AddRetry, AddLocalGet, AddLocalSet
  <2>3. CASE ReadEntry(p) \/ ReadMissing(p) \/ RowStep(p)
    BY <2>3 DEF ReadEntry, ReadMissing, RowStep, SaveRow, MarkRow, DropRow
  <2>4. CASE SyncStep(p)
    BY <2>4 DEF SyncStep, SyncReadMeta, SyncFetch, SyncSave, SyncMark, SyncList,
                SyncDelete, SyncFinish
  <2>5. CASE ClearEntries(p) \/ ClearState(p)
    BY <2>5 DEF ClearEntries, ClearState
  <2> QED BY <1>5, <2>1, <2>2, <2>3, <2>4, <2>5 DEF Work
<1>6. CASE UNCHANGED vars
  BY <1>6 DEF vars, processVars
<1> QED BY <1>1, <1>2, <1>3, <1>4, <1>5, <1>6 DEF ClientsNext

(* Without resets every step keeps the slots accounted for, and next_index *)
(* never goes down.                                                        *)
LEMMA VaultStep ==
  ASSUME TypeInv, EntryInv, SlotInv, ~WithReset, [ClientsNext]_vars
  PROVE  /\ SlotsAccounted' /\ BlankBeforeInit'
         /\ vault.next_index <= vault'.next_index
<1>1. vault.next_index \in Nat
  BY VaultMetaFields, CounterRange DEF TypeInv
<1>2. CASE OwnerInstruction
  <2>1. ~vaultExists /\ InitializeVault
    BY <1>2 DEF OwnerInstruction, VaultInstruction, ResetVault
  <2>2. /\ vault = EmptyVault /\ vault' = EmptyVault /\ vaultExists'
        /\ LiveEntries' = LiveEntries
    BY <2>1 DEF SlotInv, BlankBeforeInit, InitializeVault, WipeVault, LiveEntries
  <2> QED BY <1>1, <2>2 DEF SlotInv, SlotsAccounted, BlankBeforeInit, FreeSlots
<1>3. CASE Second \/ UNCHANGED programVars
  <2>1. UNCHANGED <<vaultExists, vault, entries>>
    BY <1>3 DEF Second, Tick, programVars
  <2> QED BY <1>1, <2>1
          DEF SlotInv, SlotsAccounted, BlankBeforeInit, FreeSlots, LiveEntries
<1>4. ASSUME NEW tx \in late, LateLand(tx)
      PROVE  /\ SlotsAccounted' /\ BlankBeforeInit'
             /\ vault.next_index <= vault'.next_index
  BY <1>4, Landing, ExecuteSlots DEF SlotInv, AddsBounded
<1>5. ASSUME NEW p \in Procs, Land(p)
      PROVE  /\ SlotsAccounted' /\ BlankBeforeInit'
             /\ vault.next_index <= vault'.next_index
  <2>1. TxOf(p).kind = op[p].kind /\ TxOf(p).slot = op[p].slot
    BY DEF TxOf
  <2>2. op[p].pc = "sent"
    BY <1>5 DEF Land
  <2> QED BY <1>5, <2>1, <2>2, Landing, ExecuteSlots DEF SlotInv, AddsBounded
<1> QED BY <1>2, <1>3, <1>4, <1>5, OffChain DEF OnChain

(* Without resets every step keeps the slot invariant.                     *)
LEMMA SlotStep ==
  ASSUME TypeInv, EntryInv, SlotInv, ~WithReset, [ClientsNext]_vars
  PROVE  SlotInv'
<1>1. /\ SlotsAccounted' /\ BlankBeforeInit'
      /\ vault.next_index <= vault'.next_index
  BY VaultStep
<1>2. TypeInv'
  BY TypeInvStep
<1>3. /\ vault.next_index \in Nat /\ finalVault.next_index \in Nat
      /\ vault'.next_index \in Nat
      /\ \A i \in U32 : i \in Nat
  BY <1>2, CounterRange
     DEF TypeInv, TypeOK, ClientTypes, ClientsTypeOK, VaultMeta
<1>4. FinalBehind'
  <2>1. CASE UNCHANGED finalVars
    BY <1>1, <1>3, <2>1 DEF SlotInv, FinalBehind, finalVars
  <2>2. CASE Finalize
    <3>1. finalVault' = vault /\ vault' = vault
      BY <2>2 DEF Finalize, programVars
    <3>2. ToSet(vault.free_slots) \subseteq U32
      <4>1. vault.free_slots \in Seq(U32)
        BY VaultMetaFields DEF TypeInv
      <4> QED BY <4>1 DEF ToSet
    <3> QED BY <1>3, <3>1, <3>2 DEF SlotInv, SlotsAccounted, FreeSlots, FinalBehind
  <2> QED BY <2>1, <2>2, Frame
<1>5. ASSUME NEW q \in Procs, op[q].kind = "add", op[q].pc \in {"submit", "sent"}
      PROVE  op[q].slot \in Nat /\ op[q].slot <= vault.next_index
  BY <1>3, <1>5 DEF SlotInv, AddsBounded, TypeInv, ClientTypes, ClientsTypeOK, OpType
<1>6. ASSUME NEW q \in Procs, op'[q].kind = "add", op'[q].pc \in {"submit", "sent"}
      PROVE  op'[q].slot <= vault'.next_index
  <2>1. op'[q].slot \in Nat
    BY <1>2, <1>3 DEF TypeInv, ClientTypes, ClientsTypeOK, OpType
  <2>2. op'[q].slot <= vault.next_index
    <3>1. ASSUME NEW p \in Procs, Start(p) \/ Work(p) \/ GiveUp(p)
          PROVE  op'[q].slot <= vault.next_index
      BY <1>6, <3>1, OpsBounded DEF SlotInv, AddBounded
    <3>2. CASE Chain \/ UNCHANGED vars
      <4>1. op' = op
        BY <3>2 DEF Chain, OwnerInstruction, Finalize, Second, LateLand, LateDrop,
                    vars, processVars
      <4> QED BY <1>5, <1>6, <4>1
    <3> QED BY <3>1, <3>2 DEF ClientsNext
  <2> QED BY <1>1, <1>3, <2>1, <2>2
<1>7. ASSUME NEW tx \in late', tx.kind = "add"
      PROVE  tx.slot <= vault'.next_index
  <2>1. tx.slot \in Nat
    BY <1>2, <1>3 DEF TypeInv, ClientTypes, ClientsTypeOK, TxType
  <2>2. CASE tx \in late
    BY <1>1, <1>3, <1>7, <2>1, <2>2 DEF SlotInv, AddsBounded
  <2>3. ASSUME NEW p \in Procs, op[p].pc \in {"submit", "sent"}, tx = TxOf(p)
        PROVE  tx.slot <= vault'.next_index
    BY <1>1, <1>3, <1>5, <1>7, <2>1, <2>3 DEF TxOf
  <2> QED BY <2>2, <2>3, Frame
<1> QED BY <1>1, <1>4, <1>6, <1>7 DEF SlotInv, AddsBounded

(* The slot invariant holds of the vault that does not exist yet.          *)
LEMMA SlotInit == ClientsInit => SlotInv
<1> SUFFICES ASSUME ClientsInit
             PROVE  SlotInv
  OBVIOUS
<1>1. /\ vault = EmptyVault /\ finalVault = EmptyVault /\ LiveEntries = {}
      /\ late = {} /\ op = [p \in Procs |-> IdleOp]
  BY DEF ClientsInit, Init, LiveEntries
<1>2. ToSet(EmptyVault.free_slots) = {} /\ EmptyVault.next_index = 0
  BY DEF EmptyVault, ToSet
<1>3. \A i \in U32 : ~(i < 0)
  BY ProgramAssumption DEF U32
<1> QED BY <1>1, <1>2, <1>3
        DEF SlotInv, BlankBeforeInit, SlotsAccounted, FreeSlots, FinalBehind,
            AddsBounded, IdleOp

(* The slot invariant holds in every state, where the owner resets         *)
(* nothing.                                                                *)
LEMMA ClientsInvariance == ClientsSpec => []ClientsInv
<1>1. ClientsInit => ClientsInv
  BY TypeInvInit, SlotInit, EntryInit DEF ClientsInit, ClientsInv
<1>2. ClientsInv /\ [ClientsNext]_vars => ClientsInv'
  BY TypeInvStep, StepOfProgram, EntryStep, SlotStep DEF ClientsInv, TypeInv
<1> QED BY <1>1, <1>2, PTL DEF ClientsSpec

(* Unless the owner resets the vault, no race, retry, lost answer or late  *)
(* transaction of any number of clients loses a slot.                      *)
THEOREM NoSlotLeakCorrect == ClientsSpec => []NoSlotLeak
<1>1. ClientsInv => NoSlotLeak
  BY DEF ClientsInv, SlotInv, SlotsAccounted, NoSlotLeak
<1> QED BY <1>1, ClientsInvariance, PTL

-----------------------------------------------------------------------------
(* Optimistic locking *)

(* Where no two writes share a second: an update that is on its way carries *)
(* the stamp of a version and the content of that same version, so the      *)
(* slot holds that content if it still has that stamp.                      *)
Stamps(accounts) ==
  \A i \in U32 : accounts[i] # NoAccount =>
    accounts[i].updated_at # 0 /\ accounts[i].updated_at <= lastWrite

Matches(i, stamp, content) ==
  /\ stamp # 0 /\ stamp <= lastWrite
  /\ entries[i] # NoAccount /\ entries[i].updated_at = stamp
       => entries[i].encrypted_data = content

FinalMatches ==
  \A i \in U32 : finalEntries[i] # NoAccount =>
    Matches(i, finalEntries[i].updated_at, finalEntries[i].encrypted_data)

OpMatches(o) ==
  o.kind = "update" /\ o.pc \in {"submit", "sent"} => Matches(o.slot, o.expected, o.read)

LateMatches ==
  \A tx \in late : tx.kind = "update" => Matches(tx.slot, tx.expected, tx.read)

StampInv ==
  /\ clock # 0
  /\ Stamps(entries)
  /\ FinalMatches
  /\ \A p \in Procs : OpMatches(op[p])
  /\ LateMatches

(* A step deletes an entry, or stamps it with a second that nothing knows.  *)
Restamped ==
  /\ lastWrite <= lastWrite'
  /\ \A i \in U32 :
       \/ entries'[i] = entries[i]
       \/ entries'[i] = NoAccount
       \/ /\ entries'[i].updated_at = lastWrite'
          /\ lastWrite < lastWrite'

(* A transaction stamps what it writes with a second later than all stamps *)
(* so far.                                                                 *)
LEMMA ExecuteStamps ==
  ASSUME TypeInv, StampInv, ~SameSecondWrites, NEW tx \in TxType, Execute(tx)
  PROVE  Restamped /\ Stamps(entries)' /\ clock' = clock
<1>1. /\ entries \in [U32 -> EntryAccount \cup {NoAccount}]
      /\ clock \in Nat /\ lastWrite \in Nat /\ clock # 0
      /\ tx.slot \in U32 /\ tx.data \in Data
      /\ Stamps(entries)
  BY ClientsAssumption
     DEF TypeInv, TypeOK, ClientTypes, ClientsTypeOK, StampInv, Time, TxType
<1>2. \A i \in U32 : entries[i] # NoAccount => entries[i].updated_at \in Nat
  BY <1>1 DEF EntryAccount, Time
<1>3. CASE /\ lastWrite < clock /\ lastWrite' = clock
           /\ AddEntry(tx.slot, tx.data)
  BY <1>1, <1>2, <1>3 DEF AddEntry, Restamped, Stamps
<1>4. CASE /\ lastWrite < clock /\ lastWrite' = clock
           /\ UpdateEntry(tx.slot, tx.data, tx.expected)
  BY <1>1, <1>2, <1>4 DEF UpdateEntry, UpdateEntryOk, EntryAccount, Restamped, Stamps
<1>5. CASE DeleteEntry(tx.slot) /\ UNCHANGED lastWrite
  BY <1>1, <1>2, <1>5 DEF DeleteEntry, Restamped, Stamps
<1> QED BY <1>3, <1>4, <1>5, Zenon DEF Execute, SecondAvailable

(* Only transactions write, and the clock never returns to 0.              *)
LEMMA StampStep ==
  ASSUME TypeInv, StampInv, ~SameSecondWrites, [ClientsNext]_vars
  PROVE  Restamped /\ Stamps(entries)' /\ clock' # 0
<1>1. clock \in Nat /\ lastWrite \in Nat /\ clock # 0 /\ Stamps(entries)
  BY DEF TypeInv, TypeOK, ClientTypes, ClientsTypeOK, StampInv, Time
<1>2. ASSUME entries' = entries, lastWrite' = lastWrite
      PROVE  Restamped /\ Stamps(entries)'
  BY <1>1, <1>2 DEF Restamped, Stamps
<1>3. CASE OwnerInstruction
  BY <1>1, <1>2, <1>3 DEF OwnerInstruction, VaultInstruction, InitializeVault,
                          ResetVault, WipeVault, historyVars
<1>4. CASE Second
  BY <1>1, <1>2, <1>4 DEF Second, Tick, historyVars
<1>5. ASSUME NEW tx \in late, LateLand(tx)
      PROVE  Restamped /\ Stamps(entries)' /\ clock' # 0
  BY <1>1, <1>5, Landing, ExecuteStamps
<1>6. ASSUME NEW p \in Procs, Land(p)
      PROVE  Restamped /\ Stamps(entries)' /\ clock' # 0
  BY <1>1, <1>6, Landing, ExecuteStamps
<1>7. CASE ~OnChain
  <2>1. UNCHANGED programVars
    BY <1>7, OffChain
  <2>2. lastWrite' = lastWrite
    BY <1>7, WriteFrame
  <2> QED BY <1>1, <1>2, <2>1, <2>2 DEF programVars
<1> QED BY <1>3, <1>4, <1>5, <1>6, <1>7 DEF OnChain

(* What matched before a step matches after it.                            *)
LEMMA MatchesKept ==
  ASSUME TypeInv, TypeInv', Restamped,
         NEW i \in U32, NEW stamp \in Time, NEW content, Matches(i, stamp, content)
  PROVE  Matches(i, stamp, content)'
<1>1. stamp \in Nat /\ lastWrite \in Nat /\ lastWrite' \in Nat
  BY DEF TypeInv, ClientTypes, ClientsTypeOK, Time
<1> QED BY <1>1 DEF Restamped, Matches

(* What a process has read, carried or sent matches after the step if it   *)
(* may be compared then, as the entries stood before it.                   *)
LEMMA OpsMatch ==
  ASSUME TypeInv, StampInv,
         NEW p \in Procs, Start(p) \/ Work(p) \/ GiveUp(p)
  PROVE  \A q \in Procs : OpMatches(op'[q])
<1> DEFINE Goal == \A q \in Procs : OpMatches(op'[q])
<1>1. /\ op \in [Procs -> OpType] /\ op[p] \in OpType
      /\ \A q \in Procs : OpMatches(op[q])
  BY DEF TypeInv, ClientTypes, ClientsTypeOK, StampInv
<1>2. ASSUME NEW o, OpMatches(o), op' = [op EXCEPT ![p] = o]
      PROVE  Goal
  BY <1>1, <1>2
<1>3. ASSUME Finish(p)
      PROVE  Goal
  BY <1>2, <1>3 DEF Finish, IdleOp, OpMatches
<1>4. ASSUME NEW pc, Goto(p, pc),
             pc \in {"submit", "sent"} => \/ op[p].pc \in {"submit", "sent"}
                                          \/ op[p].kind = "add"
      PROVE  Goal
  <2> DEFINE o == [op[p] EXCEPT !.pc = pc]
  <2>1. OpMatches(o)
    BY <1>1, <1>4 DEF OpMatches, OpType
  <2> QED BY <1>2, <1>4, <2>1 DEF Goto
<1>5. CASE Start(p)
  BY <1>2, <1>5 DEF Start, StartAdd, StartUpdate, StartDelete, StartSync, StartClear,
                    Begin, IdleOp, OpMatches
<1>6. CASE GiveUp(p)
  BY <1>3, <1>6 DEF GiveUp
<1>7. CASE Send(p)
  <2>1. CASE Submit(p) \/ Land(p) \/ Reject(p) \/ SendLost(p)
    BY <1>3, <1>4, <2>1 DEF Submit, Land, Reject, SendLost
  <2>2. CASE PreflightReject(p)
    <3> DEFINE o == [op[p] EXCEPT !.pc = "get", !.attempt = @ + 1]
    <3>1. OpMatches(o)
      BY <1>1 DEF OpMatches, OpType
    <3>2. \/ Goto(p, "retry") \/ Finish(p) \/ op' = [op EXCEPT ![p] = o]
      BY <2>2 DEF PreflightReject
    <3> QED BY <1>2, <1>3, <1>4, <3>1, <3>2
  <2> QED BY <1>7, <2>1, <2>2 DEF Send
<1>8. CASE AddStep(p)
  <2>1. op[p].kind = "add"
    BY <1>8 DEF AddStep, AddReadMeta, AddRetry, AddLocalGet, AddOffline, AddLocalSet, At
  <2>2. ASSUME NEW o, o.kind = "add", op' = [op EXCEPT ![p] = o]
        PROVE  Goal
    BY <1>2, <2>2 DEF OpMatches
  <2>3. CASE AddReadMeta(p)
    <3> DEFINE o == [op[p] EXCEPT !.pc = "submit", !.slot = AllocateSlot(finalVault)]
    <3>1. o.kind = "add"
      BY <1>1, <2>1 DEF OpType
    <3> QED BY <2>2, <2>3, <3>1 DEF AddReadMeta
  <2>4. CASE AddRetry(p)
    <3> DEFINE o == [op[p] EXCEPT !.pc = "submit", !.attempt = @ + 1,
                                  !.slot = AllocateSlot(finalVault)]
    <3>1. o.kind = "add"
      BY <1>1, <2>1 DEF OpType
    <3>2. Finish(p) \/ op' = [op EXCEPT ![p] = o]
      BY <2>4 DEF AddRetry
    <3> QED BY <1>3, <2>2, <3>1, <3>2
  <2>5. CASE AddLocalGet(p)
    <3> DEFINE o == [op[p] EXCEPT !.pc = "localSet", !.slot = State(p)]
    <3>1. o.kind = "add"
      BY <1>1, <2>1 DEF OpType
    <3> QED BY <2>2, <2>5, <3>1 DEF AddLocalGet
  <2> QED BY <1>4, <1>8, <2>1, <2>3, <2>4, <2>5 DEF AddStep, AddOffline, AddLocalSet
<1>9. CASE ReadEntry(p)
  <2> DEFINE o == [op[p] EXCEPT !.pc = "submit",
                                !.expected = finalEntries[op[p].slot].updated_at,
                                !.read = finalEntries[op[p].slot].encrypted_data]
  <2>1. op[p].slot \in U32 /\ finalEntries[op[p].slot] # NoAccount
    BY <1>1, <1>9 DEF ReadEntry, OpType
  <2>2. Matches(op[p].slot, finalEntries[op[p].slot].updated_at,
                finalEntries[op[p].slot].encrypted_data)
    BY <2>1 DEF StampInv, FinalMatches
  <2>3. /\ o.slot = op[p].slot
        /\ o.expected = finalEntries[op[p].slot].updated_at
        /\ o.read = finalEntries[op[p].slot].encrypted_data
    BY <1>1 DEF OpType
  <2>4. OpMatches(o)
    BY <2>2, <2>3 DEF OpMatches
  <2> QED BY <1>2, <1>9, <2>4 DEF ReadEntry
<1>10. CASE ReadMissing(p) \/ RowStep(p) \/ ClearEntries(p) \/ ClearState(p)
  BY <1>3, <1>4, <1>10
     DEF ReadMissing, RowStep, SaveRow, MarkRow, DropRow, ClearEntries, ClearState
<1>11. CASE SyncStep(p)
  <2>1. CASE SyncSave(p)
    <3>1. PICK f \in scan[p].fetched :
            op' = [op EXCEPT ![p].pc = "markRow", ![p].id = f[2].id]
      BY <2>1 DEF SyncSave
    <3> DEFINE o == [op[p] EXCEPT !.pc = "markRow", !.id = f[2].id]
    <3>2. OpMatches(o)
      BY <1>1 DEF OpMatches, OpType
    <3> QED BY <1>2, <3>1, <3>2
  <2>2. CASE SyncMark(p)
    <3> DEFINE o == [op[p] EXCEPT !.pc = "fetch", !.id = NoRow]
    <3>1. OpMatches(o)
      BY <1>1 DEF OpMatches, OpType
    <3> QED BY <1>2, <2>2, <3>1 DEF SyncMark
  <2>3. CASE SyncReadMeta(p) \/ SyncList(p) \/ SyncFinish(p)
    BY <1>3, <1>4, <2>3 DEF SyncReadMeta, SyncList, SyncFinish
  <2>4. CASE SyncFetch(p) \/ SyncDelete(p)
    BY <1>1, <2>4 DEF SyncFetch, SyncDelete
  <2> QED BY <1>11, <2>1, <2>2, <2>3, <2>4 DEF SyncStep
<1> QED BY <1>5, <1>6, <1>7, <1>8, <1>9, <1>10, <1>11 DEF Work

(* Where no two writes share a second, no step spoils a match.             *)
LEMMA StampInvStep ==
  ASSUME TypeInv, StampInv, ~SameSecondWrites, [ClientsNext]_vars
  PROVE  StampInv'
<1>1. Restamped /\ Stamps(entries)' /\ clock' # 0
  BY StampStep
<1>2. TypeInv'
  BY TypeInvStep
<1>3. FinalMatches'
  <2>1. CASE UNCHANGED finalVars
    <3>1. ASSUME NEW i \in U32, finalEntries[i] # NoAccount
          PROVE  Matches(i, finalEntries[i].updated_at,
                         finalEntries[i].encrypted_data)
                 /\ finalEntries[i].updated_at \in Time
      BY <3>1 DEF StampInv, FinalMatches, TypeInv, ClientTypes, ClientsTypeOK, EntryAccount
    <3>2. finalEntries' = finalEntries
      BY <2>1 DEF finalVars
    <3>3. ASSUME NEW i \in U32, NEW stamp \in Time, NEW content, Matches(i, stamp, content)
          PROVE  Matches(i, stamp, content)'
      BY <1>1, <1>2, <3>3, MatchesKept
    <3> QED BY <3>1, <3>2, <3>3 DEF FinalMatches, Matches
  <2>2. CASE Finalize
    <3>1. finalEntries' = entries'
      BY <2>2 DEF Finalize, programVars
    <3> QED BY <1>1, <3>1 DEF FinalMatches, Matches, Stamps
  <2> QED BY <2>1, <2>2, Frame
<1>4. ASSUME NEW q \in Procs
      PROVE  OpMatches(op[q])'
  <2>1. OpMatches(op'[q])
    <3>1. ASSUME NEW p \in Procs, Start(p) \/ Work(p) \/ GiveUp(p)
          PROVE  OpMatches(op'[q])
      BY <3>1, OpsMatch
    <3>2. CASE Chain \/ UNCHANGED vars
      <4>1. op' = op
        BY <3>2 DEF Chain, OwnerInstruction, Finalize, Second, LateLand, LateDrop,
                    vars, processVars
      <4> QED BY <4>1 DEF StampInv
    <3> QED BY <3>1, <3>2 DEF ClientsNext
  <2>2. op'[q].slot \in U32 /\ op'[q].expected \in Time
    BY <1>2 DEF TypeInv, ClientTypes, ClientsTypeOK, OpType
  <2>3. ASSUME NEW i \in U32, NEW stamp \in Time, NEW content, Matches(i, stamp, content)
        PROVE  Matches(i, stamp, content)'
    BY <1>1, <1>2, <2>3, MatchesKept
  <2> QED BY <2>1, <2>2, <2>3 DEF OpMatches, Matches
<1>5. ASSUME NEW tx \in late', tx.kind = "update"
      PROVE  Matches(tx.slot, tx.expected, tx.read)'
  <2>1. Matches(tx.slot, tx.expected, tx.read)
    <3>1. CASE tx \in late
      BY <1>5, <3>1 DEF StampInv, LateMatches
    <3>2. ASSUME NEW p \in Procs, op[p].pc \in {"submit", "sent"}, tx = TxOf(p)
          PROVE  Matches(tx.slot, tx.expected, tx.read)
      BY <1>5, <3>2 DEF StampInv, OpMatches, TxOf
    <3> QED BY <3>1, <3>2, Frame
  <2>2. tx.slot \in U32 /\ tx.expected \in Time
    BY <1>2 DEF TypeInv, ClientTypes, ClientsTypeOK, TxType
  <2>3. ASSUME NEW i \in U32, NEW stamp \in Time, NEW content, Matches(i, stamp, content)
        PROVE  Matches(i, stamp, content)'
    BY <1>1, <1>2, <2>3, MatchesKept
  <2> QED BY <2>1, <2>2, <2>3 DEF Matches
<1> QED BY <1>1, <1>3, <1>4, <1>5 DEF StampInv, LateMatches

(* At the start nothing has been written, and the clock is past 0.         *)
LEMMA StampInit == ClientsInit => StampInv
BY DEF ClientsInit, Init, StampInv, Stamps, FinalMatches, OpMatches, LateMatches, IdleOp

-----------------------------------------------------------------------------
(* The refinement of the store *)

(* The transactions that processes wait for.                               *)
Awaited == {TxOf(p) : p \in {q \in Procs : op[q].pc = "sent"}}

(* How one process's step changes them.                                    *)
LEMMA AwaitedMoves ==
  ASSUME NEW p \in Procs,
         \A q \in Procs \ {p} : op'[q] = op[q]
  PROVE  /\ op[p].pc # "sent" /\ op'[p].pc # "sent" => Awaited' = Awaited
         /\ op[p].pc # "sent" /\ op'[p].pc = "sent"
              => Awaited' = Awaited \cup {TxOf(p)'}
         /\ op[p].pc = "sent"
              => TxOf(p) \in Awaited
         /\ op[p].pc = "sent" /\ op'[p].pc # "sent"
              => Awaited \ {TxOf(p)} \subseteq Awaited' /\ Awaited' \subseteq Awaited
<1>1. \A q \in Procs \ {p} : TxOf(q)' = TxOf(q) /\ (op'[q].pc = "sent" <=> op[q].pc = "sent")
  BY DEF TxOf, Content
<1>2. \A tx : tx \in Awaited <=> \E q \in Procs : op[q].pc = "sent" /\ tx = TxOf(q)
  BY DEF Awaited
<1>3. \A tx : tx \in Awaited' <=> \E q \in Procs : op'[q].pc = "sent" /\ tx = TxOf(q)'
  BY DEF Awaited
<1> HIDE DEF Awaited
<1>4. ASSUME op[p].pc # "sent", op'[p].pc # "sent"
      PROVE  Awaited' = Awaited
  <2>1. \A tx : tx \in Awaited' <=> tx \in Awaited
    BY <1>1, <1>2, <1>3, <1>4
  <2> QED BY <2>1
<1>5. ASSUME op[p].pc # "sent", op'[p].pc = "sent"
      PROVE  Awaited' = Awaited \cup {TxOf(p)'}
  BY <1>1, <1>2, <1>3, <1>5
<1>6. ASSUME op[p].pc = "sent", op'[p].pc # "sent"
      PROVE  Awaited \ {TxOf(p)} \subseteq Awaited' /\ Awaited' \subseteq Awaited
  BY <1>1, <1>2, <1>3, <1>6
<1> QED BY <1>2, <1>4, <1>5, <1>6

(* What a step may do to the transactions on their way.                    *)
Sends(tx)   == InFlight' = InFlight \cup {tx}
Settles(tx) == InFlight \ {tx} \subseteq InFlight' /\ InFlight' \subseteq InFlight

(* A step of a process that sends nothing leaves them alone.               *)
LEMMA QuietSteps ==
  ASSUME TypeInv, NEW p \in Procs, Start(p) \/ Work(p), ~Send(p)
  PROVE  UNCHANGED programVars /\ InFlight' = InFlight
<1> DEFINE Quiet == /\ \A q \in Procs \ {p} : op'[q] = op[q]
                    /\ op[p].pc # "sent" /\ op'[p].pc # "sent"
                    /\ UNCHANGED <<programVars, late>>
<1>1. op \in [Procs -> OpType]
  BY DEF TypeInv, ClientTypes, ClientsTypeOK
<1>2. ASSUME Start(p)
      PROVE  Quiet
  <2>1. op[p].pc = "idle"
    BY <1>2 DEF Start, StartAdd, StartUpdate, StartDelete, StartSync, StartClear,
                CanStart
  <2>2. UNCHANGED <<programVars, late>>
    BY <1>2 DEF Start, StartAdd, StartUpdate, StartDelete, StartSync, StartClear
  <2>3. ASSUME NEW o, o.pc \in {"meta", "get", "entries"}, Begin(p, o)
        PROVE  op'[p].pc # "sent" /\ \A q \in Procs \ {p} : op'[q] = op[q]
    BY <1>1, <2>3 DEF Begin
  <2>4. ASSUME NEW id \in Ids, StartAdd(p, id)
        PROVE  op'[p].pc # "sent" /\ \A q \in Procs \ {p} : op'[q] = op[q]
    <3> DEFINE o == [IdleOp EXCEPT !.pc = "meta", !.kind = "add", !.id = id]
    <3>1. o.pc = "meta"
      BY IdleType DEF OpType
    <3>2. Begin(p, o)
      BY <2>4 DEF StartAdd
    <3> HIDE DEF o
    <3> QED BY <2>3, <3>1, <3>2
  <2>5. ASSUME NEW entry \in Offered(p), StartUpdate(p, entry)
        PROVE  op'[p].pc # "sent" /\ \A q \in Procs \ {p} : op'[q] = op[q]
    <3> DEFINE o == [IdleOp EXCEPT
                       !.pc = "get", !.kind = "update", !.id = entry.id,
                       !.slot = entry.slot, !.base = entry.ver,
                       !.ver = Len(authors) + 1]
    <3>1. o.pc = "get"
      BY IdleType DEF OpType
    <3>2. Begin(p, o)
      BY <2>5 DEF StartUpdate
    <3> HIDE DEF o
    <3> QED BY <2>3, <3>1, <3>2
  <2>6. ASSUME NEW entry \in Offered(p), StartDelete(p, entry)
        PROVE  op'[p].pc # "sent" /\ \A q \in Procs \ {p} : op'[q] = op[q]
    <3> DEFINE o == [IdleOp EXCEPT !.pc = "get", !.kind = "delete", !.id = entry.id,
                                   !.slot = entry.slot]
    <3>1. o.pc = "get"
      BY IdleType DEF OpType
    <3>2. Begin(p, o)
      BY <2>6 DEF StartDelete
    <3> HIDE DEF o
    <3> QED BY <2>3, <3>1, <3>2
  <2>7. CASE StartSync(p)
    <3> DEFINE o == [IdleOp EXCEPT !.pc = "meta", !.kind = "sync"]
    <3>1. o.pc = "meta"
      BY IdleType DEF OpType
    <3>2. Begin(p, o)
      BY <2>7 DEF StartSync
    <3> HIDE DEF o
    <3> QED BY <2>1, <2>2, <2>3, <3>1, <3>2
  <2>8. CASE StartClear(p)
    <3> DEFINE o == [IdleOp EXCEPT !.pc = "entries", !.kind = "clear"]
    <3>1. o.pc = "entries"
      BY IdleType DEF OpType
    <3>2. Begin(p, o)
      BY <2>8 DEF StartClear
    <3> HIDE DEF o
    <3> QED BY <2>1, <2>2, <2>3, <3>1, <3>2
  <2> QED BY <1>2, <2>1, <2>2, <2>4, <2>5, <2>6, <2>7, <2>8 DEF Start
<1>3. ASSUME AddStep(p)
      PROVE  Quiet
  BY <1>1, <1>3 DEF AddStep, AddReadMeta, AddOffline, AddRetry, AddLocalGet,
                    AddLocalSet, At, Goto, Finish, IdleOp, OpType
<1>4. ASSUME ReadEntry(p) \/ ReadMissing(p)
      PROVE  Quiet
  BY <1>1, <1>4 DEF ReadEntry, ReadMissing, Goto, OpType
<1>5. ASSUME RowStep(p)
      PROVE  Quiet
  BY <1>1, <1>5 DEF RowStep, SaveRow, MarkRow, DropRow, Goto, Finish, IdleOp, OpType
<1>6. ASSUME SyncStep(p)
      PROVE  Quiet
  BY <1>1, <1>6 DEF SyncStep, SyncReadMeta, SyncFetch, SyncSave, SyncMark, SyncList,
                    SyncDelete, SyncFinish, At, Goto, Finish, IdleOp, OpType
<1>7. ASSUME ClearEntries(p) \/ ClearState(p)
      PROVE  Quiet
  BY <1>1, <1>7 DEF ClearEntries, ClearState, At, Goto, Finish, IdleOp, OpType
<1>8. Quiet
  BY <1>2, <1>3, <1>4, <1>5, <1>6, <1>7, Zenon DEF Work
<1>9. Awaited' = Awaited
  BY <1>8, AwaitedMoves
<1> QED BY <1>8, <1>9 DEF InFlight, Awaited

(* Every step sends a transaction, or settles one that was on its way by   *)
(* executing or dropping it, or leaves the accounts' entries and all       *)
(* transactions alone.                                                     *)
FlightStep ==
  \/ UNCHANGED entries /\ InFlight' = InFlight
  \/ UNCHANGED entries /\ \E tx \in TxType : Sends(tx)
  \/ \E tx \in InFlight : Settles(tx) /\ (UNCHANGED entries \/ Execute(tx))

(* Every step of the clients and the chain is one of these.                *)
LEMMA FlightMoves ==
  ASSUME TypeInv, [ClientsNext]_vars
  PROVE  FlightStep
<1>1. op \in [Procs -> OpType] /\ late \subseteq TxType
  BY DEF TypeInv, ClientTypes, ClientsTypeOK
<1>2. InFlight = late \cup Awaited
  BY DEF InFlight, Awaited
<1>3. InFlight' = late' \cup Awaited'
  BY DEF InFlight, Awaited
<1>4. op' = op => Awaited' = Awaited
  BY DEF Awaited, TxOf, Content
<1>5. CASE OwnerInstruction \/ Finalize \/ Second \/ UNCHANGED vars
  <2>1. UNCHANGED <<entries, op, late>>
    BY <1>5 DEF OwnerInstruction, VaultInstruction, InitializeVault, ResetVault,
                WipeVault, Finalize, Second, Tick, vars, programVars, processVars
  <2> QED BY <1>2, <1>3, <1>4, <2>1 DEF FlightStep
<1>6. ASSUME NEW tx \in late, LateLand(tx) \/ LateDrop(tx)
      PROVE  FlightStep
  <2>1. late' = late \ {tx} /\ op' = op
    BY <1>6 DEF LateLand, LateDrop
  <2>2. UNCHANGED entries \/ Execute(tx)
    BY <1>6 DEF LateLand, LateDrop, programVars
  <2>3. Settles(tx) /\ tx \in InFlight
    BY <1>2, <1>3, <1>4, <2>1 DEF Settles
  <2> QED BY <2>2, <2>3 DEF FlightStep
<1>7. ASSUME NEW p \in Procs, Start(p) \/ Work(p), ~Send(p)
      PROVE  FlightStep
  BY <1>7, QuietSteps DEF FlightStep, programVars
<1>8. ASSUME NEW p \in Procs, GiveUp(p)
      PROVE  FlightStep
  <2>1. /\ \A q \in Procs \ {p} : op'[q] = op[q]
        /\ op'[p].pc # "sent" /\ UNCHANGED entries
        /\ late' = late \/ \E tx \in Submitted(p) : late' = late \cup {tx}
    BY <1>1, <1>8 DEF GiveUp, Finish, IdleOp, programVars
  <2>2. CASE op[p].pc = "sent"
    <3>1. late' \in {late, late \cup {TxOf(p)}}
      BY <2>1 DEF Submitted
    <3>2. /\ TxOf(p) \in Awaited
          /\ Awaited \ {TxOf(p)} \subseteq Awaited' /\ Awaited' \subseteq Awaited
      BY <2>1, <2>2, AwaitedMoves
    <3>3. TxOf(p) \in InFlight /\ Settles(TxOf(p))
      BY <1>2, <1>3, <3>1, <3>2 DEF Settles
    <3> QED BY <2>1, <3>3 DEF FlightStep
  <2>3. CASE op[p].pc # "sent"
    <3>1. Awaited' = Awaited
      BY <2>1, <2>3, AwaitedMoves
    <3>2. ASSUME NEW tx \in Submitted(p), late' = late \cup {tx}
          PROVE  FlightStep
      <4>1. tx \in TxType
        BY <2>3, TxTyped DEF Submitted
      <4> QED BY <1>2, <1>3, <2>1, <3>1, <3>2, <4>1 DEF FlightStep, Sends
    <3>3. CASE late' = late
      BY <1>2, <1>3, <2>1, <3>1, <3>3 DEF FlightStep
    <3> QED BY <2>1, <3>2, <3>3
  <2> QED BY <2>2, <2>3
<1>9. ASSUME NEW p \in Procs, Send(p)
      PROVE  FlightStep
  <2>1. CASE Submit(p)
    <3>1. /\ \A q \in Procs \ {p} : op'[q] = op[q]
          /\ op[p].pc = "submit" /\ op'[p] = [op[p] EXCEPT !.pc = "sent"]
          /\ UNCHANGED <<entries, late>>
      BY <1>1, <2>1 DEF Submit, Goto, programVars
    <3>2. op'[p].pc = "sent" /\ TxOf(p)' = TxOf(p)
      BY <1>1, <3>1 DEF OpType, TxOf, Content
    <3>3. Awaited' = Awaited \cup {TxOf(p)} /\ TxOf(p) \in TxType
      BY <3>1, <3>2, AwaitedMoves, TxTyped
    <3>4. Sends(TxOf(p))
      BY <1>2, <1>3, <3>1, <3>3 DEF Sends
    <3> QED BY <3>1, <3>3, <3>4 DEF FlightStep
  <2>2. CASE SendLost(p)
    <3>1. /\ \A q \in Procs \ {p} : op'[q] = op[q]
          /\ op[p].pc = "submit" /\ op'[p].pc = "retry"
          /\ UNCHANGED entries /\ late' = late \cup {TxOf(p)}
      BY <1>1, <2>2 DEF SendLost, At, Goto, OpType, programVars
    <3>2. Awaited' = Awaited /\ TxOf(p) \in TxType
      BY <3>1, AwaitedMoves, TxTyped
    <3>3. Sends(TxOf(p))
      BY <1>2, <1>3, <3>1, <3>2 DEF Sends
    <3> QED BY <3>1, <3>2, <3>3 DEF FlightStep
  <2>3. CASE PreflightReject(p)
    <3>1. /\ \A q \in Procs \ {p} : op'[q] = op[q]
          /\ op[p].pc # "sent" /\ op'[p].pc # "sent"
          /\ UNCHANGED <<entries, late>>
      BY <1>1, <2>3 DEF PreflightReject, Goto, Finish, IdleOp, OpType, programVars
    <3>2. Awaited' = Awaited
      BY <3>1, AwaitedMoves
    <3> QED BY <1>2, <1>3, <3>1, <3>2 DEF FlightStep
  <2>4. CASE Land(p) \/ Reject(p)
    <3>1. /\ \A q \in Procs \ {p} : op'[q] = op[q]
          /\ op[p].pc = "sent" /\ op'[p].pc # "sent"
          /\ UNCHANGED late
      BY <1>1, <2>4 DEF Land, Reject, Goto, Finish, IdleOp, OpType
    <3>2. UNCHANGED entries \/ Execute(TxOf(p))
      BY <2>4 DEF Land, Reject, programVars
    <3>3. TxOf(p) \in InFlight /\ Settles(TxOf(p))
      BY <1>2, <1>3, <3>1, AwaitedMoves DEF Settles
    <3> QED BY <3>2, <3>3 DEF FlightStep
  <2> QED BY <1>9, <2>1, <2>2, <2>3, <2>4 DEF Send
<1> QED BY <1>5, <1>6, <1>7, <1>8, <1>9 DEF ClientsNext, Chain

(* The same, of the transactions as the store sees them.                   *)
LEMMA PendingMoves ==
  ASSUME NEW tx
  PROVE  /\ InFlight' = InFlight => Pending' = Pending
         /\ Sends(tx) => Pending' = Pending \cup {Abstract(tx)}
         /\ Settles(tx) => Store!Settled(Abstract(tx))
         /\ tx \in InFlight => Abstract(tx) \in Pending
<1>1. \A t : t \in Pending <=> \E x \in InFlight : t = Abstract(x)
  BY DEF Pending
<1>2. \A t : t \in Pending' <=> \E x \in InFlight' : t = Abstract(x)
  BY DEF Pending, Abstract
<1>3. InFlight' = InFlight => Pending' = Pending
  BY DEF Pending, Abstract
<1>4. ASSUME Sends(tx)
      PROVE  Pending' = Pending \cup {Abstract(tx)}
  BY <1>1, <1>2, <1>4 DEF Sends
<1>5. ASSUME Settles(tx)
      PROVE  Store!Settled(Abstract(tx))
  <2>1. Pending' \subseteq Pending /\ Pending \ {Abstract(tx)} \subseteq Pending'
    BY <1>1, <1>2, <1>5 DEF Settles
  <2> QED BY <2>1 DEF Store!Settled
<1> QED BY <1>1, <1>3, <1>4, <1>5

(* A transaction that executes writes in the store over the very value it  *)
(* has as its basis, or removes what is there.                             *)
LEMMA ExecuteWrites ==
  ASSUME TypeInv, NEW tx \in TxType, Execute(tx), Settles(tx),
         tx.kind = "update" => Matches(tx.slot, tx.expected, tx.read)
  PROVE  Store!Write(Abstract(tx)) \/ Store!Remove(Abstract(tx))
<1>1. /\ tx.slot \in U32 /\ tx.data \in Payload /\ tx.data # NoRow
      /\ NoAccount \notin EntryAccount /\ HoldsPayloads(entries)
      /\ \A d \in Payload : d # NoRow
      /\ entries \in [U32 -> EntryAccount \cup {NoAccount}]
  BY ProgramAssumption, ClientsAssumption DEF TxType, TypeInv, TypeOK, ClientTypes
<1>2. Store!Settled(Abstract(tx))
  BY PendingMoves
<1>3. /\ Abstract(tx).slot = tx.slot
      /\ tx.kind = "add" => Abstract(tx).basis = NoRow
      /\ tx.kind = "update" => Abstract(tx).basis = tx.read
      /\ tx.kind \in {"add", "update"} => Abstract(tx).value = tx.data
      /\ tx.kind = "delete" => Abstract(tx).value = NoRow
  BY DEF Abstract
<1>4. CASE tx.kind = "add" /\ AddEntry(tx.slot, tx.data)
  <2>1. /\ entries[tx.slot] = NoAccount
        /\ entries' = [entries EXCEPT ![tx.slot] =
                         [encrypted_data |-> tx.data,
                          created_at |-> clock, updated_at |-> clock]]
        /\ entries'[tx.slot] # NoAccount
    <3>1. clock \in Time /\ tx.data \in Data
      BY <1>1, ClientsAssumption DEF TypeInv, TypeOK
    <3> QED BY <1>1, <1>4, <3>1 DEF AddEntry, AddEntryOk, EntryAccount
  <2>2. Stored' = [Stored EXCEPT ![tx.slot] = tx.data]
    BY <1>1, <2>1 DEF Stored
  <2>3. Stored[tx.slot] = NoRow
    BY <1>1, <2>1 DEF Stored
  <2> QED BY <1>1, <1>2, <1>3, <1>4, <2>2, <2>3 DEF Store!Write
<1>5. CASE tx.kind = "update" /\ UpdateEntry(tx.slot, tx.data, tx.expected)
  <2>1. /\ entries[tx.slot] # NoAccount
        /\ entries[tx.slot].updated_at = tx.expected
        /\ entries' = [entries EXCEPT ![tx.slot].encrypted_data = tx.data,
                                      ![tx.slot].updated_at = clock]
    BY <1>5 DEF UpdateEntry, UpdateEntryOk, Matches
  <2>2. entries'[tx.slot] # NoAccount /\ entries'[tx.slot].encrypted_data = tx.data
    <3>1. clock \in Time /\ tx.data \in Data
      BY <1>1, ClientsAssumption DEF TypeInv, TypeOK
    <3>2. entries'[tx.slot] \in EntryAccount /\ entries'[tx.slot].encrypted_data = tx.data
      BY <1>1, <2>1, <3>1 DEF EntryAccount
    <3> QED BY <1>1, <3>2
  <2>3. Stored' = [Stored EXCEPT ![tx.slot] = tx.data]
    BY <1>1, <2>1, <2>2 DEF Stored
  <2>4. Stored[tx.slot] = tx.read
    BY <1>1, <1>5, <2>1 DEF Stored, Matches
  <2> QED BY <1>1, <1>2, <1>3, <1>5, <2>3, <2>4 DEF Store!Write
<1>6. CASE tx.kind = "delete" /\ DeleteEntry(tx.slot)
  <2>1. /\ entries[tx.slot] # NoAccount
        /\ entries' = [entries EXCEPT ![tx.slot] = NoAccount]
    BY <1>6 DEF DeleteEntry, DeleteEntryOk
  <2>2. Stored' = [Stored EXCEPT ![tx.slot] = NoRow]
    BY <1>1, <2>1 DEF Stored
  <2>3. Stored[tx.slot] # NoRow
    BY <1>1, <2>1 DEF Stored, HoldsPayloads
  <2> QED BY <1>2, <1>3, <1>6, <2>2, <2>3 DEF Store!Remove
<1> QED BY <1>4, <1>5, <1>6, Zenon DEF Execute

(* Every step of the clients is a step of the store or leaves it alone.    *)
LEMMA StoreStep ==
  ASSUME TypeInv, StampInv, [ClientsNext]_vars
  PROVE  [Store!StoreNext]_(Store!storeVars)
<1>1. entries' = entries => Stored' = Stored
  BY DEF Stored
<1>2. CASE UNCHANGED entries /\ InFlight' = InFlight
  BY <1>1, <1>2, PendingMoves DEF Store!storeVars
<1>3. ASSUME UNCHANGED entries, NEW tx \in TxType, Sends(tx)
      PROVE  Store!StoreNext
  <2>1. Pending' = Pending \cup {Abstract(tx)}
    BY <1>3, PendingMoves
  <2>2. Abstract(tx) \in Store!Transaction
    BY <1>3 DEF Abstract, TxType, Store!Transaction
  <2> QED BY <1>1, <1>3, <2>1, <2>2 DEF Store!StoreNext, Store!Submit
<1>4. ASSUME NEW tx \in InFlight, Settles(tx), UNCHANGED entries
      PROVE  [Store!StoreNext]_(Store!storeVars)
  <2>1. Abstract(tx) \in Pending /\ Store!Settled(Abstract(tx)) /\ UNCHANGED Stored
    BY <1>1, <1>4, PendingMoves
  <2> QED BY <2>1 DEF Store!StoreNext, Store!Settled, Store!Discard, Store!storeVars
<1>5. ASSUME NEW tx \in InFlight, Settles(tx), Execute(tx)
      PROVE  Store!StoreNext
  <2>1. tx \in TxType /\ (tx.kind = "update" => Matches(tx.slot, tx.expected, tx.read))
    <3>1. CASE tx \in late
      BY <3>1 DEF StampInv, LateMatches, TypeInv, ClientTypes, ClientsTypeOK
    <3>2. ASSUME NEW p \in Procs, op[p].pc = "sent", tx = TxOf(p)
          PROVE  tx \in TxType /\ (tx.kind = "update" => Matches(tx.slot, tx.expected, tx.read))
      <4>1. tx \in TxType
        BY <3>2, TxTyped
      <4> QED BY <3>2, <4>1 DEF StampInv, OpMatches, TxOf
    <3> QED BY <3>1, <3>2 DEF InFlight
  <2>2. Abstract(tx) \in Pending
    BY <1>5, PendingMoves
  <2> QED BY <1>5, <2>1, <2>2, ExecuteWrites DEF Store!StoreNext
<1> QED BY <1>2, <1>3, <1>4, <1>5, FlightMoves DEF FlightStep

(* With one write per second of the cluster's clock, the clients and the   *)
(* program implement the optimistic store: no update replaces content that *)
(* its transaction was not built on, whatever races or arrives late.       *)
THEOREM ImplementsStoreCorrect ==
  ASSUME ~SameSecondWrites
  PROVE  ClientsSpec => ImplementsOptimisticStore
<1>1. ClientsInit => TypeInv /\ StampInv
  BY TypeInvInit, StampInit
<1>2. TypeInv /\ StampInv /\ [ClientsNext]_vars => TypeInv' /\ StampInv'
  BY TypeInvStep, StampInvStep
<1>3. ClientsInit => Store!StoreInit
  BY DEF ClientsInit, Init, Store!StoreInit, Stored, Pending, InFlight, IdleOp
<1>4. TypeInv /\ StampInv /\ [ClientsNext]_vars => [Store!StoreNext]_(Store!storeVars)
  BY StoreStep
<1> QED BY <1>1, <1>2, <1>3, <1>4, PTL
        DEF ClientsSpec, ImplementsOptimisticStore, Store!StoreSpec

=============================================================================
