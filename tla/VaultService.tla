---------------------------- MODULE VaultService ----------------------------
(* The vault process as the windows of the desktop client see it, and what *)
(* desktop/src/client.c makes of its answers.  A call is synchronous: the  *)
(* main loop waits for it.  It answers; it is refused by a locked vault,   *)
(* which the client remembers; or it fails on the way, and then a write    *)
(* may have been carried out although its answer is lost.                  *)
EXTENDS ListOrder

CONSTANTS
  Slots,          \* slot indices of entries
  Groups,         \* indices of groups
  InitialGroup,   \* the group of each entry at the start
  InitialState,   \* the groups at the start
  MaxChange       \* bound on the changes of the vault (a bound of the model)

ASSUME ServiceAssumption ==
  /\ IsFiniteSet(Slots) /\ Slots \subseteq Nat
  /\ IsFiniteSet(Groups) /\ Groups \subseteq Nat
  /\ InitialState \in [Groups -> GroupStates]
  /\ InitialGroup \in [Slots -> Groups \cup {None, Absent}]
  /\ MaxChange \in Nat
  /\ NULL \notin Slots /\ NULL \notin [Groups -> GroupStates]

VARIABLES
  entryGroup,    \* the group of each entry in the vault
  groupState,    \* the groups of the vault
  srvLocked,     \* whether the vault is locked
  changes,       \* how often the vault has been changed
  clientLocked,  \* SolockClient.locked
  trayLocked     \* TrayData.locked

vaultVars == <<entryGroup, groupState, srvLocked, changes>>
lockVars  == <<clientLocked, trayLocked>>

InitService ==
  /\ entryGroup = InitialGroup
  /\ groupState = InitialState
  /\ srvLocked = FALSE
  /\ changes = 0
  /\ clientLocked = FALSE
  /\ trayLocked = FALSE

-----------------------------------------------------------------------------
(* solock_client_call *)

Answers      == IF srvLocked THEN {"locked", "failed"} ELSE {"ok", "failed"}
Refused == Answers \ {"ok"}

\* A write the vault accepts when "accepted" holds.
WriteAnswers(accepted) ==
  IF srvLocked \/ ~accepted \/ changes = MaxChange THEN Refused
  ELSE {"ok", "failed", "lost"}

Done(answer) == answer \in {"ok", "lost"}

CountWrite(answer) == changes' = changes + (IF Done(answer) THEN 1 ELSE 0)

\* The client's view of the lock once a call has answered.
LockedAfter(locked, answer) == locked \/ answer = "locked"

\* solock_client_list_groups: the list, or nothing.
GroupList(answer) == IF answer = "ok" THEN groupState ELSE NULL

\* solock_client_get_entry answers for an entry that is there.
EntryAnswers(there, slot) ==
  IF there[slot] = Absent THEN Refused ELSE Answers

\* solock_client_update_entry: clearing wins over a group, and a group that
\* is not given leaves the entry's own.
UpdatedGroup(old, group, clear) ==
  IF clear THEN None ELSE IF group >= 0 THEN group ELSE old

\* A group is added at the next index, deleted, or purged once deleted.
NextGroup(g) ==
  groupState[g] = "absent" /\ \A h \in Groups : groupState[h] = "absent" => g <= h

NextState ==
  [state \in {"absent", "active", "deleted"} |->
     CASE state = "absent"  -> "active"
       [] state = "active"  -> "deleted"
       [] state = "deleted" -> "purged"]

-----------------------------------------------------------------------------
(* The vault's other users *)

OthersChange ==
  /\ changes < MaxChange
  /\ changes' = changes + 1
  /\ UNCHANGED lockVars

EntryChanges(s, g) ==
  /\ OthersChange
  /\ g \in {None, Absent} \cup ActiveIn(groupState)
  /\ entryGroup[s] # g
  /\ entryGroup' = [entryGroup EXCEPT ![s] = g]
  /\ UNCHANGED <<groupState, srvLocked>>

GroupChanges(g) ==
  /\ OthersChange
  /\ groupState[g] \in DOMAIN NextState
  /\ groupState[g] = "absent" => NextGroup(g)
  /\ groupState' = [groupState EXCEPT ![g] = NextState[@]]
  /\ UNCHANGED <<entryGroup, srvLocked>>

VaultLocks ==
  /\ OthersChange
  /\ ~srvLocked
  /\ srvLocked' = TRUE
  /\ UNCHANGED <<entryGroup, groupState>>

\* The unlock page of the popup, which opens over the windows.
Unlock ==
  /\ clientLocked
  /\ srvLocked' = FALSE
  /\ clientLocked' = FALSE
  /\ trayLocked' = FALSE
  /\ UNCHANGED <<entryGroup, groupState, changes>>

ServiceTypeOK ==
  /\ entryGroup \in [Slots -> Groups \cup {None, Absent}]
  /\ groupState \in [Groups -> GroupStates]
  /\ changes \in 0 .. MaxChange
  /\ {srvLocked, clientLocked, trayLocked} \subseteq BOOLEAN
=============================================================================
