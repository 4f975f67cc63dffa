--------------------------- MODULE SoLockProgram ---------------------------
(***************************************************************************)
(* The on-chain program of SoLock (program/programs/solock/src/lib.rs).    *)
(*                                                                         *)
(* One owner's accounts: the VaultMeta account, the entry accounts and the *)
(* group accounts.  Every program-derived address is seeded with the       *)
(* signer's key, so the accounts of two owners are disjoint and the        *)
(* Unauthorized checks can only be reached by the owner; the model is the  *)
(* vault of one owner.  An instruction is atomic: it either passes every   *)
(* account constraint and require!, and then does all of its writes, or it *)
(* aborts and changes nothing.  The predicate XxxOk is what lets the       *)
(* instruction through; the action Xxx is the instruction that went        *)
(* through.                                                                *)
(***************************************************************************)
EXTENDS Naturals, Sequences, FiniteSets, SequencesExt

CONSTANTS
  U32Max,               \* largest u32: an index or a counter
  FREE_SLOTS_CAPACITY,  \* how many freed slots VaultMeta has room for
  TimeMax,              \* bound on the cluster clock (a bound of the model)
  Data,                 \* encrypted payloads, opaque to the program
  EmptyData,            \* the payload of length zero
  TooLarge,             \* payloads longer than MAX_GROUP_DATA_LEN
  NoAccount             \* what an address without an account holds

U32  == 0 .. U32Max
Time == 0 .. TimeMax

EntryAccount == [encrypted_data : Data, created_at : Time, updated_at : Time]
GroupAccount == [encrypted_data : Data, deleted : BOOLEAN]

VaultMeta ==
  [next_index : U32, entry_count : U32, free_slots : Seq(U32),
   next_group_index : U32, group_count : U32]

ASSUME ProgramAssumption ==
  /\ U32Max \in Nat \ {0}
  /\ TimeMax \in Nat \ {0}
  /\ FREE_SLOTS_CAPACITY \in Nat
  /\ EmptyData \in Data
  /\ TooLarge \subseteq Data
  /\ NoAccount \notin EntryAccount
  /\ NoAccount \notin GroupAccount

VARIABLES
  vaultExists,  \* the VaultMeta account has been created
  vault,        \* its fields
  entries,      \* entry accounts by index
  groups,       \* group accounts by index
  clock,        \* Clock::get()?.unix_timestamp, in seconds
  orphaned      \* history: the last wipe of VaultMeta left accounts behind

programVars == <<vaultExists, vault, entries, groups, clock, orphaned>>

LiveEntries == {i \in U32 : entries[i] # NoAccount}
LiveGroups  == {i \in U32 : groups[i] # NoAccount}
ActiveGroups == {i \in LiveGroups : ~groups[i].deleted}
FreeSlots   == ToSet(vault.free_slots)

EmptyVault ==
  [next_index |-> 0, entry_count |-> 0, free_slots |-> <<>>,
   next_group_index |-> 0, group_count |-> 0]

\* Mutated: a plain subtraction.
PlainPred(n) == n - 1

\* u32::saturating_sub(1)
SaturatingPred(n) == IF n = 0 THEN 0 ELSE n - 1

\* Mutated: ">" for ">=", and the bump done whatever the index.
NextAfterStrict(next, index)        == IF index > next THEN index + 1 ELSE next
NextAfterUnconditional(next, index) == index + 1

\* next_index and next_group_index after an account is made at index.
NextAfter(next, index) == IF index >= next THEN index + 1 ELSE next

\* The clock starts at 1: the chain's time is never 0, which update_entry
\* takes to mean "no expectation".
Init ==
  /\ vaultExists = FALSE
  /\ vault = EmptyVault
  /\ entries = [i \in U32 |-> NoAccount]
  /\ groups = [i \in U32 |-> NoAccount]
  /\ clock = 1
  /\ orphaned = FALSE

-----------------------------------------------------------------------------
(* The vault.  Neither instruction closes the entry or group accounts. *)

WipeVault ==
  /\ vault' = EmptyVault
  /\ orphaned' = (LiveEntries \cup LiveGroups # {})
  /\ UNCHANGED <<entries, groups, clock>>

\* init_if_needed: initializing a vault that exists wipes its metadata.
InitializeVault ==
  /\ vaultExists' = TRUE
  /\ WipeVault

ResetVault ==
  /\ vaultExists
  /\ WipeVault
  /\ UNCHANGED vaultExists

-----------------------------------------------------------------------------
(* Entries *)

\* Mutated: init_if_needed instead of init.
AddEntryOverOk(index, encrypted_data) ==
  /\ vaultExists
  /\ encrypted_data # EmptyData
  /\ vault.entry_count < U32Max
  /\ index < vault.next_index \/ index < U32Max

\* #[account(init)] refuses an address that holds an account; the two
\* checked_add(1).unwrap() abort the instruction at the end of the range.
AddEntryOk(index, encrypted_data) ==
  /\ vaultExists
  /\ entries[index] = NoAccount
  /\ encrypted_data # EmptyData
  /\ vault.entry_count < U32Max
  /\ index < vault.next_index \/ index < U32Max

\* Mutated: the slot stays in the free list.
AddEntryKeepingSlot(index, encrypted_data) ==
  /\ AddEntryOk(index, encrypted_data)
  /\ entries' = [entries EXCEPT ![index] =
                   [encrypted_data |-> encrypted_data,
                    created_at |-> clock, updated_at |-> clock]]
  /\ vault' = [vault EXCEPT
                 !.entry_count = @ + 1,
                 !.next_index = NextAfter(@, index)]
  /\ UNCHANGED <<vaultExists, groups, clock, orphaned>>

\* Mutated: the head of the free list leaves it, whichever slot was used.
AddEntryPoppingHead(index, encrypted_data) ==
  /\ AddEntryOk(index, encrypted_data)
  /\ entries' = [entries EXCEPT ![index] =
                   [encrypted_data |-> encrypted_data,
                    created_at |-> clock, updated_at |-> clock]]
  /\ vault' = [vault EXCEPT
                 !.free_slots = IF @ = <<>> THEN @ ELSE Tail(@),
                 !.entry_count = @ + 1,
                 !.next_index = NextAfter(@, index)]
  /\ UNCHANGED <<vaultExists, groups, clock, orphaned>>

AddEntry(index, encrypted_data) ==
  /\ AddEntryOk(index, encrypted_data)
  /\ entries' = [entries EXCEPT ![index] =
                   [encrypted_data |-> encrypted_data,
                    created_at |-> clock, updated_at |-> clock]]
  /\ vault' = [vault EXCEPT
                 !.free_slots = RemoveFirst(@, index),
                 !.entry_count = @ + 1,
                 !.next_index = NextAfter(@, index)]
  /\ UNCHANGED <<vaultExists, groups, clock, orphaned>>

\* Mutated: the expected stamp is not compared.
UpdateEntryUncheckedOk(index, encrypted_data, expected_updated_at) ==
  /\ vaultExists
  /\ entries[index] # NoAccount
  /\ encrypted_data # EmptyData

UpdateEntryOk(index, encrypted_data, expected_updated_at) ==
  /\ vaultExists
  /\ entries[index] # NoAccount
  /\ encrypted_data # EmptyData
  /\ expected_updated_at # 0 =>
       entries[index].updated_at = expected_updated_at

UpdateEntry(index, encrypted_data, expected_updated_at) ==
  /\ UpdateEntryOk(index, encrypted_data, expected_updated_at)
  /\ entries' = [entries EXCEPT ![index].encrypted_data = encrypted_data,
                                ![index].updated_at = clock]
  /\ UNCHANGED <<vaultExists, vault, groups, clock, orphaned>>

\* Mutated: "<=" for "<".
DeleteEntryOverfullOk(index) ==
  /\ vaultExists
  /\ entries[index] # NoAccount
  /\ Len(vault.free_slots) <= FREE_SLOTS_CAPACITY

DeleteEntryOk(index) ==
  /\ vaultExists
  /\ entries[index] # NoAccount
  /\ Len(vault.free_slots) < FREE_SLOTS_CAPACITY

\* Mutated: the entry is not taken off the count.
DeleteEntryUncounted(index) ==
  /\ DeleteEntryOk(index)
  /\ entries' = [entries EXCEPT ![index] = NoAccount]
  /\ vault' = [vault EXCEPT !.free_slots = Append(@, index)]
  /\ UNCHANGED <<vaultExists, groups, clock, orphaned>>

DeleteEntry(index) ==
  /\ DeleteEntryOk(index)
  /\ entries' = [entries EXCEPT ![index] = NoAccount]
  /\ vault' = [vault EXCEPT
                 !.entry_count = SaturatingPred(@),
                 !.free_slots = Append(@, index)]
  /\ UNCHANGED <<vaultExists, groups, clock, orphaned>>

-----------------------------------------------------------------------------
(* Groups: deleted softly first, then purged.  Their indices have no free  *)
(* list.                                                                   *)

AddGroupOk(index, encrypted_data) ==
  /\ vaultExists
  /\ groups[index] = NoAccount
  /\ encrypted_data \notin TooLarge \cup {EmptyData}
  /\ vault.group_count < U32Max
  /\ index < vault.next_group_index \/ index < U32Max

AddGroup(index, encrypted_data) ==
  /\ AddGroupOk(index, encrypted_data)
  /\ groups' = [groups EXCEPT ![index] =
                  [encrypted_data |-> encrypted_data, deleted |-> FALSE]]
  /\ vault' = [vault EXCEPT
                 !.group_count = @ + 1,
                 !.next_group_index = NextAfter(@, index)]
  /\ UNCHANGED <<vaultExists, entries, clock, orphaned>>

UpdateGroupOk(index, encrypted_data) ==
  /\ vaultExists
  /\ groups[index] # NoAccount
  /\ encrypted_data \notin TooLarge \cup {EmptyData}
  /\ ~groups[index].deleted

UpdateGroup(index, encrypted_data) ==
  /\ UpdateGroupOk(index, encrypted_data)
  /\ groups' = [groups EXCEPT ![index].encrypted_data = encrypted_data]
  /\ UNCHANGED <<vaultExists, vault, entries, clock, orphaned>>

DeleteGroupOk(index) ==
  /\ vaultExists
  /\ groups[index] # NoAccount
  /\ ~groups[index].deleted

DeleteGroup(index) ==
  /\ DeleteGroupOk(index)
  /\ groups' = [groups EXCEPT ![index].deleted = TRUE]
  /\ vault' = [vault EXCEPT !.group_count = SaturatingPred(@)]
  /\ UNCHANGED <<vaultExists, entries, clock, orphaned>>

\* Mutated: no require!(group.deleted).
PurgeActiveGroupOk(index) ==
  /\ vaultExists
  /\ groups[index] # NoAccount

PurgeGroupOk(index) ==
  /\ vaultExists
  /\ groups[index] # NoAccount
  /\ groups[index].deleted

\* Mutated: the purge takes the group off the count a second time.
PurgeGroupRecounting(index) ==
  /\ PurgeGroupOk(index)
  /\ groups' = [groups EXCEPT ![index] = NoAccount]
  /\ vault' = [vault EXCEPT !.group_count = SaturatingPred(@)]
  /\ UNCHANGED <<vaultExists, entries, clock, orphaned>>

PurgeGroup(index) ==
  /\ PurgeGroupOk(index)
  /\ groups' = [groups EXCEPT ![index] = NoAccount]
  /\ UNCHANGED <<vaultExists, vault, entries, clock, orphaned>>

-----------------------------------------------------------------------------
\* The cluster's clock has a granularity of one second; any number of
\* transactions share a second.
Tick ==
  /\ clock < TimeMax
  /\ clock' = clock + 1
  /\ UNCHANGED <<vaultExists, vault, entries, groups, orphaned>>

VaultInstruction == InitializeVault \/ ResetVault

EntryInstruction ==
  \E i \in U32 :
    \/ \E d \in Data : AddEntry(i, d)
    \/ \E d \in Data, t \in Time : UpdateEntry(i, d, t)
    \/ DeleteEntry(i)

GroupInstruction ==
  \E i \in U32 :
    \/ \E d \in Data : AddGroup(i, d)
    \/ \E d \in Data : UpdateGroup(i, d)
    \/ DeleteGroup(i)
    \/ PurgeGroup(i)

Next == VaultInstruction \/ EntryInstruction \/ GroupInstruction \/ Tick

Spec == Init /\ [][Next]_programVars

-----------------------------------------------------------------------------
(* Type invariant: each field keeps the Rust type's range, and the stamps  *)
(* come from the clock.                                                    *)
TypeOK ==
  /\ vaultExists \in BOOLEAN
  /\ vault \in VaultMeta
  /\ entries \in [U32 -> EntryAccount \cup {NoAccount}]
  /\ groups \in [U32 -> GroupAccount \cup {NoAccount}]
  /\ clock \in Time
  /\ orphaned \in BOOLEAN

(* The free list never holds a slot twice and never a slot whose account   *)
(* exists, even across resets that strand accounts: add_entry removes only *)
(* the first occurrence of an index, so a duplicate would survive the      *)
(* reuse of its slot and hand a live slot out again.                       *)
FreeListSound ==
  /\ \A p, q \in DOMAIN vault.free_slots :
       p # q => vault.free_slots[p] # vault.free_slots[q]
  /\ FreeSlots \cap LiveEntries = {}

(* Unless a wipe stranded accounts, every entry account and every freed    *)
(* slot lies below next_index: the scan of sync over 0..next_index-1 finds *)
(* every entry, and next_index is always vacant.                           *)
SlotsBelowNext ==
  ~orphaned => \A i \in LiveEntries \cup FreeSlots : i < vault.next_index

(* Wipes and saturating decrements included, entry_count never exceeds the *)
(* number of entry accounts, and unless a wipe stranded accounts it is     *)
(* exactly that number.                                                    *)
EntryCountSound ==
  /\ vault.entry_count <= Cardinality(LiveEntries)
  /\ ~orphaned => vault.entry_count = Cardinality(LiveEntries)

(* Unless a wipe stranded accounts, group_count is the number of groups    *)
(* not softly deleted, and every group account lies below                  *)
(* next_group_index.                                                       *)
GroupsAccounted ==
  ~orphaned =>
    /\ vault.group_count = Cardinality(ActiveGroups)
    /\ \A i \in LiveGroups : i < vault.next_group_index

(* The serialized VaultMeta (8-byte discriminator, 32-byte owner, five     *)
(* 4-byte integers and lengths, the bump, 4 bytes per freed slot) always   *)
(* fits VAULT_BASE_SPACE, which no instruction on entries reallocates.     *)
VAULT_BASE_SPACE == 8 + 32 + 4 + 4 + 1 + 4 + FREE_SLOTS_CAPACITY * 4 + 4 + 4
VaultSize == 8 + 32 + 4 + 4 + 1 + 4 + 4 * Len(vault.free_slots) + 4 + 4
VaultFits == VaultSize <= VAULT_BASE_SPACE

(* No instruction replaces an entry account in place: an account that      *)
(* survives a step keeps its creation time, and its data changes only with *)
(* updated_at moving to the clock.                                         *)
EntryRewritten(i) ==
  /\ entries'[i].created_at = entries[i].created_at
  /\ entries'[i].updated_at >= entries[i].updated_at
  /\ entries'[i] # entries[i] => entries'[i].updated_at = clock
EntriesNeverReplaced ==
  [][\A i \in U32 : entries[i] # NoAccount /\ entries'[i] # NoAccount
                      => EntryRewritten(i)]_programVars

(* A softly deleted group is frozen: neither edited nor revived, it can    *)
(* only be purged; and only a softly deleted group disappears.             *)
DeletedGroupsFrozen ==
  [][\A i \in U32 : groups[i] # NoAccount =>
       IF groups[i].deleted THEN groups'[i] \in {groups[i], NoAccount}
                            ELSE groups'[i] # NoAccount]_programVars

(* next_index goes down only with a wipe of the whole VaultMeta, and a     *)
(* slot leaves the free list only when it is reused or wiped.              *)
SlotsOnlyReclaimed ==
  [][vault' = EmptyVault
     \/ /\ vault'.next_index >= vault.next_index
        /\ \A i \in FreeSlots : i \in FreeSlots' \/ i \in LiveEntries']_programVars
=============================================================================
