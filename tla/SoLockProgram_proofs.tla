----------------------- MODULE SoLockProgram_proofs -----------------------
(***************************************************************************)
(* Proofs about the on-chain program, for every value of its constants.    *)
(***************************************************************************)
EXTENDS SoLockProgram, TLAPS, SequenceTheorems, FiniteSetTheorems,
        WellFoundedInduction

Distinct(s) == \A p, q \in DOMAIN s : p # q => s[p] # s[q]

-----------------------------------------------------------------------------
(* Sequences *)

(* A set of naturals that is not empty has a least element.                *)
LEMMA LeastNatural ==
  ASSUME NEW I \in SUBSET Nat, I # {}
  PROVE  Min(I) \in I /\ \A j \in I : Min(I) <= j
<1> DEFINE R == {ss \in Nat \X Nat : ss[1] < ss[2]}
<1>1. IsWellFoundedOn(R, Nat)
  BY NatLessThanWellFounded, Zenon DEF OpToRel
<1> HIDE DEF R
<1>2. \E i \in I : \A j \in I : <<j, i>> \notin R
  BY <1>1, WFMin, Zenon
<1>3. PICK i \in I : \A j \in I : <<j, i>> \notin R
  BY <1>2
<1>4. ASSUME NEW j \in I
      PROVE  i <= j
  <2>1. <<j, i>> \in Nat \X Nat /\ <<j, i>> \notin R
    BY <1>3, <1>4
  <2>2. ~(<<j, i>>[1] < <<j, i>>[2])
    BY <2>1 DEF R
  <2> QED BY <2>2
<1> QED BY <1>3, <1>4 DEF Min

(* RemoveAt(s, p), for a position p of s, drops that position and shifts   *)
(* the later ones down.                                                    *)
LEMMA RemoveAtProperties ==
  ASSUME NEW S, NEW s \in Seq(S), NEW p \in 1 .. Len(s)
  PROVE  /\ RemoveAt(s, p) \in Seq(S)
         /\ Len(RemoveAt(s, p)) = Len(s) - 1
         /\ \A k \in 1 .. Len(s) - 1 :
              RemoveAt(s, p)[k] = IF k < p THEN s[k] ELSE s[k + 1]
<1> DEFINE front == SubSeq(s, 1, p - 1)
           back  == SubSeq(s, p + 1, Len(s))
<1>0. Len(s) \in Nat /\ p \in Nat
  BY LenProperties
<1>1. /\ front \in Seq(S)
      /\ Len(front) = p - 1
      /\ \A k \in 1 .. p - 1 : front[k] = s[k]
  BY SubSeqProperties
<1>2. /\ back \in Seq(S)
      /\ Len(back) = Len(s) - p
      /\ \A k \in 1 .. Len(s) - p : back[k] = s[p + k]
  BY SubSeqProperties
<1>3. RemoveAt(s, p) = front \o back
  BY DEF RemoveAt
<1> HIDE DEF front, back
<1>4. /\ front \o back \in Seq(S)
      /\ Len(front \o back) = Len(front) + Len(back)
      /\ \A k \in 1 .. Len(front) + Len(back) :
           (front \o back)[k] = IF k <= Len(front) THEN front[k]
                                ELSE back[k - Len(front)]
  BY <1>1, <1>2, ConcatProperties
<1>5. ASSUME NEW k \in 1 .. Len(s) - 1
      PROVE  (front \o back)[k] = IF k < p THEN s[k] ELSE s[k + 1]
  <2>1. CASE k < p
    BY <1>1, <1>2, <1>4, <2>1
  <2>2. CASE k >= p
    <3> DEFINE m == k - (p - 1)
    <3>1. m \in 1 .. Len(s) - p /\ p + m = k + 1 /\ ~(k <= Len(front))
      BY <1>0, <1>1, <2>2
    <3>2. (front \o back)[k] = back[k - Len(front)]
      BY <1>0, <1>1, <1>2, <1>4, <3>1
    <3>3. k - Len(front) = m
      BY <1>1
    <3>4. back[m] = s[p + m]
      BY <1>2, <3>1
    <3> QED BY <1>0, <2>2, <3>1, <3>2, <3>3, <3>4
  <2>3. k < p \/ k >= p
    BY <1>0
  <2> QED BY <2>1, <2>2, <2>3, Zenon
<1> QED BY <1>1, <1>2, <1>3, <1>4, <1>5

(* RemoveFirst(s, e) keeps a sequence free of duplicates, and of such a    *)
(* sequence it removes e and nothing else.                                 *)
LEMMA RemoveFirstProperties ==
  ASSUME NEW S, NEW s \in Seq(S), NEW e
  PROVE  /\ RemoveFirst(s, e) \in Seq(S)
         /\ Len(RemoveFirst(s, e)) <= Len(s)
         /\ Distinct(s) =>
              /\ Distinct(RemoveFirst(s, e))
              /\ ToSet(RemoveFirst(s, e)) = ToSet(s) \ {e}
<1> DEFINE r == RemoveFirst(s, e)
<1>1. CASE ~ \E i \in 1 .. Len(s) : s[i] = e
  <2>1. r = s
    BY <1>1 DEF RemoveFirst
  <2> QED BY <1>1, <2>1 DEF ToSet
<1>2. CASE \E i \in 1 .. Len(s) : s[i] = e
  <2> DEFINE I == {i \in 1 .. Len(s) : s[i] = e}
  <2>1. PICK p \in 1 .. Len(s) : s[p] = e /\ r = RemoveAt(s, p)
    <3>1. I # {} /\ I \in SUBSET Nat
      BY <1>2
    <3>2. Min(I) \in I
      BY <3>1, LeastNatural
    <3>3. r = RemoveAt(s, Min(I))
      BY <1>2, <3>1 DEF RemoveFirst, SelectInSeq
    <3> QED BY <3>2, <3>3
  <2>2. /\ r \in Seq(S)
        /\ Len(r) = Len(s) - 1
        /\ \A k \in 1 .. Len(s) - 1 : r[k] = IF k < p THEN s[k] ELSE s[k + 1]
    BY <2>1, RemoveAtProperties
  <2> HIDE DEF r, I
  <2>a. /\ Len(s) \in Nat
        /\ DOMAIN s = 1 .. Len(s)
        /\ DOMAIN r = 1 .. Len(s) - 1
    BY <2>2, LenProperties
  <2>b. \A k \in DOMAIN r : \E i \in DOMAIN s :
          r[k] = s[i] /\ i = IF k < p THEN k ELSE k + 1
    BY <2>2, <2>a
  <2>3. ASSUME Distinct(s)
        PROVE  Distinct(r)
    <3>1. SUFFICES ASSUME NEW k \in DOMAIN r, NEW l \in DOMAIN r, k # l
                   PROVE  r[k] # r[l]
      BY DEF Distinct
    <3>2. PICK i \in DOMAIN s : r[k] = s[i] /\ i = IF k < p THEN k ELSE k + 1
      BY <2>b
    <3>3. PICK j \in DOMAIN s : r[l] = s[j] /\ j = IF l < p THEN l ELSE l + 1
      BY <2>b
    <3>4. i # j
      BY <2>a, <3>1, <3>2, <3>3
    <3> QED BY <2>3, <3>2, <3>3, <3>4 DEF Distinct
  <2>4. ASSUME Distinct(s)
        PROVE  ToSet(r) = ToSet(s) \ {e}
    <3>1. ASSUME NEW k \in DOMAIN r
          PROVE  r[k] \in ToSet(s) \ {e}
      <4>1. PICK i \in DOMAIN s : r[k] = s[i] /\ i = IF k < p THEN k ELSE k + 1
        BY <2>b
      <4>2. i # p
        BY <2>a, <4>1
      <4>3. s[i] # s[p]
        BY <2>4, <2>a, <4>2 DEF Distinct
      <4> QED BY <2>1, <4>1, <4>3 DEF ToSet
    <3>2. ASSUME NEW i \in 1 .. Len(s), s[i] # e
          PROVE  s[i] \in ToSet(r)
      <4>1. CASE i < p
        BY <2>2, <2>a, <4>1 DEF ToSet
      <4>2. CASE i > p
        <5>1. i - 1 \in 1 .. Len(s) - 1 /\ r[i - 1] = s[i]
          BY <2>2, <2>a, <4>2
        <5> QED BY <2>a, <5>1 DEF ToSet
      <4> QED BY <2>1, <3>2, <4>1, <4>2
    <3> QED BY <2>a, <3>1, <3>2 DEF ToSet
  <2> QED BY <2>2, <2>3, <2>4, <2>a DEF r
<1> QED BY <1>1, <1>2

(* Appending a new element keeps a sequence free of duplicates.            *)
LEMMA AppendDistinct ==
  ASSUME NEW S, NEW s \in Seq(S), NEW e \in S
  PROVE  /\ Append(s, e) \in Seq(S)
         /\ Len(Append(s, e)) = Len(s) + 1
         /\ ToSet(Append(s, e)) = ToSet(s) \cup {e}
         /\ Distinct(s) /\ e \notin ToSet(s) => Distinct(Append(s, e))
<1>1. /\ Append(s, e) \in Seq(S)
      /\ Len(Append(s, e)) = Len(s) + 1
      /\ \A k \in 1 .. Len(s) : Append(s, e)[k] = s[k]
      /\ Append(s, e)[Len(s) + 1] = e
  BY AppendProperties
<1>2. DOMAIN Append(s, e) = DOMAIN s \cup {Len(s) + 1}
  BY <1>1
<1>3. ToSet(Append(s, e)) = ToSet(s) \cup {e}
  BY <1>1, <1>2 DEF ToSet
<1>4. ASSUME Distinct(s), e \notin ToSet(s)
      PROVE  Distinct(Append(s, e))
  BY <1>1, <1>4 DEF Distinct, ToSet
<1> QED BY <1>1, <1>3, <1>4

-----------------------------------------------------------------------------
(* Type correctness *)

(* The fields of VaultMeta after an instruction that rewrites some.        *)
LEMMA VaultMetaFields ==
  ASSUME TypeOK
  PROVE  /\ vault.next_index \in U32
         /\ vault.entry_count \in U32
         /\ vault.free_slots \in Seq(U32)
         /\ vault.next_group_index \in U32
         /\ vault.group_count \in U32
         /\ \A n, c \in U32, f \in Seq(U32) :
              [vault EXCEPT !.free_slots = f, !.entry_count = c,
                            !.next_index = n] \in VaultMeta
         /\ \A c \in U32, f \in Seq(U32) :
              [vault EXCEPT !.entry_count = c, !.free_slots = f] \in VaultMeta
         /\ \A n, c \in U32 :
              [vault EXCEPT !.group_count = c, !.next_group_index = n]
                \in VaultMeta
         /\ \A c \in U32 : [vault EXCEPT !.group_count = c] \in VaultMeta
BY DEF TypeOK, VaultMeta

(* A wiped VaultMeta is a VaultMeta.                                       *)
LEMMA EmptyVaultType == EmptyVault \in VaultMeta
BY ProgramAssumption, EmptySeq DEF EmptyVault, VaultMeta, U32

(* Arithmetic of the counters: the guarded increments and the saturating   *)
(* decrement stay in the range of u32.                                     *)
LEMMA CounterRange ==
  ASSUME NEW n \in U32
  PROVE  /\ n \in Nat
         /\ SaturatingPred(n) \in U32
         /\ n < U32Max => n + 1 \in U32
         /\ \A m \in U32 : n < m => n + 1 \in U32
BY ProgramAssumption DEF U32, SaturatingPred

(* The accounts have their types at the start.                             *)
LEMMA TypeInit == Init => TypeOK
<1> SUFFICES ASSUME Init PROVE TypeOK
  OBVIOUS
<1>1. clock \in Time
  BY ProgramAssumption DEF Init, Time
<1>2. /\ vault \in VaultMeta
      /\ vaultExists \in BOOLEAN
      /\ orphaned \in BOOLEAN
  BY EmptyVaultType DEF Init
<1>3. /\ entries \in [U32 -> EntryAccount \cup {NoAccount}]
      /\ groups \in [U32 -> GroupAccount \cup {NoAccount}]
  BY DEF Init
<1> QED BY <1>1, <1>2, <1>3 DEF TypeOK

(* Every instruction and every tick keeps the types of the accounts.       *)
LEMMA TypeStep ==
  ASSUME TypeOK, [Next]_programVars
  PROVE  TypeOK'
<1> USE DEF TypeOK
<1>1. CASE InitializeVault
  BY <1>1, EmptyVaultType DEF InitializeVault, WipeVault
<1>2. CASE ResetVault
  BY <1>2, EmptyVaultType DEF ResetVault, WipeVault
<1>3. ASSUME NEW i \in U32, NEW d \in Data, AddEntry(i, d)
      PROVE  TypeOK'
  <2>1. /\ RemoveFirst(vault.free_slots, i) \in Seq(U32)
        /\ vault.entry_count + 1 \in U32
        /\ (IF i >= vault.next_index THEN i + 1 ELSE vault.next_index) \in U32
    BY <1>3, VaultMetaFields, RemoveFirstProperties, CounterRange
    DEF AddEntry, NextAfter, AddEntryOk
  <2>2. vault' \in VaultMeta
    BY <1>3, <2>1, VaultMetaFields DEF AddEntry, NextAfter
  <2>3. [encrypted_data |-> d, created_at |-> clock, updated_at |-> clock]
          \in EntryAccount
    BY DEF EntryAccount
  <2>4. entries' \in [U32 -> EntryAccount \cup {NoAccount}]
    BY <1>3, <2>3 DEF AddEntry, NextAfter
  <2> QED BY <1>3, <2>2, <2>4 DEF AddEntry, NextAfter
<1>4. ASSUME NEW i \in U32, NEW d \in Data, NEW t \in Time,
             UpdateEntry(i, d, t)
      PROVE  TypeOK'
  <2>1. entries[i] \in EntryAccount
    BY <1>4 DEF UpdateEntry, UpdateEntryOk
  <2>2. [entries[i] EXCEPT !.encrypted_data = d, !.updated_at = clock]
          \in EntryAccount
    BY <2>1 DEF EntryAccount
  <2>3. entries' = [entries EXCEPT ![i] =
          [entries[i] EXCEPT !.encrypted_data = d, !.updated_at = clock]]
    BY <1>4 DEF UpdateEntry
  <2> QED BY <1>4, <2>2, <2>3 DEF UpdateEntry
<1>5. ASSUME NEW i \in U32, DeleteEntry(i)
      PROVE  TypeOK'
  <2>1. /\ Append(vault.free_slots, i) \in Seq(U32)
        /\ SaturatingPred(vault.entry_count) \in U32
    BY VaultMetaFields, AppendDistinct, CounterRange
  <2>2. vault' \in VaultMeta
    BY <1>5, <2>1, VaultMetaFields DEF DeleteEntry
  <2> QED BY <1>5, <2>2 DEF DeleteEntry
<1>6. ASSUME NEW i \in U32, NEW d \in Data, AddGroup(i, d)
      PROVE  TypeOK'
  <2>1. /\ vault.group_count + 1 \in U32
        /\ (IF i >= vault.next_group_index THEN i + 1
              ELSE vault.next_group_index) \in U32
    BY <1>6, VaultMetaFields, CounterRange DEF AddGroup, NextAfter, AddGroupOk
  <2>2. vault' \in VaultMeta
    BY <1>6, <2>1, VaultMetaFields DEF AddGroup, NextAfter
  <2>3. [encrypted_data |-> d, deleted |-> FALSE] \in GroupAccount
    BY DEF GroupAccount
  <2> QED BY <1>6, <2>2, <2>3 DEF AddGroup, NextAfter
<1>7. ASSUME NEW i \in U32, NEW d \in Data, UpdateGroup(i, d)
      PROVE  TypeOK'
  <2>1. groups[i] \in GroupAccount
    BY <1>7 DEF UpdateGroup, UpdateGroupOk
  <2>2. [groups[i] EXCEPT !.encrypted_data = d] \in GroupAccount
    BY <2>1 DEF GroupAccount
  <2> QED BY <1>7, <2>2 DEF UpdateGroup
<1>8. ASSUME NEW i \in U32, DeleteGroup(i)
      PROVE  TypeOK'
  <2>1. groups[i] \in GroupAccount
    BY <1>8 DEF DeleteGroup, DeleteGroupOk
  <2>2. [groups[i] EXCEPT !.deleted = TRUE] \in GroupAccount
    BY <2>1 DEF GroupAccount
  <2>3. SaturatingPred(vault.group_count) \in U32
    BY VaultMetaFields, CounterRange
  <2>4. vault' \in VaultMeta
    BY <1>8, <2>3, VaultMetaFields DEF DeleteGroup
  <2> QED BY <1>8, <2>2, <2>4 DEF DeleteGroup
<1>9. ASSUME NEW i \in U32, PurgeGroup(i)
      PROVE  TypeOK'
  BY <1>9 DEF PurgeGroup
<1>10. CASE Tick
  BY <1>10, ProgramAssumption DEF Tick, Time
<1>11. CASE UNCHANGED programVars
  BY <1>11 DEF programVars
<1> QED
  BY <1>1, <1>2, <1>3, <1>4, <1>5, <1>6, <1>7, <1>8, <1>9, <1>10, <1>11
  DEF Next, VaultInstruction, EntryInstruction, GroupInstruction

(* Every field keeps its Rust type: no counter leaves the u32 range, no    *)
(* index outside it enters the free list.                                  *)
THEOREM TypeCorrect == Spec => []TypeOK
BY TypeInit, TypeStep, PTL DEF Spec

-----------------------------------------------------------------------------
(* Slots: the free list, next_index and entry_count *)

(* What the entry invariants read.                                         *)
EntryInv == FreeListSound /\ VaultFits /\ SlotsBelowNext /\ EntryCountSound

(* There are finitely many entry accounts, so they can be counted.         *)
LEMMA LiveFinite ==
  /\ IsFiniteSet(LiveEntries)
  /\ Cardinality(LiveEntries) \in Nat
  /\ IsFiniteSet(LiveEntries')
  /\ Cardinality(LiveEntries') \in Nat
<1>1. IsFiniteSet(U32)
  BY ProgramAssumption, FS_Interval DEF U32
<1>2. LiveEntries \subseteq U32 /\ LiveEntries' \subseteq U32
  BY DEF LiveEntries
<1> QED BY <1>1, <1>2, FS_Subset, FS_CardinalityType

(* An instruction that neither adds nor deletes an entry leaves the entry  *)
(* invariants alone.                                                       *)
LEMMA EntryFrame ==
  ASSUME EntryInv,
         LiveEntries' = LiveEntries,
         vault'.free_slots = vault.free_slots,
         vault'.next_index = vault.next_index,
         vault'.entry_count = vault.entry_count,
         orphaned' = orphaned
  PROVE  EntryInv'
BY DEF EntryInv, FreeListSound, FreeSlots, SlotsBelowNext, EntryCountSound,
       VaultFits, VaultSize, VAULT_BASE_SPACE

(* add_entry moves its slot from vacant, free or not, to live.             *)
LEMMA AddEntryStep ==
  ASSUME TypeOK, EntryInv, NEW i \in U32, NEW d \in Data, AddEntry(i, d)
  PROVE  EntryInv'
<1> DEFINE f == vault.free_slots
           g == RemoveFirst(vault.free_slots, i)
<1>1. /\ f \in Seq(U32)
      /\ vault.next_index \in Nat /\ vault.entry_count \in Nat /\ i \in Nat
  BY VaultMetaFields, CounterRange
<1>2. Distinct(f) /\ ToSet(f) \cap LiveEntries = {}
  BY DEF EntryInv, FreeListSound, FreeSlots, Distinct
<1>3. /\ g \in Seq(U32)
      /\ Len(g) <= Len(f)
      /\ Distinct(g)
      /\ ToSet(g) = ToSet(f) \ {i}
  BY <1>1, <1>2, RemoveFirstProperties
<1>4. /\ vault'.free_slots = g
      /\ vault'.entry_count = vault.entry_count + 1
      /\ vault'.next_index = IF i >= vault.next_index THEN i + 1
                             ELSE vault.next_index
      /\ orphaned' = orphaned
  BY DEF AddEntry, NextAfter, TypeOK, VaultMeta
<1>5. i \notin LiveEntries /\ LiveEntries' = LiveEntries \cup {i}
  <2>1. [encrypted_data |-> d, created_at |-> clock, updated_at |-> clock]
          # NoAccount
    BY ProgramAssumption DEF TypeOK, EntryAccount
  <2> QED BY <2>1 DEF AddEntry, NextAfter, AddEntryOk, LiveEntries, TypeOK
<1>6. Cardinality(LiveEntries') = Cardinality(LiveEntries) + 1
  BY <1>5, LiveFinite, FS_AddElement
<1> HIDE DEF g
<1>7. FreeListSound'
  BY <1>2, <1>3, <1>4, <1>5 DEF FreeListSound, FreeSlots, Distinct
<1>8. VaultFits'
  BY <1>1, <1>3, <1>4, ProgramAssumption, LenProperties
  DEF EntryInv, VaultFits, VaultSize, VAULT_BASE_SPACE
<1>9. SlotsBelowNext'
  <2>1. ASSUME ~orphaned, NEW j \in LiveEntries \cup FreeSlots
        PROVE  j \in U32 /\ j < vault.next_index
    BY <1>1, <2>1 DEF EntryInv, SlotsBelowNext, LiveEntries, FreeSlots, ToSet
  <2>2. vault.next_index <= vault'.next_index /\ i < vault'.next_index
    BY <1>1, <1>4
  <2>3. vault'.next_index \in Nat
    BY <1>1, <1>4
  <2>4. (LiveEntries \cup FreeSlots)' \subseteq LiveEntries \cup FreeSlots \cup {i}
    BY <1>3, <1>4, <1>5 DEF FreeSlots
  <2>5. ASSUME ~orphaned, NEW j \in (LiveEntries \cup FreeSlots)'
        PROVE  j < vault'.next_index
    <3>1. CASE j = i
      BY <2>2, <3>1
    <3>2. CASE j \in LiveEntries \cup FreeSlots
      <4>1. j \in U32 /\ j < vault.next_index
        BY <2>1, <2>5, <3>2
      <4>2. j \in Nat
        BY <4>1, CounterRange
      <4> QED BY <1>1, <2>2, <2>3, <4>1, <4>2
    <3> QED BY <2>4, <2>5, <3>1, <3>2
  <2> QED BY <1>4, <2>5 DEF SlotsBelowNext
<1>10. EntryCountSound'
  BY <1>1, <1>4, <1>6, LiveFinite DEF EntryInv, EntryCountSound
<1> QED BY <1>7, <1>8, <1>9, <1>10 DEF EntryInv

(* delete_entry moves its slot from live to free.                          *)
LEMMA DeleteEntryStep ==
  ASSUME TypeOK, EntryInv, NEW i \in U32, DeleteEntry(i)
  PROVE  EntryInv'
<1> DEFINE f == vault.free_slots
           g == Append(vault.free_slots, i)
<1>1. /\ f \in Seq(U32)
      /\ vault.next_index \in Nat /\ vault.entry_count \in Nat /\ i \in Nat
  BY VaultMetaFields, CounterRange
<1>2. i \in LiveEntries /\ LiveEntries' = LiveEntries \ {i}
  BY DEF DeleteEntry, DeleteEntryOk, LiveEntries, TypeOK
<1>3. Distinct(f) /\ ToSet(f) \cap LiveEntries = {}
  BY DEF EntryInv, FreeListSound, FreeSlots, Distinct
<1>4. /\ g \in Seq(U32)
      /\ Len(g) = Len(f) + 1
      /\ Distinct(g)
      /\ ToSet(g) = ToSet(f) \cup {i}
  BY <1>1, <1>2, <1>3, AppendDistinct
<1>5. /\ vault'.free_slots = g
      /\ vault'.entry_count = SaturatingPred(vault.entry_count)
      /\ vault'.next_index = vault.next_index
      /\ orphaned' = orphaned
      /\ Len(f) < FREE_SLOTS_CAPACITY
  BY DEF DeleteEntry, DeleteEntryOk, TypeOK, VaultMeta
<1>6. /\ Cardinality(LiveEntries') = Cardinality(LiveEntries) - 1
      /\ Cardinality(LiveEntries) # 0
  BY <1>2, LiveFinite, FS_RemoveElement, FS_EmptySet
<1> HIDE DEF g
<1>7. FreeListSound'
  BY <1>2, <1>3, <1>4, <1>5 DEF FreeListSound, FreeSlots, Distinct
<1>8. VaultFits'
  BY <1>1, <1>4, <1>5, ProgramAssumption, LenProperties
  DEF VaultFits, VaultSize, VAULT_BASE_SPACE
<1>9. SlotsBelowNext'
  BY <1>2, <1>4, <1>5 DEF EntryInv, SlotsBelowNext, FreeSlots
<1>10. EntryCountSound'
  BY <1>1, <1>5, <1>6, LiveFinite
  DEF EntryInv, EntryCountSound, SaturatingPred
<1> QED BY <1>7, <1>8, <1>9, <1>10 DEF EntryInv

(* What adding and deleting do to the sets of slots.                       *)
LEMMA AddEntrySlots ==
  ASSUME TypeOK, FreeListSound, NEW i \in U32, NEW d \in Data, AddEntry(i, d)
  PROVE  /\ LiveEntries' = LiveEntries \cup {i}
         /\ FreeSlots' = FreeSlots \ {i}
         /\ vault'.next_index = NextAfter(vault.next_index, i)
         /\ vaultExists'
<1>1. ToSet(RemoveFirst(vault.free_slots, i)) = FreeSlots \ {i}
  BY VaultMetaFields, RemoveFirstProperties DEF FreeListSound, FreeSlots, Distinct
<1>2. /\ vault'.free_slots = RemoveFirst(vault.free_slots, i)
      /\ vault'.next_index = NextAfter(vault.next_index, i)
  BY DEF AddEntry, TypeOK, VaultMeta
<1>3. [encrypted_data |-> d, created_at |-> clock, updated_at |-> clock] # NoAccount
  BY ProgramAssumption DEF TypeOK, EntryAccount
<1>4. LiveEntries' = LiveEntries \cup {i}
  BY <1>3 DEF AddEntry, LiveEntries, TypeOK
<1> QED BY <1>1, <1>2, <1>4 DEF FreeSlots, AddEntry, AddEntryOk

(* What delete_entry does to the free list: the index joins it, whose      *)
(* account no longer exists.                                               *)
LEMMA DeleteEntrySlots ==
  ASSUME TypeOK, NEW i \in U32, DeleteEntry(i)
  PROVE  /\ i \in LiveEntries
         /\ LiveEntries' = LiveEntries \ {i}
         /\ FreeSlots' = FreeSlots \cup {i}
         /\ vault'.next_index = vault.next_index
         /\ vaultExists'
<1>1. ToSet(Append(vault.free_slots, i)) = FreeSlots \cup {i}
  BY VaultMetaFields, AppendDistinct DEF FreeSlots
<1>2. /\ vault'.free_slots = Append(vault.free_slots, i)
      /\ vault'.next_index = vault.next_index
  BY DEF DeleteEntry, TypeOK, VaultMeta
<1>3. i \in LiveEntries /\ LiveEntries' = LiveEntries \ {i}
  BY DEF DeleteEntry, DeleteEntryOk, LiveEntries, TypeOK
<1> QED BY <1>1, <1>2, <1>3 DEF FreeSlots, DeleteEntry, DeleteEntryOk

(* A wipe starts the accounting afresh: it holds at once when nothing was  *)
(* left behind, and only the bound on entry_count when something was.      *)
LEMMA WipeStep ==
  ASSUME TypeOK, WipeVault
  PROVE  EntryInv'
<1>1. vault' = EmptyVault /\ LiveEntries' = LiveEntries
  BY DEF WipeVault, LiveEntries
<1>2. ~orphaned' => LiveEntries' = {}
  BY <1>1 DEF WipeVault
<1>3. DOMAIN vault'.free_slots = {} /\ FreeSlots' = {}
  BY <1>1 DEF EmptyVault, FreeSlots, ToSet
<1>4. VaultFits'
  BY <1>1, ProgramAssumption
  DEF EmptyVault, VaultFits, VaultSize, VAULT_BASE_SPACE
<1>5. EntryCountSound'
  BY <1>1, <1>2, LiveFinite, FS_EmptySet DEF EmptyVault, EntryCountSound
<1> QED
  BY <1>2, <1>3, <1>4, <1>5 DEF EntryInv, FreeListSound, SlotsBelowNext

(* Every instruction and every tick keeps the entry invariant.             *)
LEMMA EntryStep ==
  ASSUME TypeOK, EntryInv, [Next]_programVars
  PROVE  EntryInv'
<1>1. CASE VaultInstruction
  BY <1>1, WipeStep DEF VaultInstruction, InitializeVault, ResetVault
<1>2. CASE EntryInstruction
  <2>1. ASSUME NEW i \in U32, NEW d \in Data, NEW t \in Time,
               UpdateEntry(i, d, t)
        PROVE  EntryInv'
    <3>1. entries[i] \in EntryAccount /\ entries[i] # NoAccount
      BY <2>1 DEF UpdateEntry, UpdateEntryOk, TypeOK
    <3>2. entries'[i] \in EntryAccount
      BY <2>1, <3>1 DEF UpdateEntry, EntryAccount, TypeOK
    <3>3. LiveEntries' = LiveEntries
      BY <2>1, <3>1, <3>2, ProgramAssumption
      DEF UpdateEntry, LiveEntries, TypeOK
    <3> QED BY <2>1, <3>3, EntryFrame DEF UpdateEntry
  <2> QED BY <1>2, <2>1, AddEntryStep, DeleteEntryStep DEF EntryInstruction
<1>3. CASE GroupInstruction
  <2>1. /\ LiveEntries' = LiveEntries
        /\ orphaned' = orphaned
    BY <1>3 DEF GroupInstruction, AddGroup, NextAfter, UpdateGroup, DeleteGroup,
                PurgeGroup, LiveEntries
  <2>2. /\ vault'.free_slots = vault.free_slots
        /\ vault'.next_index = vault.next_index
        /\ vault'.entry_count = vault.entry_count
    BY <1>3 DEF GroupInstruction, AddGroup, NextAfter, UpdateGroup, DeleteGroup,
                PurgeGroup, TypeOK, VaultMeta
  <2> QED BY <2>1, <2>2, EntryFrame
<1>4. CASE Tick \/ UNCHANGED programVars
  <2>1. UNCHANGED <<vault, entries, orphaned>>
    BY <1>4 DEF Tick, programVars
  <2> QED BY <2>1, EntryFrame DEF LiveEntries
<1> QED BY <1>1, <1>2, <1>3, <1>4 DEF Next

(* The entry invariant holds of the empty vault.                           *)
LEMMA EntryInit == Init => EntryInv
<1> SUFFICES ASSUME Init PROVE EntryInv
  OBVIOUS
<1>1. LiveEntries = {} /\ FreeSlots = {} /\ DOMAIN vault.free_slots = {}
  BY DEF Init, EmptyVault, LiveEntries, FreeSlots, ToSet
<1>2. VaultFits
  BY ProgramAssumption
  DEF Init, EmptyVault, VaultFits, VaultSize, VAULT_BASE_SPACE
<1>3. EntryCountSound
  BY <1>1, FS_EmptySet DEF Init, EmptyVault, EntryCountSound
<1> QED
  BY <1>1, <1>2, <1>3 DEF EntryInv, FreeListSound, SlotsBelowNext

(* The entry invariant, with the types it needs, holds in every state.     *)
THEOREM EntryInvariance == Spec => [](TypeOK /\ EntryInv)
BY TypeInit, TypeStep, EntryInit, EntryStep, PTL DEF Spec

(* The free list holds no slot twice and no live slot, in every behaviour  *)
(* of the program, wipes included.                                         *)
THEOREM FreeListCorrect == Spec => []FreeListSound
BY EntryInvariance, PTL DEF EntryInv

(* VaultMeta never outgrows the space its account was created with.        *)
THEOREM VaultSpaceCorrect == Spec => []VaultFits
BY EntryInvariance, PTL DEF EntryInv

(* Unless a wipe stranded accounts, no entry and no freed slot is out of   *)
(* reach of a scan of 0..next_index-1.                                     *)
THEOREM SlotsCorrect == Spec => []SlotsBelowNext
BY EntryInvariance, PTL DEF EntryInv

(* entry_count is at most the number of entry accounts, and equal to it    *)
(* unless a wipe stranded accounts.                                        *)
THEOREM EntryCountCorrect == Spec => []EntryCountSound
BY EntryInvariance, PTL DEF EntryInv

-----------------------------------------------------------------------------
(* Groups *)

(* There are finitely many active groups, so they can be counted.          *)
LEMMA ActiveFinite ==
  /\ IsFiniteSet(ActiveGroups)
  /\ Cardinality(ActiveGroups) \in Nat
<1>1. IsFiniteSet(U32)
  BY ProgramAssumption, FS_Interval DEF U32
<1>2. ActiveGroups \subseteq U32
  BY DEF ActiveGroups, LiveGroups
<1> QED BY <1>1, <1>2, FS_Subset, FS_CardinalityType

(* An instruction that touches no group leaves the accounting alone.       *)
LEMMA GroupFrame ==
  ASSUME GroupsAccounted,
         groups' = groups,
         vault'.next_group_index = vault.next_group_index,
         vault'.group_count = vault.group_count,
         orphaned' = orphaned
  PROVE  GroupsAccounted'
BY DEF GroupsAccounted, ActiveGroups, LiveGroups

(* add_group counts the new group and stays below next_group_index.        *)
LEMMA AddGroupStep ==
  ASSUME TypeOK, GroupsAccounted, NEW i \in U32, NEW d \in Data, AddGroup(i, d)
  PROVE  GroupsAccounted'
<1>1. vault.next_group_index \in Nat /\ vault.group_count \in Nat /\ i \in Nat
  BY VaultMetaFields, CounterRange
<1>2. /\ vault'.group_count = vault.group_count + 1
      /\ vault'.next_group_index = IF i >= vault.next_group_index THEN i + 1
                                   ELSE vault.next_group_index
      /\ orphaned' = orphaned
  BY DEF AddGroup, NextAfter, TypeOK, VaultMeta
<1>3. [encrypted_data |-> d, deleted |-> FALSE] # NoAccount
  <2>1. [encrypted_data |-> d, deleted |-> FALSE] \in GroupAccount
    BY DEF GroupAccount
  <2> QED BY <2>1, ProgramAssumption
<1>4. /\ i \notin LiveGroups
      /\ LiveGroups' = LiveGroups \cup {i}
      /\ ActiveGroups' = ActiveGroups \cup {i}
  BY <1>3 DEF AddGroup, NextAfter, AddGroupOk, LiveGroups, ActiveGroups, TypeOK
<1>5. Cardinality(ActiveGroups') = Cardinality(ActiveGroups) + 1
  BY <1>4, ActiveFinite, FS_AddElement DEF ActiveGroups
<1>6. ASSUME ~orphaned, NEW j \in LiveGroups'
      PROVE  j < vault'.next_group_index
  <2>1. CASE j = i
    BY <1>1, <1>2, <2>1
  <2>2. CASE j \in LiveGroups
    <3>1. j \in U32 /\ j < vault.next_group_index
      BY <1>6, <2>2 DEF GroupsAccounted, LiveGroups
    <3> QED BY <1>1, <1>2, <3>1, CounterRange
  <2> QED BY <1>4, <1>6, <2>1, <2>2
<1> QED BY <1>1, <1>2, <1>5, <1>6, ActiveFinite DEF GroupsAccounted

(* delete_group takes off the count the one group that stops being active. *)
LEMMA DeleteGroupStep ==
  ASSUME TypeOK, GroupsAccounted, NEW i \in U32, DeleteGroup(i)
  PROVE  GroupsAccounted'
<1>1. vault.group_count \in Nat
  BY VaultMetaFields, CounterRange
<1>2. /\ vault'.group_count = SaturatingPred(vault.group_count)
      /\ vault'.next_group_index = vault.next_group_index
      /\ orphaned' = orphaned
  BY DEF DeleteGroup, TypeOK, VaultMeta
<1>3. groups[i] \in GroupAccount /\ groups[i] # NoAccount /\ ~groups[i].deleted
  BY DEF DeleteGroup, DeleteGroupOk, TypeOK
<1>4. [groups[i] EXCEPT !.deleted = TRUE] \in GroupAccount
  BY <1>3 DEF GroupAccount
<1>5. /\ groups' = [groups EXCEPT ![i] = [groups[i] EXCEPT !.deleted = TRUE]]
      /\ [groups[i] EXCEPT !.deleted = TRUE] # NoAccount
      /\ [groups[i] EXCEPT !.deleted = TRUE].deleted
  BY <1>3, <1>4, ProgramAssumption DEF DeleteGroup, GroupAccount
<1>6. /\ LiveGroups' = LiveGroups
      /\ i \in ActiveGroups
      /\ ActiveGroups' = ActiveGroups \ {i}
  BY <1>3, <1>5 DEF LiveGroups, ActiveGroups, TypeOK
<1>7. /\ Cardinality(ActiveGroups') = Cardinality(ActiveGroups) - 1
      /\ Cardinality(ActiveGroups) # 0
  BY <1>6, ActiveFinite, FS_RemoveElement, FS_EmptySet
<1> QED
  BY <1>1, <1>2, <1>6, <1>7, ActiveFinite DEF GroupsAccounted, SaturatingPred

(* Editing keeps a group active, purging takes one that no longer is.      *)
LEMMA QuietGroupStep ==
  ASSUME TypeOK, GroupsAccounted, NEW i \in U32, NEW d \in Data,
         UpdateGroup(i, d) \/ PurgeGroup(i)
  PROVE  GroupsAccounted'
<1>1. vault' = vault /\ orphaned' = orphaned
  BY DEF UpdateGroup, PurgeGroup
<1>2. groups[i] \in GroupAccount /\ groups[i] # NoAccount
  BY DEF UpdateGroup, UpdateGroupOk, PurgeGroup, PurgeGroupOk, TypeOK
<1>3. LiveGroups' \subseteq LiveGroups /\ ActiveGroups' = ActiveGroups
  <2>1. CASE PurgeGroup(i)
    BY <1>2, <2>1
    DEF PurgeGroup, PurgeGroupOk, LiveGroups, ActiveGroups, TypeOK
  <2>2. CASE UpdateGroup(i, d)
    <3> DEFINE g == [groups[i] EXCEPT !.encrypted_data = d]
    <3>1. /\ groups' = [groups EXCEPT ![i] = g]
          /\ ~groups[i].deleted
          /\ g \in GroupAccount
          /\ ~g.deleted
      BY <1>2, <2>2 DEF UpdateGroup, UpdateGroupOk, GroupAccount
    <3>2. g # NoAccount
      BY <3>1, ProgramAssumption
    <3> HIDE DEF g
    <3> QED BY <1>2, <3>1, <3>2 DEF LiveGroups, ActiveGroups, TypeOK
  <2> QED BY <2>1, <2>2
<1> QED BY <1>1, <1>3 DEF GroupsAccounted

(* Every instruction and every tick keeps the groups accounted for.        *)
LEMMA GroupStep ==
  ASSUME TypeOK, GroupsAccounted, [Next]_programVars
  PROVE  GroupsAccounted'
<1>1. CASE VaultInstruction
  <2>1. vault' = EmptyVault /\ groups' = groups
    BY <1>1 DEF VaultInstruction, InitializeVault, ResetVault, WipeVault
  <2>2. ~orphaned' => LiveGroups = {}
    BY <1>1 DEF VaultInstruction, InitializeVault, ResetVault, WipeVault
  <2>3. ~orphaned' => LiveGroups' = {} /\ ActiveGroups' = {}
    BY <2>1, <2>2 DEF LiveGroups, ActiveGroups
  <2> QED BY <2>1, <2>3, FS_EmptySet DEF GroupsAccounted, EmptyVault
<1>2. CASE EntryInstruction
  <2>1. groups' = groups /\ orphaned' = orphaned
    BY <1>2 DEF EntryInstruction, AddEntry, NextAfter, UpdateEntry, DeleteEntry
  <2>2. /\ vault'.next_group_index = vault.next_group_index
        /\ vault'.group_count = vault.group_count
    BY <1>2 DEF EntryInstruction, AddEntry, NextAfter, UpdateEntry, DeleteEntry,
                TypeOK, VaultMeta
  <2> QED BY <2>1, <2>2, GroupFrame
<1>3. CASE GroupInstruction
  BY <1>3, AddGroupStep, DeleteGroupStep, QuietGroupStep, ProgramAssumption
  DEF GroupInstruction
<1>4. CASE Tick \/ UNCHANGED programVars
  <2>1. UNCHANGED <<vault, groups, orphaned>>
    BY <1>4 DEF Tick, programVars
  <2> QED BY <2>1, GroupFrame
<1> QED BY <1>1, <1>2, <1>3, <1>4 DEF Next

(* The groups of the empty vault are accounted for.                        *)
LEMMA GroupInit == Init => GroupsAccounted
<1> SUFFICES ASSUME Init PROVE GroupsAccounted
  OBVIOUS
<1>1. LiveGroups = {} /\ ActiveGroups = {}
  BY DEF Init, LiveGroups, ActiveGroups
<1> QED BY <1>1, FS_EmptySet DEF Init, EmptyVault, GroupsAccounted

(* Unless a wipe stranded accounts, group_count is the number of groups    *)
(* not softly deleted and all groups lie below next_group_index.           *)
THEOREM GroupsCorrect == Spec => []GroupsAccounted
BY TypeInit, TypeStep, GroupInit, GroupStep, PTL DEF Spec

-----------------------------------------------------------------------------
(* Action properties *)

(* Every stamp was read from a clock that only moves forward.              *)
StampsPast ==
  \A i \in LiveEntries : entries[i].updated_at <= clock

(* No instruction stamps an entry with a second that has not come.         *)
LEMMA StampsStep ==
  ASSUME TypeOK, StampsPast, [Next]_programVars
  PROVE  StampsPast'
<1>0. clock \in Nat
  BY ProgramAssumption DEF TypeOK, Time
<1>1. ASSUME NEW i \in U32, NEW d \in Data, AddEntry(i, d)
      PROVE  StampsPast'
  BY <1>0, <1>1 DEF AddEntry, NextAfter, StampsPast, LiveEntries, TypeOK
<1>2. ASSUME NEW i \in U32, NEW d \in Data, NEW t \in Time,
             UpdateEntry(i, d, t)
      PROVE  StampsPast'
  BY <1>0, <1>2
  DEF UpdateEntry, UpdateEntryOk, StampsPast, LiveEntries, TypeOK, EntryAccount
<1>3. ASSUME NEW i \in U32, DeleteEntry(i)
      PROVE  StampsPast'
  BY <1>3 DEF DeleteEntry, StampsPast, LiveEntries, TypeOK
<1>4. CASE Tick
  <2>1. entries' = entries /\ clock' = clock + 1
    BY <1>4 DEF Tick
  <2>2. ASSUME NEW i \in LiveEntries
        PROVE  entries[i].updated_at <= clock'
    <3>1. entries[i].updated_at \in Nat /\ entries[i].updated_at <= clock
      BY <2>2, ProgramAssumption
      DEF LiveEntries, TypeOK, EntryAccount, Time, StampsPast
    <3> QED BY <1>0, <2>1, <3>1
  <2> QED BY <2>1, <2>2 DEF StampsPast, LiveEntries
<1>5. CASE VaultInstruction \/ GroupInstruction \/ UNCHANGED programVars
  <2>1. entries' = entries /\ clock' = clock
    BY <1>5 DEF VaultInstruction, InitializeVault, ResetVault, WipeVault,
                GroupInstruction, AddGroup, NextAfter, UpdateGroup, DeleteGroup,
                PurgeGroup, programVars
  <2> QED BY <2>1 DEF StampsPast, LiveEntries
<1> QED BY <1>1, <1>2, <1>3, <1>4, <1>5 DEF Next, EntryInstruction

(* An entry account is never replaced in place: only update_entry rewrites *)
(* it, keeping created_at and moving updated_at to the clock.              *)
THEOREM EntriesNeverReplacedCorrect == Spec => EntriesNeverReplaced
<1>1. Init => StampsPast
  BY DEF Init, StampsPast, LiveEntries
<1>2. ASSUME TypeOK, StampsPast, [Next]_programVars,
             NEW i \in U32, entries[i] # NoAccount, entries'[i] # NoAccount
      PROVE  EntryRewritten(i)
  <2>0. /\ entries[i] \in EntryAccount
        /\ entries[i].updated_at \in Nat
        /\ entries[i].updated_at <= clock
        /\ clock \in Nat
    BY <1>2, ProgramAssumption
    DEF TypeOK, EntryAccount, Time, StampsPast, LiveEntries
  <2>1. CASE entries'[i] = entries[i]
    BY <2>0, <2>1 DEF EntryRewritten
  <2>2. ASSUME NEW j \in U32, NEW d \in Data, AddEntry(j, d)
        PROVE  EntryRewritten(i)
    <3>1. i # j
      BY <1>2, <2>2 DEF AddEntry, NextAfter, AddEntryOk
    <3> QED BY <1>2, <2>1, <2>2, <3>1 DEF AddEntry, NextAfter, TypeOK
  <2>3. ASSUME NEW j \in U32, NEW d \in Data, NEW t \in Time,
               UpdateEntry(j, d, t)
        PROVE  EntryRewritten(i)
    <3>1. CASE i = j
      <4>1. entries'[i] = [entries[i] EXCEPT !.encrypted_data = d,
                                             !.updated_at = clock]
        BY <1>2, <2>3, <3>1 DEF UpdateEntry, TypeOK
      <4>2. entries'[i].created_at = entries[i].created_at
            /\ entries'[i].updated_at = clock
        BY <2>0, <4>1 DEF EntryAccount
      <4> QED BY <2>0, <4>2 DEF EntryRewritten
    <3>2. CASE i # j
      BY <1>2, <2>1, <2>3, <3>2 DEF UpdateEntry, TypeOK
    <3> QED BY <3>1, <3>2
  <2>4. ASSUME NEW j \in U32, DeleteEntry(j)
        PROVE  EntryRewritten(i)
    BY <1>2, <2>1, <2>4 DEF DeleteEntry, TypeOK
  <2>5. CASE \/ VaultInstruction \/ GroupInstruction
             \/ Tick \/ UNCHANGED programVars
    <3>1. entries' = entries
      BY <2>5 DEF VaultInstruction, InitializeVault, ResetVault, WipeVault,
                  GroupInstruction, AddGroup, NextAfter, UpdateGroup, DeleteGroup,
                  PurgeGroup, Tick, programVars
    <3> QED BY <2>1, <3>1
  <2> QED BY <1>2, <2>2, <2>3, <2>4, <2>5 DEF Next, EntryInstruction
<1>3. TypeOK /\ StampsPast /\ [Next]_programVars
        => [\A i \in U32 : entries[i] # NoAccount /\ entries'[i] # NoAccount
                             => EntryRewritten(i)]_programVars
  BY <1>2
<1> QED BY <1>1, <1>3, TypeInit, TypeStep, StampsStep, PTL
        DEF Spec, EntriesNeverReplaced

(* A softly deleted group can only be purged, and only such a group        *)
(* disappears.                                                             *)
THEOREM DeletedGroupsFrozenCorrect == Spec => DeletedGroupsFrozen
<1> DEFINE Frozen == \A i \in U32 : groups[i] # NoAccount =>
                       IF groups[i].deleted THEN groups'[i] \in {groups[i], NoAccount}
                                            ELSE groups'[i] # NoAccount
<1>1. ASSUME TypeOK, [Next]_programVars
      PROVE  Frozen
  <2> SUFFICES ASSUME NEW i \in U32, groups[i] # NoAccount
               PROVE  IF groups[i].deleted
                      THEN groups'[i] \in {groups[i], NoAccount}
                      ELSE groups'[i] # NoAccount
    OBVIOUS
  <2>0. groups[i] \in GroupAccount
    BY <1>1 DEF TypeOK
  <2>1. CASE groups'[i] = groups[i]
    BY <2>1
  <2>2. ASSUME NEW j \in U32, NEW d \in Data,
               AddGroup(j, d) \/ UpdateGroup(j, d) \/ DeleteGroup(j)
                 \/ PurgeGroup(j),
               i # j
        PROVE  groups'[i] = groups[i]
    BY <1>1, <2>2 DEF AddGroup, NextAfter, UpdateGroup, DeleteGroup, PurgeGroup, TypeOK
  <2>3. ASSUME NEW d \in Data, AddGroup(i, d)
        PROVE  FALSE
    BY <2>3 DEF AddGroup, NextAfter, AddGroupOk
  <2>4. ASSUME NEW d \in Data, UpdateGroup(i, d)
        PROVE  ~groups[i].deleted /\ groups'[i] # NoAccount
    <3>1. [groups[i] EXCEPT !.encrypted_data = d] \in GroupAccount
      BY <2>0 DEF GroupAccount
    <3> QED BY <1>1, <2>4, <3>1, ProgramAssumption
            DEF UpdateGroup, UpdateGroupOk, TypeOK
  <2>5. ASSUME DeleteGroup(i)
        PROVE  ~groups[i].deleted /\ groups'[i] # NoAccount
    <3>1. [groups[i] EXCEPT !.deleted = TRUE] \in GroupAccount
      BY <2>0 DEF GroupAccount
    <3> QED BY <1>1, <2>5, <3>1, ProgramAssumption
            DEF DeleteGroup, DeleteGroupOk, TypeOK
  <2>6. ASSUME PurgeGroup(i)
        PROVE  groups[i].deleted /\ groups'[i] = NoAccount
    BY <1>1, <2>6 DEF PurgeGroup, PurgeGroupOk, TypeOK
  <2>7. CASE GroupInstruction
    <3>1. PICK j \in U32, d \in Data :
            AddGroup(j, d) \/ UpdateGroup(j, d) \/ DeleteGroup(j)
              \/ PurgeGroup(j)
      BY <2>7, ProgramAssumption DEF GroupInstruction
    <3>2. CASE i = j
      BY <3>1, <3>2, <2>3, <2>4, <2>5, <2>6
    <3> QED BY <2>1, <2>2, <3>1, <3>2
  <2>8. CASE \/ VaultInstruction \/ EntryInstruction
             \/ Tick \/ UNCHANGED programVars
    <3>1. groups' = groups
      BY <2>8 DEF VaultInstruction, InitializeVault, ResetVault, WipeVault,
                  EntryInstruction, AddEntry, NextAfter, UpdateEntry, DeleteEntry,
                  Tick, programVars
    <3> QED BY <2>1, <3>1
  <2> QED BY <1>1, <2>7, <2>8 DEF Next
<1>2. TypeOK /\ [Next]_programVars => [Frozen]_programVars
  BY <1>1
<1> QED BY <1>2, TypeInit, TypeStep, PTL DEF Spec, DeletedGroupsFrozen

(* next_index goes down and a freed slot is forgotten only with a wipe; a  *)
(* slot that leaves the free list otherwise holds an account.              *)
THEOREM SlotsOnlyReclaimedCorrect == Spec => SlotsOnlyReclaimed
<1> DEFINE Reclaimed ==
             \/ vault' = EmptyVault
             \/ /\ vault'.next_index >= vault.next_index
                /\ \A i \in FreeSlots : i \in FreeSlots' \/ i \in LiveEntries'
<1>1. ASSUME TypeOK, EntryInv, [Next]_programVars
      PROVE  Reclaimed
  <2>0. /\ vault.next_index \in Nat
        /\ vault.free_slots \in Seq(U32)
    BY <1>1, VaultMetaFields, CounterRange
  <2>1. CASE VaultInstruction
    BY <2>1 DEF VaultInstruction, InitializeVault, ResetVault, WipeVault
  <2>2. ASSUME NEW i \in U32, NEW d \in Data, AddEntry(i, d)
        PROVE  Reclaimed
    <3>1. /\ vault'.free_slots = RemoveFirst(vault.free_slots, i)
          /\ vault'.next_index = IF i >= vault.next_index THEN i + 1
                                 ELSE vault.next_index
      BY <1>1, <2>2 DEF AddEntry, NextAfter, TypeOK, VaultMeta
    <3>2. Distinct(vault.free_slots)
      BY <1>1 DEF EntryInv, FreeListSound, Distinct
    <3>3. FreeSlots' = FreeSlots \ {i}
      BY <2>0, <3>1, <3>2, RemoveFirstProperties DEF FreeSlots
    <3>4. i \in LiveEntries'
      <4>1. [encrypted_data |-> d, created_at |-> clock, updated_at |-> clock]
              # NoAccount
        BY <1>1, ProgramAssumption DEF TypeOK, EntryAccount
      <4> QED BY <1>1, <2>2, <4>1 DEF AddEntry, NextAfter, LiveEntries, TypeOK
    <3>5. vault'.next_index >= vault.next_index
      BY <2>0, <3>1, CounterRange
    <3> QED BY <3>3, <3>4, <3>5
  <2>3. ASSUME NEW i \in U32, DeleteEntry(i)
        PROVE  Reclaimed
    <3>1. /\ vault'.free_slots = Append(vault.free_slots, i)
          /\ vault'.next_index = vault.next_index
      BY <1>1, <2>3 DEF DeleteEntry, TypeOK, VaultMeta
    <3>2. FreeSlots' = FreeSlots \cup {i}
      BY <2>0, <3>1, AppendDistinct DEF FreeSlots
    <3> QED BY <2>0, <3>1, <3>2
  <2>4. CASE /\ vault'.free_slots = vault.free_slots
             /\ vault'.next_index = vault.next_index
    BY <2>0, <2>4 DEF FreeSlots
  <2>5. ASSUME NEW i \in U32, NEW d \in Data, NEW t \in Time,
               UpdateEntry(i, d, t)
        PROVE  Reclaimed
    BY <2>4, <2>5 DEF UpdateEntry
  <2>6. CASE GroupInstruction
    BY <1>1, <2>4, <2>6
    DEF GroupInstruction, AddGroup, NextAfter, UpdateGroup, DeleteGroup, PurgeGroup,
        TypeOK, VaultMeta
  <2>7. CASE Tick \/ UNCHANGED programVars
    BY <2>4, <2>7 DEF Tick, programVars
  <2> QED BY <1>1, <2>1, <2>2, <2>3, <2>5, <2>6, <2>7
          DEF Next, EntryInstruction
<1>2. TypeOK /\ EntryInv /\ [Next]_programVars => [Reclaimed]_programVars
  BY <1>1
<1> QED BY <1>2, TypeInit, TypeStep, EntryInit, EntryStep, PTL
        DEF Spec, SlotsOnlyReclaimed
=============================================================================
