-------------------------- MODULE MCSoLockClients --------------------------
(* Values of the constants of SoLockClients for TLC. *)
EXTENDS SoLockClients, TLC

CONSTANTS p1, p2, d1, d2, i1, i2

MCPayload == [id : Ids, ver : 0 .. MaxVer]
MCData    == MCPayload \cup {EmptyData}

OwnDevice == (p1 :> d1) @@ (p2 :> d2)
OneDevice == (p1 :> d1) @@ (p2 :> d1)
OneProcess == (p1 :> d1)
EveryUseCase == (p1 :> Kinds)

AddersAndDeleters == (p1 :> {"add", "delete"}) @@ (p2 :> {"add", "delete"})
AuthorAndEditor   == (p1 :> {"add", "update"}) @@ (p2 :> {"sync", "update"})
WriterAndSyncer   == (p1 :> {"add", "delete"}) @@ (p2 :> {"sync", "update"})
WriterBesideSync  == (p1 :> {"add", "delete", "clear"}) @@ (p2 :> {"sync", "update"})
AddersOnOneDevice == (p1 :> {"add", "clear"}) @@ (p2 :> {"add", "sync"})

\* Entries are interchangeable, and so are two devices whose processes run
\* the same use cases.
Exchange == (p1 :> p2) @@ (p2 :> p1) @@ (d1 :> d2) @@ (d2 :> d1)
EntrySymmetry   == Permutations(Ids)
WritersSymmetry == EntrySymmetry \cup {Exchange}
=============================================================================
