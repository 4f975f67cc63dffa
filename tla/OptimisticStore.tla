-------------------------- MODULE OptimisticStore --------------------------
(***************************************************************************)
(* What the vault promises its clients, without timestamps, counters or a  *)
(* free list: a store of values by slot.  A client submits a write with    *)
(* the value it last read from the slot, its basis; the write commits only *)
(* if the slot still holds that very value, so a write never destroys one  *)
(* that its writer has not read.  Creating is a write whose basis is the   *)
(* empty slot.  Removing is unconditional.                                 *)
(***************************************************************************)
CONSTANTS Slots, Values, None

VARIABLES
  store,    \* the value in each slot
  pending   \* submitted transactions that have neither committed nor died

storeVars == <<store, pending>>

Transaction ==
  [slot : Slots, basis : Values \cup {None}, value : Values \cup {None}]

StoreInit ==
  /\ store = [i \in Slots |-> None]
  /\ pending = {}

\* Two equal transactions may be pending at once: one of them stays then.
Settled(t) == pending' \in {pending, pending \ {t}}

Submit(t) ==
  /\ t \in Transaction
  /\ pending' = pending \cup {t}
  /\ UNCHANGED store

Write(t) ==
  /\ t.value # None
  /\ store[t.slot] = t.basis
  /\ store' = [store EXCEPT ![t.slot] = t.value]
  /\ Settled(t)

Remove(t) ==
  /\ t.value = None
  /\ store[t.slot] # None
  /\ store' = [store EXCEPT ![t.slot] = None]
  /\ Settled(t)

Discard(t) ==
  /\ pending' = pending \ {t}
  /\ UNCHANGED store

\* A transaction that is submitted is pending afterwards.
StoreNext ==
  \/ \E t \in pending' : Submit(t)
  \/ \E t \in pending : Write(t) \/ Remove(t) \/ Discard(t)

StoreSpec == StoreInit /\ [][StoreNext]_storeVars
=============================================================================
