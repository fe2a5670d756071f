----------------------------- MODULE PinnedHeap -----------------------------
(***************************************************************************)
(* What a reusable memory pool promises its callers, without free lists,   *)
(* reference counts or a mutex: an address is unmapped only while nobody   *)
(* owns it and neither the running transaction nor a lease pins it; when   *)
(* the heap closes, no lease is left.                                      *)
(***************************************************************************)
EXTENDS Naturals

CONSTANTS Ptrs, Leases

VARIABLES
  stage,    \* "new", then "open", then "closed"
  mapped,   \* addresses the heap keeps
  owners,   \* logical owners of each address
  txn,      \* addresses pinned by the running transaction
  held      \* addresses pinned by each lease

vars == <<stage, mapped, owners, txn, held>>

Init ==
  /\ stage = "new"
  /\ mapped = {}
  /\ owners = [p \in Ptrs |-> 0]
  /\ txn = {}
  /\ held = [l \in Leases |-> {}]

Pinned(p) == p \in txn \/ \E l \in Leases : p \in held[l]

Open ==
  /\ stage = "new"
  /\ stage' = "open"
  /\ UNCHANGED <<mapped, owners, txn, held>>

\* An allocation: a new or an ownerless address gets its only owner, and may
\* be pinned by the transaction in the same step.
Grant(p) ==
  /\ stage = "open"
  /\ owners[p] = 0
  /\ mapped' = mapped \cup {p}
  /\ owners' = [owners EXCEPT ![p] = 1]
  /\ txn' \in {txn, txn \cup {p}}
  /\ UNCHANGED <<stage, held>>

Share(p) ==
  /\ stage = "open" /\ p \in mapped
  /\ owners' = [owners EXCEPT ![p] = @ + 1]
  /\ UNCHANGED <<stage, mapped, txn, held>>

Return(p) ==
  /\ stage = "open" /\ p \in mapped /\ owners[p] > 0
  /\ owners' = [owners EXCEPT ![p] = @ - 1]
  /\ UNCHANGED <<stage, mapped, txn, held>>

Pin(p) ==
  /\ stage = "open" /\ p \in mapped
  /\ txn' = txn \cup {p}
  /\ UNCHANGED <<stage, mapped, owners, held>>

\* A transaction hands all its pins to a lease, or drops them all.
Commit(l) ==
  /\ stage = "open" /\ held[l] = {}
  /\ held' = [held EXCEPT ![l] = txn]
  /\ txn' = {}
  /\ UNCHANGED <<stage, mapped, owners>>

Cancel ==
  /\ stage = "open"
  /\ txn' = {}
  /\ UNCHANGED <<stage, mapped, owners, held>>

Release(l) ==
  /\ stage = "open"
  /\ held' = [held EXCEPT ![l] = {}]
  /\ UNCHANGED <<stage, mapped, owners, txn>>

Reclaim(p) ==
  /\ stage = "open" /\ p \in mapped
  /\ owners[p] = 0 /\ ~Pinned(p)
  /\ mapped' = mapped \ {p}
  /\ UNCHANGED <<stage, owners, txn, held>>

Close ==
  /\ stage = "open"
  /\ \A l \in Leases : held[l] = {}
  /\ stage' = "closed"
  /\ UNCHANGED <<mapped, owners, txn, held>>

\* A closed heap gives up what it has, address by address or at once.
Empty ==
  /\ stage = "closed"
  /\ mapped' \subseteq mapped
  /\ UNCHANGED <<stage, owners, txn, held>>

Next ==
  \/ Open \/ Cancel \/ Close \/ Empty
  \/ \E p \in Ptrs : Grant(p) \/ Share(p) \/ Return(p) \/ Pin(p) \/ Reclaim(p)
  \/ \E l \in Leases : Commit(l) \/ Release(l)

Spec == Init /\ [][Next]_vars
=============================================================================
