---------------------------- MODULE PoolClients ----------------------------
(***************************************************************************)
(* ReusableMemoryPool together with callers that keep its contract: a      *)
(* thread returns only allocations it owns, and takes an additional        *)
(* ownership only of an address that it owns or that a live lease pins.    *)
(* The callers' side of the contract is external to the library; what the  *)
(* composition shows is that the pool's counts never drift from what the   *)
(* callers hold.                                                           *)
(***************************************************************************)
EXTENDS ReusableMemoryPool

VARIABLES
  refs,   \* ownerships each thread holds of each address
  want    \* size that the last allocation of an address asked for

clientVars == <<refs, want>>
allVars == <<vars, clientVars>>

ClientInit ==
  /\ Init
  /\ refs = [t \in Threads |-> [p \in Ptrs |-> 0]]
  /\ want = [p \in Ptrs |-> 0]

Gains(t, p) == refs' = [refs EXCEPT ![t][p] = @ + 1]
Loses(t, p) == refs' = [refs EXCEPT ![t][p] = @ - 1]

ClientHit(t, size, exact) ==
  \E p \in Ptrs :
    /\ AllocateHit(t, Request(size, exact), p)
    /\ Gains(t, p)
    /\ want' = [want EXCEPT ![p] = size]

ClientMiss(t, size, exact) ==
  AllocateMiss(t, Request(size, exact)) /\ UNCHANGED clientVars

ClientMalloc(t, size, exact) ==
  \E p \in Ptrs :
    /\ req = Request(size, exact)
    /\ MallocSucceeds(t, p)
    /\ Gains(t, p)
    /\ want' = [want EXCEPT ![p] = size]

ClientReturn(t, p) ==
  /\ refs[t][p] > 0
  /\ DeallocateShared(t, p) \/ DeallocateLast(t, p)
  /\ Loses(t, p)
  /\ UNCHANGED want

ClientRetain(t, p) ==
  /\ \/ refs[t][p] > 0
     \/ \E l \in Leases : leaseState[l] = "live" /\ p \in leaseBlocks[l]
  /\ RetainAllocation(t, p)
  /\ Gains(t, p)
  /\ UNCHANGED want

\* Steps that move no ownership between the pool and its callers.
NoTransfer ==
  /\ \/ Construct
     \/ \E t \in Threads : \/ \E lost \in SUBSET Ptrs : MallocFails(t, lost)
                           \/ Transact(t)
                           \/ Trim(t)
     \/ ReleaseOwner
     \/ Teardown
  /\ UNCHANGED clientVars

ClientNext ==
  \/ \E t \in Threads :
       \/ \E size \in ValidSizes, exact \in BOOLEAN :
            \/ ClientHit(t, size, exact)
            \/ ClientMiss(t, size, exact)
            \/ ClientMalloc(t, size, exact)
       \/ \E p \in Ptrs : ClientReturn(t, p) \/ ClientRetain(t, p)
  \/ NoTransfer

ClientSpec == ClientInit /\ [][ClientNext]_allVars

-----------------------------------------------------------------------------
\* The ownerships of an address, numbered by holder.
Held(p) == UNION {{t} \X (1 .. refs[t][p]) : t \in Threads}

\* use_count is exactly what the callers hold: an allocation never hands out
\* an address somebody still owns (it would reset the count to one), and no
\* return, retained lease block or reuse makes the two drift apart.
UseCountIsOwnership ==
  phase = "open" => \A p \in Ptrs : useCount[p] = Cardinality(Held(p))

\* Whoever owns an address can use it while the pool is open: it is recorded
\* and mapped, its next return is no double free, and its block is as big as
\* the allocation asked for, and no bigger than the alignment makes it when it
\* asked for that; a size that would wrap around got no block at all.
OwnedIsUsable ==
  phase = "open" =>
    \A t \in Threads, p \in Ptrs :
      refs[t][p] > 0 =>
        /\ p \in all \cap dev
        /\ inUse[p]
        /\ block[p].size >= want[p]
        /\ block[p].kind = "Exact" => block[p].size = AlignUp(want[p])
=============================================================================
