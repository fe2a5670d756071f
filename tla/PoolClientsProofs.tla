-------------------------- MODULE PoolClientsProofs --------------------------
(***************************************************************************)
(* Proofs about PoolClients for any threads, addresses, leases and sizes.  *)
(*                                                                         *)
(* Callers that keep the contract are callers of the pool, so all that is  *)
(* proved of the pool holds beside them.  That what they own is usable     *)
(* rests on the counts: no allocation takes a block that somebody owns,    *)
(* because a block is idle only when nobody does.                          *)
(***************************************************************************)
EXTENDS PoolClients, ReusableMemoryPoolProofs

ClientTypes ==
  /\ refs \in [Threads -> [Ptrs -> Nat]]
  /\ want \in [Ptrs -> Nat]

\* The count of a block is the number of its ownerships.
Counted(p) == IsFiniteSet(Held(p)) /\ useCount[p] = Cardinality(Held(p))

\* A block of a size class has its size, and any is as big as it must be.
Sized(p) ==
  /\ block[p].kind = "SizeClass" => block[p].size = ClassSizes[block[p].class]
  /\ block[p].size >= want[p]
  /\ block[p].kind = "Exact" => block[p].size = AlignUp(want[p])

ClientInv ==
  /\ ClientTypes
  /\ phase \in {"unborn", "open"} =>
       /\ \A p \in Ptrs : Counted(p)
       /\ \A p \in all : Sized(p)

-----------------------------------------------------------------------------
\* Callers that keep the contract make calls that any caller may make.
THEOREM ClientsUsePool == ClientSpec => Spec
<1>1. ClientInit => Init BY DEF ClientInit
<1>2. ASSUME ClientNext PROVE Next
  <2>1. ASSUME NEW t \in Threads, NEW size \in ValidSizes, NEW exact \in BOOLEAN,
               \/ ClientHit(t, size, exact)
               \/ ClientMiss(t, size, exact)
               \/ ClientMalloc(t, size, exact)
        PROVE  Next
    <3>1. Request(size, exact) \in Requests BY DEF Requests
    <3> QED
      BY <2>1, <3>1 DEF ClientHit, ClientMiss, ClientMalloc, Next, Allocate
  <2>2. ASSUME NEW t \in Threads, NEW p \in Ptrs,
               ClientReturn(t, p) \/ ClientRetain(t, p)
        PROVE  Next
    BY <2>2 DEF ClientReturn, ClientRetain, Next, Own
  <2>3. CASE NoTransfer
    BY <2>3 DEF NoTransfer, Next, Allocate
  <2> QED BY <1>2, <2>1, <2>2, <2>3 DEF ClientNext
<1>3. UNCHANGED allVars => UNCHANGED vars BY DEF allVars
<1> QED BY <1>1, <1>2, <1>3, PTL DEF ClientSpec, Spec

-----------------------------------------------------------------------------
\* What ownerships there are after a step.

\* Nobody has a block whose count is zero.
LEMMA NobodyHas ==
  ASSUME NEW p \in Ptrs, Counted(p), useCount[p] = 0
  PROVE  Held(p) = {}
BY FS_EmptySet DEF Counted

\* One ownership more.
LEMMA HeldGains ==
  ASSUME ClientTypes, NEW t \in Threads, NEW p \in Ptrs, Gains(t, p)
  PROVE  /\ refs' \in [Threads -> [Ptrs -> Nat]]
         /\ \A q \in Ptrs \ {p} : Held(q)' = Held(q)
         /\ IsFiniteSet(Held(p)) =>
              /\ IsFiniteSet(Held(p)')
              /\ Cardinality(Held(p)') = Cardinality(Held(p)) + 1
<1>1. /\ refs' \in [Threads -> [Ptrs -> Nat]]
      /\ refs'[t][p] = refs[t][p] + 1
      /\ \A u \in Threads, q \in Ptrs : u # t \/ q # p => refs'[u][q] = refs[u][q]
  BY DEF ClientTypes, Gains
<1> DEFINE new == <<t, refs[t][p] + 1>>
<1>2. refs[t][p] \in Nat BY DEF ClientTypes
<1>3. Held(p)' = Held(p) \cup {new}
  <2>1. 1 .. refs'[t][p] = (1 .. refs[t][p]) \cup {refs[t][p] + 1}
    <3>1. \A n \in Nat : 1 .. n + 1 = (1 .. n) \cup {n + 1} OBVIOUS
    <3> QED BY <1>1, <1>2, <3>1
  <2> QED BY <1>1, <2>1 DEF Held
<1>4. new \notin Held(p)
  BY <1>2 DEF Held
<1>5. \A q \in Ptrs \ {p} : Held(q)' = Held(q)
  BY <1>1 DEF Held
<1> HIDE DEF new
<1>6. IsFiniteSet(Held(p)) =>
        /\ IsFiniteSet(Held(p) \cup {new})
        /\ Cardinality(Held(p) \cup {new}) = Cardinality(Held(p)) + 1
  BY <1>4, FS_AddElement
<1> QED BY <1>1, <1>3, <1>5, <1>6

\* One ownership less.
LEMMA HeldLoses ==
  ASSUME ClientTypes, NEW t \in Threads, NEW p \in Ptrs, Loses(t, p), refs[t][p] > 0
  PROVE  /\ refs' \in [Threads -> [Ptrs -> Nat]]
         /\ \A q \in Ptrs \ {p} : Held(q)' = Held(q)
         /\ IsFiniteSet(Held(p)) =>
              /\ IsFiniteSet(Held(p)')
              /\ Cardinality(Held(p)') = Cardinality(Held(p)) - 1
<1>1. /\ refs' \in [Threads -> [Ptrs -> Nat]]
      /\ refs'[t][p] = refs[t][p] - 1
      /\ \A u \in Threads, q \in Ptrs : u # t \/ q # p => refs'[u][q] = refs[u][q]
  BY DEF ClientTypes, Loses
<1> DEFINE old == <<t, refs[t][p]>>
<1>2. refs[t][p] \in Nat \ {0} BY DEF ClientTypes
<1>3. Held(p)' = Held(p) \ {old}
  <2>1. 1 .. refs'[t][p] = (1 .. refs[t][p]) \ {refs[t][p]}
    BY <1>1, <1>2
  <2> QED BY <1>1, <2>1 DEF Held
<1>4. old \in Held(p)
  BY <1>2 DEF Held
<1>5. \A q \in Ptrs \ {p} : Held(q)' = Held(q)
  BY <1>1 DEF Held
<1> HIDE DEF old
<1>6. IsFiniteSet(Held(p)) =>
        /\ IsFiniteSet(Held(p) \ {old})
        /\ Cardinality(Held(p) \ {old}) = Cardinality(Held(p)) - 1
  BY <1>4, FS_RemoveElement
<1> QED BY <1>1, <1>3, <1>5, <1>6
-----------------------------------------------------------------------------
\* What an allocation finds.

\* A request is at least as big as what was asked for, and exactly as big when
\* that was asked for.
LEMMA RequestCovers ==
  ASSUME NEW size \in ValidSizes, NEW exact \in BOOLEAN
  PROVE  LET r == Request(size, exact)
         IN  /\ r \in Requests /\ r \in Blocks /\ size \in Nat
             /\ r.kind = "SizeClass" => r.size = ClassSizes[r.class]
             /\ r.size >= size
             /\ r.kind = "Exact" => r.size = AlignUp(size)
<1> DEFINE r == Request(size, exact)
<1>1. r \in Requests /\ r \in Blocks BY RequestType DEF Requests
<1>2. size \in Nat /\ AlignUp(size) \in Nat /\ AlignUp(size) >= size
  BY AlignUpCovers
<1>3. CASE exact
  BY <1>1, <1>2, <1>3 DEF Request
<1>4. CASE ~exact /\ FittingClasses(AlignUp(size)) # {}
  <2>1. /\ FirstClass(AlignUp(size)) \in DOMAIN ClassSizes
        /\ AlignUp(size) <= ClassSizes[FirstClass(AlignUp(size))]
        /\ ClassSizes[FirstClass(AlignUp(size))] \in Nat
    BY <1>4, FirstClassFits, ClassesAssumption
  <2> QED BY <1>1, <1>2, <1>4, <2>1 DEF Request
<1>5. CASE ~exact /\ FittingClasses(AlignUp(size)) = {}
  BY <1>1, <1>2, <1>5 DEF Request
<1> QED BY <1>3, <1>4, <1>5

\* A cached block that is taken is as good as a new one.
LEMMA HitSized ==
  ASSUME TypeOK, FreeListExact, BooksOpen, NEW size \in ValidSizes,
         NEW exact \in BOOLEAN, NEW p \in Hits(Request(size, exact)), Sized(p)
  PROVE  /\ p \in all /\ ~inUse[p]
         /\ block[p].size >= size
         /\ block[p].kind = "Exact" => block[p].size = AlignUp(size)
<1> DEFINE r == Request(size, exact)
<1>1. /\ r \in Requests /\ r \in Blocks /\ size \in Nat
      /\ r.kind = "SizeClass" => r.size = ClassSizes[r.class]
      /\ r.size >= size
      /\ r.kind = "Exact" => r.size = AlignUp(size)
  BY RequestCovers
<1> HIDE DEF r
<1>2. /\ p \in all /\ ~inUse[p]
      /\ p \in large <=> r.kind # "SizeClass"
  BY <1>1, HitShape DEF r
<1>3. p \in Ptrs /\ block[p] \in Blocks
      /\ (p \in large <=> block[p].kind # "SizeClass")
  BY <1>2 DEF TypeOK, FreeListExact
<1>4. CASE r.kind = "SizeClass"
  <2>1. block[p].class = r.class /\ block[p].kind = "SizeClass"
    BY <1>2, <1>3, <1>4 DEF Hits, r
  <2> QED BY <1>1, <1>2, <1>4, <2>1 DEF Sized
<1>5. CASE r.kind # "SizeClass"
  <2>1. /\ block[p].kind = r.kind
        /\ IF r.kind = "Exact" THEN block[p].size = r.size ELSE block[p].size >= r.size
    BY <1>5 DEF Hits, r
  <2>2. block[p].size \in Nat /\ r.size \in Nat BY <1>1, <1>3 DEF Blocks
  <2> QED BY <1>1, <1>2, <2>1, <2>2
<1> QED BY <1>4, <1>5

-----------------------------------------------------------------------------
\* The invariant of callers and pool.

\* A step at address p that takes, returns or shares it.
LEMMA TransferStep ==
  ASSUME TypeOK, ClientInv, NEW p \in Ptrs, phase = "open", phase' = phase,
         refs' \in [Threads -> [Ptrs -> Nat]], want' \in [Ptrs -> Nat],
         \A q \in Ptrs \ {p} :
           /\ Held(q)' = Held(q) /\ useCount'[q] = useCount[q]
           /\ block'[q] = block[q] /\ want'[q] = want[q],
         all' \subseteq all \cup {p}, Counted(p)', p \in all' => Sized(p)'
  PROVE  ClientInv'
<1>1. \A q \in Ptrs \ {p} : Counted(q)' BY DEF ClientInv, Counted
<1>2. \A q \in all' : q # p => Sized(q)' BY DEF ClientInv, Sized, TypeOK
<1> QED BY <1>1, <1>2 DEF ClientInv, ClientTypes

LEMMA ClientStep ==
  ASSUME TypeOK, Control, FreeListExact, ClientInv, [ClientNext]_allVars
  PROVE  ClientInv'
<1> USE DEF lifeVars, lockVars, blockVars, txnVars, leaseVars, devVars, useVars
<1>1. ASSUME UNCHANGED <<all, block, useCount, clientVars>>,
             phase' \in {"unborn", "open"} => phase \in {"unborn", "open"}
      PROVE  ClientInv'
  BY <1>1 DEF ClientInv, ClientTypes, Counted, Held, Sized, clientVars
<1>2. ASSUME NEW t \in Threads, NEW size \in ValidSizes, NEW exact \in BOOLEAN,
             ClientHit(t, size, exact)
      PROVE  ClientInv'
  <2>1. PICK p \in Ptrs :
          /\ AllocateHit(t, Request(size, exact), p)
          /\ Gains(t, p)
          /\ want' = [want EXCEPT ![p] = size]
    BY <1>2 DEF ClientHit
  <2>2. /\ p \in Hits(Request(size, exact)) /\ phase = "open" /\ phase' = phase
        /\ useCount' = [useCount EXCEPT ![p] = 1] /\ UNCHANGED <<all, block>>
    BY <2>1 DEF AllocateHit, TakenBy, MayCall
  <2>3. BooksOpen /\ p \in all /\ ~inUse[p]
    BY <2>2, RequestCovers, HitShape DEF BooksOpen
  <2>4. Sized(p) /\ Counted(p) BY <2>2, <2>3 DEF ClientInv
  <2>5. useCount[p] = 0 BY <2>3 DEF FreeListExact, TypeOK
  <2>6. /\ block[p].size >= size
        /\ block[p].kind = "Exact" => block[p].size = AlignUp(size)
    BY <2>2, <2>3, <2>4, HitSized
  <2>7. want' \in [Ptrs -> Nat] /\ want'[p] = size
        /\ \A q \in Ptrs \ {p} : want'[q] = want[q]
    BY <2>1, RequestCovers DEF ClientInv, ClientTypes
  <2>8. Sized(p)' BY <2>2, <2>4, <2>6, <2>7 DEF Sized
  <2>9. useCount'[p] = 1 /\ \A q \in Ptrs \ {p} : useCount'[q] = useCount[q]
    BY <2>2 DEF TypeOK
  <2>10. Counted(p)'
    <3>1. IsFiniteSet(Held(p)) /\ Cardinality(Held(p)) = 0
      BY <2>4, <2>5 DEF Counted
    <3>2. IsFiniteSet(Held(p)') /\ Cardinality(Held(p)') = 0 + 1
      BY <2>1, <3>1, HeldGains DEF ClientInv
    <3> QED BY <2>9, <3>2 DEF Counted
  <2>11. refs' \in [Threads -> [Ptrs -> Nat]] /\ \A q \in Ptrs \ {p} : Held(q)' = Held(q)
    BY <2>1, HeldGains DEF ClientInv
  <2> QED BY <2>2, <2>7, <2>8, <2>9, <2>10, <2>11, TransferStep
<1>3. ASSUME NEW t \in Threads, NEW size \in ValidSizes, NEW exact \in BOOLEAN,
             ClientMiss(t, size, exact)
      PROVE  ClientInv'
  BY <1>1, <1>3 DEF ClientMiss, AllocateMiss
<1>4. ASSUME NEW t \in Threads, NEW size \in ValidSizes, NEW exact \in BOOLEAN,
             ClientMalloc(t, size, exact)
      PROVE  ClientInv'
  <2>1. PICK p \in Ptrs :
          /\ req = Request(size, exact)
          /\ MallocSucceeds(t, p)
          /\ Gains(t, p)
          /\ want' = [want EXCEPT ![p] = size]
    BY <1>4 DEF ClientMalloc
  <2>2. /\ pc[t] = "malloc" /\ p \notin all /\ all' = all \cup {p} /\ phase' = phase
        /\ useCount' = [useCount EXCEPT ![p] = 1]
        /\ block' = [block EXCEPT ![p] = Request(size, exact)]
    BY <2>1 DEF MallocSucceeds, TakenBy
  <2>3. phase = "open" BY <2>2 DEF Control, OwnersKeepOpen
  <2>4. useCount[p] = 0 BY <2>2, <2>3 DEF FreeListExact, BooksOpen, TypeOK
  <2>5. want' \in [Ptrs -> Nat] /\ want'[p] = size
        /\ \A q \in Ptrs \ {p} : want'[q] = want[q]
    BY <2>1, RequestCovers DEF ClientInv, ClientTypes
  <2>6. /\ block'[p] = Request(size, exact) /\ useCount'[p] = 1
        /\ \A q \in Ptrs \ {p} : block'[q] = block[q] /\ useCount'[q] = useCount[q]
    BY <2>2 DEF TypeOK
  <2>7. Sized(p)' BY <2>5, <2>6, RequestCovers DEF Sized
  <2>8. Counted(p) BY <2>3 DEF ClientInv
  <2>9. Counted(p)'
    BY <2>1, <2>4, <2>6, <2>8, HeldGains DEF ClientInv, Counted
  <2>10. refs' \in [Threads -> [Ptrs -> Nat]] /\ \A q \in Ptrs \ {p} : Held(q)' = Held(q)
    BY <2>1, HeldGains DEF ClientInv
  <2> QED BY <2>2, <2>3, <2>5, <2>6, <2>7, <2>9, <2>10, TransferStep
<1>5. ASSUME NEW t \in Threads, NEW p \in Ptrs, ClientReturn(t, p)
      PROVE  ClientInv'
  <2>1. refs[t][p] > 0 /\ Loses(t, p) /\ want' = want
        /\ (DeallocateShared(t, p) \/ DeallocateLast(t, p))
    BY <1>5 DEF ClientReturn
  <2>2. /\ phase = "open" /\ phase' = phase /\ UNCHANGED <<all, block>>
        /\ useCount[p] > 0 /\ useCount' = [useCount EXCEPT ![p] = useCount[p] - 1]
    BY <2>1 DEF DeallocateShared, DeallocateLast, MayCall, TypeOK
  <2>3. useCount'[p] = useCount[p] - 1 /\ \A q \in Ptrs \ {p} : useCount'[q] = useCount[q]
    BY <2>2 DEF TypeOK
  <2>4. Counted(p) BY <2>2 DEF ClientInv
  <2>5. Counted(p)'
    BY <2>1, <2>3, <2>4, HeldLoses DEF ClientInv, Counted
  <2>6. refs' \in [Threads -> [Ptrs -> Nat]] /\ \A q \in Ptrs \ {p} : Held(q)' = Held(q)
    BY <2>1, HeldLoses DEF ClientInv
  <2>7. p \in all' => Sized(p)' BY <2>1, <2>2 DEF ClientInv, Sized
  <2> QED
    BY <2>1, <2>2, <2>3, <2>5, <2>6, <2>7, TransferStep DEF ClientInv, ClientTypes
<1>6. ASSUME NEW t \in Threads, NEW p \in Ptrs, ClientRetain(t, p)
      PROVE  ClientInv'
  <2>1. Gains(t, p) /\ want' = want /\ RetainAllocation(t, p)
    BY <1>6 DEF ClientRetain
  <2>2. /\ phase = "open" /\ phase' = phase /\ UNCHANGED <<all, block>>
        /\ useCount' = [useCount EXCEPT ![p] = useCount[p] + 1]
    BY <2>1 DEF RetainAllocation, MayCall
  <2>3. useCount'[p] = useCount[p] + 1 /\ \A q \in Ptrs \ {p} : useCount'[q] = useCount[q]
    BY <2>2 DEF TypeOK
  <2>4. Counted(p) BY <2>2 DEF ClientInv
  <2>5. Counted(p)'
    BY <2>1, <2>3, <2>4, HeldGains DEF ClientInv, Counted
  <2>6. refs' \in [Threads -> [Ptrs -> Nat]] /\ \A q \in Ptrs \ {p} : Held(q)' = Held(q)
    BY <2>1, HeldGains DEF ClientInv
  <2>7. p \in all' => Sized(p)' BY <2>1, <2>2 DEF ClientInv, Sized
  <2> QED
    BY <2>1, <2>2, <2>3, <2>5, <2>6, <2>7, TransferStep DEF ClientInv, ClientTypes
<1>7. ASSUME NEW t \in Threads, NEW p \in Ptrs, TrimBlock(t, p), UNCHANGED clientVars
      PROVE  ClientInv'
  <2>1. /\ pc[t] = "trim" /\ p \in Trimmable /\ all' = all \ {p} /\ phase' = phase
        /\ useCount' = [useCount EXCEPT ![p] = 0]
        /\ block' = [block EXCEPT ![p] = NoBlock]
    BY <1>7 DEF TrimBlock
  <2>2. phase = "open" BY <2>1 DEF Control, OwnersKeepOpen
  <2>3. useCount[p] = 0
    BY <2>1, <2>2, TrimmableShape DEF FreeListExact, BooksOpen, TypeOK
  <2>4. useCount'[p] = 0 /\ \A q \in Ptrs \ {p} :
          useCount'[q] = useCount[q] /\ block'[q] = block[q]
    BY <2>1 DEF TypeOK
  <2>5. refs' = refs /\ want' = want BY <1>7 DEF clientVars
  <2>6. \A q \in Ptrs : Held(q)' = Held(q) BY <2>5 DEF Held
  <2>7. Counted(p)' BY <2>2, <2>3, <2>4, <2>6 DEF ClientInv, Counted
  <2> QED
    BY <2>1, <2>2, <2>4, <2>5, <2>6, <2>7, TransferStep DEF ClientInv, ClientTypes
<1>8. CASE NoTransfer
  <2>1. UNCHANGED clientVars BY <1>8 DEF NoTransfer
  <2>2. CASE Construct
    BY <1>1, <2>1, <2>2 DEF Construct
  <2>3. ASSUME NEW t \in Threads,
               (\E lost \in SUBSET Ptrs : MallocFails(t, lost)) \/ Transact(t)
        PROVE  ClientInv'
    BY <1>1, <2>1, <2>3, FailedUndone
    DEF NothingRecorded, Transact, BeginPinMode, CancelPinMode, CommitPinMode,
        PublishLease, PublishFails, RetainForCapture
  <2>4. ASSUME NEW t \in Threads, Trim(t) PROVE ClientInv'
    BY <1>1, <1>7, <2>1, <2>4 DEF Trim, TrimBegin, TrimFails, TrimEnd
  <2>5. CASE ReleaseOwner
    BY <1>1, <2>1, <2>5 DEF ReleaseOwner, DestroyPool, ReleaseLease, DropLeaseOwner,
       Control, OwnersKeepOpen
  <2>6. CASE Teardown
    <3>1. phase' \notin {"unborn", "open"}
      BY <2>6 DEF Teardown, RetainResources, DrainStream, FreeBacking, CompleteFrees,
         DestroyStream, RetainStream
    <3> QED BY <2>1, <3>1 DEF ClientInv, ClientTypes, clientVars
  <2> QED BY <1>8, <2>2, <2>3, <2>4, <2>5, <2>6 DEF NoTransfer
<1>9. CASE UNCHANGED allVars
  BY <1>1, <1>9 DEF allVars, vars, clientVars
<1> QED BY <1>2, <1>3, <1>4, <1>5, <1>6, <1>8, <1>9 DEF ClientNext

\* The invariant holds whatever callers that keep the contract do.
THEOREM ClientInvHolds == ClientSpec => []ClientInv
<1>1. ClientInit => ClientInv
  <2> SUFFICES ASSUME ClientInit PROVE ClientInv
    OBVIOUS
  <2>1. \A p \in Ptrs : Held(p) = {} BY DEF ClientInit, Held
  <2>2. \A p \in Ptrs : Counted(p)
    BY <2>1, FS_EmptySet DEF ClientInit, Init, Counted
  <2> QED BY <2>2 DEF ClientInit, Init, ClientInv, ClientTypes
<1>2. TypeOK /\ Control /\ FreeListExact /\ ClientInv /\ [ClientNext]_allVars => ClientInv'
  BY ClientStep
<1> QED
  BY <1>1, <1>2, ClientsUsePool, TypeCorrect, ControlCorrect, FreeListsExact, PTL
  DEF ClientSpec

\* The pool's use count of an address is what its callers own of it.
THEOREM CountsAreOwnerships == ClientSpec => []UseCountIsOwnership
<1>1. ClientInv => UseCountIsOwnership
  BY DEF ClientInv, Counted, UseCountIsOwnership
<1> QED BY <1>1, ClientInvHolds, PTL

\* What a caller owns is recorded, mapped, in use and as big as it asked for,
\* if no capture begins while a call is in flight.
THEOREM OwnersCanUse ==
  ASSUME ~CaptureAnytime
  PROVE  ClientSpec => []OwnedIsUsable
<1>1. TypeOK /\ FreeListExact /\ NoDanglingNoLeak /\ ClientInv => OwnedIsUsable
  <2> SUFFICES ASSUME TypeOK, FreeListExact, NoDanglingNoLeak, ClientInv, phase = "open",
                      NEW t \in Threads, NEW p \in Ptrs, refs[t][p] > 0
               PROVE  /\ p \in all \cap dev
                      /\ inUse[p]
                      /\ block[p].size >= want[p]
                      /\ block[p].kind = "Exact" => block[p].size = AlignUp(want[p])
    BY DEF OwnedIsUsable
  <2>1. Counted(p) BY DEF ClientInv
  <2>2. refs[t][p] \in Nat \ {0} BY DEF ClientInv, ClientTypes
  <2>3. <<t, 1>> \in Held(p) BY <2>2 DEF Held
  <2>4. useCount[p] # 0 BY <2>1, <2>3, NobodyHas
  <2>5. inUse[p] /\ p \in all
    BY <2>4 DEF FreeListExact, BooksOpen, TypeOK
  <2>6. Sized(p) BY <2>5 DEF ClientInv
  <2> QED BY <2>5, <2>6 DEF NoDanglingNoLeak, Sized
<1> QED
  BY <1>1, ClientsUsePool, ClientInvHolds, TypeCorrect, FreeListsExact,
     RecordsMatchDevice, PTL
=============================================================================
