----------------------- MODULE ReusableMemoryPoolProofs -----------------------
(***************************************************************************)
(* Theorems of ReusableMemoryPool for all values of its constants.         *)
(***************************************************************************)
EXTENDS ReusableMemoryPool, FiniteSetTheorems, TLAPS

(* Requests                                                                *)

\* A set of natural numbers that is not empty has a least element.
LEMMA LeastNatural ==
  ASSUME NEW S, S \subseteq Nat, S # {}
  PROVE  \E i \in S : \A j \in S : i <= j
<1>1. PICK i \in S : \A j \in S : ~(<<j, i>> \in OpToRel(<, Nat))
  BY NatLessThanWellFounded, WFMin
<1>2. \A j \in S : ~(j < i)
  BY <1>1 DEF OpToRel
<1> QED
  BY <1>2, SMT

\* The first fitting class exists whenever some class fits, and it fits.
LEMMA FirstClassFits ==
  ASSUME NEW size, FittingClasses(size) # {}
  PROVE  /\ FirstClass(size) \in DOMAIN ClassSizes
         /\ size <= ClassSizes[FirstClass(size)]
<1>1. FittingClasses(size) \subseteq Nat
  BY ClassesAssumption DEF FittingClasses
<1>2. \E i \in FittingClasses(size) : \A j \in FittingClasses(size) : i <= j
  BY <1>1, LeastNatural
<1>3. FirstClass(size) \in FittingClasses(size)
  BY <1>2 DEF FirstClass
<1> QED
  BY <1>3 DEF FittingClasses

\* What a number that does not wrap around is rounded up to is at least as big.
LEMMA RoundedUp ==
  ASSUME NEW x \in Nat, NEW A \in Nat, A > 0
  PROVE  (x \div A) * A \in Nat /\ (x \div A) * A > x - A
<1>1. x \in Int /\ A \in Int /\ A > 0 OBVIOUS
<1> DEFINE q == x \div A
           r == x % A
<1>2. q \in Int /\ r \in 0 .. A - 1 /\ x = r + q * A BY <1>1, Z3
<1> HIDE DEF q, r
<1>3. q * A \in Int /\ (q <= -1 => q * A <= -A) BY <1>1, <1>2
<1> QED BY <1>2, <1>3 DEF q

LEMMA AlignUpCovers ==
  ASSUME NEW size \in ValidSizes
  PROVE  size \in Nat /\ AlignUp(size) \in Nat /\ AlignUp(size) >= size
<1> DEFINE x == size + Alignment - 1
<1>1. /\ size \in Nat /\ x \in Nat /\ x <= MaxSize /\ MaxSize \in Nat
      /\ Alignment \in Nat /\ Alignment > 0
  BY NumbersAssumption DEF ValidSizes, AlignOverflows
<1>2. x % (MaxSize + 1) = x
  <2> HIDE DEF x
  <2> QED BY <1>1, Z3
<1>3. AlignUp(size) = (x \div Alignment) * Alignment BY <1>2 DEF AlignUp
<1>4. size = x - Alignment + 1 BY <1>1
<1> HIDE DEF x
<1>5. /\ (x \div Alignment) * Alignment \in Nat
      /\ (x \div Alignment) * Alignment > x - Alignment
  BY <1>1, RoundedUp
<1> DEFINE y == (x \div Alignment) * Alignment
<1> HIDE DEF y
<1>6. y \in Nat /\ y > x - Alignment BY <1>5 DEF y
<1>7. y >= size BY <1>1, <1>4, <1>6
<1> QED BY <1>1, <1>3, <1>6, <1>7 DEF y

\* A request has a kind, a class and a size.
LEMMA RequestType ==
  ASSUME NEW r \in Requests
  PROVE  r \in Blocks
<1>1. PICK size \in ValidSizes, exact \in BOOLEAN : r = Request(size, exact)
  BY DEF Requests
<1>2. AlignUp(size) \in Nat
  BY AlignUpCovers
<1>3. CASE exact
  BY <1>1, <1>2, <1>3 DEF Request, Kinds, Blocks
<1>4. CASE ~exact /\ FittingClasses(AlignUp(size)) # {}
  <2>1. /\ FirstClass(AlignUp(size)) \in Nat
        /\ ClassSizes[FirstClass(AlignUp(size))] \in Nat
    BY <1>4, FirstClassFits, ClassesAssumption
  <2> QED
    BY <1>1, <1>4, <2>1 DEF Request, Kinds, Blocks
<1>5. CASE ~exact /\ FittingClasses(AlignUp(size)) = {}
  BY <1>1, <1>2, <1>5 DEF Request, Kinds, Blocks
<1> QED
  BY <1>3, <1>4, <1>5

-----------------------------------------------------------------------------
(* An allocation that fails                                                *)

\* Whichever records of the new block were made, undoing them leaves the books
\* as they were before the call.
NothingRecorded(t, lost) ==
  /\ pc[t] = "malloc"
  /\ lost \subseteq Ptrs \ (dev \cup all)
  /\ dev' = dev \cup lost
  /\ leaked' = leaked \cup lost
  /\ work' = StreamMemoryWork
  /\ Unlocked(t)
  /\ req' = NoBlock
  /\ UNCHANGED <<lifeVars, blockVars, txnVars, leaseVars, capturing>>

LEMMA FailedUndone ==
  \A t, lost : MallocFails(t, lost) => NothingRecorded(t, lost)
<1> SUFFICES ASSUME NEW t, NEW lost, MallocFails(t, lost)
             PROVE  NothingRecorded(t, lost)
  OBVIOUS
<1>1. all' = all /\ large' = large /\ lost \subseteq Ptrs \ (dev \cup all)
  <2>1. CASE lost = {} /\ UNCHANGED <<all, large>>
    BY <2>1
  <2>2. ASSUME NEW p \in Ptrs \ (dev \cup all \cup large),
               lost \subseteq {p}, RecordsUndone(p)
        PROVE  all' = all /\ large' = large /\ lost \subseteq Ptrs \ (dev \cup all)
    <3>1. \A S : S \subseteq {p} => (all \cup S) \ {p} = all /\ (large \cup S) \ {p} = large
      BY <2>2
    <3> QED BY <2>2, <3>1 DEF RecordsUndone, Undone
  <2> QED BY <2>1, <2>2 DEF MallocFails
<1> QED BY <1>1 DEF MallocFails, NothingRecorded, blockVars

-----------------------------------------------------------------------------
(* Type correctness                                                        *)

\* Pin counts stay natural numbers when a set of blocks is unpinned.
LEMMA UnpinnedType ==
  ASSUME NEW S, pinCount \in [Ptrs -> Nat]
  PROVE  Unpinned(S) \in [Ptrs -> Nat]
BY DEF Unpinned

LEMMA TypeStep ==
  ASSUME TypeOK, [Next]_vars
  PROVE  TypeOK'
<1> USE DEF TypeOK, Phases, lifeVars, lockVars, blockVars, txnVars, leaseVars,
            devVars, useVars
<1>1. CASE Construct
  BY <1>1, FlagsAssumption DEF Construct
<1>2. CASE ConstructFails
  BY <1>2 DEF ConstructFails
<1>3. ASSUME NEW t \in Threads, NEW r \in Requests, NEW p \in Ptrs,
             AllocateHit(t, r, p)
      PROVE  TypeOK'
  <2>1. PinsAfterFreeze(t, p) \in Nat /\ Generation(t) \in Nat
    BY NumbersAssumption DEF PinsAfterFreeze, Generation
  <2>2. freeCnt' \in [Ptrs -> Nat]
    BY <1>3 DEF AllocateHit, Hits, WithoutEntry
  <2> QED
    BY <1>3, <2>1, <2>2 DEF AllocateHit, FreezeForCapture, TakenBy, WithoutEntry
<1>4. ASSUME NEW t \in Threads, NEW r \in Requests, AllocateMiss(t, r)
      PROVE  TypeOK'
  BY <1>4, RequestType DEF AllocateMiss
<1>5. ASSUME NEW t \in Threads, NEW p \in Ptrs, MallocSucceeds(t, p)
      PROVE  TypeOK'
  <2>1. Generation(t) \in Nat /\ NoBlock \in Blocks
    BY NumbersAssumption DEF Generation, NoBlock, Blocks, Kinds
  <2> QED
    BY <1>5, <2>1
    DEF MallocSucceeds, FreezeForCapture, TakenBy, Unlocked, StreamMemoryWork
<1>6. ASSUME NEW t \in Threads, NEW lost \in SUBSET Ptrs, MallocFails(t, lost)
      PROVE  TypeOK'
  <2>1. NothingRecorded(t, lost) BY <1>6, FailedUndone
  <2> QED
    BY <2>1 DEF NothingRecorded, Unlocked, StreamMemoryWork, NoBlock, Blocks, Kinds
<1>7. ASSUME NEW t \in Threads, NEW p \in Ptrs, DeallocateShared(t, p)
      PROVE  TypeOK'
  BY <1>7 DEF DeallocateShared
<1>8. ASSUME NEW t \in Threads, NEW p \in Ptrs, DeallocateLast(t, p)
      PROVE  TypeOK'
  BY <1>8 DEF DeallocateLast
<1>9. ASSUME NEW t \in Threads, NEW p \in Ptrs, RetainAllocation(t, p)
      PROVE  TypeOK'
  BY <1>9 DEF RetainAllocation
<1>10. ASSUME NEW t \in Threads, BeginPinMode(t)
       PROVE  TypeOK'
  BY <1>10, NumbersAssumption DEF BeginPinMode, GenerationExhausted
<1>11. ASSUME NEW t \in Threads, NEW l \in Leases, CommitPinMode(t, l)
       PROVE  TypeOK'
  BY <1>11 DEF CommitPinMode
<1>12. ASSUME NEW t \in Threads, NEW l \in Leases, PublishLease(t, l)
       PROVE  TypeOK'
  BY <1>12 DEF PublishLease
<1>13. ASSUME NEW t \in Threads, NEW l \in Leases, PublishFails(t, l)
       PROVE  TypeOK'
  BY <1>13, UnpinnedType DEF PublishFails
<1>14. ASSUME NEW t \in Threads, CancelPinMode(t)
       PROVE  TypeOK'
  BY <1>14, UnpinnedType DEF CancelPinMode
<1>15. ASSUME NEW t \in Threads, NEW p \in Ptrs, RetainForCapture(t, p)
       PROVE  TypeOK'
  BY <1>15 DEF RetainForCapture, FreezeForCapture, PinsAfterFreeze
<1>16. CASE DestroyPool
  BY <1>16 DEF DestroyPool
<1>17. ASSUME NEW l \in Leases, ReleaseLease(l)
       PROVE  TypeOK'
  BY <1>17, UnpinnedType DEF ReleaseLease
<1>18. ASSUME NEW l \in Leases, DropLeaseOwner(l)
       PROVE  TypeOK'
  BY <1>18 DEF DropLeaseOwner
<1>19. ASSUME NEW t \in Threads,
              TrimBegin(t) \/ TrimFails(t) \/ TrimEnd(t)
       PROVE  TypeOK'
  <2>1. CASE TrimBegin(t) BY <2>1 DEF TrimBegin
  <2>2. CASE TrimFails(t) BY <2>2 DEF TrimFails, Unlocked
  <2>3. CASE TrimEnd(t) BY <2>3 DEF TrimEnd, Unlocked
  <2> QED BY <1>19, <2>1, <2>2, <2>3
<1>20. ASSUME NEW t \in Threads, NEW p \in Ptrs, TrimBlock(t, p)
       PROVE  TypeOK'
  <2>1. NoBlock \in Blocks
    BY DEF NoBlock, Blocks, Kinds
  <2>2. freeCnt' \in [Ptrs -> Nat]
    BY <1>20 DEF TrimBlock, TrimmableClass, WithoutEntry
  <2> QED
    BY <1>20, <2>1, <2>2 DEF TrimBlock, StreamMemoryWork
<1>21. CASE RetainResources \/ DrainStream
  BY <1>21 DEF RetainResources, DrainStream, Synchronize
<1>22. ASSUME NEW p \in Ptrs, NEW freed \in BOOLEAN, FreeBacking(p, freed)
       PROVE  TypeOK'
  BY <1>22 DEF FreeBacking, StreamMemoryWork
<1>23. CASE CompleteFrees \/ DestroyStream \/ RetainStream
  BY <1>23 DEF CompleteFrees, Synchronize, DestroyStream, RetainStream
<1>24. CASE Environment
  <2>1. CASE LaunchWork \/ CompleteWork
    BY <2>1 DEF LaunchWork, CompleteWork
  <2>2. CASE BeginCapture \/ EndCapture
    BY <2>2 DEF BeginCapture, EndCapture
  <2> QED BY <1>24, <2>1, <2>2 DEF Environment
<1>25. CASE UNCHANGED vars
  BY <1>25 DEF vars
<1> QED
  BY <1>1, <1>2, <1>3, <1>4, <1>5, <1>6, <1>7, <1>8, <1>9, <1>10, <1>11,
     <1>12, <1>13, <1>14, <1>15, <1>16, <1>17, <1>18, <1>19, <1>20, <1>21,
     <1>22, <1>23, <1>24, <1>25
  DEF Next, Allocate, Own, Transact, Trim, ReleaseOwner, Teardown

\* Every variable keeps its type.
THEOREM TypeCorrect == Spec => []TypeOK
<1>1. Init => TypeOK
  <2>1. NoBlock \in Blocks
    BY DEF NoBlock, Blocks, Kinds
  <2>2. 0 \in 0..MaxGeneration
    BY NumbersAssumption
  <2>3. Init => inUse \in [Ptrs -> BOOLEAN]
    BY Zenon DEF Init
  <2>4. Init => /\ poolAlive \in BOOLEAN /\ streamLive \in BOOLEAN
                /\ pinnedMode \in BOOLEAN /\ capturing \in BOOLEAN
    BY DEF Init
  <2> QED
    BY <2>1, <2>2, <2>3, <2>4 DEF Init, TypeOK, Phases
<1>2. TypeOK /\ [Next]_vars => TypeOK'
  BY TypeStep
<1> QED
  BY <1>1, <1>2, PTL DEF Spec

-----------------------------------------------------------------------------
(* The records of a transaction                                            *)

\* freeze_for_capture_ keeps the vector and the set of frozen blocks alike.
LEMMA FreezeClean ==
  ASSUME TransactionClean, NEW t, NEW p, FreezeForCapture(t, p),
         UNCHANGED pinnedMode
  PROVE  TransactionClean'
BY DEF TransactionClean, FreezeForCapture, Freezes, OwnsTransaction

LEMMA CleanStep ==
  ASSUME TransactionClean, [Next]_vars
  PROVE  TransactionClean'
<1> USE DEF lifeVars, lockVars, blockVars, txnVars, leaseVars, devVars, useVars
<1>1. CASE UNCHANGED <<frozen, frozenSet, pinnedMode>>
  BY <1>1 DEF TransactionClean
<1>2. ASSUME NEW t \in Threads, NEW r \in Requests, NEW p \in Ptrs,
             AllocateHit(t, r, p)
      PROVE  TransactionClean'
  BY <1>2, FreezeClean DEF AllocateHit
<1>3. ASSUME NEW t \in Threads, NEW p \in Ptrs, MallocSucceeds(t, p)
      PROVE  TransactionClean'
  BY <1>3, FreezeClean DEF MallocSucceeds
<1>4. ASSUME NEW t \in Threads, NEW p \in Ptrs, RetainForCapture(t, p)
      PROVE  TransactionClean'
  BY <1>4, FreezeClean DEF RetainForCapture
<1>5. ASSUME NEW t \in Threads, BeginPinMode(t)
      PROVE  TransactionClean'
  BY <1>5 DEF BeginPinMode, TransactionClean
<1>6. ASSUME NEW t \in Threads, CancelPinMode(t)
      PROVE  TransactionClean'
  BY <1>6 DEF CancelPinMode, TransactionClean
<1>7. ASSUME NEW t \in Threads, NEW l \in Leases, CommitPinMode(t, l)
      PROVE  TransactionClean'
  BY <1>7 DEF CommitPinMode, TransactionClean
<1>8. CASE \/ Construct \/ ConstructFails \/ ReleaseOwner
           \/ Teardown \/ Environment \/ UNCHANGED vars
  BY <1>1, <1>8
  DEF Construct, ConstructFails, ReleaseOwner, DestroyPool, ReleaseLease,
      DropLeaseOwner, Teardown, RetainResources, DrainStream, FreeBacking,
      CompleteFrees, DestroyStream, RetainStream, Environment, LaunchWork,
      CompleteWork, BeginCapture, EndCapture, vars
<1>9. ASSUME NEW t \in Threads,
             Allocate(t) \/ Own(t) \/ Transact(t) \/ Trim(t)
      PROVE  TransactionClean'
  BY <1>1, <1>2, <1>3, <1>4, <1>5, <1>6, <1>7, <1>9, FailedUndone
  DEF Allocate, AllocateMiss, NothingRecorded, Own, DeallocateShared,
      DeallocateLast, RetainAllocation, Transact, PublishLease, PublishFails,
      Trim, TrimBegin, TrimBlock, TrimFails, TrimEnd
<1> QED
  BY <1>8, <1>9 DEF Next

\* A transaction begins and ends without blocks, and its vector and its set of
\* frozen blocks agree.
THEOREM TransactionStaysClean == Spec => []TransactionClean
<1>1. Init => TransactionClean
  BY DEF Init, TransactionClean
<1>2. TransactionClean /\ [Next]_vars => TransactionClean'
  BY CleanStep
<1> QED
  BY <1>1, <1>2, PTL DEF Spec

-----------------------------------------------------------------------------
(* Who holds the mutex and who keeps the State open                        *)

Control == MutexHolder /\ OwnersKeepOpen /\ LeaseShape

LEMMA ControlStep ==
  ASSUME TypeOK, Control, [Next]_vars
  PROVE  Control'
<1> USE DEF lifeVars, lockVars, blockVars, txnVars, leaseVars, devVars,
            Control, MutexHolder, OwnersKeepOpen, LeaseShape, TypeOK
<1>1. CASE Construct \/ ConstructFails
  BY <1>1 DEF Construct, ConstructFails
<1>2. ASSUME NEW t \in Threads,
             \/ \E r \in Requests, p \in Ptrs : AllocateHit(t, r, p)
             \/ Own(t)
             \/ BeginPinMode(t)
             \/ CancelPinMode(t)
             \/ \E p \in Ptrs : RetainForCapture(t, p)
             \/ \E p \in Ptrs : TrimBlock(t, p)
      PROVE  Control'
  <2>1. UNCHANGED <<lifeVars, lockVars, leaseVars>>
    BY <1>2 DEF AllocateHit, Own, DeallocateShared, DeallocateLast,
       RetainAllocation, BeginPinMode, CancelPinMode, RetainForCapture,
       TrimBlock
  <2> QED
    BY <2>1
<1>3. ASSUME NEW t \in Threads,
             TrimBegin(t) \/ \E r \in Requests : AllocateMiss(t, r)
      PROVE  Control'
  BY <1>3, ThreadsAssumption DEF TrimBegin, AllocateMiss, MayCall
<1>4. ASSUME NEW t \in Threads,
             \/ \E p \in Ptrs : MallocSucceeds(t, p)
             \/ \E lost \in SUBSET Ptrs : MallocFails(t, lost)
             \/ TrimFails(t) \/ TrimEnd(t)
      PROVE  Control'
  BY <1>4, ThreadsAssumption, FailedUndone
  DEF MallocSucceeds, NothingRecorded, TrimFails, TrimEnd, Unlocked
<1>5. ASSUME NEW t \in Threads, NEW l \in Leases, CommitPinMode(t, l)
      PROVE  Control'
  BY <1>5, ThreadsAssumption DEF CommitPinMode, MayCall
<1>6. ASSUME NEW t \in Threads, NEW l \in Leases, PublishLease(t, l)
      PROVE  Control'
  BY <1>6, ThreadsAssumption DEF PublishLease
<1>7. ASSUME NEW t \in Threads, NEW l \in Leases, PublishFails(t, l)
      PROVE  Control'
  BY <1>7, ThreadsAssumption DEF PublishFails
<1>8. CASE DestroyPool
  BY <1>8 DEF DestroyPool, LastOwner
<1>9. ASSUME NEW l \in Leases, ReleaseLease(l)
      PROVE  Control'
  BY <1>9 DEF ReleaseLease
<1>10. ASSUME NEW l \in Leases, DropLeaseOwner(l)
       PROVE  Control'
  BY <1>10 DEF DropLeaseOwner, LastOwner
<1>11. CASE Teardown
  BY <1>11
  DEF Teardown, RetainResources, DrainStream, FreeBacking, CompleteFrees,
      DestroyStream, RetainStream
<1>12. CASE Environment \/ UNCHANGED vars
  BY <1>12
  DEF Environment, LaunchWork, CompleteWork, BeginCapture, EndCapture, vars
<1> QED
  BY <1>1, <1>2, <1>3, <1>4, <1>5, <1>6, <1>7, <1>8, <1>9, <1>10, <1>11,
     <1>12
  DEF Next, Allocate, Transact, Trim, ReleaseOwner

\* The mutex is held exactly by a call that asks the device, the State is open
\* exactly while somebody refers to it, and idle leases list no block.
THEOREM ControlCorrect == Spec => []Control
<1>1. Init => Control
  BY ThreadsAssumption
  DEF Init, Control, MutexHolder, OwnersKeepOpen, LeaseShape
<1>2. TypeOK /\ Control /\ [Next]_vars => Control'
  BY ControlStep
<1> QED
  BY <1>1, <1>2, TypeCorrect, PTL DEF Spec

\* The State outlives every call and every lease, and nothing else keeps it.
THEOREM OwnersHold == Spec => []OwnersKeepOpen
<1>1. Control => OwnersKeepOpen
  BY DEF Control
<1> QED
  BY <1>1, ControlCorrect, PTL

-----------------------------------------------------------------------------
(* Free lists, large blocks and use counts                                 *)

\* A size-class request looks in the free lists, the others in large_blocks_.
LEMMA HitShape ==
  ASSUME TypeOK, FreeListExact, BooksOpen, NEW r \in Requests, NEW p \in Hits(r)
  PROVE  /\ p \in all /\ ~inUse[p]
         /\ freeCnt[p] = IF r.kind = "SizeClass" THEN 1 ELSE 0
         /\ p \in large <=> r.kind # "SizeClass"
<1>1. CASE r.kind = "SizeClass"
  BY <1>1 DEF Hits, FreeListExact, TypeOK
<1>2. CASE r.kind # "SizeClass"
  BY <1>2 DEF Hits, FreeListExact, TypeOK
<1> QED
  BY <1>1, <1>2

\* What trim may free is recorded and idle.
LEMMA TrimmableShape ==
  ASSUME TypeOK, FreeListExact, BooksOpen, NEW p \in Trimmable
  PROVE  /\ p \in all /\ ~inUse[p] /\ pinCount[p] = 0
         /\ p \in TrimmableClass <=> p \notin large
         /\ freeCnt[p] = IF p \in large THEN 0 ELSE 1
<1>1. CASE p \in TrimmableClass
  BY <1>1 DEF TrimmableClass, FreeListExact, TypeOK
<1>2. CASE p \notin TrimmableClass
  BY <1>2 DEF Trimmable, TrimmableLarge, FreeListExact, TypeOK
<1> QED
  BY <1>1, <1>2

LEMMA FreeListStep ==
  ASSUME TypeOK, Control, FreeListExact, [Next]_vars
  PROVE  FreeListExact'
<1> USE DEF lifeVars, lockVars, blockVars, txnVars, leaseVars, devVars, useVars
<1>1. ASSUME UNCHANGED <<all, block, freeCnt, large, inUse, useCount>>,
             BooksOpen' => BooksOpen
      PROVE  FreeListExact'
  BY <1>1 DEF FreeListExact
<1>2. ASSUME NEW t \in Threads, NEW r \in Requests, NEW p \in Ptrs,
             AllocateHit(t, r, p)
      PROVE  FreeListExact'
  <2>1. BooksOpen
    BY <1>2 DEF AllocateHit, MayCall, BooksOpen
  <2>2. /\ p \in all /\ ~inUse[p]
        /\ freeCnt[p] = IF r.kind = "SizeClass" THEN 1 ELSE 0
    BY <1>2, <2>1, HitShape DEF AllocateHit
  <2> QED
    BY <1>2, <2>1, <2>2
    DEF AllocateHit, TakenBy, WithoutEntry, FreeListExact, TypeOK
<1>3. ASSUME NEW t \in Threads, NEW p \in Ptrs, MallocSucceeds(t, p)
      PROVE  FreeListExact'
  <2>1. BooksOpen
    BY <1>3 DEF MallocSucceeds, BooksOpen, Control, OwnersKeepOpen
  <2>2. p \notin all /\ p \notin large /\ freeCnt[p] = 0
    BY <1>3, <2>1 DEF MallocSucceeds, FreeListExact, TypeOK
  <2>3. large' = {q \in all' : block'[q].kind # "SizeClass"}
    BY <1>3, <2>1, <2>2 DEF MallocSucceeds, FreeListExact, TypeOK
  <2> QED
    BY <1>3, <2>1, <2>2, <2>3 DEF MallocSucceeds, TakenBy, FreeListExact, TypeOK
<1>4. ASSUME NEW t \in Threads, NEW p \in Ptrs, DeallocateShared(t, p)
      PROVE  FreeListExact'
  BY <1>4 DEF DeallocateShared, FreeListExact, TypeOK, BooksOpen
<1>5. ASSUME NEW t \in Threads, NEW p \in Ptrs, DeallocateLast(t, p)
      PROVE  FreeListExact'
  BY <1>5 DEF DeallocateLast, MayCall, FreeListExact, TypeOK, BooksOpen
<1>6. ASSUME NEW t \in Threads, NEW p \in Ptrs, RetainAllocation(t, p)
      PROVE  FreeListExact'
  BY <1>6 DEF RetainAllocation, MayCall, FreeListExact, TypeOK, BooksOpen
<1>7. ASSUME NEW t \in Threads, NEW p \in Ptrs, TrimBlock(t, p)
      PROVE  FreeListExact'
  <2>1. BooksOpen
    BY <1>7 DEF TrimBlock, BooksOpen, Control, OwnersKeepOpen
  <2>2. /\ p \in all
        /\ p \in TrimmableClass <=> p \notin large
        /\ freeCnt[p] = IF p \in large THEN 0 ELSE 1
    BY <1>7, <2>1, TrimmableShape DEF TrimBlock
  <2>3. large' = {q \in all' : block'[q].kind # "SizeClass"}
    BY <1>7, <2>1, <2>2 DEF TrimBlock, FreeListExact, TypeOK
  <2> QED
    BY <1>7, <2>1, <2>2, <2>3
    DEF TrimBlock, WithoutEntry, FreeListExact, TypeOK
<1>8. CASE \/ Construct \/ ConstructFails \/ ReleaseOwner
           \/ Environment \/ UNCHANGED vars
  BY <1>1, <1>8
  DEF Construct, ConstructFails, ReleaseOwner, DestroyPool, ReleaseLease,
      DropLeaseOwner, LastOwner, Environment, LaunchWork, CompleteWork,
      BeginCapture, EndCapture, vars, BooksOpen, Control, OwnersKeepOpen
<1>9. CASE Teardown
  BY <1>1, <1>9
  DEF Teardown, RetainResources, DrainStream, FreeBacking, CompleteFrees,
      DestroyStream, RetainStream, BooksOpen, FreeListExact
<1>10. ASSUME NEW t \in Threads,
              Allocate(t) \/ Own(t) \/ Transact(t) \/ Trim(t)
       PROVE  FreeListExact'
  BY <1>1, <1>2, <1>3, <1>4, <1>5, <1>6, <1>7, <1>10, FailedUndone
  DEF Allocate, AllocateMiss, NothingRecorded, Own, Transact, BeginPinMode,
      CommitPinMode, CancelPinMode, RetainForCapture, PublishLease,
      PublishFails, Trim, TrimBegin, TrimFails, TrimEnd, BooksOpen
<1> QED
  BY <1>8, <1>9, <1>10 DEF Next

\* A size-class block is in its free list once when idle and never when in
\* use, large_blocks_ holds all others, and in_use agrees with use_count.
THEOREM FreeListsExact == Spec => []FreeListExact
<1>1. Init => FreeListExact
  BY DEF Init, FreeListExact, NoBlock
<1>2. TypeOK /\ Control /\ FreeListExact /\ [Next]_vars => FreeListExact'
  BY FreeListStep
<1> QED
  BY <1>1, <1>2, TypeCorrect, ControlCorrect, PTL DEF Spec

-----------------------------------------------------------------------------
(* Pin counts                                                              *)

LEMMA HoldersFinite ==
  ASSUME NEW p
  PROVE  IsFiniteSet(Holders(p)) /\ Cardinality(Holders(p)) \in Nat
BY LeasesAssumption, FS_Subset, FS_CardinalityType DEF Holders

\* Only the lease whose blocks change gains or loses a pin of a block.
LEMMA HoldersChange ==
  ASSUME NEW l \in Leases, NEW p,
         \A k \in Leases \ {l} : leaseBlocks'[k] = leaseBlocks[k]
  PROVE  Cardinality(Holders(p)') =
           Cardinality(Holders(p)) + (IF p \in leaseBlocks'[l] THEN 1 ELSE 0)
                                   - (IF p \in leaseBlocks[l] THEN 1 ELSE 0)
<1>1. Holders(p)' = IF p \in leaseBlocks'[l] THEN Holders(p) \cup {l}
                                             ELSE Holders(p) \ {l}
  BY DEF Holders
<1>2. l \in Holders(p) <=> p \in leaseBlocks[l]
  BY DEF Holders
<1>3. /\ Cardinality(Holders(p)) \in Nat
      /\ Cardinality(Holders(p) \cup {l}) =
           IF l \in Holders(p) THEN Cardinality(Holders(p))
                               ELSE Cardinality(Holders(p)) + 1
      /\ Cardinality(Holders(p) \ {l}) =
           IF l \in Holders(p) THEN Cardinality(Holders(p)) - 1
                               ELSE Cardinality(Holders(p))
  BY HoldersFinite, FS_AddElement, FS_RemoveElement
<1> QED
  BY <1>1, <1>2, <1>3

\* A block that nobody lists is held by no lease.
LEMMA NoHolder ==
  ASSUME NEW p, \A l \in Leases : p \notin leaseBlocks[l]
  PROVE  Cardinality(Holders(p)) = 0
<1>1. Holders(p) = {}
  BY DEF Holders
<1> QED
  BY <1>1, FS_EmptySet

\* A block whose pin count is zero is listed by nobody.
LEMMA UnpinnedUnlisted ==
  ASSUME PinAccounting, NEW p \in Ptrs, pinCount[p] = 0
  PROVE  p \notin frozen /\ \A l \in Leases : p \notin leaseBlocks[l]
<1>1. p \notin frozen /\ Cardinality(Holders(p)) = 0
  BY HoldersFinite DEF PinAccounting
<1>2. Holders(p) = {}
  BY <1>1, HoldersFinite, FS_EmptySet
<1> QED
  BY <1>1, <1>2 DEF Holders

PinsCorrect == PinAccounting /\ PinnedStaysRecorded

\* What freeze_for_capture_ does to the records of a block and its count.
LEMMA FreezePins ==
  ASSUME TypeOK, TransactionClean, PinAccounting,
         NEW t, NEW p \in Ptrs, FreezeForCapture(t, p),
         pinCount' = [pinCount EXCEPT ![p] = PinsAfterFreeze(t, p)],
         UNCHANGED leaseBlocks
  PROVE  PinAccounting' /\ frozen' \subseteq frozen \cup {p}
<1>1. \A q \in Ptrs : Holders(q)' = Holders(q)
  BY DEF Holders
<1>2. frozen' \subseteq frozen \cup {p}
  BY DEF FreezeForCapture
<1>3. ASSUME NEW q \in Ptrs
      PROVE  pinCount'[q] = (IF q \in frozen' THEN 1 ELSE 0)
                              + Cardinality(Holders(q)')
  BY <1>1, HoldersFinite
  DEF TypeOK, TransactionClean, PinAccounting, FreezeForCapture,
      PinsAfterFreeze, Freezes
<1> QED
  BY <1>2, <1>3 DEF PinAccounting

\* Dropping the pins of a lease: its blocks lose exactly its pin.
LEMMA LeaseUnpinned ==
  ASSUME TypeOK, PinAccounting, NEW l \in Leases,
         pinCount' = Unpinned(leaseBlocks[l]),
         leaseBlocks' = [leaseBlocks EXCEPT ![l] = {}],
         UNCHANGED frozen
  PROVE  PinAccounting'
<1>1. ASSUME NEW p \in Ptrs
      PROVE  pinCount'[p] = (IF p \in frozen' THEN 1 ELSE 0)
                              + Cardinality(Holders(p)')
  <2>1. Cardinality(Holders(p)') =
          Cardinality(Holders(p)) - (IF p \in leaseBlocks[l] THEN 1 ELSE 0)
    <3>1. /\ leaseBlocks'[l] = {}
          /\ \A k \in Leases \ {l} : leaseBlocks'[k] = leaseBlocks[k]
      BY DEF TypeOK
    <3> QED
      BY <3>1, HoldersChange, HoldersFinite
  <2>2. p \in leaseBlocks[l] => Cardinality(Holders(p)) > 0
    <3>1. p \in leaseBlocks[l] => Holders(p) # {}
      BY DEF Holders
    <3> QED
      BY <3>1, HoldersFinite, FS_EmptySet
  <2> QED
    BY <2>1, <2>2, HoldersFinite DEF TypeOK, PinAccounting, Unpinned
<1> QED
  BY <1>1 DEF PinAccounting

LEMMA PinStep ==
  ASSUME TypeOK, Control, TransactionClean, FreeListExact, PinsCorrect,
         [Next]_vars
  PROVE  PinsCorrect'
<1> USE DEF lifeVars, lockVars, blockVars, txnVars, leaseVars, devVars,
            useVars, PinsCorrect
<1>1. ASSUME UNCHANGED <<pinCount, frozen, leaseBlocks>>,
             BooksOpen' => BooksOpen /\ all \subseteq all'
      PROVE  PinsCorrect'
  BY <1>1 DEF PinAccounting, PinnedStaysRecorded, Holders
<1>2. ASSUME NEW t \in Threads, NEW r \in Requests, NEW p \in Ptrs,
             AllocateHit(t, r, p)
      PROVE  PinsCorrect'
  <2>1. BooksOpen
    BY <1>2 DEF AllocateHit, MayCall, BooksOpen
  <2>2. p \in all
    BY <1>2, <2>1, HitShape DEF AllocateHit
  <2>3. PinAccounting' /\ frozen' \subseteq frozen \cup {p}
    BY <1>2, FreezePins DEF AllocateHit
  <2> QED
    BY <1>2, <2>1, <2>2, <2>3 DEF AllocateHit, PinnedStaysRecorded
<1>3. ASSUME NEW t \in Threads, NEW p \in Ptrs, MallocSucceeds(t, p)
      PROVE  PinsCorrect'
  <2>1. BooksOpen
    BY <1>3 DEF MallocSucceeds, BooksOpen, Control, OwnersKeepOpen
  <2>2. p \notin frozen /\ \A l \in Leases : p \notin leaseBlocks[l]
    BY <1>3, <2>1 DEF MallocSucceeds, PinnedStaysRecorded
  <2>3. pinCount[p] = 0
    BY <2>2, NoHolder DEF PinAccounting
  <2>4. PinAccounting' /\ frozen' \subseteq frozen \cup {p}
    <3>1. pinCount' = [pinCount EXCEPT ![p] = PinsAfterFreeze(t, p)]
      BY <1>3, <2>3 DEF MallocSucceeds, PinsAfterFreeze
    <3> QED
      BY <1>3, <3>1, FreezePins DEF MallocSucceeds
  <2> QED
    BY <1>3, <2>1, <2>4 DEF MallocSucceeds, PinnedStaysRecorded
<1>4. ASSUME NEW t \in Threads, NEW p \in Ptrs, RetainForCapture(t, p)
      PROVE  PinsCorrect'
  <2>1. PinAccounting' /\ frozen' \subseteq frozen \cup {p}
    BY <1>4, FreezePins DEF RetainForCapture
  <2> QED
    BY <1>4, <2>1
    DEF RetainForCapture, PinnedStaysRecorded, BooksOpen
<1>5. ASSUME NEW t \in Threads, NEW l \in Leases, CommitPinMode(t, l)
      PROVE  PinsCorrect'
  <2>1. leaseBlocks[l] = {}
    BY <1>5 DEF CommitPinMode, Control, LeaseShape
  <2>2. ASSUME NEW p \in Ptrs
        PROVE  pinCount'[p] = (IF p \in frozen' THEN 1 ELSE 0)
                                + Cardinality(Holders(p)')
    <3>1. Cardinality(Holders(p)') =
            Cardinality(Holders(p)) + (IF p \in frozen THEN 1 ELSE 0)
      <4>1. /\ leaseBlocks'[l] = frozen
            /\ \A k \in Leases \ {l} : leaseBlocks'[k] = leaseBlocks[k]
        BY <1>5 DEF CommitPinMode, TypeOK
      <4> QED
        BY <2>1, <4>1, HoldersChange, HoldersFinite
    <3> QED
      BY <1>5, <3>1, HoldersFinite DEF CommitPinMode, PinAccounting
  <2> QED
    BY <1>5, <2>2
    DEF CommitPinMode, PinAccounting, PinnedStaysRecorded, BooksOpen, TypeOK
<1>6. ASSUME NEW t \in Threads, CancelPinMode(t)
      PROVE  PinsCorrect'
  <2>1. ASSUME NEW p \in Ptrs
        PROVE  pinCount'[p] = (IF p \in frozen' THEN 1 ELSE 0)
                                + Cardinality(Holders(p)')
    <3>1. Holders(p)' = Holders(p)
      BY <1>6 DEF CancelPinMode, Holders
    <3> QED
      BY <1>6, <3>1, HoldersFinite
      DEF CancelPinMode, Unpinned, PinAccounting, TypeOK
  <2> QED
    BY <1>6, <2>1
    DEF CancelPinMode, PinAccounting, PinnedStaysRecorded, BooksOpen
<1>7. ASSUME NEW l \in Leases, pinCount' = Unpinned(leaseBlocks[l]),
             leaseBlocks' = [leaseBlocks EXCEPT ![l] = {}],
             UNCHANGED <<frozen, all, phase>>
      PROVE  PinsCorrect'
  BY <1>7, LeaseUnpinned DEF PinnedStaysRecorded, BooksOpen, TypeOK
<1>8. ASSUME NEW t \in Threads, NEW p \in Ptrs, TrimBlock(t, p)
      PROVE  PinsCorrect'
  <2>1. BooksOpen
    BY <1>8 DEF TrimBlock, BooksOpen, Control, OwnersKeepOpen
  <2>2. pinCount[p] = 0
    BY <1>8, <2>1, TrimmableShape DEF TrimBlock
  <2>3. p \notin frozen /\ \A l \in Leases : p \notin leaseBlocks[l]
    BY <2>2, UnpinnedUnlisted
  <2>4. pinCount' = pinCount
    BY <1>8, <2>2 DEF TrimBlock, TypeOK
  <2> QED
    BY <1>8, <2>1, <2>3, <2>4
    DEF TrimBlock, PinAccounting, PinnedStaysRecorded, Holders
<1>9. CASE \/ Construct \/ ConstructFails \/ DestroyPool
           \/ Environment \/ UNCHANGED vars
  BY <1>1, <1>9
  DEF Construct, ConstructFails, DestroyPool, Environment, LaunchWork,
      CompleteWork, BeginCapture, EndCapture, vars, BooksOpen
<1>10. CASE \E l \in Leases : ReleaseLease(l) \/ DropLeaseOwner(l)
  BY <1>1, <1>7, <1>10
  DEF ReleaseLease, DropLeaseOwner, BooksOpen, Control, OwnersKeepOpen
<1>11. CASE Teardown
  BY <1>1, <1>11
  DEF Teardown, RetainResources, DrainStream, FreeBacking, CompleteFrees,
      DestroyStream, RetainStream, BooksOpen
<1>12. ASSUME NEW t \in Threads,
              Allocate(t) \/ Own(t) \/ Transact(t) \/ Trim(t)
       PROVE  PinsCorrect'
  BY <1>1, <1>2, <1>3, <1>4, <1>5, <1>6, <1>7, <1>8, <1>12, FailedUndone
  DEF Allocate, AllocateMiss, NothingRecorded, Own, DeallocateShared,
      DeallocateLast, RetainAllocation, Transact, BeginPinMode, PublishLease,
      PublishFails, Trim, TrimBegin, TrimFails, TrimEnd, BooksOpen
<1> QED
  BY <1>9, <1>10, <1>11, <1>12 DEF Next, ReleaseOwner

LEMMA PinsStayCorrect == Spec => []PinsCorrect
<1>1. Init => PinsCorrect
  BY NoHolder DEF Init, PinsCorrect, PinAccounting, PinnedStaysRecorded
<1>2. /\ TypeOK /\ Control /\ TransactionClean /\ FreeListExact /\ PinsCorrect
      /\ [Next]_vars
      => PinsCorrect'
  BY PinStep
<1> QED
  BY <1>1, <1>2, TypeCorrect, ControlCorrect, TransactionStaysClean,
     FreeListsExact, PTL DEF Spec

\* The pin count of a block is the number of transactions and leases that list
\* it, however commits, releases, cancels and failures overlap.
THEOREM PinsAccountedFor == Spec => []PinAccounting
<1>1. PinsCorrect => PinAccounting
  BY DEF PinsCorrect
<1> QED
  BY <1>1, PinsStayCorrect, PTL

-----------------------------------------------------------------------------
(* The device                                                              *)

LEMMA CaptureStep ==
  ASSUME TypeOK, Control, MallocOutsideCapture, [Next]_vars
  PROVE  MallocOutsideCapture'
<1> USE DEF lifeVars, lockVars, blockVars, txnVars, leaseVars, devVars,
            useVars, MallocOutsideCapture
<1>1. CASE UNCHANGED <<pc, capturing>>
  BY <1>1
<1>2. ASSUME UNCHANGED capturing, NEW t \in Threads, NEW c,
             c \in {"idle", "trim", "publish"}, pc' = [pc EXCEPT ![t] = c]
      PROVE  MallocOutsideCapture'
  BY <1>2 DEF TypeOK
<1>3. ASSUME NEW t \in Threads, NEW r \in Requests, AllocateMiss(t, r)
      PROVE  MallocOutsideCapture'
  BY <1>3 DEF AllocateMiss, MayGrow, TypeOK
<1>4. CASE BeginCapture
  BY <1>4, ThreadsAssumption DEF BeginCapture, Control, MutexHolder
<1>5. CASE EndCapture
  BY <1>5 DEF EndCapture
<1>6. CASE \/ Construct \/ ConstructFails \/ ReleaseOwner \/ Teardown
           \/ LaunchWork \/ CompleteWork \/ UNCHANGED vars
  BY <1>1, <1>6
  DEF Construct, ConstructFails, ReleaseOwner, DestroyPool, ReleaseLease,
      DropLeaseOwner, Teardown, RetainResources, DrainStream, FreeBacking,
      CompleteFrees, DestroyStream, RetainStream, LaunchWork, CompleteWork, vars
<1>7. ASSUME NEW t \in Threads, Allocate(t) \/ Own(t)
      PROVE  MallocOutsideCapture'
  BY <1>1, <1>2, <1>3, <1>7, FailedUndone
  DEF Allocate, AllocateHit, MallocSucceeds, NothingRecorded, Unlocked, Own,
      DeallocateShared, DeallocateLast, RetainAllocation
<1>8. ASSUME NEW t \in Threads, Transact(t) \/ Trim(t)
      PROVE  MallocOutsideCapture'
  BY <1>1, <1>2, <1>8
  DEF Transact, BeginPinMode, CommitPinMode, CancelPinMode, RetainForCapture,
      PublishLease, PublishFails, Trim, TrimBegin, TrimBlock, TrimFails,
      TrimEnd, Unlocked
<1> QED
  BY <1>4, <1>5, <1>6, <1>7, <1>8 DEF Next, Environment

\* If callers begin no capture while a call is in flight, an allocation that
\* passed its stream query is not captured.
THEOREM MallocsOutsideCapture == Spec => []MallocOutsideCapture
<1>1. Init => MallocOutsideCapture
  BY DEF Init, MallocOutsideCapture
<1>2. TypeOK /\ Control /\ MallocOutsideCapture /\ [Next]_vars
      => MallocOutsideCapture'
  BY CaptureStep
<1> QED
  BY <1>1, <1>2, TypeCorrect, ControlCorrect, PTL DEF Spec

LEMMA BackingStep ==
  ASSUME ~CaptureAnytime, TypeOK, Control, FreeListExact,
         MallocOutsideCapture, NoDanglingNoLeak, [Next]_vars
  PROVE  NoDanglingNoLeak'
<1> USE DEF lifeVars, lockVars, blockVars, txnVars, leaseVars, devVars,
            useVars, NoDanglingNoLeak
<1>1. CASE UNCHANGED <<all, dev, leaked>>
  BY <1>1
<1>2. ASSUME NEW t \in Threads, NEW p \in Ptrs, MallocSucceeds(t, p)
      PROVE  NoDanglingNoLeak'
  BY <1>2 DEF MallocSucceeds, MallocOutsideCapture
<1>3. ASSUME NEW t \in Threads, NEW lost \in SUBSET Ptrs, MallocFails(t, lost)
      PROVE  NoDanglingNoLeak'
  BY <1>3, FailedUndone DEF NothingRecorded
<1>4. ASSUME NEW t \in Threads, NEW p \in Ptrs, TrimBlock(t, p)
      PROVE  NoDanglingNoLeak'
  <2>1. BooksOpen
    BY <1>4 DEF TrimBlock, BooksOpen, Control, OwnersKeepOpen
  <2>2. p \in all
    BY <1>4, <2>1, TrimmableShape DEF TrimBlock
  <2> QED
    BY <1>4, <2>2 DEF TrimBlock
<1>5. CASE RetainResources
  BY <1>5 DEF RetainResources
<1>6. ASSUME NEW p \in Ptrs, NEW freed \in BOOLEAN, FreeBacking(p, freed)
      PROVE  NoDanglingNoLeak'
  BY <1>6 DEF FreeBacking
<1>7. CASE \/ Construct \/ ConstructFails \/ ReleaseOwner \/ Environment
           \/ UNCHANGED vars
  BY <1>1, <1>7
  DEF Construct, ConstructFails, ReleaseOwner, DestroyPool, ReleaseLease,
      DropLeaseOwner, Environment, LaunchWork, CompleteWork, BeginCapture,
      EndCapture, vars
<1>8. CASE Teardown
  BY <1>1, <1>5, <1>6, <1>8
  DEF Teardown, DrainStream, CompleteFrees, DestroyStream, RetainStream
<1>9. ASSUME NEW t \in Threads,
             Allocate(t) \/ Own(t) \/ Transact(t) \/ Trim(t)
      PROVE  NoDanglingNoLeak'
  BY <1>1, <1>2, <1>3, <1>4, <1>9
  DEF Allocate, AllocateHit, AllocateMiss, Own, DeallocateShared,
      DeallocateLast, RetainAllocation, Transact, BeginPinMode, CommitPinMode,
      CancelPinMode, RetainForCapture, PublishLease, PublishFails, Trim,
      TrimBegin, TrimFails, TrimEnd
<1> QED
  BY <1>7, <1>8, <1>9 DEF Next

\* Every recorded block is mapped on the device, and every mapped address is
\* recorded or was deliberately given up.
THEOREM RecordsMatchDevice ==
  ASSUME ~CaptureAnytime
  PROVE  Spec => []NoDanglingNoLeak
<1>1. Init => NoDanglingNoLeak
  BY DEF Init, NoDanglingNoLeak
<1>2. /\ TypeOK /\ Control /\ FreeListExact /\ MallocOutsideCapture
      /\ NoDanglingNoLeak /\ [Next]_vars
      => NoDanglingNoLeak'
  BY BackingStep
<1> QED
  BY <1>1, <1>2, TypeCorrect, ControlCorrect, FreeListsExact,
     MallocsOutsideCapture, PTL DEF Spec

\* The promise of pinning: what a transaction or a lease lists stays mapped as
\* long as it is listed, whoever deallocates, trims or destroys the pool.
THEOREM PinnedMemoryStaysMapped ==
  ASSUME ~CaptureAnytime
  PROVE  Spec => []PinnedStaysMapped
<1>1. PinsCorrect /\ NoDanglingNoLeak => PinnedStaysMapped
  BY DEF PinsCorrect, PinnedStaysRecorded, PinnedStaysMapped, NoDanglingNoLeak
<1> QED
  BY <1>1, PinsStayCorrect, RecordsMatchDevice, PTL

\* The pool never grows while its stream is captured.
THEOREM CaptureOnlyReuses ==
  ASSUME ~CaptureAnytime
  PROVE  Spec => CaptureReusesOnly
<1>1. ASSUME MallocOutsideCapture, [Next]_vars, AsyncAlloc, capturing
      PROVE  all' \subseteq all
  <2> USE <1>1 DEF lifeVars, lockVars, blockVars, txnVars, leaseVars, devVars
  <2>1. CASE UNCHANGED all \/ \E p \in Ptrs : all' = all \ {p}
    BY <2>1
  <2>2. CASE RetainResources
    BY <2>2 DEF RetainResources
  <2>3. ASSUME NEW t \in Threads, NEW p \in Ptrs, MallocSucceeds(t, p)
        PROVE  FALSE
    BY <2>3 DEF MallocSucceeds, MallocOutsideCapture
  <2>4. ASSUME NEW t \in Threads,
               Allocate(t) \/ Own(t) \/ Transact(t) \/ Trim(t)
        PROVE  all' \subseteq all
    BY <2>1, <2>3, <2>4, FailedUndone
    DEF Allocate, AllocateHit, AllocateMiss, NothingRecorded, Own,
        DeallocateShared, DeallocateLast, RetainAllocation, Transact,
        BeginPinMode, CommitPinMode, CancelPinMode, RetainForCapture,
        PublishLease, PublishFails, Trim, TrimBegin, TrimBlock, TrimFails,
        TrimEnd
  <2> QED
    BY <2>1, <2>2, <2>4
    DEF Next, Construct, ConstructFails, ReleaseOwner, DestroyPool,
        ReleaseLease, DropLeaseOwner, Teardown, DrainStream, FreeBacking,
        CompleteFrees, DestroyStream, RetainStream, Environment, LaunchWork,
        CompleteWork, BeginCapture, EndCapture, vars
<1>2. MallocOutsideCapture /\ [Next]_vars
      => [(AsyncAlloc /\ capturing /\ capturing') => all' \subseteq all]_vars
  BY <1>1
<1> QED
  BY <1>2, MallocsOutsideCapture, PTL DEF Spec, CaptureReusesOnly

\* While ~State frees, no work of the callers is pending, and once the frees
\* are complete nothing is.  There is no stream before there is a State.
DrainedWhenFreeing ==
  /\ phase = "unborn" => ~streamLive
  /\ phase \in {"freeing", "synced"} => "client" \notin work
  /\ phase = "synced" => work = {}

\* ~State gives memory back only after the callers' work, and destroys the
\* stream only after everything on it.
THEOREM TeardownInOrder == Spec => TeardownOrder
<1> USE DEF lifeVars, lockVars, blockVars, txnVars, leaseVars, devVars
<1>1. Init => DrainedWhenFreeing
  BY DEF Init, DrainedWhenFreeing
<1>2. ASSUME TypeOK, Control, DrainedWhenFreeing, [Next]_vars
      PROVE  DrainedWhenFreeing'
  <2> USE <1>2 DEF DrainedWhenFreeing
  <2>1. CASE UNCHANGED <<phase, streamLive, work>>
    BY <2>1
  <2>2. CASE phase' \notin {"unborn", "freeing", "synced"}
    BY <2>2
  <2>3. ASSUME NEW t \in Threads,
               Allocate(t) \/ Own(t) \/ Transact(t) \/ Trim(t)
        PROVE  /\ UNCHANGED <<phase, streamLive>>
               /\ UNCHANGED work \/ phase = "open"
    BY <2>3, FailedUndone
    DEF Allocate, AllocateHit, AllocateMiss, MallocSucceeds, NothingRecorded, Own,
        DeallocateShared, DeallocateLast, RetainAllocation, Transact,
        BeginPinMode, CommitPinMode, CancelPinMode, RetainForCapture,
        PublishLease, PublishFails, Trim, TrimBegin, TrimBlock, TrimFails,
        TrimEnd, Control, OwnersKeepOpen
  <2>4. CASE Teardown
    BY <2>4
    DEF Teardown, RetainResources, DrainStream, Synchronize, FreeBacking,
        StreamMemoryWork, CompleteFrees, DestroyStream, RetainStream
  <2>5. CASE Construct \/ ConstructFails \/ ReleaseOwner
    BY <2>1, <2>2, <2>5
    DEF Construct, ConstructFails, ReleaseOwner, DestroyPool, ReleaseLease,
        DropLeaseOwner
  <2>6. CASE Environment \/ UNCHANGED vars
    BY <2>1, <2>6
    DEF Environment, LaunchWork, CompleteWork, BeginCapture, EndCapture, vars
  <2>7. ASSUME NEW t \in Threads,
               Allocate(t) \/ Own(t) \/ Transact(t) \/ Trim(t)
        PROVE  DrainedWhenFreeing'
    BY <2>1, <2>2, <2>3, <2>7
  <2> QED
    BY <2>4, <2>5, <2>6, <2>7 DEF Next
<1>3. ASSUME TypeOK, Control, DrainedWhenFreeing, [Next]_vars
      PROVE  /\ (phase # "open" /\ dev' # dev) => "client" \notin work
             /\ (streamLive /\ ~streamLive') => work = {}
  <2> USE <1>3 DEF DrainedWhenFreeing
  <2>1. ASSUME NEW t \in Threads,
               Allocate(t) \/ Own(t) \/ Transact(t) \/ Trim(t)
        PROVE  UNCHANGED streamLive /\ (UNCHANGED dev \/ phase = "open")
    BY <2>1, FailedUndone
    DEF Allocate, AllocateHit, AllocateMiss, MallocSucceeds, NothingRecorded, Own,
        DeallocateShared, DeallocateLast, RetainAllocation, Transact,
        BeginPinMode, CommitPinMode, CancelPinMode, RetainForCapture,
        PublishLease, PublishFails, Trim, TrimBegin, TrimBlock, TrimFails,
        TrimEnd, Control, OwnersKeepOpen
  <2>2. CASE Teardown
    BY <2>2
    DEF Teardown, RetainResources, DrainStream, FreeBacking, CompleteFrees,
        DestroyStream, RetainStream
  <2>3. CASE Construct \/ ConstructFails \/ ReleaseOwner \/ Environment
             \/ UNCHANGED vars
    <3>1. UNCHANGED dev /\ (UNCHANGED streamLive \/ phase = "unborn")
      BY <2>3
      DEF Construct, ConstructFails, ReleaseOwner, DestroyPool, ReleaseLease,
          DropLeaseOwner, Environment, LaunchWork, CompleteWork, BeginCapture,
          EndCapture, vars
    <3> QED
      BY <3>1
  <2> QED
    BY <2>1, <2>2, <2>3 DEF Next
<1>4. TypeOK /\ Control /\ DrainedWhenFreeing /\ [Next]_vars
      => DrainedWhenFreeing'
  BY <1>2
<1>5. TypeOK /\ Control /\ DrainedWhenFreeing /\ [Next]_vars
      => [/\ (phase # "open" /\ dev' # dev) => "client" \notin work
          /\ (streamLive /\ ~streamLive') => work = {}]_vars
  BY <1>3
<1> QED
  BY <1>1, <1>4, <1>5, TypeCorrect, ControlCorrect, PTL
  DEF Spec, TeardownOrder

-----------------------------------------------------------------------------
(* What the owner of a transaction allocates                               *)

Ownership == GenerationsPast /\ TransactionCapturesOwn

LEMMA OwnershipStep ==
  ASSUME TypeOK, Control, TransactionClean, FreeListExact, Ownership,
         [Next]_vars
  PROVE  Ownership'
<1> USE DEF lifeVars, lockVars, blockVars, txnVars, leaseVars, devVars,
            useVars, Ownership, GenerationsPast, TransactionCapturesOwn
<1>1. ASSUME UNCHANGED <<allocGen, txnVars>>, all' \subseteq all
      PROVE  Ownership'
  BY <1>1
<1>2. ASSUME NEW t \in Threads, NEW p \in Ptrs, TakenBy(t, p),
             FreezeForCapture(t, p), all' = all \cup {p},
             UNCHANGED <<pinnedMode, pinOwner, captureGen>>
      PROVE  Ownership'
  BY <1>2
  DEF TakenBy, FreezeForCapture, Generation, Freezes, OwnsTransaction, TypeOK,
      TransactionClean
<1>3. ASSUME NEW t \in Threads, NEW r \in Requests, NEW p \in Ptrs,
             AllocateHit(t, r, p)
      PROVE  Ownership'
  <2>1. BooksOpen
    BY <1>3 DEF AllocateHit, MayCall, BooksOpen
  <2>2. p \in all
    BY <1>3, <2>1, HitShape DEF AllocateHit
  <2> QED
    BY <1>2, <1>3, <2>2 DEF AllocateHit
<1>4. ASSUME NEW t \in Threads, NEW p \in Ptrs, MallocSucceeds(t, p)
      PROVE  Ownership'
  BY <1>2, <1>4 DEF MallocSucceeds
<1>5. ASSUME NEW t \in Threads, BeginPinMode(t)
      PROVE  Ownership'
  BY <1>5, ThreadsAssumption DEF BeginPinMode, TypeOK
<1>6. ASSUME NEW t \in Threads, NEW l \in Leases, CommitPinMode(t, l)
      PROVE  Ownership'
  BY <1>6 DEF CommitPinMode, TypeOK
<1>7. ASSUME NEW t \in Threads, CancelPinMode(t)
      PROVE  Ownership'
  BY <1>7 DEF CancelPinMode, TypeOK
<1>8. ASSUME NEW t \in Threads, NEW p \in Ptrs, RetainForCapture(t, p)
      PROVE  Ownership'
  BY <1>8 DEF RetainForCapture, FreezeForCapture
<1>9. ASSUME NEW t \in Threads, NEW p \in Ptrs, TrimBlock(t, p)
      PROVE  Ownership'
  BY <1>9 DEF TrimBlock, TypeOK
<1>10. CASE \/ Construct \/ ConstructFails \/ ReleaseOwner \/ Teardown
            \/ Environment \/ UNCHANGED vars
  BY <1>1, <1>10
  DEF Construct, ConstructFails, ReleaseOwner, DestroyPool, ReleaseLease,
      DropLeaseOwner, Teardown, RetainResources, DrainStream, FreeBacking,
      CompleteFrees, DestroyStream, RetainStream, Environment, LaunchWork,
      CompleteWork, BeginCapture, EndCapture, vars
<1>11. ASSUME NEW t \in Threads,
              Allocate(t) \/ Own(t) \/ Transact(t) \/ Trim(t)
       PROVE  Ownership'
  BY <1>1, <1>3, <1>4, <1>5, <1>6, <1>7, <1>8, <1>9, <1>11, FailedUndone
  DEF Allocate, AllocateMiss, NothingRecorded, Own, DeallocateShared,
      DeallocateLast, RetainAllocation, Transact, PublishLease, PublishFails,
      Trim, TrimBegin, TrimFails, TrimEnd
<1> QED
  BY <1>10, <1>11 DEF Next

\* What the owner of a transaction allocated since it began, and nothing else,
\* carries the transaction's generation, and it is pinned.
THEOREM OwnAllocationsCaptured == Spec => []TransactionCapturesOwn
<1>1. Init => Ownership
  BY NumbersAssumption
  DEF Init, Ownership, GenerationsPast, TransactionCapturesOwn
<1>2. /\ TypeOK /\ Control /\ TransactionClean /\ FreeListExact /\ Ownership
      /\ [Next]_vars
      => Ownership'
  BY OwnershipStep
<1>3. Ownership => TransactionCapturesOwn
  BY DEF Ownership
<1> QED
  BY <1>1, <1>2, <1>3, TypeCorrect, ControlCorrect, TransactionStaysClean,
     FreeListsExact, PTL DEF Spec

-----------------------------------------------------------------------------
(* The pool implements PinnedHeap                                          *)

LEMMA HeapStutter ==
  ASSUME UNCHANGED <<HeapStage, all, useCount, frozen, leaseBlocks>>
  PROVE  UNCHANGED Heap!vars
BY DEF Heap!vars

LEMMA HeapStep ==
  ASSUME TypeOK, Control, TransactionClean, FreeListExact, PinsCorrect,
         [Next]_vars
  PROVE  [Heap!Next]_(Heap!vars)
<1> USE DEF lifeVars, lockVars, blockVars, txnVars, leaseVars, devVars, useVars
<1>1. CASE UNCHANGED <<HeapStage, all, useCount, frozen, leaseBlocks>>
  BY <1>1, HeapStutter
<1>2. CASE Construct
  <2>1. Heap!Open
    BY <1>2 DEF Construct, Heap!Open, HeapStage
  <2> QED
    BY <2>1 DEF Heap!Next
<1>3. ASSUME NEW t \in Threads, NEW r \in Requests, NEW p \in Ptrs,
             AllocateHit(t, r, p)
      PROVE  Heap!Next
  <2>1. BooksOpen
    BY <1>3 DEF AllocateHit, MayCall, BooksOpen
  <2>2. p \in all /\ useCount[p] = 0
    BY <1>3, <2>1, HitShape DEF AllocateHit, FreeListExact, TypeOK
  <2>3. Heap!Grant(p)
    BY <1>3, <2>2
    DEF AllocateHit, MayCall, TakenBy, FreezeForCapture, Heap!Grant, HeapStage
  <2> QED
    BY <2>3 DEF Heap!Next
<1>4. ASSUME NEW t \in Threads, NEW p \in Ptrs, MallocSucceeds(t, p)
      PROVE  Heap!Next
  <2>1. phase = "open"
    BY <1>4 DEF MallocSucceeds, Control, OwnersKeepOpen
  <2>2. useCount[p] = 0
    BY <1>4, <2>1 DEF MallocSucceeds, FreeListExact, BooksOpen, TypeOK
  <2>3. Heap!Grant(p)
    BY <1>4, <2>1, <2>2
    DEF MallocSucceeds, TakenBy, FreezeForCapture, Heap!Grant, HeapStage
  <2> QED
    BY <2>3 DEF Heap!Next
<1>5. ASSUME NEW t \in Threads, NEW p \in Ptrs,
             DeallocateShared(t, p) \/ DeallocateLast(t, p)
      PROVE  Heap!Next
  <2>1. Heap!Return(p)
    BY <1>5
    DEF DeallocateShared, DeallocateLast, MayCall, Heap!Return, HeapStage,
        TypeOK
  <2> QED
    BY <2>1 DEF Heap!Next
<1>6. ASSUME NEW t \in Threads, NEW p \in Ptrs, RetainAllocation(t, p)
      PROVE  Heap!Next
  <2>1. Heap!Share(p)
    BY <1>6 DEF RetainAllocation, MayCall, Heap!Share, HeapStage
  <2> QED
    BY <2>1 DEF Heap!Next
<1>7. ASSUME NEW t \in Threads, NEW l \in Leases, CommitPinMode(t, l)
      PROVE  Heap!Next
  <2>1. Heap!Commit(l)
    BY <1>7
    DEF CommitPinMode, MayCall, Control, LeaseShape, Heap!Commit, HeapStage
  <2> QED
    BY <2>1 DEF Heap!Next
<1>8. ASSUME NEW t \in Threads, CancelPinMode(t)
      PROVE  Heap!Next
  <2>1. Heap!Cancel
    BY <1>8 DEF CancelPinMode, MayCall, Heap!Cancel, HeapStage
  <2> QED
    BY <2>1 DEF Heap!Next
<1>9. ASSUME NEW t \in Threads, NEW p \in Ptrs, RetainForCapture(t, p)
      PROVE  [Heap!Next]_(Heap!vars)
  <2>1. CASE Freezes(t, p)
    <3>1. Heap!Pin(p)
      BY <1>9, <2>1
      DEF RetainForCapture, MayCall, FreezeForCapture, Heap!Pin, HeapStage
    <3> QED
      BY <3>1 DEF Heap!Next
  <2>2. CASE ~Freezes(t, p)
    BY <1>1, <1>9, <2>2 DEF RetainForCapture, FreezeForCapture, HeapStage
  <2> QED
    BY <2>1, <2>2
<1>10. ASSUME NEW l \in Leases,
              leaseBlocks' = [leaseBlocks EXCEPT ![l] = {}],
              phase = "open", UNCHANGED <<phase, all, useCount, frozen>>
       PROVE  Heap!Next
  <2>1. Heap!Release(l)
    BY <1>10 DEF Heap!Release, HeapStage
  <2> QED
    BY <2>1 DEF Heap!Next
<1>11. ASSUME NEW t \in Threads, NEW p \in Ptrs, TrimBlock(t, p)
       PROVE  Heap!Next
  <2>1. phase = "open"
    BY <1>11 DEF TrimBlock, Control, OwnersKeepOpen
  <2>2. /\ p \in all /\ ~inUse[p] /\ pinCount[p] = 0
    BY <1>11, <2>1, TrimmableShape DEF TrimBlock, BooksOpen
  <2>3. useCount[p] = 0
    BY <2>1, <2>2 DEF FreeListExact, BooksOpen, TypeOK
  <2>4. p \notin frozen /\ \A l \in Leases : p \notin leaseBlocks[l]
    BY <2>2, UnpinnedUnlisted DEF PinsCorrect
  <2>5. useCount' = useCount
    BY <1>11, <2>3 DEF TrimBlock, TypeOK
  <2>6. Heap!Reclaim(p)
    BY <1>11, <2>1, <2>2, <2>3, <2>4, <2>5
    DEF TrimBlock, Heap!Reclaim, Heap!Pinned, HeapStage
  <2> QED
    BY <2>6 DEF Heap!Next
<1>12. CASE DestroyPool \/ \E l \in Leases : DropLeaseOwner(l)
  <2>1. CASE phase' = phase
    BY <1>1, <1>12, <2>1 DEF DestroyPool, DropLeaseOwner, HeapStage
  <2>2. CASE phase' # phase
    <3>1. phase = "open" /\ phase' = "draining"
      BY <1>12, <2>2 DEF DestroyPool, DropLeaseOwner, Control, OwnersKeepOpen
    <3>2. \A l \in Leases : leaseBlocks[l] = {}
      BY <1>12, <2>2
      DEF DestroyPool, DropLeaseOwner, LastOwner, Control, LeaseShape, TypeOK
    <3>3. Heap!Close
      BY <1>12, <3>1, <3>2
      DEF DestroyPool, DropLeaseOwner, Heap!Close, HeapStage
    <3> QED
      BY <3>3 DEF Heap!Next
  <2> QED
    BY <2>1, <2>2
<1>13. CASE Teardown
  <2>1. CASE RetainResources \/ \E p \in Ptrs, freed \in BOOLEAN :
                                  FreeBacking(p, freed)
    <3>1. Heap!Empty
      BY <2>1 DEF RetainResources, FreeBacking, Heap!Empty, HeapStage
    <3> QED
      BY <3>1 DEF Heap!Next
  <2>2. CASE DrainStream \/ CompleteFrees \/ DestroyStream \/ RetainStream
    BY <1>1, <2>2
    DEF DrainStream, CompleteFrees, DestroyStream, RetainStream, HeapStage
  <2> QED
    BY <1>13, <2>1, <2>2 DEF Teardown
<1>14. CASE \/ ConstructFails \/ Environment \/ UNCHANGED vars
  BY <1>1, <1>14
  DEF ConstructFails, Environment, LaunchWork, CompleteWork, BeginCapture,
      EndCapture, vars, HeapStage
<1>15. CASE \E l \in Leases : ReleaseLease(l)
  BY <1>10, <1>15 DEF ReleaseLease, Control, OwnersKeepOpen
<1>16. ASSUME NEW t \in Threads,
              Allocate(t) \/ Own(t) \/ Transact(t) \/ Trim(t)
       PROVE  [Heap!Next]_(Heap!vars)
  <2>1. ASSUME NEW l \in Leases, PublishFails(t, l)
        PROVE  Heap!Next
    BY <1>10, <2>1 DEF PublishFails, Control, OwnersKeepOpen
  <2> QED
    BY <1>1, <1>3, <1>4, <1>5, <1>6, <1>7, <1>8, <1>9, <1>11, <1>16, <2>1, FailedUndone
    DEF Allocate, AllocateMiss, NothingRecorded, Own, Transact, BeginPinMode,
        PublishLease, Trim, TrimBegin, TrimFails, TrimEnd, HeapStage
<1> QED
  BY <1>2, <1>12, <1>13, <1>14, <1>15, <1>16 DEF Next, ReleaseOwner

\* The pool keeps the promises of PinnedHeap: memory is unmapped only when it
\* has no owner and no pin, and the heap closes only without leases.
THEOREM Implementation == Spec => ImplementsPinnedHeap
<1>1. Init => Heap!Init
  BY DEF Init, Heap!Init, HeapStage
<1>2. /\ TypeOK /\ Control /\ TransactionClean /\ FreeListExact /\ PinsCorrect
      /\ [Next]_vars
      => [Heap!Next]_(Heap!vars)
  BY HeapStep
<1> QED
  BY <1>1, <1>2, TypeCorrect, ControlCorrect, TransactionStaysClean,
     FreeListsExact, PinsStayCorrect, PTL
  DEF Spec, ImplementsPinnedHeap, Heap!Spec
=============================================================================
