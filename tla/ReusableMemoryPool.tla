------------------------- MODULE ReusableMemoryPool -------------------------
(***************************************************************************)
(* infini::rt::ReusableMemoryPool (src/reusable_memory_pool.cc): a caching *)
(* device allocator whose State is shared by the pool object and by the    *)
(* PinLeases it hands out, and whose pin transactions keep the addresses   *)
(* used by a captured graph from being given back to the device.           *)
(*                                                                         *)
(* Every public call runs under State::mutex_.  A call whose critical      *)
(* section makes no device call is one step; a call that asks the device   *)
(* for memory (an allocation that misses the cache) or gives memory back   *)
(* (trim) holds the mutex across several steps, because the caller may     *)
(* begin a stream capture between two of them and each device call may     *)
(* fail.  commit_pin_mode leaves its critical section before it builds the *)
(* lease, and releasing a lease first drops pins under the mutex and then  *)
(* drops its reference to State without it.                                *)
(*                                                                         *)
(* A Block is identified by its device address.  Calls that only throw (an *)
(* unknown pointer, a double free, a foreign pin owner, a zero or          *)
(* overflowing request) change nothing and are stuttering steps.           *)
(***************************************************************************)
EXTENDS Integers, FiniteSets, Sequences

CONSTANTS
  Threads,        \* host threads that call the pool
  Ptrs,           \* device addresses
  Leases,         \* identities for PinLease objects
  None,           \* no thread: std::thread::id{}, an unlocked mutex
  ClassSizes,     \* block sizes of the size classes, increasing
  RequestSizes,   \* sizes callers ask for
  Alignment,      \* 256 in the code
  MaxSize,        \* numeric_limits<size_t>::max()
  MaxGeneration,  \* numeric_limits<uint64_t>::max()
  MaxUses,        \* bound: logical owners retain_allocation may stack up
  AsyncAlloc,     \* allocation_stream_ is the pool's stream (kNvidia)
  HasStream,      \* StreamCreate yields a stream (kCpu yields nullptr)
  CaptureAnytime  \* callers may begin a capture while a call is in flight

ASSUME ThreadsAssumption == None \notin Threads
ASSUME LeasesAssumption == IsFiniteSet(Leases)
ASSUME NumbersAssumption ==
  /\ Alignment \in Nat \ {0}
  /\ MaxSize \in Nat
  /\ MaxGeneration \in Nat
  /\ MaxUses \in Nat
  /\ RequestSizes \subseteq Nat
ASSUME ClassesAssumption ==
  /\ ClassSizes \in Seq(Nat)
  /\ \A i, j \in DOMAIN ClassSizes : i < j => ClassSizes[i] < ClassSizes[j]
ASSUME FlagsAssumption ==
  /\ AsyncAlloc \in BOOLEAN
  /\ HasStream \in BOOLEAN
  /\ CaptureAnytime \in BOOLEAN
  /\ AsyncAlloc => HasStream

VARIABLES
  phase,          \* life of the State object
  poolAlive,      \* the ReusableMemoryPool object exists
  streamLive,     \* stream_ names a stream of the device
  mutex,          \* holder of State::mutex_ across steps, or None
  pc,             \* what each thread is in the middle of
  req,            \* the request of the allocation in flight
  all,            \* keys of all_blocks_
  block,          \* size, kind and class_index of the Block at an address
  pinCount,       \* its pin_count
  inUse,          \* its in_use
  useCount,       \* its use_count
  allocGen,       \* its allocation_capture_generation
  freeCnt,        \* occurrences of a block in its class's free_blocks
  large,          \* large_blocks_
  pinnedMode,     \* pinned_mode_
  pinOwner,       \* pin_owner_
  captureGen,     \* capture_generation_
  frozen,         \* capture_frozen_blocks_
  frozenSet,      \* capture_frozen_block_set_
  leaseState,     \* life of each PinLease
  leaseBlocks,    \* PinState::blocks
  leaseBy,        \* thread that is building the lease
  dev,            \* addresses the device has allocated
  leaked,         \* addresses given up: their free failed or was skipped
  capturing,      \* the caller captures the pool's stream
  work,           \* what the stream has yet to complete
  bornBy          \* history: who allocated a block in this transaction

lifeVars  == <<phase, poolAlive, streamLive>>
lockVars  == <<mutex, pc, req>>
useVars   == <<inUse, useCount, allocGen>>
blockVars == <<all, block, freeCnt, large, pinCount, useVars>>
txnVars   == <<pinnedMode, pinOwner, captureGen, frozen, frozenSet, bornBy>>
leaseVars == <<leaseState, leaseBlocks, leaseBy>>
devVars   == <<dev, leaked, capturing, work>>
vars == <<lifeVars, lockVars, blockVars, txnVars, leaseVars, devVars>>

-----------------------------------------------------------------------------
(* Sizes and requests                                                      *)

\* align_up: size_t wraps around, so it throws for what would.
\* Variation: every size is aligned.
AlignOverflowsNever(size) == FALSE
AlignOverflows(size) == size > MaxSize - (Alignment - 1)
AlignUp(size) ==
  (((size + Alignment - 1) % (MaxSize + 1)) \div Alignment) * Alignment

FittingClasses(size) == {i \in DOMAIN ClassSizes : size <= ClassSizes[i]}
FirstClass(size) ==
  CHOOSE i \in FittingClasses(size) : \A j \in FittingClasses(size) : i <= j

\* What allocate (exact = FALSE) or allocate_exact looks for and, on a miss,
\* asks the device for.
Request(size, exact) ==
  LET aligned == AlignUp(size)
  IN  IF exact
      THEN [kind |-> "Exact", class |-> 0, size |-> aligned]
      ELSE IF FittingClasses(aligned) # {}
      THEN [kind  |-> "SizeClass", class |-> FirstClass(aligned),
            size  |-> ClassSizes[FirstClass(aligned)]]
      ELSE [kind |-> "Large", class |-> 0, size |-> aligned]

ValidSizes == {s \in RequestSizes : s # 0 /\ ~AlignOverflows(s)}
Requests == {Request(s, exact) : s \in ValidSizes, exact \in BOOLEAN}

Kinds == {"SizeClass", "Large", "Exact"}
NoBlock == [kind |-> "Large", class |-> 0, size |-> 0]

\* Variations: blocks in use are taken; sizes are not compared.
HitsBusy(r) ==
  IF r.kind = "SizeClass"
  THEN {p \in Ptrs : freeCnt[p] > 0 /\ block[p].class = r.class}
  ELSE {p \in large : /\ block[p].kind = r.kind
                      /\ block[p].size >= r.size}
HitsAnySize(r) ==
  IF r.kind = "SizeClass"
  THEN {p \in Ptrs : freeCnt[p] > 0 /\ ~inUse[p]}
  ELSE {p \in large : ~inUse[p] /\ block[p].kind = r.kind}

\* Cached blocks an allocation may take: the free list of its class, or the
\* idle large blocks that are big enough (exactly as big for exact requests).
Hits(r) ==
  IF r.kind = "SizeClass"
  THEN {p \in Ptrs : /\ freeCnt[p] > 0
                     /\ block[p].class = r.class
                     /\ ~inUse[p]}
  ELSE {p \in large : /\ ~inUse[p]
                      /\ block[p].kind = r.kind
                      /\ IF r.kind = "Exact" THEN block[p].size = r.size
                                             ELSE block[p].size >= r.size}

-----------------------------------------------------------------------------
(* Helpers of the critical sections                                        *)

\* A thread may start a pool call while the pool object exists.
MayCall(t) == phase = "open" /\ poolAlive /\ pc[t] = "idle" /\ mutex = None

OwnsTransaction(t) == pinnedMode /\ pinOwner = t
\* Variation: any allocation in the transaction carries its generation.
GenerationOfAnyThread(t) == IF pinnedMode THEN captureGen ELSE 0
Generation(t) == IF OwnsTransaction(t) THEN captureGen ELSE 0

\* Variation: the owner pins a block each time it meets it.
FreezesAgain(t, p) == OwnsTransaction(t)
\* freeze_for_capture_: the owner of the transaction pins a block once.
Freezes(t, p) == OwnsTransaction(t) /\ p \notin frozenSet
PinsAfterFreeze(t, p) == pinCount[p] + (IF Freezes(t, p) THEN 1 ELSE 0)
\* Variation: the set is not told.
FreezeVectorOnly(t, p) ==
  /\ frozen' = IF Freezes(t, p) THEN frozen \cup {p} ELSE frozen
  /\ UNCHANGED frozenSet
FreezeForCapture(t, p) ==
  /\ frozen'    = IF Freezes(t, p) THEN frozen \cup {p} ELSE frozen
  /\ frozenSet' = IF Freezes(t, p) THEN frozenSet \cup {p} ELSE frozenSet

\* release_frozen_blocks_ and the loop of cancel_pin_mode.
Unpinned(blocks) ==
  [p \in Ptrs |-> IF p \in blocks /\ pinCount[p] > 0
                  THEN pinCount[p] - 1
                  ELSE pinCount[p]]

\* Variation: the entry stays in the free list.
EntryKept(p) == freeCnt
WithoutEntry(p) == [freeCnt EXCEPT ![p] = @ - 1]

\* Device calls on the allocation stream leave work behind on it.
StreamMemoryWork == IF AsyncAlloc THEN work \cup {"memory"} ELSE work

\* State is destroyed by whoever drops the last reference to it.
\* Variation: the reference being dropped still counts.
LastOwnerTooEarly(pool, leases) ==
  ~pool /\ \A l \in Leases : leaseState[l] = "none"
LastOwner(pool, leases) ==
  ~pool /\ \A l \in Leases : leases[l] = "none"

Unlocked(t) == mutex' = None /\ pc' = [pc EXCEPT ![t] = "idle"]

-----------------------------------------------------------------------------
(* Construction and destruction of the pool object                         *)

Init ==
  /\ phase = "unborn" /\ poolAlive = FALSE /\ streamLive = FALSE
  /\ mutex = None /\ pc = [t \in Threads |-> "idle"] /\ req = NoBlock
  /\ all = {} /\ block = [p \in Ptrs |-> NoBlock]
  /\ pinCount = [p \in Ptrs |-> 0] /\ inUse = [p \in Ptrs |-> FALSE]
  /\ useCount = [p \in Ptrs |-> 0] /\ allocGen = [p \in Ptrs |-> 0]
  /\ freeCnt = [p \in Ptrs |-> 0] /\ large = {}
  /\ pinnedMode = FALSE /\ pinOwner = None /\ captureGen = 0
  /\ frozen = {} /\ frozenSet = {}
  /\ leaseState = [l \in Leases |-> "none"]
  /\ leaseBlocks = [l \in Leases |-> {}]
  /\ leaseBy = [l \in Leases |-> None]
  /\ dev = {} /\ leaked = {} /\ capturing = FALSE /\ work = {}
  /\ bornBy = [p \in Ptrs |-> None]

Construct ==
  /\ phase = "unborn"
  /\ phase' = "open"
  /\ poolAlive' = TRUE
  /\ streamLive' = HasStream
  /\ UNCHANGED <<lockVars, blockVars, txnVars, leaseVars, devVars>>

\* StreamCreate fails: a partially created stream is destroyed and the
\* constructor throws, so ~State never runs.
ConstructFails ==
  /\ phase = "unborn"
  /\ phase' = "failed"
  /\ UNCHANGED <<poolAlive, streamLive, lockVars, blockVars, txnVars,
                 leaseVars, devVars>>

\* Callers destroy the pool object only when no call on it is in flight.
DestroyPool ==
  /\ phase = "open" /\ poolAlive
  /\ \A t \in Threads : pc[t] = "idle"
  /\ poolAlive' = FALSE
  /\ phase' = IF LastOwner(FALSE, leaseState) THEN "draining" ELSE phase
  /\ UNCHANGED <<streamLive, lockVars, blockVars, txnVars, leaseVars, devVars>>

-----------------------------------------------------------------------------
(* allocate and allocate_exact                                             *)

TakenBy(t, p) ==
  /\ inUse' = [inUse EXCEPT ![p] = TRUE]
  /\ useCount' = [useCount EXCEPT ![p] = 1]
  /\ allocGen' = [allocGen EXCEPT ![p] = Generation(t)]
  /\ bornBy' = [bornBy EXCEPT ![p] = IF pinnedMode THEN t ELSE None]

AllocateHit(t, r, p) ==
  /\ MayCall(t)
  /\ p \in Hits(r)
  /\ FreezeForCapture(t, p)
  /\ pinCount' = [pinCount EXCEPT ![p] = PinsAfterFreeze(t, p)]
  /\ TakenBy(t, p)
  /\ freeCnt' = IF r.kind = "SizeClass" THEN WithoutEntry(p) ELSE freeCnt
  /\ UNCHANGED <<all, block, large, pinnedMode, pinOwner, captureGen, lifeVars,
                 lockVars, leaseVars, devVars>>

\* Variation: a miss does not ask whether the stream is being captured.
AlwaysMayGrow == TRUE
\* The stream query of allocate_block_.
MayGrow == ~(AsyncAlloc /\ capturing)

\* Nothing cached fits.  On the allocation stream the pool first refuses to
\* grow during a capture; the device is asked in a later step.
AllocateMiss(t, r) ==
  /\ MayCall(t)
  /\ Hits(r) = {}
  /\ MayGrow
  /\ mutex' = t
  /\ pc' = [pc EXCEPT ![t] = "malloc"]
  /\ req' = r
  /\ UNCHANGED <<lifeVars, blockVars, txnVars, leaseVars, devVars>>

\* The device returns an address it had not handed out.  A MallocAsync that
\* is captured instead belongs to the graph and allocates nothing.
MallocSucceeds(t, p) ==
  /\ pc[t] = "malloc"
  /\ p \notin dev \cup all
  /\ dev' = IF AsyncAlloc /\ capturing THEN dev ELSE dev \cup {p}
  /\ work' = StreamMemoryWork
  /\ all' = all \cup {p}
  /\ large' = IF req.kind = "SizeClass" THEN large ELSE large \cup {p}
  /\ FreezeForCapture(t, p)
  /\ block' = [block EXCEPT ![p] = req]
  /\ pinCount' = [pinCount EXCEPT ![p] = IF Freezes(t, p) THEN 1 ELSE 0]
  /\ TakenBy(t, p)
  /\ Unlocked(t)
  /\ req' = NoBlock
  /\ UNCHANGED <<freeCnt, pinnedMode, pinOwner, captureGen, leaked, capturing,
                 lifeVars, leaseVars>>

\* Variation: the records of a failed allocation stay.
UndoneNothing(records, p) == records
Undone(records, p) == records \ {p}

\* The host runs out of memory while the new block p is recorded, first in
\* all_blocks_, then in large_blocks_, then as frozen: what was recorded by
\* then is undone.
RecordsUndone(p) ==
  \E recorded \in SUBSET {p} :
    \E listed \in SUBSET recorded :
      /\ all' = Undone(all \cup recorded, p)
      /\ large' = IF req.kind = "SizeClass" THEN large
                  ELSE Undone(large \cup listed, p)

\* Malloc fails, or it gives a new block that is then given back: lost is what
\* the device refused to take, an error that is ignored.
MallocFails(t, lost) ==
  /\ pc[t] = "malloc"
  /\ \/ lost = {} /\ UNCHANGED <<all, large>>
     \/ \E p \in Ptrs \ (dev \cup all \cup large) :
          lost \subseteq {p} /\ RecordsUndone(p)
  /\ dev' = dev \cup lost
  /\ leaked' = leaked \cup lost
  /\ work' = StreamMemoryWork
  /\ Unlocked(t)
  /\ req' = NoBlock
  /\ UNCHANGED <<lifeVars, block, freeCnt, pinCount, useVars, txnVars,
                 leaseVars, capturing>>

-----------------------------------------------------------------------------
(* deallocate and retain_allocation                                        *)

DeallocateShared(t, p) ==
  /\ MayCall(t)
  /\ p \in all
  /\ inUse[p] /\ useCount[p] > 1
  /\ useCount' = [useCount EXCEPT ![p] = @ - 1]
  /\ UNCHANGED <<all, block, freeCnt, large, pinCount, inUse, allocGen,
                 lifeVars, lockVars, txnVars, leaseVars, devVars>>

DeallocateLast(t, p) ==
  /\ MayCall(t)
  /\ p \in all
  /\ inUse[p] /\ useCount[p] = 1
  /\ freeCnt' = IF block[p].kind = "SizeClass"
                THEN [freeCnt EXCEPT ![p] = @ + 1]
                ELSE freeCnt
  /\ useCount' = [useCount EXCEPT ![p] = 0]
  /\ inUse' = [inUse EXCEPT ![p] = FALSE]
  /\ UNCHANGED <<all, block, large, pinCount, allocGen, lifeVars, lockVars,
                 txnVars, leaseVars, devVars>>

\* Also brings an idle block back into use, out of its free list.
RetainAllocation(t, p) ==
  /\ MayCall(t)
  /\ p \in all
  /\ useCount[p] < MaxUses
  /\ freeCnt' = IF block[p].kind = "SizeClass"
                THEN [freeCnt EXCEPT ![p] = 0]
                ELSE freeCnt
  /\ inUse' = [inUse EXCEPT ![p] = TRUE]
  /\ useCount' = [useCount EXCEPT ![p] = @ + 1]
  /\ UNCHANGED <<all, block, large, pinCount, allocGen, lifeVars, lockVars,
                 txnVars, leaseVars, devVars>>

-----------------------------------------------------------------------------
(* Pin transactions                                                        *)

\* Variation: off by one.
GenerationOverrun == captureGen > MaxGeneration
GenerationExhausted == captureGen = MaxGeneration

BeginPinMode(t) ==
  /\ MayCall(t)
  /\ ~pinnedMode
  /\ frozen = {} /\ frozenSet = {}
  /\ ~GenerationExhausted
  /\ captureGen' = captureGen + 1
  /\ pinnedMode' = TRUE
  /\ pinOwner' = t
  /\ bornBy' = [p \in Ptrs |-> None]
  /\ UNCHANGED <<frozen, frozenSet, lifeVars, lockVars, blockVars, leaseVars,
                 devVars>>

\* The critical section of commit_pin_mode: the transaction ends and its
\* blocks move to the caller, who is yet to build the lease l.
CommitPinMode(t, l) ==
  /\ MayCall(t)
  /\ OwnsTransaction(t)
  /\ leaseState[l] = "none"
  /\ pinnedMode' = FALSE
  /\ pinOwner' = None
  /\ frozen' = {} /\ frozenSet' = {}
  /\ leaseState' = [leaseState EXCEPT ![l] = "publishing"]
  /\ leaseBlocks' = [leaseBlocks EXCEPT ![l] = frozen]
  /\ leaseBy' = [leaseBy EXCEPT ![l] = t]
  /\ pc' = [pc EXCEPT ![t] = "publish"]
  /\ bornBy' = [p \in Ptrs |-> None]
  /\ UNCHANGED <<captureGen, mutex, req, lifeVars, blockVars, devVars>>

PublishLease(t, l) ==
  /\ pc[t] = "publish" /\ leaseState[l] = "publishing" /\ leaseBy[l] = t
  /\ leaseState' = [leaseState EXCEPT ![l] = "live"]
  /\ leaseBy' = [leaseBy EXCEPT ![l] = None]
  /\ pc' = [pc EXCEPT ![t] = "idle"]
  /\ UNCHANGED <<leaseBlocks, mutex, req, lifeVars, blockVars, txnVars,
                 devVars>>

\* Building the lease throws: the pins are dropped under the mutex.
PublishFails(t, l) ==
  /\ pc[t] = "publish" /\ leaseState[l] = "publishing" /\ leaseBy[l] = t
  /\ mutex = None
  /\ pinCount' = Unpinned(leaseBlocks[l])
  /\ leaseState' = [leaseState EXCEPT ![l] = "none"]
  /\ leaseBlocks' = [leaseBlocks EXCEPT ![l] = {}]
  /\ leaseBy' = [leaseBy EXCEPT ![l] = None]
  /\ pc' = [pc EXCEPT ![t] = "idle"]
  /\ UNCHANGED <<all, block, freeCnt, large, useVars, mutex, req, lifeVars,
                 txnVars, devVars>>

\* Outside a transaction any thread may cancel; that also clears the records.
CancelPinMode(t) ==
  /\ MayCall(t)
  /\ pinnedMode => pinOwner = t
  /\ pinCount' = Unpinned(frozen)
  /\ frozen' = {} /\ frozenSet' = {}
  /\ pinnedMode' = FALSE
  /\ pinOwner' = None
  /\ bornBy' = [p \in Ptrs |-> None]
  /\ UNCHANGED <<captureGen, all, block, freeCnt, large, useVars, lifeVars,
                 lockVars, leaseVars, devVars>>

RetainForCapture(t, p) ==
  /\ MayCall(t)
  /\ OwnsTransaction(t)
  /\ p \in all
  /\ FreezeForCapture(t, p)
  /\ pinCount' = [pinCount EXCEPT ![p] = PinsAfterFreeze(t, p)]
  /\ UNCHANGED <<all, block, freeCnt, large, pinnedMode, pinOwner, captureGen,
                 useVars, lifeVars, lockVars, leaseVars, devVars, bornBy>>

\* The answer of retain_for_capture(p) to the owner of the transaction.
PredatesTransaction(p) == allocGen[p] # captureGen

-----------------------------------------------------------------------------
(* PinLease release; it may outlive the pool object                        *)

ReleaseLease(l) ==
  /\ leaseState[l] = "live"
  /\ mutex = None
  /\ pinCount' = Unpinned(leaseBlocks[l])
  /\ leaseState' = [leaseState EXCEPT ![l] = "releasing"]
  /\ leaseBlocks' = [leaseBlocks EXCEPT ![l] = {}]
  /\ UNCHANGED <<leaseBy, all, block, freeCnt, large, useVars, lifeVars,
                 lockVars, txnVars, devVars>>

DropLeaseOwner(l) ==
  /\ leaseState[l] = "releasing"
  /\ leaseState' = [leaseState EXCEPT ![l] = "none"]
  /\ phase' = IF LastOwner(poolAlive, leaseState') THEN "draining" ELSE phase
  /\ UNCHANGED <<poolAlive, streamLive, leaseBlocks, leaseBy, lockVars,
                 blockVars, txnVars, devVars>>

-----------------------------------------------------------------------------
(* trim                                                                    *)

\* Variations: pinned blocks are trimmed too.
TrimmableClassPinned == {p \in Ptrs : freeCnt[p] > 0}
TrimmableLargePinned == {p \in large : ~inUse[p]}

\* Free, unpinned blocks: the size classes are walked before the large blocks.
TrimmableClass == {p \in Ptrs : freeCnt[p] > 0 /\ pinCount[p] = 0}
TrimmableLarge == {p \in large : pinCount[p] = 0 /\ ~inUse[p]}
Trimmable == IF TrimmableClass # {} THEN TrimmableClass ELSE TrimmableLarge

TrimBegin(t) ==
  /\ MayCall(t)
  /\ mutex' = t
  /\ pc' = [pc EXCEPT ![t] = "trim"]
  /\ UNCHANGED <<req, lifeVars, blockVars, txnVars, leaseVars, devVars>>

\* A FreeAsync that is captured must name a graph allocation, which no block
\* of the pool is: during a capture the device refuses it.
TrimBlock(t, p) ==
  /\ pc[t] = "trim"
  /\ p \in Trimmable
  /\ ~(AsyncAlloc /\ capturing)
  /\ dev' = dev \ {p}
  /\ work' = StreamMemoryWork
  /\ all' = all \ {p}
  /\ block' = [block EXCEPT ![p] = NoBlock]
  /\ pinCount' = [pinCount EXCEPT ![p] = 0]
  /\ inUse' = [inUse EXCEPT ![p] = FALSE]
  /\ useCount' = [useCount EXCEPT ![p] = 0]
  /\ allocGen' = [allocGen EXCEPT ![p] = 0]
  /\ freeCnt' = IF p \in TrimmableClass THEN WithoutEntry(p) ELSE freeCnt
  /\ large' = IF p \in TrimmableClass THEN large ELSE large \ {p}
  /\ bornBy' = [bornBy EXCEPT ![p] = None]
  /\ UNCHANGED <<leaked, capturing, lifeVars, lockVars, txnVars, leaseVars>>

\* Variation: a refused free is tried again and again.
TrimRetries(t) == pc[t] = "trim" /\ Trimmable # {} /\ UNCHANGED vars

\* The device refuses a free: trim throws and keeps that block and the rest.
TrimFails(t) ==
  /\ pc[t] = "trim"
  /\ Trimmable # {}
  /\ Unlocked(t)
  /\ UNCHANGED <<req, lifeVars, blockVars, txnVars, leaseVars, devVars>>

TrimEnd(t) ==
  /\ pc[t] = "trim"
  /\ Trimmable = {}
  /\ Unlocked(t)
  /\ UNCHANGED <<req, lifeVars, blockVars, txnVars, leaseVars, devVars>>

-----------------------------------------------------------------------------
(* ~State                                                                  *)

\* Selecting the device or draining the stream fails: nothing is freed.
RetainResources ==
  /\ phase = "draining"
  /\ phase' = "retained"
  /\ leaked' = leaked \cup all
  /\ all' = {}
  /\ UNCHANGED <<block, freeCnt, large, pinCount, useVars, dev, capturing,
                 work, poolAlive, streamLive, lockVars, txnVars,
                 leaseVars>>

\* Variation: the call returns before the stream is idle.
SynchronizeNothing == UNCHANGED work
Synchronize == work' = {}

\* A stream that is being captured cannot be synchronized.
DrainStream ==
  /\ phase = "draining"
  /\ ~capturing
  /\ phase' = "freeing"
  /\ Synchronize
  /\ UNCHANGED <<poolAlive, streamLive, dev, leaked, capturing, lockVars,
                 blockVars, txnVars, leaseVars>>

\* One iteration of the loop over all_blocks_; an error is only reported.
FreeBacking(p, freed) ==
  /\ phase = "freeing"
  /\ p \in all
  /\ all' = all \ {p}
  /\ dev' = IF freed THEN dev \ {p} ELSE dev
  /\ leaked' = IF freed THEN leaked ELSE leaked \cup {p}
  /\ work' = StreamMemoryWork
  /\ UNCHANGED <<block, freeCnt, large, pinCount, useVars, capturing, lifeVars,
                 lockVars, txnVars, leaseVars>>

\* The frees complete before the stream goes away; if that cannot be
\* established the stream is kept.
CompleteFrees ==
  /\ phase = "freeing"
  /\ all = {}
  /\ phase' = "synced"
  /\ Synchronize
  /\ UNCHANGED <<poolAlive, streamLive, dev, leaked, capturing, lockVars,
                 blockVars, txnVars, leaseVars>>

DestroyStream ==
  /\ phase = "synced"
  /\ phase' = "closed"
  /\ streamLive' = FALSE
  /\ UNCHANGED <<poolAlive, lockVars, blockVars, txnVars, leaseVars, devVars>>

RetainStream ==
  /\ phase = "freeing" /\ streamLive
  /\ all = {}
  /\ phase' = "retained"
  /\ UNCHANGED <<poolAlive, streamLive, lockVars, blockVars, txnVars,
                 leaseVars, devVars>>

-----------------------------------------------------------------------------
(* The callers and the device                                              *)

\* stream() lends the stream to callers, who run kernels on it.
LaunchWork ==
  /\ phase = "open" /\ streamLive
  /\ work' = work \cup {"client"}
  /\ UNCHANGED <<dev, leaked, capturing, lifeVars, lockVars, blockVars,
                 txnVars, leaseVars>>

CompleteWork ==
  /\ work # {}
  /\ work' = {}
  /\ UNCHANGED <<dev, leaked, capturing, lifeVars, lockVars, blockVars,
                 txnVars, leaseVars>>

\* Native capture of the borrowed stream, with a thread-local capture mode.
BeginCapture ==
  /\ phase = "open" /\ streamLive /\ ~capturing
  /\ CaptureAnytime \/ mutex = None
  /\ capturing' = TRUE
  /\ UNCHANGED <<dev, leaked, work, lifeVars, lockVars, blockVars, txnVars,
                 leaseVars>>

EndCapture ==
  /\ capturing
  /\ capturing' = FALSE
  /\ UNCHANGED <<dev, leaked, work, lifeVars, lockVars, blockVars, txnVars,
                 leaseVars>>

-----------------------------------------------------------------------------
Allocate(t) ==
  \/ \E r \in Requests :
       \/ \E p \in Ptrs : AllocateHit(t, r, p)
       \/ AllocateMiss(t, r)
  \/ \E p \in Ptrs : MallocSucceeds(t, p)
  \/ \E lost \in SUBSET Ptrs : MallocFails(t, lost)

Own(t) ==
  \E p \in Ptrs :
    DeallocateShared(t, p) \/ DeallocateLast(t, p) \/ RetainAllocation(t, p)

Transact(t) ==
  \/ BeginPinMode(t)
  \/ CancelPinMode(t)
  \/ \E l \in Leases :
       CommitPinMode(t, l) \/ PublishLease(t, l) \/ PublishFails(t, l)
  \/ \E p \in Ptrs : RetainForCapture(t, p)

Trim(t) ==
  \/ TrimBegin(t)
  \/ \E p \in Ptrs : TrimBlock(t, p)
  \/ TrimFails(t)
  \/ TrimEnd(t)

ReleaseOwner ==
  \/ DestroyPool
  \/ \E l \in Leases : ReleaseLease(l) \/ DropLeaseOwner(l)

Teardown ==
  \/ RetainResources
  \/ DrainStream
  \/ \E p \in Ptrs, freed \in BOOLEAN : FreeBacking(p, freed)
  \/ CompleteFrees
  \/ DestroyStream
  \/ RetainStream

Environment == LaunchWork \/ CompleteWork \/ BeginCapture \/ EndCapture

Next ==
  \/ Construct
  \/ ConstructFails
  \/ \E t \in Threads : Allocate(t) \/ Own(t) \/ Transact(t) \/ Trim(t)
  \/ ReleaseOwner
  \/ Teardown
  \/ Environment

Spec == Init /\ [][Next]_vars

\* A thread inside a call keeps running, and so does the thread that drops the
\* last reference to State: neither waits for anything but the device.
InCall(t) ==
  \/ \E p \in Ptrs : MallocSucceeds(t, p)
  \/ \E lost \in SUBSET Ptrs : MallocFails(t, lost)
  \/ \E p \in Ptrs : TrimBlock(t, p)
  \/ TrimFails(t)
  \/ TrimEnd(t)
  \/ \E l \in Leases : PublishLease(t, l) \/ PublishFails(t, l)

FairSpec ==
  /\ Spec
  /\ \A t \in Threads : WF_vars(InCall(t))
  /\ \A l \in Leases : WF_vars(DropLeaseOwner(l))
  /\ WF_vars(Teardown)

-----------------------------------------------------------------------------
(* Properties                                                              *)

Phases == {"unborn", "failed", "open", "draining", "freeing", "synced",
           "closed", "retained"}
Blocks == [kind : Kinds, class : Nat, size : Nat]

\* Every variable has its type.
TypeOK ==
  /\ phase \in Phases /\ poolAlive \in BOOLEAN /\ streamLive \in BOOLEAN
  /\ mutex \in Threads \cup {None}
  /\ pc \in [Threads -> {"idle", "malloc", "trim", "publish"}]
  /\ req \in Blocks
  /\ all \subseteq Ptrs /\ large \subseteq Ptrs
  /\ block \in [Ptrs -> Blocks]
  /\ pinCount \in [Ptrs -> Nat] /\ inUse \in [Ptrs -> BOOLEAN]
  /\ useCount \in [Ptrs -> Nat] /\ allocGen \in [Ptrs -> Nat]
  /\ freeCnt \in [Ptrs -> Nat]
  /\ pinnedMode \in BOOLEAN /\ pinOwner \in Threads \cup {None}
  /\ captureGen \in 0..MaxGeneration
  /\ frozen \subseteq Ptrs /\ frozenSet \subseteq Ptrs
  /\ leaseState \in [Leases -> {"none", "publishing", "live", "releasing"}]
  /\ leaseBlocks \in [Leases -> SUBSET Ptrs]
  /\ leaseBy \in [Leases -> Threads \cup {None}]
  /\ dev \subseteq Ptrs /\ leaked \subseteq Ptrs
  /\ capturing \in BOOLEAN /\ work \subseteq {"client", "memory"}
  /\ bornBy \in [Ptrs -> Threads \cup {None}]

\* The pin count of a block is the number of transactions and leases that
\* list it: freeze, commit, a failed commit, cancel and release never count a
\* block twice and never forget one, whatever overlaps.
Holders(p) == {l \in Leases : p \in leaseBlocks[l]}
PinAccounting ==
  \A p \in Ptrs :
    pinCount[p] = (IF p \in frozen THEN 1 ELSE 0) + Cardinality(Holders(p))

\* A block listed by the transaction, by a commit under way or by a lease
\* stays in all_blocks_ and mapped on the device, also when it has been
\* deallocated, trimmed around, or outlives the pool object.
BooksOpen == phase \in {"unborn", "failed", "open", "draining"}
PinnedStaysRecorded ==
  BooksOpen =>
    /\ frozen \subseteq all
    /\ \A l \in Leases : leaseBlocks[l] \subseteq all
PinnedStaysMapped ==
  BooksOpen =>
    /\ frozen \subseteq all \cap dev
    /\ \A l \in Leases : leaseBlocks[l] \subseteq all \cap dev

\* A size-class block is in its free list once when idle and never when in
\* use; large_blocks_ holds all other blocks; in_use agrees with use_count,
\* and no record of a block in use is ever dropped.
FreeListExact ==
  BooksOpen =>
    /\ large = {p \in all : block[p].kind # "SizeClass"}
    /\ \A p \in Ptrs :
         /\ inUse[p] <=> useCount[p] > 0
         /\ inUse[p] => p \in all
         /\ freeCnt[p] = IF p \in all \ large /\ ~inUse[p] THEN 1 ELSE 0

\* The pool's records and the device agree: a recorded block is mapped, and a
\* mapped address is recorded or was deliberately given up, never both.
NoDanglingNoLeak == dev = all \cup leaked /\ all \cap leaked = {}

\* A transaction starts with no block and ends with none, and its vector and
\* its set of frozen blocks agree; begin never meets stale blocks.
TransactionClean ==
  /\ frozen = frozenSet
  /\ ~pinnedMode => frozen = {}

\* What the owner of a transaction allocated since begin_pin_mode, cached or
\* fresh, carries the generation of the transaction and is pinned by it; no
\* other block carries it.
TransactionCapturesOwn ==
  pinnedMode =>
    \A p \in all :
      /\ allocGen[p] = captureGen <=> bornBy[p] = pinOwner
      /\ bornBy[p] = pinOwner => p \in frozen

\* The mutex is held across steps exactly by the call that asks the device.
MutexHolder ==
  \A t \in Threads : pc[t] \in {"malloc", "trim"} <=> mutex = t

\* The State is open as long as somebody refers to it and no longer: calls in
\* flight have the pool object, and leases not yet dropped keep it open.
OwnersKeepOpen ==
  /\ \A t \in Threads : pc[t] # "idle" => poolAlive
  /\ poolAlive => phase = "open"
  /\ \A l \in Leases : leaseState[l] # "none" => phase = "open"
  /\ phase = "open" => poolAlive \/ \E l \in Leases : leaseState[l] # "none"

\* Only leases that are being built or are live list blocks.
LeaseShape ==
  \A l \in Leases :
    leaseState[l] \in {"none", "releasing"} => leaseBlocks[l] = {}

\* Generations on blocks are never ahead of the pool's.
GenerationsPast ==
  /\ \A p \in Ptrs : allocGen[p] <= captureGen
  /\ pinnedMode => captureGen > 0 /\ pinOwner \in Threads

\* An allocation is not overtaken by a capture between its check and its
\* MallocAsync, if callers do not begin captures at any time.
MallocOutsideCapture ==
  ~CaptureAnytime =>
    \A t \in Threads : pc[t] = "malloc" => ~(AsyncAlloc /\ capturing)

\* ~State gives memory back only when the callers' work on the stream is
\* complete, and destroys the stream only when its frees are complete too.
TeardownOrder ==
  [][/\ (phase # "open" /\ dev' # dev) => "client" \notin work
     /\ (streamLive /\ ~streamLive') => work = {}]_vars

\* While the stream is captured the pool only reuses cached blocks.
CaptureReusesOnly ==
  [][(AsyncAlloc /\ capturing /\ capturing') => all' \subseteq all]_vars

\* retain_for_capture answers whether the allocation predates the
\* transaction, for every block of the pool.
RetainAnswersPredates ==
  pinnedMode =>
    \A p \in all : PredatesTransaction(p) <=> bornBy[p] = None

\* A call that entered its critical section returns.
CallsReturn == \A t \in Threads : pc[t] # "idle" ~> pc[t] = "idle"

\* Once the pool object and every lease are gone, the State is torn down: its
\* memory is returned or deliberately retained.
OwnersGone ==
  /\ phase \notin {"unborn", "failed"} /\ ~poolAlive
  /\ \A l \in Leases : leaseState[l] \in {"none", "releasing"}
LastOwnerTearsDown == OwnersGone ~> phase \in {"closed", "retained"}

\* The pool keeps the promises of PinnedHeap: the addresses it keeps are those
\* in all_blocks_, owned as use_count says.
HeapStage == IF phase \in {"unborn", "failed"} THEN "new"
             ELSE IF phase = "open" THEN "open"
             ELSE "closed"
Heap == INSTANCE PinnedHeap WITH
  stage  <- HeapStage,
  mapped <- all,
  owners <- useCount,
  txn    <- frozen,
  held   <- leaseBlocks
ImplementsPinnedHeap == Heap!Spec
=============================================================================
