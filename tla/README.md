# InfiniRT in TLA+

InfiniRT is a C++17 runtime library that hides ten accelerator runtimes behind
one API (`infini::rt::runtime`), with a selection of backend and device per
thread, a reusable device memory pool that cooperates with graph capture, and
the metadata types (small vectors, shapes and strides, tensor views) that
operator libraries above it share. This directory holds its TLA+ models, the
TLC configurations that check them on small instances, and TLAPS proofs.

Paths below are relative to the repository.

## Inventory

| Component | State it keeps | Operations | Interactions |
|---|---|---|---|
| Reusable memory pool (`src/reusable_memory_pool.cc`) | blocks by address, free lists per size class, large list, use and pin counts, pin transaction (owner, generation, frozen blocks), its stream; all under one mutex | `allocate`, `allocate_exact`, `deallocate`, `retain_allocation`, `begin/commit/cancel_pin_mode`, `retain_for_capture`, `trim`, leases, `~State` | every device call goes through `DeviceGuard` and the dispatch; leases keep `State` alive through shared pointers; the stream is lent to callers, who launch work and capture on it |
| Device guard (`include/infini/rt/device_guard.h`) | the thread's selection when it was built, three flags | constructors (advisory and required), destructor | reads and writes the thread-local backend and that backend's current device |
| Runtime dispatch (`scripts/generate_public_headers.py` generates it) | one thread-local backend | `set_runtime_device_type`, `runtime_device_type`, one function per runtime call, `GetDeviceCount(type, ...)`, `IsEventNotReady` | casts the opaque handles to the selected backend's types and calls `Runtime<type>` |
| Backend runtimes (`src/native/*/runtime_.h`) | whatever the vendor runtime keeps; Ascend caches the result of `aclInit` and the graph symbols | thin wrappers, `Unsupported()` where a backend has no such call | called by the dispatch only |
| Small vector (`src/common/small_vector.h`) | size, capacity, a union of inline elements and a heap pointer | construct, copy, move, assign, `reserve`, `resize`, `push_back`, `clear`, `ReleaseHeap` | gives heap allocations to the shape/strides storage |
| Shape/strides storage (`src/common/shape_strides_storage.h`) | two sizes, a union of inline arrays and heap pointers (one combined allocation or two split ones) | construct by copy, from owned vectors, with default strides; move; destroy | adopts the heap allocations of small vectors |
| Metadata view (`src/common/metadata_view.h`) | pointer and size | read access, comparisons | views of the storage |
| Tensor view (`src/tensor_view.*`) | data pointer, storage of shape and strides, dtype, device | constructors, `numel`, `IsContiguous`, `IsMergeable`, `T`, indexing | owns a shape/strides storage |
| Data types (`src/data_type.h`) | - | `Float16`/`BFloat16` conversions, names and sizes | tensor view, dispatcher |
| Dispatcher and traits (`src/dispatcher.h`, `src/common/traits.h`, `constexpr_map.h`) | - | run-time value to template argument | operator libraries |
| Device, hash, driver (`src/device.h`, `src/hash.h`, `src/driver.h`) | - | names and ids, hashing, driver-API wrappers | tensor view, operator libraries |

### What is hard, and what correct means

* **Pool.** Threads interleave between critical sections (`commit_pin_mode`
  ends one before the lease exists; a lease is dropped while the pool object
  is destroyed), device calls fail half-way (`trim`, `~State`, a host
  allocation failure after a device allocation, whose records are to be undone), captures begin at awkward
  moments, and generations tell old allocations from new ones. Correct means:
  pins are counted exactly, pinned memory stays mapped, free lists list every
  idle block once, records and device agree, whoever goes last tears down in
  order, and use counts are what callers own.
* **Device guard and dispatch.** Scopes nest, selections are refused, reading
  the previous device may fail, Ascend's initialisation may fail once and for
  all. A backend refuses the calls it has no equivalent of, a status means what the
  backend that is selected *now* takes it for, and some functions have no case for
  a backend at all. Correct means: `active()` is truthful, a scope restores what it
  changed, nothing uses an uninitialised backend, and a program that falls back
  on another call whenever one is refused never frees memory that a copy still uses.
* **Ascend graphs.** Symbols may be missing in part, and the executable graph
  is an alias of the graph. Correct means: no null function is called, no model
  leaks, nothing that may still run is destroyed.
* **Small vector.** A union whose alive member is implied by `capacity_`, blocks
  that move between objects, arguments that alias the storage. Correct means:
  one owner per block, the implied member alive, value semantics.
* **Shape and strides storage.** Five ways to come to memory, two ways to own it,
  and sizes that imply which. Correct means: one owner, the right capacity at
  deallocation, views that never change, default strides in row-major order.
* **Tensor view, conversions, dispatcher.** Sequential functions of their
  arguments and of long derivations; hard at boundaries (dimensions of 0 and 1,
  negative indices and strides, ties, subnormals and NaNs, repeated and truncated
  alternatives). Correct means agreement with a reference definition.

## Plan

In order of importance; a module is written together with its MC module, its
configurations and, where it says so, its proofs.

1. *(done)* `ReusableMemoryPool`; `PinnedHeap`, what it promises;
   `PoolClients`, the pool composed with its callers;
   `ReusableMemoryPoolProofs`, `PoolClientsProofs`.
2. *(done)* `DeviceGuard` with the selecting half of the dispatch, proved about in
   `RuntimeDispatchProofs`.
3. *(done)* `AscendGraph`; `AscendGraphProofs`.
4. *(done)* `SmallVector`; `ValueVectors`, what it promises; `SmallVectorProofs`.
   `ShapeStridesStorage`, composed with `SmallVector`;
   `ShapeStridesStorageProofs`.
5. *(done)* `TensorView`, `FloatConversions`, `Dispatcher`, each against
   reference definitions; `CoreTypes`, which composes them and adds `ToString`,
   a recursion that indexes the view and dispatches on its data type;
   `FloatConversionsProofs`, about rounding and widening; `CoreTypesProofs`, about the
   views, what they print, and the dispatches.
6. *(done)* `RuntimeDispatch`: the rest of the dispatch, the backends' answers, and
   programs that live with them, composed with `DeviceGuard`;
   `RuntimeDispatchProofs`.
7. *(left)* Two streams in one thread and `StreamWaitEvent`; the exit of a thread that
   owns a pin transaction.

## The modules and the code

Actions have the names of the functions they model (`AllocateHit`,
`CommitPinMode`, `MoveAssign`, `InitializeOwned`, ...). `PROJECT.json` gives the
lines of every definition. Comments in the modules say what is particular.

### ReusableMemoryPool, PinnedHeap, PoolClients

State: `phase`, `poolAlive`, `streamLive` are the life of `State`, of the pool
object and of its stream. `mutex` is `State::mutex_` where it is held across a
device call; a critical section without one is a single step. `all`, `large`,
`freeCnt` are `all_blocks_`, `large_blocks_` and the number of times that
`free_blocks_` lists an address; `block`, `pinCount`, `inUse`, `useCount`,
`allocGen` are the fields of a `Block`. `pinnedMode`, `pinOwner`, `captureGen`,
`frozen`, `frozenSet` are the transaction's. A lease has its blocks, a state, and
the thread building it. `dev`, `leaked`, `capturing`, `work` are the device and
the stream. `bornBy` is history: who allocated a block since the transaction
began.

A call that asks the device is cut where another thread or the device can come in
between: `AllocateMiss` (lock, capture query) then `MallocSucceeds` or `MallocFails`;
`TrimBegin`, `TrimBlock` for each block, `TrimFails` or `TrimEnd`; `CommitPinMode`
(ends the critical section), then `PublishLease` or `PublishFails`; `ReleaseLease`
(drops the pins under the lock), then `DropLeaseOwner` (drops the reference to
`State`). `MallocFails` is every way in which an allocation fails: the device refuses, or
the host fails before, between or after the records, and `RecordsUndone` is what those
records are once the handler of the exception has taken them back. `~State` is `DrainStream`, `FreeBacking` per block, `CompleteFrees`,
`DestroyStream`, or `RetainResources`/`RetainStream` where the device refuses.
Sizes are those of a machine with `MaxSize` as its largest `size_t`, and `AlignUp` is
computed in that width, so that it wraps within the instance where it is not refused. The order in which a free list
hands out its entries is left out: any idle block of the class may be taken.

`PinnedHeap` is what a user may rely on: addresses with owners and holders, given
back only when nobody owns and nothing holds them. The pool implements it under
`mapped <- all`, `owners <- useCount`, `txn <- frozen`, `held <- leaseBlocks`.
`PoolClients` restricts callers to the ownership contract of the header and
records what they own and what size they asked for: `Held(p)` is the set of single ownerships of an address, whose
size the use count must be.

### DeviceGuard

`type` is the dispatch's thread-local backend, `index` each backend's own
thread-local device, `aclInit` the cached status of Ascend's initialisation,
`guards` the guards alive in each thread, as a stack, since they are scoped and cannot
be moved. A constructor is one of `RejectUnsupported`, `EnterSame`, `EnterSwitch`,
`EnterRefused`; threads share only `aclInit`, so a constructor is one step.
`warned` holds the operations that wrote a warning in the last step; `asked`, the
constructor called in it, and the `entry` of a guard are history. `aclInit` starts as
`unset` for Ascend and as `ok` for an accelerator that needs no initialisation.

### RuntimeDispatch

Extends `DeviceGuard` with the calls that select nothing. `CpuAnswers`,
`VendorAnswers` and `QueryAnswers` are the statuses a backend's wrapper may return:
the CPU does everything before it returns and refuses the asynchronous calls,
Cambricon and Ascend refuse events (`hasEvents` is false), and an accelerator's call
may fail at any time. `HasCase` is which backends the generator gives a case for a
function: those whose header mentions it. `queue` is what the accelerator has yet
to do in a thread's stream.

`job` is a program as the tests and the documentation write it: allocate, copy
asynchronously or at once, record an event and poll it with `IsEventNotReady`, or
synchronise the stream, free. It keeps its handles to the backend they came from
(`On`). Between two calls it may open and close guards and select backends, also
between `QueryEvent`, which gets a status, and `Conclude`, which interprets it.
A failed assertion sets `aborted` and ends the process; `NDEBUG` compiles it out.

### AscendGraph

`api` is the function-local static of `GraphApi`, filled on first use from what the
process (`env.default`) and `libascendcl.so` (`env.library`) export. `called` is the
set of `aclmdlRI*` functions called by the last step. A graph handle is its model,
an executable handle is whatever `GraphInstantiate` stored in it. The driver may
refuse every call.

### SmallVector, ValueVectors

`obj` has `size_`, `capacity_` and the heap pointer of vectors and
`HeapAllocation`s; `alloc` the allocator's view of each block; `cells` the elements
that exist at each place, those behind `size_` included, so that stale ones could
be seen. An allocation that throws happens before anything changes and has no
step. `ValueVectors` has one sequence per vector and nothing else; `SmallVector`
implements it with `value <- Elements`.

### ShapeStridesStorage

Extends `SmallVector`: storages and vectors share blocks and allocator. `sizes`,
`inlined` and `heap` are the fields of the storage and of its union. `VectorStep`
lets vectors take every size, capacity and contents they can be moved in with;
the other operations of vectors are checked in `SmallVector`. Strides are
multiplied modulo `Modulus`. A combined block counts elements rather than bytes.
`InitializeMixed` says which of its vectors is the shape, which the strides, and which is
moved in. `BuiltAsGiven` names each constructor with its arguments: the storage it builds
shows the shape and the strides that it was given, or strides in row-major order.

### TensorView

`view` is the one view that the program has; a derived view replaces it, since
views share nothing but the memory they point into. Pointers are numbers of bytes
below `Modulus` and are computed in that width. `extent` and `origin` are history:
the addresses that the constructed view had, and where the strides come from.
`Indices` and `Address` are the elements as pointer, shape and strides define them,
and what the code computes is compared with them. The code checks neither
indices nor ranks; callers keep within them.

### FloatConversions, Dispatcher, CoreTypes

`FloatConversions` has the bit patterns of `Float16` and `BFloat16` with the widths of
exponent and mantissa as constants; shifts and masks are division and remainder by
powers of two, a recursive function (`Pow2`).
`RoundsToNearest` compares each result with all other patterns of its format by
the number it stands for, and asks for the even one in the middle.

`Dispatcher` has `Filter` and the fold over the alternatives, whose order (the tail
first) matters when there are duplicates. `call` is a dispatch over one or several
lists; each `Resolve` finds one dimension as the adapters do, narrowing a 64-bit key
to the alternatives' type, and `Throw` is `values.at` when there are fewer keys
than lists.

`CoreTypes` composes the three. In `ToStringHelper` a text is a sequence of tokens,
an element the address that it was read from; `Aborts` is a dispatch without a match
(a reduced float, bool), `Undefined` the write to the back of an empty string.
`ToStringHelper` and `Numel` recurse over the dimensions. `PrintsRows` compares with
`Text`, which does not recurse: one entry for each element in row-major order, with a
bracket for each row that the element begins or ends.

## Runs

`PROJECT.json` lists each run with its properties, and for each property one or two mutants of
a mapped definition under each of which TLC finds it violated.

| Run | Instance | Distinct states | Shows |
|---|---|---|---|
| `PoolAsync` | 2 threads, 2 addresses, 2 leases, stream-ordered backend | 513,025 | records, pins, device and teardown agree; the pool implements `PinnedHeap` |
| `PoolLive` | 2 threads, 1 address, 2 leases, fair | 17,266 | calls return; the last owner tears down |
| `PoolClients` | 2 threads, 2 addresses, 2 classes, large and exact requests, no stream | 825,583 | use counts are what callers own |
| `PoolCaptureRace` | captures begin at any time | violation | growth during a capture |
| `PoolForeignAllocation` | 2 threads | violation | `retain_for_capture` and another thread's allocation |
| `RuntimeScopes` | 2 threads, the CPU and an accelerator of 2 devices, 2 guards or jobs in all | 54,771 | truthful, restoring scopes; truthful polls; nothing freed under a copy |
| `UnsupportedCapture` | 1 thread, the same backends | violation | a graph function with the CPU selected |
| `AscendGraph` | 2 streams, 2 models, 2 handles, 24 installations | 8,607 | no null call, no leak, no destroyed executable |
| `AscendGraphOrder` | callers destroy graphs in any order | violation | an executable graph ends with its graph |
| `VectorValues` | 2 vectors, 2 allocations, 2 blocks, 2 values | 76,581 | ownership, the union, value semantics |
| `CoreTypes` | 50 shapes, default and given strides, 3 data types; every float of 11 bits; dispatches over 5 lists in up to 2 dimensions | 9,673 | views, contiguity, broadcasting, text, rounding, dispatch |
| `ShapeStrides` | 2 vectors, 2 storages, 4 blocks | 202,001 | ownership, capacities, views, default strides |

### Bounds

`MaxGeneration` is also the code's own limit (the maximum of the counter), reached
within two transactions. `MaxUses` bounds use counts in the guards of
`RetainAllocation`; two or three owners are what distinguishes the last return.
One address more would be one more independent block; two suffice for a block that
is pinned beside one that is not, and two leases for a block held twice. A
size class of four with `Alignment` 2 and `MaxSize` 7 has requests that round up, that
need a large block and that overflow; the callers of `PoolClients` ask for each. `MaxGuards` bounds guards and jobs together: two
give a nested pair in one thread, one guard in each, or a job with a guard around any
of its calls or in the other thread. `RuntimeScopes` identifies states that differ only in
`warned` and `asked` (the VIEW `Lasting`), which say what the last step did and
which no step reads; the properties that read them are about steps, and every step
is looked at. `NDEBUG` is false in both runs. `MaxCapacity` bounds what the allocator grants
and with `InlineCapacity` one allows two steps of growth and the change from inline to
heap and back. In `VectorValues` two blocks suffice for a replacement beside what it
replaces, for two vectors that exchange them, and for two allocations that hold both;
`SmallVectorProofs` covers any number.
Four blocks let two split storages exist together, and two ranges longer than the inline
capacity, of different lengths, let shape and strides that change places be seen. `Modulus` four lets products
wrap with dimensions up to three. The data types of `CoreTypes` are one that is printed, a
reduced float and bool. It has every shape of two dimensions up to
three and of three dimensions up to two, so that 0 and 1 are at every position, and two whose default strides
wrap around to negative numbers: of `<<1, 9, 8>>` the first stride is -56, and of
`<<2, 8, 8>>` it is -64 while `numel()` wraps to 0;
strides of -3, 0, 1 and 3 reach both sides of the pointer within `Modulus` 128.
Floats have 4 bits of exponent and 6 of mantissa, a `Float16` 3 and 2, a `BFloat16` 4
and 2: every pattern is converted, among them subnormal results for each shift,
ties on both sides, carries into the exponent and into infinity, and all NaNs. The
constants of the code are those that `WidthsAssumption` and the definitions give for 8 and
23, 5 and 10, and 8 and 7. The lists of `Dispatcher` have repeated, missing, single and
all alternatives, and a key that becomes one when it is truncated. The core types share no
state; the run uses one at a time.

### Deadlock

Deadlock is checked where the system can always go on. The pool's runs switch it off:
a pool that was torn down, or that failed to be built, has stopped.

### Fairness

`PoolLive` assumes weak fairness of a thread that is inside a call (it holds the mutex and
waits only for the device, which answers, with an error perhaps), of the thread that
drops the last reference to a lease's `State` after it dropped the pins (straight-line
code), and of the destructor that follows. Nothing is assumed of a
thread that is outside a call: it may never call again, and a transaction may stay
open forever.

Nothing else has a liveness property. The runtime promises no progress of the device, and
a guard's scope or a program's poll may last forever.

## Findings

* `retain_for_capture` answers true also for an allocation that another thread
  made after the transaction began (`PoolForeignAllocation`).
* A capture begun by another thread between the capture query and `MallocAsync` lets
  the pool grow during a capture (`PoolCaptureRace`).
* In a build with the CPU and an accelerator, a graph function called while the CPU is
  selected fails an assertion instead of returning a status
  (`UnsupportedCapture`).
* On Ascend an executable graph does not outlive its graph (`AscendGraphOrder`).

`PROJECT.json` quotes the lines that say otherwise. Seen while modelling, where
nothing in the repository says what should happen:

* A guard that changes backends leaves the backend it selected on the guard's device
  (`device_guard.h:63-69`); `ScopeRestores` is about the previous one.
* `HasBroadcastDim` (`tensor_view.cc:89-91`) does not look past a dimension of 1: its
  index is advanced only where the size is not 1. `BroadcastRepeats` is about
  the answer yes.
* `T` of three or more dimensions drops the others (`tensor_view.cc:72-75`), so that an
  empty view can become one with elements.
* A poll whose event is pending gives up if another backend was selected between the query
  and `IsEventNotReady` (`generate_public_headers.py:604`); `PollTruthful` is
  exact about when.
* `ToString` of an empty tensor writes to the back of an empty string
  (`tensor_view.cc:128-129`) and aborts for every type that is not dispatched
  over, reduced floats and bool (`tensor_view.cc:112-119`); `PrintsRows` says when.
* A 64-bit key is truncated to the type of the alternatives (`dispatcher.h:174`), so that one
  out of range may select an alternative; `DispatchesByValue` follows the code.
* The rounding bias turns some NaNs into an infinity or a zero in a `BFloat16`
  (`data_type.h:146-148`); `RoundsToNearest` says nothing of those.
* An empty view with default strides may not be contiguous: shape (1, 0) has a
  stride of 0 for a size of 1 (`tensor_view.cc:141`).

## Proofs

TLAPS checks all of them, for every value of the constants that the modules'
assumptions admit.

* **`ReusableMemoryPoolProofs`.** Assumptions: classes ascend, alignment is positive,
  finitely many leases, stream-ordered allocation implies a stream. The invariant is built in
  layers, each proved with those before it: types; `TransactionClean`; `Control`
  (who holds the mutex, which owners keep the State open, which leases list
  blocks); `FreeListExact`; `PinsCorrect` (pin counts are sums over holders, and
  what is listed stays recorded, which needs `FreeListExact`, since trim takes blocks
  from free lists; an allocation that fails leaves the records as they were,
  `FailedUndone`); `NoDanglingNoLeak`, which needs that no capture overtakes an
  allocation (`CaptureAnytime` false is an assumption of the theorems that depend on
  it). `OwnersKeepOpen` is read off `Control`. The action properties and the
  refinement of `PinnedHeap` follow from these.
* **`PoolClientsProofs`.** Callers that keep the contract are callers of the pool
  (`ClientsUsePool`), so all of the above holds beside them. `ClientInv` adds that the
  count of a block is the size of its set of ownerships, and that a recorded block is
  as big as was wanted of it: `AlignUpCovers` says that a size which is not refused does
  not wrap when it is rounded up. An allocation takes only idle blocks, whose count is
  zero by `FreeListExact`, so it takes nothing that is owned.
* **`RuntimeDispatchProofs`.** Of `DeviceGuard`, the invariant adds to the types that each
  open guard is honest: what it will restore is what its entry recorded, so
  `ScopeRestores` follows whatever happened in between. Every step of the dispatch is a
  step of `DeviceGuard` or leaves the selections alone, so its theorems carry
  over. `FreedWhenUnused` is not
  inductive: `DispatchInv` says what may be queued at each stage of a job: nothing before
  the copy and after the wait, behind a recorded event nothing, and for a job on the CPU
  nothing ever. Streams are sequences of any length; `Before` and `NothingQueued` are the
  lemmas about them.
* **`AscendGraphProofs`.** The conjunction of the four invariants is inductive; the fourth
  is assumed only of callers that destroy executable graphs first.
* **`SmallVectorProofs`.** `MemberAlive` and `OneOwner` are not inductive. `Ownership` says
  of single objects what `OneOwner` counts: a pointer exactly when heap allocated, to a
  block of the owner's capacity that no other object names, and an owner for every
  block. `Filled` is that elements below `size_` exist and fit. `Vacant` is that inline
  storage never holds more than the inline capacity, which a vector that switches back
  to it relies on, and that what is not alive owns nothing. Growth always makes room
  because no allocator grants `max_size()` elements, an assumption of the module; for
  the same reason no run reaches the branch of growth that caps at `max_size()`.
  `ImplementsValues` is the refinement of `ValueVectors`. Each operation has a lemma about
  the contents it leaves: of the vectors it is about, what the abstract operation says, and
  of all others what they were, since a step writes only to places that no other vector
  owns. Reallocation and adoption, which the abstract vectors do not have, leave all
  contents alone.
* **`ShapeStridesStorageProofs`.** `OneStorageOwner` counts owners; `StorageInv` says
  of each storage what the member that the sizes choose looks like (inline, one block
  with the strides behind the shape, or two blocks with the capacities they were
  allocated with), the same of each vector, and that different owners have different
  blocks and every allocated block has one. Each operation is about few owners, and
  `StepKeepsInv` is what all have in common: blocks change hands only among those or from
  and to the allocator. `MetadataStable` follows because a step writes only
  blocks that no storage owns. `BuiltAsGiven` has two halves. What each constructor was given
  for the shape and for the strides is what `shape()` and `strides()` find there, in each of the three layouts (`InitializeShows`,
  `SplitShows`, and `SplitOfMixed` for a vector that is copied beside one that is moved). And `FillDefaultStrides`, which multiplies from the last dimension and cuts
  off every product, computes what multiplying exactly and cutting off once does
  (`DefaultStridesRowMajor`): the product of the dimensions from `i` to `j`, times the
  stride of `j`, is the same residue for every `j`.
* **`FloatConversionsProofs`.** Assumption: `float` has more bits of exponent than a
  `Float16` and more of mantissa than both narrow formats, and its subnormals are too small
  for a `Float16` (`WidthsAssumption`). A
  pattern is its sign, exponent and mantissa, and the number it stands for a multiple of
  a power of two; the patterns of a format, in their order, stand for ascending
  numbers, so that the nearest pattern is one of the two around the number.
  `FromFloat` keeps the leading bits of a mantissa, and what it drops, compared with a half,
  says which of the two (`ConversionsRound`); that the bias of a `BFloat16` does the same is a
  carry through mantissa and exponent. Widening shifts a subnormal until its leading
  bit falls away and lowers the exponent as often, which keeps the product
  (`WideningIsExact`). The powers of two and their laws are lemmas.
* **`CoreTypesProofs`.** Assumptions: the pointer width has more than one number, elements
  have a positive size, a view is given one stride for each dimension, and
  what is not a text is told from texts (`PrintingAssumption`). Loops of the code over dimensions or lists are recursive functions
  in the modules; `Recursion` shows that such a function exists and `Induction` what holds
  of it after every round. Addresses, strides and sizes wrap, so equalities
  are congruences modulo the width. `InsideAllocation` and `DerivedElements` follow from
  what `Subview` and `T` do to the address of an index, for strides of either sign and
  indices from either end. `IsContiguous` is proved to accept exactly the strides that are
  *packed* (congruent to the number of elements behind each dimension) where no dimension
  of 1 has stride 0, and packed strides to number the elements of a view from 0, which with
  a count of the indices gives `ContiguousIsBlock`. `DefaultStaysContiguous` is not
  inductive, as a subview of an empty view may have elements; `DefaultPacked` is. Of
  dispatches, `CallInv` adds to `DispatchesByValue` that no more dimensions are
  resolved than there are lists, and keys for them; that the fold over the alternatives, which meets repeated ones several
  times, finds the one that is equal, is `DispatchIs`. The composition adds no behaviour:
  `TypesIndependent`.

  `PrintsRows` is proved by induction over the number of dimensions. `ToStringHelper` recurses
  over views, of which there are infinitely many; tables of what is printed of up to `n`
  dimensions exist for every `n` and agree (`TablesExist`, `TablesAgree`), so the recursion
  defines something and a view's text is found from those of its rows
  (`PrintsFromRows`). The other side is split the same way: the indices of a view are those of
  its rows with a number in front (`IndexIsJoined`), their places follow on each other
  (`PositionSplits`), and an entry in the view is the entry in its row, with one more bracket
  for the first and the last element of the view and a separator behind the last of each other
  row (`JoinedEntry`). So the text up to a row, plus that row's text and a separator, is the
  text up to the next (`RowOfView`), as in the code's loop, and the bracket that replaces the
  last separator is the one that the last element ends with (`ClosedIs`, `RowsMakeText`).

The type invariants of `AscendGraph`, `SmallVector`, `DeviceGuard`, `RuntimeDispatch` and
`ShapeStridesStorage` are proved and are not part of the runs.

Only model-checked:

* liveness (`CallsReturn`, `LastOwnerTearsDown`), which rests on fairness, beyond
  this prover.

## Not modelled

* Byte arithmetic of `CombinedAllocation` and `NarrowSize`: they abort on overflow.
* The vendor runtimes behind `Runtime<type>`: what the pool, the guard, the dispatch and
  the graphs need of them is part of those models, marked external where it is not in the
  wrappers. The other CUDA-like headers (Moore, Iluvatar, MetaX, Hygon, T-Head, ...) wrap
  the same calls as the one that is modelled.
* `StreamWaitEvent`, which orders two streams where the model has one for each thread;
  `MemGetInfo`, which only reads; `Memset`, which behaves like a copy without a source; the
  conversion of copy kinds and capture modes between enumerations.
* The exit of a thread that owns a pin transaction: no other thread can end it.
* The maps from data types to sizes, names and C++ types, and the choice between
  overloads of `DispatchFunc` at compile time: constants of the program.
* `MetadataView`, device names, hashing, comparisons, which only read; build files, tests,
  documentation and performance scripts.
