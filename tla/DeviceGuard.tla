---------------------------- MODULE DeviceGuard ----------------------------
(***************************************************************************)
(* Per-thread selection of a backend and of a device of it, and DeviceGuard,*)
(* the scope that selects a device and restores what was selected before.  *)
(*                                                                         *)
(* The generated dispatch keeps one thread-local backend; every runtime    *)
(* call goes to it.  The current device of each backend is thread-local    *)
(* state of that backend's own runtime, so a thread that changes backends  *)
(* finds each one on the device it left it on.  A build has the CPU and at  *)
(* most one accelerator.  If that is Ascend, it must be initialised before *)
(* it selects a device; the first result is kept for the process.  Threads *)
(* share nothing else.                                                     *)
(***************************************************************************)
EXTENDS Integers, Sequences, FiniteSets

CONSTANTS
  Threads,
  Backends,      \* device types compiled in
  Unsupported,   \* other values of Device::Type
  Accelerator,   \* the backend besides the CPU, if it is in Backends
  DefaultType,   \* kDefaultDeviceType
  DeviceCount,   \* devices that each backend finds on this machine
  MaxGuards      \* bound: guards open at once, over all threads

ASSUME BackendsAssumption ==
  /\ DefaultType \in Backends
  /\ Backends \cap Unsupported = {}
  /\ DeviceCount \in [Backends -> Nat]
  /\ MaxGuards \in Nat

VARIABLES
  type,      \* runtime_device_type_ of each thread
  index,     \* current device of each backend in each thread
  aclInit,   \* cached result of aclInit: "unset", "ok" or "failed"; "ok" from
             \* the start for an accelerator that needs no initialisation
  guards,    \* guards open in each thread, the innermost last
  warned,    \* operations that a guard warned about in the last step
  asked      \* history: thread, type and index of a constructor called in it

vars == <<type, index, aclInit, guards, warned, asked>>

NoDevice == -1
Indices == UNION {0 .. DeviceCount[b] - 1 : b \in Backends}
Selections == Indices \cup {NoDevice}

\* CUDA-like runtimes start every thread on device 0; Ascend has no current
\* device before the first SetDevice, and a backend without devices never.
FirstDevice(b, init) ==
  IF (b = Accelerator /\ init = "unset") \/ DeviceCount[b] = 0 THEN NoDevice ELSE 0

Init ==
  /\ type = [t \in Threads |-> DefaultType]
  /\ aclInit \in {"unset", "ok"}
  /\ index = [t \in Threads |-> [b \in Backends |-> FirstDevice(b, aclInit)]]
  /\ guards = [t \in Threads |-> << >>]
  /\ warned = {}
  /\ asked = << >>

-----------------------------------------------------------------------------
\* The backends' runtimes.

\* EnsureInitialized: the first caller's result is everybody's.
EnsureInitialized(b) ==
  IF b = Accelerator /\ aclInit = "unset"
  THEN aclInit' \in {"ok", "failed"}
  ELSE UNCHANGED aclInit

\* Runtime::SetDevice returns kSuccess only for a device that exists, on an
\* initialised backend; it may refuse one for reasons of its own.
SettableUninitialized(b, i, init) == i \in 0 .. DeviceCount[b] - 1
Settable(b, i, init) == i \in 0 .. DeviceCount[b] - 1 /\ (b = Accelerator => init = "ok")

Selected(devices, b, i) == [devices EXCEPT ![b] = i]

\* Runtime::GetDevice fails without a current device (and may fail with one).
MayReadDevice(t, b) == index[t][b] # NoDevice

-----------------------------------------------------------------------------
\* Calls of the program outside DeviceGuard.

SetRuntimeDeviceType(t, b) ==
  /\ type' = [type EXCEPT ![t] = b]
  /\ warned' = {} /\ asked' = << >>
  /\ UNCHANGED <<index, aclInit, guards>>

\* runtime::SetDevice: the dispatch hands it to the selected backend.
SetDevice(t, i) ==
  /\ EnsureInitialized(type[t])
  /\ \/ /\ Settable(type[t], i, aclInit')
        /\ index' = [index EXCEPT ![t] = Selected(index[t], type[t], i)]
     \/ UNCHANGED index
  /\ warned' = {} /\ asked' = << >>
  /\ UNCHANGED <<type, guards>>

\* GetDeviceCount(type, &count): asks a backend without selecting it.
QueryDeviceCount(t, b) ==
  /\ EnsureInitialized(b)
  /\ warned' = {} /\ asked' = << >>
  /\ UNCHANGED <<type, index, guards>>

\* Every other call leaves what is selected alone.
OtherCall ==
  /\ warned' = {} /\ asked' = << >>
  /\ UNCHANGED <<type, index, aclInit, guards>>

-----------------------------------------------------------------------------
\* DeviceGuard.

Open == {g \in Threads \X (1 .. MaxGuards) : g[2] <= Len(guards[g[1]])}

\* A guard as its constructor leaves it; entry is history: what the thread
\* had selected, whether or not it could be read.
Guard(t, read, active) ==
  [previousType  |-> type[t],
   previousIndex |-> IF read THEN index[t][type[t]] ELSE 0,
   restoreIndex  |-> read,
   active        |-> active,
   restored      |-> ~active,
   entry         |-> [type |-> type[t], device |-> index[t][type[t]]]]

\* A required guard that is not active throws; the destructor of the
\* delegated-to constructor's object then runs, and finds nothing to restore.
Keep(t, g, required) ==
  guards' = IF required /\ ~g.active THEN guards
            ELSE [guards EXCEPT ![t] = Append(@, g)]

RejectUnsupported(t, b, required) ==
  /\ b \in Unsupported
  /\ Keep(t, Guard(t, FALSE, FALSE), required)
  /\ warned' = {}
  /\ UNCHANGED <<type, index, aclInit>>

AlreadySelected(t, b, i) == type[t] = b /\ index[t][type[t]] = i

EnterSameInert(t, b, i) ==
  /\ b \in Backends
  /\ MayReadDevice(t, type[t]) /\ AlreadySelected(t, b, i)
  /\ Keep(t, [Guard(t, TRUE, TRUE) EXCEPT !.restored = TRUE], FALSE)
  /\ warned' = {}
  /\ UNCHANGED <<type, index, aclInit>>

\* The wanted device is the current one: nothing to select, but the guard is
\* active and will restore what its scope changes.
EnterSame(t, b, i) ==
  /\ b \in Backends
  /\ MayReadDevice(t, type[t]) /\ AlreadySelected(t, b, i)
  /\ Keep(t, Guard(t, TRUE, TRUE), FALSE)
  /\ warned' = {}
  /\ UNCHANGED <<type, index, aclInit>>

\* What the constructor could read of the previous device.
Reads(t, b, i) ==
  {read \in BOOLEAN :
     read => MayReadDevice(t, type[t]) /\ ~AlreadySelected(t, b, i)}

ReadWarning(read) == IF read THEN {} ELSE {"read"}

EnterSwitch(t, b, i) ==
  /\ b \in Backends
  /\ EnsureInitialized(b)
  /\ Settable(b, i, aclInit')
  /\ \E read \in Reads(t, b, i) :
       /\ Keep(t, Guard(t, read, TRUE), FALSE)
       /\ warned' = ReadWarning(read)
  /\ type' = [type EXCEPT ![t] = b]
  /\ index' = [index EXCEPT ![t] = Selected(index[t], b, i)]

\* restore(): the backend first, then its device, which may be refused.
RestoredType(g) == g.previousType

RestoreDevice(t, g, before) ==
  \/ /\ g.restoreIndex
     /\ Settable(g.previousType, g.previousIndex, aclInit')
     /\ index' = [index EXCEPT
                    ![t] = Selected(index[t], g.previousType, g.previousIndex)]
     /\ warned' = before
  \/ /\ g.restoreIndex
     /\ UNCHANGED index
     /\ warned' = before \cup {"restore"}
  \/ /\ ~g.restoreIndex
     /\ UNCHANGED index
     /\ warned' = before

EnterRefusedKeeps(t, b, i, required) ==
  /\ b \in Backends
  /\ EnsureInitialized(b)
  /\ type' = [type EXCEPT ![t] = b]
  /\ UNCHANGED index
  /\ warned' = {"select"}
  /\ \E read \in Reads(t, b, i) : Keep(t, Guard(t, read, FALSE), required)

\* The backend refuses the device: the constructor restores at once.
EnterRefused(t, b, i, required) ==
  /\ b \in Backends
  /\ EnsureInitialized(b)
  /\ \E read \in Reads(t, b, i) :
       LET g == Guard(t, read, FALSE)
       IN  /\ type' = [type EXCEPT ![t] = RestoredType(g)]
           /\ RestoreDevice(t, g, ReadWarning(read) \cup {"select"})
           /\ Keep(t, g, required)

Enter(t, b, i) ==
  /\ Cardinality(Open) < MaxGuards
  /\ asked' = <<t, b, i>>
  /\ \/ EnterSame(t, b, i)
     \/ EnterSwitch(t, b, i)
     \/ \E required \in BOOLEAN :
          RejectUnsupported(t, b, required) \/ EnterRefused(t, b, i, required)

\* ~DeviceGuard of the innermost guard, at the end of its scope or while an
\* exception leaves it.
Pop(t) == guards' = [guards EXCEPT ![t] = SubSeq(@, 1, Len(@) - 1)]

Innermost(t) == guards[t][Len(guards[t])]

LeaveInert(t) ==
  /\ guards[t] # << >> /\ Innermost(t).restored
  /\ Pop(t)
  /\ warned' = {}
  /\ UNCHANGED <<type, index, aclInit>>

LeaveRestoring(t) ==
  /\ guards[t] # << >> /\ ~Innermost(t).restored
  /\ Pop(t)
  /\ type' = [type EXCEPT ![t] = RestoredType(Innermost(t))]
  /\ UNCHANGED aclInit
  /\ RestoreDevice(t, Innermost(t), {})

Leave(t) == (LeaveInert(t) \/ LeaveRestoring(t)) /\ asked' = << >>

Next ==
  \E t \in Threads :
    \/ \E b \in Backends : SetRuntimeDeviceType(t, b) \/ QueryDeviceCount(t, b)
    \/ \E i \in Indices : SetDevice(t, i)
    \/ \E b \in Backends \cup Unsupported, i \in Indices : Enter(t, b, i)
    \/ Leave(t)
    \/ OtherCall

Spec == Init /\ [][Next]_vars

-----------------------------------------------------------------------------
Devices(b) == (0 .. DeviceCount[b] - 1) \cup {NoDevice}
DevicesOfBackends == {d \in [Backends -> Selections] : \A b \in Backends : d[b] \in Devices(b)}

GuardRecords ==
  [previousType : Backends, previousIndex : Indices \cup {0},
   restoreIndex : BOOLEAN, active : BOOLEAN, restored : BOOLEAN,
   entry : [type : Backends, device : Selections]]

\* Every selection is a device its backend has (device_guard.h:15-36 and the
\* dispatch never select another), and open guards are well formed.
TypeOK ==
  /\ type \in [Threads -> Backends]
  /\ index \in [Threads -> DevicesOfBackends]
  /\ aclInit \in {"unset", "ok", "failed"}
  /\ guards \in [Threads -> Seq(GuardRecords)]
  /\ warned \subseteq {"read", "select", "restore"}
  /\ asked \in {<< >>} \cup (Threads \X (Backends \cup Unsupported) \X Indices)

\* A thread with a current device of an accelerator that is initialised on
\* first use went through a successful aclInit, its own or another thread's
\* (ascend/runtime_.h:38-41, 190-198), so a failed one, which is never
\* retried, keeps every guard off it.
InitializedBeforeUse ==
  \A t \in Threads :
    Accelerator \in Backends /\ index[t][Accelerator] # NoDevice => aclInit = "ok"

Enters(t) == Len(guards'[t]) > Len(guards[t])
Leaves(t) == Len(guards'[t]) < Len(guards[t])

\* active() says what happened: an active guard's thread is on the device it
\* asked for, and one that could not select it, or that throws for it, has
\* moved nothing, neither the backend nor any backend's device
\* (device_guard.h:15-46).
ReportsSelection(t, b, i) ==
  IF Enters(t) /\ guards'[t][Len(guards'[t])].active
  THEN type'[t] = b /\ index'[t][b] = i
  ELSE type'[t] = type[t] /\ index'[t] = index[t]

GuardSelects ==
  [][asked' # << >> => ReportsSelection(asked'[1], asked'[2], asked'[3])]_vars

\* Whatever the scope of an active guard did, nested guards, failed ones and
\* direct selections included, its end brings back the backend of its
\* beginning, and that backend's device if it could be read then and no
\* warning says that it was refused now (device_guard.h:48, 63-69).  The
\* device of the backend that the guard selected stays as the guard set it.
BringsBack(t) ==
  Leaves(t) /\ Innermost(t).active =>
    LET g == Innermost(t)
    IN  /\ type'[t] = g.entry.type
        /\ g.restoreIndex /\ "restore" \notin warned'
             => index'[t][g.entry.type] = g.entry.device

ScopeRestores == [][\A t \in Threads : BringsBack(t)]_vars
=============================================================================
