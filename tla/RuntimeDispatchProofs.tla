----------------------- MODULE RuntimeDispatchProofs -----------------------
(***************************************************************************)
(* Proofs about DeviceGuard, for any nesting depth, and RuntimeDispatch    *)
(* for any threads, backends and devices.                                  *)
(*                                                                         *)
(* The inductive invariant says of every open guard that what its object   *)
(* remembers is what its thread had selected when it was built; that a     *)
(* scope restores, and that a constructor reports truthfully, are facts    *)
(* about one step from a state with such guards.                           *)
(*                                                                         *)
(* The dispatch implements DeviceGuard, so what is proved of that module   *)
(* holds of it.  That memory is freed only when it is unused rests on what *)
(* a thread's stream can still hold at each stage of its job: nothing      *)
(* before the copy and after the wait, and behind a recorded event nothing *)
(* that the event does not stand for.                                      *)
(***************************************************************************)
EXTENDS RuntimeDispatch, SequenceTheorems, TLAPS

HonestGuards ==
  {g \in GuardRecords :
     /\ g.previousType = g.entry.type
     /\ g.restoreIndex => g.previousIndex = g.entry.device
     /\ g.restored <=> ~g.active}

GuardsHonest == guards \in [Threads -> Seq(HonestGuards)]

Inv == TypeOK /\ GuardsHonest /\ InitializedBeforeUse

\* What asked may say: nothing, or whose constructor asks for which device.
Asks == {<< >>} \cup (Threads \X (Backends \cup Unsupported) \X Indices)

\* What GuardSelects and ScopeRestores say of one step.
Truthful == asked' # << >> => ReportsSelection(asked'[1], asked'[2], asked'[3])
Restores == \A u \in Threads : BringsBack(u)

-----------------------------------------------------------------------------
\* A device of a backend is one of the indices, and so is every selection
\* but the missing one.
LEMMA DevicesAreIndices ==
  ASSUME NEW b \in Backends, NEW i \in Devices(b), i # NoDevice
  PROVE  i \in Indices /\ i \in Selections
BY DEF Devices, Indices, Selections

\* Selecting a device that can be selected leaves devices of their backends.
LEMMA SelectedKeepsType ==
  ASSUME NEW d \in DevicesOfBackends, NEW b \in Backends, NEW i, NEW init,
         Settable(b, i, init)
  PROVE  /\ Selected(d, b, i) \in DevicesOfBackends
         /\ Selected(d, b, i)[b] = i
         /\ \A c \in Backends : c # b => Selected(d, b, i)[c] = d[c]
<1>1. i \in Devices(b) /\ i \in Selections
  BY DEF Settable, Devices, Selections, Indices
<1>2. d \in [Backends -> Selections] /\ \A c \in Backends : d[c] \in Devices(c)
  BY DEF DevicesOfBackends
<1>3. Selected(d, b, i) \in [Backends -> Selections]
  BY <1>1, <1>2 DEF Selected
<1>4. /\ Selected(d, b, i)[b] = i
      /\ \A c \in Backends : c # b => Selected(d, b, i)[c] = d[c]
  BY <1>2 DEF Selected
<1>5. \A c \in Backends : Selected(d, b, i)[c] \in Devices(c)
  BY <1>1, <1>2, <1>4
<1> QED BY <1>3, <1>4, <1>5 DEF DevicesOfBackends

\* aclInit is decided once.
LEMMA InitializedOnce ==
  ASSUME TypeOK, NEW b, EnsureInitialized(b)
  PROVE  /\ aclInit' \in {"unset", "ok", "failed"}
         /\ aclInit = "ok" => aclInit' = "ok"
BY DEF TypeOK, EnsureInitialized

\* The object that a constructor leaves behind is honest, whether or not it
\* could read the previous device and select the new one.
LEMMA HonestGuard ==
  ASSUME Inv, NEW t \in Threads
  PROVE  /\ Guard(t, FALSE, FALSE) \in HonestGuards
         /\ Guard(t, FALSE, TRUE) \in HonestGuards
         /\ MayReadDevice(t, type[t]) =>
              /\ Guard(t, TRUE, FALSE) \in HonestGuards
              /\ Guard(t, TRUE, TRUE) \in HonestGuards
<1>1. type[t] \in Backends /\ index[t] \in DevicesOfBackends
  BY DEF Inv, TypeOK
<1>2. MayReadDevice(t, type[t]) => index[t][type[t]] \in Indices
  BY <1>1, DevicesAreIndices DEF MayReadDevice, DevicesOfBackends
<1>3. [type |-> type[t], device |-> index[t][type[t]]] \in [type : Backends, device : Selections]
  BY <1>1 DEF DevicesOfBackends
<1>4. /\ Guard(t, FALSE, FALSE) \in HonestGuards
      /\ Guard(t, FALSE, TRUE) \in HonestGuards
  BY <1>1, <1>3 DEF Guard, GuardRecords, HonestGuards
<1>5. ASSUME MayReadDevice(t, type[t])
      PROVE  /\ Guard(t, TRUE, FALSE) \in HonestGuards
             /\ Guard(t, TRUE, TRUE) \in HonestGuards
  BY <1>1, <1>2, <1>3, <1>5 DEF Guard, GuardRecords, HonestGuards
<1> QED BY <1>4, <1>5

\* Entering a scope appends a guard, or nothing when a required one throws.
LEMMA KeepAppends ==
  ASSUME Inv, NEW t \in Threads, NEW g \in HonestGuards,
         guards' = guards \/ guards' = [guards EXCEPT ![t] = Append(@, g)]
  PROVE  /\ GuardsHonest'
         /\ \A u \in Threads : ~Leaves(u)
         /\ \A u \in Threads : Enters(u) => u = t /\ guards'[t][Len(guards'[t])] = g
<1>1. guards \in [Threads -> Seq(HonestGuards)]
  BY DEF Inv, GuardsHonest
<1>2. /\ Append(guards[t], g) \in Seq(HonestGuards)
      /\ Len(Append(guards[t], g)) = Len(guards[t]) + 1
      /\ Append(guards[t], g)[Len(guards[t]) + 1] = g
  BY <1>1
<1>3. \A u \in Threads : Len(guards[u]) \in Nat
  BY <1>1
<1>4. CASE guards' = guards
  BY <1>1, <1>3, <1>4 DEF GuardsHonest, Leaves, Enters
<1>5. CASE guards' = [guards EXCEPT ![t] = Append(@, g)]
  <2>1. guards' \in [Threads -> Seq(HonestGuards)]
    BY <1>1, <1>2, <1>5
  <2>2. \A u \in Threads : u # t => guards'[u] = guards[u]
    BY <1>1, <1>5
  <2>3. guards'[t] = Append(guards[t], g)
    BY <1>1, <1>5
  <2>4. Len(guards'[t]) = Len(guards[t]) + 1 /\ guards'[t][Len(guards'[t])] = g
    BY <1>2, <2>3
  <2>5. \A u \in Threads : ~Leaves(u)
    BY <1>3, <2>2, <2>4 DEF Leaves
  <2>6. \A u \in Threads : Enters(u) => u = t
    BY <1>3, <2>2 DEF Enters
  <2> QED BY <2>1, <2>4, <2>5, <2>6 DEF GuardsHonest
<1> QED BY <1>4, <1>5

\* Leaving a scope removes the innermost guard, which is honest.
LEMMA PopRemoves ==
  ASSUME Inv, NEW t \in Threads, guards[t] # << >>, Pop(t)
  PROVE  /\ GuardsHonest'
         /\ Innermost(t) \in HonestGuards
         /\ \A u \in Threads : ~Enters(u)
         /\ \A u \in Threads : Leaves(u) => u = t
<1>1. guards \in [Threads -> Seq(HonestGuards)]
  BY DEF Inv, GuardsHonest
<1>2. Len(guards[t]) \in Nat \ {0} /\ Innermost(t) \in HonestGuards
  BY <1>1 DEF Innermost
<1> DEFINE rest == SubSeq(guards[t], 1, Len(guards[t]) - 1)
<1>3. rest \in Seq(HonestGuards) /\ Len(rest) = Len(guards[t]) - 1
  <2>1. \A i \in 1 .. Len(guards[t]) - 1 : guards[t][i] \in HonestGuards
    BY <1>1, <1>2
  <2>2. 1 \in Int /\ Len(guards[t]) - 1 \in Int
    BY <1>2
  <2> HIDE DEF rest
  <2>3. /\ SubSeq(guards[t], 1, Len(guards[t]) - 1) \in Seq(HonestGuards)
        /\ Len(SubSeq(guards[t], 1, Len(guards[t]) - 1)) =
             IF 1 <= Len(guards[t]) - 1 THEN Len(guards[t]) - 1 - 1 + 1 ELSE 0
    BY <2>1, <2>2, SubSeqProperties
  <2> QED BY <1>2, <2>3 DEF rest
<1>4. guards' = [guards EXCEPT ![t] = rest]
  BY DEF Pop
<1>5. guards' \in [Threads -> Seq(HonestGuards)]
  BY <1>1, <1>3, <1>4
<1>6. guards'[t] = rest /\ \A u \in Threads : u # t => guards'[u] = guards[u]
  BY <1>1, <1>4
<1>7. \A u \in Threads : Len(guards[u]) \in Nat
  BY <1>1
<1> QED BY <1>2, <1>3, <1>5, <1>6, <1>7 DEF GuardsHonest, Leaves, Enters

\* Honest guards are well formed, so the sequences of guards are.
LEMMA HonestWellFormed ==
  ASSUME NEW open \in [Threads -> Seq(HonestGuards)]
  PROVE  open \in [Threads -> Seq(GuardRecords)]
<1>1. HonestGuards \subseteq GuardRecords
  BY DEF HonestGuards
<1>2. Seq(HonestGuards) \subseteq Seq(GuardRecords)
  BY <1>1
<1> QED BY <1>2

\* Moving thread t to backend b and its devices to d keeps the invariant as
\* long as the accelerator is not left on a device uninitialised.
LEMMA MoveKeepsInv ==
  ASSUME Inv, NEW t \in Threads, NEW b \in Backends, NEW d \in DevicesOfBackends,
         type' = [type EXCEPT ![t] = b], index' = [index EXCEPT ![t] = d],
         aclInit' \in {"unset", "ok", "failed"}, aclInit = "ok" => aclInit' = "ok",
         Accelerator \in Backends /\ d[Accelerator] # NoDevice => aclInit' = "ok",
         GuardsHonest', warned' \subseteq {"read", "select", "restore"},
         asked' \in Asks
  PROVE  Inv'
<1>1. type' \in [Threads -> Backends] /\ index' \in [Threads -> DevicesOfBackends]
  BY DEF Inv, TypeOK
<1>2. TypeOK'
  BY <1>1, HonestWellFormed DEF TypeOK, GuardsHonest, Asks
<1>3. ASSUME NEW u \in Threads, Accelerator \in Backends, index'[u][Accelerator] # NoDevice
      PROVE  aclInit' = "ok"
  <2>1. CASE u = t
    BY <1>3, <2>1 DEF Inv, TypeOK
  <2>2. CASE u # t
    BY <1>3, <2>2 DEF Inv, TypeOK, InitializedBeforeUse
  <2> QED BY <2>1, <2>2
<1> QED BY <1>2, <1>3 DEF Inv, InitializedBeforeUse

-----------------------------------------------------------------------------
\* One lemma per operation: the invariant after it, and what it says about
\* the guards it builds or destroys.

\* The program selects a backend, or asks one for its devices.
LEMMA StepOutside ==
  ASSUME Inv, NEW t \in Threads, NEW b \in Backends,
         SetRuntimeDeviceType(t, b) \/ QueryDeviceCount(t, b)
  PROVE  Inv' /\ asked' = << >> /\ \A u \in Threads : ~Leaves(u)
<1>1. GuardsHonest' /\ guards' = guards /\ warned' = {} /\ asked' = << >> /\ index' = index
  BY DEF Inv, GuardsHonest, SetRuntimeDeviceType, QueryDeviceCount
<1>2. \A u \in Threads : ~Leaves(u)
  <2>1. \A u \in Threads : Len(guards[u]) \in Nat
    BY DEF Inv, GuardsHonest
  <2> QED BY <1>1, <2>1 DEF Leaves
<1>3. /\ type' \in [Threads -> Backends]
      /\ aclInit' \in {"unset", "ok", "failed"}
      /\ aclInit = "ok" => aclInit' = "ok"
  <2>1. CASE SetRuntimeDeviceType(t, b)
    BY <2>1 DEF Inv, TypeOK, SetRuntimeDeviceType
  <2>2. CASE QueryDeviceCount(t, b)
    <3>1. EnsureInitialized(b) /\ type' = type
      BY <2>2 DEF QueryDeviceCount
    <3> QED BY <3>1, InitializedOnce DEF Inv, TypeOK
  <2> QED BY <2>1, <2>2
<1>4. TypeOK'
  BY <1>1, <1>3, HonestWellFormed DEF Inv, TypeOK, GuardsHonest
<1>5. InitializedBeforeUse'
  BY <1>1, <1>3 DEF Inv, InitializedBeforeUse
<1> QED BY <1>1, <1>2, <1>4, <1>5 DEF Inv

\* The program selects a device of the current backend, or fails to.
LEMMA StepSetDevice ==
  ASSUME Inv, NEW t \in Threads, NEW i \in Indices, SetDevice(t, i)
  PROVE  Inv' /\ asked' = << >> /\ \A u \in Threads : ~Leaves(u)
<1>1. GuardsHonest' /\ guards' = guards /\ type' = type /\ warned' = {} /\ asked' = << >>
  BY DEF Inv, GuardsHonest, SetDevice
<1>2. \A u \in Threads : ~Leaves(u)
  <2>1. \A u \in Threads : Len(guards[u]) \in Nat
    BY DEF Inv, GuardsHonest
  <2> QED BY <1>1, <2>1 DEF Leaves
<1>3. type[t] \in Backends /\ index[t] \in DevicesOfBackends
  BY DEF Inv, TypeOK
<1>4. /\ aclInit' \in {"unset", "ok", "failed"}
      /\ aclInit = "ok" => aclInit' = "ok"
  <2>1. EnsureInitialized(type[t])
    BY DEF SetDevice
  <2> QED BY <2>1, InitializedOnce DEF Inv
<1>5. type' = [type EXCEPT ![t] = type[t]]
  BY <1>1 DEF Inv, TypeOK
<1>6. CASE /\ Settable(type[t], i, aclInit')
           /\ index' = [index EXCEPT ![t] = Selected(index[t], type[t], i)]
  <2>1. /\ Selected(index[t], type[t], i) \in DevicesOfBackends
        /\ Selected(index[t], type[t], i)[type[t]] = i
        /\ \A c \in Backends : c # type[t] => Selected(index[t], type[t], i)[c] = index[t][c]
    BY <1>3, <1>6, SelectedKeepsType
  <2>2. Accelerator \in Backends /\ Selected(index[t], type[t], i)[Accelerator] # NoDevice
        => aclInit' = "ok"
    BY <1>4, <1>6, <2>1 DEF Settable, Inv, InitializedBeforeUse
  <2> QED BY <1>1, <1>2, <1>3, <1>4, <1>5, <1>6, <2>1, <2>2, MoveKeepsInv DEF Asks
<1>7. CASE index' = index
  <2>1. index' = [index EXCEPT ![t] = index[t]]
    BY <1>7 DEF Inv, TypeOK
  <2>2. Accelerator \in Backends /\ index[t][Accelerator] # NoDevice => aclInit' = "ok"
    BY <1>4 DEF Inv, InitializedBeforeUse
  <2> QED BY <1>1, <1>2, <1>3, <1>4, <1>5, <2>1, <2>2, MoveKeepsInv DEF Asks
<1> QED BY <1>6, <1>7 DEF SetDevice

\* A guard for a type that is not built in, or for what is selected already,
\* moves nothing.
LEMMA StepEnterStill ==
  ASSUME Inv, NEW t \in Threads, NEW b \in Backends \cup Unsupported,
         NEW i \in Indices, NEW required \in BOOLEAN, asked' = <<t, b, i>>,
         RejectUnsupported(t, b, required) \/ EnterSame(t, b, i)
  PROVE  Inv' /\ ReportsSelection(t, b, i) /\ \A u \in Threads : ~Leaves(u)
<1>1. type' = type /\ index' = index /\ aclInit' = aclInit /\ warned' = {}
  BY DEF RejectUnsupported, EnterSame
<1>2. PICK g \in HonestGuards :
        /\ guards' = guards \/ guards' = [guards EXCEPT ![t] = Append(@, g)]
        /\ g.active => type[t] = b /\ index[t][b] = i
  <2>1. CASE RejectUnsupported(t, b, required)
    <3>1. Guard(t, FALSE, FALSE) \in HonestGuards /\ ~Guard(t, FALSE, FALSE).active
      BY HonestGuard DEF Guard
    <3>2. \/ guards' = guards
          \/ guards' = [guards EXCEPT ![t] = Append(@, Guard(t, FALSE, FALSE))]
      BY <2>1 DEF RejectUnsupported, Keep
    <3> QED BY <3>1, <3>2
  <2>2. CASE EnterSame(t, b, i)
    <3>1. MayReadDevice(t, type[t]) /\ type[t] = b /\ index[t][type[t]] = i
      BY <2>2 DEF EnterSame, AlreadySelected
    <3>2. Guard(t, TRUE, TRUE) \in HonestGuards
      BY <3>1, HonestGuard
    <3>3. guards' = [guards EXCEPT ![t] = Append(@, Guard(t, TRUE, TRUE))]
      BY <2>2 DEF EnterSame, Keep
    <3> QED BY <3>1, <3>2, <3>3
  <2> QED BY <2>1, <2>2
<1>3. /\ GuardsHonest'
      /\ \A u \in Threads : ~Leaves(u)
      /\ Enters(t) => guards'[t][Len(guards'[t])] = g
  BY <1>2, KeepAppends
<1>4. ReportsSelection(t, b, i)
  BY <1>1, <1>2, <1>3 DEF ReportsSelection
<1>5. TypeOK' /\ InitializedBeforeUse'
  BY <1>1, <1>3, HonestWellFormed DEF Inv, TypeOK, GuardsHonest, InitializedBeforeUse
<1> QED BY <1>3, <1>4, <1>5 DEF Inv

\* A guard that switches: the thread is on what was asked for.
LEMMA StepEnterSwitch ==
  ASSUME Inv, NEW t \in Threads, NEW b \in Backends \cup Unsupported,
         NEW i \in Indices, asked' = <<t, b, i>>, EnterSwitch(t, b, i)
  PROVE  Inv' /\ ReportsSelection(t, b, i) /\ \A u \in Threads : ~Leaves(u)
<1> DEFINE moved == Selected(index[t], b, i)
<1>1. b \in Backends /\ Settable(b, i, aclInit')
  BY DEF EnterSwitch
<1>2. type' = [type EXCEPT ![t] = b] /\ index' = [index EXCEPT ![t] = moved]
  BY DEF EnterSwitch
<1>3. type'[t] = b /\ index'[t] = moved
  BY <1>2 DEF Inv, TypeOK
<1>4. index[t] \in DevicesOfBackends
  BY DEF Inv, TypeOK
<1>5. /\ moved \in DevicesOfBackends
      /\ moved[b] = i
      /\ \A c \in Backends : c # b => moved[c] = index[t][c]
  BY <1>1, <1>4, SelectedKeepsType
<1>6. /\ aclInit' \in {"unset", "ok", "failed"}
      /\ aclInit = "ok" => aclInit' = "ok"
  <2>1. EnsureInitialized(b)
    BY DEF EnterSwitch
  <2> QED BY <2>1, InitializedOnce DEF Inv
<1> HIDE DEF moved
<1>7. Accelerator \in Backends /\ moved[Accelerator] # NoDevice => aclInit' = "ok"
  BY <1>1, <1>5, <1>6 DEF Settable, Inv, InitializedBeforeUse
<1>8. PICK g \in HonestGuards :
        guards' = [guards EXCEPT ![t] = Append(@, g)] /\ g.active
  <2>1. PICK read \in Reads(t, b, i) : Keep(t, Guard(t, read, TRUE), FALSE)
    BY DEF EnterSwitch
  <2>2. Guard(t, read, TRUE) \in HonestGuards
    BY HonestGuard DEF Reads
  <2>3. /\ guards' = [guards EXCEPT ![t] = Append(@, Guard(t, read, TRUE))]
        /\ Guard(t, read, TRUE).active
    BY <2>1 DEF Keep, Guard
  <2> QED BY <2>2, <2>3
<1>9. /\ GuardsHonest'
      /\ \A u \in Threads : ~Leaves(u)
  BY <1>8, KeepAppends
<1>10. Enters(t) /\ guards'[t][Len(guards'[t])].active
  <2>1. guards[t] \in Seq(HonestGuards)
    BY DEF Inv, GuardsHonest
  <2>2. guards'[t] = Append(guards[t], g)
    BY <1>8 DEF Inv, GuardsHonest
  <2> QED BY <1>8, <2>1, <2>2 DEF Enters
<1>11. ReportsSelection(t, b, i)
  BY <1>3, <1>5, <1>10 DEF ReportsSelection
<1>12. warned' \subseteq {"read", "select", "restore"} /\ asked' \in Asks
  BY DEF EnterSwitch, ReadWarning, Asks
<1> QED BY <1>1, <1>2, <1>5, <1>6, <1>7, <1>9, <1>11, <1>12, MoveKeepsInv

\* What an honest guard restores is a backend and, if it could be read then,
\* the device that backend was on; if nothing has moved since, nothing moves.
LEMMA RestoreRestores ==
  ASSUME Inv, NEW t \in Threads, NEW g \in HonestGuards, NEW before,
         before \subseteq {"read", "select"}, asked' \in Asks,
         type' = [type EXCEPT ![t] = RestoredType(g)], RestoreDevice(t, g, before),
         GuardsHonest', aclInit' \in {"unset", "ok", "failed"},
         aclInit = "ok" => aclInit' = "ok"
  PROVE  /\ Inv'
         /\ type'[t] = g.entry.type
         /\ g.restoreIndex /\ "restore" \notin warned'
              => index'[t][g.entry.type] = g.entry.device
         /\ g.entry.device = index[t][g.entry.type] => index'[t] = index[t]
<1>1. /\ g.previousType = g.entry.type /\ g.previousType \in Backends
      /\ g.restoreIndex => g.previousIndex = g.entry.device
      /\ g.previousIndex \in Indices \cup {0}
  BY DEF HonestGuards, GuardRecords
<1>2. type'[t] = g.entry.type
  BY <1>1 DEF RestoredType, Inv, TypeOK
<1>3. index[t] \in DevicesOfBackends /\ index \in [Threads -> DevicesOfBackends]
  BY DEF Inv, TypeOK
<1>4. warned' \subseteq {"read", "select", "restore"}
  BY DEF RestoreDevice
<1>5. CASE /\ g.restoreIndex
           /\ Settable(g.previousType, g.previousIndex, aclInit')
           /\ index' = [index EXCEPT
                          ![t] = Selected(index[t], g.previousType, g.previousIndex)]
  <2> DEFINE moved == Selected(index[t], g.previousType, g.previousIndex)
  <2>1. /\ moved \in DevicesOfBackends
        /\ moved[g.previousType] = g.previousIndex
        /\ \A c \in Backends : c # g.previousType => moved[c] = index[t][c]
    BY <1>1, <1>3, <1>5, SelectedKeepsType
  <2>2. index' = [index EXCEPT ![t] = moved] /\ index'[t] = moved
    BY <1>3, <1>5
  <2>3. g.entry.device = index[t][g.entry.type] => moved = index[t]
    BY <1>1, <1>3, <1>5 DEF Selected, DevicesOfBackends
  <2> HIDE DEF moved
  <2>4. Accelerator \in Backends /\ moved[Accelerator] # NoDevice => aclInit' = "ok"
    BY <1>5, <2>1 DEF Settable, Inv, InitializedBeforeUse
  <2>5. Inv'
    BY <1>1, <1>4, <2>1, <2>2, <2>4, MoveKeepsInv DEF RestoredType
  <2> QED BY <1>1, <1>2, <1>5, <2>1, <2>2, <2>3, <2>5
<1>6. CASE /\ index' = index
           /\ ~g.restoreIndex \/ "restore" \in warned'
  <2>1. index' = [index EXCEPT ![t] = index[t]]
    BY <1>3, <1>6
  <2>2. Accelerator \in Backends /\ index[t][Accelerator] # NoDevice => aclInit' = "ok"
    BY DEF Inv, InitializedBeforeUse
  <2>3. Inv'
    BY <1>1, <1>3, <1>4, <2>1, <2>2, MoveKeepsInv DEF RestoredType
  <2> QED BY <1>2, <1>6, <2>3
<1> QED BY <1>5, <1>6 DEF RestoreDevice

\* A guard whose device is refused restores at once, so nothing has moved.
LEMMA StepEnterRefused ==
  ASSUME Inv, NEW t \in Threads, NEW b \in Backends \cup Unsupported,
         NEW i \in Indices, NEW required \in BOOLEAN, asked' = <<t, b, i>>,
         EnterRefused(t, b, i, required)
  PROVE  Inv' /\ ReportsSelection(t, b, i) /\ \A u \in Threads : ~Leaves(u)
<1>1. PICK read \in Reads(t, b, i) :
        /\ type' = [type EXCEPT ![t] = RestoredType(Guard(t, read, FALSE))]
        /\ RestoreDevice(t, Guard(t, read, FALSE), ReadWarning(read) \cup {"select"})
        /\ Keep(t, Guard(t, read, FALSE), required)
  BY DEF EnterRefused
<1> DEFINE g == Guard(t, read, FALSE)
<1>2. g \in HonestGuards
  BY HonestGuard DEF Reads
<1>3. /\ ~g.active
      /\ g.entry.type = type[t] /\ g.entry.device = index[t][g.entry.type]
      /\ guards' = guards \/ guards' = [guards EXCEPT ![t] = Append(@, g)]
  BY <1>1 DEF Guard, Keep
<1>4. ReadWarning(read) \cup {"select"} \subseteq {"read", "select"}
  BY DEF ReadWarning
<1> HIDE DEF g
<1>5. /\ GuardsHonest'
      /\ \A u \in Threads : ~Leaves(u)
      /\ Enters(t) => guards'[t][Len(guards'[t])] = g
  BY <1>2, <1>3, KeepAppends
<1>6. /\ aclInit' \in {"unset", "ok", "failed"}
      /\ aclInit = "ok" => aclInit' = "ok"
  <2>1. EnsureInitialized(b)
    BY DEF EnterRefused
  <2> QED BY <2>1, InitializedOnce DEF Inv
<1>7. asked' \in Asks
  BY DEF Asks
<1>8. /\ Inv'
      /\ type'[t] = g.entry.type
      /\ index'[t] = index[t]
  <2>1. /\ type' = [type EXCEPT ![t] = RestoredType(g)]
        /\ RestoreDevice(t, g, ReadWarning(read) \cup {"select"})
    BY <1>1 DEF g
  <2> QED BY <1>2, <1>3, <1>4, <1>5, <1>6, <1>7, <2>1, RestoreRestores
<1>9. ReportsSelection(t, b, i)
  BY <1>3, <1>5, <1>8 DEF ReportsSelection
<1> QED BY <1>5, <1>8, <1>9

\* The end of a scope brings back what its beginning had selected.
LEMMA StepLeave ==
  ASSUME Inv, NEW t \in Threads, Leave(t)
  PROVE  Inv' /\ asked' = << >> /\ Restores
<1> DEFINE g == Innermost(t)
<1>1. /\ GuardsHonest'
      /\ g \in HonestGuards
      /\ \A u \in Threads : Leaves(u) => u = t
  BY PopRemoves DEF Leave, LeaveInert, LeaveRestoring
<1>2. aclInit' = aclInit /\ asked' = << >>
  BY DEF Leave, LeaveInert, LeaveRestoring
<1>3. aclInit' \in {"unset", "ok", "failed"}
  BY <1>2 DEF Inv, TypeOK
<1>4. g.restored <=> ~g.active
  BY <1>1 DEF HonestGuards
<1> HIDE DEF g
<1>5. CASE LeaveInert(t)
  <2>1. g.restored /\ type' = type /\ index' = index /\ warned' = {}
    BY <1>5 DEF LeaveInert, g
  <2>2. Restores
    BY <1>1, <1>4, <2>1 DEF Restores, BringsBack, g
  <2>3. TypeOK' /\ InitializedBeforeUse'
    BY <1>1, <1>2, <2>1, HonestWellFormed
       DEF Inv, TypeOK, GuardsHonest, InitializedBeforeUse
  <2> QED BY <1>1, <1>2, <2>2, <2>3 DEF Inv
<1>6. CASE LeaveRestoring(t)
  <2>1. /\ type' = [type EXCEPT ![t] = RestoredType(g)]
        /\ RestoreDevice(t, g, {})
    BY <1>6 DEF LeaveRestoring, g
  <2>2. asked' \in Asks
    BY <1>2 DEF Asks
  <2>3. /\ Inv'
        /\ type'[t] = g.entry.type
        /\ g.restoreIndex /\ "restore" \notin warned'
             => index'[t][g.entry.type] = g.entry.device
    BY <1>1, <1>2, <1>3, <2>1, <2>2, RestoreRestores
  <2>4. Restores
    BY <1>1, <2>3 DEF Restores, BringsBack, g
  <2> QED BY <1>2, <2>3, <2>4
<1> QED BY <1>5, <1>6 DEF Leave

-----------------------------------------------------------------------------
\* Every step keeps the invariant, reports its selection and brings back what
\* the scope it ends had found.
LEMMA Step ==
  ASSUME Inv, Next
  PROVE  Inv' /\ Truthful /\ Restores
<1>1. ASSUME NEW t \in Threads, NEW b \in Backends,
             SetRuntimeDeviceType(t, b) \/ QueryDeviceCount(t, b)
      PROVE  Inv' /\ Truthful /\ Restores
  BY <1>1, StepOutside DEF Truthful, Restores, BringsBack
<1>2. ASSUME NEW t \in Threads, NEW i \in Indices, SetDevice(t, i)
      PROVE  Inv' /\ Truthful /\ Restores
  BY <1>2, StepSetDevice DEF Truthful, Restores, BringsBack
<1>3. ASSUME NEW t \in Threads, NEW b \in Backends \cup Unsupported,
             NEW i \in Indices, Enter(t, b, i)
      PROVE  Inv' /\ Truthful /\ Restores
  <2>1. asked' = <<t, b, i>>
    BY <1>3 DEF Enter
  <2>2. Inv' /\ ReportsSelection(t, b, i) /\ \A u \in Threads : ~Leaves(u)
    BY <1>3, <2>1, StepEnterStill, StepEnterSwitch, StepEnterRefused DEF Enter
  <2>3. asked'[1] = t /\ asked'[2] = b /\ asked'[3] = i
    BY <2>1
  <2>4. Truthful
    BY <2>2, <2>3 DEF Truthful
  <2> QED BY <2>2, <2>4 DEF Restores, BringsBack
<1>4. ASSUME NEW t \in Threads, Leave(t)
      PROVE  Inv' /\ Truthful /\ Restores
  BY <1>4, StepLeave DEF Truthful
<1>5. CASE OtherCall
  <2>1. \A u \in Threads : Len(guards[u]) \in Nat
    BY DEF Inv, GuardsHonest
  <2>2. \A u \in Threads : ~Leaves(u)
    BY <1>5, <2>1 DEF OtherCall, Leaves
  <2>3. Inv'
    BY <1>5 DEF OtherCall, Inv, TypeOK, GuardsHonest, InitializedBeforeUse
  <2> QED BY <1>5, <2>2, <2>3 DEF OtherCall, Truthful, Restores, BringsBack
<1> QED BY <1>1, <1>2, <1>3, <1>4, <1>5 DEF Next

\* Nothing changes in a step of somebody else.
LEMMA Stuttering ==
  ASSUME Inv, UNCHANGED vars
  PROVE  Inv'
BY DEF Inv, TypeOK, GuardsHonest, InitializedBeforeUse, vars

\* Before anything is selected, every backend is on its first device.
LEMMA Start == Init => Inv
<1> SUFFICES ASSUME Init PROVE Inv
  OBVIOUS
<1>1. \A b \in Backends : DeviceCount[b] \in Nat
  BY BackendsAssumption
<1>2. \A b \in Backends :
        FirstDevice(b, aclInit) \in Devices(b) /\ FirstDevice(b, aclInit) \in Selections
  BY <1>1, DevicesAreIndices DEF FirstDevice, Devices, Selections, NoDevice
<1>3. [b \in Backends |-> FirstDevice(b, aclInit)] \in DevicesOfBackends
  BY <1>2 DEF DevicesOfBackends
<1>4. GuardsHonest
  BY DEF Init, GuardsHonest
<1>5. TypeOK
  BY <1>3, <1>4, HonestWellFormed, BackendsAssumption DEF Init, TypeOK, GuardsHonest
<1>6. InitializedBeforeUse
  BY DEF Init, InitializedBeforeUse, FirstDevice
<1> QED BY <1>4, <1>5, <1>6 DEF Inv

\* The inductive invariant, for every number of threads, backends, devices
\* and nested guards.
THEOREM InvHolds == Spec => []Inv
<1>1. Inv /\ [Next]_vars => Inv'
  BY Step, Stuttering
<1> QED BY Start, <1>1, PTL DEF Spec

\* The selection of a thread is always a device its backends have, and its
\* guards are well formed.
THEOREM SelectionTypes == Spec => []TypeOK
<1>1. Inv => TypeOK
  BY DEF Inv
<1> QED BY <1>1, InvHolds, PTL

\* No thread has a current device of the accelerator unless its initialisation
\* has succeeded or is not needed.
THEOREM AscendInitialized == Spec => []InitializedBeforeUse
<1>1. Inv => InitializedBeforeUse
  BY DEF Inv
<1> QED BY <1>1, InvHolds, PTL

\* active() is truthful, and an inactive guard has moved nothing.
THEOREM ActiveIsTruthful == Spec => GuardSelects
<1>1. Inv /\ [Next]_vars => [Truthful]_vars
  BY Step
<1>2. Spec => [][Truthful]_vars
  BY <1>1, InvHolds, PTL DEF Spec
<1> QED BY <1>2 DEF GuardSelects, Truthful

\* The end of an active guard's scope restores its thread's selection,
\* whatever happened inside and however deep the scopes were nested.
THEOREM ScopesRestore == Spec => ScopeRestores
<1>1. Inv /\ [Next]_vars => [\A t \in Threads : BringsBack(t)]_vars
  BY Step DEF Restores
<1> QED BY <1>1, InvHolds, PTL DEF Spec, ScopeRestores

-----------------------------------------------------------------------------
\* What the stream of a thread holds at each stage of its job.
Kept(t) == job[t].stage \in {"idle", "held", "done"} => queue[t] = << >>
Behind(t) ==
  job[t].stage \in {"waiting", "asked"} /\ queue[t] # << >>
    => queue[t][Len(queue[t])] = "event"
Answered(t) ==
  job[t].stage = "asked" =>
    /\ job[t].status = kSuccess => queue[t] = << >>
    /\ job[t].status = NotReady => job[t].of = Accelerator /\ hasEvents
OnlyAccelerator(t) == job[t].of # Accelerator => queue[t] = << >>

Stream(t) == Kept(t) /\ Behind(t) /\ Answered(t) /\ OnlyAccelerator(t)
DispatchInv == DispatchTypeOK /\ \A t \in Threads : Stream(t)

Items == {"copy", "event"}

-----------------------------------------------------------------------------
\* The dispatch does to the selections what DeviceGuard says, or nothing.
THEOREM DispatchImplementsGuards == DispatchSpec => Spec
<1>1. DispatchInit => Init
  BY DEF DispatchInit
<1>2. [DispatchNext]_allVars => [Next]_vars
  <2>1. ASSUME NEW t \in Threads, OtherCall PROVE Next
    BY <2>1 DEF Next
  <2>2. Running => Next
    BY <2>1 DEF Running, Select
  <2>3. Stopped \/ UNCHANGED allVars => UNCHANGED vars
    BY DEF Stopped, allVars
  <2> QED BY <2>2, <2>3 DEF DispatchNext
<1> QED BY <1>1, <1>2, PTL DEF DispatchSpec, Spec

\* So guards report what they select, whatever calls come in between.
THEOREM DispatchedGuardsSelect == DispatchSpec => GuardSelects
BY DispatchImplementsGuards, ActiveIsTruthful, PTL

\* And their ends restore what they found.
THEOREM DispatchedScopesRestore == DispatchSpec => ScopeRestores
BY DispatchImplementsGuards, ScopesRestore, PTL

\* And no thread uses an accelerator that failed to initialise.
THEOREM DispatchedInitialized == DispatchSpec => []InitializedBeforeUse
BY DispatchImplementsGuards, AscendInitialized, PTL

-----------------------------------------------------------------------------
\* A stream without an event whose last item would be one is empty.
LEMMA EmptyWhenComplete ==
  ASSUME NEW t \in Threads, DispatchTypeOK, Behind(t), ~Pending(t),
         job[t].stage \in {"waiting", "asked"}
  PROVE  queue[t] = << >>
<1>1. queue[t] \in Seq(Items)
  BY DEF DispatchTypeOK, Items
<1>2. queue[t] # << >> => Len(queue[t]) \in DOMAIN queue[t]
  BY <1>1
<1> QED BY <1>2 DEF Behind, Pending, Queued

\* An empty stream holds no item.
LEMMA NothingQueued ==
  ASSUME NEW t \in Threads, queue[t] = << >>
  PROVE  ~Queued(t, "copy") /\ ~Pending(t)
BY DEF Queued, Pending

\* No backend that refuses the event calls answers that the event is over,
\* and kEventNotReady comes only from an accelerator that has events.
LEMMA AnswerMeans ==
  ASSUME NEW t \in Threads, NEW status \in QueryAnswers(t), type[t] \in Backends,
         hasEvents \in BOOLEAN
  PROVE  /\ status = kSuccess /\ type[t] = Accelerator => ~Pending(t)
         /\ status = NotReady => type[t] = Accelerator /\ hasEvents
         /\ status \in Statuses
<1> USE StatusAssumption DEF kSuccess, InvalidValue, MemoryAllocation
<1>1. CASE type[t] = Accelerator /\ hasEvents /\ Pending(t)
  BY <1>1 DEF QueryAnswers, Statuses
<1>2. CASE ~(type[t] = Accelerator /\ hasEvents /\ Pending(t))
  <2>1. status \in Call(t, "EventQuery") /\ HasCase(t, "EventQuery")
    BY <1>2 DEF QueryAnswers, HasCase, Captures
  <2>2. CASE type[t] = Accelerator
    <3>1. status \in VendorAnswers(t, "EventQuery")
      BY <2>1, <2>2 DEF Call
    <3>2. status \in {VendorError, InvalidValue, kSuccess}
          /\ (~hasEvents => status \in {VendorError, InvalidValue})
      BY <3>1 DEF VendorAnswers, Events
    <3> QED BY <1>2, <2>2, <3>2 DEF Statuses
  <2>3. CASE type[t] # Accelerator
    <3>1. status \in CpuAnswers("EventQuery")
      BY <2>1, <2>3 DEF Call
    <3>2. status = kSuccess
      BY <3>1 DEF CpuAnswers, AsyncMemory
    <3> QED BY <2>3, <3>2 DEF Statuses
  <2> QED BY <2>2, <2>3
<1> QED BY <1>1, <1>2

-----------------------------------------------------------------------------
\* A step of one thread, or of its stream, leaves the others' as they are.
LEMMA OthersKeep ==
  ASSUME DispatchInv, NEW t \in Threads,
         NEW j \in [stage : Stages, of : Backends, status : Statuses], NEW q \in Seq(Items),
         job' = [job EXCEPT ![t] = j], queue' = [queue EXCEPT ![t] = q],
         hasEvents' = hasEvents, aborted' \in BOOLEAN,
         job'[t] = j /\ queue'[t] = q => Stream(t)'
  PROVE  DispatchInv'
<1>1. job'[t] = j /\ queue'[t] = q
  BY DEF DispatchInv, DispatchTypeOK
<1>2. DispatchTypeOK'
  BY DEF DispatchInv, DispatchTypeOK, Items
<1>3. ASSUME NEW u \in Threads, u # t PROVE Stream(u)'
  <2>1. job'[u] = job[u] /\ queue'[u] = queue[u]
    BY <1>3 DEF DispatchInv, DispatchTypeOK
  <2>2. Stream(u)
    BY DEF DispatchInv
  <2> QED BY <2>1, <2>2 DEF Stream, Kept, Behind, Answered, OnlyAccelerator
<1> QED BY <1>1, <1>2, <1>3 DEF DispatchInv

\* What is known of a thread before it calls.
LEMMA Before ==
  ASSUME DispatchInv, NEW t \in Threads
  PROVE  /\ job[t] \in [stage : Stages, of : Backends, status : Statuses]
         /\ queue[t] \in Seq(Items) /\ hasEvents \in BOOLEAN
         /\ Kept(t) /\ Behind(t) /\ Answered(t) /\ OnlyAccelerator(t)
         /\ job = [job EXCEPT ![t] = job[t]] /\ queue = [queue EXCEPT ![t] = queue[t]]
BY DEF DispatchInv, DispatchTypeOK, Stream, Items

\* Calls that queue nothing and wait for nothing.
LEMMA StepImmediate ==
  ASSUME DispatchInv, Inv, NEW t \in Threads,
         Allocate(t) \/ ProbeCapture(t) \/ ProbeAborts(t) \/ CopyNow(t) \/ RecordFails(t)
  PROVE  DispatchInv'
<1>1. type[t] \in Backends /\ Statuses # {}
  BY DEF Inv, TypeOK, Statuses
<1>2. CASE Allocate(t)
  <2> DEFINE j == Job("held", type[t], kSuccess)
  <2>1. j \in [stage : Stages, of : Backends, status : Statuses]
    BY <1>1 DEF Job, Stages, Statuses
  <2>2. queue[t] = << >>
    BY <1>2, Before DEF Allocate, Kept
  <2>3. job' = [job EXCEPT ![t] = j] /\ queue' = queue /\ hasEvents' = hasEvents
        /\ aborted' = aborted
    BY <1>2 DEF Allocate
  <2>4. job'[t] = j /\ queue'[t] = queue[t] => Stream(t)'
    BY <2>2 DEF Stream, Kept, Behind, Answered, OnlyAccelerator, Job
  <2> HIDE DEF j
  <2> QED BY <2>1, <2>3, <2>4, Before, OthersKeep DEF DispatchInv, DispatchTypeOK
<1>3. CASE ProbeCapture(t)
  <2>1. PICK status \in Call(t, "StreamBeginCapture") :
          job' = [job EXCEPT ![t].status = status]
    BY <1>3 DEF ProbeCapture
  <2>2. status \in Statuses
    <3>1. Call(t, "StreamBeginCapture") \subseteq Statuses
      <4>1. VendorAnswers(t, "StreamBeginCapture") \subseteq Statuses
        BY DEF VendorAnswers, Statuses
      <4>2. CpuAnswers("StreamBeginCapture") \subseteq Statuses
        BY DEF CpuAnswers, Statuses
      <4> QED BY <4>1, <4>2 DEF Call, Statuses
    <3> QED BY <3>1, <2>1
  <2> DEFINE j == [job[t] EXCEPT !.status = status]
  <2>3. /\ j \in [stage : Stages, of : Backends, status : Statuses]
        /\ j.stage = job[t].stage /\ j.of = job[t].of
    BY <2>2, Before
  <2>4. job' = [job EXCEPT ![t] = j] /\ queue' = queue /\ hasEvents' = hasEvents
        /\ aborted' = aborted /\ job[t].stage = "held"
    BY <1>3, <2>1 DEF ProbeCapture
  <2>5. job'[t] = j /\ queue'[t] = queue[t] => Stream(t)'
    BY <2>3, <2>4, Before DEF Stream, Kept, Behind, Answered, OnlyAccelerator
  <2> HIDE DEF j
  <2> QED BY <2>3, <2>4, <2>5, Before, OthersKeep DEF DispatchInv, DispatchTypeOK
<1>4. CASE ProbeAborts(t)
  <2>1. DispatchTypeOK'
    BY <1>4 DEF ProbeAborts, DispatchInv, DispatchTypeOK
  <2>2. \A u \in Threads : Stream(u)'
    BY <1>4 DEF ProbeAborts, DispatchInv, Stream, Kept, Behind, Answered, OnlyAccelerator
  <2> QED BY <2>1, <2>2 DEF DispatchInv
<1>5. CASE CopyNow(t) \/ RecordFails(t)
  <2>1. PICK stage \in {"copied", "blind"} : Moves(t, stage)
    BY <1>5 DEF CopyNow, RecordFails
  <2> DEFINE j == [job[t] EXCEPT !.stage = stage]
  <2>2. /\ j \in [stage : Stages, of : Backends, status : Statuses]
        /\ j.stage = stage /\ j.of = job[t].of
    BY <2>1, Before DEF Stages
  <2>3. job' = [job EXCEPT ![t] = j] /\ queue' = queue /\ hasEvents' = hasEvents
        /\ aborted' = aborted
    BY <1>5, <2>1 DEF CopyNow, RecordFails, Moves
  <2>4. job'[t] = j /\ queue'[t] = queue[t] => Stream(t)'
    BY <2>1, <2>2, Before DEF Stream, Kept, Behind, Answered, OnlyAccelerator
  <2> HIDE DEF j
  <2> QED BY <2>2, <2>3, <2>4, Before, OthersKeep DEF DispatchInv, DispatchTypeOK
<1> QED BY <1>2, <1>3, <1>4, <1>5

\* Calls that queue something: only the accelerator can accept them.
LEMMA StepQueued ==
  ASSUME DispatchInv, Inv, NEW t \in Threads, CopyAsync(t) \/ RecordEvent(t)
  PROVE  DispatchInv'
<1>1. CASE CopyAsync(t)
  <2> DEFINE j == [job[t] EXCEPT !.stage = "copied"]
             q == Append(queue[t], "copy")
  <2>1. job[t].of = Accelerator
    <3>1. kSuccess \in Call(t, "MemcpyAsync") /\ type[t] = job[t].of
      BY <1>1 DEF CopyAsync, On
    <3>2. CpuAnswers("MemcpyAsync") = {InvalidValue}
      BY DEF CpuAnswers, AsyncMemory
    <3>3. HasCase(t, "MemcpyAsync")
      BY DEF HasCase, Captures
    <3> QED BY <3>1, <3>2, <3>3 DEF Call, kSuccess, InvalidValue
  <2>2. /\ j \in [stage : Stages, of : Backends, status : Statuses]
        /\ j.stage = "copied" /\ j.of = Accelerator /\ q \in Seq(Items)
    BY <2>1, Before DEF Stages, Items
  <2>3. job' = [job EXCEPT ![t] = j] /\ queue' = [queue EXCEPT ![t] = q]
        /\ hasEvents' = hasEvents /\ aborted' = aborted
    BY <1>1 DEF CopyAsync, Moves
  <2>4. job'[t] = j /\ queue'[t] = q => Stream(t)'
    BY <2>2 DEF Stream, Kept, Behind, Answered, OnlyAccelerator
  <2> HIDE DEF j, q
  <2> QED BY <2>2, <2>3, <2>4, OthersKeep DEF DispatchInv, DispatchTypeOK
<1>2. CASE RecordEvent(t)
  <2> DEFINE j == [job[t] EXCEPT !.stage = "waiting"]
             q == Recorded(t)
  <2>1. /\ j \in [stage : Stages, of : Backends, status : Statuses]
        /\ j.stage = "waiting" /\ j.of = job[t].of
    BY Before DEF Stages
  <2>2. /\ q \in Seq(Items)
        /\ q # << >> => q[Len(q)] = "event"
        /\ j.of # Accelerator => q = << >>
    <3>1. type[t] = job[t].of /\ queue[t] \in Seq(Items) /\ OnlyAccelerator(t)
      BY <1>2, Before DEF RecordEvent, On
    <3>2. CASE type[t] = Accelerator
      <4>1. q = Append(queue[t], "event")
        BY <3>2 DEF Recorded
      <4> QED BY <2>1, <3>1, <3>2, <4>1 DEF Items
    <3>3. CASE type[t] # Accelerator
      BY <2>1, <3>1, <3>3 DEF Recorded, OnlyAccelerator
    <3> QED BY <3>2, <3>3
  <2>3. job' = [job EXCEPT ![t] = j] /\ queue' = [queue EXCEPT ![t] = q]
        /\ hasEvents' = hasEvents /\ aborted' = aborted
    BY <1>2 DEF RecordEvent, Moves
  <2> HIDE DEF j, q
  <2>4. job'[t] = j /\ queue'[t] = q => Stream(t)'
    BY <2>1, <2>2 DEF Stream, Kept, Behind, Answered, OnlyAccelerator
  <2> QED BY <2>1, <2>2, <2>3, <2>4, OthersKeep DEF DispatchInv, DispatchTypeOK
<1> QED BY <1>1, <1>2

\* A poll: what it answers, and what the program makes of the answer.
LEMMA StepPoll ==
  ASSUME DispatchInv, Inv, NEW t \in Threads, QueryEvent(t) \/ Conclude(t)
  PROVE  DispatchInv'
<1>1. CASE QueryEvent(t)
  <2>1. PICK status \in QueryAnswers(t) :
          job' = [job EXCEPT ![t] = Job("asked", @.of, status)]
    BY <1>1 DEF QueryEvent
  <2> DEFINE j == Job("asked", job[t].of, status)
  <2>2. job[t].stage = "waiting" /\ type[t] = job[t].of /\ queue' = queue
        /\ hasEvents' = hasEvents /\ aborted' = aborted
    BY <1>1 DEF QueryEvent, On
  <2>3. /\ status = kSuccess /\ type[t] = Accelerator => ~Pending(t)
        /\ status = NotReady => type[t] = Accelerator /\ hasEvents
        /\ status \in Statuses
    BY AnswerMeans, Before DEF Inv, TypeOK
  <2>4. status = kSuccess => queue[t] = << >>
    BY <2>2, <2>3, Before, EmptyWhenComplete DEF OnlyAccelerator, DispatchInv
  <2>5. /\ j \in [stage : Stages, of : Backends, status : Statuses]
        /\ j.stage = "asked" /\ j.of = job[t].of /\ j.status = status
    BY <2>3, Before DEF Job, Stages
  <2>6. job' = [job EXCEPT ![t] = j]
    BY <2>1
  <2> HIDE DEF j
  <2>7. job'[t] = j /\ queue'[t] = queue[t] => Stream(t)'
    BY <2>2, <2>3, <2>4, <2>5, Before DEF Stream, Kept, Behind, Answered, OnlyAccelerator
  <2> QED BY <2>2, <2>5, <2>6, <2>7, Before, OthersKeep DEF DispatchInv, DispatchTypeOK
<1>2. CASE Conclude(t)
  <2> DEFINE j == Job(Conclusion(t), job[t].of, kSuccess)
  <2>1. /\ Conclusion(t) \in {"done", "waiting", "blind"}
        /\ Conclusion(t) = "done" <=> job[t].status = kSuccess
    <3>1. CASE job[t].status = kSuccess
      BY <3>1 DEF Conclusion, IsEventNotReady
    <3>2. CASE job[t].status # kSuccess /\ IsEventNotReady(t, job[t].status)
      BY <3>2 DEF Conclusion
    <3>3. CASE job[t].status # kSuccess /\ ~IsEventNotReady(t, job[t].status)
      BY <3>3 DEF Conclusion
    <3> QED BY <3>1, <3>2, <3>3
  <2>2. /\ j \in [stage : Stages, of : Backends, status : Statuses]
        /\ j.stage = Conclusion(t) /\ j.of = job[t].of
    BY <2>1, Before DEF Job, Stages, Statuses
  <2>3. job' = [job EXCEPT ![t] = j] /\ queue' = queue /\ hasEvents' = hasEvents
        /\ aborted' = aborted /\ job[t].stage = "asked"
    BY <1>2 DEF Conclude
  <2> HIDE DEF j
  <2>4. job'[t] = j /\ queue'[t] = queue[t] => Stream(t)'
    BY <2>1, <2>2, <2>3, Before DEF Stream, Kept, Behind, Answered, OnlyAccelerator
  <2> QED BY <2>2, <2>3, <2>4, Before, OthersKeep DEF DispatchInv, DispatchTypeOK
<1> QED BY <1>1, <1>2

\* Waiting for the stream, and freeing what it no longer uses.
LEMMA StepDone ==
  ASSUME DispatchInv, Inv, NEW t \in Threads, StreamSynchronize(t) \/ Free(t)
  PROVE  DispatchInv'
<1>1. queue[t] = << >>
  <2>1. CASE StreamSynchronize(t)
    BY <2>1, Before DEF StreamSynchronize, Synchronized, On, OnlyAccelerator
  <2>2. CASE Free(t)
    BY <2>2, Before DEF Free, Kept
  <2> QED BY <2>1, <2>2
<1>2. PICK j \in [stage : Stages, of : Backends, status : Statuses] :
        job' = [job EXCEPT ![t] = j] /\ j.stage # "asked"
  <2>1. CASE StreamSynchronize(t)
    <3> DEFINE j == [job[t] EXCEPT !.stage = "done"]
    <3>1. j \in [stage : Stages, of : Backends, status : Statuses] /\ j.stage = "done"
      BY Before DEF Stages
    <3>2. job' = [job EXCEPT ![t] = j]
      BY <2>1 DEF StreamSynchronize, Moves
    <3> HIDE DEF j
    <3> QED BY <3>1, <3>2
  <2>2. CASE Free(t)
    <3>1. /\ Idle \in [stage : Stages, of : Backends, status : Statuses]
          /\ Idle.stage = "idle"
      BY BackendsAssumption DEF Idle, Job, Stages, Statuses
    <3>2. job' = [job EXCEPT ![t] = Idle]
      BY <2>2 DEF Free
    <3> QED BY <3>1, <3>2
  <2> QED BY <2>1, <2>2
<1>3. queue' = queue /\ hasEvents' = hasEvents /\ aborted' = aborted
  BY DEF StreamSynchronize, Free
<1>4. job'[t] = j /\ queue'[t] = queue[t] => Stream(t)'
  BY <1>1, <1>2 DEF Stream, Kept, Behind, Answered, OnlyAccelerator
<1> QED BY <1>2, <1>3, <1>4, Before, OthersKeep DEF DispatchInv, DispatchTypeOK

\* The device takes from the front of a stream what was queued first.
LEMMA StepExecute ==
  ASSUME DispatchInv, NEW t \in Threads, Execute(t)
  PROVE  DispatchInv'
<1> DEFINE q == Tail(queue[t])
<1>1. queue[t] \in Seq(Items) /\ queue[t] # << >>
  BY Before DEF Execute
<1>2. q \in Seq(Items) /\ (q # << >> => q[Len(q)] = queue[t][Len(queue[t])])
  BY <1>1
<1>3. job' = [job EXCEPT ![t] = job[t]] /\ queue' = [queue EXCEPT ![t] = q]
      /\ hasEvents' = hasEvents /\ aborted' = aborted
  BY Before DEF Execute
<1> HIDE DEF q
<1>4. job'[t] = job[t] /\ queue'[t] = q => Stream(t)'
  BY <1>1, <1>2, <1>3, Before DEF Stream, Kept, Behind, Answered, OnlyAccelerator
<1> QED BY <1>2, <1>3, <1>4, Before, OthersKeep DEF DispatchInv, DispatchTypeOK

-----------------------------------------------------------------------------
\* What PollTruthful says of one step.
Polls ==
  \A t \in Threads : job[t].stage = "asked" /\ job'[t].stage # "asked" =>
    /\ job'[t].stage = "done" => ~Pending(t) /\ ~Queued(t, "copy")
    /\ job'[t].stage = "waiting" => job[t].status = NotReady
    /\ job[t].status = NotReady /\ job'[t].stage = "blind" => ~On(t)

\* The stages of the other threads stay, and a thread that has asked concludes.
LEMMA ConcludesTruthfully ==
  ASSUME DispatchInv, NEW t \in Threads, CallNext(t) \/ Execute(t)
  PROVE  Polls
<1> SUFFICES ASSUME NEW u \in Threads, job[u].stage = "asked", job'[u].stage # "asked"
             PROVE  /\ job'[u].stage = "done" => ~Pending(u) /\ ~Queued(u, "copy")
                    /\ job'[u].stage = "waiting" => job[u].status = NotReady
                    /\ job[u].status = NotReady /\ job'[u].stage = "blind" => ~On(u)
  BY DEF Polls
<1>1. job \in [Threads -> [stage : Stages, of : Backends, status : Statuses]]
  BY DEF DispatchInv, DispatchTypeOK
<1>2. Conclude(t) /\ u = t
  <2>1. CASE Conclude(t)
    BY <1>1, <2>1 DEF Conclude
  <2>2. CASE CallNext(t) /\ ~Conclude(t)
    BY <1>1, <2>2 DEF CallNext, Allocate, ProbeCapture, ProbeAborts, CopyAsync, CopyNow,
                      RecordEvent, RecordFails, QueryEvent, StreamSynchronize, Free, Moves
  <2>3. CASE Execute(t)
    BY <2>3 DEF Execute
  <2> QED BY <2>1, <2>2, <2>3
<1>3. job'[u].stage = Conclusion(u)
  BY <1>1, <1>2 DEF Conclude, Job
<1>4. job'[u].stage = "done" => queue[u] = << >>
  BY <1>3, Before DEF Conclusion, Answered
<1>5. job'[u].stage = "waiting" => job[u].status = NotReady
  BY <1>3 DEF Conclusion, IsEventNotReady
<1>6. ASSUME job[u].status = NotReady, job'[u].stage = "blind" PROVE ~On(u)
  <2>1. NotReady # kSuccess
    BY StatusAssumption
  <2>2. ~IsEventNotReady(u, job[u].status) /\ job[u].of = Accelerator /\ hasEvents
    BY <1>3, <1>6, <2>1, Before DEF Conclusion, Answered
  <2> QED BY <1>6, <2>1, <2>2 DEF IsEventNotReady, On
<1> QED BY <1>4, <1>5, <1>6, NothingQueued

\* Every step keeps the invariant and draws the right conclusion.
LEMMA DispatchStep ==
  ASSUME DispatchInv, Inv, Running
  PROVE  DispatchInv' /\ Polls
<1>1. CASE Select
  <2>1. UNCHANGED callVars
    BY <1>1 DEF Select
  <2> QED BY <2>1 DEF callVars, DispatchInv, DispatchTypeOK, Stream, Kept, Behind,
                      Answered, OnlyAccelerator, Polls
<1>2. ASSUME NEW t \in Threads, CallNext(t) \/ Execute(t)
      PROVE  DispatchInv' /\ Polls
  <2>1. DispatchInv'
    BY <1>2, StepImmediate, StepQueued, StepPoll, StepDone, StepExecute DEF CallNext
  <2> QED BY <1>2, <2>1, ConcludesTruthfully
<1> QED BY <1>1, <1>2 DEF Running

\* At the start every stream is empty.
LEMMA DispatchStart == DispatchInit => DispatchInv
<1> SUFFICES ASSUME DispatchInit PROVE DispatchInv
  OBVIOUS
<1>1. Idle \in [stage : Stages, of : Backends, status : Statuses] /\ Idle.stage = "idle"
  BY BackendsAssumption DEF Idle, Job, Stages, Statuses
<1>2. DispatchTypeOK
  <2>1. queue \in [Threads -> Seq({"copy", "event"})]
    BY DEF DispatchInit
  <2>2. job \in [Threads -> [stage : Stages, of : Backends, status : Statuses]]
    BY <1>1 DEF DispatchInit
  <2> QED BY <2>1, <2>2 DEF DispatchInit, DispatchTypeOK
<1>3. \A t \in Threads : queue[t] = << >> /\ job[t].stage = "idle"
  BY <1>1 DEF DispatchInit
<1>4. \A t \in Threads : Stream(t)
  BY <1>3 DEF Stream, Kept, Behind, Answered, OnlyAccelerator
<1> QED BY <1>2, <1>4 DEF DispatchInv

\* The inductive invariant of jobs and streams.
THEOREM DispatchInvHolds == DispatchSpec => []DispatchInv
<1>1. DispatchInv /\ Inv /\ [DispatchNext]_allVars => DispatchInv'
  <2>1. ASSUME DispatchInv, UNCHANGED allVars PROVE DispatchInv'
    BY <2>1 DEF allVars, callVars, DispatchInv, DispatchTypeOK, Stream, Kept, Behind,
                Answered, OnlyAccelerator
  <2> QED BY <2>1, DispatchStep DEF DispatchNext, Stopped
<1> QED BY <1>1, DispatchStart, DispatchImplementsGuards, InvHolds, PTL DEF DispatchSpec

\* Memory is freed only when nothing is queued that uses it, for any threads,
\* backends, devices and statuses.
THEOREM FreedMemoryIsUnused == DispatchSpec => []FreedWhenUnused
<1>1. DispatchInv => FreedWhenUnused
  BY Before, NothingQueued DEF FreedWhenUnused, Kept
<1> QED BY <1>1, DispatchInvHolds, PTL

\* A poll that succeeds means that the work before the event is over, and a
\* pending event is given up only under another backend.
THEOREM PollsAreTruthful == DispatchSpec => PollTruthful
<1>1. DispatchInv /\ Inv /\ [DispatchNext]_allVars =>
        [\A t \in Threads : job[t].stage = "asked" /\ job'[t].stage # "asked" =>
           /\ job'[t].stage = "done" => ~Pending(t) /\ ~Queued(t, "copy")
           /\ job'[t].stage = "waiting" => job[t].status = NotReady
           /\ job[t].status = NotReady /\ job'[t].stage = "blind" => ~On(t)]_allVars
  BY DispatchStep DEF Polls, DispatchNext, Stopped
<1> QED BY <1>1, DispatchInvHolds, DispatchImplementsGuards, InvHolds, PTL
        DEF DispatchSpec, PollTruthful
=============================================================================
