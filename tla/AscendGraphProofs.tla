------------------------- MODULE AscendGraphProofs -------------------------
(***************************************************************************)
(* Proofs about AscendGraph for any streams, captures, handles and found   *)
(* symbols.  The conjunction of the invariants is inductive.               *)
(***************************************************************************)
EXTENDS AscendGraph, TLAPS

Owned == TypeOK /\ NoNullCall /\ ModelsOwned

Inv == Owned /\ (ExecsBeforeGraph => ExecutableStaysLive)

\* Before the lookup nothing counts as available; afterwards it is what the
\* lookup found, for good.
LEMMA LookupOnce ==
  ASSUME TypeOK, ModelsOwned
  PROVE  /\ GraphApi \subseteq Symbols
         /\ api # Unprobed => GraphApi = api
         /\ Available(api) => GraphApi = api
         /\ \A m \in Models : model[m] # "unused" => Available(GraphApi)
<1>1. Probed \subseteq Symbols
  BY AscendGraphAssumption DEF TypeOK, Probed
<1>2. ~Available(Unprobed)
  BY AscendGraphAssumption DEF Available, Unprobed, Symbols
<1> QED BY <1>1, <1>2 DEF TypeOK, GraphApi, ModelsOwned

\* A step that looks the functions up, calls only functions that were found,
\* and leaves models and graph handles alone keeps what they mean.
LEMMA UsesKeepsOwned ==
  ASSUME Owned, NEW symbols, Uses(symbols), symbols \subseteq GraphApi
  PROVE  /\ env' \in Environments /\ api' \subseteq Symbols /\ called' \subseteq api'
         /\ called' \subseteq Symbols
         /\ \A m \in Models : model[m] # "unused" => Available(api')
BY LookupOnce DEF Owned, TypeOK, Uses

\* No step of a stream loses a model or calls a missing function.
LEMMA StreamStep ==
  ASSUME Inv, NEW s \in Streams,
         StreamBeginCapture(s) \/ StreamEndCapture(s) \/ Complete(s)
  PROVE  Inv'
<1>1. CASE Unsupported
  <2>1. Uses({}) BY <1>1 DEF Unsupported
  <2>2. UNCHANGED <<driverVars, callerVars>> BY <1>1 DEF Unsupported
  <2> QED BY <2>1, <2>2, UsesKeepsOwned
          DEF Inv, Owned, TypeOK, NoNullCall, ModelsOwned, ExecutableStaysLive,
              driverVars, callerVars
<1>2. CASE \E symbols \in SUBSET Symbols : Refused(symbols)
  <2>1. PICK symbols \in SUBSET Symbols : Refused(symbols) BY <1>2
  <2>2. Uses(symbols) /\ symbols \subseteq GraphApi BY <2>1 DEF Refused, Available
  <2>3. UNCHANGED <<driverVars, callerVars>> BY <2>1 DEF Refused
  <2> QED BY <2>2, <2>3, UsesKeepsOwned
          DEF Inv, Owned, TypeOK, NoNullCall, ModelsOwned, ExecutableStaysLive,
              driverVars, callerVars
<1>3. ASSUME Available(GraphApi), NEW symbols \in SUBSET Symbols, Uses(symbols),
             capturing' \subseteq Streams, UNCHANGED <<model, running, callerVars>>
      PROVE  Inv'
  <2>1. symbols \subseteq GraphApi BY <1>3 DEF Available
  <2> QED BY <1>3, <2>1, UsesKeepsOwned
          DEF Inv, Owned, TypeOK, NoNullCall, ModelsOwned, ExecutableStaysLive,
              callerVars
<1>4. ASSUME NEW m \in Models, Available(GraphApi), model[m] = "unused",
             Uses({"CaptureGetInfo", "CaptureEnd"}), capturing' = capturing \ {s},
             model' = [model EXCEPT ![m] = "live"], graphs' = graphs \cup {m},
             UNCHANGED <<running, exec>>
      PROVE  Inv'
  <2>1. {"CaptureGetInfo", "CaptureEnd"} \subseteq GraphApi
    BY <1>4 DEF Available, Symbols
  <2>2. /\ env' \in Environments /\ api' \subseteq Symbols /\ called' \subseteq api'
        /\ called' \subseteq Symbols
    BY <1>4, <2>1, UsesKeepsOwned DEF Inv
  <2>3. Available(api') BY <1>4 DEF Uses
  <2>4. TypeOK' BY <1>4, <2>2 DEF Inv, Owned, TypeOK
  <2>5. ModelsOwned' BY <1>4, <2>3 DEF Inv, Owned, TypeOK, ModelsOwned
  <2>6. ExecutableStaysLive => ExecutableStaysLive'
    BY <1>4 DEF Inv, Owned, TypeOK, ExecutableStaysLive
  <2> QED BY <2>2, <2>4, <2>5, <2>6 DEF Inv, Owned, NoNullCall
<1>5. CASE StreamBeginCapture(s)
  <2>1. CASE /\ Available(GraphApi) /\ Uses({"CaptureBegin"})
             /\ capturing' = capturing \cup {s}
             /\ UNCHANGED <<model, running, callerVars>>
    <3>1. {"CaptureBegin"} \in SUBSET Symbols /\ capturing' \subseteq Streams
      BY <2>1 DEF Symbols, Inv, Owned, TypeOK
    <3> QED BY <1>3, <2>1, <3>1
  <2> QED BY <1>1, <1>2, <1>5, <2>1 DEF StreamBeginCapture, Symbols
<1>6. CASE StreamEndCapture(s)
  <2>1. CASE /\ Available(GraphApi) /\ Uses({"CaptureGetInfo", "CaptureEnd"})
             /\ capturing' = capturing \ {s}
             /\ UNCHANGED <<model, running, callerVars>>
    <3>1. /\ {"CaptureGetInfo", "CaptureEnd"} \in SUBSET Symbols
          /\ capturing' \subseteq Streams
      BY <2>1 DEF Symbols, Inv, Owned, TypeOK
    <3> QED BY <1>3, <2>1, <3>1
  <2> QED BY <1>1, <1>2, <1>4, <1>6, <2>1 DEF StreamEndCapture, Symbols
<1>7. CASE Complete(s)
  <2>1. /\ running' = [running EXCEPT ![s] = {}] /\ called' = {}
        /\ UNCHANGED <<env, api, capturing, model, callerVars>>
    BY <1>7 DEF Complete
  <2> QED BY <2>1 DEF Inv, Owned, TypeOK, NoNullCall, ModelsOwned,
                     ExecutableStaysLive, callerVars
<1> QED BY <1>5, <1>6, <1>7

\* Destroying a graph gives its handle up with its model, and, if executable
\* graphs go first, nothing that could still be launched.
LEMMA DestroyStep ==
  ASSUME Inv, NEW m \in Models, GraphDestroy(m)
  PROVE  Inv'
<1>1. m \in graphs /\ MayDestroy(m) /\ Uses(GraphApi \cap {"Destroy"})
  BY DEF GraphDestroy
<1>2. /\ env' \in Environments /\ api' \subseteq Symbols /\ called' \subseteq api'
      /\ called' \subseteq Symbols
      /\ \A n \in Models : model[n] # "unused" => Available(api')
  BY <1>1, UsesKeepsOwned DEF Inv
<1>3. model[m] = "live"
  BY <1>1 DEF Inv, Owned, ModelsOwned
<1>4. CASE /\ model' = [model EXCEPT ![m] = "destroyed"]
           /\ graphs' = graphs \ {m}
           /\ UNCHANGED <<capturing, running, exec>>
  <2>1. TypeOK' BY <1>2, <1>4 DEF Inv, Owned, TypeOK
  <2>2. ModelsOwned' BY <1>2, <1>3, <1>4 DEF Inv, Owned, TypeOK, ModelsOwned
  <2>3. ExecsBeforeGraph => ExecutableStaysLive'
    BY <1>1, <1>4 DEF Inv, Owned, TypeOK, ExecutableStaysLive, MayDestroy
  <2> QED BY <1>2, <2>1, <2>2, <2>3 DEF Inv, Owned, NoNullCall
<1>5. CASE UNCHANGED <<driverVars, callerVars>>
  BY <1>2, <1>5 DEF Inv, Owned, TypeOK, NoNullCall, ModelsOwned,
                    ExecutableStaysLive, driverVars, callerVars
<1> QED BY <1>4, <1>5 DEF GraphDestroy

\* An executable handle is made from a graph the caller holds, which is live.
LEMMA ExecStep ==
  ASSUME Inv, NEW e \in Execs,
         \/ \E m \in Models : GraphInstantiate(e, m)
         \/ \E s \in Streams : GraphLaunch(e, s)
         \/ GraphExecDestroy(e)
  PROVE  Inv'
<1>1. ASSUME NEW m \in Models, GraphInstantiate(e, m)
      PROVE  Inv'
  <2>1. /\ exec' = [exec EXCEPT ![e] = m] /\ m \in graphs /\ called' = {}
        /\ UNCHANGED <<env, api, driverVars, graphs>>
    BY <1>1 DEF GraphInstantiate
  <2>2. model[m] = "live" BY <2>1 DEF Inv, Owned, ModelsOwned
  <2> QED BY <2>1, <2>2 DEF Inv, Owned, TypeOK, NoNullCall, ModelsOwned,
                           ExecutableStaysLive, driverVars
<1>2. ASSUME NEW s \in Streams, GraphLaunch(e, s)
      PROVE  Inv'
  <2>1. CASE Unsupported
    <3>1. Uses({}) /\ UNCHANGED <<driverVars, callerVars>> BY <2>1 DEF Unsupported
    <3> QED BY <3>1, UsesKeepsOwned
            DEF Inv, Owned, TypeOK, NoNullCall, ModelsOwned, ExecutableStaysLive,
                driverVars, callerVars
  <2>2. CASE Refused({"ExecuteAsync"})
    <3>1. Uses({"ExecuteAsync"}) /\ {"ExecuteAsync"} \subseteq GraphApi
      BY <2>2 DEF Refused, Available, Symbols
    <3>2. UNCHANGED <<driverVars, callerVars>> BY <2>2 DEF Refused
    <3> QED BY <3>1, <3>2, UsesKeepsOwned
            DEF Inv, Owned, TypeOK, NoNullCall, ModelsOwned, ExecutableStaysLive,
                driverVars, callerVars
  <2>3. CASE /\ exec[e] # None /\ Available(GraphApi) /\ Uses({"ExecuteAsync"})
             /\ running' = [running EXCEPT ![s] = @ \cup {exec[e]}]
             /\ UNCHANGED <<capturing, model, callerVars>>
    <3>1. {"ExecuteAsync"} \subseteq GraphApi BY <2>3 DEF Available, Symbols
    <3>2. exec[e] \in Models BY <2>3 DEF Inv, Owned, TypeOK
    <3>3. /\ env' \in Environments /\ api' \subseteq Symbols /\ called' \subseteq api'
          /\ called' \subseteq Symbols
          /\ \A n \in Models : model[n] # "unused" => Available(api')
      BY <2>3, <3>1, UsesKeepsOwned DEF Inv
    <3>4. TypeOK' /\ ModelsOwned'
      BY <2>3, <3>2, <3>3 DEF Inv, Owned, TypeOK, ModelsOwned, callerVars
    <3>5. ExecsBeforeGraph => ExecutableStaysLive'
      BY <2>3, <3>2 DEF Inv, Owned, TypeOK, ExecutableStaysLive, callerVars
    <3> QED BY <3>3, <3>4, <3>5 DEF Inv, Owned, NoNullCall
  <2> QED BY <1>2, <2>1, <2>2, <2>3 DEF GraphLaunch
<1>3. CASE GraphExecDestroy(e)
  <2>1. /\ exec' = [exec EXCEPT ![e] = None] /\ called' = {}
        /\ UNCHANGED <<env, api, driverVars, graphs>>
    BY <1>3 DEF GraphExecDestroy
  <2> QED BY <2>1 DEF Inv, Owned, TypeOK, NoNullCall, ModelsOwned,
                     ExecutableStaysLive, driverVars
<1> QED BY <1>1, <1>2, <1>3

LEMMA Start == Init => Inv
BY DEF Init, Inv, Owned, TypeOK, NoNullCall, ModelsOwned, ExecutableStaysLive

\* The inductive invariant.
THEOREM InvHolds == Spec => []Inv
<1>1. Inv /\ [Next]_vars => Inv'
  <2> SUFFICES ASSUME Inv, [Next]_vars PROVE Inv'
    OBVIOUS
  <2>1. CASE UNCHANGED vars
    BY <2>1 DEF vars, driverVars, callerVars, Inv, Owned, TypeOK, NoNullCall,
                ModelsOwned, ExecutableStaysLive
  <2> QED BY <2>1, StreamStep, DestroyStep, ExecStep DEF Next
<1> QED BY <1>1, Start, PTL DEF Spec

\* No call goes through a pointer the lookup left null, whatever was found.
THEOREM NoNullCalls == Spec => []NoNullCall
<1>1. Inv => NoNullCall BY DEF Inv, Owned
<1> QED BY <1>1, InvHolds, PTL

\* Every live model has a handle in the caller's hands.
THEOREM NoModelLeaks == Spec => []ModelsOwned
<1>1. Inv => ModelsOwned BY DEF Inv, Owned
<1> QED BY <1>1, InvHolds, PTL

\* If callers destroy executable graphs before their graph, no launch and no
\* pending execution ever meets a destroyed model.
THEOREM ExecutablesLive ==
  ASSUME ExecsBeforeGraph PROVE Spec => []ExecutableStaysLive
<1>1. Inv => ExecutableStaysLive BY DEF Inv
<1> QED BY <1>1, InvHolds, PTL
=============================================================================
