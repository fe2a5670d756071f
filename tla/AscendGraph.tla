---------------------------- MODULE AscendGraph ----------------------------
(***************************************************************************)
(* Graph capture and replay on Ascend (src/native/ascend/runtime_.h).      *)
(*                                                                         *)
(* The five aclmdlRI* functions may be missing, so they are looked up once,*)
(* first in what the process has loaded and then in libascendcl.so, and    *)
(* graphs are unsupported unless all five are found.  An executable graph  *)
(* is the captured model itself: instantiating makes no copy of it, and    *)
(* destroying the executable graph does nothing.                           *)
(***************************************************************************)
EXTENDS FiniteSets

CONSTANTS
  Streams, Models, Execs, None,
  Environments,      \* what a process may find: [default, opens, library]
  ExecsBeforeGraph   \* callers destroy executable graphs before their graph

Symbols == {"CaptureBegin", "CaptureGetInfo", "CaptureEnd", "ExecuteAsync", "Destroy"}

ASSUME AscendGraphAssumption ==
  /\ None \notin Models \cup Symbols
  /\ ExecsBeforeGraph \in BOOLEAN
  /\ Environments \subseteq
       [default : SUBSET Symbols, opens : BOOLEAN, library : SUBSET Symbols]

VARIABLES
  env,        \* symbols of the process, and of libascendcl.so if it opens
  api,        \* the function-local static of GraphApi: {None}, then symbols
  called,     \* aclmdlRI functions that the last step called
  capturing,  \* streams that the driver is capturing
  model,      \* the driver's models: "unused", "live" or "destroyed"
  graphs,     \* graph handles that the caller holds
  exec,       \* what each executable handle of the caller is, or None
  running     \* models that each stream still has to execute

driverVars == <<capturing, model, running>>
callerVars == <<graphs, exec>>
vars == <<env, api, called, driverVars, callerVars>>

Unprobed == {None}

Init ==
  /\ env \in Environments
  /\ api = Unprobed
  /\ called = {}
  /\ capturing = {}
  /\ model = [m \in Models |-> "unused"]
  /\ graphs = {}
  /\ exec = [e \in Execs |-> None]
  /\ running = [s \in Streams |-> {}]

-----------------------------------------------------------------------------
AnyAvailable(found) == "CaptureBegin" \in found /\ "Destroy" \in found
Available(found) == Symbols \subseteq found

\* GraphApi: the second lookup overwrites all five pointers, the null results
\* included.
Probed ==
  IF Available(env.default) \/ ~env.opens
  THEN env.default
  ELSE env.library

GraphApi == IF api = Unprobed THEN Probed ELSE api

Uses(symbols) ==
  /\ api' = GraphApi
  /\ called' = symbols
  /\ UNCHANGED env

-----------------------------------------------------------------------------
\* The API returns an error and touches nothing: graphs are unsupported, or
\* the driver refused.
Unsupported ==
  /\ ~Available(GraphApi)
  /\ Uses({})
  /\ UNCHANGED <<driverVars, callerVars>>

Refused(symbols) ==
  /\ Available(GraphApi)
  /\ Uses(symbols)
  /\ UNCHANGED <<driverVars, callerVars>>

StreamBeginCapture(s) ==
  \/ Unsupported
  \/ Refused({"CaptureBegin"})
  \/ /\ Available(GraphApi)
     /\ s \notin capturing
     /\ Uses({"CaptureBegin"})
     /\ capturing' = capturing \cup {s}
     /\ UNCHANGED <<model, running, callerVars>>

\* CaptureGetInfo must succeed before the capture is ended at all; a capture
\* that the driver ends with an error yields no model.
StreamEndCapture(s) ==
  \/ Unsupported
  \/ Refused({"CaptureGetInfo"}) \/ Refused({"CaptureGetInfo", "CaptureEnd"})
  \/ /\ Available(GraphApi)
     /\ s \in capturing
     /\ Uses({"CaptureGetInfo", "CaptureEnd"})
     /\ capturing' = capturing \ {s}
     /\ UNCHANGED <<model, running, callerVars>>
  \/ \E m \in Models :
       /\ Available(GraphApi)
       /\ s \in capturing
       /\ model[m] = "unused"
       /\ Uses({"CaptureGetInfo", "CaptureEnd"})
       /\ capturing' = capturing \ {s}
       /\ model' = [model EXCEPT ![m] = "live"]
       /\ graphs' = graphs \cup {m}
       /\ UNCHANGED <<running, exec>>

\* Callers that follow the documentation's example destroy the executable
\* graphs first, and none that still runs.
MayDestroy(m) ==
  ExecsBeforeGraph =>
    /\ \A e \in Execs : exec[e] # m
    /\ \A s \in Streams : m \notin running[s]

GraphDestroyForgets(m) ==
  /\ m \in graphs
  /\ Uses({})
  /\ graphs' = graphs \ {m}
  /\ UNCHANGED <<driverVars, exec>>

\* The handle is gone when the driver destroyed the model, and stays the
\* caller's when it refused.
GraphDestroy(m) ==
  /\ m \in graphs
  /\ MayDestroy(m)
  /\ Uses(GraphApi \cap {"Destroy"})
  /\ \/ /\ model' = [model EXCEPT ![m] = "destroyed"]
        /\ graphs' = graphs \ {m}
        /\ UNCHANGED <<capturing, running, exec>>
     \/ UNCHANGED <<driverVars, callerVars>>

GraphInstantiate(e, m) ==
  /\ exec[e] = None
  /\ m \in graphs
  /\ exec' = [exec EXCEPT ![e] = m]
  /\ called' = {}
  /\ UNCHANGED <<env, api, driverVars, graphs>>

GraphExecDestroyModel(e) ==
  /\ exec[e] # None
  /\ Uses({"Destroy"})
  /\ exec' = [exec EXCEPT ![e] = None]
  /\ model' = [model EXCEPT ![exec[e]] = "destroyed"]
  /\ UNCHANGED <<capturing, running, graphs>>

GraphExecDestroy(e) ==
  /\ exec[e] # None
  /\ exec' = [exec EXCEPT ![e] = None]
  /\ called' = {}
  /\ UNCHANGED <<env, api, driverVars, graphs>>

GraphLaunch(e, s) ==
  \/ Unsupported
  \/ exec[e] # None /\ Refused({"ExecuteAsync"})
  \/ /\ exec[e] # None
     /\ Available(GraphApi)
     /\ Uses({"ExecuteAsync"})
     /\ running' = [running EXCEPT ![s] = @ \cup {exec[e]}]
     /\ UNCHANGED <<capturing, model, callerVars>>

\* The device finishes what a stream was given.
Complete(s) ==
  /\ running[s] # {}
  /\ running' = [running EXCEPT ![s] = {}]
  /\ called' = {}
  /\ UNCHANGED <<env, api, capturing, model, callerVars>>

Next ==
  \/ \E s \in Streams :
       StreamBeginCapture(s) \/ StreamEndCapture(s) \/ Complete(s)
  \/ \E m \in Models : GraphDestroy(m)
  \/ \E e \in Execs :
       \/ \E m \in Models : GraphInstantiate(e, m)
       \/ \E s \in Streams : GraphLaunch(e, s)
       \/ GraphExecDestroy(e)

Spec == Init /\ [][Next]_vars

-----------------------------------------------------------------------------
TypeOK ==
  /\ env \in Environments
  /\ api = Unprobed \/ api \subseteq Symbols
  /\ called \subseteq Symbols
  /\ capturing \subseteq Streams
  /\ model \in [Models -> {"unused", "live", "destroyed"}]
  /\ graphs \subseteq Models
  /\ exec \in [Execs -> Models \cup {None}]
  /\ running \in [Streams -> SUBSET Models]

\* Whatever subset of the symbols the process finds, and wherever it finds
\* them, no call goes through a pointer that the lookup left null
\* (ascend/runtime_.h:135-187, 220-256).
NoNullCall == called \subseteq api

\* A model exists only where all five functions were found, so GraphDestroy
\* never skips a model that does exist (ascend/runtime_.h:165-171), and the
\* caller holds the handle of every model that is not destroyed: none leaks.
ModelsOwned ==
  \A m \in Models :
    /\ model[m] # "unused" => Available(api)
    /\ model[m] = "live" <=> m \in graphs

\* "After GraphInstantiate succeeds, the executable graph can be launched
\* multiple times while inputs and outputs remain at the recorded addresses"
\* (docs/api/runtime.md:144-145): what an executable handle launches, and
\* what a stream still has to execute, is not destroyed
\* (ascend/runtime_.h:165-187).
ExecutableStaysLive ==
  /\ \A e \in Execs : exec[e] # None => model[exec[e]] = "live"
  /\ \A s \in Streams : \A m \in running[s] : model[m] = "live"
=============================================================================
