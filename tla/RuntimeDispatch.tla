-------------------------- MODULE RuntimeDispatch --------------------------
(***************************************************************************)
(* The generated dispatch (scripts/generate_public_headers.py), what the   *)
(* backends' runtimes answer behind it, and programs that live with the    *)
(* answers.                                                                *)
(*                                                                         *)
(* A call goes to the backend that its thread has selected.  Backends do   *)
(* not all support every call, and a status other than kSuccess is the     *)
(* portable way to find out (docs/backends.md).  So each thread copies     *)
(* asynchronously if it can and otherwise at once, waits by polling an     *)
(* event if there are events and otherwise by synchronising its stream,    *)
(* and frees the memory.  In between it selects backends and devices,      *)
(* directly and with guards, and the devices execute what is queued.       *)
(***************************************************************************)
EXTENDS DeviceGuard

CONSTANTS
  NotReady,      \* kEventNotReady of the accelerator
  VendorError,   \* any other status that the accelerator's runtime returns
  NDEBUG         \* assertions are compiled out

kSuccess == 0
InvalidValue == 1        \* CPU, dispatch, and Unsupported() of the others
MemoryAllocation == 2
Statuses == {kSuccess, InvalidValue, MemoryAllocation, NotReady, VendorError}

ASSUME StatusAssumption ==
  /\ NotReady \in Nat \ {kSuccess, InvalidValue, MemoryAllocation}
  /\ VendorError \in Nat \ {kSuccess, NotReady}
  /\ NDEBUG \in BOOLEAN

VARIABLES
  hasEvents,   \* the accelerator is CUDA-like, and neither Cambricon nor Ascend
  queue,       \* what the accelerator has yet to do in the stream of a thread
  job,         \* what a thread does with its memory, on which backend, and
               \* the status that it has yet to look at
  aborted      \* an assertion has failed

callVars == <<hasEvents, queue, job, aborted>>
allVars == <<vars, callVars>>

Stages == {"idle", "held", "copied", "waiting", "asked", "blind", "done"}
Job(stage, of, status) == [stage |-> stage, of |-> of, status |-> status]
Idle == Job("idle", DefaultType, kSuccess)

DispatchInit ==
  /\ Init
  /\ hasEvents \in BOOLEAN
  /\ aclInit = "unset" => ~hasEvents
  /\ queue = [t \in Threads |-> << >>]
  /\ job = [t \in Threads |-> Idle]
  /\ aborted = FALSE

-----------------------------------------------------------------------------
\* What a backend's runtime may answer.

AsyncMemory == {"MallocAsync", "FreeAsync", "MemcpyAsync", "MemsetAsync"}
Events == {"EventCreate", "EventRecord", "EventQuery", "EventSynchronize"}

\* The CPU executes every call before it returns, and refuses those that
\* would have to be executed later.
CpuAnswers(f) ==
  CASE f \in AsyncMemory -> {InvalidValue}
    [] f \in {"Malloc", "EventCreate"} -> {kSuccess, MemoryAllocation}
    [] OTHER             -> {kSuccess}

\* An accelerator's call may fail at any time, and does without a device.
VendorAnswers(t, f) ==
  CASE f \in Events /\ ~hasEvents       -> {InvalidValue}
    [] index[t][Accelerator] = NoDevice -> {VendorError}
    [] OTHER                            -> {kSuccess, VendorError}

\* A backend has a case in the switch of a generated function if its header
\* mentions that function; only the CPU's does not mention all of them.
Captures == {"StreamBeginCapture", "StreamEndCapture", "GraphInstantiate",
             "GraphLaunch", "GraphExecDestroy", "GraphDestroy"}
HasCase(t, f) == type[t] = Accelerator \/ f \notin Captures

\* Runtime<type>::f of the selected type, its status cast to Error; without
\* a case, a failed assertion or, if there are none, InvalidValueError().
Aborts(t, f) == ~HasCase(t, f) /\ ~NDEBUG
Call(t, f) ==
  CASE ~HasCase(t, f)        -> {InvalidValue}
    [] type[t] = Accelerator -> VendorAnswers(t, f)
    [] OTHER                 -> CpuAnswers(f)

\* Runtime<type>::EventQuery.  The CPU's events are points in time that are
\* past; the accelerator's are complete when their stream has come to them.
Queued(t, item) == \E i \in DOMAIN queue[t] : queue[t][i] = item
Pending(t) == Queued(t, "event")
QueryAnswers(t) ==
  IF type[t] = Accelerator /\ hasEvents /\ Pending(t)
  THEN {NotReady, VendorError}
  ELSE Call(t, "EventQuery")

\* IsEventNotReady asks the backend that is selected now, if it has a
\* kEventNotReady, and answers no for every other one.
IsEventNotReadyAny(t, status) == status # kSuccess
IsEventNotReady(t, status) ==
  /\ status # kSuccess
  /\ type[t] = Accelerator /\ hasEvents
  /\ status = NotReady

-----------------------------------------------------------------------------
\* A program's calls.  The handles that it holds belong to one backend, and
\* it uses them while that one is selected.
On(t) == type[t] = job[t].of

Moves(t, stage) == job' = [job EXCEPT ![t].stage = stage]

Jobs == {t \in Threads : job[t].stage # "idle"}

Allocate(t) ==
  /\ job[t].stage = "idle"
  /\ Cardinality(Open) + Cardinality(Jobs) < MaxGuards
  /\ kSuccess \in Call(t, "Malloc")
  /\ job' = [job EXCEPT ![t] = Job("held", type[t], kSuccess)]
  /\ UNCHANGED <<hasEvents, queue, aborted>>

\* May the copy be captured?  The program asks by beginning a capture.
ProbeCapture(t) ==
  /\ job[t].stage = "held" /\ On(t)
  /\ ~Aborts(t, "StreamBeginCapture")
  /\ \E status \in Call(t, "StreamBeginCapture") :
       job' = [job EXCEPT ![t].status = status]
  /\ UNCHANGED <<hasEvents, queue, aborted>>

ProbeAborts(t) ==
  /\ job[t].stage = "held" /\ On(t)
  /\ Aborts(t, "StreamBeginCapture")
  /\ aborted' = TRUE
  /\ UNCHANGED <<hasEvents, queue, job>>

CopyAsync(t) ==
  /\ job[t].stage = "held" /\ On(t)
  /\ kSuccess \in Call(t, "MemcpyAsync")
  /\ queue' = [queue EXCEPT ![t] = Append(@, "copy")]
  /\ Moves(t, "copied")
  /\ UNCHANGED <<hasEvents, aborted>>

\* Memcpy returns when it has copied, or has failed to.
CopyNow(t) ==
  /\ job[t].stage = "held" /\ On(t)
  /\ Call(t, "MemcpyAsync") # {kSuccess}
  /\ Moves(t, "copied")
  /\ UNCHANGED <<hasEvents, queue, aborted>>

\* EventRecord into a stream; on the CPU there is nothing to come behind.
RecordedNowhere(t) == queue[t]
Recorded(t) ==
  IF type[t] = Accelerator THEN Append(queue[t], "event") ELSE queue[t]

RecordEvent(t) ==
  /\ job[t].stage = "copied" /\ On(t)
  /\ kSuccess \in Call(t, "EventCreate") /\ kSuccess \in Call(t, "EventRecord")
  /\ queue' = [queue EXCEPT ![t] = Recorded(t)]
  /\ Moves(t, "waiting")
  /\ UNCHANGED <<hasEvents, aborted>>

RecordFails(t) ==
  /\ job[t].stage = "copied" /\ On(t)
  /\ Call(t, "EventCreate") # {kSuccess} \/ Call(t, "EventRecord") # {kSuccess}
  /\ Moves(t, "blind")
  /\ UNCHANGED <<hasEvents, queue, aborted>>

QueryEvent(t) ==
  /\ job[t].stage = "waiting" /\ On(t)
  /\ \E status \in QueryAnswers(t) :
       job' = [job EXCEPT ![t] = Job("asked", @.of, status)]
  /\ UNCHANGED <<hasEvents, queue, aborted>>

\* The program reads the status it got, wherever it is by now.
Conclusion(t) ==
  CASE job[t].status = kSuccess           -> "done"
    [] IsEventNotReady(t, job[t].status)  -> "waiting"
    [] OTHER                              -> "blind"

Conclude(t) ==
  /\ job[t].stage = "asked"
  /\ job' = [job EXCEPT ![t] = Job(Conclusion(t), @.of, kSuccess)]
  /\ UNCHANGED <<hasEvents, queue, aborted>>

\* StreamSynchronize returns kSuccess when the stream is empty.
Synchronized(t) == type[t] = Accelerator => queue[t] = << >>

StreamSynchronize(t) ==
  /\ job[t].stage \in {"copied", "blind"} /\ On(t)
  /\ kSuccess \in Call(t, "StreamSynchronize")
  /\ Synchronized(t)
  /\ Moves(t, "done")
  /\ UNCHANGED <<hasEvents, queue, aborted>>

Free(t) ==
  /\ job[t].stage = "done" /\ On(t)
  /\ kSuccess \in Call(t, "Free")
  /\ job' = [job EXCEPT ![t] = Idle]
  /\ UNCHANGED <<hasEvents, queue, aborted>>

CallNext(t) ==
  \/ Allocate(t) \/ ProbeCapture(t) \/ ProbeAborts(t)
  \/ CopyAsync(t) \/ CopyNow(t)
  \/ RecordEvent(t) \/ RecordFails(t) \/ QueryEvent(t) \/ Conclude(t)
  \/ StreamSynchronize(t) \/ Free(t)

\* The accelerator executes the next item of a stream.
Execute(t) ==
  /\ queue[t] # << >>
  /\ queue' = [queue EXCEPT ![t] = Tail(@)]
  /\ UNCHANGED <<hasEvents, job, aborted>>

\* Selections and scopes, with one scope less for each job.
Select ==
  /\ Next
  /\ Cardinality(Open') + Cardinality(Jobs) <= MaxGuards
  /\ UNCHANGED callVars

Running ==
  /\ ~aborted
  /\ \/ Select
     \/ OtherCall /\ \E t \in Threads : CallNext(t) \/ Execute(t)

Stopped == aborted /\ UNCHANGED allVars

DispatchNext == Running \/ Stopped

DispatchSpec == DispatchInit /\ [][DispatchNext]_allVars

-----------------------------------------------------------------------------
DispatchTypeOK ==
  /\ hasEvents \in BOOLEAN
  /\ aborted \in BOOLEAN
  /\ queue \in [Threads -> Seq({"copy", "event"})]
  /\ job \in [Threads -> [stage : Stages, of : Backends, status : Statuses]]

\* A program that believes the statuses never frees memory that the device
\* still copies to or from, whichever calls its backend refused and whatever
\* it selected between a call and the next (docs/backends.md:46-47;
\* cpu/runtime_.h:131-204, nvidia/runtime_.h:108-143).
FreedWhenUnused ==
  \A t \in Threads : job[t].stage \in {"idle", "done"} => ~Queued(t, "copy")

\* A poll ends in success only when the event and all that came before it is
\* over, polls again only because the event was pending, and gives up on a
\* pending event only if another backend is selected by then
\* (generate_public_headers.py:589-613).
PollTruthful ==
  [][\A t \in Threads : job[t].stage = "asked" /\ job'[t].stage # "asked" =>
       /\ job'[t].stage = "done" => ~Pending(t) /\ ~Queued(t, "copy")
       /\ job'[t].stage = "waiting" => job[t].status = NotReady
       /\ job[t].status = NotReady /\ job'[t].stage = "blind" => ~On(t)]_allVars

\* Whatever backend is selected, a graph function returns: a status that is
\* not kSuccess if the backend has no graphs (docs/api/runtime.md:170-172,
\* docs/backends.md:46-47).  The code says otherwise.
GraphCallsReturn == ~aborted
=============================================================================
