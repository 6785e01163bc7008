------------------------------ MODULE LinuxCapture ------------------------------
(***************************************************************************)
(* LinuxCaptureRuntime (crates/capture-linux/src/lib.rs): a bridge that is  *)
(* planned only, and a catalog that is read from a child process.  start()  *)
(* blocks while the child writes its listing into a pipe; the parent polls  *)
(* for its end, reads the pipe only then, and gives up after a timeout.     *)
(***************************************************************************)
EXTENDS CaptureEvents

CONSTANTS
  PipeCapacity,  \* what fits into the pipe
  MaxListing,    \* bound: how much a child has to write, in the same unit
  MaxPending     \* bound: events pending when stop() is called

VARIABLES
  status, active, pending,  \* the runtime: status, active_source_id, pending_events
  batch,                    \* what poll_events() has just returned, <<>> after any other step
  bridgeSource,             \* the bridge's active_source_id
  call,                     \* the source start() is about to start, or NoSource
  child                     \* the child process it waits for, or NoChild

runtimeVars == <<status, active, pending, bridgeSource>>
vars == <<runtimeVars, batch, call, child>>

Children == [left : 0..MaxListing, pipe : 0..PipeCapacity, exited : BOOLEAN, ok : BOOLEAN]
NewChild(size) == [left |-> size, pipe |-> 0, exited |-> FALSE, ok |-> FALSE]
NoChild == [NewChild(0) EXCEPT !.exited = TRUE]

\* LinuxCaptureRuntime::default
Init ==
  /\ status = "stopped" /\ active = NoSource /\ pending = <<>> /\ batch = <<>>
  /\ bridgeSource = NoSource /\ call = NoSource /\ child = NoChild
-----------------------------------------------------------------------------
\* The child writes, waits for room in the pipe, and exits when it is done.
ChildWrites ==
  /\ ~child.exited /\ child.left > 0 /\ child.pipe < PipeCapacity
  /\ child' = [child EXCEPT !.left = @ - 1, !.pipe = @ + 1]
  /\ batch' = <<>> /\ UNCHANGED <<runtimeVars, call>>

ChildExits ==
  /\ ~child.exited
  /\ child' \in {[child EXCEPT !.exited = TRUE, !.ok = ok] : ok \in {child.left = 0, FALSE}}
  /\ batch' = <<>> /\ UNCHANGED <<runtimeVars, call>>

\* start, up to the child it waits for
Start(source) ==
  /\ call = NoSource
  /\ pending' = <<>> /\ active' = source /\ call' = source
  /\ child' \in {NewChild(size) : size \in 0..MaxListing} \cup {NoChild}
  /\ batch' = <<>> /\ UNCHANGED <<status, bridgeSource>>

\* start_native_bridge and the bridge's start
BridgeStarts ==
  /\ bridgeSource' = call
  /\ pending' = <<Event("started", call), StatusChanged(call, "failed")>>
  /\ status' = StatusAfterAll("starting", pending')

\* plan_runtime_start, with a catalog that is granted exactly if it was listed
Planned(listed) ==
  /\ CASE call \notin Offered(listed) ->
            status' = "failed" /\ pending' = <<Event("error", call)>> /\ UNCHANGED bridgeSource
       [] call \in Offered(listed) /\ listed = {} ->
            /\ status' = "permissionrequired"
            /\ pending' = <<StatusChanged(call, "permissionrequired")>>
            /\ UNCHANGED bridgeSource
       [] call \in Offered(listed) /\ listed # {} -> BridgeStarts
  /\ call' = NoSource /\ child' = NoChild
  /\ batch' = <<>> /\ UNCHANGED active

\* enumerate_runtime_sources: the listing of a child that has exited.
Collect ==
  /\ call # NoSource /\ child.exited
  /\ \E listed \in IF child.ok /\ child.pipe > 0 THEN SUBSET NativeSources ELSE {{}} :
       Planned(listed)

MayTimeOut == ~child.exited

\* command_output_with_timeout gives up and kills the child.
TimeOut == call # NoSource /\ MayTimeOut /\ Planned({})

PollEvents ==
  /\ call = NoSource
  /\ batch' = pending /\ pending' = <<>>
  /\ status' = StatusAfterAll(status, pending)
  /\ UNCHANGED <<active, bridgeSource, call, child>>

Stop ==
  /\ call = NoSource /\ Len(pending) < MaxPending
  /\ active' = NoSource
  /\ bridgeSource' = IF active = NoSource THEN NoSource ELSE bridgeSource
  /\ status' = "stopped"
  /\ pending' = Append(pending, Event("stopped", IF active # NoSource THEN active ELSE bridgeSource))
  /\ batch' = <<>> /\ UNCHANGED <<call, child>>

Replace ==
  /\ call = NoSource
  /\ status' = "stopped" /\ active' = NoSource /\ pending' = <<>> /\ batch' = <<>>
  /\ bridgeSource' = NoSource
  /\ UNCHANGED <<call, child>>

Next ==
  \/ \E source \in SourceIds : Start(source)
  \/ Collect \/ TimeOut \/ PollEvents \/ Stop \/ Replace
  \/ ChildWrites \/ ChildExits
-----------------------------------------------------------------------------
TypeOK ==
  /\ status \in Statuses /\ active \in SourceIds \cup {NoSource}
  /\ pending \in Seq(Events) /\ batch \in Seq(Events)
  /\ bridgeSource \in SourceIds \cup {NoSource} /\ call \in SourceIds \cup {NoSource}
  /\ child \in Children

\* Nothing runs behind this bridge, and its status never says so to a caller.
StatusTellsTruth == status \notin {"starting", "running"}

\* start() returns, also if the child hangs or waits for room in the pipe.
StartReturns == call # NoSource ~> call = NoSource
=============================================================================
