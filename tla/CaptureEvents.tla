----------------------------- MODULE CaptureEvents -----------------------------
(***************************************************************************)
(* The events a capture runtime reports and the status it derives from      *)
(* them: crates/capture-core/src/lib.rs, and what both runtimes make of it. *)
(***************************************************************************)
EXTENDS Integers, Sequences

CONSTANTS
  NativeSources,  \* ids of windows and displays that exist
  Examples,       \* ids of the example sources of a blueprint
  NoSource        \* None

ASSUME SourcesAssumption ==
  NativeSources \cap Examples = {} /\ NoSource \notin NativeSources \cup Examples

SourceIds == NativeSources \cup Examples
Statuses ==
  {"starting", "running", "stopped", "permissionrequired", "permissiondenied", "failed"}
Samples == {"video", "audio"}

\* "status" is that of StatusChanged, the kind of the event otherwise.
Event(kind, source) == [kind |-> kind, source |-> source, status |-> kind]
StatusChanged(source, status) == [kind |-> "statuschanged", source |-> source, status |-> status]

Events ==
  [kind : {"started", "statuschanged", "stopped", "error"} \cup Samples,
   source : SourceIds \cup {NoSource},
   status : Statuses \cup {"started", "error"} \cup Samples]

\* apply_event_status
StatusAfter(status, event) ==
  CASE event.kind = "started"       -> IF status = "starting" THEN "running" ELSE status
    [] event.kind = "statuschanged" -> event.status
    [] event.kind = "stopped"       -> "stopped"
    [] event.kind = "error"         -> "failed"
    [] event.kind \in Samples       -> status

\* The status after all of the events, in their order.
StatusAfterAll(status, events) ==
  LET after[i \in 0..Len(events)] ==
        IF i = 0 THEN status ELSE StatusAfter(after[i - 1], events[i])
  IN after[Len(events)]

\* A catalog whose listing failed or was empty offers the example sources.
Offered(listed) == IF listed = {} THEN Examples ELSE listed
=============================================================================
