---------------------------- MODULE CaptureBackends ----------------------------
(***************************************************************************)
(* The capture runtime the application is built with:                       *)
(* new_capture_runtime in crates/app-core/src/capture_catalog.rs.           *)
(***************************************************************************)
EXTENDS CaptureEvents

CONSTANTS AudioLimit, MaxCaptures, MaxPending, PipeCapacity, MaxListing

ASSUME AudioLimitAssumption == AudioLimit \in Nat \ {0}
ASSUME BoundsAssumption == {MaxCaptures, MaxPending, PipeCapacity, MaxListing} \subseteq Nat

VARIABLES
  platform,                                      \* the target_os of the build
  status, active, pending, batch, bridgeSource,  \* of either runtime
  handle, object,                                \* of MacCapture
  call, child                                    \* of LinuxCapture

macVars   == <<handle, object>>
linuxVars == <<call, child>>
vars == <<platform, status, active, pending, batch, bridgeSource, macVars, linuxVars>>

Mac   == INSTANCE MacCapture
Linux == INSTANCE LinuxCapture

Init == platform \in {"macos", "linux"} /\ Mac!Init /\ Linux!Init

Next ==
  /\ UNCHANGED platform
  /\ \/ platform = "macos" /\ Mac!Next /\ UNCHANGED linuxVars
     \/ platform = "linux" /\ Linux!Next /\ UNCHANGED macVars

Spec == Init /\ [][Next]_vars
FairSpec ==
  /\ Spec
  /\ WF_vars(platform = "macos" /\ Mac!PollEvents /\ UNCHANGED <<platform, linuxVars>>)
  /\ \A n \in 1..MaxCaptures :
       WF_vars(platform = "macos" /\ Mac!TimerFires(n) /\ UNCHANGED <<platform, linuxVars>>)
  /\ WF_vars(platform = "linux" /\ Linux!Collect /\ UNCHANGED <<platform, macVars>>)
  /\ WF_vars(platform = "linux" /\ Linux!TimeOut /\ UNCHANGED <<platform, macVars>>)
-----------------------------------------------------------------------------
\* A runtime says that it starts or runs exactly while it holds a stream.
StatusTellsTruth ==
  /\ platform = "macos" => Mac!StatusTellsTruth
  /\ platform = "linux" => Linux!StatusTellsTruth

\* A stream that starts or captures belongs to the bridge or has been told to stop
\* since it does; only one that was destroyed before its start completed was told
\* to stop too early and cannot be told again (screen_capture.m:274 and 322).
StreamHasOwner == platform = "macos" => Mac!StreamHasOwner

\* The samples polled of a source follow its Started, and nothing of an earlier
\* start is among them.
SamplesFollowStart == Mac!SamplesFollowStart

\* A stream that is started runs, fails or is stopped in the end, also if
\* ScreenCaptureKit never answers; and starting on Linux returns, also if the
\* child process hangs.
StartIsDecided == Mac!StartIsDecided /\ Linux!StartReturns
=============================================================================
