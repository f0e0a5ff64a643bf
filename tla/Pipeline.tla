------------------------------ MODULE Pipeline ------------------------------
(* The export pipeline (src/src/pipeline.rs) around its batch worker:       *)
(* threads that call Pipeline::send, tasks that call Pipeline::shutdown,    *)
(* and the drop of the last handle.  send reads `active` in one step and    *)
(* calls try_send in another; shutdown takes the state, clears `active`,    *)
(* signals and waits, a step each, so that all of them may overlap.         *)
EXTENDS BatchWorker

CONSTANTS
  Callers    \* tasks that call Pipeline::shutdown, each at most once

VARIABLES
  active,      \* AtomicBool: send and the middleware test it
  drop_count,  \* AtomicUsize: spans refused by try_send
  shutdown,    \* the Mutex<Option<ShutdownState>>: "none" or "some"
  caller,      \* control state of every shutdown caller
  deadline,    \* "running", or "elapsed" once shutdown_timeout has passed
  accepted     \* history: spans accepted by try_send, in order

handles      == <<sender, signal, shutdown>>
intake       == <<drop_count, accepted>>
calls        == <<caller, deadline>>
pipelineVars == <<handles, active, intake, calls>>
vars         == <<workerVars, pipelineVars>>

\* "noop" found no shutdown state and returned true; "flushed" saw the worker
\* finish and returned true; "panicked" and "timedOut" returned false;
\* "cancelled" was dropped at its await.
Returned == {"noop", "flushed", "panicked", "timedOut", "cancelled"}
Calling  == {"took", "inactive", "joining", "timing"}

-----------------------------------------------------------------------------

\* from_config with an enabled config, a usable exporter and a runtime.
Spawned ==
  /\ phase = "pollShutdown" /\ rx_open = TRUE /\ active = TRUE
  /\ sender = TRUE /\ signal = "held" /\ shutdown = "some"

\* from_config without one of them: no worker, never active.
NotSpawned ==
  /\ phase = "absent" /\ rx_open = FALSE /\ active = FALSE
  /\ sender = FALSE /\ signal = "none" /\ shutdown = "none"

Init ==
  /\ WorkerInit
  /\ Spawned \/ NotSpawned
  /\ drop_count = 0 /\ accepted = <<>>
  /\ caller = [c \in Callers |-> "idle"] /\ deadline = "running"

\* Some handle to the pipeline is left, so calls can be made.
Alive == sender \/ phase = "absent"

-----------------------------------------------------------------------------

\* `if !self.is_enabled() { return; }`: the span vanishes uncounted.
SendChecksActive(s) ==
  /\ Alive /\ span[s] = "open"
  /\ span' = [span EXCEPT ![s] = IF active THEN "checked" ELSE "ignored"]
  /\ UNCHANGED <<channel, rx_open, phase, exports, timing, pipelineVars>>

\* Mutants: an unbounded channel, and one that accepts after close().
AcceptsUnbounded == rx_open
AcceptsClosed    == Len(channel) < Capacity

Accepts == rx_open /\ Len(channel) < Capacity

\* try_send fails on a full and on a closed channel; both are counted.
TrySend(s) ==
  /\ span[s] = "checked"
  /\ IF Accepts
     THEN /\ channel' = Append(channel, s)
          /\ accepted' = Append(accepted, s)
          /\ span' = [span EXCEPT ![s] = "accepted"]
          /\ UNCHANGED drop_count
     ELSE /\ drop_count' = drop_count + 1
          /\ span' = [span EXCEPT ![s] = "dropped"]
          /\ UNCHANGED <<channel, accepted>>
  /\ UNCHANGED <<rx_open, phase, exports, timing, handles, active, calls>>

-----------------------------------------------------------------------------

Goto(c, state) == caller' = [caller EXCEPT ![c] = state]

\* Mutant: the state is looked at and not taken.
ShutdownPeeks(c) ==
  /\ Alive /\ caller[c] = "idle"
  /\ Goto(c, IF shutdown = "some" THEN "took" ELSE "noop")
  /\ UNCHANGED <<workerVars, handles, active, intake, deadline>>

\* Take the state out of the mutex; a later call returns true at once.
ShutdownTakes(c) ==
  /\ Alive /\ caller[c] = "idle"
  /\ Goto(c, IF shutdown = "some" THEN "took" ELSE "noop")
  /\ shutdown' = "none"
  /\ UNCHANGED <<workerVars, sender, signal, active, intake, deadline>>

ShutdownStoresInactive(c) ==
  /\ caller[c] = "took" /\ Goto(c, "inactive")
  /\ active' = FALSE
  /\ UNCHANGED <<workerVars, handles, intake, deadline>>

\* The error of a worker that is gone already is ignored.
ShutdownSignals(c) ==
  /\ caller[c] = "inactive" /\ Goto(c, "joining")
  /\ signal' = "sent"
  /\ UNCHANGED <<workerVars, sender, shutdown, active, intake, deadline>>

\* timeout(..) polls the join handle first ...
ShutdownPollsWorker(c) ==
  /\ caller[c] = "joining"
  /\ Goto(c, CASE phase = "done" -> "flushed"
               [] phase = "dead" -> "panicked"
               [] OTHER          -> "timing")
  /\ UNCHANGED <<workerVars, handles, active, intake, deadline>>

\* Mutant: shutdown awaits the worker without a timeout.
NeverElapses == FALSE

Elapsed == deadline = "elapsed"

\* ... and then its timer; on expiry the worker runs on, detached.
ShutdownPollsTimer(c) ==
  /\ caller[c] = "timing"
  /\ Goto(c, IF Elapsed THEN "timedOut" ELSE "joining")
  /\ UNCHANGED <<workerVars, handles, active, intake, deadline>>

\* The caller drops the future at its only await point.
ShutdownCancelled(c) ==
  /\ caller[c] \in {"joining", "timing"} /\ Goto(c, "cancelled")
  /\ UNCHANGED <<workerVars, handles, active, intake, deadline>>

\* Tokio's clock: shutdown_timeout passes since the wait began.
DeadlineElapses ==
  /\ \E c \in Callers : caller[c] \in {"joining", "timing"}
  /\ deadline = "running" /\ deadline' = "elapsed"
  /\ UNCHANGED <<workerVars, handles, active, intake, caller>>

\* The last handle is dropped when no call borrows the pipeline.  Its fields
\* go in declaration order: the sender, then the shutdown state.
DropSender ==
  /\ sender
  /\ \A s \in Spans : span[s] # "checked"
  /\ \A c \in Callers : caller[c] \notin Calling
  /\ sender' = FALSE
  /\ UNCHANGED <<workerVars, signal, shutdown, active, intake, calls>>

DropShutdownState ==
  /\ ~sender /\ shutdown = "some"
  /\ shutdown' = "none" /\ signal' = "dropped"
  /\ UNCHANGED <<workerVars, sender, active, intake, calls>>

-----------------------------------------------------------------------------

Send == \E s \in Spans : SendChecksActive(s) \/ TrySend(s)

Shutdown ==
  \E c \in Callers :
     \/ ShutdownTakes(c) \/ ShutdownStoresInactive(c) \/ ShutdownSignals(c)
     \/ ShutdownPollsWorker(c) \/ ShutdownPollsTimer(c)
     \/ ShutdownCancelled(c)

AnyExportReturns == \E fate \in {"exported", "failed"} : ExportReturns(fate)

Worker ==
  /\ WorkerStep \/ AnyExportReturns \/ WorkerDies \/ ScheduleDelayElapses
  /\ UNCHANGED pipelineVars

Next ==
  Send \/ Shutdown \/ DeadlineElapses \/ DropSender \/ DropShutdownState
       \/ Worker

Spec == Init /\ [][Next]_vars
=============================================================================
