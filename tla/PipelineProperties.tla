------------------------- MODULE PipelineProperties -------------------------
(***************************************************************************)
(* What must hold of the export pipeline: invariants, action properties,   *)
(* liveness under the fairness of the runtime, and the refinement of       *)
(* SpanDelivery.                                                           *)
(***************************************************************************)
EXTENDS Pipeline

\* The types of the variables, with the bounds the code gives them: the
\* channel never exceeds its capacity and no export exceeds the batch limit.
TypeOK ==
  /\ channel \in Seq(Spans) /\ Len(channel) <= Capacity
  /\ batch \in Seq(Spans)
  /\ exporting \in Seq(Spans)
  /\ handed \in Seq(Spans)
  /\ accepted \in Seq(Spans)
  /\ rx_open \in BOOLEAN /\ sender \in BOOLEAN /\ active \in BOOLEAN
  /\ has_pending_batch \in BOOLEAN /\ aged \in BOOLEAN
  /\ signal \in {"none", "held", "sent", "dropped"}
  /\ phase \in Phases
  /\ ticker \in {"running", "due"}
  /\ span \in [Spans -> Fates]
  /\ drop_count \in Nat
  /\ shutdown \in {"none", "some"}
  /\ caller \in [Callers -> {"idle"} \cup Calling \cup Returned]
  /\ deadline \in {"running", "elapsed"}

\* A batch of zero spans per export still exports one span at a time.
BatchLimit == IF MaxBatch = 0 THEN 1 ELSE MaxBatch

\* Nothing overtakes, is lost or is duplicated between try_send and export:
\* what was handed to the exporter, what waits in the batch and what waits in
\* the channel are, in that order, the spans accepted so far.  A worker that
\* died handed over a prefix of them.
FifoConservation ==
  /\ phase # "dead" => accepted = handed \o batch \o channel
  /\ handed = SubSeq(accepted, 1, Len(handed))

\* A span counts as accepted exactly while it is in the channel, in the batch
\* or inside an export: no path forgets one and none keeps one after settling.
AcceptedIffInFlight == {s \in Spans : span[s] = "accepted"} = InFlight

\* The ticker branch is armed exactly while there is something to flush, at
\* each point where the worker may park; a batch with the flag down would wait
\* for ever, and a flag without a batch would wake the task for nothing.
PendingIffBatch ==
  phase \in Polling => (has_pending_batch <=> batch # <<>>)

\* The exporter is only ever given non-empty batches of at most
\* max_export_batch_size spans (exporter/mod.rs:50), in the drain as well.
ExportSized ==
  /\ phase \in Exporting => Len(exporting) \in 1..BatchLimit
  /\ phase \notin Exporting => exporting = <<>>

\* A shutdown call that waited for the worker and reports true has stopped the
\* intake and left nothing behind: every span accepted before or during the
\* call has had its export answered.
FlushedMeansDrained ==
  \A c \in Callers : caller[c] = "flushed" =>
     /\ ~rx_open
     /\ \A s \in Spans : span[s] \notin {"accepted", "discarded"}

\* Pipeline::shutdown documents "Returns `true` if everything flushed within
\* config.shutdown_timeout" (pipeline.rs:143) for every call.  It does not hold:
\* the second of two overlapping calls finds the state taken and returns true
\* while the first still waits for the worker.
TrueMeansFlushed ==
  \A c \in Callers : caller[c] \in {"noop", "flushed"} => \A s \in Spans : span[s] # "accepted"

\* Only one caller ever owns the shutdown state, so one at most waits on the
\* worker, and the oneshot is signalled only after `active` was cleared.
OneShutdownOwner ==
  /\ \A c, d \in Callers :
       caller[c] \notin {"idle", "noop"} /\ caller[d] \notin {"idle", "noop"}
         => c = d
  /\ signal = "sent" => ~active

\* An export of a batch that is not full starts only when schedule_delay has
\* passed since the batch's first span, or when the channel is closed and
\* empty: a stale ticker never flushes a young batch.
PartialExportJustified ==
  [][ exporting = <<>> /\ exporting' # <<>> /\ Len(exporting') < BatchLimit
        => \/ aged /\ has_pending_batch
           \/ ~rx_open /\ channel = <<>> ]_vars

-----------------------------------------------------------------------------
(* The inductive invariant.                                                *)

\* A worker that drains or has stopped takes nothing in; a worker that has
\* stopped holds nothing; an export holds the only partial batch there is.
WorkerControl ==
  /\ phase \notin Polling \cup {"loopExport"} => ~rx_open
  /\ phase \in {"absent", "done", "dead", "lastExport"} => channel = <<>>
  /\ phase \notin Polling \cup {"drain"} => batch = <<>>
  /\ batch # <<>> => ~Full(batch)
  /\ phase \in Polling /\ has_pending_batch /\ ticker = "due" => aged

\* The shutdown state is still there only if no call found it; `active` is
\* cleared before the signal goes out; a flushed call saw the worker finish,
\* and spans are only discarded by a worker that died.
CallControl ==
  /\ shutdown = "some" => \A c \in Callers : caller[c] = "idle"
  /\ \A c \in Callers : caller[c] \notin {"idle", "noop", "took"} => ~active
  /\ \A c \in Callers : caller[c] = "flushed" => phase = "done"
  /\ \A s \in Spans : span[s] = "discarded" => phase = "dead"

\* The spans accepted and not settled, oldest first; each is there once.
Queue == exporting \o batch \o channel

QueueDistinct ==
  \A i, j \in 1..Len(Queue) : Queue[i] = Queue[j] => i = j

ControlInv ==
  TypeOK /\ WorkerControl /\ CallControl /\ PendingIffBatch /\ ExportSized
         /\ OneShutdownOwner

IInv ==
  /\ ControlInv
  /\ FifoConservation
  /\ AcceptedIffInFlight
  /\ QueueDistinct

-----------------------------------------------------------------------------
(* Fairness and liveness.                                                  *)

\* The runtime polls a task that is ready.
WorkerFairness ==
  WF_vars(WorkerStep /\ UNCHANGED pipelineVars)

\* An export is over after three attempts of at most ten seconds each.
ExportFairness ==
  WF_vars(AnyExportReturns /\ UNCHANGED pipelineVars)

\* Time passes.
ClockFairness ==
  /\ WF_vars(ScheduleDelayElapses /\ UNCHANGED pipelineVars)
  /\ WF_vars(DeadlineElapses)

\* A call that has begun is carried on: threads and tasks are scheduled.
CallFairness ==
  /\ \A s \in Spans : WF_vars(TrySend(s))
  /\ \A c \in Callers :
       /\ WF_vars(ShutdownStoresInactive(c))
       /\ WF_vars(ShutdownSignals(c))
       /\ WF_vars(ShutdownPollsWorker(c))
       /\ WF_vars(ShutdownPollsTimer(c))

\* An exporter may hang for ever: what needs it to answer says so.
FairSpec ==
  /\ Spec
  /\ WorkerFairness /\ ClockFairness /\ CallFairness
  /\ WF_vars(DropShutdownState)

\* If exports come to an end, every accepted span is eventually exported or
\* accounted for as lost: a partial batch does not wait for ever for the spans
\* that would fill it (the schedule tick of batch.rs).
AcceptedSettles ==
  ExportFairness =>
    \A s \in Spans : span[s] = "accepted" ~> span[s] \in Settled

\* If exports come to an end, dropping the last handle is enough to stop the
\* worker, with nothing left (the closed channel of batch.rs).
DropStopsWorker ==
  ExportFairness =>
    (~sender ~> phase \in {"absent", "done", "dead"} /\ InFlight = {})

\* shutdown() returns, by its deadline at the latest, even while an export
\* hangs for ever.
ShutdownReturns ==
  \A c \in Callers : caller[c] \in Calling ~> caller[c] \in Returned

-----------------------------------------------------------------------------
(* The pipeline implements SpanDelivery.                                   *)

Delivery == INSTANCE SpanDelivery WITH
  MaxGroup <- BatchLimit,
  fate     <- [s \in Spans |-> IF span[s] = "checked" THEN "open" ELSE span[s]],
  queue    <- Queue,
  open     <- rx_open,
  refused  <- drop_count,
  answer   <- [c \in Callers |-> IF caller[c] \in Returned THEN caller[c]
                                                          ELSE "none"]

\* Refinement: every step of senders, worker and shutdown callers is a step of
\* the delivery contract or a stutter.
ImplementsDelivery == Delivery!Spec
=============================================================================
