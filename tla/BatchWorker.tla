---------------------------- MODULE BatchWorker ----------------------------
(* The background batch worker (src/src/exporter/batch.rs) and the bounded  *)
(* channel it reads.  Its `select!` is biased: a pass polls the shutdown    *)
(* receiver, then the channel, then the ticker, so a pass is three actions  *)
(* and other tasks may run between two of them.  An export starts in one    *)
(* action and ends in another; while it runs the worker polls nothing.      *)
(* Module Pipeline adds senders, shutdown callers and the drop of the       *)
(* pipeline, and closes the system.                                         *)
EXTENDS Naturals, Sequences, Functions

CONSTANTS
  Spans,     \* the finished spans the program hands to Pipeline::send
  Capacity,  \* capacity of the mpsc channel (2048 in the code)
  MaxBatch   \* config.max_export_batch_size; zero is a legal Config value

ASSUME CapacityAssumption == Capacity \in Nat \ {0}
ASSUME MaxBatchAssumption == MaxBatch \in Nat

VARIABLES
  channel,            \* spans buffered in the mpsc channel, oldest first
  rx_open,            \* FALSE once the receiver is closed or dropped
  sender,             \* TRUE while the pipeline's mpsc::Sender is alive
  signal,             \* the oneshot: "none", "held", "sent" or "dropped"
  phase,              \* control state of BatchWorker::run
  batch,              \* spans accumulated for the next export
  exporting,          \* the batch inside Exporter::export, if one runs
  has_pending_batch,  \* the local flag that arms the ticker branch
  ticker,             \* "running", or "due" once a full period has passed
  span,               \* the fate of every span
  handed,             \* history: spans handed to the exporter, in order
  aged                \* history: schedule_delay passed since `batch` began

exports    == <<batch, exporting, handed>>
timing     == <<has_pending_batch, ticker, aged>>
workerVars == <<channel, rx_open, phase, exports, timing, span>>

-----------------------------------------------------------------------------

Polling   == {"pollShutdown", "pollRecv", "pollTick"}
Exporting == {"loopExport", "drainExport", "lastExport"}
Running   == Polling \cup Exporting \cup {"drain"}
Phases    == Running \cup {"absent", "done", "dead"}

\* "ignored": send saw an inactive pipeline; "dropped": try_send failed and
\* was counted; "failed": its export returned an error; "discarded": the
\* worker died with it, in its hands or in the channel.
Settled == {"exported", "failed", "discarded"}
Fates   == {"open", "checked", "ignored", "dropped", "accepted"} \cup Settled

\* The spans in the hands of the worker or waiting in its channel.
InFlight == Range(exporting) \cup Range(batch) \cup Range(channel)

\* Mutant: the size test is off by one.
FullOffByOne(b) == Len(b) > MaxBatch

Full(b) == Len(b) >= MaxBatch

-----------------------------------------------------------------------------

\* Mutant: the batch is handed over without being taken.
StartExportKeepsBatch(b, p) ==
  exporting' = b /\ handed' = handed \o b /\ batch' = b /\ phase' = p

\* Hand a batch to the exporter; phase p waits for the answer.
StartExport(b, p) ==
  exporting' = b /\ handed' = handed \o b /\ batch' = <<>> /\ phase' = p

\* A span was received: flush a full batch at once, in phase p, or go on to q.
Push(s, p, q) ==
  LET b == Append(batch, s) IN
  IF Full(b) THEN StartExport(b, p)
             ELSE batch' = b /\ phase' = q /\ UNCHANGED <<exporting, handed>>

\* drain_and_flush begins: rx.close() makes every later send fail.
StartDrain == phase' = "drain" /\ rx_open' = FALSE

\* First branch: the oneshot was signalled, or its sending half was dropped.
PollShutdown ==
  /\ phase = "pollShutdown"
  /\ IF signal = "held" THEN phase' = "pollRecv" /\ UNCHANGED rx_open
                        ELSE StartDrain
  /\ UNCHANGED <<channel, exports, timing, span>>

\* Mutants: the first span of a batch does not arm the ticker branch, or does
\* not reset the ticker.
ArmForgetsFlag  == ticker' = "running" /\ UNCHANGED has_pending_batch
ArmForgetsReset == has_pending_batch' = TRUE /\ UNCHANGED ticker

ArmTicker == has_pending_batch' = TRUE /\ ticker' = "running"

\* Second branch, recv() gave a span.
Recv ==
  /\ phase = "pollRecv" /\ channel # <<>>
  /\ channel' = Tail(channel)
  /\ IF batch = <<>> THEN ArmTicker /\ aged' = FALSE ELSE UNCHANGED timing
  /\ Push(Head(channel), "loopExport", "pollShutdown")
  /\ UNCHANGED <<rx_open, span>>

\* recv() gives None: nothing is left, and nothing more can come.
Exhausted == channel = <<>> /\ (~sender \/ ~rx_open)

\* Second branch, recv() gave None: every sender is gone.
RecvNone ==
  /\ phase = "pollRecv" /\ Exhausted
  /\ StartDrain
  /\ UNCHANGED <<channel, exports, timing, span>>

\* Second branch, nothing to receive.
RecvPending ==
  /\ phase = "pollRecv" /\ channel = <<>> /\ ~Exhausted
  /\ phase' = "pollTick"
  /\ UNCHANGED <<channel, rx_open, exports, timing, span>>

\* Third branch: the ticker fired while a batch was pending.
Tick ==
  /\ phase = "pollTick" /\ has_pending_batch /\ ticker = "due"
  /\ ticker' = "running"
  /\ IF batch # <<>>
     THEN StartExport(batch, "loopExport") /\ UNCHANGED has_pending_batch
     ELSE /\ has_pending_batch' = FALSE
          /\ phase' = "pollShutdown"
          /\ UNCHANGED exports
  /\ UNCHANGED <<channel, rx_open, span, aged>>

\* Third branch, disabled or not ready: the task parks until it is woken.
TickPending ==
  /\ phase = "pollTick" /\ ~(has_pending_batch /\ ticker = "due")
  /\ phase' = "pollShutdown"
  /\ UNCHANGED <<channel, rx_open, exports, timing, span>>

\* drain_and_flush: one turn of its loop.
DrainRecv ==
  /\ phase = "drain" /\ channel # <<>>
  /\ channel' = Tail(channel)
  /\ Push(Head(channel), "drainExport", "drain")
  /\ UNCHANGED <<rx_open, timing, span>>

\* Mutants: the drain forgets its last, partial batch; run does not return
\* once it drained.
DrainNoneForgetsBatch ==
  /\ phase = "drain" /\ Exhausted
  /\ phase' = "done"
  /\ UNCHANGED <<channel, rx_open, exports, timing, span>>
DrainNoneForgetsReturn ==
  /\ phase = "drain" /\ Exhausted
  /\ IF batch # <<>> THEN StartExport(batch, "lastExport")
                     ELSE phase' = "pollShutdown" /\ UNCHANGED exports
  /\ UNCHANGED <<channel, rx_open, timing, span>>

\* drain_and_flush, recv() gave None: the final flush, a no-op if empty.
DrainNone ==
  /\ phase = "drain" /\ Exhausted
  /\ IF batch # <<>> THEN StartExport(batch, "lastExport")
                     ELSE phase' = "done" /\ UNCHANGED exports
  /\ UNCHANGED <<channel, rx_open, timing, span>>

-----------------------------------------------------------------------------

\* Where flush returns to; the main loop lowers its flag after a flush.
Resumed == CASE phase = "loopExport"  -> "pollShutdown"
             [] phase = "drainExport" -> "drain"
             [] phase = "lastExport"  -> "done"

\* Mutant: the flag stays up after a flush.
FlagKept == has_pending_batch

FlagAfterFlush == has_pending_batch /\ phase # "loopExport"

\* Mutant: an export error leaves flush before the batch is settled.
SettleOnSuccess(S, fate) ==
  [s \in Spans |-> IF s \in S /\ fate # "failed" THEN fate ELSE span[s]]

Settle(S, fate) == [s \in Spans |-> IF s \in S THEN fate ELSE span[s]]

\* Exporter::export answers.  A failed batch is dropped and the worker goes on.
ExportReturns(fate) ==
  /\ phase \in Exporting
  /\ span' = Settle(Range(exporting), fate)
  /\ exporting' = <<>>
  /\ phase' = Resumed
  /\ has_pending_batch' = FlagAfterFlush
  /\ UNCHANGED <<channel, rx_open, batch, ticker, handed, aged>>

\* The task ends without returning from run: a panic in an exporter or in
\* time::interval, or the runtime shutting down.  Dropping the receiver
\* closes the channel and drops what it holds.
WorkerDies ==
  /\ phase \in Running
  /\ phase' = "dead"
  /\ rx_open' = FALSE
  /\ span' = Settle(InFlight, "discarded")
  /\ channel' = <<>> /\ batch' = <<>> /\ exporting' = <<>>
  /\ UNCHANGED <<timing, handed>>

\* Tokio's clock: a full schedule_delay passes since the last reset or tick.
ScheduleDelayElapses ==
  /\ phase \in Running /\ ticker = "running"
  /\ ticker' = "due" /\ aged' = TRUE
  /\ UNCHANGED <<channel, rx_open, phase, exports, has_pending_batch, span>>

WorkerStep ==
  \/ PollShutdown \/ Recv \/ RecvNone \/ RecvPending \/ Tick \/ TickPending
  \/ DrainRecv \/ DrainNone

\* BatchWorker::new: nothing polled yet, and an interval's first tick is due.
WorkerInit ==
  /\ channel = <<>> /\ batch = <<>> /\ exporting = <<>> /\ handed = <<>>
  /\ has_pending_batch = FALSE /\ ticker = "due" /\ aged = FALSE
  /\ span = [s \in Spans |-> "open"]
=============================================================================
