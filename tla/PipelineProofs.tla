--------------------------- MODULE PipelineProofs ---------------------------
(* Proofs about the export pipeline, for every set of spans and callers,    *)
(* every capacity and every batch limit.                                    *)
EXTENDS PipelineProperties, SequenceTheorems, TLAPS

USE CapacityAssumption, MaxBatchAssumption

-----------------------------------------------------------------------------
(* Type correctness.                                                        *)

\* Handing a batch to the exporter keeps the batch, the export and the history
\* typed.
LEMMA ExportType ==
  ASSUME TypeOK, NEW b \in Seq(Spans), NEW p \in Phases, StartExport(b, p)
  PROVE  /\ batch' \in Seq(Spans) /\ exporting' \in Seq(Spans)
         /\ handed' \in Seq(Spans) /\ phase' \in Phases
<1>1. handed \o b \in Seq(Spans) BY ConcatProperties DEF TypeOK
<1> QED BY <1>1, EmptySeq DEF StartExport

\* Pushing a received span keeps the batch, the export and the history typed.
LEMMA PushType ==
  ASSUME TypeOK, NEW s \in Spans,
         NEW p \in Phases, NEW q \in Phases, Push(s, p, q)
  PROVE  /\ batch' \in Seq(Spans) /\ exporting' \in Seq(Spans)
         /\ handed' \in Seq(Spans) /\ phase' \in Phases
<1> DEFINE b == Append(batch, s)
<1>1. b \in Seq(Spans) BY AppendProperties DEF TypeOK
<1>2. CASE Full(b)
  <2>1. StartExport(b, p) BY <1>2 DEF Push
  <2> QED BY <1>1, <2>1, ExportType
<1>3. CASE ~Full(b)
  <2>1. batch' = b /\ phase' = q /\ UNCHANGED <<exporting, handed>>
    BY <1>3 DEF Push
  <2> QED BY <1>1, <2>1 DEF TypeOK
<1> QED BY <1>2, <1>3

\* Taking the head of a channel that is not empty.
LEMMA HeadTail ==
  ASSUME TypeOK, channel # <<>>
  PROVE  /\ Head(channel) \in Spans
         /\ Tail(channel) \in Seq(Spans)
         /\ Len(Tail(channel)) <= Capacity
BY DEF TypeOK

\* The initial states are well typed.
LEMMA TypeInit == Init => TypeOK
<1> SUFFICES ASSUME Init PROVE TypeOK
  OBVIOUS
<1>1. <<>> \in Seq(Spans) /\ Len(<<>>) <= Capacity
  BY EmptySeq
<1>2. WorkerInit /\ (Spawned \/ NotSpawned) BY DEF Init
<1>3. /\ rx_open \in BOOLEAN /\ sender \in BOOLEAN /\ active \in BOOLEAN
      /\ signal \in {"none", "held"} /\ shutdown \in {"none", "some"}
      /\ phase \in {"pollShutdown", "absent"}
  BY <1>2 DEF Spawned, NotSpawned
<1> QED
  BY <1>1, <1>2, <1>3 DEF Init, WorkerInit, TypeOK, Phases, Running, Polling,
                          Fates

\* Every step of a sender keeps the types.
LEMMA TypeSend == TypeOK /\ Send => TypeOK'
<1> SUFFICES ASSUME TypeOK, NEW s \in Spans,
                    SendChecksActive(s) \/ TrySend(s)
             PROVE  TypeOK'
  BY DEF Send
<1>1. CASE SendChecksActive(s)
  <2>1. /\ span' = [span EXCEPT ![s] = IF active THEN "checked"
                                               ELSE "ignored"]
        /\ UNCHANGED <<channel, rx_open, phase, batch, exporting, handed,
                       has_pending_batch, ticker, aged>>
        /\ UNCHANGED <<sender, signal, shutdown, active, drop_count,
                       accepted, caller, deadline>>
    BY <1>1 DEF SendChecksActive, exports, timing, pipelineVars, handles,
                intake, calls
  <2> QED BY <2>1 DEF TypeOK, Fates
<1>2. CASE TrySend(s) /\ Accepts
  <2>1. /\ Append(channel, s) \in Seq(Spans)
        /\ Len(Append(channel, s)) = Len(channel) + 1
        /\ Append(accepted, s) \in Seq(Spans)
    BY AppendProperties DEF TypeOK
  <2>2. Len(channel) \in Nat /\ Len(channel) < Capacity
    BY <1>2, LenProperties DEF Accepts, TypeOK
  <2>3. channel' = Append(channel, s) /\ accepted' = Append(accepted, s)
    BY <1>2 DEF TrySend
  <2>4. /\ channel' \in Seq(Spans) /\ Len(channel') <= Capacity
        /\ accepted' \in Seq(Spans)
    BY <2>1, <2>2, <2>3
  <2> QED
    BY <1>2, <2>4, ZenonT(30) DEF TrySend, TypeOK, Fates, exports, timing, handles, calls
<1>3. CASE TrySend(s) /\ ~Accepts
  BY <1>3 DEF TrySend, TypeOK, Fates, exports, timing, handles, calls
<1> QED BY <1>1, <1>2, <1>3

\* Every step of a shutdown call, its deadline and the drop keep the types.
LEMMA TypeCall ==
  TypeOK /\ (Shutdown \/ DeadlineElapses \/ DropSender \/ DropShutdownState)
    => TypeOK'
<1> SUFFICES ASSUME TypeOK,
                    Shutdown \/ DeadlineElapses \/ DropSender
                             \/ DropShutdownState
             PROVE  TypeOK'
  OBVIOUS
<1> USE DEF TypeOK, workerVars, exports, timing, handles, intake, calls
<1>1. CASE Shutdown
  <2> PICK c \in Callers :
        \/ ShutdownTakes(c) \/ ShutdownStoresInactive(c) \/ ShutdownSignals(c)
        \/ ShutdownPollsWorker(c) \/ ShutdownPollsTimer(c)
        \/ ShutdownCancelled(c)
    BY <1>1 DEF Shutdown
  <2> USE DEF Goto, Calling, Returned
  <2>1. CASE ShutdownTakes(c)           BY <2>1 DEF ShutdownTakes
  <2>2. CASE ShutdownStoresInactive(c)  BY <2>2 DEF ShutdownStoresInactive
  <2>3. CASE ShutdownSignals(c)         BY <2>3 DEF ShutdownSignals
  <2>4. CASE ShutdownPollsWorker(c)     BY <2>4 DEF ShutdownPollsWorker
  <2>5. CASE ShutdownPollsTimer(c)      BY <2>5 DEF ShutdownPollsTimer
  <2>6. CASE ShutdownCancelled(c)       BY <2>6 DEF ShutdownCancelled
  <2> QED BY <2>1, <2>2, <2>3, <2>4, <2>5, <2>6
<1>2. CASE DeadlineElapses    BY <1>2 DEF DeadlineElapses
<1>3. CASE DropSender         BY <1>3 DEF DropSender
<1>4. CASE DropShutdownState  BY <1>4 DEF DropShutdownState
<1> QED BY <1>1, <1>2, <1>3, <1>4

\* Every step of the worker keeps the types.
LEMMA TypeWorker == TypeOK /\ Worker => TypeOK'
<1> SUFFICES ASSUME TypeOK, Worker PROVE TypeOK'
  OBVIOUS
<1>0. UNCHANGED pipelineVars
  BY DEF Worker
<1>1. /\ signal' \in {"none", "held", "sent", "dropped"} /\ sender' \in BOOLEAN
      /\ active' \in BOOLEAN /\ drop_count' \in Nat
      /\ shutdown' \in {"none", "some"} /\ accepted' \in Seq(Spans)
      /\ caller' \in [Callers -> {"idle"} \cup Calling \cup Returned]
      /\ deadline' \in {"running", "elapsed"}
  BY <1>0 DEF TypeOK, pipelineVars, handles, intake, calls
<1>2. /\ channel' \in Seq(Spans) /\ Len(channel') <= Capacity
      /\ batch' \in Seq(Spans) /\ exporting' \in Seq(Spans)
      /\ handed' \in Seq(Spans)
      /\ rx_open' \in BOOLEAN
      /\ has_pending_batch' \in BOOLEAN /\ aged' \in BOOLEAN
      /\ phase' \in Phases
      /\ ticker' \in {"running", "due"}
      /\ span' \in [Spans -> Fates]
  <2> USE DEF TypeOK, exports, timing, Phases, Running, Polling, Exporting
  <2>1. CASE PollShutdown  BY <2>1 DEF PollShutdown, StartDrain
  <2>2. CASE Recv
    <3>1. Push(Head(channel), "loopExport", "pollShutdown") BY <2>2 DEF Recv
    <3>2. Head(channel) \in Spans BY <2>2, HeadTail DEF Recv
    <3>3. /\ batch' \in Seq(Spans) /\ exporting' \in Seq(Spans)
          /\ handed' \in Seq(Spans) /\ phase' \in Phases
      BY <3>1, <3>2, PushType
    <3> QED BY <2>2, <3>3, HeadTail DEF Recv, ArmTicker
  <2>3. CASE RecvNone      BY <2>3 DEF RecvNone, StartDrain
  <2>4. CASE RecvPending   BY <2>4 DEF RecvPending
  <2>5. CASE Tick
    <3>1. CASE batch # <<>>
      <4>1. StartExport(batch, "loopExport") BY <2>5, <3>1 DEF Tick
      <4>2. /\ batch' \in Seq(Spans) /\ exporting' \in Seq(Spans)
            /\ handed' \in Seq(Spans) /\ phase' \in Phases
        BY <4>1, ExportType
      <4> QED BY <2>5, <3>1, <4>2 DEF Tick
    <3>2. CASE batch = <<>> BY <2>5, <3>2 DEF Tick
    <3> QED BY <3>1, <3>2
  <2>6. CASE TickPending   BY <2>6 DEF TickPending
  <2>7. CASE DrainRecv
    <3>1. Push(Head(channel), "drainExport", "drain") BY <2>7 DEF DrainRecv
    <3>2. Head(channel) \in Spans BY <2>7, HeadTail DEF DrainRecv
    <3>3. /\ batch' \in Seq(Spans) /\ exporting' \in Seq(Spans)
          /\ handed' \in Seq(Spans) /\ phase' \in Phases
      BY <3>1, <3>2, PushType
    <3> QED BY <2>7, <3>3, HeadTail DEF DrainRecv
  <2>8. CASE DrainNone
    <3>1. CASE batch # <<>>
      <4>1. StartExport(batch, "lastExport") BY <2>8, <3>1 DEF DrainNone
      <4>2. /\ batch' \in Seq(Spans) /\ exporting' \in Seq(Spans)
            /\ handed' \in Seq(Spans) /\ phase' \in Phases
        BY <4>1, ExportType
      <4> QED BY <2>8, <3>1, <4>2 DEF DrainNone
    <3>2. CASE batch = <<>> BY <2>8, <3>2 DEF DrainNone
    <3> QED BY <3>1, <3>2
  <2>9. CASE AnyExportReturns
    BY <2>9 DEF AnyExportReturns, ExportReturns, Settle, Fates, Settled,
                Resumed, FlagAfterFlush
  <2>10. CASE WorkerDies
    <3>1. /\ channel' \in Seq(Spans) /\ Len(channel') <= Capacity
          /\ batch' \in Seq(Spans) /\ exporting' \in Seq(Spans)
      BY <2>10, EmptySeq DEF WorkerDies
    <3> QED BY <2>10, <3>1 DEF WorkerDies, Settle, Fates, Settled
  <2>11. CASE ScheduleDelayElapses BY <2>11 DEF ScheduleDelayElapses
  <2> QED BY <2>1, <2>2, <2>3, <2>4, <2>5, <2>6, <2>7, <2>8, <2>9, <2>10,
             <2>11 DEF Worker, WorkerStep
<1> QED BY <1>1, <1>2 DEF TypeOK

\* Every reachable state of the pipeline is well typed: the channel keeps to
\* its capacity and all control states are the ones the code has.
THEOREM TypeCorrect == Spec => []TypeOK
<1>1. TypeOK /\ UNCHANGED vars => TypeOK'
  BY DEF TypeOK, vars, workerVars, pipelineVars, exports, timing, handles,
         intake, calls
<1>2. TypeOK /\ [Next]_vars => TypeOK'
  BY <1>1, TypeSend, TypeCall, TypeWorker DEF Next
<1> QED BY <1>2, TypeInit, PTL DEF Spec

-----------------------------------------------------------------------------
(* The control invariant.                                                   *)

\* A batch that is full is not empty, and one that is not full is below the
\* limit of an export.
LEMMA FullBatch ==
  ASSUME NEW b \in Seq(Spans)
  PROVE  /\ Full(b) /\ b # <<>> => Len(b) >= BatchLimit
         /\ ~Full(b) => Len(b) < BatchLimit
         /\ b # <<>> /\ ~Full(b) => Len(b) \in 1..BatchLimit
BY LenProperties, EmptySeq DEF Full, BatchLimit

\* The limit the worker uses is at least one.
LEMMA LimitPositive == BatchLimit \in Nat \ {0} /\ BatchLimit \in 1..BatchLimit
BY DEF BatchLimit

\* What a push does to a batch that is empty or not full: it grows by one span
\* and stays, or it leaves as an export of exactly the limit.
LEMMA PushControl ==
  ASSUME TypeOK, NEW s \in Spans, NEW p, NEW q, Push(s, p, q),
         batch # <<>> => ~Full(batch)
  PROVE  \/ /\ phase' = q /\ batch' = Append(batch, s) /\ batch' # <<>>
            /\ ~Full(batch)'
            /\ UNCHANGED <<exporting, handed>>
         \/ /\ phase' = p /\ batch' = <<>>
            /\ exporting' = Append(batch, s)
            /\ handed' = handed \o Append(batch, s)
            /\ Len(exporting') = BatchLimit
<1> DEFINE b == Append(batch, s)
<1>1. b \in Seq(Spans) /\ b # <<>> /\ Len(b) = Len(batch) + 1
  BY AppendProperties, SMTT(30) DEF TypeOK
<1>2. CASE Full(b)
  <2>1. StartExport(b, p) BY <1>2 DEF Push
  <2>2. Len(b) >= BatchLimit BY <1>1, <1>2, FullBatch
  <2>3. batch \in Seq(Spans) /\ Len(batch) < BatchLimit /\ Len(batch) \in Nat
    <3>1. CASE batch = <<>> BY <3>1, LimitPositive, EmptySeq DEF TypeOK
    <3>2. CASE batch # <<>> BY <3>2, FullBatch, LenProperties DEF TypeOK
    <3> QED BY <3>1, <3>2
  <2>4. Len(b) = BatchLimit BY <1>1, <2>2, <2>3, LimitPositive
  <2> QED BY <2>1, <2>4 DEF StartExport
<1>3. CASE ~Full(b)
  <2>1. batch' = b /\ phase' = q /\ UNCHANGED <<exporting, handed>>
    BY <1>3 DEF Push
  <2>2. ~Full(batch)' BY <1>3, <2>1 DEF Full
  <2> QED BY <1>1, <2>1, <2>2
<1> QED BY <1>2, <1>3

\* The control invariant holds initially.
LEMMA ControlInit == Init => ControlInv
<1> SUFFICES ASSUME Init PROVE ControlInv
  OBVIOUS
<1>1. TypeOK BY TypeInit
<1>2. CASE Spawned
  BY <1>1, <1>2 DEF Init, WorkerInit, Spawned, ControlInv, WorkerControl,
     CallControl, PendingIffBatch, ExportSized, OneShutdownOwner, Polling,
     Exporting
<1>3. CASE NotSpawned
  BY <1>1, <1>3 DEF Init, WorkerInit, NotSpawned, ControlInv, WorkerControl,
     CallControl, PendingIffBatch, ExportSized, OneShutdownOwner, Polling,
     Exporting
<1> QED BY <1>2, <1>3 DEF Init

\* Senders keep the control invariant.
LEMMA ControlSend == ControlInv /\ Send => ControlInv'
<1> SUFFICES ASSUME ControlInv, NEW s \in Spans,
                    SendChecksActive(s) \/ TrySend(s)
             PROVE  ControlInv'
  BY DEF Send
<1>1. TypeOK' BY TypeSend DEF ControlInv, Send
<1>2. /\ UNCHANGED <<rx_open, phase, batch, exporting, handed>>
      /\ UNCHANGED <<has_pending_batch, ticker, aged>>
      /\ UNCHANGED <<sender, signal, shutdown, active, caller, deadline>>
  BY DEF SendChecksActive, TrySend, exports, timing, pipelineVars, handles,
         intake, calls
<1>3. \/ channel' = channel
      \/ rx_open /\ channel' = Append(channel, s)
  BY DEF SendChecksActive, TrySend, Accepts
<1>4. \E f \in {"checked", "ignored", "accepted", "dropped"} :
        span' = [span EXCEPT ![s] = f]
  BY DEF SendChecksActive, TrySend
<1>5. WorkerControl'
  BY <1>2, <1>3 DEF ControlInv, WorkerControl, Full, Polling
<1>6. CallControl'
  BY <1>2, <1>4 DEF ControlInv, CallControl, TypeOK
<1>7. (PendingIffBatch /\ ExportSized /\ OneShutdownOwner)'
  BY <1>2 DEF ControlInv, PendingIffBatch, ExportSized, OneShutdownOwner
<1> QED BY <1>1, <1>5, <1>6, <1>7 DEF ControlInv

\* Shutdown calls, their deadline and the drop keep the control invariant.
LEMMA ControlCall ==
  ControlInv /\ (Shutdown \/ DeadlineElapses \/ DropSender
                  \/ DropShutdownState) => ControlInv'
<1> SUFFICES ASSUME ControlInv,
                    Shutdown \/ DeadlineElapses \/ DropSender
                             \/ DropShutdownState
             PROVE  ControlInv'
  OBVIOUS
<1>1. TypeOK' BY TypeCall DEF ControlInv
<1>2. UNCHANGED workerVars
  BY DEF Shutdown, ShutdownTakes, ShutdownStoresInactive, ShutdownSignals,
         ShutdownPollsWorker, ShutdownPollsTimer, ShutdownCancelled,
         DeadlineElapses, DropSender, DropShutdownState
<1>3. (WorkerControl /\ PendingIffBatch /\ ExportSized)'
  BY <1>2 DEF ControlInv, WorkerControl, PendingIffBatch, ExportSized, Full,
              workerVars, exports, timing
<1>4. (CallControl /\ OneShutdownOwner)'
  <2> USE DEF ControlInv, CallControl, OneShutdownOwner, workerVars, TypeOK
  <2>1. CASE Shutdown
    <3> PICK c \in Callers :
          \/ ShutdownTakes(c) \/ ShutdownStoresInactive(c)
          \/ ShutdownSignals(c) \/ ShutdownPollsWorker(c)
          \/ ShutdownPollsTimer(c) \/ ShutdownCancelled(c)
      BY <2>1 DEF Shutdown
    <3> USE DEF Goto, handles
    <3>1. CASE ShutdownTakes(c)          BY <3>1 DEF ShutdownTakes
    <3>2. CASE ShutdownStoresInactive(c) BY <3>2 DEF ShutdownStoresInactive
    <3>3. CASE ShutdownSignals(c)        BY <3>3 DEF ShutdownSignals
    <3>4. CASE ShutdownPollsWorker(c)    BY <3>4 DEF ShutdownPollsWorker
    <3>5. CASE ShutdownPollsTimer(c)     BY <3>5 DEF ShutdownPollsTimer
    <3>6. CASE ShutdownCancelled(c)      BY <3>6 DEF ShutdownCancelled
    <3> QED BY <3>1, <3>2, <3>3, <3>4, <3>5, <3>6
  <2>2. CASE DeadlineElapses   BY <2>2 DEF DeadlineElapses, handles
  <2>3. CASE DropSender        BY <2>3 DEF DropSender, calls
  <2>4. CASE DropShutdownState BY <2>4 DEF DropShutdownState, calls
  <2> QED BY <2>1, <2>2, <2>3, <2>4
<1> QED BY <1>1, <1>3, <1>4 DEF ControlInv

\* The worker keeps the control invariant.
LEMMA ControlWorker == ControlInv /\ Worker => ControlInv'
<1> SUFFICES ASSUME ControlInv, Worker PROVE ControlInv'
  OBVIOUS
<1>1. TypeOK /\ TypeOK' BY TypeWorker DEF ControlInv
<1>2. /\ UNCHANGED <<sender, signal, shutdown, active, caller>>
  BY DEF Worker, pipelineVars, handles, calls
<1>3. OneShutdownOwner'
  BY <1>2 DEF ControlInv, OneShutdownOwner
<1>4. (phase = "done" => phase' = "done") /\ (phase = "dead" => phase' = "dead")
  BY DEF Worker, WorkerStep, PollShutdown, Recv, RecvNone, RecvPending, Tick,
         TickPending, DrainRecv, DrainNone, AnyExportReturns, ExportReturns,
         WorkerDies, ScheduleDelayElapses, Exporting, Running, Polling
<1>5. \A s \in Spans : span'[s] = "discarded" =>
        span[s] = "discarded" \/ phase' = "dead"
  BY <1>1 DEF Worker, WorkerStep, PollShutdown, Recv, RecvNone, RecvPending,
         Tick, TickPending, DrainRecv, DrainNone, AnyExportReturns,
         ExportReturns, WorkerDies, ScheduleDelayElapses, Settle
<1>6. CallControl'
  BY <1>2, <1>4, <1>5 DEF ControlInv, CallControl
<1>7. (WorkerControl /\ PendingIffBatch /\ ExportSized)'
  <2> USE <1>1 DEF ControlInv, WorkerControl, PendingIffBatch, ExportSized,
                   Polling, Exporting
  <2>1. CASE PollShutdown
    BY <2>1 DEF PollShutdown, StartDrain, exports, timing, Full
  <2>2. CASE Recv
    <3>1. Head(channel) \in Spans /\ Push(Head(channel), "loopExport", "pollShutdown")
      BY <2>2, HeadTail DEF Recv
    <3>2. CASE phase' = "pollShutdown"
      <4>1. batch' # <<>> /\ ~Full(batch)' /\ UNCHANGED exporting
        BY <3>1, <3>2, PushControl
      <4> QED BY <2>2, <3>2, <4>1 DEF Recv, ArmTicker, timing
    <3>3. CASE phase' = "loopExport"
      <4>1. batch' = <<>> /\ Len(exporting') = BatchLimit
        BY <3>1, <3>3, PushControl
      <4>2. Len(exporting') \in 1..BatchLimit
        BY <4>1, LimitPositive
      <4> QED BY <2>2, <3>3, <4>1, <4>2 DEF Recv
    <3> QED BY <3>1, <3>2, <3>3, PushControl
  <2>3. CASE RecvNone
    BY <2>3 DEF RecvNone, StartDrain, exports, timing, Full
  <2>4. CASE RecvPending
    BY <2>4 DEF RecvPending, exports, timing, Full
  <2>5. CASE Tick
    <3>1. batch # <<>> /\ StartExport(batch, "loopExport")
      BY <2>5 DEF Tick
    <3>2. Len(batch) \in 1..BatchLimit
      BY <3>1, FullBatch DEF TypeOK
    <3> QED BY <2>5, <3>1, <3>2 DEF Tick, StartExport
  <2>6. CASE TickPending
    BY <2>6 DEF TickPending, exports, timing, Full
  <2>7. CASE DrainRecv
    <3>1. Head(channel) \in Spans /\ Push(Head(channel), "drainExport", "drain")
      BY <2>7, HeadTail DEF DrainRecv
    <3>2. CASE phase' = "drain"
      <4>1. batch' # <<>> /\ ~Full(batch)' /\ UNCHANGED exporting
        BY <3>1, <3>2, PushControl
      <4> QED BY <2>7, <3>2, <4>1 DEF DrainRecv, timing
    <3>3. CASE phase' = "drainExport"
      <4>1. batch' = <<>> /\ Len(exporting') = BatchLimit
        BY <3>1, <3>3, PushControl
      <4>2. Len(exporting') \in 1..BatchLimit
        BY <4>1, LimitPositive
      <4> QED BY <2>7, <3>3, <4>1, <4>2 DEF DrainRecv
    <3> QED BY <3>1, <3>2, <3>3, PushControl
  <2>8. CASE DrainNone
    <3>1. CASE batch # <<>>
      <4>1. StartExport(batch, "lastExport") BY <2>8, <3>1 DEF DrainNone
      <4>2. Len(batch) \in 1..BatchLimit
        BY <3>1, FullBatch DEF TypeOK
      <4> QED BY <2>8, <4>1, <4>2 DEF DrainNone, Exhausted, StartExport
    <3>2. CASE batch = <<>> BY <2>8, <3>2 DEF DrainNone, Exhausted, exports
    <3> QED BY <3>1, <3>2
  <2>9. CASE AnyExportReturns
    <3>1. /\ phase \in Exporting /\ exporting' = <<>> /\ batch = <<>>
          /\ UNCHANGED <<channel, rx_open, batch, ticker, aged>>
      BY <2>9 DEF AnyExportReturns, ExportReturns
    <3>2. phase' = Resumed /\ has_pending_batch' = FlagAfterFlush
      BY <2>9 DEF AnyExportReturns, ExportReturns
    <3>3. CASE phase = "loopExport"
      BY <3>1, <3>2, <3>3 DEF Resumed, FlagAfterFlush
    <3>4. CASE phase = "drainExport"
      BY <3>1, <3>2, <3>4 DEF Resumed, FlagAfterFlush
    <3>5. CASE phase = "lastExport"
      BY <3>1, <3>2, <3>5 DEF Resumed, FlagAfterFlush
    <3> QED BY <3>1, <3>3, <3>4, <3>5
  <2>10. CASE WorkerDies
    BY <2>10 DEF WorkerDies
  <2>11. CASE ScheduleDelayElapses
    BY <2>11 DEF ScheduleDelayElapses, exports, Full
  <2> QED BY <2>1, <2>2, <2>3, <2>4, <2>5, <2>6, <2>7, <2>8, <2>9, <2>10,
             <2>11 DEF Worker, WorkerStep
<1> QED BY <1>1, <1>3, <1>6, <1>7 DEF ControlInv

\* Stuttering keeps it too.
LEMMA ControlStutter == ControlInv /\ UNCHANGED vars => ControlInv'
BY DEF ControlInv, TypeOK, WorkerControl, CallControl, PendingIffBatch,
       ExportSized, OneShutdownOwner, Full, vars, workerVars, pipelineVars,
       exports, timing, handles, intake, calls

\* Every step keeps the control invariant.
LEMMA ControlStep == ControlInv /\ [Next]_vars => ControlInv'
BY ControlSend, ControlCall, ControlWorker, ControlStutter DEF Next

\* The control invariant holds in every reachable state: a drained worker is
\* closed, a stopped one is empty, exports are sized, the ticker is armed
\* exactly over a batch, and one call owns the shutdown.
THEOREM ControlCorrect == Spec => []ControlInv
BY ControlInit, ControlStep, PTL DEF Spec

-----------------------------------------------------------------------------
(* Order and conservation.                                                  *)

\* Moving the head of one sequence to the end of the one before it.
LEMMA MoveHead ==
  ASSUME NEW h \in Seq(Spans), NEW b \in Seq(Spans),
         NEW c \in Seq(Spans), c # <<>>
  PROVE  /\ h \o Append(b, Head(c)) \o Tail(c) = h \o b \o c
         /\ (h \o Append(b, Head(c))) \o <<>> \o Tail(c) = h \o b \o c
<1>1. /\ Head(c) \in Spans /\ Tail(c) \in Seq(Spans)
      /\ <<Head(c)>> \in Seq(Spans)
  BY HeadTailProperties
<1>2. c = <<Head(c)>> \o Tail(c)
  <2>1. Len(<<Head(c)>> \o Tail(c)) = Len(c) /\ Len(c) \in Nat
    BY <1>1, ConcatProperties, HeadTailProperties, LenProperties
  <2>2. \A i \in 1..Len(c) : (<<Head(c)>> \o Tail(c))[i] = c[i]
    BY <1>1, <2>1, ConcatProperties, HeadTailProperties
  <2>3. <<Head(c)>> \o Tail(c) \in Seq(Spans) BY <1>1, ConcatProperties
  <2> QED BY <2>1, <2>2, <2>3, SeqEqual
<1>3. Append(b, Head(c)) = b \o <<Head(c)>>
  BY <1>1, AppendIsConcat
<1>4. b \o c = (b \o <<Head(c)>>) \o Tail(c)
  BY <1>1, <1>2, ConcatAssociative, SMTT(30)
<1>5. (h \o b) \o c = h \o (b \o c)
  BY ConcatAssociative
<1>6. b \o <<Head(c)>> \in Seq(Spans) BY <1>1, ConcatProperties
<1>7. (h \o (b \o <<Head(c)>>)) \o Tail(c) = h \o ((b \o <<Head(c)>>) \o Tail(c))
  BY <1>1, <1>6, ConcatAssociative, SMTT(30)
<1>8. h \o Append(b, Head(c)) \in Seq(Spans)
  BY <1>3, <1>6, ConcatProperties
<1> QED BY <1>3, <1>4, <1>5, <1>7, <1>8, ConcatEmptySeq

\* What a step of the worker does to the sequences: it moves spans along and
\* settles none, or an export is answered, or the worker dies.
LEMMA WorkerMoves ==
  ASSUME ControlInv, Worker
  PROVE  \/ /\ handed' \o batch' \o channel' = handed \o batch \o channel
            /\ Queue' = Queue /\ span' = span
            /\ phase' = "dead" <=> phase = "dead"
         \/ /\ AnyExportReturns
            /\ phase # "dead" /\ phase' # "dead"
         \/ WorkerDies
<1> USE DEF ControlInv, WorkerControl, ExportSized, Polling, Exporting, Running
<1>1. /\ channel \in Seq(Spans) /\ batch \in Seq(Spans)
      /\ exporting \in Seq(Spans) /\ handed \in Seq(Spans)
      /\ <<>> \in Seq(Spans)
  BY EmptySeq DEF TypeOK
<1> DEFINE Moved ==
      /\ handed' \o batch' \o channel' = handed \o batch \o channel
      /\ Queue' = Queue /\ span' = span
      /\ phase' = "dead" <=> phase = "dead"
<1>2. CASE /\ UNCHANGED <<channel, batch, exporting, handed, span>>
           /\ phase # "dead" /\ phase' # "dead"
  BY <1>2 DEF Queue
\* A pushed span, and a batch that leaves, keep their places in both sequences.
<1>3. ASSUME NEW p, NEW q, p # "dead", q # "dead", phase # "dead",
             channel # <<>>, channel' = Tail(channel), span' = span,
             exporting = <<>>, Push(Head(channel), p, q)
      PROVE  Moved
  <2> DEFINE b == Append(batch, Head(channel))
  <2>1. Head(channel) \in Spans /\ Tail(channel) \in Seq(Spans)
    BY <1>1, <1>3, HeadTailProperties
  <2>2. b \in Seq(Spans) BY <1>1, <2>1, AppendProperties
  <2>3. \/ /\ phase' = q /\ batch' = b /\ UNCHANGED <<exporting, handed>>
        \/ /\ phase' = p /\ batch' = <<>> /\ exporting' = b
           /\ handed' = handed \o b
    BY <1>3, <2>1, PushControl
  <2>4. handed' \o batch' \o channel' = handed \o batch \o channel
    <3>1. /\ handed \o b \o Tail(channel) = handed \o batch \o channel
          /\ (handed \o b) \o <<>> \o Tail(channel) = handed \o batch \o channel
      BY <1>1, <1>3, MoveHead, ZenonT(30)
    <3> QED BY <1>3, <2>3, <3>1
  <2>5. <<>> \o b \o Tail(channel) = <<>> \o batch \o channel
    BY <1>1, <1>3, MoveHead
  <2>6. <<>> \o b = b /\ b \o <<>> = b
    BY <2>2, ConcatEmptySeq
  <2>7. exporting' \o batch' \o channel' = exporting \o batch \o channel
    BY <1>3, <2>3, <2>5, <2>6
  <2> QED BY <1>3, <2>3, <2>4, <2>7 DEF Queue
<1>4. ASSUME NEW p, p # "dead", phase # "dead", exporting = <<>>,
             UNCHANGED <<channel, span>>, StartExport(batch, p)
      PROVE  Moved
  <2>1. /\ phase' = p /\ batch' = <<>> /\ exporting' = batch
        /\ handed' = handed \o batch
    BY <1>4 DEF StartExport
  <2>2. handed \o batch \in Seq(Spans) BY <1>1, ConcatProperties
  <2>3. /\ (handed \o batch) \o <<>> = handed \o batch
        /\ batch \o <<>> = batch /\ <<>> \o batch = batch
    BY <1>1, <2>2, ConcatEmptySeq
  <2> QED BY <1>4, <2>1, <2>3 DEF Queue
<1>5. CASE PollShutdown
  BY <1>2, <1>5 DEF PollShutdown, StartDrain, exports
<1>6. CASE Recv
  BY <1>3, <1>6 DEF Recv
<1>7. CASE RecvNone
  BY <1>2, <1>7 DEF RecvNone, StartDrain, exports
<1>8. CASE RecvPending
  BY <1>2, <1>8 DEF RecvPending, exports
<1>9. CASE Tick
  <2>1. CASE batch # <<>>
    BY <1>4, <1>9, <2>1 DEF Tick
  <2>2. CASE batch = <<>>
    BY <1>2, <1>9, <2>2 DEF Tick, exports
  <2> QED BY <2>1, <2>2
<1>10. CASE TickPending
  BY <1>2, <1>10 DEF TickPending, exports
<1>11. CASE DrainRecv
  BY <1>3, <1>11 DEF DrainRecv
<1>12. CASE DrainNone
  <2>1. CASE batch # <<>>
    BY <1>4, <1>12, <2>1 DEF DrainNone
  <2>2. CASE batch = <<>>
    BY <1>2, <1>12, <2>2 DEF DrainNone, exports
  <2> QED BY <2>1, <2>2
<1>13. CASE AnyExportReturns
  <2>1. phase \in Exporting /\ phase' = Resumed
    BY <1>13 DEF AnyExportReturns, ExportReturns
  <2> QED BY <1>13, <2>1 DEF Resumed
<1>14. CASE ScheduleDelayElapses
  BY <1>2, <1>14 DEF ScheduleDelayElapses, exports
<1> QED BY <1>5, <1>6, <1>7, <1>8, <1>9, <1>10, <1>11, <1>12, <1>13, <1>14
        DEF Worker, WorkerStep

\* A sequence is the front of anything appended to it.
LEMMA FrontOfConcat ==
  ASSUME NEW h \in Seq(Spans), NEW x \in Seq(Spans)
  PROVE  SubSeq(h \o x, 1, Len(h)) = h
<1>1. Len(h) \in Nat BY LenProperties
<1>2. CASE Len(h) = 0
  <2>1. h = <<>> BY <1>2, EmptySeq
  <2> QED BY <1>2, <2>1, SubSeqEmpty
<1>3. CASE Len(h) # 0
  <2>1. 1 \in 1..Len(h) /\ Len(h) \in 1..Len(h) BY <1>1, <1>3
  <2> QED BY <2>1, SubSeqOfConcat1, SubSeqFull
<1> QED BY <1>2, <1>3

\* Senders, shutdown calls and the drop leave order and conservation alone,
\* but for the span that try_send appends at the end.
LEMMA FifoSendCall ==
  ASSUME ControlInv, FifoConservation,
         Send \/ Shutdown \/ DeadlineElapses \/ DropSender
              \/ DropShutdownState
  PROVE  FifoConservation'
<1>1. UNCHANGED <<phase, batch, exporting, handed>>
  BY DEF Send, SendChecksActive, TrySend, Shutdown, ShutdownTakes,
         ShutdownStoresInactive, ShutdownSignals, ShutdownPollsWorker,
         ShutdownPollsTimer, ShutdownCancelled, DeadlineElapses, DropSender,
         DropShutdownState, workerVars, exports
<1>2. \/ UNCHANGED <<channel, accepted>>
      \/ \E s \in Spans : /\ rx_open /\ channel' = Append(channel, s)
                          /\ accepted' = Append(accepted, s)
  BY DEF Send, SendChecksActive, TrySend, Accepts, Shutdown, ShutdownTakes,
         ShutdownStoresInactive, ShutdownSignals, ShutdownPollsWorker,
         ShutdownPollsTimer, ShutdownCancelled, DeadlineElapses, DropSender,
         DropShutdownState, workerVars, pipelineVars, intake
<1>3. CASE UNCHANGED <<channel, accepted>>
  BY <1>1, <1>3 DEF FifoConservation
<1>4. ASSUME NEW s \in Spans, rx_open, channel' = Append(channel, s),
             accepted' = Append(accepted, s)
      PROVE  FifoConservation'
  <2>1. /\ handed \in Seq(Spans) /\ batch \in Seq(Spans)
        /\ channel \in Seq(Spans) /\ <<s>> \in Seq(Spans)
        /\ accepted \in Seq(Spans)
    BY DEF ControlInv, TypeOK
  <2>2. phase # "dead" BY <1>4 DEF ControlInv, WorkerControl, Polling
  <2>3. accepted = (handed \o batch) \o channel
    BY <2>2 DEF FifoConservation
  <2>4. handed \o batch \in Seq(Spans) BY <2>1, ConcatProperties
  <2>5. accepted' = (handed \o batch) \o (channel \o <<s>>)
    <3>1. accepted' = accepted \o <<s>> BY <1>4, <2>1, AppendIsConcat
    <3> QED BY <2>1, <2>3, <2>4, <3>1, ConcatAssociative, SMTT(30)
  <2>6. accepted' = handed' \o batch' \o channel'
    BY <1>1, <1>4, <2>1, <2>5, AppendIsConcat
  <2>7. channel \o <<s>> \in Seq(Spans) BY <2>1, ConcatProperties
  <2>8. accepted' = handed \o (batch \o (channel \o <<s>>))
    BY <2>1, <2>5, <2>7, ConcatAssociative, SMTT(30)
  <2>9. SubSeq(accepted', 1, Len(handed)) = handed
    BY <2>1, <2>7, <2>8, ConcatProperties, FrontOfConcat
  <2> QED BY <1>1, <2>6, <2>9 DEF FifoConservation
<1> QED BY <1>2, <1>3, <1>4

\* The worker keeps order and conservation.
LEMMA FifoWorker ==
  ASSUME ControlInv, ControlInv', FifoConservation, Worker
  PROVE  FifoConservation'
<1>1. accepted' = accepted BY DEF Worker, pipelineVars, intake
<1>2. CASE phase' = "dead"
  <2>1. handed' = handed
    BY <1>2 DEF ControlInv, Worker, WorkerStep, PollShutdown, Recv, RecvNone,
       RecvPending, Tick, TickPending, DrainRecv, DrainNone, AnyExportReturns,
       ExportReturns, WorkerDies, ScheduleDelayElapses, StartDrain, Push,
       StartExport, exports
  <2> QED BY <1>1, <1>2, <2>1 DEF FifoConservation
<1>3. CASE phase' # "dead"
  <2>1. accepted' = handed' \o batch' \o channel'
    <3>1. ~WorkerDies BY <1>3 DEF WorkerDies
    <3>2. CASE AnyExportReturns /\ phase # "dead"
      BY <1>1, <3>2 DEF AnyExportReturns, ExportReturns, FifoConservation
    <3>3. CASE handed' \o batch' \o channel' = handed \o batch \o channel
               /\ (phase' = "dead" <=> phase = "dead")
      BY <1>1, <1>3, <3>3 DEF FifoConservation
    <3> QED BY <3>1, <3>2, <3>3, WorkerMoves
  <2>2. /\ handed' \in Seq(Spans) /\ batch' \in Seq(Spans)
        /\ channel' \in Seq(Spans)
    BY DEF ControlInv, TypeOK
  <2>3. /\ accepted' = handed' \o (batch' \o channel')
        /\ batch' \o channel' \in Seq(Spans)
    BY <2>1, <2>2, ConcatAssociative, ConcatProperties
  <2>4. SubSeq(accepted', 1, Len(handed')) = handed'
    BY <2>2, <2>3, FrontOfConcat
  <2> QED BY <2>1, <2>4 DEF FifoConservation
<1> QED BY <1>2, <1>3

\* Nothing was accepted or handed on at the start.
LEMMA FifoInit == Init => FifoConservation
<1> SUFFICES ASSUME Init PROVE FifoConservation
  OBVIOUS
<1>1. /\ accepted = <<>> /\ handed = <<>> /\ batch = <<>> /\ channel = <<>>
  BY DEF Init, WorkerInit
<1>2. <<>> \in Seq(Spans) /\ Len(<<>>) = 0 BY EmptySeq
<1>3. <<>> \o <<>> = <<>> BY <1>2, ConcatEmptySeq
<1>4. SubSeq(<<>>, 1, 0) = <<>> BY SubSeqEmpty
<1> QED BY <1>1, <1>2, <1>3, <1>4 DEF FifoConservation

\* Spans reach the exporter in the order try_send accepted them, none lost,
\* doubled or overtaken: what was handed over, the batch and the channel are
\* the accepted spans, and a worker that died handed over a prefix of them.
THEOREM FifoCorrect == Spec => []FifoConservation
<1>1. ControlInv /\ ControlInv' /\ FifoConservation /\ [Next]_vars
        => FifoConservation'
  <2>1. FifoConservation /\ UNCHANGED vars => FifoConservation'
    BY DEF FifoConservation, vars, workerVars, pipelineVars, exports, intake
  <2> QED BY <2>1, FifoSendCall, FifoWorker DEF Next
<1> QED BY <1>1, FifoInit, ControlCorrect, PTL DEF Spec

-----------------------------------------------------------------------------
(* Every accepted span has exactly one place.                               *)

\* The range of a sequence, and of three in a row.
LEMMA SeqRange ==
  ASSUME NEW q \in Seq(Spans)
  PROVE  Range(q) = {q[i] : i \in 1..Len(q)}
<1>1. DOMAIN q = 1..Len(q) BY LenProperties
<1> QED BY <1>1 DEF Range

\* The elements of a concatenation.
LEMMA ConcatRange ==
  ASSUME NEW e \in Seq(Spans), NEW b \in Seq(Spans)
  PROVE  Range(e \o b) = Range(e) \cup Range(b)
<1>1. /\ e \o b \in Seq(Spans) /\ Len(e \o b) = Len(e) + Len(b)
      /\ \A i \in 1..Len(e) + Len(b) : (e \o b)[i] =
           IF i <= Len(e) THEN e[i] ELSE b[i - Len(e)]
      /\ Len(e) \in Nat /\ Len(b) \in Nat
  <2>1. Len(e) \in Nat /\ Len(b) \in Nat BY LenProperties
  <2> QED BY <2>1, ConcatProperties
<1>2. ASSUME NEW i \in 1..Len(e \o b)
      PROVE  (e \o b)[i] \in Range(e) \cup Range(b)
  <2>1. CASE i <= Len(e)
    <3>1. i \in 1..Len(e) /\ (e \o b)[i] = e[i] BY <1>1, <2>1
    <3> QED BY <3>1, SeqRange
  <2>2. CASE ~(i <= Len(e))
    <3>1. i - Len(e) \in 1..Len(b) /\ (e \o b)[i] = b[i - Len(e)]
      BY <1>1, <2>2
    <3> QED BY <3>1, SeqRange
  <2> QED BY <2>1, <2>2
<1>3. ASSUME NEW i \in 1..Len(e) PROVE e[i] \in Range(e \o b)
  <2>1. i \in 1..Len(e \o b) /\ (e \o b)[i] = e[i] BY <1>1
  <2> QED BY <1>1, <2>1, SeqRange, ZenonT(30)
<1>4. ASSUME NEW i \in 1..Len(b) PROVE b[i] \in Range(e \o b)
  <2>1. /\ Len(e) + i \in 1..Len(e \o b) /\ ~(Len(e) + i <= Len(e))
        /\ (Len(e) + i) - Len(e) = i
    BY <1>1
  <2>2. (e \o b)[Len(e) + i] = b[i] BY <1>1, <2>1
  <2> QED BY <1>1, <2>1, <2>2, SeqRange, ZenonT(30)
<1>5. Range(e \o b) \subseteq Range(e) \cup Range(b)
  <2>1. Range(e \o b) = {(e \o b)[i] : i \in 1..Len(e \o b)}
    BY <1>1, SeqRange
  <2> QED BY <1>2, <2>1
<1>6. Range(e) \subseteq Range(e \o b) BY <1>3, SeqRange
<1>7. Range(b) \subseteq Range(e \o b) BY <1>4, SeqRange
<1> QED BY <1>5, <1>6, <1>7

\* The spans in flight are those of the queue.
LEMMA ThreeRanges ==
  ASSUME NEW e \in Seq(Spans), NEW b \in Seq(Spans), NEW c \in Seq(Spans)
  PROVE  /\ e \o b \o c \in Seq(Spans)
         /\ Range(e \o b \o c) = Range(e) \cup Range(b) \cup Range(c)
         /\ e \o b \o c = e \o (b \o c)
         /\ b \o c \in Seq(Spans)
<1>1. e \o b \in Seq(Spans) /\ b \o c \in Seq(Spans) BY ConcatProperties
<1>2. e \o b \o c \in Seq(Spans) BY <1>1, ConcatProperties
<1>3. Range(e \o b \o c) = Range(e) \cup Range(b) \cup Range(c)
  <2>1. Range((e \o b) \o c) = Range(e \o b) \cup Range(c)
    BY <1>1, ConcatRange
  <2>2. Range(e \o b) = Range(e) \cup Range(b) BY ConcatRange
  <2> QED BY <2>1, <2>2
<1> QED BY <1>1, <1>2, <1>3, ConcatAssociative, SMTT(30)

\* The queue holds what is exported, batched or in the channel.
LEMMA QueueRange ==
  TypeOK => /\ Queue \in Seq(Spans)
            /\ Range(Queue) = InFlight
            /\ Queue = exporting \o (batch \o channel)
            /\ batch \o channel \in Seq(Spans)
BY ThreeRanges DEF TypeOK, Queue, InFlight

\* The same of the next state.
LEMMA NextQueueRange ==
  TypeOK' => /\ Queue' \in Seq(Spans)
             /\ Range(Queue') = InFlight'
             /\ Queue' = exporting' \o (batch' \o channel')
             /\ batch' \o channel' \in Seq(Spans)
BY ThreeRanges DEF TypeOK, Queue, InFlight

\* Appending a span that is new to a queue of distinct spans.
LEMMA AppendDistinct ==
  ASSUME NEW q \in Seq(Spans), NEW s \in Spans, s \notin Range(q),
         \A i, j \in 1..Len(q) : q[i] = q[j] => i = j
  PROVE  LET r == Append(q, s) IN
         /\ \A i, j \in 1..Len(r) : r[i] = r[j] => i = j
         /\ Range(r) = Range(q) \cup {s}
<1> DEFINE r == Append(q, s)
<1>1. /\ Len(r) = Len(q) + 1 /\ r[Len(q) + 1] = s /\ r \in Seq(Spans)
      /\ \A i \in 1..Len(q) : r[i] = q[i]
  BY AppendProperties
<1>2. Len(q) \in Nat BY LenProperties
<1>3. \A i \in 1..Len(q) : q[i] # s
  BY SeqRange
<1>4. 1..Len(r) = 1..Len(q) \cup {Len(q) + 1} BY <1>1, <1>2
<1>5. \A i, j \in 1..Len(r) : r[i] = r[j] => i = j
  BY <1>1, <1>3, <1>4
<1>6. Range(r) = {r[i] : i \in 1..Len(r)} /\ Range(q) = {q[i] : i \in 1..Len(q)}
  BY <1>1, SeqRange
<1>7. Range(r) = Range(q) \cup {s}
  BY <1>1, <1>4, <1>6
<1> QED BY <1>5, <1>7

\* The rest of a queue of distinct spans is distinct and shares nothing with
\* the front.
LEMMA RestDistinct ==
  ASSUME NEW e \in Seq(Spans), NEW r \in Seq(Spans),
         \A i, j \in 1..Len(e \o r) : (e \o r)[i] = (e \o r)[j] => i = j
  PROVE  /\ \A i, j \in 1..Len(r) : r[i] = r[j] => i = j
         /\ Range(e) \cap Range(r) = {}
<1>1. Len(e) \in Nat /\ Len(r) \in Nat /\ Len(e \o r) = Len(e) + Len(r)
  BY LenProperties, ConcatProperties
<1>2. \A i \in 1..Len(r) : /\ Len(e) + i \in 1..Len(e \o r)
                          /\ (e \o r)[Len(e) + i] = r[i]
  <2> TAKE i \in 1..Len(r)
  <2>1. Len(e) + i \in 1..(Len(e) + Len(r)) /\ ~(Len(e) + i <= Len(e))
        /\ (Len(e) + i) - Len(e) = i
    BY <1>1
  <2> QED BY <1>1, <2>1, ConcatProperties
<1>3. \A i \in 1..Len(e) : i \in 1..Len(e \o r) /\ (e \o r)[i] = e[i]
  <2> TAKE i \in 1..Len(e)
  <2>1. i \in 1..(Len(e) + Len(r)) /\ i <= Len(e) BY <1>1
  <2> QED BY <1>1, <2>1, ConcatProperties
<1>4. \A i, j \in 1..Len(r) : r[i] = r[j] => i = j
  <2> TAKE i, j \in 1..Len(r)
  <2> HAVE r[i] = r[j]
  <2>1. Len(e) + i = Len(e) + j BY <1>2
  <2> QED BY <1>1, <2>1
<1>5. \A i \in 1..Len(e), j \in 1..Len(r) : e[i] # r[j]
  <2> TAKE i \in 1..Len(e), j \in 1..Len(r)
  <2>1. i # Len(e) + j BY <1>1
  <2> QED BY <1>2, <1>3, <2>1
<1>6. Range(e) = {e[i] : i \in 1..Len(e)} /\ Range(r) = {r[i] : i \in 1..Len(r)}
  BY SeqRange
<1> QED BY <1>4, <1>5, <1>6

\* A span that enters the channel is the last of the queue.
LEMMA SentIsLast ==
  ASSUME TypeOK, NEW s \in Spans, UNCHANGED <<batch, exporting>>,
         channel' = Append(channel, s)
  PROVE  Queue' = Append(Queue, s)
<1>1. /\ exporting \o batch \in Seq(Spans) /\ channel \in Seq(Spans)
      /\ <<s>> \in Seq(Spans)
  BY ConcatProperties DEF TypeOK
<1>2. Queue' = (exporting \o batch) \o (channel \o <<s>>)
  BY <1>1, AppendIsConcat DEF Queue
<1>3. Queue' = Queue \o <<s>>
  BY <1>1, <1>2, ConcatAssociative DEF Queue
<1> QED BY <1>3, QueueRange, AppendIsConcat

\* Every accepted span is at exactly one place of the queue.
PlaceInv == AcceptedIffInFlight /\ QueueDistinct

\* At the start nothing is accepted and the queue is empty.
LEMMA PlaceInit == Init => PlaceInv
<1> SUFFICES ASSUME Init PROVE PlaceInv
  OBVIOUS
<1>1. TypeOK BY TypeInit
<1>2. /\ exporting = <<>> /\ batch = <<>> /\ channel = <<>>
      /\ span = [s \in Spans |-> "open"]
  BY DEF Init, WorkerInit
<1>3. /\ <<>> \in Seq(Spans) /\ Len(<<>>) = 0 BY EmptySeq
<1>4. Queue = <<>> BY <1>2, <1>3, ConcatEmptySeq DEF Queue
<1>5. Range(Queue) = {}
  <2>1. Range(<<>>) = {<<>>[i] : i \in 1..0} BY <1>3, SeqRange
  <2> QED BY <1>4, <2>1
<1> QED BY <1>1, <1>2, <1>3, <1>4, <1>5, QueueRange
        DEF PlaceInv, AcceptedIffInFlight, QueueDistinct

\* A span that try_send accepts is new to the queue.
LEMMA PlaceSend == ASSUME ControlInv, PlaceInv, Send PROVE PlaceInv'
<1> PICK s \in Spans : SendChecksActive(s) \/ TrySend(s) BY DEF Send
<1>1. TypeOK /\ TypeOK' BY TypeSend DEF ControlInv
<1>2. UNCHANGED <<batch, exporting>>
  BY DEF SendChecksActive, TrySend, exports
<1>3. {t \in Spans : span[t] = "accepted"} = Range(Queue)
  BY <1>1, QueueRange DEF PlaceInv, AcceptedIffInFlight
<1>4. span[s] \in {"open", "checked"} BY DEF SendChecksActive, TrySend
<1>5. CASE channel' = channel /\ span'[s] # "accepted"
           /\ \A t \in Spans \ {s} : span'[t] = span[t]
  <2>1. Queue' = Queue BY <1>2, <1>5 DEF Queue
  <2>2. {t \in Spans : span'[t] = "accepted"} = {t \in Spans : span[t] = "accepted"}
    BY <1>4, <1>5
  <2>3. InFlight' = InFlight BY <1>2, <1>5 DEF InFlight
  <2> QED BY <2>1, <2>2, <2>3 DEF PlaceInv, AcceptedIffInFlight, QueueDistinct
<1>6. CASE channel' = Append(channel, s) /\ span' = [span EXCEPT ![s] = "accepted"]
  <2>1. Queue' = Append(Queue, s) BY <1>1, <1>2, <1>6, SentIsLast
  <2>2. s \notin Range(Queue) BY <1>3, <1>4
  <2>3. Queue \in Seq(Spans) BY <1>1, QueueRange
  <2>4. QueueDistinct' /\ Range(Queue)' = Range(Queue) \cup {s}
    BY <2>1, <2>2, <2>3, AppendDistinct DEF PlaceInv, QueueDistinct
  <2>5. {t \in Spans : span'[t] = "accepted"} = Range(Queue) \cup {s}
    BY <1>1, <1>3, <1>6 DEF TypeOK
  <2>6. InFlight' = Range(Queue)' BY <1>1, NextQueueRange
  <2> QED BY <2>4, <2>5, <2>6 DEF PlaceInv, AcceptedIffInFlight
<1>7. span' = [span EXCEPT ![s] = span'[s]] /\ span \in [Spans -> Fates]
  BY <1>1 DEF SendChecksActive, TrySend, TypeOK
<1> QED BY <1>1, <1>5, <1>6, <1>7 DEF SendChecksActive, TrySend, TypeOK

\* The worker moves the queue along, settles its front, or drops it all.
LEMMA PlaceWorker ==
  ASSUME ControlInv, PlaceInv, Worker PROVE PlaceInv'
<1>1. TypeOK /\ TypeOK' BY TypeWorker DEF ControlInv
<1>2. {s \in Spans : span[s] = "accepted"} = Range(Queue)
  BY <1>1, QueueRange DEF PlaceInv, AcceptedIffInFlight
<1>3. CASE Queue' = Queue /\ span' = span
  BY <1>1, <1>2, <1>3, NextQueueRange
     DEF PlaceInv, AcceptedIffInFlight, QueueDistinct
<1>4. CASE AnyExportReturns
  <2> DEFINE r == batch \o channel
  <2>1. PICK f \in {"exported", "failed"} : ExportReturns(f)
    BY <1>4 DEF AnyExportReturns
  <2>2. /\ exporting' = <<>> /\ UNCHANGED <<batch, channel>>
        /\ span' = [s \in Spans |-> IF s \in Range(exporting) THEN f ELSE span[s]]
    BY <2>1 DEF ExportReturns, Settle
  <2>3. /\ Queue = exporting \o r /\ r \in Seq(Spans)
        /\ exporting \in Seq(Spans)
    BY <1>1, QueueRange DEF TypeOK
  <2>4. Queue' = r
    <3>1. Queue' = <<>> \o r BY <1>1, <2>2, NextQueueRange
    <3> QED BY <2>3, <3>1, ConcatEmptySeq
  <2>5. /\ \A i, j \in 1..Len(r) : r[i] = r[j] => i = j
        /\ Range(exporting) \cap Range(r) = {}
    BY <2>3, RestDistinct DEF PlaceInv, QueueDistinct
  <2>6. QueueDistinct' BY <2>4, <2>5 DEF QueueDistinct
  <2>7. Range(Queue) = Range(exporting) \cup Range(r)
    BY <2>3, ConcatRange
  <2>8. {s \in Spans : span'[s] = "accepted"} = Range(r)
    BY <1>2, <2>2, <2>5, <2>7
  <2>9. InFlight' = Range(r) BY <1>1, <2>4, NextQueueRange
  <2> QED BY <2>6, <2>8, <2>9 DEF PlaceInv, AcceptedIffInFlight
<1>5. CASE WorkerDies
  <2>1. /\ exporting' = <<>> /\ batch' = <<>> /\ channel' = <<>>
        /\ span' = [s \in Spans |-> IF s \in InFlight THEN "discarded" ELSE span[s]]
    BY <1>5 DEF WorkerDies, Settle
  <2>2. <<>> \in Seq(Spans) /\ Len(<<>>) = 0 BY EmptySeq
  <2>3. Queue' = <<>> BY <2>1, <2>2, ConcatEmptySeq DEF Queue
  <2>4. Range(<<>>) = {}
    <3>1. Range(<<>>) = {<<>>[i] : i \in 1..0} BY <2>2, SeqRange
    <3> QED BY <3>1
  <2>5. InFlight' = {} BY <1>1, <2>3, <2>4, NextQueueRange
  <2>6. {s \in Spans : span'[s] = "accepted"} = {}
    BY <2>1 DEF PlaceInv, AcceptedIffInFlight
  <2>7. QueueDistinct' BY <2>2, <2>3 DEF QueueDistinct
  <2> QED BY <2>5, <2>6, <2>7 DEF PlaceInv, AcceptedIffInFlight
<1> QED BY <1>3, <1>4, <1>5, WorkerMoves

\* Nothing else touches a span or a sequence.
LEMMA PlaceCall ==
  ASSUME PlaceInv, UNCHANGED workerVars PROVE PlaceInv'
BY DEF PlaceInv, AcceptedIffInFlight, InFlight, QueueDistinct, Queue,
       workerVars, exports

\* A span is "accepted" exactly while it is in the channel, the batch or an
\* export, and it is there once: no path of the worker forgets a span, keeps
\* one it has settled or exports one twice.
THEOREM PlaceCorrect == Spec => [](AcceptedIffInFlight /\ QueueDistinct)
<1>1. ControlInv /\ PlaceInv /\ [Next]_vars => PlaceInv'
  <2> SUFFICES ASSUME ControlInv, PlaceInv, [Next]_vars PROVE PlaceInv'
    OBVIOUS
  <2>1. CASE Send   BY <2>1, PlaceSend
  <2>2. CASE Worker BY <2>2, PlaceWorker
  <2>3. CASE Shutdown \/ DeadlineElapses \/ DropSender \/ DropShutdownState
             \/ UNCHANGED vars
    <3>1. UNCHANGED workerVars
      BY <2>3 DEF Shutdown, ShutdownTakes, ShutdownStoresInactive,
         ShutdownSignals, ShutdownPollsWorker, ShutdownPollsTimer,
         ShutdownCancelled, DeadlineElapses, DropSender, DropShutdownState,
         vars
    <3> QED BY <3>1, PlaceCall
  <2> QED BY <2>1, <2>2, <2>3 DEF Next
<1>2. Spec => []PlaceInv
  BY <1>1, PlaceInit, ControlCorrect, PTL DEF Spec
<1>3. PlaceInv => AcceptedIffInFlight /\ QueueDistinct BY DEF PlaceInv
<1> QED BY <1>2, <1>3, PTL

-----------------------------------------------------------------------------
(* Consequences.                                                            *)

\* A shutdown call that waited for the worker and answers true has closed the
\* intake and left no accepted span behind, whatever the senders did meanwhile.
THEOREM FlushedCorrect == Spec => []FlushedMeansDrained
<1>1. ControlInv /\ PlaceInv => FlushedMeansDrained
  <2> SUFFICES ASSUME ControlInv, PlaceInv, NEW c \in Callers,
                      caller[c] = "flushed"
               PROVE  /\ ~rx_open
                      /\ \A s \in Spans : span[s] \notin {"accepted", "discarded"}
    BY DEF FlushedMeansDrained
  <2>1. phase = "done" BY DEF ControlInv, CallControl
  <2>2. ~rx_open /\ channel = <<>> /\ batch = <<>> /\ exporting = <<>>
    BY <2>1 DEF ControlInv, WorkerControl, ExportSized, Polling, Exporting
  <2>3. \A s \in Spans : span[s] # "discarded"
    BY <2>1 DEF ControlInv, CallControl
  <2>4. InFlight = {}
    <3>1. <<>> \in Seq(Spans) /\ Len(<<>>) = 0 BY EmptySeq
    <3>2. Range(<<>>) = {<<>>[i] : i \in 1..0} BY <3>1, SeqRange
    <3>3. Range(<<>>) = {} BY <3>2
    <3> QED BY <2>2, <3>3 DEF InFlight
  <2> QED BY <2>2, <2>3, <2>4 DEF PlaceInv, AcceptedIffInFlight
<1>2. Spec => []PlaceInv
  BY PlaceCorrect, PTL DEF PlaceInv
<1> QED BY <1>1, <1>2, ControlCorrect, PTL

\* At most one call ever owns the shutdown, and `active` is cleared before the
\* worker is signalled.
THEOREM OwnerCorrect == Spec => []OneShutdownOwner
BY ControlCorrect, PTL DEF ControlInv

\* The ticker branch is armed exactly while a batch waits.
THEOREM PendingCorrect == Spec => []PendingIffBatch
BY ControlCorrect, PTL DEF ControlInv

\* The exporter is given between one and max_export_batch_size spans.
THEOREM SizedCorrect == Spec => []ExportSized
BY ControlCorrect, PTL DEF ControlInv

\* A batch that is not full goes to the exporter only once schedule_delay has
\* passed since its first span, or when the channel is closed and empty.
THEOREM PartialCorrect == Spec => PartialExportJustified
<1> DEFINE A == exporting = <<>> /\ exporting' # <<>> /\ Len(exporting') < BatchLimit
               => \/ aged /\ has_pending_batch
                  \/ ~rx_open /\ channel = <<>>
<1>1. ControlInv /\ [Next]_vars => [A]_vars
  <2> SUFFICES ASSUME ControlInv, Next, exporting = <<>>, exporting' # <<>>,
                      Len(exporting') < BatchLimit
               PROVE  \/ aged /\ has_pending_batch
                      \/ ~rx_open /\ channel = <<>>
    OBVIOUS
  <2>1. CASE Recv \/ DrainRecv
    <3>1. /\ Head(channel) \in Spans /\ TypeOK
          /\ \E p, q : Push(Head(channel), p, q)
      BY <2>1, HeadTail DEF Recv, DrainRecv, ControlInv
    <3>2. exporting' = exporting \/ Len(exporting') = BatchLimit
      BY <3>1, PushControl DEF ControlInv, WorkerControl
    <3> QED BY <3>2, LimitPositive
  <2>2. CASE Tick
    BY <2>2 DEF Tick, ControlInv, WorkerControl, Polling
  <2>3. CASE DrainNone
    BY <2>3 DEF DrainNone, Exhausted, ControlInv, WorkerControl, Polling
  <2>4. ~(Send \/ Shutdown \/ DeadlineElapses \/ DropSender \/ DropShutdownState)
    BY DEF Send, SendChecksActive, TrySend, Shutdown, ShutdownTakes,
       ShutdownStoresInactive, ShutdownSignals, ShutdownPollsWorker,
       ShutdownPollsTimer, ShutdownCancelled, DeadlineElapses, DropSender,
       DropShutdownState, workerVars, exports
  <2>5. ~(PollShutdown \/ RecvNone \/ RecvPending \/ TickPending
            \/ AnyExportReturns \/ WorkerDies \/ ScheduleDelayElapses)
    BY DEF PollShutdown, RecvNone, RecvPending, TickPending, AnyExportReturns,
       ExportReturns, WorkerDies, ScheduleDelayElapses, exports
  <2> QED BY <2>1, <2>2, <2>3, <2>4, <2>5 DEF Next, Worker, WorkerStep
<1> QED BY <1>1, ControlCorrect, PTL DEF Spec, PartialExportJustified
=============================================================================
