------------------------- MODULE PipelineRefinement -------------------------
(* The export pipeline implements SpanDelivery, for every set of spans and  *)
(* callers, every capacity and every batch limit: the initial states map to *)
(* initial states, and every step of senders, worker and shutdown callers   *)
(* maps to a step of the contract or to a stutter.                          *)
EXTENDS PipelineProofs

-----------------------------------------------------------------------------
(* The mapping.                                                             *)

\* What the contract knows of a span: a send that has only tested `active`
\* has not decided anything yet.
Fate == [s \in Spans |-> IF span[s] = "checked" THEN "open" ELSE span[s]]

\* What the contract knows of a shutdown call: its answer.
Answer == [c \in Callers |-> IF caller[c] \in Returned THEN caller[c]
                                                      ELSE "none"]

Mapped == <<Fate, Queue, rx_open, drop_count, Answer>>

\* The variables of the contract are read off the pipeline through the mapping.
LEMMA MappedVars == /\ Delivery!vars = Mapped
                    /\ Delivery!vars' = Mapped'
BY DEF Delivery!vars, Mapped, Fate, Answer

\* The initial states of the pipeline are initial states of the contract.
LEMMA RefineInit == Init => Delivery!Init
<1> SUFFICES ASSUME Init PROVE Delivery!Init
  OBVIOUS
<1>1. /\ exporting = <<>> /\ batch = <<>> /\ channel = <<>>
      /\ span = [s \in Spans |-> "open"]
      /\ caller = [c \in Callers |-> "idle"] /\ drop_count = 0
      /\ rx_open \in BOOLEAN
  BY DEF Init, WorkerInit, Spawned, NotSpawned
<1>2. Queue = <<>>
  <2>1. <<>> \in Seq(Spans) BY EmptySeq
  <2> QED BY <1>1, <2>1, ConcatEmptySeq DEF Queue
<1> QED BY <1>1, <1>2 DEF Delivery!Init, Returned

-----------------------------------------------------------------------------
(* The steps.                                                               *)

\* A send that finds the pipeline inactive ignores its span, one that goes on
\* stutters, and try_send accepts or refuses.
LEMMA RefineSend ==
  ASSUME ControlInv, Send PROVE Delivery!Next \/ UNCHANGED Mapped
<1> PICK s \in Spans : SendChecksActive(s) \/ TrySend(s) BY DEF Send
<1>1. TypeOK BY DEF ControlInv
<1>2. /\ UNCHANGED <<batch, exporting, rx_open, caller>>
      /\ Answer' = Answer
  BY DEF SendChecksActive, TrySend, exports, pipelineVars, calls, Answer
<1>3. CASE SendChecksActive(s) /\ active
  <2>1. span' = [span EXCEPT ![s] = "checked"] /\ span[s] = "open"
    BY <1>3 DEF SendChecksActive
  <2>2. Fate' = Fate BY <1>1, <2>1 DEF Fate, TypeOK
  <2>3. UNCHANGED <<channel, drop_count>>
    BY <1>3 DEF SendChecksActive, pipelineVars, intake
  <2> QED BY <1>2, <2>2, <2>3 DEF Mapped, Queue
<1>4. CASE SendChecksActive(s) /\ ~active
  <2>1. span' = [span EXCEPT ![s] = "ignored"] /\ span[s] = "open"
    BY <1>4 DEF SendChecksActive
  <2>2. UNCHANGED <<channel, drop_count>>
    BY <1>4 DEF SendChecksActive, pipelineVars, intake
  <2>3. Queue' = Queue BY <1>2, <2>2 DEF Queue
  <2>4. /\ Fate[s] = "open"
        /\ Fate' = [Fate EXCEPT ![s] = "ignored"]
    BY <1>1, <2>1 DEF Fate, TypeOK
  <2>5. Delivery!Ignore(s)
    BY <1>2, <2>2, <2>3, <2>4 DEF Delivery!Ignore, Fate, Answer
  <2> QED BY <2>5 DEF Delivery!Next
<1>5. CASE TrySend(s) /\ Accepts
  <2>1. /\ span' = [span EXCEPT ![s] = "accepted"] /\ span[s] = "checked"
        /\ channel' = Append(channel, s) /\ drop_count' = drop_count
        /\ rx_open
    BY <1>5 DEF TrySend, Accepts
  <2>2. Queue' = Append(Queue, s) BY <1>1, <1>2, <2>1, SentIsLast
  <2>3. /\ Fate[s] = "open"
        /\ Fate' = [Fate EXCEPT ![s] = "accepted"]
    BY <1>1, <2>1 DEF Fate, TypeOK
  <2>4. Delivery!Accept(s)
    BY <1>2, <2>1, <2>2, <2>3 DEF Delivery!Accept, Fate, Answer
  <2> QED BY <2>4 DEF Delivery!Next
<1>6. CASE TrySend(s) /\ ~Accepts
  <2>1. /\ span' = [span EXCEPT ![s] = "dropped"] /\ span[s] = "checked"
        /\ channel' = channel /\ drop_count' = drop_count + 1
    BY <1>6 DEF TrySend
  <2>2. Queue' = Queue BY <1>2, <2>1 DEF Queue
  <2>3. /\ Fate[s] = "open"
        /\ Fate' = [Fate EXCEPT ![s] = "dropped"]
    BY <1>1, <2>1 DEF Fate, TypeOK
  <2>4. Delivery!Refuse(s)
    BY <1>2, <2>1, <2>2, <2>3 DEF Delivery!Refuse, Fate, Answer
  <2> QED BY <2>4 DEF Delivery!Next
<1> QED BY <1>3, <1>4, <1>5, <1>6

\* The deadline and the drop are invisible to the contract.
LEMMA RefineHandles ==
  ASSUME DeadlineElapses \/ DropSender \/ DropShutdownState
  PROVE  UNCHANGED Mapped
BY DEF DeadlineElapses, DropSender, DropShutdownState, workerVars, exports,
       intake, calls, Mapped, Fate, Queue, Answer

\* A call that has not returned answers when it returns, and answers "flushed"
\* only over a closed and empty queue.
LEMMA AnswerGiven ==
  ASSUME ControlInv, UNCHANGED <<workerVars, drop_count>>, NEW c \in Callers,
         NEW state, Goto(c, state), caller[c] \notin Returned,
         state = "flushed" => phase = "done"
  PROVE  Delivery!Next \/ UNCHANGED Mapped
<1>1. /\ Fate' = Fate /\ Queue' = Queue /\ rx_open' = rx_open
  BY DEF workerVars, exports, Fate, Queue
<1>2. caller' = [caller EXCEPT ![c] = state]
      /\ caller \in [Callers -> {"idle"} \cup Calling \cup Returned]
  BY DEF Goto, ControlInv, TypeOK
<1>3. CASE state \notin Returned
  <2>1. Answer' = Answer BY <1>2, <1>3 DEF Answer
  <2> QED BY <1>1, <2>1 DEF Mapped
<1>4. CASE state \in Returned
  <2>1. /\ Answer[c] = "none"
        /\ Answer' = [Answer EXCEPT ![c] = state]
    BY <1>2, <1>4 DEF Answer
  <2>2. ASSUME state = "flushed" PROVE ~rx_open /\ Queue = <<>>
    <3>1. ~rx_open /\ channel = <<>> /\ batch = <<>> /\ exporting = <<>>
      BY <2>2 DEF ControlInv, WorkerControl, ExportSized, Polling, Exporting
    <3>2. <<>> \in Seq(Spans) BY EmptySeq
    <3> QED BY <3>1, <3>2, ConcatEmptySeq DEF Queue
  <2>3. Delivery!Answer(c, state)
    BY <1>1, <2>1, <2>2 DEF Delivery!Answer, Fate, Answer
  <2> QED BY <1>4, <2>3 DEF Delivery!Next, Returned
<1> QED BY <1>3, <1>4

\* The steps of a shutdown call are answers or stutters.
LEMMA RefineShutdown ==
  ASSUME ControlInv, Shutdown PROVE Delivery!Next \/ UNCHANGED Mapped
<1> PICK c \in Callers :
      \/ ShutdownTakes(c) \/ ShutdownStoresInactive(c) \/ ShutdownSignals(c)
      \/ ShutdownPollsWorker(c) \/ ShutdownPollsTimer(c)
      \/ ShutdownCancelled(c)
  BY DEF Shutdown
<1>1. /\ UNCHANGED <<workerVars, drop_count>>
      /\ caller[c] \notin Returned
      /\ \E state : Goto(c, state) /\ (state = "flushed" => phase = "done")
  <2> USE DEF intake, Returned
  <2>1. CASE ShutdownTakes(c)          BY <2>1 DEF ShutdownTakes
  <2>2. CASE ShutdownStoresInactive(c) BY <2>2 DEF ShutdownStoresInactive
  <2>3. CASE ShutdownSignals(c)        BY <2>3 DEF ShutdownSignals
  <2>4. CASE ShutdownPollsWorker(c)    BY <2>4 DEF ShutdownPollsWorker
  <2>5. CASE ShutdownPollsTimer(c)     BY <2>5 DEF ShutdownPollsTimer
  <2>6. CASE ShutdownCancelled(c)      BY <2>6 DEF ShutdownCancelled
  <2> QED BY <2>1, <2>2, <2>3, <2>4, <2>5, <2>6
<1> QED BY <1>1, AnswerGiven

\* Behind a front of a sequence comes the rest of it.
LEMMA RestOfConcat ==
  ASSUME NEW h \in Seq(Spans), NEW x \in Seq(Spans)
  PROVE  SubSeq(h \o x, Len(h) + 1, Len(h \o x)) = x
<1>1. /\ Len(h) \in Nat /\ Len(x) \in Nat /\ h \o x \in Seq(Spans)
      /\ Len(h \o x) = Len(h) + Len(x)
  BY LenProperties, ConcatProperties
<1>2. CASE x = <<>>
  <2>1. h \o x = h BY <1>2, ConcatEmptySeq
  <2>2. Len(h) + 1 > Len(h) BY <1>1
  <2> QED BY <1>1, <1>2, <2>1, <2>2, SubSeqEmpty
<1>3. CASE x # <<>>
  <2>1. Len(x) # 0 BY <1>3, EmptySeq
  <2>2. /\ Len(h) + 1 \in Len(h) + 1 .. Len(h) + Len(x)
        /\ Len(h) + Len(x) \in Len(h) + 1 .. Len(h) + Len(x)
    BY <1>1, <2>1
  <2>3. SubSeq(h \o x, Len(h) + 1, Len(h) + Len(x)) = SubSeq(x, (Len(h) + 1) - Len(h), (Len(h) + Len(x)) - Len(h))
    BY <2>2, SubSeqOfConcat2
  <2>4. (Len(h) + 1) - Len(h) = 1 /\ (Len(h) + Len(x)) - Len(h) = Len(x)
    BY <1>1
  <2> QED BY <1>1, <2>3, <2>4, SubSeqFull
<1> QED BY <1>2, <1>3

\* The answer of an export settles the front of the queue, as many spans as
\* the export held.
LEMMA RefineExport ==
  ASSUME ControlInv, AnyExportReturns, UNCHANGED <<drop_count, caller>>
  PROVE  Delivery!Next
<1> DEFINE n == Len(exporting)
           rest == batch \o channel
<1>1. PICK f \in {"exported", "failed"} : ExportReturns(f)
  BY DEF AnyExportReturns
<1>2. /\ span' = [s \in Spans |-> IF s \in Range(exporting) THEN f ELSE span[s]]
      /\ exporting' = <<>> /\ UNCHANGED <<channel, batch, rx_open>>
      /\ phase \in Exporting
  BY <1>1 DEF ExportReturns, Settle
<1>3. /\ exporting \in Seq(Spans) /\ rest \in Seq(Spans)
      /\ Queue = exporting \o rest /\ Queue \in Seq(Spans)
  BY QueueRange DEF ControlInv, TypeOK
<1>4. Queue' = rest
  <2>1. <<>> \in Seq(Spans) /\ batch \in Seq(Spans) /\ channel \in Seq(Spans)
    BY EmptySeq DEF ControlInv, TypeOK
  <2>2. <<>> \o batch = batch BY <2>1, ConcatEmptySeq
  <2> QED BY <1>2, <2>2 DEF Queue
<1>5. n \in 1..BatchLimit BY <1>2 DEF ControlInv, ExportSized
<1>6. SubSeq(Queue, 1, n) = exporting BY <1>3, FrontOfConcat
<1>7. SubSeq(Queue, n + 1, Len(Queue)) = rest BY <1>3, RestOfConcat
<1>8. n <= Len(Queue)
  <2>1. /\ Len(Queue) = n + Len(rest) /\ n \in Nat /\ Len(rest) \in Nat
    BY <1>3, LenProperties, ConcatProperties
  <2> QED BY <2>1
<1>9. Fate' = [s \in Spans |-> IF s \in Range(exporting) THEN f ELSE Fate[s]]
  BY <1>2 DEF Fate
<1>10. Delivery!Range(exporting) = Range(exporting) BY DEF Delivery!Range, Range
<1>11. Delivery!Settle(n, f)
  BY <1>2, <1>4, <1>6, <1>7, <1>9, <1>10 DEF Delivery!Settle, Fate
<1> QED BY <1>5, <1>8, <1>11 DEF Delivery!Next

\* The death of the worker loses the queue.
LEMMA RefineDeath ==
  ASSUME ControlInv, WorkerDies, UNCHANGED <<drop_count, caller>>
  PROVE  Delivery!Next
<1>1. /\ span' = [s \in Spans |-> IF s \in InFlight THEN "discarded" ELSE span[s]]
      /\ rx_open' = FALSE
      /\ channel' = <<>> /\ batch' = <<>> /\ exporting' = <<>>
  BY DEF WorkerDies, Settle
<1>2. Queue' = <<>>
  <2>1. <<>> \in Seq(Spans) BY EmptySeq
  <2> QED BY <1>1, <2>1, ConcatEmptySeq DEF Queue
<1>3. Delivery!Range(Queue) = InFlight
  BY QueueRange DEF Delivery!Range, Range, ControlInv
<1>4. Fate' = [s \in Spans |-> IF s \in InFlight THEN "discarded" ELSE Fate[s]]
  BY <1>1 DEF Fate
<1>5. Delivery!Crash
  BY <1>1, <1>2, <1>3, <1>4 DEF Delivery!Crash, Fate
<1> QED BY <1>5 DEF Delivery!Next

\* Every other step of the worker closes the queue or stutters.
LEMMA RefineWorker ==
  ASSUME ControlInv, Worker PROVE Delivery!Next \/ UNCHANGED Mapped
<1>1. UNCHANGED <<drop_count, caller>>
  BY DEF Worker, pipelineVars, intake, calls
<1>2. rx_open' \in {rx_open, FALSE}
  BY DEF Worker, WorkerStep, PollShutdown, Recv, RecvNone, RecvPending, Tick,
         TickPending, DrainRecv, DrainNone, AnyExportReturns, ExportReturns,
         WorkerDies, ScheduleDelayElapses, StartDrain
<1>3. CASE Queue' = Queue /\ span' = span
  <2>1. Fate' = Fate /\ Answer' = Answer BY <1>1, <1>3 DEF Fate, Answer
  <2>2. CASE rx_open' = rx_open
    BY <1>1, <1>3, <2>1, <2>2 DEF Mapped
  <2>3. CASE rx_open /\ rx_open' = FALSE
    <3>1. Delivery!Close
      BY <1>1, <1>3, <2>1, <2>3 DEF Delivery!Close, Fate, Answer
    <3> QED BY <3>1 DEF Delivery!Next
  <2>4. rx_open \in BOOLEAN BY DEF ControlInv, TypeOK
  <2> QED BY <1>2, <2>2, <2>3, <2>4
<1>4. CASE AnyExportReturns BY <1>1, <1>4, RefineExport
<1>5. CASE WorkerDies BY <1>1, <1>5, RefineDeath
<1> QED BY <1>3, <1>4, <1>5, WorkerMoves

\* Every step of the pipeline is a step of the contract or leaves what the
\* contract knows unchanged.
LEMMA RefineStep ==
  ControlInv /\ [Next]_vars => [Delivery!Next]_(Delivery!vars)
<1> SUFFICES ASSUME ControlInv, [Next]_vars
             PROVE  Delivery!Next \/ UNCHANGED Mapped
  BY MappedVars
<1>1. CASE UNCHANGED vars
  BY <1>1 DEF vars, workerVars, pipelineVars, exports, intake, calls, Mapped,
              Fate, Queue, Answer
<1> QED
  BY <1>1, RefineSend, RefineShutdown, RefineHandles, RefineWorker DEF Next

\* The pipeline keeps the delivery contract: whatever the order in which
\* senders, the worker, shutdown calls, the clock and the drop take their
\* steps, a span that is sent is ignored, refused and counted, or queued;
\* queued spans are settled oldest first, at most a batch at a time; and a
\* shutdown call answers "flushed" only over a closed, empty queue.
THEOREM DeliveryCorrect == Spec => ImplementsDelivery
<1>1. Spec => Delivery!Init /\ [][Delivery!Next]_(Delivery!vars)
  BY RefineInit, RefineStep, ControlCorrect, PTL DEF Spec
<1> QED BY <1>1 DEF ImplementsDelivery, Delivery!Spec
=============================================================================
