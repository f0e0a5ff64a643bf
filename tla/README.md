# A TLA+ verification of auspex

`auspex` gives an axum or tower service OpenTelemetry traces: a middleware opens
a root span for every HTTP request, a `tracing_subscriber` layer turns tracing
spans into finished OTEL spans, and a background worker batches them and posts
them to an OTLP or Zipkin collector. These modules specify that system, TLC
checks them on small instances, and TLAPS proves the pipeline, its refinement,
the HTTP poster, spans, requests and what their spans contain, the configuration
and what the exporters make of a span, for every value of their constants. Paths below are relative to the crate
(`src/...` is `src/src/...` from here).

## 1. The system

| Component | State | Operations | Interacts with |
|---|---|---|---|
| **Pipeline** (`pipeline.rs`) | `active`, `drop_count`, the mpsc sender, `Mutex<Option<ShutdownState>>` | `from_config`, `send`, `shutdown`, `is_enabled`, drop | called by the layer on every closed span and by the middleware on every request; feeds the worker through a channel of 2048; signals it through a oneshot; awaits its join handle |
| **Batch worker** (`exporter/batch.rs`) | receiver, batch, flag `has_pending_batch`, interval | `run` (biased select), `drain_and_flush`, `flush` | reads the channel, awaits an `Exporter` |
| **HTTP poster** (`exporter/http.rs`, `retry.rs`) | attempt counter | `post_with_retry`, `send_once`, `delay_for` | the collector, over a network that loses and delays |
| **OTLP / Zipkin exporters** | endpoint, resource | `export` (pure mapping, then the poster) | called by `flush` |
| **OtelSpan, field visitors** (`span.rs`, `field.rs`) | attributes (16), events (8), links (4), drop counters, status | `record`, control fields, `end`, `finish` | lives in the registry's span extensions, written by the layer |
| **OtelLayer** (`layer.rs`) | `OtelSpan` and `SpanContext` in the extensions | `on_new_span`, `on_record`, `on_event`, `on_follows_from`, `on_close` | callbacks of the registry, on any thread; hands spans to the pipeline |
| **Middleware** (`middleware.rs`) | a `Span` handle inside each `ResponseFuture` | `call`, `poll`, drop | enters the root span around every poll of the handler |
| **Configuration** (`config.rs`, builder in `middleware.rs`) | `Config`, the builder's options | `from_env`, setters, `build`, `new`, `try_new`, `from_config`, `try_from_config` | decides whether a pipeline is built and where it exports |
| **Propagation** (`propagation/`, `context.rs`) | none | parse `traceparent` / `tracestate`, generate identifiers | middleware and layer |
| **Generated protobuf, `lib.rs`, `error.rs`, test exporter** | none | `init` (= `try_new` + global subscriber) | |

The life of a request ties them together: the middleware reads `traceparent`,
redacts the query and opens a root span whose declared fields carry the remote
parent to the layer; the layer keeps an `OtelSpan` beside the span, applies every
later field and event to it, and on close hands a snapshot to the pipeline; the
worker batches the snapshots; an exporter maps a batch to a message and the poster
delivers it.

What is hard about it, component by component, and what makes each correct:

* **Pipeline and worker.** Any number of threads call `send` while tasks call
  `shutdown`, the last handle is dropped, the schedule timer fires and an export
  fails, hangs or panics. `send` reads `active` and only later reserves a slot;
  `shutdown` takes its state, clears the flag, signals, and waits in four steps.
  Correct means: each accepted span reaches the exporter exactly once and in
  order, or is accounted for; nothing is forgotten in a drain; partial batches
  neither leave early nor stay for ever; `shutdown` returns, and its answer can
  be relied on.
* **HTTP poster.** A request that timed out may have been stored and may be
  answered after its retry was sent. Correct means: success implies stored, only
  transient outcomes are retried, the number of attempts and the time slept are
  bounded, and the export ends.
* **Spans.** Budgets that are full, keys recorded again, protected keys that evict
  others, status fields and error events in any order. Correct means: unique keys
  with their latest values, the promised attributes present, no silent loss.
* **Requests.** Polls of many requests interleave on threads; spans are reference
  counted, handed to other tasks, closed on other threads; handlers panic and
  clients go away. Correct means: traces do not mix, inbound contexts reach every
  span they should, a root carries its whole outcome, parents follow children.
* **Contents of a request's span.** Headers written by anybody, credentials in
  queries and answers, a budget that captured headers can exhaust, errors logged
  before and after the answer. Correct means: the inbound context arrives intact or
  not at all, secrets stay out, the outcome and its explanation survive.
* **Exporters.** Optional fields, two units of time, names that collide in a map.
  Correct means: a collector reads back the span that was closed, and both
  protocols tell it the same story.
* **Configuration.** Several sources for each setting and setters in any order.
  Correct means: the last valid word wins, and nothing is exported to a sink that
  nobody asked for.

## 2. The modules

| Module | Models | Kind |
|---|---|---|
| `BatchWorker` | `BatchWorker::run`, `drain_and_flush`, `flush`, tokio's channel, oneshot and interval as far as the worker uses them | component |
| `Pipeline` | `Pipeline`: construction, senders, shutdown callers, drop; EXTENDS `BatchWorker` and closes the system | component, composition |
| `SpanDelivery` | what the pipeline promises, without channel, worker or timers | abstract specification |
| `PipelineProperties` | invariants, the inductive invariant, fairness, liveness, refinement of `SpanDelivery` | properties |
| `PipelineProofs` | invariants of the pipeline (section 5) | proofs |
| `PipelineRefinement` | the pipeline implements `SpanDelivery`; EXTENDS `PipelineProofs` | proofs |
| `HttpPosterProofs`, `OtelSpanProofs`, `SpanExportProofs`, `RequestSpanProofs`, `RequestTracingProofs`, `TracerConfigProofs` | the invariants of those components | proofs |
| `HttpPoster` | one export with its retries, network and collector | component |
| `SpanRecord` | the record of a span and what the field visitors and callbacks do to it, as operators from a span to a span | pure |
| `OtelSpan` | one live span under any sequence of callbacks; EXTENDS `SpanRecord` | component |
| `Exporters` | the OTLP request and the Zipkin payload of a batch | pure |
| `SpanExport` | a closed span through both exporters, and a collector that reads the messages; EXTENDS `OtelSpan`, `Exporters` | composition |
| `TraceContext` | identifiers, `traceparent`, `tracestate`, the `remote.*` fields | pure |
| `RequestSpan` | the contents of one request's root span, from its headers to the record that is exported; EXTENDS `SpanRecord`, `TraceContext` | composition of middleware, propagation, layer and span |
| `RequestTracing` | requests, their futures, spans over many threads, the registry | composition of middleware and layer |
| `TracerConfig` | environment, setters, constructors | component |
| `MCPipeline`, `MCOtelSpan`, `MCRequestSpan`, `MCRequestTracing`, `MCTracerConfig` | constants and symmetry for TLC | instances |

### How state and actions correspond to the code

**BatchWorker.** `select!` is biased, so one pass is up to three actions
(`PollShutdown`, then `Recv`/`RecvNone`/`RecvPending`, then `Tick`/`TickPending`)
and other tasks may run between them. `flush` is split at its only await:
`StartExport` (part of the action that decides to flush) and `ExportReturns`,
which settles the batch and returns to where `flush` was called; `phase` holds
the place. `WorkerDies` is a panic of the exporter or the end of the runtime. The
interval is `ticker`; `ScheduleDelayElapses` is tokio's clock.

**Pipeline.** `send` is `SendChecksActive` then `TrySend`; the two halves may
be far apart. `shutdown` is `ShutdownTakes`, `ShutdownStoresInactive`,
`ShutdownSignals`, then `ShutdownPollsWorker` and `ShutdownPollsTimer` in the
order `tokio::time::timeout` polls them; the future may be dropped at its await
(`ShutdownCancelled`). The last handle goes in field order: `DropSender`, then
`DropShutdownState`. `span` records the fate of every span, `accepted`, `handed`
and `aged` are history variables.

**HttpPoster.** `Send`, `ReadAnswer`, `TransportError` (which stands for an error
and for the client's own timeout) and `Wake` are the client; `Process` and
`Lose` are the collector and the network, which act on any request that is still
travelling, the abandoned ones too. Jitter is a choice from `0..Ceiling`.

**SpanRecord, OtelSpan.** Each callback is one action, since the registry holds
the lock of the span's extensions around it. `Record` is `OtelSpan::record`, used
by every path of the code that uses it, the two inner calls of an error event
included (`MarkFailed`). `HandleField` is `FieldVisitor`: a field carries the `Visit`
method it arrives by (`by`), because control fields count only as strings, and a
`u64` that no `i64` holds (`Wide`) becomes text. `Visited` is `EventVisitor`, which
has no method for floats and takes a message for the name only as a string. A
value is held with the text `to_string` makes of it. The budgets are constants.

**Exporters, SpanExport.** One operator for each conversion function of
`otlp_http.rs` and `zipkin.rs`, down to the units of time, the clamping, the
optional fields and the order in which tags are laid over each other.
`SpanExport` gives the closed span two identities (`Heads`: a sampled root, and an
unsampled child with a tracestate that starts before the epoch and ends beyond the
largest time) and reads the messages back with operators of its own.

**TraceContext, RequestSpan.** A header is the sequence of its parts; a part keeps
its length, whether it is hex, the number it writes and its case, which is all the
parsers look at. `Call` is `TracerService::call` with `build_root_span` and
`on_new_span`; `Answer` is the ready branch of `ResponseFuture::poll`;
`HandlerEvent` and `HandlerRecord` are what the handler, or a task it left behind,
does to the span, before the answer or after it: it may record any field the root
declares (`DeclaredFields`), also one that has its value, such as `url.query`, or one
the answer has just recorded. `Answer` makes its records in one step; what a task on
another thread does between two of them has the effect of coming before or after
(`RequestTracing` separates them). `RecordField` is `Span::record`, which ignores a
field the span did not declare, and `RecordFields` the records of a callback one after the
other, each a value that may be absent. `Secrets` are the texts that only credentials
have in the inputs; `SecretsAssumption` says where they may stand: in the query, and in
the headers the standards name (`CredentialHeaders`), whatever the deny list of the
code is. Nothing forbids a handler to write over what the middleware records: if it
writes the route, the status code, `error.type` or the slot of the captured headers
(`Meddled`), `OutcomeKept` does not apply; if it writes `url.query`, the query part of
`SecretsStayOut` does not; if a status is recorded after the answer, `FailureExplained`
does not. Percent-decoding and lower-casing belong to libraries and are tables
(`Decoded`, `Lower`). The pipeline is enabled and the layer installed.

**RequestTracing.** `Call` is `TracerService::call`; `Poll` enters the root span,
`PollPending`, `PollReady`, `RecordField`, `PollReturns` and `PollPanics` are the
ways through the rest of the poll; `DropFuture` is the end of the future or its
cancellation. `OpenSpan` is `on_new_span` with its parent resolution, `OnClose`
is `on_close` and the second look at the pipeline's flag. The registry
(stacks of entered spans, reference counts, close when the last reference
goes) and the program's own use of spans (`StartSpan`, `EnterSpan`, `ExitSpan`,
`CloneCurrent`, `DropHandle`) are not in this repository; they are modelled from
how the layer depends on them. The registry runs the close of a span together
with the drop of its last reference; here `OnClose` is an action of its own, so
all orders of closing are covered.

**TracerConfig.** `FromEnv` is `Config::from_env`; each setter is an action on the
`Config` being set up (`own`), with the builder's options in `knobs`; `Overlay` is
the body of `build`; `New`, `TryNew`, `FromConfig`, `TryFromConfig` and `Build`
are the constructors, and the operator `Pipeline` decides whether a worker is
started. Strings are trimmed values; URIs keep their scheme and a host that tells
the sources apart, and an endpoint keeps how its path is completed. The loops of
`parse_kv_pairs` and `with_resource_attributes` are recursive functions over the
positions of a list. `calls` and `entries` are history: the setter calls and the
resource attributes they brought.

## 3. What the runs check

| Run | Instance | Distinct states | What it shows |
|---|---|---|---|
| `pipeline_safety` | 4 spans, 2 callers, capacity 2, batches of 2 | 115,745 | the safety properties of the pipeline and `ImplementsDelivery` |
| `pipeline_live` | 3 spans, 1 caller, capacity 2, batches of 2, exports may hang | 111,689 | `ShutdownReturns`, and `AcceptedSettles`, `DropStopsWorker` where exports end |
| `pipeline_true_means_flushed` | 2 spans, 2 callers | (violation) | `TrueMeansFlushed` |
| `http_poster` | 3 retries, base 2, cap 3, 2-bit multiplier | 517,540 | safety of the retries, and `PostReturns` |
| `otel_span` | budgets 2/1/1, 13 fields, 4 events, 5 calls, batch of 2 | 733,860 | budgets, status, both exporters |
| `span_zero_dropped`, `span_pending_message`, `span_event_message` | the same, 4 calls | (violations) | `ZeroMeansNoneDropped`, `PendingMessagePickedUp`, `MessageNamesEvent` |
| `request_tracing` | 2 requests, 2 threads, 3 spans, depth 2, 1 kept handle | 1,362,801 | traces stay apart, inbound contexts; exports complete, once, children first |
| `request_span` | 32 requests, 6 answers, 2 acts of the handler, the real budgets 16/8/4 | 65,857 | propagation, redaction, header capture, outcome |
| `tracer_config` | 512 environments, with and without runtime, 2 setter calls | 1,556,656 | precedence, activation, off means off |
| `config_builder_sink` | the same | (violation) | `BuilderSinkWins` |

The properties, in words:

* `FifoConservation`: what was handed to the exporter, the batch and the channel
  are, in that order, the accepted spans. `AcceptedIffInFlight`: a span counts as
  accepted exactly while it is in one of the three. `PendingIffBatch`: the ticker
  branch is armed exactly over a batch. `ExportSized`: between one and
  `max_batch` spans per export, in the drain too. `FlushedMeansDrained`: a caller
  that waited and got `true` left nothing behind. `OneShutdownOwner`: one caller
  waits, and the flag is cleared before the signal. `PartialExportJustified`: a
  short batch leaves only after the delay or in the final drain.
  `ImplementsDelivery`: refinement of `SpanDelivery`.
* `AcceptedSettles`, `DropStopsWorker`: if every export comes to an end, an accepted
  span is settled and a dropped pipeline stops its worker. `ShutdownReturns`: every
  call of `shutdown` comes back, whatever the exporter does.
* `OkMeansStored`, `ResentOnlyIfTransient`, `GivesUpWhenSpent`, `BackoffBudget`,
  `PostReturns`: the export over HTTP.
* `StoredIsLatest`, `ProtectedKept`, `LossAccounted`, `EarliestKept`,
  `FirstErrorExplains`: one span. `OtlpFaithful`: a collector reads the closed span
  back from the OTLP request, every field of it. `ExportersAgree`: the Zipkin
  message says the same of identity, parent, attributes, failure, events and
  interval.
* `ContextArrives`: what a W3C peer may send is adopted, the rest starts a trace of
  its own, and what was read is written back to the same context. `SecretsStayOut`:
  no credential in the query or in a header, and nothing else is redacted, as long as
  the handler does not record a query of its own.
  `OutcomeKept`: status code, route and error type survive any number of captured
  headers. `FailureExplained`: a failed request is exported as failed unless a status
  is recorded after the answer, and with the message of its first error event if the
  handler recorded no field before it.
* `TracesSeparate`, `InboundAdopted`, `OutcomeExported`, `ChildrenFirst`: requests.
  `TracesSeparate` excepts a request that was polled by a thread already inside its
  root (`shadowed`), see section 4.
* `ActiveIffUsable`, `LastSetterWins`, `AttributesOverlaid`, `OffMeansOff`:
  configuration, against definitions that look only at the history of calls and
  the environment.

### Bounds, and why they are enough

* *Pipeline.* With capacity and batch size 2 and four spans the channel fills,
  a batch fills while others wait, a partial batch is left, and spans are refused;
  two callers are all that may interact, since only one finds the state. The
  proofs remove these bounds for the safety properties.
* *HttpPoster.* Three retries exceed the two of the code; base 2, cap 3 and a
  2-bit word reach the cap, the largest shift and the saturated multiplier.
* *OtelSpan.* Budgets of 2, 1 and 1 are full after few calls; three protected keys
  exceed the attribute budget, so eviction, a full budget of protected keys, and
  the two keys of an error event all meet. `MaxCalls` bounds behaviours to five
  calls (four in the runs that look for one short behaviour): two fill the budget,
  one evicts, one brings an error, one follows it. `MaxWord` of 15 and two
  nanoseconds to a microsecond reach every rounding and both clamps.
* *RequestSpan.* The real capacities. One dimension of a request is unusual at a
  time: 17 forms of `traceparent`, five of `tracestate`, repeated and unreadable
  headers, four queries, missing route and host. Fourteen headers match a prefix,
  more than fit. `MaxHandled` is two: an error, or a field the handler writes, and
  something after it, with the answer before, between or behind.
* *RequestTracing.* `MaxDepth` bounds the spans entered on a thread, `MaxHeld` the
  handles the program keeps, `MaxOwn` the spans it starts itself, `MaxTotal` the
  requests and spans together: two requests with their roots on two threads, the least
  that can leak into one another, or one request with a root, a child and a
  grandchild or sibling. Handlers end in an error, which records two
  fields with room for other tasks between them, and inbound contexts are unsampled,
  which is not the default. The program is well behaved: a handler uses the spans of
  its own request, other tasks those they were given a handle of. Depth 2 is not
  enough for every way in which stacks can mislead (section 4 has one that takes 3);
  the proof covers every depth.
* *TracerConfig.* `MaxCalls` is two: each setting has at most an environment, an
  earlier and a later value. The numeric knobs use the real limits.

`CHECK_DEADLOCK FALSE` everywhere: each of these systems may legitimately stop
(the pipeline after shutdown, a span once closed, and so on).

### Fairness

`WorkerFairness`: the tokio runtime polls a task that is ready. `ClockFairness`: time
passes. `CallFairness`: a thread inside `send`, or a task inside `shutdown`, is
scheduled again; nothing forces a *first* call. `ExportFairness`: an export comes
to an end, which is what `PostReturns` shows of the HTTP poster, whose client has
a timeout of ten seconds (`EXPORT_TIMEOUT`). `FairSpec` does not assume it: it is the
antecedent of `AcceptedSettles` and `DropStopsWorker`, and `ShutdownReturns` holds
without it. One caller is enough for liveness: of several, only one finds the
shutdown state (`OneShutdownOwner`, proved), the others return at once. `WF_vars(DropShutdownState)`: drop glue runs to its end. In
`HttpPoster` the client alone is fair, network and collector are not. All are weak
fairness. The other modules have no liveness properties.

## 4. Disagreements between the code and what is said of it

1. `TrueMeansFlushed`: `pipeline.rs:143` says `shutdown` returns `true` if everything
   flushed. A second caller returns `true` at once, also while the first still
   waits or after it timed out or was cancelled (`pipeline.rs:153`).
2. `ZeroMeansNoneDropped`: an attribute evicted for a protected one is not counted
   (`span.rs:246`), although the protocol says a count of 0 means none was dropped.
3. `PendingMessagePickedUp`: a status message recorded before the error status is
   thrown away (`field.rs:141`); the comment there says it is picked up later.
4. `BuilderSinkWins`: `with_sink_uri` of a URI that does not resolve leaves the
   earlier endpoint and exporter (`config.rs:425`), so the tracer exports to the
   sink of the environment although the builder was given another.

5. `MessageNamesEvent`: `field.rs:184` says the message of an event is its name. That
   holds only of a message recorded as a string; the message of an ordinary
   `info!("text")` arrives through `record_debug`, which drops it (`field.rs:210`), so
   the event is exported under the name of its callsite without its text, and an
   `error!("text")` explains its span with that name too.

Seen while modelling, without a run:

* Error events store `otel.status_code` and `otel.status_message` as attributes
  (`layer.rs:137`, `OnEvent` in `OtelSpan`); `field.rs:149` says such fields are never
  stored or exported. They also take up to two places of the budget.
* In a builder, a `service.name` resource attribute is promoted before the
  environment is looked at and then overrides `OTEL_SERVICE_NAME`, which
  `config.rs:466` says always wins (`ChosenName` in `TracerConfig` states what
  happens).
* `resolve_endpoint`'s doc (`config.rs:165`) expects fallible constructors to surface
  an unsupported scheme; `from_env` swallows the error and `try_new` returns a
  disabled tracer.
* A set but blank `OTEL_SINK_URI` hides the OTLP endpoint variables.
* A task the handler left behind holds the root span after the answer, and what it
  records counts: `otel.status_code` = `ok` after a 5xx replaces the error status
  (`field.rs:132`), and the root, whose `error.type` stays, is exported as not failed.
  `FailureExplained` therefore speaks of requests without a later status. In the same
  way a handler that records `url.query` replaces the redacted query by its own text,
  which nothing redacts; `SecretsStayOut` says so.
* A request whose `call` runs inside an entered span joins that span's trace and
  ignores its inbound `traceparent` (`layer.rs:43`), though `README.md:164` says each
  request becomes a root span; `InboundAdopted` therefore speaks of roots opened
  outside every span. A span with `parent: None` finds the current span as well.
* `tracing-subscriber` does not count a span that is entered again on the same
  thread. If a program enters a request's root itself, polls another request below
  it, and that one polls the first, the second root is current inside the poll of the
  first: what the handler opens there joins the other trace. TLC finds the three
  entries at `MaxDepth = 3` when `TracesSeparate` does not except `shadowed` requests.
  It takes code that polls response futures from inside each other's spans; nothing in
  `middleware.rs` prevents it.
* `SystemTime` may step back between start and end: OTLP then exports an end before
  its start, Zipkin a duration of zero; `OtlpFaithful` and `ExportersAgree` speak of
  times in order.
* An attribute named `error` becomes Zipkin's error tag on a span that did not fail
  (`zipkin.rs:124`); producers and consumers are internal under OTLP, not under Zipkin.
* Captured headers `x-a` and `x_a` share one attribute key (`middleware.rs:637`).
* After the worker died the pipeline stays active; each later span is counted as
  dropped.

## 5. What is proved

Each theorem holds for every value of the constants that satisfies the named
assumptions. Eight modules hold them; every lemma says in a comment what it is for.

### The pipeline (`PipelineProofs`, `PipelineRefinement`)

For every set of spans and callers, every `Capacity >= 1` and every `MaxBatch`, zero
included (`CapacityAssumption`, `MaxBatchAssumption`):

| Theorem | Statement |
|---|---|
| `TypeCorrect` | `Spec => []TypeOK` |
| `ControlCorrect` | `Spec => []ControlInv` |
| `FifoCorrect` | `Spec => []FifoConservation` |
| `PlaceCorrect` | `Spec => [](AcceptedIffInFlight /\ QueueDistinct)` |
| `PendingCorrect`, `SizedCorrect`, `OwnerCorrect`, `FlushedCorrect` | the invariants of those names |
| `PartialCorrect` | `Spec => PartialExportJustified`, an action property |
| `DeliveryCorrect` | `Spec => ImplementsDelivery`: the pipeline implements `SpanDelivery` |

The safety properties are not inductive alone. The inductive invariant `IInv` is
built in layers, each proved relative to the ones below:

1. `TypeOK` is inductive by itself.
2. `ControlInv` adds `WorkerControl` (in which phases the receiver is closed,
   the channel or the batch empty; a held batch is never full; a ticker that is due
   over an armed flag means the delay has passed) and `CallControl` (the shutdown
   state is there only while no call has found it; a call past its first steps
   implies `active` is clear; `flushed` implies the worker is done). From it follow
   `PendingIffBatch`, `ExportSized`, `OneShutdownOwner`.
3. `FifoConservation` needs control to know that a dead or finished worker's
   queues are empty.
4. `PlaceInv` pairs `AcceptedIffInFlight` with `QueueDistinct`: a step that
   settles an export may only mark the spans that left if no other copy is queued.
5. `FlushedMeansDrained` follows from the layers without a new induction, and
   `PartialExportJustified` holds of every step taken from `ControlInv`.

The refinement maps a span whose `send` has only read `active` to one that is still
open, the export, the batch and the channel to one queue, and a call to its
answer. Initial states map to initial states; each group of actions (senders,
worker, callers) maps to an action of `SpanDelivery` or a stutter, where the
invariants supply that what leaves an export is the head of the queue.

### The HTTP poster (`HttpPosterProofs`)

For every number of retries, base, cap and word size (`BackoffAssumption`):
`InvCorrect` (`Spec => []IInv`), and from it `TypeCorrect`, `OkCorrect`
(`OkMeansStored`), `ResendCorrect` (`ResentOnlyIfTransient`), `GivesUpCorrect`
(`GivesUpWhenSpent`), `BudgetCorrect` (`BackoffBudget`).

`IInv` says how many requests and outcomes there are in each phase as a function of
the attempt counter, with every counted outcome transient (`AttemptsCounted`); that a
request which carries a success was stored, so that late and lost answers cannot
matter (`SuccessStored`); and that the time slept stays below both `n * Cap` and
`Base * (2^n - 1)` after `n` sleeps (`SleptWithinSeries`). The provers know nothing of
`2^n` for a variable `n`; what is needed of it follows from the number of subsets of
`1..n`.

### A span (`OtelSpanProofs`)

For every capacity of the three budgets, every set of fields, events and contexts and
any number of calls: `InvCorrect`, `TypeCorrect`, `LatestCorrect` (`StoredIsLatest`),
`ProtectedCorrect` (`ProtectedKept`), `LossCorrect` (`LossAccounted`), `EarliestCorrect`
(`EarliestKept`), `FirstErrorCorrect` (`FirstErrorExplains`).

`IInv` relates the span to the history of calls: stored keys are distinct and carry
their latest values; either every protected key that was recorded is stored or the
budget is full of protected keys (`RoomForProtected`); the keys that are missing are
at most the drop count plus the protected keys that are stored, one of which took the
place of each uncounted victim; events and links are what came first, and nothing was
dropped while there was room. Overwriting, eviction and refusal are each a lemma about
`Record`, and an error event applies them for the two keys it records. The
assumptions say what Rust's types say: `FieldsAssumption` (a field arrives by one of
the `Visit` methods, an `i64` is not wide, and no captured header has the key of a
control field, since its key starts with `http.response.header.`), `EventsAssumption`
(a message is a text), `LiteralsAssumption` (`""` and `"error"` are strings, which TLC
knows and the provers do not).

### The exporters (`SpanExportProofs`)

For every capacity, every sequence of calls on a span, every batch of identities and
times, every configured resource and every width of the wire: `OtlpCorrect`
(`OtlpFaithful`), `ExportersCorrect` (`ExportersAgree`).

Both follow from the invariant of `OtelSpanProofs` and from one lemma per conversion.
`FinishIs`: `finish` keeps the identity and the record, for no field is in both.
`NanosAre`: a time that fits the wire is sent as it is, any other as the nearest that
fits, so their order survives. `ContentIs`, `TimesAre`: the message of a finished span
reads back as that span. `TagsAre`: a resource attribute yields to the span's, and
those to the exporter's two signals; here the proof needs that the keys of a span are
distinct, which is the invariant. `IntervalIs`: rounded start and rounded duration
never leave the interval OTLP tells by more than the microsecond they were rounded by.
`HeadsAssumption` and `ResourceAssumption` give identities, times and resource
attributes their types; `WordAssumption` says that a word has a maximum.

### Requests (`RequestTracingProofs`)

For every set of threads, of requests, every finite set of spans and every value of the
bounds, the depth of entered spans among them (`TracingAssumption`): `InvCorrect`,
`TypeCorrect`, `TracesCorrect` (`TracesSeparate`), `InboundCorrect` (`InboundAdopted`),
`OutcomeCorrect` (`OutcomeExported`), `ChildrenCorrect` (`ChildrenFirst`).

`IInv` has eight parts. `Typed`. `KeptOpen`: what has a handle, is entered, or has an
open child is open; `ChildrenFirst` rests on it. `RootsOwned`: a root belongs to one
request, whose future keeps a handle until it is dropped. `PollsNested` and
`PollsCount`: a poll is on one stack, once, inside its own root, and what the program
enters above it is that root or a span opened by the same request; a poll that is not
shadowed is the first entry of its root. They give `CurrentTrace`: what `on_new_span`
finds current inside a poll belongs to the request's trace. `Lineage` holds what traces
and parents follow from that. `OutcomeCarried`: the fields a root carries and those
still to be recorded are always the whole outcome, so a root can only be closed, and
exported, with all of it or with none. `SentClosed`: what was exported is closed, in an
order that children come first in. The induction brought out the shadowed roots of
section 4.

### The contents of a request's span (`RequestSpanProofs`)

For every attribute budget from eleven on, every budget of events and links, any set
of requests, answers, events and fields of the handler, any list of headers and
segments in them, and any number of acts of the handler: `InvariantAlways`
(`Spec => []IInv`), and from it `SecretsStayOutAlways`, `ContextArrivesAlways`,
`OutcomeKeptAlways`, `FailureExplainedAlways`, for the invariants of those names.

The assumptions describe the inputs. `CapAssumption`: eleven attributes hold the five
the middleware declares, route, user agent, host, and two of an error event with one
to spare, so that only captured headers can exhaust the budget (the code's is
sixteen); no header's key, which starts with `http.response.header.`, is one the
program uses otherwise. `RequestsAssumption` and `ResponsesAssumption`: lists are
sequences, what hex digits write is a number, an empty tracestate has no bytes, and a
header name has no `=`, so that the joined text is split where it was joined.
`SecretsAssumption`: the value of a query segment is a credential exactly if its
decoded name is one of the sensitive ones; the readable value of a response header is
one only if the header is among `CredentialHeaders`; no other input is. It does not
mention what the code captures, so a name dropped from the deny list breaks
`SecretsStayOut` and not the assumption (a mutant of the run does that).

`IInv` has five parts.

1. `Typed`: stages, inputs of the sets they come from, distinct attribute keys.
2. `AllClean`: every stored pair of a key and a value is free of secrets, and that of
   `url.query` is the redacted query or, if the handler wrote one, its own. It speaks of pairs, not of keys, because each
   record, eviction and overwriting only adds one pair and removes others
   (`RecordedPairs`, `RecordFieldsIs`).
3. `ContextRead`: the context is the one the headers carry. It does not change after
   `Call`, so the work is in what `Call` does: `ParseTraceparent` succeeds exactly on
   what `Readable00` describes, each remote field is found in the list of the declared
   ones, an identifier survives being written and parsed, and what was parsed is
   written back to the same.
4. `OutcomeRoom`: for sets `W` of keys that were recorded and `A` of keys that may be,
   all protected, `Room(a, W, A)` says that `W` is stored and that either all of `A` is
   or the budget is full of keys of `A`. It passes over any record of a key outside
   `A` (`RoomLeft`), over one of `A` (`RoomJoined`), and a wanted key gets its place
   as long as there are fewer wanted keys than places (`RoomWanted`). The route enters
   with `Call`, the outcome with the first fields of the answer, the headers last, by
   induction over their positions; counting the keys of a full budget gives the
   number of headers that `OutcomeKept` promises. The order matters: with the headers
   before the outcome the middle step fails, and TLC shows it as a mutant.
5. `StatusKept`: before the answer, if only events came, the span has failed exactly if
   one of them was an error, and the message of the first one, which `SelectInSeq` picks
   from the history however long it grows, waits among the attributes for the status
   the answer records (`Told`). After the answer a later event finds the status set,
   and a later field leaves it unless it is `otel.status_code` (`Retold`):
   `otel.status_message`, the only other field that could change it, is not among those
   a root declares (`DeclaredKeys`).

`RecordFields` is a recursive function; that it exists and takes each step is `LoopIs`,
and what holds at its end follows position by position (`FieldsInTurn`), as for the
loops of the configuration below.

### Configuration (`TracerConfigProofs`)

For every set of process environments, every set of arguments of the setters and any
number of calls: `TypeCorrect`, `ActiveCorrect` (`ActiveIffUsable`),
`LastSetterCorrect` (`LastSetterWins`), `AttributesCorrect` (`AttributesOverlaid`),
`OffCorrect` (`OffMeansOff`).

The code keeps only the current value of each setting; the properties speak of the
whole history of calls. `IInv` connects the two: the builder's `Config` and options
hold exactly what the calls so far say last, the first name and the last value of each
key of the resource attributes (`BuilderTold`); a `Config` of the program's own has an
endpoint only if it was turned on after it was turned off last (`OffTracked`). Then
each constructor is one lemma: `from_env` returns what the environment gives
(`FromEnvIs`), and `build` lays over it what the builder was told (`OverlayChosen`); a
sink that does not resolve leaves the environment's endpoint in place, which `Sited`
allows for (section 4).

What the loops compute is proved for lists of any length, by induction over the
positions: a property that holds at zero and passes from each position to the next
holds of all (`UpTo`, by a least counterexample, which needs no induction theorem with
an operator parameter). `ResourceAttributesAre` says that `with_resource_attributes`
promotes the first name that is given, if there was none, and leaves the last value of
each key; `ConcatEntries` that running it twice is running it once over both lists.
`ConfigAssumption` says that the absence of a value is none of the values, and
`ListsAssumption` that what comes as a list is a sequence and a limit in the
environment is a number or absent. `parse_kv_pairs` and the parsing of prefixes occur
on both sides of `ChosenHeaders` and `ChosenPrefixes`: of the former only is it proved
that what it keeps is a list of entries.

### Only model-checked

* All liveness (`AcceptedSettles`, `DropStopsWorker`, `ShutdownReturns`,
  `PostReturns`): fairness and ENABLED are beyond the prover.

Every safety property of section 3 that holds is a theorem of section 5.

No module declares a RECURSIVE operator.

## 6. Not modelled, and why

* Generated protobuf code, and the encodings of the messages to bytes, which belong
  to libraries (`prost`, `serde_json`); `Exporters` ends at the messages.
* `init` (a constructor of `TracerConfig` followed by the installation of a global
  subscriber), errors, the test exporter: glue, data and test support.
* Rendering of identifiers digit by digit, percent-decoding, ASCII case, the `Debug`
  form of a field: what the code's decisions depend on is kept, the characters are
  not.
* The construction of the HTTP client, rate limiting of warnings, jitter as a
  floating-point number (a choice from its range).
* Counter overflow of `drop_count` (a 64-bit `fetch_add`) and saturation of the
  32-bit drop counters of a span: out of reach of a run.
* Direct writes to the public fields of a `Config`.

## 7. Plan

Built so far, in the order of importance: the pipeline and its worker with the
abstract specification and the proofs; the HTTP poster; spans; requests;
configuration; propagation, the contents of a request's span, and the exporters.

Then the proofs of section 5: the pipeline and its refinement, the poster, spans,
requests, configuration, the exporters, the contents of a request's span.

Next:

1. `ExportChain`: `BatchWorker` over `HttpPoster`, so that `ExportFairness` is
   derived instead of assumed and a batch that fails is lost exactly once.
2. An abstract `SpanTree` for `RequestTracing` (a forest of spans with traces) and
   its refinement.
