------------------------------ MODULE Exporters ------------------------------
(* What the two network exporters make of a batch of finished spans: the    *)
(* OTLP request (otlp_http.rs) and the Zipkin spans (zipkin.rs).  Pure: the *)
(* transport below is HttpPoster, the batch above comes from BatchWorker.   *)
(* An identifier is named by its hex Display; an optional value is a        *)
(* sequence of at most one element, and so is a field JSON may omit.        *)
EXTENDS SpanRecord, Integers

CONSTANTS
  ServiceName,         \* configured service name, None when there is none
  ResourceAttributes,  \* configured sequence of [key, text]
  MaxWord,             \* u64::MAX
  NanosPerMicro        \* 1000

ASSUME WordAssumption == MaxWord \in Nat /\ NanosPerMicro \in Nat \ {0}
ASSUME ResourceAssumption == ResourceAttributes \in Seq([key : STRING, text : STRING])

None    == <<>>
Some(x) == <<x>>
DefaultServiceName == "unknown_service"
Service == IF ServiceName = None THEN DefaultServiceName ELSE ServiceName[1]

\* Function f laid over function g, and the function of one point; TLC's @@ and
\* :> mean the same, but have no definition the provers could expand.
Over(f, g) == [x \in DOMAIN f \cup DOMAIN g |-> IF x \in DOMAIN f THEN f[x] ELSE g[x]]
Only(x, y) == [z \in {x} |-> y]

\* OtelSpan::finish: the identity and the times fixed at creation and at
\* on_close (head), and the record as the last call left it.
Finish(head, span) == Over(head, span)

-----------------------------------------------------------------------------
(* OTLP.  Times count nanoseconds from the Unix epoch, and may precede it.  *)

\* Mutant: the conversion to u64 wraps around.
SystemTimeToNanosWraps(t) == t % (MaxWord + 1)

SystemTimeToNanos(t) == IF t < 0 THEN 0 ELSE Min({t, MaxWord})

Bytes(id) == <<id>>
OrEmpty(option, empty) == IF option = None THEN empty ELSE option[1]

AnyValue(v) ==
  [case |-> CASE v.type = "String" -> "StringValue" [] v.type = "Int"  -> "IntValue"
              [] v.type = "Float"  -> "DoubleValue" [] v.type = "Bool" -> "BoolValue",
   text |-> v.text]

KeyValue(a) == [key |-> a.key, value |-> AnyValue(a.value)]
AttributesToProto(attrs) == [i \in DOMAIN attrs |-> KeyValue(attrs[i])]

EventToProto(e) ==
  [time_unix_nano |-> SystemTimeToNanos(e.timestamp), name |-> e.name,
   attributes |-> AttributesToProto(e.attributes), dropped_attributes_count |-> 0]

LinkToProto(l) ==
  [trace_id |-> Bytes(l.trace_id), span_id |-> Bytes(l.span_id),
   trace_state |-> "", attributes |-> <<>>,
   dropped_attributes_count |-> 0, flags |-> 0]

StatusToProto(s) ==
  [code |-> CASE s.code = "unset" -> 0 [] s.code = "ok" -> 1 [] s.code = "error" -> 2,
   message |-> IF s.code = "error" THEN s.message ELSE ""]

\* Only servers and clients are told from the rest.
SpanKindToProto(kind) ==
  CASE kind = "server" -> 2 [] kind = "client" -> 3 [] OTHER -> 1

FinishedSpanToProto(s) ==
  [trace_id       |-> Bytes(s.trace_id),
   span_id        |-> Bytes(s.span_id),
   parent_span_id |-> IF s.parent_span_id = None THEN <<>>
                      ELSE Bytes(s.parent_span_id[1]),
   name |-> s.name, kind |-> SpanKindToProto(s.kind),
   start_time_unix_nano |-> SystemTimeToNanos(s.start_time),
   end_time_unix_nano   |-> SystemTimeToNanos(s.end_time),
   attributes |-> AttributesToProto(s.attributes),
   dropped_attributes_count |-> s.dropped_attributes_count,
   events |-> [i \in DOMAIN s.events |-> EventToProto(s.events[i])],
   dropped_events_count |-> s.dropped_events_count,
   links |-> [i \in DOMAIN s.links |-> LinkToProto(s.links[i])],
   dropped_links_count |-> s.dropped_links_count,
   status |-> StatusToProto(s.status),
   trace_state |-> OrEmpty(s.trace_state, ""),
   flags |-> IF s.is_sampled THEN 1 ELSE 0]

\* service.name comes first; configured attributes never hold it.
BuildExportRequest(batch) ==
  [resource |-> <<KeyValue(Attribute("service.name", Text(Service)))>>
      \o [i \in DOMAIN ResourceAttributes |->
            KeyValue(Attribute(ResourceAttributes[i].key,
                               Text(ResourceAttributes[i].text)))],
   spans |-> [i \in DOMAIN batch |-> FinishedSpanToProto(batch[i])]]

-----------------------------------------------------------------------------
(* Zipkin.                                                                  *)

Micros(nanos) == IF nanos < 0 THEN 0 ELSE Min({nanos \div NanosPerMicro, MaxWord})
MicrosSinceEpoch(t)       == Micros(t)
DurationMicros(start, end) == Micros(end - start)

ZipkinKind(kind) ==
  CASE kind = "server"   -> Some("SERVER")   [] kind = "client"   -> Some("CLIENT")
    [] kind = "producer" -> Some("PRODUCER") [] kind = "consumer" -> Some("CONSUMER")
    [] kind = "internal" -> None

\* The map a sequence of pairs makes, later pairs winning.
MapOf(pairs) ==
  [k \in {pairs[i].key : i \in DOMAIN pairs} |->
     pairs[SelectLastInSeq(pairs, LAMBDA p : p.key = k)].text]

SpanTags(s) ==
  MapOf([i \in DOMAIN s.attributes |->
           [key |-> s.attributes[i].key, text |-> s.attributes[i].value.text]])

ErrorTag(s) ==
  IF s.status.code # "error" THEN <<>>
  ELSE Only("error", IF s.status.message = "" THEN "true" ELSE s.status.message)

SampledTag(s) == Only("otel.sampled", IF s.is_sampled THEN "true" ELSE "false")

\* Mutant: an attribute "error" hides that the span failed.
TagsAttributeWins(s) ==
  Over(SampledTag(s), Over(SpanTags(s), Over(ErrorTag(s), MapOf(ResourceAttributes))))

\* The error signal and the sampled flag win over an attribute, and that over
\* a resource attribute.
Tags(s) ==
  Over(SampledTag(s), Over(ErrorTag(s), Over(SpanTags(s), MapOf(ResourceAttributes))))

AnnotationOfEvent(e) ==
  [timestamp |-> MicrosSinceEpoch(e.timestamp), value |-> e.name]
AnnotationOfLink(l) ==
  [timestamp |-> 0, value |-> "link:" \o l.trace_id \o "/" \o l.span_id]

ZipkinSpan(s) ==
  [trace_id |-> s.trace_id, id |-> s.span_id, parent_id |-> s.parent_span_id,
   name |-> s.name, kind |-> ZipkinKind(s.kind),
   timestamp |-> MicrosSinceEpoch(s.start_time),
   duration  |-> DurationMicros(s.start_time, s.end_time),
   local_endpoint |-> Service,
   tags |-> Tags(s),
   annotations |->
     [i \in DOMAIN s.events |-> AnnotationOfEvent(s.events[i])]
       \o [i \in DOMAIN s.links |-> AnnotationOfLink(s.links[i])]]

ZipkinPayload(batch) == [i \in DOMAIN batch |-> ZipkinSpan(batch[i])]
=============================================================================
