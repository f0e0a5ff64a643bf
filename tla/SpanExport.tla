----------------------------- MODULE SpanExport -----------------------------
(* A span closed after any sequence of calls, and what a collector learns   *)
(* of it over OTLP and over Zipkin.                                         *)
EXTENDS OtelSpan, Exporters

CONSTANT Heads  \* sequence of identities and times a batch is made with

Optional == {option \in Seq(STRING) : Len(option) <= 1}
Identity  == [trace_id : STRING, span_id : STRING, parent_span_id : Optional,
             trace_state : Optional, is_sampled : BOOLEAN,
             start_time : Int, end_time : Int]
ASSUME HeadsAssumption == Heads \in Seq(Identity)

\* The batch the exporters get, each span with its own head.
Batch == [i \in DOMAIN Heads |-> Finish(Heads[i], span)]

-----------------------------------------------------------------------------
(* A collector's reading of the OTLP request: what each field stands for.   *)

InRange(t) == t \in 0..MaxWord
TypeRead == [StringValue |-> "String", IntValue |-> "Int",
             DoubleValue |-> "Float", BoolValue |-> "Bool"]
AttributesRead(kvs) ==
  [i \in DOMAIN kvs |->
     Attribute(kvs[i].key, [type |-> TypeRead[kvs[i].value.case],
                            text |-> kvs[i].value.text])]
StatusRead(m) ==
  [code |-> <<"unset", "ok", "error">>[m.code + 1], message |-> m.message]
KindRead(m) == <<"internal", "server", "client">>[m]

\* Every field of the span, the ones about time apart, is what the message
\* says; the kinds OTLP is not told are internal.
ContentRead(s, m) ==
  /\ m.trace_id = <<s.trace_id>> /\ m.span_id = <<s.span_id>>
  /\ m.parent_span_id = s.parent_span_id
  /\ m.trace_state = (IF s.trace_state = None THEN "" ELSE s.trace_state[1])
  /\ m.flags % 2 = 1 <=> s.is_sampled
  /\ m.name = s.name
  /\ KindRead(m.kind) = IF s.kind \in {"server", "client"} THEN s.kind
                                                           ELSE "internal"
  /\ StatusRead(m.status) = s.status
  /\ AttributesRead(m.attributes) = s.attributes
  /\ <<m.dropped_attributes_count, m.dropped_events_count, m.dropped_links_count>>
       = <<s.dropped_attributes_count, s.dropped_events_count, s.dropped_links_count>>
  /\ [i \in DOMAIN m.events |->
        <<m.events[i].name, AttributesRead(m.events[i].attributes)>>]
       = [i \in DOMAIN s.events |-> <<s.events[i].name, s.events[i].attributes>>]
  /\ [i \in DOMAIN m.links |-> <<m.links[i].trace_id, m.links[i].span_id>>]
       = [i \in DOMAIN s.links |-> <<<<s.links[i].trace_id>>, <<s.links[i].span_id>>>>]

\* A time that fits the wire is exact, and no two times change their order.
TimesRead(s, m) ==
  /\ InRange(s.start_time) => m.start_time_unix_nano = s.start_time
  /\ InRange(s.end_time) => m.end_time_unix_nano = s.end_time
  /\ s.start_time <= s.end_time => m.start_time_unix_nano <= m.end_time_unix_nano
  /\ \A i \in DOMAIN s.events :
       InRange(s.events[i].timestamp) =>
         m.events[i].time_unix_nano = s.events[i].timestamp

Reads(s, m) == ContentRead(s, m) /\ TimesRead(s, m)

\* A collector that reads the OTLP request gets every finished span of the
\* batch back, in order, with all that survived its budgets.
OtlpFaithful ==
  ~live =>
    LET request == BuildExportRequest(Batch) IN
    /\ Len(request.spans) = Len(Batch)
    /\ \A i \in DOMAIN Batch : Reads(Batch[i], request.spans[i])

-----------------------------------------------------------------------------
(* The same batch over Zipkin.                                              *)

ResourceTags == {ResourceAttributes[i].key : i \in DOMAIN ResourceAttributes}
AttributeOf(s, k) == s.attributes[Position(s.attributes, k)].value.text

\* A span shows as failed under Zipkin if its OTLP status is an error, with
\* the same message; every attribute, unless it has the name of one of the two
\* signals, is a tag with the same text, and a resource attribute never covers
\* one of the span's.
TagsAgree(s, m, tags) ==
  LET reserved == {"otel.sampled"} \cup (IF m.status.code = 2 THEN {"error"} ELSE {})
      own      == {m.attributes[i].key : i \in DOMAIN m.attributes}
  IN /\ DOMAIN tags = reserved \cup own \cup ResourceTags
     /\ m.status.code = 2 =>
          tags["error"] = IF m.status.message = "" THEN "true" ELSE m.status.message
     /\ tags["otel.sampled"] = IF m.flags % 2 = 1 THEN "true" ELSE "false"
     /\ \A k \in own \ reserved : tags[k] = AttributeOf(s, k)
     /\ \A k \in ResourceTags \ (own \cup reserved) :
          \E i \in DOMAIN ResourceAttributes :
            ResourceAttributes[i] = [key |-> k, text |-> tags[k]]

\* The interval lies within the one OTLP reports, as far as microseconds tell.
IntervalAgrees(m, z) ==
  m.start_time_unix_nano <= m.end_time_unix_nano
    /\ m.start_time_unix_nano > 0 /\ m.end_time_unix_nano < MaxWord =>
    LET end == m.end_time_unix_nano \div NanosPerMicro
    IN z.timestamp + z.duration \in {end - 1, end}

StoryAgrees(s, m, z) ==
  /\ <<z.trace_id>> = m.trace_id /\ <<z.id>> = m.span_id
  /\ z.parent_id = m.parent_span_id /\ z.name = m.name
  /\ TagsAgree(s, m, z.tags)
  /\ IntervalAgrees(m, z)
  /\ Len(z.annotations) = Len(m.events) + Len(m.links)
  /\ \A j \in DOMAIN m.events : z.annotations[j].value = m.events[j].name

\* The two exporters tell a collector the same story of the same batch: the
\* same spans, parents, attributes, failures, events and intervals.
ExportersAgree ==
  ~live =>
    LET otlp   == BuildExportRequest(Batch).spans
        zipkin == ZipkinPayload(Batch)
    IN \A i \in DOMAIN Batch : StoryAgrees(Batch[i], otlp[i], zipkin[i])
=============================================================================
