----------------------------- MODULE SpanRecord -----------------------------
(* The record of a live span (OtelSpan, span.rs) and what the visitors do   *)
(* to it (field.rs, layer.rs), as operators from a span to a span.  The     *)
(* modules that hold a span in a variable share them: OtelSpan makes any    *)
(* sequence of calls, RequestSpan the ones of the HTTP middleware.          *)
EXTENDS SequencesExt

CONSTANTS
  AttributeCap,  \* inline capacities: 16 attributes,
  EventCap,      \* 8 events
  LinkCap,       \* and 4 links in the code
  HeaderNames,   \* names under which response headers are captured
  HeaderTexts,   \* values of those headers
  Wide           \* decimal texts of the u64 values above i64::MAX

ASSUME CapacityAssumption ==
  AttributeCap \in Nat /\ EventCap \in Nat /\ LinkCap \in Nat

-----------------------------------------------------------------------------
(* Values.  A value is held with its decimal or literal text, which is what *)
(* to_string makes of it.                                                   *)

AttributeValue == [type : {"String", "Int", "Float", "Bool"}, text : STRING]

Text(t) == [type |-> "String", text |-> t]

\* Debug of an AttributeValue.
DebugText(v) == v.type \o "(" \o v.text \o ")"

\* What FieldVisitor hands on of a field recorded through Visit method "by".
FieldValue(f) ==
  CASE f.by = "bool" -> [type |-> "Bool", text |-> f.text]
    [] f.by = "i64" \/ (f.by = "u64" /\ f.text \notin Wide) ->
         [type |-> "Int", text |-> f.text]
    [] f.by = "f64" -> [type |-> "Float", text |-> f.text]
    [] OTHER -> Text(f.text)

\* EventVisitor has no record_f64: a float arrives as its Debug text.
EventValue(f) == IF f.by = "f64" THEN Text(f.text) ELSE FieldValue(f)

-----------------------------------------------------------------------------
(* OtelSpan::new and OtelSpan::record.                                      *)

Unset == [code |-> "unset", message |-> ""]
Failed(message) == [code |-> "error", message |-> message]

NewSpan(name) ==
  [name |-> name, kind |-> "internal", status |-> Unset,
   attributes |-> <<>>, dropped_attributes_count |-> 0,
   events |-> <<>>, dropped_events_count |-> 0,
   links |-> <<>>, dropped_links_count |-> 0]

HeaderKey(name) == "http.response.header." \o name

IsProtected(k) ==
  \/ k \in {"http.response.status_code", "http.response.body.size",
            "http.route", "error.type"}
  \/ \E name \in HeaderNames : k = HeaderKey(name)

Attribute(k, v)    == [key |-> k, value |-> v]
Position(attrs, k) == SelectInSeq(attrs, LAMBDA a : a.key = k)
Evictable(attrs)   == SelectInSeq(attrs, LAMBDA a : ~IsProtected(a.key))

\* Mutants: the budget ignores protection; the scan for an existing key is
\* left out; a drop is not counted.
RecordUnprotected(s, k, v) ==
  LET at == Position(s.attributes, k) IN
  CASE at # 0 -> [s EXCEPT !.attributes[at].value = v]
    [] at = 0 /\ Len(s.attributes) < AttributeCap ->
         [s EXCEPT !.attributes = Append(@, Attribute(k, v))]
    [] OTHER -> [s EXCEPT !.dropped_attributes_count = @ + 1]
RecordUnscanned(s, k, v) ==
  IF Len(s.attributes) < AttributeCap
  THEN [s EXCEPT !.attributes = Append(@, Attribute(k, v))]
  ELSE [s EXCEPT !.dropped_attributes_count = @ + 1]
RecordUncounted(s, k, v) ==
  LET at == Position(s.attributes, k) IN
  CASE at # 0 -> [s EXCEPT !.attributes[at].value = v]
    [] at = 0 /\ Len(s.attributes) < AttributeCap ->
         [s EXCEPT !.attributes = Append(@, Attribute(k, v))]
    [] OTHER -> s

Record(s, k, v) ==
  LET at     == Position(s.attributes, k)
      victim == Evictable(s.attributes)
  IN CASE at # 0 -> [s EXCEPT !.attributes[at].value = v]
       [] at = 0 /\ Len(s.attributes) < AttributeCap ->
            [s EXCEPT !.attributes = Append(@, Attribute(k, v))]
       [] at = 0 /\ Len(s.attributes) >= AttributeCap
                 /\ IsProtected(k) /\ victim # 0 ->
            [s EXCEPT !.attributes[victim] = Attribute(k, v)]
       [] OTHER -> [s EXCEPT !.dropped_attributes_count = @ + 1]

-----------------------------------------------------------------------------
(* FieldVisitor::handle_special_field.                                      *)

KindOf(text) ==
  IF text \in {"server", "client", "producer", "consumer"} THEN text
                                                           ELSE "internal"

\* otel.status_code steals the otel.status_message attribute that an error
\* event left behind, whatever the code, and replaces the status.
WithStatusCode(s, text) ==
  LET at      == Position(s.attributes, "otel.status_message")
      pending == IF at = 0 THEN "" ELSE s.attributes[at].value.text
  IN [s EXCEPT
       !.attributes = IF at = 0 THEN @ ELSE RemoveAt(@, at),
       !.status = CASE text \in {"ok", "OK"}       -> [Unset EXCEPT !.code = "ok"]
                    [] text \in {"error", "ERROR"} -> Failed(pending)
                    [] OTHER                       -> Unset]

\* The name and the value a captured header was joined from at its first "=".
HeaderOf(text) ==
  {pair \in HeaderNames \X HeaderTexts : text = pair[1] \o "=" \o pair[2]}

ControlFields == {"otel.name", "otel.kind", "otel.status_code",
                  "otel.status_message", "http.response.header"}
RemoteFields  == {"remote.trace_id", "remote.parent_span_id", "remote.sampled",
                  "remote.trace_state"}

\* A control field that carries a string.
HandleControl(s, key, text) ==
  CASE key = "otel.name"        -> [s EXCEPT !.name = text]
    [] key = "otel.kind"        -> [s EXCEPT !.kind = KindOf(text)]
    [] key = "otel.status_code" -> WithStatusCode(s, text)
    [] key = "otel.status_message" ->
         IF s.status.code = "error" THEN [s EXCEPT !.status = Failed(text)]
                                    ELSE s
    [] key = "http.response.header" ->
         IF HeaderOf(text) = {} THEN s
         ELSE LET h == CHOOSE h \in HeaderOf(text) : TRUE
              IN Record(s, HeaderKey(h[1]), Text(h[2]))

\* A control field that is not a string is ignored, and so are the fields
\* only extract_remote_parent reads.
HandleField(s, f) ==
  LET v == FieldValue(f) IN
  CASE f.key \notin ControlFields \cup RemoteFields -> Record(s, f.key, v)
    [] f.key \in ControlFields /\ v.type = "String" ->
         HandleControl(s, f.key, v.text)
    [] OTHER -> s

-----------------------------------------------------------------------------
(* EventVisitor, on_event and on_follows_from.  A tracing event is a record *)
(* [name, level, timestamp, fields]; a field is [key, by, text].            *)

Visited(e) ==
  LET message == SelectInSeq(e.fields, LAMBDA f : f.key = "message" /\ f.by = "str")
      others  == SelectSeq(e.fields, LAMBDA f : f.key # "message")
  IN [name       |-> IF message = 0 THEN e.name ELSE e.fields[message].text,
      timestamp  |-> e.timestamp,
      attributes |-> [i \in DOMAIN others |->
                        Attribute(others[i].key, EventValue(others[i]))]]

IsErrorEvent(e) ==
  \/ e.level = "ERROR"
  \/ \E i \in DOMAIN Visited(e).attributes :
       Visited(e).attributes[i].key
         \in {"error", "exception.message", "exception.type", "error.type"}

\* The message an error event gives the span.
Explanation(e) ==
  LET ev == Visited(e)
      at == SelectInSeq(ev.attributes,
              LAMBDA a : a.key \in {"error", "exception.message", "message"})
  IN IF at = 0 THEN ev.name
     ELSE LET v == ev.attributes[at].value
          IN IF v.type = "String" THEN v.text ELSE DebugText(v)

\* Mutant: an event the budget drops is not looked at.
ErrorSetsWithRoom(s, e) ==
  IsErrorEvent(e) /\ s.status.code # "error" /\ Len(s.events) < EventCap

ErrorSets(s, e) == IsErrorEvent(e) /\ s.status.code # "error"

\* An error event leaves the control fields among the attributes.
MarkFailed(s, e) ==
  LET coded == Record(s, "otel.status_code", Text("error"))
      told  == IF Explanation(e) = "" THEN coded
               ELSE Record(coded, "otel.status_message", Text(Explanation(e)))
  IN [told EXCEPT !.status = Failed(Explanation(e))]

\* Mutants: a list without a bound; a full list that makes room by forgetting
\* its oldest element.
PushUnbounded(list, x, cap) == Append(list, x)
PushDropsOldest(list, x, cap) ==
  IF Len(list) < cap THEN Append(list, x)
  ELSE IF cap = 0 THEN list ELSE Append(Tail(list), x)

PushWithin(list, x, cap) == IF Len(list) < cap THEN Append(list, x) ELSE list

\* The counter beside a list of bounded capacity.
Overflow(count, list, cap) == IF Len(list) < cap THEN count ELSE count + 1

WithEvent(s, e) ==
  LET marked == IF ErrorSets(s, e) THEN MarkFailed(s, e) ELSE s
  IN [marked EXCEPT
       !.events = PushWithin(@, Visited(e), EventCap),
       !.dropped_events_count = Overflow(@, s.events, EventCap)]

\* A link to the context [trace_id, span_id] of the followed span; it carries
\* no attributes.
WithLink(s, context) ==
  [s EXCEPT !.links = PushWithin(@, context, LinkCap),
            !.dropped_links_count = Overflow(@, s.links, LinkCap)]
=============================================================================
