------------------------------ MODULE OtelSpan ------------------------------
(* One live span under any sequence of calls of the program: fields         *)
(* declared at creation or recorded later, events, links, and the close     *)
(* that snapshots it.  The extensions lock of the registry makes every      *)
(* callback atomic, so a span sees the calls of all the threads that hold   *)
(* it as one sequence.                                                      *)
EXTENDS SpanRecord

CONSTANTS
  Fields,    \* [key, by, text]: fields the program records
  Events,    \* [name, level, fields]: events it emits
  Contexts,  \* [trace_id, span_id] of the spans this one may follow
  MaxCalls   \* bound on the calls of a behaviour

ASSUME CallsAssumption == MaxCalls \in Nat

\* What the program can hand to the visitors: an i64 is not wide, and no header
\* attribute has the key of a control field.
FieldRecord ==
  [key : STRING, by : {"str", "debug", "bool", "i64", "u64", "f64"}, text : STRING]
ASSUME FieldsAssumption ==
  /\ Fields \subseteq FieldRecord
  /\ \A f \in Fields : f.by = "i64" => f.text \notin Wide
  /\ HeaderTexts \subseteq STRING
  /\ \A name \in HeaderNames : HeaderKey(name) \notin ControlFields \cup RemoteFields

\* An event as on_event sees it, with the clock read inside the callback.
Stamped(e, now) ==
  [name |-> e.name, level |-> e.level, fields |-> e.fields, timestamp |-> now]
ASSUME EventsAssumption ==
  \A e \in Events : \A now \in 0..MaxCalls : Explanation(Stamped(e, now)) \in STRING

\* The literals that become texts.  That a literal is a string is built into
\* TLC; the provers have to be told.
ASSUME LiteralsAssumption == {"", "error"} \subseteq STRING

VARIABLES
  span,     \* the OtelSpan record
  live,     \* FALSE once on_close took the span
  calls,    \* calls made so far, to bound the model; the clock of the events
  latest,   \* history: the field recorded last for every key
  history   \* history: the events, the contexts followed, and what the
            \* program itself said about the status

vars == <<span, live, calls, latest, history>>

\* The attribute keys the program can reach, and the key of a field.
KeyOf(f) == IF f.key = "http.response.header"
            THEN HeaderKey((CHOOSE h \in HeaderOf(f.text) : TRUE)[1])
            ELSE f.key
Plain(f) == \/ f.key \notin ControlFields \cup RemoteFields
            \/ /\ f.key = "http.response.header" /\ HeaderOf(f.text) # {}
               /\ FieldValue(f).type = "String"
Keys     == {KeyOf(f) : f \in {g \in Fields : Plain(g)}}
NotRecorded == [by |-> "none", text |-> ""]

-----------------------------------------------------------------------------
(* The callbacks of the layer on this span.                                 *)

Call == live /\ calls < MaxCalls /\ calls' = calls + 1

\* on_record, and each field on_new_span finds declared.
OnRecord(f) ==
  /\ Call
  /\ span' = HandleField(span, f)
  /\ latest' = IF Plain(f)
               THEN [latest EXCEPT ![KeyOf(f)] =
                       [by |-> IF f.key = KeyOf(f) THEN f.by ELSE "str",
                        text |-> IF f.key = KeyOf(f) THEN f.text
                                 ELSE (CHOOSE h \in HeaderOf(f.text) : TRUE)[2]]]
               ELSE latest
  /\ history' = IF f.key \in {"otel.status_code", "otel.status_message"}
                THEN [history EXCEPT !.said = Append(@, f)] ELSE history
  /\ UNCHANGED live

\* on_event.
OnEvent(e) ==
  /\ Call
  /\ span' = WithEvent(span, Stamped(e, calls))
  /\ history' = [history EXCEPT !.events = Append(@, Stamped(e, calls))]
  /\ UNCHANGED <<live, latest>>

\* on_follows_from a span whose context is still there.
OnFollowsFrom(c) ==
  /\ Call
  /\ span' = WithLink(span, c)
  /\ history' = [history EXCEPT !.followed = Append(@, c)]
  /\ UNCHANGED <<live, latest>>

\* on_close takes the span out of the registry and snapshots it as it is.
OnClose ==
  /\ live /\ live' = FALSE
  /\ UNCHANGED <<span, calls, latest, history>>

Init ==
  /\ span = NewSpan("span")
  /\ live = TRUE /\ calls = 0
  /\ latest = [k \in Keys |-> NotRecorded]
  /\ history = [events |-> <<>>, followed |-> <<>>, said |-> <<>>]

Next ==
  \/ \E f \in Fields : OnRecord(f)
  \/ \E e \in Events : OnEvent(e)
  \/ \E c \in Contexts : OnFollowsFrom(c)
  \/ OnClose

Spec == Init /\ [][Next]_vars

-----------------------------------------------------------------------------
(* Properties.                                                              *)

ControlKeys  == {"otel.status_code", "otel.status_message"}
Attributes   == {span.attributes[i] : i \in DOMAIN span.attributes}
Stored       == {a.key : a \in Attributes}
RecordedKeys == {k \in Keys : latest[k] # NotRecorded}

\* The lists stay within their inline capacities, and only an error has a
\* message.
TypeOK ==
  /\ \A a \in Attributes : a.key \in Keys \cup ControlKeys
                           /\ a.value \in AttributeValue
  /\ Len(span.attributes) <= AttributeCap
  /\ Len(span.events) <= EventCap
  /\ span.links \in Seq(Contexts) /\ Len(span.links) <= LinkCap
  /\ span.dropped_attributes_count \in Nat
  /\ span.dropped_events_count \in Nat /\ span.dropped_links_count \in Nat
  /\ span.kind \in {"internal", "server", "client", "producer", "consumer"}
  /\ span.status.code \in {"unset", "ok", "error"}
  /\ span.status.code # "error" => span.status.message = ""
  /\ live \in BOOLEAN /\ calls \in 0..MaxCalls

\* An exported key is unique (trace.proto:210) and carries the value recorded
\* last, however often keys were overwritten, evicted, removed and recorded
\* again; a number keeps its type if and only if the type can hold it.
StoredIsLatest ==
  /\ \A i, j \in DOMAIN span.attributes :
       span.attributes[i].key = span.attributes[j].key => i = j
  /\ \A a \in Attributes : a.key \in Keys =>
       /\ a.value.text = latest[a.key].text
       /\ a.value.type = "Int" <=>
            latest[a.key].by \in {"i64", "u64"} /\ latest[a.key].text \notin Wide

\* The late HTTP attributes always find room (span.rs:226-228): as many of the
\* protected keys that were recorded are exported as the budget holds.
ProtectedKept ==
  LET asked == {k \in RecordedKeys : IsProtected(k)}
      kept  == {k \in Stored : IsProtected(k)}
  IN Cardinality(kept) = Min({AttributeCap, Cardinality(asked)})

\* A key the program recorded is missing from the export only if a drop was
\* counted or a protected key took its place.
LossAccounted ==
  Cardinality(RecordedKeys \ Stored)
    <= span.dropped_attributes_count
         + Cardinality({k \in Stored : IsProtected(k)})

\* What is exported are the oldest events and links, and the counters tell how
\* many younger ones there were.
EarliestKept ==
  LET times == [i \in DOMAIN span.events |-> span.events[i].timestamp]
      all   == [i \in DOMAIN history.events |-> history.events[i].timestamp]
  IN /\ IsPrefix(times, all)
     /\ Len(times) + span.dropped_events_count = Len(all)
     /\ IsPrefix(span.links, history.followed)
     /\ Len(span.links) + span.dropped_links_count = Len(history.followed)

\* Unless the program speaks about the status itself, the span fails exactly
\* when some event on it was an error, with the message of the first one, even
\* when the event budget dropped that event.
FirstErrorExplains ==
  LET first == SelectInSeq(history.events, IsErrorEvent) IN
  history.said = <<>> =>
    span.status = IF first = 0 THEN Unset
                  ELSE Failed(Explanation(history.events[first]))

\* What the program said last about the status code and message.
LastSaid(key) ==
  LET said == SelectSeq(history.said, LAMBDA f : f.key = key /\ f.by = "str")
  IN IF said = <<>> THEN "" ELSE Last(said).text

\* A status message recorded before the error is picked up when the status
\* code arrives (field.rs:147-149).
PendingMessagePickedUp ==
  LastSaid("otel.status_code") = "error" /\ LastSaid("otel.status_message") # ""
    => span.status.message # ""

\* A drop count of zero means that no attribute was dropped (trace.proto:217).
ZeroMeansNoneDropped ==
  span.dropped_attributes_count = 0 => RecordedKeys \subseteq Stored

\* The "message" field of an event, if present, is used as its name
\* (field.rs:184).
MessageNamesEvent ==
  \A i \in DOMAIN span.events : \A j \in DOMAIN history.events[i].fields :
    LET f == history.events[i].fields[j]
    IN f.key = "message" => span.events[i].name = f.text
=============================================================================
