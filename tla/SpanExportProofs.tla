-------------------------- MODULE SpanExportProofs --------------------------
(* Proofs about what the two exporters tell of a closed span: for every     *)
(* capacity, every sequence of calls, every batch of identities and times,  *)
(* every configured resource and every width of the wire.                   *)
EXTENDS SpanExport, OtelSpanProofs

-----------------------------------------------------------------------------
(* Finishing a span.                                                        *)

\* The finished span s has the identity and the times of h and the content of r.
FinishedFrom(s, h, r) ==
  /\ s.trace_id = h.trace_id /\ s.span_id = h.span_id
  /\ s.parent_span_id = h.parent_span_id /\ s.trace_state = h.trace_state
  /\ s.is_sampled = h.is_sampled
  /\ s.start_time = h.start_time /\ s.end_time = h.end_time
  /\ \A f \in SpanFields : s[f] = r[f]

\* OtelSpan::finish keeps both, since no field is in both.
LEMMA FinishIs ==
  ASSUME NEW h \in Identity, NEW r, IsSpan(r)
  PROVE  FinishedFrom(Finish(h, r), h, r)
<1>1. DOMAIN r = SpanFields
  <2>1. r = [f \in SpanFields |-> r[f]] BY DEF IsSpan
  <2> QED BY <2>1
<1>2. DOMAIN h = {"trace_id", "span_id", "parent_span_id", "trace_state",
                  "is_sampled", "start_time", "end_time"}
  BY DEF Identity
<1>3. \A x \in DOMAIN h : Finish(h, r)[x] = h[x]
  BY Zenon DEF Finish, Over
<1>4. SpanFields \cap DOMAIN h = {} BY <1>2 DEF SpanFields
<1>5. \A x \in SpanFields : Finish(h, r)[x] = r[x]
  BY <1>1, <1>4, Zenon DEF Finish, Over
<1> QED BY <1>2, <1>3, <1>5 DEF FinishedFrom

-----------------------------------------------------------------------------
(* Times.                                                                   *)

\* The number that is read on the wire never goes beyond a word.
LEMMA ClampIs ==
  ASSUME NEW n \in Nat
  PROVE  /\ Min({n, MaxWord}) \in Nat
         /\ Min({n, MaxWord}) = IF n <= MaxWord THEN n ELSE MaxWord
<1>1. MaxWord \in Nat BY WordAssumption
<1>2. n <= MaxWord \/ MaxWord <= n BY <1>1
<1> QED BY <1>1, <1>2, LesserIs

\* A time that fits the wire is sent as it is, the others as the nearest that
\* fits.
LEMMA NanosAre ==
  ASSUME NEW t \in Int
  PROVE  SystemTimeToNanos(t) = IF t < 0 THEN 0
                                ELSE IF t <= MaxWord THEN t ELSE MaxWord
<1>1. CASE t < 0 BY <1>1 DEF SystemTimeToNanos
<1>2. CASE ~(t < 0)
  <2>1. t \in Nat BY <1>2
  <2> QED BY <1>2, <2>1, ClampIs DEF SystemTimeToNanos
<1> QED BY <1>1, <1>2

-----------------------------------------------------------------------------
(* Attributes and status over OTLP.                                         *)

\* A sequence of attributes with values of the four types.
AreAttributes(a) ==
  /\ a = [i \in DOMAIN a |-> a[i]]
  /\ \A i \in DOMAIN a :
       /\ a[i] = Attribute(a[i].key, [type |-> a[i].value.type,
                                      text |-> a[i].value.text])
       /\ a[i].value.type \in {"String", "Int", "Float", "Bool"}

\* A collector reads an attribute back as it was, key, type and text.
LEMMA AttributesReadBack ==
  ASSUME NEW a, AreAttributes(a)
  PROVE  /\ AttributesRead(AttributesToProto(a)) = a
         /\ DOMAIN AttributesToProto(a) = DOMAIN a
         /\ \A i \in DOMAIN a : AttributesToProto(a)[i].key = a[i].key
<1> DEFINE kvs == AttributesToProto(a)
<1>1. DOMAIN kvs = DOMAIN a /\ \A i \in DOMAIN a : kvs[i] = KeyValue(a[i])
  BY DEF AttributesToProto
<1>2. \A i \in DOMAIN a :
        /\ kvs[i].key = a[i].key /\ kvs[i].value.text = a[i].value.text
        /\ TypeRead[kvs[i].value.case] = a[i].value.type
  <2> SUFFICES ASSUME NEW i \in DOMAIN a
               PROVE  /\ kvs[i].key = a[i].key
                      /\ kvs[i].value.text = a[i].value.text
                      /\ TypeRead[kvs[i].value.case] = a[i].value.type
    OBVIOUS
  <2> DEFINE v == a[i].value
  <2>1. kvs[i].key = a[i].key /\ kvs[i].value = AnyValue(v) BY <1>1 DEF KeyValue
  <2>2. v.type \in {"String", "Int", "Float", "Bool"} BY DEF AreAttributes
  <2> HIDE DEF v, kvs
  <2>3. AnyValue(v).text = v.text /\ TypeRead[AnyValue(v).case] = v.type
    BY <2>2 DEF AnyValue, TypeRead
  <2> QED BY <2>1, <2>3 DEF v
<1> HIDE DEF kvs
<1>3. AttributesRead(kvs) = [i \in DOMAIN a |-> a[i]]
  <2>1. \A i \in DOMAIN a :
          Attribute(kvs[i].key, [type |-> TypeRead[kvs[i].value.case],
                                 text |-> kvs[i].value.text]) = a[i]
    BY <1>2 DEF AreAttributes
  <2> QED BY <1>1, <2>1 DEF AttributesRead
<1> QED BY <1>1, <1>2, <1>3 DEF AreAttributes, kvs

\* The attributes of a span are such a sequence.
LEMMA EntriesAreAttributes ==
  ASSUME NEW a \in Seq(Entry) PROVE AreAttributes(a)
<1>1. a = [i \in DOMAIN a |-> a[i]]
  <2>1. a \in [1..Len(a) -> Entry] BY LenProperties
  <2> QED BY <2>1
<1>2. ASSUME NEW i \in DOMAIN a
      PROVE  /\ a[i] = Attribute(a[i].key, [type |-> a[i].value.type,
                                            text |-> a[i].value.text])
             /\ a[i].value.type \in {"String", "Int", "Float", "Bool"}
  <2>1. /\ a[i].value \in AttributeValue
        /\ a[i] = [key |-> a[i].key, value |-> a[i].value]
    BY EntriesAre
  <2>2. /\ a[i].value = [type |-> a[i].value.type, text |-> a[i].value.text]
        /\ a[i].value.type \in {"String", "Int", "Float", "Bool"}
    BY <2>1 DEF AttributeValue
  <2> QED BY <2>1, <2>2 DEF Attribute
<1> QED BY <1>1, <1>2 DEF AreAttributes

\* And so are those of an event.
LEMMA EventAttributesAre ==
  ASSUME NEW e PROVE AreAttributes(Visited(e).attributes)
<1> DEFINE others == SelectSeq(e.fields, LAMBDA f : f.key # "message")
           a == Visited(e).attributes
<1>1. a = [i \in DOMAIN others |-> Attribute(others[i].key, EventValue(others[i]))]
  BY DEF Visited
<1>2. ASSUME NEW f
      PROVE  /\ EventValue(f) = [type |-> EventValue(f).type,
                                 text |-> EventValue(f).text]
             /\ EventValue(f).type \in {"String", "Int", "Float", "Bool"}
  BY DEF EventValue, FieldValue, Text
<1> HIDE DEF a, others
<1>3. /\ a = [i \in DOMAIN a |-> a[i]]
      /\ \A i \in DOMAIN a : a[i] = Attribute(others[i].key, EventValue(others[i]))
  BY <1>1
<1>4. ASSUME NEW i \in DOMAIN a
      PROVE  /\ a[i] = Attribute(a[i].key, [type |-> a[i].value.type,
                                            text |-> a[i].value.text])
             /\ a[i].value.type \in {"String", "Int", "Float", "Bool"}
  <2>1. a[i].key = others[i].key /\ a[i].value = EventValue(others[i])
    BY <1>3 DEF Attribute
  <2> QED BY <1>2, <1>3, <2>1
<1> QED BY <1>3, <1>4 DEF AreAttributes, a

\* A status is read back, and its code tells an error.
LEMMA StatusReadBack ==
  ASSUME NEW st, IsStatus(st)
  PROVE  /\ StatusRead(StatusToProto(st)) = st
         /\ StatusToProto(st).code = 2 <=> st.code = "error"
         /\ st.code = "error" => StatusToProto(st).message = st.message
<1>1. /\ st = [code |-> st.code, message |-> st.message]
      /\ st.code \in {"unset", "ok", "error"}
      /\ st.code # "error" => st.message = ""
  BY DEF IsStatus
<1>2. CASE st.code = "unset"
  <2> DEFINE m == StatusToProto(st)
  <2>1. m = [code |-> 0, message |-> ""] BY <1>2 DEF StatusToProto
  <2> HIDE DEF m
  <2>2. m.code = 0 BY <2>1
  <2>3. m.message = "" BY <2>1
  <2>4. m.code # 2 BY <2>2
  <2>5. StatusRead(m) = [code |-> "unset", message |-> ""]
    <3>1. <<"unset", "ok", "error">>[m.code + 1] = "unset" BY <2>2
    <3> QED BY <2>3, <3>1, Zenon DEF StatusRead
  <2>6. st = [code |-> "unset", message |-> ""] BY <1>1, <1>2
  <2> QED BY <1>2, <2>4, <2>5, <2>6 DEF m
<1>3. CASE st.code = "ok"
  <2> DEFINE m == StatusToProto(st)
  <2>1. m = [code |-> 1, message |-> ""] BY <1>3 DEF StatusToProto
  <2> HIDE DEF m
  <2>2. m.code = 1 BY <2>1
  <2>3. m.message = "" BY <2>1
  <2>4. m.code # 2 BY <2>2
  <2>5. StatusRead(m) = [code |-> "ok", message |-> ""]
    <3>1. <<"unset", "ok", "error">>[m.code + 1] = "ok" BY <2>2
    <3> QED BY <2>3, <3>1, Zenon DEF StatusRead
  <2>6. st = [code |-> "ok", message |-> ""] BY <1>1, <1>3
  <2> QED BY <1>3, <2>4, <2>5, <2>6 DEF m
<1>4. CASE st.code = "error"
  <2>1. StatusToProto(st) = [code |-> 2, message |-> st.message]
    BY <1>4 DEF StatusToProto
  <2> QED BY <1>1, <1>4, <2>1 DEF StatusRead
<1> QED BY <1>1, <1>2, <1>3, <1>4

-----------------------------------------------------------------------------
(* A span over OTLP.                                                        *)

\* A list is the function of its elements, and mapping it keeps its positions.
LEMMA ListIs ==
  ASSUME NEW S, NEW list \in Seq(S)
  PROVE  /\ Len(list) \in Nat /\ DOMAIN list = 1..Len(list)
         /\ list = [i \in DOMAIN list |-> list[i]]
         /\ \A i \in DOMAIN list : list[i] \in S
<1>1. list \in [1..Len(list) -> S] /\ Len(list) \in Nat BY LenProperties
<1> QED BY <1>1

\* A function over 1..n is a sequence of length n.
LEMMA FunctionLength ==
  ASSUME NEW n \in Nat, NEW list, list = [i \in 1..n |-> list[i]]
  PROVE  /\ Len(list) = n /\ DOMAIN list = 1..n
         /\ list \in Seq({list[i] : i \in 1..n})
<1> DEFINE S == {list[i] : i \in 1..n}
<1>1. list \in [1..n -> S] OBVIOUS
<1> HIDE DEF S
<1>2. list \in Seq(S) /\ Len(list) = n BY <1>1, SeqDef
<1> QED BY <1>2, LenProperties DEF S

\* What is known of the lists of a span.
LEMMA ListsAre ==
  ASSUME NEW r, IsSpan(r)
  PROVE  /\ AreAttributes(r.attributes) /\ IsStatus(r.status)
         /\ Len(r.events) \in Nat /\ DOMAIN r.events = 1..Len(r.events)
         /\ \A i \in DOMAIN r.events :
              /\ AreAttributes(r.events[i].attributes)
              /\ r.events[i].timestamp \in Int
         /\ Len(r.links) \in Nat /\ DOMAIN r.links = 1..Len(r.links)
<1>1. /\ r.attributes \in Seq(Entry) /\ IsStatus(r.status)
      /\ r.events \in Seq({Visited(e) : e \in StampedEvents})
      /\ r.links \in Seq(Contexts)
  BY DEF IsSpan
<1>2. AreAttributes(r.attributes) BY <1>1, EntriesAreAttributes
<1>3. ASSUME NEW i \in DOMAIN r.events
      PROVE  /\ AreAttributes(r.events[i].attributes)
             /\ r.events[i].timestamp \in Int
  <2>1. PICK e \in StampedEvents : r.events[i] = Visited(e) BY <1>1, ListIs
  <2>2. AreAttributes(r.events[i].attributes) BY <2>1, EventAttributesAre
  <2>3. e.timestamp \in Int BY CallsAssumption DEF StampedEvents, Stamped
  <2>4. r.events[i].timestamp = e.timestamp BY <2>1 DEF Visited
  <2> QED BY <2>2, <2>3, <2>4
<1> QED BY <1>1, <1>2, <1>3, ListIs

\* An optional text is absent or one text.
LEMMA OptionIs ==
  ASSUME NEW o \in Optional PROVE o = None \/ o = Some(o[1])
<1>1. o \in Seq(STRING) /\ Len(o) <= 1 BY DEF Optional
<1>2. Len(o) \in Nat /\ o = [i \in 1..Len(o) |-> o[i]] BY <1>1, ListIs
<1>3. CASE Len(o) = 0 BY <1>2, <1>3 DEF None
<1>4. CASE Len(o) = 1
  <2>1. o = [i \in 1..1 |-> o[i]] BY <1>2, <1>4
  <2> QED BY <2>1 DEF Some
<1> QED BY <1>1, <1>2, <1>3, <1>4

\* The message says all of the span but its times.
LEMMA ContentIs ==
  ASSUME NEW h \in Identity, NEW r, IsSpan(r), NEW s, FinishedFrom(s, h, r)
  PROVE  ContentRead(s, FinishedSpanToProto(s))
<1> DEFINE m == FinishedSpanToProto(s)
<1>1. /\ s.attributes = r.attributes /\ s.events = r.events /\ s.links = r.links
      /\ s.status = r.status /\ s.kind = r.kind
      /\ s.parent_span_id = h.parent_span_id /\ s.is_sampled = h.is_sampled
  BY DEF FinishedFrom, SpanFields
<1>2. /\ AreAttributes(s.attributes) /\ IsStatus(s.status)
      /\ \A i \in DOMAIN s.events : AreAttributes(s.events[i].attributes)
  BY <1>1, ListsAre
<1>3. s.parent_span_id = None \/ s.parent_span_id = Some(s.parent_span_id[1])
  <2>1. h.parent_span_id \in Optional BY DEF Identity
  <2> QED BY <1>1, <2>1, OptionIs
<1>4. m.trace_id = <<s.trace_id>> /\ m.span_id = <<s.span_id>>
  BY DEF FinishedSpanToProto, Bytes
<1>5. m.parent_span_id = s.parent_span_id
  <2>1. m.parent_span_id = IF s.parent_span_id = None THEN <<>>
                           ELSE Bytes(s.parent_span_id[1])
    BY DEF FinishedSpanToProto
  <2> QED BY <1>3, <2>1 DEF None, Some, Bytes
<1>6. m.trace_state = (IF s.trace_state = None THEN "" ELSE s.trace_state[1])
  BY DEF FinishedSpanToProto, OrEmpty
<1>7. m.flags % 2 = 1 <=> s.is_sampled
  <2>1. m.flags = IF s.is_sampled THEN 1 ELSE 0 BY DEF FinishedSpanToProto
  <2>2. s.is_sampled \in BOOLEAN BY <1>1 DEF Identity
  <2> HIDE DEF m
  <2>3. CASE s.is_sampled BY <2>1, <2>3
  <2>4. CASE ~s.is_sampled BY <2>1, <2>4
  <2> QED BY <2>3, <2>4
<1>8. m.name = s.name BY DEF FinishedSpanToProto
<1>9. KindRead(m.kind) = IF s.kind \in {"server", "client"} THEN s.kind ELSE "internal"
  <2>1. m.kind = SpanKindToProto(s.kind) BY DEF FinishedSpanToProto
  <2> QED BY <2>1 DEF SpanKindToProto, KindRead
<1>10. StatusRead(m.status) = s.status
  BY <1>2, StatusReadBack DEF FinishedSpanToProto
<1>11. AttributesRead(m.attributes) = s.attributes
  BY <1>2, AttributesReadBack DEF FinishedSpanToProto
<1>12. <<m.dropped_attributes_count, m.dropped_events_count, m.dropped_links_count>>
         = <<s.dropped_attributes_count, s.dropped_events_count, s.dropped_links_count>>
  BY DEF FinishedSpanToProto
<1>13. [i \in DOMAIN m.events |->
          <<m.events[i].name, AttributesRead(m.events[i].attributes)>>]
         = [i \in DOMAIN s.events |-> <<s.events[i].name, s.events[i].attributes>>]
  <2>1. m.events = [i \in DOMAIN s.events |-> EventToProto(s.events[i])]
    BY DEF FinishedSpanToProto
  <2>2. ASSUME NEW i \in DOMAIN s.events
        PROVE  /\ EventToProto(s.events[i]).name = s.events[i].name
               /\ AttributesRead(EventToProto(s.events[i]).attributes)
                    = s.events[i].attributes
    BY <1>2, AttributesReadBack DEF EventToProto
  <2> QED BY <2>1, <2>2
<1>14. [i \in DOMAIN m.links |-> <<m.links[i].trace_id, m.links[i].span_id>>]
         = [i \in DOMAIN s.links |-> <<<<s.links[i].trace_id>>, <<s.links[i].span_id>>>>]
  <2>1. m.links = [i \in DOMAIN s.links |-> LinkToProto(s.links[i])]
    BY DEF FinishedSpanToProto
  <2>2. ASSUME NEW i \in DOMAIN s.links
        PROVE  /\ LinkToProto(s.links[i]).trace_id = <<s.links[i].trace_id>>
               /\ LinkToProto(s.links[i]).span_id = <<s.links[i].span_id>>
    BY DEF LinkToProto, Bytes
  <2> QED BY <2>1, <2>2
<1> HIDE DEF m
<1> QED BY <1>4, <1>5, <1>6, <1>7, <1>8, <1>9, <1>10, <1>11, <1>12, <1>13, <1>14
        DEF ContentRead, m

\* And of the times what fits the wire, in their order.
LEMMA TimesAre ==
  ASSUME NEW h \in Identity, NEW r, IsSpan(r), NEW s, FinishedFrom(s, h, r)
  PROVE  TimesRead(s, FinishedSpanToProto(s))
<1> DEFINE m == FinishedSpanToProto(s)
           start == s.start_time
           end   == s.end_time
<1>1. start \in Int /\ end \in Int /\ s.events = r.events
  BY DEF FinishedFrom, Identity, SpanFields
<1>2. \A i \in DOMAIN s.events : s.events[i].timestamp \in Int
  BY <1>1, ListsAre
<1>3. /\ m.start_time_unix_nano = SystemTimeToNanos(start)
      /\ m.end_time_unix_nano = SystemTimeToNanos(end)
      /\ m.events = [i \in DOMAIN s.events |-> EventToProto(s.events[i])]
  BY DEF FinishedSpanToProto
<1> HIDE DEF m, start, end
<1>4. MaxWord \in Nat BY WordAssumption
<1>5. ASSUME NEW t \in Int, InRange(t) PROVE SystemTimeToNanos(t) = t
  BY <1>4, <1>5, NanosAre DEF InRange
<1>6. start <= end => SystemTimeToNanos(start) <= SystemTimeToNanos(end)
  BY <1>1, <1>4, NanosAre
<1>7. ASSUME NEW i \in DOMAIN s.events, InRange(s.events[i].timestamp)
      PROVE  m.events[i].time_unix_nano = s.events[i].timestamp
  BY <1>2, <1>3, <1>5, <1>7 DEF EventToProto
<1> QED BY <1>1, <1>3, <1>5, <1>6, <1>7 DEF TimesRead, m, start, end

\* A collector that reads the OTLP request gets every finished span of the
\* batch back, in order, with all that survived its budgets and with its times as
\* far as they fit the wire (otlp_http.rs): whatever was called on the span, and
\* whatever the batch.
THEOREM OtlpCorrect == Spec => []OtlpFaithful
<1>1. IInv => OtlpFaithful
  <2> SUFFICES ASSUME IInv
               PROVE  LET request == BuildExportRequest(Batch) IN
                      /\ Len(request.spans) = Len(Batch)
                      /\ \A i \in DOMAIN Batch : Reads(Batch[i], request.spans[i])
    BY DEF OtlpFaithful
  <2> DEFINE spans == BuildExportRequest(Batch).spans
  <2>1. IsSpan(span) BY DEF IInv, Typed
  <2>2. Len(Heads) \in Nat /\ DOMAIN Heads = 1..Len(Heads)
        /\ \A i \in DOMAIN Heads : Heads[i] \in Identity
    BY HeadsAssumption, ListIs
  <2>3. /\ DOMAIN Batch = DOMAIN Heads
        /\ \A i \in DOMAIN Heads : Batch[i] = Finish(Heads[i], span)
    BY DEF Batch
  <2>4. spans = [i \in DOMAIN Batch |-> FinishedSpanToProto(Batch[i])]
    BY DEF BuildExportRequest
  <2> HIDE DEF spans
  <2>5. Len(spans) = Len(Batch)
    <3> DEFINE n == Len(Heads)
    <3>1. spans = [i \in 1..n |-> spans[i]] /\ Batch = [i \in 1..n |-> Batch[i]]
      BY <2>2, <2>3, <2>4 DEF Batch
    <3> HIDE DEF n
    <3> QED BY <2>2, <3>1, FunctionLength DEF n
  <2>6. ASSUME NEW i \in DOMAIN Batch PROVE Reads(Batch[i], spans[i])
    <3>1. Heads[i] \in Identity /\ FinishedFrom(Batch[i], Heads[i], span)
      BY <2>1, <2>2, <2>3, FinishIs
    <3>2. spans[i] = FinishedSpanToProto(Batch[i]) BY <2>4
    <3> QED BY <2>1, <3>1, <3>2, ContentIs, TimesAre DEF Reads
  <2> QED BY <2>5, <2>6 DEF spans
<1> QED BY <1>1, InvCorrect, PTL

-----------------------------------------------------------------------------
(* The tags of a span over Zipkin.                                          *)

\* A set of naturals with an upper bound has a greatest one, and Max chooses it.
LEMMA GreatestIs ==
  ASSUME NEW n \in Nat, NEW S, S \subseteq 1..n, S # {}
  PROVE  Max(S) \in S /\ \A y \in S : y <= Max(S)
<1> DEFINE T == {n - y : y \in S}
<1>0. \A y \in S : y \in Nat /\ y <= n OBVIOUS
<1>1. T \subseteq Nat /\ T # {}
  <2>1. \A y \in S : n - y \in Nat BY <1>0
  <2> QED BY <2>1
<1>2. PICK z \in T : \A y \in T : z <= y
  <2> HIDE DEF T
  <2>1. Min(T) \in T /\ \A y \in T : Min(T) <= y BY <1>1, LeastIs
  <2> QED BY <2>1
<1>3. PICK x \in S : z = n - x OBVIOUS
<1>4. \A y \in S : n - x <= n - y BY <1>2, <1>3
<1>5. \A y \in S : x >= y BY <1>0, <1>4
<1>6. Max(S) \in S /\ \A y \in S : Max(S) >= y BY <1>5, Zenon DEF Max
<1> QED BY <1>0, <1>6

\* Map m has the keys of the first n pairs, each with the text of one of them.
TakenFrom(m, pairs, n) ==
  /\ DOMAIN m = {pairs[i].key : i \in 1..n}
  /\ \A k \in DOMAIN m : \E i \in 1..n : pairs[i].key = k /\ m[k] = pairs[i].text

\* The map of a sequence of pairs is such a map.
LEMMA MapIs ==
  ASSUME NEW n \in Nat, NEW pairs, Len(pairs) = n, DOMAIN pairs = 1..n
  PROVE  TakenFrom(MapOf(pairs), pairs, n)
<1>1. DOMAIN MapOf(pairs) = {pairs[i].key : i \in 1..n} BY DEF MapOf
<1>2. ASSUME NEW k \in {pairs[i].key : i \in 1..n}
      PROVE  \E i \in 1..n : pairs[i].key = k /\ MapOf(pairs)[k] = pairs[i].text
  <2> DEFINE I == {i \in 1..Len(pairs) : pairs[i].key = k}
             last == SelectLastInSeq(pairs, LAMBDA p : p.key = k)
  <2>1. I \subseteq 1..n /\ I # {} BY <1>2
  <2>2. last = IF I # {} THEN Max(I) ELSE 0 BY DEF SelectLastInSeq
  <2>3. MapOf(pairs)[k] = pairs[last].text BY <1>2 DEF MapOf
  <2> HIDE DEF last
  <2>4. last \in I
    <3> HIDE DEF I
    <3> QED BY <2>1, <2>2, GreatestIs
  <2> QED BY <2>3, <2>4
<1> QED BY <1>1, <1>2 DEF TakenFrom

\* Laying a function over another.
LEMMA OverIs ==
  ASSUME NEW f, NEW g
  PROVE  /\ DOMAIN Over(f, g) = DOMAIN f \cup DOMAIN g
         /\ \A x \in DOMAIN f : Over(f, g)[x] = f[x]
         /\ \A x \in DOMAIN g \ DOMAIN f : Over(f, g)[x] = g[x]
BY DEF Over

\* The tags of the attributes have their keys and their texts.
LEMMA SpanTagsAre ==
  ASSUME NEW s, s.attributes \in Seq(Entry), Distinct(s.attributes)
  PROVE  /\ DOMAIN SpanTags(s) = KeysOf(s.attributes)
         /\ \A k \in DOMAIN SpanTags(s) : SpanTags(s)[k] = AttributeOf(s, k)
<1> DEFINE a == s.attributes
           n == Len(a)
           pairs == [i \in DOMAIN a |-> [key |-> a[i].key, text |-> a[i].value.text]]
<1>1. n \in Nat /\ DOMAIN a = 1..n BY EntriesAre
<1>2. SpanTags(s) = MapOf(pairs) BY DEF SpanTags
<1>3. /\ \A i \in 1..n : pairs[i].key = a[i].key /\ pairs[i].text = a[i].value.text
      /\ pairs = [i \in 1..n |-> pairs[i]]
  BY <1>1
<1> HIDE DEF pairs, n
<1>4. Len(pairs) = n /\ DOMAIN pairs = 1..n BY <1>1, <1>3, FunctionLength
<1>5. TakenFrom(SpanTags(s), pairs, n) BY <1>1, <1>2, <1>4, MapIs
<1> HIDE DEF a
<1>6. DOMAIN SpanTags(s) = KeysOf(a) BY <1>1, <1>3, <1>5 DEF TakenFrom, KeysOf
<1>7. ASSUME NEW k \in DOMAIN SpanTags(s) PROVE SpanTags(s)[k] = AttributeOf(s, k)
  <2>1. PICK i \in 1..n : pairs[i].key = k /\ SpanTags(s)[k] = pairs[i].text
    BY <1>5, Zenon DEF TakenFrom
  <2>2. i \in DOMAIN a /\ a[i].key = k /\ SpanTags(s)[k] = a[i].value.text
    BY <1>1, <1>3, <2>1
  <2>3. a \in Seq(Entry) /\ Distinct(a) BY DEF a
  <2>4. Position(a, k) \in DOMAIN a /\ a[Position(a, k)].key = k
    BY <2>2, <2>3, PositionIs
  <2>5. Position(a, k) = i BY <2>2, <2>3, <2>4 DEF Distinct
  <2> QED BY <2>2, <2>5 DEF AttributeOf, a
<1> QED BY <1>6, <1>7 DEF a

\* A failed span has the error tag, another none.
LEMMA ErrorTagIs ==
  ASSUME NEW s
  PROVE  /\ DOMAIN ErrorTag(s) = IF s.status.code = "error" THEN {"error"} ELSE {}
         /\ s.status.code = "error" =>
              ErrorTag(s)["error"] = IF s.status.message = "" THEN "true"
                                     ELSE s.status.message
<1>1. CASE s.status.code = "error"
  <2>1. ErrorTag(s) = Only("error", IF s.status.message = "" THEN "true"
                                    ELSE s.status.message)
    BY <1>1 DEF ErrorTag
  <2>2. DOMAIN ErrorTag(s) = {"error"} BY <2>1 DEF Only
  <2>3. ErrorTag(s)["error"] = IF s.status.message = "" THEN "true"
                               ELSE s.status.message
    BY <2>1, Zenon DEF Only
  <2> QED BY <1>1, <2>2, <2>3, Zenon
<1>2. CASE s.status.code # "error"
  <2>1. ErrorTag(s) = <<>> BY <1>2 DEF ErrorTag
  <2>2. DOMAIN ErrorTag(s) = {} BY <2>1
  <2> QED BY <1>2, <2>2, Zenon
<1> QED BY <1>1, <1>2

\* The sampled tag is always there.
LEMMA SampledTagIs ==
  ASSUME NEW s
  PROVE  /\ DOMAIN SampledTag(s) = {"otel.sampled"}
         /\ SampledTag(s)["otel.sampled"] = IF s.is_sampled THEN "true" ELSE "false"
BY DEF SampledTag, Only

\* The resource tags are those of the configured attributes.
LEMMA ResourceTagsAre ==
  /\ DOMAIN MapOf(ResourceAttributes) = ResourceTags
  /\ \A k \in ResourceTags : \E i \in DOMAIN ResourceAttributes :
       ResourceAttributes[i] = [key |-> k, text |-> MapOf(ResourceAttributes)[k]]
<1> DEFINE ra == ResourceAttributes
           n  == Len(ra)
<1>1. /\ n \in Nat /\ DOMAIN ra = 1..n
      /\ \A i \in DOMAIN ra : ra[i] \in [key : STRING, text : STRING]
  BY ResourceAssumption, ListIs
<1>2. \A i \in DOMAIN ra : ra[i] = [key |-> ra[i].key, text |-> ra[i].text]
  BY <1>1
<1> HIDE DEF n
<1>3. TakenFrom(MapOf(ra), ra, n)
  <2>1. Len(ra) = n BY DEF n
  <2> QED BY <1>1, <2>1, MapIs
<1>4. DOMAIN MapOf(ra) = ResourceTags BY <1>1, <1>3 DEF ResourceTags, TakenFrom
<1>5. ASSUME NEW k \in ResourceTags
      PROVE  \E i \in DOMAIN ra : ra[i] = [key |-> k, text |-> MapOf(ra)[k]]
  <2>1. PICK i \in 1..n : ra[i].key = k /\ MapOf(ra)[k] = ra[i].text
    BY <1>3, <1>4 DEF TakenFrom
  <2> QED BY <1>1, <1>2, <2>1
<1> QED BY <1>4, <1>5

\* The error signal and the sampled flag are laid over an attribute, and that
\* over a resource attribute.
LEMMA TagsAre ==
  ASSUME NEW h \in Identity, NEW r, IsSpan(r), Distinct(r.attributes),
         NEW s, FinishedFrom(s, h, r)
  PROVE  TagsAgree(s, FinishedSpanToProto(s), Tags(s))
<1> DEFINE m        == FinishedSpanToProto(s)
           failed   == s.status.code = "error"
           reserved == {"otel.sampled"} \cup (IF m.status.code = 2 THEN {"error"} ELSE {})
           own      == {m.attributes[i].key : i \in DOMAIN m.attributes}
           below    == Over(SpanTags(s), MapOf(ResourceAttributes))
           told     == Over(ErrorTag(s), below)
           tags     == Tags(s)
<1>1. /\ s.attributes = r.attributes /\ s.status = r.status
      /\ s.is_sampled = h.is_sampled
  BY DEF FinishedFrom, SpanFields
<1>2. s.attributes \in Seq(Entry) /\ Distinct(s.attributes) /\ IsStatus(s.status)
  BY <1>1 DEF IsSpan
<1>3. own = KeysOf(s.attributes)
  <2>1. m.attributes = AttributesToProto(s.attributes) BY DEF FinishedSpanToProto
  <2>2. /\ DOMAIN m.attributes = DOMAIN s.attributes
        /\ \A i \in DOMAIN s.attributes : m.attributes[i].key = s.attributes[i].key
    BY <1>2, <2>1, EntriesAreAttributes, AttributesReadBack
  <2> HIDE DEF m
  <2> QED BY <2>2, Zenon DEF KeysOf
<1>4. /\ m.status.code = 2 <=> failed
      /\ failed => m.status.message = s.status.message
  BY <1>2, StatusReadBack DEF FinishedSpanToProto
<1>5. m.flags % 2 = 1 <=> s.is_sampled
  <2>1. IsSpan(r) /\ FinishedFrom(s, h, r) OBVIOUS
  <2>2. ContentRead(s, m) BY <2>1, ContentIs
  <2> HIDE DEF m
  <2> QED BY <2>2 DEF ContentRead
<1>6. tags = Over(SampledTag(s), told) BY DEF Tags
<1> HIDE DEF m, own, below, told, tags
<1>7. /\ DOMAIN tags = {"otel.sampled"} \cup DOMAIN told
      /\ tags["otel.sampled"] = IF s.is_sampled THEN "true" ELSE "false"
      /\ \A x \in DOMAIN told \ {"otel.sampled"} : tags[x] = told[x]
  <2> DEFINE sampled == SampledTag(s)
  <2>1. /\ DOMAIN sampled = {"otel.sampled"}
        /\ sampled["otel.sampled"] = IF s.is_sampled THEN "true" ELSE "false"
    BY SampledTagIs
  <2>2. tags = Over(sampled, told) BY <1>6
  <2> HIDE DEF sampled
  <2>3. /\ DOMAIN tags = DOMAIN sampled \cup DOMAIN told
        /\ \A x \in DOMAIN sampled : tags[x] = sampled[x]
        /\ \A x \in DOMAIN told \ DOMAIN sampled : tags[x] = told[x]
    <3>1. /\ DOMAIN Over(sampled, told) = DOMAIN sampled \cup DOMAIN told
          /\ \A x \in DOMAIN sampled : Over(sampled, told)[x] = sampled[x]
          /\ \A x \in DOMAIN told \ DOMAIN sampled :
               Over(sampled, told)[x] = told[x]
      BY OverIs
    <3> QED BY <2>2, <3>1
  <2>4. tags["otel.sampled"] = sampled["otel.sampled"] BY <2>1, <2>3
  <2>5. tags["otel.sampled"] = IF s.is_sampled THEN "true" ELSE "false"
    BY <2>1, <2>4, Zenon
  <2> QED BY <2>1, <2>3, <2>5
<1>8. DOMAIN ErrorTag(s) = IF failed THEN {"error"} ELSE {} BY ErrorTagIs
<1>9. failed => ErrorTag(s)["error"] = IF s.status.message = "" THEN "true"
                                       ELSE s.status.message
  BY ErrorTagIs
<1>10. /\ DOMAIN told = DOMAIN ErrorTag(s) \cup DOMAIN below
       /\ \A x \in DOMAIN ErrorTag(s) : told[x] = ErrorTag(s)[x]
       /\ \A x \in DOMAIN below \ DOMAIN ErrorTag(s) : told[x] = below[x]
  BY OverIs DEF told
<1>11. /\ DOMAIN SpanTags(s) = own
       /\ \A k \in own : SpanTags(s)[k] = AttributeOf(s, k)
  BY <1>2, <1>3, SpanTagsAre
<1>12. /\ DOMAIN below = own \cup ResourceTags
       /\ \A k \in own : below[k] = AttributeOf(s, k)
       /\ \A k \in ResourceTags \ own : below[k] = MapOf(ResourceAttributes)[k]
  <2>1. /\ DOMAIN below = DOMAIN SpanTags(s) \cup DOMAIN MapOf(ResourceAttributes)
        /\ \A x \in DOMAIN SpanTags(s) : below[x] = SpanTags(s)[x]
        /\ \A x \in DOMAIN MapOf(ResourceAttributes) \ DOMAIN SpanTags(s) :
             below[x] = MapOf(ResourceAttributes)[x]
    BY OverIs DEF below
  <2>2. DOMAIN MapOf(ResourceAttributes) = ResourceTags BY ResourceTagsAre
  <2> QED BY <1>11, <2>1, <2>2
<1>13. reserved = {"otel.sampled"} \cup DOMAIN ErrorTag(s) BY <1>4, <1>8
<1> HIDE DEF reserved, failed
<1>14. DOMAIN tags = reserved \cup own \cup ResourceTags
  BY <1>7, <1>10, <1>12, <1>13
<1>15. m.status.code = 2 =>
         tags["error"] = IF m.status.message = "" THEN "true" ELSE m.status.message
  <2> SUFFICES ASSUME m.status.code = 2
               PROVE  tags["error"] = IF m.status.message = "" THEN "true"
                                      ELSE m.status.message
    OBVIOUS
  <2>1. failed BY <1>4
  <2>2. "error" \in DOMAIN ErrorTag(s) BY <1>8, <2>1
  <2>3. "error" \in DOMAIN told \ {"otel.sampled"} BY <1>10, <2>2
  <2>4. tags["error"] = ErrorTag(s)["error"] BY <1>7, <1>10, <2>2, <2>3
  <2> QED BY <1>4, <1>9, <2>1, <2>4
<1>16. tags["otel.sampled"] = IF m.flags % 2 = 1 THEN "true" ELSE "false"
  BY <1>5, <1>7, Zenon
<1>17. \A k \in own \ reserved : tags[k] = AttributeOf(s, k)
  BY <1>7, <1>10, <1>12, <1>13
<1>18. \A k \in ResourceTags \ (own \cup reserved) :
         \E i \in DOMAIN ResourceAttributes :
           ResourceAttributes[i] = [key |-> k, text |-> tags[k]]
  <2> SUFFICES ASSUME NEW k \in ResourceTags \ (own \cup reserved)
               PROVE  \E i \in DOMAIN ResourceAttributes :
                        ResourceAttributes[i] = [key |-> k, text |-> tags[k]]
    OBVIOUS
  <2>1. tags[k] = MapOf(ResourceAttributes)[k]
    BY <1>7, <1>10, <1>12, <1>13
  <2> QED BY <2>1, ResourceTagsAre
<1> QED BY <1>14, <1>15, <1>16, <1>17, <1>18 DEF TagsAgree, m, reserved, own, tags

-----------------------------------------------------------------------------
(* The interval.                                                            *)

\* Whole units of n: what div counts.
LEMMA DivIs ==
  ASSUME NEW n \in Nat \ {0}, NEW a \in Nat
  PROVE  /\ a \div n \in Nat /\ a \div n <= a
         /\ n * (a \div n) <= a /\ a < n * (a \div n) + n
<1>1. a \div n \in Nat /\ n * (a \div n) <= a /\ a < n * (a \div n) + n OBVIOUS
<1> DEFINE q == a \div n
<1> HIDE DEF q
<1>2. ASSUME NEW x \in Nat, n * x <= a PROVE x <= a BY <1>2, SMTT(30)
<1> QED BY <1>1, <1>2 DEF q

\* Fewer than y units are not more than y units.
LEMMA FewerUnits ==
  ASSUME NEW n \in Nat \ {0}, NEW x \in Nat, NEW y \in Nat, n * x < n * y
  PROVE  x < y
<1> SUFFICES ASSUME y <= x PROVE FALSE OBVIOUS
<1>1. PICK d \in Nat : x = y + d
  <2>1. x - y \in Nat /\ x = y + (x - y) OBVIOUS
  <2> QED BY <2>1
<1>2. n * x = n * y + n * d BY <1>1
<1>3. n * d \in Nat /\ n * y \in Nat OBVIOUS
<1> QED BY <1>2, <1>3

\* A start and a duration in whole units miss the end by less than two.
LEMMA UnitsAdd ==
  ASSUME NEW n \in Nat \ {0}, NEW a \in Nat, NEW b \in Nat, a <= b
  PROVE  a \div n + (b - a) \div n \in {b \div n - 1, b \div n}
<1> DEFINE p == a \div n
           q == (b - a) \div n
           t == b \div n
<1>1. p \in Nat /\ n * p <= a /\ a < n * p + n BY DivIs
<1>2. b - a \in Nat OBVIOUS
<1>3. q \in Nat /\ n * q <= b - a /\ b - a < n * q + n BY <1>2, DivIs
<1>4. t \in Nat /\ n * t <= b /\ b < n * t + n BY DivIs
<1> HIDE DEF p, q, t
<1>5. n * (p + q) = n * p + n * q /\ n * (t + 1) = n * t + n
      /\ n * (p + q + 2) = n * p + n * q + n + n
  BY <1>1, <1>3, <1>4
<1>6. n * p \in Nat /\ n * q \in Nat /\ n * t \in Nat BY <1>1, <1>3, <1>4
<1>7. n * (p + q) < n * (t + 1) BY <1>1, <1>3, <1>4, <1>5, <1>6
<1>8. n * t < n * (p + q + 2) BY <1>1, <1>3, <1>4, <1>5, <1>6
<1>9. p + q \in Nat /\ t + 1 \in Nat /\ p + q + 2 \in Nat BY <1>1, <1>3, <1>4
<1>10. p + q < t + 1 BY <1>7, <1>9, FewerUnits
<1>11. t < p + q + 2 BY <1>4, <1>8, <1>9, FewerUnits
<1>12. p + q = t - 1 \/ p + q = t BY <1>1, <1>3, <1>4, <1>10, <1>11
<1> QED BY <1>12 DEF p, q, t

\* Where OTLP tells the two times exactly and in order, Zipkin tells an interval
\* that ends in the same microsecond, or in the one before.
LEMMA IntervalIs ==
  ASSUME NEW h \in Identity, NEW r, NEW s, FinishedFrom(s, h, r)
  PROVE  IntervalAgrees(FinishedSpanToProto(s), ZipkinSpan(s))
<1> DEFINE m     == FinishedSpanToProto(s)
           z     == ZipkinSpan(s)
           start == s.start_time
           end   == s.end_time
<1>1. start \in Int /\ end \in Int BY DEF FinishedFrom, Identity
<1>2. /\ m.start_time_unix_nano = SystemTimeToNanos(start)
      /\ m.end_time_unix_nano = SystemTimeToNanos(end)
  BY DEF FinishedSpanToProto
<1>3. z.timestamp = Micros(start) /\ z.duration = Micros(end - start)
  BY DEF ZipkinSpan, MicrosSinceEpoch, DurationMicros
<1> HIDE DEF m, z, start, end
<1> SUFFICES ASSUME m.start_time_unix_nano <= m.end_time_unix_nano,
                    m.start_time_unix_nano > 0,
                    m.end_time_unix_nano < MaxWord
             PROVE  z.timestamp + z.duration
                      \in {m.end_time_unix_nano \div NanosPerMicro - 1,
                           m.end_time_unix_nano \div NanosPerMicro}
  BY DEF IntervalAgrees, m, z
<1>4. MaxWord \in Nat /\ NanosPerMicro \in Nat \ {0} BY WordAssumption
<1>5. /\ start \in Nat /\ end \in Nat /\ start <= end /\ end <= MaxWord
      /\ m.end_time_unix_nano = end
  BY <1>1, <1>2, <1>4, NanosAre
<1>6. ASSUME NEW t \in Nat, t <= MaxWord PROVE Micros(t) = t \div NanosPerMicro
  <2>1. t \div NanosPerMicro \in Nat /\ t \div NanosPerMicro <= t BY <1>4, DivIs
  <2> DEFINE q == t \div NanosPerMicro
  <2>2. Micros(t) = Min({q, MaxWord}) BY <1>6 DEF Micros
  <2> HIDE DEF q
  <2>3. q \in Nat /\ q <= MaxWord BY <1>4, <1>6, <2>1 DEF q
  <2> QED BY <2>2, <2>3, ClampIs DEF q
<1>7. z.timestamp = start \div NanosPerMicro BY <1>3, <1>4, <1>5, <1>6
<1>8. z.duration = (end - start) \div NanosPerMicro
  <2>1. end - start \in Nat /\ end - start <= MaxWord BY <1>4, <1>5
  <2> QED BY <1>3, <1>6, <2>1
<1> QED BY <1>4, <1>5, <1>7, <1>8, UnitsAdd

-----------------------------------------------------------------------------
(* A span over both.                                                        *)

\* The events come first among the annotations, the links after them.
LEMMA AnnotationsAre ==
  ASSUME NEW r, IsSpan(r), NEW s, s.events = r.events, s.links = r.links
  PROVE  LET m == FinishedSpanToProto(s)
             z == ZipkinSpan(s)
         IN /\ Len(z.annotations) = Len(m.events) + Len(m.links)
            /\ \A j \in DOMAIN m.events : z.annotations[j].value = m.events[j].name
<1> DEFINE m  == FinishedSpanToProto(s)
           z  == ZipkinSpan(s)
           ne == Len(r.events)
           nl == Len(r.links)
           e  == [i \in DOMAIN s.events |-> AnnotationOfEvent(s.events[i])]
           l  == [i \in DOMAIN s.links |-> AnnotationOfLink(s.links[i])]
           S  == {e[i] : i \in 1..ne} \cup {l[i] : i \in 1..nl}
<1>1. /\ ne \in Nat /\ DOMAIN s.events = 1..ne /\ nl \in Nat /\ DOMAIN s.links = 1..nl
  BY ListsAre
<1>2. /\ m.events = [i \in DOMAIN s.events |-> EventToProto(s.events[i])]
      /\ m.links = [i \in DOMAIN s.links |-> LinkToProto(s.links[i])]
      /\ z.annotations = e \o l
  BY DEF FinishedSpanToProto, ZipkinSpan
<1>3. \A i \in 1..ne : e[i].value = m.events[i].name
  BY <1>1, <1>2 DEF AnnotationOfEvent, EventToProto
<1>4. /\ e \in [1..ne -> S] /\ l \in [1..nl -> S]
      /\ m.events = [i \in 1..ne |-> m.events[i]]
      /\ m.links = [i \in 1..nl |-> m.links[i]]
  BY <1>1, <1>2
<1> HIDE DEF m, z, e, l, S, ne, nl
<1>5. e \in Seq(S) /\ Len(e) = ne /\ l \in Seq(S) /\ Len(l) = nl
  BY <1>1, <1>4, SeqDef
<1>6. Len(m.events) = ne /\ DOMAIN m.events = 1..ne /\ Len(m.links) = nl
  BY <1>1, <1>4, FunctionLength
<1>7. /\ Len(e \o l) = Len(e) + Len(l)
      /\ \A i \in 1..Len(e) + Len(l) :
           (e \o l)[i] = IF i <= Len(e) THEN e[i] ELSE l[i - Len(e)]
  BY <1>5, ConcatProperties
<1>8. ASSUME NEW j \in DOMAIN m.events
      PROVE  z.annotations[j].value = m.events[j].name
  <2>1. j \in 1..ne /\ j <= Len(e) /\ j \in 1..Len(e) + Len(l)
    BY <1>1, <1>5, <1>6
  <2>2. z.annotations[j] = e[j] BY <1>2, <1>7, <2>1
  <2> QED BY <1>3, <2>1, <2>2
<1>9. Len(z.annotations) = Len(m.events) + Len(m.links)
  BY <1>2, <1>5, <1>6, <1>7
<1> QED BY <1>8, <1>9 DEF m, z

\* The two messages of one span agree.
LEMMA StoryIs ==
  ASSUME NEW h \in Identity, NEW r, IsSpan(r), Distinct(r.attributes),
         NEW s, FinishedFrom(s, h, r)
  PROVE  StoryAgrees(s, FinishedSpanToProto(s), ZipkinSpan(s))
<1> DEFINE m == FinishedSpanToProto(s)
           z == ZipkinSpan(s)
<1>1. s.events = r.events /\ s.links = r.links BY DEF FinishedFrom, SpanFields
<1>2. /\ Len(z.annotations) = Len(m.events) + Len(m.links)
      /\ \A j \in DOMAIN m.events : z.annotations[j].value = m.events[j].name
  BY <1>1, AnnotationsAre
<1>3. IntervalAgrees(m, z) BY IntervalIs
<1>4. z.tags = Tags(s) BY DEF ZipkinSpan
<1>5. TagsAgree(s, m, z.tags) BY <1>4, TagsAre
<1>6. ContentRead(s, m) BY ContentIs
<1>7. /\ m.trace_id = <<s.trace_id>> /\ m.span_id = <<s.span_id>>
      /\ m.parent_span_id = s.parent_span_id /\ m.name = s.name
  BY <1>6 DEF ContentRead
<1>8. /\ z.trace_id = s.trace_id /\ z.id = s.span_id
      /\ z.parent_id = s.parent_span_id /\ z.name = s.name
  BY DEF ZipkinSpan
<1> HIDE DEF m, z
<1> QED BY <1>2, <1>3, <1>5, <1>7, <1>8 DEF StoryAgrees, m, z

\* The two exporters tell a collector the same story of the same batch: the same
\* identities, parents, attributes, failures, events and intervals (otlp_http.rs,
\* zipkin.rs), whatever was called on the span and whatever the resource.
THEOREM ExportersCorrect == Spec => []ExportersAgree
<1>1. IInv => ExportersAgree
  <2> SUFFICES ASSUME IInv, NEW i \in DOMAIN Batch
               PROVE  StoryAgrees(Batch[i], BuildExportRequest(Batch).spans[i],
                                  ZipkinPayload(Batch)[i])
    BY DEF ExportersAgree
  <2>1. IsSpan(span) /\ Distinct(span.attributes)
    BY DEF IInv, Typed, AttributesKept
  <2>2. DOMAIN Batch = DOMAIN Heads /\ Batch[i] = Finish(Heads[i], span)
    BY DEF Batch
  <2>3. Heads[i] \in Identity BY <2>2, HeadsAssumption, ListIs
  <2>4. FinishedFrom(Batch[i], Heads[i], span) BY <2>1, <2>2, <2>3, FinishIs
  <2>5. /\ BuildExportRequest(Batch).spans[i] = FinishedSpanToProto(Batch[i])
        /\ ZipkinPayload(Batch)[i] = ZipkinSpan(Batch[i])
    BY DEF BuildExportRequest, ZipkinPayload
  <2> QED BY <2>1, <2>3, <2>4, <2>5, StoryIs
<1> QED BY <1>1, InvCorrect, PTL
=============================================================================
