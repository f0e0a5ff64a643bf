--------------------------- MODULE OtelSpanProofs ---------------------------
(* Proofs about one live span, for every capacity, every set of fields,     *)
(* events and contexts and every number of calls.                           *)
EXTENDS OtelSpan, SequenceTheorems, FiniteSetTheorems, WellFoundedInduction,
        NaturalsInduction, TLAPS

-----------------------------------------------------------------------------
(* The inductive invariant.                                                 *)

AnyKey        == Keys \cup ControlKeys
Entry         == [key : AnyKey, value : AttributeValue]
StampedEvents == {Stamped(e, now) : e \in Events, now \in 0..MaxCalls}
Latest        == [by : {"none", "str", "debug", "bool", "i64", "u64", "f64"},
                  text : STRING]
SpanFields ==
  {"name", "kind", "status", "attributes", "dropped_attributes_count", "events",
   "dropped_events_count", "links", "dropped_links_count"}

\* Only an error has a message.
IsStatus(st) ==
  /\ st \in [code : {"unset", "ok", "error"}, message : STRING]
  /\ st.code # "error" => st.message = ""

IsSpan(s) ==
  /\ s = [f \in SpanFields |-> s[f]]
  /\ s.attributes \in Seq(Entry) /\ Len(s.attributes) <= AttributeCap
  /\ s.events \in Seq({Visited(e) : e \in StampedEvents})
  /\ Len(s.events) <= EventCap
  /\ s.links \in Seq(Contexts) /\ Len(s.links) <= LinkCap
  /\ s.dropped_attributes_count \in Nat
  /\ s.dropped_events_count \in Nat /\ s.dropped_links_count \in Nat
  /\ s.kind \in {"internal", "server", "client", "producer", "consumer"}
  /\ IsStatus(s.status)

Typed ==
  /\ IsSpan(span)
  /\ live \in BOOLEAN /\ calls \in 0..MaxCalls
  /\ latest \in [Keys -> Latest]
  /\ history = [events |-> history.events, followed |-> history.followed,
                said |-> history.said]
  /\ history.events \in Seq(StampedEvents)
  /\ history.followed \in Seq(Contexts)
  /\ history.said \in Seq(Fields)

KeysOf(a)   == {a[i].key : i \in DOMAIN a}
Distinct(a) == \A i, j \in DOMAIN a : a[i].key = a[j].key => i = j
Recorded(l) == {k \in Keys : l[k] # NotRecorded}
Protected(K) == {k \in K : IsProtected(k)}

\* A stored value is the one recorded last, in the type that holds it.
Matches(v, r) ==
  /\ r # NotRecorded /\ v.text = r.text
  /\ v.type = "Int" <=> r.by \in {"i64", "u64"} /\ r.text \notin Wide

\* Every protected key that was recorded is stored, or the budget is full of
\* them.
RoomForProtected(a, l) ==
  \/ Protected(Recorded(l)) \subseteq KeysOf(a)
  \/ Len(a) = AttributeCap /\ \A k \in KeysOf(a) : IsProtected(k)

\* Attributes a and a drop count n after what l says was recorded.
AttributesKept(a, n, l) ==
  /\ Distinct(a)
  /\ \A i \in DOMAIN a : a[i].key \in Keys => Matches(a[i].value, l[a[i].key])
  /\ RoomForProtected(a, l)
  /\ IsFiniteSet(Recorded(l))
  /\ Cardinality(Recorded(l) \ KeysOf(a)) <= n + Cardinality(Protected(KeysOf(a)))

\* What is stored of the events and links is what came first, and nothing was
\* dropped while there was room.
EventsKept ==
  /\ Len(span.events) + span.dropped_events_count = Len(history.events)
  /\ span.dropped_events_count > 0 => Len(span.events) = EventCap
  /\ \A i \in DOMAIN span.events : span.events[i] = Visited(history.events[i])
LinksKept ==
  /\ Len(span.links) + span.dropped_links_count = Len(history.followed)
  /\ span.dropped_links_count > 0 => Len(span.links) = LinkCap
  /\ \A i \in DOMAIN span.links : span.links[i] = history.followed[i]

IInv ==
  /\ Typed
  /\ AttributesKept(span.attributes, span.dropped_attributes_count, latest)
  /\ EventsKept /\ LinksKept
  /\ FirstErrorExplains

-----------------------------------------------------------------------------
(* Keys, positions and sequences.                                           *)

\* A set of naturals that is not empty has a least one, and Min chooses it.
LEMMA LeastIs ==
  ASSUME NEW S, S \subseteq Nat, S # {}
  PROVE  Min(S) \in S /\ \A y \in S : Min(S) <= y
<1>1. PICK x \in S : \A y \in S : ~ (<<y, x>> \in OpToRel(<, Nat))
  BY NatLessThanWellFounded, WFMin
<1>2. \A y \in S : ~(y < x) BY <1>1 DEF OpToRel
<1>3. \A y \in S : x <= y BY <1>2
<1> QED BY <1>3 DEF Min

\* The attributes of a sequence, and its length.
LEMMA EntriesAre ==
  ASSUME NEW a \in Seq(Entry)
  PROVE  /\ Len(a) \in Nat /\ DOMAIN a = 1..Len(a)
         /\ \A i \in DOMAIN a : /\ a[i] \in Entry /\ a[i].key \in AnyKey
                               /\ a[i].value \in AttributeValue
                               /\ a[i] = [key |-> a[i].key, value |-> a[i].value]
<1>1. /\ Len(a) \in Nat /\ DOMAIN a = 1..Len(a)
      /\ \A i \in DOMAIN a : a[i] \in Entry
  BY LenProperties, ElementOfSeq
<1> QED BY <1>1 DEF Entry

\* The first position of a key, or zero.
LEMMA PositionIs ==
  ASSUME NEW a \in Seq(Entry), NEW k
  PROVE  \/ Position(a, k) = 0 /\ \A i \in DOMAIN a : a[i].key # k
         \/ Position(a, k) \in DOMAIN a /\ a[Position(a, k)].key = k
<1> DEFINE I == {i \in 1..Len(a) : a[i].key = k}
<1>1. DOMAIN a = 1..Len(a) /\ Len(a) \in Nat BY EntriesAre
<1>2. Position(a, k) = IF I # {} THEN Min(I) ELSE 0
  BY DEF Position, SelectInSeq
<1>3. I \subseteq Nat OBVIOUS
<1>4. I # {} => Min(I) \in I
  <2> HIDE DEF I
  <2> QED BY <1>3, LeastIs
<1> QED BY <1>1, <1>2, <1>4

\* The first attribute that may be evicted, or zero.
LEMMA EvictableIs ==
  ASSUME NEW a \in Seq(Entry)
  PROVE  \/ Evictable(a) = 0 /\ \A i \in DOMAIN a : IsProtected(a[i].key)
         \/ Evictable(a) \in DOMAIN a /\ ~IsProtected(a[Evictable(a)].key)
<1> DEFINE I == {i \in 1..Len(a) : ~IsProtected(a[i].key)}
<1>1. DOMAIN a = 1..Len(a) /\ Len(a) \in Nat BY EntriesAre
<1>2. Evictable(a) = IF I # {} THEN Min(I) ELSE 0
  BY DEF Evictable, SelectInSeq
<1>3. I \subseteq Nat OBVIOUS
<1>4. I # {} => Min(I) \in I
  <2> HIDE DEF I
  <2> QED BY <1>3, LeastIs
<1> QED BY <1>1, <1>2, <1>4

\* The control keys are none of the program's, and none of them is protected.
LEMMA ControlKeysApart ==
  /\ Keys \cap (ControlFields \cup RemoteFields) = {}
  /\ \A k \in ControlKeys : k \in ControlFields /\ k \notin Keys /\ ~IsProtected(k)
<1>1. ASSUME NEW f \in Fields, Plain(f)
      PROVE  KeyOf(f) \notin ControlFields \cup RemoteFields
  <2>1. CASE f.key = "http.response.header"
    <3>1. HeaderOf(f.text) # {} BY <1>1, <2>1 DEF Plain, ControlFields
    <3>2. (CHOOSE h \in HeaderOf(f.text) : TRUE) \in HeaderNames \X HeaderTexts
      BY <3>1 DEF HeaderOf
    <3> QED BY <2>1, <3>2, FieldsAssumption DEF KeyOf
  <2>2. CASE f.key # "http.response.header"
    BY <1>1, <2>2 DEF Plain, KeyOf
  <2> QED BY <2>1, <2>2
<1>2. Keys \cap (ControlFields \cup RemoteFields) = {} BY <1>1 DEF Keys
<1>3. ControlKeys \subseteq ControlFields BY DEF ControlKeys, ControlFields
<1>4. \A k \in ControlKeys : ~IsProtected(k)
  BY <1>3, FieldsAssumption DEF IsProtected, ControlKeys
<1> QED BY <1>2, <1>3, <1>4

-----------------------------------------------------------------------------
(* OtelSpan::record.                                                        *)

\* What recording k with v makes of the attributes a, and what it adds to the
\* drops: the value is replaced, appended, put in the place of an attribute that
\* is not protected, or dropped.
RecordedAs(a, b, more, k, v) ==
  \/ /\ \E i \in DOMAIN a : a[i].key = k /\ b = [a EXCEPT ![i] = Attribute(k, v)]
     /\ more = 0
  \/ /\ k \notin KeysOf(a) /\ Len(a) < AttributeCap
     /\ b = Append(a, Attribute(k, v)) /\ more = 0
  \/ /\ k \notin KeysOf(a) /\ Len(a) = AttributeCap /\ IsProtected(k)
     /\ \E i \in DOMAIN a : ~IsProtected(a[i].key)
                           /\ b = [a EXCEPT ![i] = Attribute(k, v)]
     /\ more = 0
  \/ /\ k \notin KeysOf(a) /\ Len(a) = AttributeCap
     /\ IsProtected(k) => \A i \in DOMAIN a : IsProtected(a[i].key)
     /\ b = a /\ more = 1

\* Only the attributes and their drops differ.
OnlyAttributes(s, r) ==
  \A f \in SpanFields \ {"attributes", "dropped_attributes_count"} : r[f] = s[f]

\* Replacing one attribute leaves the others.
LEMMA ReplacedEntry ==
  ASSUME NEW a \in Seq(Entry), NEW i \in DOMAIN a, NEW k \in AnyKey,
         NEW v \in AttributeValue
  PROVE  LET b == [a EXCEPT ![i] = Attribute(k, v)] IN
         /\ b \in Seq(Entry) /\ Len(b) = Len(a) /\ DOMAIN b = DOMAIN a
         /\ b[i].key = k /\ b[i].value = v
         /\ \A j \in DOMAIN a : j # i => b[j] = a[j]
<1> DEFINE e == Attribute(k, v)
           b == [a EXCEPT ![i] = e]
<1>1. e \in Entry /\ e.key = k /\ e.value = v BY DEF Attribute, Entry
<1> HIDE DEF e
<1>2. b \in Seq(Entry) /\ Len(b) = Len(a)
  BY <1>1, ExceptSeq
<1>3. DOMAIN b = DOMAIN a OBVIOUS
<1>4. b[i] = e /\ \A j \in DOMAIN a : j # i => b[j] = a[j] OBVIOUS
<1> QED BY <1>1, <1>2, <1>3, <1>4 DEF e

\* Appending one leaves them too.
LEMMA AppendedEntry ==
  ASSUME NEW a \in Seq(Entry), NEW k \in AnyKey, NEW v \in AttributeValue
  PROVE  LET b == Append(a, Attribute(k, v))
             n == Len(a) + 1
         IN
         /\ b \in Seq(Entry) /\ Len(b) = n /\ DOMAIN b = 1..n
         /\ b[n].key = k /\ b[n].value = v
         /\ \A j \in DOMAIN a : b[j] = a[j]
<1> DEFINE e == Attribute(k, v)
           b == Append(a, e)
           n == Len(a) + 1
<1>1. e \in Entry /\ e.key = k /\ e.value = v BY DEF Attribute, Entry
<1> HIDE DEF e
<1>2. DOMAIN a = 1..Len(a) BY EntriesAre
<1>3. /\ b \in Seq(Entry) /\ Len(b) = n
      /\ \A j \in 1..Len(a) : b[j] = a[j]
      /\ b[n] = e
  BY <1>1, AppendProperties
<1>4. DOMAIN b = 1..n BY <1>3, LenProperties
<1> QED BY <1>1, <1>2, <1>3, <1>4 DEF e

\* Record does one of the four, and nothing else.
LEMMA RecordIs ==
  ASSUME NEW s, IsSpan(s), NEW k \in AnyKey, NEW v \in AttributeValue
  PROVE  LET r == Record(s, k, v) IN
         /\ IsSpan(r) /\ OnlyAttributes(s, r)
         /\ \E more \in {0, 1} :
              /\ RecordedAs(s.attributes, r.attributes, more, k, v)
              /\ r.dropped_attributes_count = s.dropped_attributes_count + more
<1> DEFINE a == s.attributes
           at == Position(a, k)
           victim == Evictable(a)
           e == Attribute(k, v)
           With(x) == [s EXCEPT !.attributes = x]
<1>1. /\ s = [f \in SpanFields |-> s[f]] /\ a \in Seq(Entry) /\ Len(a) <= AttributeCap
      /\ s.dropped_attributes_count \in Nat
      /\ AttributeCap \in Nat /\ Len(a) \in Nat /\ DOMAIN a = 1..Len(a)
  BY EntriesAre, CapacityAssumption DEF IsSpan
<1>2. \/ at = 0 /\ k \notin KeysOf(a)
      \/ at \in DOMAIN a /\ a[at].key = k
  BY <1>1, PositionIs DEF KeysOf
<1>3. \/ victim = 0 /\ \A i \in DOMAIN a : IsProtected(a[i].key)
      \/ victim \in DOMAIN a /\ ~IsProtected(a[victim].key)
  BY <1>1, EvictableIs
<1>4. ASSUME NEW b \in Seq(Entry), Len(b) <= AttributeCap
      PROVE  /\ IsSpan(With(b)) /\ OnlyAttributes(s, With(b))
             /\ With(b).attributes = b
             /\ With(b).dropped_attributes_count = s.dropped_attributes_count
  BY <1>1, <1>4 DEF IsSpan, OnlyAttributes, SpanFields
<1>5. CASE at # 0
  <2> DEFINE b == [a EXCEPT ![at] = e]
  <2>1. at \in DOMAIN a /\ a[at].key = k /\ a[at] = [key |-> k, value |-> a[at].value]
    BY <1>1, <1>2, <1>5, EntriesAre
  <2>2. Record(s, k, v) = [s EXCEPT !.attributes[at].value = v]
    BY <1>5 DEF Record
  <2>3. [a[at] EXCEPT !.value = v] = e
    BY <2>1 DEF Attribute
  <2>4. Record(s, k, v) = With(b)
    BY <2>2, <2>3, <1>1 DEF SpanFields
  <2>5. b \in Seq(Entry) /\ Len(b) = Len(a)
    BY <1>1, <2>1, ReplacedEntry
  <2>6. RecordedAs(a, b, 0, k, v) BY <2>1 DEF RecordedAs
  <2> HIDE DEF a, at, e, With
  <2>7. Len(b) <= AttributeCap BY <1>1, <2>5
  <2>8. /\ IsSpan(With(b)) /\ OnlyAttributes(s, With(b)) /\ With(b).attributes = b
        /\ With(b).dropped_attributes_count = s.dropped_attributes_count
    BY <1>4, <2>5, <2>7
  <2>9. s.dropped_attributes_count = s.dropped_attributes_count + 0 BY <1>1
  <2> HIDE DEF b
  <2>10. Record(s, k, v).attributes = b BY <2>4, <2>8
  <2>11. Record(s, k, v).dropped_attributes_count = s.dropped_attributes_count + 0
    BY <2>4, <2>8, <2>9
  <2>12. IsSpan(Record(s, k, v)) /\ OnlyAttributes(s, Record(s, k, v)) BY <2>4, <2>8
  <2>13. RecordedAs(a, Record(s, k, v).attributes, 0, k, v) BY <2>6, <2>10
  <2> QED BY <2>11, <2>12, <2>13 DEF a
<1>6. CASE at = 0 /\ Len(a) < AttributeCap
  <2> DEFINE b == Append(a, e)
  <2>1. Record(s, k, v) = [s EXCEPT !.attributes = Append(@, e)]
    <3>1. ~(Len(a) >= AttributeCap) BY <1>1, <1>6
    <3> QED BY <3>1, <1>6, Zenon DEF Record
  <2>4. Record(s, k, v) = With(b)
    BY <2>1, <1>1 DEF SpanFields
  <2>5. b \in Seq(Entry) /\ Len(b) = Len(a) + 1
    BY <1>1, AppendedEntry
  <2>6. RecordedAs(a, b, 0, k, v) BY <1>1, <1>2, <1>6 DEF RecordedAs
  <2> HIDE DEF a, at, e, With
  <2>7. Len(b) <= AttributeCap BY <1>1, <1>6, <2>5
  <2>8. /\ IsSpan(With(b)) /\ OnlyAttributes(s, With(b)) /\ With(b).attributes = b
        /\ With(b).dropped_attributes_count = s.dropped_attributes_count
    BY <1>4, <2>5, <2>7
  <2>9. s.dropped_attributes_count = s.dropped_attributes_count + 0 BY <1>1
  <2> HIDE DEF b
  <2>10. Record(s, k, v).attributes = b BY <2>4, <2>8
  <2>11. Record(s, k, v).dropped_attributes_count = s.dropped_attributes_count + 0
    BY <2>4, <2>8, <2>9
  <2>12. IsSpan(Record(s, k, v)) /\ OnlyAttributes(s, Record(s, k, v)) BY <2>4, <2>8
  <2>13. RecordedAs(a, Record(s, k, v).attributes, 0, k, v) BY <2>6, <2>10
  <2> QED BY <2>11, <2>12, <2>13 DEF a
<1>7. CASE at = 0 /\ Len(a) >= AttributeCap /\ IsProtected(k) /\ victim # 0
  <2> DEFINE b == [a EXCEPT ![victim] = e]
  <2>1. victim \in DOMAIN a /\ ~IsProtected(a[victim].key)
    BY <1>1, <1>3, <1>7
  <2>2. Record(s, k, v) = [s EXCEPT !.attributes[victim] = e]
    BY <1>7, <1>1 DEF Record
  <2>4. Record(s, k, v) = With(b)
    BY <2>2, <1>1 DEF SpanFields
  <2>5. b \in Seq(Entry) /\ Len(b) = Len(a)
    BY <1>1, <2>1, ReplacedEntry
  <2>6. RecordedAs(a, b, 0, k, v)
    <3>1. k \notin KeysOf(a) /\ Len(a) = AttributeCap BY <1>1, <1>2, <1>7
    <3> QED BY <3>1, <2>1, <1>7, Zenon DEF RecordedAs
  <2> HIDE DEF a, at, e, With
  <2>7. Len(b) <= AttributeCap BY <1>1, <2>5
  <2>8. /\ IsSpan(With(b)) /\ OnlyAttributes(s, With(b)) /\ With(b).attributes = b
        /\ With(b).dropped_attributes_count = s.dropped_attributes_count
    BY <1>4, <2>5, <2>7
  <2>9. s.dropped_attributes_count = s.dropped_attributes_count + 0 BY <1>1
  <2> HIDE DEF b
  <2>10. Record(s, k, v).attributes = b BY <2>4, <2>8
  <2>11. Record(s, k, v).dropped_attributes_count = s.dropped_attributes_count + 0
    BY <2>4, <2>8, <2>9
  <2>12. IsSpan(Record(s, k, v)) /\ OnlyAttributes(s, Record(s, k, v)) BY <2>4, <2>8
  <2>13. RecordedAs(a, Record(s, k, v).attributes, 0, k, v) BY <2>6, <2>10
  <2> QED BY <2>11, <2>12, <2>13 DEF a
<1>8. CASE at = 0 /\ Len(a) >= AttributeCap /\ (IsProtected(k) => victim = 0)
  <2> DEFINE r == [s EXCEPT !.dropped_attributes_count = @ + 1]
  <2>1. Record(s, k, v) = r
    BY <1>8, <1>1 DEF Record
  <2>2. /\ r.attributes = a
        /\ r.dropped_attributes_count = s.dropped_attributes_count + 1
        /\ OnlyAttributes(s, r)
    BY <1>1 DEF SpanFields, OnlyAttributes
  <2>3. IsSpan(r)
    <3>1. r = [f \in SpanFields |-> r[f]] BY <1>1
    <3>2. r.dropped_attributes_count \in Nat BY <1>1, <2>2
    <3> HIDE DEF r
    <3> QED BY <1>1, <2>2, <3>1, <3>2 DEF IsSpan, OnlyAttributes, SpanFields
  <2>4. Len(a) = AttributeCap BY <1>1, <1>8
  <2>5. k \notin KeysOf(a) BY <1>1, <1>2, <1>8
  <2>6. IsProtected(k) => \A i \in DOMAIN a : IsProtected(a[i].key)
    BY <1>1, <1>3, <1>8, SMTT(30)
  <2>7. RecordedAs(a, a, 1, k, v) BY <2>4, <2>5, <2>6 DEF RecordedAs
  <2> HIDE DEF r, a
  <2> QED BY <2>1, <2>2, <2>3, <2>7 DEF a
<1> QED
  <2> HIDE DEF a, at, e, victim, With
  <2>1. \/ at # 0
        \/ at = 0 /\ Len(a) < AttributeCap
        \/ at = 0 /\ Len(a) >= AttributeCap /\ IsProtected(k) /\ victim # 0
        \/ at = 0 /\ Len(a) >= AttributeCap /\ (IsProtected(k) => victim = 0)
    BY <1>1
  <2> QED BY <2>1, <1>5, <1>6, <1>7, <1>8

\* The keys of a sequence are finitely many: its length, if none repeats.
LEMMA KeysCount ==
  ASSUME NEW a \in Seq(Entry)
  PROVE  /\ IsFiniteSet(KeysOf(a))
         /\ Distinct(a) => Cardinality(KeysOf(a)) = Len(a)
<1> DEFINE D == 1..Len(a)
           K == KeysOf(a)
           f == [i \in D |-> a[i].key]
<1>1. Len(a) \in Nat /\ DOMAIN a = D BY EntriesAre
<1>2. IsFiniteSet(D) /\ Cardinality(D) = Len(a) BY <1>1, FS_Interval, SMTT(30)
<1>3. f \in Surjection(D, K) BY <1>1 DEF KeysOf, Surjection
<1>4. Distinct(a) => f \in Injection(D, K)
  BY <1>1 DEF Distinct, Injection, IsInjective, KeysOf
<1> HIDE DEF f, D, K
<1>5. IsFiniteSet(K) /\ (f \in Injection(D, K) => Cardinality(K) = Cardinality(D))
  BY <1>2, <1>3, FS_Surjection
<1> QED BY <1>2, <1>4, <1>5 DEF K

\* What recording k makes of the set K of keys of n attributes.
KeysRecordedAs(K, n, L, m, more, k) ==
  \/ k \in K /\ L = K /\ m = n /\ more = 0
  \/ k \notin K /\ n < AttributeCap /\ L = K \cup {k} /\ m = n + 1 /\ more = 0
  \/ /\ k \notin K /\ n = AttributeCap /\ m = n /\ IsProtected(k) /\ more = 0
     /\ \E x \in K : ~IsProtected(x) /\ L = (K \ {x}) \cup {k}
  \/ /\ k \notin K /\ n = AttributeCap /\ m = n /\ L = K /\ more = 1
     /\ IsProtected(k) => \A x \in K : IsProtected(x)

\* Every attribute of b is the recorded one, or one of a under another key.
OldButFor(a, b, k, v) ==
  \A i \in DOMAIN b : \/ b[i].key = k /\ b[i].value = v
                      \/ b[i].key # k /\ \E j \in DOMAIN a : a[j] = b[i]

\* Recording keeps the keys distinct, and moves them as KeysRecordedAs says.
LEMMA RecordedKeysAre ==
  ASSUME NEW a \in Seq(Entry), Distinct(a), NEW b, NEW more,
         NEW k \in AnyKey, NEW v \in AttributeValue,
         RecordedAs(a, b, more, k, v)
  PROVE  /\ b \in Seq(Entry) /\ Distinct(b) /\ OldButFor(a, b, k, v)
         /\ KeysRecordedAs(KeysOf(a), Len(a), KeysOf(b), Len(b), more, k)
<1> DEFINE e == Attribute(k, v)
<1>1. Len(a) \in Nat /\ DOMAIN a = 1..Len(a) BY EntriesAre
<1>2. ASSUME NEW i \in DOMAIN a, b = [a EXCEPT ![i] = e],
             \A j \in DOMAIN a : j # i => a[j].key # k
      PROVE  /\ b \in Seq(Entry) /\ Distinct(b) /\ OldButFor(a, b, k, v)
             /\ Len(b) = Len(a)
             /\ KeysOf(b) = (KeysOf(a) \ {a[i].key}) \cup {k}
  <2>1. /\ b \in Seq(Entry) /\ Len(b) = Len(a) /\ DOMAIN b = DOMAIN a
        /\ b[i].key = k /\ b[i].value = v
        /\ \A j \in DOMAIN a : j # i => b[j] = a[j]
    BY <1>2, ReplacedEntry
  <2>2. Distinct(b) BY <2>1, <1>2 DEF Distinct
  <2>3. OldButFor(a, b, k, v) BY <2>1, <1>2 DEF OldButFor
  <2>4. \A j \in DOMAIN a : j # i => a[j].key # a[i].key BY DEF Distinct
  <2>5. KeysOf(b) = (KeysOf(a) \ {a[i].key}) \cup {k}
    <3>1. ASSUME NEW x \in KeysOf(b) PROVE x \in (KeysOf(a) \ {a[i].key}) \cup {k}
      BY <2>1, <2>4 DEF KeysOf
    <3>2. ASSUME NEW x \in KeysOf(a), x # a[i].key PROVE x \in KeysOf(b)
      BY <2>1, <3>2 DEF KeysOf
    <3>3. k \in KeysOf(b) BY <2>1 DEF KeysOf
    <3> QED BY <3>1, <3>2, <3>3
  <2> QED BY <2>1, <2>2, <2>3, <2>5
<1>3. CASE /\ \E i \in DOMAIN a : a[i].key = k /\ b = [a EXCEPT ![i] = e]
           /\ more = 0
  <2>1. PICK i \in DOMAIN a : a[i].key = k /\ b = [a EXCEPT ![i] = e] BY <1>3
  <2>2. \A j \in DOMAIN a : j # i => a[j].key # k BY <2>1 DEF Distinct
  <2>3. k \in KeysOf(a) BY <2>1 DEF KeysOf
  <2> HIDE DEF e
  <2>4. /\ b \in Seq(Entry) /\ Distinct(b) /\ OldButFor(a, b, k, v)
        /\ Len(b) = Len(a)
        /\ KeysOf(b) = (KeysOf(a) \ {a[i].key}) \cup {k}
    BY <2>1, <2>2, <1>2
  <2>5. KeysOf(b) = KeysOf(a) BY <2>1, <2>3, <2>4
  <2> QED BY <2>3, <2>4, <2>5, <1>3 DEF KeysRecordedAs
<1>4. CASE /\ k \notin KeysOf(a) /\ Len(a) < AttributeCap
           /\ b = Append(a, e) /\ more = 0
  <2> DEFINE n == Len(a) + 1
  <2>1. /\ b \in Seq(Entry) /\ Len(b) = n /\ DOMAIN b = 1..n
        /\ b[n].key = k /\ b[n].value = v
        /\ \A j \in DOMAIN a : b[j] = a[j]
    BY <1>4, AppendedEntry
  <2>2. \A j \in DOMAIN b : j \in DOMAIN a \/ j = n BY <1>1, <2>1
  <2>3. \A j \in DOMAIN a : j \in DOMAIN b /\ j # n BY <1>1, <2>1
  <2>4. n \in DOMAIN b BY <1>1, <2>1
  <2>5. \A j \in DOMAIN a : a[j].key # k BY <1>4 DEF KeysOf
  <2> HIDE DEF n, e
  <2>6. Distinct(b) BY <2>1, <2>2, <2>5 DEF Distinct
  <2>7. OldButFor(a, b, k, v) BY <2>1, <2>2, <2>5 DEF OldButFor
  <2>8. KeysOf(b) = KeysOf(a) \cup {k}
    <3>1. ASSUME NEW x \in KeysOf(b) PROVE x \in KeysOf(a) \cup {k}
      BY <2>1, <2>2 DEF KeysOf
    <3>2. ASSUME NEW x \in KeysOf(a) PROVE x \in KeysOf(b)
      BY <2>1, <2>3 DEF KeysOf
    <3>3. k \in KeysOf(b) BY <2>1, <2>4 DEF KeysOf
    <3> QED BY <3>1, <3>2, <3>3
  <2> QED BY <2>1, <2>6, <2>7, <2>8, <1>4 DEF KeysRecordedAs, n
<1>5. CASE /\ k \notin KeysOf(a) /\ Len(a) = AttributeCap /\ IsProtected(k)
           /\ \E i \in DOMAIN a : ~IsProtected(a[i].key) /\ b = [a EXCEPT ![i] = e]
           /\ more = 0
  <2>1. PICK i \in DOMAIN a : ~IsProtected(a[i].key) /\ b = [a EXCEPT ![i] = e]
    BY <1>5
  <2>2. \A j \in DOMAIN a : a[j].key # k BY <1>5 DEF KeysOf
  <2>3. a[i].key \in KeysOf(a) BY <2>1 DEF KeysOf
  <2> HIDE DEF e
  <2>4. /\ b \in Seq(Entry) /\ Distinct(b) /\ OldButFor(a, b, k, v)
        /\ Len(b) = Len(a)
        /\ KeysOf(b) = (KeysOf(a) \ {a[i].key}) \cup {k}
    BY <2>1, <2>2, <1>2
  <2> QED BY <2>1, <2>3, <2>4, <1>5 DEF KeysRecordedAs
<1>6. CASE /\ k \notin KeysOf(a) /\ Len(a) = AttributeCap
           /\ IsProtected(k) => \A i \in DOMAIN a : IsProtected(a[i].key)
           /\ b = a /\ more = 1
  <2>1. \A j \in DOMAIN a : a[j].key # k BY <1>6 DEF KeysOf
  <2>2. OldButFor(a, b, k, v) BY <2>1, <1>6 DEF OldButFor
  <2>3. IsProtected(k) => \A x \in KeysOf(a) : IsProtected(x) BY <1>6 DEF KeysOf
  <2> QED BY <2>2, <2>3, <1>6 DEF KeysRecordedAs
<1> QED
  <2> HIDE DEF e
  <2>1. RecordedAs(a, b, more, k, v) OBVIOUS
  <2> QED BY <2>1, <1>3, <1>4, <1>5, <1>6 DEF RecordedAs, e

\* One more element makes a set larger by at most one.
LEMMA AddsAtMostOne ==
  ASSUME NEW S, IsFiniteSet(S), NEW x
  PROVE  /\ IsFiniteSet(S \cup {x}) /\ Cardinality(S \cup {x}) \in Nat
         /\ Cardinality(S \cup {x}) <= Cardinality(S) + 1
<1>1. IsFiniteSet(S \cup {x}) BY FS_AddElement
<1>2. Cardinality(S \cup {x}) =
        IF x \in S THEN Cardinality(S) ELSE Cardinality(S) + 1
  BY FS_AddElement
<1>3. Cardinality(S) \in Nat BY FS_CardinalityType
<1> QED BY <1>1, <1>2, <1>3

\* What AttributesKept says of the keys: K are the keys of n attributes, R the
\* keys that were recorded.
KeysKept(K, n, R, lost) ==
  /\ IsFiniteSet(K) /\ IsFiniteSet(R)
  /\ \/ Protected(R) \subseteq K
     \/ n = AttributeCap /\ \A x \in K : IsProtected(x)
  /\ Cardinality(R \ K) <= lost + Cardinality(Protected(K))

\* Recording k keeps it.
LEMMA KeysStayKept ==
  ASSUME NEW K, NEW L, NEW n, NEW m, NEW more \in {0, 1}, NEW R, NEW Q,
         NEW k \in AnyKey, NEW lost \in Nat,
         KeysKept(K, n, R, lost), KeysRecordedAs(K, n, L, m, more, k),
         IsFiniteSet(L), Q = R \cup ({k} \cap Keys)
  PROVE  KeysKept(L, m, Q, lost + more)
<1>0. /\ IsFiniteSet(K) /\ IsFiniteSet(R)
      /\ \/ Protected(R) \subseteq K
         \/ n = AttributeCap /\ \A x \in K : IsProtected(x)
      /\ Cardinality(R \ K) <= lost + Cardinality(Protected(K))
  BY DEF KeysKept
<1> SUFFICES
      /\ \/ Protected(Q) \subseteq L
         \/ m = AttributeCap /\ \A x \in L : IsProtected(x)
      /\ IsFiniteSet(Q)
      /\ Cardinality(Q \ L) <= lost + more + Cardinality(Protected(L))
  BY DEF KeysKept
<1>1. IsFiniteSet(R \ K) /\ IsFiniteSet(Q) /\ IsFiniteSet(Q \ L)
  <2>1. Q = R \/ Q = R \cup {k} OBVIOUS
  <2>2. IsFiniteSet(R \cup {k}) BY <1>0, FS_AddElement
  <2>3. IsFiniteSet(Q) BY <1>0, <2>1, <2>2
  <2> QED BY <1>0, <2>3, FS_Difference
<1>2. IsFiniteSet(Protected(K)) /\ IsFiniteSet(Protected(L))
  BY <1>0, FS_Subset DEF Protected
<1>3. /\ Cardinality(R \ K) \in Nat /\ Cardinality(Q \ L) \in Nat
      /\ Cardinality(Protected(K)) \in Nat /\ Cardinality(Protected(L)) \in Nat
  BY <1>1, <1>2, FS_CardinalityType
<1>4. AttributeCap \in Nat BY CapacityAssumption
<1>5. CASE k \in K /\ L = K /\ m = n /\ more = 0
  <2>1. Q \ L = R \ K BY <1>5
  <2>2. Protected(Q) \subseteq Protected(R) \cup {k} BY DEF Protected
  <2>3. Protected(Q) \subseteq L \/ (m = AttributeCap /\ \A x \in L : IsProtected(x))
    BY <1>0, <2>2, <1>5
  <2>4. Cardinality(Q \ L) <= lost + more + Cardinality(Protected(L))
    BY <1>0, <2>1, <1>3, <1>5
  <2> QED BY <2>3, <2>4, <1>1
<1>6. CASE /\ k \notin K /\ n < AttributeCap /\ L = K \cup {k} /\ m = n + 1
           /\ more = 0
  <2>1. Q \ L \subseteq R \ K BY <1>6
  <2>2. Cardinality(Q \ L) <= Cardinality(R \ K) BY <2>1, <1>1, FS_Subset
  <2>3. Protected(K) \subseteq Protected(L) BY <1>6 DEF Protected
  <2>4. Cardinality(Protected(K)) <= Cardinality(Protected(L))
    BY <2>3, <1>2, FS_Subset
  <2>5. Protected(R) \subseteq K BY <1>0, <1>4, <1>6
  <2>6. Protected(Q) \subseteq L BY <2>5, <1>6 DEF Protected
  <2>7. Cardinality(Q \ L) <= lost + more + Cardinality(Protected(L))
    BY <2>2, <2>4, <1>0, <1>3, <1>6
  <2> QED BY <2>6, <2>7, <1>1
<1>7. CASE /\ k \notin K /\ n = AttributeCap /\ m = n /\ IsProtected(k) /\ more = 0
           /\ \E x \in K : ~IsProtected(x) /\ L = (K \ {x}) \cup {k}
  <2>1. PICK x \in K : ~IsProtected(x) /\ L = (K \ {x}) \cup {k} BY <1>7
  <2>2. Q \ L \subseteq (R \ K) \cup {x} BY <2>1
  <2>3. /\ IsFiniteSet((R \ K) \cup {x})
        /\ Cardinality((R \ K) \cup {x}) <= Cardinality(R \ K) + 1
        /\ Cardinality((R \ K) \cup {x}) \in Nat
    BY <1>1, AddsAtMostOne
  <2>4. Cardinality(Q \ L) <= Cardinality((R \ K) \cup {x})
    BY <2>2, <2>3, FS_Subset
  <2>5. Protected(L) = Protected(K) \cup {k} /\ k \notin Protected(K)
    BY <2>1, <1>7 DEF Protected
  <2>6. Cardinality(Protected(L)) = Cardinality(Protected(K)) + 1
    BY <2>5, <1>2, FS_AddElement
  <2>7. Protected(R) \subseteq K BY <1>0, <2>1, <1>7
  <2>8. Protected(Q) \subseteq L BY <2>1, <2>7 DEF Protected
  <2>9. Cardinality(Q \ L) <= lost + more + Cardinality(Protected(L))
    BY <2>3, <2>4, <2>6, <1>0, <1>3, <1>7
  <2> QED BY <2>8, <2>9, <1>1
<1>8. CASE /\ k \notin K /\ n = AttributeCap /\ m = n /\ L = K /\ more = 1
           /\ IsProtected(k) => \A x \in K : IsProtected(x)
  <2>1. Q \ L \subseteq (R \ K) \cup {k} BY <1>8
  <2>2. /\ IsFiniteSet((R \ K) \cup {k})
        /\ Cardinality((R \ K) \cup {k}) <= Cardinality(R \ K) + 1
        /\ Cardinality((R \ K) \cup {k}) \in Nat
    BY <1>1, AddsAtMostOne
  <2>3. Cardinality(Q \ L) <= Cardinality((R \ K) \cup {k})
    BY <2>1, <2>2, FS_Subset
  <2>4. Cardinality(Q \ L) <= lost + more + Cardinality(Protected(L))
    BY <2>2, <2>3, <1>0, <1>3, <1>8
  <2>5. CASE IsProtected(k) BY <2>4, <2>5, <1>1, <1>8
  <2>6. CASE ~IsProtected(k)
    <3>1. Protected(Q) = Protected(R) BY <2>6 DEF Protected
    <3> QED BY <3>1, <2>4, <1>0, <1>1, <1>8
  <2> QED BY <2>5, <2>6
<1> QED BY <1>5, <1>6, <1>7, <1>8 DEF KeysRecordedAs

\* Recording a field keeps the attributes and their drops true to what was
\* recorded: before as l says, after as q.
LEMMA RecordKeeps ==
  ASSUME NEW s, IsSpan(s), NEW k \in AnyKey, NEW v \in AttributeValue,
         NEW l, NEW q,
         \A j \in Keys \ {k} : q[j] = l[j],
         k \in Keys => Matches(v, q[k]),
         AttributesKept(s.attributes, s.dropped_attributes_count, l)
  PROVE  LET r == Record(s, k, v) IN
         /\ IsSpan(r) /\ OnlyAttributes(s, r)
         /\ AttributesKept(r.attributes, r.dropped_attributes_count, q)
<1> DEFINE r == Record(s, k, v)
           a == s.attributes
           b == r.attributes
           lost == s.dropped_attributes_count
<1>1. PICK more \in {0, 1} : /\ RecordedAs(a, b, more, k, v)
                             /\ r.dropped_attributes_count = lost + more
  BY RecordIs
<1>2. IsSpan(r) /\ OnlyAttributes(s, r) BY RecordIs
<1>3. a \in Seq(Entry) /\ lost \in Nat BY DEF IsSpan
<1> HIDE DEF r
<1>4. Distinct(a) BY DEF AttributesKept
<1>5. /\ b \in Seq(Entry) /\ Distinct(b) /\ OldButFor(a, b, k, v)
      /\ KeysRecordedAs(KeysOf(a), Len(a), KeysOf(b), Len(b), more, k)
  <2> HIDE DEF a, b
  <2> QED BY <1>1, <1>3, <1>4, RecordedKeysAre
<1>6. Recorded(q) = Recorded(l) \cup ({k} \cap Keys)
  <2>1. k \in Keys => q[k] # NotRecorded BY DEF Matches
  <2> QED BY <2>1, Zenon DEF Recorded
<1>7. IsFiniteSet(KeysOf(a)) /\ IsFiniteSet(KeysOf(b))
  BY <1>3, <1>5, KeysCount
<1>8. /\ RoomForProtected(a, l) /\ IsFiniteSet(Recorded(l))
      /\ Cardinality(Recorded(l) \ KeysOf(a)) <= lost + Cardinality(Protected(KeysOf(a)))
      /\ \A i \in DOMAIN a : a[i].key \in Keys => Matches(a[i].value, l[a[i].key])
  BY DEF AttributesKept
<1>9. /\ \/ Protected(Recorded(l)) \subseteq KeysOf(a)
         \/ Len(a) = AttributeCap /\ \A x \in KeysOf(a) : IsProtected(x)
  BY <1>8 DEF RoomForProtected
<1>10. \A i \in DOMAIN b : b[i].key \in Keys => Matches(b[i].value, q[b[i].key])
  <2> SUFFICES ASSUME NEW i \in DOMAIN b, b[i].key \in Keys
               PROVE  Matches(b[i].value, q[b[i].key])
    OBVIOUS
  <2>1. CASE b[i].key = k /\ b[i].value = v BY <2>1
  <2>2. CASE b[i].key # k /\ \E j \in DOMAIN a : a[j] = b[i]
    <3>1. PICK j \in DOMAIN a : a[j] = b[i] BY <2>2
    <3>2. Matches(b[i].value, l[b[i].key]) BY <3>1, <1>8
    <3> QED BY <2>2, <3>2
  <2> QED BY <1>5, <2>1, <2>2 DEF OldButFor
<1> HIDE DEF a, b, lost
<1>11. KeysKept(KeysOf(a), Len(a), Recorded(l), lost)
  BY <1>7, <1>8, <1>9 DEF KeysKept
<1>12. KeysKept(KeysOf(b), Len(b), Recorded(q), lost + more)
  BY <1>3, <1>5, <1>6, <1>7, <1>11, KeysStayKept
<1>13. AttributesKept(b, lost + more, q)
  <2>1. RoomForProtected(b, q) BY <1>12 DEF KeysKept, RoomForProtected
  <2> QED BY <1>5, <1>10, <1>12, <2>1 DEF KeysKept, AttributesKept
<1> QED BY <1>1, <1>2, <1>13 DEF b, r

-----------------------------------------------------------------------------
(* The status.                                                              *)

\* A span with other attributes.
LEMMA AttributesSet ==
  ASSUME NEW s, IsSpan(s), NEW b \in Seq(Entry), Len(b) <= AttributeCap
  PROVE  LET r == [s EXCEPT !.attributes = b] IN
         /\ IsSpan(r) /\ OnlyAttributes(s, r) /\ r.attributes = b
         /\ r.dropped_attributes_count = s.dropped_attributes_count
<1>1. s = [f \in SpanFields |-> s[f]] BY DEF IsSpan
<1> QED BY <1>1 DEF IsSpan, OnlyAttributes, SpanFields

\* A span with another status.
LEMMA StatusSet ==
  ASSUME NEW s, IsSpan(s), NEW st, IsStatus(st)
  PROVE  LET r == [s EXCEPT !.status = st] IN
         /\ IsSpan(r) /\ r.status = st
         /\ \A f \in SpanFields \ {"status"} : r[f] = s[f]
<1> DEFINE r == [s EXCEPT !.status = st]
<1>1. s = [f \in SpanFields |-> s[f]] BY DEF IsSpan
<1>2. /\ r = [f \in SpanFields |-> r[f]] /\ r.status = st
      /\ \A f \in SpanFields \ {"status"} : r[f] = s[f]
  BY <1>1 DEF SpanFields
<1> HIDE DEF r
<1>3. IsSpan(r) BY <1>2 DEF IsSpan, SpanFields
<1> QED BY <1>2, <1>3 DEF r

\* Removing an attribute leaves the others, in order.
LEMMA RemovedEntry ==
  ASSUME NEW a \in Seq(Entry), NEW at \in DOMAIN a
  PROVE  LET b == RemoveAt(a, at) IN
         /\ b \in Seq(Entry) /\ Len(b) = Len(a) - 1
         /\ \A i \in DOMAIN b : b[i] = a[IF i < at THEN i ELSE i + 1]
<1> DEFINE front == SubSeq(a, 1, at - 1)
           back  == SubSeq(a, at + 1, Len(a))
           b     == front \o back
<1>1. Len(a) \in Nat /\ DOMAIN a = 1..Len(a) /\ at \in 1..Len(a) BY EntriesAre
<1>2. \A i \in 1..Len(a) : a[i] \in Entry BY <1>1, EntriesAre
<1>3. /\ front \in Seq(Entry) /\ Len(front) = at - 1
      /\ \A i \in 1..(at - 1) : front[i] = a[i]
  <2>1. \A i \in 1..(at - 1) : a[i] \in Entry BY <1>1, <1>2
  <2>2. /\ front \in Seq(Entry)
        /\ Len(front) = IF 1 <= at - 1 THEN at - 1 - 1 + 1 ELSE 0
        /\ \A i \in 1..(at - 1 - 1 + 1) : front[i] = a[1 + i - 1]
    BY <1>1, <2>1, SubSeqProperties
  <2> HIDE DEF front
  <2> QED BY <1>1, <2>2
<1>4. /\ back \in Seq(Entry) /\ Len(back) = Len(a) - at
      /\ \A i \in 1..(Len(a) - at) : back[i] = a[at + i]
  <2>1. \A i \in (at + 1)..Len(a) : a[i] \in Entry BY <1>1, <1>2
  <2>2. /\ back \in Seq(Entry)
        /\ Len(back) = IF at + 1 <= Len(a) THEN Len(a) - (at + 1) + 1 ELSE 0
        /\ \A i \in 1..(Len(a) - (at + 1) + 1) : back[i] = a[at + 1 + i - 1]
    BY <1>1, <2>1, SubSeqProperties
  <2> HIDE DEF back
  <2> QED BY <1>1, <2>2, SMTT(30)
<1> HIDE DEF front, back
<1>5. /\ b \in Seq(Entry) /\ Len(b) = Len(front) + Len(back)
      /\ \A i \in 1..Len(front) + Len(back) :
           b[i] = IF i <= Len(front) THEN front[i] ELSE back[i - Len(front)]
  BY <1>3, <1>4, ConcatProperties
<1> HIDE DEF b
<1>6. Len(b) = Len(a) - 1 /\ DOMAIN b = 1..(Len(a) - 1)
  BY <1>1, <1>3, <1>4, <1>5, LenProperties
<1>7. ASSUME NEW i \in DOMAIN b
      PROVE  b[i] = a[IF i < at THEN i ELSE i + 1]
  <2>1. i \in Int /\ 1 <= i /\ i <= Len(a) - 1 BY <1>1, <1>6
  <2>2. CASE i < at
    <3>1. i \in 1..(at - 1) /\ i <= Len(front) /\ i \in 1..Len(front) + Len(back)
      BY <1>1, <1>3, <1>4, <2>1, <2>2
    <3> QED BY <3>1, <1>3, <1>5, <2>2
  <2>3. CASE ~(i < at)
    <3>1. /\ i - Len(front) \in 1..(Len(a) - at) /\ ~(i <= Len(front))
          /\ i \in 1..Len(front) + Len(back) /\ at + (i - Len(front)) = i + 1
      BY <1>1, <1>3, <1>4, <2>1, <2>3
    <3>2. b[i] = back[i - Len(front)] BY <3>1, <1>5
    <3>3. back[i - Len(front)] = a[at + (i - Len(front))] BY <3>1, <1>4
    <3> QED BY <3>1, <3>2, <3>3, <2>3
  <2> QED BY <2>2, <2>3
<1>8. RemoveAt(a, at) = b BY DEF RemoveAt, b, front, back
<1> QED BY <1>5, <1>6, <1>7, <1>8

\* Removing a control attribute keeps the attributes true to what was recorded.
LEMMA RemovalKeeps ==
  ASSUME NEW a \in Seq(Entry), NEW at \in DOMAIN a, a[at].key \in ControlKeys,
         NEW n, NEW l, AttributesKept(a, n, l)
  PROVE  LET b == RemoveAt(a, at) IN
         b \in Seq(Entry) /\ Len(b) <= Len(a) /\ AttributesKept(b, n, l)
<1> DEFINE b == RemoveAt(a, at)
           From(i) == IF i < at THEN i ELSE i + 1
           k == a[at].key
<1>1. Len(a) \in Nat /\ DOMAIN a = 1..Len(a) /\ at \in 1..Len(a) BY EntriesAre
<1>2. /\ b \in Seq(Entry) /\ Len(b) = Len(a) - 1
      /\ \A i \in DOMAIN b : b[i] = a[From(i)]
  BY RemovedEntry
<1>3. DOMAIN b = 1..(Len(a) - 1) BY <1>2, LenProperties
<1> HIDE DEF b
<1>4. \A i \in DOMAIN b : From(i) \in DOMAIN a /\ From(i) # at
  BY <1>1, <1>3
<1>5. \A i, j \in DOMAIN b : From(i) = From(j) => i = j
  BY <1>1, <1>3
<1>6. \A i \in DOMAIN a : i # at => \E j \in DOMAIN b : From(j) = i
  <2> SUFFICES ASSUME NEW i \in DOMAIN a, i # at
               PROVE  \E j \in DOMAIN b : From(j) = i
    OBVIOUS
  <2>1. CASE i < at
    <3>1. i \in DOMAIN b /\ From(i) = i BY <1>1, <1>3, <2>1
    <3> QED BY <3>1
  <2>2. CASE ~(i < at)
    <3>1. i - 1 \in DOMAIN b /\ From(i - 1) = i BY <1>1, <1>3, <2>2
    <3> QED BY <3>1
  <2> QED BY <2>1, <2>2
<1> HIDE DEF From
<1>7. Distinct(a) /\ \A i \in DOMAIN a : a[i].key = k => i = at
  BY DEF AttributesKept, Distinct
<1>8. Distinct(b) BY <1>2, <1>4, <1>5, <1>7 DEF Distinct
<1>9. KeysOf(b) = KeysOf(a) \ {k}
  <2>1. ASSUME NEW x \in KeysOf(b) PROVE x \in KeysOf(a) /\ x # k
    BY <1>2, <1>4, <1>7 DEF KeysOf
  <2>2. ASSUME NEW x \in KeysOf(a), x # k PROVE x \in KeysOf(b)
    <3>1. PICK i \in DOMAIN a : a[i].key = x BY DEF KeysOf
    <3>2. PICK j \in DOMAIN b : From(j) = i BY <3>1, <2>2, <1>6
    <3> QED BY <3>1, <3>2, <1>2 DEF KeysOf
  <2> QED BY <2>1, <2>2
<1>10. k \in KeysOf(a) /\ k \notin Keys /\ ~IsProtected(k)
  BY ControlKeysApart DEF KeysOf
<1>11. Recorded(l) \ KeysOf(b) = Recorded(l) \ KeysOf(a)
  BY <1>9, <1>10 DEF Recorded
<1>12. Protected(KeysOf(b)) = Protected(KeysOf(a))
  BY <1>9, <1>10 DEF Protected
<1>13. RoomForProtected(b, l)
  <2>1. Protected(Recorded(l)) \subseteq KeysOf(a)
    BY <1>10 DEF AttributesKept, RoomForProtected
  <2>2. Protected(Recorded(l)) \subseteq KeysOf(b)
    BY <2>1, <1>9, <1>10 DEF Protected
  <2> QED BY <2>2 DEF RoomForProtected
<1>14. \A i \in DOMAIN b : b[i].key \in Keys => Matches(b[i].value, l[b[i].key])
  BY <1>2, <1>4 DEF AttributesKept
<1>15. AttributesKept(b, n, l)
  BY <1>8, <1>11, <1>12, <1>13, <1>14 DEF AttributesKept
<1>16. Len(b) <= Len(a) BY <1>1, <1>2
<1> QED BY <1>2, <1>15, <1>16 DEF b

-----------------------------------------------------------------------------
(* HandleField: one field of the program.                                   *)

StatusKeys == {"otel.status_code", "otel.status_message"}

\* The events and the links are the same, with what was dropped of them.
SameLists(s, r) ==
  /\ r.events = s.events /\ r.dropped_events_count = s.dropped_events_count
  /\ r.links = s.links /\ r.dropped_links_count = s.dropped_links_count

\* What latest becomes when f is recorded.
LatestAfter(l, f) ==
  IF Plain(f)
  THEN [l EXCEPT ![KeyOf(f)] =
          [by |-> IF f.key = KeyOf(f) THEN f.by ELSE "str",
           text |-> IF f.key = KeyOf(f) THEN f.text
                    ELSE (CHOOSE h \in HeaderOf(f.text) : TRUE)[2]]]
  ELSE l

\* The status code takes the pending message away and touches no other
\* attribute.
LEMMA StatusCodeKeeps ==
  ASSUME NEW s, IsSpan(s), NEW text, NEW l,
         AttributesKept(s.attributes, s.dropped_attributes_count, l)
  PROVE  LET r == WithStatusCode(s, text) IN
         /\ IsSpan(r) /\ SameLists(s, r)
         /\ AttributesKept(r.attributes, r.dropped_attributes_count, l)
<1> DEFINE a       == s.attributes
           at      == Position(a, "otel.status_message")
           pending == IF at = 0 THEN "" ELSE a[at].value.text
           b       == IF at = 0 THEN a ELSE RemoveAt(a, at)
           st      == CASE text \in {"ok", "OK"}       -> [Unset EXCEPT !.code = "ok"]
                        [] text \in {"error", "ERROR"} -> Failed(pending)
                        [] OTHER                       -> Unset
           moved   == [s EXCEPT !.attributes = b]
           r       == [moved EXCEPT !.status = st]
<1>1. /\ s = [f \in SpanFields |-> s[f]] /\ a \in Seq(Entry)
      /\ Len(a) <= AttributeCap /\ AttributeCap \in Nat /\ Len(a) \in Nat
  BY EntriesAre, CapacityAssumption DEF IsSpan
<1>2. \/ at = 0
      \/ at \in DOMAIN a /\ a[at].key = "otel.status_message"
  BY <1>1, PositionIs
<1>3. pending \in STRING
  <2>1. CASE at = 0 BY <2>1, LiteralsAssumption
  <2>2. CASE at # 0
    <3>1. a[at].value \in AttributeValue BY <1>1, <1>2, <2>2, EntriesAre
    <3>2. a[at].value.text \in STRING BY <3>1 DEF AttributeValue
    <3> QED BY <2>2, <3>2
  <2> QED BY <2>1, <2>2
<1>4. IsStatus(st)
  <2> HIDE DEF pending
  <2>1. CASE text \in {"ok", "OK"}
    <3>1. "OK" # "error" /\ "OK" # "ERROR" /\ "ok" # "error" /\ "ok" # "ERROR" OBVIOUS
    <3>2. st = [Unset EXCEPT !.code = "ok"] BY <2>1, <3>1
    <3>3. st = [code |-> "ok", message |-> ""] BY <3>2 DEF Unset
    <3> HIDE DEF st
    <3> QED BY <3>3, LiteralsAssumption DEF IsStatus
  <2>2. CASE text \in {"error", "ERROR"}
    <3>1. text \notin {"ok", "OK"} BY <2>2
    <3>2. st = Failed(pending) BY <2>2, <3>1
    <3>3. st = [code |-> "error", message |-> pending] BY <3>2 DEF Failed
    <3> HIDE DEF st
    <3> QED BY <3>3, <1>3 DEF IsStatus
  <2>3. CASE text \notin {"ok", "OK"} /\ text \notin {"error", "ERROR"}
    <3>1. st = Unset BY <2>3
    <3>2. st = [code |-> "unset", message |-> ""] BY <3>1 DEF Unset
    <3> HIDE DEF st
    <3> QED BY <3>2, LiteralsAssumption DEF IsStatus
  <2> QED BY <2>1, <2>2, <2>3
<1>5. WithStatusCode(s, text) = r
  <2>1. WithStatusCode(s, text) =
          [s EXCEPT !.attributes = IF at = 0 THEN @ ELSE RemoveAt(@, at), !.status = st]
    BY Zenon DEF WithStatusCode
  <2> HIDE DEF at, st
  <2> QED BY <1>1, <2>1 DEF SpanFields
<1>6. /\ b \in Seq(Entry) /\ Len(b) <= AttributeCap
      /\ AttributesKept(b, s.dropped_attributes_count, l)
  <2>1. CASE at = 0 BY <2>1, <1>1
  <2>2. CASE at # 0
    <3>1. at \in DOMAIN a /\ a[at].key \in ControlKeys
      BY <1>2, <2>2 DEF ControlKeys
    <3> HIDE DEF at, a
    <3>2. /\ RemoveAt(a, at) \in Seq(Entry) /\ Len(RemoveAt(a, at)) <= Len(a)
          /\ AttributesKept(RemoveAt(a, at), s.dropped_attributes_count, l)
      BY <1>1, <3>1, RemovalKeeps DEF a
    <3>3. Len(RemoveAt(a, at)) \in Nat BY <3>2, LenProperties
    <3> QED BY <1>1, <2>2, <3>2, <3>3
  <2> QED BY <2>1, <2>2
<1> HIDE DEF b, st
<1>7. /\ IsSpan(moved) /\ OnlyAttributes(s, moved) /\ moved.attributes = b
      /\ moved.dropped_attributes_count = s.dropped_attributes_count
  BY <1>6, AttributesSet
<1> HIDE DEF moved
<1>8. IsSpan(r) /\ \A f \in SpanFields \ {"status"} : r[f] = moved[f]
  BY <1>4, <1>7, StatusSet
<1> HIDE DEF r
<1>9. SameLists(s, r)
  BY <1>7, <1>8 DEF SameLists, OnlyAttributes, SpanFields
<1>10. r.attributes = b /\ r.dropped_attributes_count = s.dropped_attributes_count
  BY <1>7, <1>8 DEF SpanFields
<1> QED BY <1>5, <1>6, <1>8, <1>9, <1>10

\* What FieldVisitor hands on of a field of the program.
LEMMA FieldValueIs ==
  ASSUME NEW f \in Fields
  PROVE  /\ f.key \in STRING /\ f.text \in STRING
         /\ FieldValue(f) \in AttributeValue /\ FieldValue(f).text = f.text
         /\ Matches(FieldValue(f), [by |-> f.by, text |-> f.text])
         /\ [by |-> f.by, text |-> f.text] \in Latest
<1>1. /\ f \in FieldRecord /\ f.key \in STRING /\ f.text \in STRING
      /\ f.by \in {"str", "debug", "bool", "i64", "u64", "f64"}
      /\ f.by = "i64" => f.text \notin Wide
  BY FieldsAssumption DEF FieldRecord
<1>2. /\ FieldValue(f) \in AttributeValue /\ FieldValue(f).text = f.text
      /\ FieldValue(f).type = "Int" <=> f.by \in {"i64", "u64"} /\ f.text \notin Wide
  <2>1. CASE f.by = "bool" BY <1>1, <2>1 DEF FieldValue, AttributeValue
  <2>2. CASE f.by = "i64" \/ (f.by = "u64" /\ f.text \notin Wide)
    BY <1>1, <2>2 DEF FieldValue, AttributeValue
  <2>3. CASE f.by = "f64" BY <1>1, <2>3 DEF FieldValue, AttributeValue
  <2>4. CASE f.by \in {"str", "debug"} \/ (f.by = "u64" /\ f.text \in Wide)
    BY <1>1, <2>4 DEF FieldValue, AttributeValue, Text
  <2> QED BY <1>1, <2>1, <2>2, <2>3, <2>4
<1>3. [by |-> f.by, text |-> f.text] \in Latest BY <1>1 DEF Latest
<1>4. [by |-> f.by, text |-> f.text] # NotRecorded BY <1>1 DEF NotRecorded
<1>5. Matches(FieldValue(f), [by |-> f.by, text |-> f.text])
  BY <1>2, <1>4 DEF Matches
<1> QED BY <1>1, <1>2, <1>3, <1>5

\* What recording a field does to the span, given how it is kept before.
FieldKept(s, r, l, q, f) ==
  /\ q \in [Keys -> Latest]
  /\ IsSpan(r) /\ SameLists(s, r)
  /\ f.key \notin StatusKeys => r.status = s.status
  /\ AttributesKept(r.attributes, r.dropped_attributes_count, q)

\* Recording one attribute changes neither the lists nor the status.
LEMMA AttributeRecorded ==
  ASSUME NEW s, IsSpan(s), NEW f \in Fields, Plain(f), NEW v \in AttributeValue,
         NEW l \in [Keys -> Latest], NEW rec \in Latest, Matches(v, rec),
         AttributesKept(s.attributes, s.dropped_attributes_count, l)
  PROVE  FieldKept(s, Record(s, KeyOf(f), v), l, [l EXCEPT ![KeyOf(f)] = rec], f)
<1> DEFINE k == KeyOf(f)
           q == [l EXCEPT ![k] = rec]
           r == Record(s, k, v)
<1>1. k \in Keys /\ k \in AnyKey BY DEF Keys, AnyKey
<1> HIDE DEF k
<1>2. q \in [Keys -> Latest] /\ q[k] = rec /\ \A j \in Keys \ {k} : q[j] = l[j]
  BY <1>1
<1> HIDE DEF q
<1>3. /\ IsSpan(r) /\ OnlyAttributes(s, r)
      /\ AttributesKept(r.attributes, r.dropped_attributes_count, q)
  BY <1>1, <1>2, RecordKeeps
<1> HIDE DEF r
<1>4. SameLists(s, r) /\ r.status = s.status
  BY <1>3 DEF OnlyAttributes, SameLists, SpanFields
<1> QED BY <1>2, <1>3, <1>4 DEF FieldKept, q, r, k

\* Every field keeps the span.
LEMMA FieldKeeps ==
  ASSUME NEW s, IsSpan(s), NEW f \in Fields, NEW l \in [Keys -> Latest],
         AttributesKept(s.attributes, s.dropped_attributes_count, l)
  PROVE  FieldKept(s, HandleField(s, f), l, LatestAfter(l, f), f)
<1> DEFINE v == FieldValue(f)
           r == HandleField(s, f)
           q == LatestAfter(l, f)
<1>1. /\ f.key \in STRING /\ f.text \in STRING /\ v \in AttributeValue
      /\ v.text = f.text /\ [by |-> f.by, text |-> f.text] \in Latest
      /\ Matches(v, [by |-> f.by, text |-> f.text])
  BY FieldValueIs
<1>2. CASE f.key \notin ControlFields \cup RemoteFields
  <2>1. Plain(f) BY <1>2 DEF Plain
  <2>2. KeyOf(f) = f.key BY <1>2 DEF KeyOf, ControlFields
  <2>3. r = Record(s, KeyOf(f), v) BY <1>2, <2>2, Zenon DEF HandleField
  <2>4. q = [l EXCEPT ![KeyOf(f)] = [by |-> f.by, text |-> f.text]]
    BY <2>1, <2>2, Zenon DEF LatestAfter
  <2> DEFINE rec == [by |-> f.by, text |-> f.text]
  <2>5. rec \in Latest /\ Matches(v, rec) BY <1>1
  <2> HIDE DEF v, rec
  <2>6. FieldKept(s, Record(s, KeyOf(f), v), l, [l EXCEPT ![KeyOf(f)] = rec], f)
    BY <1>1, <2>1, <2>5, AttributeRecorded
  <2> QED BY <2>3, <2>4, <2>6 DEF rec
<1>3. CASE f.key \in ControlFields /\ v.type = "String"
  <2>1. r = HandleControl(s, f.key, f.text)
    BY <1>1, <1>3, Zenon DEF HandleField
  <2>2. CASE f.key = "http.response.header" /\ HeaderOf(f.text) # {}
    <3> DEFINE h == CHOOSE h \in HeaderOf(f.text) : TRUE
               rec == [by |-> "str", text |-> h[2]]
    <3>1. h \in HeaderNames \X HeaderTexts BY <2>2 DEF HeaderOf
    <3>2. h[1] \in HeaderNames /\ h[2] \in STRING
      <4>1. HeaderTexts \subseteq STRING BY FieldsAssumption
      <4> HIDE DEF h
      <4> QED BY <3>1, <4>1
    <3>3. Plain(f) BY <1>3, <2>2 DEF Plain
    <3>4. KeyOf(f) = HeaderKey(h[1]) BY <2>2 DEF KeyOf
    <3>5. KeyOf(f) # f.key BY <3>2, <3>4, <1>3, FieldsAssumption
    <3>6. r = Record(s, KeyOf(f), Text(h[2]))
      <4>1. HandleControl(s, "http.response.header", f.text) =
              Record(s, HeaderKey(h[1]), Text(h[2]))
        BY <2>2 DEF HandleControl
      <4> HIDE DEF h
      <4> QED BY <4>1, <2>1, <2>2, <3>4
    <3>7. q = [l EXCEPT ![KeyOf(f)] = rec]
      BY <3>3, <3>5, Zenon DEF LatestAfter
    <3> HIDE DEF h
    <3>8. Text(h[2]) \in AttributeValue /\ rec \in Latest /\ Matches(Text(h[2]), rec)
      BY <3>2 DEF Text, AttributeValue, Latest, Matches, NotRecorded
    <3> HIDE DEF rec
    <3>9. FieldKept(s, Record(s, KeyOf(f), Text(h[2])), l, [l EXCEPT ![KeyOf(f)] = rec], f)
      BY <3>3, <3>8, AttributeRecorded
    <3> QED BY <3>6, <3>7, <3>9
  <2>3. CASE ~(f.key = "http.response.header" /\ HeaderOf(f.text) # {})
    <3>1. q = l BY <1>3, <2>3 DEF Plain, LatestAfter
    <3>2. SUFFICES /\ IsSpan(r) /\ SameLists(s, r)
                   /\ f.key \notin StatusKeys => r.status = s.status
                   /\ AttributesKept(r.attributes, r.dropped_attributes_count, l)
      BY <3>1 DEF FieldKept
    <3>3. CASE f.key = "otel.status_code"
      <4>1. r = WithStatusCode(s, f.text) BY <2>1, <3>3 DEF HandleControl
      <4>2. f.key \in StatusKeys BY <3>3 DEF StatusKeys
      <4> HIDE DEF r
      <4> QED BY <4>1, <4>2, StatusCodeKeeps
    <3>4. CASE f.key = "otel.status_message"
      <4> DEFINE st == Failed(f.text)
      <4>1. r = IF s.status.code = "error" THEN [s EXCEPT !.status = st] ELSE s
        BY <2>1, <3>4 DEF HandleControl
      <4>2. f.key \in StatusKeys BY <3>4 DEF StatusKeys
      <4>3. IsStatus(st) BY <1>1 DEF Failed, IsStatus
      <4> HIDE DEF r, st
      <4>4. \/ r = s
            \/ IsSpan(r) /\ \A g \in SpanFields \ {"status"} : r[g] = s[g]
        BY <4>1, <4>3, StatusSet
      <4>5. SameLists(s, r) /\ r.attributes = s.attributes
            /\ r.dropped_attributes_count = s.dropped_attributes_count
        BY <4>4 DEF SameLists, SpanFields
      <4> QED BY <4>2, <4>4, <4>5
    <3>5. CASE f.key \in {"otel.name", "otel.kind"}
      <4>1. s = [g \in SpanFields |-> s[g]] BY DEF IsSpan
      <4>2. \/ r = [s EXCEPT !.name = f.text]
            \/ r = [s EXCEPT !.kind = KindOf(f.text)]
        BY <2>1, <3>5 DEF HandleControl
      <4>3. KindOf(f.text) \in {"internal", "server", "client", "producer", "consumer"}
        BY DEF KindOf
      <4> HIDE DEF r
      <4>4. /\ r = [g \in SpanFields |-> r[g]]
            /\ \A g \in SpanFields \ {"name", "kind"} : r[g] = s[g]
            /\ r.kind = s.kind \/ r.kind = KindOf(f.text)
        BY <4>1, <4>2 DEF SpanFields
      <4>5. /\ r.attributes = s.attributes /\ SameLists(s, r) /\ r.status = s.status
            /\ r.dropped_attributes_count = s.dropped_attributes_count
        BY <4>4 DEF SameLists, SpanFields
      <4>6. IsSpan(r) BY <4>3, <4>4, <4>5 DEF IsSpan, SameLists
      <4> QED BY <4>5, <4>6
    <3>6. CASE f.key = "http.response.header"
      <4>1. r = s BY <2>1, <2>3, <3>6 DEF HandleControl
      <4> HIDE DEF r
      <4> QED BY <4>1 DEF SameLists
    <3> QED BY <1>3, <3>3, <3>4, <3>5, <3>6 DEF ControlFields
  <2> QED BY <2>2, <2>3
<1>4. CASE /\ f.key \in ControlFields \cup RemoteFields
           /\ ~(f.key \in ControlFields /\ v.type = "String")
  <2>1. r = s BY <1>4, Zenon DEF HandleField
  <2>2. ~Plain(f) BY <1>4 DEF Plain, ControlFields
  <2>3. q = l BY <2>2 DEF LatestAfter
  <2> HIDE DEF r, q
  <2>4. FieldKept(s, r, l, q, f) BY <2>1, <2>3 DEF SameLists, FieldKept
  <2> QED BY <2>4 DEF r, q
<1> QED BY <1>2, <1>3, <1>4

-----------------------------------------------------------------------------
(* WithEvent and WithLink.                                                  *)

\* A control attribute says nothing of the fields.
LEMMA ControlRecorded ==
  ASSUME NEW s, IsSpan(s), NEW k \in ControlKeys, NEW text \in STRING, NEW l,
         AttributesKept(s.attributes, s.dropped_attributes_count, l)
  PROVE  LET r == Record(s, k, Text(text)) IN
         /\ IsSpan(r) /\ OnlyAttributes(s, r)
         /\ AttributesKept(r.attributes, r.dropped_attributes_count, l)
<1>1. k \in AnyKey /\ k \notin Keys BY ControlKeysApart DEF AnyKey
<1>2. Text(text) \in AttributeValue BY DEF Text, AttributeValue
<1> QED BY <1>1, <1>2, RecordKeeps

\* An event stamped in a callback explains itself with a text.
LEMMA ExplanationIsText ==
  ASSUME NEW e \in StampedEvents PROVE Explanation(e) \in STRING
BY EventsAssumption DEF StampedEvents

\* MarkFailed touches the attributes and sets the status.
LEMMA MarkFailedKeeps ==
  ASSUME NEW s, IsSpan(s), NEW e \in StampedEvents, NEW l,
         AttributesKept(s.attributes, s.dropped_attributes_count, l)
  PROVE  LET r == MarkFailed(s, e) IN
         /\ IsSpan(r) /\ SameLists(s, r) /\ r.status = Failed(Explanation(e))
         /\ AttributesKept(r.attributes, r.dropped_attributes_count, l)
<1> DEFINE x     == Explanation(e)
           coded == Record(s, "otel.status_code", Text("error"))
           more  == Record(coded, "otel.status_message", Text(x))
           told  == IF x = "" THEN coded ELSE more
           r     == [told EXCEPT !.status = Failed(x)]
<1>1. x \in STRING BY ExplanationIsText
<1>2. /\ IsSpan(coded) /\ OnlyAttributes(s, coded)
      /\ AttributesKept(coded.attributes, coded.dropped_attributes_count, l)
  BY LiteralsAssumption, ControlRecorded DEF ControlKeys
<1> HIDE DEF coded, x
<1>3. /\ IsSpan(more) /\ OnlyAttributes(coded, more)
      /\ AttributesKept(more.attributes, more.dropped_attributes_count, l)
  BY <1>1, <1>2, ControlRecorded DEF ControlKeys
<1> HIDE DEF more
<1>4. /\ IsSpan(told) /\ OnlyAttributes(s, told)
      /\ AttributesKept(told.attributes, told.dropped_attributes_count, l)
  BY <1>2, <1>3 DEF OnlyAttributes
<1> HIDE DEF told
<1>5. IsStatus(Failed(x)) BY <1>1 DEF IsStatus, Failed
<1>6. /\ IsSpan(r) /\ r.status = Failed(x)
      /\ \A f \in SpanFields \ {"status"} : r[f] = told[f]
  BY <1>4, <1>5, StatusSet
<1> HIDE DEF r
<1>7. /\ r.attributes = told.attributes
      /\ r.dropped_attributes_count = told.dropped_attributes_count
      /\ SameLists(s, r)
  BY <1>4, <1>6 DEF SameLists, OnlyAttributes, SpanFields
<1>8. MarkFailed(s, e) = r
  BY Zenon DEF MarkFailed, r, told, more, coded, x
<1> QED BY <1>4, <1>6, <1>7, <1>8 DEF x

\* A list of bounded capacity and its counter, before and after x comes.
Pushed(list, lost, new, more, x, cap) ==
  /\ more > 0 => Len(new) = cap
  /\ Len(new) + more = Len(list) + lost + 1
  /\ \A i \in DOMAIN new : \/ i \in DOMAIN list /\ new[i] = list[i]
                           \/ i = Len(list) + lost + 1 /\ new[i] = x

\* PushWithin and Overflow keep the list within its capacity, and the counter
\* tells what did not fit.
LEMMA PushedIs ==
  ASSUME NEW S, NEW list \in Seq(S), NEW x \in S, NEW cap \in Nat,
         Len(list) <= cap, NEW lost \in Nat, lost > 0 => Len(list) = cap
  PROVE  LET new  == PushWithin(list, x, cap)
             more == Overflow(lost, list, cap)
         IN /\ new \in Seq(S) /\ Len(new) <= cap /\ more \in Nat
            /\ Pushed(list, lost, new, more, x, cap)
<1> DEFINE new  == PushWithin(list, x, cap)
           more == Overflow(lost, list, cap)
           n    == Len(list)
<1>1. n \in Nat /\ DOMAIN list = 1..n /\ n <= cap /\ (lost > 0 => n = cap)
  BY LenProperties
<1> HIDE DEF n
<1>2. CASE n < cap
  <2>1. new = Append(list, x) /\ more = lost
    BY <1>2 DEF PushWithin, Overflow, n
  <2>2. /\ new \in Seq(S) /\ Len(new) = n + 1
        /\ \A i \in 1..n : new[i] = list[i]
        /\ new[n + 1] = x
    BY <2>1, AppendProperties DEF n
  <2> HIDE DEF new, more
  <2>3. DOMAIN new = 1..(n + 1) BY <2>2, LenProperties
  <2>4. lost = 0 BY <1>1, <1>2
  <2>5. \A i \in DOMAIN new : \/ i \in DOMAIN list /\ new[i] = list[i]
                              \/ i = n + lost + 1 /\ new[i] = x
    BY <1>1, <2>2, <2>3, <2>4
  <2>6. Len(new) <= cap /\ more \in Nat /\ (more > 0 => Len(new) = cap)
        /\ Len(new) + more = n + lost + 1 /\ Len(new) >= n
    BY <1>1, <1>2, <2>1, <2>2, <2>4
  <2> QED BY <2>2, <2>5, <2>6 DEF new, more, n, Pushed
<1>3. CASE ~(n < cap)
  <2>1. new = list /\ more = lost + 1 /\ Len(new) = n
    BY <1>3 DEF PushWithin, Overflow, n
  <2> HIDE DEF new, more
  <2>2. Len(new) <= cap /\ more \in Nat /\ (more > 0 => Len(new) = cap)
        /\ Len(new) + more = n + lost + 1 /\ Len(new) >= n
    BY <1>1, <1>3, <2>1
  <2>3. \A i \in DOMAIN new : i \in DOMAIN list /\ new[i] = list[i] BY <2>1
  <2>4. new \in Seq(S) BY <2>1
  <2> QED BY <2>2, <2>3, <2>4 DEF new, more, n, Pushed
<1> QED BY <1>2, <1>3

\* An event keeps the attributes, sets the status if it is the first error, and
\* joins the events if there is room.
LEMMA EventKeeps ==
  ASSUME NEW s, IsSpan(s), NEW e \in StampedEvents, NEW l,
         AttributesKept(s.attributes, s.dropped_attributes_count, l),
         s.dropped_events_count > 0 => Len(s.events) = EventCap
  PROVE  LET r == WithEvent(s, e) IN
         /\ IsSpan(r)
         /\ AttributesKept(r.attributes, r.dropped_attributes_count, l)
         /\ r.status = IF ErrorSets(s, e) THEN Failed(Explanation(e)) ELSE s.status
         /\ r.events = PushWithin(s.events, Visited(e), EventCap)
         /\ r.dropped_events_count =
              Overflow(s.dropped_events_count, s.events, EventCap)
         /\ r.links = s.links /\ r.dropped_links_count = s.dropped_links_count
<1> DEFINE marked == IF ErrorSets(s, e) THEN MarkFailed(s, e) ELSE s
           new    == PushWithin(s.events, Visited(e), EventCap)
           more   == Overflow(s.dropped_events_count, s.events, EventCap)
           Heard  == {Visited(x) : x \in StampedEvents}
           r      == [marked EXCEPT !.events = new, !.dropped_events_count = more]
<1>1. /\ IsSpan(marked) /\ SameLists(s, marked)
      /\ AttributesKept(marked.attributes, marked.dropped_attributes_count, l)
      /\ marked.status = IF ErrorSets(s, e) THEN Failed(Explanation(e)) ELSE s.status
  BY MarkFailedKeeps DEF SameLists
<1> HIDE DEF marked
<1>2. new \in Seq(Heard) /\ Len(new) <= EventCap /\ more \in Nat
  <2>1. s.events \in Seq(Heard) /\ Len(s.events) <= EventCap
        /\ s.dropped_events_count \in Nat /\ EventCap \in Nat /\ Visited(e) \in Heard
    BY CapacityAssumption DEF IsSpan
  <2> HIDE DEF Heard
  <2> QED BY <2>1, PushedIs
<1>3. WithEvent(s, e) = r
  <2>1. marked.events = s.events
        /\ marked.dropped_events_count = s.dropped_events_count
    BY <1>1 DEF SameLists
  <2>2. WithEvent(s, e) =
          [marked EXCEPT
             !.events = PushWithin(marked.events, Visited(e), EventCap),
             !.dropped_events_count =
                Overflow(marked.dropped_events_count, s.events, EventCap)]
    BY Zenon DEF WithEvent, marked
  <2> QED BY <2>1, <2>2, Zenon
<1> HIDE DEF new, more
<1>4. marked = [f \in SpanFields |-> marked[f]] BY <1>1 DEF IsSpan
<1>5. /\ r = [f \in SpanFields |-> r[f]] /\ r.events = new
      /\ r.dropped_events_count = more
      /\ \A f \in SpanFields \ {"events", "dropped_events_count"} : r[f] = marked[f]
  BY <1>4 DEF SpanFields
<1> HIDE DEF r
<1>6. /\ r.attributes = marked.attributes /\ r.status = marked.status
      /\ r.dropped_attributes_count = marked.dropped_attributes_count
      /\ r.links = marked.links /\ r.dropped_links_count = marked.dropped_links_count
      /\ r.kind = marked.kind
  BY <1>5 DEF SpanFields
<1>7. IsSpan(r) BY <1>1, <1>2, <1>5, <1>6 DEF IsSpan
<1> QED BY <1>1, <1>3, <1>5, <1>6, <1>7 DEF new, more, SameLists

\* A link joins the links if there is room.
LEMMA LinkKeeps ==
  ASSUME NEW s, IsSpan(s), NEW c \in Contexts,
         s.dropped_links_count > 0 => Len(s.links) = LinkCap
  PROVE  LET r == WithLink(s, c) IN
         /\ IsSpan(r) /\ r.attributes = s.attributes /\ r.status = s.status
         /\ r.dropped_attributes_count = s.dropped_attributes_count
         /\ r.events = s.events /\ r.dropped_events_count = s.dropped_events_count
         /\ r.links = PushWithin(s.links, c, LinkCap)
         /\ r.dropped_links_count = Overflow(s.dropped_links_count, s.links, LinkCap)
<1> DEFINE new  == PushWithin(s.links, c, LinkCap)
           more == Overflow(s.dropped_links_count, s.links, LinkCap)
           r    == [s EXCEPT !.links = new, !.dropped_links_count = more]
<1>1. new \in Seq(Contexts) /\ Len(new) <= LinkCap /\ more \in Nat
  <2>1. s.links \in Seq(Contexts) /\ Len(s.links) <= LinkCap
        /\ s.dropped_links_count \in Nat /\ LinkCap \in Nat
    BY CapacityAssumption DEF IsSpan
  <2> QED BY <2>1, PushedIs
<1>2. WithLink(s, c) = r BY Zenon DEF WithLink
<1> HIDE DEF new, more
<1>3. s = [f \in SpanFields |-> s[f]] BY DEF IsSpan
<1>4. /\ r = [f \in SpanFields |-> r[f]] /\ r.links = new
      /\ r.dropped_links_count = more
      /\ \A f \in SpanFields \ {"links", "dropped_links_count"} : r[f] = s[f]
  BY <1>3 DEF SpanFields
<1> HIDE DEF r
<1>5. /\ r.attributes = s.attributes /\ r.status = s.status
      /\ r.dropped_attributes_count = s.dropped_attributes_count
      /\ r.events = s.events /\ r.dropped_events_count = s.dropped_events_count
      /\ r.kind = s.kind
  BY <1>4 DEF SpanFields
<1>6. IsSpan(r) BY <1>1, <1>4, <1>5 DEF IsSpan
<1> QED BY <1>2, <1>4, <1>5, <1>6 DEF new, more

-----------------------------------------------------------------------------
(* The first error of a sequence of events.                                 *)

FirstError(evs) == SelectInSeq(evs, IsErrorEvent)

\* FirstError is the least position of an error, or zero.
LEMMA FirstErrorIs ==
  ASSUME NEW S, NEW evs \in Seq(S)
  PROVE  LET first == FirstError(evs) IN
         \/ first = 0 /\ \A i \in DOMAIN evs : ~IsErrorEvent(evs[i])
         \/ /\ first \in DOMAIN evs /\ IsErrorEvent(evs[first])
            /\ \A i \in DOMAIN evs : IsErrorEvent(evs[i]) => first <= i
<1> DEFINE I == {i \in 1..Len(evs) : IsErrorEvent(evs[i])}
<1>1. DOMAIN evs = 1..Len(evs) /\ Len(evs) \in Nat BY LenProperties
<1>2. FirstError(evs) = IF I # {} THEN Min(I) ELSE 0
  BY DEF FirstError, SelectInSeq
<1>3. I \subseteq Nat OBVIOUS
<1>4. I # {} => Min(I) \in I /\ \A i \in I : Min(I) <= i
  <2> HIDE DEF I
  <2> QED BY <1>3, LeastIs
<1> QED BY <1>1, <1>2, <1>4

\* One more event is the first error only if none was before.
LEMMA FirstErrorAfter ==
  ASSUME NEW S, NEW evs \in Seq(S), NEW e \in S
  PROVE  LET first == FirstError(evs)
             next  == FirstError(Append(evs, e))
         IN /\ first # 0 => first \in DOMAIN evs /\ next = first
            /\ first = 0 => next = IF IsErrorEvent(e) THEN Len(evs) + 1 ELSE 0
<1> DEFINE all   == Append(evs, e)
           n     == Len(evs)
           first == FirstError(evs)
           next  == FirstError(all)
<1>1. n \in Nat /\ DOMAIN evs = 1..n BY LenProperties
<1>2. /\ all \in Seq(S) /\ Len(all) = n + 1
      /\ \A i \in 1..n : all[i] = evs[i]
      /\ all[n + 1] = e
  BY AppendProperties
<1> HIDE DEF all, n
<1>3. DOMAIN all = 1..(n + 1) BY <1>2, LenProperties
<1>4. \/ first = 0 /\ \A i \in DOMAIN evs : ~IsErrorEvent(evs[i])
      \/ /\ first \in DOMAIN evs /\ IsErrorEvent(evs[first])
         /\ \A i \in DOMAIN evs : IsErrorEvent(evs[i]) => first <= i
  BY FirstErrorIs
<1>5. \/ next = 0 /\ \A i \in DOMAIN all : ~IsErrorEvent(all[i])
      \/ /\ next \in DOMAIN all /\ IsErrorEvent(all[next])
         /\ \A i \in DOMAIN all : IsErrorEvent(all[i]) => next <= i
  BY <1>2, FirstErrorIs
<1> HIDE DEF first, next
<1>6. ASSUME first # 0 PROVE first \in DOMAIN evs /\ next = first
  <2>1. first \in 1..n /\ IsErrorEvent(evs[first]) BY <1>1, <1>4, <1>6
  <2>2. first \in DOMAIN all /\ IsErrorEvent(all[first]) BY <1>1, <1>2, <1>3, <2>1
  <2>3. next \in 1..(n + 1) /\ next <= first /\ IsErrorEvent(all[next])
    BY <1>3, <1>5, <2>2
  <2>4. next \in 1..n BY <1>1, <2>1, <2>3
  <2>5. IsErrorEvent(evs[next]) BY <1>2, <2>3, <2>4
  <2>6. first <= next BY <1>1, <1>4, <1>6, <2>4, <2>5
  <2> QED BY <1>1, <2>1, <2>3, <2>6
<1>7. ASSUME first = 0 PROVE next = IF IsErrorEvent(e) THEN n + 1 ELSE 0
  <2>1. \A i \in 1..n : ~IsErrorEvent(all[i])
    <3>1. 0 \notin DOMAIN evs BY <1>1
    <3> QED BY <1>1, <1>2, <1>4, <1>7, <3>1
  <2>2. \A i \in DOMAIN all : i \in 1..n \/ i = n + 1 BY <1>1, <1>3
  <2>3. n + 1 \in DOMAIN all BY <1>1, <1>3
  <2>4. n + 1 # 0 BY <1>1
  <2>5. CASE IsErrorEvent(e)
    <3>1. next \in DOMAIN all /\ IsErrorEvent(all[next])
      BY <1>2, <1>5, <2>3, <2>5
    <3>2. next = n + 1 BY <3>1, <2>1, <2>2
    <3> QED BY <3>2, <2>5
  <2>6. CASE ~IsErrorEvent(e)
    <3>1. \A i \in DOMAIN all : ~IsErrorEvent(all[i]) BY <1>2, <2>1, <2>2, <2>6
    <3> QED BY <3>1, <1>5, <2>6
  <2> QED BY <2>5, <2>6
<1> QED BY <1>6, <1>7 DEF first, next, all, n

-----------------------------------------------------------------------------
(* The invariant holds at first, and every call keeps it.                   *)

\* A new span has recorded, heard and followed nothing.
LEMMA InvInit == Init => IInv
<1> SUFFICES ASSUME Init PROVE IInv OBVIOUS
<1>1. /\ span = NewSpan("span") /\ live = TRUE /\ calls = 0
      /\ latest = [k \in Keys |-> NotRecorded]
      /\ history = [events |-> <<>>, followed |-> <<>>, said |-> <<>>]
  BY DEF Init
<1>2. AttributeCap \in Nat /\ EventCap \in Nat /\ LinkCap \in Nat /\ MaxCalls \in Nat
  BY CapacityAssumption, CallsAssumption
<1>3. /\ span.attributes = <<>> /\ span.events = <<>> /\ span.links = <<>>
      /\ span.dropped_attributes_count = 0 /\ span.dropped_events_count = 0
      /\ span.dropped_links_count = 0 /\ span.kind = "internal"
      /\ span.status = Unset
      /\ span = [f \in SpanFields |-> span[f]]
  BY <1>1 DEF NewSpan, SpanFields
<1>4. \A S : <<>> \in Seq(S) /\ Len(<<>>) = 0 BY EmptySeq
<1>5. IsStatus(Unset) BY LiteralsAssumption DEF IsStatus, Unset
<1>6. IsSpan(span) BY <1>2, <1>3, <1>4, <1>5 DEF IsSpan
<1>7. latest \in [Keys -> Latest]
  BY <1>1, LiteralsAssumption DEF NotRecorded, Latest
<1>8. Typed BY <1>1, <1>2, <1>4, <1>6, <1>7 DEF Typed
<1>9. AttributesKept(span.attributes, span.dropped_attributes_count, latest)
  <2>1. Recorded(latest) = {} BY <1>1 DEF Recorded
  <2>2. DOMAIN <<>> = {} OBVIOUS
  <2>3. KeysOf(<<>>) = {} /\ Distinct(<<>>) BY <2>2 DEF KeysOf, Distinct
  <2>4. Protected({}) = {} BY DEF Protected
  <2>5. {} \ {} = {} /\ {} \subseteq {} OBVIOUS
  <2>6. RoomForProtected(<<>>, latest)
    BY <2>1, <2>4 DEF RoomForProtected
  <2>7. IsFiniteSet({}) /\ Cardinality({}) = 0 BY FS_EmptySet
  <2>8. Cardinality(Recorded(latest) \ KeysOf(<<>>))
          <= 0 + Cardinality(Protected(KeysOf(<<>>)))
    <3>1. Recorded(latest) \ KeysOf(<<>>) = {} /\ Protected(KeysOf(<<>>)) = {}
      BY <2>1, <2>3, <2>4
    <3>2. Cardinality({}) <= 0 + Cardinality({}) BY <2>7
    <3> QED BY <3>1, <3>2, Zenon
  <2>9. \A i \in DOMAIN <<>> :
          <<>>[i].key \in Keys => Matches(<<>>[i].value, latest[<<>>[i].key])
    BY <2>2
  <2>10. IsFiniteSet(Recorded(latest)) BY <2>1, <2>7
  <2> QED BY <1>3, <2>3, <2>6, <2>8, <2>9, <2>10 DEF AttributesKept
<1>10. EventsKept /\ LinksKept
  <2>1. DOMAIN <<>> = {} OBVIOUS
  <2>2. history.events = <<>> /\ history.followed = <<>> BY <1>1
  <2>3. Len(<<>>) = 0 BY <1>4
  <2> QED BY <1>3, <2>1, <2>2, <2>3 DEF EventsKept, LinksKept
<1>11. FirstErrorExplains
  <2>1. history.events = <<>> /\ <<>> \in Seq(StampedEvents) BY <1>1, <1>4
  <2>2. FirstError(<<>>) = 0
    <3>1. DOMAIN <<>> = {} OBVIOUS
    <3> QED BY <2>1, <3>1, FirstErrorIs
  <2> QED BY <1>3, <2>1, <2>2 DEF FirstErrorExplains, FirstError
<1> QED BY <1>8, <1>9, <1>10, <1>11 DEF IInv

\* A field recorded.
LEMMA InvOnRecord ==
  ASSUME IInv, NEW f \in Fields, OnRecord(f)
  PROVE  IInv'
<1>1. /\ live /\ calls < MaxCalls /\ calls' = calls + 1 /\ live' = live
      /\ span' = HandleField(span, f)
      /\ latest' = LatestAfter(latest, f)
      /\ history' = IF f.key \in StatusKeys
                    THEN [history EXCEPT !.said = Append(@, f)] ELSE history
  BY DEF OnRecord, Call, LatestAfter, StatusKeys
<1>2. /\ Typed /\ EventsKept /\ LinksKept /\ FirstErrorExplains
      /\ AttributesKept(span.attributes, span.dropped_attributes_count, latest)
  BY DEF IInv
<1>3. FieldKept(span, span', latest, latest', f)
  BY <1>1, <1>2, FieldKeeps DEF Typed
<1>4. calls' \in 0..MaxCalls BY <1>1, <1>2, CallsAssumption DEF Typed
<1>5. /\ history' = [events |-> history'.events, followed |-> history'.followed,
                     said |-> history'.said]
      /\ history'.events = history.events /\ history'.followed = history.followed
      /\ history'.said \in Seq(Fields)
      /\ IF f.key \in StatusKeys THEN history'.said # <<>>
                                 ELSE history'.said = history.said
  <2>1. /\ history = [events |-> history.events, followed |-> history.followed,
                      said |-> history.said]
        /\ history.said \in Seq(Fields)
    BY <1>2 DEF Typed
  <2>2. Append(history.said, f) \in Seq(Fields) /\ Append(history.said, f) # <<>>
    BY <2>1, AppendProperties
  <2>3. CASE f.key \in StatusKeys
    <3>1. history' = [history EXCEPT !.said = Append(history.said, f)]
      BY <1>1, <2>3
    <3> QED BY <2>1, <2>2, <2>3, <3>1
  <2>4. CASE f.key \notin StatusKeys BY <1>1, <2>1, <2>4
  <2> QED BY <2>3, <2>4
<1>6. Typed' BY <1>1, <1>2, <1>3, <1>4, <1>5 DEF Typed, FieldKept
<1>7. AttributesKept(span'.attributes, span'.dropped_attributes_count, latest')
  BY <1>3 DEF FieldKept
<1>8. EventsKept' /\ LinksKept'
  BY <1>2, <1>3, <1>5 DEF EventsKept, LinksKept, FieldKept, SameLists
<1>9. FirstErrorExplains'
  <2>1. CASE f.key \in StatusKeys
    BY <1>5, <2>1, Zenon DEF FirstErrorExplains
  <2>2. CASE f.key \notin StatusKeys
    <3>1. /\ history'.events = history.events /\ history'.said = history.said
          /\ span'.status = span.status
      BY <1>3, <1>5, <2>2 DEF FieldKept
    <3> QED BY <1>2, <3>1, Zenon DEF FirstErrorExplains
  <2> QED BY <2>1, <2>2
<1> QED BY <1>6, <1>7, <1>8, <1>9 DEF IInv

\* An event.
LEMMA InvOnEvent ==
  ASSUME IInv, NEW event \in Events, OnEvent(event)
  PROVE  IInv'
<1> DEFINE e == Stamped(event, calls)
           Heard == {Visited(x) : x \in StampedEvents}
<1>1. /\ live /\ calls < MaxCalls /\ calls' = calls + 1 /\ live' = live
      /\ span' = WithEvent(span, e) /\ latest' = latest
      /\ history' = [history EXCEPT !.events = Append(@, e)]
  BY DEF OnEvent, Call
<1>2. /\ Typed /\ EventsKept /\ LinksKept /\ FirstErrorExplains
      /\ AttributesKept(span.attributes, span.dropped_attributes_count, latest)
  BY DEF IInv
<1>3. e \in StampedEvents BY <1>2 DEF Typed, StampedEvents
<1> HIDE DEF e
<1>4. /\ IsSpan(span')
      /\ AttributesKept(span'.attributes, span'.dropped_attributes_count, latest)
      /\ span'.status = IF ErrorSets(span, e) THEN Failed(Explanation(e))
                                              ELSE span.status
      /\ span'.events = PushWithin(span.events, Visited(e), EventCap)
      /\ span'.dropped_events_count =
           Overflow(span.dropped_events_count, span.events, EventCap)
      /\ span'.links = span.links
      /\ span'.dropped_links_count = span.dropped_links_count
  <2>1. IsSpan(span) /\ (span.dropped_events_count > 0 => Len(span.events) = EventCap)
    BY <1>2 DEF Typed, EventsKept
  <2> QED BY <1>1, <1>2, <1>3, <2>1, EventKeeps
<1>5. calls' \in 0..MaxCalls BY <1>1, <1>2, CallsAssumption DEF Typed
<1>6. /\ history.events \in Seq(StampedEvents)
      /\ history = [events |-> history.events, followed |-> history.followed,
                    said |-> history.said]
  BY <1>2 DEF Typed
<1>7. /\ history' = [events |-> history'.events, followed |-> history'.followed,
                     said |-> history'.said]
      /\ history'.events = Append(history.events, e)
      /\ history'.followed = history.followed /\ history'.said = history.said
  BY <1>1, <1>6
<1>8. /\ history'.events \in Seq(StampedEvents)
      /\ Len(history'.events) = Len(history.events) + 1
      /\ \A i \in 1..Len(history.events) : history'.events[i] = history.events[i]
      /\ history'.events[Len(history.events) + 1] = e
  BY <1>3, <1>6, <1>7, AppendProperties
<1>9. Typed' BY <1>1, <1>2, <1>4, <1>5, <1>7, <1>8 DEF Typed
<1>10. EventsKept'
  <2> DEFINE old == span.events
             new == span'.events
             lost == span.dropped_events_count
             more == span'.dropped_events_count
             n == Len(history.events)
  <2>1. /\ Len(old) + lost = n /\ (lost > 0 => Len(old) = EventCap)
        /\ \A i \in DOMAIN old : old[i] = Visited(history.events[i])
    BY <1>2 DEF EventsKept
  <2>2. /\ old \in Seq(Heard) /\ Len(old) <= EventCap /\ lost \in Nat
        /\ EventCap \in Nat /\ Visited(e) \in Heard
    BY <1>2, <1>3, CapacityAssumption DEF Typed, IsSpan
  <2>3. DOMAIN old = 1..Len(old) /\ Len(old) \in Nat BY <2>2, LenProperties
  <2>4. new = PushWithin(old, Visited(e), EventCap)
        /\ more = Overflow(lost, old, EventCap)
    BY <1>4
  <2> HIDE DEF Heard, old, new, lost, more
  <2>5. /\ more > 0 => Len(new) = EventCap
        /\ Len(new) + more = Len(old) + lost + 1
        /\ \A i \in DOMAIN new : \/ i \in DOMAIN old /\ new[i] = old[i]
                                 \/ i = Len(old) + lost + 1 /\ new[i] = Visited(e)
    <3>1. lost > 0 => Len(old) = EventCap BY <2>1
    <3>2. Pushed(old, lost, new, more, Visited(e), EventCap)
      BY <2>2, <2>4, <3>1, PushedIs
    <3> QED BY <3>2 DEF Pushed
  <2>6. \A i \in DOMAIN new : new[i] = Visited(history'.events[i])
    <3> SUFFICES ASSUME NEW i \in DOMAIN new
                 PROVE  new[i] = Visited(history'.events[i])
      OBVIOUS
    <3>1. CASE i \in DOMAIN old /\ new[i] = old[i]
      <4>1. i \in 1..n BY <2>1, <2>2, <2>3, <3>1
      <4> QED BY <4>1, <3>1, <2>1, <1>8
    <3>2. CASE i = Len(old) + lost + 1 /\ new[i] = Visited(e)
      BY <3>2, <2>1, <1>8
    <3> QED BY <2>5, <3>1, <3>2
  <2>7. Len(new) + more = Len(history'.events) BY <1>8, <2>1, <2>5
  <2> QED BY <2>5, <2>6, <2>7 DEF EventsKept, new, more
<1>11. LinksKept' BY <1>2, <1>4, <1>7 DEF LinksKept
<1>12. FirstErrorExplains'
  <2> DEFINE first == FirstError(history.events)
             next  == FirstError(history'.events)
  <2> SUFFICES ASSUME history.said = <<>>
               PROVE  span'.status = IF next = 0 THEN Unset
                                     ELSE Failed(Explanation(history'.events[next]))
    BY <1>7 DEF FirstErrorExplains, FirstError
  <2>1. span.status = IF first = 0 THEN Unset
                      ELSE Failed(Explanation(history.events[first]))
    BY <1>2 DEF FirstErrorExplains, FirstError
  <2>2. /\ first # 0 => first \in DOMAIN history.events /\ next = first
        /\ first = 0 => next = IF IsErrorEvent(e) THEN Len(history.events) + 1 ELSE 0
    BY <1>3, <1>6, <1>7, FirstErrorAfter
  <2> HIDE DEF first, next
  <2>3. CASE first # 0
    <3>1. first \in 1..Len(history.events) BY <1>6, <2>2, <2>3, LenProperties
    <3>2. history'.events[next] = history.events[first] BY <1>8, <2>2, <2>3, <3>1
    <3>3. span.status.code = "error" BY <2>1, <2>3 DEF Failed
    <3>4. span'.status = span.status BY <1>4, <3>3 DEF ErrorSets
    <3> QED BY <2>1, <2>2, <2>3, <3>2, <3>4
  <2>4. CASE first = 0
    <3>1. span.status = Unset /\ span.status.code # "error"
      <4>1. span.status = Unset BY <2>1, <2>4
      <4>2. Unset.code = "unset" BY DEF Unset
      <4> QED BY <4>1, <4>2
    <3>2. ErrorSets(span, e) <=> IsErrorEvent(e) BY <3>1 DEF ErrorSets
    <3>3. CASE IsErrorEvent(e)
      <4>1. Len(history.events) + 1 # 0 BY <1>6, LenProperties
      <4>2. next # 0 /\ history'.events[next] = e BY <4>1, <1>8, <2>2, <2>4, <3>3
      <4> QED BY <4>2, <1>4, <3>2, <3>3
    <3>4. CASE ~IsErrorEvent(e) BY <1>4, <2>2, <2>4, <3>1, <3>2, <3>4
    <3> QED BY <3>3, <3>4
  <2> QED BY <2>3, <2>4
<1> QED BY <1>1, <1>4, <1>9, <1>10, <1>11, <1>12 DEF IInv

\* A link.
LEMMA InvOnFollowsFrom ==
  ASSUME IInv, NEW c \in Contexts, OnFollowsFrom(c)
  PROVE  IInv'
<1>1. /\ live /\ calls < MaxCalls /\ calls' = calls + 1 /\ live' = live
      /\ span' = WithLink(span, c) /\ latest' = latest
      /\ history' = [history EXCEPT !.followed = Append(@, c)]
  BY DEF OnFollowsFrom, Call
<1>2. /\ Typed /\ EventsKept /\ LinksKept /\ FirstErrorExplains
      /\ AttributesKept(span.attributes, span.dropped_attributes_count, latest)
  BY DEF IInv
<1>3. /\ IsSpan(span') /\ span'.attributes = span.attributes
      /\ span'.status = span.status
      /\ span'.dropped_attributes_count = span.dropped_attributes_count
      /\ span'.events = span.events
      /\ span'.dropped_events_count = span.dropped_events_count
      /\ span'.links = PushWithin(span.links, c, LinkCap)
      /\ span'.dropped_links_count = Overflow(span.dropped_links_count, span.links, LinkCap)
  <2>1. IsSpan(span) /\ (span.dropped_links_count > 0 => Len(span.links) = LinkCap)
    BY <1>2 DEF Typed, LinksKept
  <2> QED BY <1>1, <2>1, LinkKeeps
<1>4. calls' \in 0..MaxCalls BY <1>1, <1>2, CallsAssumption DEF Typed
<1>5. /\ history.followed \in Seq(Contexts)
      /\ history = [events |-> history.events, followed |-> history.followed,
                    said |-> history.said]
  BY <1>2 DEF Typed
<1>6. /\ history' = [events |-> history'.events, followed |-> history'.followed,
                     said |-> history'.said]
      /\ history'.followed = Append(history.followed, c)
      /\ history'.events = history.events /\ history'.said = history.said
  BY <1>1, <1>5
<1>7. /\ history'.followed \in Seq(Contexts)
      /\ Len(history'.followed) = Len(history.followed) + 1
      /\ \A i \in 1..Len(history.followed) : history'.followed[i] = history.followed[i]
      /\ history'.followed[Len(history.followed) + 1] = c
  BY <1>5, <1>6, AppendProperties
<1>8. Typed' BY <1>1, <1>2, <1>3, <1>4, <1>6, <1>7 DEF Typed
<1>9. LinksKept'
  <2> DEFINE old  == span.links
             new  == span'.links
             lost == span.dropped_links_count
             more == span'.dropped_links_count
             n    == Len(history.followed)
  <2>1. /\ Len(old) + lost = n /\ (lost > 0 => Len(old) = LinkCap)
        /\ \A i \in DOMAIN old : old[i] = history.followed[i]
    BY <1>2 DEF LinksKept
  <2>2. /\ old \in Seq(Contexts) /\ Len(old) <= LinkCap /\ lost \in Nat
        /\ LinkCap \in Nat
    BY <1>2, CapacityAssumption DEF Typed, IsSpan
  <2>3. DOMAIN old = 1..Len(old) /\ Len(old) \in Nat BY <2>2, LenProperties
  <2>4. new = PushWithin(old, c, LinkCap) /\ more = Overflow(lost, old, LinkCap)
    BY <1>3
  <2> HIDE DEF old, new, lost, more, n
  <2>5. /\ more > 0 => Len(new) = LinkCap
        /\ Len(new) + more = Len(old) + lost + 1
        /\ \A i \in DOMAIN new : \/ i \in DOMAIN old /\ new[i] = old[i]
                                 \/ i = Len(old) + lost + 1 /\ new[i] = c
    <3>1. lost > 0 => Len(old) = LinkCap BY <2>1
    <3>2. Pushed(old, lost, new, more, c, LinkCap)
      BY <2>2, <2>4, <3>1, PushedIs
    <3> QED BY <3>2 DEF Pushed
  <2>6. \A i \in DOMAIN new : new[i] = history'.followed[i]
    <3> SUFFICES ASSUME NEW i \in DOMAIN new PROVE new[i] = history'.followed[i]
      OBVIOUS
    <3>1. CASE i \in DOMAIN old /\ new[i] = old[i]
      <4>1. lost \in Nat /\ Len(old) + lost = n BY <2>1, <2>2
      <4>2. i \in 1..n BY <4>1, <2>3, <3>1
      <4> QED BY <4>2, <3>1, <2>1, <1>7 DEF n
    <3>2. CASE i = Len(old) + lost + 1 /\ new[i] = c BY <3>2, <2>1, <1>7 DEF n
    <3> QED BY <2>5, <3>1, <3>2
  <2>7. Len(new) + more = Len(history'.followed)
    <3>1. n + 1 = Len(history'.followed) BY <1>7 DEF n
    <3> QED BY <3>1, <2>1, <2>5
  <2> QED BY <2>5, <2>6, <2>7 DEF LinksKept, new, more, n
<1>10. EventsKept' BY <1>2, <1>3, <1>6 DEF EventsKept
<1>11. FirstErrorExplains'
  <2>1. /\ history'.events = history.events /\ history'.said = history.said
        /\ span'.status = span.status
    BY <1>3, <1>6
  <2> QED BY <1>2, <2>1, Zenon DEF FirstErrorExplains
<1>12. AttributesKept(span'.attributes, span'.dropped_attributes_count, latest')
  BY <1>1, <1>2, <1>3
<1> QED BY <1>8, <1>9, <1>10, <1>11, <1>12 DEF IInv

\* Every step keeps the invariant.
LEMMA InvStep == IInv /\ [Next]_vars => IInv'
<1> SUFFICES ASSUME IInv, [Next]_vars PROVE IInv' OBVIOUS
<1>1. ASSUME NEW f \in Fields, OnRecord(f) PROVE IInv' BY <1>1, InvOnRecord
<1>2. ASSUME NEW e \in Events, OnEvent(e) PROVE IInv' BY <1>2, InvOnEvent
<1>3. ASSUME NEW c \in Contexts, OnFollowsFrom(c) PROVE IInv'
  BY <1>3, InvOnFollowsFrom
<1>4. CASE UNCHANGED <<span, calls, latest, history>> /\ live' \in BOOLEAN
  <2>1. span' = span /\ calls' = calls /\ latest' = latest /\ history' = history
        /\ live' \in BOOLEAN
    BY <1>4
  <2>2. Typed' BY <2>1 DEF IInv, Typed
  <2>3. EventsKept' /\ LinksKept' BY <2>1 DEF IInv, EventsKept, LinksKept
  <2>4. FirstErrorExplains' BY <2>1, Zenon DEF IInv, FirstErrorExplains
  <2>5. AttributesKept(span'.attributes, span'.dropped_attributes_count, latest')
    BY <2>1 DEF IInv
  <2> QED BY <2>2, <2>3, <2>4, <2>5 DEF IInv
<1>5. CASE OnClose BY <1>4, <1>5 DEF OnClose
<1>6. CASE UNCHANGED vars BY <1>4, <1>6 DEF vars, IInv, Typed
<1> QED BY <1>1, <1>2, <1>3, <1>5, <1>6 DEF Next

\* At every moment the span is well-formed, and its attributes, events, links and
\* status are true to what the program recorded.
THEOREM InvCorrect == Spec => []IInv
<1>1. Init => IInv BY InvInit
<1>2. IInv /\ [Next]_vars => IInv' BY InvStep
<1> QED BY <1>1, <1>2, PTL DEF Spec

-----------------------------------------------------------------------------
(* What the invariant implies.                                              *)

\* Stored and the protected keys among it, in terms of the attributes.
LEMMA StoredAre ==
  ASSUME IInv
  PROVE  /\ span.attributes \in Seq(Entry) /\ Len(span.attributes) <= AttributeCap
         /\ Stored = KeysOf(span.attributes)
         /\ RecordedKeys = Recorded(latest)
         /\ \A a \in Attributes : \E i \in DOMAIN span.attributes :
              a = span.attributes[i]
<1>1. span.attributes \in Seq(Entry) /\ Len(span.attributes) <= AttributeCap
  BY DEF IInv, Typed, IsSpan
<1>2. Stored = KeysOf(span.attributes)
  BY Zenon DEF Stored, Attributes, KeysOf
<1>3. RecordedKeys = Recorded(latest) BY DEF RecordedKeys, Recorded
<1>4. \A a \in Attributes : \E i \in DOMAIN span.attributes : a = span.attributes[i]
  BY DEF Attributes
<1> QED BY <1>1, <1>2, <1>3, <1>4

\* The lists stay within their inline capacities, and only an error has a
\* message, for every capacity.
THEOREM TypeCorrect == Spec => []TypeOK
<1>1. IInv => TypeOK
  <2> SUFFICES ASSUME IInv PROVE TypeOK OBVIOUS
  <2>1. \A a \in Attributes : a.key \in Keys \cup ControlKeys
                              /\ a.value \in AttributeValue
    BY StoredAre, EntriesAre DEF AnyKey
  <2>2. IsSpan(span) /\ live \in BOOLEAN /\ calls \in 0..MaxCalls
    BY DEF IInv, Typed
  <2>3. /\ span.status.code \in {"unset", "ok", "error"}
        /\ span.status.code # "error" => span.status.message = ""
    <3>1. IsStatus(span.status) BY <2>2 DEF IsSpan
    <3> QED BY <3>1 DEF IsStatus
  <2> QED BY <2>1, <2>2, <2>3 DEF TypeOK, IsSpan
<1> QED BY <1>1, InvCorrect, PTL

\* An exported key is unique and carries the value recorded last, in the type
\* that holds it (OtelSpan::record).
THEOREM LatestCorrect == Spec => []StoredIsLatest
<1>1. IInv => StoredIsLatest
  <2> SUFFICES ASSUME IInv PROVE StoredIsLatest OBVIOUS
  <2>1. /\ Distinct(span.attributes)
        /\ \A i \in DOMAIN span.attributes : span.attributes[i].key \in Keys =>
             Matches(span.attributes[i].value, latest[span.attributes[i].key])
    BY DEF IInv, AttributesKept
  <2>2. ASSUME NEW a \in Attributes, a.key \in Keys
        PROVE  Matches(a.value, latest[a.key])
    BY <2>1, <2>2, StoredAre
  <2> QED BY <2>1, <2>2 DEF StoredIsLatest, Distinct, Matches
<1> QED BY <1>1, InvCorrect, PTL

\* The smaller of two naturals is what Min chooses.
LEMMA LesserIs ==
  ASSUME NEW m \in Nat, NEW n \in Nat, m <= n
  PROVE  Min({m, n}) = m /\ Min({n, m}) = m
<1> DEFINE S == {m, n}
<1>1. S \subseteq Nat /\ S # {} OBVIOUS
<1>2. {n, m} = S OBVIOUS
<1> HIDE DEF S
<1>3. Min(S) \in S /\ \A y \in S : Min(S) <= y BY <1>1, LeastIs
<1>4. Min(S) = m BY <1>1, <1>3 DEF S
<1> QED BY <1>2, <1>4 DEF S

\* As many of the protected keys that were recorded are stored as the budget
\* holds, in whatever order they and the others came.
THEOREM ProtectedCorrect == Spec => []ProtectedKept
<1>1. IInv => ProtectedKept
  <2> SUFFICES ASSUME IInv PROVE ProtectedKept OBVIOUS
  <2> DEFINE a     == span.attributes
             asked == Protected(Recorded(latest))
             kept  == Protected(KeysOf(a))
  <2>1. /\ a \in Seq(Entry) /\ Len(a) <= AttributeCap
        /\ Stored = KeysOf(a) /\ RecordedKeys = Recorded(latest)
    BY StoredAre
  <2>2. AttributeCap \in Nat /\ Len(a) \in Nat BY <2>1, EntriesAre, CapacityAssumption
  <2>3. /\ Distinct(a) /\ RoomForProtected(a, latest) /\ IsFiniteSet(Recorded(latest))
        /\ \A i \in DOMAIN a : a[i].key \in Keys => Matches(a[i].value, latest[a[i].key])
    BY DEF IInv, AttributesKept
  <2>4. IsFiniteSet(KeysOf(a)) /\ Cardinality(KeysOf(a)) = Len(a)
    BY <2>1, <2>3, KeysCount
  <2>5. IsFiniteSet(asked) /\ Cardinality(asked) \in Nat
    BY <2>3, FS_Subset, FS_CardinalityType DEF Protected
  <2>6. kept \subseteq asked
    <3> SUFFICES ASSUME NEW k \in kept PROVE k \in asked OBVIOUS
    <3>1. k \in KeysOf(a) /\ IsProtected(k) BY DEF Protected
    <3>2. PICK i \in DOMAIN a : a[i].key = k BY <3>1 DEF KeysOf
    <3>3. k \in AnyKey BY <2>1, <3>2, EntriesAre
    <3>4. k \in Keys BY <3>1, <3>3, ControlKeysApart DEF AnyKey
    <3>5. latest[k] # NotRecorded BY <2>3, <3>2, <3>4 DEF Matches
    <3> QED BY <3>1, <3>4, <3>5 DEF Protected, Recorded
  <2>7. /\ asked = {k \in RecordedKeys : IsProtected(k)}
        /\ kept = {k \in Stored : IsProtected(k)}
    BY <2>1 DEF Protected
  <2>8. Cardinality(kept) = Min({AttributeCap, Cardinality(asked)})
    <3>1. CASE asked \subseteq KeysOf(a)
      <4>1. kept = asked BY <2>6, <3>1 DEF Protected
      <4>2. Cardinality(kept) <= Cardinality(KeysOf(a))
        BY <2>4, FS_Subset DEF Protected
      <4> HIDE DEF kept, asked, a
      <4>3. Cardinality(asked) <= AttributeCap
        BY <4>1, <4>2, <2>1, <2>2, <2>4, <2>5
      <4> QED BY <4>1, <4>3, <2>2, <2>5, LesserIs
    <3>2. CASE Len(a) = AttributeCap /\ \A k \in KeysOf(a) : IsProtected(k)
      <4>1. kept = KeysOf(a) BY <3>2 DEF Protected
      <4> HIDE DEF asked, a
      <4>2. Cardinality(KeysOf(a)) <= Cardinality(asked)
        BY <4>1, <2>5, <2>6, FS_Subset
      <4> HIDE DEF kept
      <4>3. Cardinality(kept) = AttributeCap /\ AttributeCap <= Cardinality(asked)
        BY <4>1, <4>2, <3>2, <2>4
      <4> QED BY <4>3, <2>2, <2>5, LesserIs
    <3> QED BY <2>3, <3>1, <3>2 DEF RoomForProtected
  <2> QED BY <2>7, <2>8 DEF ProtectedKept
<1> QED BY <1>1, InvCorrect, PTL

\* A key the program recorded is missing only if a drop was counted or a
\* protected key took its place, however long the sequence of calls.
THEOREM LossCorrect == Spec => []LossAccounted
<1>1. IInv => LossAccounted
  <2> SUFFICES ASSUME IInv PROVE LossAccounted OBVIOUS
  <2>1. Stored = KeysOf(span.attributes) /\ RecordedKeys = Recorded(latest)
    BY StoredAre
  <2>2. Cardinality(Recorded(latest) \ KeysOf(span.attributes))
          <= span.dropped_attributes_count
               + Cardinality(Protected(KeysOf(span.attributes)))
    BY DEF IInv, AttributesKept
  <2> QED BY <2>1, <2>2 DEF LossAccounted, Protected
<1> QED BY <1>1, InvCorrect, PTL

\* The span fails exactly when some event on it was an error, with the message
\* of the first one, unless the program spoke about the status itself.
THEOREM FirstErrorCorrect == Spec => []FirstErrorExplains
<1>1. IInv => FirstErrorExplains BY DEF IInv
<1> QED BY <1>1, InvCorrect, PTL

\* A sequence whose elements are the first ones of another is its prefix.
LEMMA PrefixIs ==
  ASSUME NEW S, NEW s \in Seq(S), NEW t \in Seq(S), Len(s) <= Len(t),
         \A i \in 1..Len(s) : s[i] = t[i]
  PROVE  IsPrefix(s, t)
<1> DEFINE n == Len(s)
           p == SubSeq(s, 1, n)
           q == SubSeq(t, 1, n)
<1>1. n \in Nat /\ Len(t) \in Nat BY LenProperties
<1>2. \A i \in 1..n : s[i] \in S /\ t[i] \in S BY <1>1, ElementOfSeq
<1>3. /\ p \in Seq(S) /\ Len(p) = IF 1 <= n THEN n - 1 + 1 ELSE 0
      /\ \A i \in 1..(n - 1 + 1) : p[i] = s[1 + i - 1]
  BY <1>1, <1>2, SubSeqProperties
<1>4. /\ q \in Seq(S) /\ Len(q) = IF 1 <= n THEN n - 1 + 1 ELSE 0
      /\ \A i \in 1..(n - 1 + 1) : q[i] = t[1 + i - 1]
  BY <1>1, <1>2, SubSeqProperties
<1> HIDE DEF p, q, n
<1>5. Len(p) = n /\ Len(q) = n /\ \A i \in 1..n : p[i] = s[i] /\ q[i] = t[i]
  BY <1>1, <1>3, <1>4
<1>6. \A i \in 1..n : s[i] = t[i] BY DEF n
<1>7. p = q BY <1>3, <1>4, <1>5, <1>6, SeqEqual
<1> QED BY <1>7 DEF IsPrefix, p, q, n

\* The exported events and links are the oldest ones, and the counters tell how
\* many younger ones there were, for every capacity.
THEOREM EarliestCorrect == Spec => []EarliestKept
<1>1. IInv => EarliestKept
  <2> SUFFICES ASSUME IInv PROVE EarliestKept OBVIOUS
  <2> DEFINE old   == span.events
             evs   == history.events
             times == [i \in DOMAIN old |-> old[i].timestamp]
             all   == [i \in DOMAIN evs |-> evs[i].timestamp]
  <2>1. /\ old \in Seq({Visited(e) : e \in StampedEvents})
        /\ evs \in Seq(StampedEvents) /\ span.dropped_events_count \in Nat
        /\ Len(old) + span.dropped_events_count = Len(evs)
        /\ \A i \in DOMAIN old : old[i] = Visited(evs[i])
    BY DEF IInv, Typed, IsSpan, EventsKept
  <2>2. /\ DOMAIN old = 1..Len(old) /\ Len(old) \in Nat
        /\ DOMAIN evs = 1..Len(evs) /\ Len(evs) \in Nat
        /\ \A i \in 1..Len(evs) : evs[i] \in StampedEvents
    BY <2>1, LenProperties, ElementOfSeq
  <2>3. \A e \in StampedEvents : e.timestamp \in Nat /\ Visited(e).timestamp = e.timestamp
    BY CallsAssumption DEF StampedEvents, Stamped, Visited
  <2>4. IsPrefix(times, all) /\ Len(times) = Len(old) /\ Len(all) = Len(evs)
    <3>1. \A i \in 1..Len(old) : i \in 1..Len(evs) BY <2>1, <2>2
    <3> HIDE DEF old, evs
    <3>2. all \in [1..Len(evs) -> Nat] BY <2>2, <2>3
    <3>3. times \in [1..Len(old) -> Nat] /\ \A i \in 1..Len(old) : times[i] = all[i]
      BY <2>1, <2>2, <2>3, <3>1
    <3> HIDE DEF times, all
    <3>4. all \in Seq(Nat) /\ Len(all) = Len(evs) BY <2>2, <3>2, SeqDef
    <3>5. times \in Seq(Nat) /\ Len(times) = Len(old) BY <2>2, <3>3, SeqDef
    <3>6. Len(times) <= Len(all) BY <2>1, <2>2, <3>4, <3>5
    <3> QED BY <3>3, <3>4, <3>5, <3>6, PrefixIs
  <2>5. /\ span.links \in Seq(Contexts) /\ history.followed \in Seq(Contexts)
        /\ span.dropped_links_count \in Nat
        /\ Len(span.links) + span.dropped_links_count = Len(history.followed)
        /\ \A i \in DOMAIN span.links : span.links[i] = history.followed[i]
    BY DEF IInv, Typed, IsSpan, LinksKept
  <2>6. IsPrefix(span.links, history.followed)
    <3>1. /\ DOMAIN span.links = 1..Len(span.links) /\ Len(span.links) \in Nat
          /\ Len(history.followed) \in Nat
      BY <2>5, LenProperties
    <3>2. Len(span.links) <= Len(history.followed) BY <2>5, <3>1
    <3> QED BY <2>5, <3>1, <3>2, PrefixIs
  <2>7. Len(times) + span.dropped_events_count = Len(all) BY <2>1, <2>4
  <2> QED BY <2>4, <2>5, <2>6, <2>7 DEF EarliestKept
<1> QED BY <1>1, InvCorrect, PTL
=============================================================================
