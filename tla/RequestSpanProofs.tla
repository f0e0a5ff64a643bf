------------------------- MODULE RequestSpanProofs -------------------------
(* Proofs about the contents of a request's root span, for every capacity   *)
(* from eleven attributes on, every set of requests, answers, events and    *)
(* fields of the handler and any number of them.                            *)
EXTENDS RequestSpan, SequenceTheorems, FiniteSetTheorems, WellFoundedInduction,
        NaturalsInduction, TLAPS

-----------------------------------------------------------------------------
(* Numbers, options and lists.                                              *)

\* A set of naturals that is not empty has a least one, and Min chooses it.
LEMMA LeastIs ==
  ASSUME NEW S, S \subseteq Nat, S # {}
  PROVE  Min(S) \in S /\ \A y \in S : Min(S) <= y
<1>1. PICK x \in S : \A y \in S : ~ (<<y, x>> \in OpToRel(<, Nat))
  BY NatLessThanWellFounded, WFMin
<1>2. \A y \in S : ~(y < x) BY <1>1 DEF OpToRel
<1>3. \A y \in S : x <= y BY <1>2
<1> QED BY <1>3 DEF Min

\* What holds at zero and passes from a number to the next holds of every
\* number up to N.
LEMMA UpTo ==
  ASSUME NEW N \in Nat, NEW Good, 0 \in Good,
         \A n \in 0..N : n + 1 \in 0..N /\ n \in Good => n + 1 \in Good
  PROVE  0..N \subseteq Good
<1> DEFINE Bad == {n \in 0..N : n \notin Good}
<1> SUFFICES ASSUME Bad # {} PROVE FALSE
  OBVIOUS
<1>1. Bad \subseteq Nat OBVIOUS
<1>2. Min(Bad) \in Bad /\ \A m \in Bad : Min(Bad) <= m
  <2> HIDE DEF Bad
  <2> QED BY <1>1, LeastIs
<1>3. PICK n \in Bad : \A m \in Bad : n <= m BY <1>2
<1>4. n \in 0..N /\ n \notin Good BY <1>3
<1>5. n # 0 BY <1>4
<1>6. n - 1 \in 0..N /\ (n - 1) + 1 = n BY <1>4, <1>5
<1>7. n - 1 \in Good
  <2> SUFFICES ASSUME n - 1 \notin Good PROVE FALSE
    OBVIOUS
  <2>1. n - 1 \in Bad BY <1>6
  <2> QED BY <1>3, <1>4, <1>6, <2>1
<1> QED BY <1>4, <1>6, <1>7

\* Something is not nothing.
LEMMA OptionIs ==
  ASSUME NEW x
  PROVE  Just(x) # Nothing /\ Just(x)[1] = x
<1>1. Just(x)[1] = x BY DEF Just
<1>2. DOMAIN Just(x) = {1} BY DEF Just
<1>3. DOMAIN Nothing = {} BY DEF Nothing
<1> QED BY <1>1, <1>2, <1>3

\* The positions and the length of a list.
LEMMA ListIs ==
  ASSUME NEW S, NEW list \in Seq(S)
  PROVE  /\ Len(list) \in Nat /\ DOMAIN list = 1..Len(list)
         /\ \A i \in DOMAIN list : list[i] \in S
  BY LenProperties, ElementOfSeq

\* A list of some kind is a list.
LEMMA SomeListIs ==
  ASSUME NEW S, NEW list \in Seq(S)
  PROVE  IsList(list)
<1> DEFINE T == {list[i] : i \in DOMAIN list}
<1>1. /\ Len(list) \in Nat /\ DOMAIN list = 1..Len(list)
      /\ list = [i \in 1..Len(list) |-> list[i]]
  BY LenProperties, ElementOfSeq, SeqDef
<1>2. \A i \in 1..Len(list) : list[i] \in T BY <1>1
<1>3. list \in Seq(T)
  <2> HIDE DEF T
  <2> QED BY <1>1, <1>2, IsASeq
<1> QED BY <1>3 DEF IsList
-----------------------------------------------------------------------------
(* Attributes.                                                              *)

SpanFields ==
  {"name", "kind", "status", "attributes", "dropped_attributes_count", "events",
   "dropped_events_count", "links", "dropped_links_count"}

AreAttributes(a) ==
  IsList(a) /\ \A i \in DOMAIN a : a[i] = Attribute(a[i].key, a[i].value)
KeysOf(a)   == {a[i].key : i \in DOMAIN a}
Distinct(a) == \A i, j \in DOMAIN a : a[i].key = a[j].key => i = j

IsSpan(s) ==
  /\ s = [f \in SpanFields |-> s[f]]
  /\ AreAttributes(s.attributes) /\ Distinct(s.attributes)
  /\ Len(s.attributes) <= AttributeCap

\* Only the attributes and their drops differ.
OnlyAttributes(s, r) ==
  \A f \in SpanFields \ {"attributes", "dropped_attributes_count"} : r[f] = s[f]

\* An attribute is its key and its value.
LEMMA AttributeIs ==
  ASSUME NEW k, NEW v
  PROVE  Attribute(k, v).key = k /\ Attribute(k, v).value = v
BY DEF Attribute

\* The positions of attributes.
LEMMA EntriesAre ==
  ASSUME NEW a, AreAttributes(a)
  PROVE  /\ Len(a) \in Nat /\ DOMAIN a = 1..Len(a)
         /\ \A i \in DOMAIN a : a[i] = Attribute(a[i].key, a[i].value)
BY ListIs DEF AreAttributes, IsList

\* The first position of a key, or zero.
LEMMA PositionIs ==
  ASSUME NEW a, AreAttributes(a), NEW k
  PROVE  \/ Position(a, k) = 0 /\ k \notin KeysOf(a)
         \/ Position(a, k) \in DOMAIN a /\ a[Position(a, k)].key = k
<1> DEFINE I == {i \in 1..Len(a) : a[i].key = k}
<1>1. DOMAIN a = 1..Len(a) /\ Len(a) \in Nat BY EntriesAre
<1>2. Position(a, k) = IF I # {} THEN Min(I) ELSE 0
  BY DEF Position, SelectInSeq
<1>3. I \subseteq Nat OBVIOUS
<1>4. I # {} => Min(I) \in I
  <2> HIDE DEF I
  <2> QED BY <1>3, LeastIs
<1>5. I = {} => k \notin KeysOf(a) BY <1>1 DEF KeysOf
<1> QED BY <1>1, <1>2, <1>4, <1>5

\* The first attribute that may be evicted, or zero.
LEMMA EvictableIs ==
  ASSUME NEW a, AreAttributes(a)
  PROVE  \/ Evictable(a) = 0 /\ \A i \in DOMAIN a : IsProtected(a[i].key)
         \/ Evictable(a) \in DOMAIN a /\ ~IsProtected(a[Evictable(a)].key)
<1> DEFINE I == {i \in 1..Len(a) : ~IsProtected(a[i].key)}
<1>1. DOMAIN a = 1..Len(a) /\ Len(a) \in Nat BY EntriesAre
<1>2. Evictable(a) = IF I # {} THEN Min(I) ELSE 0
  BY DEF Evictable, SelectInSeq
<1>3. I \subseteq Nat OBVIOUS
<1>4. I # {} => Min(I) \in I
  <2> HIDE DEF I
  <2> QED BY <1>3, LeastIs
<1> QED BY <1>1, <1>2, <1>4

\* Elements and one more are a kind of their own.
LEMMA WiderList ==
  ASSUME NEW a, IsList(a), NEW e
  PROVE  a \in Seq({a[i] : i \in DOMAIN a} \cup {e})
BY SeqMonotonic DEF IsList

Replaced(b, a, i, k, v) == b = [a EXCEPT ![i] = Attribute(k, v)]

\* Replacing one attribute leaves the others.
LEMMA ReplacedEntry ==
  ASSUME NEW a, AreAttributes(a), NEW i \in DOMAIN a, NEW k, NEW v,
         NEW b, Replaced(b, a, i, k, v)
  PROVE  /\ AreAttributes(b) /\ Len(b) = Len(a) /\ DOMAIN b = DOMAIN a
         /\ b[i].key = k /\ b[i].value = v
         /\ \A j \in DOMAIN a : j # i => b[j] = a[j]
<1> DEFINE e == Attribute(k, v)
           S == {a[j] : j \in DOMAIN a} \cup {e}
<1>1. e.key = k /\ e.value = v BY AttributeIs
<1>2. a \in Seq(S) /\ DOMAIN a = 1..Len(a) BY WiderList, EntriesAre DEF AreAttributes
<1>3. DOMAIN b = DOMAIN a /\ b[i] = e /\ \A j \in DOMAIN a : j # i => b[j] = a[j]
  BY DEF Replaced
<1>4. b \in Seq(S) /\ Len(b) = Len(a)
  <2> HIDE DEF S
  <2>1. e \in S BY DEF S
  <2>2. b = [a EXCEPT ![i] = e] BY DEF Replaced
  <2> HIDE DEF e
  <2> QED BY <1>2, <2>1, <2>2, ExceptSeq
<1> HIDE DEF S
<1>5. IsList(b) BY <1>4, SomeListIs
<1>6. \A j \in DOMAIN b : b[j] = Attribute(b[j].key, b[j].value)
  <2> SUFFICES ASSUME NEW j \in DOMAIN b
               PROVE  b[j] = Attribute(b[j].key, b[j].value)
    OBVIOUS
  <2>1. CASE j = i
    <3> HIDE DEF e
    <3> QED BY <2>1, <1>1, <1>3 DEF e
  <2>2. CASE j # i
    <3>1. b[j] = a[j] /\ a[j] = Attribute(a[j].key, a[j].value)
      BY <2>2, <1>3, EntriesAre
    <3> QED BY <3>1
  <2> QED BY <2>1, <2>2
<1> HIDE DEF e
<1> QED BY <1>1, <1>3, <1>4, <1>5, <1>6 DEF AreAttributes, e

\* Appending one leaves them too.
LEMMA AppendedEntry ==
  ASSUME NEW a, AreAttributes(a), NEW k, NEW v
  PROVE  LET b == Append(a, Attribute(k, v))
             n == Len(a) + 1
         IN
         /\ AreAttributes(b) /\ Len(b) = n /\ DOMAIN b = 1..n
         /\ b[n].key = k /\ b[n].value = v
         /\ \A j \in DOMAIN a : b[j] = a[j]
<1> DEFINE e == Attribute(k, v)
           S == {a[j] : j \in DOMAIN a} \cup {e}
           b == Append(a, e)
           n == Len(a) + 1
<1>1. e.key = k /\ e.value = v BY AttributeIs
<1>2. a \in Seq(S) /\ DOMAIN a = 1..Len(a) /\ Len(a) \in Nat
  BY WiderList, EntriesAre DEF AreAttributes
<1>3. e \in S OBVIOUS
<1> HIDE DEF S, e
<1>4. /\ b \in Seq(S) /\ Len(b) = n
      /\ \A j \in 1..Len(a) : b[j] = a[j]
      /\ b[n] = e
  BY <1>2, <1>3, AppendProperties
<1>5. DOMAIN b = 1..n BY <1>4, LenProperties
<1> HIDE DEF b
<1>6. IsList(b) BY <1>4, SomeListIs
<1>7. \A j \in DOMAIN b : b[j] = Attribute(b[j].key, b[j].value)
  <2> SUFFICES ASSUME NEW j \in DOMAIN b
               PROVE  b[j] = Attribute(b[j].key, b[j].value)
    OBVIOUS
  <2>1. CASE j = n BY <2>1, <1>1, <1>4 DEF e
  <2>2. CASE j # n
    <3>1. j \in DOMAIN a BY <2>2, <1>2, <1>5
    <3>2. b[j] = a[j] /\ a[j] = Attribute(a[j].key, a[j].value)
      BY <3>1, <1>2, <1>4, EntriesAre
    <3> QED BY <3>2
  <2> QED BY <2>1, <2>2
<1> QED BY <1>1, <1>2, <1>4, <1>5, <1>6, <1>7 DEF AreAttributes, b, e

-----------------------------------------------------------------------------
(* OtelSpan::record.                                                        *)

\* What recording k makes of the set K of keys of n attributes: its value is
\* replaced, or it is added, or put in the place of a key that is not protected,
\* or dropped.
KeysRecordedAs(K, n, L, m, k) ==
  \/ k \in K /\ L = K /\ m = n
  \/ k \notin K /\ n < AttributeCap /\ L = K \cup {k} /\ m = n + 1
  \/ /\ k \notin K /\ n = AttributeCap /\ m = n /\ IsProtected(k)
     /\ \E x \in K : ~IsProtected(x) /\ L = (K \ {x}) \cup {k}
  \/ /\ k \notin K /\ n = AttributeCap /\ m = n /\ L = K
     /\ IsProtected(k) => \A x \in K : IsProtected(x)

\* Every attribute of b is the recorded one, or one of a under another key.
OldButFor(a, b, k, v) ==
  \A i \in DOMAIN b : \/ b[i].key = k /\ b[i].value = v
                      \/ b[i].key # k /\ \E j \in DOMAIN a : a[j] = b[i]

RecordedAs(a, b, k, v) ==
  /\ AreAttributes(b) /\ Distinct(b) /\ Len(b) <= AttributeCap
  /\ OldButFor(a, b, k, v)
  /\ KeysRecordedAs(KeysOf(a), Len(a), KeysOf(b), Len(b), k)

\* No attribute but the one at i has the key.
Swapped(K, x, k)  == (K \ {x}) \cup {k}
NoOther(a, i, k) == \A j \in DOMAIN a : j # i => a[j].key # k

\* Replacing the one attribute that has the key, or that is evicted for it.
LEMMA ReplacedKeys ==
  ASSUME NEW a, AreAttributes(a), Distinct(a), NEW i \in DOMAIN a, NEW k, NEW v,
         NoOther(a, i, k), NEW b, Replaced(b, a, i, k, v)
  PROVE  /\ AreAttributes(b) /\ Distinct(b) /\ Len(b) = Len(a)
         /\ OldButFor(a, b, k, v)
         /\ KeysOf(b) = Swapped(KeysOf(a), a[i].key, k)
<1>1. /\ AreAttributes(b) /\ Len(b) = Len(a) /\ DOMAIN b = DOMAIN a
      /\ b[i].key = k /\ b[i].value = v
      /\ \A j \in DOMAIN a : j # i => b[j] = a[j]
  BY ReplacedEntry
<1>2. Distinct(b) BY <1>1 DEF Distinct, NoOther
<1>3. OldButFor(a, b, k, v) BY <1>1 DEF OldButFor, NoOther
<1>4. \A j \in DOMAIN a : j # i => a[j].key # a[i].key BY DEF Distinct
<1>5. KeysOf(b) = (KeysOf(a) \ {a[i].key}) \cup {k}
  <2>1. ASSUME NEW x \in KeysOf(b) PROVE x \in (KeysOf(a) \ {a[i].key}) \cup {k}
    BY <1>1, <1>4 DEF KeysOf
  <2>2. ASSUME NEW x \in KeysOf(a), x # a[i].key PROVE x \in KeysOf(b)
    BY <1>1, <2>2 DEF KeysOf
  <2>3. k \in KeysOf(b) BY <1>1 DEF KeysOf
  <2> QED BY <2>1, <2>2, <2>3
<1> QED BY <1>1, <1>2, <1>3, <1>5 DEF Swapped

\* Appending an attribute under a new key.
LEMMA AppendedKeys ==
  ASSUME NEW a, AreAttributes(a), Distinct(a), NEW k, k \notin KeysOf(a), NEW v
  PROVE  LET b == Append(a, Attribute(k, v)) IN
         /\ AreAttributes(b) /\ Distinct(b) /\ Len(b) = Len(a) + 1
         /\ OldButFor(a, b, k, v)
         /\ KeysOf(b) = KeysOf(a) \cup {k}
<1> DEFINE b == Append(a, Attribute(k, v))
           n == Len(a) + 1
<1>0. Len(a) \in Nat /\ DOMAIN a = 1..Len(a) BY EntriesAre
<1>1. /\ AreAttributes(b) /\ Len(b) = n /\ DOMAIN b = 1..n
      /\ b[n].key = k /\ b[n].value = v
      /\ \A j \in DOMAIN a : b[j] = a[j]
  BY AppendedEntry
<1> HIDE DEF b
<1>2. \A j \in DOMAIN b : j \in DOMAIN a \/ j = n BY <1>0, <1>1
<1>3. \A j \in DOMAIN a : j \in DOMAIN b /\ j # n BY <1>0, <1>1
<1>4. n \in DOMAIN b BY <1>0, <1>1
<1>5. \A j \in DOMAIN a : a[j].key # k BY DEF KeysOf
<1> HIDE DEF n
<1>6. Distinct(b) BY <1>1, <1>2, <1>5 DEF Distinct
<1>7. OldButFor(a, b, k, v) BY <1>1, <1>2, <1>5 DEF OldButFor
<1>8. KeysOf(b) = KeysOf(a) \cup {k}
  <2>1. ASSUME NEW x \in KeysOf(b) PROVE x \in KeysOf(a) \cup {k}
    BY <1>1, <1>2 DEF KeysOf
  <2>2. ASSUME NEW x \in KeysOf(a) PROVE x \in KeysOf(b)
    BY <1>1, <1>3 DEF KeysOf
  <2>3. k \in KeysOf(b) BY <1>1, <1>4 DEF KeysOf
  <2> QED BY <2>1, <2>2, <2>3
<1> QED BY <1>1, <1>6, <1>7, <1>8 DEF b, n

\* A span with other attributes.
LEMMA AttributesSet ==
  ASSUME NEW s, IsSpan(s), NEW b
  PROVE  LET r == [s EXCEPT !.attributes = b] IN
         /\ r = [f \in SpanFields |-> r[f]]
         /\ OnlyAttributes(s, r) /\ r.attributes = b
<1>1. s = [f \in SpanFields |-> s[f]] BY DEF IsSpan
<1> QED BY <1>1 DEF OnlyAttributes, SpanFields

\* Record does one of the four things, and nothing else.
LEMMA RecordIs ==
  ASSUME NEW s, IsSpan(s), NEW k, NEW v
  PROVE  LET r == Record(s, k, v) IN
         /\ IsSpan(r) /\ OnlyAttributes(s, r)
         /\ RecordedAs(s.attributes, r.attributes, k, v)
<1> DEFINE a == s.attributes
           at == Position(a, k)
           victim == Evictable(a)
           e == Attribute(k, v)
           With(x) == [s EXCEPT !.attributes = x]
<1>1. /\ s = [f \in SpanFields |-> s[f]] /\ AreAttributes(a) /\ Distinct(a)
      /\ Len(a) <= AttributeCap
      /\ AttributeCap \in Nat /\ Len(a) \in Nat /\ DOMAIN a = 1..Len(a)
  BY EntriesAre, CapacityAssumption DEF IsSpan
<1>2. \/ at = 0 /\ k \notin KeysOf(a)
      \/ at \in DOMAIN a /\ a[at].key = k
  BY <1>1, PositionIs
<1>3. \/ victim = 0 /\ \A i \in DOMAIN a : IsProtected(a[i].key)
      \/ victim \in DOMAIN a /\ ~IsProtected(a[victim].key)
  BY <1>1, EvictableIs
<1>4. ASSUME NEW b, RecordedAs(a, b, k, v), Record(s, k, v) = With(b)
      PROVE  /\ IsSpan(Record(s, k, v)) /\ OnlyAttributes(s, Record(s, k, v))
             /\ RecordedAs(a, Record(s, k, v).attributes, k, v)
  <2> HIDE DEF a
  <2>1. /\ With(b) = [f \in SpanFields |-> With(b)[f]]
        /\ OnlyAttributes(s, With(b)) /\ With(b).attributes = b
    BY AttributesSet
  <2> HIDE DEF With
  <2> QED BY <1>4, <2>1 DEF IsSpan, RecordedAs
<1>5. CASE at # 0
  <2> DEFINE b == [a EXCEPT ![at] = e]
  <2>1. at \in DOMAIN a /\ a[at].key = k /\ a[at] = [key |-> k, value |-> a[at].value]
    <3>1. at \in DOMAIN a /\ a[at].key = k BY <1>2, <1>5
    <3>2. a[at] = Attribute(a[at].key, a[at].value) BY <1>1, <3>1, EntriesAre
    <3> HIDE DEF at, a
    <3> QED BY <3>1, <3>2 DEF Attribute
  <2>2. Record(s, k, v) = [s EXCEPT !.attributes[at].value = v]
    BY <1>5 DEF Record
  <2>3. [a[at] EXCEPT !.value = v] = e
    BY <2>1 DEF Attribute
  <2>4. Record(s, k, v) = With(b)
    BY <2>2, <2>3, <1>1 DEF SpanFields
  <2>5. \A j \in DOMAIN a : j # at => a[j].key # k
    BY <2>1, <1>1 DEF Distinct
  <2> HIDE DEF a, at
  <2>6. /\ AreAttributes(b) /\ Distinct(b) /\ Len(b) = Len(a)
        /\ OldButFor(a, b, k, v) /\ KeysOf(b) = Swapped(KeysOf(a), a[at].key, k)
    <3>1. AreAttributes(a) /\ Distinct(a) /\ at \in DOMAIN a BY <1>1, <2>1
    <3>2. NoOther(a, at, k) BY <2>5 DEF NoOther
    <3>3. Replaced(b, a, at, k, v) BY DEF Replaced
    <3> HIDE DEF b, e
    <3> QED BY <3>1, <3>2, <3>3, ReplacedKeys
  <2>7. k \in KeysOf(a) BY <2>1 DEF KeysOf
  <2>8. KeysOf(b) = KeysOf(a) BY <2>1, <2>6, <2>7 DEF Swapped
  <2> HIDE DEF b
  <2>9. RecordedAs(a, b, k, v)
    BY <1>1, <2>6, <2>7, <2>8 DEF RecordedAs, KeysRecordedAs
  <2> HIDE DEF With
  <2> QED BY <1>4, <2>4, <2>9 DEF a
<1>6. CASE at = 0 /\ Len(a) < AttributeCap
  <2> DEFINE b == Append(a, e)
  <2>1. Record(s, k, v) = [s EXCEPT !.attributes = Append(@, e)]
    <3>1. ~(Len(a) >= AttributeCap) BY <1>1, <1>6
    <3> QED BY <3>1, <1>6, Zenon DEF Record
  <2>2. Record(s, k, v) = With(b)
    BY <2>1, <1>1 DEF SpanFields
  <2>3. k \notin KeysOf(a) BY <1>1, <1>2, <1>6
  <2> HIDE DEF a, at
  <2>4. /\ AreAttributes(b) /\ Distinct(b) /\ Len(b) = Len(a) + 1
        /\ OldButFor(a, b, k, v) /\ KeysOf(b) = KeysOf(a) \cup {k}
    BY <1>1, <2>3, AppendedKeys
  <2> HIDE DEF b
  <2>5. RecordedAs(a, b, k, v)
    <3>1. Len(b) <= AttributeCap BY <1>1, <1>6, <2>4
    <3>2. KeysRecordedAs(KeysOf(a), Len(a), KeysOf(b), Len(b), k)
      BY <1>6, <2>3, <2>4, Zenon DEF KeysRecordedAs
    <3> QED BY <2>4, <3>1, <3>2 DEF RecordedAs
  <2> HIDE DEF With
  <2> QED BY <1>4, <2>2, <2>5 DEF a
<1>7. CASE at = 0 /\ Len(a) >= AttributeCap /\ IsProtected(k) /\ victim # 0
  <2> DEFINE b == [a EXCEPT ![victim] = e]
  <2>1. victim \in DOMAIN a /\ ~IsProtected(a[victim].key)
    BY <1>1, <1>3, <1>7
  <2>2. Record(s, k, v) = [s EXCEPT !.attributes[victim] = e]
    BY <1>7, <1>1 DEF Record
  <2>3. Record(s, k, v) = With(b)
    BY <2>2, <1>1 DEF SpanFields
  <2>4. k \notin KeysOf(a) BY <1>1, <1>2, <1>7
  <2>5. \A j \in DOMAIN a : a[j].key # k BY <2>4 DEF KeysOf
  <2> HIDE DEF a, at, victim
  <2>6. /\ AreAttributes(b) /\ Distinct(b) /\ Len(b) = Len(a)
        /\ OldButFor(a, b, k, v) /\ KeysOf(b) = Swapped(KeysOf(a), a[victim].key, k)
    <3>1. AreAttributes(a) /\ Distinct(a) /\ victim \in DOMAIN a BY <1>1, <2>1
    <3>2. NoOther(a, victim, k) BY <2>5 DEF NoOther
    <3>3. Replaced(b, a, victim, k, v) BY DEF Replaced
    <3> HIDE DEF b, e
    <3> QED BY <3>1, <3>2, <3>3, ReplacedKeys
  <2>7. a[victim].key \in KeysOf(a) BY <2>1 DEF KeysOf
  <2>8. Len(a) = AttributeCap BY <1>1, <1>7
  <2> HIDE DEF b
  <2>9. KeysRecordedAs(KeysOf(a), Len(a), KeysOf(b), Len(b), k)
    BY <1>7, <2>1, <2>4, <2>6, <2>7, <2>8 DEF KeysRecordedAs, Swapped
  <2>10. RecordedAs(a, b, k, v) BY <1>1, <2>6, <2>9 DEF RecordedAs
  <2> HIDE DEF With
  <2> QED BY <1>4, <2>3, <2>10 DEF a
<1>8. CASE at = 0 /\ Len(a) >= AttributeCap /\ (IsProtected(k) => victim = 0)
  <2> DEFINE r == [s EXCEPT !.dropped_attributes_count = @ + 1]
  <2>1. Record(s, k, v) = r
    BY <1>8, <1>1 DEF Record
  <2>2. r = [f \in SpanFields |-> r[f]] /\ r.attributes = a /\ OnlyAttributes(s, r)
    BY <1>1 DEF SpanFields, OnlyAttributes
  <2> HIDE DEF r
  <2>3. IsSpan(r) BY <1>1, <2>2 DEF IsSpan
  <2>4. Len(a) = AttributeCap /\ k \notin KeysOf(a) BY <1>1, <1>2, <1>8
  <2>5. IsProtected(k) => \A i \in DOMAIN a : IsProtected(a[i].key)
    BY <1>1, <1>3, <1>8, SMTT(30)
  <2> HIDE DEF a
  <2>6. IsProtected(k) => \A x \in KeysOf(a) : IsProtected(x)
    BY <2>5 DEF KeysOf
  <2>7. OldButFor(a, a, k, v) BY <2>4 DEF OldButFor, KeysOf
  <2>8. RecordedAs(a, a, k, v)
    BY <1>1, <2>4, <2>6, <2>7 DEF RecordedAs, KeysRecordedAs
  <2> QED BY <2>1, <2>2, <2>3, <2>8 DEF a
<1> QED
  <2> HIDE DEF a, at, victim
  <2>1. \/ at # 0
        \/ at = 0 /\ Len(a) < AttributeCap
        \/ at = 0 /\ Len(a) >= AttributeCap /\ IsProtected(k) /\ victim # 0
        \/ at = 0 /\ Len(a) >= AttributeCap /\ (IsProtected(k) => victim = 0)
    BY <1>1
  <2> QED BY <2>1, <1>5, <1>6, <1>7, <1>8 DEF a

-----------------------------------------------------------------------------
(* The status.                                                              *)

\* Removing an element of a list leaves the others, in order.
LEMMA RemovedElement ==
  ASSUME NEW S, NEW a \in Seq(S), NEW at \in DOMAIN a
  PROVE  LET b == RemoveAt(a, at) IN
         /\ b \in Seq(S) /\ Len(b) = Len(a) - 1
         /\ \A i \in DOMAIN b : b[i] = a[IF i < at THEN i ELSE i + 1]
<1> DEFINE front == SubSeq(a, 1, at - 1)
           back  == SubSeq(a, at + 1, Len(a))
           b     == front \o back
<1>1. Len(a) \in Nat /\ DOMAIN a = 1..Len(a) /\ at \in 1..Len(a) BY ListIs
<1>2. \A i \in 1..Len(a) : a[i] \in S BY <1>1, ListIs
<1>3. /\ front \in Seq(S) /\ Len(front) = at - 1
      /\ \A i \in 1..(at - 1) : front[i] = a[i]
  <2>1. \A i \in 1..(at - 1) : a[i] \in S BY <1>1, <1>2
  <2>2. /\ front \in Seq(S)
        /\ Len(front) = IF 1 <= at - 1 THEN at - 1 - 1 + 1 ELSE 0
        /\ \A i \in 1..(at - 1 - 1 + 1) : front[i] = a[1 + i - 1]
    BY <1>1, <2>1, SubSeqProperties
  <2> HIDE DEF front
  <2> QED BY <1>1, <2>2
<1>4. /\ back \in Seq(S) /\ Len(back) = Len(a) - at
      /\ \A i \in 1..(Len(a) - at) : back[i] = a[at + i]
  <2>1. \A i \in (at + 1)..Len(a) : a[i] \in S BY <1>1, <1>2
  <2>2. /\ back \in Seq(S)
        /\ Len(back) = IF at + 1 <= Len(a) THEN Len(a) - (at + 1) + 1 ELSE 0
        /\ \A i \in 1..(Len(a) - (at + 1) + 1) : back[i] = a[at + 1 + i - 1]
    BY <1>1, <2>1, SubSeqProperties
  <2> HIDE DEF back
  <2> QED BY <1>1, <2>2, SMTT(30)
<1> HIDE DEF front, back
<1>5. /\ b \in Seq(S) /\ Len(b) = Len(front) + Len(back)
      /\ \A i \in 1..Len(front) + Len(back) :
           b[i] = IF i <= Len(front) THEN front[i] ELSE back[i - Len(front)]
  BY <1>3, <1>4, ConcatProperties
<1> HIDE DEF b
<1>6. Len(b) = Len(a) - 1 /\ DOMAIN b = 1..(Len(a) - 1)
  BY <1>1, <1>3, <1>4, <1>5, LenProperties
<1>7. ASSUME NEW i \in DOMAIN b
      PROVE  b[i] = a[IF i < at THEN i ELSE i + 1]
  <2>1. i \in Int /\ 1 <= i /\ i <= Len(a) - 1 BY <1>1, <1>6
  <2>2. CASE i < at
    <3>1. i \in 1..(at - 1) /\ i <= Len(front) /\ i \in 1..Len(front) + Len(back)
      BY <1>1, <1>3, <1>4, <2>1, <2>2
    <3> QED BY <3>1, <1>3, <1>5, <2>2
  <2>3. CASE ~(i < at)
    <3>1. /\ i - Len(front) \in 1..(Len(a) - at) /\ ~(i <= Len(front))
          /\ i \in 1..Len(front) + Len(back) /\ at + (i - Len(front)) = i + 1
      BY <1>1, <1>3, <1>4, <2>1, <2>3
    <3>2. b[i] = back[i - Len(front)] BY <3>1, <1>5
    <3>3. back[i - Len(front)] = a[at + (i - Len(front))] BY <3>1, <1>4
    <3> QED BY <3>1, <3>2, <3>3, <2>3
  <2> QED BY <2>2, <2>3
<1>8. RemoveAt(a, at) = b BY DEF RemoveAt, b, front, back
<1> QED BY <1>5, <1>6, <1>7, <1>8

Without(K, k) == K \ {k}
AllFrom(b, a) == \A i \in DOMAIN b : \E j \in DOMAIN a : a[j] = b[i]

\* Removing the attribute at a position removes its key and no other.
LEMMA RemovedKey ==
  ASSUME NEW a, AreAttributes(a), Distinct(a), NEW at \in DOMAIN a
  PROVE  LET b == RemoveAt(a, at) IN
         /\ AreAttributes(b) /\ Distinct(b) /\ Len(b) <= Len(a)
         /\ AllFrom(b, a) /\ KeysOf(b) = Without(KeysOf(a), a[at].key)
<1> DEFINE b == RemoveAt(a, at)
           From(i) == IF i < at THEN i ELSE i + 1
           k == a[at].key
           S == {a[i] : i \in DOMAIN a}
<1>1. Len(a) \in Nat /\ DOMAIN a = 1..Len(a) /\ at \in 1..Len(a) BY EntriesAre
<1>2. /\ b \in Seq(S) /\ Len(b) = Len(a) - 1
      /\ \A i \in DOMAIN b : b[i] = a[From(i)]
  <2>1. a \in Seq(S) BY DEF AreAttributes, IsList
  <2> HIDE DEF S
  <2> QED BY <2>1, RemovedElement
<1>3. DOMAIN b = 1..(Len(a) - 1) BY <1>2, LenProperties
<1> HIDE DEF b, S
<1>4. \A i \in DOMAIN b : From(i) \in DOMAIN a /\ From(i) # at
  BY <1>1, <1>3
<1>5. \A i, j \in DOMAIN b : From(i) = From(j) => i = j
  BY <1>1, <1>3
<1>6. \A i \in DOMAIN a : i # at => \E j \in DOMAIN b : From(j) = i
  <2> SUFFICES ASSUME NEW i \in DOMAIN a, i # at
               PROVE  \E j \in DOMAIN b : From(j) = i
    OBVIOUS
  <2>1. CASE i < at
    <3>1. i \in DOMAIN b /\ From(i) = i BY <1>1, <1>3, <2>1
    <3> QED BY <3>1
  <2>2. CASE ~(i < at)
    <3>1. i - 1 \in DOMAIN b /\ From(i - 1) = i BY <1>1, <1>3, <2>2
    <3> QED BY <3>1
  <2> QED BY <2>1, <2>2
<1> HIDE DEF From
<1>7. \A i \in DOMAIN a : a[i].key = k => i = at BY DEF Distinct
<1>8. Distinct(b) BY <1>2, <1>4, <1>5 DEF Distinct
<1>9. KeysOf(b) = KeysOf(a) \ {k}
  <2>1. ASSUME NEW x \in KeysOf(b) PROVE x \in KeysOf(a) /\ x # k
    BY <1>2, <1>4, <1>7 DEF KeysOf
  <2>2. ASSUME NEW x \in KeysOf(a), x # k PROVE x \in KeysOf(b)
    <3>1. PICK i \in DOMAIN a : a[i].key = x BY DEF KeysOf
    <3>2. PICK j \in DOMAIN b : From(j) = i BY <3>1, <2>2, <1>6
    <3> QED BY <3>1, <3>2, <1>2 DEF KeysOf
  <2> QED BY <2>1, <2>2
<1>10. AllFrom(b, a) BY <1>2, <1>4 DEF AllFrom
<1>11. AreAttributes(b)
  <2>1. IsList(b) BY <1>2, SomeListIs
  <2>2. \A i \in DOMAIN b : b[i] = Attribute(b[i].key, b[i].value)
    BY <1>2, <1>4, EntriesAre
  <2> QED BY <2>1, <2>2 DEF AreAttributes
<1>12. Len(b) <= Len(a) BY <1>1, <1>2
<1> QED BY <1>8, <1>9, <1>10, <1>11, <1>12 DEF b, Without

StatusMessage == "otel.status_message"

\* The message an error event left behind for the status code.
Pending(a) == IF Position(a, StatusMessage) = 0 THEN ""
              ELSE a[Position(a, StatusMessage)].value.text

\* A span with another status.
LEMMA StatusSet ==
  ASSUME NEW s, IsSpan(s), NEW st
  PROVE  LET r == [s EXCEPT !.status = st] IN
         IsSpan(r) /\ r.attributes = s.attributes /\ r.status = st
<1> DEFINE r == [s EXCEPT !.status = st]
<1>1. s = [f \in SpanFields |-> s[f]] BY DEF IsSpan
<1>2. /\ r = [f \in SpanFields |-> r[f]] /\ r.status = st
      /\ r.attributes = s.attributes
  BY <1>1 DEF SpanFields
<1> HIDE DEF r
<1>3. IsSpan(r) BY <1>2 DEF IsSpan
<1> QED BY <1>2, <1>3 DEF r

\* The status code takes the pending message away, touches no other attribute
\* and makes the message that of the error.
LEMMA StatusCodeIs ==
  ASSUME NEW s, IsSpan(s), NEW text
  PROVE  LET r == WithStatusCode(s, text) IN
         /\ IsSpan(r) /\ Len(r.attributes) <= Len(s.attributes)
         /\ AllFrom(r.attributes, s.attributes)
         /\ KeysOf(r.attributes) = Without(KeysOf(s.attributes), StatusMessage)
         /\ text = "error" => r.status = Failed(Pending(s.attributes))
<1> DEFINE a       == s.attributes
           at      == Position(a, StatusMessage)
           pending == IF at = 0 THEN "" ELSE a[at].value.text
           b       == IF at = 0 THEN a ELSE RemoveAt(a, at)
           st      == CASE text \in {"ok", "OK"}       -> [Unset EXCEPT !.code = "ok"]
                        [] text \in {"error", "ERROR"} -> Failed(pending)
                        [] OTHER                       -> Unset
           moved   == [s EXCEPT !.attributes = b]
           r       == [moved EXCEPT !.status = st]
<1>1. /\ s = [f \in SpanFields |-> s[f]] /\ AreAttributes(a) /\ Distinct(a)
      /\ Len(a) <= AttributeCap /\ AttributeCap \in Nat /\ Len(a) \in Nat
  BY EntriesAre, CapacityAssumption DEF IsSpan
<1>2. \/ at = 0 /\ StatusMessage \notin KeysOf(a)
      \/ at \in DOMAIN a /\ a[at].key = StatusMessage
  BY <1>1, PositionIs
<1>3. WithStatusCode(s, text) = r
  <2>1. WithStatusCode(s, text) =
          [s EXCEPT !.attributes = IF at = 0 THEN @ ELSE RemoveAt(@, at), !.status = st]
    BY Zenon DEF WithStatusCode, StatusMessage
  <2> HIDE DEF at, st
  <2> QED BY <1>1, <2>1 DEF SpanFields
<1>4. /\ AreAttributes(b) /\ Distinct(b) /\ Len(b) <= Len(a)
      /\ AllFrom(b, a) /\ KeysOf(b) = Without(KeysOf(a), StatusMessage)
  <2>1. CASE at = 0
    <3>1. b = a BY <2>1
    <3>2. AllFrom(a, a) BY DEF AllFrom
    <3>3. StatusMessage \notin KeysOf(a) BY <1>1, <1>2, <2>1, EntriesAre
    <3>4. KeysOf(a) = Without(KeysOf(a), StatusMessage) BY <3>3 DEF Without
    <3> HIDE DEF a, b
    <3> QED BY <1>1, <3>1, <3>2, <3>4
  <2>2. CASE at # 0
    <3>1. b = RemoveAt(a, at) /\ at \in DOMAIN a /\ a[at].key = StatusMessage
      BY <1>2, <2>2
    <3> HIDE DEF a, at, b
    <3> QED BY <1>1, <3>1, RemovedKey
  <2> QED BY <2>1, <2>2
<1>5. text = "error" => st = Failed(pending)
  <2> HIDE DEF pending
  <2> QED BY Zenon
<1> HIDE DEF st, b
<1>6. IsSpan(moved) /\ moved.attributes = b
  <2>1. moved = [f \in SpanFields |-> moved[f]] /\ moved.attributes = b
    BY AttributesSet
  <2>2. Len(b) \in Nat BY <1>4, EntriesAre
  <2> HIDE DEF moved, a
  <2> QED BY <1>1, <1>4, <2>1, <2>2 DEF IsSpan
<1> HIDE DEF moved
<1>7. IsSpan(r) /\ r.attributes = moved.attributes /\ r.status = st
  BY <1>6, StatusSet
<1>8. Pending(a) = pending BY DEF Pending
<1> HIDE DEF r, pending, a
<1> QED BY <1>3, <1>4, <1>5, <1>6, <1>7, <1>8 DEF a

-----------------------------------------------------------------------------
(* HandleField and WithEvent.                                               *)

StatusCode == "otel.status_code"
HeaderSlot == "http.response.header"

\* The key and the value a field may be recorded with.
Writes(f) ==
  IF f.key \notin ControlFields \cup RemoteFields THEN {<<f.key, FieldValue(f)>>}
  ELSE IF f.key = HeaderSlot
       THEN {<<HeaderKey(h[1]), Text(h[2])>> : h \in HeaderOf(f.text)}
       ELSE {}

\* Nothing is written: there is nothing, or the text that holds a header comes
\* as something else.
NotWritten(f) == Writes(f) = {} \/ (f.key = HeaderSlot /\ f.by # "str")

\* A field is recorded, or takes the pending message away, or touches no
\* attribute.
FieldHandled(a, b, f) ==
  \/ \E w \in Writes(f) : RecordedAs(a, b, w[1], w[2])
  \/ f.key = StatusCode /\ AllFrom(b, a) /\ KeysOf(b) = Without(KeysOf(a), StatusMessage)
  \/ b = a /\ NotWritten(f)

\* A field keeps its text, and a string stays one.
LEMMA FieldValueIs ==
  ASSUME NEW f
  PROVE  FieldValue(f).text = f.text /\ (f.by = "str" => FieldValue(f) = Text(f.text))
<1>1. CASE f.by = "bool" BY <1>1 DEF FieldValue
<1>2. CASE f.by = "i64" \/ (f.by = "u64" /\ f.text \notin Wide)
  <2>1. f.by # "bool" /\ f.by # "str" BY <1>2
  <2>2. FieldValue(f) = [type |-> "Int", text |-> f.text]
    BY <1>2, <2>1, Zenon DEF FieldValue
  <2> QED BY <2>1, <2>2
<1>3. CASE f.by = "f64" BY <1>3 DEF FieldValue
<1>4. CASE f.by # "bool" /\ ~(f.by = "i64" \/ (f.by = "u64" /\ f.text \notin Wide))
           /\ f.by # "f64"
  <2>1. FieldValue(f) = Text(f.text) BY <1>4, Zenon DEF FieldValue
  <2> QED BY <2>1 DEF Text
<1> QED BY <1>1, <1>2, <1>3, <1>4

\* The visitor of a span does one of the three.
LEMMA HandleIs ==
  ASSUME NEW s, IsSpan(s), NEW f
  PROVE  LET r == HandleField(s, f) IN
         /\ IsSpan(r) /\ FieldHandled(s.attributes, r.attributes, f)
         /\ f.key \notin {StatusCode, StatusMessage} => r.status = s.status
<1> DEFINE r == HandleField(s, f)
           v == FieldValue(f)
<1>0. s = [x \in SpanFields |-> s[x]] BY DEF IsSpan
<1>1. ASSUME NEW k, NEW w, r = Record(s, k, w), <<k, w>> \in Writes(f)
      PROVE  /\ IsSpan(r) /\ FieldHandled(s.attributes, r.attributes, f)
             /\ r.status = s.status
  <2>1. /\ IsSpan(r) /\ OnlyAttributes(s, r)
        /\ RecordedAs(s.attributes, r.attributes, k, w)
    BY <1>1, RecordIs
  <2>2. <<k, w>>[1] = k /\ <<k, w>>[2] = w OBVIOUS
  <2>3. r.status = s.status BY <2>1 DEF OnlyAttributes, SpanFields
  <2> HIDE DEF r
  <2>4. FieldHandled(s.attributes, r.attributes, f)
    BY <1>1, <2>1, <2>2, Zenon DEF FieldHandled
  <2> QED BY <2>1, <2>3, <2>4
<1>2. ASSUME r.attributes = s.attributes, NotWritten(f)
      PROVE  FieldHandled(s.attributes, r.attributes, f)
  BY <1>2, Zenon DEF FieldHandled
<1>3. ASSUME f.key \in ControlFields \cup RemoteFields, f.key # HeaderSlot
      PROVE  NotWritten(f)
  BY <1>3, Zenon DEF NotWritten, Writes
<1>4. CASE f.key \notin ControlFields \cup RemoteFields
  <2>1. r = Record(s, f.key, v) BY <1>4, Zenon DEF HandleField
  <2>2. <<f.key, v>> \in Writes(f) BY <1>4 DEF Writes
  <2> QED BY <1>1, <2>1, <2>2
<1>5. CASE f.key \in ControlFields /\ v.type = "String"
  <2>1. r = HandleControl(s, f.key, f.text)
    <3>1. v.text = f.text BY FieldValueIs
    <3>2. r = HandleControl(s, f.key, v.text) BY <1>5, Zenon DEF HandleField
    <3> QED BY <3>1, <3>2
  <2>2. CASE f.key = "otel.name"
    <3>1. r = [s EXCEPT !.name = f.text] BY <2>1, <2>2 DEF HandleControl
    <3>2. /\ r = [x \in SpanFields |-> r[x]] /\ r.attributes = s.attributes
          /\ r.status = s.status
      BY <1>0, <3>1 DEF SpanFields
    <3> HIDE DEF r
    <3>3. IsSpan(r) BY <3>2 DEF IsSpan
    <3>4. NotWritten(f) BY <1>5, <1>3, <2>2 DEF HeaderSlot
    <3> QED BY <1>2, <3>2, <3>3, <3>4 DEF r
  <2>3. CASE f.key = "otel.kind"
    <3>1. r = [s EXCEPT !.kind = KindOf(f.text)] BY <2>1, <2>3 DEF HandleControl
    <3>2. /\ r = [x \in SpanFields |-> r[x]] /\ r.attributes = s.attributes
          /\ r.status = s.status
      BY <1>0, <3>1 DEF SpanFields
    <3> HIDE DEF r
    <3>3. IsSpan(r) BY <3>2 DEF IsSpan
    <3>4. NotWritten(f) BY <1>5, <1>3, <2>3 DEF HeaderSlot
    <3> QED BY <1>2, <3>2, <3>3, <3>4 DEF r
  <2>4. CASE f.key = StatusCode
    <3>1. r = WithStatusCode(s, f.text) BY <2>1, <2>4 DEF HandleControl, StatusCode
    <3>2. /\ IsSpan(r) /\ AllFrom(r.attributes, s.attributes)
          /\ KeysOf(r.attributes) = Without(KeysOf(s.attributes), StatusMessage)
      BY <3>1, StatusCodeIs
    <3> HIDE DEF r
    <3> QED BY <2>4, <3>2, Zenon DEF FieldHandled, r
  <2>5. CASE f.key = StatusMessage
    <3>1. r = IF s.status.code = "error" THEN [s EXCEPT !.status = Failed(f.text)] ELSE s
      BY <2>1, <2>5 DEF HandleControl, StatusMessage
    <3>2. IsSpan(r) /\ r.attributes = s.attributes BY <3>1, StatusSet
    <3>3. NotWritten(f) BY <1>5, <1>3, <2>5 DEF HeaderSlot, StatusMessage
    <3> HIDE DEF r
    <3> QED BY <1>2, <2>5, <3>2, <3>3 DEF r
  <2>6. CASE f.key = HeaderSlot
    <3>1. CASE HeaderOf(f.text) = {}
      <4>1. r = s BY <2>1, <2>6, <3>1 DEF HandleControl, HeaderSlot
      <4>2. Writes(f) = {}
        <5>1. f.key \in ControlFields \cup RemoteFields
          BY <2>6 DEF HeaderSlot, ControlFields
        <5>2. Writes(f) = {<<HeaderKey(h[1]), Text(h[2])>> : h \in HeaderOf(f.text)}
          BY <2>6, <5>1, Zenon DEF Writes
        <5> QED BY <3>1, <5>2
      <4>3. NotWritten(f) BY <4>2 DEF NotWritten
      <4> QED BY <1>2, <4>1, <4>3
    <3>2. CASE HeaderOf(f.text) # {}
      <4> DEFINE h == CHOOSE h \in HeaderOf(f.text) : TRUE
      <4>1. r = Record(s, HeaderKey(h[1]), Text(h[2]))
        BY <2>1, <2>6, <3>2 DEF HandleControl, HeaderSlot
      <4>2. h \in HeaderOf(f.text) BY <3>2
      <4>3. f.key \in ControlFields /\ f.key \notin RemoteFields
        BY <2>6 DEF HeaderSlot, ControlFields, RemoteFields
      <4> HIDE DEF h
      <4>4. <<HeaderKey(h[1]), Text(h[2])>> \in Writes(f)
        BY <2>6, <4>2, <4>3, Zenon DEF Writes
      <4> QED BY <1>1, <4>1, <4>4
    <3> QED BY <3>1, <3>2
  <2> QED BY <1>5, <2>2, <2>3, <2>4, <2>5, <2>6
          DEF ControlFields, StatusCode, StatusMessage, HeaderSlot
<1>6. CASE /\ ~(f.key \notin ControlFields \cup RemoteFields)
           /\ ~(f.key \in ControlFields /\ v.type = "String")
  <2>1. r = s BY <1>6, Zenon DEF HandleField
  <2>2. NotWritten(f)
    <3>1. CASE f.key # HeaderSlot BY <1>6, <1>3, <3>1
    <3>2. CASE f.key = HeaderSlot
      <4>1. f.key \in ControlFields BY <3>2 DEF HeaderSlot, ControlFields
      <4>2. v.type # "String" BY <1>6, <4>1
      <4>3. f.by = "str" => v = Text(f.text) BY FieldValueIs
      <4>4. f.by # "str" BY <4>2, <4>3 DEF Text
      <4> QED BY <3>2, <4>4 DEF NotWritten
    <3> QED BY <3>1, <3>2
  <2> QED BY <1>2, <2>1, <2>2
<1> QED BY <1>4, <1>5, <1>6

\* The attributes after an error event that is the first to fail the span.
EventMarked(a, b, x) ==
  \E coded : /\ RecordedAs(a, coded, StatusCode, Text("error"))
             /\ x = "" => b = coded
             /\ x # "" => RecordedAs(coded, b, StatusMessage, Text(x))

\* An event leaves attributes and status alone, unless it is an error and the
\* span has not failed.
LEMMA EventIs ==
  ASSUME NEW s, IsSpan(s), NEW e
  PROVE  LET r == WithEvent(s, e) IN
         /\ IsSpan(r)
         /\ IF ErrorSets(s, e)
            THEN /\ r.status = Failed(Explanation(e))
                 /\ EventMarked(s.attributes, r.attributes, Explanation(e))
            ELSE r.attributes = s.attributes /\ r.status = s.status
<1> DEFINE x == Explanation(e)
           marked == IF ErrorSets(s, e) THEN MarkFailed(s, e) ELSE s
           r == WithEvent(s, e)
<1>1. r = [marked EXCEPT !.events = PushWithin(@, Visited(e), EventCap),
                         !.dropped_events_count = Overflow(@, s.events, EventCap)]
  BY DEF WithEvent
<1>2. ASSUME IsSpan(marked)
      PROVE  IsSpan(r) /\ r.attributes = marked.attributes /\ r.status = marked.status
  <2> HIDE DEF marked
  <2> DEFINE l == PushWithin(marked.events, Visited(e), EventCap)
             n == Overflow(marked.dropped_events_count, s.events, EventCap)
  <2>1. marked = [f \in SpanFields |-> marked[f]] BY <1>2 DEF IsSpan
  <2>2. r = [marked EXCEPT !.events = l, !.dropped_events_count = n]
    BY <1>1, <2>1 DEF SpanFields
  <2> HIDE DEF l, n
  <2>3. /\ r = [f \in SpanFields |-> r[f]] /\ r.attributes = marked.attributes
        /\ r.status = marked.status
    BY <2>1, <2>2 DEF SpanFields
  <2> HIDE DEF r
  <2> QED BY <1>2, <2>3 DEF IsSpan
<1>3. CASE ErrorSets(s, e)
  <2> DEFINE coded == Record(s, "otel.status_code", Text("error"))
             told == IF x = "" THEN coded
                     ELSE Record(coded, "otel.status_message", Text(x))
  <2>1. marked = [told EXCEPT !.status = Failed(x)] BY <1>3 DEF MarkFailed
  <2>2. /\ IsSpan(coded)
        /\ RecordedAs(s.attributes, coded.attributes, StatusCode, Text("error"))
    BY RecordIs DEF StatusCode
  <2>3. /\ IsSpan(told)
        /\ x = "" => told.attributes = coded.attributes
        /\ x # "" => RecordedAs(coded.attributes, told.attributes, StatusMessage, Text(x))
    <3> HIDE DEF coded
    <3>1. CASE x = "" BY <2>2, <3>1
    <3>2. CASE x # ""
      <4>1. told = Record(coded, StatusMessage, Text(x)) BY <3>2 DEF StatusMessage
      <4> HIDE DEF told, x
      <4> QED BY <2>2, <3>2, <4>1, RecordIs
    <3> QED BY <3>1, <3>2
  <2> HIDE DEF coded, told
  <2>4. /\ IsSpan(marked) /\ marked.attributes = told.attributes
        /\ marked.status = Failed(x)
    <3> DEFINE st == Failed(x)
    <3>1. marked = [told EXCEPT !.status = st] BY <2>1
    <3>2. told = [f \in SpanFields |-> told[f]] BY <2>3 DEF IsSpan
    <3> HIDE DEF st
    <3>3. /\ marked = [f \in SpanFields |-> marked[f]] /\ marked.status = st
          /\ marked.attributes = told.attributes
      BY <3>1, <3>2 DEF SpanFields
    <3> HIDE DEF marked
    <3>4. IsSpan(marked) BY <2>3, <3>3 DEF IsSpan
    <3> QED BY <3>3, <3>4 DEF st
  <2>5. IsSpan(r) /\ r.attributes = told.attributes /\ r.status = Failed(x)
    BY <1>2, <2>4
  <2> HIDE DEF r, marked
  <2>6. EventMarked(s.attributes, r.attributes, x)
    <3>1. /\ x = "" => r.attributes = coded.attributes
          /\ x # "" => RecordedAs(coded.attributes, r.attributes, StatusMessage, Text(x))
      BY <2>3, <2>5
    <3> HIDE DEF x
    <3> QED BY <2>2, <3>1, Zenon DEF EventMarked
  <2> QED BY <1>3, <2>5, <2>6 DEF r
<1>4. CASE ~ErrorSets(s, e)
  <2>1. marked = s BY <1>4
  <2> QED BY <1>2, <1>4, <2>1
<1> QED BY <1>3, <1>4

-----------------------------------------------------------------------------
(* RecordFields.                                                            *)

\* The spans after each of the values.
IsLoop(f, s, declared, options) ==
  f = [n \in 0..Len(options) |->
         IF n = 0 THEN s ELSE RecordField(f[n - 1], declared, options[n])]

\* The recursion of RecordFields defines a function.
LEMMA LoopExists ==
  ASSUME NEW s, NEW declared, NEW options, Len(options) \in Nat
  PROVE  \E f : IsLoop(f, s, declared, options)
<1> DEFINE N == Len(options)
           Step(x, n) == RecordField(x, declared, options[n])
           Part(g, m) == g = [n \in 0..m |-> IF n = 0 THEN s ELSE Step(g[n - 1], n)]
           Good == {m \in 0..N : \E g : Part(g, m)}
<1>1. 0 \in Good
  <2> DEFINE g == [n \in 0..0 |-> s]
  <2>1. Part(g, 0) OBVIOUS
  <2>2. \E x : Part(x, 0)
    <3> HIDE DEF g
    <3> QED BY <2>1
  <2>3. 0 \in 0..N OBVIOUS
  <2> QED BY <2>2, <2>3
<1>2. ASSUME NEW m \in 0..N, m + 1 \in 0..N, m \in Good
      PROVE  m + 1 \in Good
  <2>1. PICK g : Part(g, m) BY <1>2
  <2> DEFINE h == [n \in 0..(m + 1) |->
                     IF n = m + 1 THEN Step(g[m], m + 1) ELSE g[n]]
  <2> HIDE DEF Step
  <2>2. ASSUME NEW n \in 0..(m + 1)
        PROVE  h[n] = IF n = 0 THEN s ELSE Step(h[n - 1], n)
    <3>1. CASE n = m + 1 BY <3>1
    <3>2. CASE n # m + 1
      <4>1. n \in 0..m BY <3>2
      <4>2. h[n] = g[n] BY <3>2
      <4>3. g[n] = IF n = 0 THEN s ELSE Step(g[n - 1], n)
        BY <2>1, <4>1
      <4>4. n # 0 => h[n - 1] = g[n - 1] BY <4>1
      <4> QED BY <4>2, <4>3, <4>4
    <3> QED BY <3>1, <3>2
  <2>3. Part(h, m + 1) BY <2>2
  <2> QED BY <1>2, <2>3
<1>3. 0..N \subseteq Good
  <2> HIDE DEF Good
  <2> QED BY <1>1, <1>2, UpTo
<1>4. PICK g : Part(g, N) BY <1>3
<1> QED BY <1>4 DEF IsLoop

\* f holds the spans after each of the values, and the last is the result.
Runs(f, s, declared, options) ==
  /\ f[0] = s
  /\ \A n \in 0..Len(options) : n + 1 \in 0..Len(options) =>
       f[n + 1] = RecordField(f[n], declared, options[n + 1])
  /\ RecordFields(s, declared, options) = f[Len(options)]

\* RecordFields returns what the last round of its loop leaves.
LEMMA LoopIs ==
  ASSUME NEW s, NEW declared, NEW options, Len(options) \in Nat
  PROVE  \E f : Runs(f, s, declared, options)
<1> DEFINE f == CHOOSE g : IsLoop(g, s, declared, options)
           N == Len(options)
<1>1. IsLoop(f, s, declared, options) BY LoopExists
<1>2. RecordFields(s, declared, options) = f[N]
  BY DEF RecordFields, IsLoop
<1> HIDE DEF f
<1>3. f[0] = s BY <1>1 DEF IsLoop
<1>4. ASSUME NEW n \in 0..N, n + 1 \in 0..N
      PROVE  f[n + 1] = RecordField(f[n], declared, options[n + 1])
  <2>1. n + 1 # 0 /\ (n + 1) - 1 = n OBVIOUS
  <2> DEFINE g(m) == IF m = 0 THEN s ELSE RecordField(f[m - 1], declared, options[m])
  <2>2. f[n + 1] = g(n + 1) BY <1>1, <1>4 DEF IsLoop
  <2> QED BY <2>1, <2>2
<1> QED BY <1>2, <1>3, <1>4 DEF Runs

\* Recording nothing leaves the span.
LEMMA NoField ==
  ASSUME NEW s, NEW declared
  PROVE  RecordFields(s, declared, <<>>) = s
<1>1. Len(<<>>) = 0 OBVIOUS
<1>2. PICK f : Runs(f, s, declared, <<>>) BY <1>1, LoopIs
<1> QED BY <1>1, <1>2 DEF Runs

\* Recording one value.
LEMMA OneField ==
  ASSUME NEW s, NEW declared, NEW x
  PROVE  RecordFields(s, declared, <<x>>) = RecordField(s, declared, x)
<1> DEFINE o == <<x>>
<1>1. Len(o) = 1 /\ o[1] = x OBVIOUS
<1> HIDE DEF o
<1>2. PICK f : Runs(f, s, declared, o)
  <2>1. Len(o) \in Nat BY <1>1
  <2> QED BY <2>1, LoopIs
<1>3. f[0 + 1] = RecordField(f[0], declared, o[0 + 1]) BY <1>1, <1>2 DEF Runs
<1> QED BY <1>1, <1>2, <1>3 DEF Runs, o

\* Recording two values.
LEMMA TwoFields ==
  ASSUME NEW s, NEW declared, NEW x, NEW y
  PROVE  RecordFields(s, declared, <<x, y>>)
       = RecordField(RecordField(s, declared, x), declared, y)
<1> DEFINE o == <<x, y>>
<1>1. Len(o) = 2 /\ o[1] = x /\ o[2] = y
  <2>1. Len(o) = 2 OBVIOUS
  <2>2. o[1] = x OBVIOUS
  <2>3. o[2] = y OBVIOUS
  <2> QED BY <2>1, <2>2, <2>3
<1> HIDE DEF o
<1>2. PICK f : Runs(f, s, declared, o)
  <2>1. Len(o) \in Nat BY <1>1
  <2> QED BY <2>1, LoopIs
<1>3. /\ f[0 + 1] = RecordField(f[0], declared, o[0 + 1])
      /\ f[1 + 1] = RecordField(f[1], declared, o[1 + 1])
  BY <1>1, <1>2 DEF Runs
<1> QED BY <1>1, <1>2, <1>3 DEF Runs, o

\* Recording three values.
LEMMA ThreeFields ==
  ASSUME NEW s, NEW declared, NEW x, NEW y, NEW z
  PROVE  RecordFields(s, declared, <<x, y, z>>)
       = RecordField(RecordField(RecordField(s, declared, x), declared, y), declared, z)
<1> DEFINE o == <<x, y, z>>
<1>1. Len(o) = 3 /\ o[1] = x /\ o[2] = y /\ o[3] = z
  <2>1. Len(o) = 3 OBVIOUS
  <2>2. o[1] = x OBVIOUS
  <2>3. o[2] = y OBVIOUS
  <2>4. o[3] = z OBVIOUS
  <2> QED BY <2>1, <2>2, <2>3, <2>4
<1> HIDE DEF o
<1>2. PICK f : Runs(f, s, declared, o)
  <2>1. Len(o) \in Nat BY <1>1
  <2> QED BY <2>1, LoopIs
<1>3. /\ f[0 + 1] = RecordField(f[0], declared, o[0 + 1])
      /\ f[1 + 1] = RecordField(f[1], declared, o[1 + 1])
      /\ f[2 + 1] = RecordField(f[2], declared, o[2 + 1])
  BY <1>1, <1>2 DEF Runs
<1> QED BY <1>1, <1>2, <1>3 DEF Runs, o

\* Recording one list after another is recording both.
LEMMA FieldsInTurn ==
  ASSUME NEW s, NEW declared, NEW S, NEW x \in Seq(S), NEW y \in Seq(S)
  PROVE  RecordFields(s, declared, x \o y)
           = RecordFields(RecordFields(s, declared, x), declared, y)
<1> DEFINE o == x \o y
           m == RecordFields(s, declared, x)
           X == Len(x)
           Y == Len(y)
<1>1. X \in Nat /\ Y \in Nat BY ListIs
<1>2. /\ Len(o) = X + Y
      /\ \A i \in 1..X + Y : o[i] = IF i <= X THEN x[i] ELSE y[i - X]
  BY ConcatProperties
<1> HIDE DEF o
<1> HIDE DEF m
<1>3. PICK f : Runs(f, s, declared, o)
  <2> HIDE DEF X, Y
  <2>1. Len(o) \in Nat BY <1>1, <1>2
  <2> QED BY <2>1, LoopIs
<1>4. PICK g : Runs(g, s, declared, x) BY <1>1, LoopIs
<1>5. PICK h : Runs(h, m, declared, y) BY <1>1, LoopIs
<1>6. /\ f[0] = s /\ g[0] = s /\ h[0] = m /\ m = g[X]
      /\ RecordFields(s, declared, o) = f[X + Y]
      /\ RecordFields(m, declared, y) = h[Y]
  BY <1>2, <1>3, <1>4, <1>5 DEF Runs, m
<1>7. f[X] = g[X]
  <2> DEFINE Good == {n \in 0..X : f[n] = g[n]}
  <2>1. 0 \in Good BY <1>1, <1>6
  <2>2. ASSUME NEW n \in 0..X, n + 1 \in 0..X, n \in Good PROVE n + 1 \in Good
    <3>1. f[n + 1] = RecordField(f[n], declared, o[n + 1])
      <4>1. n \in 0..Len(o) /\ n + 1 \in 0..Len(o) BY <1>1, <1>2, <2>2
      <4> QED BY <1>3, <4>1 DEF Runs
    <3>2. g[n + 1] = RecordField(g[n], declared, x[n + 1])
      BY <1>4, <2>2 DEF Runs
    <3>3. o[n + 1] = x[n + 1] BY <1>1, <1>2, <2>2
    <3> QED BY <2>2, <3>1, <3>2, <3>3
  <2>3. 0..X \subseteq Good
    <3> HIDE DEF Good
    <3> QED BY <1>1, <2>1, <2>2, UpTo
  <2> QED BY <1>1, <2>3
<1>8. f[X + Y] = h[Y]
  <2> DEFINE Good == {n \in 0..Y : f[X + n] = h[n]}
  <2>1. 0 \in Good
    <3>1. X + 0 = X BY <1>1
    <3> QED BY <1>1, <1>6, <1>7, <3>1
  <2>2. ASSUME NEW n \in 0..Y, n + 1 \in 0..Y, n \in Good PROVE n + 1 \in Good
    <3>1. f[(X + n) + 1] = RecordField(f[X + n], declared, o[(X + n) + 1])
      <4>1. X + n \in 0..Len(o) /\ (X + n) + 1 \in 0..Len(o) BY <1>1, <1>2, <2>2
      <4> QED BY <1>3, <4>1 DEF Runs
    <3>2. h[n + 1] = RecordField(h[n], declared, y[n + 1])
      BY <1>5, <2>2 DEF Runs
    <3>3. o[(X + n) + 1] = y[n + 1]
      <4>1. /\ (X + n) + 1 \in 1..X + Y /\ ~((X + n) + 1 <= X)
            /\ (X + n) + 1 - X = n + 1
        BY <1>1, <2>2
      <4> QED BY <1>2, <4>1
    <3>4. (X + n) + 1 = X + (n + 1) BY <1>1
    <3> QED BY <2>2, <3>1, <3>2, <3>3, <3>4
  <2>3. 0..Y \subseteq Good
    <3> HIDE DEF Good
    <3> QED BY <1>1, <2>1, <2>2, UpTo
  <2>4. Y \in 0..Y BY <1>1
  <2>5. Y \in Good
    <3> HIDE DEF Good, Y
    <3> QED BY <2>3, <2>4
  <2> QED BY <2>5
<1> QED BY <1>6, <1>8 DEF o, m

-----------------------------------------------------------------------------
(* What is among the attributes.                                            *)

Pairs(a) == {<<a[i].key, a[i].value>> : i \in DOMAIN a}

\* Recording adds no pair but the recorded one.
LEMMA RecordedPairs ==
  ASSUME NEW a, NEW b, NEW k, NEW v, RecordedAs(a, b, k, v)
  PROVE  \A p \in Pairs(b) : p \in Pairs(a) \/ p = <<k, v>>
<1> SUFFICES ASSUME NEW i \in DOMAIN b, <<b[i].key, b[i].value>> # <<k, v>>
             PROVE  <<b[i].key, b[i].value>> \in Pairs(a)
  BY DEF Pairs
<1>1. PICK j \in DOMAIN a : a[j] = b[i] BY DEF RecordedAs, OldButFor
<1> QED BY <1>1 DEF Pairs

\* Leaving some attributes out adds none.
LEMMA PairsFrom ==
  ASSUME NEW a, NEW b, AllFrom(b, a)
  PROVE  \A p \in Pairs(b) : p \in Pairs(a)
<1> SUFFICES ASSUME NEW i \in DOMAIN b PROVE <<b[i].key, b[i].value>> \in Pairs(a)
  BY DEF Pairs
<1>1. PICK j \in DOMAIN a : a[j] = b[i] BY DEF AllFrom
<1> QED BY <1>1 DEF Pairs

\* The visitor adds no pair but those the field may write.
LEMMA HandledPairs ==
  ASSUME NEW a, NEW b, NEW f, FieldHandled(a, b, f)
  PROVE  \A p \in Pairs(b) : p \in Pairs(a) \/ p \in Writes(f)
<1>1. CASE \E w \in Writes(f) : RecordedAs(a, b, w[1], w[2])
  <2>1. PICK w \in Writes(f) : RecordedAs(a, b, w[1], w[2]) BY <1>1
  <2>2. w = <<w[1], w[2]>>
    <3>1. CASE f.key \notin ControlFields \cup RemoteFields
      BY <3>1 DEF Writes
    <3>2. CASE f.key \in ControlFields \cup RemoteFields
      <4>1. f.key = HeaderSlot BY <3>2, <2>1 DEF Writes
      <4>2. PICK h \in HeaderOf(f.text) : w = <<HeaderKey(h[1]), Text(h[2])>>
        BY <3>2, <4>1 DEF Writes
      <4> QED BY <4>2
    <3> QED BY <3>1, <3>2
  <2>3. \A p \in Pairs(b) : p \in Pairs(a) \/ p = <<w[1], w[2]>>
    BY <2>1, RecordedPairs
  <2> QED BY <2>2, <2>3
<1>2. CASE AllFrom(b, a) BY <1>2, PairsFrom
<1>3. CASE b = a BY <1>3
<1> QED BY <1>1, <1>2, <1>3 DEF FieldHandled

\* A value that is recorded on a span: nothing happens, or the visitor is called.
LEMMA RecordFieldIs ==
  ASSUME NEW s, IsSpan(s), NEW declared, NEW o
  PROVE  LET r == RecordField(s, declared, o) IN
         /\ IsSpan(r)
         /\ \/ r = s /\ (o = Nothing \/ o[1].key \notin declared)
            \/ /\ o # Nothing /\ o[1].key \in declared
               /\ FieldHandled(s.attributes, r.attributes, o[1])
               /\ o[1].key \notin {StatusCode, StatusMessage} => r.status = s.status
<1>1. CASE o = Nothing BY <1>1 DEF RecordField
<1>2. CASE o # Nothing /\ o[1].key \notin declared BY <1>2 DEF RecordField
<1>3. CASE o # Nothing /\ o[1].key \in declared
  <2>1. RecordField(s, declared, o) = HandleField(s, o[1]) BY <1>3 DEF RecordField
  <2> QED BY <1>3, <2>1, HandleIs
<1> QED BY <1>1, <1>2, <1>3

\* One of the values may write the pair.
WrittenBy(p, declared, options) ==
  \E i \in DOMAIN options :
    /\ options[i] # Nothing /\ options[i][1].key \in declared
    /\ p \in Writes(options[i][1])

\* None of the values is about the status.
SilentOn(options) ==
  \A i \in DOMAIN options :
    options[i] # Nothing => options[i][1].key \notin {StatusCode, StatusMessage}

\* Recording several values leaves a span, whose new pairs one of them wrote.
LEMMA RecordFieldsIs ==
  ASSUME NEW s, IsSpan(s), NEW declared, NEW options, IsList(options)
  PROVE  LET r == RecordFields(s, declared, options) IN
         /\ IsSpan(r)
         /\ \A p \in Pairs(r.attributes) :
              p \in Pairs(s.attributes) \/ WrittenBy(p, declared, options)
         /\ SilentOn(options) => r.status = s.status
<1> DEFINE N == Len(options)
<1>1. N \in Nat /\ DOMAIN options = 1..N BY ListIs DEF IsList
<1>2. PICK f : Runs(f, s, declared, options) BY <1>1, LoopIs
<1> DEFINE Fine(t) == /\ IsSpan(t)
                      /\ \A p \in Pairs(t.attributes) :
                           p \in Pairs(s.attributes) \/ WrittenBy(p, declared, options)
                      /\ SilentOn(options) => t.status = s.status
           Good == {n \in 0..N : Fine(f[n])}
<1>3. 0 \in Good
  <2>1. f[0] = s BY <1>2 DEF Runs
  <2>2. 0 \in 0..N BY <1>1
  <2> QED BY <2>1, <2>2
<1>4. ASSUME NEW n \in 0..N, n + 1 \in 0..N, n \in Good PROVE n + 1 \in Good
  <2> DEFINE o == options[n + 1]
             t == f[n]
             r == f[n + 1]
  <2>1. r = RecordField(t, declared, o) BY <1>2, <1>4 DEF Runs
  <2>2. n + 1 \in DOMAIN options BY <1>1, <1>4
  <2>3. Fine(t) BY <1>4
  <2> HIDE DEF r, t
  <2>4. /\ IsSpan(r)
        /\ \/ r = t
           \/ /\ o # Nothing /\ o[1].key \in declared
              /\ FieldHandled(t.attributes, r.attributes, o[1])
              /\ o[1].key \notin {StatusCode, StatusMessage} => r.status = t.status
    <3> HIDE DEF o
    <3> QED BY <2>1, <2>3, RecordFieldIs
  <2>5. CASE r = t BY <2>3, <2>5, <1>4 DEF r
  <2>6. CASE /\ o # Nothing /\ o[1].key \in declared
             /\ FieldHandled(t.attributes, r.attributes, o[1])
             /\ o[1].key \notin {StatusCode, StatusMessage} => r.status = t.status
    <3>1. \A p \in Pairs(r.attributes) : p \in Pairs(t.attributes) \/ p \in Writes(o[1])
      <4> HIDE DEF o
      <4> QED BY <2>6, HandledPairs
    <3>2. \A p \in Writes(o[1]) : WrittenBy(p, declared, options)
      BY <2>2, <2>6 DEF WrittenBy
    <3>3. SilentOn(options) => r.status = s.status
      BY <2>2, <2>3, <2>6 DEF SilentOn
    <3>4. Fine(r) BY <2>3, <2>4, <3>1, <3>2, <3>3
    <3> QED BY <3>4, <1>4 DEF r
  <2> QED BY <2>4, <2>5, <2>6
<1>5. 0..N \subseteq Good
  <2> HIDE DEF Good
  <2> QED BY <1>1, <1>3, <1>4, UpTo
<1>6. Fine(f[N])
  <2>1. N \in 0..N BY <1>1
  <2>2. N \in Good BY <1>5, <2>1
  <2> QED BY <2>2
<1> QED BY <1>2, <1>6 DEF Runs

\* An error event adds no pair but the two of the status.
LEMMA MarkedPairs ==
  ASSUME NEW a, NEW b, NEW x, EventMarked(a, b, x)
  PROVE  \A p \in Pairs(b) :
           p \in Pairs(a) \/ p \in {<<StatusCode, Text("error")>>, <<StatusMessage, Text(x)>>}
<1>1. PICK coded : /\ RecordedAs(a, coded, StatusCode, Text("error"))
                   /\ x = "" => b = coded
                   /\ x # "" => RecordedAs(coded, b, StatusMessage, Text(x))
  BY DEF EventMarked
<1>2. \A p \in Pairs(coded) : p \in Pairs(a) \/ p = <<StatusCode, Text("error")>>
  BY <1>1, RecordedPairs
<1>3. CASE x = "" BY <1>1, <1>2, <1>3
<1>4. CASE x # ""
  <2>1. \A p \in Pairs(b) : p \in Pairs(coded) \/ p = <<StatusMessage, Text(x)>>
    BY <1>1, <1>4, RecordedPairs
  <2> QED BY <1>2, <2>1
<1> QED BY <1>3, <1>4

-----------------------------------------------------------------------------
(* Keys.                                                                    *)

\* Keys are the first parts of the pairs.
LEMMA KeyPaired ==
  ASSUME NEW a, NEW B, \A p \in Pairs(a) : p[1] \in B
  PROVE  KeysOf(a) \subseteq B
<1> SUFFICES ASSUME NEW i \in DOMAIN a PROVE a[i].key \in B
  BY DEF KeysOf
<1>1. <<a[i].key, a[i].value>> \in Pairs(a) BY DEF Pairs
<1>2. <<a[i].key, a[i].value>>[1] = a[i].key OBVIOUS
<1> QED BY <1>1, <1>2

\* The value found for a stored key is stored with it.
LEMMA ValuePaired ==
  ASSUME NEW a, AreAttributes(a), NEW k \in KeysOf(a)
  PROVE  <<k, a[Position(a, k)].value>> \in Pairs(a)
<1>1. Position(a, k) \in DOMAIN a /\ a[Position(a, k)].key = k BY PositionIs
<1> QED BY <1>1 DEF Pairs

\* There are as many keys as attributes.
LEMMA KeyCount ==
  ASSUME NEW a, AreAttributes(a), Distinct(a)
  PROVE  IsFiniteSet(KeysOf(a)) /\ Cardinality(KeysOf(a)) = Len(a)
<1> DEFINE n == Len(a)
           K == KeysOf(a)
           f == [i \in 1..n |-> a[i].key]
<1>1. n \in Nat /\ DOMAIN a = 1..n BY EntriesAre
<1>2. f \in Bijection(1..n, K)
  <2>1. f \in [1..n -> K] BY <1>1 DEF KeysOf
  <2>2. \A i, j \in 1..n : f[i] = f[j] => i = j BY <1>1 DEF Distinct
  <2>3. \A k \in K : \E i \in 1..n : f[i] = k BY <1>1 DEF KeysOf
  <2> HIDE DEF f, K
  <2> QED BY <2>1, <2>2, <2>3 DEF Bijection, Injection, Surjection, IsInjective
<1>3. ExistsBijection(1..n, K)
  <2> HIDE DEF f, K
  <2> QED BY <1>2 DEF ExistsBijection
<1> HIDE DEF n, K
<1>4. IsFiniteSet(K) /\ Cardinality(K) = n
  BY <1>1, <1>3, FS_NatBijection, FS_CountingElements
<1> QED BY <1>4 DEF n, K

\* Attributes with keys from a finite set are no more than it holds.
LEMMA NoMoreThan ==
  ASSUME NEW a, AreAttributes(a), Distinct(a),
         NEW B, IsFiniteSet(B), KeysOf(a) \subseteq B
  PROVE  Len(a) <= Cardinality(B)
<1>1. KeysOf(a) \in SUBSET B OBVIOUS
<1>2. Cardinality(KeysOf(a)) <= Cardinality(B) BY <1>1, FS_Subset
<1> QED BY <1>2, KeyCount

\* A set with one more element.
LEMMA OneMore ==
  ASSUME NEW S, NEW n \in Nat, IsFiniteSet(S), Cardinality(S) <= n, NEW x
  PROVE  IsFiniteSet(S \cup {x}) /\ Cardinality(S \cup {x}) <= n + 1
<1> DEFINE T == S \cup {x}
<1>1. IsFiniteSet(T) /\ Cardinality(T) = IF x \in S THEN Cardinality(S) ELSE Cardinality(S) + 1
  BY FS_AddElement
<1>2. Cardinality(S) \in Nat BY FS_CardinalityType
<1> HIDE DEF T
<1>3. Cardinality(T) <= n + 1 BY <1>1, <1>2
<1> QED BY <1>1, <1>3 DEF T

-----------------------------------------------------------------------------
(* Protected keys.                                                          *)

AllProtected(A) == \A x \in A : IsProtected(x)

\* Of the protected keys in A, those in W are stored; the others are, or there
\* is nothing else.
Room(a, W, A) ==
  /\ W \subseteq KeysOf(a) /\ W \subseteq A
  /\ \A x \in KeysOf(a) : IsProtected(x) => x \in A
  /\ A \subseteq KeysOf(a) \/ (Len(a) = AttributeCap /\ KeysOf(a) \subseteq A)

\* A key that is not protected takes no room from those that are.
LEMMA RoomLeft ==
  ASSUME NEW a, NEW b, NEW k, NEW v, RecordedAs(a, b, k, v), ~IsProtected(k),
         NEW W, NEW A, AllProtected(A), Room(a, W, A), Len(a) \in Nat
  PROVE  Room(b, W, A)
<1>1. KeysRecordedAs(KeysOf(a), Len(a), KeysOf(b), Len(b), k) BY DEF RecordedAs
<1>2. AttributeCap \in Nat BY CapacityAssumption
<1> QED BY <1>1, <1>2 DEF KeysRecordedAs, Room, AllProtected

\* A protected key joins them.
LEMMA RoomJoined ==
  ASSUME NEW a, NEW b, NEW k, NEW v, RecordedAs(a, b, k, v), IsProtected(k),
         NEW W, NEW A, AllProtected(A), Room(a, W, A), Len(a) \in Nat,
         NEW B, \A x : x \in B <=> x \in A \/ x = k
  PROVE  Room(b, W, B) /\ AllProtected(B)
<1>1. KeysRecordedAs(KeysOf(a), Len(a), KeysOf(b), Len(b), k) BY DEF RecordedAs
<1>2. AttributeCap \in Nat BY CapacityAssumption
<1> QED BY <1>1, <1>2 DEF KeysRecordedAs, Room, AllProtected

\* It is stored as long as the others leave it room.
LEMMA RoomWanted ==
  ASSUME NEW a, AreAttributes(a), Distinct(a),
         NEW b, NEW k, NEW v, RecordedAs(a, b, k, v), IsProtected(k),
         NEW W, NEW A, AllProtected(A), Room(a, W, A),
         IsFiniteSet(A), Cardinality(A) < AttributeCap,
         NEW B, \A x : x \in B <=> x \in A \/ x = k,
         NEW V, \A x : x \in V <=> x \in W \/ x = k
  PROVE  Room(b, V, B) /\ AllProtected(B)
<1>1. Room(b, W, B) /\ AllProtected(B)
  <2>1. Len(a) \in Nat BY EntriesAre
  <2> QED BY <2>1, RoomJoined
<1>2. k \in KeysOf(b)
  <2>1. KeysRecordedAs(KeysOf(a), Len(a), KeysOf(b), Len(b), k) BY DEF RecordedAs
  <2>2. ~(Len(a) = AttributeCap /\ \A x \in KeysOf(a) : IsProtected(x))
    <3> SUFFICES ASSUME Len(a) = AttributeCap, \A x \in KeysOf(a) : IsProtected(x)
                 PROVE  FALSE
      OBVIOUS
    <3>1. KeysOf(a) \subseteq A BY DEF Room
    <3>2. Len(a) <= Cardinality(A) BY <3>1, NoMoreThan
    <3>3. AttributeCap \in Nat /\ Cardinality(A) \in Nat
      BY CapacityAssumption, FS_CardinalityType
    <3> QED BY <3>2, <3>3
  <2> QED BY <2>1, <2>2 DEF KeysRecordedAs
<1> QED BY <1>1, <1>2 DEF Room

\* The message of the status is not protected: it goes and the others stay.
LEMMA RoomWithout ==
  ASSUME NEW a, AreAttributes(a), Distinct(a),
         NEW b, AreAttributes(b), Distinct(b),
         NEW k, ~IsProtected(k), KeysOf(b) = Without(KeysOf(a), k),
         NEW W, NEW A, AllProtected(A), Room(a, W, A)
  PROVE  Room(b, W, A)
<1>1. k \notin A BY DEF AllProtected
<1>2. CASE k \in KeysOf(a)
  BY <1>1, <1>2 DEF Room, Without
<1>3. CASE k \notin KeysOf(a)
  <2>1. KeysOf(b) = KeysOf(a) BY <1>3 DEF Without
  <2>2. Len(b) = Len(a) BY <2>1, KeyCount
  <2> QED BY <2>1, <2>2 DEF Room
<1> QED BY <1>2, <1>3

-----------------------------------------------------------------------------
(* The inductive invariant.                                                 *)

attributes == span.attributes

\* No remote field; the redacted query under its key; no secret elsewhere.
CleanPair(p, req) ==
  /\ p[1] \notin RemoteFields
  /\ IF p[1] = "url.query" THEN p[2] = Text(SanitizeQuery(req.query))
                           ELSE p[2].text \notin Secrets

\* The contents are about the request there is, and the answer it got.
Typed ==
  /\ stage \in {"idle", "open", "answered", "closed"}
  /\ Traced => request \in Requests
  /\ Answered => response \in Responses /\ stage \in {"answered", "closed"}
  /\ stage = "idle" => said = <<>>
  /\ IsList(said) /\ IsSpan(span)

\* The handler wrote a query of its own.
Rewrites(x) == "field" \in DOMAIN x /\ x.field.key = "url.query"
Rewritten(list) == \E i \in DOMAIN list : Rewrites(list[i])

CleanIn(p, req, list) == CleanPair(p, req) \/ (p[1] = "url.query" /\ Rewritten(list))

AllClean == Traced => \A p \in Pairs(attributes) : CleanIn(p, request, said)

\* What the context has to be for a request.
Arrived(req, c) ==
  LET header == req.traceparent
      good   == header # <<>> /\ header[1].ascii /\ Readable00(header[1].text)
      parts  == header[1].text
      state  == FirstOf(req.tracestate)
      again  == ParseTraceparent(DisplayTraceparent(ParseTraceparent(parts)))
  IN /\ c.trace_id # 0
     /\ good =>
          /\ c.trace_id = parts[2].value
          /\ c.parent_span_id = Just(parts[3].value)
          /\ c.is_sampled <=> parts[4].value % 2 = 1
          /\ again.trace_id = parts[2].value /\ again.parent_id = parts[3].value
          /\ again.flags = parts[4].value % 2
          /\ c.trace_state # Nothing <=>
               state # Nothing /\ state[1].value # ""
                               /\ state[1].length <= MaxTraceStateLen
          /\ c.trace_state # Nothing =>
               c.trace_state[1].value = state[1].value /\ ~c.trace_state[1].padded
     /\ ~good =>
          c.parent_span_id = Nothing /\ c.is_sampled /\ c.trace_state = Nothing

ContextRead == Traced => Arrived(request, context)

Route == "http.route"
Code  == "http.response.status_code"
RouteKeys(req) == IF req.route # Nothing THEN {Route} ELSE {}

HasFailed(res) == res.kind = "err" \/ (res.kind = "ok" /\ res.code >= 500)
Wanted(req, res) ==
  (IF res.kind = "ok" THEN {Code} ELSE {})
    \cup (IF HasFailed(res) THEN {"error.type"} ELSE {})
    \cup (IF req.route # Nothing THEN {Route} ELSE {})

KeyOfHeader(h) == HeaderKey(Concat(Normalized(h.name)))
HeadersOf(res) ==
  IF res.kind = "err" THEN {}
  ELSE {KeyOfHeader(res.headers[i]) : i \in {j \in DOMAIN res.headers : Captured(res.headers[j])}}

RoutePair(p, req) == p[1] = Route => p[2].text = req.route[1]
CodePair(p, res)  == p[1] = Code => p[2] = [type |-> "Int", text |-> CodeText(res.code)]

\* What of the contents the handler may not write.
OutcomeKeys == {Route, Code, "error.type", HeaderSlot}
Meddles(x) == "field" \in DOMAIN x /\ x.field.key \in OutcomeKeys
AnyMeddles(list) == \E i \in DOMAIN list : Meddles(list[i])

\* Room for the outcome before the answer, and the outcome with its values
\* after it.
OutcomeOpen(a, req) ==
  /\ Room(a, RouteKeys(req), RouteKeys(req))
  /\ \A p \in Pairs(a) : RoutePair(p, req)
OutcomeStored(a, req, res) ==
  /\ Room(a, Wanted(req, res), Wanted(req, res) \cup HeadersOf(res))
  /\ \A p \in Pairs(a) : RoutePair(p, req)
  /\ res.kind = "ok" => \A p \in Pairs(a) : CodePair(p, res)

OutcomeRoom ==
  /\ stage = "open" /\ ~AnyMeddles(said) => OutcomeOpen(attributes, request)
  /\ Answered /\ ~AnyMeddles(said) => OutcomeStored(attributes, request, response)

\* What the handler said: whether it recorded a field before the answer or a
\* status after it, its first error event before the answer, and the message
\* that one leaves.
Speaks(x)  == "field" \in DOMAIN x /\ x.stage = "open"
Retells(x) == "field" \in DOMAIN x /\ x.stage = "answered" /\ x.field.key = StatusCode
Spoke(list)  == \E i \in DOMAIN list : Speaks(list[i])
Retold(list) == \E i \in DOMAIN list : Retells(list[i])
Telling(x) == x.stage = "open" /\ "event" \in DOMAIN x /\ IsErrorEvent(x.event)
FirstTold(list) == SelectInSeq(list, Telling)
Expected(list) == IF FirstTold(list) = 0 THEN "" ELSE Explanation(list[FirstTold(list)].event)

BaseKeys == {"http.request.method", "url.path", "url.query", "url.scheme",
             "network.protocol.name", "user_agent.original", "server.address", Route}

\* The message x is the pending one.
Told(a, x) ==
  IF x = "" THEN StatusMessage \notin KeysOf(a)
  ELSE /\ StatusMessage \in KeysOf(a)
       /\ \A p \in Pairs(a) : p[1] = StatusMessage => p[2] = Text(x)

\* As long as only events came: no key but those of the middleware and of an
\* error event, the status and the pending message of the first one.
StatusOpen(s, list) ==
  /\ \A k \in KeysOf(s.attributes) :
       k \in BaseKeys \/ (FirstTold(list) # 0 /\ k \in {StatusCode, StatusMessage})
  /\ s.status.code = "error" <=> FirstTold(list) # 0
  /\ Told(s.attributes, Expected(list))

\* After an answer that failed, unless a status was recorded since.
StatusFailed(s, list) ==
  ~Retold(list) => /\ s.status.code = "error"
                   /\ ~Spoke(list) => s.status.message = Expected(list)

StatusKept ==
  /\ stage = "open" /\ ~Spoke(said) => StatusOpen(span, said)
  /\ Answered /\ HasFailed(response) => StatusFailed(span, said)

IInv == Typed /\ AllClean /\ ContextRead /\ OutcomeRoom /\ StatusKept

-----------------------------------------------------------------------------
(* The span of call.                                                        *)

\* What a string field may write.
LEMMA StrWrites ==
  ASSUME NEW k, NEW t
  PROVE  /\ Str(k, t).key = k /\ Str(k, t).by = "str" /\ Str(k, t).text = t
         /\ k \notin ControlFields \cup RemoteFields =>
              Writes(Str(k, t)) = {<<k, Text(t)>>}
         /\ k \in ControlFields \cup RemoteFields /\ k # HeaderSlot =>
              Writes(Str(k, t)) = {}
<1> DEFINE f == Str(k, t)
<1>1. f.key = k /\ f.by = "str" /\ f.text = t BY DEF Str
<1> HIDE DEF f
<1>2. FieldValue(f) = Text(t) BY <1>1, FieldValueIs
<1>3. k \notin ControlFields \cup RemoteFields => Writes(f) = {<<k, Text(t)>>}
  BY <1>1, <1>2, Zenon DEF Writes
<1>4. k \in ControlFields \cup RemoteFields /\ k # HeaderSlot => Writes(f) = {}
  BY <1>1, Zenon DEF Writes
<1> QED BY <1>1, <1>3, <1>4 DEF f

\* A span starts out with no attributes and no status.
LEMMA NewSpanIs ==
  ASSUME NEW name
  PROVE  /\ IsSpan(NewSpan(name)) /\ NewSpan(name).attributes = <<>>
         /\ NewSpan(name).status = Unset
<1> DEFINE s == NewSpan(name)
<1>1. s.attributes = <<>> /\ s.status = Unset BY DEF NewSpan
<1>2. s = [f \in SpanFields |-> s[f]] BY DEF NewSpan, SpanFields
<1> HIDE DEF s
<1>3. DOMAIN <<>> = {} /\ Len(<<>>) = 0 OBVIOUS
<1>4. IsList(<<>>) BY EmptySeq, SomeListIs
<1>5. AreAttributes(s.attributes) /\ Distinct(s.attributes)
  BY <1>1, <1>3, <1>4 DEF AreAttributes, Distinct
<1>6. Len(s.attributes) <= AttributeCap BY <1>1, <1>3, CapacityAssumption
<1>7. IsSpan(s) BY <1>2, <1>5, <1>6 DEF IsSpan
<1> QED BY <1>1, <1>7 DEF s

DeclaredPairs(req) ==
  {<<"http.request.method", Text(req.method)>>, <<"url.path", Text(req.path)>>,
   <<"url.query", Text(SanitizeQuery(req.query))>>,
   <<"url.scheme", Text(IF req.scheme = Nothing THEN "http" ELSE req.scheme[1])>>,
   <<"network.protocol.name", Text("http")>>}

\* The fields that are about the span and no attributes of it.
SpanKeys == {"otel.name", "otel.kind"}

\* The fields of build_root_span are a list; they write the five pairs.
LEMMA DeclaredIs ==
  ASSUME NEW req
  PROVE  /\ IsList(DeclaredWith(req)) /\ Len(DeclaredWith(req)) = 7
         /\ \A i \in DOMAIN DeclaredWith(req) :
              LET f == DeclaredWith(req)[i] IN
              /\ f.key \notin {StatusCode, StatusMessage} \cup RemoteFields
              /\ f.key # HeaderSlot /\ f.key \in OwnKeys \cup SpanKeys
              /\ \A p \in Writes(f) : p \in DeclaredPairs(req)
<1> DEFINE A == Str("http.request.method", req.method)
           B == Str("url.path", req.path)
           C == Str("url.query", SanitizeQuery(req.query))
           D == Str("url.scheme", IF req.scheme = Nothing THEN "http" ELSE req.scheme[1])
           E == Str("network.protocol.name", "http")
           F == Str("otel.name", SpanName(req))
           G == Str("otel.kind", "server")
           list == <<A, B, C, D, E, F, G>>
           Fine(f) == /\ f.key \notin {StatusCode, StatusMessage} \cup RemoteFields
                      /\ f.key # HeaderSlot /\ f.key \in OwnKeys \cup SpanKeys
                      /\ \A p \in Writes(f) : p \in DeclaredPairs(req)
<1>1. DeclaredWith(req) = list BY DEF DeclaredWith
<1> USE DEF ControlFields, RemoteFields, StatusCode, StatusMessage, HeaderSlot,
            OwnKeys, SpanKeys
<1>2. Fine(A) BY StrWrites DEF DeclaredPairs
<1>3. Fine(B) BY StrWrites DEF DeclaredPairs
<1>4. Fine(C) BY StrWrites DEF DeclaredPairs
<1>5. Fine(D)
  <2> DEFINE t == IF req.scheme = Nothing THEN "http" ELSE req.scheme[1]
  <2>1. <<"url.scheme", Text(t)>> \in DeclaredPairs(req) BY DEF DeclaredPairs
  <2> HIDE DEF t
  <2>2. Fine(Str("url.scheme", t)) BY <2>1, StrWrites
  <2> QED BY <2>2 DEF t
<1>6. Fine(E) BY StrWrites DEF DeclaredPairs
<1>7. Fine(F) BY StrWrites DEF DeclaredPairs
<1>8. Fine(G) BY StrWrites DEF DeclaredPairs
<1> HIDE DEF A, B, C, D, E, F, G, Fine
<1>9. list \in Seq({A, B, C, D, E, F, G}) OBVIOUS
<1>10. Len(list) = 7 /\ DOMAIN list = 1..7 OBVIOUS
<1>11. \A i \in DOMAIN list : Fine(list[i])
  BY <1>2, <1>3, <1>4, <1>5, <1>6, <1>7, <1>8, <1>9, ElementOfSeq, <1>10, LenProperties
<1> HIDE DEF list
<1>12. IsList(list) BY <1>9, SomeListIs
<1> QED BY <1>1, <1>10, <1>11, <1>12 DEF Fine

\* The remote fields are a list too, and write nothing.
LEMMA RemoteIs ==
  ASSUME NEW req
  PROVE  /\ IsList(RemoteOf(req))
         /\ \A i \in DOMAIN RemoteOf(req) : RemoteOf(req)[i].key \in RemoteFields
<1>1. CASE RemoteOf(req) = <<>>
  <2>1. IsList(<<>>) BY EmptySeq, SomeListIs
  <2>2. DOMAIN <<>> = {} OBVIOUS
  <2> QED BY <1>1, <2>1, <2>2
<1>2. CASE RemoteOf(req) # <<>>
  <2>1. PICK tp, state : RemoteOf(req) = RemoteFieldsOf(tp, state)
    BY <1>2, Zenon DEF RemoteOf
  <2> DEFINE a == RemoteFieldsOf(tp, state)[1]
             b == RemoteFieldsOf(tp, state)[2]
             c == RemoteFieldsOf(tp, state)[3]
             d == RemoteFieldsOf(tp, state)[4]
             list == <<a, b, c, d>>
  <2>2. RemoteFieldsOf(tp, state) = list BY DEF RemoteFieldsOf
  <2>3. /\ a.key = "remote.trace_id" /\ b.key = "remote.parent_span_id"
        /\ c.key = "remote.sampled" /\ d.key = "remote.trace_state"
    BY DEF RemoteFieldsOf
  <2> HIDE DEF a, b, c, d
  <2>4. list \in Seq({a, b, c, d}) OBVIOUS
  <2>5. Len(list) = 4 /\ DOMAIN list = 1..4 OBVIOUS
  <2>6. \A i \in DOMAIN list : list[i].key \in RemoteFields
    BY <2>3, <2>4, <2>5, ElementOfSeq DEF RemoteFields
  <2> HIDE DEF list
  <2>7. IsList(list) BY <2>4, SomeListIs
  <2> QED BY <2>1, <2>2, <2>6, <2>7
<1> QED BY <1>1, <1>2

\* Two lists, one after the other.
LEMMA JoinedLists ==
  ASSUME NEW x, NEW y, IsList(x), IsList(y)
  PROVE  /\ IsList(x \o y) /\ Len(x \o y) = Len(x) + Len(y)
         /\ DOMAIN (x \o y) = 1..(Len(x) + Len(y))
         /\ \E S : x \in Seq(S) /\ y \in Seq(S)
         /\ \A i \in 1..(Len(x) + Len(y)) :
              (x \o y)[i] = IF i <= Len(x) THEN x[i] ELSE y[i - Len(x)]
<1> DEFINE S == {x[i] : i \in DOMAIN x} \cup {y[i] : i \in DOMAIN y}
           o == x \o y
<1>1. x \in Seq(S) /\ y \in Seq(S) BY SeqMonotonic DEF IsList
<1> HIDE DEF S
<1>2. /\ o \in Seq(S) /\ Len(o) = Len(x) + Len(y)
      /\ \A i \in 1..Len(x) + Len(y) : o[i] = IF i <= Len(x) THEN x[i] ELSE y[i - Len(x)]
  BY <1>1, ConcatProperties
<1> HIDE DEF o
<1>3. IsList(o) /\ DOMAIN o = 1..(Len(x) + Len(y)) BY <1>2, SomeListIs, LenProperties
<1> QED BY <1>1, <1>2, <1>3 DEF o

\* An element of the two is one of either.
LEMMA JoinedElement ==
  ASSUME NEW x, NEW y, IsList(x), IsList(y), NEW i \in DOMAIN (x \o y)
  PROVE  \/ \E j \in DOMAIN x : (x \o y)[i] = x[j]
         \/ \E j \in DOMAIN y : (x \o y)[i] = y[j]
<1> DEFINE o == x \o y
<1>1. /\ DOMAIN o = 1..(Len(x) + Len(y))
      /\ \A j \in 1..(Len(x) + Len(y)) :
           o[j] = IF j <= Len(x) THEN x[j] ELSE y[j - Len(x)]
  BY JoinedLists
<1>2. /\ Len(x) \in Nat /\ DOMAIN x = 1..Len(x)
      /\ Len(y) \in Nat /\ DOMAIN y = 1..Len(y)
  BY ListIs DEF IsList
<1>3. i \in 1..(Len(x) + Len(y)) BY <1>1
<1> HIDE DEF o
<1>4. CASE i <= Len(x)
  <2>1. o[i] = x[i] /\ i \in DOMAIN x BY <1>1, <1>2, <1>3, <1>4
  <2> QED BY <2>1 DEF o
<1>5. CASE ~(i <= Len(x))
  <2>1. o[i] = y[i - Len(x)] BY <1>1, <1>3, <1>5
  <2>2. i - Len(x) \in DOMAIN y BY <1>2, <1>3, <1>5
  <2> QED BY <2>1, <2>2 DEF o
<1> QED BY <1>4, <1>5

\* What a root span declares.
LEMMA DeclaredKeys ==
  ASSUME NEW req, NEW k \in DeclaredFields(req)
  PROVE  k \in OwnKeys \cup SpanKeys \cup RemoteFields
<1> DEFINE x == DeclaredWith(req)
           y == RemoteOf(req)
           fields == x \o y
<1>1. CASE k \in LateFields BY <1>1 DEF OwnKeys
<1>2. CASE k \notin LateFields
  <2>1. PICK i \in DOMAIN fields : k = fields[i].key BY <1>2 DEF DeclaredFields
  <2>2. IsList(x) /\ IsList(y) BY DeclaredIs, RemoteIs
  <2>3. \A j \in DOMAIN x : x[j].key \in OwnKeys \cup SpanKeys BY DeclaredIs
  <2>4. \A j \in DOMAIN y : y[j].key \in RemoteFields BY RemoteIs
  <2>5. \/ \E j \in DOMAIN x : fields[i] = x[j]
        \/ \E j \in DOMAIN y : fields[i] = y[j]
    BY <2>2, JoinedElement
  <2> HIDE DEF x, y, fields
  <2> QED BY <2>1, <2>3, <2>4, <2>5
<1> QED BY <1>1, <1>2

\* The span the macro makes.
LEMMA BuiltIs ==
  ASSUME NEW req
  PROVE  LET s == Built(DeclaredWith(req) \o RemoteOf(req)) IN
         /\ IsSpan(s) /\ s.status = Unset
         /\ \A p \in Pairs(s.attributes) : p \in DeclaredPairs(req)
<1> DEFINE x       == DeclaredWith(req)
           y       == RemoteOf(req)
           fields  == x \o y
           options == [i \in DOMAIN fields |-> Just(fields[i])]
           keys    == {fields[i].key : i \in DOMAIN fields}
           new     == NewSpan("HTTP request")
           s       == RecordFields(new, keys, options)
           Fine(f) == /\ f.key \notin {StatusCode, StatusMessage}
                      /\ \A p \in Writes(f) : p \in DeclaredPairs(req)
<1>1. IsList(x) /\ IsList(y) BY DeclaredIs, RemoteIs
<1>2. IsList(fields) BY <1>1, JoinedLists
<1>3. ASSUME NEW i \in DOMAIN fields PROVE Fine(fields[i])
  <2>1. CASE \E j \in DOMAIN x : fields[i] = x[j]
    <3>1. PICK j \in DOMAIN x : fields[i] = x[j] BY <2>1
    <3>2. Fine(x[j]) BY DeclaredIs
    <3> HIDE DEF x, fields
    <3> QED BY <3>1, <3>2
  <2>2. CASE \E j \in DOMAIN y : fields[i] = y[j]
    <3>1. PICK j \in DOMAIN y : fields[i] = y[j] BY <2>2
    <3>2. y[j].key \in RemoteFields BY RemoteIs
    <3>3. y[j].key \notin {StatusCode, StatusMessage, HeaderSlot}
      BY <3>2 DEF RemoteFields, StatusCode, StatusMessage, HeaderSlot
    <3>4. Writes(y[j]) = {} BY <3>2, <3>3, Zenon DEF Writes
    <3>5. Fine(y[j]) BY <3>3, <3>4
    <3> HIDE DEF y, fields
    <3> QED BY <3>1, <3>5
  <2> QED BY <1>1, <2>1, <2>2, JoinedElement
<1> HIDE DEF fields, Fine
<1>4. IsList(options)
  <2>1. Len(fields) \in Nat /\ DOMAIN fields = 1..Len(fields) BY <1>2, ListIs DEF IsList
  <2> DEFINE S == {Just(fields[i]) : i \in DOMAIN fields}
  <2>2. options \in Seq(S)
    <3>1. options = [i \in 1..Len(fields) |-> Just(fields[i])] BY <2>1
    <3>2. \A i \in 1..Len(fields) : Just(fields[i]) \in S BY <2>1
    <3> HIDE DEF S
    <3> QED BY <2>1, <3>1, <3>2, IsASeq
  <2> HIDE DEF S, options
  <2> QED BY <2>2, SomeListIs
<1>5. \A i \in DOMAIN options : options[i][1] = fields[i] /\ Fine(fields[i])
  BY <1>3, OptionIs
<1> HIDE DEF options, keys
<1>6. SilentOn(options) BY <1>5 DEF SilentOn, Fine
<1>7. \A p : WrittenBy(p, keys, options) => p \in DeclaredPairs(req)
  BY <1>5 DEF WrittenBy, Fine
<1>8. IsSpan(new) /\ new.status = Unset /\ Pairs(new.attributes) = {}
  <2>1. DOMAIN <<>> = {} OBVIOUS
  <2> QED BY <2>1, NewSpanIs DEF Pairs
<1> HIDE DEF new
<1>9. /\ IsSpan(s) /\ s.status = new.status
      /\ \A p \in Pairs(s.attributes) :
           p \in Pairs(new.attributes) \/ WrittenBy(p, keys, options)
  BY <1>4, <1>6, <1>8, RecordFieldsIs
<1>10. Built(fields) = s BY DEF Built, new, keys, options
<1> HIDE DEF s
<1> QED BY <1>7, <1>8, <1>9, <1>10 DEF fields

\* What an option records, if it is there.
OptionPair(p, k, option) == option # Nothing /\ p = <<k, Text(option[1])>>

LatePair(p, req) ==
  \/ OptionPair(p, "user_agent.original", FirstOf(req.user_agent))
  \/ OptionPair(p, "server.address", FirstOf(req.host))
  \/ OptionPair(p, Route, req.route)

\* A late value writes its own pair.
LEMMA StrOfIs ==
  ASSUME NEW k, k \notin ControlFields \cup RemoteFields, NEW option
  PROVE  LET o == StrOf(k, option) IN
         /\ o = Nothing <=> option = Nothing
         /\ o # Nothing => /\ o[1].key = k /\ o[1].by = "str"
                           /\ Writes(o[1]) = {<<k, Text(option[1])>>}
<1>1. CASE option = Nothing BY <1>1 DEF StrOf
<1>2. CASE option # Nothing
  <2>1. StrOf(k, option) = Just(Str(k, option[1])) BY <1>2 DEF StrOf
  <2> DEFINE f == Str(k, option[1])
  <2>2. Just(f) # Nothing /\ Just(f)[1] = f
    <3> HIDE DEF f
    <3> QED BY OptionIs
  <2>3. /\ f.key = k /\ f.by = "str" /\ Writes(f) = {<<k, Text(option[1])>>}
    BY StrWrites
  <2> HIDE DEF f
  <2> QED BY <1>2, <2>1, <2>2, <2>3 DEF f
<1> QED BY <1>1, <1>2

\* A field with one thing to write is recorded.
LEMMA WrittenIs ==
  ASSUME NEW a, NEW b, NEW f, FieldHandled(a, b, f),
         f.key # StatusCode, f.key # HeaderSlot \/ f.by = "str",
         NEW k, NEW v, Writes(f) = {<<k, v>>}
  PROVE  RecordedAs(a, b, k, v)
<1>1. ~NotWritten(f) BY DEF NotWritten
<1>2. PICK w \in Writes(f) : RecordedAs(a, b, w[1], w[2])
  BY <1>1 DEF FieldHandled
<1>3. w = <<k, v>> BY <1>2
<1>4. w[1] = k /\ w[2] = v BY <1>3
<1> QED BY <1>2, <1>4

\* Below the capacity a key is stored and no other is lost.
LEMMA StoredBelow ==
  ASSUME NEW a, NEW b, NEW k, NEW v, RecordedAs(a, b, k, v), Len(a) < AttributeCap
  PROVE  k \in KeysOf(b) /\ \A x : x \in KeysOf(b) <=> x \in KeysOf(a) \/ x = k
<1>1. KeysRecordedAs(KeysOf(a), Len(a), KeysOf(b), Len(b), k) BY DEF RecordedAs
<1>2. Len(a) # AttributeCap BY CapacityAssumption
<1> QED BY <1>1, <1>2 DEF KeysRecordedAs

\* Eight keys of the middleware, and ten with the two of an error event, are
\* below the capacity.
LEMMA FewKeys ==
  /\ IsFiniteSet(BaseKeys) /\ Cardinality(BaseKeys) <= 8
  /\ IsFiniteSet(BaseKeys \cup {StatusCode, StatusMessage})
  /\ Cardinality(BaseKeys \cup {StatusCode, StatusMessage}) <= 10
<1> DEFINE A == {} \cup {"http.request.method"}
           B == A \cup {"url.path"}
           C == B \cup {"url.query"}
           D == C \cup {"url.scheme"}
           E == D \cup {"network.protocol.name"}
           F == E \cup {"user_agent.original"}
           G == F \cup {"server.address"}
           H == G \cup {Route}
           I == H \cup {StatusCode}
           J == I \cup {StatusMessage}
<1>1. IsFiniteSet({}) /\ Cardinality({}) <= 0 BY FS_EmptySet
<1>2. IsFiniteSet(A) /\ Cardinality(A) <= 0 + 1 BY <1>1, OneMore
<1> HIDE DEF A
<1>3. IsFiniteSet(B) /\ Cardinality(B) <= 1 + 1
  <2>1. Cardinality(A) <= 1 BY <1>2
  <2> QED BY <1>2, <2>1, OneMore
<1> HIDE DEF B
<1>4. IsFiniteSet(C) /\ Cardinality(C) <= 2 + 1
  <2>1. Cardinality(B) <= 2 BY <1>3
  <2> QED BY <1>3, <2>1, OneMore
<1> HIDE DEF C
<1>5. IsFiniteSet(D) /\ Cardinality(D) <= 3 + 1
  <2>1. Cardinality(C) <= 3 BY <1>4
  <2> QED BY <1>4, <2>1, OneMore
<1> HIDE DEF D
<1>6. IsFiniteSet(E) /\ Cardinality(E) <= 4 + 1
  <2>1. Cardinality(D) <= 4 BY <1>5
  <2> QED BY <1>5, <2>1, OneMore
<1> HIDE DEF E
<1>7. IsFiniteSet(F) /\ Cardinality(F) <= 5 + 1
  <2>1. Cardinality(E) <= 5 BY <1>6
  <2> QED BY <1>6, <2>1, OneMore
<1> HIDE DEF F
<1>8. IsFiniteSet(G) /\ Cardinality(G) <= 6 + 1
  <2>1. Cardinality(F) <= 6 BY <1>7
  <2> QED BY <1>7, <2>1, OneMore
<1> HIDE DEF G
<1>9. IsFiniteSet(H) /\ Cardinality(H) <= 7 + 1
  <2>1. Cardinality(G) <= 7 BY <1>8
  <2> QED BY <1>8, <2>1, OneMore
<1> HIDE DEF H
<1>10. IsFiniteSet(I) /\ Cardinality(I) <= 8 + 1
  <2>1. Cardinality(H) <= 8 BY <1>9
  <2> QED BY <1>9, <2>1, OneMore
<1> HIDE DEF I
<1>11. IsFiniteSet(J) /\ Cardinality(J) <= 9 + 1
  <2>1. Cardinality(I) <= 9 BY <1>10
  <2> QED BY <1>10, <2>1, OneMore
<1> HIDE DEF J
<1>12. H = BaseKeys BY DEF A, B, C, D, E, F, G, H, BaseKeys
<1>13. J = BaseKeys \cup {StatusCode, StatusMessage} BY <1>12 DEF I, J
<1>14. Cardinality(H) <= 8 /\ Cardinality(J) <= 10 BY <1>9, <1>11
<1> QED BY <1>9, <1>11, <1>12, <1>13, <1>14

\* So that a span with no other keys has room.
LEMMA RoomForOneMore ==
  ASSUME NEW a, AreAttributes(a), Distinct(a),
         KeysOf(a) \subseteq BaseKeys \cup {StatusCode, StatusMessage}
  PROVE  Len(a) < AttributeCap
<1> DEFINE B == BaseKeys \cup {StatusCode, StatusMessage}
<1>1. IsFiniteSet(B) /\ Cardinality(B) <= 10 BY FewKeys
<1> HIDE DEF B
<1>2. KeysOf(a) \subseteq B BY DEF B
<1>3. Len(a) <= Cardinality(B) BY <1>1, <1>2, NoMoreThan
<1>4. Len(a) \in Nat /\ Cardinality(B) \in Nat BY <1>1, EntriesAre, FS_CardinalityType
<1>5. AttributeCap >= 11 /\ AttributeCap \in Nat BY CapAssumption, CapacityAssumption
<1> QED BY <1>1, <1>3, <1>4, <1>5

\* The span call leaves: its pairs, and the route among them.
LEMMA CalledIs ==
  ASSUME NEW req
  PROVE  LET r == RecordFields(Built(DeclaredWith(req) \o RemoteOf(req)),
                               LateFields, LateOf(req))
         IN /\ IsSpan(r) /\ r.status = Unset
            /\ \A p \in Pairs(r.attributes) : p \in DeclaredPairs(req) \/ LatePair(p, req)
            /\ req.route # Nothing => Route \in KeysOf(r.attributes)
<1> DEFINE s == Built(DeclaredWith(req) \o RemoteOf(req))
           x == StrOf("user_agent.original", FirstOf(req.user_agent))
           y == StrOf("server.address", FirstOf(req.host))
           z == StrOf(Route, req.route)
           m == RecordFields(s, LateFields, <<x, y>>)
           r == RecordField(m, LateFields, z)
<1>1. /\ IsSpan(s) /\ s.status = Unset
      /\ \A p \in Pairs(s.attributes) : p \in DeclaredPairs(req)
  BY BuiltIs
<1>2. RecordFields(s, LateFields, LateOf(req)) = r
  <2>1. LateOf(req) = <<x, y, z>> BY DEF LateOf, Route
  <2> HIDE DEF s, x, y, z
  <2> HIDE DEF m
  <2>2. RecordFields(s, LateFields, <<x, y, z>>)
          = RecordField(RecordField(RecordField(s, LateFields, x), LateFields, y),
                        LateFields, z)
    BY ThreeFields
  <2>3. RecordFields(s, LateFields, <<x, y>>)
          = RecordField(RecordField(s, LateFields, x), LateFields, y)
    BY TwoFields
  <2> QED BY <2>1, <2>2, <2>3 DEF m
<1>3. /\ x # Nothing => x[1].key = "user_agent.original"
      /\ \A p : x # Nothing /\ p \in Writes(x[1]) =>
           LatePair(p, req) /\ p[1] = "user_agent.original"
  <2>1. "user_agent.original" \notin ControlFields \cup RemoteFields
    BY DEF ControlFields, RemoteFields
  <2> DEFINE option == FirstOf(req.user_agent)
  <2>2. /\ x = Nothing <=> option = Nothing
        /\ x # Nothing => /\ x[1].key = "user_agent.original"
                          /\ Writes(x[1]) = {<<"user_agent.original", Text(option[1])>>}
    BY <2>1, StrOfIs
  <2> HIDE DEF x
  <2> QED BY <2>2 DEF LatePair, OptionPair
<1>4. /\ y # Nothing => y[1].key = "server.address"
      /\ \A p : y # Nothing /\ p \in Writes(y[1]) =>
           LatePair(p, req) /\ p[1] = "server.address"
  <2>1. "server.address" \notin ControlFields \cup RemoteFields
    BY DEF ControlFields, RemoteFields
  <2> DEFINE option == FirstOf(req.host)
  <2>2. /\ y = Nothing <=> option = Nothing
        /\ y # Nothing => /\ y[1].key = "server.address"
                          /\ Writes(y[1]) = {<<"server.address", Text(option[1])>>}
    BY <2>1, StrOfIs
  <2> HIDE DEF y
  <2> QED BY <2>2 DEF LatePair, OptionPair
<1>5. /\ z = Nothing <=> req.route = Nothing
      /\ z # Nothing => /\ z[1].key = Route
                        /\ Writes(z[1]) = {<<Route, Text(req.route[1])>>}
  <2>1. Route \notin ControlFields \cup RemoteFields
    BY DEF ControlFields, RemoteFields, Route
  <2> QED BY <2>1, StrOfIs
<1>6. \A p : z # Nothing /\ p \in Writes(z[1]) => LatePair(p, req)
  <2> HIDE DEF z
  <2> QED BY <1>5 DEF LatePair, OptionPair
<1> HIDE DEF s, x, y, z
<1>7. /\ IsSpan(m) /\ m.status = Unset
      /\ \A p \in Pairs(m.attributes) :
           (p \in DeclaredPairs(req) \/ LatePair(p, req)) /\ p[1] \in BaseKeys
  <2> DEFINE o == <<x, y>>
  <2>1. o \in Seq({x, y}) /\ DOMAIN o = 1..2 /\ o[1] = x /\ o[2] = y
    <3>1. o \in Seq({x, y}) OBVIOUS
    <3>2. DOMAIN o = 1..2 OBVIOUS
    <3>3. o[1] = x OBVIOUS
    <3>4. o[2] = y OBVIOUS
    <3> QED BY <3>1, <3>2, <3>3, <3>4
  <2> HIDE DEF o
  <2>2. IsList(o) BY <2>1, SomeListIs
  <2>3. SilentOn(o)
    BY <1>3, <1>4, <2>1 DEF SilentOn, StatusCode, StatusMessage
  <2>4. \A p : WrittenBy(p, LateFields, o) =>
           LatePair(p, req) /\ p[1] \in {"user_agent.original", "server.address"}
    BY <1>3, <1>4, <2>1 DEF WrittenBy
  <2>5. \A p \in DeclaredPairs(req) : p[1] \in BaseKeys
    <3> SUFFICES ASSUME NEW p \in DeclaredPairs(req) PROVE p[1] \in BaseKeys
      OBVIOUS
    <3> DEFINE t == IF req.scheme = Nothing THEN "http" ELSE req.scheme[1]
    <3>1. \/ p = <<"http.request.method", Text(req.method)>>
          \/ p = <<"url.path", Text(req.path)>>
          \/ p = <<"url.query", Text(SanitizeQuery(req.query))>>
          \/ p = <<"url.scheme", Text(t)>>
          \/ p = <<"network.protocol.name", Text("http")>>
      BY DEF DeclaredPairs
    <3> HIDE DEF t
    <3> QED BY <3>1 DEF BaseKeys
  <2>6. m = RecordFields(s, LateFields, o) BY DEF o
  <2>7. /\ IsSpan(m) /\ m.status = s.status
        /\ \A p \in Pairs(m.attributes) :
             p \in Pairs(s.attributes) \/ WrittenBy(p, LateFields, o)
    <3> HIDE DEF m
    <3> QED BY <1>1, <2>2, <2>3, <2>6, RecordFieldsIs
  <2> HIDE DEF m
  <2>8. \A p \in Pairs(m.attributes) : p[1] \in BaseKeys
    BY <1>1, <2>4, <2>5, <2>7 DEF BaseKeys
  <2>9. \A p \in Pairs(m.attributes) : p \in DeclaredPairs(req) \/ LatePair(p, req)
    BY <1>1, <2>4, <2>7
  <2> QED BY <1>1, <2>7, <2>8, <2>9
<1> HIDE DEF m
<1>8. /\ IsSpan(r)
      /\ \/ r = m /\ (z = Nothing \/ z[1].key \notin LateFields)
         \/ /\ z # Nothing /\ z[1].key \in LateFields
            /\ FieldHandled(m.attributes, r.attributes, z[1])
            /\ z[1].key \notin {StatusCode, StatusMessage} => r.status = m.status
  BY <1>7, RecordFieldIs
<1> HIDE DEF r
<1>9. r.status = Unset
  BY <1>5, <1>7, <1>8 DEF Route, StatusCode, StatusMessage
<1>10. \A p \in Pairs(r.attributes) : p \in DeclaredPairs(req) \/ LatePair(p, req)
  <2>1. CASE r = m BY <1>7, <2>1
  <2>2. CASE z # Nothing /\ FieldHandled(m.attributes, r.attributes, z[1])
    <3>1. \A p \in Pairs(r.attributes) : p \in Pairs(m.attributes) \/ p \in Writes(z[1])
      BY <2>2, HandledPairs
    <3> QED BY <1>6, <1>7, <2>2, <3>1
  <2> QED BY <1>8, <2>1, <2>2
<1>11. ASSUME req.route # Nothing PROVE Route \in KeysOf(r.attributes)
  <2>1. z # Nothing /\ z[1].key = Route /\ Writes(z[1]) = {<<Route, Text(req.route[1])>>}
    BY <1>5, <1>11
  <2>2. FieldHandled(m.attributes, r.attributes, z[1])
    BY <1>8, <2>1 DEF LateFields, Route
  <2>3. Route # StatusCode /\ Route # HeaderSlot BY DEF Route, StatusCode, HeaderSlot
  <2>4. RecordedAs(m.attributes, r.attributes, Route, Text(req.route[1]))
    BY <2>1, <2>2, <2>3, WrittenIs
  <2>5. KeysOf(m.attributes) \subseteq BaseKeys BY <1>7, KeyPaired
  <2>6. AreAttributes(m.attributes) /\ Distinct(m.attributes) BY <1>7 DEF IsSpan
  <2>7. Len(m.attributes) < AttributeCap BY <2>5, <2>6, RoomForOneMore
  <2> QED BY <2>4, <2>7, StoredBelow
<1> QED BY <1>2, <1>8, <1>9, <1>10, <1>11 DEF s

-----------------------------------------------------------------------------
(* What the answer records.                                                 *)

\* A value that is there and declared goes to the visitor.
LEMMA GivenIs ==
  ASSUME NEW s, NEW f, f.key \in LateFields
  PROVE  RecordField(s, LateFields, Just(f)) = HandleField(s, f)
<1>1. Just(f) # Nothing /\ Just(f)[1] = f BY OptionIs
<1> QED BY <1>1 DEF RecordField

IntOf(res) == [type |-> "Int", text |-> CodeText(res.code)]

\* The status code is recorded as a number.
LEMMA StatusWritten ==
  ASSUME NEW s, IsSpan(s), NEW res
  PROVE  LET r == RecordField(s, LateFields, Just(StatusField(res))) IN
         /\ IsSpan(r) /\ r.status = s.status
         /\ RecordedAs(s.attributes, r.attributes, Code, IntOf(res))
<1> DEFINE f == StatusField(res)
           r == HandleField(s, f)
<1>1. f.key = Code /\ f.by = "i64" /\ f.text = CodeText(res.code) BY DEF StatusField, Code
<1> HIDE DEF f
<1>2. Writes(f) = {<<Code, IntOf(res)>>}
  <2>1. FieldValue(f) = IntOf(res)
    <3>1. f.by # "bool" BY <1>1
    <3>2. FieldValue(f) = [type |-> "Int", text |-> f.text]
      BY <1>1, <3>1, Zenon DEF FieldValue
    <3> QED BY <1>1, <3>2 DEF IntOf
  <2>2. Code \notin ControlFields \cup RemoteFields
    BY DEF Code, ControlFields, RemoteFields
  <2> QED BY <1>1, <2>1, <2>2, Zenon DEF Writes
<1>3. /\ IsSpan(r) /\ FieldHandled(s.attributes, r.attributes, f)
      /\ f.key \notin {StatusCode, StatusMessage} => r.status = s.status
  BY HandleIs
<1>4. RecordField(s, LateFields, Just(f)) = r
  <2>1. f.key \in LateFields BY <1>1 DEF Code, LateFields
  <2> QED BY <2>1, GivenIs
<1> HIDE DEF r
<1>5. Code \notin {StatusCode, StatusMessage, HeaderSlot}
  BY DEF Code, StatusCode, StatusMessage, HeaderSlot
<1>6. RecordedAs(s.attributes, r.attributes, Code, IntOf(res))
  BY <1>1, <1>2, <1>3, <1>5, WrittenIs
<1> QED BY <1>1, <1>3, <1>4, <1>5, <1>6 DEF f

\* The span with the failure recorded.
Failing(s, why) ==
  RecordField(RecordField(s, LateFields, Just(Str(StatusCode, "error"))),
              LateFields, Just(Str("error.type", why)))

\* A failure takes the pending message into the status and is recorded with its
\* type.
LEMMA FailureWritten ==
  ASSUME NEW s, IsSpan(s), NEW why
  PROVE  /\ IsSpan(Failing(s, why)) /\ Failing(s, why).status = Failed(Pending(s.attributes))
         /\ \E c : /\ AreAttributes(c) /\ Distinct(c) /\ Len(c) <= Len(s.attributes)
                   /\ AllFrom(c, s.attributes)
                   /\ KeysOf(c) = Without(KeysOf(s.attributes), StatusMessage)
                   /\ RecordedAs(c, Failing(s, why).attributes, "error.type", Text(why))
<1> DEFINE m == WithStatusCode(s, "error")
           f == Str("error.type", why)
           g == Str(StatusCode, "error")
           r == HandleField(m, f)
<1>1. /\ IsSpan(m) /\ Len(m.attributes) <= Len(s.attributes)
      /\ AllFrom(m.attributes, s.attributes)
      /\ KeysOf(m.attributes) = Without(KeysOf(s.attributes), StatusMessage)
      /\ m.status = Failed(Pending(s.attributes))
  BY StatusCodeIs
<1>2. RecordField(s, LateFields, Just(g)) = m
  <2>1. g.key = StatusCode /\ g.by = "str" /\ g.text = "error" BY StrWrites
  <2> HIDE DEF g, m
  <2>2. StatusCode \in LateFields /\ StatusCode \in ControlFields
    BY DEF StatusCode, LateFields, ControlFields
  <2>3. RecordField(s, LateFields, Just(g)) = HandleField(s, g)
    BY <2>1, <2>2, GivenIs
  <2>4. FieldValue(g) = Text("error") BY <2>1, FieldValueIs
  <2>5. FieldValue(g).type = "String" /\ FieldValue(g).text = "error"
    BY <2>4 DEF Text
  <2>6. HandleField(s, g) = HandleControl(s, g.key, FieldValue(g).text)
    BY <2>1, <2>2, <2>5, Zenon DEF HandleField
  <2>7. HandleControl(s, StatusCode, "error") = m
    BY DEF HandleControl, StatusCode, m
  <2> QED BY <2>1, <2>3, <2>5, <2>6, <2>7
<1>3. f.key = "error.type" /\ f.by = "str" /\ Writes(f) = {<<"error.type", Text(why)>>}
  BY StrWrites DEF ControlFields, RemoteFields
<1> HIDE DEF m, f, g
<1>4. RecordField(m, LateFields, Just(f)) = r
  <2>1. f.key \in LateFields BY <1>3 DEF LateFields
  <2> QED BY <2>1, GivenIs
<1>5. /\ IsSpan(r) /\ FieldHandled(m.attributes, r.attributes, f)
      /\ f.key \notin {StatusCode, StatusMessage} => r.status = m.status
  BY <1>1, HandleIs
<1> HIDE DEF r
<1>6. r.status = m.status BY <1>3, <1>5 DEF StatusCode, StatusMessage
<1>7. RecordedAs(m.attributes, r.attributes, "error.type", Text(why))
  BY <1>3, <1>5, WrittenIs DEF StatusCode
<1>8. Failing(s, why) = r BY <1>2, <1>4 DEF Failing, f, g
<1>9. AreAttributes(m.attributes) /\ Distinct(m.attributes) BY <1>1 DEF IsSpan
<1> QED BY <1>1, <1>5, <1>6, <1>7, <1>8, <1>9

HeaderPair(h) == <<KeyOfHeader(h), Text(Joined(Readable(h.values)))>>

\* The answers there are.
LEMMA ResponseIs ==
  ASSUME NEW res \in Responses
  PROVE  \/ res.kind = "err"
         \/ /\ res.kind = "ok" /\ res.code \in Nat /\ IsList(res.headers)
            /\ \A i \in DOMAIN res.headers :
                 LET h == res.headers[i] IN
                 Captured(h) =>
                   /\ Writes(HeaderField(h)) = {HeaderPair(h)}
                   /\ KeyOfHeader(h) \notin OwnKeys \cup ControlFields \cup RemoteFields
                   /\ IsProtected(KeyOfHeader(h))
<1> SUFFICES ASSUME res.kind # "err"
             PROVE  /\ res.kind = "ok" /\ res.code \in Nat /\ IsList(res.headers)
                    /\ \A i \in DOMAIN res.headers :
                         LET h == res.headers[i] IN
                         Captured(h) =>
                           /\ Writes(HeaderField(h)) = {HeaderPair(h)}
                           /\ KeyOfHeader(h) \notin OwnKeys \cup ControlFields \cup RemoteFields
                           /\ IsProtected(KeyOfHeader(h))
  OBVIOUS
<1>1. res.kind = "ok" /\ res.code \in Nat /\ IsList(res.headers)
  BY ResponsesAssumption
<1>2. ASSUME NEW i \in DOMAIN res.headers, Captured(res.headers[i])
      PROVE  LET h == res.headers[i] IN
             /\ Writes(HeaderField(h)) = {HeaderPair(h)}
             /\ KeyOfHeader(h) \notin OwnKeys \cup ControlFields \cup RemoteFields
             /\ IsProtected(KeyOfHeader(h))
  <2> DEFINE h == res.headers[i]
             name == Concat(Normalized(h.name))
             value == Joined(Readable(h.values))
             f == HeaderField(h)
  <2>1. HeaderOf(f.text) = {<<name, value>>}
    <3>1. Readable(h.values) # <<>> BY <1>2, Zenon DEF Captured
    <3> QED BY <3>1, <1>1, <1>2, ResponsesAssumption
  <2>2. f.key = HeaderSlot BY DEF HeaderField, Str, HeaderSlot
  <2>3. name \in HeaderNames
    <3> DEFINE pair == <<name, value>>
    <3>1. pair \in HeaderOf(f.text) BY <2>1
    <3>2. pair \in HeaderNames \X HeaderTexts
      <4> HIDE DEF pair
      <4> QED BY <3>1 DEF HeaderOf
    <3> HIDE DEF name, value
    <3> QED BY <3>2
  <2> HIDE DEF f, name, value, h
  <2>4. Writes(f) = {<<HeaderKey(name), Text(value)>>}
    <3>1. f.key \in ControlFields \cup RemoteFields
      BY <2>2 DEF HeaderSlot, ControlFields
    <3>2. Writes(f) = {<<HeaderKey(x[1]), Text(x[2])>> : x \in HeaderOf(f.text)}
      BY <2>2, <3>1, Zenon DEF Writes
    <3>3. <<name, value>>[1] = name /\ <<name, value>>[2] = value OBVIOUS
    <3> DEFINE pair == <<name, value>>
    <3> HIDE DEF pair
    <3>4. Writes(f) = {<<HeaderKey(pair[1]), Text(pair[2])>>} BY <2>1, <3>2 DEF pair
    <3> QED BY <3>3, <3>4 DEF pair
  <2>5. HeaderPair(h) = <<HeaderKey(name), Text(value)>>
    BY DEF HeaderPair, KeyOfHeader, name, value
  <2>6. KeyOfHeader(h) = HeaderKey(name) BY DEF KeyOfHeader, name
  <2>7. HeaderKey(name) \notin OwnKeys \cup ControlFields \cup RemoteFields
    BY <2>3, CapAssumption
  <2>8. IsProtected(HeaderKey(name)) BY <2>3 DEF IsProtected
  <2> QED BY <2>4, <2>5, <2>6, <2>7, <2>8 DEF f, h
<1> QED BY <1>1, <1>2

\* Recording one list after another is recording both.
LEMMA ListsInTurn ==
  ASSUME NEW s, NEW declared, NEW x, NEW y, IsList(x), IsList(y)
  PROVE  RecordFields(s, declared, x \o y)
           = RecordFields(RecordFields(s, declared, x), declared, y)
<1>1. PICK S : x \in Seq(S) /\ y \in Seq(S) BY JoinedLists
<1> QED BY <1>1, FieldsInTurn

\* A list of one value and of two.
LEMMA ShortLists ==
  ASSUME NEW x, NEW y
  PROVE  IsList(<<x>>) /\ IsList(<<x, y>>) /\ IsList(<<>>)
<1> DEFINE a == <<x>>
           b == <<x, y>>
           c == <<>>
<1>1. a \in Seq({x}) OBVIOUS
<1>2. b \in Seq({x, y}) OBVIOUS
<1>3. c \in Seq({x}) OBVIOUS
<1> HIDE DEF a, b, c
<1>4. IsList(a) /\ IsList(b) /\ IsList(c) BY <1>1, <1>2, <1>3, SomeListIs
<1> QED BY <1>4 DEF a, b, c

\* The fields of the captured headers, in the order of the headers.
LEMMA HeaderFieldsAre ==
  ASSUME NEW headers, IsList(headers)
  PROVE  /\ IsList(HeaderFields(headers)) /\ Len(HeaderFields(headers)) = Len(headers)
         /\ DOMAIN HeaderFields(headers) = DOMAIN headers
         /\ \A i \in DOMAIN headers :
              HeaderFields(headers)[i] = IF Captured(headers[i])
                                         THEN Just(HeaderField(headers[i])) ELSE Nothing
<1> DEFINE n == Len(headers)
           Of(i) == IF Captured(headers[i]) THEN Just(HeaderField(headers[i])) ELSE Nothing
           list == [i \in DOMAIN headers |-> Of(i)]
           S == {Of(i) : i \in DOMAIN headers}
<1>1. n \in Nat /\ DOMAIN headers = 1..n BY ListIs DEF IsList
<1>2. HeaderFields(headers) = list BY DEF HeaderFields
<1>3. list \in Seq(S)
  <2>1. \A i \in 1..n : Of(i) \in S BY <1>1
  <2>2. list = [i \in 1..n |-> Of(i)] BY <1>1
  <2> HIDE DEF S, Of, list, n
  <2> QED BY <1>1, <2>1, <2>2, IsASeq
<1>4. DOMAIN list = DOMAIN headers /\ \A i \in DOMAIN headers : list[i] = Of(i)
  <2> HIDE DEF Of
  <2> QED OBVIOUS
<1> HIDE DEF S, list, Of
<1>5. IsList(list) BY <1>3, SomeListIs
<1>6. Len(list) = n
  <2>1. DOMAIN list = 1..Len(list) /\ Len(list) \in Nat BY <1>3, ListIs
  <2> DEFINE m == Len(list)
  <2>2. \A i : i \in 1..m <=> i \in 1..n BY <1>1, <1>4, <2>1
  <2>3. m \in Nat BY <2>1
  <2> HIDE DEF m, n
  <2>4. ~(m < n) BY <1>1, <2>2, <2>3
  <2>5. ~(n < m) BY <1>1, <2>2, <2>3
  <2>6. m = n BY <1>1, <2>3, <2>4, <2>5
  <2> QED BY <2>6 DEF m, n
<1> QED BY <1>2, <1>4, <1>5, <1>6 DEF Of

\* The span with the outcome recorded, before the headers.
Outcome(s, res) ==
  LET coded == RecordField(s, LateFields, Just(StatusField(res))) IN
  IF res.kind = "err" THEN Failing(s, res.type)
  ELSE IF res.code >= 500 THEN Failing(coded, CodeText(res.code)) ELSE coded

\* An error of the service is recorded as a failure; an answer with its status
\* code, as a failure if it is one, and then with its headers.
LEMMA AnswerIs ==
  ASSUME NEW s, NEW res \in Responses
  PROVE  RecordFields(s, LateFields, FieldsOfAnswer(res))
           = IF res.kind = "err" THEN Outcome(s, res)
             ELSE RecordFields(Outcome(s, res), LateFields, HeaderFields(res.headers))
<1>1. \A t, why : RecordFields(t, LateFields, FailureFields(why)) = Failing(t, why)
  <2> SUFFICES ASSUME NEW t, NEW why
               PROVE  RecordFields(t, LateFields, FailureFields(why)) = Failing(t, why)
    OBVIOUS
  <2> DEFINE x == Just(Str("otel.status_code", "error"))
             y == Just(Str("error.type", why))
  <2>1. FailureFields(why) = <<x, y>> BY DEF FailureFields
  <2>2. Failing(t, why) = RecordField(RecordField(t, LateFields, x), LateFields, y)
    BY DEF Failing, StatusCode
  <2> HIDE DEF x, y
  <2> QED BY <2>1, <2>2, TwoFields
<1>2. CASE res.kind = "err"
  <2>1. FieldsOfAnswer(res) = FailureFields(res.type) BY <1>2 DEF FieldsOfAnswer
  <2> QED BY <1>1, <1>2, <2>1 DEF Outcome
<1>3. CASE res.kind # "err"
  <2> DEFINE x == Just(StatusField(res))
             first == <<x>>
             failure == IF res.code >= 500 THEN FailureFields(CodeText(res.code)) ELSE <<>>
             headers == HeaderFields(res.headers)
             coded == RecordField(s, LateFields, x)
  <2>1. FieldsOfAnswer(res) = (first \o failure) \o headers
    BY <1>3 DEF FieldsOfAnswer
  <2>2. IsList(headers)
    <3>1. IsList(res.headers) BY <1>3, ResponseIs
    <3> QED BY <3>1, HeaderFieldsAre
  <2>3. IsList(failure)
    <3>1. IsList(FailureFields(CodeText(res.code))) BY ShortLists DEF FailureFields
    <3>2. IsList(<<>>) BY ShortLists
    <3> QED BY <3>1, <3>2
  <2>4. IsList(first) BY ShortLists
  <2>5. RecordFields(s, LateFields, first) = coded
    <3> HIDE DEF x
    <3> QED BY OneField
  <2>6. RecordFields(coded, LateFields, failure)
          = IF res.code >= 500 THEN Failing(coded, CodeText(res.code)) ELSE coded
    <3> HIDE DEF coded
    <3> QED BY <1>1, NoField
  <2>7. Outcome(s, res) = RecordFields(coded, LateFields, failure)
    BY <1>3, <2>6 DEF Outcome
  <2> HIDE DEF first, failure, headers, coded
  <2>8. IsList(first \o failure) BY <2>3, <2>4, JoinedLists
  <2>9. RecordFields(s, LateFields, (first \o failure) \o headers)
          = RecordFields(RecordFields(s, LateFields, first \o failure), LateFields, headers)
    BY <2>2, <2>8, ListsInTurn
  <2>10. RecordFields(s, LateFields, first \o failure)
           = RecordFields(RecordFields(s, LateFields, first), LateFields, failure)
    BY <2>3, <2>4, ListsInTurn
  <2> QED BY <1>3, <2>1, <2>5, <2>7, <2>9, <2>10 DEF headers
<1> QED BY <1>2, <1>3

\* A pair the answer may add.
AnswerPair(p, res) ==
  \/ res.kind = "ok" /\ p = <<Code, IntOf(res)>>
  \/ res.kind = "err" /\ p = <<"error.type", Text(res.type)>>
  \/ res.kind = "ok" /\ p = <<"error.type", Text(CodeText(res.code))>>
  \/ /\ res.kind = "ok"
     /\ \E i \in DOMAIN res.headers :
          Captured(res.headers[i]) /\ p = HeaderPair(res.headers[i])

\* A failure adds no pair but the type of the error.
LEMMA FailurePairs ==
  ASSUME NEW s, IsSpan(s), NEW why
  PROVE  \A p \in Pairs(Failing(s, why).attributes) :
           p \in Pairs(s.attributes) \/ p = <<"error.type", Text(why)>>
<1>1. PICK c : /\ AllFrom(c, s.attributes)
               /\ RecordedAs(c, Failing(s, why).attributes, "error.type", Text(why))
  BY FailureWritten
<1>2. \A p \in Pairs(c) : p \in Pairs(s.attributes) BY <1>1, PairsFrom
<1> DEFINE r == Failing(s, why).attributes
<1>3. \A p \in Pairs(r) : p \in Pairs(c) \/ p = <<"error.type", Text(why)>>
  <2> HIDE DEF r
  <2> QED BY <1>1, RecordedPairs DEF r
<1> QED BY <1>2, <1>3

\* The outcome: its span, its pairs, and its status.
LEMMA OutcomeIs ==
  ASSUME NEW s, IsSpan(s), NEW res \in Responses
  PROVE  LET r == Outcome(s, res) IN
         /\ IsSpan(r)
         /\ \A p \in Pairs(r.attributes) : p \in Pairs(s.attributes) \/ AnswerPair(p, res)
         /\ HasFailed(res) => r.status.code = "error"
<1> DEFINE r == Outcome(s, res)
           coded == RecordField(s, LateFields, Just(StatusField(res)))
<1>1. /\ IsSpan(coded)
      /\ RecordedAs(s.attributes, coded.attributes, Code, IntOf(res))
  BY StatusWritten
<1>2. \A p \in Pairs(coded.attributes) : p \in Pairs(s.attributes) \/ p = <<Code, IntOf(res)>>
  <2> HIDE DEF coded
  <2> QED BY <1>1, RecordedPairs
<1> HIDE DEF coded
<1>3. \A x : Failed(x).code = "error" BY DEF Failed
<1>4. CASE res.kind = "err"
  <2>1. r = Failing(s, res.type) BY <1>4 DEF Outcome
  <2>2. IsSpan(r) /\ r.status = Failed(Pending(s.attributes))
    BY <2>1, FailureWritten
  <2>3. \A p \in Pairs(r.attributes) :
          p \in Pairs(s.attributes) \/ p = <<"error.type", Text(res.type)>>
    BY <2>1, FailurePairs
  <2> HIDE DEF r
  <2> QED BY <1>3, <1>4, <2>2, <2>3 DEF AnswerPair, r
<1>5. CASE res.kind = "ok" /\ res.code >= 500
  <2>1. r = Failing(coded, CodeText(res.code)) BY <1>5 DEF Outcome, coded
  <2>2. IsSpan(r) /\ r.status = Failed(Pending(coded.attributes))
    BY <1>1, <2>1, FailureWritten
  <2>3. \A p \in Pairs(r.attributes) :
          p \in Pairs(coded.attributes) \/ p = <<"error.type", Text(CodeText(res.code))>>
    BY <1>1, <2>1, FailurePairs
  <2> HIDE DEF r
  <2>4. \A p \in Pairs(r.attributes) : p \in Pairs(s.attributes) \/ AnswerPair(p, res)
    BY <1>2, <1>5, <2>3 DEF AnswerPair
  <2> QED BY <1>3, <2>2, <2>4 DEF r
<1>6. CASE res.kind = "ok" /\ ~(res.code >= 500)
  <2>1. r = coded BY <1>6 DEF Outcome, coded
  <2>2. \A p \in Pairs(r.attributes) : p \in Pairs(s.attributes) \/ AnswerPair(p, res)
    BY <1>2, <1>6, <2>1 DEF AnswerPair
  <2> HIDE DEF r
  <2> QED BY <1>1, <1>6, <2>1, <2>2 DEF HasFailed, r
<1> QED BY <1>4, <1>5, <1>6, ResponseIs

\* The headers: a span, their pairs, and the status as it was.
LEMMA HeadersAre ==
  ASSUME NEW s, IsSpan(s), NEW res \in Responses, res.kind = "ok"
  PROVE  LET r == RecordFields(s, LateFields, HeaderFields(res.headers)) IN
         /\ IsSpan(r) /\ r.status = s.status
         /\ \A p \in Pairs(r.attributes) : p \in Pairs(s.attributes) \/ AnswerPair(p, res)
<1> DEFINE o == HeaderFields(res.headers)
           r == RecordFields(s, LateFields, o)
<1>1. /\ IsList(res.headers)
      /\ \A i \in DOMAIN res.headers :
           Captured(res.headers[i]) =>
             Writes(HeaderField(res.headers[i])) = {HeaderPair(res.headers[i])}
  BY ResponseIs
<1>2. /\ IsList(o) /\ DOMAIN o = DOMAIN res.headers
      /\ \A i \in DOMAIN res.headers :
           o[i] = IF Captured(res.headers[i]) THEN Just(HeaderField(res.headers[i]))
                  ELSE Nothing
  BY <1>1, HeaderFieldsAre
<1> HIDE DEF o
<1>3. \A h : Just(HeaderField(h)) # Nothing /\ Just(HeaderField(h))[1] = HeaderField(h)
  BY OptionIs
<1>4. \A h : HeaderField(h).key = HeaderSlot BY DEF HeaderField, Str, HeaderSlot
<1>5. SilentOn(o)
  BY <1>2, <1>3, <1>4 DEF SilentOn, HeaderSlot, StatusCode, StatusMessage
<1>6. ASSUME NEW p, WrittenBy(p, LateFields, o) PROVE AnswerPair(p, res)
  <2>1. PICK i \in DOMAIN o : o[i] # Nothing /\ p \in Writes(o[i][1])
    BY <1>6 DEF WrittenBy
  <2>2. Captured(res.headers[i]) /\ o[i] = Just(HeaderField(res.headers[i]))
    BY <1>2, <2>1
  <2>3. p \in Writes(HeaderField(res.headers[i])) BY <1>3, <2>1, <2>2
  <2>4. p = HeaderPair(res.headers[i]) BY <1>1, <1>2, <2>1, <2>2, <2>3
  <2> QED BY <1>2, <2>1, <2>2, <2>4 DEF AnswerPair
<1>7. /\ IsSpan(r) /\ r.status = s.status
      /\ \A p \in Pairs(r.attributes) : p \in Pairs(s.attributes) \/ WrittenBy(p, LateFields, o)
  BY <1>2, <1>5, RecordFieldsIs
<1> HIDE DEF r
<1> QED BY <1>6, <1>7 DEF o, r

-----------------------------------------------------------------------------
(* Clean pairs.                                                             *)

\* The texts of a request are no secrets.
LEMMA TextsAre ==
  ASSUME NEW req \in Requests
  PROVE  /\ req.method \notin Secrets /\ req.path \notin Secrets
         /\ req.scheme # Nothing => req.scheme[1] \notin Secrets
         /\ req.route # Nothing => req.route[1] \notin Secrets
         /\ FirstOf(req.user_agent) # Nothing => FirstOf(req.user_agent)[1] \notin Secrets
         /\ FirstOf(req.host) # Nothing => FirstOf(req.host)[1] \notin Secrets
<1> DEFINE a == Just(req.method)
           b == Just(req.path)
           c == req.scheme
           d == req.route
           e == FirstOf(req.user_agent)
           f == FirstOf(req.host)
           options == <<a, b, c, d, e, f>>
<1>1. Secrets \cap Texts(options) = {} BY SecretsAssumption
<1>2. a # Nothing /\ a[1] = req.method /\ b # Nothing /\ b[1] = req.path
  BY OptionIs
<1> HIDE DEF a, b, c, d, e, f
<1>3. DOMAIN options = 1..6 OBVIOUS
<1>4. options[1] = a /\ options[2] = b /\ options[3] = c OBVIOUS
<1>5. options[4] = d /\ options[5] = e /\ options[6] = f OBVIOUS
<1> HIDE DEF options
<1>6. \A i \in 1..6 : options[i] # Nothing => options[i][1] \notin Secrets
  BY <1>1, <1>3 DEF Texts
<1>7. /\ a # Nothing => a[1] \notin Secrets
      /\ b # Nothing => b[1] \notin Secrets
      /\ c # Nothing => c[1] \notin Secrets
      /\ d # Nothing => d[1] \notin Secrets
      /\ e # Nothing => e[1] \notin Secrets
      /\ f # Nothing => f[1] \notin Secrets
  BY <1>4, <1>5, <1>6
<1> QED BY <1>2, <1>7 DEF c, d, e, f

\* A text that is no secret is clean under a key of its own.
LEMMA CleanText ==
  ASSUME NEW k, k \notin RemoteFields, k # "url.query", NEW v, v.text \notin Secrets,
         NEW req
  PROVE  CleanPair(<<k, v>>, req)
<1>1. <<k, v>>[1] = k /\ <<k, v>>[2] = v OBVIOUS
<1> QED BY <1>1 DEF CleanPair

\* What call records is clean.
LEMMA CleanCall ==
  ASSUME NEW req \in Requests, NEW p, p \in DeclaredPairs(req) \/ LatePair(p, req)
  PROVE  CleanPair(p, req)
<1>0. \A t : Text(t).text = t BY DEF Text
<1> USE DEF RemoteFields
<1>1. CASE p = <<"http.request.method", Text(req.method)>>
  BY <1>0, <1>1, TextsAre, CleanText
<1>2. CASE p = <<"url.path", Text(req.path)>>
  BY <1>0, <1>2, TextsAre, CleanText
<1>3. CASE p = <<"url.query", Text(SanitizeQuery(req.query))>>
  BY <1>3 DEF CleanPair
<1>4. CASE p = <<"url.scheme", Text(IF req.scheme = Nothing THEN "http" ELSE req.scheme[1])>>
  <2> DEFINE t == IF req.scheme = Nothing THEN "http" ELSE req.scheme[1]
  <2>1. t \notin Secrets BY TextsAre, SecretsAssumption
  <2>2. p = <<"url.scheme", Text(t)>> BY <1>4
  <2> HIDE DEF t
  <2> QED BY <1>0, <2>1, <2>2, CleanText
<1>5. CASE p = <<"network.protocol.name", Text("http")>>
  <2>1. "http" \notin Secrets BY SecretsAssumption
  <2> QED BY <1>0, <1>5, <2>1, CleanText
<1>6. CASE OptionPair(p, "user_agent.original", FirstOf(req.user_agent))
  BY <1>0, <1>6, TextsAre, CleanText DEF OptionPair
<1>7. CASE OptionPair(p, "server.address", FirstOf(req.host))
  BY <1>0, <1>7, TextsAre, CleanText DEF OptionPair
<1>8. CASE OptionPair(p, Route, req.route)
  <2>1. Route \notin RemoteFields /\ Route # "url.query" BY DEF Route
  <2> QED BY <1>0, <1>8, <2>1, TextsAre, CleanText DEF OptionPair
<1> QED BY <1>1, <1>2, <1>3, <1>4, <1>5, <1>6, <1>7, <1>8 DEF DeclaredPairs, LatePair

\* So is what an error event leaves.
LEMMA CleanEvent ==
  ASSUME NEW e \in HandlerEvents, NEW req,
         NEW p \in {<<StatusCode, Text("error")>>, <<StatusMessage, Text(Explanation(e))>>}
  PROVE  CleanPair(p, req)
<1>0. \A t : Text(t).text = t BY DEF Text
<1>1. "error" \notin Secrets /\ Explanation(e) \notin Secrets BY SecretsAssumption
<1>2. /\ StatusCode \notin RemoteFields /\ StatusCode # "url.query"
      /\ StatusMessage \notin RemoteFields /\ StatusMessage # "url.query"
  BY DEF StatusCode, StatusMessage, RemoteFields
<1>3. CASE p = <<StatusCode, Text("error")>> BY <1>0, <1>1, <1>2, <1>3, CleanText
<1>4. CASE p = <<StatusMessage, Text(Explanation(e))>>
  BY <1>0, <1>1, <1>2, <1>4, CleanText
<1> QED BY <1>3, <1>4

\* What a header writes is under a key of the header.
LEMMA HeaderWrites ==
  ASSUME NEW f, f.key = HeaderSlot, NEW p \in Writes(f)
  PROVE  \E h \in HeaderOf(f.text) : p = <<HeaderKey(h[1]), Text(h[2])>> /\ h[1] \in HeaderNames
<1>1. f.key \in ControlFields \cup RemoteFields BY DEF HeaderSlot, ControlFields
<1>2. PICK h \in HeaderOf(f.text) : p = <<HeaderKey(h[1]), Text(h[2])>>
  BY <1>1 DEF Writes
<1>3. h \in HeaderNames \X HeaderTexts BY <1>2 DEF HeaderOf
<1>4. h[1] \in HeaderNames BY <1>3
<1> QED BY <1>2, <1>4

\* What a field of the handler writes is clean, under its own key or that of a
\* header, unless it is a query.
LEMMA CleanField ==
  ASSUME NEW f \in HandlerFields, NEW req, NEW p \in Writes(f)
  PROVE  CleanPair(p, req) \/ (p[1] = "url.query" /\ f.key = "url.query")
<1>0. \A t : Text(t).text = t BY DEF Text
<1>1. CASE f.key \notin ControlFields \cup RemoteFields
  <2>1. p = <<f.key, FieldValue(f)>> BY <1>1 DEF Writes
  <2>2. FieldValue(f).text \notin Secrets BY FieldValueIs, SecretsAssumption
  <2>3. CASE f.key # "url.query" BY <1>1, <2>1, <2>2, <2>3, CleanText
  <2>4. CASE f.key = "url.query"
    <3>1. <<f.key, FieldValue(f)>>[1] = f.key OBVIOUS
    <3> QED BY <2>1, <2>4, <3>1
  <2> QED BY <2>3, <2>4
<1>2. CASE f.key \in ControlFields \cup RemoteFields
  <2>1. f.key = HeaderSlot BY <1>2 DEF Writes
  <2>2. PICK h \in HeaderOf(f.text) :
          p = <<HeaderKey(h[1]), Text(h[2])>> /\ h[1] \in HeaderNames
    BY <2>1, HeaderWrites
  <2>3. h[2] \notin Secrets BY <2>2, SecretsAssumption
  <2>4. HeaderKey(h[1]) \notin RemoteFields /\ HeaderKey(h[1]) # "url.query"
    BY <2>2, CapAssumption DEF OwnKeys
  <2> QED BY <1>0, <2>2, <2>3, <2>4, CleanText
<1> QED BY <1>1, <1>2

\* And so is what the answer records.
LEMMA CleanAnswer ==
  ASSUME NEW res \in Responses, NEW req, NEW p, AnswerPair(p, res)
  PROVE  CleanPair(p, req)
<1>0. \A t : Text(t).text = t BY DEF Text
<1>1. CASE res.kind = "ok" /\ p = <<Code, IntOf(res)>>
  <2>1. CodeText(res.code) \notin Secrets BY <1>1, SecretsAssumption
  <2>2. IntOf(res).text \notin Secrets BY <2>1 DEF IntOf
  <2>3. Code \notin RemoteFields /\ Code # "url.query" BY DEF Code, RemoteFields
  <2> QED BY <1>1, <2>2, <2>3, CleanText
<1>2. CASE res.kind = "err" /\ p = <<"error.type", Text(res.type)>>
  <2>1. res.type \notin Secrets BY <1>2, SecretsAssumption
  <2>2. "error.type" \notin RemoteFields /\ "error.type" # "url.query" BY DEF RemoteFields
  <2> QED BY <1>0, <1>2, <2>1, <2>2, CleanText
<1>3. CASE res.kind = "ok" /\ p = <<"error.type", Text(CodeText(res.code))>>
  <2>1. CodeText(res.code) \notin Secrets BY <1>3, SecretsAssumption
  <2>2. "error.type" \notin RemoteFields /\ "error.type" # "url.query" BY DEF RemoteFields
  <2> QED BY <1>0, <1>3, <2>1, <2>2, CleanText
<1>4. CASE /\ res.kind = "ok"
           /\ \E i \in DOMAIN res.headers :
                Captured(res.headers[i]) /\ p = HeaderPair(res.headers[i])
  <2>1. PICK i \in DOMAIN res.headers :
          Captured(res.headers[i]) /\ p = HeaderPair(res.headers[i])
    BY <1>4
  <2> DEFINE h == res.headers[i]
  <2>2. Joined(Readable(h.values)) \notin Secrets
    <3>1. Readable(h.values) # <<>> /\ ~IsSensitiveResponseHeader(h.name)
      BY <2>1, Zenon DEF Captured
    <3>2. Concat(h.name) \notin CredentialHeaders
      BY <3>1 DEF IsSensitiveResponseHeader, CredentialHeaders
    <3> HIDE DEF h
    <3>3. i \in DOMAIN res.headers /\ h = res.headers[i] BY DEF h
    <3> QED BY <1>4, <3>1, <3>2, <3>3, SecretsAssumption
  <2>3. KeyOfHeader(h) \notin RemoteFields /\ KeyOfHeader(h) # "url.query"
    BY <1>4, <2>1, ResponseIs DEF OwnKeys
  <2> HIDE DEF h
  <2>4. p = <<KeyOfHeader(h), Text(Joined(Readable(h.values)))>>
    BY <2>1 DEF HeaderPair, h
  <2> QED BY <1>0, <2>2, <2>3, <2>4, CleanText
<1> QED BY <1>1, <1>2, <1>3, <1>4 DEF AnswerPair

-----------------------------------------------------------------------------
(* The types, and clean contents.                                           *)

\* A list with one more element.
LEMMA AppendedList ==
  ASSUME NEW a, IsList(a), NEW e
  PROVE  /\ IsList(Append(a, e)) /\ Len(Append(a, e)) = Len(a) + 1
         /\ DOMAIN Append(a, e) = 1..(Len(a) + 1) /\ Len(a) \in Nat /\ DOMAIN a = 1..Len(a)
         /\ Append(a, e)[Len(a) + 1] = e
         /\ \A i \in 1..Len(a) : Append(a, e)[i] = a[i]
<1> DEFINE S == {a[i] : i \in DOMAIN a} \cup {e}
           b == Append(a, e)
<1>1. a \in Seq(S) BY WiderList
<1>2. e \in S OBVIOUS
<1>3. Len(a) \in Nat /\ DOMAIN a = 1..Len(a) BY ListIs DEF IsList
<1> HIDE DEF S
<1>4. /\ b \in Seq(S) /\ Len(b) = Len(a) + 1
      /\ \A i \in 1..Len(a) : b[i] = a[i]
      /\ b[Len(a) + 1] = e
  BY <1>1, <1>2, AppendProperties
<1> HIDE DEF b
<1>5. IsList(b) /\ DOMAIN b = 1..(Len(a) + 1) BY <1>4, SomeListIs, LenProperties
<1> QED BY <1>3, <1>4, <1>5 DEF b

\* The entries of the list.
LEMMA SaidIs ==
  ASSUME NEW st, NEW e, NEW f
  PROVE  /\ "field" \notin DOMAIN [stage |-> st, event |-> e]
         /\ Telling([stage |-> st, event |-> e]) <=> st = "open" /\ IsErrorEvent(e)
         /\ [stage |-> st, event |-> e].event = e
         /\ "field" \in DOMAIN [stage |-> st, field |-> f]
         /\ [stage |-> st, field |-> f].field = f
         /\ [stage |-> st, field |-> f].stage = st
<1> DEFINE x == [stage |-> st, event |-> e]
<1>1. DOMAIN x = {"stage", "event"} /\ x.stage = st /\ x.event = e OBVIOUS
<1> HIDE DEF x
<1>2. "field" \notin DOMAIN x /\ "event" \in DOMAIN x BY <1>1
<1>3. Telling(x) <=> st = "open" /\ IsErrorEvent(e)
  BY <1>1, <1>2, Zenon DEF Telling
<1> QED BY <1>1, <1>2, <1>3 DEF x

\* What is so of some entry of the longer list is so of one of the list, or of
\* the new one.
LEMMA SomeThen ==
  ASSUME NEW a, IsList(a), NEW x
  PROVE  LET b == Append(a, x) IN
         /\ Rewritten(b) <=> Rewritten(a) \/ Rewrites(x)
         /\ AnyMeddles(b) <=> AnyMeddles(a) \/ Meddles(x)
         /\ Spoke(b) <=> Spoke(a) \/ Speaks(x)
         /\ Retold(b) <=> Retold(a) \/ Retells(x)
<1> DEFINE b == Append(a, x)
           n == Len(a)
<1>1. /\ n \in Nat /\ DOMAIN a = 1..n /\ DOMAIN b = 1..(n + 1) /\ b[n + 1] = x
      /\ \A i \in 1..n : b[i] = a[i]
  BY AppendedList
<1> HIDE DEF b, n
<1>2. \A i : i \in 1..(n + 1) <=> i \in 1..n \/ i = n + 1 BY <1>1
<1>3. Rewritten(b) <=> Rewritten(a) \/ Rewrites(x) BY <1>1, <1>2 DEF Rewritten
<1>4. AnyMeddles(b) <=> AnyMeddles(a) \/ Meddles(x) BY <1>1, <1>2 DEF AnyMeddles
<1>5. Spoke(b) <=> Spoke(a) \/ Speaks(x) BY <1>1, <1>2 DEF Spoke
<1>6. Retold(b) <=> Retold(a) \/ Retells(x) BY <1>1, <1>2 DEF Retold
<1> QED BY <1>3, <1>4, <1>5, <1>6 DEF b

\* The span after the answer: a span, its pairs, and the status of the outcome.
LEMMA AnsweredIs ==
  ASSUME NEW s, IsSpan(s), NEW res \in Responses
  PROVE  LET r == RecordFields(s, LateFields, FieldsOfAnswer(res)) IN
         /\ IsSpan(r) /\ r.status = Outcome(s, res).status
         /\ \A p \in Pairs(r.attributes) : p \in Pairs(s.attributes) \/ AnswerPair(p, res)
<1> DEFINE r == RecordFields(s, LateFields, FieldsOfAnswer(res))
           m == Outcome(s, res)
<1>1. /\ IsSpan(m)
      /\ \A p \in Pairs(m.attributes) : p \in Pairs(s.attributes) \/ AnswerPair(p, res)
  BY OutcomeIs
<1>2. r = IF res.kind = "err" THEN m
          ELSE RecordFields(m, LateFields, HeaderFields(res.headers))
  BY AnswerIs
<1> HIDE DEF m, r
<1>3. CASE res.kind = "err" BY <1>1, <1>2, <1>3 DEF m, r
<1>4. CASE res.kind = "ok"
  <2>1. r = RecordFields(m, LateFields, HeaderFields(res.headers)) BY <1>2, <1>4
  <2>2. /\ IsSpan(r) /\ r.status = m.status
        /\ \A p \in Pairs(r.attributes) : p \in Pairs(m.attributes) \/ AnswerPair(p, res)
    BY <1>1, <1>4, <2>1, HeadersAre
  <2> QED BY <1>1, <2>2 DEF m, r
<1> QED BY <1>3, <1>4, ResponseIs

\* The initial contents are those of a span that is not there yet.
LEMMA InitKept == Init => IInv
<1> SUFFICES ASSUME Init PROVE IInv
  OBVIOUS
<1>1. /\ stage = "idle" /\ ~Traced /\ ~Answered /\ said = <<>>
  BY DEF Init, Traced, Answered
<1>2. IsSpan(span) BY NewSpanIs DEF Init
<1>3. IsList(said) BY <1>1, ShortLists
<1>4. Typed BY <1>1, <1>2, <1>3 DEF Typed
<1> QED BY <1>1, <1>4 DEF IInv, AllClean, ContextRead, OutcomeRoom, StatusKept

\* Every step leaves the types.
LEMMA TypedKept ==
  ASSUME Typed, Next
  PROVE  Typed'
<1>0. /\ stage \in {"idle", "open", "answered", "closed"}
      /\ stage # "idle" => request \in Requests
      /\ response # NoResponse => response \in Responses /\ stage \in {"answered", "closed"}
      /\ stage = "idle" => said = <<>>
      /\ IsList(said) /\ IsSpan(span)
  BY DEF Typed, Traced, Answered
<1>1. ASSUME NEW req \in Requests, NEW draws, Call(req, draws) PROVE Typed'
  <2>1. IsSpan(span') BY <1>1, CalledIs DEF Call
  <2>2. /\ stage = "idle" /\ stage' = "open" /\ request' = req
        /\ response' = response /\ said' = said
    BY <1>1 DEF Call
  <2> QED BY <1>0, <2>1, <2>2 DEF Typed, Traced, Answered
<1>2. ASSUME NEW e \in HandlerEvents, HandlerEvent(e) PROVE Typed'
  <2>1. IsSpan(span') BY <1>0, <1>2, EventIs DEF HandlerEvent
  <2>2. /\ stage \in {"open", "answered"}
        /\ stage' = stage /\ request' = request /\ response' = response
    BY <1>2 DEF HandlerEvent, Handled
  <2>3. IsList(said') BY <1>0, <1>2, AppendedList DEF HandlerEvent
  <2> QED BY <1>0, <2>1, <2>2, <2>3 DEF Typed, Traced, Answered
<1>3. ASSUME NEW f \in HandlerFields, HandlerRecord(f) PROVE Typed'
  <2>1. IsSpan(span') BY <1>0, <1>3, RecordFieldIs DEF HandlerRecord
  <2>2. /\ stage \in {"open", "answered"}
        /\ stage' = stage /\ request' = request /\ response' = response
    BY <1>3 DEF HandlerRecord, Handled
  <2>3. IsList(said') BY <1>0, <1>3, AppendedList DEF HandlerRecord
  <2> QED BY <1>0, <2>1, <2>2, <2>3 DEF Typed, Traced, Answered
<1>4. ASSUME NEW res \in Responses, Answer(res) PROVE Typed'
  <2>1. IsSpan(span') BY <1>0, <1>4, AnsweredIs DEF Answer
  <2>2. /\ stage = "open" /\ stage' = "answered" /\ request' = request
        /\ response' = res /\ said' = said
    BY <1>4 DEF Answer
  <2> QED BY <1>0, <2>1, <2>2 DEF Typed, Traced, Answered
<1>5. CASE Close
  <2>1. /\ stage \in {"open", "answered"} /\ stage' = "closed" /\ request' = request
        /\ response' = response /\ said' = said /\ span' = span
    BY <1>5 DEF Close
  <2> QED BY <1>0, <2>1 DEF Typed, Traced, Answered
<1> QED BY <1>1, <1>2, <1>3, <1>4, <1>5 DEF Next

\* Every step leaves the contents clean.
LEMMA CleanKept ==
  ASSUME Typed, AllClean, Next
  PROVE  AllClean'
<1>0. /\ IsSpan(span)
      /\ stage # "idle" => request \in Requests
      /\ stage # "idle" => \A p \in Pairs(span.attributes) : CleanIn(p, request, said)
      /\ IsList(said)
  BY DEF Typed, AllClean, Traced, attributes
<1> SUFFICES ASSUME stage' # "idle", NEW p \in Pairs(span'.attributes)
               PROVE  CleanIn(p, request', said')
  BY DEF AllClean, Traced, attributes
<1>1. ASSUME NEW req \in Requests, NEW draws, Call(req, draws)
      PROVE  CleanIn(p, request', said')
  <2>1. p \in DeclaredPairs(req) \/ LatePair(p, req)
    BY <1>1, CalledIs DEF Call
  <2>2. request' = req BY <1>1 DEF Call
  <2> QED BY <2>1, <2>2, CleanCall DEF CleanIn
<1>2. ASSUME NEW e \in HandlerEvents, HandlerEvent(e)
      PROVE  CleanIn(p, request', said')
  <2> DEFINE x == [stage |-> stage, event |-> e]
  <2>1. /\ stage # "idle" /\ request' = request /\ span' = WithEvent(span, e)
        /\ said' = Append(said, x)
    BY <1>2 DEF HandlerEvent, Handled
  <2> HIDE DEF x
  <2>2. \/ span'.attributes = span.attributes
        \/ EventMarked(span.attributes, span'.attributes, Explanation(e))
    BY <1>0, <2>1, EventIs
  <2>3. \/ p \in Pairs(span.attributes)
        \/ p \in {<<StatusCode, Text("error")>>, <<StatusMessage, Text(Explanation(e))>>}
    <3>1. CASE span'.attributes = span.attributes BY <3>1
    <3>2. CASE EventMarked(span.attributes, span'.attributes, Explanation(e))
      BY <3>2, MarkedPairs
    <3> QED BY <2>2, <3>1, <3>2
  <2>4. Rewritten(said) => Rewritten(said') BY <1>0, <2>1, SomeThen
  <2> QED BY <1>0, <2>1, <2>3, <2>4, CleanEvent DEF CleanIn
<1>3. ASSUME NEW f \in HandlerFields, HandlerRecord(f)
      PROVE  CleanIn(p, request', said')
  <2> DEFINE o == Just(f)
             x == [stage |-> stage, field |-> f]
  <2>1. /\ stage # "idle" /\ request' = request /\ said' = Append(said, x)
        /\ span' = RecordField(span, DeclaredFields(request), o)
    BY <1>3 DEF HandlerRecord, Handled
  <2>2. o[1] = f BY OptionIs
  <2>3. "field" \in DOMAIN x /\ x.field = f BY SaidIs
  <2> HIDE DEF o, x
  <2>4. Rewritten(said') <=> Rewritten(said) \/ f.key = "url.query"
    BY <1>0, <2>1, <2>3, SomeThen DEF Rewrites
  <2>5. \/ span' = span
        \/ FieldHandled(span.attributes, span'.attributes, f)
    BY <1>0, <2>1, <2>2, RecordFieldIs
  <2>6. p \in Pairs(span.attributes) \/ p \in Writes(f) BY <2>5, HandledPairs
  <2>7. CASE p \in Pairs(span.attributes) BY <1>0, <2>1, <2>4, <2>7 DEF CleanIn
  <2>8. CASE p \in Writes(f) BY <2>1, <2>4, <2>8, CleanField DEF CleanIn
  <2> QED BY <2>6, <2>7, <2>8
<1>4. ASSUME NEW res \in Responses, Answer(res)
      PROVE  CleanIn(p, request', said')
  <2>1. /\ stage = "open" /\ request' = request /\ said' = said
        /\ span' = RecordFields(span, LateFields, FieldsOfAnswer(res))
    BY <1>4 DEF Answer
  <2>2. p \in Pairs(span.attributes) \/ AnswerPair(p, res)
    BY <1>0, <2>1, AnsweredIs
  <2> QED BY <1>0, <2>1, <2>2, CleanAnswer DEF CleanIn
<1>5. CASE Close
  BY <1>0, <1>5 DEF Close
<1> QED BY <1>1, <1>2, <1>3, <1>4, <1>5 DEF Next

\* What is stored under a key is one of the pairs.
LEMMA StoredPair ==
  ASSUME Typed, NEW k \in Stored
  PROVE  <<k, ValueOf(k)>> \in Pairs(attributes)
<1>1. AreAttributes(attributes) BY DEF Typed, IsSpan, attributes
<1>2. k \in KeysOf(attributes) BY DEF Stored, KeysOf, attributes
<1> QED BY <1>1, <1>2, ValuePaired DEF ValueOf, attributes

\* The redacted query keeps its segments, and no secret.
LEMMA QueryIs ==
  ASSUME NEW req \in Requests
  PROVE  LET kept == SanitizeQuery(req.query) IN
         /\ Len(kept) = Len(req.query)
         /\ \A i \in DOMAIN kept :
              /\ kept[i].key = req.query[i].key
              /\ kept[i].joined = req.query[i].joined
              /\ kept[i].value # req.query[i].value <=> req.query[i].value \in Secrets
<1> DEFINE query == req.query
           kept == SanitizeQuery(query)
           Of(i) == IF HasSensitiveValue(query[i])
                    THEN [query[i] EXCEPT !.value = "REDACTED"] ELSE query[i]
<1>1. /\ IsList(query)
      /\ \A i \in DOMAIN query : DOMAIN query[i] = {"key", "joined", "value"}
  BY RequestsAssumption
<1>2. /\ \A i \in DOMAIN query :
           query[i].value \in Secrets
             <=> /\ query[i].joined
                 /\ Decoded[query[i].key] \in SensitiveQueryParameters
      /\ "REDACTED" \notin Secrets
  BY SecretsAssumption
<1> HIDE DEF query
<1>3. kept = [i \in DOMAIN query |-> Of(i)] BY DEF SanitizeQuery
<1>4. DOMAIN kept = DOMAIN query /\ \A i \in DOMAIN query : kept[i] = Of(i)
  <2> HIDE DEF Of, kept
  <2> QED BY <1>3
<1>5. Len(kept) = Len(query)
  <2> DEFINE S == {Of(i) : i \in DOMAIN query}
             n == Len(query)
  <2>1. n \in Nat /\ DOMAIN query = 1..n BY <1>1, ListIs DEF IsList
  <2>2. \A i \in 1..n : Of(i) \in S BY <2>1
  <2>3. kept = [i \in 1..n |-> Of(i)] BY <1>3, <2>1
  <2> HIDE DEF S, Of, kept
  <2>4. kept \in Seq(S)
    <3> HIDE DEF n
    <3> QED BY <2>1, <2>2, <2>3, IsASeq
  <2> DEFINE m == Len(kept)
  <2>5. m \in Nat /\ DOMAIN kept = 1..m BY <2>4, ListIs
  <2>6. \A i : i \in 1..m <=> i \in 1..n BY <1>4, <2>1, <2>5
  <2> HIDE DEF m, n
  <2>7. ~(m < n) BY <2>1, <2>5, <2>6
  <2>8. ~(n < m) BY <2>1, <2>5, <2>6
  <2>9. m = n BY <2>1, <2>5, <2>7, <2>8
  <2> QED BY <2>9 DEF m, n
<1> HIDE DEF kept
<1>6. ASSUME NEW i \in DOMAIN query
      PROVE  /\ kept[i].key = query[i].key
             /\ kept[i].joined = query[i].joined
             /\ kept[i].value # query[i].value <=> query[i].value \in Secrets
  <2> DEFINE q == query[i]
             r == [q EXCEPT !.value = "REDACTED"]
  <2>1. DOMAIN q = {"key", "joined", "value"} BY <1>1
  <2>2. HasSensitiveValue(q) <=> q.value \in Secrets
    BY <1>2, Zenon DEF HasSensitiveValue, IsSensitiveQueryParameter
  <2>3. kept[i] = IF HasSensitiveValue(q) THEN r ELSE q BY <1>4
  <2> HIDE DEF q
  <2>4. r.key = q.key /\ r.joined = q.joined /\ r.value = "REDACTED" BY <2>1
  <2> HIDE DEF r
  <2>5. q.value \in Secrets => r.value # q.value BY <1>2, <2>4
  <2>6. CASE HasSensitiveValue(q)
    <3>1. kept[i] = r /\ q.value \in Secrets BY <2>2, <2>3, <2>6
    <3> QED BY <2>4, <2>5, <3>1 DEF q
  <2>7. CASE ~HasSensitiveValue(q)
    <3>1. kept[i] = q /\ q.value \notin Secrets BY <2>2, <2>3, <2>7
    <3> QED BY <3>1 DEF q
  <2> QED BY <2>6, <2>7
<1> QED BY <1>4, <1>5, <1>6 DEF kept, query

\* Clean contents hold no secret.
LEMMA CleanMeans ==
  ASSUME Typed, AllClean
  PROVE  SecretsStayOut
<1> SUFFICES ASSUME Traced
             PROVE  /\ \A k \in Stored \ {"url.query"} : ValueOf(k).text \notin Secrets
                    /\ "url.query" \in Stored /\ ~Wrote({"url.query"}) =>
                         LET kept == ValueOf("url.query").text IN
                         /\ Len(kept) = Len(request.query)
                         /\ \A i \in DOMAIN kept :
                              /\ kept[i].key = request.query[i].key
                              /\ kept[i].joined = request.query[i].joined
                              /\ kept[i].value # request.query[i].value
                                   <=> request.query[i].value \in Secrets
  BY DEF SecretsStayOut
<1>1. ASSUME NEW k \in Stored PROVE CleanIn(<<k, ValueOf(k)>>, request, said)
  BY StoredPair DEF AllClean
<1>2. \A k, v : <<k, v>>[1] = k /\ <<k, v>>[2] = v OBVIOUS
<1>3. \A k \in Stored \ {"url.query"} : ValueOf(k).text \notin Secrets
  BY <1>1, <1>2 DEF CleanIn, CleanPair
<1>4. ASSUME "url.query" \in Stored, ~Wrote({"url.query"})
      PROVE  ValueOf("url.query").text = SanitizeQuery(request.query)
  <2>1. ValueOf("url.query") = Text(SanitizeQuery(request.query))
    BY <1>1, <1>2, <1>4 DEF CleanIn, CleanPair, Rewritten, Rewrites, Wrote
  <2> QED BY <2>1 DEF Text
<1>5. request \in Requests BY DEF Typed
<1>6. LET kept == SanitizeQuery(request.query) IN
      /\ Len(kept) = Len(request.query)
      /\ \A i \in DOMAIN kept :
           /\ kept[i].key = request.query[i].key
           /\ kept[i].joined = request.query[i].joined
           /\ kept[i].value # request.query[i].value <=> request.query[i].value \in Secrets
  BY <1>5, QueryIs
<1> QED BY <1>3, <1>4, <1>6

-----------------------------------------------------------------------------
(* The context.                                                             *)

\* The number of a hex text, if it has the length and is not zero.
LEMMA ParseIdIs ==
  ASSUME NEW text, NEW length
  PROVE  /\ ParseId(text, length).ok <=> text.length = length /\ text.hex /\ text.value # 0
         /\ ParseId(text, length).ok => ParseId(text, length).id = text.value
BY DEF ParseId, Rejected, Parsed

\* A traceparent is read just when it is one any peer may write, and then to
\* its three numbers.
LEMMA ParseIs ==
  ASSUME NEW parts
  PROVE  LET tp == ParseTraceparent(parts) IN
         /\ tp.ok <=> Readable00(parts)
         /\ tp.ok => /\ tp.trace_id = parts[2].value /\ tp.parent_id = parts[3].value
                     /\ tp.flags = parts[4].value
<1> DEFINE tp == ParseTraceparent(parts)
           trace == ParseTraceId(parts[2])
           parent == ParseSpanId(parts[3])
           flags == parts[4]
           all == /\ IsVersion00(parts[1]) /\ Len(parts) = 4
                  /\ trace.ok /\ parent.ok /\ flags.length = 2 /\ flags.hex
           read == [ok |-> TRUE, trace_id |-> trace.id, parent_id |-> parent.id,
                    flags |-> flags.value]
<1>1. /\ trace.ok <=> parts[2].length = TraceIdLength /\ parts[2].hex /\ parts[2].value # 0
      /\ trace.ok => trace.id = parts[2].value
  BY ParseIdIs DEF ParseTraceId
<1>2. /\ parent.ok <=> parts[3].length = SpanIdLength /\ parts[3].hex /\ parts[3].value # 0
      /\ parent.ok => parent.id = parts[3].value
  BY ParseIdIs DEF ParseSpanId
<1> HIDE DEF trace, parent
<1>3. CASE all
  <2>1. tp = read BY <1>3, Zenon DEF ParseTraceparent, trace, parent
  <2>2. read.ok /\ read.trace_id = trace.id /\ read.parent_id = parent.id
        /\ read.flags = flags.value
    OBVIOUS
  <2>3. tp.ok /\ tp.trace_id = trace.id /\ tp.parent_id = parent.id /\ tp.flags = flags.value
    BY <2>1, <2>2
  <2>4. Readable00(parts)
    <3>1. parts[1].length = 2 /\ parts[1].hex /\ parts[1].value = 0
      BY <1>3 DEF IsVersion00
    <3>2. \A i \in 1..4 : i = 1 \/ i = 2 \/ i = 3 \/ i = 4 OBVIOUS
    <3>3. \A i \in 1..4 : parts[i].hex BY <1>1, <1>2, <1>3, <3>1, <3>2
    <3> HIDE DEF tp
    <3> QED BY <1>1, <1>2, <1>3, <3>1, <3>3 DEF Readable00
  <2> HIDE DEF tp
  <2> QED BY <1>1, <1>2, <1>3, <2>3, <2>4 DEF tp
<1>4. CASE ~all
  <2>1. tp.ok = FALSE
    <3>1. \E error : tp = Malformed(error)
      BY <1>4, Zenon DEF ParseTraceparent, trace, parent
    <3> HIDE DEF tp
    <3> QED BY <3>1 DEF Malformed
  <2>2. ~Readable00(parts)
    <3> SUFFICES ASSUME Readable00(parts) PROVE all
      BY <1>4
    <3>1. /\ Len(parts) = 4 /\ parts[1].hex /\ parts[2].hex /\ parts[3].hex /\ parts[4].hex
          /\ parts[1].value = 0 /\ parts[2].value # 0 /\ parts[3].value # 0
      BY DEF Readable00
    <3> DEFINE a == parts[1].length
               b == parts[2].length
               c == parts[3].length
               d == parts[4].length
               x == <<a, b, c, d>>
               y == <<2, TraceIdLength, SpanIdLength, 2>>
    <3>2. x = y BY DEF Readable00
    <3>3. x[1] = y[1] /\ x[2] = y[2] /\ x[3] = y[3] /\ x[4] = y[4] BY <3>2
    <3>4. x[1] = a /\ x[2] = b /\ x[3] = c /\ x[4] = d OBVIOUS
    <3>5. y[1] = 2 /\ y[2] = TraceIdLength /\ y[3] = SpanIdLength /\ y[4] = 2 OBVIOUS
    <3>6. a = 2 /\ b = TraceIdLength /\ c = SpanIdLength /\ d = 2 BY <3>3, <3>4, <3>5
    <3> QED BY <1>1, <1>2, <3>1, <3>6 DEF IsVersion00
  <2> HIDE DEF tp
  <2> QED BY <2>1, <2>2 DEF tp
<1> QED BY <1>3, <1>4

\* What is written of a traceparent is read to the same identifiers and the
\* sampled bit.
LEMMA RoundTrip ==
  ASSUME NEW tp, tp.trace_id # 0, tp.parent_id # 0, tp.flags \in Nat
  PROVE  LET again == ParseTraceparent(DisplayTraceparent(tp)) IN
         /\ again.trace_id = tp.trace_id /\ again.parent_id = tp.parent_id
         /\ again.flags = tp.flags % 2
<1> DEFINE a == HexText(2, TRUE, 0, FALSE)
           b == DisplayTraceId(tp.trace_id)
           c == DisplaySpanId(tp.parent_id)
           d == HexText(2, TRUE, FromSampled(IsSampled(tp.flags)), FALSE)
           parts == <<a, b, c, d>>
<1>1. DisplayTraceparent(tp) = parts BY DEF DisplayTraceparent
<1>2. /\ a.length = 2 /\ a.hex /\ a.value = 0
      /\ b.length = TraceIdLength /\ b.hex /\ b.value = tp.trace_id
      /\ c.length = SpanIdLength /\ c.hex /\ c.value = tp.parent_id
      /\ d.length = 2 /\ d.hex
  BY DEF HexText, DisplayTraceId, DisplaySpanId
<1>3. d.value = tp.flags % 2
  <2>1. tp.flags % 2 \in {0, 1} OBVIOUS
  <2>2. d.value = FromSampled(IsSampled(tp.flags)) BY DEF HexText
  <2> QED BY <2>1, <2>2 DEF FromSampled, IsSampled
<1> HIDE DEF a, b, c, d
<1>4. Len(parts) = 4 OBVIOUS
<1>5. parts[1] = a /\ parts[2] = b OBVIOUS
<1>6. parts[3] = c /\ parts[4] = d OBVIOUS
<1> HIDE DEF parts
<1>7. Readable00(parts)
  <2>1. \A i \in 1..4 : i = 1 \/ i = 2 \/ i = 3 \/ i = 4 OBVIOUS
  <2>2. \A i \in 1..4 : parts[i].hex BY <1>2, <1>5, <1>6, <2>1
  <2>3. <<parts[1].length, parts[2].length, parts[3].length, parts[4].length>>
          = <<2, TraceIdLength, SpanIdLength, 2>>
    BY <1>2, <1>5, <1>6
  <2> QED BY <1>2, <1>4, <1>5, <1>6, <2>2, <2>3 DEF Readable00
<1> QED BY <1>1, <1>2, <1>3, <1>5, <1>6, <1>7, ParseIs

\* The greatest of one number.
LEMMA OnlyOne ==
  ASSUME NEW n \in Nat, NEW S, \A x : x \in S <=> x = n
  PROVE  S # {} /\ Max(S) = n
<1>1. n \in S /\ \A y \in S : n >= y OBVIOUS
<1>2. Max(S) \in S BY <1>1, Zenon DEF Max
<1> QED BY <1>1, <1>2

\* Where the only field of a name is.
LEMMA LastSaidIs ==
  ASSUME NEW fields, NEW key, NEW bys, NEW at \in 1..Len(fields), Len(fields) \in Nat,
         fields[at].key = key, fields[at].by \in bys,
         \A i \in 1..Len(fields) : fields[i].key = key => i = at
  PROVE  LastSaid(fields, key, bys) = at
<1> DEFINE I == {i \in 1..Len(fields) : fields[i].key = key /\ fields[i].by \in bys}
<1>1. \A x : x \in I <=> x = at OBVIOUS
<1>2. LastSaid(fields, key, bys) = IF I # {} THEN Max(I) ELSE 0
  BY DEF LastSaid, SelectLastInSeq
<1> HIDE DEF I
<1>3. at \in Nat OBVIOUS
<1> QED BY <1>1, <1>2, <1>3, OnlyOne

\* The identifier the only field of a name says, or none.
LEMMA SaidIdIs ==
  ASSUME NEW fields, NEW key, NEW length, NEW at \in 1..Len(fields), Len(fields) \in Nat,
         fields[at].key = key, fields[at].by \in {"str", "debug"},
         ParseId(fields[at].text, length).ok,
         \A i \in 1..Len(fields) : fields[i].key = key => i = at
  PROVE  SaidId(fields, key, length) = Just(ParseId(fields[at].text, length).id)
<1> DEFINE I == {i \in 1..Len(fields) :
                   /\ fields[i].key = key /\ fields[i].by \in {"str", "debug"}
                   /\ ParseId(fields[i].text, length).ok}
           last == IF I # {} THEN Max(I) ELSE 0
<1>1. \A x : x \in I <=> x = at OBVIOUS
<1>2. SaidId(fields, key, length)
        = IF last = 0 THEN Nothing ELSE Just(ParseId(fields[last].text, length).id)
  BY DEF SaidId, SelectLastInSeq
<1> HIDE DEF I
<1>3. at \in Nat /\ at # 0 OBVIOUS
<1>4. last = at BY <1>1, <1>3, OnlyOne
<1> HIDE DEF last
<1> QED BY <1>2, <1>3, <1>4

\* No field, no identifier.
LEMMA NotSaid ==
  ASSUME NEW fields, NEW key, NEW length, \A i \in 1..Len(fields) : fields[i].key # key
  PROVE  SaidId(fields, key, length) = Nothing
<1> DEFINE I == {i \in 1..Len(fields) :
                   /\ fields[i].key = key /\ fields[i].by \in {"str", "debug"}
                   /\ ParseId(fields[i].text, length).ok}
           last == IF I # {} THEN Max(I) ELSE 0
<1>1. I = {} OBVIOUS
<1>2. SaidId(fields, key, length)
        = IF last = 0 THEN Nothing ELSE Just(ParseId(fields[last].text, length).id)
  BY DEF SaidId, SelectLastInSeq
<1> QED BY <1>1, <1>2

\* The trimmed tracestate, as the layer reads it back from its field.
LEMMA TraceStateIs ==
  ASSUME NEW raw,
         raw # Nothing => /\ DOMAIN raw[1] = {"value", "padded", "length"}
                          /\ raw[1].length \in Nat
  PROVE  LET kept  == IF raw = Nothing THEN Nothing ELSE FromHeader(raw[1])
             state == FromHeader(IF kept = Nothing THEN NoState ELSE kept[1])
         IN /\ state # Nothing <=>
                 raw # Nothing /\ raw[1].length # 0 /\ raw[1].length <= MaxTraceStateLen
            /\ state # Nothing => state[1].value = raw[1].value /\ ~state[1].padded
<1> DEFINE kept  == IF raw = Nothing THEN Nothing ELSE FromHeader(raw[1])
           text  == IF kept = Nothing THEN NoState ELSE kept[1]
           state == FromHeader(text)
           fits(x) == x.length # 0 /\ x.length <= MaxTraceStateLen
<1>0. MaxTraceStateLen \in Nat BY LengthAssumption
<1>1. ASSUME NEW x, DOMAIN x = {"value", "padded", "length"}, x.length \in Nat
      PROVE  /\ fits(x) => /\ FromHeader(x) # Nothing
                           /\ DOMAIN FromHeader(x)[1] = DOMAIN x
                           /\ FromHeader(x)[1].value = x.value
                           /\ FromHeader(x)[1].length = x.length
                           /\ FromHeader(x)[1].padded = FALSE
             /\ ~fits(x) => FromHeader(x) = Nothing
  <2> DEFINE y == [x EXCEPT !.padded = FALSE]
  <2>1. /\ DOMAIN y = DOMAIN x /\ y.value = x.value /\ y.length = x.length
        /\ y.padded = FALSE
    BY <1>1
  <2> HIDE DEF y
  <2>2. Just(y) # Nothing /\ Just(y)[1] = y BY OptionIs
  <2>3. fits(x) <=> ~(x.length = 0 \/ x.length > MaxTraceStateLen) BY <1>0, <1>1
  <2>4. FromHeader(x) = IF x.length = 0 \/ x.length > MaxTraceStateLen THEN Nothing
                        ELSE Just(y)
    BY DEF FromHeader, y
  <2> QED BY <2>1, <2>2, <2>3, <2>4
<1> HIDE DEF fits
<1>2. CASE raw # Nothing /\ fits(raw[1])
  <2>1. /\ kept # Nothing /\ DOMAIN kept[1] = DOMAIN raw[1]
        /\ kept[1].value = raw[1].value /\ kept[1].length = raw[1].length
    BY <1>1, <1>2
  <2>2. text = kept[1] BY <2>1
  <2> HIDE DEF kept, text
  <2>3. DOMAIN text = {"value", "padded", "length"} /\ text.length \in Nat /\ fits(text)
    BY <1>2, <2>1, <2>2 DEF fits
  <2>4. state # Nothing /\ state[1].value = text.value /\ state[1].padded = FALSE
    BY <1>1, <2>3
  <2> HIDE DEF state
  <2>5. state[1].value = raw[1].value BY <2>1, <2>2, <2>4
  <2> QED BY <1>2, <2>4, <2>5 DEF fits, state, text, kept
<1>3. CASE ~(raw # Nothing /\ fits(raw[1]))
  <2>1. kept = Nothing BY <1>1, <1>3
  <2>2. text = NoState BY <2>1
  <2>3. state = Nothing
    <3>1. NoState.length = 0 BY DEF NoState
    <3> HIDE DEF text
    <3> QED BY <2>2, <3>1 DEF FromHeader
  <2> HIDE DEF state
  <2> QED BY <1>3, <2>3 DEF fits, state, text, kept
<1> QED BY <1>2, <1>3

\* One of the two draws is a fresh identifier that is not zero.
LEMMA Drawn ==
  ASSUME NEW first, NEW second, first # 0 \/ second # 0
  PROVE  Generate(<<first, second>>) # 0
<1> DEFINE draws == <<first, second>>
           I == {i \in 1..Len(draws) : draws[i] # 0}
           at == IF I # {} THEN Min(I) ELSE 0
<1>1. Len(draws) = 2 OBVIOUS
<1>2. draws[1] = first /\ draws[2] = second OBVIOUS
<1>3. Generate(draws) = draws[at] BY DEF Generate, SelectInSeq
<1> HIDE DEF draws
<1>4. I # {} /\ I \subseteq Nat
  <2>1. 1 \in 1..Len(draws) /\ 2 \in 1..Len(draws) BY <1>1
  <2>2. CASE first # 0 BY <1>2, <2>1, <2>2
  <2>3. CASE second # 0 BY <1>2, <2>1, <2>3
  <2> QED BY <2>2, <2>3
<1>5. Min(I) \in I
  <2> HIDE DEF I
  <2> QED BY <1>4, LeastIs
<1> QED BY <1>3, <1>4, <1>5 DEF draws

\* The fields of call: seven that are not remote, and none or four that are.
LEMMA CallFields ==
  ASSUME NEW req
  PROVE  LET fields == DeclaredWith(req) \o RemoteOf(req) IN
         /\ Len(fields) \in Nat
         /\ RemoteOf(req) = <<>> =>
              \A i \in 1..Len(fields) : fields[i].key \notin RemoteFields
         /\ \A tp, state : RemoteOf(req) = RemoteFieldsOf(tp, state) =>
              LET list == RemoteFieldsOf(tp, state) IN
              /\ Len(fields) = 11
              /\ \A i \in 1..7 : fields[i].key \notin RemoteFields
              /\ fields[8] = list[1] /\ fields[9] = list[2]
              /\ fields[10] = list[3] /\ fields[11] = list[4]
<1> DEFINE x == DeclaredWith(req)
           y == RemoteOf(req)
           fields == x \o y
<1>1. /\ IsList(x) /\ Len(x) = 7
      /\ \A i \in DOMAIN x : x[i].key \notin RemoteFields
  BY DeclaredIs
<1>2. IsList(y) BY RemoteIs
<1>3. /\ Len(y) \in Nat /\ DOMAIN x = 1..7
  BY <1>1, <1>2, ListIs DEF IsList
<1> HIDE DEF x, y
<1>4. /\ Len(fields) = 7 + Len(y)
      /\ \A i \in 1..(7 + Len(y)) : fields[i] = IF i <= 7 THEN x[i] ELSE y[i - 7]
  <2>1. /\ Len(fields) = Len(x) + Len(y)
        /\ \A i \in 1..(Len(x) + Len(y)) : fields[i] = IF i <= Len(x) THEN x[i] ELSE y[i - Len(x)]
    BY <1>1, <1>2, JoinedLists
  <2> HIDE DEF fields
  <2> QED BY <1>1, <2>1
<1> HIDE DEF fields
<1>5. ASSUME y = <<>> PROVE \A i \in 1..Len(fields) : fields[i].key \notin RemoteFields
  <2>1. Len(y) = 0 BY <1>5
  <2> QED BY <1>1, <1>3, <1>4, <2>1
<1>6. ASSUME NEW tp, NEW state, y = RemoteFieldsOf(tp, state)
      PROVE  LET list == RemoteFieldsOf(tp, state) IN
             /\ Len(fields) = 11
             /\ \A i \in 1..7 : fields[i].key \notin RemoteFields
             /\ fields[8] = list[1] /\ fields[9] = list[2]
             /\ fields[10] = list[3] /\ fields[11] = list[4]
  <2>1. Len(y) = 4 BY <1>6 DEF RemoteFieldsOf
  <2>2. \A i \in 1..7 : fields[i].key \notin RemoteFields BY <1>1, <1>3, <1>4, <2>1
  <2>3. \A i \in 8..11 : fields[i] = y[i - 7] BY <1>4, <2>1
  <2>4. fields[8] = y[1] /\ fields[9] = y[2] /\ fields[10] = y[3] /\ fields[11] = y[4]
    BY <2>3
  <2> QED BY <1>4, <1>6, <2>1, <2>2, <2>4
<1> QED BY <1>3, <1>4, <1>5, <1>6 DEF fields, x, y

\* The headers of a request are lists, and what they hold has its numbers.
LEMMA RequestIs ==
  ASSUME NEW req \in Requests
  PROVE  LET header == FirstOf(req.traceparent)
             state  == FirstOf(req.tracestate)
             parts  == req.traceparent[1].text
         IN /\ header # Nothing <=> req.traceparent # <<>> /\ req.traceparent[1].ascii
            /\ header # Nothing =>
                 /\ header[1] = parts
                 /\ Readable00(parts) => parts[4].value \in Nat
            /\ state # Nothing =>
                 /\ DOMAIN state[1] = {"value", "padded", "length"}
                 /\ state[1].length \in Nat
                 /\ state[1].length = 0 <=> state[1].value = ""
<1> DEFINE h == req.traceparent
           t == req.tracestate
<1>1. /\ IsList(h) /\ IsList(t)
      /\ \A i \in DOMAIN h :
           LET parts == h[i].text IN
           IsList(parts) /\ \A j \in DOMAIN parts : parts[j].value \in Nat
      /\ \A i \in DOMAIN t :
           LET raw == t[i].text IN
           /\ DOMAIN raw = {"value", "padded", "length"} /\ raw.length \in Nat
           /\ raw.length = 0 <=> raw.value = ""
  BY RequestsAssumption
<1> HIDE DEF h, t
<1>2. ASSUME NEW v, IsList(v)
      PROVE  /\ FirstOf(v) # Nothing <=> v # <<>> /\ v[1].ascii
             /\ FirstOf(v) # Nothing => FirstOf(v)[1] = v[1].text
             /\ v # <<>> => 1 \in DOMAIN v
  <2>1. Len(v) \in Nat /\ DOMAIN v = 1..Len(v) BY <1>2, ListIs DEF IsList
  <2>2. v # <<>> => Len(v) # 0
    <3>1. v \in Seq({v[i] : i \in DOMAIN v}) BY <1>2 DEF IsList
    <3> QED BY <3>1, EmptySeq
  <2>3. v # <<>> => 1 \in DOMAIN v BY <2>1, <2>2
  <2>4. Just(v[1].text) # Nothing /\ Just(v[1].text)[1] = v[1].text BY OptionIs
  <2> QED BY <2>3, <2>4 DEF FirstOf
<1>3. ASSUME FirstOf(h) # Nothing, Readable00(h[1].text)
      PROVE  h[1].text[4].value \in Nat
  <2> DEFINE parts == h[1].text
  <2>1. IsList(parts) /\ \A j \in DOMAIN parts : parts[j].value \in Nat
    BY <1>1, <1>2, <1>3
  <2>2. Len(parts) = 4 BY <1>3 DEF Readable00
  <2> HIDE DEF parts
  <2>3. DOMAIN parts = 1..4 BY <2>1, <2>2, ListIs DEF IsList
  <2>4. parts[4].value \in Nat BY <2>1, <2>3
  <2> QED BY <2>4 DEF parts
<1>4. FirstOf(t) # Nothing =>
        /\ DOMAIN FirstOf(t)[1] = {"value", "padded", "length"}
        /\ FirstOf(t)[1].length \in Nat
        /\ FirstOf(t)[1].length = 0 <=> FirstOf(t)[1].value = ""
  <2> SUFFICES ASSUME FirstOf(t) # Nothing
               PROVE  /\ DOMAIN FirstOf(t)[1] = {"value", "padded", "length"}
                      /\ FirstOf(t)[1].length \in Nat
                      /\ FirstOf(t)[1].length = 0 <=> FirstOf(t)[1].value = ""
    OBVIOUS
  <2> DEFINE raw == t[1].text
  <2>1. FirstOf(t)[1] = raw /\ 1 \in DOMAIN t BY <1>1, <1>2
  <2>2. /\ DOMAIN raw = {"value", "padded", "length"} /\ raw.length \in Nat
        /\ raw.length = 0 <=> raw.value = ""
    BY <1>1, <2>1
  <2> HIDE DEF raw
  <2> QED BY <2>1, <2>2
<1>5. /\ FirstOf(h) # Nothing <=> h # <<>> /\ h[1].ascii
      /\ FirstOf(h) # Nothing => FirstOf(h)[1] = h[1].text
  BY <1>1, <1>2
<1> QED BY <1>3, <1>4, <1>5 DEF h, t

\* The context of call is the one that came, or a fresh one.
LEMMA CallContext ==
  ASSUME NEW req \in Requests, NEW first, NEW second, first # 0 \/ second # 0
  PROVE  Arrived(req, ContextOf(DeclaredWith(req) \o RemoteOf(req), <<first, second>>))
<1> DEFINE fields == DeclaredWith(req) \o RemoteOf(req)
           draws  == <<first, second>>
           c      == ContextOf(fields, draws)
           header == FirstOf(req.traceparent)
           parts  == req.traceparent[1].text
           tp     == ParseTraceparent(parts)
           raw    == FirstOf(req.tracestate)
           kept   == IF raw = Nothing THEN Nothing ELSE FromHeader(raw[1])
           text   == IF kept = Nothing THEN NoState ELSE kept[1]
           state  == FromHeader(text)
           good   == req.traceparent # <<>> /\ req.traceparent[1].ascii /\ Readable00(parts)
           trace  == SaidId(fields, "remote.trace_id", TraceIdLength)
<1>1. /\ header # Nothing <=> req.traceparent # <<>> /\ req.traceparent[1].ascii
      /\ header # Nothing => /\ header[1] = parts
                             /\ Readable00(parts) => parts[4].value \in Nat
      /\ raw # Nothing => /\ DOMAIN raw[1] = {"value", "padded", "length"}
                          /\ raw[1].length \in Nat
                          /\ raw[1].length = 0 <=> raw[1].value = ""
  BY RequestIs
<1>2. /\ tp.ok <=> Readable00(parts)
      /\ tp.ok => /\ tp.trace_id = parts[2].value /\ tp.parent_id = parts[3].value
                  /\ tp.flags = parts[4].value
  BY ParseIs
<1>3. good <=> header # Nothing /\ tp.ok BY <1>1, <1>2
<1>4. RemoteOf(req) = IF good THEN RemoteFieldsOf(tp, kept) ELSE <<>>
  <2>1. RemoteOf(req) = IF header = Nothing THEN <<>>
                        ELSE IF ~ParseTraceparent(header[1]).ok THEN <<>>
                        ELSE RemoteFieldsOf(ParseTraceparent(header[1]), kept)
    BY DEF RemoteOf
  <2> HIDE DEF header, kept, tp, good
  <2>2. CASE header = Nothing BY <1>3, <2>1, <2>2
  <2>3. CASE header # Nothing
    <3>1. ParseTraceparent(header[1]) = tp BY <1>1, <2>3 DEF tp
    <3> QED BY <1>3, <2>1, <2>3, <3>1
  <2> QED BY <2>2, <2>3
<1>5. /\ Len(fields) \in Nat
      /\ RemoteOf(req) = <<>> => \A i \in 1..Len(fields) : fields[i].key \notin RemoteFields
      /\ \A u, v : RemoteOf(req) = RemoteFieldsOf(u, v) =>
           LET list == RemoteFieldsOf(u, v) IN
           /\ Len(fields) = 11
           /\ \A i \in 1..7 : fields[i].key \notin RemoteFields
           /\ fields[8] = list[1] /\ fields[9] = list[2]
           /\ fields[10] = list[3] /\ fields[11] = list[4]
  BY CallFields
<1> HIDE DEF fields
<1>6. CASE ~good
  <2>1. \A i \in 1..Len(fields) : fields[i].key \notin RemoteFields
    <3> HIDE DEF good
    <3> QED BY <1>4, <1>5, <1>6
  <2>2. trace = Nothing BY <2>1, NotSaid DEF RemoteFields
  <2>3. ExtractRemoteParent(fields) = Nothing
    <3> HIDE DEF trace
    <3> QED BY <2>2, Zenon DEF ExtractRemoteParent, trace
  <2>4. c = [trace_id |-> Generate(draws), parent_span_id |-> Nothing,
             is_sampled |-> TRUE, trace_state |-> Nothing]
    BY <2>3 DEF ContextOf
  <2>5. Generate(draws) # 0 BY Drawn
  <2> HIDE DEF draws
  <2>6. /\ c.trace_id # 0 /\ c.parent_span_id = Nothing /\ c.is_sampled
        /\ c.trace_state = Nothing
    BY <2>4, <2>5
  <2> HIDE DEF c
  <2> QED BY <1>6, <2>6 DEF Arrived, c, fields, draws
<1>7. CASE good
  <2>1. header # Nothing /\ tp.ok /\ Readable00(parts) /\ parts[4].value \in Nat
        /\ parts[2].value # 0 /\ parts[3].value # 0
    BY <1>1, <1>3, <1>7 DEF Readable00
  <2> DEFINE list == RemoteFieldsOf(tp, kept)
  <2>2. /\ Len(fields) = 11
        /\ \A i \in 1..7 : fields[i].key \notin RemoteFields
        /\ fields[8] = list[1] /\ fields[9] = list[2]
        /\ fields[10] = list[3] /\ fields[11] = list[4]
    <3>1. RemoteOf(req) = RemoteFieldsOf(tp, kept) BY <1>4, <1>7
    <3> HIDE DEF tp, kept
    <3> QED BY <1>5, <3>1
  <2>3. /\ fields[8].key = "remote.trace_id" /\ fields[8].by = "debug"
        /\ fields[8].text = DisplayTraceId(tp.trace_id)
        /\ fields[9].key = "remote.parent_span_id" /\ fields[9].by = "debug"
        /\ fields[9].text = DisplaySpanId(tp.parent_id)
        /\ fields[10].key = "remote.sampled" /\ fields[10].by = "bool"
        /\ fields[10].text = IsSampled(tp.flags)
        /\ fields[11].key = "remote.trace_state" /\ fields[11].by = "str"
        /\ fields[11].text = text
    <3> DEFINE A == [key |-> "remote.trace_id", by |-> "debug",
                     text |-> DisplayTraceId(tp.trace_id)]
               B == [key |-> "remote.parent_span_id", by |-> "debug",
                     text |-> DisplaySpanId(tp.parent_id)]
               C == [key |-> "remote.sampled", by |-> "bool", text |-> IsSampled(tp.flags)]
               D == [key |-> "remote.trace_state", by |-> "str", text |-> text]
    <3>1. list = <<A, B, C, D>> BY DEF RemoteFieldsOf
    <3> HIDE DEF list
    <3>2. /\ A.key = "remote.trace_id" /\ A.by = "debug"
          /\ A.text = DisplayTraceId(tp.trace_id)
      OBVIOUS
    <3>3. /\ B.key = "remote.parent_span_id" /\ B.by = "debug"
          /\ B.text = DisplaySpanId(tp.parent_id)
      OBVIOUS
    <3>4. C.key = "remote.sampled" /\ C.by = "bool" /\ C.text = IsSampled(tp.flags)
      OBVIOUS
    <3>5. D.key = "remote.trace_state" /\ D.by = "str" /\ D.text = text
      OBVIOUS
    <3> HIDE DEF A, B, C, D, tp, text
    <3>6. list[1] = A /\ list[2] = B BY <3>1
    <3>7. list[3] = C /\ list[4] = D BY <3>1
    <3> QED BY <2>2, <3>2, <3>3, <3>4, <3>5, <3>6, <3>7
  <2> HIDE DEF list, text
  <2>4. \A i \in 1..11 : \/ fields[i].key \notin RemoteFields
                         \/ i = 8 \/ i = 9 \/ i = 10 \/ i = 11
    BY <2>2
  <2>5. trace = Just(parts[2].value)
    <3> DEFINE t == DisplayTraceId(tp.trace_id)
    <3>1. t.length = TraceIdLength /\ t.hex /\ t.value = parts[2].value
      BY <1>2, <2>1 DEF DisplayTraceId, HexText
    <3> HIDE DEF t
    <3>2. ParseId(t, TraceIdLength).ok /\ ParseId(t, TraceIdLength).id = parts[2].value
      BY <2>1, <3>1, ParseIdIs
    <3>3. \A i \in 1..Len(fields) : fields[i].key = "remote.trace_id" => i = 8
      BY <2>2, <2>3, <2>4 DEF RemoteFields
    <3>4. 8 \in 1..Len(fields) /\ Len(fields) \in Nat BY <2>2
    <3>5. fields[8].text = t BY <2>3 DEF t
    <3>6. fields[8].key = "remote.trace_id" /\ fields[8].by \in {"str", "debug"}
      BY <2>3
    <3>7. ParseId(fields[8].text, TraceIdLength).ok BY <3>2, <3>5
    <3>8. trace = Just(ParseId(fields[8].text, TraceIdLength).id)
      BY <3>3, <3>4, <3>6, <3>7, SaidIdIs
    <3> QED BY <3>2, <3>5, <3>8
  <2>6. SaidId(fields, "remote.parent_span_id", SpanIdLength) = Just(parts[3].value)
    <3> DEFINE t == DisplaySpanId(tp.parent_id)
    <3>1. t.length = SpanIdLength /\ t.hex /\ t.value = parts[3].value
      BY <1>2, <2>1 DEF DisplaySpanId, HexText
    <3> HIDE DEF t
    <3>2. ParseId(t, SpanIdLength).ok /\ ParseId(t, SpanIdLength).id = parts[3].value
      BY <2>1, <3>1, ParseIdIs
    <3>3. \A i \in 1..Len(fields) : fields[i].key = "remote.parent_span_id" => i = 9
      BY <2>2, <2>3, <2>4 DEF RemoteFields
    <3>4. 9 \in 1..Len(fields) /\ Len(fields) \in Nat BY <2>2
    <3>5. fields[9].text = t BY <2>3 DEF t
    <3>6. fields[9].key = "remote.parent_span_id" /\ fields[9].by \in {"str", "debug"}
      BY <2>3
    <3>7. ParseId(fields[9].text, SpanIdLength).ok BY <3>2, <3>5
    <3>8. SaidId(fields, "remote.parent_span_id", SpanIdLength)
            = Just(ParseId(fields[9].text, SpanIdLength).id)
      BY <3>3, <3>4, <3>6, <3>7, SaidIdIs
    <3> QED BY <3>2, <3>5, <3>8
  <2>7. LastSaid(fields, "remote.sampled", {"bool", "str"}) = 10
    <3>1. \A i \in 1..Len(fields) : fields[i].key = "remote.sampled" => i = 10
      BY <2>2, <2>3, <2>4 DEF RemoteFields
    <3>2. 10 \in 1..Len(fields) /\ Len(fields) \in Nat BY <2>2
    <3> DEFINE bys == {"bool", "str"}
    <3>3. fields[10].key = "remote.sampled" /\ fields[10].by \in bys BY <2>3
    <3> HIDE DEF bys
    <3>4. LastSaid(fields, "remote.sampled", bys) = 10
      BY <3>1, <3>2, <3>3, LastSaidIs
    <3> QED BY <3>4 DEF bys
  <2>8. LastSaid(fields, "remote.trace_state", {"str"}) = 11
    <3>1. \A i \in 1..Len(fields) : fields[i].key = "remote.trace_state" => i = 11
      BY <2>2, <2>3, <2>4 DEF RemoteFields
    <3>2. 11 \in 1..Len(fields) /\ Len(fields) \in Nat BY <2>2
    <3>3. fields[11].key = "remote.trace_state" /\ fields[11].by \in {"str"} BY <2>3
    <3> QED BY <3>1, <3>2, <3>3, LastSaidIs
  <2> DEFINE parent == SaidId(fields, "remote.parent_span_id", SpanIdLength)
             sampled == 10 = 0 \/ fields[10].text
             own == [trace_id |-> trace[1], parent_span_id |-> parent,
                     is_sampled |-> sampled, trace_state |-> state]
  <2>9. ExtractRemoteParent(fields) = Just(own)
    <3>1. trace # Nothing BY <2>5, OptionIs
    <3>2. fields[11].text = text BY <2>3
    <3>3. 11 # 0 OBVIOUS
    <3> HIDE DEF trace, parent
    <3> QED BY <2>7, <2>8, <3>1, <3>2, <3>3, Zenon DEF ExtractRemoteParent, trace, parent
  <2>10. c = own
    <3> HIDE DEF own
    <3>1. Just(own) # Nothing /\ Just(own)[1] = own BY OptionIs
    <3> QED BY <2>9, <3>1 DEF ContextOf
  <2>11. own.trace_id = trace[1] /\ own.parent_span_id = parent
         /\ (own.is_sampled <=> sampled) /\ own.trace_state = state
    <3> HIDE DEF trace, parent, sampled, state
    <3> QED OBVIOUS
  <2>12. trace[1] = parts[2].value
    <3> HIDE DEF trace
    <3> QED BY <2>5, OptionIs
  <2>13. sampled <=> parts[4].value % 2 = 1
    <3>1. fields[10].text = IsSampled(tp.flags) /\ tp.flags = parts[4].value
      BY <1>2, <2>1, <2>3
    <3> HIDE DEF tp, parts
    <3>2. 10 # 0 OBVIOUS
    <3>3. sampled <=> fields[10].text BY <3>2, Zenon
    <3>4. IsSampled(parts[4].value) <=> parts[4].value % 2 = 1 BY Zenon DEF IsSampled
    <3>5. fields[10].text = IsSampled(parts[4].value) BY <3>1, Zenon
    <3> HIDE DEF sampled
    <3>6. fields[10].text <=> parts[4].value % 2 = 1 BY <3>4, <3>5, Zenon
    <3> QED BY <3>3, <3>6, Zenon
  <2>14. /\ state # Nothing <=>
              raw # Nothing /\ raw[1].value # "" /\ raw[1].length <= MaxTraceStateLen
         /\ state # Nothing => state[1].value = raw[1].value /\ ~state[1].padded
    <3>1. /\ state # Nothing <=>
               raw # Nothing /\ raw[1].length # 0 /\ raw[1].length <= MaxTraceStateLen
          /\ state # Nothing => state[1].value = raw[1].value /\ ~state[1].padded
      <4> HIDE DEF raw
      <4> QED BY <1>1, TraceStateIs DEF text
    <3> HIDE DEF raw, state
    <3> QED BY <1>1, <3>1
  <2>15. LET again == ParseTraceparent(DisplayTraceparent(tp)) IN
         /\ again.trace_id = parts[2].value /\ again.parent_id = parts[3].value
         /\ again.flags = parts[4].value % 2
    <3>1. /\ tp.trace_id = parts[2].value /\ tp.parent_id = parts[3].value
          /\ tp.flags = parts[4].value
      BY <1>2, <2>1
    <3> HIDE DEF tp, parts
    <3>2. tp.trace_id # 0 /\ tp.parent_id # 0 /\ tp.flags \in Nat BY <2>1, <3>1
    <3> QED BY <3>1, <3>2, RoundTrip
  <2> HIDE DEF own, trace, parent, sampled, state
  <2>16. /\ c.trace_id = parts[2].value /\ c.parent_span_id = Just(parts[3].value)
         /\ (c.is_sampled <=> parts[4].value % 2 = 1) /\ c.trace_state = state
    BY <2>6, <2>10, <2>11, <2>12, <2>13 DEF parent
  <2> HIDE DEF c, raw, tp
  <2> DEFINE again == ParseTraceparent(DisplayTraceparent(tp))
  <2>17. /\ again.trace_id = parts[2].value /\ again.parent_id = parts[3].value
         /\ again.flags = parts[4].value % 2
    BY <2>15
  <2> HIDE DEF again
  <2>18. /\ c.trace_state # Nothing <=>
              raw # Nothing /\ raw[1].value # "" /\ raw[1].length <= MaxTraceStateLen
         /\ c.trace_state # Nothing =>
              c.trace_state[1].value = raw[1].value /\ ~c.trace_state[1].padded
    BY <2>14, <2>16
  <2>19. c.trace_id # 0 BY <2>1, <2>16
  <2>20. Arrived(req, c)
    <3>1. again = ParseTraceparent(DisplayTraceparent(ParseTraceparent(req.traceparent[1].text)))
      BY DEF again, tp
    <3> HIDE DEF parts
    <3> QED BY <1>7, <2>16, <2>17, <2>18, <2>19, <3>1, Zenon DEF Arrived, raw, parts
  <2> QED BY <2>20 DEF c, fields, draws
<1> QED BY <1>6, <1>7

\* Every step leaves the context the one the request brought.
LEMMA ContextKept ==
  ASSUME Typed, ContextRead, Next
  PROVE  ContextRead'
<1>0. stage # "idle" => Arrived(request, context)
  BY DEF ContextRead, Traced
<1>1. ASSUME NEW req \in Requests, NEW first, NEW second, first # 0 \/ second # 0,
             Call(req, <<first, second>>)
      PROVE  ContextRead'
  <2> DEFINE c == ContextOf(DeclaredWith(req) \o RemoteOf(req), <<first, second>>)
  <2>1. Arrived(req, c) BY <1>1, CallContext
  <2>2. request' = req /\ context' = c BY <1>1 DEF Call
  <2> HIDE DEF c
  <2>3. Arrived(request, context)'
    BY <2>1, <2>2 DEF Arrived
  <2> QED BY <2>3 DEF ContextRead
<1>2. ASSUME stage # "idle", UNCHANGED <<request, context>>
      PROVE  ContextRead'
  <2>1. Arrived(request, context)' BY <1>0, <1>2 DEF Arrived
  <2> QED BY <2>1 DEF ContextRead
<1>3. ASSUME NEW e \in HandlerEvents, HandlerEvent(e) PROVE ContextRead'
  BY <1>2, <1>3 DEF HandlerEvent, Handled
<1>4. ASSUME NEW f \in HandlerFields, HandlerRecord(f) PROVE ContextRead'
  BY <1>2, <1>4 DEF HandlerRecord, Handled
<1>5. ASSUME NEW res \in Responses, Answer(res) PROVE ContextRead'
  BY <1>2, <1>5 DEF Answer
<1>6. CASE Close
  BY <1>2, <1>6 DEF Close
<1> QED BY <1>1, <1>3, <1>4, <1>5, <1>6 DEF Next

\* What arrived, and contents that are clean, say what the property says.
LEMMA ContextMeans ==
  ASSUME Typed, AllClean, ContextRead
  PROVE  ContextArrives
<1> SUFFICES ASSUME Traced PROVE ContextArrives
  BY DEF ContextArrives
<1>1. Arrived(request, context) BY DEF ContextRead
<1>2. Stored \cap RemoteFields = {}
  <2>1. ASSUME NEW k \in Stored PROVE k \notin RemoteFields
    <3> DEFINE p == <<k, ValueOf(k)>>
    <3>1. p \in Pairs(attributes) /\ p[1] = k BY StoredPair
    <3> HIDE DEF p
    <3>2. "url.query" \notin RemoteFields BY DEF RemoteFields
    <3> QED BY <3>1, <3>2 DEF AllClean, CleanIn, CleanPair
  <2> QED BY <2>1
<1> QED BY <1>1, <1>2, Zenon DEF Arrived, ContextArrives

-----------------------------------------------------------------------------
(* What the handler said.                                                   *)

Tellers(list) == {i \in 1..Len(list) : Telling(list[i])}

\* The first one is the least of them.
LEMMA FirstToldIs ==
  ASSUME NEW list, Len(list) \in Nat
  PROVE  /\ Tellers(list) = {} => FirstTold(list) = 0
         /\ Tellers(list) # {} => /\ FirstTold(list) \in Tellers(list)
                                  /\ \A y \in Tellers(list) : FirstTold(list) <= y
                                  /\ FirstTold(list) \in Nat /\ FirstTold(list) # 0
<1>1. FirstTold(list) = IF Tellers(list) # {} THEN Min(Tellers(list)) ELSE 0
  BY DEF FirstTold, SelectInSeq, Tellers
<1>2. Tellers(list) \subseteq 1..Len(list) BY DEF Tellers
<1>3. Tellers(list) \subseteq Nat BY <1>2
<1>4. Tellers(list) # {} => /\ Min(Tellers(list)) \in Tellers(list)
                            /\ \A y \in Tellers(list) : Min(Tellers(list)) <= y
  BY <1>3, LeastIs
<1> QED BY <1>1, <1>2, <1>4

\* One more thing said changes the first error event only if there was none.
LEMMA FirstToldThen ==
  ASSUME NEW a, IsList(a), NEW x
  PROVE  LET b == Append(a, x) IN
         IF FirstTold(a) # 0 THEN FirstTold(b) = FirstTold(a) /\ FirstTold(a) \in DOMAIN a
         ELSE IF Telling(x) THEN FirstTold(b) = Len(a) + 1 ELSE FirstTold(b) = 0
<1> DEFINE b == Append(a, x)
           n == Len(a)
<1>1. /\ IsList(b) /\ Len(b) = n + 1 /\ n \in Nat /\ DOMAIN a = 1..n
      /\ b[n + 1] = x /\ \A i \in 1..n : b[i] = a[i]
  BY AppendedList
<1> HIDE DEF b
<1>2. \A i : i \in Tellers(b) <=> i \in Tellers(a) \/ (i = n + 1 /\ Telling(x))
  <2>1. \A i : i \in 1..(n + 1) <=> i \in 1..n \/ i = n + 1 BY <1>1
  <2>2. \A i : i \in Tellers(b) <=> i \in 1..(n + 1) /\ Telling(b[i])
    BY <1>1 DEF Tellers
  <2>3. \A i : i \in Tellers(a) <=> i \in 1..n /\ Telling(a[i])
    BY DEF Tellers
  <2>4. \A i \in 1..n : i # n + 1 BY <1>1
  <2> HIDE DEF n
  <2> QED BY <1>1, <2>1, <2>2, <2>3, <2>4, Zenon
<1>3. Tellers(a) \subseteq 1..n BY DEF Tellers
<1>4. /\ Tellers(a) = {} => FirstTold(a) = 0
      /\ Tellers(a) # {} => /\ FirstTold(a) \in Tellers(a)
                            /\ \A y \in Tellers(a) : FirstTold(a) <= y
                            /\ FirstTold(a) \in Nat /\ FirstTold(a) # 0
  BY <1>1, FirstToldIs
<1>5. /\ Tellers(b) = {} => FirstTold(b) = 0
      /\ Tellers(b) # {} => /\ FirstTold(b) \in Tellers(b)
                            /\ \A y \in Tellers(b) : FirstTold(b) <= y
                            /\ FirstTold(b) \in Nat /\ FirstTold(b) # 0
  BY <1>1, FirstToldIs
<1> HIDE DEF n
<1>6. CASE Tellers(a) # {}
  <2>1. FirstTold(a) \in Tellers(b) /\ FirstTold(b) <= FirstTold(a) /\ FirstTold(b) \in Nat
    BY <1>2, <1>4, <1>5, <1>6
  <2>2. FirstTold(a) <= n BY <1>1, <1>3, <1>4, <1>6
  <2>3. FirstTold(b) # n + 1 BY <1>1, <1>4, <1>6, <2>1, <2>2
  <2>4. FirstTold(b) \in Tellers(a) BY <1>2, <1>5, <2>1, <2>3
  <2>5. FirstTold(a) <= FirstTold(b) BY <1>4, <2>4
  <2> QED BY <1>1, <1>3, <1>4, <1>6, <2>1, <2>5 DEF b
<1>7. CASE Tellers(a) = {} /\ Telling(x)
  <2>1. \A i : i \in Tellers(b) <=> i = n + 1 BY <1>2, <1>7
  <2> QED BY <1>4, <1>5, <1>7, <2>1 DEF b, n
<1>8. CASE Tellers(a) = {} /\ ~Telling(x)
  <2>1. Tellers(b) = {} BY <1>2, <1>8
  <2> QED BY <1>4, <1>5, <1>8, <2>1 DEF b
<1> QED BY <1>6, <1>7, <1>8

\* And so the message the status has to tell.
LEMMA ExpectedThen ==
  ASSUME NEW a, IsList(a), NEW x
  PROVE  LET b == Append(a, x) IN
         /\ FirstTold(a) # 0 => FirstTold(b) # 0 /\ Expected(b) = Expected(a)
         /\ FirstTold(a) = 0 /\ Telling(x) =>
              FirstTold(b) # 0 /\ Expected(b) = Explanation(x.event)
         /\ FirstTold(a) = 0 /\ ~Telling(x) =>
              FirstTold(b) = 0 /\ Expected(b) = Expected(a)
<1> DEFINE b == Append(a, x)
<1>1. IF FirstTold(a) # 0 THEN FirstTold(b) = FirstTold(a) /\ FirstTold(a) \in DOMAIN a
      ELSE IF Telling(x) THEN FirstTold(b) = Len(a) + 1 ELSE FirstTold(b) = 0
  BY FirstToldThen
<1>2. /\ Len(a) \in Nat /\ DOMAIN a = 1..Len(a) /\ b[Len(a) + 1] = x
      /\ \A i \in 1..Len(a) : b[i] = a[i]
  BY AppendedList
<1> HIDE DEF b
<1>3. CASE FirstTold(a) # 0
  BY <1>1, <1>2, <1>3 DEF Expected, b
<1>4. CASE FirstTold(a) = 0 /\ Telling(x)
  <2>1. FirstTold(b) = Len(a) + 1 /\ Len(a) + 1 # 0 BY <1>1, <1>2, <1>4
  <2> QED BY <1>2, <1>4, <2>1 DEF Expected, b
<1>5. CASE FirstTold(a) = 0 /\ ~Telling(x)
  BY <1>1, <1>5 DEF Expected, b
<1> QED BY <1>3, <1>4, <1>5

-----------------------------------------------------------------------------
(* The status.                                                              *)

\* The control fields of the status are none of the keys of the middleware.
LEMMA StatusKeys ==
  /\ StatusCode \notin BaseKeys /\ StatusMessage \notin BaseKeys
  /\ StatusCode # StatusMessage
  /\ Code \notin BaseKeys /\ Code # StatusCode /\ Code # StatusMessage
BY DEF StatusCode, StatusMessage, BaseKeys, Route, Code

\* Nothing has been said about the span of call.
LEMMA CallStatus ==
  ASSUME NEW req
  PROVE  StatusOpen(RecordFields(Built(DeclaredWith(req) \o RemoteOf(req)),
                                 LateFields, LateOf(req)), <<>>)
<1> DEFINE r == RecordFields(Built(DeclaredWith(req) \o RemoteOf(req)),
                             LateFields, LateOf(req))
<1>1. /\ IsSpan(r) /\ r.status = Unset
      /\ \A p \in Pairs(r.attributes) : p \in DeclaredPairs(req) \/ LatePair(p, req)
  BY CalledIs
<1> HIDE DEF r
<1>2. ASSUME NEW p, p \in DeclaredPairs(req) \/ LatePair(p, req) PROVE p[1] \in BaseKeys
  <2>1. CASE p \in DeclaredPairs(req)
    <3>1. p[1] \in {"http.request.method", "url.path", "url.query", "url.scheme",
                    "network.protocol.name"}
      BY <2>1 DEF DeclaredPairs
    <3> QED BY <3>1 DEF BaseKeys
  <2>2. CASE LatePair(p, req)
    <3>1. p[1] \in {"user_agent.original", "server.address", Route}
      BY <2>2 DEF LatePair, OptionPair
    <3> QED BY <3>1 DEF BaseKeys
  <2> QED BY <1>2, <2>1, <2>2
<1>3. KeysOf(r.attributes) \subseteq BaseKeys BY <1>1, <1>2, KeyPaired
<1>4. FirstTold(<<>>) = 0
  <2>1. Len(<<>>) = 0 OBVIOUS
  <2>2. Tellers(<<>>) = {} BY <2>1 DEF Tellers
  <2> QED BY <2>1, <2>2, FirstToldIs
<1>5. Expected(<<>>) = "" BY <1>4 DEF Expected
<1>6. r.status.code # "error"
  <2>0. r.status = Unset BY <1>1
  <2>1. Unset.code = "unset" BY DEF Unset
  <2>2. "unset" # "error" OBVIOUS
  <2> QED BY <2>0, <2>1, <2>2, Zenon
<1>7. Told(r.attributes, "") BY <1>3, StatusKeys DEF Told
<1> QED BY <1>3, <1>4, <1>5, <1>6, <1>7 DEF StatusOpen, r

\* Before the answer the first error event fails the span and leaves its
\* message; the events after it change nothing.
LEMMA EventStatus ==
  ASSUME NEW s, IsSpan(s), NEW list, IsList(list), StatusOpen(s, list), NEW e
  PROVE  StatusOpen(WithEvent(s, e), Append(list, [stage |-> "open", event |-> e]))
<1> DEFINE x == [stage |-> "open", event |-> e]
           b == Append(list, x)
           r == WithEvent(s, e)
           m == Explanation(e)
<1>1. (Telling(x) <=> IsErrorEvent(e)) /\ x.event = e
  <2>1. Telling(x) <=> "open" = "open" /\ IsErrorEvent(e) BY SaidIs
  <2> HIDE DEF x
  <2> QED BY <2>1, SaidIs DEF x
<1> HIDE DEF x
<1>2. /\ FirstTold(list) # 0 => FirstTold(b) # 0 /\ Expected(b) = Expected(list)
      /\ FirstTold(list) = 0 /\ Telling(x) => FirstTold(b) # 0 /\ Expected(b) = m
      /\ FirstTold(list) = 0 /\ ~Telling(x) =>
           FirstTold(b) = 0 /\ Expected(b) = Expected(list)
  BY <1>1, ExpectedThen
<1>3. /\ IsSpan(r)
      /\ IF ErrorSets(s, e)
         THEN r.status = Failed(m) /\ EventMarked(s.attributes, r.attributes, m)
         ELSE r.attributes = s.attributes /\ r.status = s.status
  BY EventIs
<1> HIDE DEF b, r, m
<1>4. ErrorSets(s, e) <=> Telling(x) /\ FirstTold(list) = 0
  BY <1>1 DEF ErrorSets, StatusOpen
<1>5. CASE ~ErrorSets(s, e)
  <2>1. /\ (FirstTold(b) = 0 <=> FirstTold(list) = 0) /\ Expected(b) = Expected(list)
    BY <1>2, <1>4, <1>5
  <2>2. r.attributes = s.attributes /\ r.status = s.status BY <1>3, <1>5
  <2>3. StatusOpen(r, b) BY <2>1, <2>2 DEF StatusOpen
  <2> QED BY <2>3 DEF r, b, x
<1>6. CASE ErrorSets(s, e)
  <2> DEFINE a == s.attributes
             c == r.attributes
  <2>1. /\ FirstTold(list) = 0 /\ FirstTold(b) # 0 /\ Expected(b) = m
        /\ r.status = Failed(m) /\ EventMarked(a, c, m)
    BY <1>2, <1>3, <1>4, <1>6
  <2>2. /\ AreAttributes(a) /\ Distinct(a) /\ KeysOf(a) \subseteq BaseKeys
    BY <2>1 DEF IsSpan, StatusOpen
  <2> HIDE DEF a, c
  <2>3. PICK coded : /\ RecordedAs(a, coded, StatusCode, Text("error"))
                     /\ m = "" => c = coded
                     /\ m # "" => RecordedAs(coded, c, StatusMessage, Text(m))
    BY <2>1 DEF EventMarked
  <2>4. Len(a) < AttributeCap BY <2>2, RoomForOneMore
  <2>5. \A k : k \in KeysOf(coded) <=> k \in KeysOf(a) \/ k = StatusCode
    BY <2>3, <2>4, StoredBelow
  <2>6. AreAttributes(coded) /\ Distinct(coded) BY <2>3 DEF RecordedAs
  <2>7. KeysOf(coded) \subseteq BaseKeys \cup {StatusCode, StatusMessage}
    BY <2>2, <2>5
  <2>8. r.status.code = "error" BY <2>1 DEF Failed
  <2>9. CASE m = ""
    <3>1. c = coded BY <2>3, <2>9
    <3>2. Told(c, m) BY <2>2, <2>5, <2>9, <3>1, StatusKeys DEF Told
    <3>3. \A k \in KeysOf(c) : k \in BaseKeys \/ k \in {StatusCode, StatusMessage}
      BY <2>7, <3>1
    <3>4. StatusOpen(r, b) BY <2>1, <2>8, <3>2, <3>3 DEF StatusOpen, c
    <3> QED BY <3>4 DEF r, b, x
  <2>10. CASE m # ""
    <3>1. RecordedAs(coded, c, StatusMessage, Text(m)) BY <2>3, <2>10
    <3>2. Len(coded) < AttributeCap BY <2>6, <2>7, RoomForOneMore
    <3>3. /\ StatusMessage \in KeysOf(c)
          /\ \A k : k \in KeysOf(c) <=> k \in KeysOf(coded) \/ k = StatusMessage
      BY <3>1, <3>2, StoredBelow
    <3>4. \A p \in Pairs(c) : p \in Pairs(coded) \/ p = <<StatusMessage, Text(m)>>
      BY <3>1, RecordedPairs
    <3>5. ASSUME NEW p \in Pairs(coded) PROVE p[1] # StatusMessage
      <4>1. p[1] \in KeysOf(coded) BY <3>5 DEF Pairs, KeysOf
      <4> QED BY <2>2, <2>5, <4>1, StatusKeys
    <3>6. \A y : <<StatusMessage, y>>[2] = y OBVIOUS
    <3>7. Told(c, m) BY <2>10, <3>3, <3>4, <3>5, <3>6 DEF Told
    <3>8. \A k \in KeysOf(c) : k \in BaseKeys \/ k \in {StatusCode, StatusMessage}
      BY <2>7, <3>3
    <3>9. StatusOpen(r, b) BY <2>1, <2>8, <3>7, <3>8 DEF StatusOpen, c
    <3> QED BY <3>9 DEF r, b, x
  <2> QED BY <2>9, <2>10
<1> QED BY <1>5, <1>6

\* The message that is stored is the pending one.
LEMMA PendingIs ==
  ASSUME NEW a, AreAttributes(a), NEW x, Told(a, x)
  PROVE  Pending(a) = x
<1>1. \/ Position(a, StatusMessage) = 0 /\ StatusMessage \notin KeysOf(a)
      \/ Position(a, StatusMessage) \in DOMAIN a /\ a[Position(a, StatusMessage)].key = StatusMessage
  BY PositionIs
<1>2. DOMAIN a = 1..Len(a) /\ Len(a) \in Nat BY EntriesAre
<1>3. CASE x = ""
  <2>1. StatusMessage \notin KeysOf(a) BY <1>3 DEF Told
  <2>2. Position(a, StatusMessage) = 0 BY <1>1, <2>1 DEF KeysOf
  <2> QED BY <1>3, <2>2 DEF Pending
<1>4. CASE x # ""
  <2>1. /\ StatusMessage \in KeysOf(a)
        /\ \A p \in Pairs(a) : p[1] = StatusMessage => p[2] = Text(x)
    BY <1>4 DEF Told
  <2> DEFINE v == a[Position(a, StatusMessage)].value
             p == <<StatusMessage, v>>
  <2>2. p \in Pairs(a) BY <2>1, ValuePaired
  <2>3. p[1] = StatusMessage /\ p[2] = v OBVIOUS
  <2> HIDE DEF p, v
  <2>4. v = Text(x) BY <2>1, <2>2, <2>3
  <2>5. v.text = x BY <2>4 DEF Text
  <2>6. Position(a, StatusMessage) # 0 BY <1>1, <1>2, <2>1
  <2> QED BY <2>5, <2>6 DEF Pending, v
<1> QED BY <1>3, <1>4

\* An answer that failed gives the span the message of the first error event.
LEMMA AnswerStatus ==
  ASSUME NEW s, IsSpan(s), NEW list, StatusOpen(s, list),
         NEW res \in Responses, HasFailed(res)
  PROVE  Outcome(s, res).status = Failed(Expected(list))
<1> DEFINE a == s.attributes
           x == Expected(list)
           coded == RecordField(s, LateFields, Just(StatusField(res)))
<1>1. /\ AreAttributes(a) /\ Distinct(a) /\ Told(a, x)
      /\ KeysOf(a) \subseteq BaseKeys \cup {StatusCode, StatusMessage}
  BY DEF IsSpan, StatusOpen
<1>2. CASE res.kind = "err"
  <2>1. Outcome(s, res) = Failing(s, res.type) BY <1>2 DEF Outcome
  <2>2. Failing(s, res.type).status = Failed(Pending(a)) BY FailureWritten
  <2>3. Pending(a) = x BY <1>1, PendingIs
  <2> QED BY <2>1, <2>2, <2>3
<1>3. CASE res.kind = "ok" /\ res.code >= 500
  <2> DEFINE c == coded.attributes
  <2>1. IsSpan(coded) /\ RecordedAs(a, c, Code, IntOf(res)) BY StatusWritten
  <2>2. Outcome(s, res) = Failing(coded, CodeText(res.code))
    BY <1>3 DEF Outcome
  <2> HIDE DEF coded
  <2>3. Failing(coded, CodeText(res.code)).status = Failed(Pending(c))
    BY <2>1, FailureWritten
  <2> HIDE DEF a, x
  <2>4. AreAttributes(c) BY <2>1 DEF IsSpan
  <2> HIDE DEF c
  <2>5. Len(a) < AttributeCap BY <1>1, RoomForOneMore
  <2>6. \A k : k \in KeysOf(c) <=> k \in KeysOf(a) \/ k = Code
    BY <2>1, <2>5, StoredBelow
  <2>7. \A p \in Pairs(c) : p \in Pairs(a) \/ p = <<Code, IntOf(res)>>
    BY <2>1, RecordedPairs
  <2>8. Told(c, x)
    <3>1. CASE x = "" BY <1>1, <2>6, <3>1, StatusKeys DEF Told
    <3>2. CASE x # ""
      <4>1. <<Code, IntOf(res)>>[1] = Code OBVIOUS
      <4> QED BY <1>1, <2>6, <2>7, <3>2, <4>1, StatusKeys DEF Told
    <3> QED BY <3>1, <3>2
  <2>9. Pending(c) = x BY <2>4, <2>8, PendingIs
  <2> QED BY <2>2, <2>3, <2>9 DEF x
<1> QED BY <1>2, <1>3 DEF HasFailed

\* Every step leaves the status what the handler and the answer made it.
LEMMA StatusStays ==
  ASSUME Typed, StatusKept, Next
  PROVE  StatusKept'
<1>0. /\ IsSpan(span) /\ IsList(said)
      /\ stage = "idle" => said = <<>>
      /\ response # NoResponse => response \in Responses /\ stage \in {"answered", "closed"}
      /\ stage = "open" /\ ~Spoke(said) => StatusOpen(span, said)
      /\ response # NoResponse /\ HasFailed(response) => StatusFailed(span, said)
  BY DEF Typed, StatusKept, Answered
<1> SUFFICES /\ stage' = "open" /\ ~Spoke(said') => StatusOpen(span', said')
             /\ response' # NoResponse /\ HasFailed(response') => StatusFailed(span', said')
  BY DEF StatusKept, Answered
<1> DEFINE Goal == /\ stage' = "open" /\ ~Spoke(said') => StatusOpen(span', said')
                   /\ response' # NoResponse /\ HasFailed(response') =>
                        StatusFailed(span', said')
<1>1. ASSUME NEW req \in Requests, NEW draws, Call(req, draws) PROVE Goal
  <2>1. /\ stage = "idle" /\ said' = said /\ response' = response
        /\ span' = RecordFields(Built(DeclaredWith(req) \o RemoteOf(req)),
                                LateFields, LateOf(req))
    BY <1>1 DEF Call
  <2>2. response' = NoResponse /\ said' = <<>> BY <1>0, <2>1
  <2>3. StatusOpen(span', said') BY <2>1, <2>2, CallStatus
  <2> QED BY <2>2, <2>3
<1>2. ASSUME NEW e \in HandlerEvents, HandlerEvent(e) PROVE Goal
  <2> DEFINE x == [stage |-> stage, event |-> e]
  <2>1. /\ stage \in {"open", "answered"} /\ stage' = stage /\ response' = response
        /\ span' = WithEvent(span, e) /\ said' = Append(said, x)
    BY <1>2 DEF HandlerEvent, Handled
  <2>2. "field" \notin DOMAIN x /\ (Telling(x) <=> stage = "open" /\ IsErrorEvent(e))
    BY SaidIs
  <2>3. (Spoke(said') <=> Spoke(said)) /\ (Retold(said') <=> Retold(said))
    <3> HIDE DEF x
    <3> QED BY <1>0, <2>1, <2>2, SomeThen DEF Speaks, Retells
  <2>4. CASE stage = "open"
    <3>1. response' = NoResponse BY <1>0, <2>1, <2>4
    <3>2. ~Spoke(said') => StatusOpen(span', said')
      BY <1>0, <2>1, <2>3, <2>4, EventStatus
    <3> QED BY <3>1, <3>2
  <2>5. CASE stage = "answered"
    <3>1. stage' # "open" BY <2>1, <2>5
    <3>2. ASSUME response' # NoResponse, HasFailed(response'), ~Retold(said')
          PROVE  StatusFailed(span', said')
      <4>1. /\ span.status.code = "error"
            /\ ~Spoke(said) => span.status.message = Expected(said)
        BY <1>0, <2>1, <2>3, <3>2 DEF StatusFailed
      <4>2. ~ErrorSets(span, e) BY <4>1 DEF ErrorSets
      <4>3. span'.status = span.status BY <1>0, <2>1, <4>2, EventIs
      <4>4. Expected(said') = Expected(said)
        <5>1. ~Telling(x) BY <2>2, <2>5
        <5> HIDE DEF x
        <5> QED BY <1>0, <2>1, <5>1, ExpectedThen
      <4> QED BY <2>3, <4>1, <4>3, <4>4 DEF StatusFailed
    <3>3. Retold(said') => StatusFailed(span', said') BY DEF StatusFailed
    <3> QED BY <3>1, <3>2, <3>3
  <2> QED BY <2>1, <2>4, <2>5
<1>3. ASSUME NEW f \in HandlerFields, HandlerRecord(f) PROVE Goal
  <2> DEFINE x == [stage |-> stage, field |-> f]
             o == Just(f)
  <2>1. /\ stage \in {"open", "answered"} /\ stage' = stage /\ response' = response
        /\ span' = RecordField(span, DeclaredFields(request), o)
        /\ said' = Append(said, x)
    BY <1>3 DEF HandlerRecord, Handled
  <2>2. "field" \in DOMAIN x /\ x.field = f /\ x.stage = stage /\ o[1] = f
    BY SaidIs, OptionIs
  <2>3. ~Telling(x)
    <3>1. DOMAIN x = {"stage", "field"} OBVIOUS
    <3> HIDE DEF x
    <3> QED BY <3>1 DEF Telling
  <2> HIDE DEF x, o
  <2>4. /\ Spoke(said') <=> Spoke(said) \/ stage = "open"
        /\ Retold(said') <=> Retold(said) \/ (stage = "answered" /\ f.key = StatusCode)
    BY <1>0, <2>1, <2>2, SomeThen DEF Speaks, Retells
  <2>5. CASE stage = "open"
    <3>1. response' = NoResponse BY <1>0, <2>1, <2>5
    <3> QED BY <2>4, <2>5, <3>1
  <2>6. CASE stage = "answered"
    <3>1. ASSUME response' # NoResponse, HasFailed(response'), ~Retold(said')
          PROVE  StatusFailed(span', said')
      <4>1. /\ span.status.code = "error"
            /\ ~Spoke(said) => span.status.message = Expected(said)
        BY <1>0, <2>1, <2>4, <3>1 DEF StatusFailed
      <4>2. f.key # StatusCode BY <2>4, <2>6, <3>1
      <4>3. span'.status = span.status
        <5>1. CASE f.key \notin DeclaredFields(request)
          BY <1>0, <2>1, <2>2, <5>1, RecordFieldIs
        <5>2. CASE f.key \in DeclaredFields(request)
          <6>1. f.key \in OwnKeys \cup SpanKeys \cup RemoteFields BY <5>2, DeclaredKeys
          <6>2. f.key # StatusMessage
            BY <6>1 DEF OwnKeys, LateFields, SpanKeys, RemoteFields, StatusMessage
          <6> QED BY <1>0, <2>1, <2>2, <4>2, <6>2, RecordFieldIs
        <5> QED BY <5>1, <5>2
      <4>4. Expected(said') = Expected(said) BY <1>0, <2>1, <2>3, ExpectedThen
      <4> QED BY <2>4, <2>6, <4>1, <4>3, <4>4 DEF StatusFailed
    <3>2. Retold(said') => StatusFailed(span', said') BY DEF StatusFailed
    <3> QED BY <2>1, <2>6, <3>1, <3>2
  <2> QED BY <2>1, <2>5, <2>6
<1>4. ASSUME NEW res \in Responses, Answer(res) PROVE Goal
  <2>1. /\ stage = "open" /\ stage' = "answered" /\ response' = res /\ said' = said
        /\ span' = RecordFields(span, LateFields, FieldsOfAnswer(res))
    BY <1>4 DEF Answer
  <2>2. span'.status = Outcome(span, res).status BY <1>0, <2>1, AnsweredIs
  <2>3. ASSUME HasFailed(res) PROVE StatusFailed(span', said')
    <3>1. span'.status.code = "error" BY <1>0, <2>2, <2>3, OutcomeIs
    <3>2. ASSUME ~Spoke(said) PROVE span'.status.message = Expected(said)
      <4>1. StatusOpen(span, said) BY <1>0, <2>1, <3>2
      <4>2. span'.status = Failed(Expected(said))
        BY <1>0, <2>2, <2>3, <4>1, AnswerStatus
      <4> QED BY <4>2 DEF Failed
    <3> QED BY <2>1, <3>1, <3>2 DEF StatusFailed
  <2> QED BY <2>1, <2>3
<1>5. ASSUME Close PROVE Goal
  <2>1. /\ stage' = "closed" /\ response' = response /\ said' = said /\ span' = span
    BY <1>5 DEF Close
  <2> QED BY <1>0, <2>1
<1> QED BY <1>1, <1>2, <1>3, <1>4, <1>5 DEF Next

\* The status the invariant keeps is the one the property speaks of.
LEMMA StatusMeans ==
  ASSUME Typed, StatusKept
  PROVE  FailureExplained
<1> SUFFICES ASSUME Answered, response.kind = "err" \/ response.code >= 500
             PROVE  FailureExplained
  BY DEF FailureExplained
<1>1. response \in Responses BY DEF Typed
<1>2. HasFailed(response) BY <1>1, ResponseIs DEF HasFailed
<1>3. StatusFailed(span, said) BY <1>2 DEF StatusKept
<1>4. FirstTold(said) = LET I == Tellers(said) IN IF I # {} THEN Min(I) ELSE 0
  BY DEF FirstTold, SelectInSeq, Tellers
<1>5. ~Retold(said) => span.status.code = "error" BY <1>3 DEF StatusFailed
<1>6. ~Retold(said) /\ ~Spoke(said) => span.status.message =
        IF FirstTold(said) = 0 THEN "" ELSE Explanation(said[FirstTold(said)].event)
  BY <1>3, Zenon DEF StatusFailed, Expected
<1> QED
  BY <1>4, <1>5, <1>6, Zenon
  DEF FailureExplained, Spoke, Speaks, Retold, Retells, StatusCode, SelectInSeq,
      Tellers, Telling

-----------------------------------------------------------------------------
(* The outcome.                                                             *)

\* Which keys the budget protects, of those that are no header's.
LEMMA ProtectedKeys ==
  /\ IsProtected(Route) /\ IsProtected(Code) /\ IsProtected("error.type")
  /\ ~IsProtected(StatusCode) /\ ~IsProtected(StatusMessage)
  /\ \A k \in BaseKeys : IsProtected(k) => k = Route
<1>1. \A k \in OwnKeys \cup ControlFields :
        IsProtected(k) => k \in {"http.response.status_code", "http.response.body.size",
                                 "http.route", "error.type"}
  BY CapAssumption DEF IsProtected
<1>2. /\ StatusCode \in ControlFields /\ StatusMessage \in ControlFields
      /\ StatusCode # Route /\ StatusCode # Code /\ StatusCode # "error.type"
      /\ StatusMessage # Route /\ StatusMessage # Code /\ StatusMessage # "error.type"
      /\ StatusCode # "http.response.body.size" /\ StatusMessage # "http.response.body.size"
  BY DEF ControlFields, StatusCode, StatusMessage, Route, Code
<1>3. ~IsProtected(StatusCode) /\ ~IsProtected(StatusMessage)
  BY <1>1, <1>2 DEF Route, Code
<1>4. BaseKeys \subseteq OwnKeys BY DEF BaseKeys, OwnKeys, LateFields, Route
<1>5. ASSUME NEW k \in BaseKeys, IsProtected(k) PROVE k = Route
  <2>1. k \in {"http.response.status_code", "http.response.body.size",
               "http.route", "error.type"}
    BY <1>1, <1>4, <1>5
  <2> QED BY <1>5, <2>1 DEF BaseKeys, Route
<1>6. IsProtected(Route) /\ IsProtected(Code) /\ IsProtected("error.type")
  BY DEF IsProtected, Route, Code
<1> QED BY <1>3, <1>5, <1>6

\* The keys of the outcome, one by one, and that they are protected.
LEMMA WantedIs ==
  ASSUME NEW req, NEW res
  PROVE  /\ \A x : x \in RouteKeys(req) <=> req.route # Nothing /\ x = Route
         /\ \A x : x \in Wanted(req, res) <=> \/ res.kind = "ok" /\ x = Code
                                              \/ HasFailed(res) /\ x = "error.type"
                                              \/ req.route # Nothing /\ x = Route
         /\ AllProtected(RouteKeys(req)) /\ AllProtected(Wanted(req, res))
<1>1. \A x : x \in RouteKeys(req) <=> req.route # Nothing /\ x = Route
  BY DEF RouteKeys
<1>2. \A x : x \in Wanted(req, res) <=> \/ res.kind = "ok" /\ x = Code
                                        \/ HasFailed(res) /\ x = "error.type"
                                        \/ req.route # Nothing /\ x = Route
  BY DEF Wanted
<1>3. AllProtected(RouteKeys(req)) BY <1>1, ProtectedKeys DEF AllProtected
<1>4. AllProtected(Wanted(req, res)) BY <1>2, ProtectedKeys DEF AllProtected
<1> QED BY <1>1, <1>2, <1>3, <1>4

\* The span of call holds the route, and nothing else that is protected.
LEMMA CallOutcome ==
  ASSUME NEW req
  PROVE  OutcomeOpen(RecordFields(Built(DeclaredWith(req) \o RemoteOf(req)),
                                  LateFields, LateOf(req)).attributes, req)
<1> DEFINE r == RecordFields(Built(DeclaredWith(req) \o RemoteOf(req)),
                             LateFields, LateOf(req))
           a == r.attributes
<1>1. /\ IsSpan(r)
      /\ \A p \in Pairs(a) : p \in DeclaredPairs(req) \/ LatePair(p, req)
      /\ req.route # Nothing => Route \in KeysOf(a)
  BY CalledIs
<1> HIDE DEF a
<1>2. ASSUME NEW p, p \in DeclaredPairs(req) \/ LatePair(p, req)
      PROVE  /\ p[1] \in BaseKeys
             /\ p[1] = Route => req.route # Nothing /\ p[2] = Text(req.route[1])
  <2>1. CASE p \in DeclaredPairs(req)
    <3>1. p[1] \in {"http.request.method", "url.path", "url.query", "url.scheme",
                    "network.protocol.name"}
      BY <2>1 DEF DeclaredPairs
    <3> QED BY <3>1 DEF BaseKeys, Route
  <2>2. CASE OptionPair(p, "user_agent.original", FirstOf(req.user_agent))
    <3>1. p[1] = "user_agent.original" BY <2>2 DEF OptionPair
    <3> QED BY <3>1 DEF BaseKeys, Route
  <2>3. CASE OptionPair(p, "server.address", FirstOf(req.host))
    <3>1. p[1] = "server.address" BY <2>3 DEF OptionPair
    <3> QED BY <3>1 DEF BaseKeys, Route
  <2>4. CASE OptionPair(p, Route, req.route)
    <3>1. req.route # Nothing /\ p = <<Route, Text(req.route[1])>>
      BY <2>4 DEF OptionPair
    <3>2. p[1] = Route /\ p[2] = Text(req.route[1]) BY <3>1
    <3> QED BY <3>1, <3>2 DEF BaseKeys
  <2> QED BY <1>2, <2>1, <2>2, <2>3, <2>4 DEF LatePair
<1>3. \A p \in Pairs(a) : RoutePair(p, req)
  <2>1. \A x : Text(x).text = x BY DEF Text
  <2> QED BY <1>1, <1>2, <2>1 DEF RoutePair
<1>4. ASSUME NEW k \in KeysOf(a), IsProtected(k) PROVE k \in RouteKeys(req)
  <2>1. PICK i \in DOMAIN a : k = a[i].key BY DEF KeysOf
  <2> DEFINE p == <<a[i].key, a[i].value>>
  <2>2. p \in Pairs(a) BY DEF Pairs
  <2>3. p[1] = k BY <2>1
  <2> HIDE DEF p
  <2>4. k = Route BY <1>1, <1>2, <1>4, <2>2, <2>3, ProtectedKeys
  <2> QED BY <1>1, <1>2, <2>2, <2>3, <2>4, WantedIs
<1>5. RouteKeys(req) \subseteq KeysOf(a) BY <1>1, WantedIs
<1>6. Room(a, RouteKeys(req), RouteKeys(req)) BY <1>4, <1>5 DEF Room
<1> QED BY <1>3, <1>6 DEF OutcomeOpen, a, r

\* An error event takes no room, and adds no pair of the outcome.
LEMMA EventRoom ==
  ASSUME NEW a, AreAttributes(a), NEW b, NEW m, EventMarked(a, b, m),
         NEW W, NEW A, AllProtected(A), Room(a, W, A)
  PROVE  Room(b, W, A)
<1>1. PICK coded : /\ RecordedAs(a, coded, StatusCode, Text("error"))
                   /\ m = "" => b = coded
                   /\ m # "" => RecordedAs(coded, b, StatusMessage, Text(m))
  BY DEF EventMarked
<1>2. Len(a) \in Nat BY EntriesAre
<1>3. Room(coded, W, A) BY <1>1, <1>2, ProtectedKeys, RoomLeft
<1>4. CASE m = "" BY <1>1, <1>3, <1>4
<1>5. CASE m # ""
  <2>1. RecordedAs(coded, b, StatusMessage, Text(m)) BY <1>1, <1>5
  <2>2. AreAttributes(coded) BY <1>1 DEF RecordedAs
  <2>3. Len(coded) \in Nat BY <2>2, EntriesAre
  <2> QED BY <1>3, <2>1, <2>3, ProtectedKeys, RoomLeft
<1> QED BY <1>4, <1>5

\* A field that is none of the outcome takes no room, and adds no pair of it.
LEMMA FieldRoom ==
  ASSUME NEW a, AreAttributes(a), Distinct(a), NEW b, AreAttributes(b), Distinct(b),
         NEW f, NEW req, f.key \in DeclaredFields(req), f.key \notin OutcomeKeys,
         FieldHandled(a, b, f)
  PROVE  /\ \A W, A : AllProtected(A) /\ Room(a, W, A) => Room(b, W, A)
         /\ \A p \in Pairs(b) : p \in Pairs(a) \/ p[1] \notin OutcomeKeys
<1>1. \/ f.key \in BaseKeys /\ f.key # Route
      \/ f.key \in ControlFields \cup RemoteFields
  <2>1. f.key \in OwnKeys \cup SpanKeys \cup RemoteFields BY DeclaredKeys
  <2> QED BY <2>1 DEF OwnKeys, LateFields, SpanKeys, BaseKeys, OutcomeKeys, Route,
                      Code, HeaderSlot, ControlFields
<1>2. f.key # HeaderSlot BY DEF OutcomeKeys
<1>3. \A w \in Writes(f) : w = <<f.key, FieldValue(f)>>
  BY <1>2 DEF Writes
<1>4. ASSUME NEW w \in Writes(f) PROVE w[1] = f.key /\ ~IsProtected(f.key)
  <2>1. w[1] = f.key BY <1>3
  <2>2. f.key \notin ControlFields \cup RemoteFields BY <1>2 DEF Writes
  <2> QED BY <1>1, <2>1, <2>2, ProtectedKeys
<1>5. Len(a) \in Nat BY EntriesAre
<1>6. ASSUME NEW W, NEW A, AllProtected(A), Room(a, W, A) PROVE Room(b, W, A)
  <2>1. ASSUME NEW w \in Writes(f), RecordedAs(a, b, w[1], w[2]) PROVE Room(b, W, A)
    BY <1>4, <1>5, <1>6, <2>1, RoomLeft
  <2>2. ASSUME KeysOf(b) = Without(KeysOf(a), StatusMessage) PROVE Room(b, W, A)
    BY <1>6, <2>2, ProtectedKeys, RoomWithout
  <2>3. CASE b = a BY <1>6, <2>3
  <2> QED BY <2>1, <2>2, <2>3, Zenon DEF FieldHandled
<1>7. \A p \in Pairs(b) : p \in Pairs(a) \/ p \in Writes(f) BY HandledPairs
<1> QED BY <1>4, <1>6, <1>7

\* A failure is stored with its type as long as the rest leaves it room.
LEMMA FailingRoom ==
  ASSUME NEW s, IsSpan(s), NEW why, NEW A, AllProtected(A), Room(s.attributes, A, A),
         IsFiniteSet(A), Cardinality(A) < AttributeCap
  PROVE  Room(Failing(s, why).attributes, A \cup {"error.type"}, A \cup {"error.type"})
<1> DEFINE a == s.attributes
           b == Failing(s, why).attributes
           B == A \cup {"error.type"}
<1>1. AreAttributes(a) /\ Distinct(a) BY DEF IsSpan
<1>2. PICK c : /\ AreAttributes(c) /\ Distinct(c)
               /\ KeysOf(c) = Without(KeysOf(a), StatusMessage)
               /\ RecordedAs(c, b, "error.type", Text(why))
  BY FailureWritten
<1>3. \A x : x \in B <=> x \in A \/ x = "error.type" OBVIOUS
<1> HIDE DEF a, b, B
<1>4. Room(c, A, A)
  <2>1. Room(a, A, A) BY DEF a
  <2> QED BY <1>1, <1>2, <2>1, ProtectedKeys, RoomWithout
<1>5. Room(b, B, B) BY <1>2, <1>3, <1>4, ProtectedKeys, RoomWanted
<1> QED BY <1>5 DEF b, B

\* So the outcome is stored, and no other key that is protected.
LEMMA OutcomeHasRoom ==
  ASSUME NEW s, IsSpan(s), NEW req, OutcomeOpen(s.attributes, req), NEW res \in Responses
  PROVE  Room(Outcome(s, res).attributes, Wanted(req, res), Wanted(req, res))
<1> DEFINE R == RouteKeys(req)
           C == R \cup {Code}
           a == s.attributes
           coded == RecordField(s, LateFields, Just(StatusField(res)))
<1>1. /\ Room(a, R, R) /\ AllProtected(R) /\ AreAttributes(a) /\ Distinct(a)
  BY WantedIs DEF OutcomeOpen, IsSpan
<1>2. /\ \A x : x \in R <=> req.route # Nothing /\ x = Route
      /\ \A x : x \in Wanted(req, res) <=> \/ res.kind = "ok" /\ x = Code
                                           \/ HasFailed(res) /\ x = "error.type"
                                           \/ req.route # Nothing /\ x = Route
  BY WantedIs
<1>3. IsFiniteSet(R) /\ Cardinality(R) <= 1
  <2>1. CASE req.route = Nothing
    <3>1. R = {} BY <2>1 DEF RouteKeys
    <3>2. IsFiniteSet({}) /\ Cardinality({}) = 0 /\ 0 <= 1 BY FS_EmptySet
    <3> HIDE DEF R
    <3> QED BY <3>1, <3>2
  <2>2. CASE req.route # Nothing
    <3>1. R = {Route} BY <2>2 DEF RouteKeys
    <3>2. IsFiniteSet({Route}) /\ Cardinality({Route}) = 1 /\ 1 <= 1 BY FS_Singleton
    <3> HIDE DEF R
    <3> QED BY <3>1, <3>2
  <2> QED BY <2>1, <2>2
<1>4. IsFiniteSet(C) /\ Cardinality(C) <= 2
  <2> HIDE DEF R
  <2>1. 1 \in Nat /\ 1 + 1 = 2 OBVIOUS
  <2> QED BY <1>3, <2>1, OneMore
<1>5. \A x : x \in C <=> x \in R \/ x = Code OBVIOUS
<1>6. IsSpan(coded) /\ RecordedAs(a, coded.attributes, Code, IntOf(res))
  BY StatusWritten
<1> HIDE DEF R, C, a
<1>7. AttributeCap >= 11 /\ AttributeCap \in Nat BY CapAssumption, CapacityAssumption
<1>8. Cardinality(R) < AttributeCap /\ Cardinality(C) < AttributeCap
  <2>1. Cardinality(R) \in Nat /\ Cardinality(C) \in Nat BY <1>3, <1>4, FS_CardinalityType
  <2> QED BY <1>3, <1>4, <1>7, <2>1
<1>9. CASE res.kind = "err"
  <2>1. Outcome(s, res) = Failing(s, res.type) BY <1>9 DEF Outcome
  <2> DEFINE B == R \cup {"error.type"}
  <2>2. Room(Failing(s, res.type).attributes, B, B)
    BY <1>1, <1>3, <1>8, FailingRoom DEF a
  <2>3. HasFailed(res) /\ res.kind # "ok" BY <1>9 DEF HasFailed
  <2>4. B = Wanted(req, res) BY <1>2, <2>3
  <2> QED BY <2>1, <2>2, <2>4
<1>10. CASE res.kind = "ok"
  <2> DEFINE c == coded.attributes
  <2>1. Room(c, C, C) /\ AllProtected(C)
    <3> HIDE DEF c
    <3>1. RecordedAs(a, c, Code, IntOf(res)) BY <1>6 DEF c
    <3> QED BY <1>1, <1>3, <1>5, <1>8, <3>1, ProtectedKeys, RoomWanted
  <2>2. CASE res.code >= 500
    <3>1. Outcome(s, res) = Failing(coded, CodeText(res.code))
      BY <1>10, <2>2 DEF Outcome
    <3> HIDE DEF coded
    <3> DEFINE B == C \cup {"error.type"}
    <3>2. Room(Failing(coded, CodeText(res.code)).attributes, B, B)
      BY <1>4, <1>6, <1>8, <2>1, FailingRoom
    <3>3. HasFailed(res) BY <1>10, <2>2 DEF HasFailed
    <3>4. B = Wanted(req, res) BY <1>2, <1>5, <1>10, <3>3
    <3> QED BY <3>1, <3>2, <3>4
  <2>3. CASE ~(res.code >= 500)
    <3>1. Outcome(s, res) = coded BY <1>10, <2>3 DEF Outcome
    <3> HIDE DEF coded
    <3>2. ~HasFailed(res) BY <1>10, <2>3 DEF HasFailed
    <3>3. C = Wanted(req, res) BY <1>2, <1>5, <1>10, <3>2
    <3> QED BY <2>1, <3>1, <3>3
  <2> QED BY <2>2, <2>3
<1> QED BY <1>9, <1>10, ResponseIs

\* The keys of the first n headers that are captured.
HeadersUpTo(headers, n) ==
  {KeyOfHeader(headers[i]) : i \in {j \in 1..n : Captured(headers[j])}}

\* One more header.
LEMMA NextHeader ==
  ASSUME NEW headers, NEW n \in Nat
  PROVE  /\ HeadersUpTo(headers, 0) = {}
         /\ ~Captured(headers[n + 1]) => HeadersUpTo(headers, n + 1) = HeadersUpTo(headers, n)
         /\ Captured(headers[n + 1]) =>
              \A x : x \in HeadersUpTo(headers, n + 1) <=>
                       x \in HeadersUpTo(headers, n) \/ x = KeyOfHeader(headers[n + 1])
<1>1. \A i : i \in 1..(n + 1) <=> i \in 1..n \/ i = n + 1 OBVIOUS
<1>2. \A m, x : x \in HeadersUpTo(headers, m) <=>
                  \E i \in 1..m : Captured(headers[i]) /\ x = KeyOfHeader(headers[i])
  BY DEF HeadersUpTo
<1>3. \A i : i \notin 1..0 OBVIOUS
<1>4. HeadersUpTo(headers, 0) = {} BY <1>2, <1>3
<1>5. \A x : x \in HeadersUpTo(headers, n + 1) <=>
        \/ x \in HeadersUpTo(headers, n)
        \/ Captured(headers[n + 1]) /\ x = KeyOfHeader(headers[n + 1])
  <2> SUFFICES ASSUME NEW x
               PROVE  x \in HeadersUpTo(headers, n + 1) <=>
                        \/ x \in HeadersUpTo(headers, n)
                        \/ Captured(headers[n + 1]) /\ x = KeyOfHeader(headers[n + 1])
    OBVIOUS
  <2> DEFINE P(i) == Captured(headers[i]) /\ x = KeyOfHeader(headers[i])
  <2>1. x \in HeadersUpTo(headers, n + 1) <=> \E i \in 1..(n + 1) : P(i) BY <1>2
  <2>2. x \in HeadersUpTo(headers, n) <=> \E i \in 1..n : P(i) BY <1>2
  <2> HIDE DEF P
  <2>3. (\E i \in 1..(n + 1) : P(i)) <=> (\E i \in 1..n : P(i)) \/ P(n + 1)
    BY <1>1
  <2> QED BY <2>1, <2>2, <2>3 DEF P
<1>6. ASSUME ~Captured(headers[n + 1])
      PROVE  HeadersUpTo(headers, n + 1) = HeadersUpTo(headers, n)
  BY <1>5, <1>6
<1> QED BY <1>4, <1>5, <1>6

\* The headers of an answer: how many keys, that they are protected and none of
\* the outcome.
LEMMA HeadersOfIs ==
  ASSUME NEW res \in Responses
  PROVE  /\ IsFiniteSet(HeadersOf(res)) /\ AllProtected(HeadersOf(res))
         /\ \A k \in HeadersOf(res) : k \notin OwnKeys
         /\ res.kind = "ok" => HeadersOf(res) = HeadersUpTo(res.headers, Len(res.headers))
<1> DEFINE H == HeadersOf(res)
           I == {j \in DOMAIN res.headers : Captured(res.headers[j])}
<1>1. CASE res.kind = "err"
  <2>1. H = {} BY <1>1 DEF HeadersOf
  <2>2. IsFiniteSet({}) BY FS_EmptySet
  <2> HIDE DEF H
  <2>3. IsFiniteSet(H) BY <2>1, <2>2
  <2>4. AllProtected(H) /\ \A k \in H : k \notin OwnKeys BY <2>1 DEF AllProtected
  <2> QED BY <1>1, <2>3, <2>4 DEF H
<1>2. CASE res.kind = "ok"
  <2>1. /\ IsList(res.headers)
        /\ \A i \in I : /\ KeyOfHeader(res.headers[i]) \notin OwnKeys
                        /\ IsProtected(KeyOfHeader(res.headers[i]))
    BY <1>2, ResponseIs
  <2>2. Len(res.headers) \in Nat /\ DOMAIN res.headers = 1..Len(res.headers)
    BY <2>1, ListIs DEF IsList
  <2>3. H = {KeyOfHeader(res.headers[i]) : i \in I} BY <1>2 DEF HeadersOf
  <2>4. H = HeadersUpTo(res.headers, Len(res.headers))
    BY <2>2, <2>3 DEF HeadersUpTo
  <2>5. AllProtected(H) /\ \A k \in H : k \notin OwnKeys
    <3> HIDE DEF I, H
    <3> QED BY <2>1, <2>3 DEF AllProtected
  <2>6. IsFiniteSet(I)
    <3>1. I \subseteq 1..Len(res.headers) BY <2>2
    <3>2. IsFiniteSet(1..Len(res.headers)) BY <2>2, FS_Interval
    <3> HIDE DEF I
    <3> QED BY <3>1, <3>2, FS_Subset
  <2>7. IsFiniteSet(H)
    <3> DEFINE f == [i \in I |-> KeyOfHeader(res.headers[i])]
    <3>1. f \in [I -> H]
      <4> HIDE DEF I, H
      <4> QED BY <2>3
    <3>2. \A k \in H : \E i \in I : f[i] = k
      <4> HIDE DEF I, H
      <4> QED BY <2>3
    <3> HIDE DEF I, H, f
    <3>3. f \in Surjection(I, H) BY <3>1, <3>2 DEF Surjection
    <3> QED BY <2>6, <3>3, FS_Surjection
  <2> QED BY <2>4, <2>5, <2>7 DEF H
<1> QED BY <1>1, <1>2, ResponseIs

\* Each captured header is stored, or there is no room for it; the outcome
\* stays.
LEMMA HeadersHaveRoom ==
  ASSUME NEW s, IsSpan(s), NEW res \in Responses, res.kind = "ok",
         NEW W, AllProtected(W), Room(s.attributes, W, W)
  PROVE  Room(RecordFields(s, LateFields, HeaderFields(res.headers)).attributes,
              W, W \cup HeadersOf(res))
<1> DEFINE hs == res.headers
           o == HeaderFields(hs)
           N == Len(o)
<1>1. /\ IsList(hs)
      /\ \A i \in DOMAIN hs : Captured(hs[i]) =>
           /\ Writes(HeaderField(hs[i])) = {HeaderPair(hs[i])}
           /\ IsProtected(KeyOfHeader(hs[i]))
  BY ResponseIs
<1>2. /\ IsList(o) /\ N = Len(hs) /\ DOMAIN o = DOMAIN hs
      /\ \A i \in DOMAIN hs : o[i] = IF Captured(hs[i]) THEN Just(HeaderField(hs[i]))
                                     ELSE Nothing
  BY <1>1, HeaderFieldsAre
<1>3. N \in Nat /\ DOMAIN o = 1..N BY <1>2, ListIs DEF IsList
<1>4. \E f : Runs(f, s, LateFields, o) BY <1>3, LoopIs
<1>5. PICK f : Runs(f, s, LateFields, o) BY <1>4
<1> DEFINE A(n) == W \cup HeadersUpTo(hs, n)
           Good == {n \in 0..N : /\ IsSpan(f[n]) /\ AllProtected(A(n))
                                 /\ Room(f[n].attributes, W, A(n))}
<1>6. HeadersOf(res) = HeadersUpTo(hs, N)
  BY <1>2, HeadersOfIs
<1> HIDE DEF o, hs
<1>7. 0 \in Good
  <2>1. A(0) = W BY NextHeader
  <2>2. f[0] = s BY <1>5 DEF Runs
  <2>3. 0 \in 0..N BY <1>3
  <2> HIDE DEF A, N
  <2> QED BY <2>1, <2>2, <2>3
<1>8. ASSUME NEW n \in 0..N, n + 1 \in 0..N, n \in Good PROVE n + 1 \in Good
  <2> DEFINE s0 == f[n]
             s1 == f[n + 1]
             h == hs[n + 1]
  <2>1. s1 = RecordField(s0, LateFields, o[n + 1]) BY <1>5, <1>8 DEF Runs
  <2>2. IsSpan(s0) /\ AllProtected(A(n)) /\ Room(s0.attributes, W, A(n)) BY <1>8
  <2>3. n \in Nat /\ n + 1 \in DOMAIN hs BY <1>2, <1>3, <1>8
  <2>4. o[n + 1] = IF Captured(h) THEN Just(HeaderField(h)) ELSE Nothing
    BY <1>2, <2>3
  <2>5. Captured(h) => Writes(HeaderField(h)) = {HeaderPair(h)} /\ IsProtected(KeyOfHeader(h))
    BY <1>1, <2>3
  <2>6. /\ ~Captured(h) => HeadersUpTo(hs, n + 1) = HeadersUpTo(hs, n)
        /\ Captured(h) => \A x : x \in HeadersUpTo(hs, n + 1) <=>
                                   x \in HeadersUpTo(hs, n) \/ x = KeyOfHeader(h)
    BY <2>3, NextHeader
  <2> HIDE DEF s0, s1, h
  <2>7. IsSpan(s1) /\ AllProtected(A(n + 1)) /\ Room(s1.attributes, W, A(n + 1))
    <3>1. CASE ~Captured(h)
      <4>1. o[n + 1] = Nothing BY <2>4, <3>1
      <4>2. s1 = s0 BY <2>1, <4>1 DEF RecordField
      <4>3. A(n + 1) = A(n) BY <2>6, <3>1
      <4> HIDE DEF A
      <4> QED BY <2>2, <4>2, <4>3
    <3>2. CASE Captured(h)
      <4> DEFINE g == HeaderField(h)
                 k == KeyOfHeader(h)
                 v == Text(Joined(Readable(h.values)))
      <4>1. g.key = HeaderSlot /\ g.by = "str" /\ g.key \in LateFields
        BY DEF HeaderField, Str, HeaderSlot, LateFields
      <4>2. Writes(g) = {<<k, v>>} BY <2>5, <3>2 DEF HeaderPair
      <4>3. IsProtected(k) BY <2>5, <3>2
      <4>4. \A x : x \in A(n + 1) <=> x \in A(n) \/ x = k BY <2>6, <3>2
      <4>5. o[n + 1] = Just(g) BY <2>4, <3>2
      <4> HIDE DEF g, k, v, A
      <4>6. s1 = HandleField(s0, g) BY <2>1, <4>1, <4>5, GivenIs
      <4>7. IsSpan(s1) /\ FieldHandled(s0.attributes, s1.attributes, g)
        BY <2>2, <4>6, HandleIs
      <4>8. g.key # StatusCode BY <4>1 DEF HeaderSlot, StatusCode
      <4>9. RecordedAs(s0.attributes, s1.attributes, k, v)
        BY <4>1, <4>2, <4>7, <4>8, WrittenIs
      <4>10. Len(s0.attributes) \in Nat BY <2>2, EntriesAre DEF IsSpan
      <4>11. Room(s1.attributes, W, A(n + 1)) /\ AllProtected(A(n + 1))
        BY <2>2, <4>3, <4>4, <4>9, <4>10, RoomJoined
      <4> QED BY <4>7, <4>11
    <3> QED BY <3>1, <3>2
  <2> HIDE DEF A
  <2> QED BY <1>8, <2>7 DEF s1
<1>9. 0..N \subseteq Good
  <2> HIDE DEF Good, N
  <2> QED BY <1>3, <1>7, <1>8, UpTo
<1>10. Room(f[N].attributes, W, A(N))
  <2>1. N \in 0..N BY <1>3
  <2> HIDE DEF A, N
  <2>2. N \in Good BY <1>9, <2>1
  <2> QED BY <2>2
<1>11. RecordFields(s, LateFields, o) = f[N] BY <1>5 DEF Runs
<1> QED BY <1>6, <1>10, <1>11 DEF o, hs

\* The answer stores the outcome with its values, and of the headers what then
\* has room.
LEMMA AnswerOutcome ==
  ASSUME NEW s, IsSpan(s), NEW req, OutcomeOpen(s.attributes, req), NEW res \in Responses
  PROVE  OutcomeStored(RecordFields(s, LateFields, FieldsOfAnswer(res)).attributes, req, res)
<1> DEFINE r == RecordFields(s, LateFields, FieldsOfAnswer(res))
           m == Outcome(s, res)
           a == s.attributes
           b == r.attributes
           W == Wanted(req, res)
<1>1. Room(m.attributes, W, W) BY OutcomeHasRoom
<1>2. AllProtected(W) BY WantedIs
<1>3. IsSpan(m) BY OutcomeIs
<1>4. r = IF res.kind = "err" THEN m
          ELSE RecordFields(m, LateFields, HeaderFields(res.headers))
  BY AnswerIs
<1>5. \A p \in Pairs(b) : p \in Pairs(a) \/ AnswerPair(p, res)
  BY AnsweredIs
<1> HIDE DEF m, r, W
<1>6. Room(b, W, W \cup HeadersOf(res))
  <2>1. CASE res.kind = "err"
    <3>1. HeadersOf(res) = {} BY <2>1 DEF HeadersOf
    <3>2. W \cup HeadersOf(res) = W BY <3>1
    <3> QED BY <1>1, <1>4, <2>1, <3>2
  <2>2. CASE res.kind = "ok"
    <3>1. r = RecordFields(m, LateFields, HeaderFields(res.headers)) BY <1>4, <2>2
    <3> QED BY <1>1, <1>2, <1>3, <2>2, <3>1, HeadersHaveRoom
  <2> QED BY <2>1, <2>2, ResponseIs
<1>7. /\ \A p \in Pairs(a) : RoutePair(p, req)
      /\ Room(a, RouteKeys(req), RouteKeys(req))
  BY DEF OutcomeOpen
<1> HIDE DEF a, b
<1>8. ASSUME NEW p, AnswerPair(p, res)
      PROVE  /\ p[1] # Route
             /\ p[1] = Code => p = <<Code, IntOf(res)>>
  <2>1. CASE p = <<Code, IntOf(res)>>
    <3>1. p[1] = Code BY <2>1
    <3> QED BY <2>1, <3>1 DEF Code, Route
  <2>2. CASE p = <<"error.type", Text(res.type)>> \/ p = <<"error.type", Text(CodeText(res.code))>>
    <3>1. p[1] = "error.type" BY <2>2
    <3> QED BY <3>1 DEF Code, Route
  <2>3. ASSUME NEW i \in DOMAIN res.headers, res.kind = "ok", Captured(res.headers[i]),
               p = HeaderPair(res.headers[i])
        PROVE  p[1] # Route /\ p[1] # Code
    <3> DEFINE k == KeyOfHeader(res.headers[i])
               v == Text(Joined(Readable(res.headers[i].values)))
    <3>1. k \notin OwnKeys BY <2>3, ResponseIs
    <3>2. p = <<k, v>> BY <2>3 DEF HeaderPair
    <3> HIDE DEF k, v
    <3>3. p[1] = k BY <3>2
    <3>4. Route \in OwnKeys /\ Code \in OwnKeys BY DEF OwnKeys, LateFields, Route, Code
    <3> QED BY <3>1, <3>3, <3>4
  <2> QED BY <1>8, <2>1, <2>2, <2>3 DEF AnswerPair
<1>9. \A p \in Pairs(b) : RoutePair(p, req)
  BY <1>5, <1>7, <1>8 DEF RoutePair
<1>10. ASSUME res.kind = "ok", NEW p \in Pairs(b) PROVE CodePair(p, res)
  <2>1. CASE p \in Pairs(a)
    <3>1. p[1] \in KeysOf(a) BY <2>1 DEF Pairs, KeysOf
    <3>2. Code \notin KeysOf(a)
      <4>1. Code \in KeysOf(a) => Code \in RouteKeys(req) BY <1>7, ProtectedKeys DEF Room
      <4>2. Code # Route BY DEF Code, Route
      <4> QED BY <4>1, <4>2, WantedIs
    <3> QED BY <3>1, <3>2 DEF CodePair
  <2>2. CASE AnswerPair(p, res)
    <3>1. <<Code, IntOf(res)>>[2] = IntOf(res) OBVIOUS
    <3>2. p[1] = Code => p[2] = IntOf(res) BY <1>8, <2>2, <3>1
    <3> QED BY <3>2 DEF CodePair, IntOf
  <2> QED BY <1>5, <2>1, <2>2
<1> QED BY <1>6, <1>9, <1>10 DEF OutcomeStored, b, r, W

\* Events and other fields leave what there is of the outcome.
LEMMA OutcomeLeft ==
  ASSUME NEW a, NEW b, \A W, A : AllProtected(A) /\ Room(a, W, A) => Room(b, W, A),
         \A p \in Pairs(b) : p \in Pairs(a) \/ p[1] \notin OutcomeKeys
  PROVE  /\ \A req : OutcomeOpen(a, req) => OutcomeOpen(b, req)
         /\ \A req : \A res \in Responses :
              OutcomeStored(a, req, res) => OutcomeStored(b, req, res)
<1>1. Route \in OutcomeKeys /\ Code \in OutcomeKeys BY DEF OutcomeKeys
<1>2. \A req : (\A p \in Pairs(a) : RoutePair(p, req)) => \A p \in Pairs(b) : RoutePair(p, req)
  BY <1>1 DEF RoutePair
<1>3. \A res : (\A p \in Pairs(a) : CodePair(p, res)) => \A p \in Pairs(b) : CodePair(p, res)
  BY <1>1 DEF CodePair
<1>4. ASSUME NEW req, OutcomeOpen(a, req) PROVE OutcomeOpen(b, req)
  <2>1. AllProtected(RouteKeys(req)) BY WantedIs
  <2>2. Room(b, RouteKeys(req), RouteKeys(req)) BY <1>4, <2>1 DEF OutcomeOpen
  <2> QED BY <1>2, <1>4, <2>2 DEF OutcomeOpen
<1>5. ASSUME NEW req, NEW res \in Responses, OutcomeStored(a, req, res)
      PROVE  OutcomeStored(b, req, res)
  <2> DEFINE W == Wanted(req, res)
             A == W \cup HeadersOf(res)
  <2>1. AllProtected(W) /\ AllProtected(HeadersOf(res)) BY WantedIs, HeadersOfIs
  <2>2. AllProtected(A) BY <2>1 DEF AllProtected
  <2>3. Room(a, W, A) BY <1>5 DEF OutcomeStored
  <2>4. Room(b, W, A)
    <3> HIDE DEF W, A
    <3> QED BY <2>2, <2>3
  <2> QED BY <1>2, <1>3, <1>5, <2>4 DEF OutcomeStored
<1> QED BY <1>4, <1>5

\* Every step leaves room for the outcome, and what is stored of it.
LEMMA OutcomeStays ==
  ASSUME Typed, OutcomeRoom, Next
  PROVE  OutcomeRoom'
<1> DEFINE Open(g, l, s, q) == g = "open" /\ ~AnyMeddles(l) => OutcomeOpen(s.attributes, q)
           Done(l, s, q, x) == x # NoResponse /\ ~AnyMeddles(l) =>
                                 OutcomeStored(s.attributes, q, x)
<1>0. /\ IsSpan(span) /\ IsList(said)
      /\ response # NoResponse => response \in Responses /\ stage \in {"answered", "closed"}
      /\ Open(stage, said, span, request) /\ Done(said, span, request, response)
  BY DEF Typed, OutcomeRoom, Answered, attributes
<1> SUFFICES Open(stage', said', span', request') /\ Done(said', span', request', response')
  BY DEF OutcomeRoom, Answered, attributes
<1> DEFINE Goal == /\ Open(stage', said', span', request')
                   /\ Done(said', span', request', response')
<1>1. ASSUME NEW req \in Requests, NEW draws, Call(req, draws) PROVE Goal
  <2>1. /\ stage = "idle" /\ response' = response /\ request' = req
        /\ span' = RecordFields(Built(DeclaredWith(req) \o RemoteOf(req)),
                                LateFields, LateOf(req))
    BY <1>1 DEF Call
  <2>2. response' = NoResponse BY <1>0, <2>1
  <2>3. OutcomeOpen(span'.attributes, request') BY <2>1, CallOutcome
  <2> QED BY <2>2, <2>3
<1>2. ASSUME \A W, A : AllProtected(A) /\ Room(span.attributes, W, A)
                         => Room(span'.attributes, W, A),
             \A p \in Pairs(span'.attributes) :
               p \in Pairs(span.attributes) \/ p[1] \notin OutcomeKeys,
             stage' = stage, request' = request, response' = response,
             AnyMeddles(said) => AnyMeddles(said')
      PROVE  Goal
  <2>1. /\ \A req : OutcomeOpen(span.attributes, req) => OutcomeOpen(span'.attributes, req)
        /\ \A req : \A res \in Responses :
             OutcomeStored(span.attributes, req, res)
               => OutcomeStored(span'.attributes, req, res)
    BY <1>2, OutcomeLeft
  <2> QED BY <1>0, <1>2, <2>1
<1>3. ASSUME NEW e \in HandlerEvents, HandlerEvent(e) PROVE Goal
  <2> DEFINE a == span.attributes
             b == span'.attributes
             x == [stage |-> stage, event |-> e]
  <2>1. /\ stage' = stage /\ response' = response /\ request' = request
        /\ span' = WithEvent(span, e) /\ said' = Append(said, x)
    BY <1>3 DEF HandlerEvent
  <2>2. b = a \/ EventMarked(a, b, Explanation(e)) BY <1>0, <2>1, EventIs
  <2>3. AnyMeddles(said) => AnyMeddles(said')
    <3> HIDE DEF x
    <3> QED BY <1>0, <2>1, SomeThen
  <2>4. AreAttributes(a) BY <1>0 DEF IsSpan
  <2> HIDE DEF a, b
  <2>5. \A W, A : AllProtected(A) /\ Room(a, W, A) => Room(b, W, A)
    BY <2>2, <2>4, EventRoom
  <2>6. \A p \in Pairs(b) : p \in Pairs(a) \/ p[1] \notin OutcomeKeys
    <3>1. CASE b = a BY <3>1
    <3>2. CASE EventMarked(a, b, Explanation(e))
      <4>1. StatusCode \notin OutcomeKeys /\ StatusMessage \notin OutcomeKeys
        BY DEF StatusCode, StatusMessage, OutcomeKeys, Route, Code, HeaderSlot
      <4>2. \A k, v : <<k, v>>[1] = k OBVIOUS
      <4> QED BY <3>2, <4>1, <4>2, MarkedPairs
    <3> QED BY <2>2, <3>1, <3>2
  <2> QED BY <1>2, <2>1, <2>3, <2>5, <2>6 DEF a, b
<1>4. ASSUME NEW f \in HandlerFields, HandlerRecord(f) PROVE Goal
  <2> DEFINE a == span.attributes
             b == span'.attributes
             x == [stage |-> stage, field |-> f]
             o == Just(f)
  <2>1. /\ stage' = stage /\ response' = response /\ request' = request
        /\ span' = RecordField(span, DeclaredFields(request), o)
        /\ said' = Append(said, x)
    BY <1>4 DEF HandlerRecord
  <2>2. "field" \in DOMAIN x /\ x.field = f BY SaidIs
  <2>3. o[1] = f BY OptionIs
  <2> HIDE DEF x, o
  <2>4. AnyMeddles(said') <=> AnyMeddles(said) \/ f.key \in OutcomeKeys
    BY <1>0, <2>1, <2>2, SomeThen DEF Meddles
  <2>5. CASE AnyMeddles(said') BY <2>5
  <2>6. CASE ~AnyMeddles(said')
    <3>1. /\ IsSpan(span')
          /\ b = a \/ (f.key \in DeclaredFields(request) /\ FieldHandled(a, b, f))
      BY <1>0, <2>1, <2>3, RecordFieldIs
    <3>2. /\ AreAttributes(a) /\ Distinct(a) /\ AreAttributes(b) /\ Distinct(b)
      BY <1>0, <3>1 DEF IsSpan
    <3> HIDE DEF a, b
    <3>3. /\ \A W, A : AllProtected(A) /\ Room(a, W, A) => Room(b, W, A)
          /\ \A p \in Pairs(b) : p \in Pairs(a) \/ p[1] \notin OutcomeKeys
      <4>1. CASE b = a BY <4>1
      <4>2. CASE f.key \in DeclaredFields(request) /\ FieldHandled(a, b, f)
        BY <2>4, <2>6, <3>2, <4>2, FieldRoom
      <4> QED BY <3>1, <4>1, <4>2
    <3> QED BY <1>2, <2>1, <2>4, <3>3 DEF a, b
  <2> QED BY <2>5, <2>6
<1>5. ASSUME NEW res \in Responses, Answer(res) PROVE Goal
  <2>1. /\ stage = "open" /\ stage' = "answered" /\ response' = res /\ said' = said
        /\ request' = request
        /\ span' = RecordFields(span, LateFields, FieldsOfAnswer(res))
    BY <1>5 DEF Answer
  <2>2. ASSUME ~AnyMeddles(said) PROVE OutcomeStored(span'.attributes, request, res)
    <3>1. OutcomeOpen(span.attributes, request) BY <1>0, <2>1, <2>2
    <3> QED BY <1>0, <2>1, <3>1, AnswerOutcome
  <2> QED BY <2>1, <2>2
<1>6. ASSUME Close PROVE Goal
  <2>1. /\ stage' = "closed" /\ response' = response /\ said' = said /\ span' = span
        /\ request' = request
    BY <1>6 DEF Close
  <2> QED BY <1>0, <2>1
<1> HIDE DEF Open, Done
<1> QED BY <1>1, <1>3, <1>4, <1>5, <1>6 DEF Next

\* The lesser of two numbers.
LEMMA LesserIs ==
  ASSUME NEW m \in Nat, NEW n \in Nat
  PROVE  (m <= n => Min({m, n}) = m) /\ (n <= m => Min({m, n}) = n)
<1> DEFINE S == {m, n}
<1>1. S \subseteq Nat /\ S # {} OBVIOUS
<1>2. \A x : x \in S <=> x = m \/ x = n OBVIOUS
<1> HIDE DEF S
<1>3. Min(S) \in S /\ \A y \in S : Min(S) <= y BY <1>1, LeastIs
<1>4. (Min(S) = m \/ Min(S) = n) /\ Min(S) <= m /\ Min(S) <= n BY <1>2, <1>3
<1> DEFINE l == Min(S)
<1>5. l = m \/ l = n BY <1>4
<1>6. l <= m /\ l <= n BY <1>4
<1> HIDE DEF l
<1>7. (m <= n => l = m) /\ (n <= m => l = n) BY <1>5, <1>6
<1> QED BY <1>7 DEF l, S

\* Of the headers as many are stored as the outcome leaves room for.
LEMMA RoomMeans ==
  ASSUME NEW a, AreAttributes(a), Distinct(a), Len(a) <= AttributeCap,
         NEW W, NEW H, IsFiniteSet(H), W \cap H = {}, Room(a, W, W \cup H)
  PROVE  Cardinality(H \cap KeysOf(a)) = Min({Cardinality(H), AttributeCap - Cardinality(W)})
<1> DEFINE K == KeysOf(a)
           h == Cardinality(H)
           w == Cardinality(W)
           k == Cardinality(K)
           c == Cardinality(H \cap K)
<1>1. IsFiniteSet(K) /\ k = Len(a) BY KeyCount
<1>2. /\ W \subseteq K
      /\ W \cup H \subseteq K \/ (Len(a) = AttributeCap /\ K \subseteq W \cup H)
  BY DEF Room
<1> HIDE DEF K
<1>3. IsFiniteSet(W) /\ w <= k BY <1>1, <1>2, FS_Subset
<1>4. IsFiniteSet(H \cap K) /\ c <= h
  <2>1. H \cap K \in SUBSET H OBVIOUS
  <2> QED BY <2>1, FS_Subset
<1>5. h \in Nat /\ w \in Nat /\ k \in Nat /\ c \in Nat
  BY <1>1, <1>3, <1>4, FS_CardinalityType
<1>6. AttributeCap \in Nat BY CapacityAssumption
<1>7. Cardinality(W \cup (H \cap K)) = w + c
  <2> DEFINE X == H \cap K
  <2>1. W \cap X = {} OBVIOUS
  <2>2. IsFiniteSet(X) BY <1>4
  <2> HIDE DEF X
  <2>3. Cardinality(W \cup X) = w + Cardinality(X) - Cardinality(W \cap X)
    BY <1>3, <2>2, FS_Union
  <2>4. Cardinality(W \cap X) = 0 BY <2>1, FS_EmptySet
  <2>5. Cardinality(X) \in Nat BY <2>2, FS_CardinalityType
  <2>6. Cardinality(W \cup X) = w + Cardinality(X)
    <3> HIDE DEF w
    <3> QED BY <1>5, <2>3, <2>4, <2>5 DEF w
  <2> QED BY <2>6 DEF X
<1>8. W \cup (H \cap K) \subseteq K BY <1>2
<1> DEFINE u == Cardinality(W \cup (H \cap K))
<1>9. u <= k
  <2>1. W \cup (H \cap K) \in SUBSET K BY <1>8
  <2> QED BY <1>1, <2>1, FS_Subset
<1>10. CASE W \cup H \subseteq K
  <2>1. H \cap K = H BY <1>10
  <2>2. c = h BY <2>1
  <2> HIDE DEF h, w, k, c, u
  <2>3. u = w + c BY <1>7 DEF u, w, c
  <2>4. AttributeCap - w \in Nat /\ h <= AttributeCap - w
    BY <1>1, <1>5, <1>6, <1>9, <2>2, <2>3
  <2>5. Min({h, AttributeCap - w}) = h BY <1>5, <2>4, LesserIs
  <2> QED BY <2>2, <2>5 DEF c, h, w, K
<1>11. CASE Len(a) = AttributeCap /\ K \subseteq W \cup H
  <2>1. W \cup (H \cap K) = K BY <1>8, <1>11
  <2>2. u = k BY <2>1
  <2> HIDE DEF h, w, k, c, u
  <2>3. u = w + c BY <1>7 DEF u, w, c
  <2>4. c = AttributeCap - w /\ AttributeCap - w \in Nat /\ AttributeCap - w <= h
    BY <1>1, <1>4, <1>5, <1>6, <1>11, <2>2, <2>3
  <2>5. Min({h, AttributeCap - w}) = AttributeCap - w BY <1>5, <2>4, LesserIs
  <2> QED BY <2>4, <2>5 DEF c, h, w, K
<1> QED BY <1>2, <1>10, <1>11

\* What is stored of the outcome is what the property speaks of.
LEMMA OutcomeMeans ==
  ASSUME Typed, OutcomeRoom
  PROVE  OutcomeKept
<1> SUFFICES ASSUME Answered, ~Meddled PROVE OutcomeKept
  BY DEF OutcomeKept
<1> DEFINE W == Wanted(request, response)
           H == HeadersOf(response)
           K == KeysOf(attributes)
<1>1. ~AnyMeddles(said)
  BY DEF Meddled, Wrote, AnyMeddles, Meddles, OutcomeKeys, Route, Code, HeaderSlot
<1>2. /\ Room(attributes, W, W \cup H)
      /\ \A p \in Pairs(attributes) : RoutePair(p, request)
      /\ response.kind = "ok" => \A p \in Pairs(attributes) : CodePair(p, response)
  BY <1>1 DEF OutcomeRoom, OutcomeStored
<1>3. /\ response \in Responses
      /\ AreAttributes(attributes) /\ Distinct(attributes) /\ Len(attributes) <= AttributeCap
  BY DEF Typed, IsSpan, attributes
<1>4. Stored = K BY DEF Stored, KeysOf, attributes
<1>5. /\ \A x : x \in W <=> \/ response.kind = "ok" /\ x = Code
                            \/ HasFailed(response) /\ x = "error.type"
                            \/ request.route # Nothing /\ x = Route
  BY WantedIs
<1>6. IsFiniteSet(H) /\ \A k \in H : k \notin OwnKeys BY <1>3, HeadersOfIs
<1> HIDE DEF W, H, K
<1>7. W \subseteq Stored
  <2>1. W \subseteq K BY <1>2 DEF Room, K
  <2> QED BY <1>4, <2>1
<1>8. W \cap H = {}
  <2>1. W \subseteq OwnKeys
    <3>1. Route \in OwnKeys /\ Code \in OwnKeys /\ "error.type" \in OwnKeys
      BY DEF OwnKeys, LateFields, Route, Code
    <3> QED BY <1>5, <3>1
  <2> QED BY <1>6, <2>1
<1>9. Cardinality(H \cap Stored) = Min({Cardinality(H), AttributeCap - Cardinality(W)})
  <2>1. Cardinality(H \cap KeysOf(attributes))
          = Min({Cardinality(H), AttributeCap - Cardinality(W)})
    BY <1>2, <1>3, <1>6, <1>8, RoomMeans
  <2> QED BY <1>4, <2>1 DEF K
<1>10. \A k, v : <<k, v>>[1] = k /\ <<k, v>>[2] = v OBVIOUS
<1>11. ASSUME response.kind = "ok"
       PROVE  ValueOf(Code) = [type |-> "Int", text |-> CodeText(response.code)]
  <2>1. Code \in Stored BY <1>5, <1>7, <1>11
  <2>2. <<Code, ValueOf(Code)>> \in Pairs(attributes) BY <2>1, StoredPair
  <2>3. CodePair(<<Code, ValueOf(Code)>>, response) BY <1>2, <1>11, <2>2
  <2> QED BY <1>10, <2>3 DEF CodePair
<1>12. ASSUME request.route # Nothing PROVE ValueOf(Route).text = request.route[1]
  <2>1. Route \in Stored BY <1>5, <1>7, <1>12
  <2>2. <<Route, ValueOf(Route)>> \in Pairs(attributes) BY <2>1, StoredPair
  <2>3. RoutePair(<<Route, ValueOf(Route)>>, request) BY <1>2, <2>2
  <2> QED BY <1>10, <2>3 DEF RoutePair
<1> QED
  BY <1>7, <1>9, <1>11, <1>12, Zenon
  DEF OutcomeKept, W, H, Wanted, HasFailed, HeadersOf, KeyOfHeader, Route, Code

-----------------------------------------------------------------------------
(* The theorems.                                                            *)

\* The invariant holds of every state: the types, the clean contents, the
\* context, the room for the outcome and, unless one was recorded after the
\* answer, the status, whatever the requests, the answers and the handler are.
THEOREM InvariantAlways == Spec => []IInv
<1>1. Init => IInv BY InitKept
<1>2. IInv /\ [Next]_vars => IInv'
  <2> SUFFICES ASSUME Typed, AllClean, ContextRead, OutcomeRoom, StatusKept, [Next]_vars
               PROVE  IInv'
    BY DEF IInv
  <2>1. CASE Next
    BY <2>1, TypedKept, CleanKept, ContextKept, OutcomeStays, StatusStays DEF IInv
  <2>2. CASE UNCHANGED vars
    <3>1. /\ stage' = stage /\ request' = request /\ response' = response
          /\ said' = said /\ span' = span /\ context' = context
      BY <2>2 DEF vars
    <3>2. Typed' /\ AllClean' BY <3>1 DEF Typed, AllClean, Traced, Answered, attributes
    <3>3. ContextRead' BY <3>1 DEF ContextRead, Arrived, Traced
    <3>4. OutcomeRoom' BY <3>1 DEF OutcomeRoom, Answered, attributes
    <3>5. StatusKept' BY <3>1 DEF StatusKept, Answered
    <3> QED BY <3>2, <3>3, <3>4, <3>5 DEF IInv
  <2> QED BY <2>1, <2>2
<1> QED BY <1>1, <1>2, PTL DEF Spec

\* No credential leaves in a captured header or in any attribute but the query
\* (SecretsStayOut), whatever the requests, the answers and the handler are, and
\* none in the query unless the handler records a query of its own.
THEOREM SecretsStayOutAlways == Spec => []SecretsStayOut
<1>1. IInv => SecretsStayOut BY CleanMeans DEF IInv
<1> QED BY <1>1, InvariantAlways, PTL

\* The inbound trace context reaches the span and no remote field is exported
\* (ContextArrives), whatever the headers, the identifiers drawn and the
\* handler are.
THEOREM ContextArrivesAlways == Spec => []ContextArrives
<1>1. IInv => ContextArrives BY ContextMeans DEF IInv
<1> QED BY <1>1, InvariantAlways, PTL

\* The outcome survives the budget (OutcomeKept), for every capacity from
\* eleven attributes on and however many headers are captured.
THEOREM OutcomeKeptAlways == Spec => []OutcomeKept
<1>1. IInv => OutcomeKept BY OutcomeMeans DEF IInv
<1> QED BY <1>1, InvariantAlways, PTL

\* A request that failed is exported as failed and told by its first error
\* event (FailureExplained), whatever the answers are and whatever the handler
\* did before and after, but for a status recorded after the answer.
THEOREM FailureExplainedAlways == Spec => []FailureExplained
<1>1. IInv => FailureExplained BY StatusMeans DEF IInv
<1> QED BY <1>1, InvariantAlways, PTL
=============================================================================
