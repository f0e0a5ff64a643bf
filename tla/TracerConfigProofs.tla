------------------------- MODULE TracerConfigProofs -------------------------
(* Proofs about the configuration of a tracer, for every set of             *)
(* environments and of arguments of the setters, and any number of calls.   *)
EXTENDS TracerConfig, SequenceTheorems, WellFoundedInduction,
        NaturalsInduction, TLAPS

-----------------------------------------------------------------------------
(* Loops.                                                                   *)

\* A set of naturals that is not empty has a least element.
LEMMA LeastExists ==
  ASSUME NEW S, S \subseteq Nat, S # {}
  PROVE  \E x \in S : \A y \in S : x <= y
<1>1. PICK x \in S : \A y \in S : ~ (<<y, x>> \in OpToRel(<, Nat))
  BY NatLessThanWellFounded, WFMin
<1>2. \A y \in S : ~(y < x) BY <1>1 DEF OpToRel
<1>3. \A y \in S : x <= y BY <1>2
<1> QED BY <1>3

\* What holds at zero and passes from a number to the next holds of every
\* number up to N.
LEMMA UpTo ==
  ASSUME NEW N \in Nat, NEW Good, 0 \in Good,
         \A n \in 0..N : n + 1 \in 0..N /\ n \in Good => n + 1 \in Good
  PROVE  0..N \subseteq Good
<1> DEFINE Bad == {n \in 0..N : n \notin Good}
<1> SUFFICES ASSUME Bad # {} PROVE FALSE
  OBVIOUS
<1>1. Bad \subseteq Nat OBVIOUS
<1>2. PICK n \in Bad : \A m \in Bad : n <= m
  <2> HIDE DEF Bad
  <2> QED BY <1>1, LeastExists
<1>3. n \in 0..N /\ n \notin Good BY <1>2
<1>4. n # 0 BY <1>3
<1>5. n - 1 \in 0..N /\ (n - 1) + 1 = n BY <1>3, <1>4
<1>6. n - 1 \in Good
  <2> SUFFICES ASSUME n - 1 \notin Good PROVE FALSE
    OBVIOUS
  <2>1. n - 1 \in Bad BY <1>5
  <2> QED BY <1>2, <1>3, <1>5, <2>1
<1> QED BY <1>3, <1>5, <1>6

\* The loop of with_resource_attributes: what it starts from, and what one
\* round does.
IsLoop(f, c, list) ==
  f = [n \in 0..Len(list) |->
         IF n = 0 THEN c ELSE WithAttribute(f[n - 1], list[n])]

\* The recursion of the loop defines a function.
LEMMA LoopExists ==
  ASSUME NEW c, NEW list, Len(list) \in Nat
  PROVE  \E f : IsLoop(f, c, list)
<1> DEFINE N == Len(list)
           Part(g, m) == g = [n \in 0..m |->
                           IF n = 0 THEN c ELSE WithAttribute(g[n - 1], list[n])]
           Good == {m \in 0..N : \E g : Part(g, m)}
<1>1. 0 \in Good
  <2> DEFINE g == [n \in 0..0 |-> c]
  <2>1. Part(g, 0) OBVIOUS
  <2>2. \E x : Part(x, 0)
    <3> HIDE DEF g
    <3> QED BY <2>1
  <2>3. 0 \in 0..N OBVIOUS
  <2> QED BY <2>2, <2>3
<1>2. ASSUME NEW m \in 0..N, m + 1 \in 0..N, m \in Good
      PROVE  m + 1 \in Good
  <2>1. PICK g : Part(g, m) BY <1>2
  <2> DEFINE h == [n \in 0..(m + 1) |->
                     IF n = m + 1 THEN WithAttribute(g[m], list[m + 1]) ELSE g[n]]
  <2>2. ASSUME NEW n \in 0..(m + 1)
        PROVE  h[n] = IF n = 0 THEN c ELSE WithAttribute(h[n - 1], list[n])
    <3>1. CASE n = m + 1 BY <3>1
    <3>2. CASE n # m + 1
      <4>1. n \in 0..m BY <3>2
      <4>2. h[n] = g[n] BY <3>2
      <4>3. g[n] = IF n = 0 THEN c ELSE WithAttribute(g[n - 1], list[n])
        BY <2>1, <4>1
      <4>4. n # 0 => h[n - 1] = g[n - 1] BY <4>1
      <4> QED BY <4>2, <4>3, <4>4
    <3> QED BY <3>1, <3>2
  <2>3. Part(h, m + 1) BY <2>2
  <2> QED BY <1>2, <2>3
<1>3. 0..N \subseteq Good
  <2> HIDE DEF Good
  <2> QED BY <1>1, <1>2, UpTo
<1>4. PICK g : Part(g, N) BY <1>3
<1> QED BY <1>4 DEF IsLoop

\* with_resource_attributes returns what the last round of its loop leaves.
LEMMA LoopIs ==
  ASSUME NEW c, NEW list, Len(list) \in Nat
  PROVE  \E f : IsLoop(f, c, list) /\ WithResourceAttributes(c, list) = f[Len(list)]
<1> DEFINE f == CHOOSE g : IsLoop(g, c, list)
<1>1. IsLoop(f, c, list) BY LoopExists
<1>2. WithResourceAttributes(c, list) = f[Len(list)]
  BY DEF WithResourceAttributes, IsLoop
<1> QED BY <1>1, <1>2

-----------------------------------------------------------------------------
(* The last and the first of some positions.                                *)

Within(at, n)  == n \in Nat /\ at \subseteq 1..n
LastIn(i, at)  == i \in at /\ \A j \in at : j <= i
FirstIn(i, at) == i \in at /\ \A j \in at : i <= j

\* A set of positions that is not empty has a greatest element.
LEMMA GreatestExists ==
  ASSUME NEW n, NEW at, Within(at, n), at # {}
  PROVE  \E i : LastIn(i, at)
<1> DEFINE S == {n - i : i \in at}
<1>0. n \in Nat /\ \A i \in at : i \in 1..n BY DEF Within
<1>1. S \subseteq Nat /\ S # {}
  <2>1. \A i \in at : n - i \in Nat BY <1>0
  <2> QED BY <2>1
<1>2. PICK x \in S : \A y \in S : x <= y
  <2> HIDE DEF S
  <2> QED BY <1>1, LeastExists
<1>3. PICK i \in at : x = n - i BY <1>2
<1>4. ASSUME NEW j \in at PROVE j <= i
  <2>1. n - j \in S OBVIOUS
  <2>2. n - i <= n - j BY <1>2, <1>3, <2>1
  <2>3. i \in 1..n /\ j \in 1..n BY <1>0
  <2> QED BY <1>0, <2>2, <2>3
<1> QED BY <1>4 DEF LastIn

\* LastOf takes the value at the greatest position.
LEMMA LastOfIs ==
  ASSUME NEW n, NEW at, Within(at, n), at # {}, NEW seq
  PROVE  \E i : LastIn(i, at) /\ LastOf(at, seq) = seq[i].value
<1> DEFINE m == CHOOSE i \in at : \A j \in at : j <= i
<1>1. PICK i : LastIn(i, at) BY GreatestExists
<1>2. LastIn(m, at) BY <1>1 DEF LastIn
<1>3. LastOf(at, seq) = seq[m].value BY DEF LastOf
<1> HIDE DEF m
<1> QED BY <1>2, <1>3

\* There is only one greatest position.
LEMMA LastOfAt ==
  ASSUME NEW n, NEW at, Within(at, n), NEW i, LastIn(i, at), NEW seq
  PROVE  LastOf(at, seq) = seq[i].value
<1>1. at # {} BY DEF LastIn
<1>2. PICK k : LastIn(k, at) /\ LastOf(at, seq) = seq[k].value
  BY <1>1, LastOfIs
<1>3. i <= k /\ k <= i /\ i \in Int /\ k \in Int BY <1>2 DEF LastIn, Within
<1>4. i = k BY <1>3
<1> QED BY <1>2, <1>4

\* FirstOf takes the value at the least one.
LEMMA FirstOfIs ==
  ASSUME NEW n, NEW at, Within(at, n), at # {}, NEW seq
  PROVE  \E i : FirstIn(i, at) /\ FirstOf(at, seq) = seq[i].value
<1> DEFINE m == CHOOSE i \in at : \A j \in at : i <= j
<1>0. at \subseteq Nat BY DEF Within
<1>1. PICK i \in at : \A j \in at : i <= j BY <1>0, LeastExists
<1>2. FirstIn(m, at) BY <1>1 DEF FirstIn
<1>3. FirstOf(at, seq) = seq[m].value BY DEF FirstOf
<1> HIDE DEF m
<1> QED BY <1>2, <1>3

\* There is only one least position.
LEMMA FirstOfAt ==
  ASSUME NEW n, NEW at, Within(at, n), NEW i, FirstIn(i, at), NEW seq
  PROVE  FirstOf(at, seq) = seq[i].value
<1>1. at # {} BY DEF FirstIn
<1>2. PICK k : FirstIn(k, at) /\ FirstOf(at, seq) = seq[k].value
  BY <1>1, FirstOfIs
<1>3. i <= k /\ k <= i /\ i \in Int /\ k \in Int BY <1>2 DEF FirstIn, Within
<1>4. i = k BY <1>3
<1> QED BY <1>2, <1>4

\* Another sequence with the same values at some positions.
LEMMA SameValues ==
  ASSUME NEW n, NEW at, Within(at, n), NEW s, NEW t, \A i \in at : t[i] = s[i]
  PROVE  LastOf(at, t) = LastOf(at, s) /\ FirstOf(at, t) = FirstOf(at, s)
<1>1. CASE at = {} BY <1>1 DEF LastOf, FirstOf
<1>2. CASE at # {}
  <2>1. PICK i : LastIn(i, at) /\ LastOf(at, s) = s[i].value BY <1>2, LastOfIs
  <2>2. LastOf(at, t) = t[i].value BY <2>1, LastOfAt
  <2>3. t[i] = s[i] BY <2>1 DEF LastIn
  <2>4. PICK j : FirstIn(j, at) /\ FirstOf(at, s) = s[j].value BY <1>2, FirstOfIs
  <2>5. FirstOf(at, t) = t[j].value BY <2>4, FirstOfAt
  <2>6. t[j] = s[j] BY <2>4 DEF FirstIn
  <2> QED BY <2>1, <2>2, <2>3, <2>4, <2>5, <2>6
<1> QED BY <1>1, <1>2

\* A position behind the others decides what is last and, if it is the only
\* one, what is first.
LEMMA OneMore ==
  ASSUME NEW n, NEW at, Within(at, n), NEW t
  PROVE  /\ Within(at \cup {n + 1}, n + 1)
         /\ LastOf(at \cup {n + 1}, t) = t[n + 1].value
         /\ FirstOf(at \cup {n + 1}, t) =
              IF at = {} THEN t[n + 1].value ELSE FirstOf(at, t)
<1> DEFINE more == at \cup {n + 1}
<1>1. n \in Nat /\ \A i \in at : i \in 1..n BY DEF Within
<1>2. Within(more, n + 1)
  <2>1. n + 1 \in Nat /\ n + 1 \in 1..(n + 1) /\ \A i \in at : i \in 1..(n + 1)
    BY <1>1
  <2> QED BY <2>1 DEF Within
<1>3. LastIn(n + 1, more)
  <2>1. \A i \in at : i <= n + 1 BY <1>1
  <2> QED BY <1>1, <2>1 DEF LastIn
<1>4. CASE at = {}
  <2>1. FirstIn(n + 1, more) BY <1>1, <1>4 DEF FirstIn
  <2> HIDE DEF more
  <2>2. FirstOf(more, t) = t[n + 1].value BY <1>2, <2>1, FirstOfAt
  <2>3. LastOf(more, t) = t[n + 1].value BY <1>2, <1>3, LastOfAt
  <2> QED BY <1>2, <1>4, <2>2, <2>3 DEF more
<1>5. CASE at # {}
  <2>1. PICK i : FirstIn(i, at) /\ FirstOf(at, t) = t[i].value BY <1>5, FirstOfIs
  <2>2. FirstIn(i, more)
    <3>1. i \in 1..n BY <1>1, <2>1 DEF FirstIn
    <3>2. i <= n + 1 BY <1>1, <3>1
    <3> QED BY <2>1, <3>2 DEF FirstIn
  <2> HIDE DEF more
  <2>3. FirstOf(more, t) = t[i].value BY <1>2, <2>2, FirstOfAt
  <2>4. LastOf(more, t) = t[n + 1].value BY <1>2, <1>3, LastOfAt
  <2> QED BY <1>2, <1>5, <2>1, <2>3, <2>4 DEF more
<1> QED BY <1>4, <1>5

\* Positions of a concatenation: those of the front and, moved, of the back.
Joined(front, back, m) == front \cup {m + j : j \in back}

\* The first and the last of joined positions.
LEMMA JoinedIs ==
  ASSUME NEW m, NEW n, NEW front, Within(front, m), NEW back, Within(back, n)
  PROVE  /\ Within(Joined(front, back, m), m + n)
         /\ \A i : LastIn(i, back) => LastIn(m + i, Joined(front, back, m))
         /\ \A i : FirstIn(i, front) => FirstIn(i, Joined(front, back, m))
         /\ front = {} => \A i : FirstIn(i, back) =>
                                   FirstIn(m + i, Joined(front, back, m))
         /\ back = {} => Joined(front, back, m) = front
<1>1. /\ m \in Nat /\ \A i \in front : i \in 1..m
      /\ n \in Nat /\ \A j \in back : j \in 1..n
  BY DEF Within
<1> DEFINE both == Joined(front, back, m)
<1>2. \A k : k \in both <=> k \in front \/ \E j \in back : k = m + j
  BY DEF Joined
<1> HIDE DEF both
<1>3. Within(both, m + n)
  <2>1. m + n \in Nat BY <1>1
  <2>2. \A i \in front : i \in 1..(m + n) BY <1>1
  <2>3. \A j \in back : m + j \in 1..(m + n) BY <1>1
  <2>4. \A k \in both : k \in 1..(m + n)
    <3> TAKE k \in both
    <3>1. CASE k \in front BY <2>2, <3>1
    <3>2. CASE \E j \in back : k = m + j BY <2>3, <3>2
    <3> QED BY <1>2, <3>1, <3>2
  <2>5. both \subseteq 1..(m + n) BY <2>4
  <2> QED BY <2>1, <2>5 DEF Within
<1>4. ASSUME NEW i, LastIn(i, back) PROVE LastIn(m + i, both)
  <2>1. i \in back /\ \A j \in back : j <= i BY <1>4 DEF LastIn
  <2>2. i \in 1..n BY <1>1, <2>1
  <2>3. \A k \in front : k <= m + i BY <1>1, <2>2
  <2>4. \A j \in back : m + j <= m + i BY <1>1, <2>1, <2>2
  <2> QED BY <1>2, <2>1, <2>3, <2>4 DEF LastIn
<1>5. ASSUME NEW i, FirstIn(i, front) PROVE FirstIn(i, both)
  <2>1. i \in front /\ \A j \in front : i <= j BY <1>5 DEF FirstIn
  <2>2. i \in 1..m BY <1>1, <2>1
  <2>3. \A j \in back : i <= m + j BY <1>1, <2>2
  <2> QED BY <1>2, <2>1, <2>3 DEF FirstIn
<1>6. ASSUME front = {}, NEW i, FirstIn(i, back) PROVE FirstIn(m + i, both)
  <2>1. i \in back /\ \A j \in back : i <= j BY <1>6 DEF FirstIn
  <2>2. i \in 1..n BY <1>1, <2>1
  <2>3. \A j \in back : m + i <= m + j BY <1>1, <2>1, <2>2
  <2> QED BY <1>2, <1>6, <2>1, <2>3 DEF FirstIn
<1>7. back = {} => both = front BY <1>2
<1> QED BY <1>3, <1>4, <1>5, <1>6, <1>7 DEF both

\* In a concatenation the last is the last of the back, and the first is the
\* first of the front, where there is one.
LEMMA OfConcat ==
  ASSUME NEW S, NEW s \in Seq(S), NEW t \in Seq(S),
         NEW front, Within(front, Len(s)), NEW back, Within(back, Len(t))
  PROVE  /\ LastOf(Joined(front, back, Len(s)), s \o t) =
              IF back # {} THEN LastOf(back, t) ELSE LastOf(front, s)
         /\ FirstOf(Joined(front, back, Len(s)), s \o t) =
              IF front # {} THEN FirstOf(front, s) ELSE FirstOf(back, t)
<1> DEFINE m == Len(s)
           n == Len(t)
           u == s \o t
           both == Joined(front, back, m)
<1>1. /\ m \in Nat /\ n \in Nat
      /\ \A i \in 1..(m + n) : u[i] = IF i <= m THEN s[i] ELSE t[i - m]
  BY LenProperties, ConcatProperties
<1> HIDE DEF m, n, u
<1>2. \A i \in 1..m : u[i] = s[i] BY <1>1
<1>3. ASSUME NEW j \in 1..n PROVE u[m + j] = t[j]
  <2>1. m + j \in 1..(m + n) /\ ~(m + j <= m) /\ (m + j) - m = j BY <1>1
  <2> QED BY <1>1, <2>1
<1>4. Within(front, m) /\ Within(back, n) BY DEF m, n
<1>5. /\ Within(both, m + n)
      /\ \A i : LastIn(i, back) => LastIn(m + i, both)
      /\ \A i : FirstIn(i, front) => FirstIn(i, both)
      /\ front = {} => \A i : FirstIn(i, back) => FirstIn(m + i, both)
      /\ back = {} => both = front
  BY <1>4, JoinedIs
<1> HIDE DEF both
<1>6. (\A i \in front : i \in 1..m) /\ (\A j \in back : j \in 1..n)
  BY <1>4 DEF Within
<1>7. \A i \in front : u[i] = s[i] BY <1>2, <1>6
<1>8. LastOf(both, u) = IF back # {} THEN LastOf(back, t) ELSE LastOf(front, s)
  <2>1. CASE back = {}
    <3>1. LastOf(front, u) = LastOf(front, s) BY <1>4, <1>7, SameValues
    <3> QED BY <1>5, <2>1, <3>1
  <2>2. CASE back # {}
    <3>1. PICK j : LastIn(j, back) /\ LastOf(back, t) = t[j].value
      BY <1>4, <2>2, LastOfIs
    <3>2. j \in 1..n BY <1>6, <3>1 DEF LastIn
    <3>3. LastOf(both, u) = u[m + j].value BY <1>5, <3>1, LastOfAt
    <3> QED BY <1>3, <2>2, <3>1, <3>2, <3>3
  <2> QED BY <2>1, <2>2
<1>9. FirstOf(both, u) = IF front # {} THEN FirstOf(front, s) ELSE FirstOf(back, t)
  <2>1. CASE front # {}
    <3>1. PICK i : FirstIn(i, front) /\ FirstOf(front, s) = s[i].value
      BY <1>4, <2>1, FirstOfIs
    <3>2. FirstOf(both, u) = u[i].value BY <1>5, <3>1, FirstOfAt
    <3>3. u[i] = s[i] BY <1>7, <3>1 DEF FirstIn
    <3> QED BY <2>1, <3>1, <3>2, <3>3
  <2>2. CASE front = {} /\ back = {}
    <3>1. both = {} BY <1>5, <2>2
    <3> QED BY <2>2, <3>1 DEF FirstOf
  <2>3. CASE front = {} /\ back # {}
    <3>1. PICK j : FirstIn(j, back) /\ FirstOf(back, t) = t[j].value
      BY <1>4, <2>3, FirstOfIs
    <3>2. j \in 1..n BY <1>6, <3>1 DEF FirstIn
    <3>3. FirstOf(both, u) = u[m + j].value BY <1>5, <2>3, <3>1, FirstOfAt
    <3> QED BY <1>3, <2>3, <3>1, <3>2, <3>3
  <2> QED BY <2>1, <2>2, <2>3
<1> QED BY <1>8, <1>9 DEF m, u, both

-----------------------------------------------------------------------------
(* Resource attributes.                                                     *)

\* The positions of a key, and of the name, among the first n entries.
KeyAt(list, k, n) == {i \in 1..n : list[i].key = k}
NameAt(list, n) ==
  {i \in 1..n : list[i].key = "service.name" /\ Given(list[i].value)}
KeysOf(list, n) == {list[i].key : i \in 1..n} \ {"service.name"}

\* What the first n entries make.
Made(list, n) == [k \in KeysOf(list, n) |-> LastOf(KeyAt(list, k, n), list)]

\* In terms of these, what all entries make.
LEMMA MadeIs ==
  ASSUME NEW S, NEW list \in Seq(S)
  PROVE  /\ Len(list) \in Nat
         /\ NamedIn(list) = FirstOf(NameAt(list, Len(list)), list)
         /\ AttributesOf(list) = Made(list, Len(list))
<1>1. DOMAIN list = 1..Len(list) /\ Len(list) \in Nat BY LenProperties
<1> QED BY <1>1 DEF NamedIn, AttributesOf, NameAt, KeyAt, KeysOf, Made

\* These are positions of the list.
LEMMA PositionsWithin ==
  ASSUME NEW n \in Nat, NEW list
  PROVE  /\ \A k : Within(KeyAt(list, k, n), n)
         /\ Within(NameAt(list, n), n)
BY DEF Within, KeyAt, NameAt

\* A name among resource attributes is given.
LEMMA NameGiven ==
  ASSUME NEW n \in Nat, NEW list
  PROVE  \/ NameAt(list, n) = {} /\ FirstOf(NameAt(list, n), list) = Unset
         \/ NameAt(list, n) # {} /\ Given(FirstOf(NameAt(list, n), list))
<1>1. CASE NameAt(list, n) = {} BY <1>1 DEF FirstOf
<1>2. CASE NameAt(list, n) # {}
  <2>1. PICK i : /\ FirstIn(i, NameAt(list, n))
                 /\ FirstOf(NameAt(list, n), list) = list[i].value
    BY <1>2, PositionsWithin, FirstOfIs
  <2>2. i \in NameAt(list, n) BY <2>1 DEF FirstIn
  <2> QED BY <1>2, <2>1, <2>2 DEF NameAt
<1> QED BY <1>1, <1>2

\* One more entry.
LEMMA MadeNext ==
  ASSUME NEW n \in Nat, NEW list
  PROVE  LET e == list[n + 1] IN
         /\ e.key = "service.name" =>
              /\ Made(list, n + 1) = Made(list, n)
              /\ FirstOf(NameAt(list, n + 1), list) =
                   IF NameAt(list, n) = {} /\ Given(e.value) THEN e.value
                   ELSE FirstOf(NameAt(list, n), list)
         /\ e.key # "service.name" =>
              /\ Made(list, n + 1) = Over(Only(e), Made(list, n))
              /\ FirstOf(NameAt(list, n + 1), list) = FirstOf(NameAt(list, n), list)
<1> DEFINE e == list[n + 1]
<1>1. \A i : i \in 1..(n + 1) <=> i \in 1..n \/ i = n + 1 OBVIOUS
<1>2. \A k : KeyAt(list, k, n + 1) =
               IF e.key = k THEN KeyAt(list, k, n) \cup {n + 1} ELSE KeyAt(list, k, n)
  BY <1>1 DEF KeyAt
<1>3. NameAt(list, n + 1) =
        IF e.key = "service.name" /\ Given(e.value)
        THEN NameAt(list, n) \cup {n + 1} ELSE NameAt(list, n)
  BY <1>1 DEF NameAt
<1>4. KeysOf(list, n + 1) =
        IF e.key = "service.name" THEN KeysOf(list, n) ELSE KeysOf(list, n) \cup {e.key}
  BY <1>1 DEF KeysOf
<1> HIDE DEF e
<1>5. \A k : LastOf(KeyAt(list, k, n + 1), list) =
               IF e.key = k THEN e.value ELSE LastOf(KeyAt(list, k, n), list)
  <2> TAKE k
  <2>1. Within(KeyAt(list, k, n), n) BY PositionsWithin
  <2>2. CASE e.key = k
    <3>1. KeyAt(list, k, n + 1) = KeyAt(list, k, n) \cup {n + 1} BY <1>2, <2>2
    <3>2. LastOf(KeyAt(list, k, n) \cup {n + 1}, list) = list[n + 1].value
      BY <2>1, OneMore
    <3> QED BY <2>2, <3>1, <3>2 DEF e
  <2>3. CASE e.key # k BY <1>2, <2>3
  <2> QED BY <2>2, <2>3
<1>6. CASE e.key = "service.name"
  <2>1. \A k \in KeysOf(list, n) : k # e.key BY <1>6 DEF KeysOf
  <2>2. Made(list, n + 1) = Made(list, n) BY <1>4, <1>5, <1>6, <2>1 DEF Made
  <2>3. FirstOf(NameAt(list, n + 1), list) =
          IF NameAt(list, n) = {} /\ Given(e.value) THEN e.value
          ELSE FirstOf(NameAt(list, n), list)
    <3>1. CASE Given(e.value)
      <4>1. NameAt(list, n + 1) = NameAt(list, n) \cup {n + 1}
        BY <1>3, <1>6, <3>1
      <4> QED BY <3>1, <4>1, PositionsWithin, OneMore DEF e
    <3>2. CASE ~Given(e.value) BY <1>3, <3>2
    <3> QED BY <3>1, <3>2
  <2> QED BY <1>6, <2>2, <2>3 DEF e
<1>7. CASE e.key # "service.name"
  <2>1. FirstOf(NameAt(list, n + 1), list) = FirstOf(NameAt(list, n), list)
    BY <1>3, <1>7
  <2>2. Made(list, n + 1) = Over(Only(e), Made(list, n))
    <3>1. KeysOf(list, n + 1) = {e.key} \cup KeysOf(list, n) BY <1>4, <1>7
    <3>2. Over(Only(e), Made(list, n)) =
            [k \in {e.key} \cup KeysOf(list, n) |->
               IF k \in {e.key} THEN e.value ELSE Made(list, n)[k]]
      BY DEF Made, Only, Over
    <3>3. \A k \in KeysOf(list, n) : Made(list, n)[k] = LastOf(KeyAt(list, k, n), list)
      BY DEF Made
    <3>4. \A k \in {e.key} \cup KeysOf(list, n) :
            LastOf(KeyAt(list, k, n + 1), list) =
              IF k \in {e.key} THEN e.value ELSE Made(list, n)[k]
      BY <1>5, <3>3
    <3> QED BY <3>1, <3>2, <3>4 DEF Made
  <2> QED BY <1>7, <2>1, <2>2 DEF e
<1> QED BY <1>6, <1>7 DEF e

\* Laying over is associative, and laying nothing over changes nothing.
LEMMA OverAssociative ==
  ASSUME NEW f, NEW g, NEW h
  PROVE  Over(f, Over(g, h)) = Over(Over(f, g), h)
<1>1. /\ DOMAIN Over(g, h) = DOMAIN g \cup DOMAIN h
      /\ DOMAIN Over(f, g) = DOMAIN f \cup DOMAIN g
  BY DEF Over
<1>2. Over(f, Over(g, h)) =
        [k \in DOMAIN f \cup (DOMAIN g \cup DOMAIN h) |->
           IF k \in DOMAIN f THEN f[k] ELSE Over(g, h)[k]]
  BY <1>1 DEF Over
<1>3. Over(Over(f, g), h) =
        [k \in (DOMAIN f \cup DOMAIN g) \cup DOMAIN h |->
           IF k \in DOMAIN f \cup DOMAIN g THEN Over(f, g)[k] ELSE h[k]]
  BY <1>1 DEF Over
<1>4. /\ \A k \in DOMAIN g \cup DOMAIN h :
           Over(g, h)[k] = IF k \in DOMAIN g THEN g[k] ELSE h[k]
      /\ \A k \in DOMAIN f \cup DOMAIN g :
           Over(f, g)[k] = IF k \in DOMAIN f THEN f[k] ELSE g[k]
  BY DEF Over
<1>5. DOMAIN f \cup (DOMAIN g \cup DOMAIN h) = (DOMAIN f \cup DOMAIN g) \cup DOMAIN h
  OBVIOUS
<1>6. \A k \in (DOMAIN f \cup DOMAIN g) \cup DOMAIN h :
        (IF k \in DOMAIN f THEN f[k] ELSE Over(g, h)[k]) =
          IF k \in DOMAIN f \cup DOMAIN g THEN Over(f, g)[k] ELSE h[k]
  BY <1>4
<1> QED BY <1>2, <1>3, <1>5, <1>6

IsMap(f) == f = [k \in DOMAIN f |-> f[k]]

\* Laying over makes a map of the keys of both, and nothing laid over, or under,
\* changes nothing.
LEMMA OverMap ==
  ASSUME NEW f, NEW g
  PROVE  /\ IsMap(Over(f, g))
         /\ DOMAIN Over(f, g) = DOMAIN f \cup DOMAIN g
         /\ DOMAIN f = {} /\ IsMap(g) => Over(f, g) = g
         /\ DOMAIN g = {} /\ IsMap(f) => Over(f, g) = f
<1>1. DOMAIN Over(f, g) = DOMAIN f \cup DOMAIN g BY DEF Over
<1>2. IsMap(Over(f, g))
  BY DEF IsMap, Over
<1>3. ASSUME DOMAIN f = {}, IsMap(g) PROVE Over(f, g) = g
  <2>1. Over(f, g) = [k \in DOMAIN g |-> g[k]] BY <1>3 DEF Over
  <2> QED BY <1>3, <2>1 DEF IsMap
<1>4. ASSUME DOMAIN g = {}, IsMap(f) PROVE Over(f, g) = f
  <2>1. Over(f, g) = [k \in DOMAIN f |-> f[k]] BY <1>4 DEF Over
  <2> QED BY <1>4, <2>1 DEF IsMap
<1> QED BY <1>1, <1>2, <1>3, <1>4

-----------------------------------------------------------------------------
(* Configs.                                                                 *)

ConfigFields ==
  {"service", "sink", "endpoint", "exporter", "disabled", "headers", "prefixes",
   "attributes", "knobs"}

IsRecord(c) == c = [f \in ConfigFields |-> c[f]]

\* A Config with another name and other attributes.
Filled(c, name, made) == [c EXCEPT !.service = name, !.attributes = made]

\* What filling changes and what it leaves.
LEMMA FilledIs ==
  ASSUME NEW c, IsRecord(c), NEW name, NEW made
  PROVE  /\ IsRecord(Filled(c, name, made))
         /\ Filled(c, name, made).service = name
         /\ Filled(c, name, made).attributes = made
         /\ \A f \in ConfigFields \ {"service", "attributes"} :
              Filled(c, name, made)[f] = c[f]
         /\ \A v : [Filled(c, name, made) EXCEPT !.service = v] = Filled(c, v, made)
         /\ \A v : [Filled(c, name, made) EXCEPT !.attributes = v] = Filled(c, name, v)
         /\ Filled(c, c.service, c.attributes) = c
BY DEF IsRecord, Filled, ConfigFields

\* The loop of with_resource_attributes promotes the first name that is given,
\* if there was none, and lays the attributes over those there were.
LEMMA ResourceAttributesAre ==
  ASSUME NEW c, IsRecord(c), c.service # Blank, IsMap(c.attributes),
         NEW S, NEW list \in Seq(S)
  PROVE  WithResourceAttributes(c, list) =
           Filled(c, IF c.service # Unset THEN c.service ELSE NamedIn(list),
                     Over(AttributesOf(list), c.attributes))
<1> DEFINE N == Len(list)
           Name(n) == IF c.service # Unset THEN c.service
                      ELSE FirstOf(NameAt(list, n), list)
           Attrs(n) == Over(Made(list, n), c.attributes)
<1>1. N \in Nat BY MadeIs
<1>2. PICK f : IsLoop(f, c, list) /\ WithResourceAttributes(c, list) = f[N]
  BY <1>1, LoopIs
<1> DEFINE Good == {n \in 0..N : f[n] = Filled(c, Name(n), Attrs(n))}
<1>3. 0 \in Good
  <2>1. f[0] = c BY <1>1, <1>2 DEF IsLoop
  <2>2. Name(0) = c.service
    <3>1. NameAt(list, 0) = {} BY DEF NameAt
    <3> QED BY <3>1 DEF FirstOf
  <2>3. Attrs(0) = c.attributes
    <3>1. DOMAIN Made(list, 0) = {} BY DEF Made, KeysOf
    <3> QED BY <3>1, OverMap
  <2> QED BY <1>1, <2>1, <2>2, <2>3, FilledIs
<1>4. ASSUME NEW n \in 0..N, n + 1 \in 0..N, n \in Good PROVE n + 1 \in Good
  <2> DEFINE e == list[n + 1]
             d == Filled(c, Name(n), Attrs(n))
  <2>1. f[n + 1] = WithAttribute(d, e)
    <3>1. n \in Nat /\ n + 1 # 0 /\ (n + 1) - 1 = n BY <1>1, <1>4
    <3>2. f[n + 1] = WithAttribute(f[n], e) BY <1>4, <1>2, <3>1 DEF IsLoop
    <3> QED BY <1>4, <3>2
  <2>2. /\ e.key = "service.name" =>
             /\ Made(list, n + 1) = Made(list, n)
             /\ FirstOf(NameAt(list, n + 1), list) =
                  IF NameAt(list, n) = {} /\ Given(e.value) THEN e.value
                  ELSE FirstOf(NameAt(list, n), list)
        /\ e.key # "service.name" =>
             /\ Made(list, n + 1) = Over(Only(e), Made(list, n))
             /\ FirstOf(NameAt(list, n + 1), list) = FirstOf(NameAt(list, n), list)
    BY <1>1, <1>4, MadeNext
  <2>3. \/ NameAt(list, n) = {} /\ FirstOf(NameAt(list, n), list) = Unset
        \/ NameAt(list, n) # {} /\ Given(FirstOf(NameAt(list, n), list))
    BY <1>1, <1>4, NameGiven
  <2>4. /\ d.service = Name(n) /\ d.attributes = Attrs(n)
        /\ \A v : [d EXCEPT !.service = v] = Filled(c, v, Attrs(n))
        /\ \A v : [d EXCEPT !.attributes = v] = Filled(c, Name(n), v)
    BY FilledIs
  <2> HIDE DEF d, e
  <2>5. CASE e.key = "service.name"
    <3>1. Attrs(n + 1) = Attrs(n) BY <2>2, <2>5
    <3>2. CASE d.service # Unset
      <4>1. Name(n + 1) = Name(n) BY <2>2, <2>3, <2>4, <2>5, <3>2 DEF Given
      <4>2. WithAttribute(d, e) = d BY <2>5, <3>2 DEF WithAttribute
      <4> QED BY <1>4, <2>1, <3>1, <4>1, <4>2 DEF d
    <3>3. CASE d.service = Unset /\ Given(e.value)
      <4>1. Name(n + 1) = e.value BY <2>2, <2>3, <2>4, <2>5, <3>3 DEF Given
      <4>2. WithAttribute(d, e) = [d EXCEPT !.service = e.value]
        BY <2>5, <3>3 DEF WithAttribute, WithServiceName
      <4> QED BY <1>4, <2>1, <2>4, <3>1, <4>1, <4>2
    <3>4. CASE d.service = Unset /\ ~Given(e.value)
      <4>1. Name(n + 1) = Name(n) BY <2>2, <2>5, <3>4
      <4>2. WithAttribute(d, e) = d
        BY <2>5, <3>4 DEF WithAttribute, WithServiceName
      <4> QED BY <1>4, <2>1, <3>1, <4>1, <4>2 DEF d
    <3> QED BY <3>2, <3>3, <3>4
  <2>6. CASE e.key # "service.name"
    <3>1. Name(n + 1) = Name(n) BY <2>2, <2>6
    <3>2. Attrs(n + 1) = Over(Only(e), Attrs(n))
      BY <2>2, <2>6, OverAssociative
    <3>3. WithAttribute(d, e) = [d EXCEPT !.attributes = Over(Only(e), d.attributes)]
      BY <2>6 DEF WithAttribute
    <3> QED BY <1>4, <2>1, <2>4, <3>1, <3>2, <3>3
  <2> QED BY <2>5, <2>6
<1>5. 0..N \subseteq Good
  <2> HIDE DEF Good
  <2> QED BY <1>1, <1>3, <1>4, UpTo
<1>6. f[N] = Filled(c, Name(N), Attrs(N)) BY <1>1, <1>5
<1> QED BY <1>2, <1>6, MadeIs

\* The positions in a concatenation.
LEMMA JoinedPositions ==
  ASSUME NEW S, NEW s \in Seq(S), NEW t \in Seq(S)
  PROVE  /\ \A k : KeyAt(s \o t, k, Len(s) + Len(t)) =
                     Joined(KeyAt(s, k, Len(s)), KeyAt(t, k, Len(t)), Len(s))
         /\ NameAt(s \o t, Len(s) + Len(t)) =
              Joined(NameAt(s, Len(s)), NameAt(t, Len(t)), Len(s))
         /\ KeysOf(s \o t, Len(s) + Len(t)) = KeysOf(s, Len(s)) \cup KeysOf(t, Len(t))
<1> DEFINE m == Len(s)
           n == Len(t)
           u == s \o t
<1>1. /\ m \in Nat /\ n \in Nat
      /\ \A i \in 1..(m + n) : u[i] = IF i <= m THEN s[i] ELSE t[i - m]
  BY LenProperties, ConcatProperties
<1> HIDE DEF m, n, u
<1>2. ASSUME NEW i \in 1..m PROVE i \in 1..(m + n) /\ u[i] = s[i]
  BY <1>1
<1>3. ASSUME NEW j \in 1..n PROVE m + j \in 1..(m + n) /\ u[m + j] = t[j]
  <2>1. m + j \in 1..(m + n) /\ ~(m + j <= m) /\ (m + j) - m = j BY <1>1
  <2> QED BY <1>1, <2>1
<1>4. ASSUME NEW i \in 1..(m + n)
      PROVE  i \in 1..m \/ \E j \in 1..n : i = m + j
  <2>1. CASE i <= m BY <1>1, <2>1
  <2>2. CASE ~(i <= m)
    <3>1. i - m \in 1..n /\ i = m + (i - m) BY <1>1, <2>2
    <3> QED BY <3>1
  <2> QED BY <2>1, <2>2
<1>5. ASSUME NEW k
      PROVE  KeyAt(u, k, m + n) = Joined(KeyAt(s, k, m), KeyAt(t, k, n), m)
  BY <1>2, <1>3, <1>4 DEF KeyAt, Joined
<1>6. NameAt(u, m + n) = Joined(NameAt(s, m), NameAt(t, n), m)
  BY <1>2, <1>3, <1>4 DEF NameAt, Joined
<1>7. KeysOf(u, m + n) = KeysOf(s, m) \cup KeysOf(t, n)
  BY <1>2, <1>3, <1>4 DEF KeysOf
<1> QED BY <1>5, <1>6, <1>7 DEF m, n, u

\* What is said later is laid over what was said before; the first name stays.
LEMMA ConcatEntries ==
  ASSUME NEW S, NEW s \in Seq(S), NEW t \in Seq(S)
  PROVE  /\ s \o t \in Seq(S)
         /\ NamedIn(s \o t) = IF NamedIn(s) # Unset THEN NamedIn(s) ELSE NamedIn(t)
         /\ AttributesOf(s \o t) = Over(AttributesOf(t), AttributesOf(s))
<1> DEFINE m == Len(s)
           n == Len(t)
           u == s \o t
<1>1. u \in Seq(S) /\ Len(u) = m + n BY ConcatProperties
<1>2. m \in Nat /\ n \in Nat BY LenProperties
<1>3. /\ NamedIn(u) = FirstOf(NameAt(u, m + n), u)
      /\ AttributesOf(u) = Made(u, m + n)
  BY <1>1, MadeIs
<1>4. /\ \A k : KeyAt(u, k, m + n) = Joined(KeyAt(s, k, m), KeyAt(t, k, n), m)
      /\ NameAt(u, m + n) = Joined(NameAt(s, m), NameAt(t, n), m)
      /\ KeysOf(u, m + n) = KeysOf(s, m) \cup KeysOf(t, n)
  BY JoinedPositions
<1>5. NamedIn(u) = IF NamedIn(s) # Unset THEN NamedIn(s) ELSE NamedIn(t)
  <2>1. Within(NameAt(s, m), m) /\ Within(NameAt(t, n), n)
    BY <1>2, PositionsWithin
  <2>2. FirstOf(NameAt(u, m + n), u) =
          IF NameAt(s, m) # {} THEN FirstOf(NameAt(s, m), s) ELSE FirstOf(NameAt(t, n), t)
    BY <1>4, <2>1, OfConcat
  <2>3. NameAt(s, m) # {} <=> FirstOf(NameAt(s, m), s) # Unset
    BY <1>2, NameGiven DEF Given
  <2> QED BY <1>3, <2>2, <2>3, MadeIs
<1>6. \A k : LastOf(KeyAt(u, k, m + n), u) =
               IF KeyAt(t, k, n) # {} THEN LastOf(KeyAt(t, k, n), t)
               ELSE LastOf(KeyAt(s, k, m), s)
  <2> TAKE k
  <2>1. Within(KeyAt(s, k, m), m) /\ Within(KeyAt(t, k, n), n)
    BY <1>2, PositionsWithin
  <2> QED BY <1>4, <2>1, OfConcat
<1>7. \A k : k # "service.name" => (KeyAt(t, k, n) # {} <=> k \in KeysOf(t, n))
  BY DEF KeyAt, KeysOf
<1>8. \A k \in KeysOf(s, m) \cup KeysOf(t, n) : k # "service.name"
  BY DEF KeysOf
<1> HIDE DEF m, n, u
<1>9. Made(u, m + n) = Over(Made(t, n), Made(s, m))
  <2>1. /\ DOMAIN Made(s, m) = KeysOf(s, m) /\ DOMAIN Made(t, n) = KeysOf(t, n)
        /\ \A k \in KeysOf(s, m) : Made(s, m)[k] = LastOf(KeyAt(s, k, m), s)
        /\ \A k \in KeysOf(t, n) : Made(t, n)[k] = LastOf(KeyAt(t, k, n), t)
    BY DEF Made
  <2>2. Over(Made(t, n), Made(s, m)) =
          [k \in KeysOf(t, n) \cup KeysOf(s, m) |->
             IF k \in KeysOf(t, n) THEN Made(t, n)[k] ELSE Made(s, m)[k]]
    BY <2>1 DEF Over
  <2>3. \A k \in KeysOf(s, m) \cup KeysOf(t, n) :
          LastOf(KeyAt(u, k, m + n), u) =
            IF k \in KeysOf(t, n) THEN Made(t, n)[k] ELSE Made(s, m)[k]
    BY <1>6, <1>7, <1>8, <2>1
  <2>4. Made(u, m + n) = [k \in KeysOf(s, m) \cup KeysOf(t, n) |->
                            LastOf(KeyAt(u, k, m + n), u)]
    BY <1>4 DEF Made
  <2>5. KeysOf(s, m) \cup KeysOf(t, n) = KeysOf(t, n) \cup KeysOf(s, m) OBVIOUS
  <2> QED BY <2>2, <2>3, <2>4, <2>5
<1> QED BY <1>1, <1>3, <1>5, <1>9, MadeIs DEF m, n, u

\* Resource attributes are maps without a name, and a name is given.
LEMMA EntriesSound ==
  ASSUME NEW S, NEW list \in Seq(S)
  PROVE  /\ IsMap(AttributesOf(list))
         /\ "service.name" \notin DOMAIN AttributesOf(list)
         /\ NamedIn(list) = Unset \/ Given(NamedIn(list))
<1>1. IsMap(Made(list, Len(list))) BY DEF IsMap, Made
<1>2. "service.name" \notin DOMAIN Made(list, Len(list)) BY DEF Made, KeysOf
<1> QED BY <1>1, <1>2, MadeIs, NameGiven

\* The loop of parse_kv_pairs.
IsParse(f, list, n) ==
  f = [i \in 0..n |->
         IF i = 0 THEN <<>>
         ELSE IF list[i].key # Blank /\ list[i].value # Blank
              THEN Append(f[i - 1], list[i]) ELSE f[i - 1]]

\* The recursion of the loop defines a function.
LEMMA ParseExists ==
  ASSUME NEW list, NEW N \in Nat
  PROVE  \E f : IsParse(f, list, N)
<1> DEFINE Next1(g, i) == IF list[i].key # Blank /\ list[i].value # Blank
                          THEN Append(g[i - 1], list[i]) ELSE g[i - 1]
           Good == {m \in 0..N : \E g : IsParse(g, list, m)}
<1>1. 0 \in Good
  <2> DEFINE g == [i \in 0..0 |-> <<>>]
  <2>1. IsParse(g, list, 0) BY DEF IsParse
  <2>2. \E x : IsParse(x, list, 0)
    <3> HIDE DEF g
    <3> QED BY <2>1
  <2>3. 0 \in 0..N OBVIOUS
  <2> QED BY <2>2, <2>3
<1>2. ASSUME NEW m \in 0..N, m + 1 \in 0..N, m \in Good
      PROVE  m + 1 \in Good
  <2>1. PICK g : IsParse(g, list, m) BY <1>2
  <2> DEFINE v == IF list[m + 1].key # Blank /\ list[m + 1].value # Blank
                  THEN Append(g[m], list[m + 1]) ELSE g[m]
             h == [i \in 0..(m + 1) |-> IF i = m + 1 THEN v ELSE g[i]]
  <2>2. ASSUME NEW i \in 0..(m + 1)
        PROVE  h[i] = IF i = 0 THEN <<>> ELSE Next1(h, i)
    <3>1. CASE i = m + 1
      <4>1. h[i] = v /\ h[i - 1] = g[m] /\ i # 0 BY <3>1
      <4> QED BY <3>1, <4>1
    <3>2. CASE i # m + 1
      <4>1. i \in 0..m BY <3>2
      <4>2. h[i] = g[i] BY <3>2
      <4>3. g[i] = IF i = 0 THEN <<>> ELSE Next1(g, i) BY <2>1, <4>1 DEF IsParse
      <4>4. i # 0 => h[i - 1] = g[i - 1] BY <4>1
      <4> QED BY <4>2, <4>3, <4>4
    <3> QED BY <3>1, <3>2
  <2>3. h = [i \in 0..(m + 1) |-> IF i = 0 THEN <<>> ELSE Next1(h, i)]
    <3> HIDE DEF Next1
    <3> QED BY <2>2
  <2>4. IsParse(h, list, m + 1)
    <3> HIDE DEF h
    <3> QED BY <2>3 DEF IsParse
  <2>5. \E x : IsParse(x, list, m + 1)
    <3> HIDE DEF h
    <3> QED BY <2>4
  <2> QED BY <1>2, <2>5
<1>3. 0..N \subseteq Good
  <2> HIDE DEF Good
  <2> QED BY <1>1, <1>2, UpTo
<1> QED BY <1>3

\* What parse_kv_pairs keeps of a list is a list of its pairs.
LEMMA ParsedIs ==
  ASSUME NEW S, NEW list \in Seq(S)
  PROVE  ParseKvPairs(list) \in Seq(S)
<1> DEFINE N == Len(list)
           f == CHOOSE g : IsParse(g, list, N)
           Good == {n \in 0..N : f[n] \in Seq(S)}
<1>1. N \in Nat /\ \A i \in 1..N : list[i] \in S BY LenProperties, ElementOfSeq
<1>2. IsParse(f, list, N) BY <1>1, ParseExists
<1>3. ParseKvPairs(list) = f[N] BY DEF ParseKvPairs, IsParse
<1> HIDE DEF f
<1>4. 0 \in Good
  <2>1. f[0] = <<>> BY <1>1, <1>2 DEF IsParse
  <2>2. <<>> \in Seq(S) BY EmptySeq
  <2>3. 0 \in 0..N BY <1>1
  <2> QED BY <2>1, <2>2, <2>3
<1>5. ASSUME NEW n \in 0..N, n + 1 \in 0..N, n \in Good PROVE n + 1 \in Good
  <2>1. n \in Nat /\ n + 1 # 0 /\ (n + 1) - 1 = n /\ n + 1 \in 1..N BY <1>1, <1>5
  <2>2. f[n + 1] = IF list[n + 1].key # Blank /\ list[n + 1].value # Blank
                   THEN Append(f[n], list[n + 1]) ELSE f[n]
    BY <1>2, <1>5, <2>1 DEF IsParse
  <2>3. f[n] \in Seq(S) /\ list[n + 1] \in S BY <1>1, <1>5, <2>1
  <2>4. Append(f[n], list[n + 1]) \in Seq(S) BY <2>3, AppendProperties
  <2> QED BY <1>5, <2>2, <2>3, <2>4
<1>6. 0..N \subseteq Good
  <2> HIDE DEF Good
  <2> QED BY <1>1, <1>4, <1>5, UpTo
<1> QED BY <1>1, <1>3, <1>6

-----------------------------------------------------------------------------
(* The environment.                                                         *)

Lists   == AttributeLists \cup {e.attributes : e \in Environments}
Entries == UNION {Range(list) : list \in Lists}
AnyUri  == Uris \cup UNION {{e.sink, e.traces, e.base} : e \in Environments}
Kinds   == {"otlp", "zipkin"}
Modes   == {"DefaultIfRoot", "AsIs", "AppendTraces"}

\* The lists of attributes are sequences of entries.
LEMMA ListsAre ==
  /\ \A list \in AttributeLists : list \in Seq(Entries)
  /\ \A e \in Environments : /\ e.attributes \in Seq(Entries)
                             /\ ParseKvPairs(e.attributes) \in Seq(Entries)
<1>1. ASSUME NEW list, list \in Seq(Range(list)), Range(list) \subseteq Entries
      PROVE  list \in Seq(Entries)
  <2>1. /\ Len(list) \in Nat /\ list \in [1..Len(list) -> Range(list)]
    BY <1>1, LenProperties
  <2>2. list \in [1..Len(list) -> Entries] BY <1>1, <2>1
  <2> QED BY <2>1, <2>2, SeqDef
<1>2. \A list \in Lists : list \in Seq(Entries)
  <2> TAKE list \in Lists
  <2>1. list \in Seq(Range(list)) BY ListsAssumption DEF Lists
  <2>2. Range(list) \subseteq Entries BY DEF Entries
  <2> QED BY <1>1, <2>1, <2>2
<1>3. /\ \A list \in AttributeLists : list \in Lists
      /\ \A e \in Environments : e.attributes \in Lists
  BY DEF Lists
<1> QED BY <1>2, <1>3, ParsedIs

\* An endpoint is there.
LEMMA EndpointGiven ==
  ASSUME NEW kind \in Kinds, NEW uri \in AnyUri, NEW mode \in Modes
  PROVE  /\ EndpointOf(kind, uri, mode) # Unset
         /\ EndpointOf(kind, uri, mode).kind = kind
         /\ EndpointOf(kind, uri, mode).uri = uri
<1>1. EndpointOf(kind, uri, mode) # Unset
  BY ConfigAssumption DEF Kinds, Modes, AnyUri
<1> QED BY <1>1 DEF EndpointOf

\* A Config without a sink, and one that was located.
Homeless(c) ==
  c.sink = Unset /\ c.endpoint = Unset /\ c.exporter = "none" /\ c.disabled = TRUE
Housed(c, kind, uri, mode) ==
  /\ c.sink = uri /\ c.endpoint = EndpointOf(kind, uri, mode)
  /\ c.exporter = kind /\ c.disabled = FALSE
Besides(c, d) ==
  \A f \in {"service", "headers", "prefixes", "attributes", "knobs"} : d[f] = c[f]

\* What resolve_endpoint makes of a URI.
LEMMA ResolveIs ==
  ASSUME NEW uri \in AnyUri
  PROVE  /\ Resolvable(uri) =>
              /\ Exporters[uri.scheme] \in Kinds
              /\ ResolveEndpoint(uri) = EndpointOf(Exporters[uri.scheme], uri, "DefaultIfRoot")
              /\ ResolveEndpoint(uri) # Unset
         /\ ~Resolvable(uri) => ResolveEndpoint(uri) = Unset
<1>1. CASE uri.scheme = "http"
  <2>1. Resolvable(uri) /\ Exporters[uri.scheme] = "otlp"
    BY <1>1 DEF Resolvable, Exporters
  <2>2. ResolveEndpoint(uri) = EndpointOf("otlp", uri, "DefaultIfRoot")
    BY <1>1 DEF ResolveEndpoint, ResolveOtlpHttpEndpoint
  <2> QED BY <2>1, <2>2, EndpointGiven DEF Kinds, Modes
<1>2. CASE uri.scheme = "zipkin"
  <2>1. Resolvable(uri) /\ Exporters[uri.scheme] = "zipkin"
    BY <1>2 DEF Resolvable, Exporters
  <2>2. ResolveEndpoint(uri) = EndpointOf("zipkin", uri, "DefaultIfRoot")
    BY <1>2 DEF ResolveEndpoint
  <2> QED BY <2>1, <2>2, EndpointGiven DEF Kinds, Modes
<1>3. CASE uri.scheme \notin {"http", "zipkin"}
  <2>1. ~Resolvable(uri) BY <1>3 DEF Resolvable, Exporters
  <2>2. ResolveEndpoint(uri) = Unset
    BY <1>3 DEF ResolveEndpoint, ResolveOtlpHttpEndpoint
  <2> QED BY <2>1, <2>2
<1> QED BY <1>1, <1>2, <1>3

\* Locating a Config.
LEMMA LocatedIs ==
  ASSUME NEW c, IsRecord(c), NEW uri, NEW kind, NEW mode,
         NEW d, d = Located([c EXCEPT !.sink = uri, !.disabled = FALSE],
                            EndpointOf(kind, uri, mode))
  PROVE  IsRecord(d) /\ Housed(d, kind, uri, mode) /\ Besides(c, d)
<1>1. EndpointOf(kind, uri, mode).kind = kind BY DEF EndpointOf
<1> DEFINE ep == EndpointOf(kind, uri, mode)
<1> HIDE DEF ep
<1>2. d = [[c EXCEPT !.sink = uri, !.disabled = FALSE]
            EXCEPT !.endpoint = ep, !.exporter = kind]
  BY <1>1 DEF Located, ep
<1> QED BY <1>2 DEF IsRecord, ConfigFields, Housed, Besides, ep

\* What from_env finds: no sink, or one that resolves.
EnvSound(c, d) ==
  \/ EnvEndpoint = Unset /\ d = c
  \/ \E kind \in Kinds, uri \in AnyUri, mode \in Modes :
       /\ Given(uri) /\ EnvEndpoint = EndpointOf(kind, uri, mode)
       /\ IsRecord(d) /\ Housed(d, kind, uri, mode) /\ Besides(c, d)

\* A source whose URI resolves and one whose URI does not.
LEMMA SourceResolves ==
  ASSUME NEW c, IsRecord(c), ~env.none, NEW uri \in AnyUri, NEW source,
         RawSink(env) = [uri |-> uri, source |-> source], Given(uri),
         NEW kind \in Kinds, NEW mode \in Modes,
         ResolveEndpointFromSource(uri, source) = EndpointOf(kind, uri, mode),
         EnvEndpoint = EndpointOf(kind, uri, mode)
  PROVE  EnvSound(c, FromEnvSink(env, c))
<1> DEFINE d == FromEnvSink(env, c)
<1>1. d = Located([c EXCEPT !.sink = uri, !.disabled = FALSE],
                  EndpointOf(kind, uri, mode))
  BY EndpointGiven DEF FromEnvSink
<1> HIDE DEF d
<1>2. IsRecord(d) /\ Housed(d, kind, uri, mode) /\ Besides(c, d)
  BY <1>1, LocatedIs
<1>3. EnvSound(c, d) BY <1>2 DEF EnvSound
<1> QED BY <1>3 DEF d

\* from_env leaves a Config alone if the URI of its source does not resolve.
LEMMA SourceFails ==
  ASSUME NEW c, NEW uri, NEW source,
         RawSink(env) = [uri |-> uri, source |-> source],
         env.none \/ ~Given(uri) \/ ResolveEndpointFromSource(uri, source) = Unset,
         EnvEndpoint = Unset
  PROVE  EnvSound(c, FromEnvSink(env, c))
<1>1. FromEnvSink(env, c) = c BY DEF FromEnvSink
<1> QED BY <1>1 DEF EnvSound

\* from_env takes the first source that is set, and locates the Config where it
\* resolves.
LEMMA FromEnvSinkIs ==
  ASSUME env \in Environments, NEW c, IsRecord(c)
  PROVE  EnvSound(c, FromEnvSink(env, c))
<1>1. {env.sink, env.traces, env.base} \subseteq AnyUri
  BY DEF AnyUri
<1>2. Unset # Blank BY ConfigAssumption
<1>3. \A uri : /\ ResolveEndpointFromSource(uri, "sink") = ResolveEndpoint(uri)
               /\ ResolveEndpointFromSource(uri, "traces") =
                    ResolveOtlpHttpEndpoint(uri, "AsIs")
               /\ ResolveEndpointFromSource(uri, "base") =
                    ResolveOtlpHttpEndpoint(uri, "AppendTraces")
  BY DEF ResolveEndpointFromSource
<1>4. CASE env.sink # Unset
  <2>1. RawSink(env) = [uri |-> env.sink, source |-> "sink"] BY <1>4 DEF RawSink
  <2>2. {env.sink, env.traces} # {Unset} BY <1>4
  <2>3. CASE env.none \/ ~Given(env.sink)
    <3>1. EnvEndpoint = Unset BY <1>4, <2>2, <2>3 DEF EnvEndpoint
    <3> QED BY <2>1, <2>3, <3>1, SourceFails
  <2>4. CASE ~env.none /\ Given(env.sink) /\ env.sink.scheme = "zipkin"
    <3>1. EnvEndpoint = EndpointOf("zipkin", env.sink, "DefaultIfRoot")
      BY <1>4, <2>2, <2>4 DEF EnvEndpoint
    <3>2. ResolveEndpointFromSource(env.sink, "sink") =
            EndpointOf("zipkin", env.sink, "DefaultIfRoot")
      BY <1>3, <2>4 DEF ResolveEndpoint
    <3> QED BY <1>1, <2>1, <2>4, <3>1, <3>2, SourceResolves DEF Kinds, Modes
  <2>5. CASE ~env.none /\ Given(env.sink) /\ env.sink.scheme = "http"
    <3>1. EnvEndpoint = EndpointOf("otlp", env.sink, "DefaultIfRoot")
      BY <1>4, <2>2, <2>5 DEF EnvEndpoint
    <3>2. ResolveEndpointFromSource(env.sink, "sink") =
            EndpointOf("otlp", env.sink, "DefaultIfRoot")
      BY <1>3, <2>5 DEF ResolveEndpoint, ResolveOtlpHttpEndpoint
    <3> QED BY <1>1, <2>1, <2>5, <3>1, <3>2, SourceResolves DEF Kinds, Modes
  <2>6. CASE ~env.none /\ Given(env.sink) /\ env.sink.scheme \notin {"http", "zipkin"}
    <3>1. EnvEndpoint = Unset BY <1>4, <2>2, <2>6 DEF EnvEndpoint
    <3>2. ResolveEndpointFromSource(env.sink, "sink") = Unset
      BY <1>3, <2>6 DEF ResolveEndpoint, ResolveOtlpHttpEndpoint
    <3> QED BY <2>1, <3>1, <3>2, SourceFails
  <2> QED BY <2>3, <2>4, <2>5, <2>6
<1>5. CASE env.sink = Unset /\ env.traces # Unset
  <2>0. ~Given(env.sink) /\ {env.sink, env.traces} # {Unset} BY <1>5 DEF Given
  <2>1. RawSink(env) = [uri |-> env.traces, source |-> "traces"]
    BY <1>5 DEF RawSink
  <2>2. CASE ~env.none /\ Given(env.traces) /\ env.traces.scheme = "http"
    <3>1. EnvEndpoint = EndpointOf("otlp", env.traces, "AsIs")
      BY <1>5, <2>0, <2>2 DEF EnvEndpoint
    <3>2. ResolveEndpointFromSource(env.traces, "traces") =
            EndpointOf("otlp", env.traces, "AsIs")
      BY <1>3, <2>2 DEF ResolveOtlpHttpEndpoint
    <3> QED BY <1>1, <2>1, <2>2, <3>1, <3>2, SourceResolves DEF Kinds, Modes
  <2>3. CASE env.none \/ ~Given(env.traces) \/ env.traces.scheme # "http"
    <3>1. EnvEndpoint = Unset BY <1>5, <2>0, <2>3 DEF EnvEndpoint
    <3>2. env.none \/ ~Given(env.traces)
            \/ ResolveEndpointFromSource(env.traces, "traces") = Unset
      BY <1>3, <2>3 DEF ResolveOtlpHttpEndpoint
    <3> QED BY <2>1, <3>1, <3>2, SourceFails
  <2> QED BY <2>2, <2>3
<1>6. CASE env.sink = Unset /\ env.traces = Unset
  <2>0. ~Given(env.sink) /\ ~Given(env.traces) /\ {env.sink, env.traces} = {Unset}
    BY <1>6 DEF Given
  <2>1. RawSink(env) = [uri |-> env.base, source |-> "base"]
    BY <1>6 DEF RawSink
  <2>2. CASE ~env.none /\ Given(env.base) /\ env.base.scheme = "http"
    <3>1. EnvEndpoint = EndpointOf("otlp", env.base, "AppendTraces")
      BY <1>6, <2>0, <2>2 DEF EnvEndpoint
    <3>2. ResolveEndpointFromSource(env.base, "base") =
            EndpointOf("otlp", env.base, "AppendTraces")
      BY <1>3, <2>2 DEF ResolveOtlpHttpEndpoint
    <3> QED BY <1>1, <2>1, <2>2, <3>1, <3>2, SourceResolves DEF Kinds, Modes
  <2>3. CASE env.none \/ ~Given(env.base) \/ env.base.scheme # "http"
    <3>1. EnvEndpoint = Unset BY <1>6, <2>0, <2>3 DEF EnvEndpoint
    <3>2. env.none \/ ~Given(env.base)
            \/ ResolveEndpointFromSource(env.base, "base") = Unset
      BY <1>3, <2>3 DEF ResolveOtlpHttpEndpoint
    <3> QED BY <2>1, <3>1, <3>2, SourceFails
  <2> QED BY <2>2, <2>3
<1> QED BY <1>4, <1>5, <1>6

\* Where a Config exports, by what it was located with last.
Home(c, ep) ==
  \/ ep = Unset /\ Homeless(c)
  \/ \E kind \in Kinds, uri \in AnyUri, mode \in Modes :
       Given(uri) /\ ep = EndpointOf(kind, uri, mode) /\ Housed(c, kind, uri, mode)

\* Whether and where a Config exports: a sink that did not resolve may leave
\* it with the endpoint it had.
Sited(c, ep) ==
  /\ c.endpoint = ep /\ c.sink # Blank /\ c.disabled \in BOOLEAN
  /\ c.exporter = (IF ep = Unset THEN "none" ELSE ep.kind)
  /\ c.sink = Unset => ep = Unset /\ c.disabled
  /\ ep # Unset => ~c.disabled

\* A Config is sited where it has its home, and has a sink if it has one.
LEMMA HomeIs ==
  ASSUME NEW c, NEW ep, Home(c, ep)
  PROVE  Sited(c, ep) /\ (c.sink = Unset <=> ep = Unset)
<1>1. CASE ep = Unset /\ Homeless(c)
  BY <1>1, ConfigAssumption DEF Homeless, Sited
<1>2. ASSUME NEW kind \in Kinds, NEW uri \in AnyUri, NEW mode \in Modes,
             Given(uri), ep = EndpointOf(kind, uri, mode), Housed(c, kind, uri, mode)
      PROVE  Sited(c, ep) /\ c.sink # Unset /\ ep # Unset
  <2>1. ep # Unset /\ ep.kind = kind BY <1>2, EndpointGiven
  <2> QED BY <1>2, <2>1 DEF Housed, Given, Sited
<1> QED BY <1>1, <1>2 DEF Home

\* What is laid over the rest of a Config leaves its home.
LEMMA HomeKeeps ==
  ASSUME NEW c, NEW ep, Home(c, ep), NEW d,
         \A f \in {"sink", "endpoint", "exporter", "disabled"} : d[f] = c[f]
  PROVE  Home(d, ep)
<1>1. /\ Homeless(c) => Homeless(d)
      /\ \A kind, uri, mode : Housed(c, kind, uri, mode) => Housed(d, kind, uri, mode)
  BY DEF Homeless, Housed
<1> QED BY <1>1 DEF Home

KnobRange == 1..(Hour - 1)

\* The bounds of the knobs.
LEMMA Bounds ==
  /\ MaxBatch \in Nat /\ Hour \in Nat /\ MaxBatch < Hour
  /\ 512 \in KnobRange /\ 5000 \in KnobRange
<1>1. MaxBatch \in Nat /\ Hour \in Nat /\ MaxBatch < Hour /\ 5000 < Hour /\ 512 < Hour
  BY SMT DEF MaxBatch, Hour
<1>2. ASSUME NEW n \in Nat, NEW m \in Nat, 0 < n, n < m PROVE n \in 1..(m - 1)
  BY <1>2, SMT
<1>3. 512 \in Nat /\ 0 < 512 /\ 5000 \in Nat /\ 0 < 5000 BY SMT
<1>4. 512 \in 1..(Hour - 1) BY <1>1, <1>2, <1>3
<1>5. 5000 \in 1..(Hour - 1) BY <1>1, <1>2, <1>3
<1> QED BY <1>1, <1>4, <1>5 DEF KnobRange

\* The knobs that count are the ones that are valid.
LEMMA KnobCounts ==
  ASSUME NEW k \in Knobs, NEW v \in Nat \cup {Unset}
  PROVE  /\ ValidKnob(k, v) <=> Counts(k, v)
         /\ Counts(k, v) => v \in KnobRange /\ v # Unset
<1>1. CASE v = Unset
  <2>1. v \notin Nat BY <1>1, ConfigAssumption
  <2>2. ~Counts(k, v)
    <3>1. Counts(k, v) => v \in Nat BY Bounds DEF Counts
    <3> QED BY <2>1, <3>1
  <2>3. ~ValidKnob(k, v) BY <1>1 DEF ValidKnob
  <2> QED BY <2>2, <2>3
<1>2. CASE v \in Nat
  <2>1. v # Unset BY <1>2, ConfigAssumption
  <2>2. CASE k = "batch"
    <3>1. Counts(k, v) <=> v \in 1..MaxBatch BY <2>2 DEF Counts
    <3>2. ValidKnob(k, v) <=> v > 0 /\ v <= MaxBatch BY <2>1, <2>2 DEF ValidKnob
    <3> QED BY <1>2, <2>1, <3>1, <3>2, Bounds DEF KnobRange
  <2>3. CASE k # "batch"
    <3>1. Counts(k, v) <=> v \in 1..(Hour - 1) BY <2>3 DEF Counts
    <3>2. ValidKnob(k, v) <=> v > 0 /\ v < Hour BY <2>1, <2>3 DEF ValidKnob
    <3> QED BY <1>2, <2>1, <3>1, <3>2, Bounds DEF KnobRange
  <2> QED BY <2>2, <2>3
<1> QED BY <1>1, <1>2

\* The default Config is turned off and empty.
LEMMA DefaultIs ==
  /\ IsRecord(Default) /\ Homeless(Default) /\ Home(Default, Unset)
  /\ Default.service = Unset /\ Default.headers = <<>> /\ Default.prefixes = <<>>
  /\ IsMap(Default.attributes) /\ DOMAIN Default.attributes = {}
  /\ Default.knobs = [k \in Knobs |-> Default.knobs[k]]
  /\ \A k \in Knobs : Default.knobs[k] \in KnobRange
<1>1. IsRecord(Default) BY DEF IsRecord, Default, ConfigFields
<1>2. Homeless(Default) BY DEF Homeless, Default
<1>3. /\ Default.service = Unset /\ Default.headers = <<>> /\ Default.prefixes = <<>>
      /\ Default.attributes = [k \in {} |-> k]
      /\ Default.knobs = [batch |-> 512, delay |-> 5000, timeout |-> 5000]
  BY DEF Default
<1>4. Home(Default, Unset) BY <1>2 DEF Home
<1>5. IsMap(Default.attributes) /\ DOMAIN Default.attributes = {}
  BY <1>3 DEF IsMap
<1>6. /\ Default.knobs = [k \in Knobs |-> Default.knobs[k]]
      /\ \A k \in Knobs : Default.knobs[k] \in KnobRange
  <2>1. DOMAIN Default.knobs = Knobs BY <1>3 DEF Knobs
  <2>2. /\ Default.knobs.batch = 512 /\ Default.knobs.delay = 5000
        /\ Default.knobs.timeout = 5000
    BY <1>3
  <2>3. 512 \in KnobRange /\ 5000 \in KnobRange BY Bounds
  <2>4. Default.knobs = [k \in DOMAIN Default.knobs |-> Default.knobs[k]]
    BY <1>3
  <2> QED BY <2>1, <2>2, <2>3, <2>4 DEF Knobs
<1> QED BY <1>1, <1>2, <1>3, <1>4, <1>5, <1>6

\* A name that is given replaces the one there is.
LEMMA WithServiceNameIs ==
  ASSUME NEW c, IsRecord(c), NEW name, NEW d, d = WithServiceName(c, name)
  PROVE  /\ IsRecord(d)
         /\ d.service = IF Given(name) THEN name ELSE c.service
         /\ \A f \in ConfigFields \ {"service"} : d[f] = c[f]
<1>1. CASE Given(name)
  <2>1. d = [c EXCEPT !.service = name] BY <1>1 DEF WithServiceName
  <2> QED BY <1>1, <2>1 DEF IsRecord, ConfigFields
<1>2. CASE ~Given(name) BY <1>2 DEF WithServiceName
<1> QED BY <1>1, <1>2

\* The Config that from_env returns.
LEMMA FromEnvIs ==
  ASSUME env \in Environments, NEW d, d = FromEnv(env)
  PROVE  /\ IsRecord(d) /\ IsMap(d.attributes) /\ Home(d, EnvEndpoint)
         /\ d.service = IF Given(env.service) THEN env.service ELSE NamedIn(EnvEntries)
         /\ d.attributes = AttributesOf(EnvEntries)
         /\ d.headers = ParseKvPairs(IF env.traceHeaders # <<>> THEN env.traceHeaders
                                                                ELSE env.headers)
         /\ d.prefixes = ParsePrefixes(env.prefixes)
         /\ d.knobs = [k \in Knobs |-> IF Counts(k, env.knobs[k]) THEN env.knobs[k]
                                                                  ELSE Default.knobs[k]]
<1> DEFINE first == WithServiceName(Default, env.service)
           named == FromEnvSink(env, first)
           heads == ParseKvPairs(IF env.traceHeaders # <<>> THEN env.traceHeaders
                                                            ELSE env.headers)
           pres  == ParsePrefixes(env.prefixes)
           turns == [k \in Knobs |-> IF ValidKnob(k, env.knobs[k]) THEN env.knobs[k]
                                                                   ELSE named.knobs[k]]
           tuned == [named EXCEPT !.headers = heads, !.prefixes = pres, !.knobs = turns]
<1>1. /\ IsRecord(first)
      /\ first.service = IF Given(env.service) THEN env.service ELSE Unset
      /\ \A f \in ConfigFields \ {"service"} : first[f] = Default[f]
  BY DefaultIs, WithServiceNameIs
<1>2. EnvSound(first, named) BY <1>1, FromEnvSinkIs
<1>3. d = WithResourceAttributes(tuned, EnvEntries)
  BY DEF FromEnv, EnvEntries
<1> HIDE DEF first, named, heads, pres
<1>4. /\ IsRecord(named) /\ Besides(first, named) /\ Home(named, EnvEndpoint)
  <2>1. CASE EnvEndpoint = Unset /\ named = first
    <3>1. Homeless(first)
      <4>1. \A f \in {"sink", "endpoint", "exporter", "disabled"} : first[f] = Default[f]
        BY <1>1 DEF ConfigFields
      <4> QED BY <4>1, DefaultIs DEF Homeless
    <3>2. Besides(first, first) BY DEF Besides
    <3> QED BY <1>1, <2>1, <3>1, <3>2 DEF Home
  <2>2. ASSUME NEW kind \in Kinds, NEW uri \in AnyUri, NEW mode \in Modes,
               Given(uri), EnvEndpoint = EndpointOf(kind, uri, mode),
               IsRecord(named), Housed(named, kind, uri, mode), Besides(first, named)
        PROVE  IsRecord(named) /\ Besides(first, named) /\ Home(named, EnvEndpoint)
    BY <2>2 DEF Home
  <2> QED BY <1>2, <2>1, <2>2 DEF EnvSound
<1>5. /\ named.service = IF Given(env.service) THEN env.service ELSE Unset
      /\ named.attributes = Default.attributes /\ named.knobs = Default.knobs
  BY <1>1, <1>4 DEF Besides, ConfigFields
<1>6. turns = [k \in Knobs |-> IF Counts(k, env.knobs[k]) THEN env.knobs[k]
                                                          ELSE Default.knobs[k]]
  <2>1. \A k \in Knobs : ValidKnob(k, env.knobs[k]) <=> Counts(k, env.knobs[k])
    BY KnobCounts, ListsAssumption
  <2> QED BY <1>5, <2>1
<1> HIDE DEF turns
<1>7. /\ IsRecord(tuned)
      /\ tuned.headers = heads /\ tuned.prefixes = pres /\ tuned.knobs = turns
      /\ \A f \in ConfigFields \ {"headers", "prefixes", "knobs"} : tuned[f] = named[f]
  BY <1>4 DEF IsRecord, ConfigFields
<1> HIDE DEF tuned
<1>8. /\ tuned.service = named.service /\ tuned.attributes = named.attributes
      /\ \A f \in {"sink", "endpoint", "exporter", "disabled"} : tuned[f] = named[f]
  BY <1>7 DEF ConfigFields
<1>9. EnvEntries \in Seq(Entries) BY ListsAre DEF EnvEntries
<1>10. tuned.service # Blank /\ IsMap(tuned.attributes) /\ DOMAIN tuned.attributes = {}
  BY <1>5, <1>8, DefaultIs, ConfigAssumption DEF Given
<1> DEFINE name == IF tuned.service # Unset THEN tuned.service ELSE NamedIn(EnvEntries)
           made == Over(AttributesOf(EnvEntries), tuned.attributes)
<1>11. d = Filled(tuned, name, made)
  BY <1>3, <1>7, <1>9, <1>10, ResourceAttributesAre
<1>12. made = AttributesOf(EnvEntries) /\ IsMap(made)
  <2>1. IsMap(AttributesOf(EnvEntries)) BY <1>9, EntriesSound
  <2> QED BY <1>10, <2>1, OverMap
<1>13. name = IF Given(env.service) THEN env.service ELSE NamedIn(EnvEntries)
  BY <1>5, <1>8, <1>10 DEF Given
<1> HIDE DEF name, made
<1>14. /\ IsRecord(d) /\ d.service = name /\ d.attributes = made
       /\ \A f \in ConfigFields \ {"service", "attributes"} : d[f] = tuned[f]
  BY <1>7, <1>11, FilledIs
<1>15. /\ d.headers = heads /\ d.prefixes = pres /\ d.knobs = turns
       /\ \A f \in {"sink", "endpoint", "exporter", "disabled"} : d[f] = tuned[f]
  BY <1>7, <1>14 DEF ConfigFields
<1>16. Home(d, EnvEndpoint) BY <1>4, <1>8, <1>15, HomeKeeps
<1> QED BY <1>6, <1>12, <1>13, <1>14, <1>15, <1>16 DEF heads, pres

MaybeUri(uri) == Given(uri) => uri \in AnyUri
SinkOnly(c, d, uri) ==
  /\ d.sink = uri /\ d.disabled = FALSE
  /\ d.endpoint = c.endpoint /\ d.exporter = c.exporter

\* What with_sink_uri does: nothing without a URI, the sink and its endpoint
\* where the URI resolves, and the sink alone where it does not.
LEMMA WithSinkUriIs ==
  ASSUME NEW c, IsRecord(c), NEW uri, MaybeUri(uri),
         NEW d, d = WithSinkUri(c, uri)
  PROVE  /\ IsRecord(d) /\ Besides(c, d)
         /\ ~Given(uri) => d = c
         /\ Given(uri) /\ Resolvable(uri) =>
              Housed(d, Exporters[uri.scheme], uri, "DefaultIfRoot")
         /\ Given(uri) /\ ~Resolvable(uri) => SinkOnly(c, d, uri)
<1>1. CASE ~Given(uri)
  <2>1. d = c BY <1>1 DEF WithSinkUri
  <2> QED BY <1>1, <2>1 DEF Besides
<1>2. CASE Given(uri) /\ Resolvable(uri)
  <2> DEFINE kind == Exporters[uri.scheme]
  <2>1. /\ ResolveEndpoint(uri) = EndpointOf(kind, uri, "DefaultIfRoot")
        /\ ResolveEndpoint(uri) # Unset
    BY <1>2, ResolveIs DEF MaybeUri
  <2> HIDE DEF kind
  <2>2. d = Located([c EXCEPT !.sink = uri, !.disabled = FALSE],
                    EndpointOf(kind, uri, "DefaultIfRoot"))
    BY <1>2, <2>1 DEF WithSinkUri
  <2>3. IsRecord(d) /\ Housed(d, kind, uri, "DefaultIfRoot") /\ Besides(c, d)
    BY <2>2, LocatedIs
  <2> QED BY <1>2, <2>3 DEF kind
<1>3. CASE Given(uri) /\ ~Resolvable(uri)
  <2>1. ResolveEndpoint(uri) = Unset BY <1>3, ResolveIs DEF MaybeUri
  <2>2. d = [c EXCEPT !.sink = uri, !.disabled = FALSE]
    BY <1>3, <2>1 DEF WithSinkUri
  <2>3. IsRecord(d) /\ Besides(c, d) BY <2>2 DEF IsRecord, ConfigFields, Besides
  <2>4. SinkOnly(c, d, uri) BY <2>2 DEF IsRecord, ConfigFields, SinkOnly
  <2> QED BY <1>3, <2>3, <2>4
<1> QED BY <1>1, <1>2, <1>3

\* The endpoint of the URI, if it resolves, or else another.
Rehomed(uri, ep) ==
  IF Given(uri) /\ Resolvable(uri)
  THEN EndpointOf(Exporters[uri.scheme], uri, "DefaultIfRoot") ELSE ep

\* A Config is sited where it has its home, and a sink moves it.
LEMMA SiteMoves ==
  ASSUME NEW c, IsRecord(c), NEW ep, Home(c, ep), NEW uri, MaybeUri(uri),
         NEW d, d = WithSinkUri(c, uri)
  PROVE  Sited(c, ep) /\ Sited(d, Rehomed(uri, ep))
<1>1. Sited(c, ep) BY HomeIs
<1>2. CASE ~Given(uri)
  <2>1. d = c BY <1>2, WithSinkUriIs
  <2> QED BY <1>1, <1>2, <2>1 DEF Rehomed
<1>3. CASE Given(uri) /\ Resolvable(uri)
  <2>1. Housed(d, Exporters[uri.scheme], uri, "DefaultIfRoot")
    BY <1>3, WithSinkUriIs
  <2>2. Exporters[uri.scheme] \in Kinds /\ uri \in AnyUri
    BY <1>3, ResolveIs DEF MaybeUri
  <2>3. Home(d, EndpointOf(Exporters[uri.scheme], uri, "DefaultIfRoot"))
    BY <1>3, <2>1, <2>2 DEF Home, Modes
  <2>4. Sited(d, EndpointOf(Exporters[uri.scheme], uri, "DefaultIfRoot"))
    BY <2>3, HomeIs
  <2> QED BY <1>1, <1>3, <2>4 DEF Rehomed
<1>4. CASE Given(uri) /\ ~Resolvable(uri)
  <2>1. SinkOnly(c, d, uri) BY <1>4, WithSinkUriIs
  <2> QED BY <1>1, <1>4, <2>1 DEF Sited, Rehomed, Given, SinkOnly
<1> QED BY <1>1, <1>2, <1>3, <1>4

-----------------------------------------------------------------------------
(* The history of the calls.                                                *)

\* A position behind a sequence is the last, and the others keep their values.
LEMMA Appended ==
  ASSUME NEW S, NEW s \in Seq(S), NEW e \in S, NEW at, Within(at, Len(s))
  PROVE  /\ LastOf(at, Append(s, e)) = LastOf(at, s)
         /\ LastOf(at \cup {Len(s) + 1}, Append(s, e)) = e.value
<1> DEFINE n == Len(s)
           t == Append(s, e)
<1>1. /\ n \in Nat /\ t[n + 1] = e /\ \A i \in 1..n : t[i] = s[i]
  BY LenProperties, AppendProperties
<1>2. Within(at, n) OBVIOUS
<1> HIDE DEF n, t
<1>3. \A i \in at : t[i] = s[i] BY <1>1, <1>2 DEF Within
<1>4. LastOf(at, t) = LastOf(at, s) BY <1>2, <1>3, SameValues
<1>5. LastOf(at \cup {n + 1}, t) = t[n + 1].value BY <1>2, OneMore
<1> QED BY <1>1, <1>4, <1>5 DEF n, t

Values == Names \cup Uris \cup {Blank, Unset} \cup HeaderLists \cup PrefixLists
            \cup AttributeLists \cup KnobValues
Fields == Knobs \cup {"service", "sink", "headers", "prefixes", "attributes", "disabled"}
Call   == [field : Fields, value : Values]

Called(field, value) ==
  /\ field \in Fields /\ value \in Values
  /\ calls' = Append(calls, [field |-> field, value |-> value])

\* One more call of a setter.
LEMMA CallsNext ==
  ASSUME calls \in Seq(Call), NEW field, NEW value, Called(field, value)
  PROVE  /\ calls' \in Seq(Call) /\ Len(calls) \in Nat
         /\ DOMAIN calls = 1..Len(calls) /\ DOMAIN calls' = 1..(Len(calls) + 1)
         /\ calls'[Len(calls) + 1].field = field /\ calls'[Len(calls) + 1].value = value
         /\ \A i \in 1..Len(calls) : calls'[i] = calls[i]
<1> DEFINE c == [field |-> field, value |-> value]
<1>1. c \in Call BY DEF Called, Call
<1>2. calls' = Append(calls, c) /\ c.field = field /\ c.value = value BY DEF Called
<1> HIDE DEF c
<1>3. /\ calls' \in Seq(Call) /\ Len(calls') = Len(calls) + 1
      /\ \A i \in 1..Len(calls) : calls'[i] = calls[i]
      /\ calls'[Len(calls) + 1] = c
  BY <1>1, <1>2, AppendProperties
<1> QED BY <1>2, <1>3, LenProperties

\* What the last call of a kind said, after one more call.
LEMMA ToldNext ==
  ASSUME calls \in Seq(Call), NEW field, NEW value, Called(field, value)
  PROVE  /\ LastName' = IF field = "service" /\ Given(value) THEN value ELSE LastName
         /\ LastSink' = IF field = "sink" /\ Given(value) THEN value ELSE LastSink
         /\ \A k : LastKnob(k)' = IF field = k /\ Counts(k, value) THEN value
                                                                  ELSE LastKnob(k)
         /\ \A f : LastList(f)' = IF field = f THEN value ELSE LastList(f)
<1> DEFINE n == Len(calls)
           c == [field |-> field, value |-> value]
<1>1. /\ n \in Nat /\ DOMAIN calls = 1..n /\ DOMAIN calls' = 1..(n + 1)
      /\ calls'[n + 1].field = field /\ calls'[n + 1].value = value
      /\ \A i \in 1..n : calls'[i] = calls[i]
  BY CallsNext
<1>2. ASSUME NEW at, Within(at, n)
      PROVE  /\ LastOf(at, calls') = LastOf(at, calls)
             /\ LastOf(at \cup {n + 1}, calls') = value
  <2>1. c \in Call /\ calls' = Append(calls, c) /\ c.value = value
    BY DEF Called, Call
  <2> HIDE DEF c
  <2> QED BY <1>2, <2>1, Appended
<1> HIDE DEF n, c
<1>3. \A i : i \in 1..(n + 1) <=> i \in 1..n \/ i = n + 1 BY <1>1
<1>4. ASSUME NEW f
      PROVE  /\ Within(CallsOf(f), n)
             /\ CallsOf(f)' = IF field = f THEN CallsOf(f) \cup {n + 1} ELSE CallsOf(f)
  BY <1>1, <1>3 DEF CallsOf, Within
<1>5. \A f : \A i \in CallsOf(f) : calls'[i] = calls[i]
  BY <1>1 DEF CallsOf
<1>6. LastName' = IF field = "service" /\ Given(value) THEN value ELSE LastName
  <2> DEFINE at == {i \in CallsOf("service") : Given(calls[i].value)}
  <2>1. Within(at, n) BY <1>4 DEF Within
  <2>2. {i \in CallsOf("service")' : Given(calls'[i].value)} =
          IF field = "service" /\ Given(value) THEN at \cup {n + 1} ELSE at
    BY <1>1, <1>4, <1>5
  <2> HIDE DEF at
  <2>3. LastName' = LastOf(IF field = "service" /\ Given(value) THEN at \cup {n + 1}
                                                                ELSE at, calls')
    BY <2>2 DEF LastName
  <2>4. LastName = LastOf(at, calls) BY DEF LastName, at
  <2> QED BY <1>2, <2>1, <2>3, <2>4
<1>7. LastSink' = IF field = "sink" /\ Given(value) THEN value ELSE LastSink
  <2> DEFINE at == {i \in CallsOf("sink") : Given(calls[i].value)}
  <2>1. Within(at, n) BY <1>4 DEF Within
  <2>2. {i \in CallsOf("sink")' : Given(calls'[i].value)} =
          IF field = "sink" /\ Given(value) THEN at \cup {n + 1} ELSE at
    BY <1>1, <1>4, <1>5
  <2> HIDE DEF at
  <2>3. LastSink' = LastOf(IF field = "sink" /\ Given(value) THEN at \cup {n + 1}
                                                             ELSE at, calls')
    BY <2>2 DEF LastSink
  <2>4. LastSink = LastOf(at, calls) BY DEF LastSink, at
  <2> QED BY <1>2, <2>1, <2>3, <2>4
<1>8. ASSUME NEW k
      PROVE  LastKnob(k)' = IF field = k /\ Counts(k, value) THEN value ELSE LastKnob(k)
  <2> DEFINE at == {i \in CallsOf(k) : Counts(k, calls[i].value)}
  <2>1. Within(at, n) BY <1>4 DEF Within
  <2>2. {i \in CallsOf(k)' : Counts(k, calls'[i].value)} =
          IF field = k /\ Counts(k, value) THEN at \cup {n + 1} ELSE at
    BY <1>1, <1>4, <1>5
  <2> HIDE DEF at
  <2>3. LastKnob(k)' = LastOf(IF field = k /\ Counts(k, value) THEN at \cup {n + 1}
                                                               ELSE at, calls')
    BY <2>2 DEF LastKnob
  <2>4. LastKnob(k) = LastOf(at, calls) BY DEF LastKnob, at
  <2> QED BY <1>2, <2>1, <2>3, <2>4
<1>9. ASSUME NEW f
      PROVE  LastList(f)' = IF field = f THEN value ELSE LastList(f)
  <2>1. LastList(f)' = LastOf(IF field = f THEN CallsOf(f) \cup {n + 1}
                                           ELSE CallsOf(f), calls')
    BY <1>4 DEF LastList
  <2>2. LastList(f) = LastOf(CallsOf(f), calls) BY DEF LastList
  <2> QED BY <1>2, <1>4, <2>1, <2>2
<1> QED BY <1>6, <1>7, <1>8, <1>9

\* The calls that turned a Config off, and those that gave it a sink that resolves.
Offs  == {i \in DOMAIN calls : calls[i].field = "disabled"}
Sinks == {i \in DOMAIN calls : calls[i].field = "sink" /\ Given(calls[i].value)
                                 /\ Resolvable(calls[i].value)}
TurnedOn ==
  \/ \E i \in Sinks : \A j \in Offs : j < i
  \/ Offs = {} /\ EnvEndpoint # Unset

\* A sink turns a Config on, and only disabled turns it off.
LEMMA TurnedOnNext ==
  ASSUME calls \in Seq(Call), NEW field, NEW value, Called(field, value), env' = env
  PROVE  /\ field = "sink" /\ Given(value) /\ Resolvable(value) => TurnedOn'
         /\ field # "disabled" /\ TurnedOn => TurnedOn'
<1> DEFINE n == Len(calls)
<1>1. /\ n \in Nat /\ DOMAIN calls = 1..n /\ DOMAIN calls' = 1..(n + 1)
      /\ calls'[n + 1].field = field /\ calls'[n + 1].value = value
      /\ \A i \in 1..n : calls'[i] = calls[i]
  BY CallsNext
<1> HIDE DEF n
<1>2. \A i : i \in 1..(n + 1) <=> i \in 1..n \/ i = n + 1 BY <1>1
<1>3. field # "disabled" => Offs' = Offs BY <1>1, <1>2 DEF Offs
<1>4. Sinks \subseteq Sinks' BY <1>1, <1>2 DEF Sinks
<1>5. EnvEndpoint' = EnvEndpoint BY DEF EnvEndpoint
<1>6. \A j \in Offs : j < n + 1 BY <1>1 DEF Offs
<1>7. ASSUME field = "sink", Given(value), Resolvable(value) PROVE TurnedOn'
  <2>1. n + 1 \in Sinks' BY <1>1, <1>2, <1>7 DEF Sinks
  <2>2. Offs' = Offs BY <1>3, <1>7
  <2> QED BY <1>6, <2>1, <2>2 DEF TurnedOn
<1>8. ASSUME field # "disabled", TurnedOn PROVE TurnedOn'
  BY <1>3, <1>4, <1>5, <1>8 DEF TurnedOn
<1> QED BY <1>7, <1>8

\* Before any call nothing was told.
LEMMA NothingTold ==
  ASSUME calls = <<>>, entries = <<>>
  PROVE  /\ LastName = Unset /\ LastSink = Unset
         /\ \A k : LastKnob(k) = Unset
         /\ \A f : LastList(f) = Unset
         /\ NamedIn(entries) = Unset
         /\ AttributesOf(entries) = Default.attributes
         /\ Offs = {}
<1>1. DOMAIN calls = {} /\ DOMAIN entries = {} OBVIOUS
<1>2. \A f : CallsOf(f) = {} BY <1>1 DEF CallsOf
<1>3. LastName = Unset /\ LastSink = Unset
  BY <1>2 DEF LastName, LastSink, LastOf
<1>4. /\ \A k : LastKnob(k) = Unset
      /\ \A f : LastList(f) = Unset
  BY <1>2 DEF LastKnob, LastList, LastOf
<1>5. NamedIn(entries) = Unset BY <1>1 DEF NamedIn, FirstOf
<1>6. AttributesOf(entries) = Default.attributes
  <2>1. IsMap(AttributesOf(entries)) /\ DOMAIN AttributesOf(entries) = {}
    BY <1>1 DEF IsMap, AttributesOf
  <2>2. IsMap(Default.attributes) /\ DOMAIN Default.attributes = {} BY DefaultIs
  <2>3. Over(AttributesOf(entries), Default.attributes) = Default.attributes
    BY <2>1, <2>2, OverMap
  <2>4. Over(AttributesOf(entries), Default.attributes) = AttributesOf(entries)
    BY <2>1, <2>2, OverMap
  <2> QED BY <2>3, <2>4
<1>7. Offs = {} BY <1>1 DEF Offs
<1> QED BY <1>3, <1>4, <1>5, <1>6, <1>7

-----------------------------------------------------------------------------
(* What a constructor makes of a Config.                                    *)

\* A tracer has the Config it was made from or that one turned off, and is
\* active only if it has an endpoint.
LEMMA TracerIs ==
  ASSUME NEW c, IsRecord(c), NEW r, r = TracerFrom(c) \/ r = TryTracerFrom(c)
  PROVE  /\ r.by = stage
         /\ r.config = c \/ r.config = Disabled(c)
         /\ r.active => c.endpoint # Unset /\ r.config = c
<1>1. /\ Disabled(c).endpoint = Unset
  BY DEF Disabled, IsRecord, ConfigFields
<1>2. ASSUME NEW d PROVE /\ Pipeline(d).by = stage /\ Pipeline(d).config = d
                         /\ Pipeline(d).active => d.endpoint # Unset
  BY DEF Pipeline, BuildsExporter
<1>3. ASSUME r = TracerFrom(c)
      PROVE  /\ r.by = stage
             /\ r.config = c \/ r.config = Disabled(c)
             /\ r.active => c.endpoint # Unset /\ r.config = c
  <2>1. CASE CanExport(c)
    <3>1. r = Pipeline(c) BY <1>3, <2>1 DEF TracerFrom
    <3> QED BY <1>2, <3>1
  <2>2. CASE ~CanExport(c)
    <3>1. r = Pipeline(Disabled(c)) BY <1>3, <2>2 DEF TracerFrom
    <3> QED BY <1>1, <1>2, <3>1
  <2> QED BY <2>1, <2>2
<1>4. CASE r = TryTracerFrom(c) /\ ~(c.sink # Unset /\ c.service = Unset)
  <2>1. r = TracerFrom(c) BY <1>4 DEF TryTracerFrom
  <2> QED BY <1>3, <2>1
<1>5. CASE r = TryTracerFrom(c) /\ c.sink # Unset /\ c.service = Unset
  <2>1. r = [by |-> stage, config |-> c, error |-> TRUE, active |-> FALSE]
    BY <1>5 DEF TryTracerFrom
  <2> QED BY <2>1
<1> QED BY <1>3, <1>4, <1>5

\* Turning a Config off changes nothing but its site, and leaves it sound.
LEMMA DisabledIs ==
  ASSUME NEW c, IsRecord(c), NEW d, d = Disabled(c)
  PROVE  /\ IsRecord(d) /\ Besides(c, d) /\ Homeless(d)
         /\ SoundConfig(c) => SoundConfig(d)
<1>1. IsRecord(d) /\ Besides(c, d) /\ Homeless(d)
  BY DEF Disabled, IsRecord, ConfigFields, Besides, Homeless
<1>2. SoundConfig(c) => SoundConfig(d)
  BY <1>1, ConfigAssumption DEF SoundConfig, Besides, Homeless
<1> QED BY <1>1, <1>2

UsableHeaders(c) == ~\E i \in DOMAIN c.headers : c.headers[i].key = InvalidHeader

\* A tracer is active exactly if it can be.
LEMMA ActiveIs ==
  ASSUME NEW c, IsRecord(c), NEW ep, Sited(c, ep), NEW r, r = TracerFrom(c)
  PROVE  /\ ~r.error
         /\ r.active <=> runtime /\ c.service # Unset /\ ep # Unset /\ UsableHeaders(c)
<1>0. ASSUME NEW d
      PROVE  /\ Pipeline(d).error = FALSE
             /\ Pipeline(d).active = (IsEnabled(d) /\ BuildsExporter(d) /\ runtime)
  BY DEF Pipeline
<1>1. CASE CanExport(c)
  <2>1. r = Pipeline(c) BY <1>1 DEF TracerFrom
  <2>2. ~r.error /\ (r.active <=> IsEnabled(c) /\ BuildsExporter(c) /\ runtime)
    BY <1>0, <2>1
  <2>3. c.service # Unset BY <1>1 DEF CanExport
  <2>4. ep # Unset => IsEnabled(c) BY DEF IsEnabled, HasSink, Sited
  <2>5. BuildsExporter(c) <=> ep # Unset /\ UsableHeaders(c)
    BY DEF BuildsExporter, Sited, UsableHeaders
  <2> QED BY <2>2, <2>3, <2>4, <2>5
<1>2. CASE ~CanExport(c)
  <2>1. r = Pipeline(Disabled(c)) BY <1>2 DEF TracerFrom
  <2>2. ~r.error BY <2>1 DEF Pipeline
  <2>3. ~r.active
    <3>1. Disabled(c).endpoint = Unset BY DisabledIs DEF Homeless
    <3>2. ~BuildsExporter(Disabled(c)) BY <3>1 DEF BuildsExporter
    <3> QED BY <1>0, <2>1, <3>2
  <2>4. c.service = Unset \/ ep = Unset BY <1>2 DEF CanExport, HasSink, Sited
  <2> QED BY <2>2, <2>3, <2>4
<1> QED BY <1>1, <1>2

\* What the environment and the builder were told, as a Config.
ToldKnobs(d) == \A k \in Knobs : d.knobs[k] = ChosenKnob(k)
Chosen(d) ==
  /\ IsRecord(d) /\ SoundConfig(d) /\ Sited(d, ChosenEndpoint)
  /\ d.service = ChosenName /\ d.headers = ChosenHeaders /\ d.prefixes = ChosenPrefixes
  /\ ToldKnobs(d) /\ d.attributes = AttributesOf(EnvEntries \o entries)

Kept == /\ env' = env /\ runtime' = runtime /\ calls' = calls /\ entries' = entries

\* What was chosen stays while nothing is told.
LEMMA ChosenKept ==
  ASSUME Kept
  PROVE  /\ ChosenName' = ChosenName /\ ChosenHeaders' = ChosenHeaders
         /\ ChosenPrefixes' = ChosenPrefixes /\ ChosenEndpoint' = ChosenEndpoint
         /\ EnvEndpoint' = EnvEndpoint
         /\ \A k : ChosenKnob(k)' = ChosenKnob(k)
         /\ AttributesOf(EnvEntries \o entries)' = AttributesOf(EnvEntries \o entries)
<1>1. /\ LastName' = LastName /\ LastSink' = LastSink
      /\ \A k : LastKnob(k)' = LastKnob(k)
      /\ \A f : LastList(f)' = LastList(f)
  BY DEF Kept, LastName, LastSink, LastKnob, LastList, CallsOf
<1>2. EnvEntries' = EnvEntries /\ EnvEndpoint' = EnvEndpoint
  BY DEF Kept, EnvEntries, EnvEndpoint
<1>3. ChosenName' = ChosenName BY <1>1, <1>2 DEF Kept, ChosenName
<1>4. ChosenHeaders' = ChosenHeaders BY <1>1 DEF Kept, ChosenHeaders
<1>5. ChosenPrefixes' = ChosenPrefixes BY <1>1 DEF Kept, ChosenPrefixes
<1>6. ChosenEndpoint' = ChosenEndpoint BY <1>1, <1>2 DEF ChosenEndpoint
<1>7. \A k : ChosenKnob(k)' = ChosenKnob(k) BY <1>1 DEF Kept, ChosenKnob
<1>8. AttributesOf(EnvEntries \o entries)' = AttributesOf(EnvEntries \o entries)
  BY <1>2 DEF Kept
<1> QED BY <1>2, <1>3, <1>4, <1>5, <1>6, <1>7, <1>8

-----------------------------------------------------------------------------
(* The inductive invariant.                                                 *)

Typed ==
  /\ env \in Environments
  /\ calls \in Seq(Call) /\ entries \in Seq(Entries)
  /\ IsRecord(own) /\ IsMap(own.attributes)
  /\ own.knobs = [k \in Knobs |-> own.knobs[k]]
  /\ knobs = [k \in Knobs |-> knobs[k]]

\* Before the first call nothing was told, and before the last one there is no tracer.
Fresh ==
  /\ stage = "start" => calls = <<>> /\ entries = <<>> /\ own = Default
  /\ stage # "built" => tracer = NoTracer

\* The Config of a builder holds what the builder was told, and nothing else.
BuilderTold ==
  stage \in {"start", "builder"} =>
    /\ own.service = IF Given(LastName) THEN LastName ELSE NamedIn(entries)
    /\ own.headers = IF LastList("headers") = Unset THEN <<>> ELSE LastList("headers")
    /\ own.prefixes = IF LastList("prefixes") = Unset THEN <<>> ELSE LastList("prefixes")
    /\ \A k \in Knobs : knobs[k] = LastKnob(k)
    /\ own.attributes = AttributesOf(entries)
    /\ own.sink = LastSink /\ MaybeUri(LastSink)
    /\ LastSink = Unset \/ Given(LastSink)

\* A Config has an endpoint only if it was turned on since it was turned off.
OffTracked == stage = "config" /\ own.endpoint # Unset => TurnedOn

IInv ==
  /\ Typed /\ TypeOK /\ Fresh /\ BuilderTold /\ OffTracked
  /\ ActiveIffUsable /\ LastSetterWins /\ AttributesOverlaid /\ OffMeansOff

\* At the start all that is told is the environment.
LEMMA EnvChosen ==
  ASSUME Typed, Fresh, stage = "start", NEW d, d = FromEnv(env)
  PROVE  Chosen(d) /\ Home(d, EnvEndpoint)
<1>1. /\ IsRecord(d) /\ IsMap(d.attributes) /\ Home(d, EnvEndpoint)
      /\ d.service = IF Given(env.service) THEN env.service ELSE NamedIn(EnvEntries)
      /\ d.attributes = AttributesOf(EnvEntries)
      /\ d.headers = ParseKvPairs(IF env.traceHeaders # <<>> THEN env.traceHeaders
                                                             ELSE env.headers)
      /\ d.prefixes = ParsePrefixes(env.prefixes)
      /\ d.knobs = [k \in Knobs |-> IF Counts(k, env.knobs[k]) THEN env.knobs[k]
                                                               ELSE Default.knobs[k]]
  BY FromEnvIs DEF Typed
<1>2. /\ calls = <<>> /\ entries = <<>> BY DEF Fresh
<1>3. /\ LastName = Unset /\ LastSink = Unset
      /\ \A k : LastKnob(k) = Unset
      /\ \A f : LastList(f) = Unset
      /\ NamedIn(entries) = Unset
  BY <1>2, NothingTold
<1>4. Unset # Blank /\ ~Given(Unset) BY ConfigAssumption DEF Given
<1>5. EnvEntries \in Seq(Entries) BY ListsAre DEF Typed, EnvEntries
<1>6. EnvEntries \o entries = EnvEntries BY <1>2, <1>5, ConcatEmptySeq
<1>7. d.service = ChosenName BY <1>1, <1>3, <1>4 DEF ChosenName
<1>8. d.headers = ChosenHeaders BY <1>1, <1>3 DEF ChosenHeaders
<1>9. d.prefixes = ChosenPrefixes BY <1>1, <1>3 DEF ChosenPrefixes
<1>10. ToldKnobs(d) BY <1>1, <1>3 DEF ToldKnobs, ChosenKnob
<1>11. Sited(d, ChosenEndpoint) BY <1>1, <1>3, HomeIs DEF ChosenEndpoint
<1>12. SoundConfig(d)
  <2>1. d.service # Blank BY <1>1, <1>4, <1>5, EntriesSound DEF Given
  <2>2. "service.name" \notin DOMAIN d.attributes BY <1>1, <1>5, EntriesSound
  <2>3. \A k \in Knobs : d.knobs[k] \in KnobRange
    <3> TAKE k \in Knobs
    <3>1. env.knobs[k] \in Nat \cup {Unset} BY ListsAssumption DEF Typed
    <3>2. Counts(k, env.knobs[k]) => env.knobs[k] \in KnobRange BY <3>1, KnobCounts
    <3> QED BY <1>1, <3>2, DefaultIs
  <2> QED BY <1>11, <2>1, <2>2, <2>3 DEF SoundConfig, Sited, KnobRange
<1> QED BY <1>1, <1>6, <1>7, <1>8, <1>9, <1>10, <1>11, <1>12 DEF Chosen

\* What build lays over the environment is what the builder was told.
LEMMA OverlayChosen ==
  ASSUME Typed, TypeOK, BuilderTold, stage = "builder",
         NEW d, d = Overlay(FromEnv(env), own, knobs)
  PROVE  Chosen(d)
<1> DEFINE base    == FromEnv(env)
           named   == WithServiceName(base, own.service)
           sunk    == WithSinkUri(named, own.sink)
           captive == IF own.prefixes = <<>> THEN sunk
                      ELSE WithCaptureHeaderPrefixes(sunk, own.prefixes)
           headed  == IF own.headers = <<>> THEN captive
                      ELSE WithHeaders(captive, own.headers)
           made    == Over(own.attributes, headed.attributes)
           attributed == [headed EXCEPT !.attributes = made]
           turns   == [k \in Knobs |-> IF knobs[k] = Unset THEN attributed.knobs[k]
                                                           ELSE knobs[k]]
<1>1. d = [attributed EXCEPT !.knobs = turns] BY DEF Overlay
<1>2. /\ IsRecord(base) /\ IsMap(base.attributes) /\ Home(base, EnvEndpoint)
      /\ base.service = IF Given(env.service) THEN env.service ELSE NamedIn(EnvEntries)
      /\ base.attributes = AttributesOf(EnvEntries)
      /\ base.headers = ParseKvPairs(IF env.traceHeaders # <<>> THEN env.traceHeaders
                                                                ELSE env.headers)
      /\ base.prefixes = ParsePrefixes(env.prefixes)
      /\ base.knobs = [k \in Knobs |-> IF Counts(k, env.knobs[k]) THEN env.knobs[k]
                                                                  ELSE Default.knobs[k]]
  BY FromEnvIs DEF Typed
<1>3. /\ own.service = IF Given(LastName) THEN LastName ELSE NamedIn(entries)
      /\ own.headers = IF LastList("headers") = Unset THEN <<>> ELSE LastList("headers")
      /\ own.prefixes = IF LastList("prefixes") = Unset THEN <<>> ELSE LastList("prefixes")
      /\ \A k \in Knobs : knobs[k] = LastKnob(k)
      /\ own.attributes = AttributesOf(entries)
      /\ own.sink = LastSink /\ MaybeUri(LastSink)
      /\ LastSink = Unset \/ Given(LastSink)
  BY DEF BuilderTold
<1> HIDE DEF base
<1>4. /\ IsRecord(named)
      /\ named.service = IF Given(own.service) THEN own.service ELSE base.service
      /\ \A f \in ConfigFields \ {"service"} : named[f] = base[f]
  BY <1>2, WithServiceNameIs
<1> HIDE DEF named
<1>5. /\ named.headers = base.headers /\ named.prefixes = base.prefixes
      /\ named.attributes = base.attributes /\ named.knobs = base.knobs
      /\ \A f \in {"sink", "endpoint", "exporter", "disabled"} : named[f] = base[f]
  BY <1>4 DEF ConfigFields
<1>6. Home(named, EnvEndpoint) BY <1>2, <1>5, HomeKeeps
<1>7. IsRecord(sunk) /\ Besides(named, sunk) BY <1>3, <1>4, WithSinkUriIs
<1>8. Sited(sunk, Rehomed(LastSink, EnvEndpoint)) BY <1>3, <1>4, <1>6, SiteMoves
<1>9. Rehomed(LastSink, EnvEndpoint) = ChosenEndpoint
  BY <1>3 DEF Rehomed, ChosenEndpoint, Given
<1> HIDE DEF sunk
<1>10. /\ sunk.service = named.service /\ sunk.headers = named.headers
       /\ sunk.prefixes = named.prefixes /\ sunk.attributes = named.attributes
       /\ sunk.knobs = named.knobs
  BY <1>7 DEF Besides
<1>11. /\ IsRecord(captive)
       /\ captive.prefixes = IF own.prefixes = <<>> THEN sunk.prefixes ELSE own.prefixes
       /\ \A f \in ConfigFields \ {"prefixes"} : captive[f] = sunk[f]
  BY <1>7 DEF WithCaptureHeaderPrefixes, IsRecord, ConfigFields
<1> HIDE DEF captive
<1>12. /\ IsRecord(headed)
       /\ headed.headers = IF own.headers = <<>> THEN captive.headers ELSE own.headers
       /\ \A f \in ConfigFields \ {"headers"} : headed[f] = captive[f]
  BY <1>11 DEF WithHeaders, IsRecord, ConfigFields
<1> HIDE DEF headed
<1>13. /\ IsRecord(attributed) /\ attributed.attributes = made
       /\ \A f \in ConfigFields \ {"attributes"} : attributed[f] = headed[f]
  BY <1>12 DEF IsRecord, ConfigFields
<1> HIDE DEF attributed, made
<1>14. /\ IsRecord(d) /\ d.knobs = turns
       /\ \A f \in ConfigFields \ {"knobs"} : d[f] = attributed[f]
  BY <1>1, <1>13 DEF IsRecord, ConfigFields
<1>15. /\ d.service = named.service /\ d.attributes = made
       /\ d.headers = IF own.headers = <<>> THEN base.headers ELSE own.headers
       /\ d.prefixes = IF own.prefixes = <<>> THEN base.prefixes ELSE own.prefixes
       /\ attributed.knobs = base.knobs /\ headed.attributes = base.attributes
       /\ \A f \in {"sink", "endpoint", "exporter", "disabled"} : d[f] = sunk[f]
  BY <1>5, <1>10, <1>11, <1>12, <1>13, <1>14 DEF ConfigFields
<1>16. Unset # Blank /\ ~Given(Unset) BY ConfigAssumption DEF Given
<1>17. EnvEntries \in Seq(Entries) BY ListsAre DEF Typed, EnvEntries
<1>18. /\ NamedIn(entries) = Unset \/ Given(NamedIn(entries))
       /\ NamedIn(EnvEntries) = Unset \/ Given(NamedIn(EnvEntries))
       /\ "service.name" \notin DOMAIN AttributesOf(EnvEntries \o entries)
  BY <1>17, EntriesSound, ConcatEntries DEF Typed
<1>19. d.service = ChosenName
  BY <1>2, <1>3, <1>4, <1>15, <1>16, <1>18 DEF ChosenName
<1>20. d.headers = ChosenHeaders BY <1>2, <1>3, <1>15 DEF ChosenHeaders
<1>21. d.prefixes = ChosenPrefixes BY <1>2, <1>3, <1>15 DEF ChosenPrefixes
<1>22. ASSUME NEW k \in Knobs PROVE d.knobs[k] = ChosenKnob(k)
  <2>1. d.knobs[k] = IF knobs[k] = Unset THEN base.knobs[k] ELSE knobs[k]
    BY <1>14, <1>15
  <2>2. knobs[k] = LastKnob(k) BY <1>3
  <2>3. base.knobs[k] = IF Counts(k, env.knobs[k]) THEN env.knobs[k] ELSE Default.knobs[k]
    BY <1>2
  <2> QED BY <2>1, <2>2, <2>3 DEF ChosenKnob
<1>23. d.attributes = AttributesOf(EnvEntries \o entries)
  BY <1>2, <1>3, <1>15, <1>17, ConcatEntries DEF made, Typed
<1>24. Sited(d, ChosenEndpoint) BY <1>8, <1>9, <1>15 DEF Sited
<1>25. \A k \in Knobs : d.knobs[k] \in KnobRange
  <2> TAKE k \in Knobs
  <2>1. CASE knobs[k] = Unset
    <3>1. env.knobs[k] \in Nat \cup {Unset} BY ListsAssumption DEF Typed
    <3>2. Counts(k, env.knobs[k]) => env.knobs[k] \in KnobRange BY <3>1, KnobCounts
    <3>3. d.knobs[k] = IF Counts(k, env.knobs[k]) THEN env.knobs[k] ELSE Default.knobs[k]
      BY <1>2, <1>14, <1>15, <2>1
    <3> QED BY <3>2, <3>3, DefaultIs
  <2>2. CASE knobs[k] # Unset
    <3>1. d.knobs[k] = own.knobs[k] BY <1>14, <2>2 DEF TypeOK
    <3> QED BY <3>1 DEF TypeOK, SoundConfig, KnobRange
  <2> QED BY <2>1, <2>2
<1>26. d.service # Blank
  BY <1>2, <1>3, <1>4, <1>15, <1>16, <1>18 DEF Given
<1>27. SoundConfig(d)
  BY <1>18, <1>23, <1>24, <1>25, <1>26 DEF SoundConfig, Sited, KnobRange
<1> QED BY <1>14, <1>19, <1>20, <1>21, <1>22, <1>23, <1>24, <1>27 DEF Chosen, ToldKnobs

-----------------------------------------------------------------------------
(* The steps.                                                               *)

\* What a constructor leaves alone.
Constructed(r) ==
  /\ stage' = "built" /\ tracer' = r /\ own' = own /\ knobs' = knobs /\ Kept

\* Besides the properties of the tracer, a constructor preserves the invariant.
LEMMA ConstructKeeps ==
  ASSUME IInv, NEW r, Constructed(r), SoundConfig(r.config)
  PROVE  Typed' /\ TypeOK' /\ Fresh' /\ BuilderTold' /\ OffTracked'
<1>1. Typed' BY DEF IInv, Typed, Constructed, Kept
<1>2. TypeOK' BY DEF IInv, TypeOK, Constructed
<1>3. Fresh' /\ BuilderTold' /\ OffTracked'
  BY DEF Constructed, Fresh, BuilderTold, OffTracked
<1> QED BY <1>1, <1>2, <1>3

\* A tracer of the environment or of a builder.
LEMMA BuiltStep ==
  ASSUME IInv, stage \in {"start", "builder"}, NEW d, Chosen(d), NEW r, Constructed(r),
         \/ r = TracerFrom(d)
         \/ r = TryTracerFrom(d) /\ Home(d, EnvEndpoint)
  PROVE  IInv'
<1>0. /\ IsRecord(d) /\ SoundConfig(d) /\ Sited(d, ChosenEndpoint)
      /\ d.service = ChosenName /\ d.headers = ChosenHeaders /\ d.prefixes = ChosenPrefixes
      /\ ToldKnobs(d) /\ d.attributes = AttributesOf(EnvEntries \o entries)
  BY DEF Chosen
<1>1. /\ r.by = stage
      /\ r.config = d \/ r.config = Disabled(d)
      /\ r.active => r.config = d
  BY <1>0, TracerIs
<1>2. IsRecord(r.config) /\ Besides(d, r.config) /\ SoundConfig(r.config)
  <2>1. CASE r.config = d BY <1>0, <2>1 DEF Besides
  <2>2. CASE r.config = Disabled(d) BY <1>0, <2>2, DisabledIs
  <2> QED BY <1>1, <2>1, <2>2
<1>3. Typed' /\ TypeOK' /\ Fresh' /\ BuilderTold' /\ OffTracked'
  BY <1>2, ConstructKeeps
<1>4. /\ ChosenName' = ChosenName /\ ChosenHeaders' = ChosenHeaders
      /\ ChosenPrefixes' = ChosenPrefixes /\ ChosenEndpoint' = ChosenEndpoint
      /\ EnvEndpoint' = EnvEndpoint
      /\ \A k : ChosenKnob(k)' = ChosenKnob(k)
      /\ AttributesOf(EnvEntries \o entries)' = AttributesOf(EnvEntries \o entries)
  BY ChosenKept DEF Constructed
<1>5. tracer' = r /\ runtime' = runtime BY DEF Constructed, Kept
<1>6. LastSetterWins'
  <2>1. /\ r.config.service = ChosenName /\ r.config.headers = ChosenHeaders
        /\ r.config.prefixes = ChosenPrefixes
        /\ \A k \in Knobs : r.config.knobs[k] = ChosenKnob(k)
    BY <1>0, <1>2 DEF Besides, ToldKnobs
  <2> QED BY <1>4, <1>5, <2>1 DEF LastSetterWins
<1>7. AttributesOverlaid'
  <2>1. r.config.attributes = AttributesOf(EnvEntries \o entries)
    BY <1>0, <1>2 DEF Besides
  <2> QED BY <1>4, <1>5, <2>1 DEF AttributesOverlaid
<1>8. OffMeansOff' BY <1>1, <1>5 DEF OffMeansOff
<1>9. /\ r.active <=> /\ runtime /\ ChosenName # Unset /\ ChosenEndpoint # Unset
                      /\ UsableHeaders(d)
      /\ r.error => EnvEndpoint # Unset /\ ChosenName = Unset
  <2>1. CASE r = TracerFrom(d) BY <1>0, <2>1, ActiveIs
  <2>2. CASE r = TryTracerFrom(d) /\ ~(d.sink # Unset /\ d.service = Unset)
    <3>1. r = TracerFrom(d) BY <2>2 DEF TryTracerFrom
    <3> QED BY <2>1, <3>1
  <2>3. CASE r = TryTracerFrom(d) /\ Home(d, EnvEndpoint) /\ d.sink # Unset
               /\ d.service = Unset
    <3>1. r = [by |-> stage, config |-> d, error |-> TRUE, active |-> FALSE]
      BY <2>3 DEF TryTracerFrom
    <3>2. ~r.active BY <3>1
    <3>3. EnvEndpoint # Unset BY <2>3, HomeIs
    <3> QED BY <1>0, <2>3, <3>2, <3>3
  <2> QED BY <2>1, <2>2, <2>3
<1>10. r.active => r.config.endpoint = ChosenEndpoint
  BY <1>0, <1>1 DEF Sited
<1>11. UsableHeaders(d) <=>
         ~\E i \in DOMAIN ChosenHeaders : ChosenHeaders[i].key = InvalidHeader
  BY <1>0 DEF UsableHeaders
<1>12. ActiveIffUsable'
  BY <1>4, <1>5, <1>9, <1>10, <1>11 DEF ActiveIffUsable
<1> QED BY <1>3, <1>6, <1>7, <1>8, <1>12 DEF IInv

\* A tracer of a Config of the program's own.
LEMMA ConfigStep ==
  ASSUME IInv, stage = "config", NEW r, Constructed(r),
         r = TracerFrom(own) \/ r = TryTracerFrom(own)
  PROVE  IInv'
<1>0. IsRecord(own) /\ SoundConfig(own) BY DEF IInv, Typed, TypeOK
<1>1. /\ r.by = "config"
      /\ r.config = own \/ r.config = Disabled(own)
      /\ r.active => own.endpoint # Unset
  BY <1>0, TracerIs
<1>2. SoundConfig(r.config) BY <1>0, <1>1, DisabledIs
<1>3. Typed' /\ TypeOK' /\ Fresh' /\ BuilderTold' /\ OffTracked'
  BY <1>2, ConstructKeeps
<1>4. tracer' = r BY DEF Constructed
<1>5. LastSetterWins' /\ AttributesOverlaid' /\ ActiveIffUsable'
  BY <1>1, <1>4 DEF LastSetterWins, AttributesOverlaid, ActiveIffUsable
<1>6. OffMeansOff'
  <2>1. r.active => TurnedOn BY <1>1 DEF IInv, OffTracked
  <2>2. TurnedOn' <=> TurnedOn
    BY ChosenKept DEF Constructed, Kept, TurnedOn, Offs, Sinks
  <2> QED BY <1>4, <2>1, <2>2 DEF OffMeansOff, TurnedOn, Offs, Sinks
<1> QED BY <1>3, <1>5, <1>6 DEF IInv

\* A Config that a setter may leave behind.
Settled(c) ==
  /\ IsRecord(c) /\ IsMap(c.attributes) /\ c.knobs = [k \in Knobs |-> c.knobs[k]]
  /\ SoundConfig(c)

\* What a setter changes.
SetterCall(field, value) ==
  /\ stage \in {"builder", "config"} /\ stage' = stage
  /\ Called(field, value)
  /\ env' = env /\ runtime' = runtime /\ tracer' = tracer

\* A setter preserves the invariant if it leaves what it should.
LEMMA SetterStep ==
  ASSUME IInv, NEW field, NEW value, SetterCall(field, value),
         Settled(own'), entries' \in Seq(Entries),
         knobs' = [k \in Knobs |-> knobs'[k]],
         \A k \in Knobs : knobs'[k] # Unset => knobs'[k] = own'.knobs[k],
         BuilderTold', OffTracked'
  PROVE  IInv'
<1>1. calls' \in Seq(Call)
  BY CallsNext DEF IInv, Typed, SetterCall
<1>2. Typed' BY <1>1 DEF IInv, Typed, SetterCall, Settled
<1>3. TypeOK' BY DEF IInv, TypeOK, SetterCall, Settled
<1>4. stage' \in {"builder", "config"} /\ tracer' = NoTracer
  BY DEF IInv, Fresh, SetterCall
<1>5. Fresh' BY <1>4 DEF Fresh
<1>6. ActiveIffUsable' /\ LastSetterWins' /\ AttributesOverlaid'
  BY <1>4 DEF ActiveIffUsable, LastSetterWins, AttributesOverlaid
<1>7. OffMeansOff' BY <1>4 DEF OffMeansOff, NoTracer
<1> QED BY <1>2, <1>3, <1>5, <1>6, <1>7 DEF IInv

\* A setter that leaves the endpoint keeps track of what turned a Config off.
LEMMA TrackKept ==
  ASSUME IInv, NEW field, NEW value, SetterCall(field, value), field # "disabled",
         own'.endpoint = own.endpoint
  PROVE  OffTracked'
<1>1. TurnedOn => TurnedOn' BY TurnedOnNext DEF IInv, Typed, SetterCall
<1> QED BY <1>1 DEF IInv, OffTracked, SetterCall

\* What the invariant says of the Config being set up.
LEMMA OwnSettled ==
  ASSUME IInv
  PROVE  /\ Settled(own) /\ knobs = [k \in Knobs |-> knobs[k]]
         /\ \A k \in Knobs : knobs[k] # Unset => knobs[k] = own.knobs[k]
         /\ entries \in Seq(Entries)
BY DEF IInv, Typed, TypeOK, Settled

\* What a builder was told, after a call.
LEMMA ToldAfter ==
  ASSUME IInv, NEW field, NEW value, SetterCall(field, value)
  PROVE  /\ LastName' = IF field = "service" /\ Given(value) THEN value ELSE LastName
         /\ LastSink' = IF field = "sink" /\ Given(value) THEN value ELSE LastSink
         /\ \A k : LastKnob(k)' = IF field = k /\ Counts(k, value) THEN value
                                                                  ELSE LastKnob(k)
         /\ \A f : LastList(f)' = IF field = f THEN value ELSE LastList(f)
BY ToldNext DEF IInv, Typed, SetterCall

\* with_service_name
LEMMA ServiceStep ==
  ASSUME IInv, NEW name \in Names, SetServiceName(name)
  PROVE  IInv'
<1>1. SetterCall("service", name)
  BY DEF SetServiceName, Set, SetterCall, Called, Fields, Values
<1>2. own' = WithServiceName(own, name) /\ knobs' = knobs /\ entries' = entries
  BY DEF SetServiceName, Set
<1>3. /\ Settled(own) /\ knobs = [k \in Knobs |-> knobs[k]]
      /\ \A k \in Knobs : knobs[k] # Unset => knobs[k] = own.knobs[k]
      /\ entries \in Seq(Entries)
  BY OwnSettled
<1>4. /\ IsRecord(own')
      /\ own'.service = IF Given(name) THEN name ELSE own.service
      /\ \A f \in ConfigFields \ {"service"} : own'[f] = own[f]
  BY <1>2, <1>3, WithServiceNameIs DEF Settled
<1>5. /\ own'.sink = own.sink /\ own'.endpoint = own.endpoint
      /\ own'.exporter = own.exporter /\ own'.disabled = own.disabled
      /\ own'.headers = own.headers /\ own'.prefixes = own.prefixes
      /\ own'.attributes = own.attributes /\ own'.knobs = own.knobs
  BY <1>4 DEF ConfigFields
<1>6. Settled(own') BY <1>3, <1>4, <1>5 DEF Settled, SoundConfig, Given
<1>7. OffTracked' BY <1>1, <1>5, TrackKept
<1>8. BuilderTold'
  <2> SUFFICES ASSUME stage \in {"start", "builder"} PROVE BuilderTold'
    BY <1>1 DEF BuilderTold, SetterCall
  <2>1. BuilderTold BY DEF IInv
  <2>2. /\ LastName' = IF Given(name) THEN name ELSE LastName
        /\ LastSink' = LastSink
        /\ \A k \in Knobs : LastKnob(k)' = LastKnob(k)
        /\ LastList("headers")' = LastList("headers")
        /\ LastList("prefixes")' = LastList("prefixes")
    BY <1>1, ToldAfter DEF Knobs
  <2> QED BY <1>1, <1>2, <1>4, <1>5, <2>1, <2>2 DEF BuilderTold, MaybeUri
<1> QED BY <1>1, <1>2, <1>3, <1>5, <1>6, <1>7, <1>8, SetterStep

\* with_sink_uri
LEMMA SinkStep ==
  ASSUME IInv, NEW uri \in Uris \cup {Blank}, SetSinkUri(uri)
  PROVE  IInv'
<1>1. SetterCall("sink", uri)
  BY DEF SetSinkUri, Set, SetterCall, Called, Fields, Values
<1>2. own' = WithSinkUri(own, uri) /\ knobs' = knobs /\ entries' = entries
  BY DEF SetSinkUri, Set
<1>3. /\ Settled(own) /\ knobs = [k \in Knobs |-> knobs[k]]
      /\ \A k \in Knobs : knobs[k] # Unset => knobs[k] = own.knobs[k]
      /\ entries \in Seq(Entries)
  BY OwnSettled
<1>4. MaybeUri(uri) BY DEF MaybeUri, Given, AnyUri
<1>5. /\ IsRecord(own') /\ Besides(own, own')
      /\ ~Given(uri) => own' = own
      /\ Given(uri) /\ Resolvable(uri) =>
           Housed(own', Exporters[uri.scheme], uri, "DefaultIfRoot")
      /\ Given(uri) /\ ~Resolvable(uri) => SinkOnly(own, own', uri)
  BY <1>2, <1>3, <1>4, WithSinkUriIs DEF Settled
<1>6. own'.sink = IF Given(uri) THEN uri ELSE own.sink
  BY <1>5 DEF Housed, SinkOnly
<1>7. SoundConfig(own')
  <2>1. CASE ~Given(uri) BY <1>3, <1>5, <2>1 DEF Settled
  <2>2. CASE Given(uri) /\ Resolvable(uri)
    <3>1. /\ Exporters[uri.scheme] \in Kinds /\ uri \in AnyUri
      BY <1>4, <2>2, ResolveIs DEF MaybeUri
    <3>2. /\ EndpointOf(Exporters[uri.scheme], uri, "DefaultIfRoot") # Unset
          /\ EndpointOf(Exporters[uri.scheme], uri, "DefaultIfRoot").kind =
               Exporters[uri.scheme]
      BY <3>1, EndpointGiven DEF Modes
    <3> QED BY <1>3, <1>5, <2>2, <3>2 DEF Settled, SoundConfig, Besides, Housed, Given
  <2>3. CASE Given(uri) /\ ~Resolvable(uri)
    BY <1>3, <1>5, <2>3 DEF Settled, SoundConfig, Besides, SinkOnly, Given
  <2> QED BY <2>1, <2>2, <2>3
<1>8. Settled(own') BY <1>3, <1>5, <1>7 DEF Settled, Besides
<1>9. OffTracked'
  <2>1. CASE Given(uri) /\ Resolvable(uri)
    <3>1. TurnedOn' BY <1>1, <2>1, TurnedOnNext DEF IInv, Typed, SetterCall
    <3> QED BY <3>1 DEF OffTracked
  <2>2. CASE ~(Given(uri) /\ Resolvable(uri))
    <3>1. own'.endpoint = own.endpoint BY <1>5, <2>2 DEF SinkOnly
    <3> QED BY <1>1, <3>1, TrackKept
  <2> QED BY <2>1, <2>2
<1>10. BuilderTold'
  <2> SUFFICES ASSUME stage \in {"start", "builder"} PROVE BuilderTold'
    BY <1>1 DEF BuilderTold, SetterCall
  <2>1. BuilderTold BY DEF IInv
  <2>2. /\ LastSink' = IF Given(uri) THEN uri ELSE LastSink
        /\ LastName' = LastName
        /\ \A k \in Knobs : LastKnob(k)' = LastKnob(k)
        /\ LastList("headers")' = LastList("headers")
        /\ LastList("prefixes")' = LastList("prefixes")
    BY <1>1, ToldAfter DEF Knobs
  <2> QED BY <1>1, <1>2, <1>4, <1>5, <1>6, <2>1, <2>2
          DEF BuilderTold, MaybeUri, Besides
<1> QED BY <1>1, <1>2, <1>3, <1>5, <1>8, <1>9, <1>10, SetterStep DEF Besides

\* with_headers
LEMMA HeadersStep ==
  ASSUME IInv, NEW list \in HeaderLists, SetHeaders(list)
  PROVE  IInv'
<1>1. SetterCall("headers", list)
  BY DEF SetHeaders, Set, SetterCall, Called, Fields, Values
<1>2. own' = WithHeaders(own, list) /\ knobs' = knobs /\ entries' = entries
  BY DEF SetHeaders, Set
<1>3. /\ Settled(own) /\ knobs = [k \in Knobs |-> knobs[k]]
      /\ \A k \in Knobs : knobs[k] # Unset => knobs[k] = own.knobs[k]
      /\ entries \in Seq(Entries)
  BY OwnSettled
<1>4. /\ IsRecord(own') /\ own'.headers = list
      /\ own'.service = own.service /\ own'.sink = own.sink
      /\ own'.endpoint = own.endpoint /\ own'.exporter = own.exporter
      /\ own'.disabled = own.disabled /\ own'.prefixes = own.prefixes
      /\ own'.attributes = own.attributes /\ own'.knobs = own.knobs
  BY <1>2, <1>3 DEF WithHeaders, Settled, IsRecord, ConfigFields
<1>5. Settled(own') BY <1>3, <1>4 DEF Settled, SoundConfig
<1>6. OffTracked' BY <1>1, <1>4, TrackKept
<1>7. BuilderTold'
  <2> SUFFICES ASSUME stage \in {"start", "builder"} PROVE BuilderTold'
    BY <1>1 DEF BuilderTold, SetterCall
  <2>1. BuilderTold /\ list # Unset BY ConfigAssumption DEF IInv
  <2>2. /\ LastName' = LastName /\ LastSink' = LastSink
        /\ \A k \in Knobs : LastKnob(k)' = LastKnob(k)
        /\ LastList("headers")' = list
        /\ LastList("prefixes")' = LastList("prefixes")
    BY <1>1, ToldAfter DEF Knobs
  <2> QED BY <1>1, <1>2, <1>4, <2>1, <2>2 DEF BuilderTold, MaybeUri
<1> QED BY <1>1, <1>2, <1>3, <1>4, <1>5, <1>6, <1>7, SetterStep

\* with_capture_header_prefixes
LEMMA PrefixesStep ==
  ASSUME IInv, NEW list \in PrefixLists, SetCaptureHeaderPrefixes(list)
  PROVE  IInv'
<1>1. SetterCall("prefixes", list)
  BY DEF SetCaptureHeaderPrefixes, Set, SetterCall, Called, Fields, Values
<1>2. /\ own' = WithCaptureHeaderPrefixes(own, list)
      /\ knobs' = knobs /\ entries' = entries
  BY DEF SetCaptureHeaderPrefixes, Set
<1>3. /\ Settled(own) /\ knobs = [k \in Knobs |-> knobs[k]]
      /\ \A k \in Knobs : knobs[k] # Unset => knobs[k] = own.knobs[k]
      /\ entries \in Seq(Entries)
  BY OwnSettled
<1>4. /\ IsRecord(own') /\ own'.prefixes = list
      /\ own'.service = own.service /\ own'.sink = own.sink
      /\ own'.endpoint = own.endpoint /\ own'.exporter = own.exporter
      /\ own'.disabled = own.disabled /\ own'.headers = own.headers
      /\ own'.attributes = own.attributes /\ own'.knobs = own.knobs
  BY <1>2, <1>3 DEF WithCaptureHeaderPrefixes, Settled, IsRecord, ConfigFields
<1>5. Settled(own') BY <1>3, <1>4 DEF Settled, SoundConfig
<1>6. OffTracked' BY <1>1, <1>4, TrackKept
<1>7. BuilderTold'
  <2> SUFFICES ASSUME stage \in {"start", "builder"} PROVE BuilderTold'
    BY <1>1 DEF BuilderTold, SetterCall
  <2>1. BuilderTold /\ list # Unset BY ConfigAssumption DEF IInv
  <2>2. /\ LastName' = LastName /\ LastSink' = LastSink
        /\ \A k \in Knobs : LastKnob(k)' = LastKnob(k)
        /\ LastList("headers")' = LastList("headers")
        /\ LastList("prefixes")' = list
    BY <1>1, ToldAfter DEF Knobs
  <2> QED BY <1>1, <1>2, <1>4, <2>1, <2>2 DEF BuilderTold, MaybeUri
<1> QED BY <1>1, <1>2, <1>3, <1>4, <1>5, <1>6, <1>7, SetterStep

\* with_resource_attributes
LEMMA AttributesStep ==
  ASSUME IInv, NEW list \in AttributeLists, SetResourceAttributes(list)
  PROVE  IInv'
<1>1. SetterCall("attributes", list)
  BY DEF SetResourceAttributes, Set, SetterCall, Called, Fields, Values
<1>2. /\ own' = WithResourceAttributes(own, list)
      /\ knobs' = knobs /\ entries' = entries \o list
  BY DEF SetResourceAttributes, Set
<1>3. /\ Settled(own) /\ knobs = [k \in Knobs |-> knobs[k]]
      /\ \A k \in Knobs : knobs[k] # Unset => knobs[k] = own.knobs[k]
      /\ entries \in Seq(Entries)
  BY OwnSettled
<1>4. list \in Seq(Entries) BY ListsAre
<1> DEFINE name == IF own.service # Unset THEN own.service ELSE NamedIn(list)
           made == Over(AttributesOf(list), own.attributes)
<1>5. own' = Filled(own, name, made)
  BY <1>2, <1>3, <1>4, ResourceAttributesAre DEF Settled, SoundConfig
<1>6. /\ IsMap(AttributesOf(list)) /\ "service.name" \notin DOMAIN AttributesOf(list)
      /\ NamedIn(list) = Unset \/ Given(NamedIn(list))
      /\ NamedIn(entries) = Unset \/ Given(NamedIn(entries))
  BY <1>3, <1>4, EntriesSound
<1>7. IsMap(made) /\ "service.name" \notin DOMAIN made
  <2>1. IsMap(made) /\ DOMAIN made = DOMAIN AttributesOf(list) \cup DOMAIN own.attributes
    BY OverMap
  <2>2. "service.name" \notin DOMAIN own.attributes BY <1>3 DEF Settled, SoundConfig
  <2> HIDE DEF made
  <2> QED BY <1>6, <2>1, <2>2
<1>8. Unset # Blank BY ConfigAssumption
<1>9. name # Blank
  BY <1>3, <1>6, <1>8 DEF Settled, SoundConfig, Given
<1> HIDE DEF name, made
<1>10. /\ IsRecord(own') /\ own'.service = name /\ own'.attributes = made
       /\ \A f \in ConfigFields \ {"service", "attributes"} : own'[f] = own[f]
  BY <1>3, <1>5, FilledIs DEF Settled
<1>11. /\ own'.sink = own.sink /\ own'.endpoint = own.endpoint
       /\ own'.exporter = own.exporter /\ own'.disabled = own.disabled
       /\ own'.headers = own.headers /\ own'.prefixes = own.prefixes
       /\ own'.knobs = own.knobs
  BY <1>10 DEF ConfigFields
<1>12. Settled(own') BY <1>3, <1>7, <1>9, <1>10, <1>11 DEF Settled, SoundConfig
<1>13. OffTracked' BY <1>1, <1>11, TrackKept
<1>14. /\ entries' \in Seq(Entries)
       /\ NamedIn(entries') = IF NamedIn(entries) # Unset THEN NamedIn(entries)
                                                          ELSE NamedIn(list)
       /\ AttributesOf(entries') = Over(AttributesOf(list), AttributesOf(entries))
  BY <1>2, <1>3, <1>4, ConcatEntries
<1>15. BuilderTold'
  <2> SUFFICES ASSUME stage \in {"start", "builder"} PROVE BuilderTold'
    BY <1>1 DEF BuilderTold, SetterCall
  <2>1. BuilderTold BY DEF IInv
  <2>2. /\ LastName' = LastName /\ LastSink' = LastSink
        /\ \A k \in Knobs : LastKnob(k)' = LastKnob(k)
        /\ LastList("headers")' = LastList("headers")
        /\ LastList("prefixes")' = LastList("prefixes")
    BY <1>1, ToldAfter DEF Knobs
  <2>3. own'.service = IF Given(LastName) THEN LastName ELSE NamedIn(entries')
    BY <1>6, <1>10, <1>14, <2>1 DEF BuilderTold, Given, name
  <2>4. own'.attributes = AttributesOf(entries')
    BY <1>10, <1>14, <2>1 DEF BuilderTold, made
  <2> QED BY <1>1, <1>2, <1>11, <2>1, <2>2, <2>3, <2>4 DEF BuilderTold, MaybeUri
<1> QED BY <1>1, <1>2, <1>3, <1>11, <1>12, <1>13, <1>14, <1>15, SetterStep

\* with_max_batch_size, with_schedule_delay and with_shutdown_timeout
LEMMA KnobStep ==
  ASSUME IInv, NEW k \in Knobs, NEW v \in KnobValues, SetKnob(k, v)
  PROVE  IInv'
<1>1. SetterCall(k, v) /\ stage = "builder" /\ entries' = entries
  BY DEF SetKnob, Set, SetterCall, Called, Fields, Values
<1>2. /\ Settled(own) /\ knobs = [j \in Knobs |-> knobs[j]]
      /\ \A j \in Knobs : knobs[j] # Unset => knobs[j] = own.knobs[j]
      /\ entries \in Seq(Entries)
  BY OwnSettled
<1>3. /\ ValidKnob(k, v) <=> Counts(k, v)
      /\ Counts(k, v) => v \in KnobRange /\ v # Unset
  BY KnobCounts, ConfigAssumption
<1>4. BuilderTold BY DEF IInv
<1>5. /\ LastName' = LastName /\ LastSink' = LastSink
      /\ \A j \in Knobs : LastKnob(j)' = IF j = k /\ Counts(k, v) THEN v ELSE LastKnob(j)
      /\ LastList("headers")' = LastList("headers")
      /\ LastList("prefixes")' = LastList("prefixes")
  <2>1. k \notin {"service", "sink", "headers", "prefixes"} BY DEF Knobs
  <2> QED BY <1>1, <2>1, ToldAfter
<1>6. CASE Counts(k, v)
  <2>1. own' = WithKnob(own, k, v) /\ knobs' = [knobs EXCEPT ![k] = v]
    BY <1>3, <1>6 DEF SetKnob, Set
  <2> DEFINE turns == [own.knobs EXCEPT ![k] = v]
  <2>2. /\ turns = [j \in Knobs |-> turns[j]]
        /\ turns[k] = v /\ \A j \in Knobs \ {k} : turns[j] = own.knobs[j]
    BY <1>2 DEF Settled
  <2>3. own' = [own EXCEPT !.knobs = turns] BY <2>1 DEF WithKnob
  <2> HIDE DEF turns
  <2>4. /\ IsRecord(own') /\ own'.knobs = turns
        /\ own'.service = own.service /\ own'.sink = own.sink
        /\ own'.endpoint = own.endpoint /\ own'.exporter = own.exporter
        /\ own'.disabled = own.disabled /\ own'.headers = own.headers
        /\ own'.prefixes = own.prefixes /\ own'.attributes = own.attributes
    BY <1>2, <2>3 DEF Settled, IsRecord, ConfigFields
  <2>5. \A j \in Knobs : turns[j] \in KnobRange
    BY <1>2, <1>3, <1>6, <2>2 DEF Settled, SoundConfig, KnobRange
  <2>6. Settled(own')
    BY <1>2, <2>2, <2>4, <2>5 DEF Settled, SoundConfig, KnobRange
  <2>7. OffTracked' BY <1>1 DEF OffTracked, SetterCall
  <2>8. /\ knobs' = [j \in Knobs |-> knobs'[j]]
        /\ knobs'[k] = v /\ \A j \in Knobs \ {k} : knobs'[j] = knobs[j]
    BY <1>2, <2>1
  <2>9. \A j \in Knobs : knobs'[j] # Unset => knobs'[j] = own'.knobs[j]
    BY <1>2, <2>2, <2>4, <2>8
  <2>10. \A j \in Knobs : knobs'[j] = LastKnob(j)'
    BY <1>1, <1>4, <1>5, <1>6, <2>8 DEF BuilderTold
  <2>11. BuilderTold'
    BY <1>1, <1>4, <1>5, <2>4, <2>10 DEF BuilderTold, MaybeUri
  <2> QED BY <1>1, <1>2, <2>6, <2>7, <2>8, <2>9, <2>11, SetterStep
<1>7. CASE ~Counts(k, v)
  <2>1. own' = own /\ knobs' = knobs BY <1>3, <1>7 DEF SetKnob, Set
  <2>2. OffTracked' BY <1>1 DEF OffTracked, SetterCall
  <2>3. BuilderTold' BY <1>1, <1>4, <1>5, <1>7, <2>1 DEF BuilderTold, MaybeUri
  <2> QED BY <1>1, <1>2, <2>1, <2>2, <2>3, SetterStep
<1> QED BY <1>6, <1>7

\* Config::disabled
LEMMA DisabledStep ==
  ASSUME IInv, SetDisabled
  PROVE  IInv'
<1>1. SetterCall("disabled", Unset) /\ stage = "config"
  BY DEF SetDisabled, Set, SetterCall, Called, Fields, Values
<1>2. own' = Disabled(own) /\ knobs' = knobs /\ entries' = entries
  BY DEF SetDisabled, Set
<1>3. /\ Settled(own) /\ knobs = [k \in Knobs |-> knobs[k]]
      /\ \A k \in Knobs : knobs[k] # Unset => knobs[k] = own.knobs[k]
      /\ entries \in Seq(Entries)
  BY OwnSettled
<1>4. IsRecord(own') /\ Besides(own, own') /\ Homeless(own') /\ SoundConfig(own')
  BY <1>2, <1>3, DisabledIs DEF Settled
<1>5. Settled(own') BY <1>3, <1>4 DEF Settled, Besides
<1>6. OffTracked' BY <1>4 DEF OffTracked, Homeless
<1>7. BuilderTold' BY <1>1 DEF BuilderTold, SetterCall
<1>8. own'.knobs = own.knobs BY <1>4 DEF Besides
<1> QED BY <1>1, <1>2, <1>3, <1>5, <1>6, <1>7, <1>8, SetterStep

\* TracerBuilder::new, and the Config that a program sets up itself.
LEMMA BeginStep ==
  ASSUME IInv, NewBuilder \/ NewConfig
  PROVE  IInv'
<1>1. /\ stage = "start" /\ stage' \in {"builder", "config"}
      /\ knobs' = knobs /\ tracer' = tracer /\ Kept
  BY DEF NewBuilder, NewConfig, Kept
<1>2. /\ calls = <<>> /\ entries = <<>> /\ own = Default /\ tracer = NoTracer
  BY <1>1 DEF IInv, Fresh
<1>3. /\ LastName = Unset /\ LastSink = Unset
      /\ \A k : LastKnob(k) = Unset
      /\ Offs = {}
  BY <1>2, NothingTold
<1>4. /\ Settled(own) /\ knobs = [k \in Knobs |-> knobs[k]]
      /\ entries \in Seq(Entries)
  BY OwnSettled
<1>5. \A k \in Knobs : knobs[k] = Unset BY <1>1, <1>3 DEF IInv, BuilderTold
<1>6. /\ own' = own \/ own' = FromEnv(env)
      /\ stage' = "builder" => own' = own
      /\ own'.endpoint # Unset => EnvEndpoint # Unset
      /\ Settled(own')
  <2>1. CASE own' = own
    <3>1. own'.endpoint = Unset BY <1>2, <2>1, DefaultIs DEF Homeless
    <3> QED BY <1>4, <2>1, <3>1
  <2>2. CASE NewConfig /\ own' = FromEnv(env)
    <3>1. /\ IsRecord(own') /\ IsMap(own'.attributes) /\ Home(own', EnvEndpoint)
          /\ own'.knobs = [k \in Knobs |-> IF Counts(k, env.knobs[k]) THEN env.knobs[k]
                                                                  ELSE Default.knobs[k]]
      BY <2>2, FromEnvIs DEF IInv, Typed
    <3>2. SoundConfig(own') BY <1>1, <2>2, EnvChosen DEF IInv, Chosen
    <3>3. own'.endpoint = EnvEndpoint BY <3>1, HomeIs DEF Sited
    <3>4. own'.knobs = [k \in Knobs |-> own'.knobs[k]] BY <3>1
    <3> QED BY <2>2, <3>1, <3>2, <3>3, <3>4 DEF Settled, NewConfig
  <2>3. CASE NewConfig /\ own' = Default BY <1>2, <2>1, <2>3
  <2>4. CASE NewBuilder BY <2>1, <2>4 DEF NewBuilder
  <2> QED BY <2>2, <2>3, <2>4 DEF NewConfig
<1>7. Typed' BY <1>1, <1>4, <1>6 DEF IInv, Typed, Kept, Settled
<1>8. TypeOK' BY <1>1, <1>5, <1>6 DEF IInv, TypeOK, Settled
<1>9. Fresh' BY <1>1, <1>2 DEF Fresh
<1>10. BuilderTold'
  <2>1. /\ LastName' = LastName /\ LastSink' = LastSink
        /\ \A k : LastKnob(k)' = LastKnob(k)
        /\ \A f : LastList(f)' = LastList(f)
    BY <1>1 DEF Kept, LastName, LastSink, LastKnob, LastList, CallsOf
  <2> QED BY <1>1, <1>6, <2>1 DEF IInv, BuilderTold, Kept, MaybeUri
<1>11. OffTracked'
  <2>1. Offs' = {} /\ EnvEndpoint' = EnvEndpoint
    BY <1>1, <1>3, ChosenKept DEF Kept, Offs
  <2> QED BY <1>6, <2>1 DEF OffTracked, TurnedOn
<1>12. ActiveIffUsable' /\ LastSetterWins' /\ AttributesOverlaid'
  BY <1>1 DEF ActiveIffUsable, LastSetterWins, AttributesOverlaid
<1>13. OffMeansOff' BY <1>1, <1>2 DEF OffMeansOff, NoTracer
<1> QED BY <1>7, <1>8, <1>9, <1>10, <1>11, <1>12, <1>13 DEF IInv

\* The constructors.
LEMMA ConstructorStep ==
  ASSUME IInv, New \/ TryNew \/ FromConfig \/ TryFromConfig \/ Build
  PROVE  IInv'
<1>1. CASE New
  <2>1. stage = "start" /\ Constructed(TracerFrom(FromEnv(env)))
    BY <1>1 DEF New, Construct, Constructed, Kept
  <2>2. Chosen(FromEnv(env)) BY <2>1, EnvChosen DEF IInv
  <2> QED BY <2>1, <2>2, BuiltStep
<1>2. CASE TryNew
  <2>1. stage = "start" /\ Constructed(TryTracerFrom(FromEnv(env)))
    BY <1>2 DEF TryNew, Construct, Constructed, Kept
  <2>2. Chosen(FromEnv(env)) /\ Home(FromEnv(env), EnvEndpoint)
    BY <2>1, EnvChosen DEF IInv
  <2> QED BY <2>1, <2>2, BuiltStep
<1>3. CASE FromConfig
  <2>1. stage = "config" /\ Constructed(TracerFrom(own))
    BY <1>3 DEF FromConfig, Construct, Constructed, Kept
  <2> QED BY <2>1, ConfigStep
<1>4. CASE TryFromConfig
  <2>1. stage = "config" /\ Constructed(TryTracerFrom(own))
    BY <1>4 DEF TryFromConfig, Construct, Constructed, Kept
  <2> QED BY <2>1, ConfigStep
<1>5. CASE Build
  <2> DEFINE d == Overlay(FromEnv(env), own, knobs)
  <2>1. stage = "builder" /\ Constructed(TracerFrom(d))
    BY <1>5 DEF Build, Construct, Constructed, Kept
  <2>2. Chosen(d) BY <2>1, OverlayChosen DEF IInv
  <2> HIDE DEF d
  <2> QED BY <2>1, <2>2, BuiltStep
<1> QED BY <1>1, <1>2, <1>3, <1>4, <1>5

\* The initial states satisfy the invariant.
LEMMA InitInv == Init => IInv
<1> SUFFICES ASSUME Init PROVE IInv
  OBVIOUS
<1>1. /\ env \in Environments /\ runtime \in BOOLEAN /\ stage = "start" /\ own = Default
      /\ knobs = [k \in Knobs |-> Unset] /\ calls = <<>> /\ entries = <<>>
      /\ tracer = NoTracer
  BY DEF Init
<1>2. /\ IsRecord(Default) /\ Homeless(Default)
      /\ Default.service = Unset /\ Default.headers = <<>> /\ Default.prefixes = <<>>
      /\ IsMap(Default.attributes) /\ DOMAIN Default.attributes = {}
      /\ Default.knobs = [k \in Knobs |-> Default.knobs[k]]
      /\ \A k \in Knobs : Default.knobs[k] \in KnobRange
  BY DefaultIs
<1>3. Typed BY <1>1, <1>2, EmptySeq DEF Typed
<1>4. SoundConfig(Default)
  BY <1>2, ConfigAssumption DEF SoundConfig, Homeless, KnobRange
<1>5. TypeOK BY <1>1, <1>4 DEF TypeOK, NoTracer
<1>6. Fresh BY <1>1 DEF Fresh
<1>7. /\ LastName = Unset /\ LastSink = Unset
      /\ \A k : LastKnob(k) = Unset
      /\ \A f : LastList(f) = Unset
      /\ NamedIn(entries) = Unset
      /\ AttributesOf(entries) = Default.attributes
  BY <1>1, NothingTold
<1>8. BuilderTold
  BY <1>1, <1>2, <1>7, ConfigAssumption DEF BuilderTold, MaybeUri, Given, Homeless
<1>9. OffTracked BY <1>1 DEF OffTracked
<1>10. ActiveIffUsable /\ LastSetterWins /\ AttributesOverlaid /\ OffMeansOff
  BY <1>1 DEF ActiveIffUsable, LastSetterWins, AttributesOverlaid, OffMeansOff, NoTracer
<1> QED BY <1>3, <1>5, <1>6, <1>8, <1>9, <1>10 DEF IInv

\* Every step preserves the invariant.
LEMMA NextInv == IInv /\ [Next]_vars => IInv'
<1> SUFFICES ASSUME IInv, [Next]_vars PROVE IInv'
  OBVIOUS
<1>1. CASE NewBuilder \/ NewConfig BY <1>1, BeginStep
<1>2. ASSUME NEW name \in Names, SetServiceName(name) PROVE IInv'
  BY <1>2, ServiceStep
<1>3. ASSUME NEW uri \in Uris \cup {Blank}, SetSinkUri(uri) PROVE IInv'
  BY <1>3, SinkStep
<1>4. ASSUME NEW list \in HeaderLists, SetHeaders(list) PROVE IInv'
  BY <1>4, HeadersStep
<1>5. ASSUME NEW list \in PrefixLists, SetCaptureHeaderPrefixes(list) PROVE IInv'
  BY <1>5, PrefixesStep
<1>6. ASSUME NEW list \in AttributeLists, SetResourceAttributes(list) PROVE IInv'
  BY <1>6, AttributesStep
<1>7. ASSUME NEW k \in Knobs, NEW v \in KnobValues, SetKnob(k, v) PROVE IInv'
  BY <1>7, KnobStep
<1>8. CASE SetDisabled BY <1>8, DisabledStep
<1>9. CASE New \/ TryNew \/ FromConfig \/ TryFromConfig \/ Build
  BY <1>9, ConstructorStep
<1>10. CASE UNCHANGED vars
  <2>1. /\ env' = env /\ runtime' = runtime /\ stage' = stage /\ own' = own
        /\ knobs' = knobs /\ tracer' = tracer /\ Kept
    BY <1>10 DEF vars, Kept
  <2>2. /\ LastName' = LastName /\ LastSink' = LastSink
        /\ \A k : LastKnob(k)' = LastKnob(k)
        /\ \A f : LastList(f)' = LastList(f)
    BY <2>1 DEF Kept, LastName, LastSink, LastKnob, LastList, CallsOf
  <2>3. /\ ChosenName' = ChosenName /\ ChosenHeaders' = ChosenHeaders
        /\ ChosenPrefixes' = ChosenPrefixes /\ ChosenEndpoint' = ChosenEndpoint
        /\ EnvEndpoint' = EnvEndpoint
        /\ \A k : ChosenKnob(k)' = ChosenKnob(k)
        /\ AttributesOf(EnvEntries \o entries)' = AttributesOf(EnvEntries \o entries)
    BY <2>1, ChosenKept
  <2>4. Typed' BY <2>1 DEF IInv, Typed, Kept
  <2>5. TypeOK' BY <2>1 DEF IInv, TypeOK
  <2>6. Fresh' BY <2>1 DEF IInv, Fresh, Kept
  <2>7. BuilderTold' BY <2>1, <2>2 DEF IInv, BuilderTold, Kept, MaybeUri
  <2>8. OffTracked'
    BY <2>1, <2>3 DEF IInv, OffTracked, TurnedOn, Offs, Sinks, Kept
  <2>9. ActiveIffUsable' BY <2>1, <2>3 DEF IInv, ActiveIffUsable
  <2>10. LastSetterWins' BY <2>1, <2>3 DEF IInv, LastSetterWins
  <2>11. AttributesOverlaid' BY <2>1, <2>3 DEF IInv, AttributesOverlaid
  <2>12. OffMeansOff' BY <2>1, <2>3 DEF IInv, OffMeansOff, Kept
  <2> QED BY <2>4, <2>5, <2>6, <2>7, <2>8, <2>9, <2>10, <2>11, <2>12 DEF IInv
<1> QED BY <1>1, <1>2, <1>3, <1>4, <1>5, <1>6, <1>7, <1>8, <1>9, <1>10 DEF Next

\* The invariant holds in every reachable state.
LEMMA Invariant == Spec => []IInv
<1> QED BY InitInv, NextInv, PTL DEF Spec

-----------------------------------------------------------------------------

\* Whatever the environment and the calls, every Config is sound: its exporter
\* is that of its endpoint and its limits are ones that count.
THEOREM TypeCorrect == Spec => []TypeOK
<1>1. IInv => TypeOK BY DEF IInv
<1> QED BY <1>1, Invariant, PTL

\* A tracer of the environment or of a builder exports exactly when it can, and
\* to the sink that was chosen.
THEOREM ActiveCorrect == Spec => []ActiveIffUsable
<1>1. IInv => ActiveIffUsable BY DEF IInv
<1> QED BY <1>1, Invariant, PTL

\* The name, the headers, the prefixes and the limits of a tracer are those of
\* the last valid call, else the environment's, else the defaults.
THEOREM LastSetterCorrect == Spec => []LastSetterWins
<1>1. IInv => LastSetterWins BY DEF IInv
<1> QED BY <1>1, Invariant, PTL

\* The loop of with_resource_attributes, run over the pairs of the environment
\* and over any number of calls, leaves the last value of each key.
THEOREM AttributesCorrect == Spec => []AttributesOverlaid
<1>1. IInv => AttributesOverlaid BY DEF IInv
<1> QED BY <1>1, Invariant, PTL

\* A Config that was turned off exports only to a sink it was given after that.
THEOREM OffCorrect == Spec => []OffMeansOff
<1>1. IInv => OffMeansOff BY DEF IInv
<1> QED BY <1>1, Invariant, PTL
=============================================================================
