------------------------ MODULE RequestTracingProofs ------------------------
(* Proofs about requests through the middleware and the spans of their      *)
(* handlers, for every number of threads, requests and spans and every      *)
(* bound of the model.                                                      *)
EXTENDS RequestTracing, SequenceTheorems, FiniteSetTheorems,
        WellFoundedInduction, NaturalsInduction, TLAPS

USE TracingAssumption

-----------------------------------------------------------------------------
(* The inductive invariant.                                                 *)

Fields  == {"status_code", "otel_error", "error_type"}
AnySpan == Spans \cup {NoSpan}
AnyBy   == Requests \cup {Program}

Entry == [span : AnySpan, by : AnyBy]

Node ==
  [up : AnySpan, parent : AnySpan \cup {Remote(r) : r \in Requests},
   trace : Traces, sampled : BOOLEAN, fields : SUBSET Fields, by : AnyBy,
   alone : BOOLEAN]

Request ==
  [state : {"idle", "pending", "polling", "recording", "over", "dropped"},
   root : AnySpan, inbound : {"none", "sampled", "unsampled"},
   outcome : {"none", "ok", "serverError", "failed"}, todo : Seq(Fields),
   shadowed : BOOLEAN]

Typed ==
  /\ active \in BOOLEAN
  /\ state \in [Spans -> {"unborn", "open", "closed"}]
  /\ node \in [Spans -> Node]
  /\ handles \in [Spans -> 0..(MaxHeld + 1)]
  /\ stack \in [Threads -> Seq(Entry)]
  /\ request \in [Requests -> Request]
  /\ sent \in Seq(Spans)

\* What has a handle, is entered or has an open child is open.
KeptOpen ==
  /\ \A s \in Spans : handles[s] > 0 => state[s] = "open"
  /\ \A t \in Threads : \A i \in DOMAIN stack[t] :
       stack[t][i].span # NoSpan => state[stack[t][i].span] = "open"
  /\ \A s \in Spans : state[s] = "open" /\ node[s].up # NoSpan
                        => state[node[s].up] = "open"

\* A root span belongs to one request, whose future holds it until it is
\* dropped.
RootsOwned ==
  /\ \A r \in Requests : request[r].state = "idle" => request[r].root = NoSpan
  /\ \A r \in Requests : request[r].root # NoSpan =>
       /\ state[request[r].root] # "unborn"
       /\ request[r].state # "dropped" => handles[request[r].root] > 0
  /\ \A q, r \in Requests :
       request[q].root = request[r].root /\ request[r].root # NoSpan => q = r

\* A poll is on one thread, inside the root of its request; what the program
\* enters inside a poll is the root or was opened by that request.
PollsNested ==
  /\ \A t \in Threads : \A i \in DOMAIN stack[t] :
       LET r == stack[t][i].by IN
       r # Program => /\ request[r].state \in {"polling", "recording"}
                      /\ stack[t][i].span = request[r].root
  /\ \A t, u \in Threads : \A i \in DOMAIN stack[t], j \in DOMAIN stack[u] :
       stack[t][i].by = stack[u][j].by /\ stack[t][i].by # Program
         => t = u /\ i = j
  /\ \A t \in Threads : \A i, j \in DOMAIN stack[t] :
       LET r == stack[t][i].by
           s == stack[t][j].span
       IN r # Program /\ i < j /\ (\A k \in (i + 1)..j : stack[t][k].by = Program)
            => s # NoSpan /\ (s = request[r].root \/ node[s].by = r)

\* A poll that is not shadowed is the first entry of its root on the thread.
PollsCount ==
  \A t \in Threads : \A i \in DOMAIN stack[t] :
    LET r == stack[t][i].by IN
    r # Program /\ request[r].root # NoSpan /\ ~request[r].shadowed =>
      \A j \in 1..(i - 1) : stack[t][j].span # request[r].root

\* Traces, parents and who opened what.
Lineage ==
  /\ TracesSeparate
  /\ InboundAdopted
  /\ \A s \in Spans :
       /\ node[s].parent \in Spans => state[node[s].parent] # "unborn"
       /\ node[s].up # NoSpan => state[node[s].up] # "unborn"
       /\ node[s].by # Program => request[node[s].by].state # "idle"

\* What a root carries, and what its request still has to record, is its
\* outcome.
OutcomeCarried ==
  \A r \in Requests :
    /\ request[r].state \in {"idle", "pending", "polling"} => request[r].outcome = "none"
    /\ request[r].state # "recording" => request[r].todo = <<>>
    /\ request[r].root # NoSpan =>
         node[request[r].root].fields \cup Range(request[r].todo) =
           IF request[r].outcome = "none" THEN {}
           ELSE Range(FieldsOf(request[r].outcome))

\* What was exported is closed, and was closed in the order of the registry.
SentClosed ==
  /\ Range(sent) \subseteq {s \in Spans : state[s] = "closed"}
  /\ ChildrenFirst

IInv ==
  Typed /\ KeptOpen /\ RootsOwned /\ PollsNested /\ PollsCount /\ Lineage
        /\ OutcomeCarried /\ SentClosed

-----------------------------------------------------------------------------
(* The operators of the registry.                                           *)

\* A set of positions of a sequence that is not empty has a last one.
LEMMA LastPosition ==
  ASSUME NEW n \in Nat, NEW S, S \subseteq 1..n, S # {}
  PROVE  \E i \in S : \A j \in S : j <= i
<1> DEFINE T == {n - i : i \in S}
<1>1. T \subseteq Nat /\ T # {}
  <2>1. \A i \in S : i \in 1..n OBVIOUS
  <2>2. \A i \in S : n - i \in Nat BY <2>1
  <2> QED BY <2>2
<1>2. PICK x \in T : \A y \in T : ~ (<<y, x>> \in OpToRel(<, Nat))
  BY <1>1, NatLessThanWellFounded, WFMin
<1>3. \A y \in T : ~ (y < x)
  BY <1>1, <1>2 DEF OpToRel
<1>4. PICK i \in S : x = n - i OBVIOUS
<1>5. \A j \in S : j <= i
  BY <1>3, <1>4
<1> QED BY <1>5

\* The stack of a thread.
LEMMA StackType ==
  ASSUME Typed, NEW t \in Threads
  PROVE  /\ stack[t] \in Seq(Entry) /\ Len(stack[t]) \in Nat
         /\ DOMAIN stack[t] = 1..Len(stack[t])
         /\ \A i \in DOMAIN stack[t] : /\ stack[t][i] \in Entry
                                        /\ stack[t][i].span \in AnySpan
                                        /\ stack[t][i].by \in AnyBy
<1>1. stack[t] \in Seq(Entry) BY DEF Typed
<1>2. /\ Len(stack[t]) \in Nat /\ DOMAIN stack[t] = 1..Len(stack[t])
      /\ \A i \in DOMAIN stack[t] : stack[t][i] \in Entry
  BY <1>1, LenProperties, ElementOfSeq
<1> QED BY <1>1, <1>2 DEF Entry

\* Current is the span of the last entry that counts, or none.
LEMMA CurrentIs ==
  ASSUME Typed, NEW t \in Threads
  PROVE  \/ Entered(t) = {} /\ Current(t) = NoSpan
         \/ \E i \in Entered(t) : /\ \A j \in Entered(t) : j <= i
                                 /\ Current(t) = stack[t][i].span
                                 /\ Current(t) \in Spans
<1>1. CASE Entered(t) = {} BY <1>1 DEF Current
<1>2. CASE Entered(t) # {}
  <2> DEFINE i == CHOOSE i \in Entered(t) : \A j \in Entered(t) : j <= i
  <2>1. Entered(t) \subseteq 1..Len(stack[t]) /\ Len(stack[t]) \in Nat
    BY StackType DEF Entered
  <2>2. \E k \in Entered(t) : \A j \in Entered(t) : j <= k
    BY <1>2, <2>1, LastPosition
  <2>3. i \in Entered(t) /\ \A j \in Entered(t) : j <= i
    BY <2>2
  <2>4. Current(t) = stack[t][i].span BY <1>2 DEF Current
  <2>5. stack[t][i].span \in Spans
    BY <2>3, StackType DEF Entered, AnySpan
  <2> QED BY <2>3, <2>4, <2>5
<1> QED BY <1>1, <1>2

\* A span that is current is open.
LEMMA CurrentOpen ==
  ASSUME Typed, KeptOpen, NEW t \in Threads
  PROVE  /\ Current(t) \in AnySpan
         /\ Current(t) # NoSpan => state[Current(t)] = "open"
BY CurrentIs DEF KeptOpen, Entered, AnySpan

\* The innermost request polled on a thread is the one of the last entry that
\* is not the program's; if there is none, all entries are the program's.
LEMMA PolledIs ==
  ASSUME Typed, PollsNested, NEW t \in Threads
  PROVE  \/ /\ Polled(t) = Program
            /\ \A i \in DOMAIN stack[t] : stack[t][i].by = Program
         \/ /\ Polled(t) \in Requests
            /\ request[Polled(t)].state \in {"polling", "recording"}
            /\ \E i \in DOMAIN stack[t] :
                 /\ stack[t][i].by = Polled(t)
                 /\ \A j \in (i + 1)..Len(stack[t]) : stack[t][j].by = Program
<1> DEFINE polls == {i \in DOMAIN stack[t] :
                       /\ stack[t][i].by # Program
                       /\ request[stack[t][i].by].state \in {"polling", "recording"}}
<1>1. polls = {i \in DOMAIN stack[t] : stack[t][i].by # Program}
  BY DEF PollsNested
<1>2. CASE polls = {}
  <2>1. Polled(t) = Program BY <1>2 DEF Polled
  <2> QED BY <1>1, <1>2, <2>1
<1>3. CASE polls # {}
  <2> DEFINE i == CHOOSE i \in polls : \A j \in polls : j <= i
  <2>1. polls \subseteq 1..Len(stack[t]) /\ Len(stack[t]) \in Nat
    BY StackType
  <2>2. \E k \in polls : \A j \in polls : j <= k
    BY <1>3, <2>1, LastPosition
  <2>3. i \in polls /\ \A j \in polls : j <= i
    BY <2>2
  <2>4. Polled(t) = stack[t][i].by BY <1>3 DEF Polled
  <2>5. \A j \in (i + 1)..Len(stack[t]) : stack[t][j].by = Program
    <3> HIDE DEF i
    <3> TAKE j \in (i + 1)..Len(stack[t])
    <3>1. i \in 1..Len(stack[t]) BY <2>1, <2>3
    <3>2. j \in 1..Len(stack[t]) /\ ~(j <= i) BY <2>1, <3>1
    <3>3. j \notin polls BY <2>3, <3>2
    <3> QED BY <1>1, <3>2, <3>3, StackType
  <2>6. stack[t][i].by \in Requests BY <2>3, StackType DEF AnyBy
  <2> QED BY <2>3, <2>4, <2>5, <2>6
<1> QED BY <1>2, <1>3

\* A future is one handle: no two own the same root.
LEMMA OwnedIs ==
  ASSUME RootsOwned, NEW s \in Spans
  PROVE  /\ Owned(s) \in {0, 1}
         /\ Owned(s) = 1 <=> \E r \in Requests : /\ request[r].root = s
                                               /\ request[r].state # "dropped"
<1> DEFINE O == {r \in Requests : request[r].root = s /\ request[r].state # "dropped"}
<1>1. CASE O = {}
  <2>1. Cardinality(O) = 0 BY <1>1, FS_EmptySet
  <2>2. Owned(s) = 0 BY <2>1 DEF Owned
  <2> QED BY <1>1, <2>2
<1>2. CASE O # {}
  <2>1. PICK r \in O : TRUE BY <1>2
  <2>2. O = {r} BY <2>1 DEF RootsOwned
  <2>3. Cardinality(O) = 1 BY <2>2, FS_Singleton
  <2>4. Owned(s) = 1 BY <2>3 DEF Owned
  <2> QED BY <2>1, <2>4
<1> QED BY <1>1, <1>2

\* What the program holds is what is left of the handles, and a span it holds
\* or that its request holds is open.
LEMMA HeldIs ==
  ASSUME Typed, RootsOwned, NEW s \in Spans
  PROVE  /\ handles[s] \in Nat /\ Held(s) \in Nat
         /\ Held(s) = handles[s] - Owned(s) /\ Owned(s) \in {0, 1}
<1>1. handles[s] \in Nat BY DEF Typed
<1>2. Owned(s) = 1 => handles[s] > 0
  BY OwnedIs DEF RootsOwned
<1> QED BY <1>1, <1>2, OwnedIs DEF Held

\* What a thread may use is open.
LEMMA UsableOpen ==
  ASSUME Typed, KeptOpen, RootsOwned, PollsNested,
         NEW t \in Threads, NEW s \in Usable(t)
  PROVE  /\ s \in Spans /\ state[s] = "open"
         /\ Polled(t) # Program => \/ s = request[Polled(t)].root
                                   \/ node[s].by = Polled(t)
<1>1. s \in Spans BY DEF Usable
<1>2. CASE Held(s) > 0
  <2>1. handles[s] > 0 BY <1>1, <1>2, HeldIs
  <2> QED BY <1>1, <2>1 DEF KeptOpen, Usable
<1>3. CASE ~(Held(s) > 0)
  <2>1. Polled(t) # Program /\ request[Polled(t)].root = s
    BY <1>3 DEF Usable
  <2>2. /\ Polled(t) \in Requests
        /\ request[Polled(t)].state \in {"polling", "recording"}
    BY <2>1, PolledIs
  <2>3. handles[s] > 0 BY <1>1, <2>1, <2>2 DEF RootsOwned
  <2> QED BY <1>1, <2>1, <2>3 DEF KeptOpen
<1> QED BY <1>2, <1>3

-----------------------------------------------------------------------------
(* What a step must leave alone for a part of the invariant to stand.       *)

\* No request has got a root, a new life or, under its root, an inbound context.
SameRequests ==
  \A r \in Requests :
    /\ request'[r].root = request[r].root
    /\ request[r].root # NoSpan => request'[r].inbound = request[r].inbound
    /\ request[r].shadowed => request'[r].shadowed
    /\ request'[r].state = "idle" => request[r].state = "idle"

\* No span was opened, and none has changed its place in a trace.
SameSpans ==
  /\ \A s \in Spans : state'[s] = "unborn" <=> state[s] = "unborn"
  /\ \A s \in Spans :
       /\ node'[s].up = node[s].up /\ node'[s].parent = node[s].parent
       /\ node'[s].trace = node[s].trace /\ node'[s].sampled = node[s].sampled
       /\ node'[s].by = node[s].by /\ node'[s].alone = node[s].alone

\* No thread has entered anything.
StacksShrink ==
  /\ stack' \in [Threads -> Seq(Entry)]
  /\ \A u \in Threads :
       /\ DOMAIN stack'[u] \subseteq DOMAIN stack[u]
       /\ \A i \in DOMAIN stack'[u] : stack'[u][i] = stack[u][i]

\* The polls that are left on the stacks are of the same requests as before.
PollsStand ==
  /\ \A u \in Threads : \A i \in DOMAIN stack'[u] :
       LET q == stack'[u][i].by IN
       q # Program => /\ request'[q].state \in {"polling", "recording"}
                      /\ request'[q].root = request[q].root
                      /\ request'[q].shadowed = request[q].shadowed
  /\ \A s \in Spans : state[s] = "open" => node'[s].by = node[s].by

\* Polls stay nested, and those that count do, while nothing is entered.
LEMMA PollsFrame ==
  ASSUME Typed, KeptOpen, PollsNested, PollsCount, StacksShrink, PollsStand
  PROVE  PollsNested' /\ PollsCount'
<1>1. ASSUME NEW u \in Threads, NEW i \in DOMAIN stack'[u]
      PROVE  /\ i \in DOMAIN stack[u] /\ stack'[u][i] = stack[u][i]
             /\ stack[u][i].span \in AnySpan /\ stack[u][i].by \in AnyBy
  BY StackType DEF StacksShrink
<1>2. ASSUME NEW u \in Threads
      PROVE  DOMAIN stack'[u] = 1..Len(stack'[u]) /\ Len(stack'[u]) \in Nat
  BY LenProperties DEF StacksShrink
<1>3. ASSUME NEW u \in Threads, NEW i \in DOMAIN stack'[u], stack'[u][i].by # Program
      PROVE  /\ stack[u][i].by = stack'[u][i].by
             /\ request'[stack'[u][i].by].state \in {"polling", "recording"}
             /\ request'[stack'[u][i].by].root = request[stack'[u][i].by].root
             /\ request'[stack'[u][i].by].shadowed = request[stack'[u][i].by].shadowed
             /\ stack'[u][i].span = request[stack'[u][i].by].root
  BY <1>1, <1>3 DEF PollsStand, PollsNested
<1>4. ASSUME NEW u \in Threads, NEW v \in Threads,
             NEW i \in DOMAIN stack'[u], NEW j \in DOMAIN stack'[v],
             stack'[u][i].by = stack'[v][j].by, stack'[u][i].by # Program
      PROVE  u = v /\ i = j
  <2>1. stack[u][i].by = stack[v][j].by /\ stack[u][i].by # Program
    BY <1>1, <1>4
  <2> QED BY <1>1, <2>1 DEF PollsNested
<1>5. ASSUME NEW u \in Threads, NEW i \in DOMAIN stack'[u], NEW j \in DOMAIN stack'[u],
             stack'[u][i].by # Program, i < j,
             \A k \in (i + 1)..j : stack'[u][k].by = Program
      PROVE  /\ stack'[u][j].span # NoSpan
             /\ \/ stack'[u][j].span = request'[stack'[u][i].by].root
                \/ node'[stack'[u][j].span].by = stack'[u][i].by
  <2>1. \A k \in (i + 1)..j : k \in DOMAIN stack'[u] BY <1>2, <1>5
  <2>2. \A k \in (i + 1)..j : stack[u][k].by = Program
    BY <1>1, <1>5, <2>1
  <2>3. /\ i \in DOMAIN stack[u] /\ stack[u][i] = stack'[u][i]
        /\ j \in DOMAIN stack[u] /\ stack[u][j] = stack'[u][j]
    BY <1>1
  <2>4. /\ stack[u][j].span # NoSpan
        /\ \/ stack[u][j].span = request[stack[u][i].by].root
           \/ node[stack[u][j].span].by = stack[u][i].by
    BY <1>5, <2>2, <2>3 DEF PollsNested
  <2>5. stack[u][j].span \in Spans /\ state[stack[u][j].span] = "open"
    BY <1>1, <2>3, <2>4 DEF KeptOpen, AnySpan
  <2>6. node'[stack[u][j].span].by = node[stack[u][j].span].by
    BY <2>5 DEF PollsStand
  <2> QED BY <1>3, <1>5, <2>3, <2>4, <2>6
<1>6. ASSUME NEW u \in Threads, NEW i \in DOMAIN stack'[u],
             stack'[u][i].by # Program, request'[stack'[u][i].by].root # NoSpan,
             ~request'[stack'[u][i].by].shadowed, NEW j \in 1..(i - 1)
      PROVE  stack'[u][j].span # request'[stack'[u][i].by].root
  <2>1. j \in DOMAIN stack'[u] BY <1>2
  <2>2. /\ i \in DOMAIN stack[u] /\ stack[u][i] = stack'[u][i]
        /\ stack[u][j] = stack'[u][j]
    BY <1>1, <2>1
  <2>3. stack[u][j].span # request[stack[u][i].by].root
    BY <1>3, <1>6, <2>2 DEF PollsCount
  <2> QED BY <1>3, <1>6, <2>2, <2>3
<1>7. PollsNested'
  <2>1. \A u \in Threads : \A i \in DOMAIN stack'[u] :
          LET q == stack'[u][i].by IN
          q # Program => /\ request'[q].state \in {"polling", "recording"}
                         /\ stack'[u][i].span = request'[q].root
    BY <1>3
  <2>2. \A u, v \in Threads : \A i \in DOMAIN stack'[u], j \in DOMAIN stack'[v] :
          stack'[u][i].by = stack'[v][j].by /\ stack'[u][i].by # Program
            => u = v /\ i = j
    BY <1>4
  <2>3. \A u \in Threads : \A i, j \in DOMAIN stack'[u] :
          LET q == stack'[u][i].by
              s == stack'[u][j].span
          IN q # Program /\ i < j /\ (\A k \in (i + 1)..j : stack'[u][k].by = Program)
               => s # NoSpan /\ (s = request'[q].root \/ node'[s].by = q)
    BY <1>5
  <2> QED BY <2>1, <2>2, <2>3 DEF PollsNested
<1>8. PollsCount' BY <1>6 DEF PollsCount
<1> QED BY <1>7, <1>8

\* Lineage is about the places of spans in traces alone.
LEMMA LineageFrame ==
  ASSUME Typed, Lineage, SameRequests, SameSpans
  PROVE  Lineage'
<1>1. /\ \A s \in Spans : node[s].by \in AnyBy /\ node[s].parent \in AnySpan \cup {Remote(r) : r \in Requests}
                        /\ node[s].up \in AnySpan
      /\ \A r \in Requests : request[r].root \in AnySpan
  BY DEF Typed, Node, Request
<1>2. TracesSeparate'
  <2> SUFFICES ASSUME NEW s \in Spans, state'[s] # "unborn"
               PROVE  /\ LET r == node'[s].by IN
                          r # Program /\ request'[r].root # NoSpan
                            /\ ~request'[r].shadowed =>
                            node'[s].trace = node'[request'[r].root].trace
                      /\ node'[s].alone => node'[s].parent \notin Spans
    BY DEF TracesSeparate
  <2>1. state[s] # "unborn" BY DEF SameSpans
  <2> QED
    BY <1>1, <2>1 DEF Lineage, TracesSeparate, SameRequests, SameSpans, AnyBy,
                      AnySpan
<1>3. InboundAdopted'
  BY <1>1 DEF Lineage, InboundAdopted, SameRequests, SameSpans, AnySpan
<1>4. \A s \in Spans :
        /\ node'[s].parent \in Spans => state'[node'[s].parent] # "unborn"
        /\ node'[s].up # NoSpan => state'[node'[s].up] # "unborn"
        /\ node'[s].by # Program => request'[node'[s].by].state # "idle"
  BY <1>1 DEF Lineage, SameRequests, SameSpans, AnySpan, AnyBy
<1> QED BY <1>2, <1>3, <1>4 DEF Lineage

\* What a root carries changes with its fields and its request only.
LEMMA OutcomeFrame ==
  ASSUME OutcomeCarried,
         \A r \in Requests :
           /\ request'[r].root = request[r].root
           /\ request'[r].outcome = request[r].outcome
           /\ request'[r].todo = request[r].todo
           /\ request'[r].state = "recording" <=> request[r].state = "recording"
           /\ request'[r].state \in {"idle", "pending", "polling"}
                => request[r].state \in {"idle", "pending", "polling"}
           /\ request[r].root # NoSpan =>
                node'[request[r].root].fields = node[request[r].root].fields
  PROVE  OutcomeCarried'
BY DEF OutcomeCarried

\* What was sent stands while no span closes.
LEMMA SentFrame ==
  ASSUME Typed, SentClosed, UNCHANGED <<state, sent>>, active' => active,
         \A s \in Spans : node'[s].up = node[s].up
  PROVE  SentClosed'
<1>1. \A i \in DOMAIN sent : sent[i] \in Spans
  BY ElementOfSeq, LenProperties DEF Typed
<1> QED BY <1>1 DEF SentClosed, ChildrenFirst, Range

\* Nothing is entered when the stacks stand.
LEMMA StacksStand ==
  ASSUME Typed, stack' = stack
  PROVE  StacksShrink
BY DEF Typed, StacksShrink

-----------------------------------------------------------------------------
(* The initial states.                                                      *)

\* Nothing is open, entered, polled or sent.
LEMMA InvInit == Init => IInv
<1> SUFFICES ASSUME Init PROVE IInv
  OBVIOUS
<1>1. /\ \A S : <<>> \in Seq(S)
      /\ DOMAIN <<>> = {} /\ Range(<<>>) = {}
  BY EmptySeq DEF Range
<1>2. /\ \A s \in Spans : /\ state[s] = "unborn" /\ handles[s] = 0
                         /\ node[s].up = NoSpan /\ node[s].parent = NoSpan
                         /\ node[s].by = Program
      /\ \A t \in Threads : stack[t] = <<>>
      /\ \A r \in Requests : /\ request[r].state = "idle" /\ request[r].root = NoSpan
                            /\ request[r].outcome = "none" /\ request[r].todo = <<>>
      /\ sent = <<>>
  BY DEF Init
<1>3. Typed
  <2>1. node \in [Spans -> Node]
    BY DEF Init, Node, AnySpan, AnyBy, Traces
  <2>2. request \in [Requests -> Request]
    BY <1>1 DEF Init, Request, AnySpan
  <2>3. handles \in [Spans -> 0..(MaxHeld + 1)]
    BY DEF Init
  <2> QED BY <1>1, <2>1, <2>2, <2>3 DEF Init, Typed
<1>4. KeptOpen BY <1>1, <1>2 DEF KeptOpen
<1>5. RootsOwned BY <1>2 DEF RootsOwned
<1>6. PollsNested BY <1>1, <1>2 DEF PollsNested
<1>7. PollsCount BY <1>1, <1>2 DEF PollsCount
<1>8. Lineage BY <1>2 DEF Lineage, TracesSeparate, InboundAdopted
<1>9. OutcomeCarried BY <1>2 DEF OutcomeCarried
<1>10. SentClosed BY <1>1, <1>2 DEF SentClosed, ChildrenFirst
<1> QED BY <1>3, <1>4, <1>5, <1>6, <1>7, <1>8, <1>9, <1>10 DEF IInv

-----------------------------------------------------------------------------
(* Entering and leaving spans.                                              *)

\* Leaving keeps the lower entries of one thread and all of the others.
LEMMA Shrunk ==
  ASSUME Typed, NEW t \in Threads, NEW n \in 0..Len(stack[t]),
         stack' = [stack EXCEPT ![t] = SubSeq(@, 1, n)]
  PROVE  /\ stack' \in [Threads -> Seq(Entry)]
         /\ \A i \in DOMAIN stack'[t] : i <= n
         /\ \A u \in Threads :
              /\ DOMAIN stack'[u] \subseteq DOMAIN stack[u]
              /\ \A i \in DOMAIN stack'[u] : /\ stack'[u][i] = stack[u][i]
                                            /\ i \in Int
<1> DEFINE q == SubSeq(stack[t], 1, n)
<1>1. \A u \in Threads : /\ stack[u] \in Seq(Entry) /\ Len(stack[u]) \in Nat
                        /\ DOMAIN stack[u] = 1..Len(stack[u])
                        /\ \A i \in DOMAIN stack[u] : stack[u][i] \in Entry
  BY StackType
<1>2. /\ q \in Seq(Entry) /\ Len(q) = n
      /\ \A i \in 1..n : q[i] = stack[t][i]
  <2>1. \A i \in 1..n : stack[t][i] \in Entry BY <1>1
  <2>2. /\ q \in Seq(Entry) /\ Len(q) = IF 1 <= n THEN n - 1 + 1 ELSE 0
        /\ \A i \in 1..(n - 1 + 1) : q[i] = stack[t][1 + i - 1]
    BY <2>1, SubSeqProperties
  <2> QED BY <2>2
<1>3. DOMAIN q = 1..n BY <1>2, LenProperties
<1>4. \A u \in Threads : stack'[u] = IF u = t THEN q ELSE stack[u]
  BY DEF Typed
<1>5. stack' \in [Threads -> Seq(Entry)] BY <1>2 DEF Typed
<1> HIDE DEF q
<1> QED BY <1>1, <1>2, <1>3, <1>4, <1>5

\* A poll that ends, or a span the program leaves: r is the request whose poll
\* is left, Program if it is none.
LEMMA LeaveKeeps ==
  ASSUME IInv, NEW t \in Threads, NEW n \in 0..Len(stack[t]), NEW r \in AnyBy,
         stack' = [stack EXCEPT ![t] = SubSeq(@, 1, n)],
         r = Program => request' = request,
         r # Program =>
           /\ \E k \in (n + 1)..Len(stack[t]) : stack[t][k].by = r
           /\ request[r].state \in {"polling", "recording"}
           /\ request[r].todo = <<>>
           /\ \E new \in {"pending", "over"} :
                /\ request' = [request EXCEPT ![r].state = new]
                /\ new = "pending" => request[r].outcome = "none",
         UNCHANGED <<active, state, node, handles, sent>>
  PROVE  IInv'
<1>0. Typed /\ KeptOpen /\ RootsOwned /\ PollsNested /\ PollsCount /\ Lineage
        /\ OutcomeCarried /\ SentClosed
  BY DEF IInv
<1>1. StacksShrink /\ \A i \in DOMAIN stack'[t] : i <= n
  BY <1>0, Shrunk DEF StacksShrink
<1>2. /\ request' \in [Requests -> Request]
      /\ \A q \in Requests :
           /\ request'[q].root = request[q].root
           /\ request'[q].inbound = request[q].inbound
           /\ request'[q].outcome = request[q].outcome
           /\ request'[q].todo = request[q].todo
           /\ request'[q].shadowed = request[q].shadowed
           /\ q # r => request'[q].state = request[q].state
           /\ q = r => /\ request'[q].state \in {"pending", "over"}
                       /\ request'[q].state = "pending" => request[r].outcome = "none"
  <2>1. request \in [Requests -> Request] BY <1>0 DEF Typed
  <2>2. CASE r = Program BY <2>1, <2>2
  <2>3. CASE r # Program
    <3>1. r \in Requests BY <2>3 DEF AnyBy
    <3>2. PICK new \in {"pending", "over"} :
                /\ request' = [request EXCEPT ![r].state = new]
                /\ new = "pending" => request[r].outcome = "none"
      BY <2>3
    <3>3. request[r] \in Request BY <2>1, <3>1
    <3>4. [request[r] EXCEPT !.state = new] \in Request BY <3>3 DEF Request
    <3>5. \A q \in Requests : request'[q] = IF q = r THEN [request[r] EXCEPT !.state = new]
                                          ELSE request[q]
      BY <2>1, <3>2
    <3>6. request' \in [Requests -> Request] BY <2>1, <3>2, <3>4
    <3>7. \A q \in Requests : request[q] \in Request BY <2>1
    <3> QED BY <3>2, <3>3, <3>5, <3>6, <3>7, SMTT(30) DEF Request
  <2> QED BY <2>2, <2>3
<1>3. r # Program =>
        \A u \in Threads : \A i \in DOMAIN stack'[u] : stack'[u][i].by # r
  <2> SUFFICES ASSUME r # Program, NEW u \in Threads, NEW i \in DOMAIN stack'[u],
                      stack[u][i].by = r
               PROVE  FALSE
    BY <1>1 DEF StacksShrink
  <2>1. PICK k \in (n + 1)..Len(stack[t]) : stack[t][k].by = r OBVIOUS
  <2>2. k \in DOMAIN stack[t] /\ ~(k <= n)
    BY <1>0, <2>1, StackType
  <2>3. u = t /\ i = k BY <1>0, <1>1, <2>1, <2>2 DEF PollsNested, StacksShrink
  <2> QED BY <1>1, <2>2, <2>3
<1>4. Typed'
  <2> QED BY <1>0, <1>1, <1>2 DEF Typed, StacksShrink
<1>5. KeptOpen' BY <1>0, <1>1 DEF KeptOpen, StacksShrink
<1>6. RootsOwned' BY <1>0, <1>2 DEF RootsOwned
<1>7. PollsNested' /\ PollsCount'
  <2>1. ASSUME NEW u \in Threads, NEW i \in DOMAIN stack'[u], stack'[u][i].by # Program
        PROVE  /\ request'[stack'[u][i].by].state \in {"polling", "recording"}
               /\ request'[stack'[u][i].by].root = request[stack'[u][i].by].root
               /\ request'[stack'[u][i].by].shadowed = request[stack'[u][i].by].shadowed
    <3>1. stack'[u][i].by # r BY <1>3, <2>1
    <3>2. i \in DOMAIN stack[u] /\ stack'[u][i] = stack[u][i]
      BY <1>1 DEF StacksShrink
    <3>3. stack[u][i].by \in Requests BY <1>0, <2>1, <3>2, StackType DEF AnyBy
    <3>4. request[stack[u][i].by].state \in {"polling", "recording"}
      BY <1>0, <2>1, <3>2 DEF PollsNested
    <3> QED BY <1>2, <3>1, <3>2, <3>3, <3>4, SMTT(30)
  <2>2. PollsStand BY <2>1 DEF PollsStand
  <2> QED BY <1>0, <1>1, <2>2, PollsFrame
<1>9. Lineage'
  <2>1. SameRequests BY <1>2 DEF SameRequests
  <2>2. SameSpans BY DEF SameSpans
  <2> QED BY <2>1, <2>2, LineageFrame, <1>0
<1>10. OutcomeCarried'
  <2> SUFFICES ASSUME NEW q \in Requests
               PROVE  /\ request'[q].state \in {"idle", "pending", "polling"}
                           => request'[q].outcome = "none"
                      /\ request'[q].state # "recording" => request'[q].todo = <<>>
                      /\ request'[q].root # NoSpan =>
                           node'[request'[q].root].fields \cup Range(request'[q].todo) =
                             IF request'[q].outcome = "none" THEN {}
                             ELSE Range(FieldsOf(request'[q].outcome))
    BY DEF OutcomeCarried
  <2>1. /\ request'[q].root = request[q].root /\ request'[q].todo = request[q].todo
        /\ request'[q].outcome = request[q].outcome
    BY <1>2
  <2>2. request'[q].state \in {"idle", "pending", "polling"} => request'[q].outcome = "none"
    BY <1>0, <1>2, <2>1 DEF OutcomeCarried
  <2>3. request'[q].state # "recording" => request'[q].todo = <<>>
    <3>1. CASE q = r BY <2>1, <3>1
    <3>2. CASE q # r BY <1>0, <1>2, <2>1, <3>2 DEF OutcomeCarried
    <3> QED BY <3>1, <3>2
  <2> QED BY <1>0, <2>1, <2>2, <2>3 DEF OutcomeCarried
<1>11. SentClosed' BY <1>0, SentFrame
<1> QED BY <1>4, <1>5, <1>6, <1>7, <1>9, <1>10, <1>11 DEF IInv

\* A response future that is still pending is polled by nobody any more, and an
\* answered or panicked one neither.
LEMMA InvPollPending ==
  ASSUME IInv, NEW r \in Requests, NEW t \in Threads, PollPending(r, t)
  PROVE  IInv'
<1>1. /\ stack[t] # <<>> /\ stack[t][Len(stack[t])].by = r
      /\ stack' = [stack EXCEPT ![t] = SubSeq(@, 1, Len(stack[t]) - 1)]
      /\ request' = [request EXCEPT ![r].state = "pending"]
      /\ request[r].state = "polling"
      /\ UNCHANGED <<active, state, node, handles, sent>>
  BY DEF PollPending, Pop, Top
<1>2. Typed /\ OutcomeCarried BY DEF IInv
<1>3. Len(stack[t]) \in Nat \ {0}
  BY <1>1, <1>2, StackType, EmptySeq
<1>4. request[r].outcome = "none" /\ request[r].todo = <<>>
  BY <1>1, <1>2 DEF OutcomeCarried
<1>5. r # Program /\ r \in AnyBy BY DEF AnyBy
<1> DEFINE n == Len(stack[t]) - 1
<1>6. /\ n \in 0..Len(stack[t])
      /\ \E k \in (n + 1)..Len(stack[t]) : stack[t][k].by = r
  BY <1>1, <1>3
<1> QED BY <1>1, <1>4, <1>5, <1>6, LeaveKeeps

LEMMA InvPollReturns ==
  ASSUME IInv, NEW r \in Requests, NEW t \in Threads, PollReturns(r, t)
  PROVE  IInv'
<1>1. /\ stack[t] # <<>> /\ stack[t][Len(stack[t])].by = r
      /\ stack' = [stack EXCEPT ![t] = SubSeq(@, 1, Len(stack[t]) - 1)]
      /\ request' = [request EXCEPT ![r].state = "over"]
      /\ request[r].state = "recording" /\ request[r].todo = <<>>
      /\ UNCHANGED <<active, state, node, handles, sent>>
  BY DEF PollReturns, LeaveRoot, Pop, Top
<1>2. Typed BY DEF IInv
<1>3. Len(stack[t]) \in Nat \ {0}
  BY <1>1, <1>2, StackType, EmptySeq
<1>4. r # Program /\ r \in AnyBy BY DEF AnyBy
<1> DEFINE n == Len(stack[t]) - 1
<1>5. /\ n \in 0..Len(stack[t])
      /\ \E k \in (n + 1)..Len(stack[t]) : stack[t][k].by = r
  BY <1>1, <1>3
<1> QED BY <1>1, <1>4, <1>5, LeaveKeeps

\* A panic leaves the root span and everything entered inside it.
LEMMA InvPollPanics ==
  ASSUME IInv, NEW r \in Requests, NEW t \in Threads, PollPanics(r, t)
  PROVE  IInv'
<1>1. PICK i \in DOMAIN stack[t] :
        /\ stack[t][i].by = r
        /\ stack' = [stack EXCEPT ![t] = SubSeq(@, 1, i - 1)]
  BY DEF PollPanics
<1>2. /\ request[r].state = "polling"
      /\ request' = [request EXCEPT ![r].state = "over"]
      /\ UNCHANGED <<active, state, node, handles, sent>>
  BY DEF PollPanics
<1>3. Typed /\ OutcomeCarried BY DEF IInv
<1>4. request[r].todo = <<>> BY <1>2, <1>3 DEF OutcomeCarried
<1>5. r # Program /\ r \in AnyBy BY DEF AnyBy
<1>6. i \in 1..Len(stack[t]) /\ Len(stack[t]) \in Nat
  BY <1>3, StackType
<1> DEFINE n == i - 1
<1>7. /\ n \in 0..Len(stack[t])
      /\ \E k \in (n + 1)..Len(stack[t]) : stack[t][k].by = r
  BY <1>1, <1>6
<1> QED BY <1>1, <1>2, <1>4, <1>5, <1>7, LeaveKeeps

\* The program leaves a span it entered; no request is touched.
LEMMA InvExitSpan ==
  ASSUME IInv, NEW t \in Threads, ExitSpan(t)
  PROVE  IInv'
<1>1. /\ stack[t] # <<>>
      /\ stack' = [stack EXCEPT ![t] = SubSeq(@, 1, Len(stack[t]) - 1)]
      /\ UNCHANGED <<active, state, node, handles, request, sent>>
  BY DEF ExitSpan, Pop
<1>2. Typed BY DEF IInv
<1>3. Len(stack[t]) \in Nat \ {0}
  BY <1>1, <1>2, StackType, EmptySeq
<1> DEFINE n == Len(stack[t]) - 1
<1>4. n \in 0..Len(stack[t]) BY <1>3
<1>5. Program \in AnyBy BY DEF AnyBy
<1> QED BY <1>1, <1>4, <1>5, LeaveKeeps

\* Entering puts one entry on top of one stack.
LEMMA Pushed ==
  ASSUME Typed, NEW t \in Threads, NEW s \in AnySpan, NEW b \in AnyBy, Push(t, s, b)
  PROVE  /\ stack' \in [Threads -> Seq(Entry)]
         /\ \A u \in Threads : u # t => stack'[u] = stack[u]
         /\ Len(stack[t]) \in Nat /\ DOMAIN stack[t] = 1..Len(stack[t])
         /\ DOMAIN stack'[t] = 1..(Len(stack[t]) + 1)
         /\ \A i \in DOMAIN stack[t] : stack'[t][i] = stack[t][i]
         /\ stack'[t][Len(stack[t]) + 1] = [span |-> s, by |-> b]
<1> DEFINE e == [span |-> s, by |-> b]
           q == Append(stack[t], e)
<1>1. stack[t] \in Seq(Entry) /\ e \in Entry
  BY StackType DEF Entry
<1>2. /\ Len(stack[t]) \in Nat /\ DOMAIN stack[t] = 1..Len(stack[t])
  BY StackType
<1>3. /\ q \in Seq(Entry) /\ Len(q) = Len(stack[t]) + 1
      /\ \A i \in 1..Len(stack[t]) : q[i] = stack[t][i]
      /\ q[Len(stack[t]) + 1] = e
  BY <1>1, AppendProperties
<1>4. DOMAIN q = 1..(Len(stack[t]) + 1) BY <1>3, LenProperties
<1>5. \A u \in Threads : stack'[u] = IF u = t THEN q ELSE stack[u]
  BY DEF Typed, Push
<1>6. stack' \in [Threads -> Seq(Entry)] BY <1>3 DEF Typed, Push
<1> HIDE DEF q, e
<1>7. stack'[t] = q BY <1>5
<1> QED BY <1>2, <1>3, <1>4, <1>5, <1>6, <1>7 DEF e

\* Polls stay nested when a root is entered by its poll, or another span by the
\* program that may use it.
LEMMA PushNested ==
  ASSUME Typed, KeptOpen, PollsNested, PollsCount, NEW t \in Threads,
         NEW s \in AnySpan, NEW b \in AnyBy, Push(t, s, b), node' = node,
         \A u \in Threads : \A i \in DOMAIN stack[u] :
           stack[u][i].by # Program =>
             /\ stack[u][i].by # b
             /\ request'[stack[u][i].by] = request[stack[u][i].by],
         b # Program => /\ request'[b].state \in {"polling", "recording"}
                        /\ s = request'[b].root
                        /\ ~request'[b].shadowed /\ s # NoSpan =>
                             \A j \in DOMAIN stack[t] : stack[t][j].span # s,
         b = Program => /\ s # NoSpan
                        /\ Polled(t) # Program => \/ s = request[Polled(t)].root
                                                  \/ node[s].by = Polled(t)
  PROVE  PollsNested' /\ PollsCount'
<1> DEFINE N == Len(stack[t]) + 1
           Old(u, i) == i \in DOMAIN stack[u] /\ stack'[u][i] = stack[u][i]
           New(u, i) == u = t /\ i = N /\ stack'[u][i] = [span |-> s, by |-> b]
<1>1. /\ Len(stack[t]) \in Nat /\ DOMAIN stack[t] = 1..Len(stack[t])
      /\ DOMAIN stack'[t] = 1..N
      /\ stack' \in [Threads -> Seq(Entry)]
  BY Pushed
<1>2. ASSUME NEW u \in Threads, NEW i \in DOMAIN stack'[u]
      PROVE  Old(u, i) \/ New(u, i)
  <2>1. CASE u # t BY <2>1, Pushed
  <2>2. CASE u = t /\ i = N BY <2>2, Pushed
  <2>3. CASE u = t /\ i # N
    <3>1. i \in 1..Len(stack[t]) BY <1>1, <2>3
    <3> QED BY <1>1, <2>3, <3>1, Pushed
  <2> QED BY <2>1, <2>2, <2>3
<1>3. ASSUME NEW u \in Threads
      PROVE  DOMAIN stack'[u] = 1..Len(stack'[u]) /\ Len(stack'[u]) \in Nat
  BY <1>1, LenProperties
<1>4. ASSUME NEW u \in Threads, NEW i, New(u, i)
      PROVE  stack'[u][i].by = b /\ stack'[u][i].span = s
  BY <1>4
<1>5. ASSUME NEW u \in Threads, NEW i, Old(u, i), stack'[u][i].by # Program
      PROVE  /\ stack'[u][i].by # b
             /\ request'[stack'[u][i].by] = request[stack'[u][i].by]
             /\ stack'[u][i].span = request[stack'[u][i].by].root
             /\ request[stack'[u][i].by].state \in {"polling", "recording"}
  BY <1>5 DEF PollsNested
<1> HIDE DEF N, Old, New
<1>6. ASSUME NEW u \in Threads, NEW i \in DOMAIN stack'[u], stack'[u][i].by # Program
      PROVE  /\ request'[stack'[u][i].by].state \in {"polling", "recording"}
             /\ stack'[u][i].span = request'[stack'[u][i].by].root
  <2>1. CASE Old(u, i) BY <1>5, <1>6, <2>1
  <2>2. CASE New(u, i) BY <1>4, <1>6, <2>2
  <2> QED BY <1>2, <2>1, <2>2
<1>7. ASSUME NEW u \in Threads, NEW v \in Threads,
             NEW i \in DOMAIN stack'[u], NEW j \in DOMAIN stack'[v],
             stack'[u][i].by = stack'[v][j].by, stack'[u][i].by # Program
      PROVE  u = v /\ i = j
  <2>1. CASE Old(u, i) /\ Old(v, j)
    BY <1>7, <2>1 DEF PollsNested, Old
  <2>2. CASE New(u, i) /\ New(v, j) BY <2>2 DEF New
  <2>3. CASE Old(u, i) /\ New(v, j) BY <1>4, <1>5, <1>7, <2>3
  <2>4. CASE New(u, i) /\ Old(v, j) BY <1>4, <1>5, <1>7, <2>4
  <2> QED BY <1>2, <2>1, <2>2, <2>3, <2>4
<1>8. ASSUME NEW u \in Threads, NEW i \in DOMAIN stack'[u], NEW j \in DOMAIN stack'[u],
             stack'[u][i].by # Program, i < j,
             \A k \in (i + 1)..j : stack'[u][k].by = Program
      PROVE  /\ stack'[u][j].span # NoSpan
             /\ \/ stack'[u][j].span = request'[stack'[u][i].by].root
                \/ node'[stack'[u][j].span].by = stack'[u][i].by
  <2>0. /\ i \in 1..Len(stack'[u]) /\ j \in 1..Len(stack'[u]) /\ Len(stack'[u]) \in Nat
    BY <1>3
  <2>1. j \in (i + 1)..j /\ stack'[u][j].by = Program BY <1>8, <2>0
  <2>2. u = t => i # N
    BY <1>1, <1>8, <2>0 DEF N
  <2>3. Old(u, i) BY <1>2, <2>2 DEF New
  <2>4. /\ stack'[u][i].by = stack[u][i].by /\ i \in DOMAIN stack[u]
    BY <2>3 DEF Old
  <2>5. stack[u][i].by \in Requests BY <1>8, <2>4, StackType DEF AnyBy
  <2>6. /\ request'[stack'[u][i].by].root = request[stack[u][i].by].root
        /\ stack[u][i].by # Program
    BY <1>5, <1>8, <2>3, <2>4
  <2>7. CASE Old(u, j)
    <3>1. ASSUME NEW k \in (i + 1)..j
          PROVE  k \in DOMAIN stack[u] /\ stack[u][k].by = Program
      <4>1. k \in DOMAIN stack'[u] BY <1>3, <2>0
      <4>2. u = t => k # N BY <1>1, <2>0, <2>7 DEF N, Old
      <4>3. Old(u, k) BY <1>2, <4>1, <4>2 DEF New
      <4> QED BY <1>8, <4>3 DEF Old
    <3>2. j \in DOMAIN stack[u] /\ stack'[u][j] = stack[u][j] BY <2>7 DEF Old
    <3>3. /\ stack[u][j].span # NoSpan
          /\ \/ stack[u][j].span = request[stack[u][i].by].root
             \/ node[stack[u][j].span].by = stack[u][i].by
      BY <1>8, <2>4, <2>6, <3>1, <3>2 DEF PollsNested
    <3> QED BY <2>4, <2>6, <3>2, <3>3
  <2>8. CASE New(u, j)
    <3>1. u = t /\ j = N /\ b = Program /\ stack'[u][j].span = s
      BY <1>4, <2>1, <2>8 DEF New
    <3>2. ASSUME NEW k \in (i + 1)..Len(stack[t])
          PROVE  stack[t][k].by = Program
      <4>1. k \in (i + 1)..j /\ k \in DOMAIN stack'[u] /\ k # N
        BY <1>1, <1>3, <2>0, <3>1 DEF N
      <4>2. Old(u, k) BY <1>2, <4>1 DEF New
      <4> QED BY <1>8, <3>1, <4>1, <4>2 DEF Old
    <3>3. Polled(t) = stack[t][i].by
      <4>1. PICK m \in DOMAIN stack[t] :
              /\ stack[t][m].by = Polled(t)
              /\ Polled(t) \in Requests
              /\ \A k \in (m + 1)..Len(stack[t]) : stack[t][k].by = Program
        BY <2>4, <2>6, <3>1, PolledIs
      <4>2. i \in 1..Len(stack[t]) /\ m \in 1..Len(stack[t]) BY <1>1, <2>4, <3>1
      <4>3. ~(i < m)
        <5>1. i < m => m \in (i + 1)..Len(stack[t]) BY <1>1, <4>2
        <5> QED BY <3>2, <4>1, <5>1
      <4>4. ~(m < i)
        <5>1. m < i => i \in (m + 1)..Len(stack[t]) BY <1>1, <4>2
        <5> QED BY <2>6, <3>1, <4>1, <5>1
      <4>5. i = m BY <4>2, <4>3, <4>4
      <4> QED BY <4>1, <4>5
    <3>4. /\ s # NoSpan
          /\ s = request[Polled(t)].root \/ node[s].by = Polled(t)
      BY <2>6, <3>1, <3>3
    <3> QED BY <2>4, <2>6, <3>1, <3>3, <3>4
  <2> QED BY <1>2, <2>7, <2>8
<1>9. ASSUME NEW u \in Threads, NEW i \in DOMAIN stack'[u],
             stack'[u][i].by # Program, request'[stack'[u][i].by].root # NoSpan,
             ~request'[stack'[u][i].by].shadowed, NEW j \in 1..(i - 1)
      PROVE  stack'[u][j].span # request'[stack'[u][i].by].root
  <2>0. j \in DOMAIN stack'[u] /\ j < i /\ i \in 1..Len(stack'[u]) BY <1>3
  <2>1. Old(u, j)
    <3>1. u = t => j # N BY <1>1, <2>0 DEF N
    <3> QED BY <1>2, <2>0, <3>1 DEF New
  <2>2. CASE Old(u, i)
    <3>1. /\ i \in DOMAIN stack[u] /\ stack[u][i] = stack'[u][i]
          /\ stack[u][j] = stack'[u][j]
      BY <2>1, <2>2 DEF Old
    <3>2. request'[stack'[u][i].by] = request[stack'[u][i].by]
      BY <1>5, <1>9, <2>2
    <3>3. stack[u][j].span # request[stack[u][i].by].root
      BY <1>9, <3>1, <3>2 DEF PollsCount
    <3> QED BY <3>1, <3>2, <3>3
  <2>3. CASE New(u, i)
    <3>1. /\ u = t /\ stack'[u][i].by = b
          /\ j \in DOMAIN stack[t] /\ stack'[u][j] = stack[t][j]
      BY <1>4, <2>1, <2>3 DEF New, Old
    <3>2. stack[t][j].span # s /\ s = request'[b].root
      BY <1>9, <3>1
    <3> QED BY <3>1, <3>2
  <2> QED BY <1>2, <2>2, <2>3
<1>10. PollsNested'
  <2>1. \A u \in Threads : \A i \in DOMAIN stack'[u] :
          LET q == stack'[u][i].by IN
          q # Program => /\ request'[q].state \in {"polling", "recording"}
                         /\ stack'[u][i].span = request'[q].root
    BY <1>6
  <2>2. \A u, v \in Threads : \A i \in DOMAIN stack'[u], j \in DOMAIN stack'[v] :
          stack'[u][i].by = stack'[v][j].by /\ stack'[u][i].by # Program
            => u = v /\ i = j
    BY <1>7
  <2>3. \A u \in Threads : \A i, j \in DOMAIN stack'[u] :
          LET q == stack'[u][i].by
              x == stack'[u][j].span
          IN q # Program /\ i < j /\ (\A k \in (i + 1)..j : stack'[u][k].by = Program)
               => x # NoSpan /\ (x = request'[q].root \/ node'[x].by = q)
    BY <1>8
  <2> QED BY <2>1, <2>2, <2>3 DEF PollsNested
<1>11. PollsCount' BY <1>9 DEF PollsCount
<1> QED BY <1>10, <1>11

\* Open spans stay open when an open one is entered.
LEMMA PushOpen ==
  ASSUME Typed, KeptOpen, NEW t \in Threads, NEW s \in AnySpan, NEW b \in AnyBy,
         Push(t, s, b), s # NoSpan => state[s] = "open",
         UNCHANGED <<state, node, handles>>
  PROVE  KeptOpen'
<1>1. ASSUME NEW u \in Threads, NEW i \in DOMAIN stack'[u],
             stack'[u][i].span # NoSpan
      PROVE  state[stack'[u][i].span] = "open"
  <2>1. CASE i \in DOMAIN stack[u] /\ stack'[u][i] = stack[u][i]
    BY <1>1, <2>1 DEF KeptOpen
  <2>2. CASE u = t /\ i = Len(stack[t]) + 1
    <3>1. stack'[t][Len(stack[t]) + 1] = [span |-> s, by |-> b] BY Pushed
    <3>2. stack'[u][i].span = s BY <2>2, <3>1
    <3> QED BY <1>1, <3>2
  <2>3. CASE u # t
    <3>1. stack'[u] = stack[u] BY <2>3, Pushed, ZenonT(30)
    <3> QED BY <2>1, <3>1
  <2>4. CASE u = t /\ i # Len(stack[t]) + 1
    <3>1. /\ DOMAIN stack[t] = 1..Len(stack[t]) /\ Len(stack[t]) \in Nat
          /\ DOMAIN stack'[t] = 1..(Len(stack[t]) + 1)
      BY Pushed
    <3>2. i \in 1..(Len(stack[t]) + 1) BY <2>4, <3>1
    <3>3. i \in 1..Len(stack[t]) BY <2>4, <3>1, <3>2
    <3>4. i \in DOMAIN stack[t] BY <3>1, <3>3
    <3>5. stack'[t][i] = stack[t][i] BY <3>4, Pushed
    <3> QED BY <2>1, <2>4, <3>4, <3>5
  <2> QED BY <2>2, <2>3, <2>4
<1> QED BY <1>1 DEF KeptOpen

\* A poll enters the root of a request that nobody polls.
LEMMA InvPoll ==
  ASSUME IInv, NEW r \in Requests, NEW t \in Threads, Poll(r, t)
  PROVE  IInv'
<1>0. Typed /\ KeptOpen /\ RootsOwned /\ PollsNested /\ PollsCount /\ Lineage
        /\ OutcomeCarried /\ SentClosed
  BY DEF IInv
<1> DEFINE s == request[r].root
<1>1. /\ request[r].state = "pending" /\ Push(t, s, r)
      /\ request' = [request EXCEPT
           ![r] = [@ EXCEPT !.state = "polling",
                            !.shadowed = request[r].shadowed \/ Inside(r, t)]]
      /\ UNCHANGED <<active, state, node, handles, sent>>
  BY DEF Poll
<1>2. s \in AnySpan /\ r \in AnyBy /\ r # Program
  BY <1>0 DEF Typed, Request, AnyBy
<1>3. /\ request' \in [Requests -> Request]
      /\ \A q \in Requests : q # r => request'[q] = request[q]
      /\ request'[r].state = "polling" /\ request'[r].root = s
      /\ request'[r].inbound = request[r].inbound
      /\ request'[r].outcome = request[r].outcome
      /\ request'[r].todo = request[r].todo
      /\ request'[r].shadowed = (request[r].shadowed \/ Inside(r, t))
  <2> DEFINE new == [request[r] EXCEPT !.state = "polling",
                                      !.shadowed = request[r].shadowed \/ Inside(r, t)]
  <2>1. request \in [Requests -> Request] /\ request[r] \in Request
    BY <1>0 DEF Typed
  <2>2. Inside(r, t) \in BOOLEAN BY DEF Inside
  <2>3. new \in Request BY <2>1, <2>2 DEF Request
  <2>4. request' = [request EXCEPT ![r] = new] BY <1>1
  <2>5. request' \in [Requests -> Request] /\ request'[r] = new
        /\ \A q \in Requests : q # r => request'[q] = request[q]
    <3> HIDE DEF new
    <3> QED BY <2>1, <2>3, <2>4
  <2> QED BY <2>1, <2>5 DEF Request
<1> HIDE DEF s
<1>4. s # NoSpan => state[s] = "open"
  BY <1>0, <1>1, <1>2 DEF RootsOwned, KeptOpen, s, AnySpan
<1>5. Typed' BY <1>0, <1>1, <1>2, <1>3, Pushed DEF Typed
<1>6. KeptOpen' BY <1>0, <1>1, <1>2, <1>4, PushOpen
<1>7. RootsOwned' BY <1>0, <1>1, <1>3 DEF RootsOwned, s
<1>8. PollsNested' /\ PollsCount'
  <2>1. ASSUME NEW u \in Threads, NEW i \in DOMAIN stack[u], stack[u][i].by # Program
        PROVE  /\ stack[u][i].by # r
               /\ request'[stack[u][i].by] = request[stack[u][i].by]
    <3>1. stack[u][i].by \in Requests BY <1>0, <2>1, StackType DEF AnyBy
    <3>2. request[stack[u][i].by].state \in {"polling", "recording"}
      BY <1>0, <2>1 DEF PollsNested
    <3>3. stack[u][i].by # r BY <1>1, <3>2
    <3> QED BY <1>3, <3>1, <3>3
  <2>2. ~request'[r].shadowed /\ s # NoSpan =>
          \A j \in DOMAIN stack[t] : stack[t][j].span # s
    BY <1>3 DEF Inside, s
  <2>3. /\ request'[r].state \in {"polling", "recording"}
        /\ s = request'[r].root
    BY <1>3
  <2> QED BY <1>0, <1>1, <1>2, <2>1, <2>2, <2>3, PushNested
<1>9. Lineage'
  <2>1. SameRequests BY <1>1, <1>3 DEF SameRequests, s
  <2>2. SameSpans BY <1>1 DEF SameSpans
  <2> QED BY <1>0, <2>1, <2>2, LineageFrame
<1>10. OutcomeCarried'
  <2>1. \A q \in Requests :
           /\ request'[q].root = request[q].root
           /\ request'[q].outcome = request[q].outcome
           /\ request'[q].todo = request[q].todo
           /\ request'[q].state = "recording" <=> request[q].state = "recording"
           /\ request'[q].state \in {"idle", "pending", "polling"}
                => request[q].state \in {"idle", "pending", "polling"}
    BY <1>1, <1>3 DEF s
  <2>2. node' = node BY <1>1
  <2> QED BY <1>0, <2>1, <2>2, OutcomeFrame
<1>11. SentClosed' BY <1>0, <1>1, SentFrame
<1> QED BY <1>5, <1>6, <1>7, <1>8, <1>9, <1>10, <1>11 DEF IInv

\* The program enters a span it may use.
LEMMA InvEnterSpan ==
  ASSUME IInv, NEW t \in Threads, NEW s \in Spans, EnterSpan(t, s)
  PROVE  IInv'
<1>0. Typed /\ KeptOpen /\ RootsOwned /\ PollsNested /\ PollsCount /\ Lineage
        /\ OutcomeCarried /\ SentClosed
  BY DEF IInv
<1>1. /\ s \in Usable(t) /\ Push(t, s, Program)
      /\ UNCHANGED <<active, state, node, handles, request, sent>>
  BY DEF EnterSpan
<1>2. s \in AnySpan /\ s # NoSpan /\ Program \in AnyBy BY DEF AnySpan, AnyBy
<1>3. /\ state[s] = "open"
      /\ Polled(t) # Program => s = request[Polled(t)].root \/ node[s].by = Polled(t)
  BY <1>0, <1>1, UsableOpen
<1>4. Typed' BY <1>0, <1>1, <1>2, Pushed DEF Typed
<1>5. KeptOpen' BY <1>0, <1>1, <1>2, <1>3, PushOpen
<1>6. RootsOwned' BY <1>0, <1>1 DEF RootsOwned
<1>7. PollsNested' /\ PollsCount'
  <2>1. node' = node /\ request' = request BY <1>1
  <2> QED BY <1>0, <1>1, <1>2, <1>3, <2>1, PushNested
<1>8. Lineage'
  <2>1. SameRequests BY <1>1 DEF SameRequests
  <2>2. SameSpans BY <1>1 DEF SameSpans
  <2> QED BY <1>0, <2>1, <2>2, LineageFrame
<1>9. OutcomeCarried' BY <1>0, <1>1 DEF OutcomeCarried
<1>10. SentClosed' BY <1>0, <1>1, SentFrame
<1> QED BY <1>4, <1>5, <1>6, <1>7, <1>8, <1>9, <1>10 DEF IInv

-----------------------------------------------------------------------------
(* Steps of a request that enter and leave nothing.                         *)

\* The polls on the stacks stand when no polled request changes but in state,
\* outcome and what is left to record.
LEMMA StandWhere ==
  ASSUME Typed, KeptOpen, PollsNested, PollsCount, stack' = stack,
         \A s \in Spans : state[s] = "open" => node'[s].by = node[s].by,
         \A q \in Requests :
           request[q].state \in {"polling", "recording"} =>
             /\ request'[q].state \in {"polling", "recording"}
             /\ request'[q].root = request[q].root
             /\ request'[q].shadowed = request[q].shadowed
  PROVE  PollsNested' /\ PollsCount'
<1>1. ASSUME NEW u \in Threads, NEW i \in DOMAIN stack[u], stack[u][i].by # Program
      PROVE  /\ stack[u][i].by \in Requests
             /\ request[stack[u][i].by].state \in {"polling", "recording"}
  BY <1>1, StackType DEF AnyBy, PollsNested
<1>2. PollsStand BY <1>1 DEF PollsStand
<1> QED BY <1>2, StacksStand, PollsFrame

\* An outcome has fields of its own.
LEMMA FieldsTyped ==
  ASSUME NEW o \in {"ok", "serverError", "failed"}
  PROVE  FieldsOf(o) \in Seq(Fields)
<1>1. CASE o = "ok"
  <2>1. FieldsOf(o) = <<"status_code">> BY <1>1 DEF FieldsOf
  <2> QED BY <2>1 DEF Fields
<1>2. CASE o = "serverError"
  <2>1. FieldsOf(o) = <<"status_code", "otel_error", "error_type">>
    BY <1>2 DEF FieldsOf
  <2> QED BY <2>1 DEF Fields
<1>3. CASE o = "failed"
  <2>1. FieldsOf(o) = <<"otel_error", "error_type">> BY <1>3 DEF FieldsOf
  <2> QED BY <2>1 DEF Fields
<1> QED BY <1>1, <1>2, <1>3

\* The handler answers: what there is to record is the outcome.
LEMMA InvPollReady ==
  ASSUME IInv, NEW r \in Requests, NEW t \in Threads, PollReady(r, t)
  PROVE  IInv'
<1>0. Typed /\ KeptOpen /\ RootsOwned /\ PollsNested /\ PollsCount /\ Lineage
        /\ OutcomeCarried /\ SentClosed
  BY DEF IInv
<1>1. PICK o \in Outcomes :
        request' = [request EXCEPT
          ![r] = [@ EXCEPT !.state = "recording", !.outcome = o, !.todo = FieldsOf(o)]]
  BY DEF PollReady
<1>2. /\ request[r].state = "polling"
      /\ UNCHANGED <<active, state, node, handles, stack, sent>>
  BY DEF PollReady
<1>3. /\ o \in {"ok", "serverError", "failed"} /\ o # "none"
      /\ FieldsOf(o) \in Seq(Fields)
  BY FieldsTyped
<1>4. /\ request' \in [Requests -> Request]
      /\ \A q \in Requests : q # r => request'[q] = request[q]
      /\ request'[r].state = "recording" /\ request'[r].outcome = o
      /\ request'[r].todo = FieldsOf(o)
      /\ request'[r].root = request[r].root
      /\ request'[r].inbound = request[r].inbound
      /\ request'[r].shadowed = request[r].shadowed
  <2> DEFINE new == [request[r] EXCEPT !.state = "recording", !.outcome = o,
                                      !.todo = FieldsOf(o)]
  <2>1. request \in [Requests -> Request] /\ request[r] \in Request
    BY <1>0 DEF Typed
  <2>2. new \in Request BY <1>3, <2>1 DEF Request
  <2>3. request' = [request EXCEPT ![r] = new] BY <1>1
  <2>4. request' \in [Requests -> Request] /\ request'[r] = new
        /\ \A q \in Requests : q # r => request'[q] = request[q]
    <3> HIDE DEF new
    <3> QED BY <2>1, <2>2, <2>3
  <2> QED BY <2>1, <2>4 DEF Request
<1>5. Typed' BY <1>0, <1>2, <1>4 DEF Typed
<1>6. KeptOpen' BY <1>0, <1>2 DEF KeptOpen
<1>7. RootsOwned' BY <1>0, <1>2, <1>4 DEF RootsOwned
<1>8. PollsNested' /\ PollsCount'
  <2>1. node' = node /\ stack' = stack BY <1>2
  <2> QED BY <1>0, <1>4, <2>1, StandWhere
<1>9. Lineage'
  <2>1. SameRequests BY <1>2, <1>4 DEF SameRequests
  <2>2. SameSpans BY <1>2 DEF SameSpans
  <2> QED BY <1>0, <2>1, <2>2, LineageFrame
<1>10. OutcomeCarried'
  <2>1. Range(<<>>) = {} BY DEF Range
  <2>2. request[r].outcome = "none" /\ request[r].todo = <<>>
    BY <1>0, <1>2 DEF OutcomeCarried
  <2>3. request[r].root # NoSpan =>
          node[request[r].root].fields \cup Range(request[r].todo) = {}
    BY <1>0, <2>2 DEF OutcomeCarried
  <2>4. request'[r].root # NoSpan =>
          node'[request'[r].root].fields \cup Range(request'[r].todo) =
            Range(FieldsOf(request'[r].outcome))
    BY <1>2, <1>4, <2>1, <2>2, <2>3
  <2>5. ASSUME NEW q \in Requests, q # r
        PROVE  request'[q] = request[q] /\ node' = node
    BY <1>2, <1>4, <2>5
  <2> SUFFICES ASSUME NEW q \in Requests
               PROVE  /\ request'[q].state \in {"idle", "pending", "polling"}
                           => request'[q].outcome = "none"
                      /\ request'[q].state # "recording" => request'[q].todo = <<>>
                      /\ request'[q].root # NoSpan =>
                           node'[request'[q].root].fields \cup Range(request'[q].todo) =
                             IF request'[q].outcome = "none" THEN {}
                             ELSE Range(FieldsOf(request'[q].outcome))
    BY DEF OutcomeCarried
  <2>6. CASE q = r BY <1>3, <1>4, <2>4, <2>6
  <2>7. CASE q # r BY <1>0, <2>5, <2>7 DEF OutcomeCarried
  <2> QED BY <2>6, <2>7
<1>11. SentClosed' BY <1>0, <1>2, SentFrame
<1> QED BY <1>5, <1>6, <1>7, <1>8, <1>9, <1>10, <1>11 DEF IInv

\* The first of a sequence and the others are all of it.
LEMMA HeadAndTail ==
  ASSUME NEW S, NEW q \in Seq(S), q # <<>>
  PROVE  /\ Head(q) \in S /\ Tail(q) \in Seq(S)
         /\ {Head(q)} \cup Range(Tail(q)) = Range(q)
<1>1. /\ Len(q) \in Nat \ {0} /\ DOMAIN q = 1..Len(q)
      /\ \A i \in 1..Len(q) : q[i] \in S
  BY LenProperties, EmptySeq, ElementOfSeq
<1>2. /\ Head(q) = q[1] /\ Tail(q) \in Seq(S)
      /\ Len(Tail(q)) = Len(q) - 1
      /\ \A i \in 1..(Len(q) - 1) : Tail(q)[i] = q[i + 1]
  BY HeadTailProperties
<1>3. DOMAIN Tail(q) = 1..(Len(q) - 1) BY <1>1, <1>2, LenProperties
<1>4. \A i \in DOMAIN Tail(q) : Tail(q)[i] \in Range(q)
  BY <1>1, <1>2, <1>3 DEF Range
<1>5. Head(q) \in Range(q) BY <1>1, <1>2 DEF Range
<1>6. ASSUME NEW i \in DOMAIN q
      PROVE  q[i] \in {Head(q)} \cup Range(Tail(q))
  <2>1. CASE i = 1 BY <1>2, <2>1
  <2>2. CASE i # 1
    <3>1. i - 1 \in DOMAIN Tail(q) /\ Tail(q)[i - 1] = q[i]
      BY <1>1, <1>2, <1>3, <2>2
    <3> QED BY <3>1 DEF Range
  <2> QED BY <2>1, <2>2
<1> QED BY <1>1, <1>2, <1>4, <1>5, <1>6 DEF Range

\* A field that was left to record is on the root span now.
LEMMA InvRecordField ==
  ASSUME IInv, NEW r \in Requests, RecordField(r)
  PROVE  IInv'
<1>0. Typed /\ KeptOpen /\ RootsOwned /\ PollsNested /\ PollsCount /\ Lineage
        /\ OutcomeCarried /\ SentClosed
  BY DEF IInv
<1> DEFINE s == request[r].root
           f == Head(request[r].todo)
<1>1. /\ request[r].state = "recording" /\ request[r].todo # <<>>
      /\ request' = [request EXCEPT ![r].todo = Tail(@)]
      /\ UNCHANGED <<active, state, handles, stack, sent>>
  BY DEF RecordField
<1>2. IF s # NoSpan /\ state[s] = "open"
      THEN node' = [node EXCEPT ![s].fields = @ \cup {f}]
      ELSE node' = node
  BY DEF RecordField
<1>3. /\ request \in [Requests -> Request] /\ request[r] \in Request
      /\ node \in [Spans -> Node] /\ s \in AnySpan
      /\ request[r].todo \in Seq(Fields)
  BY <1>0 DEF Typed, Request
<1>4. /\ f \in Fields /\ Tail(request[r].todo) \in Seq(Fields)
      /\ {f} \cup Range(Tail(request[r].todo)) = Range(request[r].todo)
  BY <1>1, <1>3, HeadAndTail
<1>5. /\ request' \in [Requests -> Request]
      /\ \A q \in Requests : q # r => request'[q] = request[q]
      /\ \A q \in Requests :
           /\ request'[q].state = request[q].state
           /\ request'[q].outcome = request[q].outcome
           /\ request'[q].root = request[q].root
           /\ request'[q].inbound = request[q].inbound
           /\ request'[q].shadowed = request[q].shadowed
      /\ request'[r].todo = Tail(request[r].todo)
  <2> DEFINE new == [request[r] EXCEPT !.todo = Tail(request[r].todo)]
  <2>1. new \in Request BY <1>3, <1>4 DEF Request
  <2>2. request' = [request EXCEPT ![r] = new] BY <1>1
  <2>3. request' \in [Requests -> Request] /\ request'[r] = new
        /\ \A q \in Requests : q # r => request'[q] = request[q]
    <3> HIDE DEF new
    <3> QED BY <1>3, <2>1, <2>2
  <2>4. /\ request'[r].state = request[r].state
        /\ request'[r].outcome = request[r].outcome
        /\ request'[r].root = request[r].root
        /\ request'[r].inbound = request[r].inbound
        /\ request'[r].shadowed = request[r].shadowed
        /\ request'[r].todo = Tail(request[r].todo)
    BY <1>3, <2>3 DEF Request
  <2> HIDE DEF new
  <2> QED BY <2>3, <2>4
<1>6. s # NoSpan => s \in Spans /\ state[s] = "open"
  BY <1>0, <1>1, <1>3 DEF RootsOwned, KeptOpen, AnySpan
<1>7. /\ node' \in [Spans -> Node]
      /\ \A x \in Spans :
           /\ node'[x].up = node[x].up /\ node'[x].parent = node[x].parent
           /\ node'[x].trace = node[x].trace /\ node'[x].sampled = node[x].sampled
           /\ node'[x].by = node[x].by /\ node'[x].alone = node[x].alone
           /\ x # s => node'[x] = node[x]
      /\ s # NoSpan => node'[s].fields = node[s].fields \cup {f}
      /\ s = NoSpan => node' = node
  <2>1. CASE s = NoSpan
    <3>1. node' = node BY <1>2, <2>1
    <3> QED BY <1>3, <2>1, <3>1
  <2>2. CASE s # NoSpan
    <3> DEFINE new == [node[s] EXCEPT !.fields = node[s].fields \cup {f}]
    <3>1. node' = [node EXCEPT ![s] = new] BY <1>2, <1>6, <2>2
    <3>2. node[s] \in Node BY <1>3, <1>6, <2>2
    <3>3. new \in Node BY <1>4, <3>2 DEF Node
    <3>4. /\ node' \in [Spans -> Node] /\ node'[s] = new
          /\ \A x \in Spans : x # s => node'[x] = node[x]
      <4> HIDE DEF new
      <4> QED BY <1>3, <1>6, <2>2, <3>1, <3>3
    <3> HIDE DEF s
    <3> QED BY <1>3, <2>2, <3>2, <3>4 DEF Node
  <2> QED BY <2>1, <2>2
<1> HIDE DEF s, f
<1>8. Typed' BY <1>0, <1>1, <1>5, <1>7 DEF Typed
<1>9. KeptOpen' BY <1>0, <1>1, <1>7 DEF KeptOpen
<1>10. RootsOwned' BY <1>0, <1>1, <1>5 DEF RootsOwned
<1>11. PollsNested' /\ PollsCount'
  <2>1. stack' = stack BY <1>1
  <2> QED BY <1>0, <1>5, <1>7, <2>1, StandWhere
<1>12. Lineage'
  <2>1. SameRequests BY <1>5 DEF SameRequests
  <2>2. SameSpans BY <1>1, <1>7 DEF SameSpans
  <2> QED BY <1>0, <2>1, <2>2, LineageFrame
<1>13. OutcomeCarried'
  <2> SUFFICES ASSUME NEW q \in Requests
               PROVE  /\ request'[q].state \in {"idle", "pending", "polling"}
                           => request'[q].outcome = "none"
                      /\ request'[q].state # "recording" => request'[q].todo = <<>>
                      /\ request'[q].root # NoSpan =>
                           node'[request'[q].root].fields \cup Range(request'[q].todo) =
                             IF request'[q].outcome = "none" THEN {}
                             ELSE Range(FieldsOf(request'[q].outcome))
    BY DEF OutcomeCarried
  <2>1. CASE q = r
    <3>1. s # NoSpan =>
            node'[s].fields \cup Range(request'[r].todo) =
              node[s].fields \cup Range(request[r].todo)
      BY <1>4, <1>5, <1>7
    <3>2. request'[r].root = s /\ request[r].root = s BY <1>5 DEF s
    <3>3. s # NoSpan => node[s].fields \cup Range(request[r].todo) =
                          IF request[r].outcome = "none" THEN {}
                          ELSE Range(FieldsOf(request[r].outcome))
      BY <1>0, <3>2 DEF OutcomeCarried
    <3>4. request'[r].state = "recording" /\ request'[r].outcome = request[r].outcome
      BY <1>1, <1>5
    <3> QED BY <2>1, <3>1, <3>2, <3>3, <3>4
  <2>2. CASE q # r
    <3>1. request[q].root # NoSpan =>
            request[q].root \in Spans /\ request[q].root # s
      BY <1>0, <1>3, <2>2 DEF RootsOwned, s, Request, AnySpan
    <3>2. request[q].root # NoSpan => node'[request[q].root] = node[request[q].root]
      BY <1>7, <3>1
    <3>3. request'[q] = request[q] BY <1>5, <2>2
    <3> QED BY <1>0, <3>2, <3>3 DEF OutcomeCarried
  <2> QED BY <2>1, <2>2
<1>14. SentClosed' BY <1>0, <1>1, <1>7, SentFrame
<1> QED BY <1>8, <1>9, <1>10, <1>11, <1>12, <1>13, <1>14 DEF IInv

-----------------------------------------------------------------------------
(* Handles.                                                                 *)

\* A future that is dropped lets go of its root span, and of no other's.
LEMMA InvDropFuture ==
  ASSUME IInv, NEW r \in Requests, DropFuture(r)
  PROVE  IInv'
<1>0. Typed /\ KeptOpen /\ RootsOwned /\ PollsNested /\ PollsCount /\ Lineage
        /\ OutcomeCarried /\ SentClosed
  BY DEF IInv
<1> DEFINE s == request[r].root
<1>1. /\ request[r].state \in {"pending", "over"}
      /\ request' = [request EXCEPT ![r].state = "dropped"]
      /\ UNCHANGED <<active, state, node, stack, sent>>
      /\ IF s = NoSpan THEN handles' = handles
         ELSE handles' = [handles EXCEPT ![s] = @ - 1]
  BY DEF DropFuture
<1>2. /\ request \in [Requests -> Request] /\ request[r] \in Request /\ s \in AnySpan
      /\ handles \in [Spans -> 0..(MaxHeld + 1)] /\ MaxHeld + 1 \in Nat
  BY <1>0 DEF Typed, Request
<1>3. /\ request' \in [Requests -> Request]
      /\ \A q \in Requests : q # r => request'[q] = request[q]
      /\ \A q \in Requests :
           /\ request'[q].outcome = request[q].outcome
           /\ request'[q].root = request[q].root
           /\ request'[q].inbound = request[q].inbound
           /\ request'[q].todo = request[q].todo
           /\ request'[q].shadowed = request[q].shadowed
      /\ request'[r].state = "dropped"
  <2> DEFINE new == [request[r] EXCEPT !.state = "dropped"]
  <2>1. new \in Request BY <1>2 DEF Request
  <2>2. request' = [request EXCEPT ![r] = new] BY <1>1
  <2>3. request' \in [Requests -> Request] /\ request'[r] = new
        /\ \A q \in Requests : q # r => request'[q] = request[q]
    <3> HIDE DEF new
    <3> QED BY <1>2, <2>1, <2>2
  <2>4. /\ request'[r].state = "dropped"
        /\ request'[r].outcome = request[r].outcome
        /\ request'[r].root = request[r].root
        /\ request'[r].inbound = request[r].inbound
        /\ request'[r].todo = request[r].todo
        /\ request'[r].shadowed = request[r].shadowed
    BY <1>2, <2>3 DEF Request
  <2> HIDE DEF new
  <2> QED BY <2>3, <2>4
<1>4. s # NoSpan => s \in Spans /\ handles[s] > 0
  BY <1>0, <1>1, <1>2 DEF RootsOwned, AnySpan
<1> HIDE DEF s
<1>5. /\ handles' \in [Spans -> 0..(MaxHeld + 1)]
      /\ \A x \in Spans : handles'[x] <= handles[x]
      /\ \A x \in Spans : x # s => handles'[x] = handles[x]
  <2>1. CASE s = NoSpan
    <3>1. handles' = handles BY <1>1, <2>1
    <3> QED BY <1>2, <3>1
  <2>2. CASE s # NoSpan
    <3>1. handles' = [handles EXCEPT ![s] = handles[s] - 1] BY <1>1, <2>2
    <3>2. handles[s] - 1 \in 0..(MaxHeld + 1) /\ handles[s] - 1 <= handles[s]
      BY <1>2, <1>4, <2>2
    <3> QED BY <1>2, <1>4, <2>2, <3>1, <3>2
  <2> QED BY <2>1, <2>2
<1>6. Typed' BY <1>0, <1>1, <1>3, <1>5 DEF Typed
<1>7. KeptOpen'
  <2>1. \A x \in Spans : handles'[x] > 0 => handles[x] > 0
    BY <1>2, <1>5
  <2> QED BY <1>0, <1>1, <2>1 DEF KeptOpen
<1>8. RootsOwned'
  <2>1. ASSUME NEW q \in Requests, request'[q].root # NoSpan, request'[q].state # "dropped"
        PROVE  handles'[request'[q].root] > 0
    <3>1. q # r BY <1>3, <2>1
    <3>2. request[q].root # s /\ request[q].root \in Spans
      BY <1>0, <1>2, <1>3, <2>1, <3>1 DEF RootsOwned, Request, AnySpan, s
    <3>3. handles[request[q].root] > 0
      BY <1>0, <1>3, <2>1, <3>1 DEF RootsOwned
    <3> QED BY <1>3, <1>5, <3>2, <3>3
  <2> QED BY <1>0, <1>1, <1>3, <2>1 DEF RootsOwned
<1>9. PollsNested' /\ PollsCount'
  <2>1. node' = node /\ stack' = stack BY <1>1
  <2> QED BY <1>0, <1>1, <1>3, <2>1, StandWhere
<1>10. Lineage'
  <2>1. SameRequests BY <1>3 DEF SameRequests
  <2>2. SameSpans BY <1>1 DEF SameSpans
  <2> QED BY <1>0, <2>1, <2>2, LineageFrame
<1>11. OutcomeCarried'
  <2>1. \A q \in Requests :
           /\ request'[q].root = request[q].root
           /\ request'[q].outcome = request[q].outcome
           /\ request'[q].todo = request[q].todo
           /\ request'[q].state = "recording" <=> request[q].state = "recording"
           /\ request'[q].state \in {"idle", "pending", "polling"}
                => request[q].state \in {"idle", "pending", "polling"}
    BY <1>1, <1>3
  <2>2. node' = node BY <1>1
  <2> QED BY <1>0, <2>1, <2>2, OutcomeFrame
<1>12. SentClosed' BY <1>0, <1>1, SentFrame
<1> QED BY <1>6, <1>7, <1>8, <1>9, <1>10, <1>11, <1>12 DEF IInv

\* What stands when only the handles of the program change, and no future is
\* left without the one it holds.
LEMMA HandlesKeep ==
  ASSUME IInv, handles' \in [Spans -> 0..(MaxHeld + 1)],
         UNCHANGED <<active, state, node, stack, request, sent>>,
         \A s \in Spans : handles'[s] > 0 => state[s] = "open",
         \A s \in Spans : Owned(s) = 1 => handles'[s] > 0
  PROVE  IInv'
<1>0. Typed /\ KeptOpen /\ RootsOwned /\ PollsNested /\ PollsCount /\ Lineage
        /\ OutcomeCarried /\ SentClosed
  BY DEF IInv
<1>1. Typed' BY <1>0 DEF Typed
<1>2. KeptOpen' BY <1>0 DEF KeptOpen
<1>3. RootsOwned'
  <2>1. ASSUME NEW r \in Requests, request[r].root # NoSpan, request[r].state # "dropped"
        PROVE  handles'[request[r].root] > 0
    <3>1. request[r].root \in Spans
      BY <1>0, <2>1 DEF Typed, Request, AnySpan
    <3>2. Owned(request[r].root) = 1 BY <1>0, <2>1, <3>1, OwnedIs
    <3> QED BY <3>1, <3>2
  <2> QED BY <1>0, <2>1 DEF RootsOwned
<1>4. PollsNested' BY <1>0 DEF PollsNested
<1>5. PollsCount' BY <1>0 DEF PollsCount
<1>6. Lineage'
  <2>1. SameRequests BY DEF SameRequests
  <2>2. SameSpans BY DEF SameSpans
  <2> QED BY <1>0, <2>1, <2>2, LineageFrame
<1>7. OutcomeCarried' BY <1>0 DEF OutcomeCarried
<1>8. SentClosed' BY <1>0, SentFrame
<1> QED BY <1>1, <1>2, <1>3, <1>4, <1>5, <1>6, <1>7, <1>8 DEF IInv

\* The program drops no handle of a future.
LEMMA InvDropHandle ==
  ASSUME IInv, NEW s \in Spans, DropHandle(s)
  PROVE  IInv'
<1>0. Typed /\ KeptOpen /\ RootsOwned BY DEF IInv
<1>1. /\ handles[s] - Owned(s) > 0
      /\ handles' = [handles EXCEPT ![s] = handles[s] - 1]
      /\ UNCHANGED <<active, state, node, stack, request, sent>>
  BY DEF DropHandle, Held
<1>2. handles \in [Spans -> 0..(MaxHeld + 1)] /\ MaxHeld + 1 \in Nat
  BY <1>0 DEF Typed
<1>3. Owned(s) \in {0, 1} BY <1>0, OwnedIs
<1>4. handles[s] - 1 \in 0..(MaxHeld + 1) /\ handles[s] > 0
      /\ (Owned(s) = 1 => handles[s] - 1 > 0)
  BY <1>1, <1>2, <1>3
<1>5. /\ handles' \in [Spans -> 0..(MaxHeld + 1)]
      /\ handles'[s] = handles[s] - 1
      /\ \A x \in Spans : x # s => handles'[x] = handles[x]
  BY <1>1, <1>2, <1>4
<1>6. \A x \in Spans : handles'[x] > 0 => state[x] = "open"
  BY <1>0, <1>4, <1>5 DEF KeptOpen
<1>7. ASSUME NEW x \in Spans, Owned(x) = 1
      PROVE  handles'[x] > 0
  <2>1. CASE x = s BY <1>4, <1>5, <1>7, <2>1
  <2>2. CASE x # s
    <3>1. Held(x) \in Nat /\ Held(x) = handles[x] - Owned(x) /\ handles[x] \in Nat
      BY <1>0, HeldIs
    <3>2. handles[x] > 0 BY <1>7, <3>1
    <3> QED BY <1>5, <2>2, <3>2
  <2> QED BY <2>1, <2>2
<1> QED BY <1>1, <1>5, <1>6, <1>7, HandlesKeep

\* While the program may hold more, it holds fewer than MaxHeld of any span.
LEMMA MayHoldOneMore ==
  ASSUME Typed, RootsOwned, MayHoldMore, NEW s \in Spans
  PROVE  handles[s] + 1 \in 0..(MaxHeld + 1)
<1>1. /\ handles[s] \in Nat /\ Held(s) \in Nat /\ MaxHeld \in Nat
      /\ Held(s) = handles[s] - Owned(s) /\ Owned(s) \in {0, 1}
  BY HeldIs
<1>2. Held(s) < MaxHeld
  <2> SUFFICES ASSUME ~(Held(s) < MaxHeld) PROVE FALSE
    OBVIOUS
  <2> DEFINE H == {s} \X (1..MaxHeld)
  <2>1. \A h \in H : h[1] = s /\ h[2] \in 1..MaxHeld /\ h \in Spans \X (1..MaxHeld)
    OBVIOUS
  <2>2. H \subseteq HandlesHeld
    BY <1>1, <2>1 DEF HandlesHeld
  <2>3. IsFiniteSet(1..MaxHeld) /\ Cardinality(1..MaxHeld) = MaxHeld
    <3>1. 1 \in Int /\ MaxHeld \in Int BY <1>1
    <3>2. /\ IsFiniteSet(1..MaxHeld)
          /\ Cardinality(1..MaxHeld) = IF 1 > MaxHeld THEN 0 ELSE MaxHeld - 1 + 1
      BY <3>1, FS_Interval
    <3> QED BY <1>1, <3>2
  <2>4. IsFiniteSet({s}) /\ Cardinality({s}) = 1
    BY FS_Singleton
  <2>5. Cardinality(H) = MaxHeld
    <3>1. Cardinality(H) = Cardinality({s}) * Cardinality(1..MaxHeld)
      BY <2>3, <2>4, FS_Product
    <3> QED BY <1>1, <2>3, <2>4, <3>1
  <2>6. IsFiniteSet(HandlesHeld)
    <3>1. IsFiniteSet(Spans \X (1..MaxHeld)) BY <2>3, FS_Product
    <3>2. HandlesHeld \subseteq Spans \X (1..MaxHeld) BY DEF HandlesHeld
    <3> QED BY <3>1, <3>2, FS_Subset
  <2>7. Cardinality(HandlesHeld) \in Nat BY <2>6, FS_CardinalityType
  <2>8. Cardinality(H) <= Cardinality(HandlesHeld)
    BY <2>2, <2>6, FS_Subset
  <2> HIDE DEF H
  <2> QED BY <1>1, <2>5, <2>7, <2>8 DEF MayHoldMore
<1> QED BY <1>1, <1>2

\* A clone of a current span keeps open what is open.
LEMMA InvCloneCurrent ==
  ASSUME IInv, NEW t \in Threads, CloneCurrent(t)
  PROVE  IInv'
<1>0. Typed /\ KeptOpen /\ RootsOwned BY DEF IInv
<1> DEFINE s == Current(t)
<1>1. /\ s # NoSpan /\ MayHoldMore
      /\ handles' = [handles EXCEPT ![s] = handles[s] + 1]
      /\ UNCHANGED <<active, state, node, stack, request, sent>>
  BY DEF CloneCurrent
<1>2. s \in Spans /\ state[s] = "open" BY <1>0, <1>1, CurrentOpen DEF AnySpan
<1> HIDE DEF s
<1>3. handles[s] + 1 \in 0..(MaxHeld + 1)
  BY <1>0, <1>1, <1>2, MayHoldOneMore
<1>4. handles \in [Spans -> 0..(MaxHeld + 1)] BY <1>0 DEF Typed
<1>5. /\ handles' \in [Spans -> 0..(MaxHeld + 1)]
      /\ handles'[s] = handles[s] + 1
      /\ \A x \in Spans : x # s => handles'[x] = handles[x]
  BY <1>1, <1>2, <1>3, <1>4
<1>6. \A x \in Spans : handles'[x] > 0 => state[x] = "open"
  BY <1>0, <1>2, <1>5 DEF KeptOpen
<1>7. ASSUME NEW x \in Spans, Owned(x) = 1
      PROVE  handles'[x] > 0
  <2>1. Held(x) \in Nat /\ Held(x) = handles[x] - Owned(x) /\ handles[x] \in Nat
    BY <1>0, HeldIs
  <2>2. handles[x] > 0 BY <1>7, <2>1
  <2>3. handles'[x] = handles[x] \/ handles'[x] = handles[x] + 1
    BY <1>5
  <2> QED BY <2>1, <2>2, <2>3
<1> QED BY <1>1, <1>5, <1>6, <1>7, HandlesKeep

-----------------------------------------------------------------------------
(* Spans that close, and the end of the pipeline.                           *)

\* A span closes after its children, and is sent once, while nothing of it is
\* left on any thread.
LEMMA InvOnClose ==
  ASSUME IInv, NEW s \in Spans, OnClose(s)
  PROVE  IInv'
<1>0. Typed /\ KeptOpen /\ RootsOwned /\ PollsNested /\ PollsCount /\ Lineage
        /\ OutcomeCarried /\ SentClosed
  BY DEF IInv
<1>1. /\ state[s] = "open" /\ ~Referenced(s)
      /\ state' = [state EXCEPT ![s] = "closed"]
      /\ sent' = IF active THEN Append(sent, s) ELSE sent
      /\ UNCHANGED <<active, node, handles, stack, request>>
  BY DEF OnClose
<1>2. /\ state' \in [Spans -> {"unborn", "open", "closed"}]
      /\ state'[s] = "closed"
      /\ \A x \in Spans : x # s => state'[x] = state[x]
  BY <1>0, <1>1 DEF Typed
<1>3. sent \in Seq(Spans) /\ Len(sent) \in Nat /\ DOMAIN sent = 1..Len(sent)
  BY <1>0, LenProperties DEF Typed
<1>4. ASSUME active
      PROVE  /\ sent' \in Seq(Spans) /\ DOMAIN sent' = 1..(Len(sent) + 1)
             /\ \A i \in DOMAIN sent : sent'[i] = sent[i]
             /\ sent'[Len(sent) + 1] = s
  <2>1. sent' = Append(sent, s) BY <1>1, <1>4
  <2>2. /\ sent' \in Seq(Spans) /\ Len(sent') = Len(sent) + 1
        /\ \A i \in 1..Len(sent) : sent'[i] = sent[i]
        /\ sent'[Len(sent) + 1] = s
    BY <1>3, <2>1, AppendProperties
  <2> QED BY <1>3, <2>2, LenProperties
<1>5. Typed'
  <2>1. sent' \in Seq(Spans) BY <1>1, <1>3, <1>4
  <2> QED BY <1>0, <1>1, <1>2, <2>1 DEF Typed
<1>6. KeptOpen'
  <2>1. \A x \in Spans : handles'[x] > 0 => state'[x] = "open"
    BY <1>0, <1>1, <1>2 DEF KeptOpen, Referenced
  <2>2. ASSUME NEW t \in Threads, NEW i \in DOMAIN stack[t], stack[t][i].span # NoSpan
        PROVE  state'[stack[t][i].span] = "open"
    <3>1. stack[t][i].span \in Spans BY <1>0, <2>2, StackType DEF AnySpan
    <3> QED BY <1>0, <1>1, <1>2, <2>2, <3>1 DEF KeptOpen, Referenced
  <2>3. ASSUME NEW x \in Spans, state'[x] = "open", node[x].up # NoSpan
        PROVE  state'[node[x].up] = "open"
    <3>1. state[x] = "open" BY <1>1, <2>3, <1>2
    <3>2. node[x].up \in Spans BY <1>0, <2>3 DEF Typed, Node, AnySpan
    <3>3. node[x].up # s BY <1>1, <3>1 DEF Referenced
    <3> QED BY <1>0, <1>2, <2>3, <3>1, <3>2, <3>3 DEF KeptOpen
  <2> QED BY <1>1, <2>1, <2>2, <2>3 DEF KeptOpen
<1>7. RootsOwned'
  <2>1. \A r \in Requests : request[r].root # NoSpan => request[r].root \in Spans
    BY <1>0 DEF Typed, Request, AnySpan
  <2>2. \A x \in Spans : state[x] # "unborn" => state'[x] # "unborn"
    BY <1>2
  <2> QED BY <1>0, <1>1, <2>1, <2>2 DEF RootsOwned
<1>8. PollsNested' BY <1>0, <1>1 DEF PollsNested
<1>9. PollsCount' BY <1>0, <1>1 DEF PollsCount
<1>10. Lineage'
  <2>1. SameRequests BY <1>1 DEF SameRequests
  <2>2. SameSpans BY <1>1, <1>2 DEF SameSpans
  <2> QED BY <1>0, <2>1, <2>2, LineageFrame
<1>11. OutcomeCarried' BY <1>0, <1>1 DEF OutcomeCarried
<1>12. SentClosed'
  <2>1. \A i \in DOMAIN sent : sent[i] \in Spans /\ state[sent[i]] = "closed"
    BY <1>0, <1>3, ElementOfSeq DEF SentClosed, Range
  <2>2. \A i \in DOMAIN sent : sent[i] # s /\ state'[sent[i]] = "closed"
    BY <1>1, <1>2, <2>1
  <2>3. ASSUME NEW i \in DOMAIN sent
        PROVE  node[s].up # sent[i]
    <3>1. sent[i] # NoSpan /\ state[sent[i]] # "open" BY <2>1 DEF TracingAssumption
    <3>2. node[s].up # NoSpan => state[node[s].up] = "open"
      BY <1>0, <1>1 DEF KeptOpen
    <3> QED BY <3>1, <3>2
  <2>4. \A i, j \in DOMAIN sent : i < j => sent[i] # sent[j] /\ node[sent[j]].up # sent[i]
    BY <1>0 DEF SentClosed, ChildrenFirst
  <2>5. active => Range(sent) = {x \in Spans : state[x] = "closed"}
    BY <1>0 DEF SentClosed, ChildrenFirst
  <2>6. CASE ~active
    <3>1. sent' = sent /\ ~active' /\ node' = node BY <1>1, <2>6
    <3> QED BY <2>1, <2>2, <2>4, <3>1 DEF SentClosed, ChildrenFirst, Range
  <2>7. CASE active
    <3>1. \A i \in DOMAIN sent' : i \in DOMAIN sent \/ i = Len(sent) + 1
      BY <1>3, <1>4, <2>7
    <3>2. ASSUME NEW i \in DOMAIN sent', NEW j \in DOMAIN sent', i < j
          PROVE  sent'[i] # sent'[j] /\ node'[sent'[j]].up # sent'[i]
      <4>1. i \in DOMAIN sent
        BY <1>3, <1>4, <2>7, <3>2
      <4>2. sent'[i] = sent[i] /\ node' = node BY <1>1, <1>4, <2>7, <4>1
      <4>3. CASE j \in DOMAIN sent BY <1>4, <2>4, <2>7, <3>2, <4>1, <4>2, <4>3
      <4>4. CASE j = Len(sent) + 1 BY <1>4, <2>2, <2>3, <2>7, <4>1, <4>2, <4>4
      <4> QED BY <3>1, <4>3, <4>4
    <3>3. Range(sent') = Range(sent) \cup {s}
      <4>1. Len(sent) + 1 \in DOMAIN sent' /\ DOMAIN sent \subseteq DOMAIN sent'
        BY <1>3, <1>4, <2>7
      <4> QED BY <1>4, <2>7, <3>1, <4>1 DEF Range
    <3>4. Range(sent') = {x \in Spans : state'[x] = "closed"}
      BY <1>1, <1>2, <2>5, <2>7, <3>3
    <3> QED BY <3>2, <3>4 DEF SentClosed, ChildrenFirst
  <2> QED BY <2>6, <2>7
<1> QED BY <1>5, <1>6, <1>7, <1>8, <1>9, <1>10, <1>11, <1>12 DEF IInv

\* A pipeline that stops touches no span.
LEMMA InvShutdown ==
  ASSUME IInv, Shutdown
  PROVE  IInv'
<1>0. Typed /\ KeptOpen /\ RootsOwned /\ PollsNested /\ PollsCount /\ Lineage
        /\ OutcomeCarried /\ SentClosed
  BY DEF IInv
<1>1. active' = FALSE /\ UNCHANGED <<state, node, handles, stack, request, sent>>
  BY DEF Shutdown
<1>2. Typed' BY <1>0, <1>1 DEF Typed
<1>3. KeptOpen' BY <1>0, <1>1 DEF KeptOpen
<1>4. RootsOwned' BY <1>0, <1>1 DEF RootsOwned
<1>5. PollsNested' BY <1>0, <1>1 DEF PollsNested
<1>6. PollsCount' BY <1>0, <1>1 DEF PollsCount
<1>7. Lineage' BY <1>0, <1>1 DEF Lineage, TracesSeparate, InboundAdopted
<1>8. OutcomeCarried' BY <1>0, <1>1 DEF OutcomeCarried
<1>9. SentClosed' BY <1>0, <1>1, SentFrame
<1> QED BY <1>2, <1>3, <1>4, <1>5, <1>6, <1>7, <1>8, <1>9 DEF IInv

-----------------------------------------------------------------------------
(* Spans that open.                                                         *)

\* In a poll that is not shadowed, what is current belongs to the trace of the
\* root.
LEMMA CurrentTrace ==
  ASSUME Typed, KeptOpen, PollsNested, PollsCount, Lineage, NEW t \in Threads,
         Polled(t) # Program, request[Polled(t)].root # NoSpan,
         ~request[Polled(t)].shadowed
  PROVE  /\ Current(t) \in Spans
         /\ node[Current(t)].trace = node[request[Polled(t)].root].trace
<1> DEFINE q == Polled(t)
<1>1. PICK m \in DOMAIN stack[t] :
        /\ stack[t][m].by = q
        /\ q \in Requests
        /\ \A k \in (m + 1)..Len(stack[t]) : stack[t][k].by = Program
  BY PolledIs
<1>2. q # Program /\ request[q].root # NoSpan /\ ~request[q].shadowed OBVIOUS
<1> HIDE DEF q
<1>3. stack[t][m].span = request[q].root BY <1>1, <1>2 DEF PollsNested
<1>4. m \in Entered(t)
  BY <1>1, <1>2, <1>3 DEF PollsCount, Entered
<1>5. PICK i \in Entered(t) : /\ m <= i
                              /\ Current(t) = stack[t][i].span
                              /\ Current(t) \in Spans
  BY <1>4, CurrentIs
<1>6. /\ i \in 1..Len(stack[t]) /\ m \in 1..Len(stack[t]) /\ Len(stack[t]) \in Nat
      /\ DOMAIN stack[t] = 1..Len(stack[t])
  BY <1>1, StackType DEF Entered
<1>7. CASE i = m BY <1>3, <1>5, <1>7 DEF q
<1>8. CASE i # m
  <2>1. m < i /\ \A k \in (m + 1)..i : stack[t][k].by = Program
    BY <1>1, <1>5, <1>6, <1>8
  <2>0. i \in DOMAIN stack[t] /\ m \in DOMAIN stack[t] BY <1>6
  <2>2. Current(t) = request[q].root \/ node[Current(t)].by = q
    <3>1. \A u \in Threads : \A j, k \in DOMAIN stack[u] :
            LET p == stack[u][j].by
                x == stack[u][k].span
            IN p # Program /\ j < k /\ (\A l \in (j + 1)..k : stack[u][l].by = Program)
                 => x # NoSpan /\ (x = request[p].root \/ node[x].by = p)
      BY DEF PollsNested
    <3>2. LET p == stack[t][m].by
              x == stack[t][i].span
          IN p # Program /\ m < i /\ (\A l \in (m + 1)..i : stack[t][l].by = Program)
               => x # NoSpan /\ (x = request[p].root \/ node[x].by = p)
      BY <2>0, <3>1
    <3>3. stack[t][m].by = q /\ stack[t][i].span = Current(t) /\ q # Program
      BY <1>1, <1>2, <1>5
    <3> QED BY <2>1, <3>2, <3>3
  <2>3. state[Current(t)] # "unborn"
    BY <1>5, <1>6 DEF KeptOpen
  <2>4. node[Current(t)].by = q => node[Current(t)].trace = node[request[q].root].trace
    BY <1>2, <1>5, <2>3 DEF Lineage, TracesSeparate
  <2> QED BY <1>5, <2>2, <2>4 DEF q
<1> QED BY <1>7, <1>8

\* A span that is opened outside every poll and every span finds none current.
LEMMA AloneMeansNone ==
  ASSUME Typed, PollsNested, NEW t \in Threads, Polled(t) = Program,
         \A i \in DOMAIN stack[t] : stack[t][i].by # Program
  PROVE  Current(t) = NoSpan
<1>1. \A i \in DOMAIN stack[t] : stack[t][i].by = Program
  BY PolledIs
<1>2. Entered(t) = {} BY <1>1 DEF Entered
<1> QED BY <1>2 DEF Current

\* What the layer knows of a span it has just opened on thread t.
Opened(s, t) ==
  /\ state[s] = "unborn"
  /\ state' \in [Spans -> {"unborn", "open", "closed"}] /\ state'[s] = "open"
  /\ \A x \in Spans : x # s => state'[x] = state[x]
  /\ node' \in [Spans -> Node] /\ node'[s].fields = {} /\ node'[s].by = Polled(t)
  /\ \A x \in Spans : x # s => node'[x] = node[x]
  /\ node'[s].up # NoSpan => state[node'[s].up] = "open"
  /\ node'[s].parent \in Spans =>
       /\ state[node'[s].parent] = "open" /\ ~node'[s].alone
       /\ node'[s].trace = node[node'[s].parent].trace
       /\ node'[s].sampled = node[node'[s].parent].sampled
  /\ LET q == Polled(t) IN
     q # Program /\ request[q].root # NoSpan /\ ~request[q].shadowed =>
       node'[s].trace = node[request[q].root].trace

\* The root of request r takes over its inbound context unless a local span
\* encloses it.
Adopted(s, r, inbound) ==
  node'[s].alone /\ inbound # "none" =>
    /\ node'[s].parent = Remote(r) /\ node'[s].trace = Remote(r)
    /\ node'[s].sampled = (inbound = "sampled")

\* OpenSpan opens a new span in the trace it belongs to.
LEMMA OpenSpanOpens ==
  ASSUME IInv, NEW s \in Spans, NEW t \in Threads, NEW up \in AnySpan,
         NEW explicit \in AnySpan, NEW r,
         NEW inbound \in {"none", "sampled", "unsampled"},
         OpenSpan(s, t, up, explicit, r, inbound),
         r \in Requests \/ inbound = "none",
         up # NoSpan => state[up] = "open",
         explicit # NoSpan => explicit \in Usable(t)
  PROVE  Opened(s, t) /\ Adopted(s, r, inbound)
<1>0. Typed /\ KeptOpen /\ RootsOwned /\ PollsNested /\ PollsCount /\ Lineage
  BY DEF IInv
<1> DEFINE above == IF explicit # NoSpan THEN explicit ELSE Current(t)
           ctx == Context(s, above, r, inbound)
           alone == explicit = NoSpan /\ Polled(t) = Program
                      /\ \A i \in DOMAIN stack[t] : stack[t][i].by # Program
           new == [up |-> up, parent |-> ctx.parent, trace |-> ctx.trace,
                   sampled |-> ctx.sampled, fields |-> {}, by |-> Polled(t),
                   alone |-> alone]
<1>1. /\ Fresh(s) /\ state' = [state EXCEPT ![s] = "open"]
      /\ node' = [node EXCEPT ![s] = new]
  BY DEF OpenSpan
<1>2. state[s] = "unborn"
  <2>1. \E u \in Spans : state[u] = "unborn" BY <1>1 DEF Fresh
  <2>2. s = CHOOSE u \in Spans : state[u] = "unborn" BY <1>1 DEF Fresh
  <2> QED BY <2>1, <2>2
<1>3. /\ above \in AnySpan
      /\ above # NoSpan => above \in Spans /\ state[above] = "open"
  <2>1. Current(t) \in AnySpan /\ (Current(t) # NoSpan => state[Current(t)] = "open")
    BY <1>0, CurrentOpen
  <2>2. explicit # NoSpan => explicit \in Spans /\ state[explicit] = "open"
    BY <1>0, UsableOpen
  <2> QED BY <2>1, <2>2 DEF AnySpan
<1>4. Polled(t) \in AnyBy BY <1>0, PolledIs DEF AnyBy
<1>5. alone => above = NoSpan BY <1>0, AloneMeansNone
<1>6. LET q == Polled(t) IN
      q # Program /\ request[q].root # NoSpan /\ ~request[q].shadowed =>
        above # NoSpan /\ node[above].trace = node[request[q].root].trace
  <2>1. CASE explicit = NoSpan BY <1>0, <2>1, CurrentTrace
  <2>2. CASE explicit # NoSpan
    <3>1. /\ explicit \in Spans /\ state[explicit] = "open"
          /\ Polled(t) # Program => \/ explicit = request[Polled(t)].root
                                    \/ node[explicit].by = Polled(t)
      BY <1>0, <2>2, UsableOpen
    <3> QED BY <1>0, <2>2, <3>1 DEF Lineage, TracesSeparate
  <2> QED BY <2>1, <2>2
<1>7. above # NoSpan =>
        ctx = [parent |-> above, trace |-> node[above].trace, sampled |-> node[above].sampled]
  BY DEF Context
<1>8. above = NoSpan /\ inbound # "none" =>
        ctx = [parent |-> Remote(r), trace |-> Remote(r), sampled |-> inbound = "sampled"]
  BY DEF Context
<1>9. above = NoSpan /\ inbound = "none" =>
        ctx = [parent |-> NoSpan, trace |-> <<"local", s>>, sampled |-> TRUE]
  BY DEF Context
<1>10. /\ ctx.parent \in AnySpan \cup {Remote(q) : q \in Requests}
       /\ ctx.trace \in Traces /\ ctx.sampled \in BOOLEAN
  <2> HIDE DEF above, ctx
  <2>1. CASE above # NoSpan
    <3>1. node[above] \in Node BY <1>0, <1>3, <2>1 DEF Typed
    <3>2. /\ ctx.parent = above /\ ctx.trace = node[above].trace
          /\ ctx.sampled = node[above].sampled
      BY <1>7, <2>1
    <3> QED BY <1>3, <3>1, <3>2 DEF Node
  <2>2. CASE above = NoSpan /\ inbound # "none"
    <3>1. /\ ctx.parent = Remote(r) /\ ctx.trace = Remote(r)
          /\ ctx.sampled = (inbound = "sampled")
      BY <1>8, <2>2
    <3>2. r \in Requests BY <2>2
    <3> QED BY <3>1, <3>2 DEF Traces
  <2>3. CASE above = NoSpan /\ inbound = "none"
    <3>1. /\ ctx.parent = NoSpan /\ ctx.trace = <<"local", s>>
          /\ ctx.sampled = TRUE
      BY <1>9, <2>3
    <3> QED BY <3>1 DEF Traces, AnySpan
  <2> QED BY <2>1, <2>2, <2>3
<1> HIDE DEF above, ctx
<1>11. alone \in BOOLEAN OBVIOUS
<1> HIDE DEF alone
<1>12. new \in Node BY <1>4, <1>10, <1>11 DEF Node
<1>13. /\ state' \in [Spans -> {"unborn", "open", "closed"}] /\ state'[s] = "open"
       /\ \A x \in Spans : x # s => state'[x] = state[x]
  BY <1>0, <1>1 DEF Typed
<1>14. /\ node' \in [Spans -> Node] /\ node'[s] = new
       /\ \A x \in Spans : x # s => node'[x] = node[x]
  <2> HIDE DEF new
  <2> QED BY <1>0, <1>1, <1>12 DEF Typed
<1>15. /\ node'[s].up = up /\ node'[s].parent = ctx.parent
       /\ node'[s].trace = ctx.trace /\ node'[s].sampled = ctx.sampled
       /\ node'[s].fields = {} /\ node'[s].by = Polled(t) /\ node'[s].alone = alone
  BY <1>14
<1> HIDE DEF new
<1>16. ASSUME node'[s].parent \in Spans
       PROVE  /\ state[node'[s].parent] = "open" /\ ~node'[s].alone
              /\ node'[s].trace = node[node'[s].parent].trace
              /\ node'[s].sampled = node[node'[s].parent].sampled
  <2>1. above # NoSpan
    <3>1. above = NoSpan => ctx.parent = NoSpan \/ (r \in Requests /\ ctx.parent = Remote(r))
      BY <1>8, <1>9
    <3>2. ctx.parent \in Spans BY <1>15, <1>16
    <3> QED BY <3>1, <3>2 DEF TracingAssumption
  <2>2. /\ ctx.parent = above /\ ctx.trace = node[above].trace
        /\ ctx.sampled = node[above].sampled
    BY <1>7, <2>1
  <2> QED BY <1>3, <1>5, <1>15, <2>1, <2>2
<1>17. LET q == Polled(t) IN
       q # Program /\ request[q].root # NoSpan /\ ~request[q].shadowed =>
         node'[s].trace = node[request[q].root].trace
  BY <1>6, <1>7, <1>15
<1>18. Opened(s, t)
  BY <1>2, <1>13, <1>14, <1>15, <1>16, <1>17 DEF Opened
<1>19. Adopted(s, r, inbound)
  BY <1>5, <1>8, <1>15 DEF Adopted
<1> QED BY <1>18, <1>19

\* A call makes the new span the root of its request; the program's own spans
\* leave the requests alone.
Called(s, r, inbound) ==
  /\ request[r].state = "idle"
  /\ request' = [request EXCEPT
       ![r] = [@ EXCEPT !.state = "pending", !.root = s, !.inbound = inbound]]
  /\ Adopted(s, r, inbound)

\* What a new span leaves of the invariant: it has one handle, and it is the
\* root of no request, or of one that was not called before.
LEMMA OpenKeeps ==
  ASSUME IInv, NEW s \in Spans, NEW t \in Threads, Opened(s, t),
         NEW r \in AnyBy, NEW inbound \in {"none", "sampled", "unsampled"},
         r = Program => request' = request,
         r # Program => Called(s, r, inbound),
         handles' = [handles EXCEPT ![s] = 1],
         UNCHANGED <<active, stack, sent>>
  PROVE  IInv'
<1>0. Typed /\ KeptOpen /\ RootsOwned /\ PollsNested /\ PollsCount /\ Lineage
        /\ OutcomeCarried /\ SentClosed
  BY DEF IInv
<1>1. /\ request \in [Requests -> Request] /\ handles \in [Spans -> 0..(MaxHeld + 1)]
      /\ MaxHeld + 1 \in Nat /\ 1 \in 0..(MaxHeld + 1)
      /\ s \in AnySpan /\ s # NoSpan
  BY <1>0 DEF Typed, AnySpan, TracingAssumption
<1>2. /\ request' \in [Requests -> Request]
      /\ \A q \in Requests : q # r => request'[q] = request[q]
      /\ r # Program =>
           /\ r \in Requests
           /\ request[r].state = "idle"
           /\ request'[r].state = "pending" /\ request'[r].root = s
           /\ request'[r].inbound = inbound
           /\ request'[r].outcome = request[r].outcome
           /\ request'[r].todo = request[r].todo
           /\ request'[r].shadowed = request[r].shadowed
  <2>1. CASE r = Program BY <1>1, <2>1
  <2>2. CASE r # Program
    <3> DEFINE new == [request[r] EXCEPT !.state = "pending", !.root = s,
                                        !.inbound = inbound]
    <3>1. r \in Requests /\ request[r] \in Request BY <1>1, <2>2 DEF AnyBy
    <3>2. new \in Request BY <1>1, <3>1 DEF Request
    <3>3. request' = [request EXCEPT ![r] = new] BY <2>2 DEF Called
    <3>4. request' \in [Requests -> Request] /\ request'[r] = new
          /\ \A q \in Requests : q # r => request'[q] = request[q]
      <4> HIDE DEF new
      <4> QED BY <1>1, <3>1, <3>2, <3>3
    <3>5. /\ request'[r].state = "pending" /\ request'[r].root = s
          /\ request'[r].inbound = inbound
          /\ request'[r].outcome = request[r].outcome
          /\ request'[r].todo = request[r].todo
          /\ request'[r].shadowed = request[r].shadowed
      BY <3>1, <3>4 DEF Request
    <3> HIDE DEF new
    <3> QED BY <2>2, <3>1, <3>4, <3>5 DEF Called
  <2> QED BY <2>1, <2>2
<1>3. /\ state[s] = "unborn" /\ state'[s] = "open"
      /\ state' \in [Spans -> {"unborn", "open", "closed"}]
      /\ \A x \in Spans : x # s => state'[x] = state[x] /\ node'[x] = node[x]
      /\ node' \in [Spans -> Node] /\ node'[s].fields = {}
      /\ node'[s].by = Polled(t)
      /\ node'[s].up # NoSpan => state[node'[s].up] = "open"
  BY DEF Opened
<1>4. /\ handles' \in [Spans -> 0..(MaxHeld + 1)] /\ handles'[s] = 1
      /\ \A x \in Spans : x # s => handles'[x] = handles[x]
  BY <1>1
<1>5. /\ \A q \in Requests : request[q].root \in AnySpan
      /\ \A x \in Spans : /\ node[x].up \in AnySpan /\ node[x].by \in AnyBy
                         /\ node[x].parent \in AnySpan \cup {Remote(q) : q \in Requests}
      /\ \A x \in Spans : /\ node'[x].up \in AnySpan /\ node'[x].by \in AnyBy
                         /\ node'[x].parent \in AnySpan \cup {Remote(q) : q \in Requests}
  BY <1>0, <1>3 DEF Typed, Node, Request
<1>6. ASSUME NEW q \in Requests, request[q].root # NoSpan
      PROVE  /\ request[q].root \in Spans /\ request[q].root # s /\ q # r
             /\ request'[q] = request[q]
             /\ node'[request[q].root] = node[request[q].root]
             /\ handles'[request[q].root] = handles[request[q].root]
             /\ state'[request[q].root] # "unborn"
  <2>1. request[q].root \in Spans /\ state[request[q].root] # "unborn"
    BY <1>0, <1>5, <1>6 DEF RootsOwned, AnySpan
  <2>2. request[q].root # s BY <1>3, <2>1
  <2>3. q # r BY <1>0, <1>2, <1>6 DEF RootsOwned
  <2> QED BY <1>2, <1>3, <1>4, <2>1, <2>2, <2>3
<1>7. Typed' BY <1>0, <1>2, <1>3, <1>4 DEF Typed
<1>8. KeptOpen'
  <2>1. \A x \in Spans : handles'[x] > 0 => state'[x] = "open"
    BY <1>0, <1>3, <1>4 DEF KeptOpen
  <2>2. ASSUME NEW u \in Threads, NEW i \in DOMAIN stack[u], stack[u][i].span # NoSpan
        PROVE  state'[stack[u][i].span] = "open"
    <3>1. stack[u][i].span \in Spans BY <1>0, <2>2, StackType DEF AnySpan
    <3> QED BY <1>0, <1>3, <2>2, <3>1 DEF KeptOpen
  <2>3. ASSUME NEW x \in Spans, state'[x] = "open", node'[x].up # NoSpan
        PROVE  state'[node'[x].up] = "open"
    <3>1. node'[x].up \in Spans BY <1>5, <2>3 DEF AnySpan
    <3>2. state[node'[x].up] = "open"
      BY <1>0, <1>3, <2>3 DEF KeptOpen
    <3> QED BY <1>3, <3>1, <3>2
  <2> QED BY <2>1, <2>2, <2>3 DEF KeptOpen
<1>9. RootsOwned'
  <2>1. ASSUME NEW q \in Requests, q # r
        PROVE  /\ request'[q] = request[q]
               /\ request'[q].state = "idle" => request'[q].root = NoSpan
               /\ request'[q].root # NoSpan =>
                    /\ request'[q].root # s
                    /\ state'[request'[q].root] # "unborn"
                    /\ request'[q].state # "dropped" => handles'[request'[q].root] > 0
    BY <1>0, <1>2, <1>6, <2>1 DEF RootsOwned
  <2>2. ASSUME NEW q \in Requests, q = r
        PROVE  /\ request'[q].state # "idle" /\ request'[q].root = s
               /\ state'[s] # "unborn" /\ handles'[s] > 0
    BY <1>2, <1>3, <1>4, <2>2 DEF TracingAssumption
  <2>3. \A p, q \in Requests :
          request'[p].root = request'[q].root /\ request'[q].root # NoSpan => p = q
    BY <1>0, <1>1, <2>1, <2>2 DEF RootsOwned
  <2> QED BY <2>1, <2>2, <2>3 DEF RootsOwned
<1>10. PollsNested' /\ PollsCount'
  <2>1. \A x \in Spans : state[x] = "open" => node'[x].by = node[x].by
    BY <1>3
  <2>2. \A q \in Requests : request[q].state \in {"polling", "recording"} =>
          request'[q] = request[q]
    BY <1>2
  <2> QED BY <1>0, <2>1, <2>2, StandWhere
<1>11. TracesSeparate'
  <2> SUFFICES ASSUME NEW x \in Spans, state'[x] # "unborn"
               PROVE  /\ LET q == node'[x].by IN
                          q # Program /\ request'[q].root # NoSpan
                            /\ ~request'[q].shadowed =>
                            node'[x].trace = node'[request'[q].root].trace
                      /\ node'[x].alone => node'[x].parent \notin Spans
    BY DEF TracesSeparate
  <2>1. CASE x = s
    <3>1. node'[x].alone => node'[x].parent \notin Spans
      BY <2>1 DEF Opened
    <3>2. ASSUME Polled(t) # Program, request'[Polled(t)].root # NoSpan,
                 ~request'[Polled(t)].shadowed
          PROVE  node'[s].trace = node'[request'[Polled(t)].root].trace
      <4>1. Polled(t) \in Requests /\ request[Polled(t)].state # "idle"
        BY <1>0, <3>2, PolledIs
      <4>2. request'[Polled(t)] = request[Polled(t)] BY <1>2, <4>1
      <4>3. node'[s].trace = node[request[Polled(t)].root].trace
        BY <3>2, <4>2 DEF Opened
      <4> QED BY <1>6, <3>2, <4>1, <4>2, <4>3
    <3> QED BY <1>3, <2>1, <3>1, <3>2
  <2>2. CASE x # s
    <3>1. state[x] # "unborn" /\ node'[x] = node[x] BY <1>3, <2>2
    <3>2. node[x].by # Program =>
            /\ node[x].by \in Requests /\ node[x].by # r
            /\ request'[node[x].by] = request[node[x].by]
      BY <1>0, <1>2, <1>5 DEF Lineage, AnyBy
    <3> QED BY <1>0, <1>6, <3>1, <3>2 DEF Lineage, TracesSeparate
  <2> QED BY <2>1, <2>2
<1>12. InboundAdopted'
  <2>1. ASSUME NEW q \in Requests, request'[q].root # NoSpan,
               node'[request'[q].root].alone, request'[q].inbound # "none"
        PROVE  /\ node'[request'[q].root].parent = Remote(q)
               /\ node'[request'[q].root].trace = Remote(q)
               /\ node'[request'[q].root].sampled = (request'[q].inbound = "sampled")
    <3>1. CASE q = r
      <4>1. Adopted(s, r, inbound) BY <3>1 DEF Called, TracingAssumption
      <4>2. request'[q].root = s /\ request'[q].inbound = inbound
        BY <1>2, <3>1 DEF TracingAssumption
      <4> QED BY <2>1, <3>1, <4>1, <4>2 DEF Adopted
    <3>2. CASE q # r
      <4>1. request'[q] = request[q] BY <1>2, <3>2
      <4>2. node'[request[q].root] = node[request[q].root] BY <1>6, <2>1, <4>1
      <4> QED BY <1>0, <2>1, <4>1, <4>2 DEF Lineage, InboundAdopted
    <3> QED BY <3>1, <3>2
  <2>2. ASSUME NEW x \in Spans, node'[x].parent \in Spans
        PROVE  /\ node'[x].trace = node'[node'[x].parent].trace
               /\ node'[x].sampled = node'[node'[x].parent].sampled
               /\ state'[node'[x].parent] # "unborn"
    <3>1. CASE x = s
      <4>1. /\ state[node'[s].parent] = "open"
            /\ node'[s].trace = node[node'[s].parent].trace
            /\ node'[s].sampled = node[node'[s].parent].sampled
        BY <2>2, <3>1 DEF Opened
      <4>2. /\ node'[node'[s].parent] = node[node'[s].parent]
            /\ state'[node'[s].parent] = state[node'[s].parent]
        BY <1>3, <2>2, <3>1, <4>1
      <4> QED BY <3>1, <4>1, <4>2
    <3>2. CASE x # s
      <4>1. node'[x] = node[x] BY <1>3, <3>2
      <4>2. state[node[x].parent] # "unborn" BY <1>0, <2>2, <4>1 DEF Lineage
      <4>3. /\ node'[node[x].parent] = node[node[x].parent]
            /\ state'[node[x].parent] = state[node[x].parent]
        BY <1>3, <2>2, <4>1, <4>2
      <4> QED BY <1>0, <2>2, <4>1, <4>2, <4>3 DEF Lineage, InboundAdopted
    <3> QED BY <3>1, <3>2
  <2> QED BY <2>1, <2>2 DEF InboundAdopted
<1>13. Lineage'
  <2>1. ASSUME NEW x \in Spans, node'[x].parent \in Spans
        PROVE  state'[node'[x].parent] # "unborn"
    <3>1. CASE x = s
      <4>1. state[node'[s].parent] = "open" BY <2>1, <3>1 DEF Opened
      <4> QED BY <1>3, <2>1, <3>1, <4>1
    <3>2. CASE x # s
      <4>1. node'[x] = node[x] BY <1>3, <3>2
      <4>2. state[node[x].parent] # "unborn" BY <1>0, <2>1, <4>1 DEF Lineage
      <4> QED BY <1>3, <2>1, <4>1, <4>2
    <3> QED BY <3>1, <3>2
  <2>2. ASSUME NEW x \in Spans, node'[x].up # NoSpan
        PROVE  state'[node'[x].up] # "unborn"
    <3>1. node'[x].up \in Spans BY <1>5, <2>2 DEF AnySpan
    <3>2. state[node'[x].up] # "unborn"
      BY <1>0, <1>3, <2>2 DEF Lineage
    <3> QED BY <1>3, <3>1, <3>2
  <2>3. ASSUME NEW x \in Spans, node'[x].by # Program
        PROVE  request'[node'[x].by].state # "idle"
    <3>1. node'[x].by \in Requests BY <1>5, <2>3 DEF AnyBy
    <3>2. request[node'[x].by].state # "idle"
      <4>1. CASE x = s BY <1>0, <1>3, <2>3, <4>1, PolledIs
      <4>2. CASE x # s BY <1>0, <1>3, <2>3, <4>2 DEF Lineage
      <4> QED BY <4>1, <4>2
    <3> QED BY <1>2, <3>1, <3>2
  <2> QED BY <1>11, <1>12, <2>1, <2>2, <2>3 DEF Lineage
<1>14. OutcomeCarried'
  <2> SUFFICES ASSUME NEW q \in Requests
               PROVE  /\ request'[q].state \in {"idle", "pending", "polling"}
                           => request'[q].outcome = "none"
                      /\ request'[q].state # "recording" => request'[q].todo = <<>>
                      /\ request'[q].root # NoSpan =>
                           node'[request'[q].root].fields \cup Range(request'[q].todo) =
                             IF request'[q].outcome = "none" THEN {}
                             ELSE Range(FieldsOf(request'[q].outcome))
    BY DEF OutcomeCarried
  <2>1. CASE q = r
    <3>1. request'[r].outcome = "none" /\ request'[r].todo = <<>> /\ request'[r].root = s
      BY <1>0, <1>2, <2>1 DEF OutcomeCarried, TracingAssumption
    <3>2. Range(<<>>) = {} BY DEF Range
    <3>3. node'[s].fields \cup Range(request'[r].todo) = {} BY <1>3, <3>1, <3>2
    <3> QED BY <2>1, <3>1, <3>3
  <2>2. CASE q # r
    <3>1. request'[q] = request[q] BY <1>2, <2>2
    <3>2. request[q].root # NoSpan => node'[request[q].root] = node[request[q].root]
      BY <1>6
    <3> QED BY <1>0, <3>1, <3>2 DEF OutcomeCarried
  <2> QED BY <2>1, <2>2
<1>15. SentClosed'
  <2>1. \A i \in DOMAIN sent : sent[i] \in Spans /\ state[sent[i]] = "closed"
    BY <1>0 DEF SentClosed, Range
  <2>2. \A i \in DOMAIN sent : node'[sent[i]] = node[sent[i]]
    BY <1>3, <2>1
  <2>3. {x \in Spans : state'[x] = "closed"} = {x \in Spans : state[x] = "closed"}
    BY <1>3
  <2> QED BY <1>0, <2>2, <2>3 DEF SentClosed, ChildrenFirst, Range
<1> QED BY <1>7, <1>8, <1>9, <1>10, <1>13, <1>14, <1>15 DEF IInv

\* The program starts a span: contextual, under a parent it may use, or a root.
LEMMA InvStartSpan ==
  ASSUME IInv, NEW t \in Threads, NEW s \in Spans, StartSpan(t, s)
  PROVE  IInv'
<1>0. Typed /\ KeptOpen /\ RootsOwned /\ PollsNested BY DEF IInv
<1>1. /\ handles' = [handles EXCEPT ![s] = 1]
      /\ UNCHANGED <<active, stack, request, sent>>
      /\ \/ OpenSpan(s, t, Current(t), NoSpan, NoSpan, "none")
         \/ \E p \in Usable(t) : OpenSpan(s, t, p, p, NoSpan, "none")
         \/ OpenSpan(s, t, NoSpan, NoSpan, NoSpan, "none")
  BY DEF StartSpan
<1>2. /\ Current(t) \in AnySpan /\ NoSpan \in AnySpan
      /\ Current(t) # NoSpan => state[Current(t)] = "open"
  BY <1>0, CurrentOpen DEF AnySpan
<1>3. Opened(s, t)
  <2>1. CASE OpenSpan(s, t, Current(t), NoSpan, NoSpan, "none")
    BY <1>2, <2>1, OpenSpanOpens
  <2>2. CASE \E p \in Usable(t) : OpenSpan(s, t, p, p, NoSpan, "none")
    <3>1. PICK p \in Usable(t) : OpenSpan(s, t, p, p, NoSpan, "none") BY <2>2
    <3>2. p \in AnySpan /\ state[p] = "open" BY <1>0, UsableOpen DEF AnySpan
    <3> QED BY <3>1, <3>2, OpenSpanOpens
  <2>3. CASE OpenSpan(s, t, NoSpan, NoSpan, NoSpan, "none")
    BY <1>2, <2>3, OpenSpanOpens
  <2> QED BY <1>1, <2>1, <2>2, <2>3
<1>4. Program \in AnyBy BY DEF AnyBy
<1> QED BY <1>1, <1>3, <1>4, OpenKeeps

\* A request that is called gets its root span, or none from a pipeline that is
\* inactive.
LEMMA InvCall ==
  ASSUME IInv, NEW r \in Requests, NEW t \in Threads, Call(r, t)
  PROVE  IInv'
<1>0. Typed /\ KeptOpen /\ RootsOwned /\ PollsNested /\ PollsCount /\ Lineage
        /\ OutcomeCarried /\ SentClosed
  BY DEF IInv
<1>1. /\ request[r].state = "idle"
      /\ UNCHANGED <<active, stack, sent>>
  BY DEF Call
<1>2. PICK inbound \in Inbound :
        IF active
        THEN \E s \in Spans :
               /\ OpenSpan(s, t, Current(t), NoSpan, r, inbound)
               /\ handles' = [handles EXCEPT ![s] = 1]
               /\ request' = [request EXCEPT
                    ![r] = [@ EXCEPT !.state = "pending", !.root = s,
                                     !.inbound = inbound]]
        ELSE /\ request' = [request EXCEPT
                  ![r] = [@ EXCEPT !.state = "pending", !.inbound = inbound]]
             /\ UNCHANGED <<state, node, handles>>
  BY DEF Call
<1>3. inbound \in {"none", "sampled", "unsampled"} BY DEF TracingAssumption
<1>4. CASE active
  <2>1. PICK s \in Spans :
          /\ OpenSpan(s, t, Current(t), NoSpan, r, inbound)
          /\ handles' = [handles EXCEPT ![s] = 1]
          /\ request' = [request EXCEPT
               ![r] = [@ EXCEPT !.state = "pending", !.root = s, !.inbound = inbound]]
    BY <1>2, <1>4
  <2>2. /\ Current(t) \in AnySpan /\ NoSpan \in AnySpan
        /\ Current(t) # NoSpan => state[Current(t)] = "open"
    BY <1>0, CurrentOpen DEF AnySpan
  <2>3. Opened(s, t) /\ Adopted(s, r, inbound)
    BY <1>3, <2>1, <2>2, OpenSpanOpens
  <2>4. r \in AnyBy /\ r # Program BY DEF AnyBy, TracingAssumption
  <2>5. Called(s, r, inbound) BY <1>1, <2>1, <2>3 DEF Called
  <2> QED BY <1>1, <1>3, <2>1, <2>3, <2>4, <2>5, OpenKeeps
<1>5. CASE ~active
  <2>1. /\ request' = [request EXCEPT
             ![r] = [@ EXCEPT !.state = "pending", !.inbound = inbound]]
        /\ UNCHANGED <<state, node, handles>>
    BY <1>2, <1>5
  <2>2. /\ request' \in [Requests -> Request]
        /\ \A q \in Requests : q # r => request'[q] = request[q]
        /\ request'[r].state = "pending"
        /\ request'[r].root = request[r].root
        /\ request'[r].outcome = request[r].outcome
        /\ request'[r].todo = request[r].todo
        /\ request'[r].shadowed = request[r].shadowed
    <3> DEFINE new == [request[r] EXCEPT !.state = "pending", !.inbound = inbound]
    <3>1. request \in [Requests -> Request] /\ request[r] \in Request
      BY <1>0 DEF Typed
    <3>2. new \in Request BY <1>3, <3>1 DEF Request
    <3>3. request' = [request EXCEPT ![r] = new] BY <2>1
    <3>4. request' \in [Requests -> Request] /\ request'[r] = new
          /\ \A q \in Requests : q # r => request'[q] = request[q]
      <4> HIDE DEF new
      <4> QED BY <3>1, <3>2, <3>3
    <3> QED BY <3>1, <3>4 DEF Request
  <2>3. request[r].root = NoSpan BY <1>0, <1>1 DEF RootsOwned
  <2>4. Typed' BY <1>0, <1>1, <2>1, <2>2 DEF Typed
  <2>5. KeptOpen' BY <1>0, <1>1, <2>1 DEF KeptOpen
  <2>6. RootsOwned' BY <1>0, <1>1, <2>1, <2>2, <2>3 DEF RootsOwned
  <2>7. PollsNested' /\ PollsCount'
    <3>1. \A q \in Requests : request[q].state \in {"polling", "recording"} =>
            request'[q] = request[q]
      BY <1>1, <2>2
    <3> QED BY <1>0, <1>1, <2>1, <3>1, StandWhere
  <2>8. Lineage'
    <3>1. SameRequests BY <2>2, <2>3 DEF SameRequests
    <3>2. SameSpans BY <2>1 DEF SameSpans
    <3> QED BY <1>0, <3>1, <3>2, LineageFrame
  <2>9. OutcomeCarried'
    <3>1. \A q \in Requests :
             /\ request'[q].root = request[q].root
             /\ request'[q].outcome = request[q].outcome
             /\ request'[q].todo = request[q].todo
             /\ request'[q].state = "recording" <=> request[q].state = "recording"
             /\ request'[q].state \in {"idle", "pending", "polling"}
                  => request[q].state \in {"idle", "pending", "polling"}
      BY <1>1, <2>2
    <3>2. node' = node BY <2>1
    <3> QED BY <1>0, <3>1, <3>2, OutcomeFrame
  <2>10. SentClosed' BY <1>0, <1>1, <2>1, SentFrame
  <2> QED BY <2>4, <2>5, <2>6, <2>7, <2>8, <2>9, <2>10 DEF IInv
<1> QED BY <1>4, <1>5

-----------------------------------------------------------------------------
(* Every step, and the theorems.                                            *)

\* No step of the middleware, of the program or of the layer breaks the
\* invariant.
LEMMA InvStep == IInv /\ [Next]_vars => IInv'
<1> SUFFICES ASSUME IInv, [Next]_vars PROVE IInv'
  OBVIOUS
<1>1. ASSUME NEW r \in Requests, RecordField(r) PROVE IInv'
  BY <1>1, InvRecordField
<1>2. ASSUME NEW r \in Requests, DropFuture(r) PROVE IInv'
  BY <1>2, InvDropFuture
<1>3. ASSUME NEW r \in Requests, NEW t \in Threads, Call(r, t) PROVE IInv'
  BY <1>3, InvCall
<1>4. ASSUME NEW r \in Requests, NEW t \in Threads, Poll(r, t) PROVE IInv'
  BY <1>4, InvPoll
<1>5. ASSUME NEW r \in Requests, NEW t \in Threads, PollPending(r, t) PROVE IInv'
  BY <1>5, InvPollPending
<1>6. ASSUME NEW r \in Requests, NEW t \in Threads, PollReady(r, t) PROVE IInv'
  BY <1>6, InvPollReady
<1>7. ASSUME NEW r \in Requests, NEW t \in Threads, PollReturns(r, t) PROVE IInv'
  BY <1>7, InvPollReturns
<1>8. ASSUME NEW r \in Requests, NEW t \in Threads, PollPanics(r, t) PROVE IInv'
  BY <1>8, InvPollPanics
<1>9. ASSUME NEW t \in Threads, NEW s \in Spans, StartSpan(t, s) PROVE IInv'
  BY <1>9, InvStartSpan
<1>10. ASSUME NEW t \in Threads, NEW s \in Spans, EnterSpan(t, s) PROVE IInv'
  BY <1>10, InvEnterSpan
<1>11. ASSUME NEW t \in Threads, ExitSpan(t) PROVE IInv'
  BY <1>11, InvExitSpan
<1>12. ASSUME NEW t \in Threads, CloneCurrent(t) PROVE IInv'
  BY <1>12, InvCloneCurrent
<1>13. ASSUME NEW s \in Spans, DropHandle(s) PROVE IInv'
  BY <1>13, InvDropHandle
<1>14. ASSUME NEW s \in Spans, OnClose(s) PROVE IInv'
  BY <1>14, InvOnClose
<1>15. CASE Shutdown BY <1>15, InvShutdown
<1>16. CASE UNCHANGED vars
  <2>1. UNCHANGED <<active, state, node, handles, stack, request, sent>>
    BY <1>16 DEF vars
  <2>2. Typed' /\ KeptOpen' /\ RootsOwned'
    BY <2>1 DEF IInv, Typed, KeptOpen, RootsOwned
  <2>3. PollsNested' BY <2>1 DEF IInv, PollsNested
  <2>4. PollsCount' BY <2>1 DEF IInv, PollsCount
  <2>5. Lineage' BY <2>1 DEF IInv, Lineage, TracesSeparate, InboundAdopted
  <2>6. OutcomeCarried' BY <2>1 DEF IInv, OutcomeCarried
  <2>7. SentClosed' BY <2>1 DEF IInv, SentClosed, ChildrenFirst
  <2> QED BY <2>2, <2>3, <2>4, <2>5, <2>6, <2>7 DEF IInv
<1> QED
  BY <1>1, <1>2, <1>3, <1>4, <1>5, <1>6, <1>7, <1>8, <1>9, <1>10, <1>11, <1>12,
     <1>13, <1>14, <1>15, <1>16 DEF Next

\* The inductive invariant holds of every behaviour.
THEOREM InvCorrect == Spec => []IInv
<1> QED BY InvInit, InvStep, PTL DEF Spec

\* Threads are only inside spans that are open, handles are never counted below
\* zero, and what was sent is closed.
THEOREM TypeCorrect == Spec => []TypeOK
<1>1. IInv => TypeOK
  <2> SUFFICES ASSUME IInv PROVE TypeOK
    OBVIOUS
  <2>0. Typed /\ KeptOpen /\ SentClosed BY DEF IInv
  <2>1. \A s \in Spans :
          /\ node[s].up \in Spans \cup {NoSpan}
          /\ node[s].parent \in Spans \cup {NoSpan} \cup {Remote(r) : r \in Requests}
          /\ node[s].trace \in Traces /\ node[s].sampled \in BOOLEAN
    BY <2>0 DEF Typed, Node, AnySpan
  <2>2. \A t \in Threads : \A i \in DOMAIN stack[t] :
          stack[t][i].span # NoSpan => state[stack[t][i].span] = "open"
    BY <2>0 DEF KeptOpen
  <2> QED BY <2>0, <2>1, <2>2 DEF Typed, SentClosed, TypeOK
<1> QED BY <1>1, InvCorrect, PTL

\* Requests do not bleed into each other, on however many threads and however
\* deeply their spans are nested, unless one is polled inside its own root.
THEOREM TracesCorrect == Spec => []TracesSeparate
<1>1. IInv => TracesSeparate BY DEF IInv, Lineage
<1> QED BY <1>1, InvCorrect, PTL

\* The inbound context reaches every span of its request.
THEOREM InboundCorrect == Spec => []InboundAdopted
<1>1. IInv => InboundAdopted BY DEF IInv, Lineage
<1> QED BY <1>1, InvCorrect, PTL

\* A root span is exported once its outcome is on it: the future that would
\* still record a field holds a handle.
THEOREM OutcomeCorrect == Spec => []OutcomeExported
<1>1. IInv => OutcomeExported
  <2> SUFFICES ASSUME IInv, NEW r \in Requests, request[r].root \in Range(sent)
               PROVE  node[request[r].root].fields =
                        IF request[r].outcome = "none" THEN {}
                        ELSE Range(FieldsOf(request[r].outcome))
    BY DEF OutcomeExported
  <2> DEFINE s == request[r].root
  <2>1. s \in Spans /\ s # NoSpan /\ state[s] = "closed"
    BY DEF IInv, SentClosed, TracingAssumption
  <2>2. ~(handles[s] > 0) BY <2>1 DEF IInv, KeptOpen
  <2>3. request[r].state = "dropped" BY <2>1, <2>2 DEF IInv, RootsOwned
  <2>4. request[r].todo = <<>> BY <2>3 DEF IInv, OutcomeCarried
  <2>5. Range(request[r].todo) = {} BY <2>4 DEF Range
  <2>6. node[s].fields \cup Range(request[r].todo) =
          IF request[r].outcome = "none" THEN {} ELSE Range(FieldsOf(request[r].outcome))
    BY <2>1 DEF IInv, OutcomeCarried
  <2> QED BY <2>5, <2>6
<1> QED BY <1>1, InvCorrect, PTL

\* Every span is exported once, after all of its children, and none that closed
\* under an active pipeline is missing.
THEOREM ChildrenCorrect == Spec => []ChildrenFirst
<1>1. IInv => ChildrenFirst BY DEF IInv, SentClosed
<1> QED BY <1>1, InvCorrect, PTL
=============================================================================
