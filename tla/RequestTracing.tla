--------------------------- MODULE RequestTracing ---------------------------
(* Requests through the HTTP middleware (middleware.rs) and the spans their *)
(* handlers open, as the layer (layer.rs) sees them.  A response future is  *)
(* polled many times, on any thread, next to other requests; each poll      *)
(* enters the request's root span and leaves it again.  Spans are reference *)
(* counted by the registry of tracing-subscriber, and the layer exports a   *)
(* span when its last reference is gone.                                    *)
EXTENDS Integers, Sequences, FiniteSets, Functions

CONSTANTS
  Threads,   \* threads of the runtime
  Requests,  \* HTTP requests
  Spans,     \* span identities, never reused
  NoSpan,    \* the absence of one
  Inbound,   \* inbound contexts: "none", "sampled", "unsampled"
  Outcomes,  \* outcomes of a handler: "ok", "serverError", "failed"
  MaxDepth,  \* bound on the spans entered on a thread
  MaxHeld,   \* bound on the handles the program holds at a time
  MaxOwn,    \* bound on the spans the program starts itself
  MaxTotal   \* bound on spans and requests together

Program == "program"

\* The span of a caller far away, as it comes in with request r.
Remote(r) == <<"remote", r>>

ASSUME TracingAssumption ==
  /\ {MaxDepth, MaxHeld, MaxOwn, MaxTotal} \subseteq Nat
  /\ NoSpan \notin Spans /\ IsFiniteSet(Spans)
  /\ Program \notin Requests
  /\ \A r \in Requests : Remote(r) \notin Spans \cup {NoSpan}
  /\ Inbound \subseteq {"none", "sampled", "unsampled"}
  /\ Outcomes \subseteq {"ok", "serverError", "failed"}

VARIABLES
  active,   \* Pipeline::is_enabled
  state,    \* of every span: "unborn", "open" or "closed"
  node,     \* what the layer and the registry know of every span
  handles,  \* tracing::Span handles the program and the futures hold
  stack,    \* spans entered on every thread, with who entered them
  request,  \* control state of every request and of its ResponseFuture, and
            \* whether it was ever polled by a thread already inside its root
  sent      \* finished spans passed to an active pipeline, in order

vars == <<active, state, node, handles, stack, request, sent>>

\* The fields ResponseFuture::poll records for an outcome, in this order.
FieldsOf(outcome) ==
  CASE outcome = "ok"          -> <<"status_code">>
    [] outcome = "serverError" -> <<"status_code", "otel_error", "error_type">>
    [] outcome = "failed"      -> <<"otel_error", "error_type">>

-----------------------------------------------------------------------------
(* The registry.                                                            *)

\* Positions on a thread's stack that count: a span entered again while it is
\* entered adds none.
Entered(t) ==
  {i \in DOMAIN stack[t] :
     /\ stack[t][i].span # NoSpan
     /\ \A j \in 1..(i - 1) : stack[t][j].span # stack[t][i].span}

Current(t) ==
  IF Entered(t) = {} THEN NoSpan
  ELSE stack[t][CHOOSE i \in Entered(t) : \A j \in Entered(t) : j <= i].span

\* A span is kept open by handles, by the threads inside it, and by its
\* children.
Referenced(s) ==
  \/ handles[s] > 0
  \/ \E t \in Threads : \E i \in DOMAIN stack[t] : stack[t][i].span = s
  \/ \E c \in Spans : state[c] = "open" /\ node[c].up = s

Push(t, s, by) == stack' = [stack EXCEPT ![t] = Append(@, [span |-> s, by |-> by])]
Top(t) == stack[t][Len(stack[t])]
Pop(t) == stack' = [stack EXCEPT ![t] = SubSeq(@, 1, Len(@) - 1)]

\* The thread is not in the middle of recording an outcome: code of the program
\* can run on it.
Free(t) ==
  stack[t] # <<>> /\ Top(t).by # Program =>
    request[Top(t).by].state # "recording"

\* The request polled innermost on a thread, if any.
Polled(t) ==
  LET polls == {i \in DOMAIN stack[t] :
                  /\ stack[t][i].by # Program
                  /\ request[stack[t][i].by].state \in {"polling", "recording"}}
  IN IF polls = {} THEN Program
     ELSE stack[t][CHOOSE i \in polls : \A j \in polls : j <= i].by

-----------------------------------------------------------------------------
(* OtelLayer::on_new_span.                                                  *)

\* Mutant: the sampled flag of a remote parent is not taken over.
AlwaysSampled(s, above, r, inbound) ==
  CASE above # NoSpan ->
         [parent |-> above, trace |-> node[above].trace,
          sampled |-> node[above].sampled]
    [] above = NoSpan /\ inbound # "none" ->
         [parent |-> Remote(r), trace |-> Remote(r), sampled |-> TRUE]
    [] OTHER ->
         [parent |-> NoSpan, trace |-> <<"local", s>>, sampled |-> TRUE]

\* A visible local span, then the remote parent, then a fresh trace.
Context(s, above, r, inbound) ==
  CASE above # NoSpan ->
         [parent |-> above, trace |-> node[above].trace,
          sampled |-> node[above].sampled]
    [] above = NoSpan /\ inbound # "none" ->
         [parent |-> Remote(r), trace |-> Remote(r),
          sampled |-> inbound = "sampled"]
    [] OTHER ->
         [parent |-> NoSpan, trace |-> <<"local", s>>, sampled |-> TRUE]

\* SpanId::generate: an identity nobody has.
Fresh(s) ==
  /\ \E u \in Spans : state[u] = "unborn"
  /\ s = CHOOSE u \in Spans : state[u] = "unborn"

\* A new span on thread t under `up` in the registry.  An explicit parent goes
\* before the current span; a span asked to be a root has no explicit parent
\* here and still finds the current one.
OpenSpan(s, t, up, explicit, r, inbound) ==
  LET above == IF explicit # NoSpan THEN explicit ELSE Current(t)
      ctx   == Context(s, above, r, inbound)
  IN /\ Fresh(s)
     /\ state' = [state EXCEPT ![s] = "open"]
     /\ node' = [node EXCEPT ![s] =
          [up |-> up, parent |-> ctx.parent, trace |-> ctx.trace,
           sampled |-> ctx.sampled, fields |-> {},
           by |-> Polled(t),
           alone |-> explicit = NoSpan /\ Polled(t) = Program
                       /\ \A i \in DOMAIN stack[t] : stack[t][i].by # Program]]

-----------------------------------------------------------------------------
(* The middleware.                                                          *)

\* Spans opened and requests called so far, to bound the model.
Total == Cardinality({s \in Spans : state[s] # "unborn"})
           + Cardinality({r \in Requests : request[r].state # "idle"})

\* TracerService::call: an inactive pipeline gets no span; otherwise the root
\* span, not entered yet, belongs to the future.
Call(r, t) ==
  /\ request[r].state = "idle" /\ Free(t) /\ Total + 2 <= MaxTotal
  /\ \E inbound \in Inbound :
       IF active
       THEN \E s \in Spans :
              /\ OpenSpan(s, t, Current(t), NoSpan, r, inbound)
              /\ handles' = [handles EXCEPT ![s] = 1]
              /\ request' = [request EXCEPT
                   ![r] = [@ EXCEPT !.state = "pending", !.root = s,
                                    !.inbound = inbound]]
       ELSE /\ request' = [request EXCEPT
                 ![r] = [@ EXCEPT !.state = "pending", !.inbound = inbound]]
            /\ UNCHANGED <<state, node, handles>>
  /\ UNCHANGED <<active, stack, sent>>

\* The thread is inside the root of a request it is not polling.  The registry
\* does not count the second entry of a span, so what the handler opens next
\* goes under the span entered last before the poll.
Inside(r, t) ==
  request[r].root # NoSpan /\ \E i \in DOMAIN stack[t] : stack[t][i].span = request[r].root

\* ResponseFuture::poll enters the root span and polls the handler.
Poll(r, t) ==
  /\ request[r].state = "pending" /\ Free(t)
  /\ Len(stack[t]) < MaxDepth
  /\ Push(t, request[r].root, r)
  /\ request' = [request EXCEPT
       ![r] = [@ EXCEPT !.state = "polling",
                        !.shadowed = request[r].shadowed \/ Inside(r, t)]]
  /\ UNCHANGED <<active, state, node, handles, sent>>

\* The handler is not done: the guard leaves the root span.
PollPending(r, t) ==
  /\ request[r].state = "polling"
  /\ stack[t] # <<>> /\ Top(t).by = r
  /\ Pop(t)
  /\ request' = [request EXCEPT ![r].state = "pending"]
  /\ UNCHANGED <<active, state, node, handles, sent>>

\* The handler answered; its outcome is recorded field by field.
PollReady(r, t) ==
  /\ request[r].state = "polling"
  /\ stack[t] # <<>> /\ Top(t).by = r
  /\ \E outcome \in Outcomes :
       request' = [request EXCEPT
         ![r] = [@ EXCEPT !.state = "recording", !.outcome = outcome,
                          !.todo = FieldsOf(outcome)]]
  /\ UNCHANGED <<active, state, node, handles, stack, sent>>

\* Span::record finds the span in the registry, or does nothing.
RecordField(r) ==
  LET s == request[r].root IN
  /\ request[r].state = "recording" /\ request[r].todo # <<>>
  /\ request' = [request EXCEPT ![r].todo = Tail(@)]
  /\ node' = IF s # NoSpan /\ state[s] = "open"
             THEN [node EXCEPT ![s].fields = @ \cup {Head(request[r].todo)}]
             ELSE node
  /\ UNCHANGED <<active, state, handles, stack, sent>>

\* Mutant: the guard is leaked when the handler is done.
LeaveRootOpen(t) == UNCHANGED stack

LeaveRoot(t) == Pop(t)

\* Mutant: the root span is exported with the answer, not when it closes.
PollReturnsSends(r, t) ==
  /\ request[r].state = "recording" /\ request[r].todo = <<>>
  /\ stack[t] # <<>> /\ Top(t).by = r
  /\ LeaveRoot(t)
  /\ request' = [request EXCEPT ![r].state = "over"]
  /\ sent' = IF active /\ request[r].root # NoSpan
             THEN Append(sent, request[r].root) ELSE sent
  /\ UNCHANGED <<active, state, node, handles>>

PollReturns(r, t) ==
  /\ request[r].state = "recording" /\ request[r].todo = <<>>
  /\ stack[t] # <<>> /\ Top(t).by = r
  /\ LeaveRoot(t)
  /\ request' = [request EXCEPT ![r].state = "over"]
  /\ UNCHANGED <<active, state, node, handles, sent>>

\* A panic in the handler unwinds through the guards above the root's too.
PollPanics(r, t) ==
  /\ request[r].state = "polling"
  /\ \E i \in DOMAIN stack[t] :
       /\ stack[t][i].by = r
       /\ \A j \in (i + 1)..Len(stack[t]) : stack[t][j].by = Program
       /\ stack' = [stack EXCEPT ![t] = SubSeq(@, 1, i - 1)]
  /\ request' = [request EXCEPT ![r].state = "over"]
  /\ UNCHANGED <<active, state, node, handles, sent>>

\* The future is dropped: after its answer, after a panic, or early, by a
\* client that went away.
DropFuture(r) ==
  /\ request[r].state \in {"pending", "over"}
  /\ request' = [request EXCEPT ![r].state = "dropped"]
  /\ handles' = IF request[r].root = NoSpan THEN handles
                ELSE [handles EXCEPT ![request[r].root] = @ - 1]
  /\ UNCHANGED <<active, state, node, stack, sent>>

-----------------------------------------------------------------------------
(* The program: handlers and the tasks they spawn.                          *)

Roots == {request[r].root : r \in Requests} \ {NoSpan}

\* Mutant: the future does not keep the root span alive.
OwnedByNobody(s) == 0

\* The handle a response future holds.
Owned(s) ==
  Cardinality({r \in Requests : request[r].root = s /\ request[r].state # "dropped"})

\* The handles the program holds.
Held(s) == handles[s] - Owned(s)
HandlesHeld == {h \in Spans \X (1..MaxHeld) : h[2] <= Held(h[1])}
MayHoldMore == Cardinality(HandlesHeld) < MaxHeld

\* Spans a thread may use: a handler those of its own request, a background task
\* any it was given a handle of.
Usable(t) ==
  {s \in Spans :
     LET r == Polled(t) IN
     IF r = Program THEN Held(s) > 0
     ELSE request[r].root = s \/ (node[s].by = r /\ Held(s) > 0)}

\* info_span!: contextual, with an explicit parent, or an explicit root.
StartSpan(t, s) ==
  /\ Free(t) /\ MayHoldMore /\ Total < MaxTotal
  /\ Cardinality({u \in Spans : state[u] # "unborn"} \ Roots) < MaxOwn
  /\ \/ OpenSpan(s, t, Current(t), NoSpan, NoSpan, "none")
     \/ \E p \in Usable(t) : OpenSpan(s, t, p, p, NoSpan, "none")
     \/ OpenSpan(s, t, NoSpan, NoSpan, NoSpan, "none")
  /\ handles' = [handles EXCEPT ![s] = 1]
  /\ UNCHANGED <<active, stack, request, sent>>

EnterSpan(t, s) ==
  /\ Free(t) /\ s \in Usable(t) /\ Len(stack[t]) < MaxDepth
  /\ Push(t, s, Program)
  /\ UNCHANGED <<active, state, node, handles, request, sent>>

ExitSpan(t) ==
  /\ stack[t] # <<>> /\ Top(t).by = Program
  /\ Pop(t)
  /\ UNCHANGED <<active, state, node, handles, request, sent>>

\* Span::current(), to take along into a spawned task.
CloneCurrent(t) ==
  LET s == Current(t) IN
  /\ Free(t) /\ s # NoSpan /\ MayHoldMore
  /\ handles' = [handles EXCEPT ![s] = @ + 1]
  /\ UNCHANGED <<active, state, node, stack, request, sent>>

DropHandle(s) ==
  /\ Held(s) > 0
  /\ handles' = [handles EXCEPT ![s] = @ - 1]
  /\ UNCHANGED <<active, state, node, stack, request, sent>>

-----------------------------------------------------------------------------

\* OtelLayer::on_close, when the last reference is gone; Pipeline::send looks
\* at `active` once more.
OnClose(s) ==
  /\ state[s] = "open" /\ ~Referenced(s)
  /\ state' = [state EXCEPT ![s] = "closed"]
  /\ sent' = IF active THEN Append(sent, s) ELSE sent
  /\ UNCHANGED <<active, node, handles, stack, request>>

\* Pipeline::shutdown clears the flag.
Shutdown ==
  /\ active /\ active' = FALSE
  /\ UNCHANGED <<state, node, handles, stack, request, sent>>

Init ==
  /\ active = TRUE /\ sent = <<>>
  /\ state = [s \in Spans |-> "unborn"]
  /\ node = [s \in Spans |->
       [up |-> NoSpan, parent |-> NoSpan, trace |-> <<"local", s>>,
        sampled |-> TRUE, fields |-> {}, by |-> Program, alone |-> FALSE]]
  /\ handles = [s \in Spans |-> 0]
  /\ stack = [t \in Threads |-> <<>>]
  /\ request = [r \in Requests |->
       [state |-> "idle", root |-> NoSpan, inbound |-> "none",
        outcome |-> "none", todo |-> <<>>, shadowed |-> FALSE]]

Next ==
  \/ \E r \in Requests : RecordField(r) \/ DropFuture(r)
  \/ \E r \in Requests, t \in Threads :
       \/ Call(r, t) \/ Poll(r, t) \/ PollPending(r, t) \/ PollReady(r, t)
       \/ PollReturns(r, t) \/ PollPanics(r, t)
  \/ \E t \in Threads, s \in Spans : StartSpan(t, s) \/ EnterSpan(t, s)
  \/ \E t \in Threads : ExitSpan(t) \/ CloneCurrent(t)
  \/ \E s \in Spans : DropHandle(s) \/ OnClose(s)
  \/ Shutdown

Spec == Init /\ [][Next]_vars

-----------------------------------------------------------------------------
(* Properties.                                                              *)

Traces == {<<"local", s>> : s \in Spans} \cup {Remote(r) : r \in Requests}

\* A thread is only ever inside spans that are open, and handles are counted
\* down to zero once.
TypeOK ==
  /\ active \in BOOLEAN
  /\ state \in [Spans -> {"unborn", "open", "closed"}]
  /\ \A s \in Spans :
       /\ node[s].up \in Spans \cup {NoSpan}
       /\ node[s].parent \in Spans \cup {NoSpan} \cup {Remote(r) : r \in Requests}
       /\ node[s].trace \in Traces /\ node[s].sampled \in BOOLEAN
  /\ handles \in [Spans -> 0..(MaxHeld + 1)]
  /\ \A t \in Threads : \A i \in DOMAIN stack[t] :
       stack[t][i].span # NoSpan => state[stack[t][i].span] = "open"
  /\ Range(sent) \subseteq {s \in Spans : state[s] = "closed"}

\* Requests do not bleed into each other, however their polls interleave on the
\* threads: what a handler opens belongs to its request's trace, unless a thread
\* polled the request from inside its root already, and what is opened outside
\* every poll and every span belongs to no earlier one.
TracesSeparate ==
  \A s \in Spans : state[s] # "unborn" =>
    /\ LET r == node[s].by IN
       r # Program /\ request[r].root # NoSpan /\ ~request[r].shadowed =>
         node[s].trace = node[request[r].root].trace
    /\ node[s].alone => node[s].parent \notin Spans

\* An exported root span carries every field of its request's outcome, and a
\* request that was cancelled or panicked exports none: the future keeps the
\* span open until all of them are recorded.
OutcomeExported ==
  \A r \in Requests : request[r].root \in Range(sent) =>
    node[request[r].root].fields =
      IF request[r].outcome = "none" THEN {} ELSE Range(FieldsOf(request[r].outcome))

\* While the pipeline is active every span that closed was exported, once, and
\* a parent after all of its children, on whatever threads they closed.
ChildrenFirst ==
  /\ \A i, j \in DOMAIN sent :
       i < j => sent[i] # sent[j] /\ node[sent[j]].up # sent[i]
  /\ active => Range(sent) = {s \in Spans : state[s] = "closed"}

\* The inbound context reaches every span of a request that no local span
\* encloses: trace, parent and sampling decision of the caller.
InboundAdopted ==
  /\ \A r \in Requests :
       LET s == request[r].root IN
       s # NoSpan /\ node[s].alone /\ request[r].inbound # "none" =>
         /\ node[s].parent = Remote(r) /\ node[s].trace = Remote(r)
         /\ node[s].sampled = (request[r].inbound = "sampled")
  /\ \A s \in Spans : node[s].parent \in Spans =>
       /\ node[s].trace = node[node[s].parent].trace
       /\ node[s].sampled = node[node[s].parent].sampled
=============================================================================
