---------------------------- MODULE RequestSpan ----------------------------
(* The root span of one HTTP request, from the headers of the request to    *)
(* the record that is exported: TracerService::call, build_root_span, the   *)
(* query redaction, the remote parent the layer adopts, what the answer of  *)
(* the inner service records, response header capture, and error events of  *)
(* the handler in between.  The pipeline is enabled and the layer installed *)
(* (otherwise the span is none and every record a no-op).  RequestTracing   *)
(* has the threads, polls and child spans; this module the contents.        *)
(* A header name is a sequence of tokens, <<"set", "-", "cookie">>.         *)
EXTENDS SpanRecord, TraceContext

CONSTANTS
  Requests, Responses, HandlerEvents, HandlerFields,  \* inputs
  RandomIds,    \* what the OS may draw for a trace id
  MaxHandled,   \* bound on what the handler does to the root span
  CapturePrefixes,  \* header prefixes to capture, as configured
  Decoded,      \* external: the percent-decoded lower-case name of a query key
  Lower         \* external: the lower-case form of a token that is not

VARIABLES
  stage,      \* "idle", "open", "answered" or "closed"
  request, response,  \* history: the inputs of the request
  said,       \* history: events and fields of the handler, in order
  span,       \* the OtelSpan record of the root span
  context     \* [trace_id, parent_span_id, is_sampled, trace_state] it got

vars == <<stage, request, response, said, span, context>>

-----------------------------------------------------------------------------
(* Redaction of the query, a sequence of segments [key, joined, value];     *)
(* joined tells whether the segment has a "=".                              *)

SensitiveQueryParameters ==
  {"access_token", "id_token", "refresh_token", "token", "api_key", "api-key",
   "apikey", "client_secret", "password", "passwd", "secret", "authorization",
   "auth", "code", "session", "session_id", "signature", "sig",
   "x-amz-signature", "x-amz-credential", "x-amz-security-token",
   "x-goog-signature"}

\* Mutant: the name is compared as it is spelled.
IsSensitiveAsSpelled(key) == key \in SensitiveQueryParameters

IsSensitiveQueryParameter(key) == Decoded[key] \in SensitiveQueryParameters

HasSensitiveValue(segment) ==
  segment.joined /\ IsSensitiveQueryParameter(segment.key)

SanitizeQuery(query) ==
  [i \in DOMAIN query |->
     IF HasSensitiveValue(query[i]) THEN [query[i] EXCEPT !.value = "REDACTED"]
                                    ELSE query[i]]

-----------------------------------------------------------------------------
(* build_root_span and OtelLayer::on_new_span.                              *)

Str(key, text) == [key |-> key, by |-> "str", text |-> text]

\* The first value of a header, if it is visible ASCII.
FirstOf(values) == IF values = <<>> \/ ~values[1].ascii THEN Nothing
                   ELSE Just(values[1].text)

\* Mutant: a slot build_root_span forgets to declare.
LateFieldsWithoutErrorType ==
  {"http.route", "http.response.status_code", "otel.status_code",
   "user_agent.original", "server.address", "http.response.header"}

LateFields ==
  {"http.route", "http.response.status_code", "otel.status_code", "error.type",
   "user_agent.original", "server.address", "http.response.header"}

\* Span::record on a span that declared these fields: a field that it did not
\* declare, or a value that is not there, is a no-op.
RecordField(s, declared, option) ==
  IF option = Nothing THEN s
  ELSE IF option[1].key \in declared THEN HandleField(s, option[1]) ELSE s

\* Several values, one after the other.
RecordFields(s, declared, options) ==
  LET after[n \in 0..Len(options)] ==
        IF n = 0 THEN s ELSE RecordField(after[n - 1], declared, options[n])
  IN after[Len(options)]

SpanName(req) == IF req.route = Nothing THEN req.method
                 ELSE req.method \o " " \o req.route[1]

DeclaredWith(req) ==
  <<Str("http.request.method", req.method), Str("url.path", req.path),
    Str("url.query", SanitizeQuery(req.query)),
    Str("url.scheme", IF req.scheme = Nothing THEN "http" ELSE req.scheme[1]),
    Str("network.protocol.name", "http"),
    Str("otel.name", SpanName(req)), Str("otel.kind", "server")>>

\* The remote fields are declared only beside a traceparent that parses.
RemoteOf(req) ==
  LET header == FirstOf(req.traceparent)
      tp     == ParseTraceparent(header[1])
      raw    == FirstOf(req.tracestate)
  IN IF header = Nothing THEN <<>>
     ELSE IF ~tp.ok THEN <<>>
     ELSE RemoteFieldsOf(tp, IF raw = Nothing THEN Nothing ELSE FromHeader(raw[1]))

\* No span is current: the remote parent, or a fresh trace.
ContextOf(fields, draws) ==
  LET remote == ExtractRemoteParent(fields) IN
  IF remote # Nothing THEN remote[1]
  ELSE [trace_id |-> Generate(draws), parent_span_id |-> Nothing,
        is_sampled |-> TRUE, trace_state |-> Nothing]

\* What call records once the span is there.
StrOf(key, option) == IF option = Nothing THEN Nothing
                      ELSE Just(Str(key, option[1]))
LateOf(req) ==
  <<StrOf("user_agent.original", FirstOf(req.user_agent)),
    StrOf("server.address", FirstOf(req.host)), StrOf("http.route", req.route)>>

\* The new span, with the fields the macro gives values.
Built(fields) ==
  RecordFields(NewSpan("HTTP request"), {fields[i].key : i \in DOMAIN fields},
               [i \in DOMAIN fields |-> Just(fields[i])])

\* What the macro of build_root_span declares, with and without a value.
DeclaredFields(req) ==
  LET given == DeclaredWith(req) \o RemoteOf(req)
  IN {given[i].key : i \in DOMAIN given} \cup LateFields

Call(req, draws) ==
  LET fields == DeclaredWith(req) \o RemoteOf(req) IN
  /\ stage = "idle" /\ stage' = "open"
  /\ request' = req
  /\ context' = ContextOf(fields, draws)
  /\ span' = RecordFields(Built(fields), LateFields, LateOf(req))
  /\ UNCHANGED <<response, said>>

-----------------------------------------------------------------------------
(* The handler, while it is polled, or a task it left behind.               *)

Handled == stage \in {"open", "answered"} /\ Len(said) < MaxHandled

HandlerEvent(e) ==
  /\ Handled
  /\ span' = WithEvent(span, e)
  /\ said' = Append(said, [stage |-> stage, event |-> e])
  /\ UNCHANGED <<stage, request, response, context>>

\* Span::record: any field the root declares, even one that has its value.
HandlerRecord(f) ==
  /\ Handled
  /\ span' = RecordField(span, DeclaredFields(request), Just(f))
  /\ said' = Append(said, [stage |-> stage, field |-> f])
  /\ UNCHANGED <<stage, request, response, context>>

-----------------------------------------------------------------------------
(* ResponseFuture::poll, when the inner future is ready.                    *)

Concat(tokens) == FoldLeft(LAMBDA a, b : a \o b, "", tokens)

\* Mutant: cookies are only looked for in a request.
IsSensitiveExceptSetCookie(name) ==
  Concat(name) \in {"authorization", "cookie", "proxy-authorization",
                    "proxy-authenticate"}

IsSensitiveResponseHeader(name) ==
  Concat(name) \in {"authorization", "cookie", "set-cookie",
                    "proxy-authorization", "proxy-authenticate"}

Lowered(prefix) ==
  [i \in DOMAIN prefix |->
     IF prefix[i] \in DOMAIN Lower THEN Lower[prefix[i]] ELSE prefix[i]]

Normalized(name) == [i \in DOMAIN name |-> IF name[i] = "-" THEN "_" ELSE name[i]]

\* The values of a header that are visible ASCII, joined by commas.
Readable(values) == SelectSeq(values, LAMBDA v : v.ascii)
Joined(values) ==
  FoldLeft(LAMBDA a, v : a \o "," \o v.text, values[1].text, Tail(values))

Captured(h) ==
  /\ ~IsSensitiveResponseHeader(h.name)
  /\ \E p \in CapturePrefixes : IsPrefix(Lowered(p), h.name)
  /\ Readable(h.values) # <<>>

\* The one declared field all captured headers are funnelled through.
HeaderField(h) == Str("http.response.header",
  Concat(Normalized(h.name)) \o "=" \o Joined(Readable(h.values)))

HeaderFields(headers) ==
  [i \in DOMAIN headers |-> IF Captured(headers[i]) THEN Just(HeaderField(headers[i]))
                            ELSE Nothing]

CodeText(code) == ToString(code)
StatusField(res)  == [key |-> "http.response.status_code", by |-> "i64",
                      text |-> CodeText(res.code)]
FailureFields(why) ==
  <<Just(Str("otel.status_code", "error")), Just(Str("error.type", why))>>

\* Mutant: the headers are captured before the failure is recorded.
FieldsOfAnswerHeadersFirst(res) ==
  IF res.kind = "err" THEN FailureFields(res.type)
  ELSE <<Just(StatusField(res))>> \o HeaderFields(res.headers)
         \o (IF res.code >= 500 THEN FailureFields(CodeText(res.code)) ELSE <<>>)

FieldsOfAnswer(res) ==
  IF res.kind = "err" THEN FailureFields(res.type)
  ELSE <<Just(StatusField(res))>>
         \o (IF res.code >= 500 THEN FailureFields(CodeText(res.code)) ELSE <<>>)
         \o HeaderFields(res.headers)

Answer(res) ==
  /\ stage = "open" /\ stage' = "answered"
  /\ response' = res
  /\ span' = RecordFields(span, LateFields, FieldsOfAnswer(res))
  /\ UNCHANGED <<request, said, context>>

\* The last handle goes: the future was dropped, before it was ready or after.
Close ==
  /\ stage \in {"open", "answered"} /\ stage' = "closed"
  /\ UNCHANGED <<request, response, said, span, context>>

-----------------------------------------------------------------------------
(* What the inputs are.  The budget is wide enough for the attributes the   *)
(* middleware declares, a route, a user agent and a host, an outcome and an *)
(* error event, so that captured headers alone can exhaust it.              *)

IsList(list) == list \in Seq({list[i] : i \in DOMAIN list})

OwnKeys == {"http.request.method", "url.path", "url.query", "url.scheme",
            "network.protocol.name"} \cup LateFields

\* No attribute of a header has one of the other keys: its own starts with
\* http.response.header and a dot.
ASSUME CapAssumption ==
  /\ AttributeCap >= 11
  /\ \A name \in HeaderNames :
       HeaderKey(name) \notin OwnKeys \cup ControlFields \cup RemoteFields

\* The numbers that hex digits write, and the bytes of a tracestate.
ASSUME RequestsAssumption ==
  \A req \in Requests :
    /\ IsList(req.query) /\ IsList(req.traceparent) /\ IsList(req.tracestate)
    /\ \A i \in DOMAIN req.query : DOMAIN req.query[i] = {"key", "joined", "value"}
    /\ \A i \in DOMAIN req.traceparent :
         LET parts == req.traceparent[i].text IN
         IsList(parts) /\ \A j \in DOMAIN parts : parts[j].value \in Nat
    /\ \A i \in DOMAIN req.tracestate :
         LET raw == req.tracestate[i].text IN
         /\ DOMAIN raw = {"value", "padded", "length"} /\ raw.length \in Nat
         /\ raw.length = 0 <=> raw.value = ""

\* A header name never contains "=", so that the joined text of a header is
\* split where it was joined.
ASSUME ResponsesAssumption ==
  \A res \in Responses :
    \/ res.kind = "err"
    \/ /\ res.kind = "ok" /\ res.code \in Nat /\ IsList(res.headers)
       /\ \A i \in DOMAIN res.headers :
            LET h == res.headers[i] IN
            Readable(h.values) # <<>> =>
              HeaderOf(HeaderField(h).text)
                = {<<Concat(Normalized(h.name)), Joined(Readable(h.values))>>}

CONSTANT Secrets  \* the values only credentials have in the inputs

\* The response headers that RFC 6265 and RFC 9110 give credentials to carry.
CredentialHeaders == {"authorization", "cookie", "set-cookie",
                      "proxy-authorization", "proxy-authenticate"}

\* Secrets are the values of sensitive query parameters, and values found in
\* no header but those of CredentialHeaders; no other input has them.
Texts(options) == {options[i][1] : i \in {j \in DOMAIN options : options[j] # Nothing}}
ASSUME SecretsAssumption ==
  /\ Secrets \cap {"http", "error", "REDACTED"} = {}
  /\ \A req \in Requests :
       /\ Secrets \cap Texts(<<Just(req.method), Just(req.path), req.scheme, req.route,
                              FirstOf(req.user_agent), FirstOf(req.host)>>) = {}
       /\ \A i \in DOMAIN req.query :
            req.query[i].value \in Secrets
              <=> /\ req.query[i].joined
                  /\ Decoded[req.query[i].key] \in SensitiveQueryParameters
  /\ \A res \in Responses :
       IF res.kind = "err" THEN res.type \notin Secrets
       ELSE /\ CodeText(res.code) \notin Secrets
            /\ \A i \in DOMAIN res.headers :
                 LET h == res.headers[i] IN
                 Readable(h.values) # <<>> /\ Concat(h.name) \notin CredentialHeaders
                   => Joined(Readable(h.values)) \notin Secrets
  /\ \A e \in HandlerEvents : Explanation(e) \notin Secrets
  /\ \A f \in HandlerFields :
       f.text \notin Secrets /\ \A h \in HeaderOf(f.text) : h[2] \notin Secrets

NoResponse == [kind |-> "none"]

Init ==
  /\ stage = "idle" /\ request = Nothing /\ response = NoResponse
  /\ said = <<>> /\ span = NewSpan("") /\ context = Nothing

Next ==
  \/ \E req \in Requests, first, second \in RandomIds :
       (first # 0 \/ second # 0) /\ Call(req, <<first, second>>)
  \/ \E e \in HandlerEvents : HandlerEvent(e)
  \/ \E f \in HandlerFields : HandlerRecord(f)
  \/ \E res \in Responses : Answer(res)
  \/ Close

Spec == Init /\ [][Next]_vars

-----------------------------------------------------------------------------
(* Properties.                                                              *)

Stored     == {span.attributes[i].key : i \in DOMAIN span.attributes}
ValueOf(k) == span.attributes[Position(span.attributes, k)].value
Traced     == stage # "idle"
Answered   == response # NoResponse

\* The handler recorded one of these fields.
Wrote(keys) ==
  \E i \in DOMAIN said : "field" \in DOMAIN said[i] /\ said[i].field.key \in keys

\* No credential leaves in the query or in a captured header, however its
\* parameter is spelled and whatever prefix is configured; and every other
\* segment of the query is exported as it came, in its place, unless the
\* handler records a query of its own over it, which nothing redacts.
SecretsStayOut ==
  Traced =>
    /\ \A k \in Stored \ {"url.query"} : ValueOf(k).text \notin Secrets
    /\ "url.query" \in Stored /\ ~Wrote({"url.query"}) =>
         LET kept == ValueOf("url.query").text IN
         /\ Len(kept) = Len(request.query)
         /\ \A i \in DOMAIN kept :
              /\ kept[i].key = request.query[i].key
              /\ kept[i].joined = request.query[i].joined
              /\ kept[i].value # request.query[i].value
                   <=> request.query[i].value \in Secrets

\* The inbound context reaches the span: of a traceparent any W3C peer may
\* write, the two identifiers and the sampled bit, with the trimmed tracestate;
\* what cannot be read starts a sampled trace of its own, with an identifier
\* that is never zero and no tracestate.  What was read is written back to the
\* same context, and no remote field is exported.
Readable00(parts) ==
  /\ Len(parts) = 4 /\ \A i \in 1..4 : parts[i].hex
  /\ parts[1].value = 0 /\ parts[2].value # 0 /\ parts[3].value # 0
  /\ <<parts[1].length, parts[2].length, parts[3].length, parts[4].length>>
       = <<2, TraceIdLength, SpanIdLength, 2>>
ContextArrives ==
  LET header == request.traceparent
      good   == header # <<>> /\ header[1].ascii /\ Readable00(header[1].text)
      parts  == header[1].text
      state  == FirstOf(request.tracestate)
      again  == ParseTraceparent(DisplayTraceparent(ParseTraceparent(parts)))
  IN Traced =>
       /\ context.trace_id # 0 /\ Stored \cap RemoteFields = {}
       /\ good =>
            /\ context.trace_id = parts[2].value
            /\ context.parent_span_id = Just(parts[3].value)
            /\ context.is_sampled <=> parts[4].value % 2 = 1
            /\ again.trace_id = parts[2].value /\ again.parent_id = parts[3].value
            /\ again.flags = parts[4].value % 2
            /\ context.trace_state # Nothing <=>
                 state # Nothing /\ state[1].value # ""
                                 /\ state[1].length <= MaxTraceStateLen
            /\ context.trace_state # Nothing =>
                 context.trace_state[1].value = state[1].value
                   /\ ~context.trace_state[1].padded
       /\ ~good =>
            /\ context.parent_span_id = Nothing /\ context.is_sampled
            /\ context.trace_state = Nothing

\* The handler wrote attributes of the middleware itself, which nothing forbids.
Meddled == Wrote({"http.route", "http.response.status_code", "error.type",
                  "http.response.header"})

\* The outcome survives the budget: status code, route and error type are
\* exported with their values however many headers are captured, and as many
\* of those as the budget then holds.
OutcomeKept ==
  LET failed   == response.kind = "err" \/ (response.kind = "ok" /\ response.code >= 500)
      wanted   == (IF response.kind = "ok" THEN {"http.response.status_code"} ELSE {})
                    \cup (IF failed THEN {"error.type"} ELSE {})
                    \cup (IF request.route # Nothing THEN {"http.route"} ELSE {})
      headers  == IF response.kind = "err" THEN {}
                  ELSE {HeaderKey(Concat(Normalized(response.headers[i].name))) :
                          i \in {j \in DOMAIN response.headers :
                                   Captured(response.headers[j])}}
  IN Answered /\ ~Meddled =>
       /\ wanted \subseteq Stored
       /\ response.kind = "ok" =>
            ValueOf("http.response.status_code")
              = [type |-> "Int", text |-> CodeText(response.code)]
       /\ request.route # Nothing => ValueOf("http.route").text = request.route[1]
       /\ Cardinality(headers \cap Stored)
            = Min({Cardinality(headers), AttributeCap - Cardinality(wanted)})

\* A request that failed is exported as failed, unless a task the handler left
\* behind records another status after the answer; and it is told by its first
\* error event before the answer if the handler recorded no field before it,
\* which could fill the budget or set a status.  An error event after the
\* answer changes nothing.
FailureExplained ==
  LET fieldAt(i, when) == "field" \in DOMAIN said[i] /\ said[i].stage = when
      spoken == \E i \in DOMAIN said : fieldAt(i, "open")
      retold == \E i \in DOMAIN said :
                  fieldAt(i, "answered") /\ said[i].field.key = "otel.status_code"
      first  == SelectInSeq(said, LAMBDA x : /\ x.stage = "open"
                                             /\ "event" \in DOMAIN x
                                             /\ IsErrorEvent(x.event))
  IN Answered /\ (response.kind = "err" \/ response.code >= 500) /\ ~retold =>
       /\ span.status.code = "error"
       /\ ~spoken => span.status.message =
            IF first = 0 THEN "" ELSE Explanation(said[first].event)
=============================================================================
