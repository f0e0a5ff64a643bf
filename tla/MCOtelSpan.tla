----------------------------- MODULE MCOtelSpan -----------------------------
(* A small instance of OtelSpan for TLC.                                    *)
EXTENDS SpanExport

Field(key, by, text) == [key |-> key, by |-> by, text |-> text]

CapturedNames == {"etag"}
CapturedTexts == {"v"}
WideNumbers   == {"2^63"}

\* Two ordinary keys and three protected ones, one of them a captured header;
\* every control field as a string, the status code also as a number.
SomeFields ==
  {Field("url.path", "str", "v"), Field("error", "bool", "true"),
   Field("http.route", "debug", "v"),
   Field("http.response.status_code", "u64", "200"),
   Field("http.response.status_code", "u64", "2^63"),
   Field("http.response.header", "str", "etag=v"),
   Field("http.response.header", "str", "no separator"),
   Field("otel.kind", "str", "producer"),
   Field("otel.status_code", "str", "ok"),
   Field("otel.status_code", "str", "error"),
   Field("otel.status_code", "i64", "2"),
   Field("otel.status_message", "str", "m"),
   Field("remote.trace_id", "debug", "1")}

\* A plain log line, an error with a message, with an error attribute that is
\* not a string, and with an empty message.
SomeEvents ==
  {[name |-> "event src/main.rs:1", level |-> "INFO",
    fields |-> <<Field("message", "debug", "hello")>>],
   [name |-> "event src/main.rs:2", level |-> "ERROR",
    fields |-> <<Field("message", "str", "boom"), Field("ratio", "f64", "0.5")>>],
   [name |-> "event src/main.rs:3", level |-> "INFO",
    fields |-> <<Field("error", "i64", "7")>>],
   [name |-> "event src/main.rs:4", level |-> "ERROR",
    fields |-> <<Field("error", "str", "")>>]}

OneContext == {[trace_id |-> "t9", span_id |-> "s9"]}

\* A resource attribute under a key spans use too.
Deployment == <<[key |-> "url.path", text |-> "r"], [key |-> "host", text |-> "h"]>>
NoService  == <<>>

\* A root, and a child in another state of its trace whose times are out of
\* the range of the wire.
HeadWith(parent, state, sampled, start, end) ==
  [trace_id |-> "t1", span_id |-> "s1", parent_span_id |-> parent,
   trace_state |-> state, is_sampled |-> sampled,
   start_time |-> start, end_time |-> end]

TwoHeads == <<HeadWith(None, None, TRUE, 5, 8),
              HeadWith(<<"s0">>, <<"vendor=1">>, FALSE, -3, 19)>>
=============================================================================
