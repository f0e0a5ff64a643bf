---------------------------- MODULE MCRequestSpan ----------------------------
(* The inputs of RequestSpan for TLC: one dimension of a request is unusual *)
(* at a time, every one of them with every answer and every handler.        *)
EXTENDS RequestSpan

CapturedTexts == {"v", "v,w", "u", "c00kie", "c00kie,v"}
WideNumbers   == {}
TwoSecrets    == {"s3cret", "c00kie", "c00kie,v"}
DrawnIds      == {0, 77}

-----------------------------------------------------------------------------
(* Requests.                                                                *)

Ascii(text) == [text |-> text, ascii |-> TRUE]
Bytes(text) == [text |-> text, ascii |-> FALSE]

Plain == [method |-> "GET", path |-> "/items/7", scheme |-> Nothing,
          route |-> Just("/items/{id}"), query |-> <<>>, traceparent |-> <<>>,
          tracestate |-> <<>>, user_agent |-> <<Ascii("agent")>>,
          host |-> <<Ascii("example.org")>>]

Hex(length, value)   == HexText(length, TRUE, value, FALSE)
Header(trace, parent, flags) == <<Hex(2, 0), trace, parent, flags>>
Trace  == Hex(32, 5)
Parent == Hex(16, 6)

Traceparents ==
  {Header(Trace, Parent, Hex(2, flags)) : flags \in {0, 1, 2, 3, 255}}
    \cup {Header(HexText(32, TRUE, 5, TRUE), HexText(16, TRUE, 6, TRUE), Hex(2, 1)),
          Header(Hex(32, 0), Parent, Hex(2, 1)), Header(Trace, Hex(16, 0), Hex(2, 1)),
          Header(Hex(31, 5), Parent, Hex(2, 1)), Header(Trace, Hex(32, 6), Hex(2, 1)),
          Header(HexText(32, FALSE, 5, FALSE), Parent, Hex(2, 1)),
          Header(Trace, Parent, Hex(1, 1)),
          Header(Trace, Parent, HexText(2, FALSE, 1, FALSE)),
          <<Hex(2, 1), Trace, Parent, Hex(2, 1)>>, <<Hex(0, 0)>>,
          <<Hex(2, 0), Trace, Parent>>,
          <<Hex(2, 0), Trace, Parent, Hex(2, 1), Hex(2, 0)>>}

Good   == Header(Trace, Parent, Hex(2, 1))
Zero   == Header(Hex(32, 0), Parent, Hex(2, 1))
Other  == Header(Hex(32, 8), Parent, Hex(2, 0))

State(value, padded, length) ==
  [value |-> value, padded |-> padded, length |-> length]
Tracestates ==
  {State("vendor=1", FALSE, 8), State("vendor=1", TRUE, 8), State("", TRUE, 0),
   State("long", FALSE, 512), State("longer", FALSE, 513)}

WithContext ==
  {[Plain EXCEPT !.traceparent = <<Ascii(header)>>] : header \in Traceparents}
    \cup {[Plain EXCEPT !.traceparent = <<Ascii(Good)>>,
                        !.tracestate = <<Ascii(state)>>] : state \in Tracestates}
    \cup {[Plain EXCEPT !.traceparent = <<Ascii(Zero), Ascii(Good)>>,
                        !.tracestate = <<Ascii(State("vendor=1", FALSE, 8))>>],
          [Plain EXCEPT !.traceparent = <<Ascii(Good), Ascii(Other)>>,
                        !.tracestate = <<Bytes(State("vendor=1", FALSE, 8))>>],
          [Plain EXCEPT !.traceparent = <<Bytes(Good)>>]}

KeyNames == ("token" :> "token") @@ ("TOKEN" :> "token") @@ ("t%6Fken" :> "token")
              @@ ("page" :> "page") @@ ("tokens" :> "tokens") @@ ("" :> "")
Segment(key, value) == [key |-> key, joined |-> TRUE, value |-> value]
Bare(key) == [key |-> key, joined |-> FALSE, value |-> ""]

WithQuery ==
  {[Plain EXCEPT !.query = query] :
     query \in {<<Segment("page", "2"), Segment("token", "s3cret"), Segment("page", "3")>>,
                <<Segment("t%6Fken", "s3cret"), Bare("token"), Segment("tokens", "2")>>,
                <<Bare(""), Segment("TOKEN", "s3cret"), Segment("", "2")>>,
                <<Segment("page", "2"), Bare("page")>>}}

Unrouted ==
  {[Plain EXCEPT !.route = Nothing, !.scheme = Just("https"), !.host = <<>>],
   [Plain EXCEPT !.user_agent = <<Bytes("agent"), Ascii("agent")>>]}

SomeRequests == {Plain} \cup WithContext \cup WithQuery \cup Unrouted

-----------------------------------------------------------------------------
(* Answers.  More headers match the prefixes than the budget holds.         *)

OfHeader(name, values) == [name |-> name, values |-> values]
Letters  == <<"a", "b", "c", "d", "e", "f", "g", "h", "i", "j", "k", "l", "m", "n">>
Numerous == [i \in DOMAIN Letters |->
               OfHeader(<<"x", "-", Letters[i]>>, <<Ascii("v")>>)]
Mixed ==
  <<OfHeader(<<"content", "-", "type">>, <<Ascii("u")>>),
    OfHeader(<<"x", "-", "a">>, <<Ascii("v"), Bytes("u"), Ascii("w")>>),
    OfHeader(<<"set", "-", "cookie">>, <<Ascii("c00kie"), Ascii("v")>>),
    OfHeader(<<"x", "_", "a">>, <<Ascii("u")>>),
    OfHeader(<<"x", "-", "b">>, <<Bytes("u")>>),
    OfHeader(<<"cookie">>, <<Ascii("c00kie")>>)>>

UpperX       == "X" :> "x"
TwoPrefixes  == {<<"X">>, <<"set">>, <<"cookie">>}
CapturedNames == {"x_" \o Letters[i] : i \in DOMAIN Letters} \cup {"set_cookie", "cookie", "content_type"}

Ok(code, headers) == [kind |-> "ok", code |-> code, headers |-> headers]
SomeResponses ==
  {Ok(204, <<>>), Ok(200, Mixed), Ok(499, Numerous), Ok(500, Numerous),
   Ok(503, Mixed), [kind |-> "err", type |-> "hyper::Error"]}

-----------------------------------------------------------------------------
(* The handler.                                                             *)

Event(level, fields) == [name |-> "event src/handler.rs:1", level |-> level,
                         timestamp |-> 0, fields |-> fields]
SomeEvents ==
  {Event("INFO", <<Str("message", "ok so far")>>),
   Event("ERROR", <<Str("message", "first")>>),
   Event("INFO", <<Str("error", "second")>>)}
SomeFields == {Str("otel.status_code", "ok"), Str("user.id", "u"),
               Str("http.route", "/mine"), Str("url.query", "page=2")}
=============================================================================
