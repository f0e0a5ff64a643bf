---------------------------- MODULE TraceContext ----------------------------
(* W3C trace context as text: the identifiers (context.rs), the traceparent *)
(* and tracestate headers (propagation), and the remote.* fields a parent   *)
(* travels in from the middleware to the layer (layer.rs).  A hex text is   *)
(* held as its length, whether all of it is hex, the number it writes and   *)
(* the case it is written in; an identifier is that number, 0 the zero one. *)
EXTENDS Integers, SequencesExt

CONSTANTS
  TraceIdLength,     \* hex digits of a trace id, 32
  SpanIdLength,      \* hex digits of a span id, 16
  MaxTraceStateLen   \* bytes of a tracestate that is kept, 512

ASSUME LengthAssumption ==
  TraceIdLength \in Nat /\ SpanIdLength \in Nat /\ MaxTraceStateLen \in Nat

Nothing == <<>>
Just(x) == <<x>>

HexText(length, hex, value, upper) ==
  [length |-> length, hex |-> hex, value |-> value, upper |-> upper]

Parsed(id)    == [ok |-> TRUE, id |-> id]
Rejected(why) == [ok |-> FALSE, error |-> why]

-----------------------------------------------------------------------------
(* TraceId and SpanId: FromStr, Display, generate.                          *)

\* The first of the three checks that fails names the error; case is free.
ParseId(text, length) ==
  IF text.length # length THEN Rejected("InvalidLength")
  ELSE IF ~text.hex THEN Rejected("InvalidHex")
  ELSE IF text.value = 0 THEN Rejected("Zero") ELSE Parsed(text.value)

ParseTraceId(text) == ParseId(text, TraceIdLength)
ParseSpanId(text)  == ParseId(text, SpanIdLength)

DisplayTraceId(id) == HexText(TraceIdLength, TRUE, id, FALSE)
DisplaySpanId(id)  == HexText(SpanIdLength, TRUE, id, FALSE)

\* The OS is asked again until what it draws is not zero.
Generate(draws) == draws[SelectInSeq(draws, LAMBDA id : id # 0)]

-----------------------------------------------------------------------------
(* traceparent.  The header is the sequence of its parts between dashes.    *)

IsVersion00(part) == part.length = 2 /\ part.hex /\ part.value = 0

\* Mutant: only the flags byte 01 counts as sampled.
IsSampledExactly(flags) == flags = 1

IsSampled(flags) == flags % 2 = 1
FromSampled(sampled) == IF sampled THEN 1 ELSE 0

Malformed(error) == [ok |-> FALSE, error |-> error]

\* The version is looked at before the number of parts; the identifiers are
\* checked before the flags, of which any byte is accepted.
ParseTraceparent(parts) ==
  LET trace  == ParseTraceId(parts[2])
      parent == ParseSpanId(parts[3])
      flags  == parts[4]
  IN IF ~IsVersion00(parts[1]) THEN Malformed("UnsupportedVersion")
     ELSE IF Len(parts) # 4 THEN Malformed("InvalidFormat")
     ELSE IF ~trace.ok THEN Malformed("InvalidTraceId")
     ELSE IF ~parent.ok THEN Malformed("InvalidParentId")
     ELSE IF flags.length # 2 \/ ~flags.hex THEN Malformed("InvalidFormat")
     ELSE [ok |-> TRUE, trace_id |-> trace.id, parent_id |-> parent.id,
           flags |-> flags.value]

\* Only the sampled bit is written back, in lower case.
DisplayTraceparent(tp) ==
  <<HexText(2, TRUE, 0, FALSE), DisplayTraceId(tp.trace_id),
    DisplaySpanId(tp.parent_id),
    HexText(2, TRUE, FromSampled(IsSampled(tp.flags)), FALSE)>>

-----------------------------------------------------------------------------
(* tracestate.  A raw value is [value, padded, length]: what is left of it  *)
(* once trimmed, whether there was anything to trim, and the bytes left.    *)

NoState == [value |-> "", padded |-> FALSE, length |-> 0]

FromHeader(raw) ==
  IF raw.length = 0 \/ raw.length > MaxTraceStateLen THEN Nothing
  ELSE Just([raw EXCEPT !.padded = FALSE])

-----------------------------------------------------------------------------
(* The remote.* fields.  A field is [key, by, text].                        *)

RemoteFieldsOf(tp, state) ==
  <<[key |-> "remote.trace_id", by |-> "debug",
     text |-> DisplayTraceId(tp.trace_id)],
    [key |-> "remote.parent_span_id", by |-> "debug",
     text |-> DisplaySpanId(tp.parent_id)],
    [key |-> "remote.sampled", by |-> "bool", text |-> IsSampled(tp.flags)],
    [key |-> "remote.trace_state", by |-> "str",
     text |-> IF state = Nothing THEN NoState ELSE state[1]]>>

\* Where the last field of one name is, as the visitor method "by" of its type
\* meets it, or zero.
LastSaid(fields, key, bys) ==
  SelectLastInSeq(fields, LAMBDA f : f.key = key /\ f.by \in bys)

\* An identifier may come as a string or through Display; one that does not
\* parse is as good as none.
SaidId(fields, key, length) ==
  LET at == SelectLastInSeq(fields,
              LAMBDA f : /\ f.key = key /\ f.by \in {"str", "debug"}
                         /\ ParseId(f.text, length).ok)
  IN IF at = 0 THEN Nothing ELSE Just(ParseId(fields[at].text, length).id)

\* The remote parent a root span is made with, if a trace id came; a parent
\* that does not say otherwise is sampled.
ExtractRemoteParent(fields) ==
  LET trace   == SaidId(fields, "remote.trace_id", TraceIdLength)
      sampled == LastSaid(fields, "remote.sampled", {"bool", "str"})
      state   == LastSaid(fields, "remote.trace_state", {"str"})
  IN IF trace = Nothing THEN Nothing
     ELSE Just([trace_id       |-> trace[1],
                parent_span_id |-> SaidId(fields, "remote.parent_span_id", SpanIdLength),
                is_sampled     |-> sampled = 0 \/ fields[sampled].text,
                trace_state    |-> IF state = 0 THEN Nothing
                                   ELSE FromHeader(fields[state].text)])
=============================================================================
