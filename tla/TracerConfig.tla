---------------------------- MODULE TracerConfig ----------------------------
(* How a tracer comes to be configured (config.rs, the builder and the      *)
(* constructors of middleware.rs, Pipeline::from_config): the environment,  *)
(* then any sequence of setter calls on a TracerBuilder or on a Config,     *)
(* then one constructor.  Strings come trimmed, a blank one is Blank, a     *)
(* variable that is not set is Unset.                                       *)
EXTENDS Integers, Sequences, Functions

CONSTANTS
  Unset, Blank,   \* no value; a value of white space only
  Environments,   \* process environments
  Names,          \* arguments of with_service_name
  Uris,           \* arguments of with_sink_uri: [scheme, host]
  HeaderLists,    \* arguments of with_headers: sequences of [key, value]
  PrefixLists,    \* arguments of with_capture_header_prefixes
  AttributeLists, \* arguments of with_resource_attributes, likewise
  KnobValues,     \* arguments of the setters for Knobs
  InvalidHeader,  \* a key that is no HTTP header name
  MaxCalls        \* bound on the setter calls

Knobs == {"batch", "delay", "timeout"}

\* The largest batch, and the milliseconds that are too many for a duration.
MaxBatch == 10000
Hour == 3600000

\* An endpoint keeps how the path of its URI is completed: resolve_endpoint
\* gives a root path the default of its exporter, the OTLP variable for traces
\* is taken as it is, and the generic one is a base that "v1/traces" is appended
\* to.
EndpointOf(kind, uri, mode) == [kind |-> kind, uri |-> uri, mode |-> mode]

\* The absence of a value is none of the values.
ASSUME ConfigAssumption ==
  /\ MaxCalls \in Nat /\ KnobValues \subseteq Nat
  /\ Unset # Blank /\ Unset \notin Nat
  /\ Unset \notin HeaderLists /\ Unset \notin PrefixLists
  /\ \A kind \in {"otlp", "zipkin"}, mode \in {"DefaultIfRoot", "AsIs", "AppendTraces"} :
       \A uri \in Uris \cup UNION {{e.sink, e.traces, e.base} : e \in Environments} :
         EndpointOf(kind, uri, mode) # Unset

\* What comes as a list is a sequence, and a setting of the environment is a
\* number or absent.
ASSUME ListsAssumption ==
  /\ \A list \in AttributeLists \cup {e.attributes : e \in Environments} :
       list \in Seq(Range(list))
  /\ \A e \in Environments : \A k \in Knobs : e.knobs[k] \in Nat \cup {Unset}

VARIABLES
  env,      \* the process environment
  runtime,  \* whether a Tokio runtime is running
  stage,    \* "start", "builder", "config" or "built"
  own,      \* the Config being set up, the builder's or the program's
  knobs,    \* the builder's Option fields
  calls,    \* history: the setter calls, in order
  entries,  \* history: the resource attributes they brought, in order
  tracer    \* what the constructor returned

vars == <<env, runtime, stage, own, knobs, calls, entries, tracer>>

Given(v) == v \notin {Unset, Blank}

\* Some resource attributes laid over others, and a single one.
Over(new, old) ==
  [k \in DOMAIN new \cup DOMAIN old |-> IF k \in DOMAIN new THEN new[k] ELSE old[k]]
Only(entry) == [k \in {entry.key} |-> entry.value]

-----------------------------------------------------------------------------
(* Endpoints.                                                               *)

ResolveOtlpHttpEndpoint(uri, mode) ==
  IF uri.scheme = "http" THEN EndpointOf("otlp", uri, mode) ELSE Unset

ResolveEndpoint(uri) ==
  IF uri.scheme = "zipkin" THEN EndpointOf("zipkin", uri, "DefaultIfRoot")
  ELSE ResolveOtlpHttpEndpoint(uri, "DefaultIfRoot")

ResolveEndpointFromSource(uri, source) ==
  CASE source = "sink"   -> ResolveEndpoint(uri)
    [] source = "traces" -> ResolveOtlpHttpEndpoint(uri, "AsIs")
    [] source = "base"   -> ResolveOtlpHttpEndpoint(uri, "AppendTraces")

-----------------------------------------------------------------------------
(* Config.                                                                  *)

Default ==
  [service  |-> Unset, sink |-> Unset, endpoint |-> Unset, exporter |-> "none",
   disabled |-> TRUE, headers |-> <<>>, prefixes |-> <<>>,
   attributes |-> [k \in {} |-> k],
   knobs    |-> [batch |-> 512, delay |-> 5000, timeout |-> 5000]]

\* Mutant: the endpoint survives.
DisabledKeepsEndpoint(c) == [c EXCEPT !.disabled = TRUE, !.sink = Unset]

Disabled(c) ==
  [c EXCEPT !.disabled = TRUE, !.sink = Unset, !.endpoint = Unset,
            !.exporter = "none"]

WithServiceName(c, name) ==
  IF Given(name) THEN [c EXCEPT !.service = name] ELSE c

Located(c, endpoint) ==
  [c EXCEPT !.endpoint = endpoint, !.exporter = endpoint.kind]

WithSinkUri(c, uri) ==
  LET s == [c EXCEPT !.sink = uri, !.disabled = FALSE] IN
  IF ~Given(uri) THEN c
  ELSE IF ResolveEndpoint(uri) = Unset THEN s ELSE Located(s, ResolveEndpoint(uri))

WithHeaders(c, list) == [c EXCEPT !.headers = list]

WithCaptureHeaderPrefixes(c, list) == [c EXCEPT !.prefixes = list]

\* Mutant: the entry that was there first stays.
AttributeYields(c, entry) ==
  IF entry.key = "service.name"
  THEN IF c.service = Unset THEN WithServiceName(c, entry.value) ELSE c
  ELSE [c EXCEPT !.attributes = Over(@, Only(entry))]

\* One entry of with_resource_attributes.
WithAttribute(c, entry) ==
  IF entry.key = "service.name"
  THEN IF c.service = Unset THEN WithServiceName(c, entry.value) ELSE c
  ELSE [c EXCEPT !.attributes = Over(Only(entry), @)]

WithResourceAttributes(c, list) ==
  LET after[n \in 0..Len(list)] ==
        IF n = 0 THEN c ELSE WithAttribute(after[n - 1], list[n])
  IN after[Len(list)]

WithKnob(c, k, v) == [c EXCEPT !.knobs[k] = v]

\* Mutant: the upper bounds are forgotten.
PositiveKnob(k, v) == v # Unset /\ v > 0

ValidKnob(k, v) ==
  v # Unset /\ v > 0 /\ IF k = "batch" THEN v <= MaxBatch ELSE v < Hour

ParseKvPairs(list) ==
  LET kept[n \in 0..Len(list)] ==
        IF n = 0 THEN <<>>
        ELSE IF list[n].key # Blank /\ list[n].value # Blank
             THEN Append(kept[n - 1], list[n]) ELSE kept[n - 1]
  IN kept[Len(list)]

ParsePrefixes(list) == SelectSeq(list, Given)

-----------------------------------------------------------------------------
(* Config::from_env.                                                        *)

\* The first variable that is set counts, even when it is blank.
RawSink(e) ==
  CASE e.sink # Unset -> [uri |-> e.sink, source |-> "sink"]
    [] e.sink = Unset /\ e.traces # Unset -> [uri |-> e.traces, source |-> "traces"]
    [] OTHER -> [uri |-> e.base, source |-> "base"]

FromEnvSink(e, c) ==
  LET raw == RawSink(e)
      endpoint == ResolveEndpointFromSource(raw.uri, raw.source)
  IN IF ~Given(raw.uri) \/ e.none \/ endpoint = Unset THEN c
     ELSE Located([c EXCEPT !.sink = raw.uri, !.disabled = FALSE], endpoint)

FromEnv(e) ==
  LET named   == FromEnvSink(e, WithServiceName(Default, e.service))
      headers == IF e.traceHeaders # <<>> THEN e.traceHeaders ELSE e.headers
      tuned   == [named EXCEPT
                    !.headers = ParseKvPairs(headers),
                    !.prefixes = ParsePrefixes(e.prefixes),
                    !.knobs = [k \in Knobs |->
                      IF ValidKnob(k, e.knobs[k]) THEN e.knobs[k] ELSE @[k]]]
  IN WithResourceAttributes(tuned, ParseKvPairs(e.attributes))

-----------------------------------------------------------------------------
(* Constructors.                                                            *)

HasSink(c)   == c.endpoint # Unset \/ c.sink # Unset
IsEnabled(c) == ~c.disabled /\ HasSink(c)

\* Mutant: a sink alone will do.
SinkSuffices(c) == HasSink(c)

CanExport(c) == HasSink(c) /\ c.service # Unset

\* build_exporter.
BuildsExporter(c) ==
  /\ c.endpoint # Unset /\ c.endpoint.kind = c.exporter
  /\ \A i \in DOMAIN c.headers : c.headers[i].key # InvalidHeader

\* Pipeline::from_config.
Pipeline(c) ==
  [by |-> stage, config |-> c, error |-> FALSE,
   active |-> IsEnabled(c) /\ BuildsExporter(c) /\ runtime]

TracerFrom(c) == Pipeline(IF CanExport(c) THEN c ELSE Disabled(c))

TryTracerFrom(c) ==
  IF c.sink # Unset /\ c.service = Unset
  THEN [by |-> stage, config |-> c, error |-> TRUE, active |-> FALSE]
  ELSE TracerFrom(c)

\* Mutant: what was never set is laid over the environment too.
OverlayAll(base, c, ks) ==
  [WithSinkUri(WithServiceName(base, c.service), c.sink) EXCEPT
     !.headers = c.headers, !.prefixes = c.prefixes,
     !.attributes = Over(c.attributes, @),
     !.knobs = c.knobs]

\* TracerBuilder::build, with what the builder holds laid over the base.
Overlay(base, c, ks) ==
  LET named   == WithServiceName(base, c.service)
      sunk    == WithSinkUri(named, c.sink)
      captive == IF c.prefixes = <<>> THEN sunk
                 ELSE WithCaptureHeaderPrefixes(sunk, c.prefixes)
      headed  == IF c.headers = <<>> THEN captive ELSE WithHeaders(captive, c.headers)
      attributed == [headed EXCEPT !.attributes = Over(c.attributes, @)]
  IN [attributed EXCEPT
        !.knobs = [k \in Knobs |-> IF ks[k] = Unset THEN @[k] ELSE ks[k]]]

-----------------------------------------------------------------------------

NoTracer == [by |-> "start", config |-> Default, error |-> FALSE, active |-> FALSE]

NewBuilder ==
  /\ stage = "start" /\ stage' = "builder"
  /\ UNCHANGED <<env, runtime, own, knobs, calls, entries, tracer>>

\* Config::default() or Config::from_env().
NewConfig ==
  /\ stage = "start" /\ stage' = "config"
  /\ own' \in {Default, FromEnv(env)}
  /\ UNCHANGED <<env, runtime, knobs, calls, entries, tracer>>

Set(stages, field, value, c) ==
  /\ stage \in stages /\ Len(calls) < MaxCalls
  /\ own' = c
  /\ calls' = Append(calls, [field |-> field, value |-> value])
  /\ UNCHANGED <<env, runtime, stage, tracer>>

SetServiceName(name) ==
  /\ Set({"builder", "config"}, "service", name, WithServiceName(own, name))
  /\ UNCHANGED <<knobs, entries>>

SetSinkUri(uri) ==
  /\ Set({"builder", "config"}, "sink", uri, WithSinkUri(own, uri))
  /\ UNCHANGED <<knobs, entries>>

SetHeaders(list) ==
  /\ Set({"builder", "config"}, "headers", list, WithHeaders(own, list))
  /\ UNCHANGED <<knobs, entries>>

SetCaptureHeaderPrefixes(list) ==
  /\ Set({"builder", "config"}, "prefixes", list,
         WithCaptureHeaderPrefixes(own, list))
  /\ UNCHANGED <<knobs, entries>>

SetResourceAttributes(list) ==
  /\ Set({"builder", "config"}, "attributes", list,
         WithResourceAttributes(own, list))
  /\ entries' = entries \o list
  /\ UNCHANGED knobs

SetKnob(k, v) ==
  /\ UNCHANGED entries
  /\ IF ValidKnob(k, v)
     THEN /\ Set({"builder"}, k, v, WithKnob(own, k, v))
          /\ knobs' = [knobs EXCEPT ![k] = v]
     ELSE Set({"builder"}, k, v, own) /\ UNCHANGED knobs

SetDisabled ==
  /\ Set({"config"}, "disabled", Unset, Disabled(own))
  /\ UNCHANGED <<knobs, entries>>

Construct(from, result) ==
  /\ stage = from /\ stage' = "built"
  /\ tracer' = result
  /\ UNCHANGED <<env, runtime, own, knobs, calls, entries>>

New           == Construct("start", TracerFrom(FromEnv(env)))
TryNew        == Construct("start", TryTracerFrom(FromEnv(env)))
FromConfig    == Construct("config", TracerFrom(own))
TryFromConfig == Construct("config", TryTracerFrom(own))
Build == Construct("builder", TracerFrom(Overlay(FromEnv(env), own, knobs)))

Init ==
  /\ env \in Environments /\ runtime \in BOOLEAN
  /\ stage = "start" /\ own = Default /\ knobs = [k \in Knobs |-> Unset]
  /\ calls = <<>> /\ entries = <<>> /\ tracer = NoTracer

Next ==
  \/ NewBuilder \/ NewConfig
  \/ \E name \in Names : SetServiceName(name)
  \/ \E uri \in Uris \cup {Blank} : SetSinkUri(uri)
  \/ \E list \in HeaderLists : SetHeaders(list)
  \/ \E list \in PrefixLists : SetCaptureHeaderPrefixes(list)
  \/ \E list \in AttributeLists : SetResourceAttributes(list)
  \/ \E k \in Knobs, v \in KnobValues : SetKnob(k, v)
  \/ SetDisabled
  \/ New \/ TryNew \/ FromConfig \/ TryFromConfig \/ Build

Spec == Init /\ [][Next]_vars

-----------------------------------------------------------------------------
(* Properties.                                                              *)

\* Every endpoint belongs to an exporter of its kind, a Config without a sink has
\* none, and the values that were set are ones that count.
SoundConfig(c) ==
  /\ c.service # Blank /\ c.sink # Blank
  /\ c.exporter = (IF c.endpoint = Unset THEN "none" ELSE c.endpoint.kind)
  /\ c.sink = Unset => c.endpoint = Unset /\ c.disabled
  /\ "service.name" \notin DOMAIN c.attributes
  /\ \A k \in Knobs : c.knobs[k] \in 1..(Hour - 1)

\* The Config being set up and that of the tracer are sound, and the builder's
\* options agree with its Config.
TypeOK ==
  /\ stage \in {"start", "builder", "config", "built"}
  /\ SoundConfig(own) /\ SoundConfig(tracer.config)
  /\ \A k \in Knobs : knobs[k] # Unset => knobs[k] = own.knobs[k]

Counts(k, v) == v \in 1..(IF k = "batch" THEN MaxBatch ELSE Hour - 1)

\* The value at the last, or the first, of some positions of a sequence.
LastOf(at, seq) ==
  IF at = {} THEN Unset ELSE seq[CHOOSE i \in at : \A j \in at : j <= i].value
FirstOf(at, seq) ==
  IF at = {} THEN Unset ELSE seq[CHOOSE i \in at : \A j \in at : i <= j].value

CallsOf(field) == {i \in DOMAIN calls : calls[i].field = field}
LastList(field) == LastOf(CallsOf(field), calls)
LastName    == LastOf({i \in CallsOf("service") : Given(calls[i].value)}, calls)
LastSink    == LastOf({i \in CallsOf("sink") : Given(calls[i].value)}, calls)
LastKnob(k) == LastOf({i \in CallsOf(k) : Counts(k, calls[i].value)}, calls)

EnvEntries == ParseKvPairs(env.attributes)

\* The name among resource attributes, and the attributes they make.
NamedIn(list) ==
  FirstOf({i \in DOMAIN list : list[i].key = "service.name" /\ Given(list[i].value)},
          list)
AttributesOf(list) ==
  [k \in {list[i].key : i \in DOMAIN list} \ {"service.name"} |->
     LastOf({i \in DOMAIN list : list[i].key = k}, list)]

\* What the builder was told first, then the environment.
ChosenName ==
  CASE Given(LastName) -> LastName
    [] ~Given(LastName) /\ Given(NamedIn(entries)) -> NamedIn(entries)
    [] ~(Given(LastName) \/ Given(NamedIn(entries))) /\ Given(env.service) -> env.service
    [] OTHER -> NamedIn(EnvEntries)
ChosenHeaders ==
  IF LastList("headers") \notin {Unset, <<>>} THEN LastList("headers")
  ELSE ParseKvPairs(IF env.traceHeaders # <<>> THEN env.traceHeaders ELSE env.headers)
ChosenPrefixes ==
  IF LastList("prefixes") \notin {Unset, <<>>} THEN LastList("prefixes")
  ELSE ParsePrefixes(env.prefixes)
ChosenKnob(k) ==
  CASE LastKnob(k) # Unset -> LastKnob(k)
    [] LastKnob(k) = Unset /\ Counts(k, env.knobs[k]) -> env.knobs[k]
    [] OTHER -> Default.knobs[k]

\* The endpoint the environment gives, if it resolves.
EnvEndpoint ==
  CASE env.none -> Unset
    [] ~env.none /\ Given(env.sink) /\ env.sink.scheme = "zipkin" ->
         EndpointOf("zipkin", env.sink, "DefaultIfRoot")
    [] ~env.none /\ Given(env.sink) /\ env.sink.scheme = "http" ->
         EndpointOf("otlp", env.sink, "DefaultIfRoot")
    [] ~env.none /\ env.sink = Unset /\ Given(env.traces) /\ env.traces.scheme = "http" ->
         EndpointOf("otlp", env.traces, "AsIs")
    [] ~env.none /\ {env.sink, env.traces} = {Unset} /\ Given(env.base)
         /\ env.base.scheme = "http" -> EndpointOf("otlp", env.base, "AppendTraces")
    [] OTHER -> Unset

Exporters == [http |-> "otlp", zipkin |-> "zipkin"]
Resolvable(uri) == uri.scheme \in DOMAIN Exporters

ChosenEndpoint ==
  IF LastSink # Unset /\ Resolvable(LastSink)
  THEN EndpointOf(Exporters[LastSink.scheme], LastSink, "DefaultIfRoot")
  ELSE EnvEndpoint

\* A tracer of the environment or of a builder exports exactly when there is a
\* runtime, a name, valid headers and a sink that resolves, the builder's before
\* the environment's, and it exports there; a constructor reports an error only
\* for a sink without a name.
ActiveIffUsable ==
  stage = "built" /\ tracer.by # "config" =>
    /\ tracer.active <=>
         /\ runtime /\ ChosenName # Unset /\ ChosenEndpoint # Unset
         /\ ~\E i \in DOMAIN ChosenHeaders : ChosenHeaders[i].key = InvalidHeader
    /\ tracer.active => tracer.config.endpoint = ChosenEndpoint
    /\ tracer.error => EnvEndpoint # Unset /\ ChosenName = Unset

\* Off means off: a Config that was disabled exports only to a sink it was given
\* after that, never to one it had before.
OffMeansOff ==
  tracer.active /\ tracer.by = "config" =>
    LET offs  == {i \in DOMAIN calls : calls[i].field = "disabled"}
        sinks == {i \in DOMAIN calls :
                    calls[i].field = "sink" /\ Given(calls[i].value)
                      /\ Resolvable(calls[i].value)}
    IN \/ \E i \in sinks : \A j \in offs : j < i
       \/ offs = {} /\ EnvEndpoint # Unset

\* Whatever the order of the setter calls, each setting is that of the last
\* call that was valid, else the environment's, else the default.
LastSetterWins ==
  stage = "built" /\ tracer.by # "config" =>
    /\ tracer.config.service = ChosenName
    /\ tracer.config.headers = ChosenHeaders
    /\ tracer.config.prefixes = ChosenPrefixes
    /\ \A k \in Knobs : tracer.config.knobs[k] = ChosenKnob(k)

\* Resource attributes: the last value given for a key, the builder's before the
\* environment's, and no key of either is lost.
AttributesOverlaid ==
  stage = "built" /\ tracer.by # "config" =>
    tracer.config.attributes = AttributesOf(EnvEntries \o entries)

\* with_sink_uri (middleware.rs: "Sets a sink URI (overrides env)"): no tracer of
\* a builder that was given a sink exports to the environment's.
BuilderSinkWins ==
  tracer.active /\ tracer.by = "builder" /\ LastSink # Unset =>
    tracer.config.endpoint.uri = LastSink
=============================================================================
