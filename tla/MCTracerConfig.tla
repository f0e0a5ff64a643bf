--------------------------- MODULE MCTracerConfig ---------------------------
(* A small instance of TracerConfig for TLC.                                *)
EXTENDS TracerConfig

Uri(scheme, host) == [scheme |-> scheme, host |-> host]
Pair(key, value)  == [key |-> key, value |-> value]

MCUris == {Uri("http", "given"), Uri("grpc", "given")}
MCNames == {"given", Blank}

MCHeaderLists == {<<>>, <<Pair(InvalidHeader, "x")>>, <<Pair("h", "given")>>}
MCPrefixLists == {<<"x-given">>}
MCAttributeLists ==
  {<<Pair("k", "given")>>, <<Pair("service.name", "attribute"), Pair("j", "given")>>}
MCKnobValues == {0, 1000, 3600000}

EnvKnobs ==
  {[batch |-> b, delay |-> d, timeout |-> Unset] : b \in {Unset, 10001}, d \in {3599999}}

MCEnvironments ==
  [service : {Unset, "env"}, none : BOOLEAN,
   sink : {Unset, Blank, Uri("zipkin", "sink"), Uri("grpc", "sink")},
   traces : {Unset, Uri("http", "traces")},
   base : {Unset, Uri("http", "base")},
   traceHeaders : {<<>>, <<Pair("h", Blank)>>},
   headers : {<<Pair("h", "env")>>},
   prefixes : {<<Blank, "x-env">>},
   knobs : EnvKnobs,
   attributes : {<<>>, <<Pair("k", "env"), Pair("service.name", "resource"), Pair("k", "again")>>}]
=============================================================================
