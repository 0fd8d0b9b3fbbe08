------------------------ MODULE MCPrometheusMetrics ------------------------
(***************************************************************************)
(* An instance of PrometheusMetrics for TLC: components on the default     *)
(* registry, by name or by nil, and on one of their own.                   *)
(***************************************************************************)
EXTENDS PrometheusMetrics, TLC

Other(field, type, same) == [field |-> field, type |-> type, same |-> same]

\* Nothing foreign; compatible collectors; one of another type and of another
\* descriptor, at the first, a middle and the last registration.
MCForeign == {Other("none", "none", TRUE), Other("requests", "counterVec", TRUE),
  Other("l2GetLatency", "summary", TRUE), Other("cacheLookup", "counterVec", FALSE),
  Other("backgroundActive", "counterVec", TRUE), Other("l2PutLatency", "gauge", TRUE),
  Other("l2Requests", "counterVec", FALSE)}
=============================================================================
