-------------------------- MODULE MCAnswerLifetime -------------------------
(***************************************************************************)
(* An instance of AnswerLifetime for TLC.  A Duration reaches from -64 to  *)
(* 63, or almost 16 seconds of 4; an expiration is below 5.                *)
(***************************************************************************)
EXTENDS AnswerLifetime, TLC

\* An ordinary ceiling, one that wraps to a negative Duration, and one beyond
\* the width of an expiration.
MCConfig == [ttl |-> 1, firstParty |-> 2, thirdParty |-> 18, device |-> 6, negative |-> 1]

\* As Aerospike's seconds, 3 ms are an ordinary expiration of two, and 5, 7 and 9
\* its three special ones.  As Durations, 32 ms wrap to -64, 65 and -63 to one.
MCCttls == {3, 5, 7, 9, 32, 65, -63}

MCStores == {<<"aerospike", "firstParty">>, <<"aerospike", "device">>, <<"redis", "firstParty">>,
             <<"redis", "thirdParty">>, <<"valkey", "firstParty">>, <<"file", "firstParty">>}

\* A time between two milliseconds, the ends of lives and one after all of them.
MCClock == [a \in Adapters |-> IF a = "aerospike" THEN {1, 6, 14, 18} ELSE {1, 4, 8}]

\* One goroutine resolves while another looks the answers up; both put into files.
MCCalls == [a \in Adapters |->
  IF a = "file" THEN ("g1" :> {"s2s"}) @@ ("g2" :> {"s2s", "get"})
  ELSE ("g1" :> {"s2s", "report"}) @@ ("g2" :> {"get"})]
=============================================================================
