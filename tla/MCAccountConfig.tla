-------------------------- MODULE MCAccountConfig --------------------------
(***************************************************************************)
(* Instances of AccountConfig for TLC: times on each side of every         *)
(* comparison, and every combination of present, absent and null fields.   *)
(***************************************************************************)
EXTENDS AccountConfig, TLC

Symmetry == Permutations(Invocations)

MCTimes == {1, 2}

Built(waits) ==
  [timeout : MCTimes, wait : waits, cacheEnabled : {TRUE}, maxCalls : {-1, 0, 1}]

\* Modules with a cache and no wait_timeout.
MCSyncModule == Built({NoWait})

\* Modules with a cache and a wait_timeout.
MCWaitModule == Built({0, 1, 2})

MCOverlays ==
  [decodes : BOOLEAN, timeout : {Absent, 0, 1}, wait : {Absent, Null, -1, 0, 1},
   cacheEnabled : BOOLEAN \cup {Absent}, maxCalls : {Absent, 1}]
=============================================================================
