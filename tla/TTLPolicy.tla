----------------------------- MODULE TTLPolicy -----------------------------
(***************************************************************************)
(* cache/ttl.go: how long an entry may live, from the TTL the resolution   *)
(* API sent (0 when it sent none) and the ceilings of the configuration.   *)
(***************************************************************************)
EXTENDS Integers

CONSTANTS
  DefaultTTL, FirstPartyCeiling, ThirdPartyCeiling, DeviceCeiling, NegativeTTL

ASSUME PolicyAssumption ==
  /\ DefaultTTL \in Int /\ NegativeTTL \in Int
  /\ FirstPartyCeiling \in Int /\ ThirdPartyCeiling \in Int /\ DeviceCeiling \in Int

KeyTypes == {"firstParty", "thirdParty", "device"}

Least(a, b) == IF a <= b THEN a ELSE b

CeilingFor(type) ==
  IF type = "firstParty" THEN FirstPartyCeiling
  ELSE IF type = "thirdParty" THEN ThirdPartyCeiling
  ELSE IF type = "device" THEN DeviceCeiling
  ELSE DefaultTTL

\* The TTL before any ceiling.
BaseTTL(cacheTTL) == IF cacheTTL > 0 THEN cacheTTL ELSE DefaultTTL

EffectiveTTL(type, cacheTTL) == Least(BaseTTL(cacheTTL), CeilingFor(type))

\* A backend TTL is capped by the first-party ceiling for keys of every type.
NegativeTTLFor(cacheTTL) ==
  IF cacheTTL > 0 THEN Least(cacheTTL, FirstPartyCeiling) ELSE NegativeTTL

\* The longest a negative entry can be given.
NegativeBound == IF NegativeTTL >= FirstPartyCeiling THEN NegativeTTL ELSE FirstPartyCeiling
=============================================================================
