-------------------------- MODULE MCIdentityCache --------------------------
(***************************************************************************)
(* Instances of IdentityCache for TLC.  A third-party key comes first, as  *)
(* in extractCacheKeys, with a smaller ceiling than the other key's.       *)
(***************************************************************************)
EXTENDS IdentityCache, TLC

CONSTANTS k1, k2, w1, w2, n1

MCKeyType == (k1 :> "thirdParty") @@ (k2 :> "firstParty")
MCBoth == {<<k1, k2>>}
MCOneNode == [w \in Workers |-> n1]

\* One goroutine reads while another writes.
MCReadWrite == (w1 :> {"get"}) @@ (w2 :> {"hit", "negative", "marker"})
=============================================================================
