---------------------------- MODULE AuctionData ----------------------------
(***************************************************************************)
(* One auction on its way through a host: from its data come the cache     *)
(* keys and the S2S request (newResolutionJob), which a background         *)
(* goroutine may send after Enrich has returned, and later, when others    *)
(* have changed the auction, the impression report.  The hosts are the     *)
(* Prebid module, the basic example and the benchmark server, which        *)
(* reports nothing.                                                        *)
(***************************************************************************)
EXTENDS ReportURL

CONSTANTS
  Cases,      \* families of auctions, with their hosts and limits of keys
  ID,         \* the ID of an auction
  Resolved,   \* eids that enrichment adds
  Bids,       \* bids of the response, with currency, abTestUuid and tc
  Texts

EIDs == [source : {Empty, IIQ} \cup Shared \cup DOMAIN Lower, uids : Seq(Texts)]
Users == [eids : Seq(EIDs), extEids : Seq(EIDs), consent : Texts, extConsent : Texts]

\* What the fields of auctions are.
ASSUME DataAssumption ==
  /\ Resolved \subseteq Seq(EIDs)
  /\ \A c \in Cases : c.users \subseteq Users /\ c.limits \subseteq Int
  /\ \A c \in Cases : \A d \in c.devices \ {NoDevice} :
       /\ d.lmt \in BOOLEAN /\ d.tv \in BOOLEAN
       /\ NotBlank(d.ifa) => d.ifa \in DOMAIN Upper

VARIABLES
  auction, host, maxKeys,
  stage,      \* what has been done with it
  keys, job,  \* what newResolutionJob made of it
  asked,      \* the parameters and the consent that went to S2S
  sent,
  context,    \* the auctionContext of the Prebid module
  report

vars == <<auction, host, maxKeys, stage, keys, job, asked, sent, context, report>>

NoJob == [params |-> <<>>, consent |-> Empty]
NoContext == Context(Empty, Empty, Empty, Empty)

Init ==
  /\ \E c \in Cases :
       /\ auction \in [id : {ID}, user : c.users, device : c.devices,
                       site : c.sites, app : c.apps, regs : c.regs]
       /\ host \in c.hosts /\ maxKeys \in c.limits
  /\ stage = "new" /\ keys = <<>> /\ job = NoJob /\ asked = NoJob /\ sent = FALSE
  /\ context = NoContext /\ report = <<>>

\* liftExtEIDs of the benchmark server.
LiftExtEIDs(user) ==
  IF user.eids = <<>> THEN [user EXCEPT !.eids = user.extEids] ELSE user

\* The host receives the auction; the module keeps what its report will need.
Receive ==
  /\ stage = "new" /\ stage' = "received"
  /\ auction' = IF host = "benchmark"
                THEN [auction EXCEPT !.user = LiftExtEIDs(auction.user)] ELSE auction
  /\ context' = IF host = "module" THEN NewAuctionContext(auction) ELSE NoContext
  /\ UNCHANGED <<host, maxKeys, keys, job, asked, sent, report>>

\* Enrich: cacheKeysFor and newResolutionJob, on the caller's goroutine.
Enrich ==
  /\ stage = "received" /\ stage' = "enriched"
  /\ keys' = ExtractCacheKeys(auction, maxKeys)
  /\ job' = [params |-> BuildS2SRequest(auction), consent |-> ResolveConsent(auction.user)]
  /\ UNCHANGED <<auction, host, maxKeys, asked, sent, context, report>>

\* Mutant: the background goroutine builds the request itself.
MutSend ==
  /\ stage \notin {"new", "received"} /\ ~sent
  /\ sent' = TRUE
  /\ asked' = [params |-> BuildS2SRequest(auction), consent |-> ResolveConsent(auction.user)]
  /\ UNCHANGED <<auction, host, maxKeys, stage, keys, job, context, report>>

\* s2s.Resolve, now or in the background.
Send ==
  /\ stage \notin {"new", "received"} /\ ~sent
  /\ sent' = TRUE /\ asked' = job
  /\ UNCHANGED <<auction, host, maxKeys, stage, keys, job, context, report>>

\* appendEIDs and the mutation of the module's hook.
AppendEIDs ==
  /\ stage = "enriched" /\ stage' = "changed"
  /\ \E eids \in Resolved : auction' = [auction EXCEPT !.user.eids = @ \o eids]
  /\ UNCHANGED <<host, maxKeys, keys, job, asked, sent, context, report>>

\* Prebid Server or another module takes device and site from the auction.
HostStrips ==
  /\ host = "module" /\ stage = "enriched" /\ stage' = "changed"
  /\ auction' = [auction EXCEPT !.device = NoDevice, !.site = NoSite]
  /\ UNCHANGED <<host, maxKeys, keys, job, asked, sent, context, report>>

\* Mutant: the report is made from the auction as it is by then.
MutReportContext == IF host = "module" THEN NewAuctionContext(auction) ELSE BasicContext(auction)

ReportContext == IF host = "module" THEN context ELSE BasicContext(auction)

\* HandleAuctionResponseHook and reportBidResponse, for one bid.
Report ==
  /\ host # "benchmark" /\ stage \in {"enriched", "changed"} /\ stage' = "reported"
  /\ \E b \in Bids :
       report' = BuildReportURL([bid |-> b, currency |-> b.currency, context |-> ReportContext,
                                 abTestUuid |-> b.abTestUuid, cause |-> b.cause])
  /\ UNCHANGED <<auction, host, maxKeys, keys, job, asked, sent, context>>

Next == Receive \/ Enrich \/ Send \/ AppendEIDs \/ HostStrips \/ Report

Spec == Init /\ [][Next]_vars
-----------------------------------------------------------------------------
\* Properties.

\* The values of the keys that an auction's eids stand for, in no order.
EIDValues(eids) ==
  LET Namespace(source) ==
        IF source = IIQ THEN "iiq" ELSE IF source \in Shared THEN "pubcid" ELSE Lower[source]
  IN  UNION {{<<Namespace(e.source), id>> : id \in {u \in ToSet(e.uids) : NotBlank(u)}} :
               e \in {x \in ToSet(eids) : x.source # Empty}}

\* Whatever order and limit do, the keys stand for the auction's identities:
\* each value once and under its best type, however often and under whichever
\* sources it occurs, and as many of them as the limit allows, no fewer; none is
\* lost before the limit applies (extractCacheKeys).
KeysComplete == stage = "enriched" =>
  LET offered == ToSet(Candidates(auction))
      distinct == Cardinality({k.value : k \in offered})
      ofIIQ == UNION {ToSet(e.uids) : e \in {x \in ToSet(auction.user.eids) : x.source = IIQ}}
  IN  /\ IsInjective([i \in 1..Len(keys) |-> keys[i].value])
      /\ {k.value : k \in offered} =
           EIDValues(auction.user.eids)
             \cup {k.value : k \in ToSet(MAIDKey(auction.device) \o DeviceKey(auction.device))}
      /\ \A k \in ToSet(keys) :
           k.value[1] = "iiq" /\ k.value[2] \in ofIIQ => k.type = "thirdParty"
      /\ Len(keys) = IF maxKeys > 0 /\ maxKeys < distinct THEN maxKeys ELSE distinct

Rank(k) ==
  IF k.type = "thirdParty" THEN 1
  ELSE IF k.value[1] = "pubcid" THEN 2
  ELSE IF k.value[1] = "maid" THEN 3
  ELSE IF k.type = "device" THEN 5 ELSE 4

\* deduplicateAndCapKeys keeps first occurrences: the keys are those of the
\* first so many distinct values in the order in which they are first offered,
\* wherever duplicates stand before or after the limit, and that order is the
\* priority that Get relies on: third-party, shared ID, MAID, other eids, device.
KeysInOrder == stage = "enriched" =>
  LET offered == Candidates(auction)
      first == [i \in 1..Len(keys) |->
                  Min({p \in 1..Len(offered) : offered[p].value = keys[i].value})]
  IN  /\ \A i \in 1..Len(keys) : offered[first[i]] = keys[i]
      /\ \A i, j \in 1..Len(keys) :
           i < j => first[i] < first[j] /\ Rank(keys[i]) <= Rank(keys[j])
      /\ keys # <<>> => \A p \in 1..first[Len(keys)] :
           \E i \in 1..Len(keys) : keys[i].value = offered[p].value

\* The values a list of parameters or fields has under a name.
Under(params, name) == {p[2] : p \in {q \in ToSet(params) : q[1] = name}}

\* No name occurs twice in it.
NamedOnce(params) == IsInjective([i \in 1..Len(params) |-> params[i][1]])

\* What S2S answers is stored under the identity it was asked about: the iiquid
\* sent is that of the first key, and the device ID sent, if any, is the MAID
\* key's, although the parameters and the keys are built by different code and
\* the request may leave after the host has changed the auction.
AskedIsCached == sent =>
  LET iiquid == Under(asked.params, "iiquid")
      pcid == Under(asked.params, "pcid")
      maids == {k \in ToSet(keys) : k.value[1] = "maid"}
  IN  /\ iiquid # {} <=> keys # <<>> /\ keys[1].type = "thirdParty"
      /\ iiquid # {} => iiquid = {keys[1].value[2]}
      /\ \A k \in maids : pcid = {k.value[2]}
      /\ maxKeys <= 0 /\ pcid # {} => maids # {}

\* Of gdpr, us_privacy, gpp and gpp_sid in regs, the first two in its extension
\* as well, and the consent in user and its extension, no request leaves without
\* one that the auction carries, with one that it does not, or with two values
\* for one; nor with the device ID of a device that limits ad tracking.  Signals
\* in other places (regs.coppa, gpp in the extension) buildS2SRequest never reads.
SignalsForwarded == stage = "enriched" =>
  LET r == auction.regs
      params == job.params
      ext == IF r = NoRegs THEN NoExt ELSE r.ext
      Carries(name, own, other) ==
        r # NoRegs => (own \/ (ext # NoExt /\ other) <=> Under(params, name) # {})
  IN  /\ Carries("gdpr", r.gdpr # Absent, ext.gdpr # Absent)
      /\ Carries("us_privacy", NotBlank(r.usPrivacy), NotBlank(ext.usPrivacy))
      /\ Carries("gpp", NotBlank(r.gpp), FALSE)
      /\ Carries("gpp_sid", r.gppSID # <<>>, FALSE)
      /\ NotBlank(auction.user.consent) \/ NotBlank(auction.user.extConsent) => NotBlank(job.consent)
      /\ NamedOnce(params)
      /\ auction.device # NoDevice =>
           (auction.device.lmt => Under(params, "pcid") \cup Under(params, "idtype") = {})

\* An impression is reported with the page, address and user agent that S2S was
\* asked with, or without, whatever has happened to the auction in between and
\* although each host collects them by code of its own.
ReportMatchesRequest == stage = "reported" /\ sent =>
  LET Asked(name) == Under(asked.params, name)
      ip == Under(report, "ip")
  IN  /\ NamedOnce(report)
      /\ Under(report, "vrref") \in {{}, Asked("ref")}
      /\ Under(report, "ua") = Asked("uas")
      /\ ip # {} => ip = (IF Asked("ip") # {} THEN Asked("ip") ELSE Asked("ipv6"))
      /\ Asked("ip") # {} => ip # {}
      /\ host = "module" => Under(report, "vrref") = Asked("ref")
=============================================================================
