----------------------------- MODULE ReportURL -----------------------------
(***************************************************************************)
(* reporting/builder.go, and what the two example hosts put into a report: *)
(* example/prebid-module/auctioncontext.go and example/basic/main.go.  The *)
(* report is its rdata, a sequence of fields, without the four that every  *)
(* report has; the URL around it is left out.                              *)
(***************************************************************************)
EXTENDS S2SRequest

\* orderedMap.put: a key keeps the place of its first value.
PutField(m, field) ==
  IF \E i \in 1..Len(m) : m[i][1] = field[1]
  THEN [i \in 1..Len(m) |-> IF m[i][1] = field[1] THEN field ELSE m[i]]
  ELSE Append(m, field)

\* appendOriginalBid.
OriginalBid(ext) ==
  IF ext = NoExt THEN <<>>
  ELSE NumberParam("originalCpm", ext.cpm) \o Param("originalCurrency", ext.cur)

\* buildReportURL; Param stands for putIfPresent.
ReportFields(r) ==
  <<<<"cpm", r.bid.price>>, <<"currency", IF r.currency = Empty THEN "USD" ELSE r.currency>>>>
    \o OriginalBid(r.bid.ext)
    \o Param("vrref", r.context.reference)
    \o Param("prebidAuctionId", r.context.id) \o Param("partnerAuctionId", r.context.id)
    \o Param("abTestUuid", r.abTestUuid) \o NumberParam("terminationCause", r.cause)
    \o Param("ip", r.context.ip) \o Param("ua", r.context.ua)

\* rdata[i] is the report after i calls of put.
BuildReportURL(r) ==
  LET fields == ReportFields(r)
      rdata[i \in 0..Len(fields)] ==
        IF i = 0 THEN <<>> ELSE PutField(rdata[i - 1], fields[i])
  IN  rdata[Len(fields)]

-----------------------------------------------------------------------------
Context(id, reference, ip, ua) == [id |-> id, reference |-> reference, ip |-> ip, ua |-> ua]

\* The IPv6 address only when there is no IP: a blank one counts as an IP.
AddressOf(d) == IF d.ip # Empty THEN d.ip ELSE d.ipv6

\* newAuctionContext.
FirstNotBlank(text, other) == IF NotBlank(text) THEN text ELSE other

NewAuctionContext(a) ==
  Context(a.id,
          IF a.site # NoSite THEN FirstNotBlank(a.site.domain, a.site.page)
          ELSE IF a.app # NoApp THEN FirstNotBlank(a.app.bundle, a.app.name) ELSE Empty,
          IF a.device = NoDevice THEN Empty ELSE AddressOf(a.device),
          IF a.device = NoDevice THEN Empty ELSE a.device.ua)

\* The basic example's auctionReference, which a blank domain or bundle
\* satisfies, and its auctionIP and auctionUserAgent.
AuctionReference(a) ==
  IF a.site # NoSite THEN IF a.site.domain # Empty THEN a.site.domain ELSE a.site.page
  ELSE IF a.app # NoApp THEN IF a.app.bundle # Empty THEN a.app.bundle ELSE a.app.name
  ELSE Empty

BasicContext(a) ==
  Context(a.id, AuctionReference(a),
          IF a.device = NoDevice THEN Empty ELSE AddressOf(a.device),
          IF a.device = NoDevice THEN Empty ELSE a.device.ua)
=============================================================================
