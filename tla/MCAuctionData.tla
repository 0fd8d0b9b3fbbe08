--------------------------- MODULE MCAuctionData ---------------------------
(***************************************************************************)
(* An instance of AuctionData for TLC: auctions with many eids for one     *)
(* host, and auctions with few eids but everything else for all hosts.     *)
(* Two sources differ in case only, one has the name of a namespace of the *)
(* code, and identifiers repeat.                                           *)
(***************************************************************************)
EXTENDS AuctionData, TLC

CONSTANTS u1, u2, p1, p2, ua1, ua2, ip4, ip6

MCTexts == {Empty, Blank, u1, u2, p1, p2}

MCLower == ("Ads" :> "ads") @@ ("ads" :> "ads") @@ ("iiq" :> "iiq")
MCUpper == (u1 :> u2) @@ (u2 :> u2)
MCShared == {"pubcid.org", "sharedid.org"}
MCMatches == (ua1 :> {"iOS", "MacOSX", "Safari", "mobile", "iPhone"}) @@ (ua2 :> {})

EID(source, uids) == [source |-> source, uids |-> uids]
MCEIDs == [source : {IIQ, Empty} \cup MCShared \cup DOMAIN MCLower,
           uids : {<<>>, <<u1>>, <<Blank, u2>>, <<u1, u2>>}]
MCEIDLists == {<<>>} \cup {<<e>> : e \in MCEIDs} \cup (MCEIDs \X MCEIDs)

SUA(source, browsers, brand, model) ==
  [source |-> source, browsers |-> browsers, mobile |-> Absent, architecture |-> Empty,
   bitness |-> Blank, model |-> model, platform |-> [brand |-> brand, version |-> <<"17">>]]
Brand(name, version) == [brand |-> name, version |-> version]

MCSUAs == {NoSUA, SUA(1, <<>>, "iOS", "m"), SUA(2, <<>>, Empty, Empty),
           SUA(2, <<Brand("B", <<"1">>), Brand(Blank, <<"1">>), Brand("B", <<"2", "0">>)>>, "iOS", "m")}

Device(ifa, lmt, tv, ua, ip, ipv6, sua) ==
  [ifa |-> ifa, lmt |-> lmt, tv |-> tv, ua |-> ua, ip |-> ip, ipv6 |-> ipv6, sua |-> sua]
MCKeyDevices == {NoDevice, Device(u1, FALSE, FALSE, ua1, Empty, ip6, NoSUA),
                 Device(u1, FALSE, TRUE, Blank, ip4, Empty, NoSUA),
                 Device(Blank, FALSE, FALSE, ua2, Blank, Empty, NoSUA)}
MCDevices ==
  {NoDevice} \cup {Device(u1, lmt, tv, ua1, ip4, ip6, sua) :
                     lmt \in BOOLEAN, tv \in BOOLEAN, sua \in MCSUAs}
    \cup {Device(Empty, FALSE, FALSE, ua, ip, ipv6, NoSUA) :
            ua \in {Empty, Blank, ua2}, ip \in {Empty, Blank, ip4}, ipv6 \in {Empty, Blank, ip6}}

MCSites == {NoSite} \cup [domain : {Empty, Blank, p1}, page : {Empty, p2}]
MCApps == {NoApp} \cup [bundle : {Blank, p1}, name : {p2}]
MCRegs == {NoRegs} \cup
  [gdpr : {Absent, 1}, usPrivacy : {Blank, p1}, gpp : {Empty, p1}, gppSID : {<<>>, <<2, 6>>},
   ext : {NoExt} \cup [gdpr : {Absent, 0}, usPrivacy : {Empty, p2}]]

User(eids) == [eids |-> eids, extEids |-> <<>>, consent |-> Empty, extConsent |-> Empty]
MCUsers ==
  {User(<<>>), User(<<EID(IIQ, <<Blank, u1>>), EID(IIQ, <<u2>>)>>)}
    \cup [eids : {<<>>, <<EID("ads", <<u1>>)>>}, extEids : {<<>>, <<EID(IIQ, <<u2>>)>>},
          consent : {Blank, p1}, extConsent : {Empty, p2}]

MCHosts == {"module", "basic", "benchmark"}

\* Many eids; many devices and places; many users and regulations.
MCCases ==
  {[users |-> {User(l) : l \in MCEIDLists}, devices |-> MCKeyDevices, sites |-> {NoSite},
    apps |-> {NoApp}, regs |-> {NoRegs}, hosts |-> {"benchmark"}, limits |-> 0..3],
   [users |-> {User(<<EID("Ads", <<u1>>)>>)}, devices |-> MCDevices, sites |-> MCSites,
    apps |-> MCApps, regs |-> {NoRegs}, hosts |-> MCHosts, limits |-> {0}],
   [users |-> MCUsers, devices |-> {Device(u1, FALSE, TRUE, ua1, ip4, ip6, NoSUA)},
    sites |-> {NoSite}, apps |-> {NoApp}, regs |-> MCRegs, hosts |-> MCHosts, limits |-> {0, 1}]}

MCResolved == {<<EID(IIQ, <<u1>>)>>}
MCBids == {[price |-> 1, ext |-> NoExt, currency |-> Empty, abTestUuid |-> Empty, cause |-> Absent],
           [price |-> 1, ext |-> [cpm |-> 2, cur |-> p1], currency |-> p2, abTestUuid |-> p1, cause |-> 0]}
=============================================================================
