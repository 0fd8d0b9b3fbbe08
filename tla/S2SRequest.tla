---------------------------- MODULE S2SRequest -----------------------------
(***************************************************************************)
(* enrichment/params.go and ua_hints.go: the parameters and the consent    *)
(* header of an S2S request.  A request is the sequence of its parameters, *)
(* each a name and a value, without the seven that every request has and   *)
(* without the URL encoding.                                               *)
(***************************************************************************)
EXTENDS CacheKeys

CONSTANTS
  NoSUA, NoSite, NoApp, NoRegs,
  Absent,      \* a nil number
  NoExt        \* an extension that is missing or does not decode

\* appendParameter.
Param(name, value) == IF NotBlank(value) THEN <<<<name, value>>>> ELSE <<>>

\* A number, which is written in decimal and is never blank.
NumberParam(name, n) == IF n = Absent THEN <<>> ELSE <<<<name, n>>>>

-----------------------------------------------------------------------------
\* appendBrowserHints: of the entries of a brand the last counts, in both lists.
BrowserHints(browsers) ==
  LET listed == SelectSeq(browsers, LAMBDA b : NotBlank(b.brand) /\ b.version # <<>>)
      brands == {listed[i].brand : i \in 1..Len(listed)}
      full == [b \in brands |-> SelectLastInSeq(listed, LAMBDA e : e.brand = b)]
      fullOf == [b \in brands |-> listed[full[b]].version]
      majorOf == [b \in brands |-> IF fullOf[b][1] = Empty THEN fullOf[b] ELSE <<fullOf[b][1]>>]
  IN  IF brands = {} THEN {} ELSE {<<"0", majorOf>>, <<"8", fullOf>>}

\* appendPlatformHints.
PlatformHints(platform) ==
  IF ~NotBlank(platform.brand) THEN {}
  ELSE {<<"2", platform.brand>>}
         \cup (IF platform.version = <<>> THEN {} ELSE {<<"6", platform.version>>})

\* buildUAHints: a platform that is nil has no brand.
UAHints(sua) ==
  LET Quoted(key, text) == IF NotBlank(text) THEN {<<key, text>>} ELSE {}
      hints == BrowserHints(sua.browsers) \cup PlatformHints(sua.platform)
                 \cup (IF sua.mobile = Absent THEN {} ELSE {<<"1", sua.mobile>>})
                 \cup Quoted("3", sua.architecture) \cup Quoted("4", sua.bitness)
                 \cup Quoted("5", sua.model)
  IN  IF sua = NoSUA THEN Empty
      ELSE IF sua.source # 2 \/ hints = {} THEN Empty ELSE hints

-----------------------------------------------------------------------------
\* appendDeviceID: none under limited ad tracking; a TV's in upper case.
DeviceID(d) ==
  IF ~NotBlank(d.ifa) \/ d.lmt THEN <<>>
  ELSE IF d.tv THEN Param("pcid", Upper[d.ifa]) \o Param("idtype", "8")
  ELSE Param("pcid", d.ifa) \o Param("idtype", "4")

DeviceParams(d) ==
  IF d = NoDevice THEN <<>>
  ELSE Param("ip", d.ip) \o Param("ipv6", d.ipv6) \o Param("uas", d.ua)
         \o Param("uh", UAHints(d.sua)) \o DeviceID(d)

\* resolveRef.
ResolveRef(a) ==
  IF a.site # NoSite
  THEN IF NotBlank(a.site.domain) THEN a.site.domain ELSE a.site.page
  ELSE IF a.app # NoApp
  THEN IF NotBlank(a.app.bundle) THEN a.app.bundle ELSE a.app.name
  ELSE Empty

\* resolveIIQUID.
ResolveIIQUID(eids) ==
  LET ids == FlattenSeq([i \in 1..Len(eids) |->
               IF eids[i].source = IIQ THEN IDs(eids[i]) ELSE <<>>])
  IN  IF ids = <<>> THEN Empty ELSE Head(ids)

\* Mutant: a blank us_privacy hides that of the extension.
MutPrivacyParams(r) ==
  IF r = NoRegs THEN <<>>
  ELSE NumberParam("gdpr", IF r.gdpr = Absent /\ r.ext # NoExt THEN r.ext.gdpr ELSE r.gdpr)
         \o Param("us_privacy", IF r.usPrivacy = Empty /\ r.ext # NoExt
                                THEN r.ext.usPrivacy ELSE r.usPrivacy)
         \o Param("gpp", r.gpp)
         \o (IF r.gppSID = <<>> THEN <<>> ELSE <<<<"gpp_sid", r.gppSID>>>>)

\* appendPrivacyParameters: what regs lacks of gdpr and us_privacy is taken from
\* its extension.  That is all the code reads: regs.coppa, and gpp and gpp_sid of
\* the extension, have no parameter.
PrivacyParams(r) ==
  IF r = NoRegs THEN <<>>
  ELSE NumberParam("gdpr", IF r.gdpr = Absent /\ r.ext # NoExt THEN r.ext.gdpr ELSE r.gdpr)
         \o Param("us_privacy", IF ~NotBlank(r.usPrivacy) /\ r.ext # NoExt
                                THEN r.ext.usPrivacy ELSE r.usPrivacy)
         \o Param("gpp", r.gpp)
         \o (IF r.gppSID = <<>> THEN <<>> ELSE <<<<"gpp_sid", r.gppSID>>>>)

\* resolveConsent; a user without extension has Empty there.
ResolveConsent(user) == IF NotBlank(user.consent) THEN user.consent ELSE user.extConsent

\* buildS2SRequest.
BuildS2SRequest(a) ==
  DeviceParams(a.device) \o Param("ref", ResolveRef(a))
    \o Param("iiquid", ResolveIIQUID(a.user.eids)) \o PrivacyParams(a.regs)
=============================================================================
