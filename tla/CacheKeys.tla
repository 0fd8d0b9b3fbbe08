----------------------------- MODULE CacheKeys -----------------------------
(***************************************************************************)
(* enrichment/cache_keys.go and user_agent.go: the cache keys of an        *)
(* auction, by priority.  A key value is a namespace and the rest;         *)
(* concatenating the two is taken to be injective (a namespace is a domain *)
(* name or one of the four that the code uses itself).                     *)
(*                                                                         *)
(* Texts are model values.  Empty is the empty string, Blank one that is   *)
(* not empty but that TrimSpace empties; Upper and Lower are what          *)
(* strings.ToUpper and ToLower do to the texts they are applied to.  A nil *)
(* user is one without anything.                                           *)
(***************************************************************************)
EXTENDS Integers, FiniteSets, Sequences, SequencesExt

CONSTANTS
  Empty, Blank,
  IIQ,        \* the source intentiq.com
  Shared,     \* pubcid.org and sharedid.org
  Lower,      \* the namespace of each other source
  Upper,      \* identifiers in upper case
  Matches,    \* what the patterns find in each user agent: families, "mobile"
  NoDevice

NotBlank(text) == text \notin {Empty, Blank}

Present(text) == IF NotBlank(text) THEN <<text>> ELSE <<>>

\* The sources that the code treats each in its own way are different ones, and
\* an identifier in upper case is still there.
ASSUME TextAssumption ==
  /\ IIQ # Empty /\ {IIQ, Empty} \cap Shared = {}
  /\ \A id \in DOMAIN Upper : NotBlank(Upper[id])

-----------------------------------------------------------------------------
\* normalizeUserAgent: of each list the first rule that matches, if any does.
\* A family stands for itself and the version behind it.
OperatingSystems == <<"iOS", "MacOSX", "Android", "Windows", "ChromeOS", "Linux">>
Browsers == <<"Edge", "Opera", "SamsungBrowser", "Firefox", "Chrome", "Safari">>
DeviceFamilies == <<"iPad", "iPod", "iPhone", "Pixel", "Nexus", "Mac">>

FirstMatch(ua, rules) ==
  LET matching == SelectSeq(rules, LAMBDA family : family \in Matches[ua])
  IN  IF matching = <<>> THEN <<>> ELSE <<Head(matching)>>

BrowserToken(ua) ==
  LET family == FirstMatch(ua, Browsers)
  IN  IF "mobile" \in Matches[ua] /\ family \in {<<"Chrome">>, <<"Safari">>}
      THEN <<"Mobile">> \o family ELSE family

NormalizeUserAgent(ua) ==
  IF NotBlank(ua)
  THEN FirstMatch(ua, OperatingSystems) \o BrowserToken(ua) \o FirstMatch(ua, DeviceFamilies)
  ELSE <<>>

-----------------------------------------------------------------------------
Key(namespace, id, type) == [value |-> <<namespace, id>>, type |-> type]

\* The IDs of an eid that are not blank, in their order.
IDs(eid) == FlattenSeq([i \in 1..Len(eid.uids) |-> Present(eid.uids[i])])

\* The keys of one eid.
EIDKeys(eid, namespace, type) ==
  [i \in 1..Len(IDs(eid)) |-> Key(namespace, IDs(eid)[i], type)]

\* appendMatchingEIDKeys.
MatchingEIDKeys(eids, namespace, type, sources) ==
  FlattenSeq([i \in 1..Len(eids) |->
    IF eids[i].source \in sources THEN EIDKeys(eids[i], namespace, type) ELSE <<>>])

\* appendMAIDKey: none under limited ad tracking; a TV's in upper case.
MAIDKey(d) ==
  IF d = NoDevice \/ ~NotBlank(d.ifa) \/ d.lmt THEN <<>>
  ELSE <<Key("maid", IF d.tv THEN Upper[d.ifa] ELSE d.ifa, "firstParty")>>

\* appendOtherEIDKeys.
OtherEIDKeys(eids) ==
  FlattenSeq([i \in 1..Len(eids) |->
    IF eids[i].source \in {Empty, IIQ} \cup Shared THEN <<>>
    ELSE EIDKeys(eids[i], Lower[eids[i].source], "firstParty")])

\* appendDeviceKey: IFA, normalised user agent and IP (or IPv6), those there are.
DeviceKey(d) ==
  LET ip == IF NotBlank(d.ip) THEN d.ip ELSE d.ipv6
      ua == NormalizeUserAgent(d.ua)
      fields == Present(d.ifa) \o ua \o Present(ip)
  IN  IF d = NoDevice THEN <<>>
      ELSE IF fields = <<>> THEN <<>> ELSE <<Key("dev", fields, "device")>>

\* Mutant: the device key goes before the other eids.
MutCandidates(a) ==
  MatchingEIDKeys(a.user.eids, "iiq", "thirdParty", {IIQ})
    \o MatchingEIDKeys(a.user.eids, "pubcid", "firstParty", Shared)
    \o MAIDKey(a.device) \o DeviceKey(a.device) \o OtherEIDKeys(a.user.eids)

\* extractCacheKeys, before the last call.
Candidates(a) ==
  MatchingEIDKeys(a.user.eids, "iiq", "thirdParty", {IIQ})
    \o MatchingEIDKeys(a.user.eids, "pubcid", "firstParty", Shared)
    \o MAIDKey(a.device) \o OtherEIDKeys(a.user.eids) \o DeviceKey(a.device)

\* Mutant: the limit counts duplicates.
MutCapFirst(ks, max) ==
  LET capped == IF max > 0 /\ max < Len(ks) THEN SubSeq(ks, 1, max) ELSE ks
      upTo[i \in 0..Len(capped)] ==
        IF i = 0 THEN <<>>
        ELSE IF \E j \in 1..Len(upTo[i - 1]) : upTo[i - 1][j].value = capped[i].value
             THEN upTo[i - 1]
             ELSE Append(upTo[i - 1], capped[i])
  IN  upTo[Len(capped)]

\* deduplicateAndCapKeys: upTo[i] is result after i keys.
Dedup(ks, max) ==
  LET upTo[i \in 0..Len(ks)] ==
        IF i = 0 THEN <<>>
        ELSE IF \/ max > 0 /\ Len(upTo[i - 1]) >= max
                \/ \E j \in 1..Len(upTo[i - 1]) : upTo[i - 1][j].value = ks[i].value
             THEN upTo[i - 1]
             ELSE Append(upTo[i - 1], ks[i])
  IN  upTo[Len(ks)]

\* extractCacheKeys.
ExtractCacheKeys(a, max) == Dedup(Candidates(a), max)
=============================================================================
