----------------------------- MODULE ContextProofs -----------------------------
(***************************************************************************)
(* Proofs about ContextSegments, for whatever arguments the segments are   *)
(* made from and however many the application keeps.                       *)
(***************************************************************************)
EXTENDS ContextSegments, SequenceTheorems, TLAPS

RawType ==
    [content : Text, trust_level : Words, authority_name : AuthorityNames \cup {NoAuthority},
     is_untrusted_authority : BOOLEAN, source_id : Text, source_type : Text,
     origin_type : Text, content_type : Text, source_label : Text, segment_id : Text]

BuildType ==
    [content : Text, authority_name : AuthorityNames,
     is_untrusted_authority : {"unset", "yes", "no"},
     origin_type : Text, content_type : Text, source_label : Text]

Segments ==
    [content : Text, trust_level : TrustLevels, authority_name : AuthorityNames,
     is_untrusted_authority : BOOLEAN, source_id : Text, source_type : Text,
     source_label : Text, segment_id : Text]

Digest(s) == digest_src(s.authority_name, s.source_id, s.source_type, s.content)

\* What is true of a segment however it was made: it has a source, a flag that agrees
\* with its authority, and a trust level SYSTEM only if its authority has it by itself.
WellMade(s) ==
    /\ s \in Segments
    /\ s.source_id # <<>> /\ s.source_type # <<>>
    /\ s.authority_name \in UntrustedAuthorities => s.is_untrusted_authority

RootOnly(s) == Bypasses(s) => s.authority_name \in {"protocol_root", "system"}

LEMMA OrType ==
    ASSUME NEW t1 \in Text, NEW t2 \in Text
    PROVE  Or(t1, t2) \in Text /\ (t2 # <<>> => Or(t1, t2) # <<>>)
BY DEF Or

LEMMA WordTexts ==
    /\ <<"unknown">> \in Text /\ <<"unknown">> # <<>>
    /\ <<"text">> \in Text /\ <<>> \in Text
<1>1. <<"unknown">> \in Text
  BY WordAssumption DEF Text
<1>2. <<"text">> \in Text
  BY WordAssumption DEF Text
<1>3. <<>> \in Text
  BY DEF Text
<1>4. <<"unknown">> # <<>>
  OBVIOUS
<1> QED
  BY <1>1, <1>2, <1>3, <1>4

\* The digested text begins with the authority.
LEMMA DigestBegins ==
    ASSUME NEW authority \in AuthorityNames, NEW source_id \in Text,
           NEW source_type \in Text, NEW content \in Text
    PROVE  /\ digest_src(authority, source_id, source_type, content) \in Text
           /\ digest_src(authority, source_id, source_type, content)[1] = authority
<1> DEFINE head == <<authority, "|">>
           bar == <<"|">>
<1>1. /\ head \in Text /\ bar \in Text /\ Len(head) = 2 /\ head[1] = authority
  <2>1. authority \in Words
    BY WordAssumption
  <2>2. head \in Text
    BY <2>1, WordAssumption DEF Text
  <2>3. bar \in Text
    BY WordAssumption DEF Text
  <2>4. Len(head) = 2 /\ head[1] = authority
    OBVIOUS
  <2> QED
    BY <2>2, <2>3, <2>4
<1> HIDE DEF head, bar
<1>2. ASSUME NEW s \in Text, Len(s) >= 2, s[1] = authority, NEW t \in Text
      PROVE  s \o t \in Text /\ Len(s \o t) >= 2 /\ (s \o t)[1] = authority
  BY <1>2, ConcatProperties DEF Text
<1>3. PICK S : S = {s \in Text : Len(s) >= 2 /\ s[1] = authority}
  OBVIOUS
<1>4. head \in S
  BY <1>1, <1>3
<1>5. \A s \in S, t \in Text : s \o t \in S
  BY <1>2, <1>3
<1>6. head \o source_id \o bar \o source_type \o bar \o content \in S
  BY <1>1, <1>4, <1>5
<1>7. digest_src(authority, source_id, source_type, content) \in S
  BY <1>6 DEF digest_src, head, bar
<1> QED
  BY <1>3, <1>7

LEMMA TrustFacts ==
    /\ \A trust \in TrustLevels : _TRUST_TO_AUTHORITY[trust] \in AuthorityNames
    /\ _TRUST_TO_AUTHORITY["UNTRUSTED"] = "unknown_untrusted"
    /\ NoTrust \notin TrustLevels /\ "UNTRUSTED" \in TrustLevels
    /\ \A a \in AuthorityNames :
        /\ DerivedTrust(a) \in TrustLevels
        /\ DerivedTrust(a) = "SYSTEM" => a \in {"protocol_root", "system"}
BY DEF _TRUST_TO_AUTHORITY, AuthorityNames, TrustLevels, NoTrust, DerivedTrust,
       UntrustedAuthorities

\* The constructor makes a segment out of any arguments.
LEMMA PostInitFacts ==
    ASSUME NEW raw \in RawType
    PROVE  LET s == __post_init__(raw) IN
           /\ WellMade(s)
           /\ raw.authority_name # NoAuthority => s.authority_name = raw.authority_name
           /\ raw.is_untrusted_authority => s.is_untrusted_authority
           /\ raw.segment_id = <<>> => s.segment_id = Digest(s)
           /\ raw.trust_level # "SYSTEM" => RootOnly(s)
<1> DEFINE s == __post_init__(raw)
           trust == IF raw.trust_level \in TrustLevels \cup {NoTrust}
                    THEN raw.trust_level ELSE "UNTRUSTED"
           authority == IF raw.authority_name # NoAuthority THEN raw.authority_name
                        ELSE IF trust = NoTrust THEN _TRUST_TO_AUTHORITY["UNTRUSTED"]
                        ELSE _TRUST_TO_AUTHORITY[trust]
           source_id == Or(raw.source_id,
                           Or(raw.source_label, Or(raw.origin_type, <<"unknown">>)))
           source_type == Or(raw.source_type,
                             Or(raw.origin_type, Or(raw.content_type, <<"unknown">>)))
           digest == digest_src(authority, source_id, source_type, raw.content)
           level == IF trust = NoTrust THEN DerivedTrust(authority) ELSE trust
           flag == UntrustedFlag(raw.is_untrusted_authority, authority)
           label == Or(raw.source_label, source_id)
           id == Or(raw.segment_id, digest)
<1>1. s = [content |-> raw.content, trust_level |-> level, authority_name |-> authority,
           is_untrusted_authority |-> flag, source_id |-> source_id,
           source_type |-> source_type, source_label |-> label, segment_id |-> id]
  BY DEF __post_init__
<1>2. /\ raw.content \in Text /\ raw.source_id \in Text /\ raw.source_type \in Text
      /\ raw.origin_type \in Text /\ raw.content_type \in Text /\ raw.source_label \in Text
      /\ raw.segment_id \in Text /\ raw.authority_name \in AuthorityNames \cup {NoAuthority}
      /\ raw.is_untrusted_authority \in BOOLEAN
  BY DEF RawType
<1>3. /\ source_id \in Text /\ source_id # <<>>
      /\ source_type \in Text /\ source_type # <<>>
      /\ label \in Text
  <2>1. Or(raw.origin_type, <<"unknown">>) \in Text /\ Or(raw.origin_type, <<"unknown">>) # <<>>
    BY <1>2, WordTexts, OrType
  <2>2. Or(raw.content_type, <<"unknown">>) \in Text /\ Or(raw.content_type, <<"unknown">>) # <<>>
    BY <1>2, WordTexts, OrType
  <2> QED
    BY <1>2, <2>1, <2>2 DEF Or
<1>4. trust \in TrustLevels \cup {NoTrust} /\ (trust = "SYSTEM" => raw.trust_level = "SYSTEM")
  BY TrustFacts
<1> HIDE DEF trust, source_id, source_type, label
<1>5. authority \in AuthorityNames
  BY <1>2, <1>4, TrustFacts DEF AuthorityNames
<1>6. raw.authority_name # NoAuthority => authority = raw.authority_name
  OBVIOUS
<1> HIDE DEF authority
<1>7. level \in TrustLevels
      /\ (level = "SYSTEM" => \/ raw.trust_level = "SYSTEM"
                             \/ authority \in {"protocol_root", "system"})
  BY <1>4, <1>5, TrustFacts
<1>8. /\ flag \in BOOLEAN /\ (authority \in UntrustedAuthorities => flag)
      /\ raw.is_untrusted_authority => flag
  BY <1>2 DEF UntrustedFlag
<1>9. id \in Text /\ (raw.segment_id = <<>> => id = digest)
  BY <1>2, <1>3, <1>5, DigestBegins DEF Or
<1> HIDE DEF level, flag, id
<1>10. /\ s.trust_level = level /\ s.authority_name = authority
       /\ s.is_untrusted_authority = flag /\ s.source_id = source_id
       /\ s.source_type = source_type /\ s.segment_id = id /\ s.content = raw.content
  BY <1>1
<1>11. s \in Segments
  BY <1>1, <1>2, <1>3, <1>5, <1>7, <1>8, <1>9 DEF Segments
<1> HIDE DEF s
<1>12. WellMade(s)
  BY <1>3, <1>8, <1>10, <1>11 DEF WellMade
<1>13. raw.segment_id = <<>> => s.segment_id = Digest(s)
  BY <1>9, <1>10 DEF Digest
<1>14. raw.trust_level # "SYSTEM" => RootOnly(s)
  BY <1>7, <1>10 DEF RootOnly, Bypasses
<1> QED
  BY <1>6, <1>8, <1>10, <1>12, <1>13, <1>14 DEF s

\* The factory states an authority and no trust level.
LEMMA BuildFacts ==
    ASSUME NEW b \in BuildType
    PROVE  /\ WellMade(build(b)) /\ RootOnly(build(b))
           /\ build(b).authority_name = b.authority_name
           /\ b.is_untrusted_authority = "yes" => build(b).is_untrusted_authority
           /\ build(b).segment_id = Digest(build(b))
<1> DEFINE flag == CASE b.is_untrusted_authority = "yes" -> TRUE
                     [] b.is_untrusted_authority = "no" -> FALSE
                     [] OTHER -> b.authority_name \notin
                           {"protocol_root", "system", "developer", "authenticated_user"}
           source_id == Or(b.source_label, Or(b.origin_type, <<"unknown">>))
           source_type == Or(b.origin_type, Or(b.content_type, <<"unknown">>))
           raw == [content |-> b.content, trust_level |-> NoTrust,
                   authority_name |-> b.authority_name, is_untrusted_authority |-> flag,
                   source_id |-> source_id, source_type |-> source_type,
                   origin_type |-> b.origin_type, content_type |-> b.content_type,
                   source_label |-> b.source_label, segment_id |-> <<>>]
<1>1. build(b) = __post_init__(raw)
  BY DEF build
<1>2. /\ b.content \in Text /\ b.origin_type \in Text /\ b.content_type \in Text
      /\ b.source_label \in Text /\ b.authority_name \in AuthorityNames
      /\ b.is_untrusted_authority \in {"unset", "yes", "no"}
  BY DEF BuildType
<1>3. source_id \in Text /\ source_type \in Text
  BY <1>2, WordTexts, OrType
<1>4. flag \in BOOLEAN /\ (b.is_untrusted_authority = "yes" => flag)
  BY <1>2
<1> HIDE DEF flag, source_id, source_type
<1>5. NoTrust \in Words /\ NoTrust # "SYSTEM" /\ b.authority_name # NoAuthority
  <2>1. NoTrust \in Words /\ NoTrust # "SYSTEM"
    BY WordAssumption DEF NoTrust
  <2>2. NoAuthority \notin AuthorityNames
    BY DEF NoAuthority, AuthorityNames
  <2> QED
    BY <1>2, <2>1, <2>2
<1>6. raw \in RawType
  BY <1>2, <1>3, <1>4, <1>5, WordTexts DEF RawType
<1>7. /\ raw.authority_name = b.authority_name /\ raw.is_untrusted_authority = flag
      /\ raw.segment_id = <<>> /\ raw.trust_level = NoTrust
  OBVIOUS
<1> HIDE DEF raw
<1> QED
  BY <1>1, <1>4, <1>5, <1>6, <1>7, PostInitFacts

\* What metadata prove is the authority the segment gets; a doubt becomes a flag.
LEMMA AutoTagSegmentFacts ==
    ASSUME NEW m \in Metadata, ValidMetadata(m)
    PROVE  LET s == auto_tag_segment(m) IN
           /\ WellMade(s) /\ RootOnly(s) /\ s.segment_id = Digest(s)
           /\ s.authority_name = ProvenAuthority(m)
           /\ m.boundary_crossed \/ m.trust_tier # "trusted" => s.is_untrusted_authority
<1> DEFINE doubt == m.trust_tier \in {"untrusted", "mixed"} \/ m.boundary_crossed
           b == [content |-> m.content, authority_name |-> ProvenAuthority(m),
                 is_untrusted_authority |-> IF doubt THEN "yes" ELSE "no",
                 origin_type |-> m.source_type, content_type |-> <<"text">>,
                 source_label |-> m.source_id]
<1>1. auto_tag_segment(m) = build(b)
  BY DEF auto_tag_segment
<1>2. ProvenAuthority(m) \in AuthorityNames
  BY DEF ProvenAuthority, AuthorityNames
<1>3. b \in BuildType
  BY <1>2, WordTexts, SegmentAssumption DEF BuildType
<1>4. b.authority_name = ProvenAuthority(m) /\ (b.is_untrusted_authority = "yes" <=> doubt)
  OBVIOUS
<1>5. m.boundary_crossed \/ m.trust_tier # "trusted" => doubt
  BY DEF ValidMetadata, VALID_TIERS
<1> HIDE DEF b, doubt
<1> QED
  BY <1>1, <1>3, <1>4, <1>5, BuildFacts

\* A segment always has a source already: tagging it again is without effect.
LEMMA AutoTagFacts ==
    ASSUME NEW s, WellMade(s), NEW tag
    PROVE  auto_tag(s, tag) = s
<1>1. Or(s.source_id, tag[1]) = s.source_id /\ Or(s.source_type, tag[2]) = s.source_type
  BY DEF Or, WellMade
<1> QED
  BY <1>1 DEF auto_tag, WellMade, Segments
-------------------------------------------------------------------------------
Hows ==
    [by : {"constructor"}, from : RawSegments] \cup [by : {"build"}, from : Builds]
        \cup [by : {"metadata"}, from : Metadata]

\* What a segment owes to the way it was made.
AsMade(s, how) ==
    /\ WellMade(s)
    /\ (how.by = "constructor" => how.from.segment_id = <<>>) => s.segment_id = Digest(s)
    /\ RootOnly(s) \/ (how.by = "constructor" /\ how.from.trust_level = "SYSTEM")
    /\ how.by = "metadata" =>
        /\ s.authority_name = ProvenAuthority(how.from)
        /\ how.from.boundary_crossed \/ how.from.trust_tier # "trusted"
                => s.is_untrusted_authority

StoreInv ==
    /\ store \in Seq(Segments) /\ made \in Seq(Hows) /\ Len(made) = Len(store)
    /\ \A i \in 1 .. Len(store) : AsMade(store[i], made[i])

LEMMA KeepStep ==
    ASSUME StoreInv, NEW s, NEW how \in Hows, AsMade(s, how), Keep(s, how)
    PROVE  StoreInv'
<1>1. s \in Segments
  BY DEF AsMade, WellMade
<1>2. store' = Append(store, s) /\ made' = Append(made, how)
  BY DEF Keep
<1>3. /\ store' \in Seq(Segments) /\ made' \in Seq(Hows)
      /\ Len(store') = Len(store) + 1 /\ Len(made') = Len(store) + 1
      /\ Len(store) \in Nat
      /\ store'[Len(store) + 1] = s /\ made'[Len(store) + 1] = how
      /\ \A i \in 1 .. Len(store) : store'[i] = store[i] /\ made'[i] = made[i]
  BY <1>1, <1>2 DEF StoreInv
<1>4. ASSUME NEW i \in 1 .. Len(store') PROVE AsMade(store'[i], made'[i])
  <2>1. CASE i = Len(store) + 1
    BY <1>3, <2>1
  <2>2. CASE i # Len(store) + 1
    <3>1. i \in 1 .. Len(store)
      BY <1>3, <2>2
    <3> QED
      BY <1>3, <3>1 DEF StoreInv
  <2> QED
    BY <2>1, <2>2
<1> QED
  BY <1>3, <1>4 DEF StoreInv

LEMMA StoreStep == StoreInv /\ [Next]_vars => StoreInv'
<1> SUFFICES ASSUME StoreInv, [Next]_vars
             PROVE  StoreInv'
  OBVIOUS
<1>1. CASE UNCHANGED vars
  BY <1>1 DEF vars, StoreInv
<1>2. ASSUME NEW raw \in RawSegments, Construct(raw) PROVE StoreInv'
  <2> DEFINE how == [by |-> "constructor", from |-> raw]
  <2>1. how \in Hows /\ how.by = "constructor" /\ how.from = raw
    BY DEF Hows
  <2> HIDE DEF how
  <2>2. raw \in RawType
    BY SegmentAssumption DEF RawType
  <2>3. AsMade(__post_init__(raw), how)
    BY <2>1, <2>2, PostInitFacts DEF AsMade
  <2>4. Keep(__post_init__(raw), how)
    BY <1>2 DEF Construct, how
  <2> QED
    BY <2>1, <2>3, <2>4, KeepStep
<1>3. ASSUME NEW b \in Builds, Build(b) PROVE StoreInv'
  <2> DEFINE how == [by |-> "build", from |-> b]
  <2>1. how \in Hows /\ how.by = "build" /\ how.from = b
    BY DEF Hows
  <2> HIDE DEF how
  <2>2. b \in BuildType
    BY SegmentAssumption DEF BuildType
  <2>3. AsMade(build(b), how)
    BY <2>1, <2>2, BuildFacts DEF AsMade
  <2>4. Keep(build(b), how)
    BY <1>3 DEF Build, how
  <2> QED
    BY <2>1, <2>3, <2>4, KeepStep
<1>4. ASSUME NEW m \in Metadata, FromMetadata(m) PROVE StoreInv'
  <2> DEFINE how == [by |-> "metadata", from |-> m]
  <2>1. how \in Hows /\ how.by = "metadata" /\ how.from = m
    BY DEF Hows
  <2> HIDE DEF how
  <2>2. ValidMetadata(m) /\ Keep(auto_tag_segment(m), how)
    BY <1>4 DEF FromMetadata, how
  <2>3. AsMade(auto_tag_segment(m), how)
    BY <2>1, <2>2, AutoTagSegmentFacts DEF AsMade
  <2> QED
    BY <2>1, <2>2, <2>3, KeepStep
<1>5. ASSUME NEW i \in DOMAIN store, NEW tag \in Tags, Tag(i, tag) PROVE StoreInv'
  <2>1. i \in 1 .. Len(store)
    BY DEF StoreInv
  <2>2. auto_tag(store[i], tag) = store[i]
    BY <2>1, AutoTagFacts DEF StoreInv, AsMade
  <2>3. UNCHANGED vars
    BY <1>5, <2>2 DEF Tag, vars, StoreInv
  <2> QED
    BY <1>1, <2>3
<1> QED
  BY <1>1, <1>2, <1>3, <1>4, <1>5 DEF Next

LEMMA SpecStores == Spec => []StoreInv
<1>1. Init => StoreInv
  BY DEF Init, StoreInv
<1> QED
  BY <1>1, StoreStep, PTL DEF Spec

LEMMA StoreDomain ==
    ASSUME StoreInv, NEW i \in DOMAIN store
    PROVE  AsMade(store[i], made[i]) /\ store[i].authority_name \in AuthorityNames
<1>1. AsMade(store[i], made[i])
  BY DEF StoreInv
<1> QED
  BY <1>1 DEF AsMade, WellMade, Segments

\* The list the constructor flags segments by and the table of the gate, kept in
\* different files, agree for every segment: nobody who may at most enter the prompt
\* goes unflagged.
THEOREM PowerlessFlagged == Spec => []PowerlessAreFlagged
<1>1. \A a \in AuthorityNames :
        EFFECT_ALLOW_MAP[a] \subseteq {"prompt_entry"} => a \in UntrustedAuthorities
  BY DEF AuthorityNames, EFFECT_ALLOW_MAP, UntrustedAuthorities, Effects
<1>2. StoreInv => PowerlessAreFlagged
  BY <1>1, StoreDomain DEF PowerlessAreFlagged, AsMade, WellMade
<1> QED
  BY <1>2, SpecStores, PTL

\* A derived identifier tells the authority and the source of its segment, whatever the
\* texts are made of and however often it is tagged again.
THEOREM IdsTellSource == Spec => []SegmentIdTellsSource
<1>1. ASSUME StoreInv, NEW i \in DOMAIN store, OwnId(i)
      PROVE  /\ store[i].segment_id = Digest(store[i])
             /\ store[i].segment_id[1] = store[i].authority_name
  <2>1. store[i].segment_id = Digest(store[i])
    BY <1>1, StoreDomain DEF OwnId, AsMade
  <2>2. store[i] \in Segments
    BY <1>1, StoreDomain DEF AsMade, WellMade
  <2> QED
    BY <2>1, <2>2, DigestBegins DEF Digest, Segments
<1>2. StoreInv => SegmentIdTellsSource
  BY <1>1 DEF SegmentIdTellsSource, Digest
<1> QED
  BY <1>2, SpecStores, PTL

\* Whatever metadata claim, they prove no lasting effect, and nothing but entry to the
\* prompt once a boundary was crossed or the tier is not "trusted".
THEOREM MetadataProveLittle == Spec => []MetadataProvesLittle
<1>1. /\ EFFECT_ALLOW_MAP["authenticated_user"] = {"prompt_entry", "planning_influence"}
      /\ EFFECT_ALLOW_MAP["user_content"] = {"prompt_entry"}
  BY DEF EFFECT_ALLOW_MAP, AuthorityNames
<1>2. ASSUME StoreInv, NEW i \in DOMAIN store, made[i].by = "metadata"
      PROVE  /\ store[i].authority_name = ProvenAuthority(made[i].from)
             /\ made[i].from.boundary_crossed \/ made[i].from.trust_tier # "trusted"
                    => store[i].is_untrusted_authority
  BY <1>2, StoreDomain DEF AsMade
<1>3. StoreInv => MetadataProvesLittle
  BY <1>1, <1>2 DEF MetadataProvesLittle, ProvenAuthority
<1> QED
  BY <1>3, SpecStores, PTL

\* Screening is skipped for those who may change the policy, and for whoever claimed
\* the trust level SYSTEM outright.
THEOREM SkippedForRootOnly == Spec => []ScreeningSkippedForRootOnly
<1>1. \A a \in {"protocol_root", "system"} : "policy_change" \in EFFECT_ALLOW_MAP[a]
  BY DEF AuthorityNames, EFFECT_ALLOW_MAP, Effects
<1>2. StoreInv => ScreeningSkippedForRootOnly
  BY <1>1, StoreDomain DEF ScreeningSkippedForRootOnly, AsMade, RootOnly
<1> QED
  BY <1>2, SpecStores, PTL

\* Tagging a segment later changes nothing: ProvenanceContract.auto_tag only fills
\* what is missing, and a segment is never without a source.
THEOREM TaggingIsIdle ==
    Spec => [][\A i \in DOMAIN store, tag \in Tags : Tag(i, tag) => UNCHANGED store]_vars
<1>1. ASSUME StoreInv, NEW i \in DOMAIN store, NEW tag \in Tags, Tag(i, tag)
      PROVE  UNCHANGED store
  <2>1. auto_tag(store[i], tag) = store[i]
    BY <1>1, StoreDomain, AutoTagFacts DEF AsMade
  <2> QED
    BY <1>1, <2>1 DEF Tag, StoreInv
<1>2. StoreInv => [\A i \in DOMAIN store, tag \in Tags : Tag(i, tag) => UNCHANGED store]_vars
  BY <1>1
<1> QED
  BY <1>2, SpecStores, PTL DEF Spec
================================================================================
