---------------------------- MODULE ContextSegments ----------------------------
(***************************************************************************)
(* aacp_protocol/types.py and aacp_protocol/provenance.py: how a context   *)
(* segment gets its authority, its untrusted flag and its identifier, and  *)
(* what may happen to it later.  An application keeps the segments it made *)
(* and may tag one of them again.                                          *)
(*                                                                         *)
(* A text is a sequence of words; the separator "|" of the identifier is   *)
(* kept as a word of its own because texts may contain it.  The digest     *)
(* that ends as segment_id is the text it is computed from.                *)
(***************************************************************************)
EXTENDS AuthorityPolicy

CONSTANTS
    Words,         \* what texts are made of
    RawSegments,   \* argument lists of the constructor
    Builds,        \* argument lists of ContextSegment.build
    Metadata,      \* provenance metadata given to auto_tag_segment
    Tags,          \* <<source_id, source_type>> given to auto_tag
    MaxSegments    \* bound: segments the application keeps

Text == Seq(Words)
NoTrust == "no trust level"
NoAuthority == "no authority"
TrustLevels == {"SYSTEM", "USER", "EXTERNAL", "UNTRUSTED"}
RequiredKeys == {"source_id", "source_type", "trust_tier", "boundary_crossed"}
VALID_TIERS == {"trusted", "untrusted", "mixed"}

ASSUME WordAssumption ==
    AuthorityNames \cup TrustLevels \cup {NoTrust, "|", "unknown", "text"} \subseteq Words

ASSUME SegmentAssumption ==
    /\ RawSegments \subseteq
          [content : Text, trust_level : Words,
           authority_name : AuthorityNames \cup {NoAuthority},
           is_untrusted_authority : BOOLEAN, source_id : Text, source_type : Text,
           origin_type : Text, content_type : Text, source_label : Text,
           segment_id : Text]
    /\ Builds \subseteq
          [content : Text, authority_name : AuthorityNames,
           is_untrusted_authority : {"unset", "yes", "no"},
           origin_type : Text, content_type : Text, source_label : Text]
    /\ Metadata \subseteq
          [keys : SUBSET RequiredKeys, content : Text, source_id : Text,
           source_type : Text, trust_tier : Words, boundary_crossed : BOOLEAN]
    /\ Tags \subseteq Text \X Text
    /\ MaxSegments \in Nat

VARIABLES
    store,    \* the segments, in the order they were made
    made      \* history: for each of them, how it was made

vars == <<store, made>>

--------------------------------------------------------------------------------
_TRUST_TO_AUTHORITY ==
    [SYSTEM |-> "system", USER |-> "authenticated_user",
     EXTERNAL |-> "retrieved_external", UNTRUSTED |-> "unknown_untrusted"]

\* Python's "or" on texts.
Or(a, b) == IF a # <<>> THEN a ELSE b

UntrustedAuthorities ==
    {"user_content", "delegated_user_data", "tool_output", "retrieved_external",
     "generated_intermediate", "unknown_untrusted"}

\* Mutant: developers get the trust level of the system.
DerivedTrust_DeveloperAsSystem(authority) ==
    CASE authority \in {"protocol_root", "system", "developer"} -> "SYSTEM"
      [] authority = "authenticated_user" -> "USER"
      [] authority \in UntrustedAuthorities \ {"unknown_untrusted"} -> "EXTERNAL"
      [] OTHER -> "UNTRUSTED"

\* The trust level of a segment that only states its authority.
DerivedTrust(authority) ==
    CASE authority \in {"protocol_root", "system"} -> "SYSTEM"
      [] authority \in {"developer", "authenticated_user"} -> "USER"
      [] authority \in UntrustedAuthorities \ {"unknown_untrusted"} -> "EXTERNAL"
      [] OTHER -> "UNTRUSTED"

\* Mutant: the constructor believes the caller.
UntrustedFlag_AsGiven(given, authority) == given

\* The flag can be raised by the caller and never lowered.
UntrustedFlag(given, authority) == given \/ authority \in UntrustedAuthorities

\* Mutant: as in the first version of the protocol, only the texts count.
digest_src_TextsOnly(authority, source_id, source_type, content) ==
    source_id \o <<"|">> \o source_type \o <<"|">> \o content

\* What segment_id is the digest of.
digest_src(authority, source_id, source_type, content) ==
    <<authority, "|">> \o source_id \o <<"|">> \o source_type \o <<"|">> \o content

\* The constructor: a trust level it does not know is UNTRUSTED, the authority
\* follows from the trust level or the other way round, empty source fields are
\* filled from the others.
__post_init__(raw) ==
    LET trust == IF raw.trust_level \in TrustLevels \cup {NoTrust}
                 THEN raw.trust_level ELSE "UNTRUSTED"
        authority == IF raw.authority_name # NoAuthority THEN raw.authority_name
                     ELSE IF trust = NoTrust THEN _TRUST_TO_AUTHORITY["UNTRUSTED"]
                     ELSE _TRUST_TO_AUTHORITY[trust]
        source_id == Or(raw.source_id,
                        Or(raw.source_label, Or(raw.origin_type, <<"unknown">>)))
        source_type == Or(raw.source_type,
                          Or(raw.origin_type, Or(raw.content_type, <<"unknown">>)))
    IN  [content |-> raw.content,
         trust_level |-> IF trust = NoTrust THEN DerivedTrust(authority) ELSE trust,
         authority_name |-> authority,
         is_untrusted_authority |->
            UntrustedFlag(raw.is_untrusted_authority, authority),
         source_id |-> source_id,
         source_type |-> source_type,
         source_label |-> Or(raw.source_label, source_id),
         segment_id |->
            Or(raw.segment_id,
               digest_src(authority, source_id, source_type, raw.content))]

\* ContextSegment.build: the factory states the authority and no trust level.
build(b) ==
    __post_init__(
        [content |-> b.content,
         trust_level |-> NoTrust,
         authority_name |-> b.authority_name,
         is_untrusted_authority |->
            CASE b.is_untrusted_authority = "yes" -> TRUE
              [] b.is_untrusted_authority = "no" -> FALSE
              [] OTHER -> b.authority_name \notin
                    {"protocol_root", "system", "developer", "authenticated_user"},
         source_id |-> Or(b.source_label, Or(b.origin_type, <<"unknown">>)),
         source_type |-> Or(b.origin_type, Or(b.content_type, <<"unknown">>)),
         origin_type |-> b.origin_type,
         content_type |-> b.content_type,
         source_label |-> b.source_label,
         segment_id |-> <<>>])

\* ProvenanceValidator.validate; anything else is a ValueError.
ValidMetadata(m) == RequiredKeys \subseteq m.keys /\ m.trust_tier \in VALID_TIERS

\* Mutant: either sign of trust is enough.
ProvenAuthority_EitherSign(m) ==
    IF m.trust_tier = "trusted" \/ ~m.boundary_crossed
    THEN "authenticated_user" ELSE "user_content"

\* The authority that metadata can prove.
ProvenAuthority(m) ==
    IF m.trust_tier = "trusted" /\ ~m.boundary_crossed
    THEN "authenticated_user" ELSE "user_content"

auto_tag_segment(m) ==
    build([content |-> m.content,
           authority_name |-> ProvenAuthority(m),
           is_untrusted_authority |->
              IF m.trust_tier \in {"untrusted", "mixed"} \/ m.boundary_crossed
              THEN "yes" ELSE "no",
           origin_type |-> m.source_type,
           content_type |-> <<"text">>,
           source_label |-> m.source_id])

\* ProvenanceContract.auto_tag, in place.  The trust level is never missing.
auto_tag(s, tag) ==
    [s EXCEPT !.source_id = Or(@, tag[1]), !.source_type = Or(@, tag[2])]
--------------------------------------------------------------------------------
Init ==
    /\ store = <<>>
    /\ made = <<>>

Keep(segment, how) ==
    /\ Len(store) < MaxSegments
    /\ store' = Append(store, segment)
    /\ made' = Append(made, how)

Construct(raw) == Keep(__post_init__(raw), [by |-> "constructor", from |-> raw])
Build(b)       == Keep(build(b), [by |-> "build", from |-> b])
FromMetadata(m) ==
    ValidMetadata(m) /\ Keep(auto_tag_segment(m), [by |-> "metadata", from |-> m])

Tag(i, tag) ==
    /\ store' = [store EXCEPT ![i] = auto_tag(@, tag)]
    /\ UNCHANGED made

Next ==
    \/ \E raw \in RawSegments : Construct(raw)
    \/ \E b \in Builds : Build(b)
    \/ \E m \in Metadata : FromMetadata(m)
    \/ \E i \in DOMAIN store, tag \in Tags : Tag(i, tag)

Spec == Init /\ [][Next]_vars
--------------------------------------------------------------------------------
(***************************************************************************)
(* Properties.                                                             *)
(***************************************************************************)

\* The flag the detector looks at agrees with the table the gate looks at, a
\* list kept in another file: whoever may at most enter the prompt is flagged,
\* however the segment was made and whatever flag its maker asked for.
PowerlessAreFlagged ==
    \A i \in DOMAIN store :
        EFFECT_ALLOW_MAP[store[i].authority_name] \subseteq {"prompt_entry"}
            => store[i].is_untrusted_authority

OwnId(i) == made[i].by = "constructor" => made[i].from.segment_id = <<>>

\* authorize_tool_request finds segments by an identifier that is computed once.  Two
\* segments with the same derived identifier have the same authority, even where the
\* separator inside their texts makes the digested texts of different sources equal;
\* and tagging a segment later never leaves it the digest of a source it no longer
\* names.
SegmentIdTellsSource ==
    \A i \in DOMAIN store : OwnId(i) =>
        /\ \A j \in DOMAIN store :
            OwnId(j) /\ store[i].segment_id = store[j].segment_id
                => store[i].authority_name = store[j].authority_name
        /\ store[i].segment_id =
            digest_src(store[i].authority_name, store[i].source_id,
                       store[i].source_type, store[i].content)

\* Metadata alone never proves enough for a tool call, a memory write or any
\* other lasting effect, and none that crossed a boundary or whose tier is not
\* "trusted" proves more than entry to the prompt.
MetadataProvesLittle ==
    \A i \in DOMAIN store : made[i].by = "metadata" =>
        LET effects == EFFECT_ALLOW_MAP[store[i].authority_name]
            m == made[i].from
        IN  /\ effects \subseteq {"prompt_entry", "planning_influence"}
            /\ m.boundary_crossed \/ m.trust_tier # "trusted"
                    => /\ effects \subseteq {"prompt_entry"}
                       /\ store[i].is_untrusted_authority

\* AACPGateway.process does not screen such a segment.
Bypasses(s) == s.trust_level = "SYSTEM" \/ s.authority_name = "system"

\* Only what may change the policy anyway is exempt from screening, unless the
\* maker of the segment claimed the trust level SYSTEM for it.
ScreeningSkippedForRootOnly ==
    \A i \in DOMAIN store :
        Bypasses(store[i]) =>
            \/ "policy_change" \in EFFECT_ALLOW_MAP[store[i].authority_name]
            \/ made[i].by = "constructor" /\ made[i].from.trust_level = "SYSTEM"

(***************************************************************************)
(* What a test says and the code does not do.                              *)
(***************************************************************************)

Blank(text) == \A i \in DOMAIN text : text[i] = " "

\* ProvenanceContract.validate
ContractHolds(s) == ~Blank(s.content) /\ ~Blank(s.source_id) /\ ~Blank(s.source_type)

\* "test_missing_source_id_fails" (aacp_protocol/tests/test_provenance.py:35): a
\* segment that was given no source_id does not pass the contract.
MissingSourceRejected ==
    \A i \in DOMAIN store :
        made[i].by = "constructor" /\ made[i].from.source_id = <<>>
            => ~ContractHolds(store[i])
================================================================================
