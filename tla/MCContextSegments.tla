--------------------------- MODULE MCContextSegments ---------------------------
(***************************************************************************)
(* An instance of ContextSegments for TLC: every authority and every trust *)
(* level, an unknown one included, sources that are missing, blank or hold *)
(* the separator of the identifier.                                        *)
(***************************************************************************)
EXTENDS ContextSegments

MCWords ==
    AuthorityNames \cup TrustLevels \cup VALID_TIERS
        \cup {NoTrust, "bogus", "super_trusted", "unknown", "text", "|", " ", "a", "t", "u", "mine"}

a == <<"a">>
aBar == <<"a", "|", "a">>

Raw(trust, authority, flag, source_id, id) ==
    [content |-> a, trust_level |-> trust, authority_name |-> authority,
     is_untrusted_authority |-> flag, source_id |-> source_id,
     source_type |-> <<>>, origin_type |-> <<"text">>, content_type |-> <<"text">>,
     source_label |-> <<>>, segment_id |-> id]

MCRawSegments ==
    {Raw(trust, authority, flag, source_id, <<>>) :
        trust \in TrustLevels \cup {NoTrust, "bogus"},
        authority \in {NoAuthority, "developer", "tool_output"},
        flag \in BOOLEAN, source_id \in {<<>>, <<" ">>, a}}
    \cup {Raw("USER", "system", FALSE, a, <<"mine">>)}

MCBuilds ==
    {[content |-> content, authority_name |-> authority,
      is_untrusted_authority |-> flag, origin_type |-> origin,
      content_type |-> <<"text">>, source_label |-> label] :
        content \in {a, aBar}, authority \in AuthorityNames,
        flag \in {"unset", "no"}, origin \in {<<>>, a}, label \in {a, aBar}}

MCMetadata ==
    {[keys |-> keys, content |-> a, source_id |-> a, source_type |-> a,
      trust_tier |-> tier, boundary_crossed |-> crossed] :
        keys \in {RequiredKeys, RequiredKeys \ {"trust_tier"}},
        tier \in VALID_TIERS \cup {"super_trusted"}, crossed \in BOOLEAN}

MCTags == {<<<<"t">>, <<"u">>>>}
================================================================================
