---------------------------- MODULE AuthorityPolicy ----------------------------
(***************************************************************************)
(* The tables of aacp_protocol/types.py and aacp_protocol/gateway.py: who  *)
(* may cause which effect.  A call is what a caller of the gateway passes, *)
(* reduced to what a decision can depend on.                               *)
(***************************************************************************)
EXTENDS Naturals, Sequences

Effects == {"prompt_entry", "memory_write", "tool_call", "policy_change",
            "planning_influence", "persistence", "agent_trust_delegation"}

AuthorityNames ==
    {"protocol_root", "system", "developer", "authenticated_user", "user_content",
     "delegated_user_data", "tool_output", "retrieved_external",
     "generated_intermediate", "unknown_untrusted"}

AUTHORITY_LEVELS ==
    [protocol_root |-> 0, system |-> 1, developer |-> 2, authenticated_user |-> 3,
     user_content |-> 4, delegated_user_data |-> 5, tool_output |-> 6,
     retrieved_external |-> 6, generated_intermediate |-> 6,
     unknown_untrusted |-> 9]

EFFECT_ALLOW_MAP ==
    [a \in AuthorityNames |->
        CASE a \in {"protocol_root", "system"} -> Effects
          [] a = "developer" -> Effects \ {"policy_change", "agent_trust_delegation"}
          [] a = "authenticated_user" -> {"prompt_entry", "planning_influence"}
          [] a = "unknown_untrusted" -> {}
          [] OTHER -> {"prompt_entry"}]

\* A call tells only whether its sink is one of these.
RISKY_SINKS ==
    {"shell_exec", "os.system", "code_eval", "credential_access", "email_send",
     "send_email", "web_post", "network_request", "browser_submit", "memory_write",
     "file_delete", "repo_commit", "cloud_upload", "payment", "browser", "file_write",
     "database_write", "secrets_read"}

\* "none": the caller has no detector result for the segment; "high_risk": a
\* verdict in HIGH_RISK_VERDICTS; "other": any other verdict.
Verdicts == {"none", "other", "high_risk"}

\* A segment a call depends on.  "resolved": the caller passes the segment
\* itself, and not only its identifier.
Sources == [authority : AuthorityNames, resolved : BOOLEAN, verdict : Verdicts]

Levels == 0 .. 9

Ops == {"effect", "memory", "rag", "tool"}

\* "effect", "memory" and "rag" act on one resolved segment.
CallType ==
    {c \in [op : Ops, effect : Effects, sources : Seq(Sources), explicit : BOOLEAN,
            risky_sink : BOOLEAN, level : Levels, confirmed : BOOLEAN] :
        c.op # "tool" => Len(c.sources) = 1 /\ c.sources[1].resolved}

Decisions == [allowed : BOOLEAN, requires_confirmation : BOOLEAN]

Allow == [allowed |-> TRUE, requires_confirmation |-> FALSE]
Deny  == [allowed |-> FALSE, requires_confirmation |-> FALSE]
Ask   == [allowed |-> FALSE, requires_confirmation |-> TRUE]
--------------------------------------------------------------------------------
(***************************************************************************)
(* The decision a call deserves, said once and for the whole call.         *)
(***************************************************************************)

\* The segment may cause the effect, and no detector objects.
MayCause(source, effect) ==
    effect \in EFFECT_ALLOW_MAP[source.authority] /\ source.verdict # "high_risk"

\* A source stands in the way of a tool call, if its segment is passed, by its
\* authority or by what the detector found, and otherwise by the latter alone.
SourcePermits(source) ==
    IF source.resolved THEN MayCause(source, "tool_call")
                       ELSE source.verdict # "high_risk"

SourcesPermit(call) == \A i \in DOMAIN call.sources : SourcePermits(call.sources[i])

\* A risky sink is for levels 0 to 2, and for 3 and 4 once the user confirmed.
SinkPermits(call) ==
    call.risky_sink => call.level < 3 \/ (call.level < 5 /\ call.confirmed)

Permitted(call) ==
    \/ /\ call.op = "effect"
       /\ MayCause(call.sources[1], call.effect)
    \/ /\ call.op = "rag"
       /\ "prompt_entry" \in EFFECT_ALLOW_MAP[call.sources[1].authority]
    \/ /\ call.op = "memory"
       /\ \/ "memory_write" \in EFFECT_ALLOW_MAP[call.sources[1].authority]
          \/ call.explicit /\ call.sources[1].authority = "authenticated_user"
    \/ /\ call.op = "tool"
       /\ SourcesPermit(call)
       /\ SinkPermits(call)

\* The user is only asked when the confirmation is all that is missing.
NeedsConfirmation(call) ==
    /\ call.op = "tool"
    /\ SourcesPermit(call)
    /\ ~SinkPermits(call)
    /\ call.level < 5

Deserved(call) == [allowed |-> Permitted(call),
                   requires_confirmation |-> NeedsConfirmation(call)]
================================================================================
