---------------------------- MODULE LegacyPipeline ----------------------------
(***************************************************************************)
(* types.py, detector.py, policy.py and gateway.py at the top level: the   *)
(* first version of the protocol.  An application screens segments, puts   *)
(* what policy.py makes of them into its prompt, keeps the detector's      *)
(* results by segment_id, and asks gateway.py whether a tool may be called *)
(* on account of some segments.                                            *)
(*                                                                         *)
(* A content is what the detector finds in it, a sink of a request its     *)
(* name.  Risks are in hundredths.                                         *)
(***************************************************************************)
EXTENDS Naturals, FiniteSets
LOCAL INSTANCE FiniteSetsExt

CONSTANTS
    Contents,      \* contents of segments, see ContentType
    ContentTypes,  \* the content types the application gives them
    Joined,        \* <<content, content type>> -> the two texts as one
    Authorities,   \* the authorities they come with
    HookScores,    \* what a hook may answer
    Requests,      \* requests for tools, see RequestType
    NoHook, HookRaises,
    MaxScreened    \* bound: screenings, told apart by segment and risk

AUTHORITY_LEVELS ==
    [protocol_root |-> 0, system |-> 1, developer |-> 2, authenticated_user |-> 3,
     delegated_user_data |-> 4, tool_output |-> 5, retrieved_external |-> 6,
     generated_intermediate |-> 7, unknown_untrusted |-> 8]

RISKY_SINKS ==
    {"email_send", "web_post", "browser_submit", "file_write", "file_delete",
     "shell_exec", "code_eval", "memory_write", "payment", "calendar_invite",
     "network_request", "credential_access", "repo_commit", "cloud_upload"}

MarkerWeight ==
    [OVERRIDE_AUTHORITY |-> 45, SECRET_REQUEST |-> 70, TOOL_CALL_REQUEST |-> 60,
     MEMORY_WRITE_REQUEST |-> 70, EXTERNAL_SEND_REQUEST |-> 65,
     HIDDEN_TEXT_MARKER |-> 45, PLAN_DRIFT_MARKER |-> 40,
     MULTI_AGENT_ESCALATION |-> 50, UNKNOWN_HIGH_RISK_MARKER |-> 90,
     IGNORE_PREVIOUS |-> 60, SEND_TO |-> 55, EXECUTE |-> 50, REMEMBER_THIS |-> 65]

Markers == DOMAIN MarkerWeight

\* Markers that a content has literally, and such that show only when separators
\* and leet digits are undone; what its keywords and leet roots weigh together;
\* "blob": without its separators it has 60 letters and digits in a row or more.
ContentType ==
    [literal : SUBSET Markers, obfuscated : SUBSET Markers, keywords : Nat,
     benign : BOOLEAN, short : BOOLEAN, base64 : BOOLEAN, blob : BOOLEAN]

\* normalize_for_detection makes one letter of two, and takes whatever is long
\* enough for encoded data: these markers of a content it leaves to be found.
Doubled == {"OVERRIDE_AUTHORITY", "TOOL_CALL_REQUEST", "HIDDEN_TEXT_MARKER"}

normalize_for_detection(content) ==
    IF content.blob THEN {} ELSE content.obfuscated \ Doubled

Segments == [content : Contents, content_type : ContentTypes, authority : Authorities,
             origin : {"external", "ocr"}]

\* build hashes content, content type and authority, one after the other without
\* anything in between, and not the origin.  No name of an authority ends in another
\* one, so it can be told from the rest; content and content type cannot be told apart.
segment_id(segment) ==
    <<Joined[<<segment.content, segment.content_type>>], segment.authority>>

Ids == {segment_id(segment) : segment \in Segments}

RequestType == [source_segment_ids : SUBSET Ids, sink : STRING, level : 0 .. 8,
                user_confirmed : BOOLEAN]

ASSUME PipelineAssumption ==
    /\ Contents \subseteq ContentType /\ Authorities \subseteq DOMAIN AUTHORITY_LEVELS
    /\ \A type \in ContentTypes, a, b \in Contents :
            Joined[<<a, type>>] = Joined[<<b, type>>] => a = b
    /\ HookScores \subseteq Nat /\ Requests \subseteq RequestType
    /\ MaxScreened \in Nat

VARIABLES
    routed,    \* the screenings so far: segment, result, route and prompt text
    results,   \* detector_results: segment_id -> verdict
    tool       \* the latest request on these results and its decision, if any

vars == <<routed, results, tool>>

Hooks == HookScores \cup {NoHook, HookRaises}
-------------------------------------------------------------------------------
is_untrusted_authority(segment) == AUTHORITY_LEVELS[segment.authority] >= 5

Points(condition, weight) == IF condition THEN weight ELSE 0

MarkersWeigh(content) ==
    FoldSet(LAMBDA marker, sum : sum + MarkerWeight[marker], 0,
            content.literal \cup normalize_for_detection(content))

\* A hook adds to the risk, to the nearest hundredth, if it is more than undecided;
\* its failure is ignored.
HookRaise(risk, hook) ==
    IF hook \in HookScores /\ hook > 50 THEN risk + (hook * 30 + 50) \div 100 ELSE risk

Capped(risk) == IF risk < 100 THEN risk ELSE 100

Risk(segment, hook) ==
    LET content == segment.content
        worded  == Points(is_untrusted_authority(segment), 20) + Points(content.benign, 5)
                     + MarkersWeigh(content) + content.keywords
        found   == worded + Points(content.short /\ worded > 0, 5)
                     + Points(content.base64, 45) + Points(segment.origin = "ocr", 30)
    IN  Capped(HookRaise(found, hook))

Secret == {"SECRET_REQUEST", "EXTERNAL_SEND_REQUEST"}

\* Mutant: a high risk settles the verdict before the markers are looked at.
Verdict_RiskFirst(literal, risk) ==
    IF risk >= 75 THEN "malicious_low_impact"
    ELSE IF literal \cap Secret # {} THEN "malicious_secret_exfiltration"
    ELSE IF "MEMORY_WRITE_REQUEST" \in literal THEN "memory_poisoning"
    ELSE IF "TOOL_CALL_REQUEST" \in literal THEN "malicious_tool_sink"
    ELSE IF "UNKNOWN_HIGH_RISK_MARKER" \in literal THEN "unknown_high_risk"
    ELSE IF risk >= 35 THEN "suspicious" ELSE "clean"

\* The literal markers decide, in this order; only without them the risk does.
Verdict(literal, risk) ==
    IF literal \cap Secret # {} THEN "malicious_secret_exfiltration"
    ELSE IF "MEMORY_WRITE_REQUEST" \in literal THEN "memory_poisoning"
    ELSE IF "TOOL_CALL_REQUEST" \in literal THEN "malicious_tool_sink"
    ELSE IF "UNKNOWN_HIGH_RISK_MARKER" \in literal THEN "unknown_high_risk"
    ELSE IF risk >= 75 THEN "malicious_low_impact"
    ELSE IF risk >= 35 THEN "suspicious" ELSE "clean"

\* Mutant: clean content is allowed, whoever it is from.
Action_CleanAllowed(segment, verdict) ==
    CASE verdict = "malicious_secret_exfiltration" -> "reject"
      [] verdict \in {"memory_poisoning", "unknown_high_risk"} -> "quarantine"
      [] verdict = "malicious_tool_sink" -> "block_tool_use"
      [] verdict = "malicious_low_impact" -> "summarize_only"
      [] verdict = "suspicious" -> "wrap_and_continue"
      [] verdict = "clean" -> "allow"

Action(segment, verdict) ==
    CASE verdict = "malicious_secret_exfiltration" -> "reject"
      [] verdict \in {"memory_poisoning", "unknown_high_risk"} -> "quarantine"
      [] verdict = "malicious_tool_sink" -> "block_tool_use"
      [] verdict = "malicious_low_impact" -> "summarize_only"
      [] verdict = "suspicious" -> "wrap_and_continue"
      [] verdict = "clean" ->
            IF is_untrusted_authority(segment) THEN "wrap_and_continue" ELSE "allow"

\* route_segment: what the recommended action means for the prompt and for tools.
Route(action) ==
    [include_in_context |-> action \notin {"quarantine", "reject"},
     wrap_as_untrusted  |-> action \notin {"allow", "quarantine", "reject"},
     block_tool_use     |-> action \notin {"allow", "wrap_and_continue"}]

\* wrap_untrusted_context: the content as it is, in the wrapper, or nothing.
PromptText(route) ==
    IF ~route.include_in_context THEN "nothing"
    ELSE IF route.wrap_as_untrusted THEN "wrapped" ELSE "bare"

Screening(segment, hook) ==
    LET risk    == Risk(segment, hook)
        verdict == Verdict(segment.content.literal, risk)
        action  == Action(segment, verdict)
    IN  [segment |-> segment, risk |-> risk, verdict |-> verdict, action |-> action,
         text |-> PromptText(Route(action))]

Init == routed = {} /\ results = <<>> /\ tool = {}

\* The application keeps the latest result of each identifier.
Keep(segment, verdict) ==
    [sid \in DOMAIN results \cup {segment_id(segment)} |->
        IF sid = segment_id(segment) THEN verdict ELSE results[sid]]

\* detect_segment, route_segment and wrap_untrusted_context on one segment.
Screen(segment, hook) ==
    /\ Cardinality(routed) < MaxScreened
    /\ LET screening == Screening(segment, hook) IN
        /\ routed' = routed \cup {screening}
        /\ results' = Keep(segment, screening.verdict)
    /\ tool' = {}
-------------------------------------------------------------------------------
\* Mutant: the verdict that is named last was forgotten.
HIGH_RISK_VERDICTS_Three ==
    {"malicious_tool_sink", "malicious_secret_exfiltration", "memory_poisoning"}

HIGH_RISK_VERDICTS ==
    {"malicious_tool_sink", "malicious_secret_exfiltration", "memory_poisoning",
     "unknown_high_risk"}

\* Mutant: whoever asks, a risky sink has to be confirmed.
SinkAllows_AlwaysAsked(request) ==
    request.sink \in RISKY_SINKS => request.level < 5 /\ request.user_confirmed

SinkAllows(request) ==
    request.sink \in RISKY_SINKS =>
        request.level < 3 \/ (request.level < 5 /\ request.user_confirmed)

\* Some segment of the request has a result, and it is a high-risk one.
Objection(request) ==
    \E sid \in request.source_segment_ids \cap DOMAIN results :
        results[sid] \in HIGH_RISK_VERDICTS

authorize_tool_request(request) ==
    /\ tool' = {[request |-> request,
                 allowed |-> ~Objection(request) /\ SinkAllows(request),
                 requires_confirmation |->
                    /\ ~Objection(request)
                    /\ request.sink \in RISKY_SINKS /\ request.level \in {3, 4}
                    /\ ~request.user_confirmed]}
    /\ UNCHANGED <<routed, results>>

memory_write_allowed(authority, explicit) ==
    \/ AUTHORITY_LEVELS[authority] <= AUTHORITY_LEVELS.developer
    \/ authority = "authenticated_user" /\ explicit

Next ==
    \/ \E segment \in Segments, hook \in Hooks : Screen(segment, hook)
    \/ \E request \in Requests : authorize_tool_request(request)

Spec == Init /\ [][Next]_vars
-------------------------------------------------------------------------------
(***************************************************************************)
(* Properties.                                                             *)
(***************************************************************************)

SinkMarkers == Secret \cup {"MEMORY_WRITE_REQUEST", "TOOL_CALL_REQUEST",
                            "UNKNOWN_HIGH_RISK_MARKER"}

\* What goes into the prompt as it is comes from a trusted authority and has no
\* sign of an attack: detector, routing and wrapper agree on that, in three files.
NeverBare ==
    \A s \in routed : s.text = "bare" =>
        /\ ~is_untrusted_authority(s.segment)
        /\ s.segment.content.literal \cap SinkMarkers = {}
        /\ ~(s.risk >= 35)

\* Another content was screened under the identifier of this screening, as happens
\* when its content and content type read the same, one after the other.
Confused(screening) ==
    \E other \in routed :
        /\ segment_id(other.segment) = segment_id(screening.segment)
        /\ other.segment.content # screening.segment.content

\* Different segments can share an identifier, and the result kept is the latest:
\* still, once a high-risk verdict was given under an identifier, no later screening
\* puts a harmless one in its place, unless it is one of another content.
RefusedStaysRefused ==
    \A s \in routed : s.verdict \in HIGH_RISK_VERDICTS =>
        /\ segment_id(s.segment) \in DOMAIN results
        /\ results[segment_id(s.segment)] \in HIGH_RISK_VERDICTS \/ Confused(s)

\* block_tool_use of the route and the refusal of authorize_tool_request are two
\* mechanisms; they differ for summarized content only: a tool is granted on
\* account of a segment that blocks tool use only if it was merely summarized, or
\* another content took its identifier.
ToolUseBlocked ==
    \A t \in tool : t.allowed =>
        \A s \in routed :
            /\ segment_id(s.segment) \in t.request.source_segment_ids
            /\ Route(s.action).block_tool_use
            => s.action = "summarize_only" \/ Confused(s)

(***************************************************************************)
(* The gate that replaced this one.                                        *)
(***************************************************************************)
Package == INSTANCE AuthorityPolicy

\* The source as the package's gate would see it, with the segment or without.
AsSource(sid, shown) ==
    [authority |-> sid[2], resolved |-> shown,
     verdict |-> IF sid \notin DOMAIN results THEN "none"
                 ELSE IF results[sid] \in HIGH_RISK_VERDICTS THEN "high_risk"
                 ELSE "other"]

\* The package's gate would grant the request: its levels and its list of risky
\* sinks are its own.
PackageAllows(request, shown) ==
    /\ \A sid \in request.source_segment_ids :
            Package!SourcePermits(AsSource(sid, shown))
    /\ \E requester \in DOMAIN AUTHORITY_LEVELS :
        /\ AUTHORITY_LEVELS[requester] = request.level
        /\ Package!SinkPermits([risky_sink |-> request.sink \in Package!RISKY_SINKS,
                                level |-> Package!AUTHORITY_LEVELS[requester],
                                confirmed |-> request.user_confirmed])

\* Who moves to the package is granted a tool he was refused before in one case only:
\* the sink is calendar_invite, which the package no longer counts among the risky
\* ones.  Whatever else its gate allows the same requester on the same results, shown
\* the segments or not, this one has allowed; and no objection of the detector is lost.
PackageIsStricter ==
    \A t \in tool, shown \in BOOLEAN :
        PackageAllows(t.request, shown) =>
            \/ t.allowed
            \/ t.request.sink = "calendar_invite" /\ ~Objection(t.request)
===============================================================================
