------------------------------ MODULE LegacyProofs ------------------------------
(***************************************************************************)
(* Proofs about LegacyPipeline, for any contents, authorities, hooks and   *)
(* requests, and any number of screenings.                                 *)
(***************************************************************************)
EXTENDS LegacyPipeline, TLAPS

\* The literal markers of a content, which its identifier fixes, settle whether the
\* verdict is a high-risk one: no risk and no hook comes into it.
HighRisk(content) == content.literal \cap SinkMarkers # {}

LEMMA VerdictOfMarkers ==
    ASSUME NEW literal, NEW risk
    PROVE  Verdict(literal, risk) \in HIGH_RISK_VERDICTS <=> literal \cap SinkMarkers # {}
<1>1. literal \cap SinkMarkers # {} <=>
        \/ literal \cap Secret # {}
        \/ "MEMORY_WRITE_REQUEST" \in literal
        \/ "TOOL_CALL_REQUEST" \in literal
        \/ "UNKNOWN_HIGH_RISK_MARKER" \in literal
  BY DEF SinkMarkers
<1> QED
  BY <1>1 DEF Verdict, HIGH_RISK_VERDICTS

\* Keep writes one identifier and leaves the others alone.
LEMMA KeepFacts ==
    ASSUME NEW segment, NEW verdict
    PROVE  /\ DOMAIN Keep(segment, verdict) = DOMAIN results \cup {segment_id(segment)}
           /\ \A sid \in DOMAIN Keep(segment, verdict) :
                Keep(segment, verdict)[sid] =
                    IF sid = segment_id(segment) THEN verdict ELSE results[sid]
BY DEF Keep

\* What is kept under an identifier is the verdict of some screening under it, and a
\* verdict is a high-risk one according to the content; a decision is as the latest
\* results would have it.
Grounded ==
    /\ \A s \in routed : /\ segment_id(s.segment) \in DOMAIN results
                         /\ s.verdict \in HIGH_RISK_VERDICTS <=> HighRisk(s.segment.content)
    /\ \A sid \in DOMAIN results :
            \E s \in routed : segment_id(s.segment) = sid /\ results[sid] = s.verdict
    /\ \A t \in tool : t.allowed <=> ~Objection(t.request) /\ SinkAllows(t.request)

LEMMA GroundedInit == Init => Grounded
BY DEF Init, Grounded

LEMMA GroundedStep == Grounded /\ [Next]_vars => Grounded'
<1> SUFFICES ASSUME Grounded, [Next]_vars PROVE Grounded'
  OBVIOUS
<1>1. ASSUME NEW segment \in Segments, NEW hook \in Hooks, Screen(segment, hook)
      PROVE  Grounded'
  <2>1. PICK screening : screening = Screening(segment, hook)
    OBVIOUS
  <2>2. /\ routed' = routed \cup {screening}
        /\ results' = Keep(segment, screening.verdict)
        /\ tool' = {}
    BY <1>1, <2>1 DEF Screen
  <2>3. screening.segment = segment
    BY <2>1 DEF Screening
  <2>4. screening.verdict \in HIGH_RISK_VERDICTS <=> HighRisk(segment.content)
    BY <2>1, VerdictOfMarkers DEF Screening, HighRisk
  <2>5. /\ DOMAIN results' = DOMAIN results \cup {segment_id(segment)}
        /\ \A sid \in DOMAIN results' :
            results'[sid] = IF sid = segment_id(segment) THEN screening.verdict
                                                         ELSE results[sid]
    BY <2>2, KeepFacts
  <2>6. \A s \in routed' : /\ segment_id(s.segment) \in DOMAIN results'
                           /\ s.verdict \in HIGH_RISK_VERDICTS <=> HighRisk(s.segment.content)
    BY <2>2, <2>3, <2>4, <2>5 DEF Grounded
  <2>7. ASSUME NEW sid \in DOMAIN results'
        PROVE  \E s \in routed' : segment_id(s.segment) = sid /\ results'[sid] = s.verdict
    BY <2>2, <2>3, <2>5 DEF Grounded
  <2> QED
    BY <2>2, <2>6, <2>7 DEF Grounded
<1>2. ASSUME NEW request \in Requests, authorize_tool_request(request) PROVE Grounded'
  <2>1. /\ UNCHANGED <<routed, results>>
        /\ \A t \in tool' : /\ t.request = request
                            /\ t.allowed = (~Objection(request) /\ SinkAllows(request))
    BY <1>2 DEF authorize_tool_request
  <2>2. Objection(request)' <=> Objection(request)
    BY <2>1 DEF Objection
  <2> QED
    BY <2>1, <2>2 DEF Grounded
<1>3. CASE UNCHANGED vars
  BY <1>3 DEF vars, Grounded, Objection
<1> QED
  BY <1>1, <1>2, <1>3 DEF Next

LEMMA SpecGrounded == Spec => []Grounded
BY GroundedInit, GroundedStep, PTL DEF Spec
-------------------------------------------------------------------------------
\* What a screening found stands under its identifier, unless another content has been
\* screened under it.
LEMMA VerdictsStand ==
    ASSUME Grounded, NEW s \in routed, s.verdict \in HIGH_RISK_VERDICTS
    PROVE  /\ segment_id(s.segment) \in DOMAIN results
           /\ results[segment_id(s.segment)] \in HIGH_RISK_VERDICTS \/ Confused(s)
<1>1. segment_id(s.segment) \in DOMAIN results /\ HighRisk(s.segment.content)
  BY DEF Grounded
<1>2. PICK kept \in routed : /\ segment_id(kept.segment) = segment_id(s.segment)
                             /\ results[segment_id(s.segment)] = kept.verdict
  BY <1>1 DEF Grounded
<1>3. CASE kept.segment.content = s.segment.content
  BY <1>1, <1>2, <1>3 DEF Grounded
<1>4. CASE kept.segment.content # s.segment.content
  <2>1. PICK id : id = segment_id(s.segment)
    OBVIOUS
  <2>2. kept \in routed /\ segment_id(kept.segment) = id
    BY <1>2, <2>1
  <2>3. Confused(s)
    BY <1>4, <2>1, <2>2, Zenon DEF Confused
  <2> QED
    BY <1>1, <2>3
<1> QED
  BY <1>1, <1>3, <1>4

\* A high-risk verdict stays under its identifier, whichever segments share it and
\* whatever hooks answer in between, unless the identifier is that of two contents.
THEOREM RefusalsStay == Spec => []RefusedStaysRefused
<1>1. Grounded => RefusedStaysRefused
  BY VerdictsStand DEF RefusedStaysRefused
<1> QED
  BY <1>1, SpecGrounded, PTL

\* Two contents share an identifier only under different content types: an application
\* that uses one content type keeps every refusal.
THEOREM OneTypeNeverConfused ==
    ASSUME NEW s \in Segments, NEW other \in Segments,
           segment_id(s) = segment_id(other), s.content_type = other.content_type
    PROVE  s.content = other.content
<1>1. Joined[<<s.content, s.content_type>>] = Joined[<<other.content, other.content_type>>]
  BY DEF segment_id
<1>2. /\ s.content \in Contents /\ other.content \in Contents
      /\ s.content_type \in ContentTypes
  BY DEF Segments
<1> QED
  BY <1>1, <1>2, PipelineAssumption

\* The two lists of risky sinks: the package's is the first version's with five more
\* names and without one.
LEMMA RiskySinks ==
    /\ RISKY_SINKS \ Package!RISKY_SINKS = {"calendar_invite"}
    /\ Package!RISKY_SINKS \ RISKY_SINKS =
            {"os.system", "send_email", "browser", "database_write", "secrets_read"}
BY DEF RISKY_SINKS, Package!RISKY_SINKS

\* No requester comes closer to the root by moving to the package.
LEMMA LevelsOnlyRise ==
    ASSUME NEW requester \in DOMAIN AUTHORITY_LEVELS
    PROVE  /\ Package!AUTHORITY_LEVELS[requester] < 3 => AUTHORITY_LEVELS[requester] < 3
           /\ Package!AUTHORITY_LEVELS[requester] < 5 => AUTHORITY_LEVELS[requester] < 5
BY DEF AUTHORITY_LEVELS, Package!AUTHORITY_LEVELS

\* What the gate of the package grants a requester, shown the segments or not, this gate
\* has granted, but for invitations to a calendar, and those only past the detector.
THEOREM PackageRefusesMore == Spec => []PackageIsStricter
<1>1. ASSUME Grounded, NEW t \in tool, NEW shown \in BOOLEAN, PackageAllows(t.request, shown)
      PROVE  \/ t.allowed
             \/ t.request.sink = "calendar_invite" /\ ~Objection(t.request)
  <2>1. ~Objection(t.request)
    <3>1. ASSUME NEW sid \in t.request.source_segment_ids \cap DOMAIN results
          PROVE  results[sid] \notin HIGH_RISK_VERDICTS
      BY <1>1 DEF PackageAllows, Package!SourcePermits, Package!MayCause, AsSource
    <3> QED
      BY <3>1 DEF Objection
  <2>2. PICK requester \in DOMAIN AUTHORITY_LEVELS :
            /\ AUTHORITY_LEVELS[requester] = t.request.level
            /\ t.request.sink \in Package!RISKY_SINKS =>
                \/ Package!AUTHORITY_LEVELS[requester] < 3
                \/ Package!AUTHORITY_LEVELS[requester] < 5 /\ t.request.user_confirmed
    BY <1>1 DEF PackageAllows, Package!SinkPermits
  <2>3. t.request.sink \in Package!RISKY_SINKS => SinkAllows(t.request)
    BY <2>2, LevelsOnlyRise DEF SinkAllows
  <2>4. t.request.sink \notin Package!RISKY_SINKS =>
            SinkAllows(t.request) \/ t.request.sink = "calendar_invite"
    BY RiskySinks DEF SinkAllows
  <2> QED
    BY <1>1, <2>1, <2>3, <2>4 DEF Grounded
<1>2. Grounded => PackageIsStricter
  BY <1>1 DEF PackageIsStricter
<1> QED
  BY <1>2, SpecGrounded, PTL

\* That exception is one: an invitation to a calendar that the level of unknown content
\* asks for without any source is refused here and granted by the package, and the user
\* is not even asked.
THEOREM CalendarInviteGranted ==
    ASSUME NEW request, request.sink = "calendar_invite", request.level = 8,
           request.source_segment_ids = {}
    PROVE  ~SinkAllows(request) /\ PackageAllows(request, TRUE)
<1>1. ~SinkAllows(request)
  BY DEF SinkAllows, RISKY_SINKS
<1>2. "calendar_invite" \notin Package!RISKY_SINKS
  BY DEF Package!RISKY_SINKS
<1>3. /\ "unknown_untrusted" \in DOMAIN AUTHORITY_LEVELS
      /\ AUTHORITY_LEVELS["unknown_untrusted"] = 8
  BY DEF AUTHORITY_LEVELS
<1> QED
  BY <1>1, <1>2, <1>3 DEF PackageAllows, Package!SinkPermits

\* The screenings of the application are what the code makes of a segment and a hook.
Screened == \A s \in routed : \E segment \in Segments, hook \in Hooks :
                s = Screening(segment, hook)

LEMMA ScreenedStep == Screened /\ [Next]_vars => Screened'
<1> SUFFICES ASSUME Screened, [Next]_vars PROVE Screened'
  OBVIOUS
<1>1. ASSUME NEW segment \in Segments, NEW hook \in Hooks, Screen(segment, hook)
      PROVE  Screened'
  <2>1. PICK screening : screening = Screening(segment, hook)
    OBVIOUS
  <2>2. routed' = routed \cup {screening}
    BY <1>1, <2>1 DEF Screen
  <2> QED
    BY <2>1, <2>2 DEF Screened
<1>2. CASE UNCHANGED routed
  BY <1>2 DEF Screened
<1> QED
  BY <1>1, <1>2 DEF Next, authorize_tool_request, vars

LEMMA SpecScreened == Spec => [](Grounded /\ Screened)
<1>1. Init => Screened
  BY DEF Init, Screened
<1> QED
  BY <1>1, ScreenedStep, SpecGrounded, PTL DEF Spec

\* The fields of a screening depend on each other as the three files compute them.
LEMMA ScreeningFacts ==
    ASSUME NEW segment, NEW hook
    PROVE  LET s == Screening(segment, hook) IN
           /\ s.segment = segment
           /\ s.verdict = Verdict(segment.content.literal, s.risk)
           /\ s.action = Action(segment, s.verdict)
           /\ s.text = PromptText(Route(s.action))
<1> DEFINE risk == Risk(segment, hook)
           verdict == Verdict(segment.content.literal, risk)
           action == Action(segment, verdict)
           text == PromptText(Route(action))
<1>1. Screening(segment, hook) =
        [segment |-> segment, risk |-> risk, verdict |-> verdict, action |-> action,
         text |-> text]
  BY DEF Screening
<1> HIDE DEF action, text
<1>2. /\ Screening(segment, hook).segment = segment
      /\ Screening(segment, hook).risk = risk
      /\ Screening(segment, hook).verdict = verdict
      /\ Screening(segment, hook).action = action
      /\ Screening(segment, hook).text = text
  BY <1>1
<1> QED
  BY <1>2 DEF action, text

Verdicts == HIGH_RISK_VERDICTS \cup {"malicious_low_impact", "suspicious", "clean"}

LEMMA VerdictFacts ==
    ASSUME NEW literal, NEW risk
    PROVE  /\ Verdict(literal, risk) \in Verdicts
           /\ Verdict(literal, risk) = "clean"
                => literal \cap SinkMarkers = {} /\ ~(risk >= 35)
<1>1. Verdict(literal, risk) \in Verdicts
  BY DEF Verdict, Verdicts, HIGH_RISK_VERDICTS
<1>2. Verdict(literal, risk) = "clean" => literal \cap SinkMarkers = {}
  BY VerdictOfMarkers DEF HIGH_RISK_VERDICTS
<1>3. Verdict(literal, risk) = "clean" => ~(risk >= 35)
  BY DEF Verdict
<1> QED
  BY <1>1, <1>2, <1>3

LEMMA ActionFacts ==
    ASSUME NEW segment, NEW verdict \in Verdicts
    PROVE  /\ PromptText(Route(Action(segment, verdict))) = "bare"
                => verdict = "clean" /\ ~is_untrusted_authority(segment)
           /\ Route(Action(segment, verdict)).block_tool_use
                => \/ verdict \in HIGH_RISK_VERDICTS
                   \/ Action(segment, verdict) = "summarize_only"
<1>1. /\ verdict \in HIGH_RISK_VERDICTS =>
            Action(segment, verdict) \in {"reject", "quarantine", "block_tool_use"}
      /\ verdict = "malicious_low_impact" => Action(segment, verdict) = "summarize_only"
      /\ verdict = "suspicious" => Action(segment, verdict) = "wrap_and_continue"
      /\ verdict = "clean" =>
            Action(segment, verdict) =
                IF is_untrusted_authority(segment) THEN "wrap_and_continue" ELSE "allow"
  BY DEF Action, HIGH_RISK_VERDICTS
<1>2. PICK action : action = Action(segment, verdict)
  OBVIOUS
<1>3. PromptText(Route(action)) = "bare" => action \notin
        {"reject", "quarantine", "block_tool_use", "summarize_only", "wrap_and_continue"}
  BY DEF PromptText, Route
<1>4. Route(action).block_tool_use => action \notin {"allow", "wrap_and_continue"}
  BY DEF Route
<1> QED
  BY <1>1, <1>2, <1>3, <1>4 DEF Verdicts

\* Whatever the content, the authority and the hook, what goes into the prompt as it
\* is comes from a trusted authority and shows no sign of an attack.
THEOREM BareIsHarmless == Spec => []NeverBare
<1>1. ASSUME NEW segment \in Segments, NEW hook \in Hooks,
             Screening(segment, hook).text = "bare"
      PROVE  /\ ~is_untrusted_authority(segment)
             /\ segment.content.literal \cap SinkMarkers = {}
             /\ ~(Screening(segment, hook).risk >= 35)
  <2>1. PICK risk : risk = Screening(segment, hook).risk
    OBVIOUS
  <2>2. PICK verdict : verdict = Verdict(segment.content.literal, risk)
    OBVIOUS
  <2>3. PromptText(Route(Action(segment, verdict))) = "bare" /\ verdict \in Verdicts
    BY <1>1, <2>1, <2>2, ScreeningFacts, VerdictFacts
  <2>4. verdict = "clean" /\ ~is_untrusted_authority(segment)
    BY <2>3, ActionFacts
  <2> QED
    BY <2>1, <2>2, <2>4, VerdictFacts
<1>2. Screened => NeverBare
  BY <1>1, ScreeningFacts DEF Screened, NeverBare
<1> QED
  BY <1>2, SpecScreened, PTL

\* A tool is granted on account of a segment that blocks tool use only if the segment
\* was merely summarized, whatever was screened in between, unless it was another
\* content under the same identifier.
THEOREM ToolUseStaysBlocked == Spec => []ToolUseBlocked
<1>1. ASSUME Grounded, Screened, NEW t \in tool, t.allowed, NEW s \in routed,
             segment_id(s.segment) \in t.request.source_segment_ids,
             Route(s.action).block_tool_use, ~Confused(s)
      PROVE  s.action = "summarize_only"
  <2>1. PICK segment \in Segments, hook \in Hooks : s = Screening(segment, hook)
    BY <1>1 DEF Screened
  <2>2. PICK verdict : verdict = s.verdict
    OBVIOUS
  <2>3. s.action = Action(segment, verdict) /\ verdict \in Verdicts
    BY <2>1, <2>2, ScreeningFacts, VerdictFacts
  <2>4. verdict \notin HIGH_RISK_VERDICTS
    <3>1. ~Objection(t.request)
      BY <1>1 DEF Grounded
    <3> QED
      BY <1>1, <2>2, <3>1, VerdictsStand DEF Objection
  <2> QED
    BY <1>1, <2>3, <2>4, ActionFacts
<1>2. Grounded /\ Screened => ToolUseBlocked
  BY <1>1 DEF ToolUseBlocked
<1> QED
  BY <1>2, SpecScreened, PTL

\* What the package's gate is asked before a memory write about one segment.
MemoryCall(authority, explicit) ==
    [op |-> "memory", effect |-> "memory_write", explicit |-> explicit,
     sources |-> <<[authority |-> authority, resolved |-> TRUE, verdict |-> "none"]>>,
     risky_sink |-> FALSE, level |-> 0, confirmed |-> FALSE]

\* The two generations agree who may write memory, although one compares levels and
\* the other looks the effect up in a table.
THEOREM SameMemoryRule ==
    ASSUME NEW authority \in DOMAIN AUTHORITY_LEVELS, NEW explicit \in BOOLEAN
    PROVE  memory_write_allowed(authority, explicit)
              <=> Package!Permitted(MemoryCall(authority, explicit))
<1>1. Package!Permitted(MemoryCall(authority, explicit)) <=>
        \/ "memory_write" \in Package!EFFECT_ALLOW_MAP[authority]
        \/ explicit /\ authority = "authenticated_user"
  BY DEF Package!Permitted, MemoryCall
<1>2. DOMAIN AUTHORITY_LEVELS \subseteq Package!AuthorityNames
  BY DEF AUTHORITY_LEVELS, Package!AuthorityNames
<1>3. "memory_write" \in Package!EFFECT_ALLOW_MAP[authority]
        <=> authority \in {"protocol_root", "system", "developer"}
  BY <1>2 DEF Package!EFFECT_ALLOW_MAP, Package!Effects
<1>4. AUTHORITY_LEVELS[authority] <= AUTHORITY_LEVELS.developer
        <=> authority \in {"protocol_root", "system", "developer"}
  BY DEF AUTHORITY_LEVELS
<1> QED
  BY <1>1, <1>3, <1>4 DEF memory_write_allowed

\* A hook never lowers the risk, and one that fails leaves it alone.
THEOREM HookOnlyRaises ==
    ASSUME NEW risk \in Nat, NEW hook
    PROVE  /\ Capped(risk) <= Capped(HookRaise(risk, hook))
           /\ hook \notin HookScores => HookRaise(risk, hook) = risk
<1>1. CASE hook \in HookScores /\ hook > 50
  <2>1. (hook * 30 + 50) \div 100 \in Nat
    BY <1>1, PipelineAssumption
  <2> QED
    BY <1>1, <2>1 DEF HookRaise, Capped
<1>2. CASE ~(hook \in HookScores /\ hook > 50)
  BY <1>2 DEF HookRaise, Capped
<1> QED
  BY <1>1, <1>2 DEF HookRaise
===============================================================================
