----------------------------- MODULE AuthorityGate -----------------------------
(***************************************************************************)
(* aacp_protocol/gateway.py: the authority gate and its audit receipts.    *)
(* Several callers run the gate at once and share one list of receipts;    *)
(* appending to it is atomic, so a step of a call ends with at most one    *)
(* receipt, and the receipts of different calls interleave.                *)
(***************************************************************************)
EXTENDS AuthorityPolicy, FiniteSets

CONSTANTS
    Callers,       \* threads that call the gateway
    Calls,         \* the calls they may make
    MaxReceipts    \* bound: a call only begins while the list is shorter

ASSUME GateAssumption == Calls \subseteq CallType /\ MaxReceipts \in Nat

VARIABLES
    pc,         \* caller -> "idle", "enforce", "override", "sources" or "done"
    call,       \* caller -> the call it makes or made last, as a set of one
    next,       \* caller -> index of the source segment a tool call looks at
    decision,   \* caller -> the decision its last call returned, as a set of one
    receipts,   \* AUDIT_RECEIPTS
    emitted     \* history: caller -> the receipts of its last call

vars == <<pc, call, next, decision, receipts, emitted>>

Receipts ==
    [caller : Callers, authority : AuthorityNames \cup {"unknown", "level"},
     effect : Effects, decision : {"blocked", "allowed"},
     policy_rule : {"000", "001", "002", "003", "004", "005"}]

Init ==
    /\ pc = [c \in Callers |-> "idle"]
    /\ call = [c \in Callers |-> {}]
    /\ next = [c \in Callers |-> 1]
    /\ decision = [c \in Callers |-> {}]
    /\ receipts = <<>>
    /\ emitted = [c \in Callers |-> <<>>]
--------------------------------------------------------------------------------
\* Mutant: a receipt equal to an earlier one is taken for a repetition.
_emit_receipt_Deduplicating(c, authority, effect, outcome, rule) ==
    LET receipt == [caller |-> c, authority |-> authority, effect |-> effect,
                    decision |-> outcome, policy_rule |-> rule]
        repeated == \E i \in DOMAIN receipts : receipts[i] = receipt
    IN  /\ receipts' = IF repeated THEN receipts ELSE Append(receipts, receipt)
        /\ emitted' = [emitted EXCEPT ![c] = Append(@, receipt)]

\* A receipt is appended to the shared list.
_emit_receipt(c, authority, effect, outcome, rule) ==
    LET receipt == [caller |-> c, authority |-> authority, effect |-> effect,
                    decision |-> outcome, policy_rule |-> rule]
    IN  /\ receipts' = Append(receipts, receipt)
        /\ emitted' = [emitted EXCEPT ![c] = Append(@, receipt)]

\* The receipt of enforce_effect, and whether it allows: authority first, then
\* the detector.
Enforced(source, effect, verdict) ==
    IF effect \notin EFFECT_ALLOW_MAP[source.authority]
    THEN [outcome |-> "blocked", rule |-> "001"]
    ELSE IF verdict = "high_risk"
    THEN [outcome |-> "blocked", rule |-> "002"]
    ELSE [outcome |-> "allowed", rule |-> "000"]

enforce_effect(c, source, effect, verdict) ==
    _emit_receipt(c, source.authority, effect,
                  Enforced(source, effect, verdict).outcome,
                  Enforced(source, effect, verdict).rule)

Allows(source, effect, verdict) ==
    Enforced(source, effect, verdict).outcome = "allowed"

Goto(c, label) == pc' = [pc EXCEPT ![c] = label]

Return(c, answer) ==
    /\ Goto(c, "done")
    /\ decision' = [decision EXCEPT ![c] = {answer}]
--------------------------------------------------------------------------------
\* Mutant: the loop over the sources counts from zero.
Begin_ZeroBased(c, request) ==
    /\ pc[c] \in {"idle", "done"}
    /\ Len(receipts) < MaxReceipts
    /\ Goto(c, IF request.op = "tool" THEN "sources" ELSE "enforce")
    /\ call' = [call EXCEPT ![c] = {request}]
    /\ next' = [next EXCEPT ![c] = 0]
    /\ decision' = [decision EXCEPT ![c] = {}]
    /\ emitted' = [emitted EXCEPT ![c] = <<>>]
    /\ UNCHANGED receipts

\* A caller of the gate makes its next call.
Begin(c, request) ==
    /\ pc[c] \in {"idle", "done"}
    /\ Len(receipts) < MaxReceipts
    /\ Goto(c, IF request.op = "tool" THEN "sources" ELSE "enforce")
    /\ call' = [call EXCEPT ![c] = {request}]
    /\ next' = [next EXCEPT ![c] = 1]
    /\ decision' = [decision EXCEPT ![c] = {}]
    /\ emitted' = [emitted EXCEPT ![c] = <<>>]
    /\ UNCHANGED receipts

\* enforce_effect called on its own, by rag_ingestion_allowed, or as the first
\* half of memory_write_allowed.  The last two pass no detector result.
Effect(request) ==
    CASE request.op = "rag" -> "prompt_entry"
      [] request.op = "memory" -> "memory_write"
      [] OTHER -> request.effect

Verdict(request) ==
    IF request.op = "effect" THEN request.sources[1].verdict ELSE "none"

\* A refused memory write the user explicitly authorized.
Overrides(request) ==
    /\ request.op = "memory"
    /\ request.explicit
    /\ request.sources[1].authority = "authenticated_user"

Enforce(c) ==
    /\ pc[c] = "enforce"
    /\ \E request \in call[c] :
        LET source == request.sources[1]
            allowed == Allows(source, Effect(request), Verdict(request))
        IN  /\ enforce_effect(c, source, Effect(request), Verdict(request))
            /\ IF ~allowed /\ Overrides(request)
               THEN Goto(c, "override") /\ UNCHANGED decision
               ELSE Return(c, IF allowed THEN Allow ELSE Deny)
    /\ UNCHANGED <<call, next>>

\* Mutant: the override leaves the refusal as the last word of the log.
Override_Silent(c) ==
    /\ pc[c] = "override"
    /\ Return(c, Allow)
    /\ UNCHANGED <<call, next, receipts, emitted>>

\* Its second receipt contradicts the first, with rule 003.
Override(c) ==
    /\ pc[c] = "override"
    /\ _emit_receipt(c, "authenticated_user", "memory_write", "allowed", "003")
    /\ Return(c, Allow)
    /\ UNCHANGED <<call, next>>

\* Mutant: the first segment that may call the tool decides for all of them.
ResolvedSource_FirstDecides(c) ==
    /\ pc[c] = "sources"
    /\ \E request \in call[c] :
        /\ next[c] \in DOMAIN request.sources
        /\ LET source == request.sources[next[c]] IN
            /\ source.resolved
            /\ enforce_effect(c, source, "tool_call", source.verdict)
            /\ Return(c, IF Allows(source, "tool_call", source.verdict)
                         THEN Allow ELSE Deny)
    /\ UNCHANGED <<call, next>>

\* One turn of the loop over the source segments, for a segment at hand: its
\* authority is enforced, and a refusal ends the call.
ResolvedSource(c) ==
    /\ pc[c] = "sources"
    /\ \E request \in call[c] :
        /\ next[c] \in DOMAIN request.sources
        /\ LET source == request.sources[next[c]] IN
            /\ source.resolved
            /\ enforce_effect(c, source, "tool_call", source.verdict)
            /\ IF Allows(source, "tool_call", source.verdict)
               THEN /\ next' = [next EXCEPT ![c] = @ + 1]
                    /\ UNCHANGED <<pc, decision>>
               ELSE Return(c, Deny) /\ UNCHANGED next
    /\ UNCHANGED call

\* For a segment known by its identifier only, nothing but a detector verdict
\* can object; without one it leaves no receipt.
UnresolvedSource(c) ==
    /\ pc[c] = "sources"
    /\ \E request \in call[c] :
        /\ next[c] \in DOMAIN request.sources
        /\ LET source == request.sources[next[c]] IN
            /\ ~source.resolved
            /\ IF source.verdict = "high_risk"
               THEN /\ _emit_receipt(c, "unknown", "tool_call", "blocked", "002")
                    /\ Return(c, Deny)
                    /\ UNCHANGED next
               ELSE /\ next' = [next EXCEPT ![c] = @ + 1]
                    /\ UNCHANGED <<pc, decision, receipts, emitted>>
    /\ UNCHANGED call

\* Mutant: the confirmation is looked at before the level, and settles it.
Sink_ConfirmationFirst(c) ==
    /\ pc[c] = "sources"
    /\ \E request \in call[c] :
        /\ next[c] \notin DOMAIN request.sources
        /\ IF request.risky_sink /\ request.level >= 3 /\ ~request.confirmed
           THEN /\ _emit_receipt(c, "level", "tool_call", "blocked", "005")
                /\ Return(c, Ask)
           ELSE Return(c, Allow) /\ UNCHANGED <<receipts, emitted>>
    /\ UNCHANGED <<call, next>>

\* The sources are through: the sink decides, by the level the request claims.
\* The final permission is the one decision without a receipt of its own.
Sink(c) ==
    /\ pc[c] = "sources"
    /\ \E request \in call[c] :
        /\ next[c] \notin DOMAIN request.sources
        /\ IF request.risky_sink /\ request.level >= 5
           THEN /\ _emit_receipt(c, "level", "tool_call", "blocked", "004")
                /\ Return(c, Deny)
           ELSE IF request.risky_sink /\ request.level >= 3 /\ ~request.confirmed
           THEN /\ _emit_receipt(c, "level", "tool_call", "blocked", "005")
                /\ Return(c, Ask)
           ELSE Return(c, Allow) /\ UNCHANGED <<receipts, emitted>>
    /\ UNCHANGED <<call, next>>

clear_receipts ==
    /\ receipts # <<>>
    /\ receipts' = <<>>
    /\ UNCHANGED <<pc, call, next, decision, emitted>>

Step(c) ==
    \/ Enforce(c) \/ Override(c)
    \/ ResolvedSource(c) \/ UnresolvedSource(c) \/ Sink(c)

Next ==
    \/ \E c \in Callers : Step(c) \/ \E request \in Calls : Begin(c, request)
    \/ clear_receipts

Spec == Init /\ [][Next]_vars
--------------------------------------------------------------------------------
(***************************************************************************)
(* Properties.                                                             *)
(***************************************************************************)

\* Every variable has its type, and a caller at work has a call.
TypeOK ==
    /\ pc \in [Callers -> {"idle", "enforce", "override", "sources", "done"}]
    /\ call \in [Callers -> SUBSET Calls]
    /\ next \in [Callers -> Nat \ {0}]
    /\ decision \in [Callers -> SUBSET Decisions]
    /\ receipts \in Seq(Receipts)
    /\ emitted \in [Callers -> Seq(Receipts)]
    /\ \A c \in Callers : pc[c] # "idle" => \E request \in Calls : call[c] = {request}

\* Complete mediation: the walk over the sources, the receipts in between, the
\* other callers and the clearing of the log change nothing about the decision,
\* which is the one the tables give the call as a whole.
Promise == INSTANCE MediationAbstract WITH asked <- call, answered <- decision
Mediated == Promise!MediationSpec

\* A refusal is always on record, as the last receipt of its call; a call that
\* was granted has a refusal on record only if rule 003 overrode it.
ReceiptsTellDecision ==
    \A c \in Callers : pc[c] = "done" =>
        LET trail == emitted[c]
            last  == trail[Len(trail)]
        IN  \A d \in decision[c] :
                /\ ~d.allowed => trail # <<>> /\ last.decision = "blocked"
                /\ d.allowed /\ (\E i \in DOMAIN trail : trail[i].decision = "blocked")
                        => last.policy_rule = "003"

\* How many receipts of caller c the log holds from position p on.
LoggedFrom(c, p) == Cardinality({q \in p .. Len(receipts) : receipts[q].caller = c})

\* Clearing the log in the middle of a call loses receipts already written and
\* never a later one: what the log holds of a caller ends with the receipts of
\* its latest call, or is the end of them.
LogKeepsLaterReceipts ==
    \A c \in Callers, p \in DOMAIN receipts :
        LET trail == emitted[c]
            later == LoggedFrom(c, p)
        IN  receipts[p].caller = c /\ later <= Len(trail)
                => receipts[p] = trail[Len(trail) - later + 1]

Granted(c) == pc[c] = "done" /\ Allow \in decision[c]

WithoutVerdicts(request) ==
    [request EXCEPT !.sources =
        [i \in DOMAIN @ |-> [@[i] EXCEPT !.verdict = "none"]]]

\* Whatever is granted is granted on the authority of its sources.  The detector is a
\* secondary signal (paper, section 6.3): it would have been granted had no detector
\* run.  And the gate is as strict as the least trusted segment at hand: no segment
\* of a granted tool call that it was shown is above level 2, whatever level the
\* request claims for itself.
GrantsEarned ==
    \A c \in Callers : Granted(c) =>
        \A request \in call[c] :
            /\ Permitted(WithoutVerdicts(request))
            /\ request.op = "tool" =>
                \A i \in DOMAIN request.sources :
                    request.sources[i].resolved
                        => AUTHORITY_LEVELS[request.sources[i].authority] <= 2

(***************************************************************************)
(* What the documents say and the code does not do.                        *)
(***************************************************************************)

\* "audit receipt for every decision" (gateway.py:74), "Receipts emitted [...] >= 1
\* per decision" (BENCHMARK_REPORT.md:22): a call that has ended left a receipt.
EveryDecisionReceipted ==
    \A c \in Callers : pc[c] = "done" => emitted[c] # <<>>
================================================================================
