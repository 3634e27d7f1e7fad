---------------------------- MODULE AuthorityProofs ----------------------------
(***************************************************************************)
(* Proofs about AuthorityGate, for any callers and any calls, in           *)
(* particular for any number of source segments of a tool call; and, in    *)
(* the second half, about MCPAdapter on top of it: whatever a guard does   *)
(* with the gate the gate allows for, so that everything proved of the     *)
(* gate holds while tool servers are guarded.                              *)
(***************************************************************************)
EXTENDS MCPAdapter, FiniteSetTheorems, SequenceTheorems, TLAPS

LEMMA CallFields ==
    ASSUME NEW request \in Calls
    PROVE  /\ request \in CallType
           /\ request.op \in Ops
           /\ request.effect \in Effects
           /\ request.sources \in Seq(Sources)
           /\ request.level \in Levels
           /\ request.op # "tool" => 1 \in DOMAIN request.sources
BY GateAssumption DEF CallType

LEMMA SourceFields ==
    ASSUME NEW request \in Calls, NEW i \in DOMAIN request.sources
    PROVE  /\ request.sources[i] \in Sources
           /\ request.sources[i].authority \in AuthorityNames
<1>1. request.sources \in Seq(Sources)
  BY CallFields
<1>2. request.sources[i] \in Sources
  BY <1>1
<1> QED
  BY <1>2 DEF Sources

LEMMA EffectType ==
    ASSUME NEW request \in Calls
    PROVE  Effect(request) \in Effects
BY CallFields DEF Effect, Effects

LEMMA EnforcedType ==
    ASSUME NEW source, NEW effect, NEW verdict
    PROVE  /\ Enforced(source, effect, verdict).outcome \in {"blocked", "allowed"}
           /\ Enforced(source, effect, verdict).rule \in {"000", "001", "002"}
           /\ Allows(source, effect, verdict)
                <=> /\ effect \in EFFECT_ALLOW_MAP[source.authority]
                    /\ verdict # "high_risk"
BY DEF Enforced, Allows

LEMMA EmitType ==
    ASSUME TypeOK, NEW c \in Callers,
           NEW authority \in AuthorityNames \cup {"unknown", "level"},
           NEW effect \in Effects, NEW outcome \in {"blocked", "allowed"},
           NEW rule \in {"000", "001", "002", "003", "004", "005"},
           _emit_receipt(c, authority, effect, outcome, rule)
    PROVE  /\ receipts' \in Seq(Receipts)
           /\ emitted' \in [Callers -> Seq(Receipts)]
<1> DEFINE receipt == [caller |-> c, authority |-> authority, effect |-> effect,
                       decision |-> outcome, policy_rule |-> rule]
<1>1. receipt \in Receipts
  BY DEF Receipts
<1>2. /\ receipts' = Append(receipts, receipt)
      /\ emitted' = [emitted EXCEPT ![c] = Append(emitted[c], receipt)]
  BY DEF _emit_receipt
<1> HIDE DEF receipt
<1> QED
  BY <1>1, <1>2 DEF TypeOK

LEMMA EnforceType ==
    ASSUME TypeOK, NEW c \in Callers, NEW source \in Sources,
           NEW effect \in Effects, NEW verdict,
           enforce_effect(c, source, effect, verdict)
    PROVE  /\ receipts' \in Seq(Receipts)
           /\ emitted' \in [Callers -> Seq(Receipts)]
<1>1. source.authority \in AuthorityNames \cup {"unknown", "level"}
  BY DEF Sources
<1> QED
  BY <1>1, EnforcedType, EmitType DEF enforce_effect

LEMMA AnswerTypes == Allow \in Decisions /\ Deny \in Decisions /\ Ask \in Decisions
BY DEF Allow, Deny, Ask, Decisions
--------------------------------------------------------------------------------
\* A caller at work has exactly one call.
LEMMA OneCall ==
    ASSUME TypeOK, NEW c \in Callers, pc[c] # "idle"
    PROVE  \E request \in Calls : call[c] = {request}
BY DEF TypeOK

\* A step of a call in progress keeps the types if its receipts have theirs.
LEMMA StepType ==
    ASSUME TypeOK, NEW c \in Callers, pc[c] # "idle", UNCHANGED call,
           \/ UNCHANGED <<pc, decision>>
           \/ Goto(c, "override") /\ UNCHANGED decision
           \/ \E answer \in {Allow, Deny, Ask} : Return(c, answer),
           UNCHANGED next \/ next' = [next EXCEPT ![c] = next[c] + 1],
           receipts' \in Seq(Receipts),
           emitted' \in [Callers -> Seq(Receipts)]
    PROVE  TypeOK'
<1>1. next' \in [Callers -> Nat \ {0}]
  <2>1. next \in [Callers -> Nat \ {0}] /\ next[c] + 1 \in Nat \ {0}
    BY DEF TypeOK
  <2> QED
    BY <2>1
<1>2. pc' \in [Callers -> {"idle", "enforce", "override", "sources", "done"}]
  BY DEF TypeOK, Goto, Return
<1>3. decision' \in [Callers -> SUBSET Decisions]
  BY AnswerTypes DEF TypeOK, Return
<1>4. \A d \in Callers : pc'[d] # "idle" => pc[d] # "idle"
  BY DEF TypeOK, Goto, Return
<1> QED
  BY <1>1, <1>2, <1>3, <1>4 DEF TypeOK

\* Only tool calls walk over sources, only the others enforce one effect.
PhaseInv ==
    \A c \in Callers : \A request \in call[c] :
        /\ pc[c] \in {"enforce", "override"} => request.op # "tool"
        /\ pc[c] = "sources" => request.op = "tool"

LEMMA TypeStep == TypeOK /\ PhaseInv /\ [Next]_vars => TypeOK'
<1> SUFFICES ASSUME TypeOK, PhaseInv, [Next]_vars PROVE TypeOK'
  OBVIOUS
<1>1. ASSUME NEW c \in Callers, NEW request \in Calls, Begin(c, request)
      PROVE  TypeOK'
  <2>1. pc' \in [Callers -> {"idle", "enforce", "override", "sources", "done"}]
    BY <1>1 DEF TypeOK, Begin, Goto
  <2>2. /\ call' \in [Callers -> SUBSET Calls]
        /\ decision' \in [Callers -> SUBSET Decisions]
        /\ next' \in [Callers -> Nat \ {0}]
    BY <1>1 DEF TypeOK, Begin
  <2>3. /\ receipts' \in Seq(Receipts)
        /\ emitted' \in [Callers -> Seq(Receipts)]
    BY <1>1 DEF TypeOK, Begin
  <2>4. \A d \in Callers : pc'[d] # "idle" => \E r \in Calls : call'[d] = {r}
    BY <1>1 DEF TypeOK, Begin, Goto
  <2> QED
    BY <2>1, <2>2, <2>3, <2>4 DEF TypeOK
<1>2. ASSUME NEW c \in Callers, Enforce(c) PROVE TypeOK'
  <2>1. PICK request \in Calls : call[c] = {request}
    BY <1>2, OneCall DEF Enforce
  <2>2. /\ enforce_effect(c, request.sources[1], Effect(request), Verdict(request))
        /\ \/ Goto(c, "override") /\ UNCHANGED decision
           \/ \E answer \in {Allow, Deny, Ask} : Return(c, answer)
        /\ pc[c] = "enforce"
        /\ UNCHANGED <<call, next>>
    BY <1>2, <2>1 DEF Enforce
  <2>3. request.sources[1] \in Sources
    BY <2>1, <2>2, CallFields, SourceFields DEF PhaseInv
  <2>4. /\ receipts' \in Seq(Receipts)
        /\ emitted' \in [Callers -> Seq(Receipts)]
    BY <2>2, <2>3, EffectType, EnforceType
  <2> QED
    BY <2>2, <2>4, StepType
<1>3. ASSUME NEW c \in Callers, Override(c) PROVE TypeOK'
  <2>1. /\ receipts' \in Seq(Receipts)
        /\ emitted' \in [Callers -> Seq(Receipts)]
    BY <1>3, EmitType DEF Override, AuthorityNames, Effects
  <2> QED
    BY <1>3, <2>1, StepType DEF Override
<1>4. ASSUME NEW c \in Callers, ResolvedSource(c) PROVE TypeOK'
  <2>1. PICK request \in Calls : call[c] = {request}
    BY <1>4, OneCall DEF ResolvedSource
  <2> DEFINE source == request.sources[next[c]]
  <2>2. /\ pc[c] = "sources"
        /\ next[c] \in DOMAIN request.sources
        /\ enforce_effect(c, source, "tool_call", source.verdict)
        /\ \/ UNCHANGED <<pc, decision>>
           \/ \E answer \in {Allow, Deny, Ask} : Return(c, answer)
        /\ UNCHANGED next \/ next' = [next EXCEPT ![c] = next[c] + 1]
        /\ UNCHANGED call
    BY <1>4, <2>1 DEF ResolvedSource
  <2>3. source \in Sources
    BY <2>2, SourceFields
  <2>4. "tool_call" \in Effects
    BY DEF Effects
  <2>5. /\ receipts' \in Seq(Receipts)
        /\ emitted' \in [Callers -> Seq(Receipts)]
    BY <2>2, <2>3, <2>4, EnforceType
  <2> HIDE DEF source
  <2> QED
    BY <2>2, <2>5, StepType
<1>5. ASSUME NEW c \in Callers, UnresolvedSource(c) PROVE TypeOK'
  <2>1. /\ pc[c] = "sources"
        /\ \/ UNCHANGED <<pc, decision>>
           \/ \E answer \in {Allow, Deny, Ask} : Return(c, answer)
        /\ UNCHANGED next \/ next' = [next EXCEPT ![c] = next[c] + 1]
        /\ UNCHANGED call
        /\ \/ _emit_receipt(c, "unknown", "tool_call", "blocked", "002")
           \/ UNCHANGED <<receipts, emitted>>
    BY <1>5 DEF UnresolvedSource
  <2>2. /\ receipts' \in Seq(Receipts)
        /\ emitted' \in [Callers -> Seq(Receipts)]
    BY <2>1, EmitType DEF TypeOK, Effects
  <2> QED
    BY <2>1, <2>2, StepType
<1>6. ASSUME NEW c \in Callers, Sink(c) PROVE TypeOK'
  <2>1. /\ pc[c] = "sources"
        /\ \E answer \in {Allow, Deny, Ask} : Return(c, answer)
        /\ UNCHANGED <<call, next>>
        /\ \/ _emit_receipt(c, "level", "tool_call", "blocked", "004")
           \/ _emit_receipt(c, "level", "tool_call", "blocked", "005")
           \/ UNCHANGED <<receipts, emitted>>
    BY <1>6 DEF Sink
  <2>2. /\ receipts' \in Seq(Receipts)
        /\ emitted' \in [Callers -> Seq(Receipts)]
    BY <2>1, EmitType DEF TypeOK, Effects
  <2> QED
    BY <2>1, <2>2, StepType
<1>7. CASE clear_receipts
  BY <1>7 DEF clear_receipts, TypeOK
<1>8. CASE UNCHANGED vars
  BY <1>8 DEF vars, TypeOK
<1> QED
  BY <1>1, <1>2, <1>3, <1>4, <1>5, <1>6, <1>7, <1>8 DEF Next, Step

LEMMA PhaseStep == TypeOK /\ PhaseInv /\ [Next]_vars => PhaseInv'
<1> SUFFICES ASSUME TypeOK, PhaseInv, [Next]_vars PROVE PhaseInv'
  OBVIOUS
<1> USE DEF TypeOK, PhaseInv, Goto, Return
<1>1. ASSUME NEW c \in Callers, NEW request \in Calls, Begin(c, request)
      PROVE  PhaseInv'
  BY <1>1 DEF Begin
<1>2. ASSUME NEW c \in Callers, Enforce(c) PROVE PhaseInv'
  BY <1>2 DEF Enforce
<1>3. ASSUME NEW c \in Callers, Override(c) PROVE PhaseInv'
  BY <1>3 DEF Override
<1>4. ASSUME NEW c \in Callers, ResolvedSource(c) PROVE PhaseInv'
  BY <1>4 DEF ResolvedSource
<1>5. ASSUME NEW c \in Callers, UnresolvedSource(c) PROVE PhaseInv'
  BY <1>5 DEF UnresolvedSource
<1>6. ASSUME NEW c \in Callers, Sink(c) PROVE PhaseInv'
  BY <1>6 DEF Sink
<1>7. CASE clear_receipts \/ UNCHANGED vars
  BY <1>7 DEF clear_receipts, vars
<1> QED
  BY <1>1, <1>2, <1>3, <1>4, <1>5, <1>6, <1>7 DEF Next, Step

LEMMA SpecTypes == Spec => [](TypeOK /\ PhaseInv)
<1>1. Init => TypeOK /\ PhaseInv
  BY DEF Init, TypeOK, PhaseInv
<1> QED
  BY <1>1, TypeStep, PhaseStep, PTL DEF Spec

\* Type correctness of the gate.
THEOREM TypeCorrect == Spec => []TypeOK
BY SpecTypes, PTL
--------------------------------------------------------------------------------
(***************************************************************************)
(* The decision is the deserved one.  On the way there nothing is decided, *)
(* an override is only reached by a refused memory write, and every source *)
(* already walked over permits the call.                                   *)
(***************************************************************************)
Walked(c, request) ==
    \A i \in DOMAIN request.sources : i < next[c] => SourcePermits(request.sources[i])

DecisionInv ==
    \A c \in Callers :
        /\ pc[c] = "idle" => call[c] = {}
        /\ pc[c] # "done" => decision[c] = {}
        /\ \A request \in call[c] :
            /\ pc[c] = "override" => Overrides(request)
            /\ pc[c] = "sources" => Walked(c, request)
            /\ pc[c] = "done" => decision[c] = {Deserved(request)}

LEMMA DeservedAnswers ==
    ASSUME NEW request
    PROVE  /\ Permitted(request) /\ ~NeedsConfirmation(request)
                => Deserved(request) = Allow
           /\ ~Permitted(request) /\ ~NeedsConfirmation(request)
                => Deserved(request) = Deny
           /\ ~Permitted(request) /\ NeedsConfirmation(request)
                => Deserved(request) = Ask
BY DEF Deserved, Allow, Deny, Ask, Permitted, NeedsConfirmation

\* What a caller's step leaves to be shown.
LEMMA StepDecides ==
    ASSUME TypeOK, DecisionInv, NEW c \in Callers, NEW request \in Calls,
           call[c] = {request}, UNCHANGED call,
           pc[c] # "idle", pc[c] # "done",
           \/ Return(c, Deserved(request)) /\ UNCHANGED next
           \/ /\ Goto(c, "override") /\ UNCHANGED <<decision, next>>
              /\ Overrides(request)
           \/ /\ UNCHANGED <<pc, decision>> /\ pc[c] = "sources"
              /\ next' = [next EXCEPT ![c] = next[c] + 1]
              /\ next[c] \in DOMAIN request.sources
              /\ SourcePermits(request.sources[next[c]])
    PROVE  DecisionInv'
<1>1. ASSUME NEW d \in Callers, d # c
      PROVE  pc'[d] = pc[d] /\ decision'[d] = decision[d] /\ next'[d] = next[d]
  BY <1>1 DEF TypeOK, Goto, Return
<1>2. CASE Return(c, Deserved(request)) /\ UNCHANGED next
  BY <1>1, <1>2 DEF DecisionInv, Walked, Return, Goto, TypeOK
<1>3. CASE Goto(c, "override") /\ UNCHANGED <<decision, next>> /\ Overrides(request)
  BY <1>1, <1>3 DEF DecisionInv, Walked, Goto, TypeOK
<1>4. CASE /\ UNCHANGED <<pc, decision>> /\ pc[c] = "sources"
           /\ next' = [next EXCEPT ![c] = next[c] + 1]
           /\ next[c] \in DOMAIN request.sources
           /\ SourcePermits(request.sources[next[c]])
  <2>1. Walked(c, request)
    BY <1>4 DEF DecisionInv
  <2>2. next'[c] = next[c] + 1 /\ next[c] \in Nat
    BY <1>4 DEF TypeOK
  <2>3. DOMAIN request.sources \subseteq Nat
    BY CallFields
  <2>4. \A i \in DOMAIN request.sources : i < next[c] + 1 => i < next[c] \/ i = next[c]
    BY <2>2, <2>3
  <2>5. Walked(c, request)'
    BY <1>4, <2>1, <2>2, <2>4 DEF Walked
  <2> QED
    BY <1>1, <1>4, <2>5 DEF DecisionInv, Walked, TypeOK
<1> QED
  BY <1>2, <1>3, <1>4

LEMMA DecisionStep ==
    TypeOK /\ PhaseInv /\ DecisionInv /\ [Next]_vars => DecisionInv'
<1> SUFFICES ASSUME TypeOK, PhaseInv, DecisionInv, [Next]_vars
             PROVE  DecisionInv'
  OBVIOUS
<1>1. ASSUME NEW c \in Callers, NEW request \in Calls, Begin(c, request)
      PROVE  DecisionInv'
  <2>1. \A i \in DOMAIN request.sources : ~(i < 1)
    BY CallFields
  <2> QED
    BY <1>1, <2>1 DEF Begin, DecisionInv, Walked, Goto, TypeOK
<1>2. ASSUME NEW c \in Callers, Enforce(c) PROVE DecisionInv'
  <2>1. PICK request \in Calls : call[c] = {request}
    BY <1>2, OneCall DEF Enforce
  <2> DEFINE source  == request.sources[1]
             allowed == Allows(source, Effect(request), Verdict(request))
  <2>2. /\ pc[c] = "enforce"
        /\ UNCHANGED <<call, next>>
        /\ IF ~allowed /\ Overrides(request)
           THEN Goto(c, "override") /\ UNCHANGED decision
           ELSE Return(c, IF allowed THEN Allow ELSE Deny)
    BY <1>2, <2>1 DEF Enforce
  <2>3. allowed <=> /\ Effect(request) \in EFFECT_ALLOW_MAP[source.authority]
                    /\ Verdict(request) # "high_risk"
    BY EnforcedType
  <2>4. request.op \in {"effect", "memory", "rag"}
    BY <2>1, <2>2, CallFields DEF PhaseInv, Ops
  <2>5. ~NeedsConfirmation(request)
    BY <2>4 DEF NeedsConfirmation
  <2>6. Permitted(request) <=> allowed \/ Overrides(request)
    BY <2>3, <2>4 DEF Permitted, MayCause, Effect, Verdict, Overrides
  <2> HIDE DEF source, allowed
  <2>7. \/ Return(c, Deserved(request))
        \/ Goto(c, "override") /\ UNCHANGED decision /\ Overrides(request)
    BY <2>2, <2>5, <2>6, DeservedAnswers
  <2> QED
    BY <2>1, <2>2, <2>7, StepDecides
<1>3. ASSUME NEW c \in Callers, Override(c) PROVE DecisionInv'
  <2>1. PICK request \in Calls : call[c] = {request}
    BY <1>3, OneCall DEF Override
  <2>2. pc[c] = "override" /\ Return(c, Allow) /\ UNCHANGED <<call, next>>
    BY <1>3 DEF Override
  <2>3. Overrides(request)
    BY <2>1, <2>2 DEF DecisionInv
  <2>4. Deserved(request) = Allow
    BY <2>3, DeservedAnswers DEF Overrides, Permitted, NeedsConfirmation
  <2> QED
    BY <2>1, <2>2, <2>4, StepDecides
<1>4. ASSUME NEW c \in Callers, ResolvedSource(c) \/ UnresolvedSource(c)
      PROVE  DecisionInv'
  <2>1. PICK request \in Calls : call[c] = {request}
    BY <1>4, OneCall DEF ResolvedSource, UnresolvedSource
  <2> DEFINE source == request.sources[next[c]]
  <2>2. /\ pc[c] = "sources"
        /\ next[c] \in DOMAIN request.sources
        /\ UNCHANGED call
        /\ \/ /\ SourcePermits(source)
              /\ next' = [next EXCEPT ![c] = next[c] + 1]
              /\ UNCHANGED <<pc, decision>>
           \/ ~SourcePermits(source) /\ Return(c, Deny) /\ UNCHANGED next
    BY <1>4, <2>1, EnforcedType
    DEF ResolvedSource, UnresolvedSource, SourcePermits, MayCause
  <2>3. request.op = "tool"
    BY <2>1, <2>2 DEF PhaseInv
  <2>4. ~SourcePermits(source) => ~SourcesPermit(request)
    BY <2>2 DEF SourcePermits, SourcesPermit
  <2>5. ~SourcePermits(source) => Deserved(request) = Deny
    BY <2>3, <2>4, DeservedAnswers DEF Permitted, NeedsConfirmation
  <2> QED
    BY <2>1, <2>2, <2>5, StepDecides
<1>5. ASSUME NEW c \in Callers, Sink(c) PROVE DecisionInv'
  <2>1. PICK request \in Calls : call[c] = {request}
    BY <1>5, OneCall DEF Sink
  <2>2. /\ pc[c] = "sources"
        /\ next[c] \notin DOMAIN request.sources
        /\ UNCHANGED <<call, next>>
        /\ \/ request.risky_sink /\ request.level >= 5 /\ Return(c, Deny)
           \/ /\ request.risky_sink /\ ~(request.level >= 5)
              /\ request.level >= 3 /\ ~request.confirmed
              /\ Return(c, Ask)
           \/ /\ ~(request.risky_sink /\ request.level >= 5)
              /\ ~(request.risky_sink /\ request.level >= 3 /\ ~request.confirmed)
              /\ Return(c, Allow)
    BY <1>5, <2>1 DEF Sink
  <2>3. request.op = "tool" /\ request.level \in Nat
    BY <2>1, <2>2, CallFields DEF PhaseInv, Levels
  <2>4. \A i \in DOMAIN request.sources : i < next[c]
    <3>1. DOMAIN request.sources = 1 .. Len(request.sources)
          /\ Len(request.sources) \in Nat
      BY CallFields
    <3>2. next[c] \in Nat \ {0}
      BY DEF TypeOK
    <3> QED
      BY <2>2, <3>1, <3>2
  <2>5. Walked(c, request)
    BY <2>1, <2>2 DEF DecisionInv
  <2>6. SourcesPermit(request)
    BY <2>4, <2>5 DEF Walked, SourcePermits, SourcesPermit
  <2>7. SinkPermits(request) <=>
            /\ ~(request.risky_sink /\ request.level >= 5)
            /\ ~(request.risky_sink /\ request.level >= 3 /\ ~request.confirmed)
    BY <2>3 DEF SinkPermits
  <2>8. Return(c, Deserved(request))
    BY <2>2, <2>3, <2>6, <2>7, DeservedAnswers DEF Permitted, NeedsConfirmation
  <2> QED
    BY <2>1, <2>2, <2>8, StepDecides
<1>6. CASE clear_receipts \/ UNCHANGED vars
  BY <1>6 DEF clear_receipts, vars, DecisionInv, Walked
<1> QED
  BY <1>1, <1>2, <1>3, <1>4, <1>5, <1>6 DEF Next, Step

LEMMA SpecDecides == Spec => [](TypeOK /\ PhaseInv /\ DecisionInv)
<1>1. Init => DecisionInv
  BY DEF Init, DecisionInv
<1> QED
  BY <1>1, DecisionStep, SpecTypes, PTL DEF Spec
--------------------------------------------------------------------------------
LEMMA StepIsMediated ==
    TypeOK /\ DecisionInv /\ DecisionInv' /\ [Next]_vars
        => [Promise!MediationNext]_<<call, decision>>
<1> SUFFICES ASSUME TypeOK, DecisionInv, DecisionInv', [Next]_vars
             PROVE  [Promise!MediationNext]_<<call, decision>>
  OBVIOUS
<1>1. ASSUME NEW c \in Callers, NEW request \in Calls, Begin(c, request)
      PROVE  Promise!AskFor(c, request)
  <2>1. call[c] = {} \/ decision[c] # {}
    <3>1. CASE pc[c] = "idle"
      BY <3>1 DEF DecisionInv
    <3>2. CASE pc[c] = "done"
      BY <3>2, OneCall DEF DecisionInv
    <3> QED
      BY <1>1, <3>1, <3>2 DEF Begin
  <2> QED
    BY <1>1, <2>1 DEF Begin, Promise!AskFor
<1>2. ASSUME NEW c \in Callers, Step(c)
      PROVE  Promise!Answer(c) \/ UNCHANGED <<call, decision>>
  <2>1. pc[c] # "idle" /\ pc[c] # "done" /\ UNCHANGED call
    BY <1>2 DEF Step, Enforce, Override, ResolvedSource, UnresolvedSource, Sink
  <2>2. PICK request \in Calls : call[c] = {request}
    BY <2>1, OneCall
  <2>3. \/ UNCHANGED decision
        \/ \E answer : Return(c, answer)
    BY <1>2 DEF Step, Enforce, Override, ResolvedSource, UnresolvedSource, Sink
  <2>4. ASSUME NEW answer, Return(c, answer) PROVE Promise!Answer(c)
    <3>1. pc'[c] = "done" /\ decision' = [decision EXCEPT ![c] = {answer}]
      BY <2>4 DEF Return, Goto, TypeOK
    <3>2. decision'[c] = {Deserved(request)}
      BY <2>1, <2>2, <3>1 DEF DecisionInv
    <3>3. decision' = [decision EXCEPT ![c] = {Deserved(request)}]
      BY <3>1, <3>2 DEF TypeOK
    <3>4. decision[c] = {}
      BY <2>1 DEF DecisionInv
    <3> QED
      BY <2>1, <2>2, <3>3, <3>4
      DEF Promise!Answer, Promise!Deserved, Deserved,
          Promise!Permitted, Permitted, Promise!NeedsConfirmation, NeedsConfirmation,
          Promise!MayCause, MayCause, Promise!SourcesPermit, SourcesPermit,
          Promise!SourcePermits, SourcePermits, Promise!SinkPermits, SinkPermits,
          Promise!EFFECT_ALLOW_MAP, EFFECT_ALLOW_MAP, Promise!AuthorityNames,
          AuthorityNames, Promise!Effects, Effects
  <2> QED
    BY <2>1, <2>3, <2>4
<1>3. CASE clear_receipts \/ UNCHANGED vars
  BY <1>3 DEF clear_receipts, vars
<1> QED
  BY <1>1, <1>2, <1>3 DEF Next, Promise!MediationNext

\* Every call is answered with the decision its tables give it.
THEOREM GateMediates == Spec => Mediated
<1>1. Init => Promise!MediationInit
  BY DEF Init, Promise!MediationInit
<1> QED
  BY <1>1, StepIsMediated, SpecDecides, PTL
  DEF Spec, Mediated, Promise!MediationSpec, Promise!vars
--------------------------------------------------------------------------------
LEMMA GrantedIsPermitted ==
    ASSUME TypeOK, DecisionInv, NEW c \in Callers, Granted(c)
    PROVE  \E request \in Calls : call[c] = {request} /\ Permitted(request)
<1>1. PICK request \in Calls : call[c] = {request}
  BY OneCall DEF Granted
<1>2. Allow = Deserved(request)
  BY <1>1 DEF Granted, DecisionInv
<1>3. Allow.allowed = Deserved(request).allowed
  BY <1>2
<1>4. Permitted(request)
  BY <1>3 DEF Allow, Deserved
<1> QED
  BY <1>1, <1>4

\* Only the levels 0 to 2 have the effect tool_call.
LEMMA ToolCallLevels ==
    ASSUME NEW a \in AuthorityNames, "tool_call" \in EFFECT_ALLOW_MAP[a]
    PROVE  AUTHORITY_LEVELS[a] <= 2
<1>1. CASE a \in {"protocol_root", "system", "developer"}
  BY <1>1 DEF AUTHORITY_LEVELS
<1>2. CASE a \notin {"protocol_root", "system", "developer"}
  BY <1>2 DEF EFFECT_ALLOW_MAP
<1> QED
  BY <1>1, <1>2

\* A granted tool call was driven by trusted segments alone, as far as the gate
\* had them at hand.
LEMMA OnlyTrustedSources ==
    ASSUME TypeOK, DecisionInv, NEW c \in Callers, Granted(c),
           NEW request \in call[c], request.op = "tool",
           NEW i \in DOMAIN request.sources, request.sources[i].resolved
    PROVE  AUTHORITY_LEVELS[request.sources[i].authority] <= 2
<1>1. request \in Calls /\ Permitted(request)
  BY GrantedIsPermitted
<1>2. MayCause(request.sources[i], "tool_call")
  BY <1>1 DEF Permitted, SourcesPermit, SourcePermits
<1> QED
  BY <1>1, <1>2, SourceFields, ToolCallLevels DEF MayCause

LEMMA WithoutVerdictsFields ==
    ASSUME NEW request \in Calls
    PROVE  /\ WithoutVerdicts(request).op = request.op
           /\ WithoutVerdicts(request).effect = request.effect
           /\ WithoutVerdicts(request).explicit = request.explicit
           /\ SinkPermits(WithoutVerdicts(request)) <=> SinkPermits(request)
           /\ DOMAIN WithoutVerdicts(request).sources = DOMAIN request.sources
           /\ \A i \in DOMAIN request.sources :
                LET cleared == WithoutVerdicts(request).sources[i]
                IN  /\ cleared.authority = request.sources[i].authority
                    /\ cleared.resolved = request.sources[i].resolved
                    /\ cleared.verdict = "none"
<1>1. request \in [op : Ops, effect : Effects, sources : Seq(Sources),
                   explicit : BOOLEAN, risky_sink : BOOLEAN, level : Levels,
                   confirmed : BOOLEAN]
  BY CallFields, GateAssumption DEF CallType
<1>2. \A i \in DOMAIN request.sources : request.sources[i] \in Sources
  BY SourceFields
<1> QED
  BY <1>1, <1>2 DEF WithoutVerdicts, SinkPermits, Sources

\* No detector verdict grants what authority does not.
LEMMA VerdictsNeverGrant ==
    ASSUME TypeOK, DecisionInv, NEW c \in Callers, Granted(c), NEW request \in call[c]
    PROVE  Permitted(WithoutVerdicts(request))
<1>1. request \in Calls /\ Permitted(request)
  BY GrantedIsPermitted
<1>2. request.op # "tool" => 1 \in DOMAIN request.sources
  BY <1>1, CallFields
<1>3. SourcesPermit(request) => SourcesPermit(WithoutVerdicts(request))
  BY <1>1, WithoutVerdictsFields
  DEF SourcesPermit, SourcePermits, MayCause
<1> QED
  BY <1>1, <1>2, <1>3, WithoutVerdictsFields DEF Permitted, MayCause

\* Whatever the gate grants is granted on the authority of its sources: it would be
\* granted without a detector, and a tool call is driven by levels 0 to 2 alone.
THEOREM GrantsAreEarned == Spec => []GrantsEarned
<1>1. TypeOK /\ DecisionInv => GrantsEarned
  BY OnlyTrustedSources, VerdictsNeverGrant DEF GrantsEarned
<1> QED
  BY <1>1, SpecDecides, PTL
--------------------------------------------------------------------------------
(***************************************************************************)
(* The receipts.  While a call is walking its sources every receipt of it  *)
(* is a permission; a refusal ends the call, or is overridden.             *)
(***************************************************************************)
LEMMA EmittedReceipt ==
    ASSUME TypeOK, NEW c \in Callers, NEW authority, NEW effect, NEW outcome, NEW rule,
           _emit_receipt(c, authority, effect, outcome, rule)
    PROVE  /\ \A d \in Callers \ {c} : emitted'[d] = emitted[d]
           /\ Len(emitted[c]) \in Nat
           /\ Len(emitted'[c]) = Len(emitted[c]) + 1
           /\ DOMAIN emitted'[c] = 1 .. Len(emitted[c]) + 1
           /\ \A i \in 1 .. Len(emitted[c]) : emitted'[c][i] = emitted[c][i]
           /\ emitted'[c][Len(emitted'[c])].decision = outcome
           /\ emitted'[c][Len(emitted'[c])].policy_rule = rule
<1> DEFINE receipt == [caller |-> c, authority |-> authority, effect |-> effect,
                       decision |-> outcome, policy_rule |-> rule]
<1>1. emitted' = [emitted EXCEPT ![c] = Append(emitted[c], receipt)]
  BY DEF _emit_receipt
<1>2. receipt.decision = outcome /\ receipt.policy_rule = rule
  OBVIOUS
<1> HIDE DEF receipt
<1>3. emitted[c] \in Seq(Receipts)
  BY DEF TypeOK
<1>4. emitted'[c] = Append(emitted[c], receipt)
  BY <1>1 DEF TypeOK
<1>5. \A d \in Callers \ {c} : emitted'[d] = emitted[d]
  BY <1>1 DEF TypeOK
<1> QED
  BY <1>2, <1>3, <1>4, <1>5

NoRefusal(c) == \A i \in 1 .. Len(emitted[c]) : emitted[c][i].decision # "blocked"

\* What the last call of c has on record tells the decision.
Tells(c) ==
    \A d \in decision[c] :
        /\ ~d.allowed => /\ Len(emitted[c]) > 0
                         /\ emitted[c][Len(emitted[c])].decision = "blocked"
        /\ d.allowed => \/ NoRefusal(c)
                        \/ emitted[c][Len(emitted[c])].policy_rule = "003"

TrailInv ==
    \A c \in Callers :
        /\ pc[c] = "enforce" => emitted[c] = <<>>
        /\ pc[c] = "sources" => NoRefusal(c)
        /\ pc[c] = "done" => Tells(c)

LEMMA AnswerFields == Allow.allowed /\ ~Deny.allowed /\ ~Ask.allowed
BY DEF Allow, Deny, Ask

\* How a step of caller c may go on, and the receipt it has to leave.
LEMMA StepTells ==
    ASSUME TypeOK, TrailInv, NEW c \in Callers,
           \A d \in Callers \ {c} : emitted'[d] = emitted[d],
           \/ Goto(c, "override") /\ UNCHANGED decision
           \/ UNCHANGED <<pc, decision>> /\ pc[c] = "sources" /\ NoRefusal(c)'
           \/ /\ Return(c, Allow)
              /\ NoRefusal(c)' \/ emitted'[c][Len(emitted'[c])].policy_rule = "003"
           \/ /\ \E answer \in {Deny, Ask} : Return(c, answer)
              /\ Len(emitted'[c]) > 0
              /\ emitted'[c][Len(emitted'[c])].decision = "blocked"
    PROVE  TrailInv'
<1>1. ASSUME NEW d \in Callers, d # c
      PROVE  pc'[d] = pc[d] /\ decision'[d] = decision[d] /\ emitted'[d] = emitted[d]
  BY <1>1 DEF TypeOK, Goto, Return
<1>2. \A d \in Callers \ {c} : /\ pc'[d] = "enforce" => emitted'[d] = <<>>
                               /\ pc'[d] = "sources" => NoRefusal(d)'
                               /\ pc'[d] = "done" => Tells(d)'
  BY <1>1 DEF TrailInv, NoRefusal, Tells
<1>3. CASE Goto(c, "override") /\ UNCHANGED decision
  BY <1>2, <1>3 DEF TrailInv, Goto, TypeOK
<1>4. CASE UNCHANGED <<pc, decision>> /\ pc[c] = "sources" /\ NoRefusal(c)'
  BY <1>2, <1>4 DEF TrailInv
<1>5. CASE /\ Return(c, Allow)
           /\ NoRefusal(c)' \/ emitted'[c][Len(emitted'[c])].policy_rule = "003"
  <2>1. pc'[c] = "done" /\ decision'[c] = {Allow}
    BY <1>5 DEF Return, Goto, TypeOK
  <2>2. Tells(c)'
    BY <1>5, <2>1, AnswerFields DEF Tells
  <2> QED
    BY <1>2, <2>1, <2>2 DEF TrailInv
<1>6. ASSUME NEW answer \in {Deny, Ask}, Return(c, answer), Len(emitted'[c]) > 0,
             emitted'[c][Len(emitted'[c])].decision = "blocked"
      PROVE  TrailInv'
  <2>1. pc'[c] = "done" /\ decision'[c] = {answer}
    BY <1>6 DEF Return, Goto, TypeOK
  <2>2. Tells(c)'
    BY <1>6, <2>1, AnswerFields DEF Tells
  <2> QED
    BY <1>2, <2>1, <2>2 DEF TrailInv
<1> QED
  BY <1>3, <1>4, <1>5, <1>6

LEMMA TrailStep == TypeOK /\ PhaseInv /\ TrailInv /\ [Next]_vars => TrailInv'
<1> SUFFICES ASSUME TypeOK, PhaseInv, TrailInv, [Next]_vars PROVE TrailInv'
  OBVIOUS
<1>1. ASSUME NEW c \in Callers, NEW request \in Calls, Begin(c, request)
      PROVE  TrailInv'
  <2>1. /\ pc'[c] # "done" /\ emitted'[c] = <<>>
        /\ \A d \in Callers \ {c} :
            pc'[d] = pc[d] /\ emitted'[d] = emitted[d] /\ decision'[d] = decision[d]
    BY <1>1 DEF Begin, Goto, TypeOK
  <2> QED
    BY <2>1 DEF TrailInv, NoRefusal, Tells
<1>2. ASSUME NEW c \in Callers, Enforce(c) PROVE TrailInv'
  <2>1. PICK request \in Calls : call[c] = {request}
    BY <1>2, OneCall DEF Enforce
  <2> DEFINE source  == request.sources[1]
             outcome == Enforced(source, Effect(request), Verdict(request)).outcome
             rule    == Enforced(source, Effect(request), Verdict(request)).rule
  <2>2. /\ pc[c] = "enforce"
        /\ _emit_receipt(c, source.authority, Effect(request), outcome, rule)
        /\ IF outcome # "allowed" /\ Overrides(request)
           THEN Goto(c, "override") /\ UNCHANGED decision
           ELSE Return(c, IF outcome = "allowed" THEN Allow ELSE Deny)
    BY <1>2, <2>1 DEF Enforce, enforce_effect, Allows
  <2>3. outcome \in {"blocked", "allowed"}
    BY EnforcedType
  <2>4. emitted[c] = <<>>
    BY <2>2 DEF TrailInv
  <2> HIDE DEF source, outcome, rule
  <2>5. /\ \A d \in Callers \ {c} : emitted'[d] = emitted[d]
        /\ Len(emitted'[c]) = 1 /\ emitted'[c][1].decision = outcome
    <3>1. Len(emitted[c]) = 0
      BY <2>4
    <3>2. /\ \A d \in Callers \ {c} : emitted'[d] = emitted[d]
          /\ Len(emitted'[c]) = Len(emitted[c]) + 1
          /\ emitted'[c][Len(emitted'[c])].decision = outcome
      BY <2>2, EmittedReceipt
    <3>3. Len(emitted'[c]) = 1
      BY <3>1, <3>2
    <3> QED
      BY <3>2, <3>3
  <2>6. outcome = "allowed" => NoRefusal(c)'
    BY <2>5 DEF NoRefusal
  <2> QED
    BY <2>2, <2>3, <2>5, <2>6, StepTells
<1>3. ASSUME NEW c \in Callers, Override(c) PROVE TrailInv'
  <2>1. /\ \A d \in Callers \ {c} : emitted'[d] = emitted[d]
        /\ emitted'[c][Len(emitted'[c])].policy_rule = "003"
    BY <1>3, EmittedReceipt DEF Override
  <2> QED
    BY <1>3, <2>1, StepTells DEF Override
<1>4. ASSUME NEW c \in Callers, ResolvedSource(c) PROVE TrailInv'
  <2>1. PICK request \in Calls : call[c] = {request}
    BY <1>4, OneCall DEF ResolvedSource
  <2> DEFINE source  == request.sources[next[c]]
             outcome == Enforced(source, "tool_call", source.verdict).outcome
             rule    == Enforced(source, "tool_call", source.verdict).rule
  <2>2. /\ pc[c] = "sources"
        /\ _emit_receipt(c, source.authority, "tool_call", outcome, rule)
        /\ IF outcome = "allowed" THEN UNCHANGED <<pc, decision>> ELSE Return(c, Deny)
    BY <1>4, <2>1 DEF ResolvedSource, enforce_effect, Allows
  <2>3. outcome \in {"blocked", "allowed"}
    BY EnforcedType
  <2>4. NoRefusal(c)
    BY <2>2 DEF TrailInv
  <2> HIDE DEF source, outcome, rule
  <2>5. /\ \A d \in Callers \ {c} : emitted'[d] = emitted[d]
        /\ Len(emitted[c]) \in Nat
        /\ Len(emitted'[c]) = Len(emitted[c]) + 1
        /\ \A i \in 1 .. Len(emitted[c]) : emitted'[c][i] = emitted[c][i]
        /\ emitted'[c][Len(emitted'[c])].decision = outcome
    BY <2>2, EmittedReceipt
  <2>6. outcome = "allowed" => NoRefusal(c)'
    BY <2>4, <2>5 DEF NoRefusal
  <2> QED
    BY <2>2, <2>3, <2>5, <2>6, StepTells
<1>5. ASSUME NEW c \in Callers, UnresolvedSource(c) PROVE TrailInv'
  <2>1. /\ pc[c] = "sources"
        /\ \/ /\ _emit_receipt(c, "unknown", "tool_call", "blocked", "002")
              /\ Return(c, Deny)
           \/ UNCHANGED <<pc, decision, receipts, emitted>>
    BY <1>5 DEF UnresolvedSource
  <2>2. CASE UNCHANGED <<pc, decision, receipts, emitted>>
    BY <2>2 DEF TrailInv, NoRefusal, Tells
  <2>3. CASE /\ _emit_receipt(c, "unknown", "tool_call", "blocked", "002")
             /\ Return(c, Deny)
    <3>1. /\ \A d \in Callers \ {c} : emitted'[d] = emitted[d]
          /\ Len(emitted'[c]) > 0
          /\ emitted'[c][Len(emitted'[c])].decision = "blocked"
      BY <2>3, EmittedReceipt
    <3> QED
      BY <2>3, <3>1, StepTells
  <2> QED
    BY <2>1, <2>2, <2>3
<1>6. ASSUME NEW c \in Callers, Sink(c) PROVE TrailInv'
  <2>1. /\ pc[c] = "sources"
        /\ \/ /\ \E rule : _emit_receipt(c, "level", "tool_call", "blocked", rule)
              /\ \E answer \in {Deny, Ask} : Return(c, answer)
           \/ Return(c, Allow) /\ UNCHANGED <<receipts, emitted>>
    BY <1>6 DEF Sink
  <2>2. CASE Return(c, Allow) /\ UNCHANGED <<receipts, emitted>>
    <3>1. NoRefusal(c)'
      BY <2>1, <2>2 DEF TrailInv, NoRefusal
    <3> QED
      BY <2>2, <3>1, StepTells
  <2>3. ASSUME NEW rule, _emit_receipt(c, "level", "tool_call", "blocked", rule),
               NEW answer \in {Deny, Ask}, Return(c, answer)
        PROVE  TrailInv'
    <3>1. /\ \A d \in Callers \ {c} : emitted'[d] = emitted[d]
          /\ Len(emitted'[c]) > 0
          /\ emitted'[c][Len(emitted'[c])].decision = "blocked"
      BY <2>3, EmittedReceipt
    <3> QED
      BY <2>3, <3>1, StepTells
  <2> QED
    BY <2>1, <2>2, <2>3
<1>7. CASE clear_receipts \/ UNCHANGED vars
  BY <1>7 DEF clear_receipts, vars, TrailInv, NoRefusal, Tells
<1> QED
  BY <1>1, <1>2, <1>3, <1>4, <1>5, <1>6, <1>7 DEF Next, Step

\* A refusal is always on record as the last receipt of its call, and a refusal on
\* record of a call that was granted was overridden with rule 003.
THEOREM ReceiptsTell == Spec => []ReceiptsTellDecision
<1>1. Init => TrailInv
  BY DEF Init, TrailInv
<1>2. TypeOK /\ TrailInv => ReceiptsTellDecision
  <2> SUFFICES ASSUME TypeOK, TrailInv, NEW c \in Callers, pc[c] = "done",
                      NEW d \in decision[c]
               PROVE  /\ ~d.allowed => /\ emitted[c] # <<>>
                                       /\ emitted[c][Len(emitted[c])].decision = "blocked"
                      /\ d.allowed /\ (\E i \in DOMAIN emitted[c] :
                                            emitted[c][i].decision = "blocked")
                            => emitted[c][Len(emitted[c])].policy_rule = "003"
    BY DEF ReceiptsTellDecision
  <2>1. Tells(c)
    BY DEF TrailInv
  <2>2. emitted[c] \in Seq(Receipts)
    BY DEF TypeOK
  <2>3. DOMAIN emitted[c] = 1 .. Len(emitted[c]) /\ (Len(emitted[c]) > 0 => emitted[c] # <<>>)
    BY <2>2
  <2> QED
    BY <2>1, <2>3 DEF Tells, NoRefusal
<1> QED
  BY <1>1, <1>2, TrailStep, SpecTypes, PTL DEF Spec
--------------------------------------------------------------------------------
(***************************************************************************)
(* The log.  Counted from the end, a receipt of a caller keeps its place   *)
(* in the log and in the trail of the call: each grows at its end only.    *)
(***************************************************************************)
Emits(c, receipt) ==
    /\ receipt.caller = c
    /\ receipts' = Append(receipts, receipt)
    /\ emitted' = [emitted EXCEPT ![c] = Append(emitted[c], receipt)]

LEMMA LogSteps ==
    ASSUME [Next]_vars
    PROVE  \/ UNCHANGED <<receipts, emitted>>
           \/ receipts' = <<>>
           \/ \E c \in Callers : UNCHANGED receipts /\ emitted' = [emitted EXCEPT ![c] = <<>>]
           \/ \E c \in Callers : \E receipt : Emits(c, receipt)
<1>1. ASSUME NEW c \in Callers, NEW authority, NEW effect, NEW outcome, NEW rule,
             _emit_receipt(c, authority, effect, outcome, rule)
      PROVE  \E receipt : Emits(c, receipt)
  <2> DEFINE receipt == [caller |-> c, authority |-> authority, effect |-> effect,
                         decision |-> outcome, policy_rule |-> rule]
  <2>1. Emits(c, receipt)
    BY <1>1 DEF Emits, _emit_receipt
  <2> HIDE DEF receipt
  <2> QED
    BY <2>1
<1>2. ASSUME NEW c \in Callers, Step(c)
      PROVE  UNCHANGED <<receipts, emitted>> \/ \E receipt : Emits(c, receipt)
  BY <1>1, <1>2
  DEF Step, Enforce, Override, ResolvedSource, UnresolvedSource, Sink, enforce_effect
<1>3. ASSUME NEW c \in Callers, NEW request \in Calls, Begin(c, request)
      PROVE  UNCHANGED receipts /\ emitted' = [emitted EXCEPT ![c] = <<>>]
  BY <1>3 DEF Begin
<1>4. CASE clear_receipts \/ UNCHANGED vars
  BY <1>4 DEF clear_receipts, vars
<1> QED
  BY <1>2, <1>3, <1>4 DEF Next

\* How the count of a caller's receipts from a position on changes.
LEMMA CountLogged ==
    ASSUME TypeOK, NEW c \in Callers, NEW p \in 1 .. Len(receipts)
    PROVE  /\ LoggedFrom(c, p) \in Nat
           /\ receipts[p].caller = c => LoggedFrom(c, p) >= 1
<1> DEFINE logged == {q \in p .. Len(receipts) : receipts[q].caller = c}
<1>1. Len(receipts) \in Nat
  BY DEF TypeOK
<1>2. IsFiniteSet(p .. Len(receipts))
  BY <1>1, FS_Interval
<1>3. IsFiniteSet(logged)
  BY <1>2, FS_Subset
<1>4. receipts[p].caller = c => p \in logged
  BY <1>1
<1> HIDE DEF logged
<1>5. Cardinality(logged) \in Nat /\ (logged # {} => Cardinality(logged) # 0)
  BY <1>3, FS_CardinalityType, FS_EmptySet
<1> QED
  BY <1>4, <1>5 DEF LoggedFrom, logged

LEMMA CountAppended ==
    ASSUME TypeOK, NEW c \in Callers, NEW d, NEW receipt, Emits(d, receipt),
           NEW last, last = Len(receipts) + 1
    PROVE  /\ Len(receipts) \in Nat
           /\ Len(receipts') = Len(receipts) + 1
           /\ \A p \in 1 .. Len(receipts) :
                /\ receipts'[p] = receipts[p]
                /\ LoggedFrom(c, p)' = IF d = c THEN LoggedFrom(c, p) + 1
                                                ELSE LoggedFrom(c, p)
           /\ receipts'[last] = receipt
           /\ d = c => LoggedFrom(c, last)' = 1
<1>1. receipts \in Seq(Receipts) /\ Len(receipts) \in Nat
  BY DEF TypeOK
<1>2. /\ Len(receipts') = Len(receipts) + 1
      /\ \A p \in 1 .. Len(receipts) : receipts'[p] = receipts[p]
      /\ receipts'[Len(receipts) + 1] = receipt
  BY <1>1 DEF Emits
<1> DEFINE logged(p) == {q \in p .. Len(receipts) : receipts[q].caller = c}
           after(p) == {q \in p .. last : receipts'[q].caller = c}
<1>3. ASSUME NEW p \in 1 .. last
      PROVE  after(p) = IF d = c THEN logged(p) \cup {last} ELSE logged(p)
  BY <1>1, <1>2, <1>3 DEF Emits
<1>4. ASSUME NEW p \in 1 .. last
      PROVE  IsFiniteSet(logged(p)) /\ last \notin logged(p)
  <2>1. IsFiniteSet(p .. Len(receipts))
    BY <1>1, FS_Interval
  <2> QED
    BY <1>1, <2>1, FS_Subset
<1>5. LoggedFrom(c, last)' = Cardinality(after(last))
  BY <1>2 DEF LoggedFrom
<1>6. ASSUME NEW p \in 1 .. Len(receipts)
      PROVE  LoggedFrom(c, p) = Cardinality(logged(p)) /\ LoggedFrom(c, p)' = Cardinality(after(p))
  BY <1>2 DEF LoggedFrom
<1>7. logged(last) = {}
  BY <1>1
<1> HIDE DEF logged, after
<1>8. \A p \in 1 .. last : d = c => Cardinality(after(p)) = Cardinality(logged(p)) + 1
  BY <1>3, <1>4, FS_AddElement
<1>9. d = c => Cardinality(after(last)) = 1
  BY <1>1, <1>7, <1>8, FS_EmptySet
<1> QED
  BY <1>1, <1>2, <1>3, <1>5, <1>6, <1>8, <1>9

LEMMA LogStep ==
    TypeOK /\ LogKeepsLaterReceipts /\ [Next]_vars => LogKeepsLaterReceipts'
<1> SUFFICES ASSUME TypeOK, LogKeepsLaterReceipts, [Next]_vars,
                    NEW c \in Callers, NEW p \in DOMAIN receipts',
                    receipts'[p].caller = c, LoggedFrom(c, p)' <= Len(emitted'[c])
             PROVE  receipts'[p] = emitted'[c][Len(emitted'[c]) - LoggedFrom(c, p)' + 1]
  BY DEF LogKeepsLaterReceipts
<1>1. /\ receipts \in Seq(Receipts) /\ emitted[c] \in Seq(Receipts)
      /\ Len(emitted[c]) \in Nat /\ DOMAIN receipts = 1 .. Len(receipts)
  BY DEF TypeOK
<1>2. CASE UNCHANGED <<receipts, emitted>>
  BY <1>2 DEF LogKeepsLaterReceipts, LoggedFrom
<1>3. CASE receipts' = <<>>
  BY <1>3
<1>4. ASSUME NEW d \in Callers, UNCHANGED receipts, emitted' = [emitted EXCEPT ![d] = <<>>]
      PROVE  receipts'[p] = emitted'[c][Len(emitted'[c]) - LoggedFrom(c, p)' + 1]
  <2>1. LoggedFrom(c, p)' = LoggedFrom(c, p) /\ LoggedFrom(c, p) \in Nat /\ LoggedFrom(c, p) >= 1
    BY <1>1, <1>4, CountLogged DEF LoggedFrom
  <2>2. d # c
    <3> SUFFICES ASSUME d = c PROVE FALSE
      OBVIOUS
    <3>1. Len(emitted'[c]) = 0
      BY <1>4 DEF TypeOK
    <3> QED
      BY <2>1, <3>1
  <2>3. emitted'[c] = emitted[c]
    BY <1>4, <2>2 DEF TypeOK
  <2> QED
    BY <1>4, <2>1, <2>3 DEF LogKeepsLaterReceipts
<1>5. ASSUME NEW d \in Callers, NEW receipt, Emits(d, receipt)
      PROVE  receipts'[p] = emitted'[c][Len(emitted'[c]) - LoggedFrom(c, p)' + 1]
  <2>1. /\ Len(receipts) \in Nat
        /\ receipts'[Len(receipts) + 1] = receipt
        /\ \A q \in 1 .. Len(receipts) : receipts'[q] = receipts[q]
        /\ p \in 1 .. Len(receipts) \/ p = Len(receipts) + 1
    <3>1. DOMAIN receipts' = 1 .. Len(receipts) + 1
      BY <1>1, <1>5 DEF Emits
    <3> QED
      BY <1>5, <3>1, CountAppended
  <2>2. CASE d # c
    <3>1. p \in 1 .. Len(receipts) /\ LoggedFrom(c, p)' = LoggedFrom(c, p)
      <4>1. receipt.caller = d
        BY <1>5 DEF Emits
      <4>2. p \in 1 .. Len(receipts)
        BY <1>5, <2>1, <2>2, <4>1
      <4> QED
        BY <1>5, <2>2, <4>2, CountAppended
    <3>2. emitted'[c] = emitted[c]
      BY <1>5, <2>2 DEF Emits, TypeOK
    <3> QED
      BY <1>1, <2>1, <3>1, <3>2 DEF LogKeepsLaterReceipts
  <2>3. CASE d = c
    <3>1. /\ Len(emitted'[c]) = Len(emitted[c]) + 1
          /\ emitted'[c][Len(emitted[c]) + 1] = receipt
          /\ \A i \in 1 .. Len(emitted[c]) : emitted'[c][i] = emitted[c][i]
      <4>1. emitted'[c] = Append(emitted[c], receipt)
        BY <1>5, <2>3 DEF Emits, TypeOK
      <4> QED
        BY <1>1, <4>1
    <3>2. CASE p = Len(receipts) + 1
      <4>1. LoggedFrom(c, p)' = 1
        BY <1>5, <2>3, <3>2, CountAppended
      <4> QED
        BY <1>1, <2>1, <3>1, <3>2, <4>1
    <3>3. CASE p \in 1 .. Len(receipts)
      <4>1. /\ LoggedFrom(c, p)' = LoggedFrom(c, p) + 1
            /\ receipts'[p] = receipts[p]
        BY <1>5, <2>3, <3>3, CountAppended
      <4>2. LoggedFrom(c, p) \in Nat /\ LoggedFrom(c, p) >= 1
        BY <3>3, <4>1, CountLogged
      <4>3. receipts[p] = emitted[c][Len(emitted[c]) - LoggedFrom(c, p) + 1]
        BY <1>1, <3>1, <3>3, <4>1, <4>2 DEF LogKeepsLaterReceipts
      <4> DEFINE i == Len(emitted[c]) - LoggedFrom(c, p) + 1
      <4>4. /\ i \in 1 .. Len(emitted[c])
            /\ i = Len(emitted'[c]) - LoggedFrom(c, p)' + 1
        <5>1. PICK k \in Nat : k = LoggedFrom(c, p)
          BY <4>2
        <5>2. PICK n \in Nat : n = Len(emitted[c])
          BY <1>1
        <5>3. k + 1 <= n + 1 /\ k >= 1
          BY <3>1, <4>1, <4>2, <5>1, <5>2
        <5>4. n - k + 1 \in 1 .. n /\ n - k + 1 = (n + 1) - (k + 1) + 1
          BY <5>3
        <5> QED
          BY <3>1, <4>1, <5>1, <5>2, <5>4
      <4>5. receipts'[p] = emitted'[c][i]
        BY <3>1, <4>1, <4>3, <4>4
      <4> QED
        BY <4>4, <4>5
    <3> QED
      BY <2>1, <3>2, <3>3
  <2> QED
    BY <2>2, <2>3
<1> QED
  BY <1>2, <1>3, <1>4, <1>5, LogSteps

\* However the receipts of several callers interleave, and whenever the log is cleared,
\* what it holds of a caller ends with the receipts of its latest call, or is their end.
THEOREM LogKeepsReceipts == Spec => []LogKeepsLaterReceipts
<1>1. Init => LogKeepsLaterReceipts
  BY DEF Init, LogKeepsLaterReceipts
<1> QED
  BY <1>1, LogStep, SpecTypes, PTL DEF Spec
--------------------------------------------------------------------------------
(***************************************************************************)
(* A call about one segment that no override may answer leaves exactly one *)
(* receipt, and it says what the call was about and how it was decided.    *)
(***************************************************************************)
OneReceipt(c, request, outcome) ==
    \E r \in Receipts :
        /\ emitted[c] = <<r>>
        /\ r.authority = request.sources[1].authority
        /\ r.effect = Effect(request)
        /\ r.decision = outcome

Answered(c, request) ==
    \/ decision[c] = {Allow} /\ OneReceipt(c, request, "allowed")
    \/ decision[c] = {Deny} /\ OneReceipt(c, request, "blocked")

SingleInv ==
    \A c \in Callers : \A request \in call[c] :
        pc[c] = "done" /\ request.op # "tool" /\ ~Overrides(request)
            => Answered(c, request)

LEMMA SingleStep ==
    TypeOK /\ PhaseInv /\ DecisionInv /\ TrailInv /\ SingleInv /\ [Next]_vars => SingleInv'
<1> SUFFICES ASSUME TypeOK, PhaseInv, DecisionInv, TrailInv, SingleInv, [Next]_vars
             PROVE  SingleInv'
  OBVIOUS
<1>1. ASSUME NEW c \in Callers, NEW request, request \in call[c], pc[c] = "done",
             request.op # "tool", ~Overrides(request),
             UNCHANGED <<pc[c], call[c], decision[c], emitted[c]>>
      PROVE  Answered(c, request)'
  BY <1>1 DEF SingleInv, Answered, OneReceipt, Effect
<1>2. ASSUME NEW c \in Callers,
             \A d \in Callers \ {c} : UNCHANGED <<pc[d], call[d], decision[d], emitted[d]>>,
             \A request \in call'[c] :
                pc'[c] = "done" /\ request.op # "tool" /\ ~Overrides(request)
                    => Answered(c, request)'
      PROVE  SingleInv'
  BY <1>1, <1>2 DEF SingleInv, Overrides
<1>3. ASSUME NEW c \in Callers, NEW request \in Calls, Begin(c, request)
      PROVE  SingleInv'
  <2>1. /\ pc'[c] # "done"
        /\ \A d \in Callers \ {c} : UNCHANGED <<pc[d], call[d], decision[d], emitted[d]>>
    BY <1>3 DEF Begin, Goto, TypeOK
  <2> QED
    BY <1>2, <2>1
<1>4. ASSUME NEW c \in Callers, Enforce(c) PROVE SingleInv'
  <2>1. PICK request \in Calls : call[c] = {request}
    BY <1>4, OneCall DEF Enforce
  <2> DEFINE source  == request.sources[1]
             outcome == Enforced(source, Effect(request), Verdict(request)).outcome
             rule    == Enforced(source, Effect(request), Verdict(request)).rule
             r       == [caller |-> c, authority |-> source.authority,
                         effect |-> Effect(request), decision |-> outcome,
                         policy_rule |-> rule]
  <2>2. /\ pc[c] = "enforce"
        /\ emitted' = [emitted EXCEPT ![c] = Append(emitted[c], r)]
        /\ IF outcome # "allowed" /\ Overrides(request)
           THEN Goto(c, "override") /\ UNCHANGED decision
           ELSE Return(c, IF outcome = "allowed" THEN Allow ELSE Deny)
        /\ UNCHANGED call
    BY <1>4, <2>1 DEF Enforce, enforce_effect, Allows, _emit_receipt
  <2>3. outcome \in {"blocked", "allowed"} /\ rule \in {"000", "001", "002"}
    BY EnforcedType
  <2>4. source.authority \in AuthorityNames /\ Effect(request) \in Effects
    BY <2>1, <2>2, CallFields, SourceFields, EffectType DEF PhaseInv
  <2>5. /\ r \in Receipts /\ r.authority = source.authority
        /\ r.effect = Effect(request) /\ r.decision = outcome
    BY <2>3, <2>4 DEF Receipts
  <2> HIDE DEF r, rule, outcome
  <2>6. emitted'[c] = <<r>>
    <3>1. emitted[c] = <<>> /\ emitted'[c] = Append(emitted[c], r)
      BY <2>2 DEF TrailInv, TypeOK
    <3>2. Append(<<>>, r) = <<r>>
      OBVIOUS
    <3> QED
      BY <3>1, <3>2
  <2>7. ASSUME ~Overrides(request)
        PROVE  Answered(c, request)'
    <3>1. decision'[c] = {IF outcome = "allowed" THEN Allow ELSE Deny}
      BY <2>2, <2>7 DEF Return, TypeOK
    <3> QED
      BY <2>3, <2>5, <2>6, <3>1 DEF Answered, OneReceipt, Effect
  <2>8. \A d \in Callers \ {c} : UNCHANGED <<pc[d], call[d], decision[d], emitted[d]>>
    BY <2>2 DEF Return, Goto, TypeOK
  <2> QED
    BY <1>2, <2>1, <2>2, <2>7, <2>8
<1>5. ASSUME NEW c \in Callers,
             Override(c) \/ ResolvedSource(c) \/ UnresolvedSource(c) \/ Sink(c)
      PROVE  SingleInv'
  <2>1. /\ pc[c] \in {"override", "sources"} /\ UNCHANGED call
        /\ pc' = pc \/ \E label : Goto(c, label)
        /\ decision' = decision \/ \E answer : Return(c, answer)
        /\ emitted' = emitted \/ \E trail : emitted' = [emitted EXCEPT ![c] = trail]
    BY <1>5
    DEF Override, ResolvedSource, UnresolvedSource, Sink, Return, enforce_effect,
        _emit_receipt
  <2>2. \A d \in Callers \ {c} : UNCHANGED <<pc[d], call[d], decision[d], emitted[d]>>
    BY <2>1 DEF Return, Goto, TypeOK
  <2>3. \A request \in call[c] : request.op = "tool" \/ Overrides(request)
    BY <2>1 DEF PhaseInv, DecisionInv
  <2> QED
    BY <1>2, <2>1, <2>2, <2>3
<1>6. CASE clear_receipts \/ UNCHANGED vars
  <2>1. UNCHANGED <<pc, call, decision, emitted>>
    BY <1>6 DEF clear_receipts, vars
  <2> QED
    BY <1>1, <2>1 DEF SingleInv
<1> QED
  BY <1>3, <1>4, <1>5, <1>6 DEF Next, Step

LEMMA SpecSingle == Spec => [](TypeOK /\ PhaseInv /\ SingleInv)
<1>1. Init => TrailInv /\ SingleInv
  BY DEF Init, TrailInv, SingleInv
<1> QED
  BY <1>1, TrailStep, SingleStep, SpecDecides, PTL DEF Spec
--------------------------------------------------------------------------------
(***************************************************************************)
(* MCPAdapter, for any number of guards and other callers.                 *)
(***************************************************************************)
PartLists == {<<>>, <<"description">>, <<"result">>, <<"description", "result">>}

\* A job that is not finished has a part to guard, and a call left about it.
UnderWay(j) ==
    /\ {"parts", "answers", "raw", "safe", "trail"} \subseteq DOMAIN j
    /\ j.parts \in PartLists
    /\ j.answers \in Nat
    /\ j.parts # <<>> => j.answers + 1 \in DOMAIN Script(Head(j.parts))

JobInv ==
    /\ DOMAIN job = Guards
    /\ \A g \in Guards : \A j \in job[g] : UnderWay(j)

LEMMA ScriptLength ==
    ASSUME NEW part \in Parts
    PROVE  /\ Len(Script(part)) = IF part = "description" THEN 5 ELSE 2
           /\ DOMAIN Script(part) = 1 .. Len(Script(part))
<1> DEFINE first == <<About(part, "rag", "prompt_entry")>>
           asked == [i \in DOMAIN DescriptionEffects |->
                        About(part, "effect", DescriptionEffects[i])]
           write == <<About(part, "memory", "memory_write")>>
<1>1. Len(DescriptionEffects) = 4 /\ DOMAIN DescriptionEffects = 1 .. 4
  BY DEF DescriptionEffects
<1>2. \E S : /\ first \in Seq(S) /\ asked \in Seq(S) /\ write \in Seq(S)
  <2> DEFINE S == {About(part, "rag", "prompt_entry"), About(part, "memory", "memory_write")}
                    \cup {About(part, "effect", DescriptionEffects[i]) :
                            i \in DOMAIN DescriptionEffects}
  <2>1. asked \in [1 .. 4 -> S]
    BY <1>1
  <2>2. asked \in Seq(S)
    BY <2>1
  <2>3. first \in Seq(S) /\ write \in Seq(S)
    OBVIOUS
  <2> QED
    BY <2>2, <2>3
<1>3. Len(first) = 1 /\ Len(asked) = 4 /\ Len(write) = 1
  BY <1>1
<1>4. Script(part) = first \o IF part = "description" THEN asked ELSE write
  BY DEF Script
<1> DEFINE rest == IF part = "description" THEN asked ELSE write
<1> HIDE DEF first, asked, write
<1>5. PICK S : first \in Seq(S) /\ asked \in Seq(S) /\ write \in Seq(S)
  BY <1>2
<1>6. rest \in Seq(S)
  BY <1>5
<1>7. Len(rest) = IF part = "description" THEN 4 ELSE 1
  BY <1>3
<1> HIDE DEF rest
<1>8. /\ first \o rest \in Seq(S)
      /\ Len(first \o rest) = Len(first) + Len(rest)
  BY <1>5, <1>6, ConcatProperties
<1>9. Script(part) = first \o rest
  BY <1>4 DEF rest
<1>10. DOMAIN (first \o rest) = 1 .. Len(first \o rest)
  BY <1>8
<1> QED
  BY <1>3, <1>7, <1>8, <1>9, <1>10

LEMMA ListFacts ==
    ASSUME NEW parts \in PartLists, parts # <<>>
    PROVE  Head(parts) \in Parts /\ Tail(parts) \in PartLists
<1>1. CASE parts = <<"description">>
  <2>1. Tail(parts) = <<>>
    BY <1>1
  <2> QED
    BY <1>1, <2>1 DEF PartLists, Parts
<1>2. CASE parts = <<"result">>
  <2>1. Tail(parts) = <<>>
    BY <1>2
  <2> QED
    BY <1>2, <2>1 DEF PartLists, Parts
<1>3. CASE parts = <<"description", "result">>
  <2>1. Tail(parts) = <<"result">>
    BY <1>3
  <2> QED
    BY <1>3, <2>1 DEF PartLists, Parts
<1> QED
  BY <1>1, <1>2, <1>3 DEF PartLists

\* The call a job has left is one the gate expects.
LEMMA CallLeft ==
    ASSUME NEW j, UnderWay(j), j.parts # <<>>
    PROVE  Script(Head(j.parts))[j.answers + 1] \in Calls
BY ListFacts, AdapterAssumption DEF UnderWay

\* A job that begins has all its parts to guard.
LEMMA BeginsUnderWay ==
    ASSUME NEW kind \in DOMAIN Kinds, NEW raw, NEW safe
    PROVE  UnderWay([raw |-> raw, parts |-> Kinds[kind], answers |-> 0, safe |-> safe,
                     trail |-> <<>>]) /\ Kinds[kind] # <<>>
<1>1. Kinds[kind] \in PartLists /\ Kinds[kind] # <<>>
  BY DEF Kinds, PartLists
<1>2. 1 \in DOMAIN Script(Head(Kinds[kind]))
  BY <1>1, ListFacts, ScriptLength
<1> QED
  BY <1>1, <1>2 DEF UnderWay

\* A job that goes on to its next call, or its next part, is under way.
LEMMA GoesOnUnderWay ==
    ASSUME NEW j, UnderWay(j), j.parts # <<>>, NEW g, NEW d
    PROVE  LET told   == Told(j, g)
               part   == Head(told.parts)
               isLast == Objects(part, told.answers, d) \/ told.answers = Len(Script(part))
           IN  UnderWay(IF isLast THEN Finished(told, d) ELSE told)
<1> DEFINE told == Told(j, g)
           part == Head(told.parts)
           isLast == Objects(part, told.answers, d) \/ told.answers = Len(Script(part))
<1>1. /\ DOMAIN told = DOMAIN j /\ told.parts = j.parts
      /\ told.answers = j.answers + 1 /\ told.answers \in Nat
  BY DEF Told, UnderWay
<1> HIDE DEF told
<1>2. part \in Parts /\ Tail(told.parts) \in PartLists
  BY <1>1, ListFacts DEF UnderWay
<1>3. told.answers \in 1 .. Len(Script(part)) /\ Len(Script(part)) \in Nat
  BY <1>1, <1>2, ScriptLength DEF UnderWay
<1>4. CASE ~isLast
  <2>1. told.answers + 1 \in DOMAIN Script(part)
    BY <1>2, <1>3, <1>4, ScriptLength
  <2>2. UnderWay(told)
    BY <1>1, <2>1 DEF UnderWay
  <2> QED
    BY <1>4, <2>2 DEF told
<1>5. CASE isLast
  <2> DEFINE done == Finished(told, d)
  <2>1. /\ DOMAIN done = DOMAIN j /\ done.parts = Tail(told.parts) /\ done.answers = 0
    BY <1>1 DEF Finished, UnderWay
  <2> HIDE DEF done
  <2>2. done.parts # <<>> => 1 \in DOMAIN Script(Head(done.parts))
    <3> SUFFICES ASSUME done.parts # <<>>
                 PROVE  1 \in DOMAIN Script(Head(done.parts))
      OBVIOUS
    <3>1. Head(done.parts) \in Parts
      BY <1>2, <2>1, ListFacts
    <3> QED
      BY <3>1, ScriptLength
  <2>3. UnderWay(done)
    BY <1>2, <2>1, <2>2 DEF UnderWay
  <2> QED
    BY <1>5, <2>3 DEF told, done
<1> QED
  BY <1>4, <1>5 DEF told

\* The first call of a job, as GuardBegins writes it.
LEMMA FirstCall ==
    ASSUME NEW kind \in DOMAIN Kinds
    PROVE  Script(Kinds[kind][1])[1] \in Calls
<1>1. Kinds[kind][1] \in Parts
  BY DEF Kinds, Parts
<1>2. 1 \in DOMAIN Script(Kinds[kind][1])
  BY <1>1, ScriptLength
<1> QED
  BY <1>1, <1>2, AdapterAssumption

LEMMA JobInit == AdapterInit => JobInv
BY DEF AdapterInit, JobInv

LEMMA JobStep == JobInv /\ [AdapterNext]_adapterVars => JobInv'
<1> SUFFICES ASSUME JobInv, [AdapterNext]_adapterVars
             PROVE  JobInv'
  OBVIOUS
<1>1. CASE UNCHANGED adapterVars \/ GateStep
  BY <1>1 DEF adapterVars, GateStep, JobInv
<1>2. ASSUME NEW g \in Guards, NEW kind \in DOMAIN Kinds, NEW raw \in [Parts -> Texts],
             GuardBegins(g, kind, raw)
      PROVE  JobInv'
  <2> DEFINE j == [raw |-> raw, parts |-> Kinds[kind], answers |-> 0,
                   safe |-> [p \in Parts |-> {}], trail |-> <<>>]
  <2>1. job' = [job EXCEPT ![g] = {j}]
    BY <1>2 DEF GuardBegins
  <2>2. UnderWay(j)
    BY BeginsUnderWay
  <2> HIDE DEF j
  <2> QED
    BY <2>1, <2>2 DEF JobInv
<1>3. ASSUME NEW g \in Guards, GuardGoesOn(g)
      PROVE  JobInv'
  <2>1. PICK j \in job[g], d \in decision[g] :
            /\ j.parts # <<>>
            /\ LET told   == Told(j, g)
                   part   == Head(told.parts)
                   isLast == Objects(part, told.answers, d)
                                \/ told.answers = Len(Script(part))
                   then   == IF isLast THEN Finished(told, d) ELSE told
               IN  job' = [job EXCEPT ![g] = {then}]
    BY <1>3 DEF GuardGoesOn
  <2> DEFINE told   == Told(j, g)
             part   == Head(told.parts)
             isLast == Objects(part, told.answers, d)
                          \/ told.answers = Len(Script(part))
             then   == IF isLast THEN Finished(told, d) ELSE told
  <2>2. UnderWay(then)
    <3>1. UnderWay(j)
      BY DEF JobInv
    <3> QED
      BY <3>1, <2>1, GoesOnUnderWay
  <2>3. job' = [job EXCEPT ![g] = {then}]
    BY <2>1
  <2> HIDE DEF then
  <2> QED
    BY <2>2, <2>3 DEF JobInv
<1> QED
  BY <1>1, <1>2, <1>3 DEF AdapterNext

\* A step of the adapter is one the gate allows, or none of its steps.
LEMMA GateSeesItsOwnSteps ==
    JobInv /\ JobInv' /\ [AdapterNext]_adapterVars => [Next]_vars
<1> SUFFICES ASSUME JobInv, JobInv', [AdapterNext]_adapterVars
             PROVE  [Next]_vars
  OBVIOUS
<1>1. CASE UNCHANGED adapterVars
  BY <1>1 DEF adapterVars
<1>2. CASE GateStep
  BY <1>2 DEF GateStep, Next
<1>3. ASSUME NEW g \in Guards, NEW kind \in DOMAIN Kinds, NEW raw \in [Parts -> Texts],
             GuardBegins(g, kind, raw)
      PROVE  Next
  <2>1. Begin(g, Script(Kinds[kind][1])[1])
    BY <1>3 DEF GuardBegins
  <2> QED
    BY <2>1, FirstCall, AdapterAssumption DEF Next
<1>4. ASSUME NEW g \in Guards, GuardGoesOn(g)
      PROVE  [Next]_vars
  <2>1. PICK then :
            /\ job' = [job EXCEPT ![g] = {then}]
            /\ IF then.parts = <<>> THEN UNCHANGED vars
               ELSE Begin(g, Script(Head(then.parts))[then.answers + 1])
    BY <1>4 DEF GuardGoesOn
  <2>2. CASE then.parts = <<>>
    BY <2>1, <2>2
  <2>3. CASE then.parts # <<>>
    <3>1. UnderWay(then)
      BY <2>1 DEF JobInv
    <3>2. Script(Head(then.parts))[then.answers + 1] \in Calls
      BY <3>1, <2>3, CallLeft
    <3> QED
      BY <2>1, <2>3, <3>2, AdapterAssumption DEF Next
  <2> QED
    BY <2>2, <2>3
<1> QED
  BY <1>1, <1>2, <1>3, <1>4 DEF AdapterNext

\* A gate used by guards of tool servers, and by others at the same time, behaves as
\* the gate alone may behave.
THEOREM AdapterUsesGate == AdapterSpec => Spec
<1>1. AdapterInit => Init
  BY DEF AdapterInit
<1>2. AdapterInit => JobInv
  BY JobInit
<1>3. JobInv /\ [AdapterNext]_adapterVars => JobInv'
  BY JobStep
<1>4. JobInv /\ JobInv' /\ [AdapterNext]_adapterVars => [Next]_vars
  BY GateSeesItsOwnSteps
<1> QED
  BY <1>1, <1>2, <1>3, <1>4, PTL DEF AdapterSpec, Spec

\* The calls of the guards, and those made between them, are answered as the tables say.
THEOREM GuardedCallsMediated == AdapterSpec => Mediated
BY AdapterUsesGate, GateMediates, PTL

\* No guard of a tool server obtains what its segments may not do.
THEOREM GuardedGrantsEarned == AdapterSpec => []GrantsEarned
BY AdapterUsesGate, GrantsAreEarned, PTL
-------------------------------------------------------------------------------
(***************************************************************************)
(* The report.  A call of a guard leaves one receipt, about the part it    *)
(* guards; the receipts of its two parts have different authorities, so    *)
(* what is on record of one part is not disturbed by the other.            *)
(***************************************************************************)
JobRecord ==
    [raw : [Parts -> Texts], parts : PartLists, answers : Nat,
     safe : [Parts -> SUBSET (Texts \cup {BLOCKED_DESC, BLOCKED_RESULT})],
     trail : Seq(Receipts)]

\* The text returned for a part tells what the gate decided about it.
Truthful(j, part) ==
    \A text \in j.safe[part] :
        text # Sentinel[part] <=>
            /\ Obtained(j, part, "prompt_entry")
            /\ ~(part = "result" /\ Obtained(j, part, "memory_write"))
            /\ j.raw[part] # Sentinel[part]

\* Nothing is known yet of a part that is still to be guarded, and of the part in
\* progress that nothing has spoken against it.
Progress(j) ==
    /\ \A part \in Parts :
        (part = Head(j.parts) /\ j.answers = 0) \/ (part # Head(j.parts) /\ Tail(j.parts) # <<>>)
            => OnRecord(j, part) = {}
    /\ \A part \in Parts :
        part = Head(j.parts) \/ Tail(j.parts) # <<>> => j.safe[part] = {}
    /\ j.answers > 0 =>
        /\ Obtained(j, Head(j.parts), "prompt_entry")
        /\ Head(j.parts) = "result" => ~Obtained(j, "result", "memory_write")

\* The call the guard is waiting for is the next one of the script.
OnScript(g, j) ==
    j.parts # <<>> => pc[g] # "idle" /\ call[g] = {Script(Head(j.parts))[j.answers + 1]}

Reported(g, j) ==
    /\ j \in JobRecord
    /\ \A part \in Parts : Truthful(j, part)
    /\ j.parts # <<>> => Progress(j)
    /\ OnScript(g, j)

ReportInv == \A g \in Guards : \A j \in job[g] : Reported(g, j)

LEMMA AboutFacts ==
    ASSUME NEW part \in Parts, NEW op \in {"rag", "effect", "memory"}, NEW effect
    PROVE  /\ About(part, op, effect).op = op
           /\ ~Overrides(About(part, op, effect))
           /\ About(part, op, effect).sources[1].authority = Authority(part)
           /\ op = "rag" => Effect(About(part, op, effect)) = "prompt_entry"
           /\ op = "memory" => Effect(About(part, op, effect)) = "memory_write"
BY DEF About, Overrides, Effect

\* The calls of a script, in their order.
LEMMA ScriptCalls ==
    ASSUME NEW part \in Parts, NEW i \in DOMAIN Script(part)
    PROVE  \E op \in {"rag", "effect", "memory"}, effect \in Effects :
            /\ Script(part)[i] = About(part, op, effect)
            /\ i = 1 => op = "rag"
            /\ part = "result" /\ i = 2 => op = "memory"
<1> DEFINE S == {About(part, op, effect) : op \in {"rag", "effect", "memory"}, effect \in Effects}
           first == <<About(part, "rag", "prompt_entry")>>
           asked == [k \in DOMAIN DescriptionEffects |->
                        About(part, "effect", DescriptionEffects[k])]
           write == <<About(part, "memory", "memory_write")>>
           rest  == IF part = "description" THEN asked ELSE write
<1>1. /\ Len(DescriptionEffects) = 4 /\ DOMAIN DescriptionEffects = 1 .. 4
      /\ \A k \in 1 .. 4 : DescriptionEffects[k] \in Effects
  BY DEF DescriptionEffects, Effects
<1>2. /\ About(part, "rag", "prompt_entry") \in S /\ About(part, "memory", "memory_write") \in S
      /\ asked \in [1 .. 4 -> S]
  BY <1>1 DEF Effects
<1>3. first \in Seq(S) /\ asked \in Seq(S) /\ write \in Seq(S)
  <2> HIDE DEF S
  <2> QED
    BY <1>2
<1>4. Len(first) = 1 /\ Len(asked) = 4 /\ Len(write) = 1
  BY <1>1
<1>5. Script(part) = first \o rest
  BY DEF Script
<1>6. /\ rest \in Seq(S) /\ Len(rest) \in Nat
      /\ i \in 1 .. Len(first \o rest)
      /\ Script(part)[i] = IF i = 1 THEN first[1] ELSE rest[i - 1]
      /\ i # 1 => i - 1 \in 1 .. Len(rest)
  <2> HIDE DEF S, first, asked, write
  <2>1. rest \in Seq(S)
    BY <1>3
  <2> HIDE DEF rest
  <2>2. /\ first \o rest \in Seq(S)
        /\ Len(first \o rest) = Len(first) + Len(rest)
        /\ \A k \in 1 .. Len(first) + Len(rest) :
              (first \o rest)[k] = IF k <= Len(first) THEN first[k] ELSE rest[k - Len(first)]
    BY <1>3, <2>1, ConcatProperties
  <2>3. i \in 1 .. Len(first \o rest) /\ Len(rest) \in Nat
    BY <1>5, <2>1, <2>2
  <2> QED
    BY <1>4, <1>5, <2>1, <2>2, <2>3
<1>7. CASE i = 1
  <2>1. Script(part)[i] = About(part, "rag", "prompt_entry")
    BY <1>6, <1>7
  <2> QED
    BY <1>7, <2>1 DEF Effects
<1>8. CASE i # 1 /\ part = "description"
  <2>1. rest = asked /\ i - 1 \in 1 .. 4
    BY <1>4, <1>6, <1>8
  <2>2. Script(part)[i] = About(part, "effect", DescriptionEffects[i - 1])
    BY <1>1, <1>6, <1>8, <2>1
  <2> QED
    BY <1>1, <1>8, <2>1, <2>2
<1>9. CASE i # 1 /\ part = "result"
  <2>1. rest = write /\ i - 1 = 1
    BY <1>4, <1>6, <1>9
  <2>2. Script(part)[i] = About(part, "memory", "memory_write")
    BY <1>6, <1>9, <2>1
  <2> QED
    BY <1>9, <2>2 DEF Effects
<1> QED
  BY <1>7, <1>8, <1>9 DEF Parts

\* The gate has answered a call of a script: one receipt tells how.
LEMMA AnswerToScript ==
    ASSUME TypeOK, SingleInv, NEW g \in Callers, NEW part \in Parts,
           NEW i \in DOMAIN Script(part), call[g] = {Script(part)[i]},
           pc[g] = "done", NEW d \in decision[g]
    PROVE  \E r \in Receipts :
            /\ emitted[g] = <<r>>
            /\ r.authority = Authority(part)
            /\ r.decision = "allowed" <=> d.allowed
            /\ i = 1 => r.effect = "prompt_entry"
            /\ part = "result" /\ i = 2 => r.effect = "memory_write"
<1>1. PICK op \in {"rag", "effect", "memory"}, effect \in Effects :
            /\ Script(part)[i] = About(part, op, effect)
            /\ i = 1 => op = "rag"
            /\ part = "result" /\ i = 2 => op = "memory"
  BY ScriptCalls
<1>2. PICK request : request = About(part, op, effect) /\ request \in call[g]
  BY <1>1
<1>3. /\ request.op # "tool" /\ ~Overrides(request)
      /\ request.sources[1].authority = Authority(part)
      /\ op = "rag" => Effect(request) = "prompt_entry"
      /\ op = "memory" => Effect(request) = "memory_write"
  BY <1>2, AboutFacts
<1>4. Answered(g, request)
  BY <1>2, <1>3 DEF SingleInv
<1>5. \E outcome \in {"allowed", "blocked"} :
        OneReceipt(g, request, outcome) /\ (outcome = "allowed" <=> d.allowed)
  BY <1>4, AnswerFields DEF Answered
<1> QED
  BY <1>1, <1>3, <1>5 DEF OneReceipt

\* What the answer adds to the record of a job.
LEMMA ToldFacts ==
    ASSUME NEW j \in JobRecord, NEW g, NEW r \in Receipts, emitted[g] = <<r>>
    PROVE  /\ Told(j, g) \in JobRecord
           /\ Told(j, g).raw = j.raw /\ Told(j, g).parts = j.parts
           /\ Told(j, g).safe = j.safe /\ Told(j, g).answers = j.answers + 1
           /\ \A part \in Parts :
                OnRecord(Told(j, g), part) =
                    OnRecord(j, part) \cup {s \in {r} : s.authority = Authority(part)}
<1> DEFINE told == Told(j, g)
<1>1. /\ told \in JobRecord
      /\ told.raw = j.raw /\ told.parts = j.parts /\ told.safe = j.safe
      /\ told.answers = j.answers + 1 /\ told.trail = j.trail \o <<r>>
  <2>1. j.trail \o <<r>> \in Seq(Receipts) /\ j.answers + 1 \in Nat
    BY DEF JobRecord
  <2> QED
    BY <2>1 DEF Told, JobRecord
<1>2. j.trail \in Seq(Receipts)
  BY DEF JobRecord
<1> HIDE DEF told
<1>3. /\ Len(j.trail) \in Nat /\ DOMAIN j.trail = 1 .. Len(j.trail)
      /\ DOMAIN told.trail = 1 .. Len(j.trail) + 1
      /\ \A i \in 1 .. Len(j.trail) : told.trail[i] = j.trail[i]
      /\ told.trail[Len(j.trail) + 1] = r
  BY <1>1, <1>2
<1>4. ASSUME NEW part \in Parts
      PROVE  OnRecord(told, part) =
                OnRecord(j, part) \cup {s \in {r} : s.authority = Authority(part)}
  BY <1>3 DEF OnRecord
<1> QED
  BY <1>1, <1>4 DEF told

\* What the end of a part changes in its job.
LEMMA FinishedFacts ==
    ASSUME NEW j \in JobRecord, j.parts # <<>>, NEW d
    PROVE  LET part == Head(j.parts)
               text == IF Objects(part, j.answers, d) THEN Sentinel[part] ELSE j.raw[part]
           IN  /\ Finished(j, d) \in JobRecord
               /\ Finished(j, d).raw = j.raw /\ Finished(j, d).trail = j.trail
               /\ Finished(j, d).parts = Tail(j.parts) /\ Finished(j, d).answers = 0
               /\ Finished(j, d).safe[part] = {text}
               /\ \A other \in Parts \ {part} : Finished(j, d).safe[other] = j.safe[other]
<1> DEFINE part == Head(j.parts)
           text == IF Objects(part, j.answers, d) THEN Sentinel[part] ELSE j.raw[part]
<1>1. part \in Parts /\ Tail(j.parts) \in PartLists
  BY ListFacts DEF JobRecord
<1>2. text \in Texts \cup {BLOCKED_DESC, BLOCKED_RESULT}
  BY <1>1 DEF Sentinel, Parts, JobRecord
<1> DEFINE safe == [j.safe EXCEPT ![part] = {text}]
           done == [raw |-> j.raw, parts |-> Tail(j.parts), answers |-> 0,
                    safe |-> safe, trail |-> j.trail]
<1>3. Finished(j, d) = done
  <2>1. j = [raw |-> j.raw, parts |-> j.parts, answers |-> j.answers, safe |-> j.safe,
             trail |-> j.trail]
    BY DEF JobRecord
  <2>2. Finished(j, d) = [[[j EXCEPT !.safe = safe] EXCEPT !.parts = Tail(j.parts)]
                            EXCEPT !.answers = 0]
    BY <2>1 DEF Finished
  <2> HIDE DEF safe, part, text
  <2> QED
    BY <2>1, <2>2
<1> HIDE DEF part, text
<1>4. /\ safe \in [Parts -> SUBSET (Texts \cup {BLOCKED_DESC, BLOCKED_RESULT})]
      /\ safe[part] = {text}
      /\ \A other \in Parts \ {part} : safe[other] = j.safe[other]
  BY <1>1, <1>2 DEF JobRecord
<1> HIDE DEF safe
<1>5. done \in JobRecord
  BY <1>1, <1>4 DEF JobRecord
<1> QED
  BY <1>3, <1>4, <1>5 DEF part, text

LEMMA TwoParts ==
    ASSUME NEW parts \in PartLists, parts # <<>>, Tail(parts) # <<>>
    PROVE  /\ Head(parts) = "description" /\ Head(Tail(parts)) = "result"
           /\ Tail(Tail(parts)) = <<>>
<1>1. parts # <<"description">> /\ parts # <<"result">>
  <2>1. Tail(<<"description">>) = <<>> /\ Tail(<<"result">>) = <<>>
    OBVIOUS
  <2> QED
    BY <2>1
<1>2. CASE parts = <<"description", "result">>
  <2>1. Tail(parts) = <<"result">>
    BY <1>2
  <2>2. Head(<<"result">>) = "result" /\ Tail(<<"result">>) = <<>>
    OBVIOUS
  <2>3. Head(parts) = "description"
    BY <1>2
  <2> QED
    BY <2>1, <2>2, <2>3
<1> QED
  BY <1>1, <1>2 DEF PartLists

\* The last call about a result is the second one, and no part has only one.
LEMMA LastCall ==
    ASSUME NEW j, UnderWay(j), j.parts # <<>>
    PROVE  LET part == Head(j.parts) IN
           /\ part \in Parts /\ j.answers \in Nat
           /\ part = "result" =>
                j.answers \in {0, 1} /\ (j.answers = 1 <=> j.answers + 1 = Len(Script(part)))
           /\ j.answers = 0 => j.answers + 1 # Len(Script(part))
<1>1. PICK part : part = Head(j.parts)
  OBVIOUS
<1>2. part \in Parts /\ j.answers \in Nat
  BY <1>1, ListFacts DEF UnderWay
<1>3. PICK n : n = Len(Script(part))
  OBVIOUS
<1>4. n = (IF part = "description" THEN 5 ELSE 2) /\ j.answers + 1 \in 1 .. n
  BY <1>1, <1>2, <1>3, ScriptLength DEF UnderWay
<1>5. /\ part = "result" => j.answers \in {0, 1} /\ (j.answers = 1 <=> j.answers + 1 = n)
      /\ j.answers = 0 => j.answers + 1 # n
  BY <1>2, <1>4
<1> QED
  BY <1>1, <1>2, <1>3, <1>5

\* An answer that does not end its part keeps the report true.
LEMMA ToldReport ==
    ASSUME NEW j \in JobRecord, UnderWay(j), j.parts # <<>>, Progress(j),
           \A part \in Parts : Truthful(j, part),
           NEW g, NEW r \in Receipts, emitted[g] = <<r>>, NEW d,
           r.authority = Authority(Head(j.parts)),
           r.decision = "allowed" <=> d.allowed,
           j.answers = 0 => r.effect = "prompt_entry",
           ~Objects(Head(j.parts), j.answers + 1, d),
           j.answers + 1 # Len(Script(Head(j.parts)))
    PROVE  /\ \A part \in Parts : Truthful(Told(j, g), part)
           /\ Progress(Told(j, g))
<1> DEFINE told == Told(j, g)
           part == Head(j.parts)
<1>1. /\ told \in JobRecord /\ told.raw = j.raw /\ told.parts = j.parts
      /\ told.safe = j.safe /\ told.answers = j.answers + 1
      /\ \A p \in Parts : OnRecord(told, p) =
                OnRecord(j, p) \cup {s \in {r} : s.authority = Authority(p)}
  BY ToldFacts
<1>2. /\ part \in Parts /\ j.answers \in Nat
      /\ part = "result" =>
            j.answers \in {0, 1} /\ (j.answers = 1 <=> j.answers + 1 = Len(Script(part)))
      /\ j.answers = 0 => j.answers + 1 # Len(Script(part))
  BY LastCall
<1> HIDE DEF told
<1>3. OnRecord(told, part) = OnRecord(j, part) \cup {r}
  BY <1>1, <1>2
<1>4. \A p \in Parts \ {part} : OnRecord(told, p) = OnRecord(j, p)
  BY <1>1, <1>2 DEF Authority, Parts
<1>5. \A p \in Parts : Truthful(told, p)
  <2>1. j.safe[part] = {}
    BY <1>2 DEF Progress
  <2> QED
    BY <1>1, <1>4, <2>1 DEF Truthful, Obtained
<1>6. Obtained(told, part, "prompt_entry")
  <2>1. CASE j.answers = 0
    BY <1>3, <2>1 DEF Objects, Obtained
  <2>2. CASE j.answers > 0
    BY <1>3, <2>2 DEF Progress, Obtained
  <2> QED
    BY <1>2, <2>1, <2>2
<1>7. part = "result" => ~Obtained(told, "result", "memory_write")
  <2> SUFFICES ASSUME part = "result"
               PROVE  ~Obtained(told, "result", "memory_write")
    OBVIOUS
  <2>1. j.answers = 0
    BY <1>2
  <2>2. OnRecord(told, part) = {r}
    BY <1>2, <1>3, <2>1 DEF Progress
  <2> QED
    BY <2>1, <2>2 DEF Obtained
<1>8. Progress(told)
  <2>1. told.answers > 0 /\ told.answers # 0
    BY <1>1, <1>2
  <2>2. \A p \in Parts : p # part /\ Tail(j.parts) # <<>> => OnRecord(told, p) = {}
    BY <1>4 DEF Progress
  <2>3. \A p \in Parts : p = part \/ Tail(j.parts) # <<>> => told.safe[p] = {}
    BY <1>1 DEF Progress
  <2> QED
    BY <1>1, <1>6, <1>7, <2>1, <2>2, <2>3 DEF Progress
<1> QED
  BY <1>5, <1>8 DEF told

\* The answer that ends a part is reported as the gate gave it.
LEMMA FinishedReport ==
    ASSUME NEW j \in JobRecord, UnderWay(j), j.parts # <<>>, Progress(j),
           \A part \in Parts : Truthful(j, part),
           NEW g, NEW r \in Receipts, emitted[g] = <<r>>, NEW d,
           r.authority = Authority(Head(j.parts)),
           r.decision = "allowed" <=> d.allowed,
           j.answers = 0 => r.effect = "prompt_entry",
           Head(j.parts) = "result" /\ j.answers = 1 => r.effect = "memory_write",
           \/ Objects(Head(j.parts), j.answers + 1, d)
           \/ j.answers + 1 = Len(Script(Head(j.parts)))
    PROVE  LET then == Finished(Told(j, g), d) IN
           /\ then \in JobRecord
           /\ \A part \in Parts : Truthful(then, part)
           /\ then.parts # <<>> => Progress(then)
<1> DEFINE told == Told(j, g)
           part == Head(j.parts)
           then == Finished(told, d)
           withheld == Objects(part, j.answers + 1, d)
           text == IF withheld THEN Sentinel[part] ELSE j.raw[part]
<1>1. /\ told \in JobRecord /\ told.raw = j.raw /\ told.parts = j.parts
      /\ told.safe = j.safe /\ told.answers = j.answers + 1
      /\ \A p \in Parts : OnRecord(told, p) =
                OnRecord(j, p) \cup {s \in {r} : s.authority = Authority(p)}
  BY ToldFacts
<1>2. /\ part \in Parts /\ j.answers \in Nat
      /\ part = "result" =>
            j.answers \in {0, 1} /\ (j.answers = 1 <=> j.answers + 1 = Len(Script(part)))
      /\ j.answers = 0 => j.answers + 1 # Len(Script(part))
  BY LastCall
<1> HIDE DEF told
<1>3. /\ then \in JobRecord /\ then.raw = j.raw /\ then.trail = told.trail
      /\ then.parts = Tail(j.parts) /\ then.answers = 0
      /\ then.safe[part] = {text}
      /\ \A p \in Parts \ {part} : then.safe[p] = j.safe[p]
  <2>1. told.parts # <<>> /\ Head(told.parts) = part
    BY <1>1
  <2>2. Objects(Head(told.parts), told.answers, d) <=> withheld
    BY <1>1
  <2>3. Finished(told, d).safe[part] = {text}
    <3> DEFINE first == Head(told.parts)
               shown == IF Objects(first, told.answers, d) THEN Sentinel[first]
                                                           ELSE told.raw[first]
    <3>1. Finished(told, d).safe[first] = {shown}
      BY <1>1, <2>1, FinishedFacts
    <3>2. shown = text
      BY <1>1, <2>1, <2>2
    <3>3. first = part
      BY <2>1
    <3> HIDE DEF first, shown, text, part
    <3> QED
      BY <3>1, <3>2, <3>3
  <2> QED
    BY <1>1, <2>1, <2>3, FinishedFacts
<1> HIDE DEF then
<1>4. \A p \in Parts : OnRecord(then, p) = OnRecord(told, p)
  BY <1>3 DEF OnRecord
<1>5. OnRecord(then, part) = OnRecord(j, part) \cup {r}
  BY <1>1, <1>2, <1>4
<1>6. \A p \in Parts \ {part} : OnRecord(then, p) = OnRecord(j, p)
  BY <1>1, <1>2, <1>4 DEF Authority, Parts
<1>7. ASSUME NEW p \in Parts \ {part} PROVE Truthful(then, p)
  BY <1>3, <1>6 DEF Truthful, Obtained
<1>8. Truthful(then, part)
  <2> DEFINE may == /\ Obtained(then, part, "prompt_entry")
                    /\ ~(part = "result" /\ Obtained(then, part, "memory_write"))
  <2>1. CASE j.answers = 0 /\ ~d.allowed
    <3>1. OnRecord(then, part) = {r}
      BY <1>2, <1>5, <2>1 DEF Progress
    <3>2. withheld /\ ~may
      BY <2>1, <3>1 DEF Objects, Obtained
    <3> QED
      BY <1>3, <3>2 DEF Truthful
  <2>2. CASE j.answers # 0 /\ part = "result" /\ d.allowed
    <3>1. j.answers = 1
      BY <1>2, <2>2
    <3>2. Obtained(then, part, "memory_write")
      BY <1>5, <2>2, <3>1 DEF Obtained
    <3>3. withheld
      BY <2>2, <3>1 DEF Objects
    <3> QED
      BY <1>3, <2>2, <3>2, <3>3 DEF Truthful
  <2>3. CASE ~withheld
    <3>1. j.answers # 0
      BY <1>2, <2>3
    <3>2. /\ Obtained(j, part, "prompt_entry")
          /\ part = "result" => ~Obtained(j, part, "memory_write")
      BY <1>2, <3>1 DEF Progress
    <3>3. part = "result" => j.answers = 1 /\ ~d.allowed
      BY <1>2, <2>3, <3>1 DEF Objects
    <3>4. may
      BY <1>5, <3>2, <3>3 DEF Obtained
    <3> QED
      BY <1>3, <2>3, <3>4 DEF Truthful
  <2> QED
    BY <1>2, <2>1, <2>2, <2>3 DEF Objects
<1>9. then.parts # <<>> => Progress(then)
  <2> SUFFICES ASSUME Tail(j.parts) # <<>>
               PROVE  Progress(then)
    BY <1>3
  <2>1. /\ part = "description" /\ Head(then.parts) = "result" /\ Tail(then.parts) = <<>>
    BY <1>3, TwoParts DEF UnderWay
  <2>2. OnRecord(then, "result") = {} /\ then.safe["result"] = {}
    BY <1>3, <1>6, <2>1 DEF Progress, Parts
  <2> QED
    BY <1>3, <2>1, <2>2 DEF Progress
<1> QED
  BY <1>3, <1>7, <1>8, <1>9 DEF then, told

\* What the gate does for others leaves a guard waiting for the same call.
LEMMA CallsOfOthers ==
    ASSUME TypeOK, NEW g \in Guards, pc[g] # "idle",
           \/ \E c \in Callers : Step(c)
           \/ \E c \in Callers \ {g} : \E request : Begin(c, request)
           \/ clear_receipts
           \/ UNCHANGED vars
    PROVE  pc'[g] # "idle" /\ call'[g] = call[g]
<1>1. g \in Callers /\ g \in DOMAIN pc /\ g \in DOMAIN call
  BY AdapterAssumption DEF TypeOK
<1>2. CASE clear_receipts \/ UNCHANGED vars
  BY <1>2 DEF clear_receipts, vars
<1>3. ASSUME NEW c \in Callers \ {g}, NEW request, Begin(c, request)
      PROVE  pc'[g] # "idle" /\ call'[g] = call[g]
  BY <1>1, <1>3 DEF Begin, Goto
<1>4. ASSUME NEW c \in Callers, Step(c)
      PROVE  pc'[g] # "idle" /\ call'[g] = call[g]
  BY <1>1, <1>4
     DEF Step, Enforce, Override, ResolvedSource, UnresolvedSource, Sink, Return, Goto
<1> QED
  BY <1>2, <1>3, <1>4

LEMMA StillReported ==
    ASSUME NEW g, NEW j, Reported(g, j), pc[g] # "idle" => pc'[g] # "idle" /\ call'[g] = call[g]
    PROVE  Reported(g, j)'
<1>1. OnScript(g, j)'
  BY DEF Reported, OnScript
<1> QED
  BY <1>1 DEF Reported

\* A guard that asks waits for what it asked.
LEMMA AsksScript ==
    ASSUME TypeOK, NEW g \in Guards, NEW j, j.parts # <<>>,
           Begin(g, Script(Head(j.parts))[j.answers + 1])
    PROVE  OnScript(g, j)'
<1>1. g \in DOMAIN pc /\ g \in DOMAIN call
  BY AdapterAssumption DEF TypeOK
<1>2. pc'[g] # "idle" /\ call'[g] = {Script(Head(j.parts))[j.answers + 1]}
  BY <1>1 DEF Begin, Goto
<1> QED
  BY <1>2 DEF OnScript

LEMMA BeginsReported ==
    ASSUME TypeOK, NEW g \in Guards, NEW kind \in DOMAIN Kinds, NEW raw \in [Parts -> Texts],
           GuardBegins(g, kind, raw)
    PROVE  \A j \in {[raw |-> raw, parts |-> Kinds[kind], answers |-> 0,
                      safe |-> [p \in Parts |-> {}], trail |-> <<>>]} : Reported(g, j)'
<1> DEFINE j == [raw |-> raw, parts |-> Kinds[kind], answers |-> 0,
                 safe |-> [p \in Parts |-> {}], trail |-> <<>>]
<1>1. Kinds[kind] \in PartLists /\ Kinds[kind] # <<>> /\ Kinds[kind][1] = Head(Kinds[kind])
  BY DEF Kinds, PartLists
<1>2. j \in JobRecord
  BY <1>1 DEF JobRecord
<1>3. \A part \in Parts : OnRecord(j, part) = {} /\ j.safe[part] = {}
  BY DEF OnRecord
<1>4. j.answers = 0 /\ j.parts = Kinds[kind] /\ 0 + 1 = 1
  OBVIOUS
<1>5. Begin(g, Script(Kinds[kind][1])[1])
  BY DEF GuardBegins
<1> HIDE DEF j
<1>6. (\A part \in Parts : Truthful(j, part)) /\ Progress(j)
  BY <1>3, <1>4 DEF Truthful, Progress
<1>7. OnScript(g, j)'
  BY <1>1, <1>4, <1>5, AsksScript
<1>8. Reported(g, j)'
  BY <1>2, <1>6, <1>7 DEF Reported
<1> QED
  BY <1>8 DEF j

LEMMA GoesOnReported ==
    ASSUME TypeOK, SingleInv, NEW g \in Guards, pc[g] = "done",
           NEW j \in job[g], NEW d \in decision[g], UnderWay(j), Reported(g, j), j.parts # <<>>
    PROVE  LET told   == Told(j, g)
               part   == Head(told.parts)
               isLast == Objects(part, told.answers, d) \/ told.answers = Len(Script(part))
               then   == IF isLast THEN Finished(told, d) ELSE told
           IN  /\ then \in JobRecord
               /\ \A p \in Parts : Truthful(then, p)
               /\ then.parts # <<>> => Progress(then)
<1> DEFINE told   == Told(j, g)
           isLast == \/ Objects(Head(told.parts), told.answers, d)
                     \/ told.answers = Len(Script(Head(told.parts)))
<1>1. /\ j \in JobRecord /\ Progress(j) /\ \A p \in Parts : Truthful(j, p)
      /\ call[g] = {Script(Head(j.parts))[j.answers + 1]}
  BY DEF Reported, OnScript
<1>2. /\ Head(j.parts) \in Parts /\ j.answers + 1 \in DOMAIN Script(Head(j.parts))
      /\ j.answers \in Nat
  BY ListFacts DEF UnderWay
<1>3. PICK r \in Receipts :
            /\ emitted[g] = <<r>>
            /\ r.authority = Authority(Head(j.parts))
            /\ r.decision = "allowed" <=> d.allowed
            /\ j.answers + 1 = 1 => r.effect = "prompt_entry"
            /\ Head(j.parts) = "result" /\ j.answers + 1 = 2 => r.effect = "memory_write"
  BY <1>1, <1>2, AnswerToScript, AdapterAssumption
<1>4. /\ j.answers = 0 => r.effect = "prompt_entry"
      /\ Head(j.parts) = "result" /\ j.answers = 1 => r.effect = "memory_write"
  BY <1>3
<1>5. told \in JobRecord /\ told.parts = j.parts /\ told.answers = j.answers + 1
  BY <1>1, <1>3, ToldFacts
<1>6. CASE isLast
  <2>1. \/ Objects(Head(j.parts), j.answers + 1, d)
        \/ j.answers + 1 = Len(Script(Head(j.parts)))
    BY <1>5, <1>6
  <2>2. /\ Finished(told, d) \in JobRecord
        /\ \A p \in Parts : Truthful(Finished(told, d), p)
        /\ Finished(told, d).parts # <<>> => Progress(Finished(told, d))
    BY <1>1, <1>3, <1>4, <2>1, FinishedReport
  <2> QED
    BY <1>6, <2>2
<1>7. CASE ~isLast
  <2>1. /\ ~Objects(Head(j.parts), j.answers + 1, d)
        /\ j.answers + 1 # Len(Script(Head(j.parts)))
    BY <1>5, <1>7
  <2>2. (\A p \in Parts : Truthful(told, p)) /\ Progress(told)
    BY <1>1, <1>3, <1>4, <2>1, ToldReport
  <2> QED
    BY <1>5, <1>7, <2>2
<1> QED
  BY <1>6, <1>7

LEMMA ReportStep ==
    TypeOK /\ SingleInv /\ JobInv /\ ReportInv /\ [AdapterNext]_adapterVars => ReportInv'
<1> SUFFICES ASSUME TypeOK, SingleInv, JobInv, ReportInv, [AdapterNext]_adapterVars
             PROVE  ReportInv'
  OBVIOUS
<1>1. CASE UNCHANGED adapterVars \/ GateStep
  <2> SUFFICES ASSUME NEW g \in Guards, NEW j \in job'[g]
               PROVE  Reported(g, j)'
    BY DEF ReportInv
  <2>1. job' = job
    BY <1>1 DEF adapterVars, GateStep
  <2>2. Reported(g, j)
    BY <2>1 DEF ReportInv
  <2>3. pc[g] # "idle" => pc'[g] # "idle" /\ call'[g] = call[g]
    BY <1>1, CallsOfOthers DEF adapterVars, GateStep
  <2> QED
    BY <2>2, <2>3, StillReported
<1>2. ASSUME NEW g \in Guards, NEW jobs, job' = [job EXCEPT ![g] = jobs],
             \A j \in jobs : Reported(g, j)',
             UNCHANGED vars \/ \E request : Begin(g, request)
      PROVE  ReportInv'
  <2> SUFFICES ASSUME NEW h \in Guards, NEW j \in job'[h]
               PROVE  Reported(h, j)'
    BY DEF ReportInv
  <2>1. CASE h = g
    BY <1>2, <2>1 DEF JobInv
  <2>2. CASE h # g
    <3>1. Reported(h, j)
      BY <1>2, <2>2 DEF ReportInv
    <3>2. pc[h] # "idle" => pc'[h] # "idle" /\ call'[h] = call[h]
      BY <1>2, <2>2, CallsOfOthers, AdapterAssumption
    <3> QED
      BY <3>1, <3>2, StillReported
  <2> QED
    BY <2>1, <2>2
<1>3. ASSUME NEW g \in Guards, NEW kind \in DOMAIN Kinds, NEW raw \in [Parts -> Texts],
             GuardBegins(g, kind, raw)
      PROVE  ReportInv'
  <2>1. PICK jobs : jobs = {[raw |-> raw, parts |-> Kinds[kind], answers |-> 0,
                             safe |-> [p \in Parts |-> {}], trail |-> <<>>]}
    OBVIOUS
  <2>2. \A j \in jobs : Reported(g, j)'
    BY <1>3, <2>1, BeginsReported
  <2>3. job' = [job EXCEPT ![g] = jobs] /\ \E request : Begin(g, request)
    BY <1>3, <2>1 DEF GuardBegins
  <2> QED
    BY <1>2, <2>2, <2>3
<1>4. ASSUME NEW g \in Guards, GuardGoesOn(g)
      PROVE  ReportInv'
  <2>1. PICK j \in job[g], d \in decision[g] :
            /\ j.parts # <<>>
            /\ LET told   == Told(j, g)
                   part   == Head(told.parts)
                   isLast == Objects(part, told.answers, d)
                                \/ told.answers = Len(Script(part))
                   then   == IF isLast THEN Finished(told, d) ELSE told
               IN  /\ job' = [job EXCEPT ![g] = {then}]
                   /\ IF then.parts = <<>> THEN UNCHANGED vars
                      ELSE Begin(g, Script(Head(then.parts))[then.answers + 1])
    BY <1>4 DEF GuardGoesOn
  <2> DEFINE told   == Told(j, g)
             part   == Head(told.parts)
             isLast == Objects(part, told.answers, d)
                          \/ told.answers = Len(Script(part))
             then   == IF isLast THEN Finished(told, d) ELSE told
  <2>2. UnderWay(j) /\ Reported(g, j) /\ pc[g] = "done"
    BY <1>4 DEF JobInv, ReportInv, GuardGoesOn
  <2>3. /\ then \in JobRecord
        /\ \A p \in Parts : Truthful(then, p)
        /\ then.parts # <<>> => Progress(then)
    BY <2>1, <2>2, GoesOnReported
  <2>4. PICK after : after = then
    OBVIOUS
  <2> HIDE DEF then
  <2>5. /\ job' = [job EXCEPT ![g] = {after}]
        /\ IF after.parts = <<>> THEN UNCHANGED vars
           ELSE Begin(g, Script(Head(after.parts))[after.answers + 1])
    BY <2>1, <2>4 DEF then
  <2>6. OnScript(g, after)'
    BY <2>5, AsksScript DEF OnScript
  <2>7. Reported(g, after)'
    BY <2>3, <2>4, <2>6 DEF Reported
  <2>8. UNCHANGED vars \/ \E request : Begin(g, request)
    BY <2>5
  <2>9. PICK jobs : jobs = {after}
    OBVIOUS
  <2>10. job' = [job EXCEPT ![g] = jobs] /\ \A k \in jobs : Reported(g, k)'
    BY <2>5, <2>7, <2>9
  <2> QED
    BY <1>2, <2>8, <2>10
<1> QED
  BY <1>1, <1>2, <1>3, <1>4 DEF AdapterNext

\* What the report of the adapter says of a part is what the gate decided about it,
\* however the calls of the guards and of others interleave.
THEOREM ReportsTellGate == AdapterSpec => []ReportTellsGate
<1>1. AdapterInit => JobInv /\ ReportInv
  BY JobInit DEF AdapterInit, ReportInv
<1>2. JobInv /\ [AdapterNext]_adapterVars => JobInv'
  BY JobStep
<1>3. TypeOK /\ SingleInv /\ JobInv /\ ReportInv /\ [AdapterNext]_adapterVars => ReportInv'
  BY ReportStep
<1>4. ReportInv => ReportTellsGate
  BY DEF ReportInv, Reported, Truthful, ReportTellsGate
<1> QED
  BY <1>1, <1>2, <1>3, <1>4, AdapterUsesGate, SpecSingle, PTL DEF AdapterSpec

\* The receipts of guarded calls, and of those made between them, tell the decisions.
THEOREM GuardedReceiptsTell == AdapterSpec => []ReceiptsTellDecision
BY AdapterUsesGate, ReceiptsTell, PTL

\* The log the guards share with others loses no receipt but those cleared.
THEOREM GuardedLogKeepsReceipts == AdapterSpec => []LogKeepsLaterReceipts
BY AdapterUsesGate, LogKeepsReceipts, PTL
================================================================================
