----------------------------- MODULE FrameworkCalls -----------------------------
(***************************************************************************)
(* The LangChain, CrewAI and Semantic Kernel adapters of both generations, *)
(* with AACPGateway.process: one call of a guarded framework with several  *)
(* inputs, which its caller tries again when it fails.  The inputs are one *)
(* mapping, to which another thread may add; the Semantic Kernel plugin of *)
(* the first version rewrites it in place.                                 *)
(*                                                                         *)
(* The risk of a value is 0 (below 0.35), 1 or 2 (0.65 and more).  What it *)
(* adds to the risk of a text it is part of depends on its sort and on the *)
(* rest of the text: see Counts.                                           *)
(***************************************************************************)
EXTENDS Naturals, FiniteSets

CONSTANTS
    Keys,        \* names of inputs, with "input" and "query" among them
    MaxPasses    \* bound: attempts

ASSUME CallAssumption == {"input", "query"} \subseteq Keys /\ MaxPasses \in Nat

Package == {"AACPLangChainWrapper", "AACPCrewAIAdapter", "AACPSemanticKernelHook"}
First == {"AACPChainMiddleware", "AACPCrewGuard", "AACPSKPlugin"}

VARIABLES
    adapter,    \* the adapter in front of the framework
    trusted,    \* it was given the trust level SYSTEM
    adds,       \* risks in one text add up, as keywords do, or the highest counts
    inputs,     \* key -> value, for the keys that are there
    pc,         \* "called", "loop", "delegate", "raised" or "returned"
    todo,       \* keys the loop has not come to
    size,       \* number of inputs when the loop began
    passes,     \* attempts so far
    refused,    \* history: the values of the text that was last refused
    detected,   \* history: keys whose value a detector has seen in this attempt
    late        \* history: keys that were added when the adapter was through

vars == <<adapter, trusted, adds, inputs, pc, todo, size, passes, refused, detected,
          late>>
static == <<adapter, trusted, adds>>

\* "benign": makes a harmless discussion of every text it is part of; "generic": its
\* risk is what such a discussion may mention; "encoded": it is a word of its own.
Sorts == {"plain", "empty", "benign", "generic", "encoded"}

Values == [risk : 0 .. 2, sort : Sorts, wraps : 0 .. MaxPasses]

\* What a caller may pass.
Passed ==
    {v \in Values :
        /\ v.wraps = 0
        /\ v.sort = "empty" => v.risk = 0
        /\ v.sort = "generic" => v.risk > 0
        /\ v.sort = "encoded" => v.risk = 2}

Init ==
    /\ adapter \in Package \cup First
    /\ trusted \in BOOLEAN /\ (trusted => adapter \in Package)
    /\ adds \in BOOLEAN
    /\ \E present \in SUBSET Keys : IsFiniteSet(present) /\ inputs \in [present -> Passed]
    /\ pc = "called"
    /\ todo = {} /\ size = 0 /\ passes = 1
    /\ refused = {} /\ detected = {} /\ late = {}

There(key) == key \in DOMAIN inputs /\ inputs[key].sort # "empty"
-------------------------------------------------------------------------------
\* Mutant: the text is made of the values that were added last.
LookedAt_Latest ==
    IF \E key \in DOMAIN inputs : key \notin detected
    THEN DOMAIN inputs \ refused ELSE DOMAIN inputs

\* The values a package adapter makes one text of: the crew's adapter joins all of
\* them; the others take "input", or else "query", or else the whole mapping.
LookedAt ==
    IF adapter = "AACPCrewAIAdapter" THEN DOMAIN inputs
    ELSE IF There("input") THEN {"input"}
    ELSE IF There("query") THEN {"query"} ELSE DOMAIN inputs

\* The mapping as a whole is looked at in its printed form, with quotes and commas.
Printed ==
    /\ adapter # "AACPCrewAIAdapter"
    /\ ~There("input") /\ ~There("query")

\* The risk of a value counts in that text: unless it is generic in a harmless
\* discussion, or encoded and a quote keeps it from being a word.
Counts(key) ==
    /\ inputs[key].sort = "generic" => \A k \in LookedAt : inputs[k].sort # "benign"
    /\ inputs[key].sort = "encoded" => ~Printed

\* The text is as risky as the riskiest value that counts; where risks add up, two
\* that are risky at all make it a high risk.
HighRisk ==
    LET Risky(least) == {key \in LookedAt : Counts(key) /\ inputs[key].risk >= least}
    IN  Risky(2) # {} \/ (adds /\ \E k1, k2 \in Risky(1) : k1 # k2)

\* AACPGateway.process on that text.
Blocked == ~trusted /\ HighRisk

\* invoke, kickoff and before_invoke of the package.
Screen ==
    /\ pc = "called" /\ adapter \in Package
    /\ detected' = LookedAt
    /\ pc' = IF Blocked THEN "raised" ELSE "delegate"
    /\ refused' = IF Blocked THEN LookedAt ELSE refused
    /\ UNCHANGED <<static, inputs, todo, size, passes, late>>

\* wrap_crew patches in a method that calls the original at once.
CallCrew ==
    /\ pc = "called" /\ adapter = "AACPCrewGuard"
    /\ pc' = "delegate"
    /\ UNCHANGED <<static, inputs, todo, size, passes, refused, detected, late>>

\* run and before_invoke of the first version go through the inputs one by one.
BeginLoop ==
    /\ pc = "called" /\ adapter \in {"AACPChainMiddleware", "AACPSKPlugin"}
    /\ pc' = "loop" /\ todo' = DOMAIN inputs /\ size' = Cardinality(DOMAIN inputs)
    /\ UNCHANGED <<static, inputs, passes, refused, detected, late>>

\* _sanitize: no result of detect_segment says "reject" or "quarantine".
Sanitized(value) ==
    IF value.risk >= 1 THEN [value EXCEPT !.wraps = @ + 1] ELSE value

\* The chain's middleware only looks: it acts on a verdict that is never given.
Visited(value) == IF adapter = "AACPSKPlugin" THEN Sanitized(value) ELSE value

\* Mutant: the loop goes over a copy of the keys, and never fails.
Unchanged_Snapshot == TRUE

\* A mapping may not grow under its iterator.
Unchanged == Cardinality(DOMAIN inputs) = size

\* One turn of the loop.
Visit(key) ==
    /\ pc = "loop" /\ Unchanged /\ key \in todo
    /\ todo' = todo \ {key}
    /\ inputs' = [inputs EXCEPT ![key] = Visited(@)]
    /\ detected' = detected \cup {key}
    /\ UNCHANGED <<static, pc, size, passes, refused, late>>

EndLoop ==
    /\ pc = "loop" /\ (todo = {} \/ ~Unchanged)
    /\ pc' = IF Unchanged THEN "delegate" ELSE "raised"
    /\ UNCHANGED <<static, inputs, todo, size, passes, refused, detected, late>>

\* Another thread adds an input; the framework has not read them yet.
AddInput ==
    /\ pc \in {"loop", "raised", "delegate"}
    /\ \E key \in Keys \ DOMAIN inputs, value \in Passed :
        /\ inputs' = [k \in DOMAIN inputs \cup {key} |->
                        IF k = key THEN value ELSE inputs[k]]
        /\ late' = IF pc = "delegate" THEN late \cup {key} ELSE late
    /\ UNCHANGED <<static, pc, todo, size, passes, refused, detected>>

\* The framework is called with the inputs as they are.
Delegate ==
    /\ pc = "delegate" /\ pc' = "returned"
    /\ UNCHANGED <<static, inputs, todo, size, passes, refused, detected, late>>

\* The caller tries again with the same mapping.
Retry ==
    /\ pc = "raised" /\ passes < MaxPasses
    /\ pc' = "called" /\ passes' = passes + 1 /\ detected' = {}
    /\ UNCHANGED <<static, inputs, todo, size, refused, late>>

Over ==
    /\ pc \in {"raised", "returned"} /\ (pc = "raised" => passes = MaxPasses)
    /\ UNCHANGED vars

Next ==
    \/ Screen \/ CallCrew \/ BeginLoop \/ (\E key \in Keys : Visit(key)) \/ EndLoop
    \/ AddInput \/ Delegate \/ Retry \/ Over

Spec == Init /\ [][Next]_vars
-------------------------------------------------------------------------------
(***************************************************************************)
(* Properties.                                                             *)
(***************************************************************************)

\* Inputs are added while the adapter goes through them, the loop may fail in the
\* middle and be tried again.  Still, an adapter that looks at all inputs passes on
\* none it has not looked at, and what the plugin passes on is wrapped if it is
\* risky, no more often than there were attempts; unless it was added too late.
ScreenedDespiteFailure ==
    pc = "returned" =>
        /\ adapter \in {"AACPCrewAIAdapter", "AACPChainMiddleware", "AACPSKPlugin"}
            => detected = DOMAIN inputs \ late
        /\ adapter = "AACPSKPlugin" =>
            \A key \in DOMAIN inputs \ late :
                IF inputs[key].risk >= 1 THEN inputs[key].wraps \in 1 .. passes
                                         ELSE inputs[key].wraps = 0

\* Trying again is no way around a refusal, and neither is adding to the inputs: only
\* an "input" or a "query" that is now looked at in their place (and that only with
\* the adapters that look at one value), or an addition that makes a harmless
\* discussion of the text.
RefusalStands ==
    pc = "returned" /\ refused # {} =>
        \/ /\ adapter # "AACPCrewAIAdapter"
           /\ \E key \in {"input", "query"} : There(key) /\ key \notin refused
        \/ \E key \in LookedAt \ refused : inputs[key].sort = "benign"
===============================================================================
