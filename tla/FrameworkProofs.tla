---------------------------- MODULE FrameworkProofs ----------------------------
(***************************************************************************)
(* Proofs about FrameworkCalls, for any mapping of inputs and any number   *)
(* of attempts.                                                            *)
(***************************************************************************)
EXTENDS FrameworkCalls, FiniteSetTheorems, TLAPS

Looping == {"AACPChainMiddleware", "AACPSKPlugin"}

\* Inputs are kept by name; the history of an attempt is about inputs that are there.
ShapeInv ==
    /\ inputs = [key \in DOMAIN inputs |-> inputs[key]]
    /\ IsFiniteSet(DOMAIN inputs)
    /\ \A key \in DOMAIN inputs :
        inputs[key] \in [risk : 0 .. 2, sort : Sorts, wraps : Nat]
    /\ passes \in Nat \ {0}
    /\ adapter \in Package \cup First
    /\ pc \in {"called", "loop", "delegate", "raised", "returned"}
    /\ detected \subseteq DOMAIN inputs
    /\ pc = "called" => detected = {}
    /\ pc \in {"called", "loop", "raised"} => late = {}

\* What the loop has come to and what it has not make up the inputs it began with.
LoopInv ==
    /\ pc = "loop" =>
        /\ adapter \in Looping
        /\ todo \subseteq DOMAIN inputs
        /\ todo \cap detected = {}
        /\ size = Cardinality(todo \cup detected)
    /\ pc \in {"delegate", "returned"} /\ adapter \in Looping \cup {"AACPCrewAIAdapter"}
        => detected = DOMAIN inputs \ late

\* The plugin wraps an input once per attempt that comes to it.
WrapInv ==
    adapter = "AACPSKPlugin" =>
        \A key \in DOMAIN inputs :
            LET value == inputs[key] IN
            /\ value.risk = 0 => value.wraps = 0
            /\ value.risk >= 1 /\ key \in detected => value.wraps \in 1 .. passes
            /\ key \notin detected => value.wraps < passes

LEMMA LookedAtThere == LookedAt \subseteq DOMAIN inputs
BY DEF LookedAt, There

\* As many inputs as when the loop began are the same inputs.
LEMMA SameInputs ==
    ASSUME ShapeInv, LoopInv, pc = "loop", Unchanged
    PROVE  DOMAIN inputs = todo \cup detected
BY FS_Subset, FS_CardinalityType DEF ShapeInv, LoopInv, Unchanged

LEMMA FirstInvs == Init => ShapeInv /\ LoopInv /\ WrapInv
<1> SUFFICES ASSUME Init
             PROVE  ShapeInv /\ LoopInv /\ WrapInv
  OBVIOUS
<1>1. PICK present \in SUBSET Keys : IsFiniteSet(present) /\ inputs \in [present -> Passed]
  BY DEF Init
<1>2. DOMAIN inputs = present /\ inputs = [key \in DOMAIN inputs |-> inputs[key]]
  BY <1>1
<1>3. ASSUME NEW key \in DOMAIN inputs
      PROVE  /\ inputs[key] \in [risk : 0 .. 2, sort : Sorts, wraps : Nat]
             /\ inputs[key].wraps = 0
  BY <1>1, <1>2, CallAssumption DEF Passed, Values
<1>4. ShapeInv
  BY <1>1, <1>2, <1>3 DEF ShapeInv, Init
<1>5. LoopInv /\ WrapInv
  BY <1>3 DEF Init, LoopInv, WrapInv
<1> QED
  BY <1>4, <1>5

LEMMA AddedInput ==
    ASSUME ShapeInv, AddInput
    PROVE  \E key \in Keys \ DOMAIN inputs, value \in Passed :
            /\ DOMAIN inputs' = DOMAIN inputs \cup {key}
            /\ inputs' = [k \in DOMAIN inputs' |-> inputs'[k]]
            /\ inputs'[key] = value
            /\ \A k \in DOMAIN inputs : inputs'[k] = inputs[k]
            /\ late' = IF pc = "delegate" THEN late \cup {key} ELSE late
BY DEF AddInput

LEMMA VisitedInput ==
    ASSUME ShapeInv, NEW key \in DOMAIN inputs, Visit(key)
    PROVE  /\ DOMAIN inputs' = DOMAIN inputs
           /\ inputs' = [k \in DOMAIN inputs' |-> inputs'[k]]
           /\ inputs'[key] = Visited(inputs[key])
           /\ \A k \in DOMAIN inputs \ {key} : inputs'[k] = inputs[k]
BY DEF Visit, ShapeInv

LEMMA VisitedFacts ==
    ASSUME NEW value \in [risk : 0 .. 2, sort : Sorts, wraps : Nat]
    PROVE  /\ Visited(value) \in [risk : 0 .. 2, sort : Sorts, wraps : Nat]
           /\ Visited(value).risk = value.risk
           /\ adapter = "AACPSKPlugin" =>
                Visited(value).wraps = IF value.risk >= 1 THEN value.wraps + 1 ELSE value.wraps
BY DEF Visited, Sanitized

LEMMA AddInputStep ==
    ASSUME ShapeInv, LoopInv, WrapInv, AddInput
    PROVE  ShapeInv' /\ LoopInv' /\ WrapInv'
<1>1. PICK key \in Keys \ DOMAIN inputs, value \in Passed :
        /\ DOMAIN inputs' = DOMAIN inputs \cup {key}
        /\ inputs' = [k \in DOMAIN inputs' |-> inputs'[k]]
        /\ inputs'[key] = value
        /\ \A k \in DOMAIN inputs : inputs'[k] = inputs[k]
        /\ late' = IF pc = "delegate" THEN late \cup {key} ELSE late
  BY AddedInput
<1>2. /\ UNCHANGED <<static, pc, todo, size, passes, refused, detected>>
      /\ pc \in {"loop", "raised", "delegate"}
  BY DEF AddInput
<1>3. value \in [risk : 0 .. 2, sort : Sorts, wraps : Nat] /\ value.wraps = 0
  BY CallAssumption DEF Passed, Values
<1>4. IsFiniteSet(DOMAIN inputs')
  BY <1>1, FS_AddElement DEF ShapeInv
<1>5. ShapeInv'
  BY <1>1, <1>2, <1>3, <1>4 DEF ShapeInv, static
<1>6. LoopInv'
  BY <1>1, <1>2 DEF ShapeInv, LoopInv, static
<1>7. WrapInv'
  BY <1>1, <1>2, <1>3 DEF ShapeInv, WrapInv, static
<1> QED
  BY <1>5, <1>6, <1>7

LEMMA VisitStep ==
    ASSUME ShapeInv, LoopInv, WrapInv, NEW key \in Keys, Visit(key)
    PROVE  ShapeInv' /\ LoopInv' /\ WrapInv'
<1>1. /\ pc = "loop" /\ key \in todo /\ key \in DOMAIN inputs
      /\ todo' = todo \ {key} /\ detected' = detected \cup {key}
      /\ UNCHANGED <<static, pc, size, passes, refused, late>>
  BY DEF Visit, LoopInv
<1>2. /\ DOMAIN inputs' = DOMAIN inputs
      /\ inputs' = [k \in DOMAIN inputs' |-> inputs'[k]]
      /\ inputs'[key] = Visited(inputs[key])
      /\ \A k \in DOMAIN inputs \ {key} : inputs'[k] = inputs[k]
  BY <1>1, VisitedInput
<1>3. /\ Visited(inputs[key]) \in [risk : 0 .. 2, sort : Sorts, wraps : Nat]
      /\ Visited(inputs[key]).risk = inputs[key].risk
      /\ adapter = "AACPSKPlugin" =>
            Visited(inputs[key]).wraps =
                IF inputs[key].risk >= 1 THEN inputs[key].wraps + 1 ELSE inputs[key].wraps
  BY <1>1, VisitedFacts DEF ShapeInv
<1>4. ShapeInv'
  BY <1>1, <1>2, <1>3 DEF ShapeInv, static
<1>5. todo' \cup detected' = todo \cup detected /\ key \notin detected
  BY <1>1 DEF LoopInv
<1>6. LoopInv'
  BY <1>1, <1>2, <1>5 DEF LoopInv, static
<1>7. ASSUME adapter = "AACPSKPlugin", NEW k \in DOMAIN inputs
      PROVE  /\ inputs'[k].risk = 0 => inputs'[k].wraps = 0
             /\ inputs'[k].risk >= 1 /\ k \in detected' => inputs'[k].wraps \in 1 .. passes
             /\ k \notin detected' => inputs'[k].wraps < passes
  <2>1. CASE k # key
    BY <1>1, <1>2, <1>7, <2>1 DEF WrapInv
  <2>2. CASE k = key
    <3>1. /\ inputs[key].risk \in 0 .. 2 /\ inputs[key].wraps \in Nat /\ passes \in Nat
          /\ inputs[key].wraps < passes
          /\ inputs[key].risk = 0 => inputs[key].wraps = 0
      BY <1>1, <1>5, <1>7 DEF ShapeInv, WrapInv
    <3>2. /\ inputs'[key].risk = inputs[key].risk
          /\ inputs'[key].wraps =
                IF inputs[key].risk >= 1 THEN inputs[key].wraps + 1 ELSE inputs[key].wraps
      BY <1>2, <1>3, <1>7
    <3> QED
      BY <1>1, <2>2, <3>1, <3>2
  <2> QED
    BY <2>1, <2>2
<1>8. WrapInv'
  BY <1>1, <1>2, <1>7 DEF WrapInv, static
<1> QED
  BY <1>4, <1>6, <1>8

LEMMA RetryStep ==
    ASSUME ShapeInv, LoopInv, WrapInv, Retry
    PROVE  ShapeInv' /\ LoopInv' /\ WrapInv'
<1>1. /\ pc = "raised" /\ pc' = "called" /\ passes' = passes + 1 /\ detected' = {}
      /\ UNCHANGED <<static, inputs, todo, size, refused, late>>
  BY DEF Retry
<1>2. ShapeInv' /\ LoopInv'
  BY <1>1 DEF ShapeInv, LoopInv, static
<1>3. ASSUME adapter = "AACPSKPlugin", NEW k \in DOMAIN inputs
      PROVE  /\ inputs[k].risk = 0 => inputs[k].wraps = 0
             /\ inputs[k].wraps < passes'
  <2>1. inputs[k].wraps \in Nat /\ inputs[k].risk \in 0 .. 2 /\ passes \in Nat \ {0}
    BY DEF ShapeInv
  <2> QED
    BY <1>1, <1>3, <2>1 DEF WrapInv
<1>4. WrapInv'
  BY <1>1, <1>3 DEF WrapInv, static
<1> QED
  BY <1>2, <1>4

LEMMA AttemptStep ==
    ShapeInv /\ LoopInv /\ WrapInv /\ [Next]_vars => ShapeInv' /\ LoopInv' /\ WrapInv'
<1> SUFFICES ASSUME ShapeInv, LoopInv, WrapInv, [Next]_vars
             PROVE  ShapeInv' /\ LoopInv' /\ WrapInv'
  OBVIOUS
<1>1. CASE Screen
  <2>1. LookedAt \subseteq DOMAIN inputs
    BY LookedAtThere
  <2>2. ShapeInv'
    BY <1>1, <2>1 DEF Screen, ShapeInv, static
  <2>3. LoopInv'
    BY <1>1 DEF Screen, LoopInv, ShapeInv, LookedAt, static, Package, Looping
  <2>4. WrapInv'
    BY <1>1 DEF Screen, WrapInv, static, Package
  <2> QED
    BY <2>2, <2>3, <2>4
<1>2. CASE CallCrew
  BY <1>2 DEF CallCrew, ShapeInv, LoopInv, WrapInv, static, Looping
<1>3. CASE BeginLoop
  <2>1. ShapeInv' /\ WrapInv'
    BY <1>3 DEF BeginLoop, ShapeInv, WrapInv, static
  <2>2. LoopInv'
    BY <1>3 DEF BeginLoop, ShapeInv, LoopInv, static, Looping
  <2> QED
    BY <2>1, <2>2
<1>4. ASSUME NEW key \in Keys, Visit(key)
      PROVE  ShapeInv' /\ LoopInv' /\ WrapInv'
  BY <1>4, VisitStep
<1>5. CASE EndLoop
  <2>1. ShapeInv' /\ WrapInv'
    BY <1>5 DEF EndLoop, ShapeInv, WrapInv, static
  <2>2. pc' = "delegate" => detected = DOMAIN inputs \ late
    BY <1>5, SameInputs DEF EndLoop, ShapeInv
  <2>3. LoopInv'
    BY <1>5, <2>2 DEF EndLoop, LoopInv, static
  <2> QED
    BY <2>1, <2>3
<1>6. CASE AddInput
  BY <1>6, AddInputStep
<1>7. CASE Delegate
  BY <1>7 DEF Delegate, ShapeInv, LoopInv, WrapInv, static
<1>8. CASE Retry
  BY <1>8, RetryStep
<1>9. CASE Over \/ UNCHANGED vars
  BY <1>9 DEF Over, vars, ShapeInv, LoopInv, WrapInv
<1> QED
  BY <1>1, <1>2, <1>3, <1>4, <1>5, <1>6, <1>7, <1>8, <1>9 DEF Next

LEMMA SpecAttempts == Spec => [](ShapeInv /\ LoopInv /\ WrapInv)
BY FirstInvs, AttemptStep, PTL DEF Spec

\* However the mapping grows under the loop, and however often the call is tried again,
\* an adapter that looks at all inputs passes on none it has not looked at, and the
\* plugin wraps what is risky, at most once per attempt.
THEOREM ScreenedAnyway == Spec => []ScreenedDespiteFailure
<1>1. ASSUME ShapeInv, LoopInv, WrapInv, pc = "returned"
      PROVE  ScreenedDespiteFailure
  <2>1. adapter \in Looping \cup {"AACPCrewAIAdapter"} => detected = DOMAIN inputs \ late
    BY <1>1 DEF LoopInv
  <2>2. ASSUME adapter = "AACPSKPlugin", NEW key \in DOMAIN inputs \ late
        PROVE  IF inputs[key].risk >= 1 THEN inputs[key].wraps \in 1 .. passes
                                        ELSE inputs[key].wraps = 0
    <3>1. key \in detected /\ inputs[key].risk \in 0 .. 2
      BY <1>1, <2>1, <2>2 DEF ShapeInv, Looping
    <3> QED
      BY <1>1, <2>2, <3>1 DEF WrapInv
  <2> QED
    BY <2>1, <2>2 DEF ScreenedDespiteFailure, Looping
<1>2. ShapeInv /\ LoopInv /\ WrapInv => ScreenedDespiteFailure
  BY <1>1 DEF ScreenedDespiteFailure
<1> QED
  BY <1>2, SpecAttempts, PTL
-------------------------------------------------------------------------------
(***************************************************************************)
(* Refusals.  What was refused stays in the mapping, and its values do not *)
(* change with a package adapter: the same text, or a longer one, would be *)
(* refused again.                                                          *)
(***************************************************************************)
Names == {"input", "query"}

\* Counts and Blocked, for a text made of any keys.
CountsIn(text, printed, key) ==
    /\ inputs[key].sort = "generic" => \A k \in text : inputs[k].sort # "benign"
    /\ inputs[key].sort = "encoded" => ~printed

Refuses(text, printed) ==
    LET Risky(least) ==
            {key \in text : CountsIn(text, printed, key) /\ inputs[key].risk >= least}
    IN  ~trusted /\ (Risky(2) # {} \/ (adds /\ \E k1, k2 \in Risky(1) : k1 # k2))

\* How the text that was last refused was made.
RefusedInv ==
    refused # {} =>
        /\ adapter \in Package
        /\ refused \subseteq DOMAIN inputs
        /\ \/ adapter = "AACPCrewAIAdapter" /\ Refuses(refused, FALSE)
           \/ /\ adapter # "AACPCrewAIAdapter" /\ Refuses(refused, FALSE)
              /\ \E name \in Names : refused = {name} /\ There(name)
           \/ /\ adapter # "AACPCrewAIAdapter" /\ Refuses(refused, TRUE)
              /\ \A name \in Names : name \in refused => ~There(name)

\* What may lead around a refusal.
Excused ==
    \/ adapter # "AACPCrewAIAdapter" /\ \E name \in Names : There(name) /\ name \notin refused
    \/ \E key \in LookedAt \ refused : inputs[key].sort = "benign"

PassedInv == pc \in {"delegate", "returned"} /\ refused # {} => Excused

LEMMA BlockedRefuses == Blocked <=> Refuses(LookedAt, Printed)
BY DEF Blocked, HighRisk, Refuses, Counts, CountsIn

\* A longer text is refused as well, unless what was added makes it a harmless discussion.
LEMMA LongerRefused ==
    ASSUME NEW text, NEW longer, text \subseteq longer, NEW printed \in BOOLEAN,
           Refuses(text, printed), \A k \in longer \ text : inputs[k].sort # "benign"
    PROVE  Refuses(longer, printed)
<1>1. \A key \in text : CountsIn(text, printed, key) => CountsIn(longer, printed, key)
  BY DEF CountsIn
<1> QED
  BY <1>1 DEF Refuses

\* Refusals depend on nothing but the values of the text.
LEMMA StillRefused ==
    ASSUME NEW text, NEW printed \in BOOLEAN, Refuses(text, printed), UNCHANGED static,
           \A k \in text : inputs'[k] = inputs[k]
    PROVE  Refuses(text, printed)'
BY DEF Refuses, CountsIn, static

LEMMA NamesFacts ==
    /\ Names = {"input", "query"}
    /\ adapter = "AACPCrewAIAdapter" => LookedAt = DOMAIN inputs /\ Printed = FALSE
    /\ adapter # "AACPCrewAIAdapter" /\ There("input") =>
            LookedAt = {"input"} /\ Printed = FALSE
    /\ adapter # "AACPCrewAIAdapter" /\ ~There("input") /\ There("query") =>
            LookedAt = {"query"} /\ Printed = FALSE
    /\ adapter # "AACPCrewAIAdapter" /\ ~There("input") /\ ~There("query") =>
            LookedAt = DOMAIN inputs /\ Printed = TRUE
BY DEF Names, LookedAt, Printed

\* A screening that refuses.
LEMMA RefusesNow ==
    ASSUME ShapeInv, Screen, Blocked
    PROVE  RefusedInv'
<1>1. /\ refused' = LookedAt /\ adapter \in Package
      /\ UNCHANGED <<static, inputs>>
  BY DEF Screen
<1>2. LookedAt \subseteq DOMAIN inputs
  BY LookedAtThere
<1>3. PICK text : text = LookedAt
  OBVIOUS
<1> PICK printed \in BOOLEAN : printed = Printed
  BY DEF Printed
<1>4. Refuses(text, printed)'
  <2>1. Refuses(text, printed)
    BY <1>3, BlockedRefuses
  <2> QED
    BY <1>1, <2>1, StillRefused
<1>5. UNCHANGED adapter
  BY <1>1 DEF static
<1>6. \/ adapter = "AACPCrewAIAdapter" /\ ~printed
      \/ /\ adapter # "AACPCrewAIAdapter" /\ ~printed
         /\ \E name \in Names : text = {name} /\ There(name)
      \/ /\ adapter # "AACPCrewAIAdapter" /\ printed
         /\ \A name \in Names : ~There(name)
  BY <1>3, NamesFacts
<1>7. \A name \in Names : There(name)' <=> There(name)
  BY <1>1 DEF There
<1> QED
  BY <1>1, <1>2, <1>3, <1>4, <1>5, <1>6, <1>7 DEF RefusedInv

\* A screening that lets pass what was refused before.
LEMMA PassesNow ==
    ASSUME ShapeInv, RefusedInv, refused # {}, ~Blocked
    PROVE  Excused
<1> SUFFICES ASSUME ~Excused PROVE FALSE
  OBVIOUS
<1>1. ~trusted
  BY DEF RefusedInv, Refuses
<1>2. \A k \in LookedAt \ refused : inputs[k].sort # "benign"
  BY DEF Excused
<1>3. adapter # "AACPCrewAIAdapter" => \A name \in Names : There(name) => name \in refused
  BY DEF Excused
<1>4. ASSUME NEW printed \in BOOLEAN, Refuses(refused, printed), refused \subseteq LookedAt,
             Printed = printed
      PROVE  FALSE
  <2>1. PICK text, longer : text = refused /\ longer = LookedAt
    OBVIOUS
  <2>2. Refuses(longer, printed)
    BY <1>2, <1>4, <2>1, LongerRefused
  <2> QED
    BY <1>4, <2>1, <2>2, BlockedRefuses
<1>5. CASE adapter = "AACPCrewAIAdapter" /\ Refuses(refused, FALSE)
  BY <1>4, <1>5, NamesFacts DEF RefusedInv
<1>6. CASE /\ adapter # "AACPCrewAIAdapter" /\ Refuses(refused, FALSE)
           /\ \E name \in Names : refused = {name} /\ There(name)
  <2>1. PICK name \in Names : refused = {name} /\ There(name)
    BY <1>6
  <2>2. LookedAt = {name} /\ Printed = FALSE
    BY <1>3, <1>6, <2>1, NamesFacts
  <2> QED
    BY <1>4, <1>6, <2>1, <2>2
<1>7. CASE /\ adapter # "AACPCrewAIAdapter" /\ Refuses(refused, TRUE)
           /\ \A name \in Names : name \in refused => ~There(name)
  <2>1. LookedAt = DOMAIN inputs /\ Printed = TRUE
    BY <1>3, <1>7, NamesFacts
  <2> QED
    BY <1>4, <1>7, <2>1 DEF RefusedInv
<1> QED
  BY <1>5, <1>6, <1>7 DEF RefusedInv

\* An addition takes no excuse away.
LEMMA AddedExcuse ==
    ASSUME ShapeInv, RefusedInv, refused # {}, Excused, AddInput
    PROVE  Excused'
<1>1. PICK key \in Keys \ DOMAIN inputs, value \in Passed :
        /\ DOMAIN inputs' = DOMAIN inputs \cup {key}
        /\ \A k \in DOMAIN inputs : inputs'[k] = inputs[k]
  BY AddedInput
<1>2. UNCHANGED <<static, refused>> /\ adapter' = adapter
  BY DEF AddInput, static
<1>3. refused \subseteq DOMAIN inputs
  BY DEF RefusedInv
<1>4. \A name \in Names : There(name) => There(name)'
  BY <1>1 DEF There
<1>5. ASSUME adapter # "AACPCrewAIAdapter", NEW name \in Names, There(name)', name \notin refused
      PROVE  Excused'
  BY <1>2, <1>5 DEF Excused
<1>6. CASE adapter # "AACPCrewAIAdapter" /\ \E name \in Names : There(name) /\ name \notin refused
  BY <1>4, <1>5, <1>6
<1>7. ASSUME NEW k \in LookedAt \ refused, inputs[k].sort = "benign"
      PROVE  Excused'
  <2>1. k \in DOMAIN inputs
    BY LookedAtThere
  <2>2. CASE k \in LookedAt'
    BY <1>1, <1>2, <1>7, <2>1, <2>2 DEF Excused
  <2>3. CASE k \notin LookedAt'
    <3>1. adapter # "AACPCrewAIAdapter"
      BY <1>1, <1>2, <2>1, <2>3 DEF LookedAt
    <3>2. PICK name \in Names : There(name)' /\ ~There(name)
      BY <1>1, <1>2, <1>4, <2>1, <2>3, <3>1 DEF LookedAt, Names
    <3>3. name \notin refused
      <4>1. name \notin DOMAIN inputs
        BY <1>1, <3>2 DEF There
      <4> QED
        BY <1>3, <4>1
    <3> QED
      BY <1>5, <3>1, <3>2, <3>3
  <2> QED
    BY <2>2, <2>3
<1> QED
  BY <1>6, <1>7 DEF Excused

\* While nothing is screened, refusals keep their form.
LEMMA KeepsRefusal ==
    ASSUME ShapeInv, RefusedInv, UNCHANGED <<static, refused>>,
           DOMAIN inputs \subseteq DOMAIN inputs',
           adapter \in Package => \A k \in DOMAIN inputs : inputs'[k] = inputs[k]
    PROVE  RefusedInv'
<1> SUFFICES ASSUME refused # {}
             PROVE  RefusedInv'
  BY DEF RefusedInv
<1>1. PICK text : text = refused
  OBVIOUS
<1>2. /\ adapter \in Package /\ text \subseteq DOMAIN inputs /\ adapter' = adapter
      /\ \A k \in DOMAIN inputs : inputs'[k] = inputs[k]
  BY <1>1 DEF RefusedInv, static
<1>3. \A printed \in BOOLEAN : Refuses(text, printed) => Refuses(text, printed)'
  BY <1>2, StillRefused
<1>4. \A name \in DOMAIN inputs : There(name)' <=> There(name)
  BY <1>2 DEF There
<1> QED
  BY <1>1, <1>2, <1>3, <1>4 DEF RefusedInv

LEMMA RefusalStep ==
    ShapeInv /\ LoopInv /\ RefusedInv /\ PassedInv /\ [Next]_vars
        => RefusedInv' /\ PassedInv'
<1> SUFFICES ASSUME ShapeInv, LoopInv, RefusedInv, PassedInv, [Next]_vars
             PROVE  RefusedInv' /\ PassedInv'
  OBVIOUS
<1>1. CASE Screen
  <2>1. CASE Blocked
    <3>1. pc' = "raised"
      BY <1>1, <2>1 DEF Screen
    <3> QED
      BY <1>1, <2>1, <3>1, RefusesNow DEF PassedInv
  <2>2. CASE ~Blocked
    <3>1. UNCHANGED <<static, inputs, refused>>
      BY <1>1, <2>2 DEF Screen
    <3>2. RefusedInv'
      BY <3>1, KeepsRefusal
    <3>3. refused # {} => Excused
      BY <2>2, PassesNow
    <3>4. Excused => Excused'
      BY <3>1 DEF Excused, LookedAt, There, static
    <3> QED
      BY <3>1, <3>2, <3>3, <3>4 DEF PassedInv
  <2> QED
    BY <2>1, <2>2
<1>2. CASE CallCrew \/ BeginLoop \/ EndLoop \/ Retry \/ Delegate
  <2>1. UNCHANGED <<static, inputs, refused>>
    BY <1>2 DEF CallCrew, BeginLoop, EndLoop, Retry, Delegate
  <2>2. RefusedInv'
    BY <2>1, KeepsRefusal
  <2>3. Excused => Excused'
    BY <2>1 DEF Excused, LookedAt, There, static
  <2>4. pc' \in {"delegate", "returned"} =>
            pc \in {"delegate", "returned"} \/ adapter \notin Package
    BY <1>2 DEF CallCrew, BeginLoop, EndLoop, Retry, Delegate, Package, LoopInv, Looping
  <2>5. adapter \notin Package => refused = {}
    BY DEF RefusedInv
  <2> QED
    BY <2>1, <2>2, <2>3, <2>4, <2>5 DEF PassedInv
<1>3. ASSUME NEW key \in Keys, Visit(key)
      PROVE  RefusedInv' /\ PassedInv'
  <2>1. adapter \notin Package /\ refused = {} /\ refused' = refused
    BY <1>3 DEF Visit, LoopInv, RefusedInv, Package, Looping
  <2> QED
    BY <2>1 DEF RefusedInv, PassedInv
<1>4. CASE AddInput
  <2>1. /\ DOMAIN inputs \subseteq DOMAIN inputs'
        /\ \A k \in DOMAIN inputs : inputs'[k] = inputs[k]
    BY <1>4, AddedInput
  <2>2. UNCHANGED <<static, pc, refused>>
    BY <1>4 DEF AddInput
  <2>3. RefusedInv'
    BY <2>1, <2>2, KeepsRefusal
  <2>4. PassedInv'
    BY <1>4, <2>2, AddedExcuse DEF PassedInv
  <2> QED
    BY <2>3, <2>4
<1>5. CASE Over \/ UNCHANGED vars
  <2>1. UNCHANGED vars
    BY <1>5 DEF Over
  <2>2. UNCHANGED <<static, inputs, refused, pc>>
    BY <2>1 DEF vars, static
  <2>3. RefusedInv'
    BY <2>2, KeepsRefusal
  <2>4. Excused => Excused'
    BY <2>2 DEF Excused, LookedAt, There, static
  <2> QED
    BY <2>2, <2>3, <2>4 DEF PassedInv
<1> QED
  BY <1>1, <1>2, <1>3, <1>4, <1>5 DEF Next

\* Neither trying again nor adding to the inputs leads around a refusal, except by an
\* "input" or a "query" that takes the place of the text, or a harmless discussion.
THEOREM RefusalsStand == Spec => []RefusalStands
<1>1. Init => RefusedInv /\ PassedInv
  BY DEF Init, RefusedInv, PassedInv
<1>2. PassedInv => RefusalStands
  BY DEF PassedInv, Excused, RefusalStands, Names
<1> QED
  BY <1>1, <1>2, RefusalStep, SpecAttempts, PTL DEF Spec
================================================================================
