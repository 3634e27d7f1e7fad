-------------------------------- MODULE LlmHooks --------------------------------
(***************************************************************************)
(* llm_detector.py of both generations, in front of detect_segment: where  *)
(* the score of its hook comes from.  A lightweight detector looks for     *)
(* phrases; an external one asks a remote model, which may answer anything, *)
(* differently each time, or fail.  The library may also be asked for a    *)
(* verdict of its own (detect, classify) on the same text.  An application *)
(* may also pass a hook of its own, or none.                               *)
(***************************************************************************)
EXTENDS DetectorScan

CONSTANTS
    Signs,       \* what the lightweight detectors may find in a text
    Numbers,     \* numbers a remote model may answer, in hundredths
    Thresholds   \* thresholds an application may configure, in hundredths

SignType == [phrase : BOOLEAN, override_constraints : BOOLEAN, hits : 0 .. 15]

ASSUME HookAssumption ==
    Signs \subseteq SignType /\ Numbers \subseteq Nat /\ Thresholds \subseteq Nat

VARIABLES
    lib,    \* the library behind the hook, if any, as a set of one
    own     \* the library's own verdict, as a set of one

hookVars == <<vars, lib, own>>

\* What a remote model says: YES, something else without a number in it, a number,
\* "nan", or nothing, because the call fails.
Replies == [says : {"yes", "words", "nan", "fails"}, number : {0}]
           \cup [says : {"number"}, number : Numbers]

Generations == {"package", "first"}

\* A library, with what it finds or is told when it is asked for the hook's score.  The
\* package's thresholds for a verdict are fixed; the lightweight detector of the first
\* version is told its own, and the external one has no verdict, only a score.
Libraries ==
    [generation : {"package"}, kind : {"lightweight"}, answer : Signs, threshold : {65}]
    \cup [generation : {"package"}, kind : {"external"}, answer : Replies, threshold : {65}]
    \cup [generation : {"first"}, kind : {"lightweight"}, answer : Signs,
          threshold : Thresholds]
    \cup [generation : {"first"}, kind : {"external"}, answer : Replies]

HasVerdict(library) == library.generation = "package" \/ library.kind = "lightweight"
--------------------------------------------------------------------------------
\* 1 / (1 + 2.718 ** -(hits - 1.5)), rounded to hundredths.
Logistic(hits) ==
    CASE hits = 0 -> 18 [] hits = 1 -> 38 [] hits = 2 -> 62 [] hits = 3 -> 82
      [] hits = 4 -> 92 [] hits = 5 -> 97 [] hits = 6 -> 99 [] hits > 6 -> 100

LightweightScore(generation, signs) ==
    IF generation = "first" THEN Logistic(signs.hits)
    ELSE IF signs.override_constraints THEN 70
    ELSE IF signs.phrase THEN 55 ELSE 0

\* Mutant: the call of the remote model is not guarded.
RemoteScore_Unguarded(generation, reply) ==
    IF reply.says = "fails" THEN HookRaises
    ELSE IF generation = "first" THEN reply.number
    ELSE IF reply.says = "yes" THEN 92 ELSE 5

\* The package asks for YES or NO; the first version takes the first number of the
\* answer, however large, and a "nan" never wins a comparison.  Failures score 0.
RemoteScore(generation, reply) ==
    IF reply.says = "fails" THEN 0
    ELSE IF generation = "first" THEN reply.number
    ELSE IF reply.says = "yes" THEN 92 ELSE 5

Score(library, answer) ==
    IF library.kind = "lightweight" THEN LightweightScore(library.generation, answer)
    ELSE RemoteScore(library.generation, answer)

\* Mutant: detect objects to whatever it names a reason for.
Objects_Reason(library, score) ==
    score >= 50

\* detect blocks, and classify calls it an injection, from the threshold on.
Objects(library, score) ==
    score >= library.threshold

\* Asked once more, a remote model may answer something else.
Answers(library) == IF library.kind = "external" THEN Replies ELSE {library.answer}

Verdict(library, answer) ==
    LET score == Score(library, answer)
    IN  [answer |-> answer, score |-> score, objects |-> Objects(library, score)]

HookInit ==
    /\ Init
    /\ \/ lib = {} /\ own = {}
       \/ \E library \in Libraries :
            /\ hook = Score(library, library.answer)
            /\ lib = {library}
            /\ IF HasVerdict(library)
               THEN \E again \in Answers(library) : own = {Verdict(library, again)}
               ELSE own = {}

HookStep == Step /\ UNCHANGED <<lib, own>>

HookNext == HookStep \/ (Detected /\ UNCHANGED <<lib, own>>)

HookSpec == HookInit /\ [][HookNext]_hookVars /\ WF_hookVars(HookStep)
--------------------------------------------------------------------------------
(***************************************************************************)
(* Properties.                                                             *)
(***************************************************************************)

\* The remote model was asked and is down.
Down == \E library \in lib : library.kind = "external" /\ library.answer.says = "fails"

\* Whatever a hook answers, what would be blocked without it is blocked.  Only a hook
\* that raises, one of the application's own, undoes a block, and not even that one
\* makes a text clean that would not be, or the other way round.  No library's hook
\* raises; and although a failure of a remote model and a low score look alike, one
\* that is down changes nothing.
NoAnswerUnblocks ==
    result # <<>> =>
        LET without == Judge(Floored(raw[1].score), raw[1].classes) IN
        /\ lib # {} => hook # HookRaises
        /\ without.blocked /\ hook # HookRaises => result[1].blocked
        /\ hook = HookRaises => (result[1].verdict = "clean" <=> without.verdict = "clean")
        /\ Down => result[1] = without

\* InjectionDetector.detect, which knows no origin and no authority.
detect(threshold) == raw[1].score >= threshold

\* The ways to ask for a verdict have thresholds of their own.  Without a hook, what
\* InjectionDetector blocks with the threshold it is given and what detect_segment
\* blocks differ only by the distance of that threshold from 0.65, unless the text was
\* read from an image.  With a hook, and as far as a remote model says the same both
\* times, what the package's detect blocks is blocked, and what the first version calls
\* an injection is not clean if its threshold is 0.35 or more, and blocked from 0.65 on.
VerdictsAgree ==
    result # <<>> =>
        /\ hook = NoHook /\ segment.origin # "ocr" =>
            \A threshold \in Thresholds \cup {65} :
                /\ threshold <= 65 /\ result[1].blocked => detect(threshold)
                /\ threshold >= 65 /\ detect(threshold) => result[1].blocked
        /\ \A library \in lib, verdict \in own :
            verdict.objects /\ verdict.answer = library.answer =>
                /\ library.threshold >= 65 => result[1].blocked
                /\ library.threshold >= 35 => result[1].verdict # "clean"
=================================================================================
