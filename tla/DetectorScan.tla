------------------------------ MODULE DetectorScan ------------------------------
(***************************************************************************)
(* aacp_protocol/detector.py: one call of detect_segment.  _raw_score      *)
(* scans the words of a text for encoded texts, which it scans in turn,    *)
(* then the patterns and markers, then adds up keywords until it has seen  *)
(* enough.  Its recursion is a stack of frames here.                       *)
(*                                                                         *)
(* Scores are hundredths.  A text is reduced to what the scan finds in it: *)
(* the vocabulary itself (regular expressions, normalization) is data.     *)
(***************************************************************************)
EXTENDS Integers, Sequences, SequencesExt

CONSTANTS
    Texts,          \* names of texts
    Found,          \* text -> what the scan finds in it
    Origins,        \* origin types of segments, "ocr" and "text" among them
    HookScores      \* what the language model hook may answer

Classes == {"obfuscated", "multimodal_injection", "authority_escalation", "jailbreak",
            "token_smuggling", "secret_exfiltration", "memory_poisoning",
            "tool_sink_injection"}

Scores == 0 .. 100

Pattern == [weight : Scores, category : Classes]
Keyword == [weight : Scores, class : Classes, generic : BOOLEAN, rm_rf : BOOLEAN]

\* encoded: the words that decode to a text; benign: _is_benign_discussion;
\* command_doc: a documentation that warns of "rm -rf".
Findings ==
    [encoded : Seq(Texts), patterns : SUBSET Pattern,
     markers : SUBSET {"generic", "other"}, compact : BOOLEAN,
     keywords : Seq(Keyword), benign : BOOLEAN, command_doc : BOOLEAN]

ASSUME ScanAssumption ==
    /\ \A t \in Texts :
        /\ Found[t].encoded \in Seq(Texts)
        /\ Found[t].patterns \subseteq Pattern
        /\ Found[t].markers \subseteq {"generic", "other"}
        /\ Found[t].keywords \in Seq(Keyword)
        /\ {Found[t].compact, Found[t].benign, Found[t].command_doc} \subseteq BOOLEAN
    /\ HookScores \subseteq Nat

NoHook == -1
HookRaises == -2

VARIABLES
    segment,   \* [text, origin, flagged] under detection
    hook,      \* the answer the hook will give, NoHook or HookRaises
    stack,     \* calls of _raw_score in progress, the innermost one last
    raw,       \* what the outermost call returned, as a sequence of at most one
    result     \* the DetectorResult, as a sequence of at most one

vars == <<segment, hook, stack, raw, result>>

Least(a, b) == IF a < b THEN a ELSE b
Most(a, b) == IF a < b THEN b ELSE a

\* A call of _raw_score begins.
Frame(text, origin, depth) ==
    [text |-> text, depth |-> depth, phase |-> "words", at |-> 1,
     score |-> IF origin = "ocr" THEN 35 ELSE 0,
     classes |-> IF origin = "ocr" THEN {"multimodal_injection"} ELSE {}]

Init ==
    /\ segment \in [text : Texts, origin : Origins, flagged : BOOLEAN]
    /\ hook \in HookScores \cup {NoHook, HookRaises}
    /\ stack = <<Frame(segment.text, segment.origin, 0)>>
    /\ raw = <<>>
    /\ result = <<>>
--------------------------------------------------------------------------------
Top == Last(stack)
In  == Found[Top.text]
SetTop(frame) == stack' = Append(Front(stack), frame)

Scanning(phase) == stack # <<>> /\ Top.phase = phase

\* The recursion bound of _looks_like_base64_injection.
MayDecode(depth) == depth < 2

\* The next word is an encoded text: it is scanned as plain text, or left alone
\* when it is nested too deep.
Word ==
    /\ Scanning("words")
    /\ Top.at <= Len(In.encoded)
    /\ IF MayDecode(Top.depth)
       THEN stack' = Append(stack, Frame(In.encoded[Top.at], "text", Top.depth + 1))
       ELSE SetTop([Top EXCEPT !.at = @ + 1])
    /\ UNCHANGED <<segment, hook, raw, result>>

\* What a harmless discussion of the subject may mention.
CountedPatterns(in) ==
    {p \in in.patterns : ~(in.benign /\ p.category \in
        {"authority_escalation", "jailbreak", "token_smuggling"})}
CountedMarkers(in) == {m \in in.markers : ~(in.benign /\ m = "generic")}
Compact(in) == in.compact /\ ~in.benign

\* Patterns, structural markers and the compacted text: the heaviest counts.
Weights(in) ==
    {p.weight : p \in CountedPatterns(in)}
    \cup (IF CountedMarkers(in) # {} \/ Compact(in) THEN {75} ELSE {})

\* What they are signs of.
MatchedClasses(in) ==
    {p.category : p \in CountedPatterns(in)}
    \cup (IF CountedMarkers(in) # {} THEN {"authority_escalation"} ELSE {})
    \cup (IF Compact(in) THEN {"obfuscated"} ELSE {})

MatchPatterns ==
    /\ Scanning("words")
    /\ Top.at > Len(In.encoded)
    /\ SetTop([Top EXCEPT
            !.phase = "keywords",
            !.at = 1,
            !.score = Max({@} \cup Weights(In)),
            !.classes = @ \cup MatchedClasses(In)])
    /\ UNCHANGED <<segment, hook, raw, result>>

Counts(in, k) == ~(in.benign /\ k.generic)
WeightOf(in, k) == IF in.command_doc /\ k.rm_rf THEN 25 ELSE k.weight

\* Mutant: the scan is satisfied as soon as the text would be blocked.
Enough_AtBlocking(score) == score >= 65

\* The scan breaks off here.
Enough(score) == score >= 95

\* The next keyword of the vocabulary that the text contains.
AddKeyword ==
    /\ Scanning("keywords")
    /\ Top.at <= Len(In.keywords)
    /\ LET k == In.keywords[Top.at]
           sum == Least(Top.score + WeightOf(In, k), 100)
       IN  SetTop(IF ~Counts(In, k) THEN [Top EXCEPT !.at = @ + 1]
                  ELSE [Top EXCEPT !.at = @ + 1,
                                   !.score = sum,
                                   !.classes = @ \cup {k.class},
                                   !.phase = IF Enough(sum) THEN "return" ELSE @])
    /\ UNCHANGED <<segment, hook, raw, result>>

EndKeywords ==
    /\ Scanning("keywords")
    /\ Top.at > Len(In.keywords)
    /\ SetTop([Top EXCEPT !.phase = "return"])
    /\ UNCHANGED <<segment, hook, raw, result>>

\* Mutant: the scan of the outer text goes on at the same word.
Resume_SameWord(caller, score) ==
    IF score >= 35 THEN [caller EXCEPT !.phase = "return", !.score = 95,
                                       !.classes = {"obfuscated"}]
    ELSE caller

\* An encoded text that is suspicious settles the text around it.
Resume(caller, score) ==
    IF score >= 35 THEN [caller EXCEPT !.phase = "return", !.score = 95,
                                       !.classes = {"obfuscated"}]
    ELSE [caller EXCEPT !.at = @ + 1]

Return ==
    /\ Scanning("return")
    /\ LET callers == Front(stack) IN
        IF callers = <<>>
        THEN /\ stack' = <<>>
             /\ raw' = <<[score |-> Least(Top.score, 100), classes |-> Top.classes]>>
        ELSE /\ stack' = Append(Front(callers), Resume(Last(callers), Top.score))
             /\ UNCHANGED raw
    /\ UNCHANGED <<segment, hook, result>>

\* The hook can only raise the score.
Boosted(score) == IF hook = NoHook THEN score ELSE Most(score, hook)

\* The least score of content from an untrusted authority.
Floor == 25

CleanAction == IF segment.flagged THEN "wrap_and_continue" ELSE "allow"

\* The result when the hook raises: nothing is blocked.
HookFailed(score) ==
    [score |-> score, blocked |-> FALSE, action |-> "flag_and_continue",
     verdict |-> IF score < 35 THEN "clean" ELSE "suspicious"]

\* The result otherwise.
Judge(score, classes) ==
    CASE score >= 85 /\ "secret_exfiltration" \in classes ->
            [score |-> score, blocked |-> TRUE, action |-> "summarize_only",
             verdict |-> "malicious_secret_exfiltration"]
      [] score >= 65 /\ ~(score >= 85 /\ "secret_exfiltration" \in classes) ->
            [score |-> score, blocked |-> TRUE, action |-> "summarize_only",
             verdict |-> "malicious_low_impact"]
      [] 35 <= score /\ score < 65 ->
            [score |-> score, blocked |-> FALSE, action |-> "wrap_and_continue",
             verdict |-> "suspicious"]
      [] score < 35 ->
            [score |-> score, blocked |-> FALSE, action |-> CleanAction,
             verdict |-> "clean"]

Floored(score) == IF segment.flagged THEN Most(score, Floor) ELSE score

detect_segment ==
    /\ raw # <<>> /\ result = <<>>
    /\ LET floored == Floored(raw[1].score)
       IN  result' = <<IF hook = HookRaises THEN HookFailed(floored)
                       ELSE Judge(Boosted(floored), raw[1].classes)>>
    /\ UNCHANGED <<segment, hook, stack, raw>>

Detected == result # <<>> /\ UNCHANGED vars

Step == \/ Word \/ MatchPatterns \/ AddKeyword \/ EndKeywords \/ Return
        \/ detect_segment

Next == Step \/ Detected

Spec == Init /\ [][Next]_vars /\ WF_vars(Step)
--------------------------------------------------------------------------------
(***************************************************************************)
(* Properties.                                                             *)
(***************************************************************************)

\* The reference: what a text is worth, defined without loops and breaks, for a text
\* decoded from "depth" encodings.  Sums(in)[n] is what its first n keywords add up to.
Gain(in, k) == IF Counts(in, k) THEN WeightOf(in, k) ELSE 0

Sums(in) ==
    LET sum[n \in 0 .. Len(in.keywords)] ==
            IF n = 0 THEN 0 ELSE sum[n - 1] + Gain(in, in.keywords[n])
    IN  sum

PlainWorth(in, base) ==
    Least(100, Max({base} \cup Weights(in)) + Sums(in)[Len(in.keywords)])

Worth[depth \in 0 .. 2] ==
    [text \in Texts |->
        [base \in {0, 35} |->
            IF depth < 2 /\ \E i \in DOMAIN Found[text].encoded :
                                Worth[depth + 1][Found[text].encoded[i]][0] >= 35
            THEN 95 ELSE PlainWorth(Found[text], base)]]

\* And what it is a sign of.  KeywordClasses(in, n) is what its first n keywords say.
OriginClasses(base) == IF base = 35 THEN {"multimodal_injection"} ELSE {}

KeywordClasses(in, n) ==
    {in.keywords[i].class : i \in {j \in 1 .. n : Counts(in, in.keywords[j])}}

AllClasses(in, base) ==
    OriginClasses(base) \cup MatchedClasses(in) \cup KeywordClasses(in, Len(in.keywords))

Base == IF segment.origin = "ocr" THEN 35 ELSE 0
Reference == Worth[0][segment.text][Base]
ReferenceClasses == AllClasses(Found[segment.text], Base)

\* The scan, with its recursion and its early end, finds what the text is worth and all
\* it is a sign of: the early end may only hide how far beyond 95 it is, and there what
\* else it is a sign of.
ScanFindsWorth ==
    raw # <<>> =>
        /\ \/ raw[1].score = Reference
           \/ raw[1].score >= 95 /\ Reference >= 95
        /\ raw[1].classes \subseteq ReferenceClasses \cup {"obfuscated"}
        /\ raw[1].score < 95 => raw[1].classes = ReferenceClasses

\* No text makes the scan decode for ever ("bounded recursion",
\* test_detector_regression_repair.py): the call returns.
Returns == <>(result # <<>>)
=================================================================================
