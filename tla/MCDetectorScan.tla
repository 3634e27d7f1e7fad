----------------------------- MODULE MCDetectorScan -----------------------------
(***************************************************************************)
(* An instance of LlmHooks for TLC: an attack as it is, encoded once,      *)
(* twice and three times, texts whose keywords add up to and beyond the    *)
(* thresholds, and harmless texts that mention the same things; behind the *)
(* hook any library, with remote numbers around the thresholds and beyond  *)
(* 1, or any hook of the application.                                      *)
(***************************************************************************)
EXTENDS LlmHooks

Plain ==
    [encoded |-> <<>>, patterns |-> {}, markers |-> {}, compact |-> FALSE,
     keywords |-> <<>>, benign |-> FALSE, command_doc |-> FALSE]

K(weight, class, generic) ==
    [weight |-> weight, class |-> class, generic |-> generic, rm_rf |-> FALSE]

RmRf == [weight |-> 95, class |-> "tool_sink_injection", generic |-> FALSE,
         rm_rf |-> TRUE]

Encoding(texts) == [Plain EXCEPT !.encoded = texts]

Escalation == [weight |-> 82, category |-> "authority_escalation"]
Leak == [weight |-> 86, category |-> "secret_exfiltration"]

MCTexts == {"empty", "attack", "once", "twice", "thrice", "mixed", "wordy", "drift", "odd",
            "discussion", "manual", "leak", "spaced"}

MCFound ==
    [empty |-> Plain,
     attack |-> [Plain EXCEPT !.patterns = {Escalation},
                              !.keywords = <<K(90, "authority_escalation", TRUE)>>],
     once |-> Encoding(<<"attack">>),
     twice |-> Encoding(<<"once">>),
     thrice |-> Encoding(<<"twice">>),
     mixed |-> Encoding(<<"empty", "thrice", "once">>),
     wordy |-> [Plain EXCEPT !.keywords =
                    <<K(60, "secret_exfiltration", TRUE),
                      K(35, "authority_escalation", FALSE),
                      K(90, "secret_exfiltration", FALSE)>>],
     drift |-> [Plain EXCEPT !.keywords =
                    <<K(45, "authority_escalation", FALSE),
                      K(35, "authority_escalation", FALSE)>>],
     odd |-> [Plain EXCEPT !.keywords = <<K(45, "jailbreak", FALSE)>>],
     discussion |-> [Plain EXCEPT !.benign = TRUE, !.patterns = {Escalation},
                        !.markers = {"generic"}, !.compact = TRUE,
                        !.keywords = <<K(60, "secret_exfiltration", TRUE),
                                       K(35, "authority_escalation", FALSE)>>],
     manual |-> [Plain EXCEPT !.command_doc = TRUE, !.keywords = <<RmRf>>],
     leak |-> [Plain EXCEPT !.patterns = {Leak}, !.markers = {"other"},
                  !.keywords = <<K(5, "secret_exfiltration", FALSE)>>],
     spaced |-> [Plain EXCEPT !.compact = TRUE]]

MCHookScores == 0 .. 100 \cup {8500}

MCSigns ==
    {[phrase |-> hits > 0, override_constraints |-> hits = 4, hits |-> hits] :
        hits \in {0, 2, 4, 6}}
=================================================================================
