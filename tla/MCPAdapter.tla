------------------------------ MODULE MCPAdapter ------------------------------
(***************************************************************************)
(* aacp_protocol/adapters/mcp_adapter.py: the guard between a tool server  *)
(* and the model, composed with the gate it calls.  A guard makes its calls *)
(* of the gate one after the other; other callers of the gate, and the     *)
(* clearing of the receipts, come in between.                              *)
(***************************************************************************)
EXTENDS AuthorityGate

CONSTANTS
    Guards,                        \* callers of the gate that run the adapter
    Texts,                         \* what a tool server may send
    BLOCKED_DESC, BLOCKED_RESULT   \* what the adapter puts in its place

VARIABLE job   \* guard -> the call of the adapter it runs or ran last, as a set of one

adapterVars == <<vars, job>>

Parts == {"description", "result"}

Kinds == [guard_tool_description |-> <<"description">>,
          guard_tool_result      |-> <<"result">>,
          evaluate_full          |-> <<"description", "result">>]

Sentinel == [description |-> BLOCKED_DESC, result |-> BLOCKED_RESULT]

AdapterInit == Init /\ job = [g \in Guards |-> {}]
-------------------------------------------------------------------------------
Authority(part) ==
    IF part = "description" THEN "retrieved_external" ELSE "tool_output"

\* A call of the gate about the segment built for the part.
About(part, op, effect) ==
    [op |-> op, effect |-> effect, explicit |-> FALSE, risky_sink |-> FALSE,
     level |-> 0, confirmed |-> FALSE,
     sources |-> <<[authority |-> Authority(part), resolved |-> TRUE,
                    verdict |-> "none"]>>]

DescriptionEffects ==
    <<"tool_call", "memory_write", "policy_change", "agent_trust_delegation">>

\* The calls of the gate that guard a part, in their order.
Script(part) ==
    <<About(part, "rag", "prompt_entry")>> \o
    IF part = "description"
    THEN [i \in DOMAIN DescriptionEffects |->
            About(part, "effect", DescriptionEffects[i])]
    ELSE <<About(part, "memory", "memory_write")>>

ASSUME AdapterAssumption ==
    /\ Guards \subseteq Callers
    /\ \A part \in Parts : \A i \in DOMAIN Script(part) : Script(part)[i] \in Calls

\* Mutant: the second check of a result is read like the first.
Objects_Alike(part, step, d) == step = 1 \/ part = "result" => ~d.allowed

\* The answer makes the adapter withhold the part: no entry into the prompt, or
\* a result that could write memory.  What else a description may do is asked
\* for the record only.
Objects(part, step, d) ==
    \/ step = 1 /\ ~d.allowed
    \/ part = "result" /\ step = 2 /\ d.allowed

GuardBegins(g, kind, raw) ==
    /\ \A j \in job[g] : j.parts = <<>>
    /\ job' = [job EXCEPT ![g] =
            {[raw |-> raw, parts |-> Kinds[kind], answers |-> 0,
              safe |-> [p \in Parts |-> {}], trail |-> <<>>]}]
    /\ Begin(g, Script(Kinds[kind][1])[1])

Told(j, g) == [j EXCEPT !.answers = @ + 1, !.trail = @ \o emitted[g]]

\* The first part is through: its text, or the sentinel, is returned.
Finished(j, d) ==
    LET part == Head(j.parts)
        text == IF Objects(part, j.answers, d) THEN Sentinel[part] ELSE j.raw[part]
    IN  [j EXCEPT !.safe[part] = {text}, !.parts = Tail(@), !.answers = 0]

\* The gate has answered: the guard goes on with its next call, in this part or
\* the next, or returns.
GuardGoesOn(g) ==
    /\ pc[g] = "done"
    /\ \E j \in job[g], d \in decision[g] :
       /\ j.parts # <<>>
       /\ LET told   == Told(j, g)
              part   == Head(told.parts)
              isLast == Objects(part, told.answers, d) \/ told.answers = Len(Script(part))
              then   == IF isLast THEN Finished(told, d) ELSE told
          IN
            /\ job' = [job EXCEPT ![g] = {then}]
            /\ IF then.parts = <<>> THEN UNCHANGED vars
               ELSE Begin(g, Script(Head(then.parts))[then.answers + 1])

GateStep ==
    /\ \/ \E c \in Callers : Step(c)
       \/ \E c \in Callers \ Guards, request \in Calls : Begin(c, request)
       \/ clear_receipts
    /\ UNCHANGED job

AdapterNext ==
    \/ GateStep
    \/ \E g \in Guards :
        \/ \E kind \in DOMAIN Kinds, raw \in [Parts -> Texts] : GuardBegins(g, kind, raw)
        \/ GuardGoesOn(g)

AdapterSpec == AdapterInit /\ [][AdapterNext]_adapterVars
-------------------------------------------------------------------------------
(***************************************************************************)
(* Properties.                                                             *)
(***************************************************************************)

\* The receipts of a job about one of its parts.
OnRecord(j, part) ==
    {j.trail[i] : i \in {k \in DOMAIN j.trail : j.trail[k].authority = Authority(part)}}

Obtained(j, part, effect) ==
    \E r \in OnRecord(j, part) : r.effect = effect /\ r.decision = "allowed"

\* The report tells what the gate decided: "..._allowed" is computed from the
\* returned text, so it says that the part may enter the prompt, and that a result
\* could not have written memory, unless the server itself sent the sentinel.
ReportTellsGate ==
    \A g \in Guards : \A j \in job[g], part \in Parts :
        \A text \in j.safe[part] :
            text # Sentinel[part] <=>
                /\ Obtained(j, part, "prompt_entry")
                /\ ~(part = "result" /\ Obtained(j, part, "memory_write"))
                /\ j.raw[part] # Sentinel[part]
===============================================================================
