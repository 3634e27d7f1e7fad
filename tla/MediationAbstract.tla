--------------------------- MODULE MediationAbstract ---------------------------
(***************************************************************************)
(* What complete mediation promises each caller: a call is answered in one *)
(* step, with the decision the policy tables give it, whatever the other   *)
(* callers are doing.                                                      *)
(***************************************************************************)
EXTENDS AuthorityPolicy

CONSTANTS Callers, Calls

VARIABLES asked,    \* caller -> set of at most one call: the one in progress
          answered  \* caller -> set of at most one decision: the latest

vars == <<asked, answered>>

MediationInit ==
    /\ asked = [c \in Callers |-> {}]
    /\ answered = [c \in Callers |-> {}]

AskFor(c, call) ==
    /\ asked[c] = {} \/ answered[c] # {}
    /\ asked' = [asked EXCEPT ![c] = {call}]
    /\ answered' = [answered EXCEPT ![c] = {}]

Answer(c) ==
    /\ answered[c] = {}
    /\ \E call \in asked[c] :
        answered' = [answered EXCEPT ![c] = {Deserved(call)}]
    /\ UNCHANGED asked

MediationNext ==
    \E c \in Callers : Answer(c) \/ \E call \in Calls : AskFor(c, call)

MediationSpec == MediationInit /\ [][MediationNext]_vars
================================================================================
