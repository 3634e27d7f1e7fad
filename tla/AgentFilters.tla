----------------------------- MODULE AgentFilters -----------------------------
(***************************************************************************)
(* The AutoGen adapters of both generations: filters that put themselves   *)
(* in front of an agent's _process_received_message, each by reading the   *)
(* method and then replacing it.  A message is one object, delivered to    *)
(* several agents by as many threads; filters of the first version rewrite *)
(* it in place, those of the package raise or leave it alone.              *)
(*                                                                         *)
(* The risk of a content is 0 (below 0.35), 1 or 2 (0.65 and more).        *)
(***************************************************************************)
EXTENDS Naturals, Sequences

CONSTANTS
    Agents, Messages,
    Registrations,   \* filters, each to be registered once, with an agent of its choice
    First,           \* those of the first version; the others are the package's
    SystemTrust,     \* those of the package that were given the trust level SYSTEM
    Deliveries       \* threads that deliver one message each

ASSUME FilterAssumption ==
    First \subseteq Registrations /\ SystemTrust \subseteq Registrations \ First

VARIABLES
    method,    \* agent -> its filters in front of the original method
    reg,       \* registration -> its progress, agent and the method it has read
    message,   \* message -> its content, as of now
    raw,       \* history: message -> the risk it came with
    delivery,  \* thread -> its progress
    lost       \* history: registrations undone by another one

vars == <<method, reg, message, raw, delivery, lost>>

Risks == 0 .. 2
Contents == [risk : Risks, wraps : Nat]

\* A message is a mapping or a mere string, which has no fields to be read.
MessageType == [form : {"mapping", "string"}, content : Contents]

\* "stack": the filters still to come; "read": the content the first of them has
\* read; "expects": the filters that were registered when the delivery began.
DeliveryType ==
    [pc : {"filter", "write", "delivered", "raised"}, agent : Agents, message : Messages,
     stack : Seq(Registrations), read : SUBSET Contents,
     passed : SUBSET Registrations, expects : SUBSET Registrations]

Elements(s) == {s[i] : i \in DOMAIN s}

Init ==
    /\ method = [a \in Agents |-> <<>>]
    /\ reg = [r \in Registrations |-> [pc |-> "no"]]
    /\ raw \in [Messages -> Risks]
    /\ \E form \in [Messages -> {"mapping", "string"}] :
        message = [m \in Messages |->
            [form |-> form[m], content |-> [risk |-> raw[m], wraps |-> 0]]]
    /\ delivery = [d \in Deliveries |-> {}]
    /\ lost = {}
-------------------------------------------------------------------------------
\* register and _patch: the agent's method is read ...
ReadOriginal(r, a) ==
    /\ reg[r].pc = "no"
    /\ reg' = [reg EXCEPT ![r] = [pc |-> "read", agent |-> a, original |-> method[a]]]
    /\ UNCHANGED <<method, message, raw, delivery, lost>>

\* Mutant: the filter goes straight to the agent's own method.
Stacked_Innermost(r) == <<r>>

Stacked(r) == <<r>> \o reg[r].original

\* Mutant: the method is only replaced as long as it is the one that was read.
Replace_IfUnchanged(r) ==
    /\ reg[r].pc = "read"
    /\ LET a == reg[r].agent IN
        method' = IF method[a] = reg[r].original
                  THEN [method EXCEPT ![a] = Stacked(r)] ELSE method
    /\ reg' = [reg EXCEPT ![r].pc = "done"]
    /\ UNCHANGED <<message, raw, delivery, lost>>

\* ... and replaced by one that ends with a call of what was read.
Replace(r) ==
    /\ reg[r].pc = "read"
    /\ LET a == reg[r].agent IN
        /\ method' = [method EXCEPT ![a] = Stacked(r)]
        /\ lost' = lost \cup (Elements(method[a]) \ Elements(reg[r].original))
    /\ reg' = [reg EXCEPT ![r].pc = "done"]
    /\ UNCHANGED <<message, raw, delivery>>

\* A message arrives at an agent.
Deliver(d, a, m) ==
    /\ delivery[d] = {}
    /\ delivery' = [delivery EXCEPT ![d] =
            {[pc |-> "filter", agent |-> a, message |-> m, stack |-> method[a],
              read |-> {}, passed |-> {},
              expects |-> {r \in Registrations : reg[r].pc = "done" /\ reg[r].agent = a}]}]
    /\ UNCHANGED <<method, reg, message, raw, lost>>

Set(d, state) == delivery' = [delivery EXCEPT ![d] = {state}]

\* AACPGateway.process blocks the content, unless it is trusted.
Stops(r, content) == r \notin SystemTrust /\ content.risk = 2

\* patched: the content is screened, and the same message goes on.
PackageFilter(d) ==
    \E s \in delivery[d] :
        /\ s.pc = "filter" /\ s.stack # <<>> /\ Head(s.stack) \notin First
        /\ Set(d, IF Stops(Head(s.stack), message[s.message].content)
                  THEN [s EXCEPT !.pc = "raised"]
                  ELSE [s EXCEPT !.stack = Tail(@), !.passed = @ \cup {Head(s.stack)}])
        /\ UNCHANGED <<method, reg, message, raw, lost>>

\* _process_message reads and screens the content; a string has no content to read.
ReadContent(d) ==
    \E s \in delivery[d] :
        /\ s.pc = "filter" /\ s.stack # <<>> /\ Head(s.stack) \in First
        /\ Set(d, IF message[s.message].form = "string"
                  THEN [s EXCEPT !.pc = "raised"]
                  ELSE [s EXCEPT !.pc = "write", !.read = {message[s.message].content}])
        /\ UNCHANGED <<method, reg, message, raw, lost>>

\* Mutant: a content that was wrapped counts as harmless.
Wrapped_Harmless(content) == {[risk |-> 0, wraps |-> content.wraps + 1]}

\* The wrapper adds text, which can only add to what the detector finds (in the
\* vocabulary that tones a finding down, the wrapper and the usual names of senders
\* do not occur).
Wrapped(content) == {[risk |-> r, wraps |-> content.wraps + 1] : r \in content.risk .. 2}

\* Mutant: wrapping is for what would be blocked.
NeedsWrapping_AtBlocking(content) == content.risk = 2

NeedsWrapping(content) == content.risk >= 1

\* What it makes of the content it has read replaces whatever the content is now.
WriteContent(d) ==
    \E s \in delivery[d] : \E content \in s.read :
        /\ s.pc = "write"
        /\ IF NeedsWrapping(content)
           THEN \E new \in Wrapped(content) :
                    message' = [message EXCEPT ![s.message].content = new]
           ELSE UNCHANGED message
        /\ Set(d, [s EXCEPT !.pc = "filter", !.stack = Tail(@), !.read = {},
                            !.passed = @ \cup {Head(s.stack)}])
        /\ UNCHANGED <<method, reg, raw, lost>>

\* The agent's own method gets the message as it is now.
Original(d) ==
    \E s \in delivery[d] :
        /\ s.pc = "filter" /\ s.stack = <<>>
        /\ Set(d, [s EXCEPT !.pc = "delivered", !.read = {message[s.message].content}])
        /\ UNCHANGED <<method, reg, message, raw, lost>>

Done ==
    /\ \A d \in Deliveries : \E s \in delivery[d] : s.pc \in {"delivered", "raised"}
    /\ \A r \in Registrations : reg[r].pc = "done"
    /\ UNCHANGED vars

Next ==
    \/ \E r \in Registrations : Replace(r) \/ \E a \in Agents : ReadOriginal(r, a)
    \/ \E d \in Deliveries :
        \/ \E a \in Agents, m \in Messages : Deliver(d, a, m)
        \/ PackageFilter(d) \/ ReadContent(d) \/ WriteContent(d) \/ Original(d)
    \/ Done

Spec == Init /\ [][Next]_vars
-------------------------------------------------------------------------------
(***************************************************************************)
(* Properties.                                                             *)
(***************************************************************************)

\* Every variable has its type; only a filter of the first version writes.
TypeOK ==
    /\ method \in [Agents -> Seq(Registrations)]
    /\ reg \in [Registrations -> [pc : {"no"}]
                    \cup [pc : {"read", "done"}, agent : Agents,
                          original : Seq(Registrations)]]
    /\ message \in [Messages -> MessageType]
    /\ raw \in [Messages -> Risks]
    /\ delivery \in [Deliveries -> SUBSET DeliveryType]
    /\ \A d \in Deliveries : \A s \in delivery[d] :
            s.pc = "write" => s.stack # <<>> /\ Head(s.stack) \in First
    /\ lost \subseteq Registrations

Delivered == {s \in UNION {delivery[d] : d \in Deliveries} : s.pc = "delivered"}

\* "every incoming message passes through AACP" (autogen_adapter.py:16): a message
\* reaches an agent only past every filter that was registered with the agent when
\* it arrived, however many there are, unless two registrations overlapped.
EveryFilterPassed == \A s \in Delivered : s.expects \subseteq s.passed \cup lost

\* Only a registration that read the method before another one replaced it can undo
\* that one: whatever is lost was overtaken by one that stays or is lost itself.
LostToOverlap ==
    \A a \in Agents :
        LET done == {r \in Registrations : reg[r].pc = "done" /\ reg[r].agent = a}
        IN  /\ done \ Elements(method[a]) \subseteq lost
            /\ done # {} => Elements(method[a]) # {}

\* The message the threads share is rewritten under their hands: still, what an
\* agent gets past a filter of the first version was wrapped if it came risky.
RiskyNeverPlain ==
    \A s \in Delivered : s.passed \cap First # {} /\ raw[s.message] >= 1 =>
        \A content \in s.read : content.wraps >= 1

\* In whatever order filters are stacked, one of the package stops what it would
\* have stopped alone: wrapping it before does not let it through.
BlockedNeverDelivered ==
    \A s \in Delivered : s.passed \ (First \cup SystemTrust) # {} => raw[s.message] # 2
===============================================================================
