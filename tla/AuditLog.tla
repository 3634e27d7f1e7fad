------------------------------- MODULE AuditLog -------------------------------
(***************************************************************************)
(* audit.py with the AuditEvent of types.py: the hash-chained log of the   *)
(* first version of the protocol.  record reads last_hash, seals an event  *)
(* of its own and publishes it in two steps, without a lock; to_jsonl      *)
(* walks the list while it may grow.                                       *)
(*                                                                         *)
(* A hash is the sequence of the entries it covers, the latest one last:   *)
(* two hashes are equal exactly if the same entries were sealed in them.   *)
(***************************************************************************)
EXTENDS Naturals, Sequences, SequencesExt, FiniteSets

CONSTANTS
    Writers,     \* threads that call record
    Materials,   \* event type, segment, decision and reason of an event
    Times,       \* what time.time may answer; it need not advance in between
    MaxRecords   \* bound: calls of record

Entries == [material : Materials, timestamp : Times]
Genesis == <<>>
Hashes == Seq(Entries)

Events == [entry : Entries, previous_hash : Hashes, event_hash : Hashes]

ASSUME AuditAssumption == MaxRecords \in Nat

VARIABLES
    pc,          \* writer -> "idle", "publish" or "append"
    event,       \* writer -> the events it has made and not yet appended
    last_hash, events,
    exported,    \* the lines to_jsonl has produced
    exporting,   \* "no", "yes" or "done"
    calls,       \* history: calls of record so far
    overlapped   \* history: two calls of record have been in progress at once

vars == <<pc, event, last_hash, events, exported, exporting, calls, overlapped>>

Init ==
    /\ pc = [w \in Writers |-> "idle"]
    /\ event = [w \in Writers |-> {}]
    /\ last_hash = Genesis
    /\ events = <<>>
    /\ exported = <<>>
    /\ exporting = "no"
    /\ calls = 0
    /\ overlapped = FALSE
-------------------------------------------------------------------------------
\* Mutant: the previous hash is left out of what is hashed.
seal_ContentOnly(previous_hash, entry) == <<entry>>

\* AuditEvent.seal: the hash covers the event and, by its hash, all before it.
seal(previous_hash, entry) == Append(previous_hash, entry)

\* Mutant: events are chained to the latest event of the list.
Predecessor_LastListed ==
    IF events = <<>> THEN Genesis ELSE Last(events).previous_hash

Predecessor == last_hash

\* record makes its event from last_hash and seals it; nobody else sees it yet.
MakeEvent(w, entry) ==
    /\ pc[w] = "idle"
    /\ calls < MaxRecords
    /\ event' = [event EXCEPT ![w] =
            {[entry |-> entry, previous_hash |-> Predecessor,
              event_hash |-> seal(Predecessor, entry)]}]
    /\ pc' = [pc EXCEPT ![w] = "publish"]
    /\ calls' = calls + 1
    /\ overlapped' = (overlapped \/ \E v \in Writers : pc[v] # "idle")
    /\ UNCHANGED <<last_hash, events, exported, exporting>>

Publish(w) ==
    /\ pc[w] = "publish"
    /\ \E e \in event[w] : last_hash' = e.event_hash
    /\ pc' = [pc EXCEPT ![w] = "append"]
    /\ UNCHANGED <<event, events, exported, exporting, calls, overlapped>>

\* Mutant: an event that is no longer the latest is not worth keeping.
AppendEvent_IfLatest(w) ==
    /\ pc[w] = "append"
    /\ \E e \in event[w] :
        events' = IF e.event_hash = last_hash THEN Append(events, e) ELSE events
    /\ event' = [event EXCEPT ![w] = {}]
    /\ pc' = [pc EXCEPT ![w] = "idle"]
    /\ UNCHANGED <<last_hash, exported, exporting, calls, overlapped>>

AppendEvent(w) ==
    /\ pc[w] = "append"
    /\ \E e \in event[w] : events' = Append(events, e)
    /\ event' = [event EXCEPT ![w] = {}]
    /\ pc' = [pc EXCEPT ![w] = "idle"]
    /\ UNCHANGED <<last_hash, exported, exporting, calls, overlapped>>

StartExport ==
    /\ exporting = "no"
    /\ exporting' = "yes"
    /\ UNCHANGED <<pc, event, last_hash, events, exported, calls, overlapped>>

\* Mutant: the export begins with the latest events, as a tail would.
NextLine_Newest ==
    /\ exporting = "yes"
    /\ Len(exported) < Len(events)
    /\ exported' = Append(exported, events[Len(events) - Len(exported)])
    /\ UNCHANGED <<pc, event, last_hash, events, exporting, calls, overlapped>>

\* The iterator of the list also yields what is appended in the meantime.
NextLine ==
    /\ exporting = "yes"
    /\ Len(exported) < Len(events)
    /\ exported' = Append(exported, events[Len(exported) + 1])
    /\ UNCHANGED <<pc, event, last_hash, events, exporting, calls, overlapped>>

EndExport ==
    /\ exporting = "yes"
    /\ Len(exported) >= Len(events)
    /\ exporting' = "done"
    /\ UNCHANGED <<pc, event, last_hash, events, exported, calls, overlapped>>

\* All calls have been made and the log was exported.
Finished ==
    /\ calls = MaxRecords /\ exporting = "done"
    /\ \A w \in Writers : pc[w] = "idle"
    /\ UNCHANGED vars

Next ==
    \/ \E w \in Writers :
        (\E entry \in Entries : MakeEvent(w, entry)) \/ Publish(w) \/ AppendEvent(w)
    \/ StartExport \/ NextLine \/ EndExport
    \/ Finished

Spec == Init /\ [][Next]_vars
-------------------------------------------------------------------------------
(***************************************************************************)
(* Properties.                                                             *)
(***************************************************************************)

\* Every variable has its type, and a writer holds one event at most.
TypeOK ==
    /\ pc \in [Writers -> {"idle", "publish", "append"}]
    /\ event \in [Writers -> SUBSET Events]
    /\ \A w \in Writers : \A e, f \in event[w] : e = f
    /\ last_hash \in Hashes
    /\ events \in Seq(Events)
    /\ exported \in Seq(Events)
    /\ exporting \in {"no", "yes", "done"}
    /\ calls \in Nat
    /\ overlapped \in BOOLEAN

\* A log in which every event names its predecessor in the list.
Chained(log) ==
    \A i \in DOMAIN log :
        /\ log[i].previous_hash = IF i = 1 THEN Genesis ELSE log[i - 1].event_hash
        /\ log[i].event_hash = seal(log[i].previous_hash, log[i].entry)

\* Hash-chained (test_audit_log_hash_chained): as long as no two calls of record
\* overlap, whichever threads make them, every event is chained to the one
\* before it in the list.
ChainedUnlessOverlapping == ~overlapped => Chained(events)

\* An export taken while records go on verifies, as a beginning of the log.
ExportVerifies == ~overlapped => Chained(exported)

\* The hashes an event may be chained to.
Known == {events[i].event_hash : i \in DOMAIN events}
         \cup UNION {{e.event_hash : e \in event[w]} : w \in Writers}

\* However calls overlap, they fork the chain and do no worse: no event is lost or
\* recorded twice, and the predecessor of every event is in the log or about to be,
\* so each one leads back to the beginning.
ForksAtMost ==
    /\ Len(events) + Cardinality({w \in Writers : pc[w] # "idle"}) = calls
    /\ \A i \in DOMAIN events : events[i].previous_hash \in Known \cup {Genesis}

\* As long as no two calls of record overlap, whichever threads make them, the
\* promise of AuditChain is kept: the latest hash always stands for one chain, to
\* which every change of it adds one entry.
Promise == INSTANCE AuditChain WITH chain <- last_hash
OneChain == Promise!ChainInit /\ [][Promise!Extend \/ overlapped']_last_hash
===============================================================================
