------------------------------ MODULE AuditProofs ------------------------------
(***************************************************************************)
(* Proofs about AuditLog, for any number of writers and records.           *)
(***************************************************************************)
EXTENDS AuditLog, FiniteSetTheorems, TLAPS

LEMMA SealType ==
    ASSUME NEW hash \in Hashes, NEW entry \in Entries
    PROVE  seal(hash, entry) \in Hashes
BY DEF seal, Hashes

LEMMA AppendFacts ==
    ASSUME NEW log \in Seq(Events), NEW e \in Events
    PROVE  /\ Append(log, e) \in Seq(Events)
           /\ Len(Append(log, e)) = Len(log) + 1
           /\ Append(log, e)[Len(log) + 1] = e
           /\ \A i \in 1 .. Len(log) : Append(log, e)[i] = log[i]
           /\ Len(log) \in Nat
OBVIOUS

LEMMA InitTypes == Init => TypeOK
<1> SUFFICES ASSUME Init PROVE TypeOK
  OBVIOUS
<1>1. Genesis \in Hashes
  BY DEF Genesis, Hashes
<1>2. <<>> \in Seq(Events)
  OBVIOUS
<1>3. /\ pc \in [Writers -> {"idle", "publish", "append"}]
      /\ event \in [Writers -> SUBSET Events]
      /\ \A w \in Writers : event[w] = {}
  BY DEF Init
<1>4. calls \in Nat /\ overlapped \in BOOLEAN
  BY DEF Init
<1> QED
  BY <1>1, <1>2, <1>3, <1>4 DEF Init, TypeOK

LEMMA TypeStep == TypeOK /\ [Next]_vars => TypeOK'
<1> SUFFICES ASSUME TypeOK, [Next]_vars PROVE TypeOK'
  OBVIOUS
<1> USE DEF TypeOK
<1>1. ASSUME NEW w \in Writers, NEW entry \in Entries, MakeEvent(w, entry) PROVE TypeOK'
  <2> DEFINE e == [entry |-> entry, previous_hash |-> last_hash,
                   event_hash |-> seal(last_hash, entry)]
  <2>1. e \in Events
    BY SealType DEF Events
  <2>2. event' = [event EXCEPT ![w] = {e}]
    BY <1>1 DEF MakeEvent, Predecessor
  <2> HIDE DEF e
  <2> QED
    BY <1>1, <2>1, <2>2 DEF MakeEvent
<1>2. ASSUME NEW w \in Writers, Publish(w) PROVE TypeOK'
  <2>1. \A e \in event[w] : e.event_hash \in Hashes
    BY DEF Events
  <2> QED
    BY <1>2, <2>1 DEF Publish
<1>3. ASSUME NEW w \in Writers, AppendEvent(w) PROVE TypeOK'
  BY <1>3 DEF AppendEvent
<1>4. CASE StartExport \/ EndExport
  BY <1>4 DEF StartExport, EndExport
<1>5. CASE NextLine
  <2>1. Len(exported) + 1 \in 1 .. Len(events)
    BY <1>5 DEF NextLine
  <2>2. events[Len(exported) + 1] \in Events
    BY <2>1
  <2> QED
    BY <1>5, <2>2 DEF NextLine
<1>6. CASE Finished \/ UNCHANGED vars
  BY <1>6 DEF Finished, vars
<1> QED
  BY <1>1, <1>2, <1>3, <1>4, <1>5, <1>6 DEF Next

\* Type correctness, for any number of writers and records.
THEOREM TypeCorrect == Spec => []TypeOK
BY InitTypes, TypeStep, PTL DEF Spec
-------------------------------------------------------------------------------
\* The hash the next event of a chained log has to name.
End(log) == IF log = <<>> THEN Genesis ELSE log[Len(log)].event_hash

LEMMA AppendChained ==
    ASSUME NEW log \in Seq(Events), NEW e \in Events, Chained(log),
           e.previous_hash = End(log), e.event_hash = seal(e.previous_hash, e.entry)
    PROVE  Chained(Append(log, e)) /\ End(Append(log, e)) = e.event_hash
<1> DEFINE longer == Append(log, e)
<1>1. /\ longer \in Seq(Events) /\ Len(longer) = Len(log) + 1
      /\ longer[Len(log) + 1] = e /\ \A i \in 1 .. Len(log) : longer[i] = log[i]
      /\ Len(log) \in Nat /\ log = <<>> <=> Len(log) = 0
  BY AppendFacts
<1>2. longer # <<>>
  BY <1>1
<1> HIDE DEF longer
<1>3. ASSUME NEW i \in DOMAIN longer
      PROVE  /\ longer[i].previous_hash = IF i = 1 THEN Genesis ELSE longer[i - 1].event_hash
             /\ longer[i].event_hash = seal(longer[i].previous_hash, longer[i].entry)
  <2>1. i \in 1 .. Len(log) + 1
    BY <1>1
  <2>2. CASE i \in 1 .. Len(log)
    <3>1. i \in DOMAIN log /\ (i # 1 => i - 1 \in 1 .. Len(log))
      BY <2>2, <1>1
    <3> QED
      BY <3>1, <2>2, <1>1 DEF Chained
  <2>3. CASE i = Len(log) + 1
    <3>1. i # 1 => i - 1 \in 1 .. Len(log) /\ i - 1 = Len(log)
      BY <2>3, <1>1
    <3> QED
      BY <3>1, <2>3, <1>1 DEF End
  <2> QED
    BY <2>1, <2>2, <2>3, <1>1
<1>4. Chained(longer)
  BY <1>3 DEF Chained
<1>5. End(longer) = e.event_hash
  BY <1>1, <1>2 DEF End
<1> QED
  BY <1>4, <1>5 DEF longer

\* As long as no two calls of record overlap, one writer at most is busy; what it has
\* made continues the log, and so does last_hash before it publishes.
OneByOne ==
    ~overlapped =>
        /\ Chained(events)
        /\ \A v, w \in Writers : pc[v] # "idle" /\ pc[w] # "idle" => v = w
        /\ (\A w \in Writers : pc[w] # "append") => last_hash = End(events)
        /\ \A w \in Writers : \A e \in event[w] :
            /\ pc[w] # "idle" => /\ e.previous_hash = End(events)
                                 /\ e.event_hash = seal(e.previous_hash, e.entry)
            /\ pc[w] = "append" => last_hash = e.event_hash

\* What has been exported is a beginning of the log.
ExportInv ==
    /\ Len(exported) <= Len(events)
    /\ \A i \in 1 .. Len(exported) : exported[i] = events[i]

LEMMA OneByOneInit == Init => OneByOne /\ ExportInv
BY DEF Init, OneByOne, ExportInv, Chained, End, Genesis

LEMMA OneByOneStep == TypeOK /\ OneByOne /\ [Next]_vars => OneByOne'
<1> SUFFICES ASSUME TypeOK, OneByOne, [Next]_vars, ~overlapped' PROVE OneByOne'
  BY DEF OneByOne
<1>1. ASSUME NEW w \in Writers, NEW entry \in Entries, MakeEvent(w, entry) PROVE OneByOne'
  <2>1. \A v \in Writers : pc[v] = "idle"
    BY <1>1 DEF MakeEvent
  <2>2. ~overlapped /\ last_hash = End(events)
    BY <1>1, <2>1 DEF MakeEvent, OneByOne
  <2> DEFINE e == [entry |-> entry, previous_hash |-> last_hash,
                   event_hash |-> seal(last_hash, entry)]
  <2>3. /\ e.previous_hash = End(events) /\ e.event_hash = seal(e.previous_hash, e.entry)
    BY <2>2
  <2>4. /\ \A v \in Writers : event'[v] = IF v = w THEN {e} ELSE event[v]
        /\ \A v \in Writers : pc'[v] = IF v = w THEN "publish" ELSE "idle"
        /\ UNCHANGED <<last_hash, events>>
    BY <1>1, <2>1 DEF MakeEvent, Predecessor, TypeOK
  <2> HIDE DEF e
  <2>5. PICK made : made.previous_hash = End(events)
                    /\ made.event_hash = seal(made.previous_hash, made.entry)
                    /\ \A v \in Writers : event'[v] = IF v = w THEN {made} ELSE event[v]
    BY <2>3, <2>4
  <2>6. \A v \in Writers : \A f \in event'[v] :
            /\ pc'[v] # "idle" => /\ f.previous_hash = End(events')
                                  /\ f.event_hash = seal(f.previous_hash, f.entry)
            /\ pc'[v] # "append"
    BY <2>4, <2>5
  <2> QED
    BY <2>2, <2>4, <2>6 DEF OneByOne
<1>2. ASSUME NEW w \in Writers, Publish(w) PROVE OneByOne'
  <2> PICK e \in event[w] : last_hash' = e.event_hash
    BY <1>2 DEF Publish
  <2>1. /\ pc[w] = "publish" /\ ~overlapped
        /\ \A v \in Writers : pc'[v] = IF v = w THEN "append" ELSE pc[v]
        /\ UNCHANGED <<event, events>>
    BY <1>2 DEF Publish, TypeOK
  <2>2. \A v \in Writers : v # w => pc[v] = "idle"
    BY <2>1 DEF OneByOne
  <2>3. \A f \in event[w] : f = e
    BY DEF TypeOK
  <2>4. \A f \in event[w] : /\ f.previous_hash = End(events)
                            /\ f.event_hash = seal(f.previous_hash, f.entry)
                            /\ last_hash' = f.event_hash
    BY <2>1, <2>3 DEF OneByOne
  <2>5. Chained(events') /\ End(events') = End(events)
    BY <2>1 DEF OneByOne
  <2>6. \A v \in Writers : v # w => pc'[v] = "idle"
    BY <2>1, <2>2
  <2>7. pc'[w] = "append"
    BY <2>1
  <2>8. \A v \in Writers : \A f \in event'[v] :
            /\ pc'[v] # "idle" => /\ f.previous_hash = End(events')
                                  /\ f.event_hash = seal(f.previous_hash, f.entry)
            /\ pc'[v] = "append" => last_hash' = f.event_hash
    BY <2>1, <2>4, <2>5, <2>6
  <2> QED
    BY <2>5, <2>6, <2>7, <2>8 DEF OneByOne
<1>3. ASSUME NEW w \in Writers, AppendEvent(w) PROVE OneByOne'
  <2> PICK e \in event[w] : events' = Append(events, e)
    BY <1>3 DEF AppendEvent
  <2>1. /\ pc[w] = "append" /\ ~overlapped
        /\ \A v \in Writers : pc'[v] = IF v = w THEN "idle" ELSE pc[v]
        /\ \A v \in Writers : event'[v] = IF v = w THEN {} ELSE event[v]
        /\ last_hash' = last_hash
    BY <1>3 DEF AppendEvent, TypeOK
  <2>2. \A v \in Writers : v # w => pc[v] = "idle"
    BY <2>1 DEF OneByOne
  <2>3. Chained(events') /\ End(events') = e.event_hash
    BY <2>1, AppendChained DEF OneByOne, TypeOK
  <2> QED
    BY <2>1, <2>2, <2>3 DEF OneByOne
<1>4. CASE StartExport \/ NextLine \/ EndExport \/ Finished \/ UNCHANGED vars
  BY <1>4 DEF StartExport, NextLine, EndExport, Finished, vars, OneByOne
<1> QED
  BY <1>1, <1>2, <1>3, <1>4 DEF Next

LEMMA ExportStep == TypeOK /\ ExportInv /\ [Next]_vars => ExportInv'
<1> SUFFICES ASSUME TypeOK, ExportInv, [Next]_vars PROVE ExportInv'
  OBVIOUS
<1>1. ASSUME NEW w \in Writers, AppendEvent(w) PROVE ExportInv'
  <2> PICK e \in event[w] : events' = Append(events, e)
    BY <1>1 DEF AppendEvent
  <2>1. /\ Len(events') = Len(events) + 1 /\ Len(events) \in Nat
        /\ \A i \in 1 .. Len(events) : events'[i] = events[i]
    BY AppendFacts DEF TypeOK
  <2>2. exported' = exported /\ Len(exported) \in Nat
    BY <1>1 DEF AppendEvent, TypeOK
  <2> QED
    BY <2>1, <2>2 DEF ExportInv
<1>2. CASE NextLine
  <2>1. Len(exported) < Len(events) /\ events' = events
        /\ exported' = Append(exported, events[Len(exported) + 1])
    BY <1>2 DEF NextLine
  <2>2. events[Len(exported) + 1] \in Events
    BY <2>1 DEF TypeOK
  <2>3. /\ Len(exported') = Len(exported) + 1 /\ Len(exported) \in Nat
        /\ exported'[Len(exported) + 1] = events[Len(exported) + 1]
        /\ \A i \in 1 .. Len(exported) : exported'[i] = exported[i]
    BY <2>1, <2>2, AppendFacts DEF TypeOK
  <2>4. Len(events) \in Nat
    BY DEF TypeOK
  <2> QED
    BY <2>1, <2>3, <2>4 DEF ExportInv
<1>3. CASE (\E w \in Writers : (\E entry \in Entries : MakeEvent(w, entry)) \/ Publish(w))
           \/ StartExport \/ EndExport \/ Finished \/ UNCHANGED vars
  BY <1>3 DEF MakeEvent, Publish, StartExport, EndExport, Finished, vars, ExportInv
<1> QED
  BY <1>1, <1>2, <1>3 DEF Next

LEMMA SpecOneByOne == Spec => [](TypeOK /\ OneByOne /\ ExportInv)
BY OneByOneInit, OneByOneStep, ExportStep, TypeCorrect, PTL DEF Spec

\* However many threads record, the log is one chain as long as no two calls overlap.
THEOREM LogIsChained == Spec => []ChainedUnlessOverlapping
<1>1. OneByOne => ChainedUnlessOverlapping
  BY DEF OneByOne, ChainedUnlessOverlapping
<1> QED
  BY <1>1, SpecOneByOne, PTL

\* And so is what to_jsonl makes of it while records go on.
THEOREM ExportIsChained == Spec => []ExportVerifies
<1>1. TypeOK /\ OneByOne /\ ExportInv => ExportVerifies
  <2> SUFFICES ASSUME TypeOK, OneByOne, ExportInv, ~overlapped, NEW i \in DOMAIN exported
               PROVE  /\ exported[i].previous_hash =
                            IF i = 1 THEN Genesis ELSE exported[i - 1].event_hash
                      /\ exported[i].event_hash =
                            seal(exported[i].previous_hash, exported[i].entry)
    BY DEF ExportVerifies, Chained
  <2>1. /\ i \in DOMAIN events /\ exported[i] = events[i]
        /\ i # 1 => exported[i - 1] = events[i - 1]
    BY DEF TypeOK, ExportInv
  <2>2. Chained(events)
    BY DEF OneByOne
  <2> QED
    BY <2>1, <2>2 DEF Chained
<1> QED
  BY <1>1, SpecOneByOne, PTL

\* A hash that is published continues the chain of the latest one.
LEMMA PublishExtends ==
    ASSUME TypeOK, OneByOne, ~overlapped, NEW w \in Writers, Publish(w)
    PROVE  Promise!Extend
<1> PICK e \in event[w] : last_hash' = e.event_hash
  BY DEF Publish
<1>1. pc[w] = "publish"
  BY DEF Publish
<1>2. \A v \in Writers : pc[v] # "append"
  BY <1>1 DEF OneByOne
<1>3. e.previous_hash = last_hash /\ e.event_hash = seal(e.previous_hash, e.entry)
  BY <1>1, <1>2 DEF OneByOne
<1>4. e.entry \in Entries
  BY DEF TypeOK, Events
<1> QED
  BY <1>3, <1>4 DEF seal, Promise!Extend

\* However many threads record, every change of the latest hash adds one entry to
\* one chain, as AuditChain promises, until two calls overlap.
THEOREM OneChainKept == Spec => OneChain
<1>1. Init => Promise!ChainInit
  BY DEF Init, Genesis, Promise!ChainInit
<1>2. TypeOK /\ OneByOne /\ [Next]_vars => [Promise!Extend \/ overlapped']_last_hash
  <2> SUFFICES ASSUME TypeOK, OneByOne, [Next]_vars, ~overlapped'
               PROVE  Promise!Extend \/ UNCHANGED last_hash
    OBVIOUS
  <2>1. ASSUME NEW w \in Writers, Publish(w) PROVE Promise!Extend
    <3>1. ~overlapped
      BY <2>1 DEF Publish
    <3> QED
      BY <2>1, <3>1, PublishExtends
  <2>2. CASE (\E w \in Writers : (\E entry \in Entries : MakeEvent(w, entry)) \/ AppendEvent(w))
             \/ StartExport \/ NextLine \/ EndExport \/ Finished \/ UNCHANGED vars
    BY <2>2 DEF MakeEvent, AppendEvent, StartExport, NextLine, EndExport, Finished, vars
  <2> QED
    BY <2>1, <2>2 DEF Next
<1> QED
  BY <1>1, <1>2, SpecOneByOne, PTL DEF Spec, OneChain
-------------------------------------------------------------------------------
(***************************************************************************)
(* Overlapping calls.  A hash that an event may be chained to belongs to   *)
(* an event of the log or of a writer at work, and stays known: a writer   *)
(* hands its event over to the log.                                        *)
(***************************************************************************)
Busy == {w \in Writers : pc[w] # "idle"}

ForkInv ==
    /\ IsFiniteSet(Busy)
    /\ Len(events) + Cardinality(Busy) = calls
    /\ \A w \in Writers : pc[w] = "idle" => event[w] = {}
    /\ last_hash \in Known \cup {Genesis}
    /\ \A w \in Writers : \A e \in event[w] : e.previous_hash \in Known \cup {Genesis}
    /\ \A i \in DOMAIN events : events[i].previous_hash \in Known \cup {Genesis}

\* An event becomes known and the others stay so.
LEMMA KnownMade ==
    ASSUME NEW w \in Writers, NEW e, event[w] = {}, events' = events,
           \A v \in Writers : event'[v] = IF v = w THEN {e} ELSE event[v]
    PROVE  Known \subseteq Known'
BY DEF Known

\* A writer that hands its event over forgets nothing that only it knew.
LEMMA KnownAppended ==
    ASSUME TypeOK, NEW w \in Writers, NEW e \in event[w], events' = Append(events, e),
           \A v \in Writers : event'[v] = IF v = w THEN {} ELSE event[v]
    PROVE  Known \subseteq Known'
<1>1. e \in Events /\ \A f \in event[w] : f = e
  BY DEF TypeOK
<1>2. /\ DOMAIN events' = 1 .. Len(events) + 1 /\ DOMAIN events = 1 .. Len(events)
      /\ Len(events) \in Nat
      /\ events'[Len(events) + 1] = e
      /\ \A i \in 1 .. Len(events) : events'[i] = events[i]
  BY <1>1, AppendFacts DEF TypeOK
<1>3. ASSUME NEW i \in DOMAIN events PROVE events[i].event_hash \in Known'
  <2>1. i \in DOMAIN events' /\ events'[i] = events[i]
    BY <1>2
  <2> QED
    BY <2>1 DEF Known
<1>4. e.event_hash \in Known'
  <2>1. Len(events) + 1 \in DOMAIN events'
    BY <1>2
  <2> QED
    BY <1>2, <2>1 DEF Known
<1>5. ASSUME NEW v \in Writers, NEW f \in event[v] PROVE f.event_hash \in Known'
  <2>1. CASE v = w
    BY <1>1, <1>4, <2>1
  <2>2. CASE v # w
    BY <2>2 DEF Known
  <2> QED
    BY <2>1, <2>2
<1> QED
  BY <1>3, <1>5 DEF Known

LEMMA ForkInit == Init => ForkInv
<1> SUFFICES ASSUME Init PROVE ForkInv
  OBVIOUS
<1>1. Busy = {} /\ events = <<>> /\ calls = 0 /\ \A w \in Writers : event[w] = {}
  BY DEF Init, Busy
<1>2. IsFiniteSet({}) /\ Cardinality({}) = 0
  BY FS_EmptySet
<1> QED
  BY <1>1, <1>2 DEF Init, ForkInv

LEMMA ForkStep == TypeOK /\ ForkInv /\ [Next]_vars => ForkInv'
<1> SUFFICES ASSUME TypeOK, ForkInv, [Next]_vars PROVE ForkInv'
  OBVIOUS
<1>0. Cardinality(Busy) \in Nat /\ Len(events) \in Nat /\ calls \in Nat
  BY FS_CardinalityType DEF ForkInv, TypeOK
<1>1. ASSUME NEW w \in Writers, NEW entry \in Entries, MakeEvent(w, entry) PROVE ForkInv'
  <2>1. PICK e : e.previous_hash = last_hash /\ event' = [event EXCEPT ![w] = {e}]
    BY <1>1 DEF MakeEvent, Predecessor
  <2>2. /\ \A v \in Writers : event'[v] = IF v = w THEN {e} ELSE event[v]
        /\ \A v \in Writers : pc'[v] = IF v = w THEN "publish" ELSE pc[v]
        /\ pc[w] = "idle" /\ calls' = calls + 1
        /\ UNCHANGED <<last_hash, events>>
    BY <1>1, <2>1 DEF MakeEvent, TypeOK
  <2>3. Known \subseteq Known'
    BY <2>2, KnownMade DEF ForkInv
  <2>4. Busy' = Busy \cup {w} /\ w \notin Busy
    BY <2>2 DEF Busy
  <2>5. IsFiniteSet(Busy') /\ Cardinality(Busy') = Cardinality(Busy) + 1
    BY <2>4, FS_AddElement DEF ForkInv
  <2>6. Len(events') + Cardinality(Busy') = calls'
    BY <1>0, <2>2, <2>5 DEF ForkInv
  <2>7. \A v \in Writers : pc'[v] = "idle" => event'[v] = {}
    BY <2>2 DEF ForkInv
  <2>8. \A v \in Writers : \A f \in event'[v] : f.previous_hash \in Known' \cup {Genesis}
    BY <2>1, <2>2, <2>3 DEF ForkInv
  <2>9. /\ last_hash' \in Known' \cup {Genesis}
        /\ \A i \in DOMAIN events' : events'[i].previous_hash \in Known' \cup {Genesis}
    BY <2>2, <2>3 DEF ForkInv
  <2> QED
    BY <2>5, <2>6, <2>7, <2>8, <2>9 DEF ForkInv
<1>2. ASSUME NEW w \in Writers, Publish(w) PROVE ForkInv'
  <2>1. PICK e \in event[w] : last_hash' = e.event_hash
    BY <1>2 DEF Publish
  <2>2. /\ \A v \in Writers : pc'[v] = IF v = w THEN "append" ELSE pc[v]
        /\ pc[w] = "publish"
        /\ UNCHANGED <<event, events, calls>>
    BY <1>2 DEF Publish, TypeOK
  <2>3. Known' = Known
    BY <2>2 DEF Known
  <2>4. Busy' = Busy
    BY <2>2 DEF Busy
  <2>5. last_hash' \in Known
    BY <2>1 DEF Known
  <2> QED
    BY <2>2, <2>3, <2>4, <2>5 DEF ForkInv
<1>3. ASSUME NEW w \in Writers, AppendEvent(w) PROVE ForkInv'
  <2>1. PICK e \in event[w] : events' = Append(events, e)
    BY <1>3 DEF AppendEvent
  <2>2. /\ \A v \in Writers : event'[v] = IF v = w THEN {} ELSE event[v]
        /\ \A v \in Writers : pc'[v] = IF v = w THEN "idle" ELSE pc[v]
        /\ pc[w] = "append" /\ UNCHANGED <<last_hash, calls>>
    BY <1>3 DEF AppendEvent, TypeOK
  <2>3. Known \subseteq Known'
    BY <2>1, <2>2, KnownAppended
  <2>4. Busy' = Busy \ {w} /\ w \in Busy
    BY <2>2 DEF Busy
  <2>5. IsFiniteSet(Busy') /\ Cardinality(Busy') = Cardinality(Busy) - 1
    BY <2>4, FS_RemoveElement DEF ForkInv
  <2>6. /\ Len(events') = Len(events) + 1 /\ DOMAIN events' = 1 .. Len(events) + 1
        /\ events'[Len(events) + 1] = e
        /\ \A i \in 1 .. Len(events) : events'[i] = events[i]
        /\ DOMAIN events = 1 .. Len(events)
    <3>1. e \in Events
      BY DEF TypeOK
    <3> QED
      BY <2>1, <3>1, AppendFacts DEF TypeOK
  <2>7. Len(events') + Cardinality(Busy') = calls'
    BY <1>0, <2>2, <2>5, <2>6 DEF ForkInv
  <2>8. \A v \in Writers : pc'[v] = "idle" => event'[v] = {}
    BY <2>2 DEF ForkInv
  <2>9. ASSUME NEW i \in DOMAIN events'
        PROVE  events'[i].previous_hash \in Known' \cup {Genesis}
    <3>1. CASE i \in DOMAIN events
      BY <2>3, <2>6, <3>1 DEF ForkInv
    <3>2. CASE i \notin DOMAIN events
      <4>1. i = Len(events) + 1
        BY <1>0, <2>6, <3>2
      <4> QED
        BY <2>3, <2>6, <4>1 DEF ForkInv
    <3> QED
      BY <3>1, <3>2
  <2>10. /\ last_hash' \in Known' \cup {Genesis}
         /\ \A v \in Writers : \A f \in event'[v] : f.previous_hash \in Known' \cup {Genesis}
    BY <2>2, <2>3 DEF ForkInv
  <2> QED
    BY <2>5, <2>7, <2>8, <2>9, <2>10 DEF ForkInv
<1>4. CASE StartExport \/ NextLine \/ EndExport \/ Finished \/ UNCHANGED vars
  <2>1. UNCHANGED <<pc, event, last_hash, events, calls>>
    BY <1>4 DEF StartExport, NextLine, EndExport, Finished, vars
  <2>2. Known' = Known /\ Busy' = Busy
    BY <2>1 DEF Known, Busy
  <2> QED
    BY <2>1, <2>2 DEF ForkInv
<1> QED
  BY <1>1, <1>2, <1>3, <1>4 DEF Next

\* However many calls of record overlap, each one leaves one event, and the predecessor
\* of every event is in the log or about to be.
THEOREM OverlapsOnlyFork == Spec => []ForksAtMost
<1>1. ForkInv => ForksAtMost
  BY DEF ForkInv, ForksAtMost, Busy
<1> QED
  BY <1>1, ForkInit, ForkStep, TypeCorrect, PTL DEF Spec
===============================================================================
