---------------------------- MODULE ResidencyProofs ----------------------------
(***************************************************************************)
(* Proofs about ResidencyHarness and the memory bound of ResidencyMemory,  *)
(* for any models, footprints, profiles and work items.                    *)
(***************************************************************************)
EXTENDS ResidencyMemory, FiniteSetTheorems, TLAPS

\* run_item is executing.
Busy == Window \cup {"start", "snapshot", "unload", "barrier"}

\* An item that is being served exists and its route has a profile.
BusyInv == pc \in Busy => item \in ItemIndex /\ HasProfile(item)

\* Exactly while generate is in progress is there a request at the server, and
\* it is for the model of the item.
RequestInv == request = IF pc = "generating" THEN ModelOf(item) ELSE NoModel

TypeInv == TypeOK /\ BusyInv /\ RequestInv

LEMMA BoundTypes ==
    Len(WorkItems) \in Nat /\ MaxForeignLoads \in Nat /\ MaxFailedReads \in Nat
BY ConfigAssumption

LEMMA ModelOfType ==
    ASSUME NEW k \in ItemIndex, HasProfile(k)
    PROVE  ModelOf(k) \in Models
BY ConfigAssumption DEF HasProfile, ModelOf

LEMMA ItemIdType ==
    ASSUME NEW k \in ItemIndex
    PROVE  WorkItems[k].item_id \in ItemIds
<1> DEFINE WorkItem == [item_id : ItemIds, route : Routes, prompt : Prompts,
                        expected_route : Routes \cup {NoRoute}]
<1>1. WorkItems \in Seq(WorkItem)
  BY ConfigAssumption
<1>2. WorkItems[k] \in WorkItem
  <2> HIDE DEF WorkItem
  <2> QED
    BY <1>1 DEF ItemIndex
<1> QED
  BY <1>2

LEMMA ItemResultType ==
    ASSUME NEW k \in ItemIndex, HasProfile(k),
           NEW raised \in BOOLEAN, NEW taken \in SUBSET Readings
    PROVE  ItemResult(k, raised, taken) \in ItemResults
BY ModelOfType DEF ItemResult, ItemResults, ValidSingleResident

LEMMA SummaryType ==
    ASSUME results \in Seq(ItemResults)
    PROVE  summarize \in Summaries
<1>1. IsFiniteSet(DOMAIN results)
  BY FS_Interval
<1>2. ASSUME NEW S \in SUBSET DOMAIN results PROVE Cardinality(S) \in Nat
  BY <1>1, FS_Subset, FS_CardinalityType
<1>3. Cardinality({k \in DOMAIN results : ~results[k].error}) \in Nat
  BY <1>2
<1>4. Cardinality({k \in DOMAIN results : results[k].valid_single_resident}) \in Nat
  BY <1>2
<1>5. Len(results) \in Nat
  OBVIOUS
<1> QED
  BY <1>3, <1>4, <1>5 DEF summarize, Summaries

LEMMA WitnessType ==
    ASSUME truth \in [ItemIndex -> [overlap : BOOLEAN, served : BOOLEAN]],
           NEW k \in ItemIndex, NEW now, Witness(k, now)
    PROVE  truth' \in [ItemIndex -> [overlap : BOOLEAN, served : BOOLEAN]]
BY DEF Witness

LEMMA ObserveType ==
    ASSUME TypeInv, NEW now, Observe(now)
    PROVE  truth' \in [ItemIndex -> [overlap : BOOLEAN, served : BOOLEAN]]
<1>1. CASE pc \in Window
  BY <1>1, WitnessType DEF TypeInv, TypeOK, BusyInv, Busy, Observe
<1>2. CASE pc \notin Window
  BY <1>2 DEF TypeInv, TypeOK, Observe
<1> QED
  BY <1>1, <1>2

LEMMA ReadType ==
    ASSUME resident \in SUBSET Models, failed \in 0 .. MaxFailedReads,
           NEW reading, Read(reading)
    PROVE  reading \in Readings /\ failed' \in 0 .. MaxFailedReads
<1>1. CASE reading = Answer /\ UNCHANGED failed
  BY <1>1 DEF Answer, Readings
<1>2. CASE reading = NoAnswer /\ failed < MaxFailedReads /\ failed' = failed + 1
  <2>1. failed' \in 0 .. MaxFailedReads
    BY <1>2, BoundTypes
  <2>2. reading \in Readings
    BY <1>2 DEF NoAnswer, Readings
  <2> QED
    BY <2>1, <2>2
<1> QED
  BY <1>1, <1>2 DEF Read

LEMMA TypeInit == Init => TypeInv
<1> SUFFICES ASSUME Init PROVE TypeInv
  OBVIOUS
<1>1. TypeOK
  <2>1. truth \in [ItemIndex -> [overlap : BOOLEAN, served : BOOLEAN]]
    BY DEF Init
  <2>2. NoArtifact \in SampleRowsType
    BY DEF NoArtifact, SampleRowsType
  <2>3. NoSummary \in Summaries
    BY DEF NoSummary, Summaries
  <2>4. held \in [ItemIndex -> Readings]
    BY DEF Init, Readings
  <2>5. results \in Seq(ItemResults)
    BY DEF Init
  <2>6. item \in 1 .. Len(WorkItems) + 1
    BY BoundTypes DEF Init
  <2>7. foreign \in 0 .. MaxForeignLoads /\ failed \in 0 .. MaxFailedReads
    BY BoundTypes DEF Init
  <2>8. /\ spc \in [ItemIndex -> {"new", "check", "poll", "append", "done"}]
        /\ stop \in [ItemIndex -> BOOLEAN]
        /\ samples \in [ItemIndex -> SUBSET Readings]
    BY DEF Init
  <2>9. /\ samples_by_item \in SampleRowsType
        /\ csv \in SampleRowsType
        /\ svg \in SampleRowsType
        /\ json \in Summaries
    BY <2>2, <2>3 DEF Init
  <2>10. /\ pc \in MainPcs
         /\ installed \in SUBSET Models
         /\ todo \in SUBSET Models
    BY DEF Init, MainPcs
  <2>12. exit_code \in 0 .. 2
    BY DEF Init
  <2>13. expired \in BOOLEAN /\ error \in BOOLEAN
    BY DEF Init
  <2>11. /\ resident \in SUBSET Models
         /\ unloading \in SUBSET Models
         /\ pinned \in SUBSET Models
         /\ request \in Models \cup {NoModel}
         /\ abandoned \in SUBSET Models
    BY DEF Init
  <2> QED
    BY <2>1, <2>4, <2>5, <2>6, <2>7, <2>8, <2>9, <2>10, <2>11,
       <2>12, <2>13 DEF TypeOK
<1>2. BusyInv /\ RequestInv
  BY DEF Init, BusyInv, RequestInv, Busy, Window
<1> QED
  BY <1>1, <1>2 DEF TypeInv

LEMMA TypeStep == TypeInv /\ [OpenNext]_vars => TypeInv'
<1> SUFFICES ASSUME TypeInv, [OpenNext]_vars PROVE TypeInv'
  OBVIOUS
<1> USE DEF TypeInv, TypeOK, BusyInv, RequestInv, Busy, Window, MainPcs,
            SampleRowsType, HasProfile, ModelOf, mainVars, outputVars,
            samplerVars, serverVars, Exit
<1>1. ASSUME NEW listed \in SUBSET Models, ListModels(listed) PROVE TypeInv'
  BY <1>1 DEF ListModels, ItemIndex
<1>2. CASE NextItem
  BY <1>2, BoundTypes DEF NextItem, ItemIndex
<1>3. CASE SnapshotLoaded
  BY <1>3 DEF SnapshotLoaded
<1>4. ASSUME NEW m \in Models, Unload(m) PROVE TypeInv'
  BY <1>4 DEF Unload
<1>5. CASE EnterBarrier
  BY <1>5 DEF EnterBarrier
<1>6. CASE BarrierPoll
  BY <1>6 DEF BarrierPoll
<1>7. CASE BarrierTimeout
  BY <1>7 DEF BarrierTimeout
<1>8. CASE Raises
  BY <1>8 DEF Raises
<1>9. CASE DeadlineExpires
  BY <1>9 DEF DeadlineExpires
<1>10. CASE StartSampler
  BY <1>10, WitnessType DEF StartSampler
<1>11. CASE SendGenerate
  BY <1>11, ModelOfType DEF SendGenerate
<1>12. CASE GenerateReturns
  BY <1>12 DEF GenerateReturns
<1>13. CASE GenerateRaises
  <2>1. request \in Models
    BY <1>13, ModelOfType DEF GenerateRaises
  <2>2. abandoned' \in SUBSET Models
    BY <1>13, <2>1 DEF GenerateRaises
  <2> QED
    BY <1>13, <2>2 DEF GenerateRaises
<1>14. CASE SetStop
  BY <1>14 DEF SetStop
<1>15. CASE JoinReturns
  BY <1>15 DEF JoinReturns
<1>16. CASE JoinTimesOut
  BY <1>16 DEF JoinTimesOut
<1>17. CASE FinishItem
  <2>1. PICK reading \in {Answer, NoAnswer} :
            /\ Read(reading)
            /\ samples' = [samples EXCEPT ![item] = samples[item] \cup {reading}]
            /\ results' = Append(results, ItemResult(item, error, samples[item] \cup {reading}))
            /\ samples_by_item' = [samples_by_item EXCEPT
                    ![WorkItems[item].item_id] = samples[item] \cup {reading}]
    BY <1>17 DEF FinishItem
  <2>2. item \in ItemIndex /\ HasProfile(item)
    BY <1>17 DEF FinishItem
  <2>3. reading \in Readings /\ failed' \in 0 .. MaxFailedReads
    BY <2>1, ReadType
  <2>4. samples[item] \cup {reading} \in SUBSET Readings
    BY <2>2, <2>3
  <2>5. results' \in Seq(ItemResults)
    BY <2>1, <2>2, <2>4, ItemResultType
  <2>6. samples_by_item' \in [ItemIds -> SUBSET Readings]
    BY <2>1, <2>2, <2>4, ItemIdType
  <2>7. samples' \in [ItemIndex -> SUBSET Readings]
    BY <2>1, <2>4
  <2>8. item' \in 1 .. Len(WorkItems) + 1
    BY <1>17, <2>2, BoundTypes DEF FinishItem, ItemIndex
  <2> QED
    BY <1>17, <2>3, <2>5, <2>6, <2>7, <2>8 DEF FinishItem
<1>18. CASE WriteJson
  BY <1>18, SummaryType DEF WriteJson
<1>19. CASE WriteCsv
  BY <1>19 DEF WriteCsv, SampleRows
<1>20. CASE WriteSvg
  BY <1>20 DEF WriteSvg, SampleRows
<1>21. CASE Validate
  BY <1>21 DEF Validate
<1>22. ASSUME NEW k \in ItemIndex, SamplerCheck(k) PROVE TypeInv'
  BY <1>22 DEF SamplerCheck
<1>23. ASSUME NEW k \in ItemIndex, SamplerPoll(k) PROVE TypeInv'
  <2>1. PICK reading \in {Answer, NoAnswer} :
            Read(reading) /\ held' = [held EXCEPT ![k] = reading]
    BY <1>23 DEF SamplerPoll
  <2>2. reading \in Readings /\ failed' \in 0 .. MaxFailedReads
    BY <2>1, ReadType
  <2> QED
    BY <1>23, <2>1, <2>2 DEF SamplerPoll
<1>24. ASSUME NEW k \in ItemIndex, SamplerAppend(k) PROVE TypeInv'
  <2>1. [loaded |-> {}, failed |-> FALSE] \in Readings
    BY DEF Readings
  <2> QED
    BY <1>24, <2>1 DEF SamplerAppend
<1>25. CASE ServeRequest
  BY <1>25, ObserveType DEF ServeRequest
<1>26. ASSUME NEW m \in Models, FinishUnload(m) PROVE TypeInv'
  BY <1>26 DEF FinishUnload
<1>27. ASSUME NEW m \in Models, KeepAliveExpires(m) PROVE TypeInv'
  BY <1>27 DEF KeepAliveExpires
<1>28. ASSUME NEW m \in Models, LateLoad(m) PROVE TypeInv'
  BY <1>28, ObserveType DEF LateLoad
<1>29. ASSUME NEW m \in Models, ForeignLoad(m) PROVE TypeInv'
  BY <1>29, ObserveType, BoundTypes DEF ForeignLoad
<1>30. CASE UNCHANGED vars
  BY <1>30 DEF vars
<1> QED
  BY <1>1, <1>2, <1>3, <1>4, <1>5, <1>6, <1>7, <1>8, <1>9, <1>10, <1>11, <1>12,
     <1>13, <1>14, <1>15, <1>16, <1>17, <1>18, <1>19, <1>20, <1>21, <1>22, <1>23,
     <1>24, <1>25, <1>26, <1>27, <1>28, <1>29, <1>30
  DEF OpenNext, Next, Main, Sampler, Server, Interference, Ended

\* Type correctness of the harness, whatever other clients of the server do.
THEOREM TypeCorrect == OpenSpec => []TypeOK
<1>1. TypeInv => TypeOK
  BY DEF TypeInv
<1> QED
  BY <1>1, TypeInit, TypeStep, PTL DEF OpenSpec

LEMMA OpenTypeInv == OpenSpec => []TypeInv
BY TypeInit, TypeStep, PTL DEF OpenSpec

LEMMA SpecIsOpen == Spec => OpenSpec
<1>1. [Next]_vars => [OpenNext]_vars
  BY DEF OpenNext
<1> QED
  BY <1>1, PTL DEF Spec, OpenSpec
-------------------------------------------------------------------------------
(***************************************************************************)
(* No unload is in flight while an item runs.  The unloads of an item are  *)
(* of resident models other than its own; they are the only unloads, and   *)
(* a model with a pending unload stays resident until it is unloaded, so a *)
(* clear barrier has none left.                                            *)
(***************************************************************************)
UnloadInv ==
    IF pc \in {"unload", "barrier"}
    THEN /\ ModelOf(item) \notin todo
         /\ unloading \subseteq resident \ {ModelOf(item)}
    ELSE pc # "exit" => unloading = {}

LEMMA UnloadStep == TypeInv /\ UnloadInv /\ [OpenNext]_vars => UnloadInv'
<1> SUFFICES ASSUME TypeInv, UnloadInv, [OpenNext]_vars PROVE UnloadInv'
  OBVIOUS
<1> USE DEF UnloadInv, ModelOf, mainVars, outputVars, samplerVars, serverVars, Exit
<1>1. CASE Main
  <2>1. ASSUME NEW listed \in SUBSET Models, ListModels(listed) PROVE UnloadInv'
    BY <2>1 DEF ListModels
  <2>2. CASE NextItem \/ SnapshotLoaded
    BY <2>2 DEF NextItem, SnapshotLoaded
  <2>3. ASSUME NEW m \in Models, Unload(m) PROVE UnloadInv'
    BY <2>3 DEF Unload
  <2>4. CASE EnterBarrier \/ BarrierTimeout
    BY <2>4 DEF EnterBarrier, BarrierTimeout
  <2>5. CASE BarrierPoll
    BY <2>5 DEF BarrierPoll, BarrierClear
  <2>6. CASE StartSampler \/ SendGenerate \/ GenerateReturns \/ GenerateRaises
    BY <2>6 DEF StartSampler, SendGenerate, GenerateReturns, GenerateRaises
  <2>7. CASE SetStop \/ JoinReturns \/ JoinTimesOut \/ FinishItem
    BY <2>7 DEF SetStop, JoinReturns, JoinTimesOut, FinishItem
  <2>8. CASE WriteJson \/ WriteCsv \/ WriteSvg \/ Validate
    BY <2>8 DEF WriteJson, WriteCsv, WriteSvg, Validate
  <2> QED
    BY <1>1, <2>1, <2>2, <2>3, <2>4, <2>5, <2>6, <2>7, <2>8 DEF Main
<1>2. CASE Raises \/ DeadlineExpires
  BY <1>2 DEF Raises, DeadlineExpires
<1>3. ASSUME NEW k \in ItemIndex, Sampler(k) PROVE UnloadInv'
  BY <1>3 DEF Sampler, SamplerCheck, SamplerPoll, SamplerAppend
<1>4. CASE ServeRequest
  BY <1>4 DEF ServeRequest
<1>5. ASSUME NEW m \in Models, FinishUnload(m) \/ KeepAliveExpires(m)
      PROVE  UnloadInv'
  BY <1>5 DEF FinishUnload, KeepAliveExpires
<1>6. ASSUME NEW m \in Models, LateLoad(m) \/ ForeignLoad(m)
      PROVE  UnloadInv'
  BY <1>6 DEF LateLoad, ForeignLoad
<1>7. CASE UNCHANGED vars
  BY <1>7 DEF vars
<1> QED
  BY <1>1, <1>2, <1>3, <1>4, <1>5, <1>6, <1>7
  DEF OpenNext, Next, Server, Interference, Ended

\* An unload never takes away the model the item in progress was routed to.
THEOREM UnloadBarrierHolds == OpenSpec => []NoUnloadInFlight
<1>1. Init => UnloadInv
  BY DEF Init, UnloadInv
<1>2. UnloadInv => NoUnloadInFlight
  BY DEF UnloadInv, NoUnloadInFlight, Window
<1> QED
  BY <1>1, <1>2, UnloadStep, OpenTypeInv, PTL DEF OpenSpec
-------------------------------------------------------------------------------
(***************************************************************************)
(* Serialized residency, under the paper's assumptions: from the barrier   *)
(* of an item to its end the server holds no model but the item's, and     *)
(* between items what it holds only shrinks.                               *)
(***************************************************************************)
SerialInv ==
    /\ pc \in Window \cup {"start"} => resident \subseteq {ModelOf(item)}
    /\ SerializedResidency

LEMMA SerialStep == TypeInv /\ SerialInv /\ [Next]_vars => SerialInv'
<1> SUFFICES ASSUME TypeInv, SerialInv, [Next]_vars PROVE SerialInv'
  OBVIOUS
<1> USE DEF TypeInv, RequestInv, SerialInv, SerializedResidency, Armed, Window,
            ModelOf, mainVars, outputVars, samplerVars, serverVars, Exit
<1>1. CASE Main
  <2>1. ASSUME NEW listed \in SUBSET Models, ListModels(listed) PROVE SerialInv'
    BY <2>1 DEF ListModels
  <2>2. CASE NextItem \/ SnapshotLoaded
    BY <2>2 DEF NextItem, SnapshotLoaded
  <2>3. ASSUME NEW m \in Models, Unload(m) PROVE SerialInv'
    BY <2>3 DEF Unload
  <2>4. CASE EnterBarrier \/ BarrierTimeout
    BY <2>4 DEF EnterBarrier, BarrierTimeout
  <2>5. CASE BarrierPoll
    BY <2>5 DEF BarrierPoll, BarrierClear
  <2>6. CASE StartSampler \/ SendGenerate \/ GenerateReturns \/ GenerateRaises
    BY <2>6 DEF StartSampler, SendGenerate, GenerateReturns, GenerateRaises
  <2>7. CASE SetStop \/ JoinReturns \/ JoinTimesOut \/ FinishItem
    BY <2>7 DEF SetStop, JoinReturns, JoinTimesOut, FinishItem
  <2>8. CASE WriteJson \/ WriteCsv \/ WriteSvg \/ Validate
    BY <2>8 DEF WriteJson, WriteCsv, WriteSvg, Validate
  <2> QED
    BY <1>1, <2>1, <2>2, <2>3, <2>4, <2>5, <2>6, <2>7, <2>8 DEF Main
<1>2. CASE Raises \/ DeadlineExpires
  BY <1>2 DEF Raises, DeadlineExpires
<1>3. ASSUME NEW k \in ItemIndex, Sampler(k) PROVE SerialInv'
  BY <1>3 DEF Sampler, SamplerCheck, SamplerPoll, SamplerAppend
<1>4. CASE ServeRequest
  <2>1. pc = "generating" /\ request = ModelOf(item)
    BY <1>4, ConfigAssumption DEF ServeRequest
  <2>2. resident' \subseteq {ModelOf(item)}
    BY <1>4, <2>1 DEF ServeRequest
  <2> QED
    BY <1>4, <2>2 DEF ServeRequest
<1>5. ASSUME NEW m \in Models, FinishUnload(m) \/ KeepAliveExpires(m)
      PROVE  SerialInv'
  BY <1>5 DEF FinishUnload, KeepAliveExpires
<1>6. CASE UNCHANGED vars
  BY <1>6 DEF vars
<1> QED
  BY <1>1, <1>2, <1>3, <1>4, <1>5, <1>6 DEF Next, Server, Ended

LEMMA SpecSerialInv == Spec => [](TypeInv /\ SerialInv)
<1>1. Init => SerialInv
  BY DEF Init, SerialInv, SerializedResidency, Armed, Window
<1> QED
  BY <1>1, SerialStep, SpecIsOpen, OpenTypeInv, PTL DEF Spec

\* Once the first barrier is passed the server never holds two models.
THEOREM ResidencySerialized == Spec => []SerializedResidency
<1>1. SerialInv => SerializedResidency
  BY DEF SerialInv
<1> QED
  BY <1>1, SpecSerialInv, PTL

LEMMA StepKeepsPromise ==
    TypeInv /\ SerialInv /\ [Next]_vars => [Promise!AbstractNext]_resident
<1> SUFFICES ASSUME TypeInv, SerialInv, [Next]_vars
             PROVE  [Promise!AbstractNext]_resident
  OBVIOUS
<1> USE DEF mainVars, outputVars, samplerVars, serverVars
<1>1. CASE Main
  BY <1>1 DEF Main, ListModels, NextItem, SnapshotLoaded, Unload, EnterBarrier,
     BarrierPoll, BarrierTimeout, StartSampler, SendGenerate, GenerateReturns,
     GenerateRaises, SetStop, JoinReturns, JoinTimesOut, FinishItem, WriteJson,
     WriteCsv, WriteSvg, Validate
<1>2. CASE Raises \/ DeadlineExpires
  BY <1>2 DEF Raises, DeadlineExpires
<1>3. ASSUME NEW k \in ItemIndex, Sampler(k) PROVE UNCHANGED resident
  BY <1>3 DEF Sampler, SamplerCheck, SamplerPoll, SamplerAppend
<1>4. CASE ServeRequest
  <2>1. pc = "generating" /\ request = ModelOf(item) /\ request \in Models
    BY <1>4, ConfigAssumption DEF ServeRequest, TypeInv, RequestInv
  <2>2. resident \subseteq {request}
    BY <2>1 DEF SerialInv, Window
  <2>3. Promise!EnterAlone(request)
    BY <1>4, <2>2 DEF ServeRequest, Promise!EnterAlone
  <2> QED
    BY <2>1, <2>3 DEF Promise!AbstractNext
<1>5. ASSUME NEW m \in Models, FinishUnload(m) \/ KeepAliveExpires(m)
      PROVE  [Promise!AbstractNext]_resident
  <2>1. resident' = resident \ {m}
    BY <1>5 DEF FinishUnload, KeepAliveExpires
  <2>2. m \in resident => Promise!Leave(m)
    BY <2>1 DEF Promise!Leave
  <2>3. m \notin resident => UNCHANGED resident
    BY <2>1
  <2> QED
    BY <2>2, <2>3 DEF Promise!AbstractNext
<1>6. CASE UNCHANGED vars
  BY <1>6 DEF vars
<1> QED
  BY <1>1, <1>2, <1>3, <1>4, <1>5, <1>6 DEF Next, Server, Ended

\* The harness, alone with its server, implements ResidencyAbstract.
THEOREM PromiseKept == Spec => Serialized
<1>1. Init => Promise!AbstractInit
  BY DEF Init, Promise!AbstractInit
<1> QED
  BY <1>1, StepKeepsPromise, SpecSerialInv, PTL
  DEF Spec, Serialized, Promise!AbstractSpec
-------------------------------------------------------------------------------
(***************************************************************************)
(* The verdicts.  What they rest on changes in few kinds of steps.         *)
(***************************************************************************)
StopSet == {"join", "finish"}

\* A step that touches neither samples nor results and loads no model.
Quiet ==
    /\ UNCHANGED <<item, results, samples_by_item, samplerVars, truth>>
    /\ resident' \subseteq resident
    /\ pc' \in Window <=> pc \in Window
    /\ pc' \in StopSet => pc \in StopSet

\* A model comes in.
Loading ==
    /\ UNCHANGED <<pc, item, error, results, samples_by_item, samplerVars>>
    /\ resident' \in SUBSET Models /\ resident \subseteq resident'
    /\ Observe(resident')

LEMMA KindsOfSteps ==
    ASSUME TypeInv, [OpenNext]_vars
    PROVE  \/ Quiet \/ Loading \/ StartSampler \/ SetStop \/ FinishItem
           \/ \E k \in ItemIndex : Sampler(k)
<1> USE DEF mainVars, outputVars, samplerVars, serverVars, Exit, Window, StopSet
<1>1. CASE Main
  <2>1. ASSUME NEW listed \in SUBSET Models, ListModels(listed) PROVE Quiet
    BY <2>1 DEF ListModels, Quiet
  <2>2. CASE NextItem \/ SnapshotLoaded
    BY <2>2 DEF NextItem, SnapshotLoaded, Quiet
  <2>3. ASSUME NEW m \in Models, Unload(m) PROVE Quiet
    BY <2>3 DEF Unload, Quiet
  <2>4. CASE EnterBarrier \/ BarrierPoll \/ BarrierTimeout
    BY <2>4 DEF EnterBarrier, BarrierPoll, BarrierTimeout, Quiet
  <2>5. CASE SendGenerate \/ GenerateReturns \/ GenerateRaises
    BY <2>5 DEF SendGenerate, GenerateReturns, GenerateRaises, Quiet
  <2>6. CASE JoinReturns \/ JoinTimesOut
    BY <2>6 DEF JoinReturns, JoinTimesOut, Quiet
  <2>7. CASE WriteJson \/ WriteCsv \/ WriteSvg \/ Validate
    BY <2>7 DEF WriteJson, WriteCsv, WriteSvg, Validate, Quiet
  <2> QED
    BY <1>1, <2>1, <2>2, <2>3, <2>4, <2>5, <2>6, <2>7 DEF Main
<1>2. CASE Raises \/ DeadlineExpires
  BY <1>2 DEF Raises, DeadlineExpires, Quiet
<1>3. CASE ServeRequest
  BY <1>3 DEF ServeRequest, Loading, TypeInv, TypeOK
<1>4. ASSUME NEW m \in Models, FinishUnload(m) \/ KeepAliveExpires(m)
      PROVE  Quiet
  BY <1>4 DEF FinishUnload, KeepAliveExpires, Quiet
<1>5. ASSUME NEW m \in Models, LateLoad(m) \/ ForeignLoad(m)
      PROVE  Loading
  BY <1>5 DEF LateLoad, ForeignLoad, Loading, TypeInv, TypeOK
<1>6. CASE UNCHANGED vars
  BY <1>6 DEF vars, Quiet
<1> QED
  BY <1>1, <1>2, <1>3, <1>4, <1>5, <1>6 DEF OpenNext, Next, Server, Interference, Ended

LEMMA OnlyFinishItemReports ==
    ASSUME TypeInv, [OpenNext]_vars
    PROVE  FinishItem \/ UNCHANGED <<item, results, samples_by_item>>
BY KindsOfSteps
DEF Quiet, Loading, StartSampler, SetStop, Sampler, SamplerCheck, SamplerPoll,
    SamplerAppend, mainVars, outputVars

\* A result that was computed from what it shows.
Computed(k, r) == r = ItemResult(k, r.error, r.resident_model_sets)

\* Results are appended one per item, computed from the samples they show, and the
\* artifacts are only written when all items are through.
ResultsInv ==
    /\ Len(results) = item - 1
    /\ \A k \in DOMAIN results : Computed(k, results[k])
    /\ pc \in {"write_json", "write_csv", "write_svg", "validate"}
        => item = Len(WorkItems) + 1

LEMMA ResultFields ==
    ASSUME NEW k, NEW raised, NEW taken, NEW r, r = ItemResult(k, raised, taken)
    PROVE  /\ r.error = raised
           /\ r.resident_model_sets = taken
           /\ r.valid_single_resident <=> ValidSingleResident(ModelOf(k), raised, taken)
           /\ Computed(k, r)
<1>1. r.error = raised /\ r.resident_model_sets = taken
  BY DEF ItemResult
<1>2. r.valid_single_resident <=> ValidSingleResident(ModelOf(k), raised, taken)
  BY DEF ItemResult
<1> QED
  BY <1>1, <1>2 DEF Computed

\* Whose results are there.
LEMMA ResultsDomain ==
    ASSUME TypeInv, ResultsInv
    PROVE  /\ DOMAIN results = 1 .. item - 1
           /\ DOMAIN results \subseteq ItemIndex
           /\ item \notin DOMAIN results
           /\ item \in Nat /\ Len(WorkItems) \in Nat
BY BoundTypes DEF TypeInv, TypeOK, ResultsInv, ItemIndex

\* The end of an item adds one result and changes no other.
LEMMA OneMoreResult ==
    ASSUME TypeInv, ResultsInv, FinishItem
    PROVE  \E reading \in {Answer, NoAnswer} :
            LET taken == samples[item] \cup {reading} IN
            /\ item \in ItemIndex
            /\ Read(reading)
            /\ samples' = [samples EXCEPT ![item] = taken]
            /\ Len(results') = item
            /\ DOMAIN results' = DOMAIN results \cup {item}
            /\ \A k \in DOMAIN results : results'[k] = results[k]
            /\ results'[item] = ItemResult(item, error, taken)
            /\ samples_by_item' =
                [samples_by_item EXCEPT ![WorkItems[item].item_id] = taken]
<1>1. PICK reading \in {Answer, NoAnswer} :
        /\ Read(reading)
        /\ samples' = [samples EXCEPT ![item] = samples[item] \cup {reading}]
        /\ results' = Append(results, ItemResult(item, error, samples[item] \cup {reading}))
        /\ samples_by_item' = [samples_by_item EXCEPT
                ![WorkItems[item].item_id] = samples[item] \cup {reading}]
  BY DEF FinishItem
<1>2. item \in ItemIndex
  BY DEF FinishItem, TypeInv, BusyInv, Busy, Window
<1>3. results \in Seq(ItemResults) /\ Len(results) = item - 1 /\ item \in Nat
  BY ResultsDomain DEF TypeInv, TypeOK, ResultsInv
<1> DEFINE new == ItemResult(item, error, samples[item] \cup {reading})
<1>4. results' = Append(results, new)
  BY <1>1
<1> HIDE DEF new
<1>5. /\ Len(results') = item
      /\ DOMAIN results' = DOMAIN results \cup {item}
      /\ \A k \in DOMAIN results : results'[k] = results[k]
      /\ results'[item] = new
  BY <1>3, <1>4
<1> QED
  BY <1>1, <1>2, <1>5 DEF new

LEMMA ResultsStep == TypeInv /\ ResultsInv /\ [OpenNext]_vars => ResultsInv'
<1> SUFFICES ASSUME TypeInv, ResultsInv, [OpenNext]_vars PROVE ResultsInv'
  OBVIOUS
<1>1. CASE FinishItem
  <2>1. Len(results') = item /\ \A k \in DOMAIN results' : Computed(k, results'[k])
    <3>1. PICK taken :
            /\ Len(results') = item
            /\ DOMAIN results' = DOMAIN results \cup {item}
            /\ \A k \in DOMAIN results : results'[k] = results[k]
            /\ results'[item] = ItemResult(item, error, taken)
      BY <1>1, OneMoreResult
    <3>2. PICK r : r = results'[item]
      OBVIOUS
    <3>3. Computed(item, r)
      BY <3>1, <3>2, ResultFields
    <3> QED
      BY <3>1, <3>2, <3>3 DEF ResultsInv
  <2>2. item' = item + 1 /\ pc' = "item"
    BY <1>1 DEF FinishItem
  <2> QED
    BY <2>1, <2>2, ResultsDomain
    DEF ResultsInv, Computed, ItemResult, ModelOf, SelectedRoute, ValidSingleResident
<1>2. CASE UNCHANGED <<item, results>>
  <2>1. pc' \in {"write_json", "write_csv", "write_svg", "validate"}
            => \/ pc \in {"write_json", "write_csv", "write_svg", "validate"}
               \/ NextItem /\ item \notin ItemIndex
    <3> USE DEF mainVars, outputVars, samplerVars, serverVars, Exit
    <3>1. CASE Main
      BY <3>1 DEF Main, ListModels, NextItem, SnapshotLoaded, Unload, EnterBarrier,
         BarrierPoll, BarrierTimeout, StartSampler, SendGenerate, GenerateReturns,
         GenerateRaises, SetStop, JoinReturns, JoinTimesOut, FinishItem, WriteJson,
         WriteCsv, WriteSvg, Validate
    <3>2. CASE ~Main
      BY <3>2 DEF OpenNext, Next, Raises, DeadlineExpires, Sampler, SamplerCheck,
         SamplerPoll, SamplerAppend, Server, ServeRequest, FinishUnload,
         KeepAliveExpires, Interference, LateLoad, ForeignLoad, Ended, vars
    <3> QED
      BY <3>1, <3>2
  <2>2. item \notin ItemIndex => item = Len(WorkItems) + 1
    BY BoundTypes DEF ItemIndex, TypeInv, TypeOK
  <2> QED
    BY <1>2, <2>1, <2>2
    DEF ResultsInv, Computed, ItemResult, ModelOf, SelectedRoute, ValidSingleResident
<1> QED
  BY <1>1, <1>2, OnlyFinishItemReports

LEMMA OpenResultsInv == OpenSpec => [](TypeInv /\ ResultsInv)
<1>1. Init => ResultsInv
  BY DEF Init, ResultsInv
<1> QED
  BY <1>1, ResultsStep, OpenTypeInv, PTL DEF OpenSpec
-------------------------------------------------------------------------------
(***************************************************************************)
(* A verdict is grounded in what the server held while its item ran.       *)
(***************************************************************************)

\* A reading of the loaded models that the history of item k accounts for.
Seen(k, loaded) ==
    /\ Cardinality(loaded) > 1 => truth[k].overlap
    /\ ModelOf(k) \in loaded => truth[k].served

\* The same of the history after a step.
SeenNext(k, loaded) ==
    /\ Cardinality(loaded) > 1 => truth'[k].overlap
    /\ ModelOf(k) \in loaded => truth'[k].served

\* A sampler reads nothing before its item starts.
FreshInv ==
    \A k \in ItemIndex :
        k > item \/ (k = item /\ pc \notin Window) =>
            spc[k] = "new" /\ held[k].loaded = {}

\* While an item runs, what the server holds and what its sampler has read is
\* accounted for; of an item that is over, what its result shows.
SeenInv ==
    /\ pc \in Window =>
        /\ Seen(item, resident)
        /\ Seen(item, held[item].loaded)
        /\ \A s \in samples[item] : Seen(item, s.loaded)
    /\ \A k \in DOMAIN results : \A s \in results[k].resident_model_sets : Seen(k, s.loaded)

LEMMA SmallerSets ==
    ASSUME NEW loaded \in SUBSET Models, NEW smaller \in SUBSET loaded
    PROVE  /\ Cardinality(smaller) \in Nat /\ Cardinality(loaded) \in Nat
           /\ Cardinality(smaller) <= Cardinality(loaded)
<1>1. IsFiniteSet(loaded)
  BY ServerAssumption, FS_Subset
<1>2. IsFiniteSet(smaller) /\ Cardinality(smaller) <= Cardinality(loaded)
  BY <1>1, FS_Subset
<1> QED
  BY <1>1, <1>2, FS_CardinalityType

LEMMA SeenSmaller ==
    ASSUME NEW k, NEW loaded \in SUBSET Models, NEW smaller \in SUBSET loaded,
           Seen(k, loaded)
    PROVE  Seen(k, smaller)
BY SmallerSets DEF Seen

LEMMA SeenNothing ==
    ASSUME NEW k
    PROVE  Seen(k, {})
BY FS_EmptySet DEF Seen

\* The history of an item that runs accounts for what it is told, and for whatever it
\* did before.
LEMMA WitnessSees ==
    ASSUME TypeInv, NEW k \in ItemIndex, NEW now, Witness(k, now)
    PROVE  /\ SeenNext(k, now)
           /\ \A j \in ItemIndex : \A loaded : Seen(j, loaded) => SeenNext(j, loaded)
<1>1. truth \in [ItemIndex -> [overlap : BOOLEAN, served : BOOLEAN]]
  BY DEF TypeInv, TypeOK
<1>2. /\ truth'[k].overlap = (truth[k].overlap \/ Cardinality(now) > 1)
      /\ truth'[k].served = (truth[k].served \/ ModelOf(k) \in now)
      /\ \A j \in ItemIndex \ {k} : truth'[j] = truth[j]
  BY <1>1 DEF Witness
<1>3. \A j \in ItemIndex : \A loaded : Seen(j, loaded) => SeenNext(j, loaded)
  BY <1>2 DEF Seen, SeenNext
<1> QED
  BY <1>2, <1>3 DEF SeenNext

\* What a sampler reads.
LEMMA ReadingSeen ==
    ASSUME NEW k, Seen(k, resident), NEW reading \in {Answer, NoAnswer}
    PROVE  Seen(k, reading.loaded)
BY SeenNothing DEF Answer, NoAnswer

LEMMA RunningItem ==
    ASSUME TypeInv, pc \in Window \cup {"start"}
    PROVE  item \in ItemIndex /\ item \in Nat
BY BoundTypes DEF TypeInv, BusyInv, Busy, ItemIndex

LEMMA FreshStep == TypeInv /\ FreshInv /\ [OpenNext]_vars => FreshInv'
<1> SUFFICES ASSUME TypeInv, FreshInv, [OpenNext]_vars,
                    NEW k \in ItemIndex, k > item' \/ (k = item' /\ pc' \notin Window)
             PROVE  spc'[k] = "new" /\ held'[k].loaded = {}
  BY DEF FreshInv
<1>1. ASSUME UNCHANGED <<item, spc, held>>, pc \in Window => pc' \in Window
      PROVE  spc'[k] = "new" /\ held'[k].loaded = {}
  BY <1>1 DEF FreshInv
<1>2. CASE Quiet \/ Loading \/ SetStop
  BY <1>1, <1>2 DEF Quiet, Loading, SetStop, mainVars, Window, samplerVars
<1>3. CASE StartSampler
  <2>1. k > item /\ held' = held /\ \A j \in ItemIndex \ {item} : spc'[j] = spc[j]
    BY <1>3, RunningItem DEF StartSampler, Window, mainVars, TypeInv, TypeOK
  <2>2. k # item
    BY <2>1 DEF ItemIndex, TypeInv, TypeOK
  <2> QED
    BY <2>1, <2>2 DEF FreshInv
<1>4. CASE FinishItem
  <2>1. item' = item + 1 /\ UNCHANGED <<spc, held>>
    BY <1>4 DEF FinishItem
  <2>2. k > item
    BY <2>1, BoundTypes DEF TypeInv, TypeOK, ItemIndex
  <2> QED
    BY <2>1, <2>2 DEF FreshInv
<1>5. ASSUME NEW j \in ItemIndex, Sampler(j)
      PROVE  spc'[k] = "new" /\ held'[k].loaded = {}
  <2>1. /\ UNCHANGED <<pc, item>> /\ spc[j] # "new"
        /\ k # j => spc'[k] = spc[k] /\ held'[k] = held[k]
    BY <1>5 DEF Sampler, SamplerCheck, SamplerPoll, SamplerAppend, mainVars, TypeInv, TypeOK
  <2> QED
    BY <2>1 DEF FreshInv
<1> QED
  BY <1>2, <1>3, <1>4, <1>5, KindsOfSteps

\* The history only grows.
LEMMA SeenForGood ==
    ASSUME TypeInv, [OpenNext]_vars, NEW j \in ItemIndex, NEW loaded, Seen(j, loaded)
    PROVE  SeenNext(j, loaded)
<1>1. ASSUME UNCHANGED truth PROVE SeenNext(j, loaded)
  BY <1>1 DEF Seen, SeenNext
<1>2. CASE Loading
  <2>1. CASE pc \in Window
    <3>1. PICK now : Witness(item, now)
      BY <1>2, <2>1 DEF Loading, Observe
    <3> QED
      BY <2>1, <3>1, RunningItem, WitnessSees
  <2>2. CASE pc \notin Window
    BY <1>1, <1>2, <2>2 DEF Loading, Observe
  <2> QED
    BY <2>1, <2>2
<1>3. CASE StartSampler
  BY <1>3, RunningItem, WitnessSees DEF StartSampler
<1> QED
  BY <1>1, <1>2, <1>3, KindsOfSteps
  DEF Quiet, SetStop, FinishItem, Sampler, SamplerCheck, SamplerPoll, SamplerAppend

\* SeenInv of the state after a step, in terms of the state before it.
LEMMA SeenAfter ==
    ASSUME pc' \in Window =>
               /\ item' = item
               /\ SeenNext(item, resident')
               /\ SeenNext(item, held'[item].loaded)
               /\ \A s \in samples'[item] : SeenNext(item, s.loaded),
           \A k \in DOMAIN results' :
               \A s \in results'[k].resident_model_sets : SeenNext(k, s.loaded)
    PROVE  SeenInv'
BY DEF SeenInv, Seen, SeenNext, ModelOf, SelectedRoute

LEMMA SeenStep ==
    TypeInv /\ ResultsInv /\ FreshInv /\ SeenInv /\ [OpenNext]_vars => SeenInv'
<1> SUFFICES ASSUME TypeInv, ResultsInv, FreshInv, SeenInv, [OpenNext]_vars PROVE SeenInv'
  OBVIOUS
<1> DEFINE OverNext(k) == \A s \in results'[k].resident_model_sets : SeenNext(k, s.loaded)
<1>1. ASSUME NEW k \in DOMAIN results, results'[k] = results[k] PROVE OverNext(k)
  BY <1>1, SeenForGood, ResultsDomain DEF SeenInv
<1>2. ASSUME results' = results PROVE \A k \in DOMAIN results' : OverNext(k)
  BY <1>1, <1>2
<1>3. ASSUME pc \in Window
      PROVE  /\ item \in ItemIndex
             /\ SeenNext(item, resident)
             /\ SeenNext(item, held[item].loaded)
             /\ \A s \in samples[item] : SeenNext(item, s.loaded)
  BY <1>3, RunningItem, SeenForGood DEF SeenInv
<1> HIDE DEF OverNext
<1>4. CASE Quiet
  <2>1. ASSUME pc' \in Window PROVE SeenNext(item, resident')
    <3>1. pc \in Window /\ item \in ItemIndex /\ Seen(item, resident)
      BY <1>4, <2>1, RunningItem DEF Quiet, SeenInv
    <3>2. Seen(item, resident')
      BY <1>4, <3>1, SeenSmaller DEF Quiet, TypeInv, TypeOK
    <3> QED
      BY <3>1, <3>2, SeenForGood
  <2> QED
    BY <1>2, <1>3, <1>4, <2>1, SeenAfter DEF Quiet, samplerVars, OverNext
<1>5. CASE Loading
  <2>1. ASSUME pc' \in Window PROVE SeenNext(item, resident')
    <3>1. PICK now : now = resident' /\ Witness(item, now)
      BY <1>5, <2>1 DEF Loading, Observe
    <3> QED
      BY <1>5, <2>1, <3>1, RunningItem, WitnessSees DEF Loading
  <2> QED
    BY <1>2, <1>3, <1>5, <2>1, SeenAfter DEF Loading, samplerVars, OverNext
<1>6. CASE StartSampler
  <2>1. /\ item \in ItemIndex /\ item \in Nat
        /\ UNCHANGED <<item, results, held, resident>>
        /\ samples'[item] = {}
        /\ Witness(item, resident)
    BY <1>6, RunningItem
    DEF StartSampler, mainVars, outputVars, serverVars, TypeInv, TypeOK
  <2>2. held[item].loaded = {}
    BY <1>6, <2>1 DEF StartSampler, FreshInv, Window
  <2>3. SeenNext(item, resident) /\ SeenNext(item, held[item].loaded)
    BY <2>1, <2>2, WitnessSees, SeenNothing
  <2> QED
    BY <1>2, <2>1, <2>3, SeenAfter DEF OverNext
<1>7. CASE SetStop
  <2>1. pc \in Window /\ UNCHANGED <<item, results, held, samples, resident>>
    BY <1>7 DEF SetStop, Window, mainVars, outputVars, serverVars
  <2> QED
    BY <1>2, <1>3, <2>1, SeenAfter DEF OverNext
<1>8. CASE FinishItem
  <2>1. PICK reading \in {Answer, NoAnswer} :
            LET taken == samples[item] \cup {reading} IN
            /\ item \in ItemIndex
            /\ DOMAIN results' = DOMAIN results \cup {item}
            /\ \A k \in DOMAIN results : results'[k] = results[k]
            /\ results'[item] = ItemResult(item, error, taken)
    BY <1>8, OneMoreResult
  <2>2. pc \in Window /\ pc' \notin Window
    BY <1>8 DEF FinishItem, Window
  <2>3. \A s \in samples[item] \cup {reading} : SeenNext(item, s.loaded)
    <3>1. SeenNext(item, reading.loaded)
      BY <2>1, <2>2, ReadingSeen, SeenForGood DEF SeenInv
    <3> QED
      BY <1>3, <2>2, <3>1
  <2>4. results'[item].resident_model_sets = samples[item] \cup {reading}
    BY <2>1 DEF ItemResult
  <2>5. OverNext(item)
    BY <2>3, <2>4 DEF OverNext
  <2>6. \A k \in DOMAIN results' : OverNext(k)
    BY <1>1, <2>1, <2>5
  <2> QED
    BY <2>2, <2>6, SeenAfter DEF OverNext
<1>9. ASSUME NEW k \in ItemIndex, Sampler(k) PROVE SeenInv'
  <2>1. UNCHANGED <<pc, item, results, resident, truth>>
    BY <1>9 DEF Sampler, SamplerCheck, SamplerPoll, SamplerAppend, mainVars, outputVars,
       serverVars
  <2>2. ASSUME pc \in Window
        PROVE  /\ SeenNext(item, held'[item].loaded)
               /\ \A s \in samples'[item] : SeenNext(item, s.loaded)
    <3>1. SeenNext(item, {})
      BY <1>3, <2>2, SeenNothing, SeenForGood
    <3>2. CASE SamplerCheck(k)
      BY <1>3, <2>2, <3>2 DEF SamplerCheck
    <3>3. CASE SamplerPoll(k)
      <4>1. PICK reading \in {Answer, NoAnswer} :
                samples' = samples /\ held' = [held EXCEPT ![k] = reading]
        BY <3>3 DEF SamplerPoll
      <4>2. SeenNext(item, reading.loaded)
        BY <1>3, <2>2, <3>1, <4>1 DEF Answer, NoAnswer
      <4> QED
        BY <1>3, <2>2, <4>1, <4>2 DEF TypeInv, TypeOK
    <3>4. CASE SamplerAppend(k)
      <4>1. /\ samples' = [samples EXCEPT ![k] = samples[k] \cup {held[k]}]
            /\ held' = [held EXCEPT ![k] = [loaded |-> {}, failed |-> FALSE]]
        BY <3>4 DEF SamplerAppend
      <4>2. /\ held'[item] = held[item] \/ held'[item].loaded = {}
            /\ samples'[item] \in {samples[item], samples[item] \cup {held[item]}}
        BY <1>3, <2>2, <4>1 DEF TypeInv, TypeOK
      <4>3. SeenNext(item, held'[item].loaded)
        BY <1>3, <2>2, <3>1, <4>2
      <4> QED
        BY <1>3, <2>2, <4>2, <4>3
    <3> QED
      BY <1>9, <3>2, <3>3, <3>4 DEF Sampler
  <2> QED
    BY <1>2, <1>3, <2>1, <2>2, SeenAfter DEF OverNext
<1> QED
  BY <1>4, <1>5, <1>6, <1>7, <1>8, <1>9, KindsOfSteps

LEMMA OpenSeenInv == OpenSpec => [](TypeInv /\ ResultsInv /\ FreshInv /\ SeenInv)
<1>1. Init => FreshInv /\ SeenInv
  BY DEF Init, FreshInv, SeenInv, Window
<1> QED
  BY <1>1, FreshStep, SeenStep, OpenResultsInv, PTL DEF OpenSpec

\* An item is only valid if the server held its model while it ran, and an overlap is
\* only reported of an item during which there was one: no reading of a sampler that
\* outlives its item gets into the verdict on another.
THEOREM VerdictsAreGrounded == OpenSpec => []VerdictGrounded
<1>1. ASSUME TypeInv, ResultsInv, SeenInv, NEW k \in DOMAIN results
      PROVE  /\ results[k].valid_single_resident => truth[k].served
             /\ (\E s \in results[k].resident_model_sets : Cardinality(s.loaded) > 1)
                    => truth[k].overlap
  <2> DEFINE taken == results[k].resident_model_sets
  <2>1. \A s \in taken : Seen(k, s.loaded)
    BY <1>1 DEF SeenInv
  <2>2. PICK r : r = results[k]
    OBVIOUS
  <2>3. r.valid_single_resident => ValidSingleResident(ModelOf(k), r.error, taken)
    BY <1>1, <2>2, ResultFields DEF ResultsInv, Computed
  <2> QED
    BY <2>1, <2>2, <2>3 DEF ValidSingleResident, Seen
<1>2. TypeInv /\ ResultsInv /\ SeenInv => VerdictGrounded
  BY <1>1 DEF VerdictGrounded
<1> QED
  BY <1>2, OpenSeenInv, PTL
-------------------------------------------------------------------------------
(***************************************************************************)
(* A sampler thread that outlives its item reads at most once more: its    *)
(* stop event is set when the verdict is computed, so it may finish the    *)
(* reading it is at and ends at its next check.                            *)
(***************************************************************************)

\* What the sampler of an item that is over added to the samples of the verdict.
Late(k) == samples[k] \ results[k].resident_model_sets

Straggling(k) ==
    /\ stop[k]
    /\ \A r, s \in Late(k) : r = s
    /\ spc[k] \in {"poll", "append"} => Late(k) = {}

StragglerInv ==
    /\ pc \in StopSet => stop[item]
    /\ \A k \in DOMAIN results : Straggling(k)

LEMMA StragglerStep ==
    TypeInv /\ ResultsInv /\ StragglerInv /\ [OpenNext]_vars => StragglerInv'
<1> SUFFICES ASSUME TypeInv, ResultsInv, StragglerInv, [OpenNext]_vars PROVE StragglerInv'
  OBVIOUS
<1>1. ASSUME NEW k, UNCHANGED <<stop[k], spc[k], samples[k], results[k]>>, Straggling(k)
      PROVE  Straggling(k)'
  BY <1>1 DEF Straggling, Late
<1>2. CASE Quiet \/ Loading
  BY <1>1, <1>2 DEF Quiet, Loading, samplerVars, StragglerInv
<1>3. CASE StartSampler
  <2>1. pc' \notin StopSet /\ UNCHANGED results
    BY <1>3 DEF StartSampler, StopSet, outputVars
  <2>2. ASSUME NEW k \in DOMAIN results
        PROVE  UNCHANGED <<stop[k], spc[k], samples[k], results[k]>>
    BY <1>3, ResultsDomain DEF StartSampler, outputVars, TypeInv, TypeOK
  <2> QED
    BY <1>1, <2>1, <2>2 DEF StragglerInv
<1>4. CASE SetStop
  <2>1. stop'[item'] /\ UNCHANGED results
    BY <1>4, RunningItem DEF SetStop, mainVars, outputVars, TypeInv, TypeOK, Window
  <2>2. ASSUME NEW k \in DOMAIN results
        PROVE  UNCHANGED <<stop[k], spc[k], samples[k], results[k]>>
    BY <1>4, ResultsDomain DEF SetStop, outputVars, TypeInv, TypeOK
  <2> QED
    BY <1>1, <2>1, <2>2 DEF StragglerInv
<1>5. CASE FinishItem
  <2>1. PICK taken :
            /\ item \in ItemIndex
            /\ samples' = [samples EXCEPT ![item] = taken]
            /\ DOMAIN results' = DOMAIN results \cup {item}
            /\ \A k \in DOMAIN results : results'[k] = results[k]
            /\ results'[item] = ItemResult(item, error, taken)
    BY <1>5, OneMoreResult
  <2>2. stop[item] /\ pc' \notin StopSet /\ UNCHANGED <<stop, spc>>
    BY <1>5 DEF FinishItem, StragglerInv, StopSet
  <2>3. ASSUME NEW k \in DOMAIN results PROVE Straggling(k)'
    <3>1. UNCHANGED <<stop[k], spc[k], samples[k], results[k]>>
      BY <2>1, <2>2, ResultsDomain DEF TypeInv, TypeOK
    <3> QED
      BY <1>1, <3>1 DEF StragglerInv
  <2>4. samples'[item] = taken /\ results'[item].resident_model_sets = taken
    BY <2>1 DEF ItemResult, TypeInv, TypeOK
  <2>5. ASSUME NEW k, k = item PROVE Straggling(k)'
    BY <2>2, <2>4, <2>5 DEF Straggling, Late
  <2> QED
    BY <2>1, <2>2, <2>3, <2>5 DEF StragglerInv
<1>6. ASSUME NEW j \in ItemIndex, Sampler(j) PROVE StragglerInv'
  <2>1. UNCHANGED <<pc, item, results, stop>>
    BY <1>6 DEF Sampler, SamplerCheck, SamplerPoll, SamplerAppend, mainVars, outputVars
  <2>2. ASSUME NEW k \in DOMAIN results, k # j PROVE Straggling(k)'
    <3>1. UNCHANGED <<stop[k], spc[k], samples[k], results[k]>>
      BY <1>6, <2>1, <2>2, ResultsDomain
      DEF Sampler, SamplerCheck, SamplerPoll, SamplerAppend, TypeInv, TypeOK
    <3> QED
      BY <1>1, <2>2, <3>1 DEF StragglerInv
  <2>3. ASSUME j \in DOMAIN results PROVE Straggling(j)'
    <3>1. Straggling(j)
      BY <2>3 DEF StragglerInv
    <3>2. CASE SamplerCheck(j)
      <4>1. spc'[j] = "done" /\ UNCHANGED samples
        BY <3>1, <3>2 DEF SamplerCheck, samplerVars, Straggling, TypeInv, TypeOK
      <4> QED
        BY <2>1, <3>1, <4>1 DEF Straggling, Late
    <3>3. CASE SamplerPoll(j)
      <4>1. spc[j] = "poll" /\ UNCHANGED samples
        BY <3>3 DEF SamplerPoll
      <4> QED
        BY <2>1, <3>1, <4>1 DEF Straggling, Late
    <3>4. CASE SamplerAppend(j)
      <4>1. /\ spc[j] = "append" /\ spc'[j] = "check"
            /\ samples'[j] = samples[j] \cup {held[j]}
        BY <3>4 DEF SamplerAppend, TypeInv, TypeOK
      <4>2. Late(j) = {}
        BY <3>1, <4>1 DEF Straggling
      <4>3. Late(j)' \subseteq {held[j]}
        BY <2>1, <4>1, <4>2 DEF Late
      <4> QED
        BY <2>1, <3>1, <4>1, <4>3 DEF Straggling
    <3> QED
      BY <1>6, <3>2, <3>3, <3>4 DEF Sampler
  <2> QED
    BY <2>1, <2>2, <2>3 DEF StragglerInv
<1> QED
  BY <1>2, <1>3, <1>4, <1>5, <1>6, KindsOfSteps

\* A set without two distinct members has at most one.
LEMMA AtMostOne ==
    ASSUME NEW S, \A r, s \in S : r = s
    PROVE  Cardinality(S) <= 1
<1>1. CASE S = {}
  BY <1>1, FS_EmptySet
<1>2. CASE \E r : S = {r}
  BY <1>2, FS_Singleton
<1> QED
  BY <1>1, <1>2

\* A sampler thread that missed its join appends at most one reading to its list after
\* the verdict on its item, however many later items run while it is alive.
THEOREM StragglersAreBounded == OpenSpec => []StragglerBounded
<1>1. Init => StragglerInv
  BY DEF Init, StragglerInv, StopSet
<1>2. StragglerInv => StragglerBounded
  BY AtMostOne DEF StragglerInv, Straggling, Late, StragglerBounded
<1> QED
  BY <1>1, <1>2, StragglerStep, OpenResultsInv, PTL DEF OpenSpec
-------------------------------------------------------------------------------
(***************************************************************************)
(* The artifacts and the exit status.                                      *)
(***************************************************************************)

\* A step that reports on no item, writes no artifact and does not end a run whose
\* results were accepted.
Silent ==
    /\ UNCHANGED <<item, results, samples_by_item, json, csv, svg>>
    /\ \/ UNCHANGED <<pc, exit_code>>
       \/ pc' \notin {"write_csv", "write_svg", "validate", "exit"}
       \/ pc' = "exit" /\ exit_code' = 1

LEMMA OutputSteps ==
    ASSUME [OpenNext]_vars
    PROVE  FinishItem \/ WriteJson \/ WriteCsv \/ WriteSvg \/ Validate \/ Silent
<1> USE DEF mainVars, outputVars, samplerVars, serverVars, Exit, Silent
<1>1. CASE Main
  BY <1>1 DEF Main, ListModels, NextItem, SnapshotLoaded, Unload, EnterBarrier,
     BarrierPoll, BarrierTimeout, StartSampler, SendGenerate, GenerateReturns,
     GenerateRaises, SetStop, JoinReturns, JoinTimesOut
<1>2. CASE Raises \/ DeadlineExpires
  BY <1>2 DEF Raises, DeadlineExpires
<1>3. ASSUME NEW k \in ItemIndex, Sampler(k) PROVE Silent
  BY <1>3 DEF Sampler, SamplerCheck, SamplerPoll, SamplerAppend
<1>4. CASE Server \/ Interference
  BY <1>4 DEF Server, ServeRequest, FinishUnload, KeepAliveExpires, Interference,
     LateLoad, ForeignLoad
<1>5. CASE UNCHANGED vars
  BY <1>5 DEF vars
<1> QED
  BY <1>1, <1>2, <1>3, <1>4, <1>5 DEF OpenNext, Next, Ended

\* No other finished item has the identifier of item k.
OwnId(k) == \A j \in DOMAIN results \ {k} : WorkItems[j].item_id # WorkItems[k].item_id

\* The rows kept by identifier, and what is written of them, are those of the result.
RowsInv ==
    /\ \A k \in DOMAIN results :
        OwnId(k) => samples_by_item[WorkItems[k].item_id] = results[k].resident_model_sets
    /\ pc \in {"write_svg", "validate"} => csv = samples_by_item
    /\ pc = "validate" => svg = samples_by_item

LEMMA RowsStep == TypeInv /\ ResultsInv /\ RowsInv /\ [OpenNext]_vars => RowsInv'
<1> SUFFICES ASSUME TypeInv, ResultsInv, RowsInv, [OpenNext]_vars PROVE RowsInv'
  OBVIOUS
<1>1. CASE FinishItem
  <2>1. PICK taken :
            /\ item \in ItemIndex
            /\ DOMAIN results' = DOMAIN results \cup {item}
            /\ \A k \in DOMAIN results : results'[k] = results[k]
            /\ results'[item] = ItemResult(item, error, taken)
            /\ samples_by_item' =
                [samples_by_item EXCEPT ![WorkItems[item].item_id] = taken]
    BY <1>1, OneMoreResult
  <2>2. samples_by_item'[WorkItems[item].item_id] = results'[item].resident_model_sets
    <3>1. WorkItems[item].item_id \in DOMAIN samples_by_item
      BY <2>1, ItemIdType DEF TypeInv, TypeOK, SampleRowsType
    <3>2. results'[item].resident_model_sets = taken
      BY <2>1 DEF ItemResult
    <3> QED
      BY <2>1, <3>1, <3>2
  <2>3. ASSUME NEW k \in DOMAIN results, OwnId(k)'
        PROVE  samples_by_item'[WorkItems[k].item_id] = results'[k].resident_model_sets
    <3>1. OwnId(k) /\ WorkItems[item].item_id # WorkItems[k].item_id
      BY <2>1, <2>3, ResultsDomain DEF OwnId
    <3>2. WorkItems[k].item_id \in DOMAIN samples_by_item
      BY ItemIdType, ResultsDomain DEF TypeInv, TypeOK, SampleRowsType
    <3>3. samples_by_item'[WorkItems[k].item_id] = samples_by_item[WorkItems[k].item_id]
      BY <2>1, <3>1, <3>2
    <3> QED
      BY <2>1, <3>1, <3>3 DEF RowsInv
  <2>4. pc' = "item"
    BY <1>1 DEF FinishItem
  <2> QED
    BY <2>1, <2>2, <2>3, <2>4 DEF RowsInv
<1>2. CASE WriteJson
  BY <1>2 DEF WriteJson, RowsInv, OwnId
<1>3. CASE WriteCsv
  BY <1>3 DEF WriteCsv, SampleRows, RowsInv, OwnId
<1>4. CASE WriteSvg
  BY <1>4 DEF WriteSvg, SampleRows, RowsInv, OwnId
<1>5. CASE Validate
  BY <1>5 DEF Validate, Exit, RowsInv, OwnId
<1>6. CASE Silent
  BY <1>6 DEF Silent, RowsInv, OwnId
<1> QED
  BY <1>1, <1>2, <1>3, <1>4, <1>5, <1>6, OutputSteps

\* results.json is written when all items are through, and exit status 0 is only
\* reached past a validation that found no error.
ExitInv ==
    /\ json # NoSummary => item = Len(WorkItems) + 1
    /\ pc \in {"write_csv", "write_svg", "validate"} => json = summarize
    /\ pc = "exit" /\ exit_code = 0 =>
        /\ item = Len(WorkItems) + 1
        /\ json = summarize
        /\ ~ResultsRejected

LEMMA ExitStep == TypeInv /\ ResultsInv /\ ExitInv /\ [OpenNext]_vars => ExitInv'
<1> SUFFICES ASSUME TypeInv, ResultsInv, ExitInv, [OpenNext]_vars PROVE ExitInv'
  OBVIOUS
<1>1. ASSUME UNCHANGED results
      PROVE  summarize' = summarize /\ (ResultsRejected <=> ResultsRejected')
  BY <1>1 DEF summarize, ResultsRejected
<1>2. CASE FinishItem
  <2>1. item \in ItemIndex
    BY <1>2, RunningItem DEF FinishItem, Window
  <2>2. json = NoSummary
    BY <2>1, BoundTypes DEF ExitInv, ItemIndex
  <2> QED
    BY <1>2, <2>2 DEF FinishItem, ExitInv
<1>3. CASE WriteJson
  <2>1. /\ UNCHANGED <<item, results>> /\ pc' = "write_csv"
        /\ json' = summarize /\ item = Len(WorkItems) + 1
    BY <1>3 DEF WriteJson, ResultsInv, mainVars
  <2> HIDE DEF ResultsInv
  <2> QED
    BY <1>1, <2>1 DEF ExitInv
<1>4. CASE WriteCsv \/ WriteSvg
  <2>1. /\ UNCHANGED <<item, results, json>> /\ pc' \in {"write_svg", "validate"}
        /\ pc \in {"write_csv", "write_svg"}
    BY <1>4 DEF WriteCsv, WriteSvg, mainVars
  <2> QED
    BY <1>1, <2>1 DEF ExitInv
<1>5. CASE Validate
  <2>1. /\ UNCHANGED <<item, results, json>> /\ pc' = "exit" /\ pc = "validate"
        /\ exit_code' = 0 => ~ResultsRejected
        /\ item = Len(WorkItems) + 1
    BY <1>5 DEF Validate, Exit, ResultsInv, mainVars
  <2> QED
    BY <1>1, <2>1 DEF ExitInv
<1>6. CASE Silent
  BY <1>1, <1>6 DEF Silent, ExitInv
<1> QED
  BY <1>2, <1>3, <1>4, <1>5, <1>6, OutputSteps

LEMMA OpenOutputInv ==
    OpenSpec => [](TypeInv /\ ResultsInv /\ FreshInv /\ SeenInv /\ RowsInv /\ ExitInv)
<1>1. Init => RowsInv /\ ExitInv
  BY DEF Init, RowsInv, ExitInv
<1> QED
  BY <1>1, RowsStep, ExitStep, OpenSeenInv, PTL DEF OpenSpec

\* results.json reports on all items or is not written, and the CSV and the SVG hold,
\* for every item, exactly the samples its verdict there was computed from.
THEOREM ArtifactsTellOneStory == OpenSpec => []ArtifactsAgree
<1>1. ASSUME TypeInv, ResultsInv, RowsInv, ExitInv PROVE ArtifactsAgree
  <2>1. json # NoSummary => Len(results) = Len(WorkItems)
    BY <1>1, BoundTypes DEF ResultsInv, ExitInv
  <2> QED
    BY <1>1, <2>1 DEF RowsInv, OwnId, ArtifactsAgree
<1> QED
  BY <1>1, OpenOutputInv, PTL

\* Exit status 0 means that every configured item has a result, ran without error on the
\* route it was labelled with while the server held its model, and that results.json says
\* the same.
THEOREM CleanExitsAreTrusted == OpenSpec => []CleanExitTrusted
<1>1. ASSUME TypeInv, ResultsInv, SeenInv, ExitInv, pc = "exit", exit_code = 0
      PROVE  /\ Len(results) = Len(WorkItems)
             /\ \A k \in ItemIndex :
                    /\ truth[k].served
                    /\ StrictRoutes => WorkItems[k].expected_route
                                         \in {NoRoute, SelectedRoute(k)}
             /\ json.items = Len(WorkItems)
             /\ json.successful_items = json.items
             /\ json.single_resident_items = json.items
             /\ ~json.overlap_sampled
  <2>1. json = summarize /\ ~ResultsRejected /\ item = Len(WorkItems) + 1
    BY <1>1 DEF ExitInv
  <2>2. Len(results) = Len(WorkItems) /\ DOMAIN results = ItemIndex
    BY <1>1, <2>1, BoundTypes DEF ResultsInv, ItemIndex, TypeInv, TypeOK
  <2>3. ASSUME NEW k \in ItemIndex
        PROVE  /\ ~results[k].error /\ results[k].valid_single_resident
               /\ StrictRoutes => results[k].route_correct
    BY <2>1, <2>2 DEF ResultsRejected
  <2>4. ASSUME NEW k \in ItemIndex
        PROVE  /\ \A s \in results[k].resident_model_sets : Cardinality(s.loaded) <= 1
               /\ \E s \in results[k].resident_model_sets : ModelOf(k) \in s.loaded
               /\ StrictRoutes => WorkItems[k].expected_route \in {NoRoute, SelectedRoute(k)}
    <3>1. PICK r : r = results[k] /\ Computed(k, r)
      BY <1>1, <2>2 DEF ResultsInv
    <3>2. r.valid_single_resident => ValidSingleResident(ModelOf(k), r.error, r.resident_model_sets)
      BY <3>1, ResultFields DEF Computed
    <3>3. r.route_correct => WorkItems[k].expected_route \in {NoRoute, SelectedRoute(k)}
      BY <3>1 DEF Computed, ItemResult
    <3> QED
      BY <2>3, <3>1, <3>2, <3>3 DEF ValidSingleResident
  <2>5. ASSUME NEW k \in ItemIndex PROVE truth[k].served
    BY <1>1, <2>2, <2>4 DEF SeenInv, Seen
  <2>6. Cardinality(DOMAIN results) = Len(WorkItems)
    <3>1. Cardinality(1 .. Len(WorkItems)) = Len(WorkItems)
      <4>1. PICK n \in Nat : n = Len(WorkItems)
        BY BoundTypes
      <4>2. Cardinality(1 .. n) = IF 1 > n THEN 0 ELSE n - 1 + 1
        BY FS_Interval
      <4> QED
        BY <4>1, <4>2
    <3> QED
      BY <2>2, <3>1 DEF ItemIndex
  <2>7. /\ {k \in DOMAIN results : ~results[k].error} = DOMAIN results
        /\ {k \in DOMAIN results : results[k].valid_single_resident} = DOMAIN results
    BY <2>2, <2>3
  <2>8. ASSUME NEW k \in DOMAIN results, NEW s \in results[k].resident_model_sets
        PROVE  ~(Cardinality(s.loaded) > 1)
    <3>1. results[k] \in ItemResults
      BY <1>1 DEF TypeInv, TypeOK
    <3>2. s \in Readings
      BY <3>1 DEF ItemResults
    <3>3. Cardinality(s.loaded) \in Nat
      BY <3>2, SmallerSets DEF Readings
    <3> QED
      BY <2>2, <2>4, <3>3
  <2>9. /\ json.items = Len(WorkItems)
        /\ json.successful_items = Len(WorkItems)
        /\ json.single_resident_items = Len(WorkItems)
    BY <2>1, <2>2, <2>6, <2>7 DEF summarize
  <2>10. ~json.overlap_sampled
    BY <2>1, <2>8 DEF summarize
  <2> QED
    BY <2>2, <2>4, <2>5, <2>9, <2>10
<1>2. TypeInv /\ ResultsInv /\ SeenInv /\ ExitInv => CleanExitTrusted
  BY <1>1 DEF CleanExitTrusted
<1> QED
  BY <1>2, OpenOutputInv, PTL

\* An overlap that is still there when the item ends makes the item invalid, if the
\* server answers the last reading.
THEOREM FinalOverlapsAreCaught == OpenSpec => FinalOverlapCaught
<1>1. ASSUME TypeInv, ResultsInv, [OpenNext]_vars,
             Len(results') > Len(results), Cardinality(resident) > 1,
             NoFailedReading(results'[Len(results')])
      PROVE  ~results'[Len(results')].valid_single_resident
  <2>1. FinishItem
    BY <1>1, OnlyFinishItemReports DEF TypeInv, TypeOK
  <2>2. PICK reading \in {Answer, NoAnswer} :
            /\ Len(results') = item
            /\ results'[item] = ItemResult(item, error, samples[item] \cup {reading})
    BY <1>1, <2>1, OneMoreResult
  <2> DEFINE taken == samples[item] \cup {reading}
  <2>3. PICK last : last = results'[item]
    OBVIOUS
  <2>4. /\ last.resident_model_sets = taken
        /\ last.valid_single_resident => ValidSingleResident(ModelOf(item), error, taken)
    BY <2>2, <2>3, ResultFields
  <2>5. reading.loaded = resident
    <3>1. ~reading.failed
      BY <1>1, <2>2, <2>3, <2>4 DEF NoFailedReading
    <3> QED
      BY <3>1 DEF Answer, NoAnswer
  <2>6. Cardinality(resident) \in Nat
    BY <1>1, SmallerSets DEF TypeInv, TypeOK
  <2> QED
    BY <1>1, <2>2, <2>3, <2>4, <2>5, <2>6 DEF ValidSingleResident
<1>2. TypeInv /\ ResultsInv /\ [OpenNext]_vars =>
        [ Len(results') > Len(results) /\ Cardinality(resident) > 1
            => LET last == results'[Len(results')]
               IN  NoFailedReading(last) => ~last.valid_single_resident ]_vars
  BY <1>1
<1> QED
  BY <1>2, OpenResultsInv, PTL DEF OpenSpec, FinalOverlapCaught
-------------------------------------------------------------------------------
(***************************************************************************)
(* No false alarm, under the paper's assumptions: what the sampler of an   *)
(* item reads is at most the item's model, and a generation that returned  *)
(* leaves that model pinned until the last reading has been taken.         *)
(***************************************************************************)
PinnedInv ==
    pc \in {"stop", "join", "finish"} /\ ~error => ModelOf(item) \in resident \cap pinned

LEMMA PinnedStep ==
    TypeInv /\ UnloadInv /\ PinnedInv /\ [Next]_vars => PinnedInv'
<1> SUFFICES ASSUME TypeInv, UnloadInv, PinnedInv, [Next]_vars PROVE PinnedInv'
  OBVIOUS
<1> USE DEF PinnedInv, ModelOf, SelectedRoute, mainVars, outputVars, samplerVars,
            serverVars, Exit
<1>1. CASE Main
  <2>1. ASSUME NEW listed \in SUBSET Models, ListModels(listed) PROVE PinnedInv'
    BY <2>1 DEF ListModels
  <2>2. CASE NextItem \/ SnapshotLoaded
    BY <2>2 DEF NextItem, SnapshotLoaded
  <2>3. ASSUME NEW m \in Models, Unload(m) PROVE PinnedInv'
    BY <2>3 DEF Unload
  <2>4. CASE EnterBarrier \/ BarrierPoll \/ BarrierTimeout
    BY <2>4 DEF EnterBarrier, BarrierPoll, BarrierTimeout
  <2>5. CASE StartSampler \/ SendGenerate
    BY <2>5 DEF StartSampler, SendGenerate
  <2>6. CASE GenerateReturns
    BY <2>6 DEF GenerateReturns, TypeInv, RequestInv
  <2>7. CASE GenerateRaises
    BY <2>7 DEF GenerateRaises
  <2>8. CASE SetStop \/ JoinReturns \/ JoinTimesOut \/ FinishItem
    BY <2>8 DEF SetStop, JoinReturns, JoinTimesOut, FinishItem
  <2>9. CASE WriteJson \/ WriteCsv \/ WriteSvg \/ Validate
    BY <2>9 DEF WriteJson, WriteCsv, WriteSvg, Validate
  <2> QED
    BY <1>1, <2>1, <2>2, <2>3, <2>4, <2>5, <2>6, <2>7, <2>8, <2>9 DEF Main
<1>2. CASE Raises \/ DeadlineExpires
  BY <1>2 DEF Raises, DeadlineExpires
<1>3. ASSUME NEW k \in ItemIndex, Sampler(k) PROVE PinnedInv'
  BY <1>3 DEF Sampler, SamplerCheck, SamplerPoll, SamplerAppend
<1>4. CASE ServeRequest
  BY <1>4 DEF ServeRequest
<1>5. ASSUME NEW m \in Models, FinishUnload(m) PROVE PinnedInv'
  BY <1>5 DEF FinishUnload, UnloadInv
<1>6. ASSUME NEW m \in Models, KeepAliveExpires(m) PROVE PinnedInv'
  BY <1>6 DEF KeepAliveExpires
<1>7. CASE UNCHANGED vars
  BY <1>7 DEF vars
<1> QED
  BY <1>1, <1>2, <1>3, <1>4, <1>5, <1>6, <1>7 DEF Next, Server, Ended

\* The sampler of the item in progress has read no other model.
AloneInv ==
    pc \in Window =>
        /\ held[item].loaded \subseteq {ModelOf(item)}
        /\ \A s \in samples[item] : s.loaded \subseteq {ModelOf(item)}

LEMMA AloneStep ==
    TypeInv /\ FreshInv /\ SerialInv /\ AloneInv /\ [Next]_vars => AloneInv'
<1> SUFFICES ASSUME TypeInv, FreshInv, SerialInv, AloneInv, [Next]_vars PROVE AloneInv'
  OBVIOUS
<1> USE DEF ModelOf, SelectedRoute
<1>1. CASE Quiet \/ Loading
  BY <1>1 DEF Quiet, Loading, samplerVars, AloneInv
<1>2. CASE StartSampler
  <2>1. held[item].loaded = {} /\ samples'[item] = {} /\ UNCHANGED <<item, held>>
    BY <1>2, RunningItem DEF StartSampler, FreshInv, Window, mainVars, TypeInv, TypeOK
  <2> QED
    BY <2>1 DEF AloneInv
<1>3. CASE SetStop
  BY <1>3 DEF SetStop, AloneInv, Window, mainVars
<1>4. CASE FinishItem
  BY <1>4 DEF FinishItem, AloneInv, Window
<1>5. ASSUME NEW k \in ItemIndex, Sampler(k), pc' \in Window PROVE AloneInv'
  <2>1. UNCHANGED <<pc, item>>
    BY <1>5 DEF Sampler, SamplerCheck, SamplerPoll, SamplerAppend, mainVars
  <2>2. /\ item \in ItemIndex
        /\ resident \subseteq {ModelOf(item)}
        /\ held[item].loaded \subseteq {ModelOf(item)}
        /\ \A s \in samples[item] : s.loaded \subseteq {ModelOf(item)}
    BY <1>5, <2>1, RunningItem DEF AloneInv, SerialInv
  <2> HIDE DEF ModelOf
  <2>3. /\ held'[item].loaded \subseteq {ModelOf(item)}
        /\ \A s \in samples'[item] : s.loaded \subseteq {ModelOf(item)}
    <3>1. CASE SamplerCheck(k)
      BY <2>2, <3>1 DEF SamplerCheck
    <3>2. CASE SamplerPoll(k)
      <4>1. PICK reading \in {Answer, NoAnswer} :
                samples' = samples /\ held' = [held EXCEPT ![k] = reading]
        BY <3>2 DEF SamplerPoll
      <4>2. reading.loaded \subseteq {ModelOf(item)}
        BY <2>2, <4>1 DEF Answer, NoAnswer
      <4> QED
        BY <2>2, <4>1, <4>2 DEF TypeInv, TypeOK
    <3>3. CASE SamplerAppend(k)
      <4>1. /\ held'[item] = held[item] \/ held'[item].loaded = {}
            /\ samples'[item] \in {samples[item], samples[item] \cup {held[item]}}
        BY <2>2, <3>3 DEF SamplerAppend, TypeInv, TypeOK
      <4>2. held'[item].loaded \subseteq {ModelOf(item)}
        BY <2>2, <4>1
      <4> QED
        BY <2>2, <4>1, <4>2
    <3> QED
      BY <1>5, <3>1, <3>2, <3>3 DEF Sampler
  <2> QED
    BY <2>1, <2>3 DEF AloneInv, ModelOf
<1> QED
  BY <1>1, <1>2, <1>3, <1>4, <1>5, KindsOfSteps DEF AloneInv, OpenNext

LEMMA NoAlarmStep ==
    /\ TypeInv /\ ResultsInv /\ SerialInv /\ PinnedInv /\ AloneInv
    /\ NoFalseAlarm /\ [Next]_vars
    => NoFalseAlarm'
<1> SUFFICES ASSUME TypeInv, ResultsInv, SerialInv, PinnedInv, AloneInv,
                    NoFalseAlarm, [Next]_vars
             PROVE  NoFalseAlarm'
  OBVIOUS
<1>1. [OpenNext]_vars
  BY DEF OpenNext
<1>2. CASE FinishItem
  <2>1. PICK reading \in {Answer, NoAnswer} :
            /\ DOMAIN results' = DOMAIN results \cup {item}
            /\ \A k \in DOMAIN results : results'[k] = results[k]
            /\ results'[item] = ItemResult(item, error, samples[item] \cup {reading})
    BY <1>2, OneMoreResult
  <2> DEFINE taken == samples[item] \cup {reading}
  <2>2. PICK last : last = results'[item]
    OBVIOUS
  <2>3. /\ last.error = error
        /\ last.resident_model_sets = taken
        /\ last.valid_single_resident <=> ValidSingleResident(ModelOf(item), error, taken)
    BY <2>1, <2>2, ResultFields
  <2>4. ASSUME ~error, NoFailedReading(last)
        PROVE  last.valid_single_resident
    <3>1. reading = Answer
      BY <2>1, <2>3, <2>4 DEF NoFailedReading, NoAnswer
    <3>2. ModelOf(item) \in resident
      BY <1>2, <2>4 DEF FinishItem, PinnedInv
    <3>3. \E s \in taken : ModelOf(item) \in s.loaded
      BY <2>1, <3>1, <3>2 DEF Answer
    <3>4. \A s \in taken : s.loaded \subseteq {ModelOf(item)}
      BY <1>2, <2>1, <3>1 DEF FinishItem, AloneInv, SerialInv, Window, Answer
    <3>5. \A s \in taken : Cardinality(s.loaded) <= 1
      BY <3>4, AtMostOne
    <3> QED
      BY <2>3, <2>4, <3>3, <3>5 DEF ValidSingleResident
  <2> QED
    BY <2>1, <2>2, <2>3, <2>4 DEF NoFalseAlarm
<1>3. CASE UNCHANGED results
  BY <1>3 DEF NoFalseAlarm, NoFailedReading
<1> QED
  BY <1>1, <1>2, <1>3, OnlyFinishItemReports

\* When the server is the harness's own and every reading was answered, an item that
\* generated without error is valid.
THEOREM NoAlarmIsFalse == Spec => []NoFalseAlarm
<1>1. Init => UnloadInv /\ PinnedInv /\ AloneInv /\ NoFalseAlarm
  BY DEF Init, UnloadInv, PinnedInv, AloneInv, NoFalseAlarm, Window
<1>2. TypeInv /\ UnloadInv /\ [Next]_vars => UnloadInv'
  BY UnloadStep DEF OpenNext
<1> QED
  BY <1>1, <1>2, PinnedStep, AloneStep, NoAlarmStep, OpenSeenInv, SpecSerialInv,
     SpecIsOpen, PTL DEF Spec
-------------------------------------------------------------------------------
(***************************************************************************)
(* The peak-memory bound: at most one model is resident, it is the model   *)
(* of a profile, and no profile's model is larger than the largest.        *)
(***************************************************************************)

\* What is resident between the first barrier and the end belongs to a profile.
ProfiledInv == Armed => RequiredModels # {} /\ resident \subseteq RequiredModels

LEMMA ModelOfRequired ==
    ASSUME NEW k, HasProfile(k)
    PROVE  ModelOf(k) \in RequiredModels
BY DEF HasProfile, ModelOf, RequiredModels

LEMMA ProfiledStep ==
    TypeInv /\ SerialInv /\ ProfiledInv /\ [Next]_vars => ProfiledInv'
<1> SUFFICES ASSUME TypeInv, SerialInv, ProfiledInv, [Next]_vars, Armed'
             PROVE  RequiredModels # {} /\ resident' \subseteq RequiredModels
  BY DEF ProfiledInv, RequiredModels
<1>1. [OpenNext]_vars /\ SerialInv'
  BY SerialStep DEF OpenNext
<1>2. CASE pc' \in Window \cup {"start"}
  <2>1. HasProfile(item)' /\ resident' \subseteq {ModelOf(item)}'
    BY <1>1, <1>2, TypeStep DEF SerialInv, TypeInv, BusyInv, Busy
  <2>2. PICK k : k = item'
    OBVIOUS
  <2>3. HasProfile(k) /\ resident' \subseteq {ModelOf(k)}
    BY <2>1, <2>2 DEF HasProfile, ModelOf, SelectedRoute
  <2> QED
    BY <2>3, ModelOfRequired
<1>3. CASE pc' \notin Window \cup {"start"}
  <2>1. item' > 1
    BY <1>2, <1>3 DEF Armed
  <2>2. Armed
    BY <1>1, <2>1, OnlyFinishItemReports DEF Armed, FinishItem, Window
  <2>3. resident' \subseteq resident
    <3>2. CASE Main \/ Raises \/ DeadlineExpires \/ Ended \/ UNCHANGED vars
      BY <3>2
      DEF serverVars, Main, ListModels, NextItem, SnapshotLoaded, Unload, EnterBarrier,
          BarrierPoll, BarrierTimeout, StartSampler, SendGenerate, GenerateReturns,
          GenerateRaises, SetStop, JoinReturns, JoinTimesOut, FinishItem, WriteJson,
          WriteCsv, WriteSvg, Validate, Raises, DeadlineExpires, Ended, vars
    <3>3. ASSUME NEW k \in ItemIndex, Sampler(k) PROVE UNCHANGED resident
      BY <3>3 DEF Sampler, SamplerCheck, SamplerPoll, SamplerAppend, serverVars
    <3>4. CASE ServeRequest
      BY <1>3, <3>4, ConfigAssumption DEF ServeRequest, TypeInv, RequestInv, Window
    <3>5. ASSUME NEW m \in Models, FinishUnload(m) \/ KeepAliveExpires(m)
          PROVE  resident' \subseteq resident
      BY <3>5 DEF FinishUnload, KeepAliveExpires
    <3> QED
      BY <3>2, <3>3, <3>4, <3>5 DEF Next, Server
  <2> QED
    BY <2>2, <2>3 DEF ProfiledInv
<1> QED
  BY <1>2, <1>3

\* A finite set of numbers that is not empty has a largest element.
LEMMA LargestExists ==
    ASSUME NEW S \in SUBSET Nat, IsFiniteSet(S), S # {}
    PROVE  \E x \in S : \A y \in S : x >= y
<1> DEFINE Largest(T) == \E x \in T : \A y \in T : x >= y
           Without == {n \in Nat : \E T \in SUBSET S :
                            T # {} /\ Cardinality(T) = n /\ ~Largest(T)}
<1> SUFFICES ASSUME Without # {} PROVE FALSE
  <2>1. Cardinality(S) \in Nat
    BY FS_CardinalityType
  <2> QED
    BY <2>1
<1>1. PICK n \in Without : \A m \in Without : ~(m < n)
  <2>1. \E n \in Without : \A m \in Without : ~(<<m, n>> \in OpToRel(<, Nat))
    <3> HIDE DEF Without
    <3>1. Without \subseteq Nat
      BY DEF Without
    <3> QED
      BY <3>1, NatLessThanWellFounded, WFMin
  <2> QED
    BY <2>1 DEF OpToRel
<1>2. PICK T \in SUBSET S : T # {} /\ Cardinality(T) = n /\ ~Largest(T)
  BY <1>1
<1>3. PICK x : x \in T
  BY <1>2
<1>4. IsFiniteSet(T)
  BY FS_Subset
<1>5. Cardinality(T \ {x}) = n - 1 /\ Cardinality(T \ {x}) \in Nat
  BY <1>2, <1>3, <1>4, FS_RemoveElement, FS_CardinalityType
<1>6. T \ {x} # {}
  BY <1>2, <1>3
<1>7. n \in Nat /\ T \ {x} \in SUBSET S
  BY <1>1
<1>8. Largest(T \ {x})
  <2>1. n - 1 < n
    BY <1>7
  <2>2. n - 1 \notin Without
    BY <1>1, <2>1, <1>5
  <2> QED
    BY <1>5, <1>6, <1>7, <2>2
<1>9. PICK y \in T \ {x} : \A z \in T \ {x} : y >= z
  BY <1>8
<1> QED
  BY <1>2, <1>3, <1>9

\* The footprint of what is resident, when that is at most one model.
LEMMA FootprintOfOne ==
    ASSUME NEW S, NEW m, S \subseteq {m}, Footprint[m] \in Nat
    PROVE  MapThenSumSet(LAMBDA n : Footprint[n], S)
            = IF S = {} THEN 0 ELSE Footprint[m]
<1> DEFINE Step(sum) ==
        [s \in SUBSET S |->
            IF s = {} THEN 0
            ELSE Footprint[CHOOSE x \in s : TRUE] + sum[s \ {CHOOSE x \in s : TRUE}]]
           sums == [s \in SUBSET S |-> IF s = {} THEN 0 ELSE Footprint[m]]
<1>1. MapThenSumSet(LAMBDA n : Footprint[n], S)
        = (CHOOSE sum : sum = Step(sum))[S]
  BY DEF MapThenSumSet, MapThenFoldSet
<1>2. ASSUME NEW s \in SUBSET S, s # {} PROVE s = {m} /\ (CHOOSE x \in s : TRUE) = m
  BY <1>2
<1>3. sums = Step(sums)
  BY <1>2
<1>4. ASSUME NEW sum, sum = Step(sum) PROVE sum[S] = IF S = {} THEN 0 ELSE Footprint[m]
  <2>1. \A s \in SUBSET S : sum[s] = Step(sum)[s]
    BY <1>4
  <2>2. sum[{}] = 0
    BY <2>1
  <2>3. ASSUME S # {} PROVE sum[S] = Footprint[m]
    <3>1. S = {m} /\ (CHOOSE x \in S : TRUE) = m
      BY <1>2, <2>3
    <3>2. sum[S] = Footprint[m] + sum[S \ {m}]
      BY <2>1, <2>3, <3>1
    <3> QED
      BY <2>2, <3>1, <3>2
  <2> QED
    BY <2>2, <2>3
<1> QED
  BY <1>1, <1>3, <1>4

LEMMA OccupiedIsBounded ==
    ASSUME TypeInv, SerialInv, ProfiledInv
    PROVE  PeakMemoryBound
<1> SUFFICES ASSUME Armed PROVE OccupiedMb <= ConfiguredPeak
  BY DEF PeakMemoryBound
<1>1. RequiredModels # {} /\ resident \subseteq RequiredModels /\ RequiredModels \subseteq Models
  BY ConfigAssumption DEF ProfiledInv, RequiredModels
<1> DEFINE footprints == {Footprint[m] : m \in RequiredModels}
           held_mb == MapThenSumSet(LAMBDA n : Footprint[n], resident)
<1>2. IsFiniteSet(footprints)
  <2>1. IsFiniteSet(RequiredModels)
    BY <1>1, ServerAssumption, FS_Subset
  <2>2. [m \in RequiredModels |-> Footprint[m]] \in Surjection(RequiredModels, footprints)
    BY DEF Surjection
  <2> QED
    BY <2>1, <2>2, FS_Surjection
<1>3. footprints \in SUBSET Nat /\ footprints # {}
  BY <1>1, MemoryAssumption
<1>4. /\ Max(footprints) \in footprints
      /\ \A f \in footprints : Max(footprints) >= f
  <2> HIDE DEF footprints
  <2> QED
    BY <1>2, <1>3, LargestExists DEF Max
<1>5. PICK m \in RequiredModels : resident \subseteq {m}
  BY <1>1 DEF SerialInv, SerializedResidency
<1>6. held_mb = IF resident = {} THEN 0 ELSE Footprint[m]
  BY <1>1, <1>5, MemoryAssumption, FootprintOfOne
<1>7. held_mb \in Nat /\ Max(footprints) \in Nat /\ held_mb <= Max(footprints)
  <2>1. Footprint[m] \in footprints /\ Footprint[m] \in Nat
    BY <1>1, <1>5, MemoryAssumption
  <2> HIDE DEF footprints, held_mb
  <2>2. Max(footprints) \in Nat
    BY <1>3, <1>4
  <2>3. Max(footprints) >= Footprint[m]
    BY <1>4, <2>1
  <2>4. CASE resident = {}
    BY <1>6, <2>2, <2>4
  <2>5. CASE resident # {}
    BY <1>6, <2>1, <2>2, <2>3, <2>5
  <2> QED
    BY <2>4, <2>5
<1> HIDE DEF footprints, held_mb
<1>8. /\ OccupiedMb = BaseMb + GuardrailMb + RouterMb + TransientMb + held_mb
      /\ ConfiguredPeak = BaseMb + GuardrailMb + RouterMb + Max(footprints) + TransientMb
  BY DEF OccupiedMb, ConfiguredPeak, theoretical_peak_ram_mb, footprints, held_mb
<1> QED
  BY <1>7, <1>8, MemoryAssumption

\* From the first barrier on, what the runtime and the resident models occupy stays under
\* the bound that theoretical_peak_ram_mb computes from the configured profiles.
THEOREM PeakMemoryIsBounded == Spec => []PeakMemoryBound
<1>1. Init => ProfiledInv
  BY DEF Init, ProfiledInv, Armed, Window
<1> QED
  BY <1>1, ProfiledStep, OccupiedIsBounded, SpecSerialInv, PTL DEF Spec
================================================================================
