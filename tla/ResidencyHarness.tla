--------------------------- MODULE ResidencyHarness ---------------------------
(***************************************************************************)
(* One run of benchmarks/measure_bounded_agent.py: the main thread that    *)
(* routes work items, raises the unload barrier and generates; the daemon  *)
(* sampler thread it starts for every item; and the model server both of   *)
(* them call.                                                              *)
(*                                                                         *)
(* A call to the server is one step that reads or changes the server's     *)
(* state; what the caller does with the answer is a later step wherever    *)
(* another actor can run in between.  Times, sizes, texts and the order of *)
(* samples are abstracted: the list of samples of an item is the set of    *)
(* its readings, because the harness only asks for the largest one and     *)
(* whether some reading holds the requested model.                         *)
(***************************************************************************)
EXTENDS Naturals, Sequences, FiniteSets

CONSTANTS
    Models,            \* model names the server knows
    NoModel,           \* no request is at the server
    Routes,            \* route names a work item may carry, "auto" included
    NoRoute,           \* an item without an expected route
    ItemIds,           \* the identifiers of work items
    Profiles,          \* route -> model, the "profiles" of the configuration
    WorkItems,         \* the "work_items" of the configuration
    StrictRoutes,      \* --strict-routes
    MaxForeignLoads,   \* bound: loads by other clients of the server
    MaxFailedReads     \* bound: samples of the run whose call raises

Prompts == [code : BOOLEAN, math : BOOLEAN, chat : BOOLEAN]

ASSUME ConfigAssumption ==
    /\ NoModel \notin Models
    /\ \A r \in DOMAIN Profiles : Profiles[r] \in Models
    /\ WorkItems \in Seq([item_id : ItemIds, route : Routes, prompt : Prompts,
                          expected_route : Routes \cup {NoRoute}])
    /\ StrictRoutes \in BOOLEAN
    /\ MaxForeignLoads \in Nat
    /\ MaxFailedReads \in Nat

\* A server lists its models in one answer.
ASSUME ServerAssumption == IsFiniteSet(Models)

VARIABLES
    \* main thread
    pc,               \* where the main thread is
    item,             \* index of the work item in progress
    installed,        \* the models listed when the run began
    todo,             \* conflicting models ensure_only_model still has to unload
    expired,          \* the 30 s deadline of the unload barrier has passed
    error,            \* the generation of this item raised
    results,          \* results of the finished items
    samples_by_item,  \* item_id -> copy of the item's samples
    json, csv, svg,   \* the artifacts written so far
    exit_code,        \* meaningful once pc = "exit"
    \* one sampler thread per item
    spc, stop, held, samples,
    \* model server
    resident, unloading, pinned, request, abandoned, foreign, failed,
    \* history
    truth             \* what the server really held while each item ran

mainVars    == <<item, installed, todo, expired, error>>
outputVars  == <<results, samples_by_item, json, csv, svg, exit_code>>
samplerVars == <<spc, stop, held, samples>>
serverVars  == <<resident, unloading, pinned, request, abandoned, foreign,
                 failed>>
vars == <<pc, mainVars, outputVars, samplerVars, serverVars, truth>>

ItemIndex == 1 .. Len(WorkItems)
-------------------------------------------------------------------------------
(***************************************************************************)
(* Routing and the verdict on an item, which touch no shared state.        *)
(***************************************************************************)

\* The baseline router: code before math before chat, "fast" otherwise.  A
\* prompt is the record of the marker families it contains (math includes the
\* arithmetic pattern, chat includes the 32-word threshold).
route_prompt(prompt) ==
    CASE prompt.code -> "code"
      [] ~prompt.code /\ prompt.math -> "math"
      [] ~prompt.code /\ ~prompt.math /\ prompt.chat -> "chat"
      [] OTHER -> "fast"

SelectedRoute(k) ==
    IF WorkItems[k].route = "auto" THEN route_prompt(WorkItems[k].prompt)
                                   ELSE WorkItems[k].route

HasProfile(k) == SelectedRoute(k) \in DOMAIN Profiles

ModelOf(k) == Profiles[SelectedRoute(k)]

RequiredModels == {Profiles[r] : r \in DOMAIN Profiles}

\* One reading of the loaded models.  The code stores [] when the call raises;
\* "failed" remembers that the empty list is not an answer of the server.
Readings == [loaded : SUBSET Models, failed : BOOLEAN]

Answer == [loaded |-> resident, failed |-> FALSE]
NoAnswer == [loaded |-> {}, failed |-> TRUE]

\* A call of loaded_models by a sampler yields "reading".
Read(reading) ==
    \/ reading = Answer /\ UNCHANGED failed
    \/ /\ reading = NoAnswer
       /\ failed < MaxFailedReads
       /\ failed' = failed + 1

\* Mutant: every reading has to show the requested model.
ValidSingleResident_EverySample(model, raised, taken) ==
    ~raised /\ \A s \in taken : s.loaded = {model}

\* No sample holds two models, some sample holds the requested one, no error.
ValidSingleResident(model, raised, taken) ==
    /\ ~raised
    /\ \A s \in taken : Cardinality(s.loaded) <= 1
    /\ \E s \in taken : model \in s.loaded

ItemResult(k, raised, taken) ==
    [model |-> ModelOf(k),
     route_correct |-> \/ WorkItems[k].expected_route = NoRoute
                       \/ WorkItems[k].expected_route = SelectedRoute(k),
     error |-> raised,
     resident_model_sets |-> taken,
     valid_single_resident |-> ValidSingleResident(ModelOf(k), raised, taken)]

ItemResults ==
    [model : Models, route_correct : BOOLEAN, error : BOOLEAN,
     resident_model_sets : SUBSET Readings, valid_single_resident : BOOLEAN]

\* Mutant: the validity flag is not looked at.
ResultsRejected_ErrorsOnly ==
    \E k \in DOMAIN results :
        results[k].error \/ (StrictRoutes /\ ~results[k].route_correct)

\* validate_results reports at least one error.
ResultsRejected ==
    \E k \in DOMAIN results :
        \/ results[k].error
        \/ ~results[k].valid_single_resident
        \/ StrictRoutes /\ ~results[k].route_correct

\* The counts of the summary that enters results.json.
summarize ==
    [items |-> Len(results),
     successful_items |-> Cardinality({k \in DOMAIN results : ~results[k].error}),
     single_resident_items |->
        Cardinality({k \in DOMAIN results : results[k].valid_single_resident}),
     overlap_sampled |-> \E k \in DOMAIN results :
        \E s \in results[k].resident_model_sets : Cardinality(s.loaded) > 1]

NoSummary == [items |-> 0, successful_items |-> 0,
              single_resident_items |-> 0, overlap_sampled |-> FALSE]

Summaries == [items : Nat, successful_items : Nat,
              single_resident_items : Nat, overlap_sampled : BOOLEAN]
-------------------------------------------------------------------------------
NoArtifact == [id \in ItemIds |-> {}]

Init ==
    /\ pc = "list"
    /\ item = 1
    /\ installed = {}
    /\ todo = {}
    /\ expired = FALSE
    /\ error = FALSE
    /\ results = <<>>
    /\ samples_by_item = NoArtifact
    /\ json = NoSummary
    /\ csv = NoArtifact
    /\ svg = NoArtifact
    /\ exit_code = 0
    /\ spc = [k \in ItemIndex |-> "new"]
    /\ stop = [k \in ItemIndex |-> FALSE]
    /\ held = [k \in ItemIndex |-> [loaded |-> {}, failed |-> FALSE]]
    /\ samples = [k \in ItemIndex |-> {}]
    /\ resident \in SUBSET Models      \* whatever earlier clients left behind
    /\ unloading = {}
    /\ pinned = {}
    /\ request = NoModel
    /\ abandoned = {}
    /\ foreign = 0
    /\ failed = 0
    /\ truth = [k \in ItemIndex |-> [overlap |-> FALSE, served |-> FALSE]]

\* The item is between the start and the last reading of its sampler.
Window == {"generate", "generating", "stop", "join", "finish"}

\* History: the server goes on to hold the models "now" while item k runs.
Witness(k, now) ==
    truth' = [truth EXCEPT ![k] =
                [overlap |-> @.overlap \/ Cardinality(now) > 1,
                 served  |-> @.served \/ ModelOf(k) \in now]]

Observe(now) == IF pc \in Window THEN Witness(item, now) ELSE UNCHANGED truth

Exit(code) ==
    /\ pc' = "exit"
    /\ exit_code' = code
-------------------------------------------------------------------------------
(***************************************************************************)
(* Main thread: main, run_item, ensure_only_model.                         *)
(***************************************************************************)

\* main lists the installed models once, for the whole run.  The listing
\* contains what is resident; a required model it misses ends the program.
ListModels(listed) ==
    /\ pc = "list"
    /\ resident \subseteq listed
    /\ installed' = listed
    /\ IF RequiredModels \subseteq listed
       THEN pc' = "item" /\ UNCHANGED exit_code
       ELSE Exit(1)
    /\ UNCHANGED <<item, todo, expired, error, results, samples_by_item,
                   json, csv, svg, samplerVars, serverVars, truth>>

\* Head of main's loop and of run_item: a route without a profile is a
\* KeyError nobody catches; no item left means the artifacts are written.
NextItem ==
    /\ pc = "item"
    /\ IF item \notin ItemIndex THEN pc' = "write_json" /\ UNCHANGED exit_code
       ELSE IF HasProfile(item) THEN pc' = "snapshot" /\ UNCHANGED exit_code
       ELSE Exit(1)
    /\ UNCHANGED <<mainVars, results, samples_by_item, json, csv, svg,
                   samplerVars, serverVars, truth>>

\* ensure_only_model checks the listing, then reads the loaded models once.
SnapshotLoaded ==
    /\ pc = "snapshot"
    /\ IF ModelOf(item) \in installed
       THEN /\ todo' = resident \ {ModelOf(item)}
            /\ pc' = "unload"
            /\ UNCHANGED exit_code
       ELSE Exit(1) /\ UNCHANGED todo
    /\ UNCHANGED <<item, installed, expired, error, results, samples_by_item,
                   json, csv, svg, samplerVars, serverVars, truth>>

\* One unload request, keep_alive 0.  The server answers before the model has
\* left; a model that is already gone is not loaded for it.
Unload(m) ==
    /\ pc = "unload"
    /\ m \in todo
    /\ todo' = todo \ {m}
    /\ unloading' = unloading \cup ({m} \cap resident)
    /\ pinned' = pinned \ {m}
    /\ UNCHANGED <<pc, item, installed, expired, error, outputVars, samplerVars,
                   resident, request, abandoned, foreign, failed, truth>>

EnterBarrier ==
    /\ pc = "unload"
    /\ todo = {}
    /\ pc' = "barrier"
    /\ expired' = FALSE
    /\ UNCHANGED <<item, installed, todo, error, outputVars, samplerVars,
                   serverVars, truth>>

\* Mutant: any() in the place of all().
BarrierClear_Any(loaded, model) == loaded = {} \/ model \in loaded

\* Mutant: the unload requests are taken for done.
BarrierClear_Skipped(loaded, model) == TRUE

\* What the barrier waits for: no model but the selected one is reported.
BarrierClear(loaded, model) == loaded \subseteq {model}

\* One round of the barrier loop that finds the barrier clear; a round that
\* does not sleeps and changes nothing.
BarrierPoll ==
    /\ pc = "barrier"
    /\ ~expired
    /\ BarrierClear(resident, ModelOf(item))
    /\ pc' = "start"
    /\ UNCHANGED <<mainVars, outputVars, samplerVars, serverVars, truth>>

\* The clock passes the deadline.
DeadlineExpires ==
    /\ pc = "barrier"
    /\ ~expired
    /\ expired' = TRUE
    /\ UNCHANGED <<pc, item, installed, todo, error, outputVars, samplerVars,
                   serverVars, truth>>

\* Mutant: the item goes on in spite of the failed barrier.
BarrierTimeout_Proceeds ==
    /\ pc = "barrier"
    /\ expired
    /\ pc' = "start"
    /\ UNCHANGED <<mainVars, outputVars, samplerVars, serverVars, truth>>

\* Mutant: the deadline is renewed in every round.
BarrierTimeout_Retries ==
    /\ pc = "barrier"
    /\ expired
    /\ expired' = FALSE
    /\ UNCHANGED <<pc, item, installed, todo, error, outputVars, samplerVars,
                   serverVars, truth>>

\* "unload barrier failed": a RuntimeError nobody catches.
BarrierTimeout ==
    /\ pc = "barrier"
    /\ expired
    /\ Exit(1)
    /\ UNCHANGED <<mainVars, results, samples_by_item, json, csv, svg,
                   samplerVars, serverVars, truth>>

\* A call of the main thread outside generate raises, or writing a file does:
\* nothing catches it, the interpreter exits with status 1.
Raises ==
    /\ pc \in {"list", "snapshot", "unload", "barrier",
               "write_json", "write_csv", "write_svg"}
    /\ pc = "unload" => todo # {}
    /\ pc = "barrier" => ~expired
    /\ Exit(1)
    /\ UNCHANGED <<mainVars, results, samples_by_item, json, csv, svg,
                   samplerVars, serverVars, truth>>

\* Mutant: one MemorySampler serves all items and keeps its samples.
StartSampler_Shared ==
    /\ pc = "start"
    /\ pc' = "generate"
    /\ spc' = [spc EXCEPT ![item] = "check"]
    /\ stop' = [stop EXCEPT ![item] = FALSE]
    /\ samples' = [samples EXCEPT ![item] = UNION {samples[k] : k \in 1 .. item}]
    /\ Witness(item, resident)
    /\ UNCHANGED <<mainVars, outputVars, held, serverVars>>

\* A new MemorySampler: no samples yet, its stop event clear.
StartSampler ==
    /\ pc = "start"
    /\ pc' = "generate"
    /\ spc' = [spc EXCEPT ![item] = "check"]
    /\ stop' = [stop EXCEPT ![item] = FALSE]
    /\ samples' = [samples EXCEPT ![item] = {}]
    /\ Witness(item, resident)
    /\ UNCHANGED <<mainVars, outputVars, held, serverVars>>

\* The generate request leaves, keep_alive -1; the server may be long to serve.
SendGenerate ==
    /\ pc = "generate"
    /\ request' = ModelOf(item)
    /\ pc' = "generating"
    /\ UNCHANGED <<mainVars, outputVars, samplerVars, resident, unloading,
                   pinned, abandoned, foreign, failed, truth>>

GenerateReturns ==
    /\ pc = "generating"
    /\ request \in resident \cap pinned
    /\ request' = NoModel
    /\ error' = FALSE
    /\ pc' = "stop"
    /\ UNCHANGED <<item, installed, todo, expired, outputVars, samplerVars,
                   resident, unloading, pinned, abandoned, foreign, failed, truth>>

\* An error answer or the client's timeout, caught and kept as text.  The
\* server may still be loading the model nobody waits for any more.
GenerateRaises ==
    /\ pc = "generating"
    /\ request' = NoModel
    /\ abandoned' = abandoned \cup ({request} \ pinned)
    /\ error' = TRUE
    /\ pc' = "stop"
    /\ UNCHANGED <<item, installed, todo, expired, outputVars, samplerVars,
                   resident, unloading, pinned, foreign, failed, truth>>

\* MemorySampler.stop sets the event, waits for the thread for a bounded time,
\* takes a last reading itself and returns a copy of the samples.
SetStop ==
    /\ pc = "stop"
    /\ stop' = [stop EXCEPT ![item] = TRUE]
    /\ pc' = "join"
    /\ UNCHANGED <<mainVars, outputVars, spc, held, samples, serverVars, truth>>

\* The thread has ended, or join's timeout ran out first: stop goes on either
\* way, and a thread that is late lives on.
JoinReturns ==
    /\ pc = "join"
    /\ spc[item] = "done"
    /\ pc' = "finish"
    /\ UNCHANGED <<mainVars, outputVars, samplerVars, serverVars, truth>>

JoinTimesOut ==
    /\ pc = "join"
    /\ spc[item] # "done"
    /\ pc' = "finish"
    /\ UNCHANGED <<mainVars, outputVars, samplerVars, serverVars, truth>>

\* Mutant: stop returns what the thread sampled, without a reading of its own.
FinishItem_NoLastReading ==
    /\ pc = "finish"
    /\ results' = Append(results, ItemResult(item, error, samples[item]))
    /\ samples_by_item' =
          [samples_by_item EXCEPT ![WorkItems[item].item_id] = samples[item]]
    /\ item' = item + 1
    /\ pc' = "item"
    /\ UNCHANGED <<installed, todo, expired, error, json, csv, svg, exit_code,
                   samplerVars, serverVars, truth>>

\* The last reading, the verdict on the item, and main's bookkeeping of both.
FinishItem ==
    /\ pc = "finish"
    /\ \E reading \in {Answer, NoAnswer} :
        LET taken == samples[item] \cup {reading} IN
        /\ Read(reading)
        /\ samples' = [samples EXCEPT ![item] = taken]
        /\ results' = Append(results, ItemResult(item, error, taken))
        /\ samples_by_item' =
              [samples_by_item EXCEPT ![WorkItems[item].item_id] = taken]
    /\ item' = item + 1
    /\ pc' = "item"
    /\ UNCHANGED <<installed, todo, expired, error, json, csv, svg, exit_code,
                   spc, stop, held, resident, unloading, pinned, request,
                   abandoned, foreign, truth>>

\* Mutant: stop hands out the sampler's own list instead of a copy.
SampleRows_Aliased ==
    [id \in ItemIds |->
        UNION {samples[k] : k \in {j \in DOMAIN results : WorkItems[j].item_id = id}}]

\* The rows both writers of samples iterate over.
SampleRows == samples_by_item

WriteJson ==
    /\ pc = "write_json"
    /\ json' = summarize
    /\ pc' = "write_csv"
    /\ UNCHANGED <<mainVars, results, samples_by_item, csv, svg, exit_code,
                   samplerVars, serverVars, truth>>

WriteCsv ==
    /\ pc = "write_csv"
    /\ csv' = SampleRows
    /\ pc' = "write_svg"
    /\ UNCHANGED <<mainVars, results, samples_by_item, json, svg, exit_code,
                   samplerVars, serverVars, truth>>

WriteSvg ==
    /\ pc = "write_svg"
    /\ svg' = SampleRows
    /\ pc' = "validate"
    /\ UNCHANGED <<mainVars, results, samples_by_item, json, csv, exit_code,
                   samplerVars, serverVars, truth>>

\* Mutant: the number of errors is the exit status.
Validate_CountsErrors ==
    /\ pc = "validate"
    /\ Exit(Cardinality({k \in DOMAIN results : results[k].error})
            + Cardinality({k \in DOMAIN results : ~results[k].valid_single_resident}))
    /\ UNCHANGED <<mainVars, results, samples_by_item, json, csv, svg,
                   samplerVars, serverVars, truth>>

\* Only now are the results validated: the artifacts of a bad run stay.
Validate ==
    /\ pc = "validate"
    /\ Exit(IF ResultsRejected THEN 2 ELSE 0)
    /\ UNCHANGED <<mainVars, results, samples_by_item, json, csv, svg,
                   samplerVars, serverVars, truth>>
-------------------------------------------------------------------------------
(***************************************************************************)
(* Sampler thread of item k (MemorySampler._run), a daemon: it runs until  *)
(* it sees its stop event or the process ends.  The pause between samples  *)
(* only delays the next check.                                             *)
(***************************************************************************)

\* Mutant: the loop never looks at the event.
SamplerCheck_Deaf(k) ==
    /\ pc # "exit"
    /\ spc[k] = "check"
    /\ spc' = [spc EXCEPT ![k] = "poll"]
    /\ UNCHANGED <<pc, mainVars, outputVars, stop, held, samples, serverVars,
                   truth>>

SamplerCheck(k) ==
    /\ pc # "exit"
    /\ spc[k] = "check"
    /\ spc' = [spc EXCEPT ![k] = IF stop[k] THEN "done" ELSE "poll"]
    /\ UNCHANGED <<pc, mainVars, outputVars, stop, held, samples, serverVars,
                   truth>>

\* The reading is taken here and appended later.
SamplerPoll(k) ==
    /\ pc # "exit"
    /\ spc[k] = "poll"
    /\ \E reading \in {Answer, NoAnswer} :
        /\ Read(reading)
        /\ held' = [held EXCEPT ![k] = reading]
    /\ spc' = [spc EXCEPT ![k] = "append"]
    /\ UNCHANGED <<pc, mainVars, outputVars, stop, samples, resident, unloading,
                   pinned, request, abandoned, foreign, truth>>

SamplerAppend(k) ==
    /\ pc # "exit"
    /\ spc[k] = "append"
    /\ samples' = [samples EXCEPT ![k] = @ \cup {held[k]}]
    /\ held' = [held EXCEPT ![k] = [loaded |-> {}, failed |-> FALSE]]
    /\ spc' = [spc EXCEPT ![k] = "check"]
    /\ UNCHANGED <<pc, mainVars, outputVars, stop, serverVars, truth>>
-------------------------------------------------------------------------------
(***************************************************************************)
(* The model server, as far as the harness depends on it (external),       *)
(* followed until the process ends.                                        *)
(***************************************************************************)

\* The requested model is loaded, if it was not, and kept (keep_alive -1).
ServeRequest ==
    /\ pc # "exit"
    /\ request \in Models \ pinned
    /\ resident' = resident \cup {request}
    /\ pinned' = pinned \cup {request}
    /\ Observe(resident')
    /\ UNCHANGED <<pc, mainVars, outputVars, samplerVars, unloading, request,
                   abandoned, foreign, failed>>

\* An unload that was requested takes effect.
FinishUnload(m) ==
    /\ pc # "exit"
    /\ m \in unloading
    /\ unloading' = unloading \ {m}
    /\ resident' = resident \ {m}
    /\ UNCHANGED <<pc, mainVars, outputVars, samplerVars, pinned, request,
                   abandoned, foreign, failed, truth>>

\* The default keep-alive of a model nobody pinned runs out.
KeepAliveExpires(m) ==
    /\ pc # "exit"
    /\ m \in resident \ (pinned \cup unloading)
    /\ resident' = resident \ {m}
    /\ UNCHANGED <<pc, mainVars, outputVars, samplerVars, unloading, pinned,
                   request, abandoned, foreign, failed, truth>>

\* A request the harness gave up on is served all the same.
LateLoad(m) ==
    /\ pc # "exit"
    /\ m \in abandoned
    /\ abandoned' = abandoned \ {m}
    /\ resident' = resident \cup {m}
    /\ pinned' = pinned \cup {m}
    /\ Observe(resident')
    /\ UNCHANGED <<pc, mainVars, outputVars, samplerVars, unloading, request,
                   foreign, failed>>

\* Another client of the server has a model loaded.
ForeignLoad(m) ==
    /\ pc # "exit"
    /\ foreign < MaxForeignLoads
    /\ m \in Models \ resident
    /\ foreign' = foreign + 1
    /\ resident' = resident \cup {m}
    /\ Observe(resident')
    /\ UNCHANGED <<pc, mainVars, outputVars, samplerVars, unloading, pinned,
                   request, abandoned, failed>>
-------------------------------------------------------------------------------
Main ==
    \/ \E listed \in SUBSET Models : ListModels(listed)
    \/ NextItem \/ SnapshotLoaded
    \/ \E m \in Models : Unload(m)
    \/ EnterBarrier \/ BarrierPoll \/ BarrierTimeout
    \/ StartSampler \/ SendGenerate \/ GenerateReturns \/ GenerateRaises
    \/ SetStop \/ JoinReturns \/ JoinTimesOut \/ FinishItem
    \/ WriteJson \/ WriteCsv \/ WriteSvg \/ Validate

Sampler(k) == SamplerCheck(k) \/ SamplerPoll(k) \/ SamplerAppend(k)

Server ==
    \/ ServeRequest
    \/ \E m \in Models : FinishUnload(m) \/ KeepAliveExpires(m)

\* What the paper assumes away (section 2.2).
Interference == \E m \in Models : LateLoad(m) \/ ForeignLoad(m)

\* The process has ended.
Ended == pc = "exit" /\ UNCHANGED vars

Next ==
    \/ Main
    \/ Raises
    \/ DeadlineExpires
    \/ \E k \in ItemIndex : Sampler(k)
    \/ Server
    \/ Ended

OpenNext == Next \/ Interference

\* The harness alone with its server, under the paper's assumptions.
Spec == Init /\ [][Next]_vars

\* The harness with a server that others use and that may serve late.
OpenSpec == Init /\ [][OpenNext]_vars

(***************************************************************************)
(* Every call has a timeout (urlopen, join) and the clock advances, so the *)
(* main thread keeps moving.  The server and the sampler threads owe       *)
(* nothing.                                                                *)
(***************************************************************************)
Fairness ==
    /\ WF_vars(Main)
    /\ WF_vars(DeadlineExpires)

FairOpenSpec == OpenSpec /\ Fairness
-------------------------------------------------------------------------------
(***************************************************************************)
(* Properties.                                                             *)
(***************************************************************************)

MainPcs ==
    {"list", "item", "snapshot", "unload", "barrier", "start", "generate",
     "generating", "stop", "join", "finish", "write_json", "write_csv",
     "write_svg", "validate", "exit"}

SampleRowsType == [ItemIds -> SUBSET Readings]

\* Every variable has its type; an item is in progress wherever run_item is.
TypeOK ==
    /\ pc \in MainPcs
    /\ item \in 1 .. Len(WorkItems) + 1
    /\ installed \in SUBSET Models
    /\ todo \in SUBSET Models
    /\ expired \in BOOLEAN
    /\ error \in BOOLEAN
    /\ results \in Seq(ItemResults)
    /\ samples_by_item \in SampleRowsType
    /\ json \in Summaries
    /\ csv \in SampleRowsType
    /\ svg \in SampleRowsType
    /\ exit_code \in 0 .. 2
    /\ spc \in [ItemIndex -> {"new", "check", "poll", "append", "done"}]
    /\ stop \in [ItemIndex -> BOOLEAN]
    /\ held \in [ItemIndex -> Readings]
    /\ samples \in [ItemIndex -> SUBSET Readings]
    /\ resident \in SUBSET Models
    /\ unloading \in SUBSET Models
    /\ pinned \in SUBSET Models
    /\ request \in Models \cup {NoModel}
    /\ abandoned \in SUBSET Models
    /\ foreign \in 0 .. MaxForeignLoads
    /\ failed \in 0 .. MaxFailedReads
    /\ truth \in [ItemIndex -> [overlap : BOOLEAN, served : BOOLEAN]]

\* The first unload barrier has been passed.
Armed == item > 1 \/ pc \in Window \cup {"start"}

\* Serialized residency (paper, section 5.2): once the first barrier is passed
\* the server never holds two models, whatever it held before, in whatever
\* order its unloads and loads take effect, and whichever calls fail.
SerializedResidency == Armed => \A m, n \in resident : m = n

\* The harness keeps the promise of ResidencyAbstract from its first state on:
\* what earlier clients left only goes away, and every load finds the server
\* empty or already holding that one model.
Promise == INSTANCE ResidencyAbstract
Serialized == Promise!AbstractSpec

\* The unload barrier is a barrier for unloads: while an item runs no unload is
\* in flight, so none can take away the model the item was routed to.  This
\* holds whatever other clients of the server do.
NoUnloadInFlight == pc \in Window \cup {"start"} => unloading = {}

NoFailedReading(result) == \A s \in result.resident_model_sets : ~s.failed

\* No false alarm: when the server is the harness's own and every reading was
\* answered, an item that generated without error is valid, however the readings
\* of the sampler fell among the unloads and the load.
NoFalseAlarm ==
    \A k \in DOMAIN results :
        ~results[k].error /\ NoFailedReading(results[k])
            => results[k].valid_single_resident

\* A verdict is about its own item: an item is only valid if the server held
\* its model while the item ran, and an overlap is only reported of an item
\* during which the server did hold two models.  Readings of a sampler thread
\* that outlives its item never count for another one.
VerdictGrounded ==
    \A k \in DOMAIN results :
        /\ results[k].valid_single_resident => truth[k].served
        /\ (\E s \in results[k].resident_model_sets : Cardinality(s.loaded) > 1)
                => truth[k].overlap

\* An overlap that is still there when the item ends is not missed: a last
\* reading the server answered makes the item invalid.
FinalOverlapCaught ==
    [][ Len(results') > Len(results) /\ Cardinality(resident) > 1
        => LET last == results'[Len(results')]
           IN  NoFailedReading(last) => ~last.valid_single_resident ]_vars

\* The files tell one story.  results.json reports on all items or is not written,
\* whichever call raises and whichever route is unknown; the CSV and the SVG hold,
\* for every item, exactly the samples its verdict there was computed from, although
\* a sampler thread that missed the join may still be appending (and unless two
\* items share an identifier).
ArtifactsAgree ==
    /\ json # NoSummary => Len(results) = Len(WorkItems)
    /\ \A k \in DOMAIN results :
        (\A j \in DOMAIN results \ {k} : WorkItems[j].item_id # WorkItems[k].item_id)
        => LET rows == results[k].resident_model_sets
               id   == WorkItems[k].item_id
           IN  /\ pc \in {"write_svg", "validate"} => csv[id] = rows
               /\ pc = "validate" => svg[id] = rows

\* A sampler thread that missed its join bothers the server at most once more:
\* beyond the readings the verdict on its item was computed from, its list ever
\* gains one reading, however many later items run while it is alive.
StragglerBounded ==
    \A k \in DOMAIN results :
        Cardinality(samples[k] \ results[k].resident_model_sets) <= 1

\* Exit status 0 can be trusted: every configured item has a result, each ran
\* without error on the route it was labelled with (in strict mode) while the
\* server held its model, and the summary in results.json says the same.
CleanExitTrusted ==
    pc = "exit" /\ exit_code = 0 =>
        /\ Len(results) = Len(WorkItems)
        /\ \A k \in ItemIndex :
               /\ truth[k].served
               /\ StrictRoutes => WorkItems[k].expected_route
                                    \in {NoRoute, SelectedRoute(k)}
        /\ json.items = Len(WorkItems)
        /\ json.successful_items = json.items
        /\ json.single_resident_items = json.items
        /\ ~json.overlap_sampled

\* The run ends, even if the server never completes an unload or a load and a
\* sampler thread is never scheduled again.
Termination == <>(pc = "exit")

(***************************************************************************)
(* What the documents say and the code does not do.                        *)
(***************************************************************************)

\* "fail-closed validity checks" (bounded-agent-paper.md:39): an item whose
\* residency could not be read at some sample is not reported valid.
FailClosed ==
    \A k \in DOMAIN results :
        results[k].valid_single_resident => NoFailedReading(results[k])
===============================================================================
