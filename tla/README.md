# A verification project for AACP

AACP is a set of small Python programs for agents that run language models
locally: a gate that decides which text may cause which effect, a detector that
scores texts, and a harness that measures whether a model server really holds
one model at a time. This directory holds TLA+ models of the parts whose
behaviour over time matters, TLC configurations that check them on small
instances, and proofs that TLAPS checks for every instance.

## 1. Inventory

### Measurement harness (`benchmarks/measure_bounded_agent.py`)

*State*: the results and the samples of the items (main thread); one list of
samples, one stop event and one daemon thread per item (`MemorySampler`); the
resident models (the server's, reached over HTTP); three files and an exit
status. *Operations*: `main` lists the installed models once, then for every item
`run_item` chooses a route, `ensure_only_model` unloads conflicting models and
waits at a barrier, a sampler thread starts, `generate` is called, the sampler is
stopped and the item gets a verdict; at the end `write_json`, `write_csv`,
`write_svg` and `validate_results`. *Hard*: unload requests are answered before
they take effect; client timeouts race with late loads; the barrier is checked
before `generate` acts; `join` has a timeout, so a sampler thread can outlive its
item; a failed poll looks like an empty server; exceptions end the program.
*Correct means*: the server never holds two models from the first barrier on; an
item is only valid if it was served, and never rejected for no reason; the files
and the exit status tell the same story; the run ends.

### Authority gate (`aacp_protocol/gateway.py`, tables in `types.py`)

*State*: `AUDIT_RECEIPTS`, one list for the whole process. *Operations*:
`enforce_effect`, `memory_write_allowed`, `rag_ingestion_allowed`,
`authorize_tool_request`, `clear_receipts`. *Hard*: one decision may be several
steps with a receipt each, and other callers come in between; an "allowed"
receipt may be followed by a refusal and the other way round. *Correct means*:
the decision is the one the tables give the call as a whole (complete mediation),
the receipts tell it, and the detector can only take permission away.

### Context segments and provenance (`types.py`, `provenance.py`)

*State*: mutable segments. *Operations*: the constructor (`__post_init__`),
`build`, `auto_tag_segment` from provenance metadata, `auto_tag` in place. *Hard*:
authority, trust level, untrusted flag and identifier are derived from one another
once, in several places, and then travel separately to the gate, the detector and
the gateway. *Correct means*: they agree however the segment was made.

### Detector (`detector.py`), hooks (`llm_detector.py`)

*State*: none between calls. `_raw_score` recurses into encoded words, takes the
heaviest pattern, and adds keywords until it has enough; `detect_segment` applies
a floor and the answer of a hook that may fail. *Correct means*: the scan returns; its
early exits change neither what is blocked nor the action, and hide a class only beyond
0.95, where it decides what the verdict is called; a hook that answers only raises the
score.

*Hooks*: the lightweight detectors look for phrases; the external ones ask a remote
model, which may answer anything or fail; all but the external one of the first version can
also be asked for a verdict of their own. *Hard*: a failure is turned into a score;
thresholds exist several times, some fixed (0.65 in the package's hooks and in
`detect_segment`) and some configured (`InjectionDetector`, the first version's lightweight
detector). *Correct means*: no answer lifts a block, no library's hook raises, a remote
model that is down changes nothing, and the verdicts differ by their thresholds only.

### MCP adapter (`aacp_protocol/adapters/mcp_adapter.py`)

*State*: none of its own; each guard is several calls of the gate, about a segment it
builds for a tool description or a tool result. *Hard*: other callers of the gate and the
clearing of the receipts come in between; whether a part was allowed is read off the
returned text. *Correct means*: the report tells what the gate decided, a tool server is
granted entry into the prompt at most, and the receipts of a guard stay in order.

### Agent filters (the AutoGen adapters of both generations)

*State*: the `_process_received_message` of the agents they patch, and the messages, which
the filter of the first version rewrites in place. *Hard*: registering reads the method
and replaces it later; filters stack in any order; one message object may be delivered to
several agents by several threads. *Correct means*: no message gets around a registered
filter, and none that came risky arrives unwrapped.

### Framework adapters (LangChain, CrewAI, Semantic Kernel, both generations)

*State*: the mapping of inputs, shared with the application. *Operations*: screen the
inputs, or some of them, then delegate. *Hard*: inputs are rewritten one by one, may be
added to meanwhile, and are used again when the caller retries. *Correct means*: what is
wrapped stays wrapped, and retrying is no way around a refusal.

### Audit log (`audit.py`, `AuditEvent` in `types.py`)

*State*: the list of events and `last_hash`. *Operations*: `record`, `to_jsonl`. *Hard*:
`record` reads `last_hash`, publishes a new one and appends, without a lock. *Correct
means*: the list is one chain, nothing is lost, an export verifies.

### First version (`types.py`, `detector.py`, `policy.py`, `gateway.py` at the top level)

*State*: none in the modules; the application keeps results by `segment_id` and passes
them to the gate. *Hard*: the treatment of a segment is decided in four files, by
verdict, action, route and gate; different segments can share an identifier. *Correct
means*: the four agree, a refusal is not replaced by a harmless result of the same content,
and what the gate of the package grants and the older one refused is known: `calendar_invite`
is a risky sink for the older one only, and nothing else is granted that was refused.

### Other parts

`AACPGateway.process` is modelled as the adapters use it; `ToolSinkGateway` and
`validate_output_policy` are pure functions. Schemas, corpora, CI files and papers hold
no program logic.

### How the parts interact

The application makes segments, may run the detector on them, and passes both,
keyed by `segment_id`, to the gate. The adapters do so for a framework: the MCP adapter
calls the gate, all others the detector, directly or through `AACPGateway`. The hooks are
called back by the detector. The audit log is passed to nobody; the application
records what it likes. The first version and the package share no state, but the adapters
of the first generation run on the package's detector. The harness is separate: it talks to the model
server, whose state its two kinds of threads read and change at the same time.

## 2. Modules

| module | models | uses |
|---|---|---|
| `ResidencyAbstract` | the promise of serialized residency: models leave, and a model enters only an otherwise empty server | |
| `ResidencyHarness` | the harness with its sampler threads, its server and the server's other clients | `ResidencyAbstract` (refinement) |
| `ResidencyMemory` | `theoretical_peak_ram_mb` against what is resident | `ResidencyHarness` |
| `ResidencyProofs` | proofs about `ResidencyHarness` and `ResidencyMemory` | |
| `AuthorityPolicy` | the tables, and the decision a call deserves | |
| `MediationAbstract` | complete mediation: each call answered in one step with that decision | `AuthorityPolicy` |
| `AuthorityGate` | the gate step by step, with several callers | `MediationAbstract` (refinement) |
| `ContextSegments` | segments, their derived fields and identifiers | `AuthorityPolicy` |
| `ContextProofs` | proofs about `ContextSegments` | |
| `DetectorScan` | `_raw_score` as a stack machine, then `detect_segment` | |
| `LlmHooks` | both `llm_detector.py`, as the source of the hook's score | `DetectorScan` (extends) |
| `DetectorProofs` | proofs about `DetectorScan` and `LlmHooks` | |
| `MCPAdapter` | the guards of tool servers, composed with the gate | `AuthorityGate` (extends) |
| `AuthorityProofs` | proofs about `AuthorityGate`, then about `MCPAdapter` on top of it | |
| `AgentFilters` | both AutoGen adapters | |
| `AgentProofs` | proofs about `AgentFilters` | |
| `FrameworkCalls` | the other six adapters | |
| `FrameworkProofs` | proofs about `FrameworkCalls` | |
| `AuditChain` | the promise of a hash chain: one chain that grows at its end | |
| `AuditLog` | `record` and `to_jsonl`, step by step | `AuditChain` (refinement) |
| `AuditProofs` | proofs about `AuditLog` | |
| `LegacyPipeline` | the first version, compared with the package's tables | `AuthorityPolicy` |
| `LegacyProofs` | proofs about `LegacyPipeline` | |
| `MC*` | instances for TLC | |

Operators named `X_Something` right before an operator `X` are mutants of it: what
a plausible bug would make of the code. For every property of every passing run
there is one that violates it; no run uses them.

### Residency

The variables of the main thread are the locals of `main` and `run_item`; `pc`
names the statement it is at. `SnapshotLoaded`, `Unload`, `EnterBarrier`,
`BarrierPoll`, `BarrierTimeout` are `ensure_only_model`; `StartSampler`, `SetStop`,
`JoinReturns`, `JoinTimesOut` and `FinishItem` are the sampler's methods seen from
the main thread (`FinishItem` includes the verdict, `results.append` and the entry
in `samples_by_item`, which nothing can interleave with). `SamplerCheck`,
`SamplerPoll`, `SamplerAppend` are one turn of the sampler thread of an item.
`Raises` is any call whose exception nobody catches. Only readings matter to the
verdict, so the samples of an item are the *set* of its readings; times, sizes and
texts are left out, except where `ResidencyMemory` adds footprints. A reading
remembers in `failed` that the code's empty list stands for an exception; no action
looks at it, properties do. `truth` is a history variable: what the server really
held while the item ran. `Unload` picks the models in any order; the code sorts
them, which nothing depends on.

The server (external) is modelled from what the harness relies on: an unload is
requested with `keep_alive` 0 and completes later; a request with `keep_alive` -1
loads and pins a model; an unpinned model may leave; a listing contains what is
resident. `Spec` is the harness alone with that server. `OpenSpec` adds
`LateLoad` (a request the client gave up on is served) and `ForeignLoad` (another
client), which section 2.2 of the paper assumes away: results about verdicts and
artifacts are checked under `OpenSpec`, the residency guarantee under `Spec`.

### Authority

A call carries what a decision can depend on; a verdict is "none", "other" or
"high_risk". `Enforce` is `enforce_effect` called alone or by its two wrappers,
`Override` the second half of `memory_write_allowed`, `ResolvedSource` and
`UnresolvedSource` the two branches of the loop of `authorize_tool_request`, `Sink`
what follows the loop. A step ends with the append to the list, the only access to
shared state. `emitted` is a history variable with the receipts of the latest call
of each caller. Callers are threads of the application; the gate takes no lock.

### Segments and detector

`ContextSegments` keeps texts as sequences of words (the constant `Words`, any set that
holds the words the code itself writes) with the separator of the identifier as one of them, and a digest as the text it is computed from (no
hash collisions). A segment that is given an authority name outside the list is a
ValueError and never exists. `build` is modelled without its `**extra`, through which a
caller may set any field, `trust_level` and `segment_id` included: what the runs and proofs
say of derived fields is about segments made without it.
`DetectorScan` reduces a text to what the scan finds in it (encoded words, patterns,
markers, keywords in vocabulary order). Scores are hundredths: for up to three
keyword weights added to any starting score, the floating-point sums of the code
are on the same side of 0.35, 0.65, 0.85 and 0.95 as the exact ones. `Judge` is the verdict
of `detect_segment`, `HookFailed` its branch for a hook that raises.

`LlmHooks` extends `DetectorScan` with the library behind the hook (`lib`, a set of one, or
empty when the application passes a hook of its own, which may raise, or none) and the
verdict the library gives when asked itself (`own`), for which a remote model is asked once
more and may answer something else. `own` is empty for the `ExternalLLMHook` of the first
version, which has a score only. A library has the threshold it was made with: any of
`Thresholds` for the first version's lightweight detector, 0.65 for the package's. `detect`
is `InjectionDetector.detect`, for any of `Thresholds`. The adapters make their `AACPGateway`
without arguments, so `AgentFilters` and `FrameworkCalls` take its threshold to be 0.65.

### Adapters

`MCPAdapter` keeps, for each guard, a `job`: the parts still to be guarded and how many
answers of the gate the first of them has. `GuardBegins` and `GuardGoesOn` make the next
call of the gate; the steps of that call, and everything other callers do, are `GateStep`,
the actions of `AuthorityGate` unchanged.

In `AgentFilters` a method is the sequence of the filters in front of the agent's own
one. `ReadOriginal` and `Replace` are the two halves of `register` and `_patch`; a
delivery walks the filters it found (`PackageFilter`; `ReadContent` and `WriteContent` for
the first version, which reads the content and writes it back later). A content is its
risk and how often it was wrapped. The wrapper only adds text, so the risk of what is
wrapped is at least the risk of the content. A result of `detect_segment` never has the
actions "reject" and "quarantine", so the branches on them are dead. `lost` and `raw` are
history variables. That a name chosen by a sender could turn a risky content into a
harmless discussion is left out.

`FrameworkCalls` is one call of one of six adapters. A value is its risk, its wrappers and
its `sort`, which says what becomes of its risk in a text made of several values
(`HighRisk`): the highest counts, or, where risks add up as keywords do (`adds`), two risky
values are enough; a harmless discussion takes away what is generic, and
in the printed form of a mapping quotes keep an encoded word from being one. `AddInput` is
the application's other thread, `Retry` its reaction to an exception.

### Audit log and first version

In `AuditLog` a hash is the sequence of the entries it covers (no collisions). A call of
`record` is three steps, `MakeEvent`, `Publish` and `AppendEvent`, because another thread
can run between any two accesses to the shared fields. `overlapped` is a history variable.
The iterator of `to_jsonl` sees what is appended while it runs.

`LegacyPipeline` reduces a content to what the detector finds in it: literal markers,
markers that only show after normalization, and the weight of its keywords. `Screen` is
the way of one segment through detector, routing and wrapper; `results` is the
dictionary the application passes to the gate, `tool` the latest request, if any, since the
results last changed. The risk is the sum the code makes, rounded to hundredths.
`segment_id` hashes content, content type and authority joined without a separator. The hash
is taken to have no collisions and no name of an authority ends in another, but content and
content type run into each other: the constant `Joined` says which pairs read the same.
`Confused` is a screening whose identifier is also that of another screened content. A
request names its sink, which is looked up in the `RISKY_SINKS` of either generation:
`PackageAllows` is the package's gate on a request to the first one, by a requester of the
same authority, with the segments passed or not.

## 3. Runs

| run | instance | shows |
|---|---|---|
| `residency_closed` | `Spec`, 3 models (one in no profile), all initial contents of the server, 2 items with a switch and a wrong label, 1 failed read | serialized residency, refinement of `ResidencyAbstract`, peak bound, no false alarm |
| `residency_open` | `FairOpenSpec`, 2 models, 2 items with a switch, 1 foreign load, late loads unbounded | verdicts, artifacts and exit status can be trusted, no partial report; a late sampler thread reads at most once more; no unload in flight while an item runs; the run ends |
| `authority_gate` | `AdapterSpec`: one guard of a tool server that may send the sentinels, one application with 22 calls of its own and the 7 of the guard, up to 2 sources, levels on both sides of 3 and 5, calls begin while the list is shorter than 2 | complete mediation, receipts, the guard reports what the gate decided |
| `context_segments` | all pairs of 274 ways to make a segment | consistency of the derived fields |
| `detector_scan` | `HookSpec`: 13 texts, 2 origins, flagged or not, no hook, a hook of the application's own that answers or raises, or either library with every sign and remote scores around the thresholds and beyond 1, thresholds 0.1 to 0.9 | the scan equals its reference, in score and classes, and returns; no answer lifts a block; the ways to ask for a verdict differ by their thresholds |
| `agent_filters` | 4 filters (one of them trusted), 2 agents, 1 message object, 2 threads | filters are passed, risky content is wrapped |
| `framework_calls` | 6 adapters, 3 keys, 3 attempts | inputs are screened and stay wrapped, refusals stand |
| `audit_log` | 2 writers, 3 records, 2 readings of the clock, one export | refinement of `AuditChain` until calls overlap, nothing lost |
| `legacy_pipeline` | 8 contents, 2 content types of which one makes a content read like another, 2 authorities, 2 origins, 4 hooks, 2 screenings; sinks on both lists, on one, on none | four files agree; the package grants nothing more but `calendar_invite` |
| `fail_closed`, `every_decision_receipted`, `missing_source` | | statements of the documents or tests that the code does not keep, with counterexamples |

*Bounds.* Two items suffice for everything that involves one item and a leftover of
an earlier one: a late thread, an abandoned request, a pending unload, a switch.
Three models let a model outside the profiles be resident at the start. One failed
read and one foreign load are enough because each property is broken, if at all, by
a single one; `MaxForeignLoads` and `MaxFailedReads` bound the counters in the
guards of `ForeignLoad` and `Read`. `MaxReceipts` stops new calls once the list is
that long, not calls in progress; two receipts leave room for a call of each caller
with the other's receipts in between, and clearing the list lets a guard run through all
its calls. The guard and the application are the two callers; that two tool requests may
overlap adds nothing, since a caller's steps read nothing but its own call.
`MaxSegments` is 2 because the properties
relate at most two segments; `MaxScreened` is 2 for the same reason. `MaxRecords` 3 gives two
writers a fork and an event after it. `MaxPasses` 3 lets a loop fail twice before it gets
through. Two deliveries of one message are what it takes to rewrite it under another
thread's hands, and of four filters any two can overlap or be stacked. Each terminated
system has a stuttering step of its own (`Ended`, `Detected`, `Done`, `Over`, `Finished`),
so deadlock is checked everywhere.

*Fairness.* `FairOpenSpec` assumes weak fairness of the main thread's steps and of the
clock at the barrier. The code justifies it: every HTTP call has a timeout, `join` has
one, the barrier has a deadline, and the main thread is scheduled. The server, its other
clients and the sampler threads owe nothing, so `Termination` holds although the server may
never answer and a sampler may hang.
`Raises` is no part of the fair actions: termination does not lean on exceptions.
A call of the detector is sequential and returns, so `HookSpec` makes its steps weakly fair.

## 4. Findings

1. `fail_closed`: a failed poll becomes an empty list and counts as "at most one
   model"; the paper promises fail-closed validity checks.
2. `every_decision_receipted`: the last return of `authorize_tool_request` leaves no
   receipt; the docstring of `_emit_receipt` says every decision has one.
3. `missing_source`: `__post_init__` fills an empty `source_id` before the contract can
   miss it; `test_missing_source_id_fails` expects the contract to fail.

Noted while reading and modelling, without a run of their own:

- A barrier that times out because models overlap ends the program with status 1 and no
  artifacts (`BarrierTimeout`); `benchmarks/README.md:53` says status 2.
- The head of `mcp_adapter.py` lists persistence among the effects that are explicitly
  blocked; the gate is never asked about it (`DescriptionEffects`). It would refuse.
- `normalize_for_detection` of the first version means to replace only encoded runs; it
  strips separators first, so every text with 60 letters goes (the field `blob`).
- `adapters/README.md:37` says that every adapter runs the detector and that risky content is
  wrapped; `AACPCrewGuard` patches in a method that does neither (`CallCrew`), and
  `AACPChainMiddleware` passes risky content on as it is (`Visited`).
- `aacp_protocol/tests/test_llm_detector.py:47` expects `llm_hook_error` in the metadata after
  the remote model failed; the hook turns the failure into a score (`RemoteScore`). Lines
  31, 38 and 45 call the hook itself, which has methods but cannot be called.
- `aacp_protocol/tests/test_llm_detector.py:17-21` expects the lightweight detector to block
  "DAN mode enabled. ..." with the category "semantic_injection". The phrase scores 0.55, less
  than the 0.65 from which `detect` blocks (`LightweightScore`, `Objects`), and no category is
  ever set.
- `aacp_protocol/tests/test_provenance.py:52-59` expects `auto_tag` to fill a `source_id` and a
  `source_type` that were given as empty texts. The constructor has filled both before
  (`__post_init__`), so `auto_tag` changes nothing; `TaggingIsIdle` proves it.
- `calendar_invite` is a risky sink in `types.py:13` and not in
  `aacp_protocol/types.py:94-99`: a request of level 5 or more without sources is refused by the
  first gate and granted by the package's (`CalendarInviteGranted`), and one of level 3 or 4
  is no longer put to the user. Five other names (`os.system`, `send_email`, `browser`,
  `database_write`, `secrets_read`) are on the package's list only.

## 5. Proofs

The eight `*Proofs` modules state 51 theorems. Each safety and action property of the
passing runs is one of them, so what TLC finds on an instance holds for every value of the
constants.

*Assumptions* are the named `ASSUME`s of the modules. They type the constants, and four of
them say more: the server lists its models in one answer, so there are finitely many
(`ServerAssumption`); the words that the code writes into texts are among `Words`
(`WordAssumption`); the calls a guard makes are among the `Calls` of the gate
(`AdapterAssumption`, which gives the two modules matching constants); and two contents joined
with one content type are two texts (`PipelineAssumption`). `FrameworkCalls` begins
with a finite mapping. Nothing is assumed of numbers of items, models, callers, threads,
sources or records.

*Residency* (`ResidencyProofs`). `TypeCorrect` needs two facts beside the types: in
`run_item` an item exists and has a profile (`BusyInv`), and a request is at the server
exactly while `generate` is in progress (`RequestInv`). `UnloadBarrierHolds`
(`OpenSpec`) and `ResidencySerialized` (`Spec`) rest on an inductive invariant that
says where an unload may be in flight and what may be resident at each `pc`: between the
snapshot and the barrier, whatever is resident is the selected model, still to be
unloaded, or on its way out; once the barrier has been seen clear, nothing but the
selected model is there, and only a request can add to it. The invariant is needed
because `BarrierClear` looks at the server once, several steps before the load.
`PromiseKept` shows that each step of the harness is a step of `ResidencyAbstract` or
leaves the resident models alone.

The verdicts rest on what a reading can know. `ResultsInv` says that a result is the
verdict computed from the samples it holds and that results come in the order of the items.
`FreshInv` says that an item that has not begun has no thread and no reading, and `SeenInv`
that every reading is accounted for by the history of *its* item: what a thread holds
between poll and append, what it has appended, what the server holds now. Without the
reading in a thread's hands (`held`) this is not inductive. From it follows
`VerdictsAreGrounded`, whatever late threads of earlier items do. `StragglerInv` follows a
thread past its `stop`: what it adds after the verdict is one reading at most, and none as long
as it is still polling or about to append.
`RowsInv` and `ExitInv` tie the files and the status to the results, write by write
(`ArtifactsTellOneStory`, `CleanExitsAreTrusted`). `FinalOverlapsAreCaught` is a step
property: the reading that `stop` takes is among those the verdict sees. In the closed
system, `AloneInv` (all readings of a running item show its model at most) and `PinnedInv`
(from the answer of `generate` on the model is pinned) give `NoAlarmIsFalse`;
`PeakMemoryIsBounded` adds that only models of profiles are left (`ProfiledInv`) and that a
sum over at most one model is at most the largest footprint, which exists because
the models are finitely many.

*Authority* (`AuthorityProofs`). The invariant behind `GateMediates` says that while the
loop is at source `next`, every earlier source permits the call; so `Sink` decides with
all sources known to permit, and a refusal in the loop is one the whole call deserves.
It holds for any number of sources, calls and callers. `GrantsAreEarned` follows from the
same invariant and the tables. `ReceiptsTell` needs to know what a call has written so far:
nothing before its first step, no refusal while it is in the loop (`TrailInv`).
`LogKeepsReceipts` counts from the end: among the receipts of its caller, a receipt has the
same place in the shared list and in the trail of the call, since both grow at their ends
only; what other callers add in between, or a clearing takes away, does not change that
(`CountLogged`, `CountAppended`).

*Tool servers* (second half of `AuthorityProofs`). A step of a guard either leaves the gate
alone or begins one of the gate's calls, so `AdapterSpec` implements the gate's `Spec` and
inherits its theorems, for any number of guards and other callers. That the call begun is one
the gate expects needs `JobInv`: a job that is not finished has answered fewer calls
than its part asks for. `ReportsTellGate` needs three more facts (`ReportInv`): of each part
that is done, the text is the sentinel exactly if the gate refused or the server sent it
(`Truthful`); nothing is on record of the parts that are not done, and nothing speaks against the
one in progress (`Progress`); and the call at the gate is the next of the script
(`OnScript`), which connects an answer with the question it belongs to. That the gate's
answer to a single check is the one the tables give is `SingleInv`.

*Context segments* (`ContextProofs`). `StoreInv` says of every segment that it is one of the
ways it could be made (`AsMade`). The theorems are about any texts: that a
digest determines the authority uses that the digested text begins with its name
(`DigestBegins`). `TaggingIsIdle` states what the case analysis showed: `auto_tag` in place
never changes a segment that exists, because whatever it fills in is there already.

*Detector* (`DetectorProofs`). The scan has a recursion, two loops and early exits; the
reference is defined by recursive functions over all texts, depths and starting scores.
That these functions exist and what they return is induction over data. The
library's induction theorems take an operator, so the argument is made with `LeastNat`: a
set of naturals that is not empty has a least element, so there is no first place where a sum
(`SumsExist`, `SumsGrow`) or a reference value (`WorthFacts`) goes wrong. The invariant
says of each frame of the stack how far it has got (`Fits`): in the words, no earlier
word was worth reporting; in the keywords, the score is the sum of those read, or 1; at its
return, the score is the reference or both are beyond 0.95. Of the classes it says that they
are those of the origin, of the patterns and of the keywords read (`Told`), so below 0.95,
where nothing was left out, they are all. Each frame is also the call of
the frame below (`SoundStack`), so a return hands a correct value to the right place.
`HookInv` says where the hook's score and the library's own verdict come from, and that a
result is the `Conclusion` from them; `AnswersUnblockNothing` and `VerdictsDoAgree` compare
results and verdicts over all scores and all thresholds. What the theorems except is real: a
hook of the application's own that raises undoes a block, and a verdict below
another's threshold differs from it.

*Agent filters* (`AgentProofs`). The invariant has three parts: a message is at least as
risky as it came (`RiskInv`; wrapping only adds text), a registered filter stands before
its agent or is lost (`MethodInv`), and for every delivery, the filters it expects are
behind it, before it, or lost, while those behind it have left their mark
(`DeliveryInv`). The last part is needed because the stack a delivery walks is not
the agent's current one, and holds although other threads rewrite the message.
`LossNeedsOverlap` adds that an agent is never left without a filter once a registration with
it is done (`Guarded`): who overtakes a filter puts its own there.

*Framework adapters* (`FrameworkProofs`). `LoopInv` says that in the loop the inputs are
the ones still to visit and the visited ones, as many as there were at the start, or one was
added and Python raises at the next turn; `WrapInv` counts the wrappers of an input against
the attempts that came to it. With them, attempts that fail half-way leave nothing unseen
(`ScreenedAnyway`). `RefusedInv` remembers how the refused text was made, since a retry may
put another together (`input` before `query` before the printed mapping);
`RefusalsStand` shows that only another such text, or an addition that turns all into a
harmless discussion, gets through.

*Audit log* (`AuditProofs`). As long as no two calls have overlapped, at most one writer is
busy, its event continues the list, and `last_hash` is the end of the list except
between publishing and appending (`OneByOne`). So a hash that is published extends the chain
(`OneChainKept`, for any number of writers). What is exported is a beginning of the
list whatever the writers do (`ExportInv`). With overlaps, `ForkInv` counts events and
busy writers against calls and says that whatever an event is chained to stays known, in the
list or in a writer's hands (`OverlapsOnlyFork`).

*First version* (`LegacyProofs`). Whether a verdict is a high-risk one depends on the literal
markers of the content alone, and the result that is kept is the verdict of some screening
under its identifier (`Grounded`). So results can be overwritten, but by a harmless one
only if it is of another content (`VerdictsStand`), which an application with one content
type rules out (`OneTypeNeverConfused`). `PackageRefusesMore` compares the gates rule by rule:
the results are the same, the levels of the package are the older ones or higher
(`LevelsOnlyRise`), and its list of risky sinks holds the older one but for
`calendar_invite` (`RiskySinks`); that this exception occurs is `CalendarInviteGranted`.
`BareIsHarmless` and `ToolUseStaysBlocked` follow a segment through the four files: an
untreated one is of a trusted authority, without a marker, and below 0.35 after the hook.

| theorem | statement |
|---|---|
| `ResidencyProofs!TypeCorrect` | `OpenSpec => []TypeOK` |
| `ResidencyProofs!UnloadBarrierHolds` | `OpenSpec => []NoUnloadInFlight` |
| `ResidencyProofs!ResidencySerialized` | `Spec => []SerializedResidency` |
| `ResidencyProofs!PromiseKept` | `Spec => Serialized` |
| `ResidencyProofs!VerdictsAreGrounded` | `OpenSpec => []VerdictGrounded` |
| `ResidencyProofs!StragglersAreBounded` | `OpenSpec => []StragglerBounded` |
| `ResidencyProofs!ArtifactsTellOneStory` | `OpenSpec => []ArtifactsAgree` |
| `ResidencyProofs!CleanExitsAreTrusted` | `OpenSpec => []CleanExitTrusted` |
| `ResidencyProofs!FinalOverlapsAreCaught` | `OpenSpec => FinalOverlapCaught`, an action property |
| `ResidencyProofs!NoAlarmIsFalse` | `Spec => []NoFalseAlarm` |
| `ResidencyProofs!PeakMemoryIsBounded` | `Spec => []PeakMemoryBound` |
| `AuthorityProofs!TypeCorrect` | `Spec => []TypeOK` |
| `AuthorityProofs!GateMediates` | `Spec => Mediated` |
| `AuthorityProofs!GrantsAreEarned` | `Spec => []GrantsEarned` |
| `AuthorityProofs!ReceiptsTell` | `Spec => []ReceiptsTellDecision` |
| `AuthorityProofs!LogKeepsReceipts` | `Spec => []LogKeepsLaterReceipts` |
| `AuthorityProofs!AdapterUsesGate` | `AdapterSpec => Spec`, the gate's |
| `AuthorityProofs!GuardedCallsMediated` | `AdapterSpec => Mediated` |
| `AuthorityProofs!GuardedGrantsEarned` | `AdapterSpec => []GrantsEarned` |
| `AuthorityProofs!GuardedReceiptsTell` | `AdapterSpec => []ReceiptsTellDecision` |
| `AuthorityProofs!GuardedLogKeepsReceipts` | `AdapterSpec => []LogKeepsLaterReceipts` |
| `AuthorityProofs!ReportsTellGate` | `AdapterSpec => []ReportTellsGate` |
| `ContextProofs!PowerlessFlagged` | `Spec => []PowerlessAreFlagged` |
| `ContextProofs!IdsTellSource` | `Spec => []SegmentIdTellsSource` |
| `ContextProofs!MetadataProveLittle` | `Spec => []MetadataProvesLittle` |
| `ContextProofs!SkippedForRootOnly` | `Spec => []ScreeningSkippedForRootOnly` |
| `ContextProofs!TaggingIsIdle` | under `Spec`, a step of `Tag` leaves the segments as they are |
| `DetectorProofs!ScanIsExact` | `Spec => []ScanFindsWorth` |
| `DetectorProofs!HookedScanIsExact` | `HookSpec => []ScanFindsWorth` |
| `DetectorProofs!AnswersUnblockNothing` | `HookSpec => []NoAnswerUnblocks` |
| `DetectorProofs!VerdictsDoAgree` | `HookSpec => []VerdictsAgree` |
| `AgentProofs!TypeCorrect` | `Spec => []TypeOK` |
| `AgentProofs!AllFiltersPassed` | `Spec => []EveryFilterPassed` |
| `AgentProofs!LossNeedsOverlap` | `Spec => []LostToOverlap` |
| `AgentProofs!RiskyStaysWrapped` | `Spec => []RiskyNeverPlain` |
| `AgentProofs!BlockedStaysBlocked` | `Spec => []BlockedNeverDelivered` |
| `FrameworkProofs!ScreenedAnyway` | `Spec => []ScreenedDespiteFailure` |
| `FrameworkProofs!RefusalsStand` | `Spec => []RefusalStands` |
| `AuditProofs!TypeCorrect` | `Spec => []TypeOK` |
| `AuditProofs!LogIsChained` | `Spec => []ChainedUnlessOverlapping` |
| `AuditProofs!ExportIsChained` | `Spec => []ExportVerifies` |
| `AuditProofs!OneChainKept` | `Spec => OneChain` |
| `AuditProofs!OverlapsOnlyFork` | `Spec => []ForksAtMost` |
| `LegacyProofs!BareIsHarmless` | `Spec => []NeverBare` |
| `LegacyProofs!ToolUseStaysBlocked` | `Spec => []ToolUseBlocked` |
| `LegacyProofs!RefusalsStay` | `Spec => []RefusedStaysRefused` |
| `LegacyProofs!PackageRefusesMore` | `Spec => []PackageIsStricter` |
| `LegacyProofs!CalendarInviteGranted` | a request of level 8 to `calendar_invite` without sources is refused here and granted by the package |
| `LegacyProofs!OneTypeNeverConfused` | segments with one content type and one identifier have one content |
| `LegacyProofs!SameMemoryRule` | both generations agree who may write memory |
| `LegacyProofs!HookOnlyRaises` | a hook never lowers the risk, one that fails leaves it alone |

*Only model-checked*: liveness. `Termination` and `Returns` are about fairness and
`ENABLED`, which the prover does not reason about. The three runs that expect a violation
are counterexamples and have nothing to prove. The type invariants of `AgentFilters`
and `AuditLog` are proved and not run.

## 6. Plan

1. A composition of `ContextSegments`, `DetectorScan` and `AuthorityGate`: what a text of a
   given origin can cause from end to end, from the lemmas about the three.
2. For `Returns`, the safety half: a variant that each step of the scan decreases.

*Not modelled and why*: the vocabularies and the normalization of texts (data: regular
expressions over Unicode), the remote calls of the hooks (I/O seen as an answer or an
exception; their `timeout` is stored and never applied), `ToolSinkGateway` and both
`validate_output_policy` (pure functions without callers), `AACPCrewGuard._check` (never
called), `provenance.py` at the top level (its default authority is no name of that version,
so it cannot be imported), `FakeBackend` and `self_test` (test code), drawing and formatting
of the artifacts (no property depends on them), platform probes of memory (read-only).
