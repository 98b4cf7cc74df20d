# A TLA+ model of the wolves-ai forecast engine

wolves-ai publishes one World Cup forecast a day. A language-model "master"
plans a graph of worker nodes (research, quant, forecast, critic) wave by wave;
a quant node prices scenario mixtures in a sandbox, a forecast node submits one
of them, a referee model may block it, and the runner decides after each wave
whether to go on. What comes out is snapshotted to S3 and served by a small
backend; between daily runs a live loop re-simulates as results arrive.

The models' texts and the numbers of the simulation are data here. What is
modelled is the *control* around them: which tool call may do what, what a
sibling call or a timeout can do in between, when an acceptance is withdrawn
and restored, and what is finally published.

Source paths below are relative to `src/engine/wolves/`; those of the backend
begin with `backend/`, which stands for `src/backend/wolves_backend/`.

## 1. Inventory

| Component | State it keeps | Operations | Talks to | What is hard | What makes it correct |
|---|---|---|---|---|---|
| **Submission desk** `agent/deps.py`, `agent/tools/submission/*` | `SubmissionState`: acceptance, previews, copy, structural and referee flags, counters | `check_forecast`, `submit_forecast`, runner bookkeeping | shared by reference by the forecast node's tools, the referee and the runner | sibling tool calls of one turn interleave at the referee's `await`; a node timeout kills a suspended call; four repair loops share flags | bounded repairs; nothing accepted under a hold; status true of the acceptance it belongs to |
| **Forecast run loop** `graph/runner.py`, `graph/nodes.py`, end of `run_agent.py:_run` | wave number, patch, per-wave locals, the desk | plan, run a wave, merge, sync, auto-submit, the decision ladder, restore, demand-submit, publish | admission, nodes, desk, budget | a dozen ways to leave or re-enter the loop; withdrawn acceptances; exceptions | it ends; an accepted forecast is not lost; what is published has a status it earned |
| **Referee** `agent/tools/submission/referee.py` | approvals and status on the desk | approve, block, overruled, unavailable | desk, artifact store | slow, may fail, may be capped | an outcome is named |
| **Admission and blackboard** `graph/master.py:admit`, `graph/blackboard.py` | node records with `replaced_by`, nudge counters, artifacts | admit a patch, merge a wave, active ids | loop, artifact store | lineage over many waves with failures; caps over the run | caps hold; the set of publishable mixtures only exchanges members |
| **Run budget** `observability/runtime.py`, `observability/budget.py`, `graph/reserves.py`, `graph/observed_model.py` | calls, cost, in-flight reservations | charge, settle, release, hold back | every model call | parallel nodes reserve before any settles; retries; cancellation | spent plus reserved stays under the ceiling; each reservation is returned once |
| **Results store** `sim/results_store.py` | a blob in S3, a local mirror | load, record | the live loop records; daily and agent runs load | an outage on read falls back to the mirror, which is merged and written back | a known result is not erased |
| **Snapshot store and run index** `s3/snapshots.py`, `s3/index.py`, `s3/publish.py`, `s3/fitted.py` | dated snapshots, the latest pointer, index items, fitted states and their pointer | publish, record_run | daily run, rerun, agent run, live loop, backend | several writers, each several puts; delete-then-put; a publisher dies between two | pointers resolve and go forward; a run stays listed |
| **Live loop** `live.py`, `backend/jobs.py` | pending results, the host's mirror and snapshot, a forecaster | one pass per poll, then a refresh and a report | both stores, provider, engine service | partial polls, a bucket that fails at any put, a host that dies with its disk | every result comes to be in a snapshot |
| **Engine service** `backend/sim.py`, `backend/impact_report.py` | the fit and its revision, a bounded cache, computations under way | boot, refresh, look up, report | both stores, routes, live loop | two refreshers read in threads; requests hold a fit that is replaced under them; coalesced computations fail | a lookup is answered from its own fit; nobody waits for ever |
| **Agent memory** `agent/memory.py`, `agent/scoring.py`, `agent/scenarios.py`, `s3/agent_state.py` | lessons, calibration, scenarios, feedback: a copy per run, the files in S3 | pull, score, stage, commit, push | S3, the end of `_run` | whole-file upload by overlapping runs; many ways for a run to end | one score per match; only published runs teach; little is lost |
| **Tournament engine** `sim/mc.py`, `sim/tiebreaks.py`, `sim/lock.py`, `sim/overlay.py`, `sim/outputs.py` | tables and rounds of one simulated tournament | play, rank, resolve the bracket, lock, resolve a fixture | live loop, snapshot | tiebreaks, best thirds, known results among drawn ones | locks never retract; fixtures find their match |
| **Run guard and admin API** `run_agent.py`, `backend/routes/admin.py` | event files, running ECS tasks | start a run | scheduler, operator | check-then-start | seen from `Memory`: nothing keeps runs apart |
| **Research nodes and their memory** `agent/tools/retrieval/*`, `agent/source_memory.py`, `agent/article_cache.py`, `graph/agents.py` (validator), `graph/blackboard.py` (ledger) | a tool gate per node; source memory, article cache, market cache and evidence ledger per run, the first two across runs | search, rank, fetch, buy odds, answer, merge | the wave, earlier runs | calls of siblings overlap at every await; records of other runs; positions renumbered three times | confirmed claims were read; receipts point where their author pointed; odds are not bought while a call has them |
| **Static archive** `archive/*`, `src/scripts/retire_forecast.py` | a versioned bucket, an output directory, content-addressed prefixes | export, verify, release, preserve, retire | publishers, operator | two listings per export, many puts per release, retirement in between, commands that die | what an index names is there; an export passes its own verification; what was retired stays out |
| **Quant workbench** `agent/tools/workbench/run_python.py`, `quant/executor.py`, `quant/workspace.py`, `quant/observed.py`, `graph/artifacts.py`, `agent/publish_surface.py` | a directory per node: scripts and outputs; the run's mixture artifacts; live children; what each artifact was simulated as | run a script, time it out, register or correct a mixture, simulate, validate and publish it | quant nodes, artifact store, desk | sibling calls and colliding ids share a directory; scripts nobody has read; children outlive their nodes; artifacts change under those who cite them | a file is one artifact; nothing registered contradicts itself; what passes in silence is sent back only for what is known; what is published is what was shown |
| **Audit policy** `agent/audit_policy.py`, its part of `agent/validator.py` | none | what a mixture owes, at registration and at submission | workbench, desk | the same rules asked twice with different arguments | it is known where the two part |
| **Tool budget gate** `toolkit/_budget_gate.py` | used slots | reserve | search and fetch tools | slots kept free | part of `Research` |
| The rest of the validator, goal models, insights, snapshot schema | none | pure functions | | numeric | verdicts are inputs of the model |
| Clients, connectors, routes, web, infra | little | I/O and presentation | | | not modelled |

### Behaviours that are hard to test

`PROJECT.json` lists each hazard at its line with the properties that watch
it. The kinds that matter most:

* **the referee's await** (`submit_forecast.py:192`): counters and flags read
  before it are used after it, and two calls of one turn may be inside it;
* **supersession**: a quant node may replace the very mixture that a forecast
  node of the same wave has just had accepted;
* **withdrawal**: a re-opened acceptance is cleared and may or may not come
  back, after blocks, timeouts, caps and dropped patches;
* **writes of several keys** (`s3/publish.py`, `s3/fitted.py`, `s3/agent_state.py`,
  `archive/publish.py`):
  no transaction ties them, and whoever writes them may die in between, or be
  overtaken by another;
* **reads before writes** (`snapshots.py:39`, `backend/sim.py:191`, `s3/agent_state.py:55`):
  what was compared is stale when the write comes;
* **scripts nobody has read** (`quant/executor.py:171`): what they leave on disk is
  registered by whichever call looks next, after crashes, timeouts and
  cancellations that do not reach the child;
* **records that outlive their run** (`source_memory.py:28`): an earlier run's fetch is
  no evidence of this run's, and siblings rewrite the same record;
* **flags shared by four loops** (copy repair, structural repair, replan,
  steelman pause): each is set and cleared in places that know little of the
  others.

## 2. Modules

| Module | What it is |
|---|---|
| `Submission` | the desk: `SubmissionState` and everything that writes it. Also an abstract specification, `DeskSpec`: tools in any order, the runner whenever no call is suspended |
| `ForecastRun` | one run: extends `Submission` with `run_graph`'s loop and `_run`'s last decision |
| `Supersession` | abstract: what the rest of the system relies on when it asks which mixtures are active |
| `Admission` | `admit` and the blackboard: node records, nudges, merge, `active_artifact_ids`; implements `Supersession` |
| `Budget` | the language-model budget: calls, cost, reservations, and the slices kept for the last forecast and the referee |
| `LivePass` | the match-day loop with the results store and the newest snapshot, beside daily and agent runs |
| `Publication` | the publishers: snapshots, latest pointer, run index, fitted state, key by key |
| `Engine` | the backend's engine service: fit, refreshers, cache, coalesced lookups, impact report, and the loop around the passes |
| `Memory` | what an agent run leaves to the next: pull, score, stage, commit, push, and every end of `_run` |
| `Tournament` | one simulated tournament: tables, ranking, thirds, bracket, locks, and the resolution of the provider's fixtures |
| `Research` | one wave of research nodes: tools, source memory, caches, the output validator, the merge into the ledger |
| `Archive` | export, release and preservation of the static archive, over a versioned bucket |
| `AuditPolicy` | what a mixture owes, as the registration guard and as the submit validator compute it |
| `Workbench` | calls of `run_python`, their children, the registration and correction of mixtures, and the validation, acceptance and publication that read them; extends `AuditPolicy` |
| `Lists` | what stays of a list of which positions are dropped, and a number's place among numbers; used by `Research` and `Archive` |
| `ForecastRunProofs`, `AdmissionBudgetProofs`, `LivePassProofs`, `PublicationWorkbenchProofs`, `EngineTournamentProofs`, `MemoryResearchProofs`, `ArchiveProofs`, `ListsProofs` | theorems, of one module or of two that share no name |
| `MC*` | finite values for TLC |

How they fit together: `ForecastRun` extends `Submission` and is what happens
inside `Memory`'s step *work*; its budget outcomes are `Budget`'s, its lineage
is `Admission`'s, what its research nodes do inside a wave is `Research` and what its
quant nodes do is `Workbench`, whose artifacts are the mixtures of `Submission`. `Archive`
reads what `Publication` wrote. A run that submits goes through `Publication` key by key, which
`Memory`, `LivePass` and `Engine` each see as one or two steps. `LivePass` is one
pass of the loop whose way round is in `Engine`; `Tournament` is what a pass or
a run simulates, and how a polled fixture becomes a match of `LivePass`.

### Submission

The variables are the fields of `SubmissionState` under short names
(`blocked` is `publication_blocked`, `replan` is `replan_required`,
`structural` is `structural_repair_required`, `checkedClean` is
`checked_clean`, and so on), plus `critique` (the run's artifact store holds
one), `reviewing` (which calls are suspended at the referee, and with what) and
`published`.

A submission is an opaque value that cites one mixture. What the validator
says of it is an input: `Submit(c, s)` is the disjunction over the reports it
may give, each disjunct a path through `submit_forecast` up to its return or
its `await`; `RefereeAnswers(c)` is the code after the `await`. Every path is
one action because the event loop runs it without interruption. The refusals
of `_forecast_post_check_refusal` are `SubmitAllowed` and `CheckAllowed`; the
runner's auto-submit does not ask them, nor does the model.

A report of the referee that blames *infra* is taken for an outage and leaves the
status as it is. The ghost `unstated` says that the latest acceptance came that
way, and is the one exception `StatusEarned`, `PublishedProvenance` and
`BypassIsNamed` make; every other path that writes an acceptance is held to them.

Two abstractions err on the side of more behaviours: a run without a referee
model also passes through `reviewing` before it is bypassed (the code does not
suspend there), and the validator's verdict on one submission may change from
call to call. `copyRepeats` is capped at 3, the only value the code compares
with.

### ForecastRun

`phase` says where the run is: planning, a wave, the auto-submit and its
review, the ladder after a wave, restoration, the last-chance node, publishing.
One action per step of `run_graph`; the ladder (`Decide*`) follows the order of
its checks. Within a wave the forecast node's calls, the referee's answers, a
quant node's mixture, the node's return and its timeout interleave freely;
`turnClosed` stands for the adapter, which gathers the calls of one turn before
the model speaks again.

Free choices here: the patch (any set of kinds, `Admission` has the details),
every budget outcome (may the loop re-open, may it plan again), and a failure of
the planning call or the snapshot builder. The quant nodes of a wave register at
most one mixture and replace at most one. An exception inside the auto-submit is
not modelled. A seed's creator is the runtime and no node, so no operation
replaces a seed, unless a master should name a node `runtime`, which nothing
reserves; that is left out.

### Admission and Supersession

A patch is chosen one operation at a time, in `admit`'s order, since what
`admit` does to an operation depends only on those before it. Operations dropped
because of their texts (focus drift, unsafe refit, dataset mining, unknown
input) leave only a message and are no step. A nudge does leave something: the
counter is spent, at the moment the operation is dropped. What the gates want
depends on coverage keys and on the budget and is fixed when the patch is
opened.

`Superseded` states the walk along `replaced_by` without recursion: a node
is visited if every set that holds the first step and is closed under
`replaced_by` holds it. `Merge(ok)` takes any subset of the wave as the nodes
that succeeded, and a quant node may have registered its mixture or not
whether or not it succeeds.

`Supersession` is the promise. The refinement maps its `active` to what
`active_artifact_ids` returns and `merged` to the mixtures whose creator has
been merged.

Left as they are in the code: the id `coverage-research` counts against no
cap, and if the runner did not seed it the master may take it, so a run may
have one node more than its cap. The demand-submit node is outside admission and
outside the cap.

### Budget

A task is an agent that may have one model request open; its role says which
slices it may spend. `execute_brief` gives the forecast node its own slice and the
headroom, and the same to a quant node while a structural repair is required
(role *repair*); every other node is *ordinary*. `_run` gives the
referee's model everything, with its slice as a floor under each reservation.
The flag may change between waves; a node has the role it was started with.
Several tasks may share a role: two sibling submits ask the referee at once.

| Action | Code |
|---|---|
| `Charge`, `Refuse` | `charge_llm`, admitting or raising `CapExceeded`: one step, as it does not await |
| `Settle` | the answer arrives: `add_cost` with the real cost, which releases the reservation first |
| `RetryLater` | a transient failure with attempts left: released, then the backoff's sleep |
| `Fail` | a lasting failure, the last transient one, or a cancellation in the call: released in the `finally` |
| `CancelBackoff` | a cancellation while the request sleeps, holding nothing |

`costMicros` stands for two fields of the code, the cost and the settled cost,
which only `add_cost` writes and by the same amount. `charged`, `spent` and
`overrun` divide calls and cost by role and are read by no guard. Left out: the
caps of searches, fetches and quant runs, `can_fund_followup_call`, the stream
path no agent uses, and what the provider may bill for a call that was
cancelled, which the code does not count either.

### LivePass

A score is the number of times the provider has revised a match, so that
corrections and lost results can be told from one another and nothing else
can. A pass is four steps, cut where it touches the bucket: `Poll`, `Record`
(or `RecordNothing`), `Build`, `Publish`. Each read of the store may find the
bucket or fall back to the mirror (`Loaded`), each put may raise after the
host's copy has been written (`RecordFails`, `PublishFails`, `FittedPutFails`).
`Crash` takes the process and its disk. Ghosts: `recorded` (scores a put of which
was tried), `hydrated` (the mirror has seen the bucket) and `covered` (what the
bucket held at the last full publish). Left out: the kill switch, the demo mode
and the cadence, which skip or delay whole passes.

### Publication

A job is a daily run, an agent run, the fallback of a failed one or a pass of the
loop; a rerun of a day has the run id of the first. They differ in order
(`FitFirst`: daily and fallback publish their fitted state before their snapshot)
and in rank (`_latest_rank`). One step per key written, listed or deleted; `Dies` is
possible between any two. `Compare` and `Repoint` are two steps, as `put_snapshot`
reads the pointer and writes it later. `Fails` is the error path that records a
failed run. `sawLatest` is a ghost, and so are `recorded` (jobs that have put their
item) and `torn` (jobs that have deleted an item of their run, and no item of the run has been
put since); `wins` stands for what `_newer_than_latest`
returned.

### Engine

A fit is known by the number of the agent run it came from and by its revision.
The two refreshers read the store in a thread (`ReadStore`) and write `_fit` back
on the event loop (`WriteFit`). `Lookup` is `_cached` up to its first await,
`Finish` and `Fails` what follows in the leader, which answers all who wait
(`Served`). `loop` walks through the lookups of the impact report.

Abstractions, all but the last two toward more behaviours: the semaphore of
computations is left out, so a computation may start at any time; lookups and
passes fail without bound; the results a fit plays are those of the run that
published it; a client asks only for reaches; the read of a fit and of the store is
one step (a thread that finds a half-written pair is `Publication`'s subject),
and a refresh that finds nothing new is over at once; the report's labels and
its third leg, asked like the second, are left out.

### Memory

Four files stand for six (the sources seen and the relevance memory go the way
of the feedback), each a set of entries that name their run. A pull and a
push are one step per file. The guard of `_run` reads a disk that is still
empty in a new container, so `Start` is guarded by the kill switch alone. `late` is a
ghost: what came into a file after the run had asked for it.

### Tournament

Numbers are drawn from the goal models in the code; here every outcome is a
choice, known results are fixed first, and draws of lots are any order. What stays is
the control: points, head-to-head, the lexicographic ranking, the best thirds'
slots, winners and losers of earlier ties, extra time and penalties as a choice of
the side that goes through, `build_lock_dates`' bounds, and `resolve_fixture`
with its swapped sides and moved dates.

### Research

A tool call is cut at its await: what `web_fetch` does before is `Fetch`, what it
does with the answer `PageArrives`; `get_odds` is `AskOdds` (the first look into
the cache), `LockMarket` (the second, under the lock), `OddsArrive` (the bookmakers answer,
which is what costs) and `PricesArrive` (Polymarket answers, and only then is the cache
filled); between the two the odds are in the hand of one call, and lost if it ends there. The
ghost `paid` counts the sets that are paid for and not lost. An answer
goes through the output validator in one step (`Answer`): `Demotable` and `Unplayed`
evidence is taken out, each time with the renumbering of `Without`; what is then
found wanting is sent back, at most `OutputRetries` times. `Merge` is the blackboard's loop over one node's evidence.

| Variable | Code |
|---|---|
| `searched`, `fetched` | the two uses of `BudgetGate._used` |
| `seen` | `SourceMemory._seen`, with the run of a record reduced to *earlier*, *later* than the day that is replayed, and *this* |
| `cached` | pages for which `_from_cache` would serve another run's copy |
| `read` (ghost) | pages whose text a tool handed to a node of this run |
| `written` (ghost), `artifact` | an accepted answer as it was written, and as the run keeps it |

Every refusal that costs or changes nothing is no step. Left out: the second market (`h2h`,
one await, one more key of the cache); the unlimited
gate (budget 0); more than one earlier record of a page; more than one candidate
branch per answer; a node that asks for one page twice at once; the repair of group letters in
claims; why an answer is unsound otherwise (`sound`); the text of queries and rankings.
Drafts are a handful of answers with evidence before, between and after what the
validator removes, and one that points past its evidence.

### Archive

A host's command is a sequence of steps, `step[h]`; `job[h]` is what it holds in memory.
`Export` chooses the days, by a listing of its own or as asked, `List` and `ReadRun`
are `complete_snapshots`, `MakeRoot` is the check that the directory is new, `WriteDay`,
`WriteRun` and `WriteManifest` are one file each, `Verify` is the call of
`verify_archive` at the end. `Publish` and `Upload` are `publish_archive`; `Preserve`,
`Copy` and `WriteInventory` are `preserve.py`. `Ends` is the end of a command, its
death, or what it raises: while it writes or verifies, an export clears its
directory if it can. `pinned` are the keys whose version ids the source has noted
(`_version_ids`), which it can read whatever happens to the key later.

A file is its content, and a release the set of its files, since both are named by
digest. Left out: results, run records, fixture metadata and live detail inside the
payloads (`normalise_results` is a projection); torn files; a listing that spans a
change; the rerun of a daily run over its own keys; `snapshots-backup` and the other
prefixes that preservation copies; local sources; the audit report; the odds
capture.

### AuditPolicy and Workbench

`AuditPolicy` keeps the functions of `audit_policy.py` and the validator's issues that
only a quant node can clear (`QuantIssues`, apart from those about numbers). A
payload is a record of what they look at; weights are percentages, so the code's
threshold of 1e-6 for a surviving branch is *more than zero*. An audit has one row per key.
`Overlooked` and `AsksMore` name where guard and validator part.

In `Workbench` a call is cut at its await. `Start` is everything up to the spawn;
`Stillborn` the same without a child, when the budget of quant runs is out or the spawn
fails; `Return` everything after the child has ended. `TimesOut` kills the child with
its call, `CancelNode` (`_bounded`) only the call: its child stays in `child` and goes on
writing. A child may write or remove any output of its directory at any time, since
nothing is known of a script; between the hash and the read of a file another child of the
directory may write once more (`Rewritable`).

An artifact is found again by its summary, `"<dir>/<file>: <text>"`, of which the code keeps
what comes before the first colon. `ReadBack` is that: the name itself for most files, a
shorter one for a file with a colon in its name, which no file's marker equals, or another
file's. `Known` are the artifacts taken for a file's, `Amended` the one of them that was added
last, whose payload the file's content replaces. `Outputs` bounds what scripts write.

`Check`, `Accept` and `Publish` are the readers of the store, cut where their data is
read: `Check` is `validation_report` with the surface it has simulated, `Accept` is
`_accept_forecast`, which validates nothing again and may come an answer of the referee or
several waves later, `Publish` is `_build_snapshot`. Of the validator they keep the verdict
`Submittable`; why else a submission is held back is in `Submission`. `Publish` ends the
behaviour: the child processes that are left can change no artifact.

| Variable | Code |
|---|---|
| `used` | `AgentDeps.python_calls` |
| `before`, `disk` | hashes of the outputs when the call began, the outputs now |
| `store` | the mixture artifacts, with the file they were registered from |
| `quiet` (ghost) | artifacts whose last registration gave no warning |
| `surface` | `publish_surface_by_artifact`; the number of simulations and the seed are those of the run |
| `clean` | the artifacts cited by submissions that were found clean (`checked_clean`, `last_clean`, a submission at the referee) |
| `accepted` | `SubmissionState.accepted`, with what its surface shows |
| `snapshot` | the published worlds and probabilities, and the payload that the audit and the conditionals are read from |

Left out: the numbering of scripts (siblings cannot share a name, as nothing is awaited between
the listing and the write); inputs, context and usage files; the runtime's
seed mixture, which belongs to no file; outputs that are no mixtures; the race of
two siblings for `_runner.py`, which makes a child run the other's script and so
changes nothing where either may write anything.

## 3. Runs

Constants that are the same in both `ForecastRun` runs: one
set of quant issue codes, one structural repair (the default is two), one
referee intervention and one revision (the defaults), no submit retries (the
default is three). One of each is enough to reach every limit and what follows
it; the theorems cover the rest. `siblings` has one copy signature; `waves` has none: the validator asks for no copy repair there (a
block of the referee still does), which keeps three waves within reach.

| Run | Asks | Bounds | Result |
|---|---|---|---|
| `waves` | Is the published status earned, an accepted forecast kept? Is only what is publishable accepted, and does every run end? | three waves, one call per forecast node, a seed and a lineage of two quant mixtures | holds |
| `siblings` | Do two calls of one turn mix status and acceptance, keep a preview under a hold, or break the steelman pause? Does a run behave as a desk? | one wave plus demand-submit, two siblings, three calls | holds |
| `admission` | Does admission, over caps, nudges and failed nodes, implement supersession? | four ids, the coverage id among them, two counted nodes, two per wave, one per kind (two quant) | holds |
| `budget` | Is each reservation returned once, do the ceiling and the reserves hold, and do the reserves fund what they are for? | two ordinary agents, a repairing quant, a forecast, a referee; ceiling 8 and headroom 1, six calls, reserves of 3 and 2 before the clamp, one retry; estimates 1 and 3, costs 1 and 4 | holds |
| `live` | Is every result recorded, kept, fitted and published, whatever fails? | two matches, one corrected; one slow run; two faults of five kinds, crashes included | holds |
| `publish` | Do the pointers resolve and go forward, does the index keep its runs? | daily job, its rerun and an agent run side by side; two of them may fail, die or lose the index; two seconds | holds |
| `engine` | Is each lookup of its own fit, are computations led and ended, do fit and report follow the store? | one client, the loop and the timer; a cache of one entry; two agent runs; failures without bound | holds |
| `memory` | Is a match scored once, who teaches, what may a push take away? | two overlapping runs, two matches, two faults | holds |
| `tournament` | Are locks final, do rounds nest, do fixtures find their match? | three groups and a bracket of eight, every outcome and every draw of lots from a set of known results | holds |
| `research` | Was what is confirmed read, do receipts survive, are odds bought while others hold them, does a page stay citable? | two nodes, two pages of which one redirects to the other, two slots each with a floor of one, one answer sent back, five drafts, three pasts per page | holds |
| `archive` | Is what an index names there, does an export verify, does a retired forecast stay out? | two hosts, two exports or preservations, three runs (two agent, one live; one of them arrives late and may be retired), two days, two sets of stamps, one with a tie | holds |
| `workbench` | Is a file one artifact, what is registered sound, what passed in silence sent back only for cause, what is published what was shown? | two quant nodes that share one directory, three calls of which two are siblings, two calls per node; four mixtures in a plain file, a fifth in one with a colon, which may be removed again | holds |

Why the bounds are enough. Three waves let a forecast be accepted, re-opened and
blocked, with a wave left to replan in; the demand-submit node comes on top. Two
siblings are the fewest that interleave, and three calls let one of them follow
an answer. Two mixtures that may replace one another are the fewest that make
supersession visible, and two waves the fewest in which it can come after an
acceptance. Four ids with two counted nodes reach every cap from both sides,
chains of three and a replacement inside one wave. `admission` uses symmetry over
the three ordinary ids, `budget` over the two ordinary agents, `memory` over runs and
matches, `archive` over hosts, `publish` over jobs of one kind, `workbench` over the siblings: none of them has a liveness property. In `budget` two ordinary agents are the fewest that reserve
before either settles, six calls let both retry and leave calls for the slices,
and the ceiling is low enough for money and calls to run out in either order.

In `live` two matches let a partial poll leave one out and one correction tells a
revised score from a first; two faults are the fewest that combine (a new
disk and an unreadable bucket), and one slow run is enough to publish over the
loop's snapshot with older results. `publish` has one job of each kind, which
interleave in every order of their keys. In `engine` a cache of one entry evicts at
every other lookup, and two runs give three fits, the fewest with which a held,
a read and a current fit differ. Two runs of `memory` are the fewest that
overlap. The groups of `tournament` are the smallest in which a tiebreak, a
choice of thirds and a rematch can occur. Two nodes of `research` are the fewest that share a
record, queue at the lock and merge one after the other; a redirect is what lets one
page have two records; two slots with a floor of one let a node be
refused, exhausted and demoted. In `archive` two hosts upload the same release, or one preserves while the other
exports; one late run that may be retired object by object separates every pair of listings;
two days with two instants give days without runs, ties, and runs after the last day.

In `workbench` two siblings and a node whose id collapses to the same directory are
every way to share one; the five mixtures are one that owes nothing, one that lacks a row
the guard asks for, one that lacks a row it does not, one that contradicts itself and one with
a world that cannot be simulated. The two files are one and the file its name is mistaken for. A file
that cannot be parsed is left out of this run: like the contradicting mixture, it is listed and
not registered. Three calls can register a mixture, correct it between its validation and its
acceptance, and once more before it is published.

Deadlock is checked in `waves`, `siblings`, `admission`, `budget` and
`engine`: a run that is over stutters explicitly (`Over`), admission can
always plan again, and the loop always has a next pass. `live`, `publish`,
`memory`, `tournament`, `research`, `archive` and `workbench` come to an end by their bounds (no
more results, no more jobs, a tournament that is played, a wave that is merged, calls that are
over).

**Fairness.** `Termination` is checked under `WF_vars(Next)`: some step of the
run is taken as long as one is enabled. The code justifies it, as every await is
bounded: a node by its wall-clock limit (`_bounded`), a model call by its request
timeout and retry count, tools by the node's request limit. No fairness is
assumed of any single action, so no referee answer and no success is promised.
`ResultsReachSnapshot` is checked under `LiveFairness`: weak fairness of the
steps of a pass, as `LiveLoop.run` goes round for as long as its host is up, and
strong fairness of a poll that is answered in full, which is an assumption about
the provider. `FitConverges` and `ReportFollows` are checked under
`EngineFairness`: the timer's and the loop's next step and the end of a
computation come some time, for they are a sleep, a thread or an await; no fairness of
clients, publishers or passes that publish.

### Disagreements with the documents

Each was shown by a violated property in an earlier version of this project, whose
place other questions have taken; the code is unchanged and the properties are
easily restated:

* `backend/jobs.py:63`: `engine.refresh()` after a published pass is awaited outside of the
  loop's `try`; one read of the store that raises ends the task, and no pass runs until
  the process restarts, though `backend/jobs.py:123` says "A transient read failure must
  not kill the loop" (`loop # "dead"` in `engine`).
* `runner.py:169`: `_sync_publishable_artifacts` drops a superseded `last_clean`
  and `last_accepted` but not the standing acceptance, so a mixture superseded
  after acceptance is published, of which `submit_forecast.py:91` says that it "cannot be
  published" (`published \in Submissions => Publishable(published)` in `waves`).
* `overlay.py:75`: `resolve_fixture` looks a pair of teams up among the group matches
  before it looks at the date, so a knockout tie between two
  teams of one group is taken for their group match, and its result written
  over that one's, though it is to "Map a provider fixture onto the tournament match id".
  `FixturesFound` states both: which match a fixture is taken for with a meeting in the group, and
  which without. The bracket of `tournament` has such rematches.
* `runner.py:397`: before the demand-submit node ("call submit_forecast now") the copy
  flags are reset, but not `structural_repair_required`; every submit of that
  node is refused.
* `check_forecast.py:44`: after a copy block of the referee ("call check_forecast or
  submit_forecast again") a clean `check_forecast` clears the flag that the next
  `submit_forecast` needs.
* `runner.py:316`: an exception from planning that is no cap skips the
  deterministic fallback, which "never leaves the day dark".
* `referee.py:122`: a blocker that the referee model attributes to infra is taken for an outage,
  and the forecast goes out with an old status, though `prompts/referee.md:61` says 'Do not use
  owner="infra"; that is reserved for the harness when the referee itself fails to run.'
  (`StatusEarned` in `siblings` and `PublishedProvenance` in `waves` without `unstated`).
* `master.py:233`: the coverage nudge is spent on one operation, and a second
  forecast operation of the same patch is admitted in the wave that was to be
  forced.

Met while modelling, without a run of their own:

* `backend/sim.py:209`: two refreshers that read the same fit write the same revision for two
  different fits, and the cache, keyed by it, may then answer for one with the other, though
  `backend/sim.py:90` says that requests snapshot a fit "so a refresh mid-sim cannot mix
  states". `overwritten` marks it and `AnswersOwnFit` allows for it.
* `s3/index.py:50`: "Index a run, replacing any earlier item for the same run_id." A rerun that
  dies, or loses the table, between the deletes and the put leaves the run in no item at all,
  and two runs created in one second share a key. `IndexKnowsRuns` makes these the only ways.

* `quant/executor.py:218` lists an output when its hash changed. A script that writes a
  mixture and then crashes registers nothing; corrected, it writes the same bytes again and
  registers nothing either, though `run_python.py:226` says "If a script writes a valid
  mixture JSON under outputs/, registered_artifact_ids returns the artifact ids".
* `audit_policy.py:3`: "the two can never disagree about what a large mixture owes".
  The guard never asks for a *ledger_pricing* row, though `priced_items` is in the payload it
  has (`audit_policy.py:89` calls the row "not knowable at registration time"), nor does it see
  malformed rows or precomputed worlds; the validator sends all of these back.
  `QuietIsSentBackForCause` says exactly where they part (`Overlooked`) and where the
  submission asks for more (`AsksMore`); `workbench` registers mixtures of both kinds, and
  `PolicyPartsExactly` proves the equivalence.
* `graph/artifacts.py:113`: after `amend_payload` "later readers must see the
  corrected record, not the one its node originally asserted". `publish_surface.py:69` keeps the
  surface it simulated first, and `_validation.py:138` the spread. If a mixture is corrected
  after it was validated, `run_agent.py:974` publishes the worlds and probabilities of the old
  payload, and `run_agent.py:1042` and the lines after it the conditionals, the branch audit
  and the world metadata of the new one, in which a published world may be killed. So may a
  re-submission be validated against the titles of the old payload. `PublishedAsShown` is the side
  of this that the code keeps; `snapshot[1] = snapshot[2]` is the side that fails.

Found on the way, where no sentence of the repository says otherwise and the
properties are stated so as to leave room for them:

* `quant/executor.py:151`: siblings write one `_runner.py`, so a child may run the
  sibling's script. `quant/executor.py:186`: only the executor's own timeout kills a child;
  one whose node is cancelled goes on writing outputs.
* `run_python.py:84`: a script that forgot its result registers its mixtures even when its
  outputs are over the byte cap; one that did not forget it does not. What a crashed
  script left is registered by the next clean one that starts before it wrote.
* `run_python.py:128` finds the artifact of a file by what its summary says before the first
  colon, and `_mixture.py:128` makes a file of any name a script asks for. A file with a colon in
  its name is a new artifact each time it changes; and if what comes before the colon is another
  file of the directory (`mixture.json:b.json`), a new mixture in that one is written over the
  artifact of this one, and its own artifact is left as it was if it is the older.
* `get_odds.py:77`: the bookmakers' odds are paid for before Polymarket is asked and are cached
  after it has answered. If that call raises or its node is cancelled they are gone, and the next
  node pays again; a bookmaker that fails is provided for, Polymarket is not.
* `runtime.py:208`: what the referee has spent of its slice is not taken off the slice that is
  held back from the others, so it is counted twice against the forecast (`ReservesFund` says
  what is left).
* `nodes.py:196`: a quant node under structural repair may spend all of the last forecast's
  slice before there is a forecast to make.
* `quant/workspace.py:20` may map two node ids to one directory, where their files are
  one another's.
* `results_store.py`: a put of the results that fails while the bucket has no
  blob yet leaves the merged results in the mirror; the next pass finds nothing
  to merge, so nothing is written to the bucket until another match ends.
* `s3/snapshots.py`: the host's copy of a snapshot is written first. If the
  bucket then fails, the next pass finds its results in the host's copy and they
  are not pending again, so the bucket's snapshot waits for another result.
  `ResultsReachSnapshot` therefore accepts either copy.
* A new disk, an unreadable bucket and a partial poll together erase known
  results: `ErasedOnlyBlind` says that nothing less does.
* A fitted state that cannot be published (`live.py:239`) leaves the loop's
  forecaster in place, so the next snapshot has the older ratings; with three faults the
  ratings may also lag results that only the mirror holds, which is why
  `RatingsLagOnePublish` speaks of the bucket.
* `publishable_results` (`live.py:102`) takes a correction of a result that the snapshot
  already plays for pending only while the store has not recorded it: a pass
  that dies between the two leaves the old score in the snapshot.
* `backend/sim.py:253`: a report that asks for the fit of a run between its
  snapshot and its fitted state caches `None` for as long as the entry lives.
* `run_agent.py:453`: the deterministic fallback does not ask the kill switch
  again. `run_agent.py:1465`: on the incomplete path a push that raises skips both
  the record of the failure and the fallback.
* A pull takes over the files of the bucket whole, so lessons of a run whose
  push failed are gone from a disk that is used again.
* `web_fetch.py:73`: a page that a node has fetched is refused to its siblings with the notice
  that "its evidence is on the ledger or in a sibling artifact"; if that node then fails it is in
  neither, and `refresh` does not help.
* `web_fetch.py:87`: a sibling's blank answer for a page that this run has read makes
  it *empty* for all, and what was read from it is taken down to probable at the merge;
  `ReadStaysCitable` makes that the only exception.
* `blackboard.py:144`: evidence that the ledger already holds keeps its status in the artifact,
  confirmed or not, while the ledger's entry may be probable; "The artifact must agree with the
  ledger" (line 174) is only ensured for entries that are new.
* `archive/export.py:76`: what raises between the making of the directory and the `try` leaves
  it behind, and the next export refuses it.
* `archive/source.py:295`: the rerun of a daily run puts its snapshot and its sidecars under the
  same keys; between the two puts, or if it dies there, an export takes the new snapshot
  with the old sidecars for complete.
* `sim/mc.py:266`: a known knockout result whose winner is on neither side sends
  the second side through.

One more limit is stated by a theorem rather than by a run: `NoLostForecast`
holds for at most one revision (`graph_max_revisions` is 1 by default). With two
the second acceptance overwrites `last_accepted`; if a later wave supersedes that
one, the first, still publishable, is lost.

## 4. Proofs

TLAPS checks the following for every value of the constants, under the named
assumptions of the modules, which TLC evaluates in every run: `SubmissionAssumption`
(the citing function is typed, the markers `None`, `Fallback` and `Dark` are no
submissions, limits are naturals), `ForecastRunAssumption` (seeds are mixtures, limits
are naturals) and those named below. Every safety property that a run checks is stated
by a theorem; only liveness is not.

**The desk** (`ForecastRunProofs`, first part). None of the desk's promises is inductive
alone: a call that passed its guards may sit at the referee for many steps.
`DeskInv` adds what stays true of it, among others:

* `ReviewsGuarded`: what waits at the referee cites a mixture that is still
  publishable, and if it escalates the pause has been taken. It is inductive
  because the runner syncs and re-opens only while no call is suspended;
* `Unrefereed`: the referee's traces are empty when it is off.

From `DeskInv` follow `RepairLoopsBounded`, `HoldKeepsPreviewAway` and
`BlocksAreEvidenced` directly, and the action properties `EscalationsArePaused`
and `AcceptancesArePublishable` step by step.
`StatusIsEarned`, `PublishedIsEarned` and `BypassesAreNamed` hold whatever the referee reports,
with the exception that `unstated` names: see `referee.py:122` in section 3.

**The run** (`ForecastRunProofs`, second part). `RunInv` is the run's type invariant with
three facts: nothing is published before the end, a suspended review belongs to
a working node or to the auto-submit, and a wave is left while the run plans.
With it every step of `Next` is a step of `DeskNext` or leaves the desk alone
(`RunImplementsDesk`), so each desk theorem carries over to runs by transitivity
(`RunRepairsBounded`, `RunStatusEarned` and the others).

`NoForecastLost` is the hardest: with `MaxRevisions <= 1` its
strengthening `LossInv` says that accepted submissions cite registered mixtures,
that after a re-opening the fallback is held or the counterfactual is no longer
publishable, and that the demand-submit wave adds nothing to the active set, so
what was lost for a reason stays lost for that reason.

**The budget** (`AdmissionBudgetProofs`), under `BudgetAssumption` (finitely many
tasks, each with a role, and natural numbers). What the open calls hold is the
number of *tokens*, a set with one element for each unit reserved, so that the
library's facts on finite sets do the summing. `BudgetInv` adds to the checked
invariants that only an open call holds a reservation and that its role has been
charged (`ReservationsOwned`), and that totals are the sums of the roles' shares
(`SharesAddUp`). The first gives that a release never meets the clamp at zero,
hence `BudgetLedgerExact`; with the second, an admission at the ceiling bounds
every role's share, hence `BudgetCeilingHeld`, `BudgetSlicesKept` and
`BudgetCallsKept`. `BudgetReservesFund` needs no more: what the ordinary agents have spent and
hold is bounded by what the slices leave them, what the roles of a slice have is bounded by it,
so the rest of the slice is what `charge_llm` finds free (`HeldByRoles` divides what is in
flight by role).

**Admission** (`AdmissionBudgetProofs`), for any ids, caps and number of waves. `CapsHold`
is proved from the types (with the nodes finitely many) and one strengthening,
`OperationsCounted`: each kind's nodes and operations together stay within that
kind's cap, and once admission is closed the planned nodes and the wave's
operations together stay within the run's.

`HeirsAreFinal` and the refinement of `Supersession` rest on `Ordered`: positions
are at most the number of nodes, an heir comes after the node it replaces, the ids
of operations are new and distinct, and an operation replaces a node that has no
heir yet or an earlier operation of its patch. So a merge gives heirs, all of them
new, only to nodes without one (`MergedLineage`). From there: the walk along
`replaced_by` keeps what it visited (`SuccessorsKept`), so nothing is revived;
what it comes to visit is of the wave (`SuccessorsArrive`), so a mixture is
retired only where the wave brought one; and the walk only goes forward
(`SuccessorsLater`), so of the mixtures the wave brought the last one is active
(`FinalOneExists`, by the least element of a set of naturals). That is the exchange
the abstract step asks for.

**The loop** (`LivePassProofs`). `RecordedBeforePublished`: whatever the bucket,
the mirror or a pass on its way to a snapshot holds has been put (`AllRecorded`).
`ErasedOnlyBlind`: on a host that has seen the store the mirror has every match the
bucket has (`MirrorCovers`), so a merge with what either of them answers keeps them all.
`RatingsLagOnePublish`: a host that has not seen the store publishes nothing
(`BlindIsIdle`), and on any other what the forecaster was fitted with covers what the
bucket held at the last full publish (`FitCovers`).

**The publishers** (`PublicationWorkbenchProofs`), for any jobs. `PointerResolves`: who
is at the pointer has put its state. `LatestGoesForward`: the snapshot latest names won its
comparison, and winners are newer than what they saw (`WinnersNewer`); a job is
dated once (`DatedOnce`). `IndexKnowsRuns`, with any number of deaths and outages: what a
job still has to delete are seconds at which recorded jobs of its own run were dated, so an item
of a run only goes through a job of the run, which is then *torn*, or through a run that collides
with it, by a delete or by a put on its key.

**The engine** (`EngineTournamentProofs`), for any clients, any size of the cache and any number
of runs. `Typed` (who asks has a fit; each step of the loop goes with where its lookup
is) and `Led` (who waits, waits for a registered key, and a registered key has exactly
one leader) give `OneLeaderPerKey`. `Agree` gives `AnswersOwnFit`: among the fits that
anybody holds a revision names one, none is ahead of the current one, and a cached
answer under a fit's own key is what that fit yields. It rests on `WriteFitKeeps`:
what a refresh writes back overwrites nothing it has not read, so the revision counts
exactly one on.

**The memory** (`MemoryResearchProofs`), for any number of runs that overlap. `ScoredOnce`
and `OnlyPublishedTeach` hold of the bucket because they hold of every copy
(`OnceEverywhere`, `PublishedTeach`): a file only ever moves whole. `MemoryKept`
rests on `KnownOrLate`: a run that has asked for a file and not yet put it knows
all the file holds, apart from what is late for it.

**The lists** (`ListsProofs`). `Kept` is written without recursion, so that it can be
reasoned about: the k-th element that stays is at the position whose *place* among
those that stay is k. Of any finite set of numbers every place from one to its
cardinality is one number's (`PlaceFacts`, by the largest number and the subset without
it), so `Ascending` enumerates it in order (`AscendingFacts`) and `Kept` keeps the elements
at the positions that stay, all of them and no other (`KeptFacts`).

**The workbench** (`PublicationWorkbenchProofs`), for any calls, files, worlds and mixtures
(`WorkbenchAssumption`; the files a directory may hold are finitely many). `StoreSound`
is inductive with the types: no two artifacts of one file whose name is read back whole, no
mixture that kills a world it keeps, and what is quiet was let through by the guard. What a registration leaves, corrects and
adds (`Registration`) rests on the enumeration of the new files naming each of them
once (`Listing`). `QuietIsSentBackForCause` then comes down to the guard against the
readers, with no state in it: `PolicyPartsExactly`, whatever mixture and submission. The argument for
`PublishedAsShown` is that a surface, once shown, is never computed again
(`ShownInv`): what replaces the artifact's payload leaves it alone.

**The research nodes** (`MemoryResearchProofs`), for any nodes, pages, budgets and drafts, with
`Order` a sequence of nodes and the first-party address no page. `OddsInv`: a call that buys
or has bought holds the lock alone *and* found the cache empty, and what is paid for is in its
hand or in the cache; the lock alone would let the next in the queue buy again. `ReadInv`: what counts as fetched by this run was given to one of its nodes as
text, whoever recorded, ranked or cached it. `ReceiptInv` states `ReceiptsHold` for
what is still being written: the claims and sources an artifact cites are those its
author pointed at less the results never played, and the entries behind a merged node
are those its artifact cites. It needs that tidying twice cites the same (`KeptFacts`)
and that demotion and deduplication keep claim and source.

**The archive** (`ArchiveProofs`), for any runs, days and hosts, the bucket's keys given as
a sequence. `DurableInv` gives `NamedIsDurable`: a directory holds at most one manifest, none
while a command may still write into it, and a release's manifest was uploaded after the rest
of the files it was made with. `ExportInv` says of each export what it holds
and what it has written: what it reads was current when it listed (`Selected`, hence
`NoRetiredForecast`), and each file in its directory is the one that its days and runs call for,
written in turn (`Written`). That `ExportVerifies` follows is the work: the verification looks
for each day's selected run and its history among the files, and must find them in the
order in which the export sorted them. A run's `Rank` counts those before it, by creation and then by
the listing's order; no two runs share one and none is left out (`RankFacts`), so a sorted
list holds each run once, at its rank (`InOrderFacts`), and the history of an earlier day is what
stays of the last day's (`HistoryKept`).

**The tournament** (`EngineTournamentProofs`), for any groups of four, schedule, bracket,
calendar, scores and lots. What is assumed of the data is in four assumptions, all of
which hold of the repository's `schedule.json` and `thirds_allocation.json`:
`ScheduleAssumption` (after every second match of a group, in the order of the dates, its teams
have played equally often: `lock.py` takes chunks of two for matchdays and relies on it),
`BracketAssumption` (slots of a tie refer to earlier ties; the first stage has the two best of
every group and the thirds' slots, each later one the winners of the one before; FIFA's table
is a bijection between those slots and the groups that qualified), `CalendarAssumption` (no two ties
of a day in one city) and `TournamentAssumption`.

* `LockedWinItsGroup`: a team that is locked is ahead of what each other team of its group
  has and can still get from the games it has left (`OutOfReach`; one match brings three
  points at most and is one game less, `StillOutOfReach`). When the group is over no game is left,
  so it leads on points alone and every ranking that lots may lead to puts it first
  (`LockedIsFirst`).
* `RoundsAgreeWithBracket`: every group that is ranked is numbered from 0 to 3 (`Placed`), and each
  tie that was played has the sides its slots stand for, with no team twice in a stage
  (`Bracketed`). Two slots of a stage stand for different teams (`SlotsDiffer`): two places, a
  place and a third, and two thirds by the table; two winners, or the losers of the
  third-place match, because the ties they come from had no side in common. The rounds that a
  finished column shows are read off from there.
* `FixtureIsItsTie` needs no induction: a kickoff, a day, or a day in a city that only one tie
  has is the tie's own, and the group is asked for the same pair of teams as the tie has.

**Only proved.** The type invariants, `RepairsBounded`, `BypassIsNamed`, `BlockIsEvidenced`, `SlicesKept`, `CallsKept`, `CapsHold` and
`HeirsAreFinal` are theorems and have no run of their own: TLC has checked each on the
small instances before, and the theorem says more. The strengthened invariants named above
were checked by TLC on the runs' instances before they were proved.

**Only model-checked.** `Termination`, `ResultsReachSnapshot`, `FitConverges` and
`ReportFollows`: they are liveness under fairness, which needs `ENABLED`, out of the prover's
reach. `NoLostForecast` is a theorem for at most one revision and does not hold for more.

## 5. Not modelled, and the plan

Not modelled:

* numeric code: the goal models and their fits (`models`), the Monte Carlo
  sampling and the statistics over it, the helper library of `quant/wolves_quant`, market blending. It keeps no
  state that outlives a call and computes with reals;
* the validator's rules but those of `AuditPolicy`, prompts, parsing of texts and of the answers of external
  services: their verdicts are free inputs of `Submission` and `Admission`;
* insights, sidecars and the snapshot schema: pure projections of a snapshot;
* what an agent is shown (`agent/dossier.py`, `agent/continuity.py`, `agent/scenarios.py`,
  the advisories of `_validation.py`): texts computed from stores that are modelled, on which
  no step of the program depends;
* the display file of the live loop (`live_state.py`): it is replaced whole by each poll, and
  decides only how soon the loop polls again and when a loop that is told to stops at idle;
* operators' one-off commands (`scripts`: backtests, backfills, synthetic data), which run
  alone on files nobody else writes;
* the HTTP routes, which read what `Engine` and the stores hold; the web front
  end; the infrastructure code, which is configuration;
* the operator's `run-now`: it lists tasks and starts one, and `Memory` and
  `Publication` assume that runs overlap.

Of the modelled components the parts left out are named in section 2.

Planned, in this order:

1. What `can_fund_followup_call` tells the loop against what `charge_llm` then
   does, replacing the free budget choices of `ForecastRun`.
2. A run without a referee as an initial choice of `waves`.
