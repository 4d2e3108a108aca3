# TLA+ models of the NPD AI video factory and Agent Hub

The repository holds two systems that share a Redis server and little else.

- The **V1 video factory** (`apps/api`, `services/worker`, `renderer`) turns a
  request into a rendered video. An HTTP API creates job records in Redis and
  pushes their ids on a list, one worker process takes them and walks a fixed
  sequence of steps, and a render server draws the video.
- The **Agent Hub** (`services/agent_hub`) keeps campaigns and their approvals,
  planned actions and their execution, an attribution ledger with the evidence
  of its deliveries, experiments, provider health, a bridge to a video factory,
  and recommendations for leads. It is a FastAPI service: `async` routes
  interleave at their awaits, plain `def` routes run in a thread pool and
  interleave anywhere. Every kind of record is a JSON document under a key, read,
  changed in memory and written back.

Paths below are relative to `src/`; `hub/` abbreviates
`services/agent_hub/npd_agent_hub/`.

## Inventory

| Component | State | Operations | What is hard | What makes it correct |
|---|---|---|---|---|
| V1 job record (`apps/api/app/models.py`, `state.py`) | `npd:video-job:{id}` | create, update_stage, add_artifact, fail, each a WATCH loop | a resumed run repeats old stages; lost replies | progress and stage never fall; failed is final |
| V1 API, queue, worker loop (`main.py`, `state.py`, `npd_worker/main.py`) | idempotency keys, queue, processing list | create/enqueue, recover_inflight, BRPOPLPUSH, LREM | overlapping POSTs, handler and worker deaths between any two Redis calls | an answered job is never lost; one key, one job |
| V1 run_job and renderer (`npd_worker/pipeline.py`, `renderer/src/server.ts`) | files of a job directory, renders in progress | produce, reuse, render, probe, complete, fail | restarts, time-outs while the render goes on, partial files | what is up for review is complete and passed its checks |
| Campaign control plane (`hub/campaigns.py`) | campaign record, audit list | create (from brief), update, refresh, request, decide, transition | whole-record saves that overwrite each other | approvals follow decisions, the lifecycle table, the audit |
| Orchestrator and tools (`hub/orchestrator.py`, `tools.py`) | report shared in memory, copy in Redis | decide, execute, analyze | an await between check and effect, late stores, restart | no write without an approval, one per approval |
| Attribution ledger (`hub/attribution.py`, `store.py`) | touchpoints, sorted sets, intake issues, mappings | ingest, replay, backfill, register mapping | NX append and index in two calls, issue copies overwritten | ledger immutable, no event lost, mappings unambiguous |
| Delivery observability (`hub/delivery_observability.py`) | receipts, dead letters | ingest of an attempt, report of a failure | attempts repeated and overlapping, deaths between receipt and letter | receipts immutable and true, events counted once, what was given up is filed |
| Heartbeats, provider health and its scheduler (`hub/provider_health*.py`, `delivery_observability.py`) | heartbeat receipts, snapshot, alerts, lease, scheduler status | heartbeat, refresh, scheduled and forced evaluation, acknowledge | a lease that expires under its run, copies of alerts saved over each other, shared retention | one evaluator, the alert life cycle, a silent producer is alerted |
| Experiments (`hub/experiments.py`) | experiments, their observations, the tracking of their campaign | plan, preview, approve, observe, judge, evaluate, map, read a source | whole-record saves, an await between plan and evidence, two saves for one mapping | conclusions rest on accepted evidence, decisions are the owner's |
| Video boundary (`hub/video_factory/`) | nonces, drafts, idempotency table, events and their audit | signed requests, webhooks | repeated, late and reordered requests, clocks, deaths between SET NX and ZADD | one use of a request, one project per key, one record per event |
| Reconciliation and reports (`hub/attribution.py`) | reconciliations with matches, quality and fingerprint | reconcile, accept_quality, report | the ledger grows between reads; decisions that overlap | a snapshot is reproducible, what is accepted is credited in full |
| Journeys, scores, sales intelligence, next best action, reviews (`hub/journeys.py`, `lead_scoring.py`, `sales_*.py`, `next_best_action.py`, `nba_review*.py`) | the reviews and their two indexes | replay, preview, score, recommend, record a review | events that arrive late, proofs put together from parts, several reads of a ledger that grows, retention under overlap | no stage without evidence, no escalation without proof, the newest reviews stay |
| V1 providers, assets, manifest | none | pure functions | boundaries of timing and validation | valid manifests only |
| Maintenance, probes, snapshots | none of their own | export, restore, probe | a source that changes | export is consistent |
| Agents, answers, readers, login, dashboard, configuration, phase 9 evaluations | none, or stateless cookies | pure functions, read-only HTTP | - | - |
| Remotion compositions, n8n, deployment, scripts | - | - | - | - |

How they interact: the API and the worker share only Redis (job records, key
bindings, two lists); the worker and the renderer share the job directory and
one HTTP call. In the Hub the experiment route writes campaigns, delivery
observability wraps the ledger's ingest, provider health reads delivery
receipts and heartbeats, reconciliation and journeys read the ledger, a sales
recommendation reads journeys, heartbeats and the ledger again, the orchestrator
calls tools (n8n, EspoCRM, Ads readers) over HTTP, and everything stores through
`RedisHubStore`, whose pipelines are atomic for one call and for nothing longer.

`PROJECT.json` lists every component with its status, and under "hazards" the
behaviours that are hard to test, at their lines, with the property that covers
each.

## Modules

| Module | Models | Extends / instantiates |
|---|---|---|
| `JobRecord` | the record of a job, STAGE_ORDER, the mutations of RedisJobStore | |
| `JobLifecycle` | abstract: what the stage of a job may do, whoever runs it | `JobRecord` |
| `JobQueue` | POST handlers, Redis lists, claim loop, recovery | `JobRecord`; refines `JobLifecycle` |
| `VideoPipeline` | run_job for one job, renderer, disk | `JobRecord`; refines `JobLifecycle` |
| `VideoJobProofs` | theorems about the queue and the pipeline | `JobQueue`, `VideoPipeline` |
| `CampaignApproval` | campaign control plane | |
| `ActionExecution` | decide and execute on a shared report | |
| `OwnerApprovalProofs` | theorems about what the owner approves | `CampaignApproval`, `ActionExecution` |
| `AttributionLedger`, `AttributionLedgerProofs` | intake of source events and mappings | |
| `AttributionDelivery`, `AttributionDeliveryProofs` | receipts, retry budget and dead letters around the ledger's append | |
| `ProducerHeartbeat` | heartbeat receipts and the freshness they prove | |
| `ProviderHealth`, `ProviderHealthProofs` | refreshes, evaluations, lease, alerts, acknowledgements | `ProducerHeartbeat` |
| `ExperimentPlanning`, `ExperimentPlanningProofs` | experiments, their evidence and the tracking of their campaign | |
| `VideoBridge` | client of the video factory and the factory's contract double | |
| `VideoBoundary`, `VideoBoundaryProofs` | webhooks into Redis, composed with the bridge | `VideoBridge` |
| `AttributionReconciliation` | matches, quality, fingerprint, acceptance, credits | |
| `LeadJourney` | replay of a journey from touchpoints | |
| `SalesSignals` | SLA windows, completeness proof, scores, next best action | `LeadJourney` |
| `SalesReviews` | requests for recommendations, reviews and their indexes | `SalesSignals` |
| `ReadModelProofs` | theorems about what the hub reads from the ledger | `AttributionReconciliation`, `SalesReviews` |
| `MC...` | values of the constants for TLC | the module they name |

"map" in `PROJECT.json` gives the source lines of every definition. A definition
whose comment begins with "Mutated form:" is not the code: it is a mistake that
the property paired with it in "mutants" catches. `Consistent` is in every
module the conjunction of the type invariant and the state invariants named in
it; each of these has a mutant of its own that the conjunction catches. A proof
module may extend two components, so that lemmas are shared; where their names
would meet, one component names its module or its system in them
(`PipelineSpec`, `ExecutionConsistent`, `ReconciliationTypeOK`).

### JobRecord, JobLifecycle

A WATCH/GET/MULTI/SET loop begins again when the record changed, so each
mutation is a function of the stored record: `Advance`, `UpdateStage`,
`AddArtifact`, `Fail`. The record keeps status, stage, progress, the names of
registered artifacts and the error code. `JobLifecycle` is the promise both
detailed modules implement: created queued, only forward, reviewable only out
of quality control, failed final. It lets a reviewable job fail because
`RedisJobStore.fail` has no guard and run_job calls it when the reply to its
last update is lost.

### JobQueue

A POST and the job id it would mint are one value. Each await of
`create_video_job` is an action: `LookUpKey`, `FetchExisting`, `CreateJob` (SET
NX), `BindKey` (SET NX whose result is ignored), `EnqueueJob`. A handler may die
between any two (`HandlerDies`), a key may expire at any time (`ExpireKey`). The
worker reads the processing list, requeues it in one MULTI, claims, runs and
releases. run_job is reduced to what it does to the stage; `RunRaises` is an
exception that leaves it (an unknown provider, mkdir, the first GET, `store.fail`),
after which the finally clause still removes the job from the processing list.
`WorkerCrash` is a death that runs no finally clause. `escaped`, `expired` and
`overlapped` are history variables that say which proviso of a property has
been lost.

### VideoPipeline

One job through run_job, step by step: the check of an existing file, the stage,
the production, the registration; the two renderer attempts; the probe; the
last registrations; the update to awaiting_review; the two exception handlers. A
file is absent, partial or valid. A renderer request is accepted, writing
(it truncates the output file when it starts), detached (the file it writes was
unlinked), or answered; the worker awaits one of them and the others go on. The
faults are: refusals of providers, refused connections, renderer crashes, Redis
calls that are refused or applied with the reply lost, exceptions of
`store.fail`, worker crashes in the middle of a write. A time-out is not counted
as a fault.

### CampaignApproval

Every route reads the campaign, checks and changes a copy (`Create`,
`UpdateDraft`, `MapTracking`, `RefreshPlans`, `RequestApproval`,
`DecideApproval`, `Transition`), saves the whole copy (`Save`) and appends an
audit event (`AppendAudit`); create_from_brief saves a second time and then
refreshes (`SaveBrief`, `PlanBrief`). Handlers interleave between any two of
these and may die. Content is dropped except the approval state of each plan,
the approval package and whether plans exist. The audit trail is kept as its
last event. `overlapped` is history: it becomes true when a request begins while
another is served. `_next_id` and every list look at the newest `ListLimit` campaigns
only; `others` counts further campaigns, saved later, that push the modelled ones out of
the listing, and `Listings` are the listings there may be (`Crowded`: more campaigns than
one returns). POST transitions takes the target approved from an operator with no
decision on any plan: it is in the model, and marks the campaign as `bypassed`.

### ActionExecution

The report is one object that all requests of the process share, so `report` is
a variable and not a copy per request; `stored` is the copy in Redis. execute
checks the status (`BeginExecute`, and in the tool once more, `Check`), connects and
sends (`Post`), awaits the answer (`ToolAnswers`), sets the status from the result
(`SetResult`) and puts a failed write back into approvals_required (`Relist`). An executor
holds the event loop between its awaits (`LoopFree`), but decide runs in a thread
beside it: it checks (`BeginDecide`), sets the status (`SetDecision`), reads the list
without the action (`Unlist`) and replaces it (`AssignList`). Both then serialise the report
(`Serialise`) and store it (`StoreReport`), so an older serialisation may be stored last.
`Crash` loads `stored`. The rest is history: `granted`, `posts`, `refused` and `disturbed`;
`late`, the executions past their last check of the status when a rejection was
answered; `crossed`, the actions whose failure was recorded in the middle of a decision.

### AttributionLedger

A source event id determines the touchpoint id and the issue id, so the ledger
and the issues are functions of the event. `Evidence(e)` is the set of campaigns
that the event's own contract and the registered mappings name; exactly one
resolves it. What a mapping's identity and its overlap with another mean is
abstracted to the set of events it fits. ingest compares, appends with NX, indexes
in a second call, closes a pending issue or records one, and stamps it; replay is
a preview and an ingest; backfill checks its batch first and appends event by
event; registrations check the registry and save later. Whoever reads the registry sees
its newest `MappingLimit` mappings (`ListedMappings`). SET NX and ZADD of a
mapping are one step, because only listed mappings are read. Time stamps are not
modelled; where the ingestion time makes two touchpoints differ the comment says
so.

### AttributionDelivery

An attempt is a delivery id and an attempt number within the budget. A delivery
carries one event; how it resolves is abstracted to `Known`, and only the append
is repeated from the ledger. A handler looks for a receipt of its attempt,
answers it or refuses a changed payload with a dead letter, ingests, records the
issue of an unknown event, saves the receipt with SET NX and then the dead letter
of an exhausted attempt: every store call is a step, and a handler may die
between any two. A second payload that conflicts under one attempt reuses the
letter of the first, as the code does. `answers` and `raced` are history.

### ProducerHeartbeat, ProviderHealth

A replica takes a heartbeat on its event loop: it looks for the id and the latest receipt
of the producer (one step, `Heartbeat`), saves, counts, lists the oldest and deletes what
it listed (`SaveBeat`, `CountBeats`, `ListExpired`, `TrimBeats`), and another replica may
take one in between. All producers share one retention. A replica that finds the receipt
another saved meanwhile refuses the heartbeat (`RefuseBeat`). A handler that fails or dies
before it trimmed leaves too many receipts, and the next save trims them too
(`LeavesUntrimmed`). Freshness is what the code computes of the newest receipt, the last
delivery and the horizon of the freshness target; `Elapse` moves the horizon. `peak` and
`overlaps` are history: the highest sequence a producer had while one of its receipts was
retained, and the kinds of work that overlapped or were left half done. `ProviderHealth`
adds, per replica, the scheduler task and the routes: `Acquire` (GET, then SET NX EX) and
`Extend` (EXPIRE, by the worker that found itself the owner), the reading of the
conditions, the snapshot, the synchronisation of each alert from the copies listed first,
the status and the release in two calls. The lease of a run that is over or dead expires,
that of a long run may (`LeaseExpiresEarly`); a process dies and is started again under
another worker id (`ReplicaDies`); a store call may raise (`StoreError`), which is a
failed run inside the try of run_once, the save of the success included, and ends the task
of the replica outside of it, since nothing catches it there. Acknowledgements run in a
thread and save their own copy.

### ExperimentPlanning

Each route reads an experiment, changes a copy and saves it; the index is sorted by the
time of the last save. A plan is the set of its variants and their mapping; an observation
is the variants it covers, its state and its quality; an evaluation keeps the observation
it rests on. Statistics are reduced to their verdict. `ReadSource` decides from the plan
it read whether evidence is complete, `SourceAnswers` comes after the await, `Ingest`
reads the experiment once more. `ApplyMapping` checks the experiment, reads the campaign,
saves it and then the experiment (`MapReads`, `MapCampaign`, `MapSave`). `disturbed` is
history: the experiments whose requests overlapped.

### VideoBridge, VideoBoundary

`VideoBridge` has the hub's client (mode, nonce registry) and the factory as its contract
double serves it (nonce registry, idempotency table, drafts, events). A signature holds
for what it was made for: method, path, query, timestamp, nonce and body. The header
Idempotency-Key is not in the signed text (`hub/video_factory/auth.py:82-93`,
`client.py:161-164`), so that it arrives as it was set is an assumption about the
transport, and the claims about one project per key rest on it. The wire is a set: a
request arrives when it likes, never, or again. Clocks are one number per side that differ
by at most `Ahead`. `handled` is history: when each request was carried out.
`VideoBoundary` adds the webhooks: a replica verifies, reads the record of the event,
saves by SET NX or finds it, indexes by ZADD and appends to the audit; replicas interleave
and die.

### AttributionReconciliation

A request matches its observations one store call after the other (`ListByOpportunity`,
`ListByLead`), then lists the ledger for the fingerprint, then saves. Each listing returns
the newest touches up to its limit (`Listing`; `MatchLimit` is 1000 in the code and
`LedgerLimit` 5000). The ledger grows by one touchpoint at a time in between; a
reconciliation keeps as history the whole ledger at its first reading (`seen`) and at
its digest (`read`).
`Match`, `Hinted`, `Eligible`, `Credit` and the rounded rows of `Total` are the
code's computations. The code divides a credit as a float; here a whole credit is
`Scale` parts, a number that any number of campaigns up to all of them divides
(`ReportAssumption`), and the runs take 60. `EspoRecords` are what the
CRM may answer.

### LeadJourney, SalesSignals, SalesReviews

`LeadJourney` replays touchpoints in the order (occurred_at, event_id): authority of the
source, direct and declared targets, the transition rule, skipped states. The aliases of a
source are one normalized name. `SalesSignals` has the SLA windows, the completeness proof
(claim, heartbeat, receipt, rows, digest), the score with and without the SLA, and the
advice; a score is kept as points of capacity, which rounding never moves over a
threshold. `SalesReviews` has the world (touchpoints that arrive, activities, claims and
heartbeats of the Sales Hub) and the requests: a reviewer's preview, score and advice list
the ledger separately, each time the newest `EventLimit` touchpoints of the lead; a review
is set with NX, indexed, and the overflow is counted, listed and expired one by one (a
record is read and then deleted in one step, for records never change). A campaign that a
stored touchpoint names exists and is never deleted, so the branch of the SLA window for a
missing campaign is not reached. A proof may be put together from any parts. The Sales Hub
is assumed honest: a claim omits no activity of the types it covers up to its watermark. A
late result is escalated under any verified claim, since it needs no completeness.

## Runs

| Run | Question | Instance |
|---|---|---|
| `pipeline_faults` | Does any mix of faults and time-outs give an incomplete reviewable job, lower a record, or keep a run from ending? | 2 faults, up to 6 renders at once |
| `queue_accepted` | Is an answered job ever lost, does a repeated key answer one job, is every accepted job finished? | 2 POSTs with one key, 3 ends of the worker |
| `campaign` | Do lost updates break the approval states? Do requests that do not overlap keep the lifecycle table, fresh ids and the audit? | 2 handlers, 2 campaigns and a third beside them, listings of 2, 2 channels and crm, 5 requests, 1 death, execution disabled |
| `execution_faults` | Can a write be sent without its own approval, or be started after its rejection was answered, or fail without asking again? | 1 write, 1 read, 2 executors, 2 deciders, 4 requests, 1 restart |
| `ledger_intake` | Does any interleaving lose an event, change the ledger, or close an issue without a touchpoint? | 2 handlers, 2 events, 2 contents, 4 mappings of 2 campaigns of which 2 overlap, listings of 2, 4 requests, 1 death |
| `delivery_attempts` | Is an event counted once, does a receipt tell the truth, is what was given up filed? | 2 handlers, 2 deliveries (one known), 2 contents, budget 2, 3 requests, 1 death |
| `health` | Is a silent producer alerted, do alerts follow their life cycle, is there one evaluator? | 2 replicas, 2 producers, 4 heartbeats, retention 1, at most one death or two store errors, eight scenarios |
| `experiments` | Does an evaluation rest on accepted evidence, is a decision the owner's? | 2 handlers, 2 experiments, 3 variants, five scenarios |
| `video_boundary` | Is a request used once but at the far edge of its window, does a retry get its project, is what was acknowledged listed? | 2 replicas, 2 keys, 2 bodies, 3 nonces, four scenarios |
| `reconciliation` | Is a reconciliation reproducible, or explained by the ledgers it was read from, and an accepted one credited in full? | 2 handlers, 6 touches of 3 campaigns, listings of 3 and 5, 2 opportunities, 4 batches and 3 answers of the CRM |
| `last_touch` (violation) | Does the last-touch model credit the latest touch? | 1 handler, one won opportunity |
| `sales` | Are journeys backed by evidence, escalations by proof, and do the newest reviews stay? | 2 reviewers, 2 leads, retention 2, five scenarios |

Bounds, and why they are enough:

- `MaxRenders = 6` in `pipeline_faults` is 2·(MaxFaults+1): each run asks for at
  most two renders, and every further run costs a fault, so a free slot is always
  there and `RunEnds` is not kept alive by the bound. Two faults cover "crash,
  then something goes wrong in the resumed run".
- `MaxStops = 3` lets the worker die while running, while recovering and once
  more. POSTs without a key, and more than two jobs, are covered by the theorems
  and not by TLC.
- In `campaign` five requests reach an approved campaign through both channels (a
  brief, and request and decide twice) or through a single decision with a
  request to race with it; `MaxCampaigns = 2` is the smallest number at which an id
  can be taken twice. With `ListLimit = 2` and `MaxOthers = 1` two campaigns fit one
  listing and a third one pushes either out of it. Execution is disabled, as in
  the deployed configuration; the theorems hold for either setting.
- Four requests are approve, execute, approve again, execute again in
  `execution_faults`; in the ledger, two registrations and two ingests, or an
  ingest, a conflicting one, a mapping and a replay. With `MappingLimit = 2` three
  registrations push the first mapping out of the listing, after which one that overlaps
  it is let in, or an event it fits is no longer resolved by it.
- `reconciliation` takes `MatchLimit = 3` and `LedgerLimit = 5` of six touches: the
  listing of an opportunity and that of the ledger are both exceeded. `EventLimit = 8` of
  `sales` is exceeded by its journeys of nine and ten touchpoints.
- Three requests in `delivery_attempts` are two attempts that exhaust a budget of
  two and a repetition, or three that race on one attempt.
- `health`, `experiments`, `video_boundary` and `sales` have a variable that picks a
  scenario in the initial state: which operations occur and how often. Each
  scenario combines the operations that interact (the MC modules say which), so
  that together they fire every action, and a product of all bounds is avoided.
  Retentions of 1 and 2 are reached and exceeded by other producers and other
  leads.
- `video_boundary` takes `Skew = 2`, `Ttl = 4`, as the defaults are (300 s and 600 s), and
  `Ahead = 2`: a sender may be a whole window ahead, which is the edge of `NoRequestTwice`.
- Symmetry is used on handlers, replicas, requests, keys and nonces only, which are
  interchangeable, and in no run that checks liveness.
- CHECK_DEADLOCK is off everywhere: each system may stop when its requests are
  served, its worker is down, or its bounds are used up.

What is exempted, and says so in the property: `ReviewableIsServable` leaves out
the narration, which espeak writes in place and whose check reads only the header,
and holds only while `abandoned` is false. `SameKeySameJob` holds for keys that
neither expired nor were used by overlapping POSTs; `AcceptedNeverLost` until an
exception escaped; `OnePostPerApproval` while executions did not overlap and
the process lived. Of the Hub:

- `ApprovedOnDecision` leaves out campaigns that were moved to approved through
  POST transitions (`bypassed`), which any operator may do; only that route sets the mark.
- `FailedIsPending` leaves out actions whose failure was recorded while a decision was
  between its status and the serialisation of the report (`crossed`), and in memory the
  step between the status of a failed write and its append.
- `RejectedNeverPosted` holds until a restart, or until another decider approves the
  write before the rejection was answered, and allows the sending to an execution that had
  passed its last check when the rejection was answered (`late`).
- `RegistryIsUnambiguous`, `LifecycleRespected`, `CreatesAreFresh`,
  `AuditMatchesStatus`, `ObservationsAreKept`, `DecidedByOwner` and `AlertLifecycle` hold
  while the requests they speak of did not overlap; the first for the mappings that one
  listing returns, the next two while the campaigns fit one (`Crowded`).
- `SequenceIncreases` holds as long as two replicas do not take heartbeats at once and a
  receipt of the producer is retained to compare with; `RetentionIsKept` where neither
  that nor a handler that left receipts untrimmed came before.
- `OneEvaluator` holds while no run outlasted its lease and no lease expired between the
  GET that found its owner and the EXPIRE that extends it.
- `StaleIsAlerted` has `[]<>` of a live scheduler as a hypothesis: a store error can end
  each of them, and does in a scenario of its own.
- `LedgerIsListed`, `GivenUpIsFiled` and `IndexesAgree` hold while no handler died at the
  wrong place, `NewestAreRetained` for what requests that did not overlap removed.
- `NoRequestTwice` says that a request is carried out again only if its timestamp was at
  least `Ttl - Skew` ahead of the factory's clock when it was carried out before. With the
  defaults that is 300 s, the farthest that is accepted, at the very last second.
- `SnapshotIsReproducible` promises the recomputation from the fingerprint only where the
  ledger stood still and fitted one listing; otherwise that each match is explained by
  ledgers between the first reading and the digest.
- `OnlyBranchesTakeBack` holds for leads with at most `EventLimit` touchpoints.

`VerifiedCoversPlan` exempts nothing: a plan may be edited, mapped and overwritten while
its source is being read, and the evidence is compared with the plan again when it is
ingested.

### Fairness

`VideoPipeline!FairPipelineSpec` has weak fairness of `RunStep`, the next step of the one
coroutine that runs the job; httpx bounds its wait, so `RenderTimesOut` is part of it. The
renderer owes nothing and may hang for ever. `JobQueue!FairSpec` has weak fairness of
`WorkerStep`, the steps of a worker process that is up. Nothing in the code restarts a
dead worker, so `ReadInflight` is not fair, and `AcceptedJobsFinish` has `[]<>(pc #
"down")` as a hypothesis; an exception takes a job off the lists, so it has `[](~
escaped)` as the other. `ProviderHealth!Spec` has weak fairness of the steps of a
replica's scheduler, which wakes up by its interval as long as its task runs, and of the
expiry of the lease of a dead holder, which Redis guarantees; nothing starts a scheduler
again whose task has ended, so `StaleIsAlerted` has `[]<>` of a live task as a hypothesis;
heartbeats, deliveries, probes, acknowledgements, deaths and restarts are not fair. The
other Hub modules have no fairness and no liveness property: nothing in them retries by
itself.

## Findings

`last_touch`: report credits the last of `campaign_ids`, and these stand in the
order of their first touches (`hub/attribution.py:685`, `:854`): a campaign that
returns as the latest touch gets nothing under last_touch, the default model,
although `docs/PHASE_7_ATTRIBUTION_REVENUE_OS.md:102` promises it "100% credit to the
latest Campaign touch".

Further differences met while modelling. The models contain the behaviour, and
the properties above exempt it:

- The finally clause of the claim loop (`npd_worker/main.py:47`) removes the job from
  the processing list also when run_job raises; the restart finds nothing to recover.
- Two overlapping POSTs with one idempotency key create two jobs (`state.py:51`),
  against `docs/acceptance-tests.md:13`.
- A render the worker gave up can overwrite the video after it passed quality
  control (`pipeline.py:329`).
- Whole-record saves take a campaign out of a terminal status
  (`hub/campaigns.py:240`), against `docs/PHASE_6B_CAMPAIGN_OPERATING_SYSTEM.md:96`.
- POST transitions accepts the target approved from awaiting_approval, from any operator
  and with no plan decided (`hub/campaigns.py:473-488`, `hub/main.py:472`), against
  `docs/PHASE_6B_CAMPAIGN_OPERATING_SYSTEM.md:97-98`, where only an owner may approve or
  reject. TLC finds a violation of `ApprovedOnDecision` at once if the exception for
  `bypassed` campaigns is taken out of it.
- `_next_id` looks at the 1000 campaigns updated last (`hub/campaigns.py:116`,
  `hub/store.py:615-628`): with more of them, a create can take the id of one that is not
  listed and overwrite it.
- Nothing marks an action as being executed (`hub/orchestrator.py:248`), so an
  approved write can be sent twice.
- A failed write can be left out of approvals_required, in memory and in Redis. decide sets
  the status and then rebuilds the list (`hub/orchestrator.py:197-202`), execute sets
  the status and then appends (`:249-257`): if decide approves, an execution of that write
  runs and fails before decide goes on to the list, it is appended and taken out again;
  if decide has read the list before the append, it replaces it; if decide serialises the
  report between status and append, the copy in Redis has it that way. The write can still
  be decided, but nobody is asked.
- The status of a write is checked (`hub/tools.py:382`), and then the client is entered
  before it is sent (`:394`): a rejection answered in between does not stop it.
- The metadata compared as payload names the mappings of the moment
  (`hub/attribution.py:195`), so an event sent twice conflicts with itself after a
  further mapping of its campaign was registered, against
  `docs/PHASE_8_4_CAMPAIGN_IDENTITY_DATA_QUALITY.md:76`.
- run_once reads and saves its status outside its try
  (`hub/provider_health_scheduler.py:146`): one failing store call ends the scheduler of
  that replica until a restart. With a second replica the alert is still raised
  (`StaleIsAlerted`); the deployed `deploy/phase5/docker-compose.agent-hub.prod.yml` runs
  one process, and after such an error raises no alert of its own. A scenario of `health`
  has two such errors, which can end both schedulers; `StaleIsAlerted` fails in it without
  its hypothesis.
- The verifier of the bridge asks for Ttl >= Skew only (`hub/video_factory/auth.py:172`): a
  request whose timestamp is 300 s ahead, the most that is accepted, is accepted again 600 s
  later, when the claim of its nonce ends.
- A reconciliation is not always the "reproducible historical snapshot" of
  `docs/PHASE_7_ATTRIBUTION_REVENUE_OS.md:78-80`: the ledger is digested after the matches
  were made (`hub/attribution.py:712`), and only its newest 5000 touches are (`:660`), so
  the fingerprint may name a ledger from which other matches follow.
- A journey of more than 5000 touchpoints is replayed without its oldest
  (`hub/journeys.py:118`), and may fall back without a branch.
- Mappings beyond the newest 5000 are seen neither by a resolution nor by the check of a
  registration (`hub/attribution.py:110`, `:171`); of the webhook events the newest 1000
  are listed (`hub/video_factory/store.py:178-186`).
- A draft update replaces the mapped ads of an experiment that has observations
  (`hub/experiments.py:155`), against
  `docs/PHASE_8_EXPERIMENT_OPTIMIZATION_OS.md:334`; mapping a second experiment of a
  campaign changes the tracking of the first; a preview of an approved plan
  withdraws the approval without a word (`:177`); a decision names no version of
  the plan it decides (`:249`).
- A death between the receipt of an exhausted delivery and its dead letter loses the
  letter (`hub/delivery_observability.py:419`).
- Savers of reviews that overlap remove more than the retention asks for, a death
  between SET NX and ZADD leaves a review nobody lists, and the version summaries
  read the newest 1000 of 5000 retained reviews
  (`hub/nba_review_repository.py:83`, `:101`).

Smaller hazards without a property: the newest job runs first (`npd_worker/main.py:40`);
an edit after a partial approval leaves the approval standing (`hub/campaigns.py:254`);
after a restart two requests can each load the report (`hub/orchestrator.py:150`, loaded
once per restart in the model); a backfill that dies leaves half its batch
(`hub/attribution.py:624`), and a duplicate closes an issue that held a changed payload
(`:380`); a replica without the lease saves a status it read earlier
(`hub/provider_health_scheduler.py:83`); an export misses a write undone between its
passes (`hub/maintenance.py:181`).

## Proofs

The theorems hold for every value of the constants under the assumptions named
in the modules. Most are types of the constants and disjointness of names
(`KeyAssumption`, `BoundAssumption`, `FaultAssumption`, `ScopeAssumption`, `FlagAssumption`,
`ActionAssumption`, `EvidenceAssumption`, `DeliveryAssumption`, `BudgetAssumption`,
`HeartbeatAssumption`, `HealthAssumption`, `RetentionAssumption`, `SignalAssumption`,
`RepostAssumption`, `ExperimentAssumption`). The ones with more content:

- `WindowAssumption` (Ttl >= Skew) is what the constructor of the verifier asks; the
  clocks may differ by any `Ahead`.
- `ExperimentAssumption` also asks that at least one observation is kept and that the
  limit of the listing is a number; `RequestAssumption` of the reconciliation that a
  request holds at least one observation, as its request model does, and that the
  threads are finitely many.
- `TouchAssumption`: the order (occurred_at, event_id) is total, and the campaign of a
  touch is known. `ReportAssumption`: amounts are natural numbers, and `Scale` is a
  common multiple of 1 to the number of campaigns, so that no share is rounded before
  its row is; the factorial of that number is one.
- `ScenarioAssumption` of the sales model: an id names one touchpoint, and no claim of
  the Sales Hub ends at the very instant it is made (`ahead` is not 0). A claim is
  honest if it omits nothing that happened up to its watermark, and at that very instant
  more may still happen; a Sales Hub that claims the running instant would be
  escalated wrongly without having lied when it claimed. The code accepts such a claim,
  so this is a premise about its sender.

The prover cannot instantiate the library's induction principles, and it knows nothing
of a fold but its definition. `ReadModelProofs` therefore has its own section on
recursion over the subsets of a finite set: that such a function exists and is the
only one, by a minimal counterexample with respect to inclusion instead of an induction
principle, and `SubsetInduction` in terms of a set of subsets. On it rest the sums
(in whatever order, by rows or by columns) and the replay of a journey one event at a time.

- `VideoJobProofs`, the queue. The inductive invariant `Base` joins `TypeOK` with what the
  worker holds at each place (`WorkerInv`), which records a handler may rely on
  (`ApiInv`) and that a job once started is finished or on a list
  (`StartedInv`); `TypeOK` alone says nothing about a job between the two lists.
  From it follow the type theorem, `ProcessingIsWorkers` and
  `KeyBindingIsStable` (a key once bound is never bound to another job; proved, and
  in no run). `AcceptedSafe` adds that a job whose handler is past its
  creation is tracked unless an exception escaped. `SerialIdempotency` adds that,
  for a key that neither expired nor was shared by overlapping POSTs, every
  handler past its look-up agrees with the binding. `ImplementsLifecycle` shows
  that every step of `JobQueue` is a step or a stutter of `JobLifecycle`.
- `VideoJobProofs`, the pipeline. `Placed` ties each place of run_job to the artifact it
  is at, `RecordInv` says that a run works on an open record only, `Registered` that
  whatever a run has behind it is registered, by itself or an earlier run, and `OnDisk`
  that it is valid on disk, the video unless a render nobody waits for may still be
  writing. `ReviewableIsComplete` and `ReviewableIsServable` are not inductive without all
  four: what was registered before a restart must still count after it.
  `RecordForwardOnly` and `PipelineImplementsLifecycle` then need one lemma per mutation
  of `JobRecord` (`AdvanceRecord` and its like) and no case analysis of the pipeline's
  faults.
- `OwnerApprovalProofs`, campaigns. Handlers save whole records, so a stored record is
  always a copy some operation made of an earlier stored one: a predicate on
  single records (`Sound`) that every operation preserves holds of all stored
  records and all pending copies, whatever the interleaving (`Base`).
  `SerialLifecycle` adds that, as long as no request began while another was
  served (`Alone`), the copy of the one handler at work is a legal successor of what
  is stored (`InStep`). `Trail` adds for the audit that every campaign's trail tells
  its status unless the handler at work is about to append the event, which is what
  `AuditMatchesStatus` becomes between requests; `ConsistentHolds` collects these. They
  hold for any limit of the listing and any number of campaigns beside those modelled,
  fresh ids and the lifecycle as long as one listing holds them all. `ApprovalIsDecided` has
  no premise about POST transitions; it speaks of the campaigns that route did not approve.
- `OwnerApprovalProofs`, execution. `ReportsHold` has one part per fact about the report,
  the stored copy and every serialised one: their types (`Typed`), that an approved write
  was granted (`Grants`), what the history notes about failures and decisions that cross
  (`Noted`), and, with that, that the list of each holds the failed writes, whatever a
  decision has read of it (`Lists`). `Undisturbed` counts, as long as nothing overlapped,
  that sends stay behind approvals with one to spare while an approved write may still be
  sent. `Withdrawn` says that a write whose rejection was answered is not approved in the
  shared report, until the process is restarted, and that an execution which is about to
  send it is `late`. It is inductive only because an approval that another decider sets
  between a rejection and its answer takes the rejection back, which is why
  `execution_faults` has two deciders.
- `AttributionLedgerProofs`. `Base` adds to two safety invariants what a handler
  may rely on at each place (`Knows`): once past its append the event is in the
  ledger and stays there, so a stale copy of an issue may reopen but never wrongly close
  it. `ListedUnlessDeath` and `MappingsAgree` have invariants of their own
  for indexing and for the check of a registration.
- `AttributionDeliveryProofs`, in three layers, each inductive with those before it.
  `Base`: `Knows` says what a handler may rely on at each place; the receipt it carries
  belongs to its request and was true of ledger and issues when it was built, and
  since neither ever loses anything (`Grows`) it is true when it is saved and for
  ever after (`ReceiptsTellTruth`). `Race`: what a handler alone on its attempt has
  read is still so (`Carries`), every answer is backed by a stored receipt or letter,
  and without deaths an exhausted receipt is filed or its handler is about to file it
  (`ConsistentHolds`). `Single`: receipts, answers and handlers that claim to have
  inserted an event hold one receipt between them, and only for an event in the
  ledger; the one SET NX that finds no touchpoint makes it (`CountedOnce`).
  `NothingChanges` follows from the types alone, since every save is a SET NX.
- `VideoBoundaryProofs`. For the bridge, `Spent`: whenever a request was carried out
  (`handled`), its nonce was claimed for `Ttl` from then on; an arrival after that claim
  is timely only if the request was `Ttl - Skew` ahead when it was carried out
  (`CarriedOutOnce`); `Drafts` and `Granted`: table and drafts are
  one-to-one and every answered draft is the one bound to its key (`OneProjectPerKey`).
  For the receiver, `Knows` at each place, `OneInsertion` (one replica or one audit entry
  stands for the insertion of an event) and `Told` (an audit entry says how its
  webhook compares with the stored event), with which `AcknowledgedIsListed` is
  inductive (`AcknowledgedStays`).
- `ExperimentPlanningProofs`. As for campaigns, a predicate on single experiments
  (`Sound`) that every operation of the domain preserves holds of all stored ones and all
  copies, however requests overlap; it contains `ConclusionsRest`. While an experiment is
  not disturbed, the copy of its one request also `Follows` from what is stored: decisions
  are the owner's (`OwnerDecides`) and observations are kept in order or pushed out by
  newer ones. `Attached` says of every copy, disturbed or not, that its observations were
  answered before, but for one that it adds, which covers the plan in the copy if it is
  called verified (`VerifiedCovers`). `Fits` says what a handler relies on at each place,
  `Apart` that requests served together disturb their experiment, `Tracks` who may carry a
  mapping that the campaign has and the experiments do not. The operations on observations
  are treated by lemmas over sequences (`ObservedList`, `RemovedList`, `NewestIndex`),
  since the ids must stay in order for an evicted observation to be the oldest.
- `ProviderHealthProofs`. `Base == Types /\ Beats /\ Leased /\ Carried /\ Shown /\
  Settling /\ Held`, one part per mechanism; each holds until the history tells of the
  overlap that breaks it. `Beats`: listed receipts rise in time and sequence together, the
  newest of a producer has its peak, who counts or trims knows by how much the retention
  is exceeded, and who deletes holds the oldest as they are still listed. `Leased`: who is
  in the middle of a run holds the lease. `Shown`: of the probes on their way to the
  snapshot none is older than what is shown. `Settling`: an evaluation alone with its
  copies has made of the alerts it is done with what its conditions say. `Held`: copies of
  alerts are those stored. `ConsistentHolds`, `AlertsFollowTheirCycle` and
  `NothingEverGoesBack` follow. Two attempts failed for good reasons: the sequence of a
  producer may repeat once all its receipts were evicted by other producers, and a handler
  that dies between saving and trimming exceeds the retention until the next save; both
  properties and the model's history say so now.
- `ReadModelProofs`, the reconciliation. `SnapshotInv` says of a reconciliation in
  progress that each match it has is explained by ledgers between what its first listing
  saw and the ledger as it is, which only grows, and of stored records and copies alike
  (`Sound`) that their matches are explained by `seen` and `read`, that their fingerprint
  is the listing of `read`, that the gate they carry is that of their matches and that
  each match has the campaigns and issues its touches give it (`Fitting`). Where the
  ledger stood still and fits the listing, the only ledger between the two is the
  fingerprint. `SnapshotsAreReproducible` and `ReconciliationConsistentHolds` follow; what
  was seen has to begin with the first listing, also where a listing by lead follows it: a
  touch may arrive between the two, as the sixth touch of the runs does.
  `AcceptedReportsAddUp`: an accepted match has a campaign (`MatchedIsShareable`); the
  campaigns of a match stand apart, so each model gives away one whole credit
  (`CreditIsShared`); rows are near what they round (`RoundedIsNear`), and the sums by
  campaign and by observation exchange (`RowsAddUp`). It also showed that the guards of a
  CASE in `Credit` overlapped, which TLC resolves in their order and TLA+ does not.
- `ReadModelProofs`, the reviews. `StoreInv`: without a death, what exceeds the retention
  is on the list of a request that makes room (`MakesRoom`), and where requests do not
  overlap the listed reviews are the newest of all saved, but for the one that has just been
  indexed (`Newest`, `MakesRoomAlone`). `NewestReviewsAreRetained` and
  `ReviewIndexesAgree` follow.
- `ReadModelProofs`, journeys, scores and proofs. The replay is a recursion over the set
  of events, latest last (`LatestIs`), so what a late event changes is proved by following
  two replays side by side (`OnlyBranchesTakeJourneysBack`), and gaps and evidence one
  event at a time (`JourneysReportTheirGaps`, `JourneyStagesAreBacked`). A score is a sum
  of factors, to which the SLA adds one (`RequestsInv`). `WorldInv` says that an honest
  claim about a time that had passed stays true, `MissesInv` that a request which knows of
  a miss knows of a true one (`EscalationsAreTrue`, `SalesReviewsConsistent`).

For every component `ConsistentHolds` (`PipelineConsistentHolds`,
`ExecutionConsistentHolds`, `ReconciliationConsistentHolds`, `SalesReviewsConsistent`)
is among the theorems: the conjunction its runs check holds for every value of the
constants. Every invariant and every action property of the runs has a theorem.

Only model-checked: liveness (`RunEnds`, `AcceptedJobsFinish`, `StaleIsAlerted`), which is
beyond the prover, and the violation of `LastTouchIsLatest`, which is a counterexample.

## Plan

Done: every component above that keeps state of its own, except maintenance, and a
theorem for every safety property that a run checks. What would say more, in this order:

1. An append-only map as an abstract specification that the ledger and the receipts
   of deliveries refine, proved in the modules that exist for them.
2. A lease as an abstract specification that `ProviderHealth` refines: `Leased` is the
   invariant it needs.
3. Maintenance: an export that runs beside requests.

## Not modelled

Text, layout, prompts, HTML and wording; cryptographic signatures and cookies
(taken as valid for what they were made for); read-only HTTP clients; the
content of videos, plans and messages; agent rule tables; deployment files, n8n
workflows and scripts; Remotion components; the offline evaluations of phase 9;
the in-memory repository of reviews; export and restore, which run against a
quiesced source. They keep no state that a sequence of operations could corrupt,
or they are pure I/O. Of the modelled components: metric arithmetic of
experiments, retention of snapshots, the counters of the scheduler status, alert
conditions of the delivery queue (further keys of the same cycle), validation of
single fields, planning and answers of the orchestrator.
