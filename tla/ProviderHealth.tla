---------------------------- MODULE ProviderHealth ----------------------------
(***************************************************************************)
(* Provider health: deduplicated alerts about the conditions that a probe  *)
(* of the providers or the freshness of the required producer shows, and   *)
(* the scheduler that evaluates them.  Each replica runs the evaluation on *)
(* its event loop: the scheduler and forced runs hold a lease in Redis, a  *)
(* refresh awaits the probes first and holds none.  Operators acknowledge  *)
(* alerts on a thread pool.  Every Redis call that matters is a step.      *)
(*   source: services/agent_hub/npd_agent_hub/provider_health.py,          *)
(*           provider_health_scheduler.py, provider_health_models.py,      *)
(*           store.py, routers/provider_health.py, routers/delivery.py     *)
(***************************************************************************)
EXTENDS ProducerHeartbeat, Sequences

CONSTANTS
    Threads,      \* threads that serve acknowledgements
    Scenarios     \* settings and bounds of the environment; one is chosen for a behaviour

ASSUME HealthAssumption ==
    /\ Replicas \cap {"none", "lost"} = {}
    /\ Scenarios \subseteq
          [enabled : BOOLEAN, beats : Nat, elapses : Nat, deliveries : Nat, probes : Nat,
           forced : Nat, acks : Nat, expiries : Nat, deaths : Nat, errors : Nat]

VARIABLES
    limits,     \* AGENT_PROVIDER_HEALTH_SCHEDULER_ENABLED, and what may still happen
    alerts,     \* the alert stored under each dedupe key
    snapshot,   \* what the latest snapshot caches of the providers: a probe
    probes,     \* history: the results of the probes so far
    pending,    \* per replica, the probes whose refresh route is being awaited
    status,     \* the stored state of the scheduler (without its counters)
    lease,      \* the owner of the scheduler lease
    task,       \* per replica, whether _run_forever still runs
    pc, call,   \* where each event loop is, and its local variables
    ack         \* per thread, the acknowledgement it is working on

evidence == <<alerts, snapshot, probes, pending>>
schedule == <<status, lease, task>>
vars == <<beatVars, limits, evidence, schedule, pc, call, ack>>

-----------------------------------------------------------------------------
\* The dedupe keys of the conditions in scope; the provider is "crm".
Keys == {"probe_failed", "freshness_stale", "no_data"}

KeyOf == [failed |-> "probe_failed", stale |-> "freshness_stale", no_data |-> "no_data"]

\* _provider_observations: what a cached probe and the deliveries say.
Observations(probe) ==
    {Freshness(Required)}
        \cup (IF probe > 0 /\ probes[probe] = "failed" THEN {"failed"} ELSE {})

\* _condition_alerts: every observation but a good one is a condition.
Conditions(probe) == {KeyOf[o] : o \in Observations(probe) \ {"fresh"}}

AlertStates == {"none", "open", "acknowledged", "resolved"}
Active(k) == alerts[k] \in {"open", "acknowledged"}

SchedulerStates == {"idle", "running", "succeeded", "failed", "disabled"}

LoopStates == {"idle", "hb_save", "hb_count", "hb_trim", "hb_delete", "acquire", "extend", "skip",
               "begin", "observe", "snapshot", "list", "sync", "finish", "failing", "release",
               "delete"}

NoCall == [kind |-> "none"]
NewCall(kind) ==
    [kind |-> kind, beat |-> [id |-> "none"], at |-> 0, overflow |-> 0, expired |-> {},
     copy |-> "none", probe |-> 0, elders |-> {}, overtaken |-> FALSE,
     conditions |-> {}, listing |-> <<>>, todo |-> {}, alone |-> FALSE, crashed |-> FALSE]

Less(x) == limits[x] > 0 /\ limits' = [limits EXCEPT ![x] = @ - 1]
Goto(r, p) == pc' = [pc EXCEPT ![r] = p]
Note(kinds) == overlaps' = overlaps \cup kinds

\* The evaluations that took their time stamp and have not ended.
Evaluating == {r \in Replicas : pc[r] \in {"observe", "snapshot", "list", "sync"}}

\* Those who hold a copy of alerts that they will save.
Holders == {r \in Replicas : pc[r] = "sync"} \cup {t \in Threads : ack[t].step = "save"}

End(r) ==
    /\ Goto(r, "idle")
    /\ call' = [q \in Replicas |->
                   IF q = r THEN NoCall
                   ELSE IF call[q] = NoCall THEN NoCall
                   ELSE [call[q] EXCEPT !.elders = @ \ {r}]]

Init ==
    /\ BeatInit
    /\ limits \in Scenarios
    /\ alerts = [k \in Keys |-> "none"]
    /\ snapshot = 0 /\ probes = <<>>
    /\ pending = [r \in Replicas |-> {}]
    /\ status = IF limits.enabled THEN "idle" ELSE "disabled"
    /\ lease = "none"
    /\ task = [r \in Replicas |-> limits.enabled]
    /\ pc = [r \in Replicas |-> "idle"]
    /\ call = [r \in Replicas |-> NoCall]
    /\ ack = [t \in Threads |-> [step |-> "idle"]]

-----------------------------------------------------------------------------
(* Heartbeats: the route ingests one and then forces an evaluation.        *)
RunAgain(r, kind) ==
    /\ Goto(r, "acquire")
    /\ call' = [call EXCEPT ![r] = [NewCall(kind) EXCEPT !.copy = status]]

Heartbeat(r, b) ==
    /\ pc[r] = "idle" /\ Less("beats")
    /\ MayAccept(b)
    /\ clock' = clock + 1
    /\ Goto(r, "hb_save")
    /\ call' = [call EXCEPT ![r] = [NewCall("forced") EXCEPT !.beat = b, !.at = clock + 1]]
    /\ Note(IF \E q \in Replicas : pc[q] \in {"hb_save", "hb_count", "hb_trim", "hb_delete"}
            THEN {"loops"} ELSE {})
    /\ UNCHANGED <<beats, delivered, horizon, peak, evidence, schedule, ack>>

SaveBeat(r) ==
    /\ pc[r] = "hb_save"
    /\ StoreBeat(call[r].beat, call[r].at)
    /\ Goto(r, "hb_count")
    /\ UNCHANGED <<delivered, clock, horizon, overlaps, limits, evidence, schedule, call, ack>>

\* The receipt that another replica saved meanwhile under the id is found: "heartbeat
\* receipt is immutable".
RefuseBeat(r) ==
    /\ pc[r] = "hb_save" /\ beats[call[r].beat.id] # NoReceipt
    /\ End(r)
    /\ UNCHANGED <<beatVars, limits, evidence, schedule, ack>>

CountBeats(r) ==
    /\ pc[r] = "hb_count"
    /\ IF Overflow = 0
       THEN RunAgain(r, "forced")
       ELSE Goto(r, "hb_trim") /\ call' = [call EXCEPT ![r].overflow = Overflow]
    /\ UNCHANGED <<beatVars, limits, evidence, schedule, ack>>

\* The oldest are listed in one call ...
ListExpired(r) ==
    /\ pc[r] = "hb_trim"
    /\ Goto(r, "hb_delete")
    /\ call' = [call EXCEPT ![r].expired = Oldest(call[r].overflow)]
    /\ UNCHANGED <<beatVars, limits, evidence, schedule, ack>>

\* ... and deleted in the next.
TrimBeats(r) ==
    /\ pc[r] = "hb_delete"
    /\ Evict(call[r].expired)
    /\ overlaps' = overlaps \ {"trimming"}
    /\ RunAgain(r, "forced")
    /\ UNCHANGED <<delivered, clock, horizon, peak, limits, evidence, schedule, ack>>

-----------------------------------------------------------------------------
(* run_once: the status is read first; the lease decides.                  *)
ScheduledRun(r) ==
    /\ task[r] /\ pc[r] = "idle"
    /\ RunAgain(r, "scheduled")
    /\ UNCHANGED <<beatVars, limits, evidence, schedule, ack>>

ForcedRun(r) ==
    /\ pc[r] = "idle" /\ Less("forced")
    /\ RunAgain(r, "forced")
    /\ UNCHANGED <<beatVars, evidence, schedule, ack>>

\* Mutated form: a lease that is held is taken over.
AcquireAnyway(r) ==
    /\ pc[r] = "acquire"
    /\ lease' = r /\ Goto(r, "begin")
    /\ UNCHANGED <<beatVars, limits, evidence, status, task, call, ack>>

\* The worker that still holds the lease will extend it; the others try SET NX EX.
Acquire(r) ==
    /\ pc[r] = "acquire"
    /\ \/ lease = r /\ Goto(r, "extend") /\ UNCHANGED <<lease, call>>
       \/ /\ lease = "none"
          /\ lease' = r /\ Goto(r, "begin") /\ call' = [call EXCEPT ![r].copy = "none"]
       \/ lease \notin {"none", r} /\ Goto(r, "skip") /\ UNCHANGED <<lease, call>>
    /\ UNCHANGED <<beatVars, limits, evidence, status, task, ack>>

\* EXPIRE extends the lease, if there still is one, whoever holds it by now.
Extend(r) ==
    /\ pc[r] = "extend"
    /\ Goto(r, "begin") /\ call' = [call EXCEPT ![r].copy = "none"]
    /\ Note(IF lease # r THEN {"lease"} ELSE {})
    /\ UNCHANGED <<beats, delivered, clock, horizon, peak, limits, evidence, schedule, ack>>

\* save_provider_health_scheduler_status: the last copy that is saved stays.
SaveStatus(s) == status' = s

\* A copy of the status, read before the lease was tried, counts the skip and is saved.
Skip(r) ==
    /\ pc[r] = "skip"
    /\ SaveStatus(call[r].copy)
    /\ End(r)
    /\ UNCHANGED <<beatVars, limits, evidence, lease, task, ack>>

\* The evaluation takes its time stamp after those that are still at work.
BeginObserving(r, kind, probe) ==
    /\ Goto(r, "observe")
    /\ call' = [call EXCEPT ![r] = [NewCall(kind) EXCEPT !.probe = probe, !.elders = Evaluating]]

Begin(r) ==
    /\ pc[r] = "begin"
    /\ SaveStatus("running")
    /\ BeginObserving(r, call[r].kind, 0)
    /\ UNCHANGED <<beatVars, limits, evidence, lease, task, ack>>

-----------------------------------------------------------------------------
(* refresh: the probes are awaited, then the rest is one synchronous run.  *)
Probe(r, result) ==
    /\ Less("probes")
    /\ probes' = Append(probes, result)
    /\ pending' = [pending EXCEPT ![r] = @ \cup {Len(probes) + 1}]
    /\ UNCHANGED <<beatVars, alerts, snapshot, schedule, pc, call, ack>>

Refresh(r) ==
    /\ pc[r] = "idle"
    /\ \E n \in pending[r] :
          /\ pending' = [pending EXCEPT ![r] = @ \ {n}]
          /\ BeginObserving(r, "refresh", n)
          /\ Note(IF n < Len(probes) THEN {"snapshots"} ELSE {})
    /\ UNCHANGED <<beats, delivered, clock, horizon, peak, limits, alerts, snapshot, probes,
                   schedule, ack>>

-----------------------------------------------------------------------------
(* evaluate_cached, refresh and _commit_snapshot.                          *)

\* The latest snapshot and the status of the deliveries are read.
Observe(r) ==
    /\ pc[r] = "observe"
    /\ LET probe == IF call[r].kind = "refresh" THEN call[r].probe ELSE snapshot
       IN call' = [call EXCEPT ![r].probe = probe, ![r].conditions = Conditions(probe)]
    /\ Goto(r, "snapshot")
    /\ Note(IF Evaluating # {r} THEN {"snapshots"} ELSE {})
    /\ UNCHANGED <<beats, delivered, clock, horizon, peak, limits, evidence, schedule, ack>>

\* Mutated form: a scheduled evaluation forgets what the last refresh probed.
SaveSnapshotAfresh(r) ==
    /\ pc[r] = "snapshot"
    /\ snapshot' = IF call[r].kind = "refresh" THEN call[r].probe ELSE 0
    /\ Goto(r, "list")
    /\ UNCHANGED <<beatVars, limits, alerts, probes, pending, schedule, call, ack>>

\* save_provider_health_snapshot: readers take the snapshot of the latest time
\* stamp, not the one saved last; the retention never drops the one just saved.
IndexSnapshot(r) == snapshot' = IF call[r].overtaken THEN snapshot ELSE call[r].probe

SaveSnapshot(r) ==
    /\ pc[r] = "snapshot"
    /\ IndexSnapshot(r)
    /\ Goto(r, "list")
    /\ call' = [q \in Replicas |->
          IF q = r THEN [call[r] EXCEPT !.elders = {}, !.overtaken = FALSE, !.probe = 0]
          ELSE IF q \in call[r].elders
               THEN [call[q] EXCEPT !.overtaken = pc[q] \in {"observe", "snapshot"}]
               ELSE call[q]]
    /\ UNCHANGED <<beatVars, limits, alerts, probes, pending, schedule, ack>>

\* _sync_alerts lists the alerts once ...
ListAlerts(r) ==
    /\ pc[r] = "list"
    /\ Goto(r, "sync")
    /\ call' = [q \in Replicas |->
          IF q = r
          THEN [call[q] EXCEPT !.listing = alerts, !.alone = (Holders = {}),
                               !.todo = call[r].conditions \cup {k \in Keys : Active(k)}]
          ELSE IF pc[q] = "sync" THEN [call[q] EXCEPT !.alone = FALSE] ELSE call[q]]
    /\ Note(IF Holders # {} THEN {"alerts"} ELSE {})
    /\ UNCHANGED <<beats, delivered, clock, horizon, peak, limits, evidence, schedule, ack>>

\* Mutated form: an alert that was resolved once is left as it is.
SyncedWithoutReopening(a, holds) ==
    IF ~ holds THEN "resolved" ELSE IF a = "none" THEN "open" ELSE a

\* Mutated form: an alert whose condition holds is opened, whatever it was.
SyncedAsOpen(a, holds) == IF ~ holds THEN "resolved" ELSE "open"

\* ... and makes of the copy of each an open, a reopened, a refreshed or a
\* resolved alert.
Synced(a, holds) ==
    IF ~ holds THEN "resolved" ELSE IF a \in {"none", "resolved"} THEN "open" ELSE a

\* One save per alert, those whose condition holds before those to resolve.
SyncAlert(r) ==
    LET c == call[r]
    IN /\ pc[r] = "sync"
       /\ \E k \in c.todo :
             /\ k \notin c.conditions => c.todo \cap c.conditions = {}
             /\ alerts' = [alerts EXCEPT ![k] = Synced(c.listing[k], k \in c.conditions)]
             /\ call' = [call EXCEPT ![r].todo = @ \ {k}]
       /\ UNCHANGED <<beatVars, limits, snapshot, probes, pending, schedule, pc, ack>>

\* The evaluation ends; a scheduled or forced run still has its status to save.
SyncDone(r) ==
    /\ pc[r] = "sync" /\ call[r].todo = {}
    /\ IF call[r].kind = "refresh" THEN End(r)
       ELSE Goto(r, "finish") /\ call' = [call EXCEPT ![r] = NewCall(call[r].kind)]
    /\ UNCHANGED <<beatVars, limits, evidence, schedule, ack>>

-----------------------------------------------------------------------------
(* The end of run_once.                                                    *)
\* Mutated form: the kind of the run is saved for its outcome.
FinishAsKind(r) ==
    /\ pc[r] \in {"finish", "failing"}
    /\ SaveStatus(call[r].kind)
    /\ Goto(r, "release")
    /\ UNCHANGED <<beatVars, limits, evidence, lease, task, call, ack>>

Finish(r) ==
    /\ pc[r] \in {"finish", "failing"}
    /\ SaveStatus(IF pc[r] = "finish" THEN "succeeded" ELSE "failed")
    /\ Goto(r, "release")
    /\ UNCHANGED <<beatVars, limits, evidence, lease, task, call, ack>>

\* An exception that run_once lets through ends the loop of the scheduler.
Leave(r) ==
    /\ End(r)
    /\ task' = [task EXCEPT ![r] = @ /\ ~ (call[r].crashed /\ call[r].kind = "scheduled")]

\* release: the owner is compared in one call ...
Release(r) ==
    /\ pc[r] = "release"
    /\ IF lease = r THEN Goto(r, "delete") /\ UNCHANGED <<call, task>> ELSE Leave(r)
    /\ UNCHANGED <<beatVars, limits, evidence, status, lease, ack>>

\* ... and the lease, whoever holds it by now, deleted in the next.
DeleteLease(r) ==
    /\ pc[r] = "delete"
    /\ lease' = "none"
    /\ Leave(r)
    /\ Note(IF lease # r THEN {"lease"} ELSE {})
    /\ UNCHANGED <<beats, delivered, clock, horizon, peak, limits, evidence, status, ack>>

-----------------------------------------------------------------------------
(* Acknowledgements: the route reads the alert, the service reads it again.  *)
AckRoute(t, k) ==
    /\ ack[t].step = "idle" /\ Less("acks")
    /\ alerts[k] = "open"
    /\ ack' = [ack EXCEPT ![t] = [step |-> "get", key |-> k]]
    /\ UNCHANGED <<beatVars, evidence, schedule, pc, call>>

AckGet(t) ==
    /\ ack[t].step = "get"
    /\ IF alerts[ack[t].key] = "open"
       THEN /\ ack' = [ack EXCEPT ![t].step = "save"]
            /\ call' = [r \in Replicas |-> IF pc[r] = "sync"
                                           THEN [call[r] EXCEPT !.alone = FALSE] ELSE call[r]]
            /\ Note(IF Holders # {} THEN {"alerts"} ELSE {})
       ELSE ack' = [ack EXCEPT ![t] = [step |-> "idle"]] /\ UNCHANGED <<call, overlaps>>
    /\ UNCHANGED <<beats, delivered, clock, horizon, peak, limits, evidence, schedule, pc>>

AckSave(t) ==
    /\ ack[t].step = "save"
    /\ alerts' = [alerts EXCEPT ![ack[t].key] = "acknowledged"]
    /\ ack' = [ack EXCEPT ![t] = [step |-> "idle"]]
    /\ UNCHANGED <<beatVars, limits, snapshot, probes, pending, schedule, pc, call>>

-----------------------------------------------------------------------------
(* Faults.                                                                 *)
MidRun(r) == pc[r] \in {"begin", "observe", "snapshot", "list", "sync", "finish", "failing",
                        "release", "delete"}
             /\ call[r].kind # "refresh"

\* Mutated form: SET NX without EX.
LeaseStays ==
    /\ lease # "none" /\ \A r \in Replicas : lease = r => ~ MidRun(r)
    /\ UNCHANGED vars

\* The time to live of a lease whose owner is gone, or never released it.
LeaseExpires ==
    /\ lease # "none" /\ \A r \in Replicas : lease = r => ~ MidRun(r)
    /\ lease' = "none"
    /\ UNCHANGED <<beatVars, limits, evidence, status, task, pc, call, ack>>

\* A run outlasts the two intervals that the lease was taken for.
LeaseExpiresEarly ==
    /\ Less("expiries")
    /\ \E r \in Replicas : lease = r /\ MidRun(r)
    /\ lease' = "none" /\ Note({"lease"})
    /\ UNCHANGED <<beats, delivered, clock, horizon, peak, evidence, status, task, pc, call, ack>>

\* What a handler of heartbeats leaves behind that goes no further.
LeavesUntrimmed(r) ==
    Note(IF pc[r] \in {"hb_count", "hb_trim", "hb_delete"} /\ Overflow > 0 THEN {"trimming"} ELSE {})

\* A Redis call raises: inside the try it is a failed run, the save of the success
\* included, in its handler the lease is still released, elsewhere the exception
\* goes through, and ends the loop of the scheduler.
StoreError(r) ==
    /\ pc[r] # "idle" /\ Less("errors")
    /\ \/ /\ pc[r] \in {"observe", "snapshot", "list", "sync", "finish"}
          /\ call[r].kind # "refresh"
          /\ Goto(r, "failing") /\ UNCHANGED <<call, task>>
       \/ /\ pc[r] = "failing"
          /\ Goto(r, "release") /\ call' = [call EXCEPT ![r].crashed = TRUE] /\ UNCHANGED task
       \/ /\ pc[r] \notin {"finish", "failing"}
          /\ pc[r] \in {"observe", "snapshot", "list", "sync"} => call[r].kind = "refresh"
          /\ End(r)
          /\ task' = [task EXCEPT ![r] = @ /\ call[r].kind # "scheduled"]
    /\ LeavesUntrimmed(r)
    /\ UNCHANGED <<beats, delivered, clock, horizon, peak, evidence, status, lease, ack>>

\* The process dies and its container is started again, with another worker id.
ReplicaDies(r) ==
    /\ Less("deaths")
    /\ End(r)
    /\ LeavesUntrimmed(r)
    /\ pending' = [pending EXCEPT ![r] = {}]
    /\ lease' = IF lease = r THEN "lost" ELSE lease
    /\ task' = [task EXCEPT ![r] = limits.enabled]
    /\ UNCHANGED <<beats, delivered, clock, horizon, peak, alerts, snapshot, probes, status, ack>>

-----------------------------------------------------------------------------
Environment ==
    /\ \/ Less("deliveries") /\ Deliver(Required)
       \/ Less("elapses") /\ Elapse
    /\ UNCHANGED <<evidence, schedule, pc, call, ack>>

Request(r) ==
    \/ \E b \in Heartbeats : Heartbeat(r, b)
    \/ \E result \in {"available", "failed"} : Probe(r, result)
    \/ ForcedRun(r)

Step(r) ==
    \/ SaveBeat(r) \/ RefuseBeat(r) \/ CountBeats(r) \/ ListExpired(r) \/ TrimBeats(r)
    \/ Acquire(r) \/ Extend(r) \/ Skip(r) \/ Begin(r) \/ Refresh(r)
    \/ Observe(r) \/ SaveSnapshot(r) \/ ListAlerts(r) \/ SyncAlert(r) \/ SyncDone(r)
    \/ Finish(r) \/ Release(r) \/ DeleteLease(r)

Acknowledge(t) == (\E k \in Keys : AckRoute(t, k)) \/ AckGet(t) \/ AckSave(t)

Next ==
    \/ \E r \in Replicas : Request(r) \/ Step(r) \/ ScheduledRun(r) \/ StoreError(r) \/ ReplicaDies(r)
    \/ \E t \in Threads : Acknowledge(t)
    \/ LeaseExpires \/ LeaseExpiresEarly \/ Environment

\* Loops that are started go on, the timer of a scheduler that still runs comes
\* round, and a lease that nobody extends expires.
Fairness ==
    /\ \A r \in Replicas : WF_vars(Step(r)) /\ WF_vars(ScheduledRun(r))
    /\ WF_vars(LeaseExpires)

Spec == Init /\ [][Next]_vars /\ Fairness

-----------------------------------------------------------------------------
(* Properties.                                                             *)
TypeOK ==
    /\ BeatTypeOK
    /\ alerts \in [Keys -> AlertStates]
    /\ snapshot \in 0..Len(probes)
    /\ pending \in [Replicas -> SUBSET (1..Len(probes))]
    /\ status \in SchedulerStates
    /\ lease \in Replicas \cup {"none", "lost"}
    /\ task \in [Replicas -> BOOLEAN]
    /\ pc \in [Replicas -> LoopStates]

\* Where heartbeats are not taken by two replicas at once, a producer's sequence
\* only grows, over everything it sent since one of its receipts is retained to
\* compare with, those that were evicted since included.
SequenceIncreases ==
    [][\A b \in BeatIds :
          beats[b] = NoReceipt /\ beats'[b] # NoReceipt =>
              \/ beats'[b].sequence > peak[beats'[b].producer]
              \/ ListedOf(beats'[b].producer) = {}
              \/ "loops" \in overlaps]_vars

\* Receipts never exceed the retention for longer than the save that trims them; what
\* a handler that failed or died before that left too many, the next save trims too.
RetentionIsKept ==
    overlaps \cap {"loops", "trimming"} = {} =>
        \/ Cardinality(Listed) <= Retention
        \/ \E r \in Replicas : pc[r] \in {"hb_count", "hb_trim", "hb_delete"}

\* "A Redis lease prevents duplicate evaluation when more than one Agent Hub process
\* is present" (docs/PHASE_8_8_HEARTBEAT_SCHEDULED_HEALTH.md), unless a run
\* outlasts its lease or a lease that is about to be extended expires before that.
OneEvaluator ==
    "lease" \notin overlaps => Cardinality({r \in Replicas : MidRun(r)}) <= 1

\* An evaluation that no other copy of an alert overlapped leaves exactly the alerts
\* of its conditions active, whatever earlier overlaps, crashes and lost
\* acknowledgements made of them.
EvaluationSettlesAlerts ==
    \A r \in Replicas :
        pc[r] = "sync" /\ call[r].todo = {} /\ call[r].alone =>
            {k \in Keys : Active(k)} = call[r].conditions

\* Without overlapping copies an alert opens once per incident and goes through
\* acknowledgement and resolution in order, across any number of evaluations.
AlertLifecycle ==
    [][\A k \in Keys :
          LET old == alerts[k]  new == alerts'[k]
          IN old # new /\ "alerts" \notin overlaps' =>
                \/ new = "open" /\ old \in {"none", "resolved"}
                \/ new = "acknowledged" /\ old = "open"
                \/ new = "resolved" /\ old \in {"open", "acknowledged"}]_vars

\* Unless evaluations or refreshes overlapped, what the hub shows of the providers
\* never goes back to an older probe: scheduled evaluations carry it along.
ProbeNeverGoesBack ==
    [][snapshot' >= snapshot \/ "snapshots" \in overlaps']_vars

\* "The scheduler runs inside Agent Hub so a stopped n8n container cannot suppress
\* stale detection" (docs/PHASE_8_8_HEARTBEAT_SCHEDULED_HEALTH.md): the stale alert
\* ends up active exactly if the required producer is stale, where the scheduler is
\* on and its loop runs in some replica at least.  An error that run_once lets
\* through ends the loop of its replica for good, which in a deployment of one
\* replica leaves none.
StaleIsAlerted ==
    limits.enabled /\ []<>(\E r \in Replicas : task[r]) =>
        <>[](Active("freshness_stale") <=> Freshness(Required) = "stale")

\* Neither the sequence of a producer nor the probe that is shown goes back.
NothingGoesBack == SequenceIncreases /\ ProbeNeverGoesBack

\* Every state is well typed, receipts are bounded, there is one evaluator, and what
\* it leaves behind are the alerts of the conditions it saw.
Consistent ==
    /\ TypeOK
    /\ RetentionIsKept
    /\ OneEvaluator
    /\ EvaluationSettlesAlerts
=============================================================================
