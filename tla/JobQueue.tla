------------------------------ MODULE JobQueue ------------------------------
(***************************************************************************)
(* How a video job travels from the client to the worker: concurrent       *)
(* POST /api/v1/video-jobs handlers create and enqueue it in Redis, and    *)
(* the single worker moves it from the queue to the processing list, runs  *)
(* it and removes it, or dies on the way and recovers it when it restarts. *)
(* Each await of a handler is a step of its own.  run_job is reduced here  *)
(* to what it does to the stage of the job; VideoPipeline has its detail.  *)
(*   source: apps/api/app/main.py, apps/api/app/state.py,                  *)
(*           services/worker/npd_worker/main.py                            *)
(* new_job_id never repeats, so a POST and the id it mints are one value:  *)
(* Jobs is the set of both.                                                *)
(***************************************************************************)
EXTENDS JobRecord, Sequences, FiniteSets, SequencesExt

CONSTANTS
    Jobs,           \* POST requests, and the job ids they mint
    Keys,           \* Idempotency-Key values
    KeyOf,          \* the key a POST carries, or NoKey
    MaxStops        \* bound: ends of the worker process, by a crash or an exception

NoKey == "no_key"
NoJob == "no_job"
Absent == "absent"

ASSUME KeyAssumption ==
    /\ KeyOf \in [Jobs -> Keys \cup {NoKey}] /\ NoKey \notin Keys
    /\ NoJob \notin Jobs
ASSUME BoundAssumption == MaxStops \in Nat

VARIABLES
    stage,       \* stage of each job record, or Absent
    idem,        \* npd:video-idempotency:{key}
    queue,       \* npd:video-jobs:queue
    processing,  \* npd:video-jobs:processing
    api, answer, \* where each POST is, and the job it answers with
    pc, job,     \* where the worker is, and the job it claimed
    inflight,    \* what recover_inflight read from the processing list
    stops,       \* worker processes that crashed or raised so far
    escaped,     \* history: an exception has left run_job
    expired,     \* history: keys whose 24 hours passed
    overlapped   \* history: keys that two POSTs used at once

redis  == <<stage, idem, queue, processing>>
client == <<api, answer>>
worker == <<pc, job, inflight>>
bounds == <<stops, escaped, expired, overlapped>>
vars   == <<redis, client, worker, bounds>>

-----------------------------------------------------------------------------
ApiStates == {"new", "fetch", "create", "bind", "enqueue", "answered", "died"}
WorkerStates == {"down", "recover", "poll", "running", "failing", "release", "raised"}
Working  == JobStage \ {"queued", "awaiting_review", "failed"}
Finished == {"awaiting_review", "failed"}

TypeOK ==
    /\ stage \in [Jobs -> JobStage \cup {Absent}]
    /\ idem \in [Keys -> Jobs \cup {NoJob}]
    /\ queue \in Seq(Jobs) /\ processing \in Seq(Jobs)
    /\ api \in [Jobs -> ApiStates]
    /\ answer \in [Jobs -> Jobs \cup {NoJob}]
    /\ pc \in WorkerStates
    /\ job \in Jobs \cup {NoJob}
    /\ inflight \in Seq(Jobs)
    /\ stops \in 0..MaxStops /\ escaped \in BOOLEAN
    /\ expired \subseteq Keys /\ overlapped \subseteq Keys

Init ==
    /\ stage = [j \in Jobs |-> Absent]
    /\ idem = [k \in Keys |-> NoJob]
    /\ queue = <<>> /\ processing = <<>>
    /\ api = [j \in Jobs |-> "new"]
    /\ answer = [j \in Jobs |-> NoJob]
    /\ pc = "down" /\ job = NoJob /\ inflight = <<>>
    /\ stops = 0 /\ escaped = FALSE
    /\ expired = {} /\ overlapped = {}

-----------------------------------------------------------------------------
(* POST /api/v1/video-jobs: create_video_job, RedisJobStore.create, enqueue. *)
ApiGoto(j, p) == api' = [api EXCEPT ![j] = p]

MidFlight(j) == api[j] \notin {"new", "answered", "died"}

\* Mutated form: the key is never looked up.
LookUpNothing(j) ==
    /\ api[j] = "new"
    /\ ApiGoto(j, "create")
    /\ UNCHANGED <<redis, answer, worker, bounds>>

\* GET of the idempotency key.
LookUpKey(j) ==
    /\ api[j] = "new"
    /\ LET bound == IF KeyOf[j] = NoKey THEN NoJob ELSE idem[KeyOf[j]]
       IN /\ ApiGoto(j, IF bound = NoJob THEN "create" ELSE "fetch")
          /\ answer' = [answer EXCEPT ![j] = bound]
    /\ overlapped' = IF \E i \in Jobs \ {j} : KeyOf[i] = KeyOf[j] /\ MidFlight(i)
                     THEN overlapped \cup ({KeyOf[j]} \cap Keys) ELSE overlapped
    /\ UNCHANGED <<redis, worker, stops, escaped, expired>>

\* Mutated form: an existing job is answered without enqueueing it.
FetchWithoutEnqueue(j) ==
    /\ api[j] = "fetch"
    /\ ApiGoto(j, "answered")
    /\ UNCHANGED <<redis, answer, worker, bounds>>

\* GET of the record the key names; only a job still queued is enqueued again.
FetchExisting(j) ==
    /\ api[j] = "fetch"
    /\ ApiGoto(j, IF stage[answer[j]] = "queued" THEN "enqueue" ELSE "answered")
    /\ UNCHANGED <<redis, answer, worker, bounds>>

\* SET NX of the new record.
CreateJob(j) ==
    /\ api[j] = "create"
    /\ stage' = [stage EXCEPT ![j] = "queued"]
    /\ answer' = [answer EXCEPT ![j] = j]
    /\ ApiGoto(j, IF KeyOf[j] = NoKey THEN "enqueue" ELSE "bind")
    /\ UNCHANGED <<idem, queue, processing, worker, bounds>>

\* SET NX of the key: the handler goes on with its own record whether or not it won.
BindKey(j) ==
    /\ api[j] = "bind"
    /\ idem' = [idem EXCEPT ![KeyOf[j]] = IF @ = NoJob THEN j ELSE @]
    /\ ApiGoto(j, "enqueue")
    /\ UNCHANGED <<stage, queue, processing, answer, worker, bounds>>

\* Mutated form: the key is pushed instead of the job id.
EnqueueKey(j) ==
    /\ api[j] = "enqueue"
    /\ queue' = Append(queue, KeyOf[j])
    /\ ApiGoto(j, "answered")
    /\ UNCHANGED <<stage, idem, processing, answer, worker, bounds>>

EnqueueJob(j) ==
    /\ api[j] = "enqueue"
    /\ queue' = Append(queue, answer[j])
    /\ ApiGoto(j, "answered")
    /\ UNCHANGED <<stage, idem, processing, answer, worker, bounds>>

\* The API process dies, or a Redis call raises, between two awaits.
HandlerDies(j) ==
    /\ MidFlight(j)
    /\ ApiGoto(j, "died") /\ answer' = [answer EXCEPT ![j] = NoJob]
    /\ UNCHANGED <<redis, worker, bounds>>

ExpireKey(k) ==
    /\ idem[k] # NoJob
    /\ idem' = [idem EXCEPT ![k] = NoJob]
    /\ expired' = expired \cup {k}
    /\ UNCHANGED <<stage, queue, processing, client, worker, stops, escaped, overlapped>>

-----------------------------------------------------------------------------
(* The worker: recover_inflight, then the claim loop of main. *)
ReadInflight ==
    /\ pc = "down"
    /\ inflight' = processing
    /\ pc' = IF processing = <<>> THEN "poll" ELSE "recover"
    /\ UNCHANGED <<redis, client, job, bounds>>

\* Mutated form: the processing list is deleted and nothing is pushed.
RequeueLost ==
    /\ pc = "recover"
    /\ processing' = <<>>
    /\ pc' = "poll" /\ inflight' = <<>>
    /\ UNCHANGED <<stage, idem, queue, client, job, bounds>>

\* MULTI: DEL processing, RPUSH queue.
RequeueInflight ==
    /\ pc = "recover"
    /\ processing' = <<>> /\ queue' = queue \o inflight
    /\ pc' = "poll" /\ inflight' = <<>>
    /\ UNCHANGED <<stage, idem, client, job, bounds>>

\* BRPOPLPUSH: from the tail of the queue, where jobs are pushed, to the head of processing.
Claim ==
    /\ pc = "poll" /\ queue # <<>>
    /\ job' = Last(queue)
    /\ queue' = Front(queue)
    /\ processing' = <<Last(queue)>> \o processing
    /\ pc' = "running"
    /\ UNCHANGED <<stage, idem, client, inflight, bounds>>

WorkerGoto(p) == pc' = p /\ UNCHANGED <<job, inflight>>

SkipFinished ==
    /\ pc = "running" /\ stage[job] \in Finished
    /\ WorkerGoto("release")
    /\ UNCHANGED <<redis, client, bounds>>

\* Mutated form: the guard of advance is dropped.
RunAdvancesAnywhere ==
    /\ pc = "running" /\ stage[job] \in Working \cup {"queued"}
    /\ \E s \in Working : stage' = [stage EXCEPT ![job] = s]
    /\ UNCHANGED <<idem, queue, processing, client, worker, bounds>>

RunAdvances ==
    /\ pc = "running" /\ stage[job] \in Working \cup {"queued"}
    /\ \E s \in Working :
          /\ STAGE_ORDER[s] > STAGE_ORDER[stage[job]]
          /\ stage' = [stage EXCEPT ![job] = s]
    /\ UNCHANGED <<idem, queue, processing, client, worker, bounds>>

\* The last update_stage; when its reply is lost, run_job goes on to fail the job.
RunCompletes ==
    /\ pc = "running" /\ stage[job] = "quality_check"
    /\ stage' = [stage EXCEPT ![job] = "awaiting_review"]
    /\ \E p \in {"release", "failing"} : WorkerGoto(p)
    /\ UNCHANGED <<idem, queue, processing, client, bounds>>

RunFails ==
    /\ \/ pc = "running" /\ stage[job] \in Working \cup {"queued"}
       \/ pc = "failing"
    /\ stage' = [stage EXCEPT ![job] = "failed"]
    /\ WorkerGoto("release")
    /\ UNCHANGED <<idem, queue, processing, client, bounds>>

\* get_tts_provider, mkdir, the first GET or store.fail raises out of run_job.
RunRaises ==
    /\ pc \in {"running", "failing"}
    /\ stops < MaxStops
    /\ stops' = stops + 1 /\ escaped' = TRUE
    /\ WorkerGoto("raised")
    /\ UNCHANGED <<redis, client, expired, overlapped>>

\* LREM key 1 e: the first occurrence, counted from the head.
LRem(list, e) ==
    IF e \in ToSet(list) THEN RemoveAt(list, Min({i \in DOMAIN list : list[i] = e})) ELSE list

\* Mutated form: no LREM.
ReleaseWithoutRemoval ==
    /\ pc \in {"release", "raised"}
    /\ job' = NoJob
    /\ pc' = IF pc = "release" THEN "poll" ELSE "down"
    /\ UNCHANGED <<redis, client, inflight, bounds>>

\* LREM in the finally clause: after an exception the process ends with it.
Release ==
    /\ pc \in {"release", "raised"}
    /\ processing' = LRem(processing, job)
    /\ job' = NoJob
    /\ pc' = IF pc = "release" THEN "poll" ELSE "down"
    /\ UNCHANGED <<stage, idem, queue, client, inflight, bounds>>

WorkerCrash ==
    /\ pc # "down"
    /\ stops < MaxStops
    /\ stops' = stops + 1
    /\ pc' = "down" /\ job' = NoJob /\ inflight' = <<>>
    /\ UNCHANGED <<redis, client, escaped, expired, overlapped>>

-----------------------------------------------------------------------------
ApiStep(j) ==
    LookUpKey(j) \/ FetchExisting(j) \/ CreateJob(j) \/ BindKey(j)
    \/ EnqueueJob(j) \/ HandlerDies(j)

\* The steps of a worker process that is up.
WorkerStep ==
    RequeueInflight \/ Claim \/ SkipFinished \/ RunAdvances \/ RunCompletes
    \/ RunFails \/ RunRaises \/ Release

Next ==
    \/ \E j \in Jobs : ApiStep(j)
    \/ \E k \in Keys : ExpireKey(k)
    \/ ReadInflight \/ WorkerStep \/ WorkerCrash

Spec == Init /\ [][Next]_vars

\* A running worker process keeps running; nothing restarts one that died.
FairSpec == Spec /\ WF_vars(WorkerStep)

-----------------------------------------------------------------------------
(* Properties. *)
Tracked(j) == stage[j] \in Finished \/ j \in ToSet(queue) \cup ToSet(processing)

\* As long as run_job has not raised, a job whose POST was answered is
\* finished or still in one of the two lists, across deaths of handlers and of
\* the worker between any two steps.
AcceptedNeverLost ==
    escaped \/ \A j \in Jobs : api[j] = "answered" => Tracked(answer[j])

\* The processing list holds the job of the running worker and nothing else,
\* so restarting one never requeues a job that is still being run.
ProcessingMirrorsWorker ==
    pc \notin {"down", "recover"} =>
        processing = IF pc = "poll" THEN <<>> ELSE <<job>>

\* The inductive invariant behind the two: which job the worker has and in
\* what stage it lets go of it, which handlers have a record to answer with,
\* and that a job once started is never off the lists before it is finished.
WorkerInv ==
    /\ ProcessingMirrorsWorker
    /\ pc = "recover" => inflight = processing
    /\ pc \in {"running", "failing", "release", "raised"} => job \in Jobs
    /\ pc = "release" => stage[job] \in Finished
    /\ pc = "failing" => stage[job] = "awaiting_review"

ApiInv ==
    /\ \A j \in Jobs :
          /\ api[j] \in {"new", "fetch", "create"} => stage[j] = Absent
          /\ api[j] = "bind" => stage[j] # Absent /\ KeyOf[j] \in Keys
          /\ api[j] \in {"fetch", "bind", "enqueue", "answered"} =>
                answer[j] \in Jobs /\ stage[answer[j]] # Absent
    /\ \A k \in Keys : idem[k] # NoJob => stage[idem[k]] # Absent

StartedInv == \A j \in Jobs : stage[j] \in Working => Tracked(j)

\* POSTs that repeat a key one after the other, inside its 24 hours, answer the
\* same job, whichever handlers and workers died in between (RedisJobStore.create).
SameKeySameJob ==
    \A i, j \in Jobs :
        /\ api[i] = "answered" /\ api[j] = "answered"
        /\ KeyOf[i] = KeyOf[j] /\ KeyOf[i] \notin {NoKey} \cup expired \cup overlapped
        => answer[i] = answer[j]

\* A key in Redis never moves from one job to another; it can only expire.
KeyBindingStable ==
    [][\A k \in Keys : idem[k] # NoJob => idem'[k] \in {idem[k], NoJob}]_vars

\* A worker that does not stay down, and whose run_job never raises, finishes
\* every job the API has answered for.
AcceptedJobsFinish ==
    []<>(pc # "down") /\ [](~ escaped) =>
        \A j \in Jobs :
            (api[j] = "answered") ~> (answer[j] \in Jobs /\ stage[answer[j]] \in Finished)

\* Handlers and worker together keep what JobLifecycle promises of every job.
Lifecycle == INSTANCE JobLifecycle
LifecycleKept == Lifecycle!Spec

\* Every state is well typed, and the processing list is the running worker's.
Consistent ==
    /\ TypeOK
    /\ ProcessingMirrorsWorker
=============================================================================
