--------------------------- MODULE VideoPipeline ---------------------------
(***************************************************************************)
(* One video job as the V1 worker runs it: run_job walks the artifacts in  *)
(* order, reuses the ones a crashed run left valid on disk, and asks the   *)
(* renderer, a separate process, for the video.  The worker can crash and  *)
(* run the job again; the renderer can crash, time out or go on rendering  *)
(* for a request nobody waits for any more; Redis can apply a mutation     *)
(* and lose the reply.                                                     *)
(*   source: services/worker/npd_worker/pipeline.py, renderer/src/server.ts*)
(***************************************************************************)
EXTENDS JobRecord, FiniteSets

CONSTANTS MaxRenders,  \* bound: requests the renderer can have in hand at once
          MaxFaults    \* bound: faults in a behaviour (time-outs not counted)

ASSUME FaultAssumption == MaxRenders \in Nat /\ MaxFaults \in Nat

RenderIds == 1..MaxRenders
NoRender  == 0

VARIABLES
    record,    \* the job record in Redis
    files,     \* the job directory: absent, partial (cut off or failing its check), valid
    phase, at, \* where run_job is, and the artifact it is at
    error,     \* code of the PipelineFailure being handled
    attempt,   \* loop variable of call_renderer
    reused,    \* final.mp4 passed the probe at the start: rendering is skipped
    waiting,   \* the POST /render the worker awaits
    renders,   \* the renderer's requests
    faults,    \* faults so far
    abandoned  \* history: the worker died, or left a render it had asked for

run == <<phase, at, error, attempt, reused, waiting>>
env == <<faults, abandoned>>
pipelineVars == <<record, files, run, renders, env>>

-----------------------------------------------------------------------------
\* The steps of run_job in order; "assets" resolves files and registers nothing.
Steps  == {"script", "storyboard", "narration", "subtitles", "assets", "manifest", "final"}
NextOf == [script |-> "storyboard", storyboard |-> "narration", narration |-> "subtitles",
           subtitles |-> "assets", assets |-> "manifest", manifest |-> "final"]

StageOf == [script |-> "scripting", storyboard |-> "storyboarding",
            narration |-> "generating_voice", subtitles |-> "generating_subtitles",
            assets |-> "resolving_assets", manifest |-> "building_manifest",
            final |-> "rendering"]
ProgressOf == [script |-> 10, storyboard |-> 20, narration |-> 30, subtitles |-> 40,
               assets |-> 50, manifest |-> 60, final |-> 70]

\* The PipelineFailure of a step; writing the subtitles raises none of its own.
FailureOf == [script |-> "CONTENT_PROVIDER_FAILED", storyboard |-> "CONTENT_PROVIDER_FAILED",
              narration |-> "TTS_PROVIDER_FAILED", assets |-> "ASSET_NOT_FOUND",
              manifest |-> "MANIFEST_INVALID"]

\* These steps look for a usable file before they advance the stage; the
\* manifest advances first and looks then, subtitles and assets never look.
CheckedFirst == {"script", "storyboard", "narration", "final"}
EntryOf(a)   == IF a \in CheckedFirst THEN "check" ELSE "advance"

FileStates   == {"absent", "partial", "valid"}
RenderStates == {"free", "accepted", "writing", "detached", "ok", "error"}
Pcs == {"idle", "check", "advance", "produce", "register", "render", "await",
        "qc_stage", "probe", "write_qc", "register_video", "register_qc",
        "complete", "failing"}

PipelineTypeOK ==
    /\ record \in JobRecords
    /\ files \in [Artifacts -> FileStates]
    /\ phase \in Pcs
    /\ at \in Steps
    /\ error \in ErrorCodes \cup {NoError}
    /\ attempt \in {0, 1}
    /\ reused \in BOOLEAN
    /\ waiting \in RenderIds \cup {NoRender}
    /\ renders \in [RenderIds -> RenderStates]
    /\ faults \in 0..MaxFaults /\ abandoned \in BOOLEAN

PipelineInit ==
    /\ record = NewJobRecord
    /\ files = [a \in Artifacts |-> "absent"]
    /\ phase = "idle" /\ at = "script" /\ error = NoError
    /\ attempt = 0 /\ reused = FALSE /\ waiting = NoRender
    /\ renders = [s \in RenderIds |-> "free"]
    /\ faults = 0 /\ abandoned = FALSE

Fault ==
    /\ faults < MaxFaults
    /\ faults' = faults + 1

\* run_job ends, by return or by exception: its local variables are gone.
Leave ==
    /\ phase' = "idle" /\ at' = "script" /\ error' = NoError
    /\ attempt' = 0 /\ reused' = FALSE /\ waiting' = NoRender

Goto(p) == phase' = p /\ UNCHANGED <<at, error, attempt, reused, waiting>>

GotoStep(a) == at' = a /\ phase' = EntryOf(a) /\ UNCHANGED <<error, attempt, reused, waiting>>

Raise(code) ==
    /\ phase' = "failing" /\ error' = code /\ waiting' = NoRender
    /\ UNCHANGED <<at, attempt, reused>>

\* The record the store call at phase writes.
StoreEffect ==
    CASE phase = "advance"        -> Advance(record, StageOf[at], ProgressOf[at])
      [] phase = "register"       -> AddArtifact(record, at)
      [] phase = "qc_stage"       -> Advance(record, "quality_check", 95)
      [] phase = "register_video" -> AddArtifact(record, "final")
      [] phase = "register_qc"    -> AddArtifact(record, "qc")
      [] phase = "complete"       -> UpdateStage(record, "awaiting_review", "awaiting_review", 100)
      [] phase = "failing"        -> Fail(record, error)
      [] OTHER                 -> record


-----------------------------------------------------------------------------
(* run_job.  A job whose record is terminal is skipped.  Here and below, a
   definition that a comment calls a mutated form is not the code: it is the
   mistake the property named with it would catch. *)
\* Mutated form: the terminal skip is gone.
StartTerminalToo ==
    /\ phase = "idle"
    /\ GotoStep("script")
    /\ UNCHANGED <<record, files, renders, env>>

StartRun ==
    /\ phase = "idle"
    /\ ~ Terminal(record)
    /\ GotoStep("script")
    /\ UNCHANGED <<record, files, renders, env>>

\* validate_wav reads the frame count from the header, so it can accept a cut-off narration.
Accepts(a) == files[a] = "valid" \/ (a = "narration" /\ files[a] = "partial")

\* Mutated form: a reused file is not registered again.
ReuseUnregistered ==
    /\ phase = "check" /\ Accepts(at)
    /\ IF at = "final"
       THEN phase' = "qc_stage" /\ reused' = TRUE /\ UNCHANGED <<at, error, attempt, waiting>>
       ELSE GotoStep(NextOf[at])
    /\ UNCHANGED <<record, files, renders, env>>

Reuse ==
    /\ phase = "check" /\ Accepts(at)
    /\ IF at = "final"
       THEN phase' = "qc_stage" /\ reused' = TRUE /\ UNCHANGED <<at, error, attempt, waiting>>
       ELSE Goto("register")
    /\ UNCHANGED <<record, files, renders, env>>

\* A final.mp4 that fails its probe is unlinked: a render still writing it
\* goes on writing a file that has no name any more.
Miss ==
    /\ phase = "check" /\ files[at] # "valid"
    /\ Goto(IF at = "manifest" THEN "produce" ELSE "advance")
    /\ IF at = "final"
       THEN /\ files' = [files EXCEPT !["final"] = "absent"]
            /\ renders' = [s \in RenderIds |->
                              IF renders[s] = "writing" THEN "detached" ELSE renders[s]]
       ELSE UNCHANGED <<files, renders>>
    /\ UNCHANGED <<record, env>>

AdvanceStage ==
    /\ phase = "advance"
    /\ record' = StoreEffect
    /\ Goto(CASE at = "manifest" -> "check" [] at = "final" -> "render" [] OTHER -> "produce")
    /\ UNCHANGED <<files, renders, env>>

Produce ==
    /\ phase = "produce"
    /\ IF at = "assets"
       THEN GotoStep("manifest") /\ UNCHANGED files
       ELSE Goto("register") /\ files' = [files EXCEPT ![at] = "valid"]
    /\ UNCHANGED <<record, renders, env>>

\* What an interrupted write can leave behind.
CutOff ==
    CASE phase = "produce" /\ at # "assets" ->
            {files} \cup {[files EXCEPT ![at] = f] : f \in {"partial", "valid"}}
      [] phase = "write_qc" -> {files} \cup {[files EXCEPT !["qc"] = f] : f \in {"partial", "valid"}}
      [] OTHER -> {files}

\* A provider, the asset resolver or the manifest validation refuses; espeak
\* writes the narration in place, so it can leave it cut off.
ProduceFails ==
    /\ phase = "produce" /\ at \in DOMAIN FailureOf
    /\ Fault /\ UNCHANGED abandoned
    /\ Raise(FailureOf[at])
    /\ files' \in IF at = "narration" THEN CutOff ELSE {files}
    /\ UNCHANGED <<record, renders>>

Register ==
    /\ phase = "register"
    /\ record' = StoreEffect
    /\ GotoStep(NextOf[at])
    /\ UNCHANGED <<files, renders, env>>

-----------------------------------------------------------------------------
(* call_renderer and the renderer's POST /render. *)
PostRender(s) ==
    /\ phase = "render" /\ renders[s] = "free"
    /\ \A t \in 1..(s - 1) : renders[t] # "free"
    /\ renders' = [renders EXCEPT ![s] = "accepted"]
    /\ phase' = "await" /\ waiting' = s
    /\ UNCHANGED <<record, files, at, error, attempt, reused, env>>

\* Mutated form: the bound on retries is gone.
RetryForever ==
    /\ attempt' = attempt + 1 /\ phase' = "render" /\ waiting' = NoRender
    /\ UNCHANGED <<at, error, reused>>

\* A RequestError or a 502/503/504: one retry, then RENDERER_UNAVAILABLE.
RetryOrGiveUp ==
    IF attempt = 0
    THEN /\ attempt' = 1 /\ phase' = "render" /\ waiting' = NoRender
         /\ UNCHANGED <<at, error, reused>>
    ELSE Raise("RENDERER_UNAVAILABLE")

RenderRefused ==
    /\ phase = "render"
    /\ Fault /\ UNCHANGED abandoned
    /\ RetryOrGiveUp
    /\ UNCHANGED <<record, files, renders>>

\* The read time-out expires; the renderer is not told and goes on.
RenderTimesOut ==
    /\ phase = "await" /\ renders[waiting] \in {"accepted", "writing"}
    /\ RetryOrGiveUp
    /\ abandoned' = TRUE
    /\ UNCHANGED <<record, files, renders, faults>>

\* The renderer went down with the request in hand.
RenderConnectionLost ==
    /\ phase = "await" /\ renders[waiting] = "free"
    /\ RetryOrGiveUp
    /\ UNCHANGED <<record, files, renders, env>>

RenderReplies ==
    /\ phase = "await" /\ renders[waiting] \in {"ok", "error"}
    /\ renders' = [renders EXCEPT ![waiting] = "free"]
    /\ IF renders[waiting] = "ok"
       THEN phase' = "qc_stage" /\ waiting' = NoRender /\ UNCHANGED <<at, error, attempt, reused>>
       ELSE Raise("RENDER_FAILED")
    /\ UNCHANGED <<record, files, env>>

\* renderMedia opens the output path and truncates what was there.
RendererWrites(s) ==
    /\ renders[s] = "accepted"
    /\ renders' = [renders EXCEPT ![s] = "writing"]
    /\ files' = [files EXCEPT !["final"] = "partial"]
    /\ UNCHANGED <<record, run, env>>

\* The reply of a request nobody awaits goes nowhere.
Replied(s, reply) == IF waiting = s THEN reply ELSE "free"

RendererFinishes(s) ==
    /\ renders[s] \in {"writing", "detached"}
    /\ renders' = [renders EXCEPT ![s] = Replied(s, "ok")]
    /\ \E f \in {"valid", "partial"} :
          files' = IF renders[s] = "writing" THEN [files EXCEPT !["final"] = f] ELSE files
    /\ UNCHANGED <<record, run, env>>

RendererFails(s) ==
    /\ renders[s] \in {"accepted", "writing", "detached"}
    /\ renders' = [renders EXCEPT ![s] = Replied(s, "error")]
    /\ UNCHANGED <<record, files, run, env>>

RendererCrash ==
    /\ \E s \in RenderIds : renders[s] # "free"
    /\ Fault /\ UNCHANGED abandoned
    /\ renders' = [s \in RenderIds |-> "free"]
    /\ UNCHANGED <<record, files, run>>

-----------------------------------------------------------------------------
(* Quality control, the last registrations and the end of the job. *)
QualityCheckStage ==
    /\ phase = "qc_stage"
    /\ record' = StoreEffect
    /\ Goto(IF reused THEN "write_qc" ELSE "probe")
    /\ UNCHANGED <<files, renders, env>>

\* Mutated form: a failed probe is ignored.
ProbeAnything ==
    /\ phase = "probe"
    /\ Goto("write_qc")
    /\ UNCHANGED <<record, files, renders, env>>

Probe ==
    /\ phase = "probe"
    /\ IF files["final"] = "valid" THEN Goto("write_qc") ELSE Raise("VIDEO_QC_FAILED")
    /\ UNCHANGED <<record, files, renders, env>>

WriteQc ==
    /\ phase = "write_qc"
    /\ files' = [files EXCEPT !["qc"] = "valid"]
    /\ Goto("register_video")
    /\ UNCHANGED <<record, renders, env>>

RegisterResults ==
    /\ phase \in {"register_video", "register_qc"}
    /\ record' = StoreEffect
    /\ Goto(IF phase = "register_video" THEN "register_qc" ELSE "complete")
    /\ UNCHANGED <<files, renders, env>>

CompleteJob ==
    /\ phase = "complete"
    /\ ValidTransition(record, "awaiting_review", 100)
    /\ record' = StoreEffect
    /\ Leave
    /\ UNCHANGED <<files, renders, env>>

FailJob ==
    /\ phase = "failing"
    /\ record' = StoreEffect
    /\ Leave
    /\ UNCHANGED <<files, renders, env>>

\* Any other exception: Redis refused the call or lost its reply after applying it.
UnexpectedError ==
    /\ phase \notin {"idle", "await", "render", "failing"}
    /\ Fault /\ UNCHANGED abandoned
    /\ record' \in {record, StoreEffect}
    /\ Raise("INTERNAL_ERROR")
    /\ files' \in CutOff
    /\ UNCHANGED renders

\* store.fail itself raises: the exception leaves run_job.
FailJobRaises ==
    /\ phase = "failing"
    /\ Fault /\ UNCHANGED abandoned
    /\ record' \in {record, StoreEffect}
    /\ Leave
    /\ UNCHANGED <<files, renders>>

\* The process dies: what Redis, the disk and the renderer hold stays.
WorkerDies ==
    /\ phase # "idle"
    /\ Fault /\ abandoned' = TRUE
    /\ Leave
    /\ files' \in CutOff
    /\ UNCHANGED <<record, renders>>

-----------------------------------------------------------------------------
RunStep ==
    \/ Reuse \/ Miss \/ AdvanceStage \/ Produce \/ Register
    \/ (\E s \in RenderIds : PostRender(s))
    \/ RenderTimesOut \/ RenderConnectionLost \/ RenderReplies
    \/ QualityCheckStage \/ Probe \/ WriteQc \/ RegisterResults
    \/ CompleteJob \/ FailJob

RendererStep(s) == RendererWrites(s) \/ RendererFinishes(s) \/ RendererFails(s)

EnvironmentFault ==
    ProduceFails \/ RenderRefused \/ RendererCrash \/ UnexpectedError
    \/ FailJobRaises \/ WorkerDies

PipelineNext == StartRun \/ RunStep \/ (\E s \in RenderIds : RendererStep(s)) \/ EnvironmentFault

PipelineSpec == PipelineInit /\ [][PipelineNext]_pipelineVars

\* The worker is one coroutine that never stops between two steps, and httpx
\* bounds its wait for the renderer; the renderer itself owes nothing.
FairPipelineSpec == PipelineSpec /\ WF_pipelineVars(RunStep)

-----------------------------------------------------------------------------
(* Properties. *)

\* A job becomes reviewable only with every artifact registered, whatever
\* mix of crashed runs produced them (run_job, lines 398-550).
ReviewableIsComplete == record.status = "awaiting_review" => record.artifacts = Artifacts

\* "progress never moves backward" (services/worker/README.md): a resumed run
\* repeats early stages, and advance must not let them lower the record.
ProgressNeverDecreases == [][record'.progress >= record.progress]_pipelineVars

\* A failed job is left exactly as it failed, even when it is delivered again.
FailedJobIsFrozen == [][record.status = "failed" => UNCHANGED record]_pipelineVars

\* As long as the worker did not die and waited for every render it asked for, a
\* reviewer is shown files that passed their checks and are still on disk.  (The
\* narration is apart: espeak writes it in place, and a cut-off one can validate.)
ReviewableIsServable ==
    ~ abandoned /\ record.status = "awaiting_review" =>
        \A a \in Artifacts \ {"narration"} : files[a] = "valid"

\* The worker asks for at most two renders in one run, and a run never waits
\* for ever: it ends by return, failure or crash.
RunEnds == (phase # "idle") ~> (phase = "idle")

\* The pipeline keeps the promise JobLifecycle states for one job.
Promise == INSTANCE JobLifecycle WITH Jobs <- {"job"}, stage <- [j \in {"job"} |-> record.stage]
PromiseKept == Promise!Spec

\* Whatever the faults, a stored record goes forward only, and a failed one not at all.
RecordNeverGoesBack == ProgressNeverDecreases /\ FailedJobIsFrozen

\* Every state is well typed, and what it shows for review is whole and servable.
PipelineConsistent ==
    /\ PipelineTypeOK
    /\ ReviewableIsComplete
    /\ ReviewableIsServable
=============================================================================
