----------------------------- MODULE JobRecord -----------------------------
(***************************************************************************)
(* The record of one video job as Redis keeps it (npd:video-job:{id}) and  *)
(* the four mutations RedisJobStore applies to it.  Every mutation is a    *)
(* WATCH/GET/MULTI/SET loop that starts again on WatchError, so each one   *)
(* is a function from the stored record to the next stored record.         *)
(*   source: apps/api/app/models.py, apps/api/app/state.py,                *)
(*           services/worker/npd_worker/pipeline.py (advance)              *)
(***************************************************************************)
EXTENDS Naturals

STAGE_ORDER ==
    [queued |-> 0, scripting |-> 10, storyboarding |-> 20,
     generating_voice |-> 30, generating_subtitles |-> 40,
     resolving_assets |-> 50, building_manifest |-> 60, rendering |-> 70,
     quality_check |-> 90, awaiting_review |-> 100, failed |-> 1000]

JobStage  == DOMAIN STAGE_ORDER
JobStatus == {"queued", "running", "awaiting_review", "failed"}

\* Names of the artifacts a job can register (the record keeps one entry per name).
Artifacts == {"script", "storyboard", "narration", "subtitles", "manifest", "final", "qc"}

ErrorCodes ==
    {"CONTENT_PROVIDER_FAILED", "TTS_PROVIDER_FAILED", "ASSET_NOT_FOUND",
     "MANIFEST_INVALID", "RENDERER_UNAVAILABLE", "RENDER_FAILED",
     "VIDEO_QC_FAILED", "INTERNAL_ERROR"}
NoError == "no_error"

JobRecords ==
    [status : JobStatus, stage : JobStage, progress : 0..100,
     artifacts : SUBSET Artifacts, error : ErrorCodes \cup {NoError}]

NewJobRecord ==
    [status |-> "queued", stage |-> "queued", progress |-> 0,
     artifacts |-> {}, error |-> NoError]

\* The two statuses in which run_job and advance leave a job alone.
Terminal(r) == r.status \in {"awaiting_review", "failed"}

-----------------------------------------------------------------------------
\* validate_transition raises unless this holds.
ValidTransition(r, stage, progress) ==
    /\ progress >= r.progress
    /\ stage # "failed" => STAGE_ORDER[stage] >= STAGE_ORDER[r.stage]

UpdateStage(r, status, stage, progress) ==
    [r EXCEPT !.status = status, !.stage = stage, !.progress = progress]

\* Mutated form: the re-read of the record before update_stage is dropped.
AdvanceUnguarded(r, stage, progress) == UpdateStage(r, "running", stage, progress)

\* advance: a terminal record, and a stage or progress behind the recorded
\* one (a resumed run repeating an earlier stage), are left as they are.
Advance(r, stage, progress) ==
    IF Terminal(r) \/ ~ ValidTransition(r, stage, progress)
    THEN r
    ELSE UpdateStage(r, "running", stage, progress)

AddArtifact(r, name) == [r EXCEPT !.artifacts = @ \cup {name}]

\* fail has no guard: it overwrites whatever status the record has.
Fail(r, code) ==
    [r EXCEPT !.status = "failed", !.stage = "failed", !.error = code]
=============================================================================
