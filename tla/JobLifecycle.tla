---------------------------- MODULE JobLifecycle ----------------------------
(***************************************************************************)
(* What the factory promises about the stage of a job, whoever runs it: a  *)
(* job is created queued, its stage only moves forward, it becomes         *)
(* reviewable from quality control only, and failed is the end.            *)
(*   source: apps/api/app/models.py (JobStage, STAGE_ORDER),               *)
(*           apps/api/app/state.py (validate_transition, fail)             *)
(* A reviewable job can still fail: RedisJobStore.fail has no guard, and   *)
(* run_job calls it when the update that made the job reviewable was       *)
(* applied but its reply was lost.                                         *)
(***************************************************************************)
EXTENDS JobRecord

CONSTANT Jobs

VARIABLE stage

Absent  == "absent"
Working == JobStage \ {"queued", "awaiting_review", "failed"}

TypeOK == stage \in [Jobs -> JobStage \cup {Absent}]

\* The jobs created before the behaviour starts are queued.
Init == stage \in [Jobs -> {Absent, "queued"}]

Create(j) ==
    /\ stage[j] = Absent
    /\ stage' = [stage EXCEPT ![j] = "queued"]

Work(j) ==
    /\ stage[j] \in Working \cup {"queued"}
    /\ \E s \in Working :
          /\ STAGE_ORDER[s] > STAGE_ORDER[stage[j]]
          /\ stage' = [stage EXCEPT ![j] = s]

Complete(j) ==
    /\ stage[j] = "quality_check"
    /\ stage' = [stage EXCEPT ![j] = "awaiting_review"]

Abort(j) ==
    /\ stage[j] \notin {Absent, "failed"}
    /\ stage' = [stage EXCEPT ![j] = "failed"]

Next == \E j \in Jobs : Create(j) \/ Work(j) \/ Complete(j) \/ Abort(j)

Spec == Init /\ [][Next]_stage
=============================================================================
