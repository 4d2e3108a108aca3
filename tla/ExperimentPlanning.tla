-------------------------- MODULE ExperimentPlanning --------------------------
(***************************************************************************)
(* The experiment control plane of the Agent Hub: plans, previews and      *)
(* their approval, the evidence attached to a plan and what is concluded   *)
(* from it.  Routes run in a thread pool, the read of a source awaits in   *)
(* the middle: each reads the experiment, changes a copy and saves all of  *)
(* it.  Every Redis call is a step.                                        *)
(*   source: services/agent_hub/npd_agent_hub/experiments.py,              *)
(*           experiment_models.py, store.py, main.py                       *)
(* The experiments are those of one campaign and month, with an accepted   *)
(* attribution snapshot; the audit trail is appended and never read back.  *)
(***************************************************************************)
EXTENDS Naturals, Sequences, SequencesExt, FiniteSets

CONSTANTS
    Handlers,        \* threads and coroutines that serve experiment routes
    MaxExperiments,  \* sequence numbers of one project and month (999)
    ListLimit,       \* experiments that a listing returns (1000)
    Kept,            \* observations an experiment keeps (100)
    Variants,        \* variant ids
    Ads,             \* tracking mappings: a Meta campaign and an ad per variant
    Unmapped,
    Drafts,          \* the plans that clients send: variant ids and their mapping
    Scenarios        \* the requests of a behaviour; one is chosen at its start

Operations == {"create", "update", "preview", "request", "decide", "observe",
               "quality", "map", "read", "evaluate", "campaign"}

ASSUME ExperimentAssumption ==
    /\ MaxExperiments \in Nat \ {0} /\ ListLimit \in Nat \ {0} /\ Kept \in Nat \ {0}
    /\ Unmapped \notin Ads
    /\ Drafts \subseteq [ids : (SUBSET Variants) \ {{}}, ads : Ads \cup {Unmapped}]
    /\ \A s \in Scenarios : s \in [operations : SUBSET Operations, ops : Nat, deaths : Nat]

VARIABLES
    scenario,     \* what may be requested
    experiments,  \* the stored experiment of each id, or Absent
    index,        \* the ids by updated_at, newest first
    campaign,     \* the stored campaign: whether it is draft or planned, and its Meta id
    pc, call,     \* where each handler is, and its copies
    answered,     \* history: observations that were stored, as their clients are told
    disturbed,    \* history: ids whose requests overlapped; 0 for the tracking contract
    ops, deaths

vars == <<scenario, experiments, index, campaign, pc, call, answered, disturbed, ops, deaths>>

-----------------------------------------------------------------------------
Ids    == 1..MaxExperiments
Absent == [status |-> "absent"]
None   == [id |-> 0]

ExperimentStatus == {"planned", "previewed", "awaiting_approval", "approved", "rejected"}
Plans        == [ids : (SUBSET Variants) \ {{}}, ads : Ads \cup {Unmapped}]
Observations == [id : Nat \ {0}, ids : SUBSET Variants, state : {"verified_read_only", "partial"},
                 quality : {"pending_owner", "accepted", "rejected"}]
Recommendations == {"insufficient_data", "continue", "winner_candidate", "stop_and_review",
                    "manual_review"}
Evaluations  == [id : Nat \ {0}, recommendation : Recommendations]

NoPlan == [ids |-> {}]
NewExperiment(v) ==
    [status |-> "planned", variants |-> v, preview |-> NoPlan, observations |-> <<>>,
     evaluation |-> None]

IsExperiment(m) ==
    /\ m.status \in ExperimentStatus /\ m.variants \in Plans
    /\ m.preview \in Plans \cup {NoPlan}
    /\ Len(m.observations) <= Kept /\ ToSet(m.observations) \subseteq Observations
    /\ m.evaluation \in Evaluations \cup {None}

HandlerStates == {"idle", "save", "map_read", "map_campaign", "map_save", "tracking", "contract",
                  "await", "ingest", "campaign_save"}
NoCall == [id |-> 0]
NewCall(e, copy) ==
    [id |-> e, copy |-> copy, campaign |-> campaign, plan |-> NoPlan, observation |-> None,
     creates |-> FALSE]

Goto(h, p) == pc' = [pc EXCEPT ![h] = p]
End(h) == Goto(h, "idle") /\ call' = [call EXCEPT ![h] = NoCall]

Init ==
    /\ scenario \in Scenarios
    /\ experiments = [e \in Ids |-> Absent]
    /\ index = <<>>
    /\ campaign = [editable |-> TRUE, ads |-> Unmapped]
    /\ pc = [h \in Handlers |-> "idle"]
    /\ call = [h \in Handlers |-> NoCall]
    /\ answered = {} /\ disturbed = {}
    /\ ops = 0 /\ deaths = 0

-----------------------------------------------------------------------------
(* What each operation makes of the copy it read.                          *)
Draft(m) == m.status \in {"planned", "previewed"}

\* Mutated form: an update leaves the preview as it is.
UpdatedKeepingPreview(m, v) == [m EXCEPT !.variants = v, !.status = "planned"]

Updated(m, v) == [m EXCEPT !.variants = v, !.preview = NoPlan, !.status = "planned"]

Previewed(m) == [m EXCEPT !.status = "previewed", !.preview = m.variants]

\* Mutated form: the first observations are kept.
ObservedFirst(m, o) ==
    [m EXCEPT !.observations = SubSeq(Append(@, o), 1, IF Len(@) < Kept THEN Len(@) + 1 ELSE Kept),
              !.evaluation = None]

\* Mutated form: all observations are kept.
ObservedAll(m, o) == [m EXCEPT !.observations = Append(@, o), !.evaluation = None]

\* The newest observations are kept, and what was concluded is dropped.
Observed(m, o) ==
    [m EXCEPT !.observations = SubSeq(Append(@, o), IF Len(@) < Kept THEN 1 ELSE 2, Len(@) + 1),
              !.evaluation = None]

\* Mutated form: what was concluded from the observation stays.
JudgedOnly(m, id, quality) ==
    [m EXCEPT !.observations =
        [i \in DOMAIN @ |-> IF @[i].id = id THEN [@[i] EXCEPT !.quality = quality] ELSE @[i]]]

Judged(m, id, quality) ==
    [m EXCEPT !.observations =
        [i \in DOMAIN @ |-> IF @[i].id = id THEN [@[i] EXCEPT !.quality = quality] ELSE @[i]],
              !.evaluation = None]

Mapped(m, ads) ==
    [m EXCEPT !.variants.ads = ads, !.preview = NoPlan, !.evaluation = None, !.status = "planned"]

\* Mutated form: any part of the plan may be called verified.
MayObservePart(m, o) == o.ids \subseteq m.variants.ids

\* What an observation may cover; one that is called verified covers the plan.
MayObserve(m, o) ==
    /\ o.ids \subseteq m.variants.ids
    /\ o.state = "verified_read_only" => o.ids = m.variants.ids

\* Of the metrics only the verdicts count: freshness, guardrails, sample size,
\* whether conversions are counted, and how the best challenger compares.
Verdicts == [fresh : BOOLEAN, breach : BOOLEAN, sufficient : BOOLEAN,
             comparison : {"uncounted", "better", "worse", "level"}]

Recommendation(m, o, v) ==
    IF ~ m.variants.ids \subseteq o.ids THEN "insufficient_data"
    ELSE IF ~ v.fresh THEN "manual_review"
    ELSE IF v.breach THEN "stop_and_review"
    ELSE IF o.state = "partial" THEN "manual_review"
    ELSE IF ~ v.sufficient THEN "insufficient_data"
    ELSE CASE v.comparison = "uncounted" -> "manual_review"
           [] v.comparison = "better" -> "winner_candidate"
           [] v.comparison = "worse" -> "stop_and_review"
           [] v.comparison = "level" -> "continue"

\* The observation that is evaluated: the latest accepted one, or the one that is
\* named, which must be accepted too.
Evaluable(m, o) == o \in ToSet(m.observations) /\ o.quality = "accepted"

-----------------------------------------------------------------------------
(* Requests.  The check of the copy is part of the read.                   *)
Asked(operation) ==
    /\ operation \in scenario.operations
    /\ ops < scenario.ops
    /\ ops' = ops + 1

Overlaps(h, e) == {g \in Handlers \ {h} : pc[g] # "idle" /\ call[g].id = e} # {}

Work(h, e, p, c) ==
    /\ pc[h] = "idle"
    /\ Goto(h, p)
    /\ call' = [call EXCEPT ![h] = c]
    /\ disturbed' = disturbed \cup (IF Overlaps(h, e) THEN {e} ELSE {})
    /\ UNCHANGED <<scenario, experiments, index, campaign, answered, deaths>>

\* Mutated form: the number of the experiments, one short.
NextIdByCount == {IF index = <<>> THEN 1 ELSE Len(index)}

\* _next_id: the lowest sequence number that no listed experiment has.
NextId ==
    LET listed == ToSet(SubSeq(index, 1, IF Len(index) < ListLimit THEN Len(index) ELSE ListLimit))
    IN {e \in Ids \ listed : \A f \in Ids : f < e => f \in listed}

Create(h, v) ==
    \E e \in NextId :
        /\ Asked("create")
        /\ Work(h, e, "save", [NewCall(e, NewExperiment(v)) EXCEPT !.creates = TRUE])

\* A route that reads an experiment and saves what it made of the copy.
Change(h, e, operation, copy) ==
    /\ Asked(operation)
    /\ Work(h, e, "save", NewCall(e, copy))

Update(h, e, v) == Draft(experiments[e]) /\ Change(h, e, "update", Updated(experiments[e], v))

\* Mutated form: a rejected plan can be previewed again.
PreviewRejected(h, e) ==
    /\ experiments[e].status # "absent"
    /\ Change(h, e, "preview", Previewed(experiments[e]))

Preview(h, e) ==
    /\ experiments[e].status \notin {"absent", "rejected"}
    /\ Change(h, e, "preview", Previewed(experiments[e]))

RequestApproval(h, e) ==
    /\ Draft(experiments[e])
    /\ Change(h, e, "request", [experiments[e] EXCEPT !.status = "awaiting_approval"])

DecideApproval(h, e, approved) ==
    /\ experiments[e].status = "awaiting_approval"
    /\ Change(h, e, "decide", [experiments[e] EXCEPT !.status = IF approved THEN "approved" ELSE "rejected"])

NewObservation(ids, state) == [id |-> ops + 1, ids |-> ids, state |-> state, quality |-> "pending_owner"]

AddObservation(h, e, ids, state) ==
    LET o == NewObservation(ids, state)
    IN /\ experiments[e] # Absent /\ MayObserve(experiments[e], o)
       /\ Asked("observe")
       /\ Work(h, e, "save", [NewCall(e, Observed(experiments[e], o)) EXCEPT !.observation = o])

DecideQuality(h, e, o, accepted) ==
    /\ experiments[e] # Absent /\ o \in ToSet(experiments[e].observations)
    /\ Change(h, e, "quality", Judged(experiments[e], o.id, IF accepted THEN "accepted" ELSE "rejected"))

Evaluate(h, e, o, v) ==
    /\ experiments[e] # Absent /\ Evaluable(experiments[e], o)
    /\ Change(h, e, "evaluate", [experiments[e] EXCEPT !.evaluation =
                 [id |-> o.id, recommendation |-> Recommendation(experiments[e], o, v)]])

\* apply_meta_tracking_mapping reads the experiment; the campaign is read next.
ApplyMapping(h, e, ads) ==
    /\ Draft(experiments[e]) /\ experiments[e].observations = <<>>
    /\ Asked("map")
    /\ Work(h, e, "map_read",
            [NewCall(e, Mapped(experiments[e], ads)) EXCEPT !.plan = experiments[e].variants])

ReadSource(h, e) ==
    /\ experiments[e] # Absent
    /\ Asked("read")
    /\ Work(h, e, "tracking", [NewCall(e, Absent) EXCEPT !.plan = experiments[e].variants,
                                                        !.observation = [id |-> ops + 1]])

\* A campaign route reads the campaign (module CampaignApproval).
EditCampaign(h) ==
    /\ Asked("campaign")
    /\ pc[h] = "idle"
    /\ Goto(h, "campaign_save")
    /\ call' = [call EXCEPT ![h] = NewCall(0, Absent)]
    /\ UNCHANGED <<scenario, experiments, index, campaign, answered, disturbed, deaths>>

-----------------------------------------------------------------------------
\* ZADD: the entry of the experiment comes first.
Newest(e) ==
    <<e>> \o (IF e \in ToSet(index) THEN RemoveAt(index, CHOOSE i \in DOMAIN index : index[i] = e)
              ELSE index)

\* save_experiment overwrites whatever is stored by now.
Store(h) ==
    /\ experiments' = [experiments EXCEPT ![call[h].id] = call[h].copy]
    /\ index' = Newest(call[h].id)

\* An edit of a draft that brings another mapping along leaves the campaign's as it is.
Save(h) ==
    LET e == call[h].id
    IN /\ pc[h] = "save"
       /\ Store(h)
       /\ answered' = IF call[h].observation = None THEN answered
                      ELSE answered \cup {<<e, call[h].observation.id>>}
       /\ disturbed' = disturbed \cup
             (IF call[h].copy.variants.ads =
                    (IF call[h].creates THEN Unmapped ELSE experiments[e].variants.ads)
              THEN {} ELSE {0})
       /\ End(h)
       /\ UNCHANGED <<scenario, campaign, ops, deaths>>

Others(h, states) == {g \in Handlers \ {h} : pc[g] \in states}

\* The campaign is read and checked ...
MapReads(h) ==
    /\ pc[h] = "map_read"
    /\ IF campaign.editable
       THEN /\ Goto(h, "map_campaign")
            /\ call' = [call EXCEPT ![h].campaign = [campaign EXCEPT !.ads = call[h].copy.variants.ads]]
       ELSE End(h)
    /\ UNCHANGED <<scenario, experiments, index, campaign, answered, disturbed, ops, deaths>>

\* Mutated form: the campaign keeps the Meta id that it has.
MapCampaignNot(h) ==
    /\ pc[h] = "map_campaign" /\ Goto(h, "map_save")
    /\ UNCHANGED <<scenario, experiments, index, campaign, call, answered, disturbed, ops, deaths>>

\* ... saved as a whole with the new Meta id, whatever is stored by now ...
MapCampaign(h) ==
    /\ pc[h] = "map_campaign"
    /\ campaign' = call[h].campaign
    /\ Goto(h, "map_save")
    /\ disturbed' = disturbed \cup (IF Others(h, {"map_save"}) # {} THEN {0} ELSE {})
    /\ UNCHANGED <<scenario, experiments, index, call, answered, ops, deaths>>

\* ... then the experiment.
MapSave(h) ==
    /\ pc[h] = "map_save"
    /\ Store(h)
    /\ disturbed' = disturbed \cup
          (IF \E f \in Ids \ {call[h].id} : experiments[f] # Absent THEN {0} ELSE {})
    /\ End(h)
    /\ UNCHANGED <<scenario, campaign, answered, ops, deaths>>

CampaignSave(h) ==
    /\ pc[h] = "campaign_save"
    /\ \E editable \in BOOLEAN : campaign' = [call[h].campaign EXCEPT !.editable = editable]
    /\ End(h)
    /\ disturbed' = disturbed \cup (IF campaign.ads # call[h].campaign.ads THEN {0} ELSE {})
    /\ UNCHANGED <<scenario, experiments, index, answered, ops, deaths>>

-----------------------------------------------------------------------------
(* read_source_observation.                                                *)

\* validate_tracking reads the experiment again ...
Tracking(h) ==
    /\ pc[h] = "tracking"
    /\ \E source \in {"ga4", "meta_ads"} :
          IF source = "ga4" THEN Goto(h, "await") /\ UNCHANGED call
          ELSE IF experiments[call[h].id].variants.ads = Unmapped THEN End(h)
          ELSE /\ Goto(h, "contract") /\ UNCHANGED call
    /\ UNCHANGED <<scenario, experiments, index, campaign, answered, disturbed, ops, deaths>>

\* ... and the campaign.
Contract(h) ==
    /\ pc[h] = "contract"
    /\ IF campaign.ads = Unmapped THEN End(h) ELSE Goto(h, "await") /\ UNCHANGED call
    /\ UNCHANGED <<scenario, experiments, index, campaign, answered, disturbed, ops, deaths>>

\* The source answers with rows of the variants that were asked for, maybe none,
\* and complete if all are there; or the read fails.
SourceAnswers(h) ==
    /\ pc[h] = "await"
    /\ \/ End(h)
       \/ \E ids \in (SUBSET call[h].plan.ids) \ {{}}, state \in {"verified_read_only", "partial"} :
             /\ state = "verified_read_only" => ids = call[h].plan.ids
             /\ Goto(h, "ingest")
             /\ call' = [call EXCEPT ![h].observation =
                  [id |-> @.id, ids |-> ids, state |-> state, quality |-> "pending_owner"]]
    /\ UNCHANGED <<scenario, experiments, index, campaign, answered, disturbed, ops, deaths>>

\* Mutated form: what was checked before the source was asked is not checked again.
IngestUnchecked(h) ==
    /\ pc[h] = "ingest"
    /\ Goto(h, "save")
    /\ call' = [call EXCEPT ![h].copy = Observed(experiments[call[h].id], call[h].observation)]
    /\ UNCHANGED <<scenario, experiments, index, campaign, answered, disturbed, ops, deaths>>

\* add_observation reads the experiment once more.
Ingest(h) ==
    LET m == experiments[call[h].id]  o == call[h].observation
    IN /\ pc[h] = "ingest"
       /\ IF MayObserve(m, o)
          THEN Goto(h, "save") /\ call' = [call EXCEPT ![h].copy = Observed(m, o)]
          ELSE End(h)
       /\ UNCHANGED <<scenario, experiments, index, campaign, answered, disturbed, ops, deaths>>

\* A Redis call raises, or the process dies.
HandlerDies(h) ==
    /\ pc[h] # "idle" /\ deaths < scenario.deaths
    /\ deaths' = deaths + 1
    /\ End(h)
    /\ disturbed' = disturbed \cup (IF pc[h] = "map_save" THEN {0} ELSE {})
    /\ UNCHANGED <<scenario, experiments, index, campaign, answered, ops>>

-----------------------------------------------------------------------------
Unjudged == {"verified_read_only", "partial"}

Request(h) ==
    \/ \E v \in Drafts : Create(h, v)
    \/ EditCampaign(h)
    \/ \E e \in Ids :
          \/ \E v \in Drafts : Update(h, e, v)
          \/ Preview(h, e) \/ RequestApproval(h, e) \/ ReadSource(h, e)
          \/ \E yes \in BOOLEAN : DecideApproval(h, e, yes)
          \/ \E ids \in (SUBSET Variants) \ {{}}, s \in Unjudged : AddObservation(h, e, ids, s)
          \/ \E ads \in Ads : ApplyMapping(h, e, ads)
          \/ /\ experiments[e] # Absent
             /\ \E o \in ToSet(experiments[e].observations) :
                   \/ \E yes \in BOOLEAN : DecideQuality(h, e, o, yes)
                   \/ \E v \in Verdicts : Evaluate(h, e, o, v)

Step(h) ==
    \/ Save(h) \/ MapReads(h) \/ MapCampaign(h) \/ MapSave(h) \/ CampaignSave(h)
    \/ Tracking(h) \/ Contract(h) \/ SourceAnswers(h) \/ Ingest(h) \/ HandlerDies(h)

Next == \E h \in Handlers : Request(h) \/ Step(h)

Spec == Init /\ [][Next]_vars

-----------------------------------------------------------------------------
(* Properties.                                                             *)
TypeOK ==
    /\ \A e \in Ids : experiments[e] = Absent \/ IsExperiment(experiments[e])
    /\ ToSet(index) \subseteq Ids /\ IsInjective(index)
    /\ campaign \in [editable : BOOLEAN, ads : Ads \cup {Unmapped}]
    /\ pc \in [Handlers -> HandlerStates]
    /\ \A h \in Handlers : pc[h] # "idle" => call[h] # NoCall
    /\ answered \subseteq Ids \X Nat /\ disturbed \subseteq 0..MaxExperiments
    /\ ops \in 0..scenario.ops /\ deaths \in 0..scenario.deaths

\* "Observation quality must be accepted by an owner before evaluation"
\* (experiments.py): whatever is decided, added or overwritten afterwards, a stored
\* evaluation rests on an observation the experiment still has and an owner still
\* accepts, and a winner candidate on verified evidence.
EvaluationRestsOnAccepted ==
    \A e \in Ids : experiments[e] # Absent /\ experiments[e].evaluation # None =>
        \E o \in ToSet(experiments[e].observations) :
            /\ o.id = experiments[e].evaluation.id /\ o.quality = "accepted"
            /\ experiments[e].evaluation.recommendation = "winner_candidate" =>
                  o.state = "verified_read_only"

\* "An update invalidates its previous preview"
\* (docs/PHASE_8_EXPERIMENT_OPTIMIZATION_OS.md): a preview always shows the plan it
\* is stored with, along every path that edits, maps and approves.
PreviewShowsPlan ==
    \A e \in Ids : experiments[e] # Absent /\ experiments[e].preview # NoPlan =>
        experiments[e].preview = experiments[e].variants

\* A plan that is created takes no other's id, unless creations overlap or there are
\* more experiments than the listing that the id is chosen from returns.
CreatesAreFresh ==
    \A h \in Handlers : pc[h] = "save" /\ call[h].creates =>
        \/ experiments[call[h].id] = Absent
        \/ call[h].id \in disturbed
        \/ Len(index) > ListLimit

\* Where requests on an experiment do not overlap, an observation that a client was
\* told is stored stays listed until as many newer ones as an experiment keeps.
ObservationsAreKept ==
    \A x \in answered :
        LET m == experiments[x[1]]
        IN \/ \E i \in DOMAIN m.observations : m.observations[i].id = x[2]
           \/ Len(m.observations) = Kept /\ \A i \in 1..Kept : m.observations[i].id > x[2]
           \/ x[1] \in disturbed \/ Len(index) > ListLimit

\* Evidence that is called verified covers the plan it is first stored with, although
\* that plan may be edited, mapped and overwritten while its source is being read.
VerifiedCoversPlan ==
    [][\A e \in Ids :
          experiments'[e] # experiments[e] =>
              \A i \in DOMAIN experiments'[e].observations :
                  LET o == experiments'[e].observations[i]
                  IN <<e, o.id>> \notin answered /\ o.state = "verified_read_only" =>
                         o.ids = experiments'[e].variants.ids]_vars

\* Where requests do not overlap, nobody gets around the owner: a plan is decided
\* only while it awaits the decision, and a rejected plan stays rejected.
DecidedByOwner ==
    [][\A e \in Ids :
          LET old == experiments[e].status  new == experiments'[e].status
          IN old # new /\ e \notin disturbed /\ Len(index) <= ListLimit =>
                /\ new \in {"approved", "rejected"} => old = "awaiting_approval"
                /\ old # "rejected"]_vars

\* The campaign and the experiment that were mapped together name the same ads,
\* unless a handler dies between the two saves, another request changes one of
\* them, or a further experiment of the campaign is mapped.
TrackingAgrees ==
    0 \notin disturbed /\ (\A h \in Handlers : pc[h] # "map_save") =>
        \A e \in Ids : experiments[e] # Absent => experiments[e].variants.ads \in {Unmapped, campaign.ads}

\* Every state is well typed; previews and tracking agree with their plans, and no
\* plan or observation that was stored is replaced.
Consistent ==
    /\ TypeOK
    /\ PreviewShowsPlan
    /\ TrackingAgrees
    /\ CreatesAreFresh
    /\ ObservationsAreKept
=============================================================================
