-------------------------- MODULE CampaignApproval --------------------------
(***************************************************************************)
(* The campaign planning control plane of the Agent Hub: the lifecycle of  *)
(* a campaign, its channel plans, the approval of them by scope and the    *)
(* audit trail.  Every route is a synchronous handler in a thread pool: it *)
(* reads the campaign, checks and changes its own copy, saves the copy     *)
(* without looking at what is stored by then, and appends to the audit.    *)
(*   source: services/agent_hub/npd_agent_hub/campaigns.py, main.py        *)
(***************************************************************************)
EXTENDS Naturals, FiniteSets

CONSTANTS
    Handlers,            \* threads that serve campaign routes
    MaxCampaigns,        \* bound: sequence numbers of one project and month (99)
    Channels,            \* channels that get a plan
    OtherScopes,         \* further scopes of the approval package (crm, ...)
    ExecutionEnabled,    \* CampaignService(execution_enabled=...)
    ListLimit,           \* how many campaigns of all names list_campaigns returns (1000)
    MaxOps, MaxDeaths, MaxOthers  \* bounds: requests, handler deaths, other campaigns

ASSUME ScopeAssumption ==
    /\ Channels \cap OtherScopes = {} /\ "campaign" \notin Channels \cup OtherScopes
    /\ MaxCampaigns \in Nat
ASSUME FlagAssumption ==
    /\ ExecutionEnabled \in BOOLEAN /\ ListLimit \in Nat
    /\ MaxOps \in Nat /\ MaxDeaths \in Nat /\ MaxOthers \in Nat

VARIABLES
    campaigns,  \* the stored campaign of each id, or Absent
    others,     \* how many campaigns of other names, projects or months are stored
    audit,      \* the last event of each campaign's audit trail, or NoEvent
    pc, call,   \* where each handler is, and its copy and pending event
    ops, deaths,
    overlapped  \* history: two requests were served at the same time

vars == <<campaigns, others, audit, pc, call, ops, deaths, overlapped>>

-----------------------------------------------------------------------------
Ids == 1..MaxCampaigns
Absent == [status |-> "absent"]
NoEvent == [type |-> "none"]
CampaignStatus == {"draft", "planned", "awaiting_approval", "approved",
    "ready_to_execute", "active", "paused", "completed", "cancelled"}
ApprovalState == {"not_requested", "awaiting_approval", "approved", "rejected"}
SIDE_EFFECT_STATUSES == {"active", "paused", "completed"}

ALLOWED_TRANSITIONS ==
    [s \in CampaignStatus |->
        IF s = "draft"                 THEN {"planned", "cancelled"}
        ELSE IF s = "planned"          THEN {"draft", "awaiting_approval", "cancelled"}
        ELSE IF s = "awaiting_approval" THEN {"planned", "approved", "cancelled"}
        ELSE IF s = "approved"         THEN {"ready_to_execute", "cancelled"}
        ELSE IF s = "ready_to_execute" THEN {"active", "cancelled"}
        ELSE IF s = "active"           THEN {"paused", "completed", "cancelled"}
        ELSE IF s = "paused"           THEN {"active", "completed", "cancelled"}
        ELSE {}]

\* Of a campaign's content only what the approvals depend on is kept; bypassed is
\* history: the campaign became approved through /transitions.
Plans     == [Channels -> ApprovalState]
Campaigns == [status : CampaignStatus, planned : BOOLEAN, bypassed : BOOLEAN, plans : Plans,
              package : [Channels \cup OtherScopes -> BOOLEAN]]
EventTypes == {"campaign_created", "campaign_updated", "channel_plans_refreshed",
               "campaign_meta_tracking_mapped", "approval_requested",
               "approval_decided", "status_transitioned"}
Events == [type : EventTypes, to : CampaignStatus]
NoCall == [id |-> 0]
Calls  == [id : Ids, copy : Campaigns, event : Events, brief : BOOLEAN]
HandlerStates == {"idle", "save", "audit", "resave", "replan"}

Stored == {i \in Ids : campaigns[i] # Absent}

TypeOK ==
    /\ campaigns \in [Ids -> Campaigns \cup {Absent}] /\ others \in 0..MaxOthers
    /\ audit \in [Ids -> Events \cup {NoEvent}]
    /\ pc \in [Handlers -> HandlerStates]
    /\ call \in [Handlers -> Calls \cup {NoCall}]
    /\ \A h \in Handlers : pc[h] # "idle" => call[h] \in Calls
    /\ ops \in 0..MaxOps /\ deaths \in 0..MaxDeaths /\ overlapped \in BOOLEAN

Init ==
    /\ campaigns = [i \in Ids |-> Absent] /\ others = 0
    /\ audit = [i \in Ids |-> NoEvent]
    /\ pc = [h \in Handlers |-> "idle"]
    /\ call = [h \in Handlers |-> NoCall]
    /\ ops = 0 /\ deaths = 0 /\ overlapped = FALSE

-----------------------------------------------------------------------------
(* What each operation does to the copy it read.                           *)
Unreviewed == [c \in Channels |-> "not_requested"]

NewCampaign ==
    [status |-> "draft", planned |-> FALSE, bypassed |-> FALSE, plans |-> Unreviewed,
     package |-> [s \in Channels \cup OtherScopes |-> FALSE]]

Editable(m) == m.status \in {"draft", "planned"}

\* Every plan is generated anew; the approval package is not touched.
Refreshed(m) ==
    [m EXCEPT !.status = "planned", !.planned = TRUE, !.plans = Unreviewed]

\* The channels of the plans that a scope names; a plan exists once planned.
Matching(m, scope) ==
    IF m.planned THEN {c \in Channels : scope \in {"campaign", c}} ELSE {}

Requested(m, scope) ==
    [m EXCEPT !.status = "awaiting_approval",
              !.plans = [c \in Channels |->
                  IF c \in Matching(m, scope)
                  THEN "awaiting_approval" ELSE @[c]]]

DecidedPlans(m, scope, approved) ==
    [c \in Channels |->
        IF c \in Matching(m, scope)
        THEN IF approved THEN "approved" ELSE "rejected"
        ELSE m.plans[c]]

DecidedPackage(m, scope, approved) ==
    [s \in Channels \cup OtherScopes |->
        IF scope \in {"campaign", s} THEN approved ELSE m.package[s]]

\* Mutated form: the requirements of the package are not updated.
DecidedPlansOnly(m, scope, approved) ==
    LET plans == DecidedPlans(m, scope, approved)
        all == scope = "campaign" \/ \A c \in Channels : plans[c] = "approved"
    IN [m EXCEPT !.status = IF approved /\ all THEN "approved" ELSE "planned",
                 !.plans = plans]

\* Mutated form: one approved channel approves the campaign.
DecidedByAnyChannel(m, scope, approved) ==
    [m EXCEPT !.status = IF approved THEN "approved" ELSE "planned",
              !.plans = DecidedPlans(m, scope, approved),
              !.package = DecidedPackage(m, scope, approved)]

\* Mutated form: a rejection sets the campaign to the ApprovalState of its plans.
DecidedToRejected(m, scope, approved) ==
    [m EXCEPT !.status = IF approved THEN "planned" ELSE "rejected",
              !.plans = DecidedPlans(m, scope, approved),
              !.package = DecidedPackage(m, scope, approved)]

Decided(m, scope, approved) ==
    LET plans == DecidedPlans(m, scope, approved)
        all == scope = "campaign" \/ \A c \in Channels : plans[c] = "approved"
    IN [m EXCEPT !.status = IF approved /\ all THEN "approved" ELSE "planned",
                 !.plans = plans,
                 !.package = DecidedPackage(m, scope, approved)]

\* Mutated form: execution_enabled is not consulted.
MayEnterAny(target) == TRUE

\* Owner authority only bars SIDE_EFFECT_STATUSES to operators: some caller has it.
\* Any operator may post the target "approved".
MayEnter(target) == target = "active" => ExecutionEnabled

Moved(m, target) ==
    [m EXCEPT !.status = target, !.bypassed = @ \/ target = "approved"]

-----------------------------------------------------------------------------
(* The reading half of each route: get, check, change the copy.            *)
Prepare(h, i, type, copy, brief) ==
    /\ pc' = [pc EXCEPT ![h] = "save"]
    /\ call' = [call EXCEPT ![h] = [id |-> i, copy |-> copy, brief |-> brief,
                                    event |-> [type |-> type, to |-> copy.status]]]
    /\ UNCHANGED <<campaigns, others, audit, deaths>>

Accept(h) ==
    /\ pc[h] = "idle" /\ ops < MaxOps
    /\ ops' = ops + 1
    /\ overlapped' = (overlapped \/ \E g \in Handlers : pc[g] # "idle")

\* Mutated form: the first number is taken without looking at the list.
NextIdFirst(i) == i = 1

\* There are more campaigns than one listing returns.
Crowded == Cardinality(Stored) + others > ListLimit

\* Of the campaigns of this name list_campaigns returns all, or those that are among
\* the last updated of all names: the updates of the others decide which.
Listings ==
    IF Crowded
    THEN {L \in SUBSET Stored : Cardinality(L) <= ListLimit
                                 /\ Cardinality(L) + others >= ListLimit}
    ELSE {Stored}

\* _next_id: the first number that no listed campaign uses.
NextId(i) == \E L \in Listings : i \notin L /\ \A k \in 1..(i - 1) : k \in L

\* create and, with brief, the first part of create_from_brief.
Create(h) ==
    /\ Accept(h)
    /\ \E i \in Ids, brief \in BOOLEAN :
        NextId(i) /\ Prepare(h, i, "campaign_created", NewCampaign, brief)

\* An edit touches no status and no approval; like the others it saves the whole copy.
UpdateDraft(h, i) ==
    /\ Accept(h)
    /\ campaigns[i] # Absent /\ Editable(campaigns[i])
    /\ Prepare(h, i, "campaign_updated", campaigns[i], FALSE)

\* The route of an experiment that maps it to Meta ids: it sets attribution_refs
\* of its campaign, which is read and saved as a whole like in any other route.
MapTracking(h, i) ==
    /\ Accept(h)
    /\ campaigns[i] # Absent /\ Editable(campaigns[i])
    /\ Prepare(h, i, "campaign_meta_tracking_mapped", campaigns[i], FALSE)

RefreshPlans(h, i) ==
    /\ Accept(h)
    /\ campaigns[i] # Absent /\ Editable(campaigns[i])
    /\ Prepare(h, i, "channel_plans_refreshed", Refreshed(campaigns[i]), FALSE)

RequestApproval(h, i, scope) ==
    /\ Accept(h)
    /\ campaigns[i] # Absent /\ campaigns[i].status = "planned"
    /\ scope # "campaign" => campaigns[i].planned
    /\ Prepare(h, i, "approval_requested", Requested(campaigns[i], scope), FALSE)

DecideApproval(h, i, scope, approved) ==
    /\ Accept(h)
    /\ campaigns[i] # Absent /\ campaigns[i].status = "awaiting_approval"
    /\ Matching(campaigns[i], scope) # {}
    /\ Prepare(h, i, "approval_decided", Decided(campaigns[i], scope, approved), FALSE)

\* Mutated form: the table is not consulted.
TransitionAnywhere(h, i, target) ==
    /\ Accept(h)
    /\ campaigns[i] # Absent /\ MayEnter(target)
    /\ Prepare(h, i, "status_transitioned", Moved(campaigns[i], target), FALSE)

Transition(h, i, target) ==
    /\ Accept(h)
    /\ campaigns[i] # Absent
    /\ target \in ALLOWED_TRANSITIONS[campaigns[i].status] /\ MayEnter(target)
    /\ Prepare(h, i, "status_transitioned", Moved(campaigns[i], target), FALSE)

-----------------------------------------------------------------------------
(* The writing half.                                                       *)
Goto(h, p) == pc' = [pc EXCEPT ![h] = p]

End(h) == Goto(h, "idle") /\ call' = [call EXCEPT ![h] = NoCall]

\* save_campaign: SET of the whole record, whatever is stored by now.
Save(h) ==
    /\ pc[h] = "save"
    /\ campaigns' = [campaigns EXCEPT ![call[h].id] = call[h].copy]
    /\ Goto(h, "audit")
    /\ UNCHANGED <<others, audit, call, ops, deaths, overlapped>>

\* Mutated form: a decision is not appended.
AppendAuditNotDecisions(h) ==
    /\ pc[h] = "audit"
    /\ audit' = IF call[h].event.type = "approval_decided" THEN audit
                ELSE [audit EXCEPT ![call[h].id] = call[h].event]
    /\ IF call[h].brief THEN Goto(h, "resave") /\ UNCHANGED call ELSE End(h)
    /\ UNCHANGED <<campaigns, others, ops, deaths, overlapped>>

AppendAudit(h) ==
    /\ pc[h] = "audit"
    /\ audit' = [audit EXCEPT ![call[h].id] = call[h].event]
    /\ IF call[h].brief THEN Goto(h, "resave") /\ UNCHANGED call ELSE End(h)
    /\ UNCHANGED <<campaigns, others, ops, deaths, overlapped>>

\* create_from_brief saves the draft once more, with the text of the brief.
SaveBrief(h) ==
    /\ pc[h] = "resave"
    /\ campaigns' = [campaigns EXCEPT ![call[h].id] = call[h].copy]
    /\ Goto(h, "replan")
    /\ UNCHANGED <<others, audit, call, ops, deaths, overlapped>>

\* ... and then refreshes the plans, or refuses when it is no longer a draft.
PlanBrief(h) ==
    /\ pc[h] = "replan"
    /\ LET i == call[h].id
       IN IF Editable(campaigns[i])
          THEN Prepare(h, i, "channel_plans_refreshed", Refreshed(campaigns[i]), FALSE)
          ELSE End(h) /\ UNCHANGED <<campaigns, others, audit, deaths>>
    /\ UNCHANGED <<ops, overlapped>>

\* A Redis call raises, or the process dies, between two steps of a handler.
HandlerDies(h) ==
    /\ pc[h] # "idle" /\ deaths < MaxDeaths
    /\ deaths' = deaths + 1
    /\ End(h)
    /\ UNCHANGED <<campaigns, others, audit, ops, overlapped>>

\* A campaign of another name, project or month is created: it shares only the listing.
CreateOther ==
    /\ others < MaxOthers
    /\ others' = others + 1
    /\ UNCHANGED <<campaigns, audit, pc, call, ops, deaths, overlapped>>

Scopes == Channels \cup {"campaign"}

Route(h) ==
    \/ Create(h)
    \/ \E i \in Ids :
        \/ UpdateDraft(h, i)
        \/ MapTracking(h, i)
        \/ RefreshPlans(h, i)
        \/ \E scope \in Scopes : RequestApproval(h, i, scope)
        \/ \E scope \in Scopes, approved \in BOOLEAN : DecideApproval(h, i, scope, approved)
        \/ \E target \in CampaignStatus : Transition(h, i, target)

Write(h) == Save(h) \/ AppendAudit(h) \/ SaveBrief(h) \/ PlanBrief(h) \/ HandlerDies(h)

Next == CreateOther \/ \E h \in Handlers : Route(h) \/ Write(h)

Spec == Init /\ [][Next]_vars

-----------------------------------------------------------------------------
(* Properties.                                                             *)

\* A campaign that reached approved, or went on from there, has plans, and the
\* owner approved each of them: channel by channel, as a whole, or both mixed.
\* The exception is a campaign that was moved to approved through /transitions, which
\* any operator may do without a decision; its mark only that route sets.
ApprovedOnDecision ==
    \A i \in {k \in Stored : ~ campaigns[k].bypassed} :
        campaigns[i].status \in {"approved", "ready_to_execute"} \cup SIDE_EFFECT_STATUSES
            => /\ campaigns[i].planned
               /\ \A c \in Channels : campaigns[i].plans[c] = "approved"

\* Whatever the interleaving, an approved plan stands in the approval package.
PlansMatchPackage ==
    \A i \in Stored, c \in Channels :
        campaigns[i].plans[c] = "approved" => campaigns[i].package[c]

\* "In Phase 6B, transition to active is rejected even for an owner": with
\* execution disabled none of the states behind it is reached either.
SideEffectsUnreachable ==
    ~ ExecutionEnabled =>
        \A i \in Stored : campaigns[i].status \notin SIDE_EFFECT_STATUSES

\* "Invalid transitions are rejected": as long as no two requests were served
\* at once, and the campaigns fit one listing, the stored status only moves along
\* ALLOWED_TRANSITIONS.
LifecycleRespected ==
    [][~ overlapped /\ ~ Crowded =>
        \A i \in Stored :
            \/ campaigns'[i].status = campaigns[i].status
            \/ campaigns'[i].status \in ALLOWED_TRANSITIONS[campaigns[i].status]]_vars

\* Nor does then a create that is about to save its draft replace a campaign.  Beyond
\* one listing it may: a campaign that is not listed leaves its number free.
CreatesAreFresh ==
    ~ overlapped /\ ~ Crowded =>
        \A h \in Handlers :
            pc[h] = "save" /\ call[h].event.type = "campaign_created"
                => campaigns[call[h].id] = Absent

\* "Every create, plan refresh, update, approval and transition is appended to
\* audit": between requests the trail of a campaign ends in its status, as long
\* as no two of them overlapped and no handler died before its event.
AuditMatchesStatus ==
    deaths = 0 /\ ~ overlapped /\ (\A h \in Handlers : pc[h] = "idle") =>
        \A i \in Stored : audit[i] # NoEvent /\ audit[i].to = campaigns[i].status

\* Every state is well typed, approvals and package agree, nothing is executed while
\* execution is disabled, and requests that do not overlap take fresh ids and leave
\* an audit trail that tells the status.
Consistent ==
    /\ TypeOK
    /\ PlansMatchPackage
    /\ SideEffectsUnreachable
    /\ CreatesAreFresh
    /\ AuditMatchesStatus
=============================================================================
