------------------------ MODULE OwnerApprovalProofs -------------------------
(***************************************************************************)
(* What the owner approves, for any number of campaigns, channels, actions *)
(* and requests: theorems of CampaignApproval and, in the second part, of  *)
(* ActionExecution.  In both, requests work on copies of whole records and *)
(* save them late, so the arguments speak of single records: a stored      *)
(* campaign is a copy that one operation made of an earlier stored one, a  *)
(* property of single records that every operation preserves (Sound) holds *)
(* of all of them; and the report, its stored copy and every serialised    *)
(* copy of it satisfy one predicate (Granted, Listed), so neither a late   *)
(* store nor a restart can break it.                                       *)
(***************************************************************************)
EXTENDS CampaignApproval, ActionExecution, FiniteSetTheorems, TLAPS

\* What every operation preserves of a campaign record.
Sound(m) ==
    /\ m \in Campaigns
    /\ \A c \in Channels : m.plans[c] = "approved" => m.package[c]
    /\ ~ ExecutionEnabled => m.status \notin SIDE_EFFECT_STATUSES
    /\ ~ m.bypassed =>
        (m.status \in {"approved", "ready_to_execute"} \cup SIDE_EFFECT_STATUSES
            => m.planned /\ \A c \in Channels : m.plans[c] = "approved")

\* The inductive invariant.
Base ==
    /\ TypeOK
    /\ \A i \in Stored : Sound(campaigns[i])
    /\ \A h \in Handlers : pc[h] # "idle" => Sound(call[h].copy)

\* A stored campaign is a campaign record.
LEMMA StoredIsCampaign ==
    ASSUME TypeOK, NEW i \in Ids, campaigns[i] # Absent PROVE campaigns[i] \in Campaigns
BY DEF TypeOK

-----------------------------------------------------------------------------
(* The operations preserve Sound.                                          *)

\* A new campaign has no approval.
LEMMA NewSound == Sound(NewCampaign)
BY FlagAssumption DEF Sound, NewCampaign, Unreviewed, Campaigns, Plans, ApprovalState,
    CampaignStatus, SIDE_EFFECT_STATUSES

\* A refresh takes every plan's approval back.
LEMMA RefreshedSound == ASSUME NEW m, Sound(m) PROVE Sound(Refreshed(m))
<1> DEFINE r == Refreshed(m)
<1>1. Unreviewed \in Plans BY FlagAssumption DEF Unreviewed, Plans, ApprovalState
<1>2. r \in Campaigns /\ r.status = "planned" /\ r.plans = Unreviewed
      BY <1>1 DEF Refreshed, Sound, Campaigns, CampaignStatus
<1>3. \A c \in Channels : Unreviewed[c] # "approved" BY DEF Unreviewed
<1> HIDE DEF r
<1> QED BY <1>2, <1>3 DEF Sound, SIDE_EFFECT_STATUSES, r

\* A request leaves the approved plans it does not name as they are.
LEMMA RequestedSound ==
    ASSUME NEW m, Sound(m), NEW scope PROVE Sound(Requested(m, scope))
<1> DEFINE r == Requested(m, scope)
<1>1. r.plans \in Plans
      BY DEF Sound, Requested, Matching, Campaigns, Plans, ApprovalState
<1>2. r \in Campaigns
      BY <1>1 DEF Sound, Requested, Campaigns, CampaignStatus
<1>3. \A c \in Channels : r.plans[c] = "approved" => r.package[c]
  <2> SUFFICES ASSUME NEW c \in Channels, r.plans[c] = "approved" PROVE r.package[c]
      OBVIOUS
  <2>2. r.package = m.package BY DEF Requested, Sound, Campaigns
  <2>3. r.plans[c] = IF c \in Matching(m, scope)
                     THEN "awaiting_approval" ELSE m.plans[c]
        BY DEF Requested, Sound, Campaigns
  <2>4. m.plans[c] = "approved" BY <2>3
  <2> QED BY <2>2, <2>4 DEF Sound
<1> QED BY <1>2, <1>3 DEF Sound, Requested, Campaigns, SIDE_EFFECT_STATUSES

\* A decision writes the plans and the requirements of its scope together, and
\* approves the campaign only with all of its plans.
LEMMA DecidedSound ==
    ASSUME NEW m, Sound(m), NEW scope \in Scopes, NEW approved \in BOOLEAN,
           Matching(m, scope) # {}
    PROVE  Sound(Decided(m, scope, approved))
<1> DEFINE plans == DecidedPlans(m, scope, approved)
           package == DecidedPackage(m, scope, approved)
           complete == \A c \in Channels : plans[c] = "approved"
           d == Decided(m, scope, approved)
<1>1. /\ d.plans = plans /\ d.package = package
      /\ d.planned = m.planned
      /\ d.status = IF approved /\ (scope = "campaign" \/ complete)
                    THEN "approved" ELSE "planned"
      BY DEF Decided, Sound, Campaigns
<1>2. m.planned BY DEF Matching
<1>3. \A c \in Channels : c \in Matching(m, scope) <=> scope \in {"campaign", c}
      BY <1>2 DEF Matching
<1>5. d \in Campaigns
  <2>1. plans \in Plans BY DEF DecidedPlans, Sound, Campaigns, Plans, ApprovalState
  <2>2. package \in [Channels \cup OtherScopes -> BOOLEAN]
        BY DEF DecidedPackage, Sound, Campaigns
  <2> DEFINE status == IF approved /\ (scope = "campaign" \/ complete)
                       THEN "approved" ELSE "planned"
  <2>3. d = [m EXCEPT !.status = status, !.plans = plans, !.package = package]
        BY DEF Decided
  <2>4. status \in CampaignStatus BY DEF CampaignStatus
  <2> HIDE DEF plans, package, d, status
  <2> QED BY <2>1, <2>2, <2>3, <2>4 DEF Sound, Campaigns
<1>6. \A c \in Channels : d.plans[c] = "approved" => d.package[c]
  <2> SUFFICES ASSUME NEW c \in Channels, plans[c] = "approved" PROVE package[c]
      BY <1>1
  <2>1. CASE c \in Matching(m, scope)
    <3>1. approved BY <2>1 DEF DecidedPlans
    <3> QED BY <3>1, <2>1, <1>3 DEF DecidedPackage
  <2>2. CASE c \notin Matching(m, scope)
    <3>1. m.plans[c] = "approved" BY <2>2 DEF DecidedPlans
    <3> QED BY <3>1, <2>2, <1>3 DEF Sound, DecidedPackage
  <2> QED BY <2>1, <2>2
<1>7. d.status = "approved" => d.planned /\ \A c \in Channels : d.plans[c] = "approved"
  <2> SUFFICES ASSUME d.status = "approved" PROVE \A c \in Channels : plans[c] = "approved"
      BY <1>1, <1>2
  <2>1. approved /\ (scope = "campaign" \/ complete) BY <1>1
  <2>2. CASE scope = "campaign" BY <2>1, <2>2, <1>3 DEF DecidedPlans
  <2>3. CASE complete BY <2>3
  <2> QED BY <2>1, <2>2, <2>3
<1>8. d.status \in {"approved", "planned"} BY <1>1
<1> HIDE DEF d
<1>9. Sound(d) BY <1>5, <1>6, <1>7, <1>8 DEF Sound, SIDE_EFFECT_STATUSES
<1> QED BY <1>9 DEF d

\* A transition changes the status only, and only as MayEnter allows.
LEMMA MovedSound ==
    ASSUME NEW m, Sound(m), NEW target \in CampaignStatus,
           target \in ALLOWED_TRANSITIONS[m.status], MayEnter(target)
    PROVE  Sound(Moved(m, target))
<1> DEFINE t == Moved(m, target)
<1>1. /\ t \in Campaigns /\ t.status = target
      /\ t.plans = m.plans /\ t.package = m.package /\ t.planned = m.planned
      /\ t.bypassed = (m.bypassed \/ target = "approved")
  <2> DEFINE mark == m.bypassed \/ target = "approved"
  <2>1. mark \in BOOLEAN OBVIOUS
  <2>2. t = [m EXCEPT !.status = target, !.bypassed = mark] BY DEF Moved
  <2> HIDE DEF mark, t
  <2>3. /\ t \in Campaigns /\ t.status = target /\ t.bypassed = mark
        /\ t.plans = m.plans /\ t.package = m.package /\ t.planned = m.planned
        BY <2>1, <2>2 DEF Sound, Campaigns
  <2> QED BY <2>3 DEF mark
<1>2. m.status \in CampaignStatus BY DEF Sound, Campaigns
<1>3. target \in {"ready_to_execute"} \cup SIDE_EFFECT_STATUSES
        => m.status \in {"approved", "ready_to_execute"} \cup SIDE_EFFECT_STATUSES
      BY <1>2 DEF ALLOWED_TRANSITIONS, CampaignStatus, SIDE_EFFECT_STATUSES
<1>4. target \in {"paused", "completed"} => m.status \in SIDE_EFFECT_STATUSES
      BY <1>2 DEF ALLOWED_TRANSITIONS, CampaignStatus, SIDE_EFFECT_STATUSES
<1> HIDE DEF t
<1>5. Sound(t)
      BY <1>1, <1>3, <1>4 DEF Sound, MayEnter, SIDE_EFFECT_STATUSES
<1> QED BY <1>5 DEF t
-----------------------------------------------------------------------------
(* The invariant.                                                          *)

LEMMA BaseInit == Init => Base
<1> SUFFICES ASSUME Init PROVE Base OBVIOUS
<1>1. ops \in 0..MaxOps /\ deaths \in 0..MaxDeaths BY FlagAssumption DEF Init
<1>2. overlapped \in BOOLEAN BY DEF Init
<1>3. TypeOK BY <1>1, <1>2, FlagAssumption DEF Init, TypeOK, HandlerStates
<1>4. \A i \in Ids : campaigns[i] = Absent BY DEF Init
<1>5. \A h \in Handlers : pc[h] = "idle" BY DEF Init
<1> QED BY <1>3, <1>4, <1>5 DEF Base, Stored

\* Preparing a sound copy keeps the invariant.
LEMMA PrepareSafe ==
    ASSUME Base, NEW h \in Handlers, NEW i \in Ids, NEW type \in EventTypes,
           NEW copy, Sound(copy), NEW brief \in BOOLEAN,
           Prepare(h, i, type, copy, brief), ops' \in 0..MaxOps, overlapped' \in BOOLEAN
    PROVE  Base'
<1>1. [id |-> i, copy |-> copy, brief |-> brief,
       event |-> [type |-> type, to |-> copy.status]] \in Calls
      BY DEF Sound, Campaigns, Calls, Events
<1>2. TypeOK'
      BY <1>1 DEF Base, TypeOK, Prepare, HandlerStates
<1>3. \A i2 \in Stored' : Sound(campaigns[i2])' BY DEF Base, Stored, Prepare, Sound
<1>4. \A g \in Handlers : pc'[g] # "idle" => Sound(call'[g].copy)
      BY DEF Base, TypeOK, Prepare
<1> QED BY <1>2, <1>3, <1>4 DEF Base, Sound

\* A handler that ends keeps it.
LEMMA EndSafe ==
    ASSUME Base, NEW h \in Handlers, End(h), UNCHANGED <<campaigns, others>>,
           audit' \in [Ids -> Events \cup {NoEvent}],
           ops' \in 0..MaxOps, deaths' \in 0..MaxDeaths, overlapped' \in BOOLEAN
    PROVE  Base'
<1>1. TypeOK' BY DEF Base, TypeOK, End, Goto, HandlerStates
<1>2. \A i \in Stored' : Sound(campaigns'[i]) BY DEF Base, Stored
<1>3. \A g \in Handlers : pc'[g] # "idle" => Sound(call'[g].copy)
      BY DEF Base, TypeOK, End, Goto
<1> QED BY <1>1, <1>2, <1>3 DEF Base

\* Storing the copy of a handler keeps it.
LEMMA StoreSafe ==
    ASSUME Base, NEW h \in Handlers, pc[h] # "idle", NEW p \in HandlerStates \ {"idle"},
           campaigns' = [campaigns EXCEPT ![call[h].id] = call[h].copy],
           Goto(h, p), UNCHANGED <<others, audit, call, ops, deaths, overlapped>>
    PROVE  Base'
<1>1. call[h] \in Calls /\ Sound(call[h].copy) BY DEF Base, TypeOK
<1>2. call[h].id \in Ids /\ call[h].copy \in Campaigns BY <1>1 DEF Calls
<1>3. TypeOK' BY <1>2 DEF Base, TypeOK, Goto
<1>4. \A i \in Stored' : Sound(campaigns'[i])
      BY <1>1, <1>2 DEF Base, TypeOK, Stored
<1>5. \A g \in Handlers : pc'[g] # "idle" => Sound(call'[g].copy)
      BY DEF Base, TypeOK, Goto
<1> QED BY <1>3, <1>4, <1>5 DEF Base

\* Accepting a request keeps the types of the counters.
LEMMA AcceptTyped ==
    ASSUME Base, NEW h \in Handlers, Accept(h)
    PROVE  ops' \in 0..MaxOps /\ overlapped' \in BOOLEAN
<1>1. ops' \in 0..MaxOps BY FlagAssumption DEF Accept, Base, TypeOK
<1>2. overlapped' \in BOOLEAN BY Zenon DEF Accept
<1> QED BY <1>1, <1>2

\* Every request keeps it: it prepares a copy that its operation made.
LEMMA RouteSafe == ASSUME Base, NEW h \in Handlers, Route(h) PROVE Base'
<1>1. CASE Create(h)
  <2>1. ops' \in 0..MaxOps /\ overlapped' \in BOOLEAN BY <1>1, AcceptTyped DEF Create
  <2> QED BY <1>1, <2>1, NewSound, PrepareSafe DEF Create, EventTypes
<1>2. ASSUME NEW i \in Ids,
             \/ UpdateDraft(h, i) \/ MapTracking(h, i) \/ RefreshPlans(h, i)
             \/ \E scope \in Scopes : RequestApproval(h, i, scope)
             \/ \E scope \in Scopes, approved \in BOOLEAN :
                    DecideApproval(h, i, scope, approved)
             \/ \E target \in CampaignStatus : Transition(h, i, target)
      PROVE  Base'
  <2>0. Accept(h)
        BY <1>2 DEF UpdateDraft, MapTracking, RefreshPlans, RequestApproval,
           DecideApproval, Transition
  <2>1. ops' \in 0..MaxOps /\ overlapped' \in BOOLEAN BY <2>0, AcceptTyped
  <2>2. Sound(campaigns[i])
        BY <1>2 DEF UpdateDraft, MapTracking, RefreshPlans, RequestApproval,
           DecideApproval, Transition, Base, Stored
  <2>3. CASE UpdateDraft(h, i)
        BY <2>1, <2>2, <2>3, PrepareSafe DEF UpdateDraft, EventTypes
  <2>4. CASE RefreshPlans(h, i)
        BY <2>1, <2>2, <2>4, RefreshedSound, PrepareSafe DEF RefreshPlans, EventTypes
  <2>5. ASSUME NEW scope \in Scopes, RequestApproval(h, i, scope) PROVE Base'
        BY <2>1, <2>2, <2>5, RequestedSound, PrepareSafe DEF RequestApproval, EventTypes
  <2>6. ASSUME NEW scope \in Scopes, NEW approved \in BOOLEAN,
               DecideApproval(h, i, scope, approved)
        PROVE  Base'
        BY <2>1, <2>2, <2>6, DecidedSound, PrepareSafe DEF DecideApproval, EventTypes
  <2>7. ASSUME NEW target \in CampaignStatus, Transition(h, i, target) PROVE Base'
        BY <2>1, <2>2, <2>7, MovedSound, PrepareSafe DEF Transition, EventTypes
  <2>8. CASE MapTracking(h, i)
        BY <2>1, <2>2, <2>8, PrepareSafe DEF MapTracking, EventTypes
  <2> QED BY <1>2, <2>3, <2>4, <2>5, <2>6, <2>7, <2>8
<1> QED BY <1>1, <1>2 DEF Route

\* Every write keeps it: it stores a sound copy, or only moves the handler on.
LEMMA WriteSafe == ASSUME Base, NEW h \in Handlers, Write(h) PROVE Base'
<1> SUFFICES ASSUME pc[h] # "idle" PROVE Base'
    BY DEF Write, Save, AppendAudit, SaveBrief, PlanBrief, HandlerDies
<1>0. /\ call[h] \in Calls /\ call[h].id \in Ids
      /\ ops \in 0..MaxOps /\ deaths \in 0..MaxDeaths /\ overlapped \in BOOLEAN
      /\ audit \in [Ids -> Events \cup {NoEvent}]
      BY DEF Base, TypeOK, Calls
<1>1. CASE Save(h) BY <1>1, StoreSafe DEF Save, HandlerStates
<1>2. CASE AppendAudit(h)
  <2>1. audit' \in [Ids -> Events \cup {NoEvent}] BY <1>0, <1>2 DEF AppendAudit, Calls
  <2>2. CASE End(h) BY <1>0, <1>2, <2>1, <2>2, EndSafe DEF AppendAudit
  <2>3. CASE Goto(h, "resave") /\ UNCHANGED call
    <3>1. TypeOK' BY <1>2, <2>1, <2>3 DEF Base, TypeOK, AppendAudit, Goto, HandlerStates
    <3>2. \A i \in Stored' : Sound(campaigns'[i]) BY <1>2 DEF Base, Stored, AppendAudit
    <3>3. \A g \in Handlers : pc'[g] # "idle" => Sound(call'[g].copy)
          BY <2>3 DEF Base, TypeOK, Goto
    <3> QED BY <3>1, <3>2, <3>3 DEF Base
  <2> QED BY <1>2, <2>2, <2>3 DEF AppendAudit
<1>3. CASE SaveBrief(h) BY <1>3, StoreSafe DEF SaveBrief, HandlerStates
<1>4. CASE PlanBrief(h)
  <2>1. CASE Editable(campaigns[call[h].id])
    <3>1. campaigns[call[h].id] # Absent BY <2>1 DEF Editable, Absent
    <3>2. Sound(campaigns[call[h].id]) BY <1>0, <3>1 DEF Base, Stored
    <3>3. Prepare(h, call[h].id, "channel_plans_refreshed",
                  Refreshed(campaigns[call[h].id]), FALSE)
          BY <1>4, <2>1 DEF PlanBrief
    <3> QED BY <1>0, <1>4, <3>2, <3>3, RefreshedSound, PrepareSafe
            DEF PlanBrief, EventTypes
  <2>2. CASE ~ Editable(campaigns[call[h].id])
        BY <1>0, <1>4, <2>2, EndSafe DEF PlanBrief
  <2> QED BY <2>1, <2>2
<1>5. CASE HandlerDies(h)
  <2>1. deaths' \in 0..MaxDeaths BY <1>0, <1>5, FlagAssumption DEF HandlerDies
  <2> QED BY <1>0, <1>5, <2>1, EndSafe DEF HandlerDies
<1> QED BY <1>1, <1>2, <1>3, <1>4, <1>5 DEF Write

LEMMA BaseStep == Base /\ [Next]_vars => Base'
<1> SUFFICES ASSUME Base, [Next]_vars PROVE Base' OBVIOUS
<1>1. CASE UNCHANGED vars BY <1>1 DEF vars, Base, TypeOK, Stored
<1>2. ASSUME NEW h \in Handlers, Route(h) PROVE Base' BY <1>2, RouteSafe
<1>3. ASSUME NEW h \in Handlers, Write(h) PROVE Base' BY <1>3, WriteSafe
<1>4. CASE CreateOther
      BY <1>4, FlagAssumption DEF CreateOther, Base, TypeOK, Stored
<1> QED BY <1>1, <1>2, <1>3, <1>4 DEF Next

THEOREM BaseHolds == Spec => []Base
BY BaseInit, BaseStep, PTL DEF Spec

-----------------------------------------------------------------------------
(* What it gives.                                                          *)

\* Every variable keeps its type, for any number of handlers and campaigns.
THEOREM TypeCorrect == Spec => []TypeOK
<1>1. Base => TypeOK BY DEF Base
<1> QED BY <1>1, BaseHolds, PTL

\* Under any interleaving of lost updates, a campaign that was not moved there by
\* /transitions counts as approved only with every one of its plans approved.
THEOREM ApprovalIsDecided == Spec => []ApprovedOnDecision
<1>1. Base => ApprovedOnDecision BY DEF Base, Sound, ApprovedOnDecision
<1> QED BY <1>1, BaseHolds, PTL

\* Plans and the approval package never disagree on an approved plan.
THEOREM PackageAgrees == Spec => []PlansMatchPackage
<1>1. Base => PlansMatchPackage BY DEF Base, Sound, PlansMatchPackage
<1> QED BY <1>1, BaseHolds, PTL

\* With execution disabled no campaign is ever active, paused or completed.
THEOREM NothingExecutes == Spec => []SideEffectsUnreachable
<1>1. Base => SideEffectsUnreachable BY DEF Base, Sound, SideEffectsUnreachable
<1> QED BY <1>1, BaseHolds, PTL

-----------------------------------------------------------------------------
(* One request at a time.                                                  *)
Follows(old, new) ==
    old # Absent => new.status = old.status \/ new.status \in ALLOWED_TRANSITIONS[old.status]

\* Where no other handler writes, what h saved is what is stored ...
InStep(h) == pc[h] \in {"audit", "resave"} => campaigns[call[h].id] = call[h].copy

\* ... and what it is about to save is a legal successor of that, where the create
\* saw every campaign.
Legal(h) ==
    pc[h] = "save" =>
        /\ Follows(campaigns[call[h].id], call[h].copy)
        /\ call[h].event.type = "campaign_created" => campaigns[call[h].id] = Absent

\* A prepared legal successor is in step.
LEMMA PrepareInStep ==
    ASSUME Base, NEW h \in Handlers, NEW i \in Ids, NEW type, NEW copy, NEW brief,
           Prepare(h, i, type, copy, brief), ~ Crowded => Follows(campaigns[i], copy),
           type = "campaign_created" /\ ~ Crowded => campaigns[i] = Absent
    PROVE  InStep(h)' /\ (~ Crowded => Legal(h)')
<1>1. /\ pc'[h] = "save" /\ campaigns' = campaigns
      /\ call'[h].id = i /\ call'[h].copy = copy /\ call'[h].event.type = type
      BY DEF Prepare, Base, TypeOK
<1> QED BY <1>1 DEF InStep, Legal

\* Campaigns are never removed, so once there are more than one listing returns there
\* always are.
LEMMA CrowdedStays == Base /\ [Next]_vars /\ Crowded => Crowded'
<1> SUFFICES ASSUME Base, [Next]_vars, Crowded PROVE Crowded' OBVIOUS
<1>1. others \in Nat /\ others' \in Nat /\ others' >= others
      BY FlagAssumption
         DEF Base, TypeOK, Next, vars, CreateOther, Route, Write, Create, UpdateDraft,
             MapTracking, RefreshPlans, RequestApproval, DecideApproval, Transition, Prepare,
             Save, AppendAudit, SaveBrief, PlanBrief, HandlerDies
<1>2. Stored \subseteq Stored'
  <2>1. Absent \notin Campaigns BY DEF Absent, Campaigns, CampaignStatus
  <2>2. CASE UNCHANGED campaigns BY <2>2 DEF Stored
  <2>3. ASSUME NEW h \in Handlers, Save(h) \/ SaveBrief(h) PROVE Stored \subseteq Stored'
    <3>1. call[h].copy \in Campaigns
          BY <2>3 DEF Save, SaveBrief, Base, Sound
    <3> QED BY <2>1, <2>3, <3>1 DEF Save, SaveBrief, Stored, Base, TypeOK
  <2> QED BY <2>2, <2>3 DEF Next, vars, CreateOther, Route, Write, Create, UpdateDraft,
             MapTracking, RefreshPlans, RequestApproval, DecideApproval, Transition, Prepare,
             AppendAudit, PlanBrief, HandlerDies
<1>3. IsFiniteSet(Stored) /\ IsFiniteSet(Stored')
  <2>1. IsFiniteSet(Ids) BY ScopeAssumption, FS_Interval DEF Ids
  <2> QED BY <2>1, FS_Subset DEF Stored
<1>4. Cardinality(Stored) <= Cardinality(Stored') BY <1>2, <1>3, FS_Subset
<1>5. Cardinality(Stored) \in Nat /\ Cardinality(Stored') \in Nat BY <1>3, FS_CardinalityType
<1> QED BY <1>1, <1>4, <1>5, FlagAssumption DEF Crowded

\* What each request prepares is a legal successor.
LEMMA RouteInStep ==
    ASSUME Base, NEW h \in Handlers, Route(h)
    PROVE  InStep(h)' /\ (~ Crowded => Legal(h)')
<1>1. CASE Create(h)
  <2>1. PICK i \in Ids, brief \in BOOLEAN :
           NextId(i) /\ Prepare(h, i, "campaign_created", NewCampaign, brief)
        BY <1>1 DEF Create
  <2>2. ~ Crowded => campaigns[i] = Absent BY <2>1 DEF NextId, Listings, Stored
  <2> QED BY <2>1, <2>2, PrepareInStep DEF Follows
<1>2. ASSUME NEW i \in Ids, campaigns[i] # Absent PROVE campaigns[i] \in Campaigns
      BY <1>2, StoredIsCampaign DEF Base
<1>3. ASSUME NEW i \in Ids, UpdateDraft(h, i) PROVE InStep(h)' /\ (~ Crowded => Legal(h)')
  <2>1. Follows(campaigns[i], campaigns[i])
        BY <1>2, <1>3 DEF UpdateDraft, Follows, Campaigns
  <2> QED BY <1>3, <2>1, PrepareInStep DEF UpdateDraft
<1>4. ASSUME NEW i \in Ids, RefreshPlans(h, i) PROVE InStep(h)' /\ (~ Crowded => Legal(h)')
  <2>1. Follows(campaigns[i], Refreshed(campaigns[i]))
        BY <1>2, <1>4 DEF RefreshPlans, Refreshed, Follows, Campaigns, Editable,
           ALLOWED_TRANSITIONS, CampaignStatus
  <2> QED BY <1>4, <2>1, PrepareInStep DEF RefreshPlans
<1>5. ASSUME NEW i \in Ids, NEW scope \in Scopes, RequestApproval(h, i, scope)
      PROVE  InStep(h)' /\ (~ Crowded => Legal(h)')
  <2>1. Follows(campaigns[i], Requested(campaigns[i], scope))
        BY <1>2, <1>5 DEF RequestApproval, Requested, Follows, Campaigns,
           ALLOWED_TRANSITIONS, CampaignStatus
  <2> QED BY <1>5, <2>1, PrepareInStep DEF RequestApproval
<1>6. ASSUME NEW i \in Ids, NEW scope \in Scopes, NEW approved \in BOOLEAN,
             DecideApproval(h, i, scope, approved)
      PROVE  InStep(h)' /\ (~ Crowded => Legal(h)')
  <2>1. Decided(campaigns[i], scope, approved).status \in {"approved", "planned"}
        BY <1>2, <1>6 DEF DecideApproval, Decided, Campaigns
  <2>2. Follows(campaigns[i], Decided(campaigns[i], scope, approved))
        BY <1>6, <2>1 DEF DecideApproval, Follows, ALLOWED_TRANSITIONS, CampaignStatus
  <2> QED BY <1>6, <2>2, PrepareInStep DEF DecideApproval
<1>7. ASSUME NEW i \in Ids, NEW target \in CampaignStatus, Transition(h, i, target)
      PROVE  InStep(h)' /\ (~ Crowded => Legal(h)')
  <2>1. Follows(campaigns[i], Moved(campaigns[i], target))
        BY <1>2, <1>7 DEF Transition, Moved, Follows, Campaigns
  <2> QED BY <1>7, <2>1, PrepareInStep DEF Transition
<1>8. ASSUME NEW i \in Ids, MapTracking(h, i) PROVE InStep(h)' /\ (~ Crowded => Legal(h)')
  <2>1. Follows(campaigns[i], campaigns[i])
        BY <1>2, <1>8 DEF MapTracking, Follows, Campaigns
  <2> QED BY <1>8, <2>1, PrepareInStep DEF MapTracking
<1> QED BY <1>1, <1>3, <1>4, <1>5, <1>6, <1>7, <1>8 DEF Route

\* So is what PlanBrief prepares; the other writes keep copy and store equal.
LEMMA WriteInStep ==
    ASSUME Base, NEW h \in Handlers, InStep(h), Write(h) PROVE InStep(h)' /\ (~ Crowded => Legal(h)')
<1>0. ASSUME End(h) PROVE InStep(h)' /\ (~ Crowded => Legal(h)')
      BY <1>0 DEF End, Goto, InStep, Legal, Base, TypeOK
<1>1. ASSUME pc[h] # "idle" PROVE call[h].id \in Ids BY <1>1 DEF Base, TypeOK, Calls
<1>2. CASE Save(h) BY <1>1, <1>2 DEF Save, Goto, InStep, Legal, Base, TypeOK
<1>3. CASE AppendAudit(h)
      BY <1>0, <1>3 DEF AppendAudit, Goto, InStep, Legal, Base, TypeOK
<1>4. CASE SaveBrief(h) BY <1>4 DEF SaveBrief, Goto, InStep, Legal, Base, TypeOK
<1>5. CASE PlanBrief(h)
  <2>1. CASE Editable(campaigns[call[h].id])
    <3> DEFINE i == call[h].id
    <3>1. i \in Ids BY <1>1, <1>5 DEF PlanBrief
    <3>2. campaigns[i] \in Campaigns
          BY <2>1, <3>1, StoredIsCampaign DEF Editable, Absent, Base
    <3>3. Follows(campaigns[i], Refreshed(campaigns[i]))
          BY <2>1, <3>2 DEF Refreshed, Follows, Campaigns, Editable,
             ALLOWED_TRANSITIONS, CampaignStatus
    <3> QED BY <1>5, <2>1, <3>1, <3>3, PrepareInStep DEF PlanBrief
  <2>2. CASE ~ Editable(campaigns[call[h].id]) BY <1>0, <1>5, <2>2 DEF PlanBrief
  <2> QED BY <2>1, <2>2
<1>6. CASE HandlerDies(h) BY <1>0, <1>6 DEF HandlerDies
<1> QED BY <1>2, <1>3, <1>4, <1>5, <1>6 DEF Write

\* As long as no two requests overlapped, at most one handler is not idle.
Alone ==
    ~ overlapped => \A g, h \in Handlers : pc[g] # "idle" /\ pc[h] # "idle" => g = h

Serial ==
    /\ Base /\ Alone
    /\ ~ overlapped => \A h \in Handlers : InStep(h)
    /\ ~ overlapped /\ ~ Crowded => \A h \in Handlers : Legal(h)

LEMMA SerialInit == Init => Serial
BY BaseInit DEF Init, Serial, Alone, InStep, Legal

\* A step of h leaves the other handlers where they are.
LEMMA OthersKeep ==
    ASSUME Base, NEW h \in Handlers, Route(h) \/ Write(h),
           NEW g \in Handlers, g # h
    PROVE  pc'[g] = pc[g]
BY DEF Route, Write, Create, UpdateDraft, MapTracking, RefreshPlans, RequestApproval,
   DecideApproval, Transition, Prepare, Save, AppendAudit, SaveBrief, PlanBrief,
   HandlerDies, End, Goto, Base, TypeOK

\* Only a request touches the history, and it finds the others idle or marks it.
LEMMA Marks ==
    ASSUME NEW h \in Handlers, Route(h) \/ Write(h), ~ overlapped'
    PROVE  /\ ~ overlapped
           /\ Route(h) => \A g \in Handlers : pc[g] = "idle"
           /\ ~ Route(h) => pc[h] # "idle"
<1>1. CASE Route(h)
  <2>1. Accept(h)
        BY <1>1 DEF Route, Create, UpdateDraft, MapTracking, RefreshPlans,
           RequestApproval, DecideApproval, Transition
  <2>2. ~ overlapped /\ \A g \in Handlers : pc[g] = "idle" BY <2>1, Zenon DEF Accept
  <2> QED BY <1>1, <2>2
<1>2. CASE Write(h) /\ ~ Route(h)
  <2>1. UNCHANGED overlapped /\ pc[h] # "idle"
        BY <1>2 DEF Write, Save, AppendAudit, SaveBrief, PlanBrief, HandlerDies
  <2> QED BY <1>2, <2>1, Zenon
<1> QED BY <1>1, <1>2

LEMMA SerialStep == Serial /\ [Next]_vars => Serial'
<1> SUFFICES ASSUME Serial, [Next]_vars PROVE Serial' OBVIOUS
<1>1. Base' BY BaseStep DEF Serial
<1>0. Crowded => Crowded' BY CrowdedStays DEF Serial
<1>2. CASE UNCHANGED vars
      BY <1>1, <1>2 DEF vars, Serial, Alone, InStep, Legal, Crowded, Stored
<1>3. ASSUME NEW h \in Handlers, Route(h) \/ Write(h), ~ overlapped'
      PROVE  /\ \A f, g \in Handlers : pc'[f] # "idle" /\ pc'[g] # "idle" => f = g
             /\ \A g \in Handlers : InStep(g)' /\ (~ Crowded => Legal(g)')
  <2>1. /\ ~ overlapped /\ Base /\ InStep(h)
        /\ \A f, g \in Handlers : pc[f] # "idle" /\ pc[g] # "idle" => f = g
        BY <1>3, Marks DEF Serial, Alone
  <2>2. \A g \in Handlers : g # h => pc[g] = "idle" BY <1>3, <2>1, Marks
  <2>3. \A g \in Handlers : g # h => pc'[g] = "idle" BY <1>3, <2>1, <2>2, OthersKeep
  <2>4. InStep(h)' /\ (~ Crowded => Legal(h)') BY <1>3, <2>1, RouteInStep, WriteInStep
  <2>5. \A g \in Handlers : g # h => InStep(g)' /\ Legal(g)' BY <2>3 DEF InStep, Legal
  <2> QED BY <2>3, <2>4, <2>5
<1>4. CASE CreateOther
      BY <1>0, <1>1, <1>4 DEF CreateOther, Serial, Alone, InStep, Legal
<1> QED BY <1>0, <1>1, <1>2, <1>3, <1>4 DEF Next, Serial, Alone

\* As long as no two requests overlapped and one listing returns every campaign, across
\* handlers that die anywhere, the stored status moves along ALLOWED_TRANSITIONS and no
\* create replaces a campaign.
THEOREM SerialLifecycle == Spec => LifecycleRespected /\ []CreatesAreFresh
<1> DEFINE Moves == ~ overlapped /\ ~ Crowded =>
        \A i \in Stored :
            \/ campaigns'[i].status = campaigns[i].status
            \/ campaigns'[i].status \in ALLOWED_TRANSITIONS[campaigns[i].status]
<1>1. Serial /\ [Next]_vars => [Moves]_vars
  <2> SUFFICES ASSUME Serial, Next, ~ overlapped, ~ Crowded PROVE Moves BY DEF vars
  <2>0. Base BY DEF Serial
  <2>1. CASE UNCHANGED campaigns BY <2>1
  <2>2. ASSUME NEW h \in Handlers, Save(h) PROVE Moves
        BY <2>0, <2>2 DEF Save, Serial, Legal, Follows, Base, TypeOK, Stored
  <2>3. ASSUME NEW h \in Handlers, SaveBrief(h) PROVE Moves
        BY <2>0, <2>3 DEF SaveBrief, Serial, InStep, Base, TypeOK, Stored
  <2> QED BY <2>1, <2>2, <2>3 DEF Next, CreateOther, Route, Write, Create, UpdateDraft,
             MapTracking, RefreshPlans, RequestApproval, DecideApproval, Transition, Prepare,
             AppendAudit, PlanBrief, HandlerDies
<1>2. Serial => CreatesAreFresh BY DEF Serial, Legal, CreatesAreFresh
<1> QED BY <1>1, <1>2, SerialInit, SerialStep, PTL DEF Spec, LifecycleRespected

-----------------------------------------------------------------------------
(* The audit trail.                                                        *)

\* The trail of campaign i ends in its status, or its event is about to be appended.
Told(i) == campaigns[i] # Absent => audit[i] # NoEvent /\ audit[i].to = campaigns[i].status

Trail ==
    /\ \A h \in Handlers : pc[h] # "idle" => call[h].event.to = call[h].copy.status
    /\ deaths = 0 /\ ~ overlapped =>
        \A i \in Ids : Told(i) \/ \E h \in Handlers : pc[h] = "audit" /\ call[h].id = i

TrailInv == Serial /\ Trail

LEMMA TrailInit == Init => TrailInv
<1> SUFFICES ASSUME Init PROVE TrailInv OBVIOUS
<1>1. \A i \in Ids : Told(i) BY DEF Init, Told
<1> QED BY <1>1, SerialInit DEF Init, TrailInv, Trail

\* An event is prepared together with the copy whose status it names.
LEMMA EventMatches ==
    ASSUME Base, \A h \in Handlers : pc[h] # "idle" => call[h].event.to = call[h].copy.status,
           [Next]_vars
    PROVE  \A h \in Handlers : pc'[h] # "idle" => call'[h].event.to = call'[h].copy.status
<1>1. CASE UNCHANGED <<pc, call>> BY <1>1
<1>2. ASSUME NEW h \in Handlers, NEW i, NEW type, NEW copy, NEW brief,
             Prepare(h, i, type, copy, brief)
      PROVE  \A g \in Handlers : pc'[g] # "idle" => call'[g].event.to = call'[g].copy.status
      BY <1>2 DEF Prepare, Base, TypeOK
<1>3. ASSUME NEW h \in Handlers, End(h)
      PROVE  \A g \in Handlers : pc'[g] # "idle" => call'[g].event.to = call'[g].copy.status
      BY <1>3 DEF End, Goto, Base, TypeOK
<1>4. ASSUME NEW h \in Handlers, NEW p, Goto(h, p), UNCHANGED call, pc[h] # "idle"
      PROVE  \A g \in Handlers : pc'[g] # "idle" => call'[g].event.to = call'[g].copy.status
      BY <1>4 DEF Goto, Base, TypeOK
<1>5. ASSUME NEW h \in Handlers, Route(h)
      PROVE  \A g \in Handlers : pc'[g] # "idle" => call'[g].event.to = call'[g].copy.status
      BY <1>2, <1>5 DEF Route, Create, UpdateDraft, MapTracking, RefreshPlans,
         RequestApproval, DecideApproval, Transition
<1>6. ASSUME NEW h \in Handlers, Write(h)
      PROVE  \A g \in Handlers : pc'[g] # "idle" => call'[g].event.to = call'[g].copy.status
      BY <1>2, <1>3, <1>4, <1>6
         DEF Write, Save, AppendAudit, SaveBrief, PlanBrief, HandlerDies
<1> QED BY <1>1, <1>5, <1>6 DEF Next, vars, CreateOther

\* A step that no other request overlaps and that is no death leaves the trail told.
LEMMA TrailStep == TrailInv /\ [Next]_vars => TrailInv'
<1> SUFFICES ASSUME TrailInv, [Next]_vars PROVE TrailInv' OBVIOUS
<1>1. Serial' BY SerialStep DEF TrailInv
<1>2. \A h \in Handlers : pc'[h] # "idle" => call'[h].event.to = call'[h].copy.status
      BY EventMatches DEF TrailInv, Trail, Serial
<1>3. ASSUME deaths' = 0, ~ overlapped', NEW i \in Ids
      PROVE  Told(i)' \/ \E h \in Handlers : pc'[h] = "audit" /\ call'[h].id = i
  <2>1. CASE UNCHANGED vars
        BY <1>3, <2>1, Zenon DEF vars, TrailInv, Trail, Told
  <2>2. ASSUME NEW h \in Handlers, Route(h) \/ Write(h)
        PROVE  Told(i)' \/ \E g \in Handlers : pc'[g] = "audit" /\ call'[g].id = i
    <3>1. /\ ~ overlapped /\ Base /\ InStep(h)
          /\ \A f, g \in Handlers : pc[f] # "idle" /\ pc[g] # "idle" => f = g
          BY <1>3, <2>2, Marks DEF TrailInv, Serial, Alone
    <3>2. \A g \in Handlers : g # h => pc[g] = "idle" BY <1>3, <2>2, <3>1, Marks
    <3>3. deaths = 0
          BY <1>3, <2>2, <3>1 DEF Route, Write, Create, UpdateDraft, MapTracking, RefreshPlans,
             RequestApproval, DecideApproval, Transition, Prepare, Save, AppendAudit,
             SaveBrief, PlanBrief, HandlerDies, Base, TypeOK
    <3>4. Told(i) \/ (pc[h] = "audit" /\ call[h].id = i)
          BY <3>1, <3>2, <3>3 DEF TrailInv, Trail
    <3>5. CASE Route(h)
      <4>1. pc[h] = "idle" /\ UNCHANGED <<campaigns, audit>>
            BY <1>3, <2>2, <3>5, Marks DEF Route, Create, UpdateDraft, MapTracking,
               RefreshPlans, RequestApproval, DecideApproval, Transition, Prepare
      <4> QED BY <3>4, <4>1 DEF Told
    <3>6. CASE Save(h)
      <4>1. CASE i = call[h].id BY <3>1, <3>6, <4>1 DEF Save, Goto, Base, TypeOK
      <4>2. CASE i # call[h].id
            BY <3>1, <3>4, <3>6, <4>2 DEF Save, Told, Base, TypeOK
      <4> QED BY <4>1, <4>2
    <3>7. CASE AppendAudit(h)
      <4>0. pc[h] = "audit" /\ campaigns' = campaigns /\ call[h] \in Calls
            BY <3>1, <3>7 DEF AppendAudit, Base, TypeOK
      <4>1. audit' = [audit EXCEPT ![call[h].id] = call[h].event] BY <3>7 DEF AppendAudit
      <4>2. CASE i = call[h].id
        <5>1. audit'[i] = call[h].event BY <3>1, <4>1, <4>2 DEF Base, TypeOK
        <5>2. campaigns[i] = call[h].copy BY <3>1, <4>0, <4>2 DEF InStep
        <5>3. call[h].event.to = call[h].copy.status BY <4>0 DEF TrailInv, Trail
        <5>4. call[h].event.type \in EventTypes BY <4>0 DEF Calls, Events
        <5>5. call[h].event # NoEvent BY <5>4 DEF NoEvent, EventTypes
        <5> QED BY <4>0, <5>1, <5>2, <5>3, <5>5 DEF Told
      <4>3. CASE i # call[h].id
            BY <3>1, <3>4, <4>0, <4>1, <4>3 DEF Told, Base, TypeOK
      <4> QED BY <4>2, <4>3
    <3>8. CASE SaveBrief(h)
      <4>1. campaigns' = campaigns /\ audit' = audit /\ pc[h] = "resave"
            BY <3>1, <3>8 DEF SaveBrief, InStep, Base, TypeOK
      <4> QED BY <3>4, <4>1 DEF Told
    <3>9. CASE PlanBrief(h)
      <4>1. campaigns' = campaigns /\ audit' = audit /\ pc[h] = "replan"
            BY <3>9 DEF PlanBrief, Prepare
      <4> QED BY <3>4, <4>1 DEF Told
    <3>10. CASE HandlerDies(h)
           BY <1>3, <3>1, <3>10 DEF HandlerDies, Base, TypeOK
    <3> QED BY <2>2, <3>5, <3>6, <3>7, <3>8, <3>9, <3>10 DEF Write
  <2>3. CASE CreateOther
        BY <1>3, <2>3 DEF CreateOther, TrailInv, Trail, Told
  <2> QED BY <2>1, <2>2, <2>3 DEF Next
<1> QED BY <1>1, <1>2, <1>3 DEF TrailInv, Trail

\* The invariant that the run checks: types, approvals that agree with the package,
\* nothing executed while that is disabled, fresh creates and, where requests do
\* not overlap and none dies, a trail that tells the status of every campaign.
THEOREM ConsistentHolds == Spec => []Consistent
<1>1. TrailInv => Consistent
  <2> SUFFICES ASSUME TrailInv PROVE Consistent OBVIOUS
  <2>1. TypeOK BY DEF TrailInv, Serial, Base
  <2>2. PlansMatchPackage BY DEF TrailInv, Serial, Base, Sound, PlansMatchPackage
  <2>3. SideEffectsUnreachable BY DEF TrailInv, Serial, Base, Sound, SideEffectsUnreachable
  <2>4. CreatesAreFresh BY DEF TrailInv, Serial, Legal, CreatesAreFresh
  <2>5. AuditMatchesStatus BY DEF TrailInv, Trail, Told, AuditMatchesStatus, Stored
  <2> QED BY <2>1, <2>2, <2>3, <2>4, <2>5 DEF Consistent
<1> QED BY <1>1, TrailInit, TrailStep, PTL DEF Spec

-----------------------------------------------------------------------------
(* Actions.  Beyond the types: what is approved was granted (Grants), one    *)
(* execution at a time holds the event loop (Noted), failed writes are       *)
(* listed (Lists); as long as no two executions of one action overlap and    *)
(* the process does not die, each approval is spent at most once (Spare).    *)

\* The types, and only a gated action is listed again.
Typed ==
    /\ ExecutionTypeOK
    /\ \A e \in Executors : at[e] = "relist" => act[e] \in Gated

\* What a change of the status does to the report.
LEMMA StatusSet ==
    ASSUME ExecutionTypeOK, NEW r \in Requests, NEW status \in ActionStatus, NEW next,
           SetStatus(r, status, next)
    PROVE  /\ report' \in Reports /\ report'.pending = report.pending
           /\ report'.status[act[r]] = status
           /\ \A a \in Actions : a # act[r] => report'.status[a] = report.status[a]
BY DEF SetStatus, WithStatus, ExecutionTypeOK, Reports

LEMMA CrossingTyped == ExecutionTypeOK => Crossing \subseteq Actions
BY DEF Crossing, ExecutionTypeOK, Requests

\* A step that sets a status keeps the types.
LEMMA SetStatusTyped ==
    ASSUME Typed, NEW r \in Requests, NEW status \in ActionStatus, NEW next \in RequestStates,
           SetStatus(r, status, next), next = "relist" => act[r] \in Gated,
           granted' \in [Actions -> Nat], refused' \subseteq Actions
    PROVE  Typed'
<1>1. report' \in Reports BY StatusSet DEF Typed
<1>2. /\ at' \in [Requests -> RequestStates]
      /\ \A q \in Requests : at'[q] = IF q = r THEN next ELSE at[q]
      BY DEF SetStatus, MoveTo, Typed, ExecutionTypeOK
<1>3. crossed' \subseteq Actions
  <2>1. Crossing' = {act[e] : e \in {x \in Executors :
                        at'[x] = "relist" /\ \E d \in Deciders : Deciding(d)'}}
        BY DEF Crossing, SetStatus
  <2> QED BY <2>1 DEF SetStatus, Typed, ExecutionTypeOK, Requests
<1> QED BY <1>1, <1>2, <1>3 DEF SetStatus, Typed, ExecutionTypeOK, Requests, bounds

\* A step that only moves a request and changes what is named keeps the types.
LEMMA MoveTyped ==
    ASSUME Typed, NEW r \in Requests, NEW p \in RequestStates, MoveTo(r, p),
           p # "relist", act' = act, UNCHANGED bounds,
           report' \in Reports, stored' \in Reports, rest' \in [Requests -> SUBSET Gated],
           snap' \in [Requests -> Reports], posts' \in [Actions -> Nat],
           refused' \subseteq Actions, late' \subseteq Executors,
           UNCHANGED <<granted, crossed, disturbed>>
    PROVE  Typed'
<1>1. /\ at' \in [Requests -> RequestStates]
      /\ \A q \in Requests : at'[q] = IF q = r THEN p ELSE at[q]
      BY DEF MoveTo, Typed, ExecutionTypeOK
<1> QED BY <1>1 DEF Typed, ExecutionTypeOK, Requests, bounds

\* So does the beginning of a request.
LEMMA BeginTyped ==
    ASSUME Typed, NEW r \in Requests, NEW a \in Actions,
           NEW p \in RequestStates \ {"relist"}, Begin(r, a, p),
           report' \in Reports, disturbed' \in BOOLEAN
    PROVE  Typed'
<1>1. /\ at' \in [Requests -> RequestStates]
      /\ \A q \in Requests : at'[q] = IF q = r THEN p ELSE at[q]
      BY DEF Begin, MoveTo, Typed, ExecutionTypeOK
<1>2. /\ act' \in [Requests -> Actions]
      /\ \A q \in Requests : act'[q] = IF q = r THEN a ELSE act[q]
      BY DEF Begin, Typed, ExecutionTypeOK
<1>3. requests' \in 0..MaxRequests
      BY ActionAssumption DEF Begin, Typed, ExecutionTypeOK
<1> QED BY <1>1, <1>2, <1>3 DEF Begin, Typed, ExecutionTypeOK, Requests

LEMMA TypedInit == ExecutionInit => Typed
<1> SUFFICES ASSUME ExecutionInit PROVE Typed OBVIOUS
<1>1. disturbed \in BOOLEAN BY Zenon DEF ExecutionInit
<1>2. NewReport \in Reports BY ActionAssumption DEF NewReport, Reports, ActionStatus
<1>3. \A r \in Requests : at[r] = "idle" BY DEF ExecutionInit
<1>4. ExecutionTypeOK BY <1>1, <1>2, ActionAssumption
                        DEF ExecutionInit, ExecutionTypeOK, RequestStates
<1> QED BY <1>3, <1>4 DEF Typed, Requests

LEMMA ExecuteTyped == ASSUME Typed, NEW e \in Executors, Execute(e) PROVE Typed'
<1>0. /\ e \in Requests /\ act[e] \in Actions /\ ExecutionTypeOK
      /\ report \in Reports /\ stored \in Reports /\ Gated \subseteq Actions
      BY ActionAssumption DEF Requests, Typed, ExecutionTypeOK
<1>1. ASSUME NEW a \in Actions, BeginExecute(e, a) PROVE Typed'
  <2>1. disturbed' \in BOOLEAN BY <1>1, Zenon DEF BeginExecute, BeginExecution
  <2> QED BY <1>0, <1>1, <2>1, BeginTyped DEF BeginExecute, BeginExecution, RequestStates
<1>2. ASSUME NEW a \in Actions, BeginReadAgain(e, a) PROVE Typed'
  <2>1. disturbed' \in BOOLEAN BY <1>2, Zenon DEF BeginReadAgain, BeginExecution
  <2>2. report' \in Reports
        BY <1>0, <1>2 DEF BeginReadAgain, WithStatus, Reports, ActionStatus
  <2> QED BY <1>0, <1>2, <2>1, <2>2, BeginTyped
          DEF BeginReadAgain, BeginExecution, RequestStates
<1>3. CASE Check(e)
      BY <1>0, <1>3, MoveTyped DEF Check, history, RequestStates, Typed, ExecutionTypeOK
<1>4. CASE Post(e)
      BY <1>0, <1>4, MoveTyped DEF Post, RequestStates, Typed, ExecutionTypeOK
<1>5. CASE ToolAnswers(e)
      BY <1>0, <1>5, MoveTyped DEF ToolAnswers, history, RequestStates, Typed, ExecutionTypeOK
<1>6. CASE SetResult(e)
      BY <1>0, <1>6, SetStatusTyped
         DEF SetResult, ActionStatus, RequestStates, Typed, ExecutionTypeOK
<1>7. CASE Relist(e)
  <2>1. report' \in Reports BY <1>0, <1>7 DEF Relist, Typed, Reports
  <2> QED BY <1>0, <1>7, <2>1, MoveTyped DEF Relist, history, RequestStates, Typed, ExecutionTypeOK
<1> QED BY <1>1, <1>2, <1>3, <1>4, <1>5, <1>6, <1>7 DEF Execute

LEMMA DecideTyped == ASSUME Typed, NEW d \in Deciders, Decide(d) PROVE Typed'
<1>0. /\ d \in Requests /\ act[d] \in Actions /\ ExecutionTypeOK
      /\ report \in Reports /\ Gated \subseteq Actions
      BY ActionAssumption DEF Requests, Typed, ExecutionTypeOK
<1>1. ASSUME NEW a \in Actions, BeginDecide(d, a) PROVE Typed'
      BY <1>0, <1>1, BeginTyped DEF BeginDecide, RequestStates, Typed, ExecutionTypeOK
<1>2. CASE SetDecision(d)
  <2>1. /\ granted' \in [Actions -> Nat] /\ refused' \subseteq Actions
        BY <1>0, <1>2 DEF SetDecision, Typed, ExecutionTypeOK
  <2> QED BY <1>0, <1>2, <2>1, SetStatusTyped DEF SetDecision, ActionStatus, RequestStates
<1>3. CASE Unlist(d)
  <2>1. rest' \in [Requests -> SUBSET Gated]
        BY <1>0, <1>3 DEF Unlist, Reports, Typed, ExecutionTypeOK
  <2> QED BY <1>0, <1>3, <2>1, MoveTyped DEF Unlist, history, RequestStates, Typed, ExecutionTypeOK
<1>4. CASE AssignList(d)
  <2>1. report' \in Reports BY <1>0, <1>4 DEF AssignList, Reports, Typed, ExecutionTypeOK
  <2> QED BY <1>0, <1>4, <2>1, MoveTyped
          DEF AssignList, history, RequestStates, Typed, ExecutionTypeOK
<1> QED BY <1>1, <1>2, <1>3, <1>4 DEF Decide

LEMMA SaveTyped == ASSUME Typed, NEW r \in Requests, SaveReport(r) PROVE Typed'
<1>1. CASE Serialise(r)
      BY <1>1, MoveTyped DEF Serialise, history, RequestStates, Typed, ExecutionTypeOK
<1>2. CASE StoreReport(r)
      BY <1>2, MoveTyped DEF StoreReport, history, RequestStates, Typed, ExecutionTypeOK
<1>3. CASE AnswerRequest(r)
  <2>1. act[r] \in Actions BY DEF Typed, ExecutionTypeOK
  <2>2. refused' \subseteq Actions /\ late' \subseteq Executors
        BY <1>3, <2>1 DEF AnswerRequest, Typed, ExecutionTypeOK
  <2> QED BY <1>3, <2>2, MoveTyped DEF AnswerRequest, RequestStates, Typed, ExecutionTypeOK
<1> QED BY <1>1, <1>2, <1>3 DEF SaveReport

LEMMA TypedStep == Typed /\ [ExecutionNext]_executionVars => Typed'
<1> SUFFICES ASSUME Typed, [ExecutionNext]_executionVars PROVE Typed' OBVIOUS
<1>1. CASE UNCHANGED executionVars
      BY <1>1 DEF executionVars, request, history, bounds, Typed, ExecutionTypeOK
<1>2. CASE Crash
      BY <1>2, ActionAssumption DEF Crash, Typed, ExecutionTypeOK, RequestStates, Requests
<1> QED BY <1>1, <1>2, ExecuteTyped, DecideTyped, SaveTyped DEF ExecutionNext

-----------------------------------------------------------------------------
\* What the copies of the report say is approved was granted, and so was what is
\* being sent.
Granted(r) == \A a \in Gated : r.status[a] = "approved" => granted[a] > 0

Grants ==
    /\ Granted(report) /\ Granted(stored)
    /\ \A r \in Requests : Granted(snap[r])
    /\ \A e \in Executors : at[e] = "sending" /\ act[e] \in Gated => granted[act[e]] > 0
    /\ \A a \in Gated : posts[a] > 0 => granted[a] > 0

\* A step that grants nothing new and approves nothing keeps the grants.
LEMMA GrantsKept ==
    ASSUME Typed, Grants, granted' = granted,
           Granted(report') \/ report' = report \/ report' = stored,
           stored' = stored \/ \E r \in Requests : stored' = snap[r],
           \A r \in Requests : snap'[r] = snap[r] \/ snap'[r] = report,
           \A e \in Executors : at'[e] = "sending" =>
              at[e] = "sending" /\ act'[e] = act[e],
           \A a \in Gated : posts'[a] = posts[a] \/ granted[a] > 0
    PROVE  Grants'
BY DEF Grants, Granted

LEMMA GrantsStep == Typed /\ Grants /\ [ExecutionNext]_executionVars => Grants'
<1> SUFFICES ASSUME Typed, Grants, [ExecutionNext]_executionVars PROVE Grants' OBVIOUS
<1>0. /\ Executors \subseteq Requests /\ Deciders \subseteq Requests /\ Gated \subseteq Actions
      /\ \A r \in Requests : act[r] \in Actions
      /\ at \in [Requests -> RequestStates] /\ ExecutionTypeOK
      /\ granted \in [Actions -> Nat] /\ posts \in [Actions -> Nat]
      BY ActionAssumption DEF Requests, Typed, ExecutionTypeOK
<1>1. CASE UNCHANGED executionVars
      BY <1>1 DEF executionVars, request, history, Grants, Granted
<1>2. CASE Crash BY <1>0, <1>2, GrantsKept DEF Crash
<1>3. ASSUME NEW e \in Executors, NEW a \in Actions, BeginExecute(e, a) PROVE Grants'
      BY <1>0, <1>3, GrantsKept
         DEF BeginExecute, BeginExecution, Begin, MoveTo, Typed, ExecutionTypeOK
<1>4. ASSUME NEW e \in Executors, NEW a \in Actions, BeginReadAgain(e, a) PROVE Grants'
  <2>1. \A b \in Gated : report'.status[b] = report.status[b]
        BY <1>4, ActionAssumption
           DEF BeginReadAgain, WithStatus, Typed, ExecutionTypeOK, Reports
  <2>2. Granted(report') BY <2>1 DEF Grants, Granted
  <2> QED BY <1>0, <1>4, <2>2, GrantsKept
          DEF BeginReadAgain, BeginExecution, Begin, MoveTo, Typed, ExecutionTypeOK
<1>5. ASSUME NEW e \in Executors, Check(e) PROVE Grants'
  <2>1. /\ \A x \in Executors : x # e => at'[x] = at[x]
        /\ at'[e] = "sending" => (act[e] \in Gated => granted[act[e]] > 0)
        BY <1>0, <1>5 DEF Check, MoveTo, Grants, Granted
  <2> QED BY <1>5, <2>1 DEF Check, history, Grants, Granted
<1>6. ASSUME NEW e \in Executors, Post(e) PROVE Grants'
  <2>1. \A a \in Gated : posts'[a] = posts[a] \/ granted[a] > 0
        BY <1>0, <1>6 DEF Post, Grants
  <2>2. \A x \in Executors : at'[x] = "sending" => at[x] = "sending" /\ act'[x] = act[x]
        BY <1>0, <1>6 DEF Post, MoveTo
  <2> QED BY <1>6, <2>1, <2>2, GrantsKept DEF Post
<1>7. ASSUME NEW e \in Executors, ToolAnswers(e) \/ Relist(e) PROVE Grants'
  <2>1. \A x \in Executors : at'[x] = "sending" => at[x] = "sending" /\ act'[x] = act[x]
        BY <1>0, <1>7 DEF ToolAnswers, Relist, MoveTo
  <2>2. Granted(report')
        BY <1>7 DEF ToolAnswers, Relist, Grants, Granted, Typed, ExecutionTypeOK, Reports
  <2> QED BY <1>7, <2>1, <2>2, GrantsKept DEF ToolAnswers, Relist, history
<1>8. ASSUME NEW e \in Executors, SetResult(e) PROVE Grants'
  <2>1. PICK status \in {"executed", "execution_failed"}, next \in {"save", "relist"} :
           SetStatus(e, status, next)
        BY <1>8 DEF SetResult
  <2>2. Granted(report')
        BY <1>0, <2>1, StatusSet DEF Grants, Granted, ActionStatus
  <2>3. \A x \in Executors : at'[x] = "sending" => at[x] = "sending" /\ act'[x] = act[x]
        BY <1>0, <2>1 DEF SetStatus, MoveTo
  <2> QED BY <1>8, <2>1, <2>2, <2>3, GrantsKept DEF SetResult, SetStatus
<1>9. ASSUME NEW d \in Deciders, SetDecision(d) PROVE Grants'
  <2>1. PICK status \in {"approved", "rejected"} :
           /\ SetStatus(d, status, "unlist")
           /\ status = "approved" => granted'[act[d]] > 0
           /\ \A a \in Actions : granted'[a] >= granted[a] /\ granted'[a] \in Nat
        BY <1>0, <1>9 DEF SetDecision
  <2>2. /\ report'.status[act[d]] = status
        /\ \A a \in Actions : a # act[d] => report'.status[a] = report.status[a]
        BY <1>0, <2>1, StatusSet DEF ActionStatus
  <2>3. \A a \in Actions : granted[a] > 0 => granted'[a] > 0 BY <1>0, <2>1
  <2>4. Granted(report)' BY <1>0, <2>1, <2>2, <2>3 DEF Grants, Granted
  <2>5. \A x \in Executors : at'[x] = "sending" => at[x] = "sending" /\ act'[x] = act[x]
        BY <1>0, <2>1 DEF SetStatus, MoveTo
  <2> QED BY <1>0, <2>1, <2>3, <2>4, <2>5 DEF Grants, Granted, SetStatus
<1>10. ASSUME NEW d \in Deciders, (\E a \in Actions : BeginDecide(d, a))
                                  \/ Unlist(d) \/ AssignList(d) PROVE Grants'
  <2>1. \A x \in Executors : at'[x] = "sending" => at[x] = "sending" /\ act'[x] = act[x]
        BY <1>0, <1>10, ActionAssumption DEF BeginDecide, Begin, Unlist, AssignList, MoveTo,
           Typed, ExecutionTypeOK
  <2>2. Granted(report')
        BY <1>10 DEF BeginDecide, Unlist, AssignList, Grants, Granted, Typed, ExecutionTypeOK,
           Reports
  <2>3. UNCHANGED <<granted, stored, snap, posts>>
        BY <1>10 DEF BeginDecide, Begin, Unlist, AssignList, history
  <2> QED BY <2>1, <2>2, <2>3, GrantsKept
<1>11. ASSUME NEW r \in Requests, SaveReport(r) PROVE Grants'
  <2>1. \A x \in Executors : at'[x] = "sending" => at[x] = "sending" /\ act'[x] = act[x]
        BY <1>0, <1>11 DEF SaveReport, Serialise, StoreReport, AnswerRequest, MoveTo
  <2>2. UNCHANGED <<granted, report, posts>>
        BY <1>11 DEF SaveReport, Serialise, StoreReport, AnswerRequest, history
  <2>3. stored' = stored \/ stored' = snap[r]
        BY <1>11 DEF SaveReport, Serialise, StoreReport, AnswerRequest
  <2>4. \A q \in Requests : snap'[q] = snap[q] \/ snap'[q] = report
        BY <1>11 DEF SaveReport, Serialise, StoreReport, AnswerRequest, Typed, ExecutionTypeOK
  <2> QED BY <2>1, <2>2, <2>3, <2>4, GrantsKept
<1> QED BY <1>1, <1>2, <1>3, <1>4, <1>5, <1>6, <1>7, <1>8, <1>9, <1>10, <1>11
        DEF ExecutionNext, Execute, Decide

-----------------------------------------------------------------------------
\* Where an execution holds the event loop.
HoldsLoop(e) == at[e] \in {"begun", "relist", "save", "store", "audit"}

\* One execution at a time holds the loop, and a failure recorded in the middle of a
\* decision is marked.
Noted ==
    /\ \A e, x \in Executors : HoldsLoop(e) /\ HoldsLoop(x) => e = x
    /\ Crossing \subseteq crossed

\* A step that moves one request, into the loop only where that is free, keeps both.
LEMMA NotedKept ==
    ASSUME Typed, Noted, NEW r \in Requests, NEW p,
           MoveTo(r, p), crossed \subseteq crossed',
           r \in Executors => HoldsLoop(r) \/ LoopFree(r) \/ p \in {"waiting", "succeeded", "failed"},
           \/ Crossing' \subseteq crossed'
           \/ /\ p # "relist" /\ (Deciding(r)' /\ r \in Deciders => Deciding(r))
              /\ \A e \in Executors : at[e] = "relist" => act'[e] = act[e]
    PROVE  Noted'
<1>1. \A q \in Requests : at'[q] = IF q = r THEN p ELSE at[q]
      BY DEF MoveTo, Typed, ExecutionTypeOK
<1>2. ASSUME NEW e \in Executors, NEW x \in Executors, HoldsLoop(e)', HoldsLoop(x)'
      PROVE  e = x
  <2>1. CASE e # r /\ x # r BY <1>1, <1>2, <2>1 DEF Noted, HoldsLoop, Requests
  <2>2. CASE e = r \/ x = r
        BY <1>1, <1>2, <2>2 DEF Noted, HoldsLoop, LoopFree, Requests
  <2> QED BY <2>1, <2>2
<1>3. Crossing' \subseteq crossed'
  <2>1. CASE Crossing' \subseteq crossed' BY <2>1
  <2>2. CASE /\ p # "relist" /\ (Deciding(r)' /\ r \in Deciders => Deciding(r))
             /\ \A e \in Executors : at[e] = "relist" => act'[e] = act[e]
    <3>1. \A d \in Deciders : Deciding(d)' => Deciding(d)
          BY <1>1, <2>2 DEF Deciding, Requests
    <3>2. \A e \in Executors : at'[e] = "relist" => at[e] = "relist" /\ act'[e] = act[e]
          BY <1>1, <2>2 DEF Requests
    <3>3. Crossing' \subseteq Crossing BY <3>1, <3>2 DEF Crossing
    <3> QED BY <3>3 DEF Noted
  <2> QED BY <2>1, <2>2
<1> QED BY <1>2, <1>3 DEF Noted

LEMMA NotedStep == Typed /\ Noted /\ [ExecutionNext]_executionVars => Noted'
<1> SUFFICES ASSUME Typed, Noted, [ExecutionNext]_executionVars PROVE Noted' OBVIOUS
<1>0. /\ Executors \subseteq Requests /\ Deciders \subseteq Requests
      /\ \A e \in Executors : e \notin Deciders
      BY ActionAssumption DEF Requests
<1>1. CASE UNCHANGED executionVars
      BY <1>1 DEF executionVars, request, history, Noted, HoldsLoop, Crossing, Deciding
<1>2. CASE Crash
      BY <1>0, <1>2 DEF Crash, Noted, HoldsLoop, Crossing
<1>3. ASSUME NEW e \in Executors, NEW a \in Actions, BeginExecution(e, a) PROVE Noted'
      BY <1>0, <1>3, NotedKept
         DEF BeginExecution, Begin, Typed, ExecutionTypeOK
<1>4. ASSUME NEW e \in Executors, Check(e) \/ Relist(e) PROVE Noted'
      BY <1>0, <1>4, NotedKept DEF Check, Relist, HoldsLoop, history
<1>5. ASSUME NEW e \in Executors, Post(e) \/ ToolAnswers(e) PROVE Noted'
      BY <1>0, <1>5, NotedKept DEF Post, ToolAnswers, history
<1>6. ASSUME NEW r \in Requests, NEW status, NEW next, SetStatus(r, status, next),
             r \in Executors => LoopFree(r)
      PROVE  Noted'
      BY <1>6, NotedKept DEF SetStatus
<1>7. ASSUME NEW d \in Deciders, NEW a \in Actions, BeginDecide(d, a) PROVE Noted'
      BY <1>0, <1>7, NotedKept DEF BeginDecide, Begin, Deciding, MoveTo, Typed, ExecutionTypeOK
<1>8. ASSUME NEW d \in Deciders, Unlist(d) \/ AssignList(d) PROVE Noted'
      BY <1>0, <1>8, NotedKept DEF Unlist, AssignList, Deciding, history
<1>9. ASSUME NEW r \in Requests, SaveReport(r) PROVE Noted'
      BY <1>0, <1>9, NotedKept
         DEF SaveReport, Serialise, StoreReport, AnswerRequest, Deciding, HoldsLoop, history,
             MoveTo, Typed, ExecutionTypeOK
<1>10. ASSUME NEW e \in Executors, SetResult(e) PROVE Noted'
       BY <1>0, <1>6, <1>10 DEF SetResult
<1>11. ASSUME NEW d \in Deciders, SetDecision(d) PROVE Noted'
       BY <1>0, <1>6, <1>11 DEF SetDecision
<1> QED BY <1>1, <1>2, <1>3, <1>4, <1>5, <1>7, <1>8, <1>9, <1>10, <1>11
        DEF ExecutionNext, Execute, Decide, BeginExecute, BeginReadAgain

-----------------------------------------------------------------------------
\* A failed write is listed in a copy of the report.
Listed(r) == \A a \in Gated \ crossed : r.status[a] = "execution_failed" => a \in r.pending

Relisting(a) == \E e \in Executors : at[e] = "relist" /\ act[e] = a

\* It is listed wherever the report is kept, and in the list that a decision is about to
\* assign; a decision that has not assigned its list is about a write that did not fail.
Lists ==
    /\ \A a \in Gated \ crossed :
          report.status[a] = "execution_failed" => a \in report.pending \/ Relisting(a)
    /\ Listed(stored) /\ \A r \in Requests : Listed(snap[r])
    /\ \A d \in Deciders, a \in Gated \ crossed :
          /\ at[d] = "assign" /\ report.status[a] = "execution_failed" => a \in rest[d]
          /\ at[d] \in {"unlist", "assign"} /\ act[d] = a
                => report.status[a] # "execution_failed"

\* While a decision is under way no failure that is not marked waits for its listing.
LEMMA NoneRelisting ==
    ASSUME Noted, NEW a \in Gated \ crossed, NEW d \in Deciders, Deciding(d)
    PROVE  ~ Relisting(a)
BY DEF Noted, Crossing, Relisting

\* A step that leaves the reports and the decisions alone keeps the lists.
LEMMA ListsKept ==
    ASSUME Lists, crossed' = crossed, UNCHANGED stored,
           \A a \in Gated : report'.status[a] = report.status[a],
           \A a \in Gated : a \in report.pending \/ Relisting(a)
                               => a \in report'.pending \/ Relisting(a)',
           \A r \in Requests : snap'[r] = snap[r] \/ Listed(snap'[r]),
           \A d \in Deciders :
              \/ at'[d] \notin {"unlist", "assign"}
              \/ UNCHANGED <<at[d], act[d], rest[d]>>
    PROVE  Lists'
BY DEF Lists, Listed

LEMMA ListsStep == Typed /\ Noted /\ Lists /\ [ExecutionNext]_executionVars => Lists'
<1> SUFFICES ASSUME Typed, Noted, Lists, [ExecutionNext]_executionVars PROVE Lists' OBVIOUS
<1>0. /\ Executors \subseteq Requests /\ Deciders \subseteq Requests /\ Gated \subseteq Actions
      /\ \A e \in Executors : e \notin Deciders
      /\ \A r \in Requests : act[r] \in Actions
      /\ at \in [Requests -> RequestStates] /\ ExecutionTypeOK
      /\ report \in Reports
      BY ActionAssumption DEF Requests, Typed, ExecutionTypeOK
<1>1. CASE UNCHANGED executionVars
      BY <1>1 DEF executionVars, request, history, Lists, Listed, Relisting
<1>2. CASE Crash
  <2>1. \A d \in Deciders : at'[d] = "idle" BY <1>0, <1>2 DEF Crash
  <2> QED BY <1>2, <2>1 DEF Crash, Lists, Listed
<1>3. ASSUME NEW e \in Executors, NEW a \in Actions, BeginExecution(e, a),
             report'.pending = report.pending,
             \A b \in Gated : report'.status[b] = report.status[b]
      PROVE  Lists'
  <2>1. \A d \in Deciders : UNCHANGED <<at[d], act[d], rest[d]>>
        BY <1>0, <1>3 DEF BeginExecution, Begin, MoveTo, Typed, ExecutionTypeOK
  <2>2. \A b \in Gated : Relisting(b) => Relisting(b)'
        BY <1>0, <1>3 DEF BeginExecution, Begin, MoveTo, Typed, ExecutionTypeOK, Relisting
  <2> QED BY <1>3, <2>1, <2>2, ListsKept DEF BeginExecution, Begin
<1>4. ASSUME NEW e \in Executors, NEW a \in Actions, BeginReadAgain(e, a) PROVE Lists'
  <2>1. \A b \in Gated : report'.status[b] = report.status[b]
        BY <1>0, <1>4, ActionAssumption DEF BeginReadAgain, WithStatus, Reports
  <2>2. report'.pending = report.pending
        BY <1>0, <1>4 DEF BeginReadAgain, WithStatus, Reports
  <2> QED BY <1>3, <1>4, <2>1, <2>2 DEF BeginReadAgain
<1>5. ASSUME NEW e \in Executors, NEW a \in Actions, BeginExecute(e, a) PROVE Lists'
      BY <1>3, <1>5 DEF BeginExecute
<1>6. ASSUME NEW e \in Executors, Check(e) \/ Post(e) \/ ToolAnswers(e) PROVE Lists'
  <2>1. \A d \in Deciders : UNCHANGED <<at[d], act[d], rest[d]>>
        BY <1>0, <1>6 DEF Check, Post, ToolAnswers, MoveTo
  <2>2. \A b \in Gated : Relisting(b) => Relisting(b)'
        BY <1>0, <1>6 DEF Check, Post, ToolAnswers, MoveTo, Relisting
  <2> QED BY <1>6, <2>1, <2>2, ListsKept DEF Check, Post, ToolAnswers, history
<1>7. ASSUME NEW e \in Executors, Relist(e) PROVE Lists'
  <2>1. \A d \in Deciders : UNCHANGED <<at[d], act[d], rest[d]>>
        BY <1>0, <1>7 DEF Relist, MoveTo
  <2>2. /\ report'.status = report.status
        /\ report'.pending = report.pending \cup {act[e]}
        BY <1>0, <1>7 DEF Relist, Reports
  <2>3. \A b \in Gated : b # act[e] /\ Relisting(b) => Relisting(b)'
        BY <1>0, <1>7 DEF Relist, MoveTo, Relisting
  <2> QED BY <1>7, <2>1, <2>2, <2>3, ListsKept DEF Relist, history
<1>8. ASSUME NEW e \in Executors, SetResult(e) PROVE Lists'
  <2>1. PICK status \in {"executed", "execution_failed"}, next \in {"save", "relist"} :
           /\ SetStatus(e, status, next)
           /\ act[e] \in Gated /\ status = "execution_failed" => next = "relist"
           /\ at[e] # "relist"
        BY <1>8 DEF SetResult
  <2>2. /\ report'.pending = report.pending /\ report'.status[act[e]] = status
        /\ \A a \in Actions : a # act[e] => report'.status[a] = report.status[a]
        BY <1>0, <2>1, StatusSet DEF ActionStatus
  <2>3. /\ UNCHANGED <<stored, act, rest, snap>> /\ crossed \subseteq crossed'
        /\ Crossing' \subseteq crossed'
        /\ \A d \in Deciders : UNCHANGED at[d]
        BY <1>0, <2>1 DEF SetStatus, MoveTo
  <2>4. \A a \in Gated : Relisting(a) => Relisting(a)'
        BY <1>0, <2>1 DEF SetStatus, MoveTo, Relisting
  <2>5. act[e] \in Gated /\ status = "execution_failed" => Relisting(act[e])'
        BY <1>0, <2>1 DEF SetStatus, MoveTo, Relisting
  <2>6. ASSUME NEW d \in Deciders, at[d] \in {"unlist", "assign"}, act[e] \notin crossed',
               act[e] \in Gated
        PROVE  status # "execution_failed"
    <3>1. Deciding(d)' BY <2>3, <2>6 DEF Deciding
    <3> QED BY <2>3, <2>5, <2>6, <3>1 DEF Relisting, Crossing
  <2>7. \A a \in Gated \ crossed' :
           report'.status[a] = "execution_failed" => a \in report'.pending \/ Relisting(a)'
        BY <1>0, <2>2, <2>3, <2>4, <2>5 DEF Lists
  <2>8. \A d \in Deciders, a \in Gated \ crossed' :
          /\ at'[d] = "assign" /\ report'.status[a] = "execution_failed" => a \in rest'[d]
          /\ at'[d] \in {"unlist", "assign"} /\ act'[d] = a
                => report'.status[a] # "execution_failed"
        BY <1>0, <2>2, <2>3, <2>6 DEF Lists
  <2> QED BY <2>3, <2>7, <2>8 DEF Lists, Listed
<1>9. ASSUME NEW d \in Deciders, SetDecision(d) PROVE Lists'
  <2>1. PICK status \in {"approved", "rejected"} : SetStatus(d, status, "unlist")
        BY <1>9 DEF SetDecision
  <2>2. /\ report'.pending = report.pending /\ report'.status[act[d]] = status
        /\ \A a \in Actions : a # act[d] => report'.status[a] = report.status[a]
        BY <1>0, <2>1, StatusSet DEF ActionStatus
  <2>3. /\ UNCHANGED <<stored, act, rest, snap>> /\ crossed \subseteq crossed'
        /\ \A q \in Requests : at'[q] = IF q = d THEN "unlist" ELSE at[q]
        BY <1>0, <2>1 DEF SetStatus, MoveTo
  <2>4. \A a \in Gated : Relisting(a) => Relisting(a)'
        BY <1>0, <2>3 DEF Relisting
  <2>5. \A a \in Gated \ crossed' :
           report'.status[a] = "execution_failed" => a \in report'.pending \/ Relisting(a)'
        BY <1>0, <2>2, <2>3, <2>4 DEF Lists
  <2>6. \A x \in Deciders, a \in Gated \ crossed' :
          /\ at'[x] = "assign" /\ report'.status[a] = "execution_failed" => a \in rest'[x]
          /\ at'[x] \in {"unlist", "assign"} /\ act'[x] = a
                => report'.status[a] # "execution_failed"
        BY <1>0, <2>2, <2>3 DEF Lists
  <2> QED BY <2>3, <2>5, <2>6 DEF Lists, Listed
<1>10. ASSUME NEW d \in Deciders, NEW a \in Actions, BeginDecide(d, a) PROVE Lists'
  <2>1. \A x \in Deciders : \/ at'[x] \notin {"unlist", "assign"}
                            \/ UNCHANGED <<at[x], act[x], rest[x]>>
        BY <1>0, <1>10 DEF BeginDecide, Begin, MoveTo, Typed, ExecutionTypeOK
  <2>2. \A b \in Gated : Relisting(b) => Relisting(b)'
        BY <1>0, <1>10 DEF BeginDecide, Begin, MoveTo, Typed, ExecutionTypeOK, Relisting
  <2> QED BY <1>10, <2>1, <2>2, ListsKept DEF BeginDecide, Begin
<1>11. ASSUME NEW d \in Deciders, Unlist(d) PROVE Lists'
  <2>1. /\ UNCHANGED <<report, stored, act, snap, crossed>> /\ Deciding(d)
        /\ \A q \in Requests : at'[q] = IF q = d THEN "assign" ELSE at[q]
        BY <1>0, <1>11 DEF Unlist, MoveTo, history, Deciding
  <2>2. /\ rest'[d] = report.pending \ {act[d]}
        /\ \A x \in Deciders \ {d} : rest'[x] = rest[x]
        BY <1>0, <1>11 DEF Unlist, Typed, ExecutionTypeOK
  <2>3. \A a \in Gated : Relisting(a) => Relisting(a)'
        BY <1>0, <2>1 DEF Relisting
  <2>4. ASSUME NEW a \in Gated \ crossed, report.status[a] = "execution_failed"
        PROVE  a \in rest'[d]
    <3>1. a # act[d] BY <1>11, <2>4 DEF Lists, Unlist
    <3>2. a \in report.pending BY <2>1, <2>4, NoneRelisting DEF Lists
    <3> QED BY <2>2, <3>1, <3>2
  <2> QED BY <1>0, <1>11, <2>1, <2>2, <2>3, <2>4 DEF Lists, Listed, Unlist
<1>12. ASSUME NEW d \in Deciders, AssignList(d) PROVE Lists'
  <2>1. /\ UNCHANGED <<stored, act, snap, rest, crossed>> /\ at[d] = "assign"
        /\ \A q \in Requests : at'[q] = IF q = d THEN "save" ELSE at[q]
        BY <1>0, <1>12 DEF AssignList, MoveTo, history
  <2>2. report'.status = report.status /\ report'.pending = rest[d]
        BY <1>0, <1>12 DEF AssignList, Reports
  <2> QED BY <1>0, <2>1, <2>2 DEF Lists, Listed
<1>13. ASSUME NEW r \in Requests, Serialise(r) PROVE Lists'
  <2>1. ASSUME NEW a \in Gated \ crossed PROVE ~ Relisting(a)
    <3>1. CASE r \in Deciders
          BY <1>13, <3>1, NoneRelisting DEF Serialise, Deciding
    <3>2. CASE r \in Executors
          BY <1>13, <3>2 DEF Serialise, Noted, HoldsLoop, Relisting
    <3> QED BY <3>1, <3>2 DEF Requests
  <2>2. Listed(report) BY <2>1 DEF Lists, Listed
  <2>3. \A q \in Requests : snap'[q] = snap[q] \/ snap'[q] = report
        BY <1>13 DEF Serialise, Typed, ExecutionTypeOK
  <2>4. \A x \in Deciders : \/ at'[x] \notin {"unlist", "assign"}
                            \/ UNCHANGED <<at[x], act[x], rest[x]>>
        BY <1>0, <1>13 DEF Serialise, MoveTo
  <2>5. \A b \in Gated : Relisting(b) => Relisting(b)'
        BY <1>0, <1>13 DEF Serialise, MoveTo, Relisting
  <2> QED BY <1>13, <2>2, <2>3, <2>4, <2>5, ListsKept DEF Serialise, history
<1>14. ASSUME NEW r \in Requests, StoreReport(r) PROVE Lists'
  <2>1. /\ UNCHANGED <<report, act, rest, snap, crossed>> /\ stored' = snap[r]
        /\ \A q \in Requests : at'[q] = IF q = r THEN "audit" ELSE at[q]
        BY <1>0, <1>14 DEF StoreReport, MoveTo, history
  <2>2. \A b \in Gated : Relisting(b) => Relisting(b)'
        BY <1>0, <1>14, <2>1 DEF StoreReport, Relisting
  <2> QED BY <1>0, <2>1, <2>2 DEF Lists, Listed
<1>15. ASSUME NEW r \in Requests, AnswerRequest(r) PROVE Lists'
  <2>1. \A x \in Deciders : \/ at'[x] \notin {"unlist", "assign"}
                            \/ UNCHANGED <<at[x], act[x], rest[x]>>
        BY <1>0, <1>15 DEF AnswerRequest, MoveTo
  <2>2. \A b \in Gated : Relisting(b) => Relisting(b)'
        BY <1>0, <1>15 DEF AnswerRequest, MoveTo, Relisting
  <2> QED BY <1>15, <2>1, <2>2, ListsKept DEF AnswerRequest
<1> QED BY <1>1, <1>2, <1>4, <1>5, <1>6, <1>7, <1>8, <1>9, <1>10, <1>11, <1>12, <1>13, <1>14,
           <1>15 DEF ExecutionNext, Execute, Decide, SaveReport

-----------------------------------------------------------------------------
\* The inductive invariant.
ReportsHold == Typed /\ Grants /\ Noted /\ Lists

LEMMA ReportsInit == ExecutionInit => ReportsHold
<1> SUFFICES ASSUME ExecutionInit PROVE ReportsHold OBVIOUS
<1>0. /\ Executors \subseteq Requests /\ Deciders \subseteq Requests /\ Gated \subseteq Actions
      /\ \A r \in Requests : at[r] = "idle"
      BY ActionAssumption DEF Requests, ExecutionInit
<1>1. \A a \in Gated : NewReport.status[a] = "proposed" /\ a \in NewReport.pending
      BY <1>0 DEF NewReport
<1>2. Grants BY <1>0, <1>1 DEF ExecutionInit, Grants, Granted
<1>3. Noted BY <1>0 DEF Noted, HoldsLoop, Crossing
<1>4. Lists BY <1>0, <1>1 DEF ExecutionInit, Lists, Listed
<1> QED BY <1>2, <1>3, <1>4, TypedInit DEF ReportsHold

THEOREM ReportsAlwaysHold == ExecutionSpec => []ReportsHold
<1>1. ReportsHold /\ [ExecutionNext]_executionVars => ReportsHold'
      BY TypedStep, GrantsStep, NotedStep, ListsStep DEF ReportsHold
<1> QED BY <1>1, ReportsInit, PTL DEF ExecutionSpec

\* Every variable keeps its type.
THEOREM ExecutionTypeCorrect == ExecutionSpec => []ExecutionTypeOK
<1>1. ReportsHold => ExecutionTypeOK BY DEF ReportsHold, Typed
<1> QED BY <1>1, ReportsAlwaysHold, PTL

\* Across late stores and restarts a failed write is in approvals_required, unless its
\* failure was recorded in the middle of a decision.
THEOREM FailedAsksAgain == ExecutionSpec => []FailedIsPending
<1>1. ReportsHold => FailedIsPending
      BY DEF ReportsHold, Lists, Listed, Relisting, FailedIsPending
<1> QED BY <1>1, ReportsAlwaysHold, PTL

\* No interleaving and no restart sends a write the owner never approved.
THEOREM NothingUngranted == ExecutionSpec => []PostsAreGranted
<1>1. ReportsHold => PostsAreGranted BY DEF ReportsHold, Grants, Granted, PostsAreGranted
<1> QED BY <1>1, ReportsAlwaysHold, PTL

-----------------------------------------------------------------------------
\* e has sent a, or was refused, and the report does not show it yet.
Sent(e, a) == act[e] = a /\ at[e] \in {"waiting", "succeeded", "failed"}

\* One execution of an action at a time; and an approved write that nobody has just
\* sent has an approval left, and so has one that is being sent, whatever its status.
AloneAtWork ==
    \A e, x \in Executors : Executing(e) /\ Executing(x) /\ act[e] = act[x] => e = x

Spare(a) ==
    /\ posts[a] <= granted[a]
    /\ \/ report.status[a] = "approved" /\ (\A e \in Executors : ~ Sent(e, a))
       \/ \E e \in Executors : at[e] = "sending" /\ act[e] = a
       => posts[a] < granted[a]

Undisturbed == disturbed \/ (AloneAtWork /\ \A a \in Gated : Spare(a))

\* A step that moves no executor into an execution keeps AloneAtWork.
LEMMA AloneKept ==
    ASSUME AloneAtWork, \A e \in Executors : Executing(e)' => Executing(e) /\ act'[e] = act[e]
    PROVE  AloneAtWork'
BY DEF AloneAtWork

\* A step that sends nothing, takes no execution to its sending or out of what it has
\* sent, and approves nothing without granting it, leaves the spare approvals.
LEMMA SpareKept ==
    ASSUME Typed, NEW a \in Gated, Spare(a), posts'[a] = posts[a],
           \A e \in Executors : Sent(e, a) => Sent(e, a)' \/ report'.status[a] # "approved",
           \A e \in Executors : at'[e] = "sending" /\ act'[e] = a
                                   => at[e] = "sending" /\ act[e] = a,
           \/ granted'[a] = granted[a] + 1
           \/ /\ granted'[a] = granted[a]
              /\ report'.status[a] = "approved" => report.status[a] = "approved"
    PROVE  Spare(a)'
<1>1. posts[a] \in Nat /\ granted[a] \in Nat BY ActionAssumption DEF Typed, ExecutionTypeOK
<1> QED BY <1>1 DEF Spare

LEMMA UndisturbedExecute ==
    ASSUME Typed, Undisturbed, NEW e \in Executors, Execute(e) PROVE Undisturbed'
<1> SUFFICES ASSUME ~ disturbed' PROVE AloneAtWork' /\ \A a \in Gated : Spare(a)'
    BY DEF Undisturbed
<1>0. /\ e \in Requests /\ act[e] \in Actions /\ Executors \subseteq Requests
      /\ Gated \subseteq Actions /\ ~ disturbed /\ ExecutionTypeOK
      /\ at \in [Requests -> RequestStates] /\ act \in [Requests -> Actions]
      /\ posts \in [Actions -> Nat] /\ granted \in [Actions -> Nat]
      BY ActionAssumption
         DEF Execute, BeginExecute, BeginReadAgain, BeginExecution, Check, Post, ToolAnswers,
             SetResult, SetStatus, Relist, Requests, Typed, ExecutionTypeOK, history
<1>1. AloneAtWork /\ \A a \in Gated : Spare(a) BY <1>0 DEF Undisturbed
<1>2. ASSUME NEW b \in Actions, BeginExecution(e, b),
             \A a \in Gated : report'.status[a] = report.status[a]
      PROVE  AloneAtWork' /\ \A a \in Gated : Spare(a)'
  <2>1. /\ \A x \in Executors : ~ (Executing(x) /\ act[x] = b)
        /\ at[e] = "idle" /\ UNCHANGED <<posts, granted>>
        /\ at' = [at EXCEPT ![e] = "begun"] /\ act' = [act EXCEPT ![e] = b]
        BY <1>2 DEF BeginExecution, Begin, MoveTo
  <2>2. AloneAtWork' BY <1>0, <1>1, <2>1 DEF AloneAtWork, Executing
  <2>3. ASSUME NEW a \in Gated PROVE Spare(a)'
    <3>1. \A x \in Executors : Sent(x, a) => Sent(x, a)'
          BY <1>0, <2>1 DEF Sent
    <3>2. \A x \in Executors : at'[x] = "sending" /\ act'[x] = a
                                  => at[x] = "sending" /\ act[x] = a
          BY <1>0, <2>1
    <3> QED BY <1>1, <1>2, <2>1, <3>1, <3>2, SpareKept
  <2> QED BY <2>2, <2>3
<1>3. ASSUME NEW b \in Actions, BeginExecute(e, b)
      PROVE  AloneAtWork' /\ \A a \in Gated : Spare(a)'
      BY <1>2, <1>3 DEF BeginExecute
<1>4. ASSUME NEW b \in Actions, BeginReadAgain(e, b)
      PROVE  AloneAtWork' /\ \A a \in Gated : Spare(a)'
  <2>1. ASSUME NEW a \in Gated PROVE report'.status[a] = report.status[a]
        BY <1>0, <1>4, ActionAssumption
           DEF BeginReadAgain, WithStatus, Typed, ExecutionTypeOK, Reports
  <2> QED BY <1>2, <1>4, <2>1 DEF BeginReadAgain
<1>5. CASE Check(e)
  <2>1. AloneAtWork' BY <1>0, <1>1, <1>5, AloneKept DEF Check, MoveTo, Executing
  <2>2. ASSUME NEW a \in Gated PROVE Spare(a)'
    <3>1. UNCHANGED <<report, posts, granted, act>>
          /\ \A x \in Executors : x # e => at'[x] = at[x]
          BY <1>0, <1>5 DEF Check, MoveTo, history
    <3>2. CASE at'[e] = "sending" /\ act[e] = a
      <4>1. report.status[a] = "approved" BY <1>0, <1>5, <3>2 DEF Check, MoveTo
      <4>2. \A x \in Executors : ~ Sent(x, a)
            BY <1>0, <1>1, <1>5, <3>2 DEF Check, AloneAtWork, Executing, Sent
      <4> QED BY <1>1, <3>1, <4>1, <4>2 DEF Spare
    <3>3. CASE ~ (at'[e] = "sending" /\ act[e] = a)
      <4>1. \A x \in Executors : Sent(x, a) => Sent(x, a)'
            BY <1>0, <1>5, <3>1 DEF Check, Sent
      <4>2. \A x \in Executors : at'[x] = "sending" /\ act'[x] = a
                                    => at[x] = "sending" /\ act[x] = a
            BY <3>1, <3>3
      <4> QED BY <1>1, <3>1, <4>1, <4>2, SpareKept
    <3> QED BY <3>2, <3>3
  <2> QED BY <2>1, <2>2
<1>6. CASE Post(e)
  <2>1. AloneAtWork' BY <1>0, <1>1, <1>6, AloneKept DEF Post, MoveTo, Executing
  <2>2. ASSUME NEW a \in Gated PROVE Spare(a)'
    <3>1. /\ UNCHANGED <<report, granted, act>> /\ at[e] = "sending" /\ at'[e] = "waiting"
          /\ \A x \in Executors : x # e => at'[x] = at[x]
          /\ posts'[a] = IF act[e] = a THEN posts[a] + 1 ELSE posts[a]
          BY <1>0, <1>6 DEF Post, MoveTo
    <3>2. CASE act[e] = a
      <4>1. posts[a] < granted[a] BY <1>1, <3>1, <3>2 DEF Spare
      <4>2. posts'[a] <= granted'[a] BY <1>0, <3>1, <3>2, <4>1
      <4>3. Sent(e, a)' BY <3>1, <3>2 DEF Sent
      <4>4. \A x \in Executors : ~ (at'[x] = "sending" /\ act'[x] = a)
            BY <1>1, <3>1, <3>2 DEF AloneAtWork, Executing
      <4> QED BY <4>2, <4>3, <4>4 DEF Spare
    <3>3. CASE act[e] # a
      <4>1. \A x \in Executors : Sent(x, a) => Sent(x, a)' BY <3>1, <3>3 DEF Sent
      <4>2. \A x \in Executors : at'[x] = "sending" /\ act'[x] = a
                                    => at[x] = "sending" /\ act[x] = a
            BY <3>1, <3>3
      <4> QED BY <1>1, <3>1, <3>3, <4>1, <4>2, SpareKept
    <3> QED BY <3>2, <3>3
  <2> QED BY <2>1, <2>2
<1>7. CASE ToolAnswers(e)
  <2>1. AloneAtWork' BY <1>0, <1>1, <1>7, AloneKept DEF ToolAnswers, MoveTo, Executing
  <2>2. UNCHANGED <<report, posts, granted, act>> BY <1>7 DEF ToolAnswers, history
  <2>3. ASSUME NEW a \in Gated, NEW x \in Executors
        PROVE  /\ Sent(x, a) => Sent(x, a)'
               /\ at'[x] = "sending" => at[x] = "sending"
        BY <1>0, <1>7 DEF ToolAnswers, MoveTo, Sent
  <2> QED BY <1>1, <2>1, <2>2, <2>3, SpareKept
<1>8. CASE SetResult(e)
  <2>1. PICK status \in {"executed", "execution_failed"}, next \in {"save", "relist"} :
           SetStatus(e, status, next)
        BY <1>8 DEF SetResult
  <2>2. /\ report'.status[act[e]] = status
        /\ \A a \in Actions : a # act[e] => report'.status[a] = report.status[a]
        BY <1>0, <2>1, StatusSet DEF ActionStatus
  <2>3. /\ UNCHANGED <<posts, granted, act>> /\ at'[e] = next
        /\ \A x \in Executors : x # e => at'[x] = at[x]
        BY <1>0, <1>8, <2>1 DEF SetResult, SetStatus, MoveTo
  <2>4. AloneAtWork' BY <1>1, <2>3, AloneKept DEF Executing
  <2>5. ASSUME NEW a \in Gated PROVE Spare(a)'
    <3>1. \A x \in Executors : Sent(x, a) => Sent(x, a)' \/ report'.status[a] # "approved"
          BY <2>2, <2>3 DEF Sent
    <3>2. report'.status[a] = "approved" => report.status[a] = "approved"
          BY <1>0, <2>2
    <3>3. \A x \in Executors : at'[x] = "sending" /\ act'[x] = a
                                  => at[x] = "sending" /\ act[x] = a
          BY <2>3
    <3> QED BY <1>1, <2>3, <3>1, <3>2, <3>3, SpareKept
  <2> QED BY <2>4, <2>5
<1>9. CASE Relist(e)
  <2>1. AloneAtWork' BY <1>0, <1>1, <1>9, AloneKept DEF Relist, MoveTo, Executing
  <2>2. UNCHANGED <<posts, granted, act>> /\ report'.status = report.status
        BY <1>0, <1>9 DEF Relist, history, ExecutionTypeOK, Reports
  <2>3. ASSUME NEW a \in Gated, NEW x \in Executors
        PROVE  /\ Sent(x, a) => Sent(x, a)'
               /\ at'[x] = "sending" => at[x] = "sending"
        BY <1>0, <1>9, <2>2 DEF Relist, MoveTo, Sent
  <2> QED BY <1>1, <2>1, <2>2, <2>3, SpareKept
<1> QED BY <1>3, <1>4, <1>5, <1>6, <1>7, <1>8, <1>9 DEF Execute

\* Requests of the owner and savings leave every execution where it is.
LEMMA UndisturbedOther ==
    ASSUME Typed, Undisturbed, UNCHANGED disturbed, UNCHANGED posts,
           \A e \in Executors :
              (Executing(e)' <=> Executing(e)) /\ (Executing(e) => UNCHANGED <<act[e], at[e]>>),
           \A a \in Gated :
              \/ granted'[a] = granted[a] + 1
              \/ /\ granted'[a] = granted[a]
                 /\ report'.status[a] = "approved" => report.status[a] = "approved"
    PROVE  Undisturbed'
<1> SUFFICES ASSUME ~ disturbed PROVE AloneAtWork' /\ \A a \in Gated : Spare(a)'
    BY DEF Undisturbed
<1>1. AloneAtWork /\ \A a \in Gated : Spare(a) BY DEF Undisturbed
<1>2. AloneAtWork' BY <1>1, AloneKept
<1>3. ASSUME NEW a \in Gated PROVE Spare(a)'
  <2>1. \A e \in Executors : /\ Sent(e, a) => Sent(e, a)'
                             /\ at'[e] = "sending" /\ act'[e] = a
                                   => at[e] = "sending" /\ act[e] = a
        BY DEF Sent, Executing
  <2> QED BY <1>1, <2>1, SpareKept
<1> QED BY <1>2, <1>3

LEMMA UndisturbedDecide ==
    ASSUME Typed, Undisturbed, NEW d \in Deciders, Decide(d) PROVE Undisturbed'
<1>0. /\ d \notin Executors /\ d \in Requests /\ act[d] \in Actions
      /\ Executors \subseteq Requests /\ Gated \subseteq Actions /\ ExecutionTypeOK
      BY ActionAssumption DEF Requests, Typed, ExecutionTypeOK
<1>1. ASSUME NEW b \in Actions, BeginDecide(d, b) PROVE Undisturbed'
  <2>1. \A e \in Executors : UNCHANGED <<act[e], at[e]>>
        BY <1>0, <1>1 DEF BeginDecide, Begin, MoveTo, Typed, ExecutionTypeOK
  <2>2. UNCHANGED <<report, posts, granted, disturbed>> BY <1>1 DEF BeginDecide, Begin
  <2> QED BY <2>1, <2>2, UndisturbedOther DEF Executing
<1>2. CASE SetDecision(d)
  <2>1. PICK status \in {"approved", "rejected"} :
           /\ SetStatus(d, status, "unlist")
           /\ IF status = "approved" THEN granted' = [granted EXCEPT ![act[d]] = @ + 1]
                                     ELSE granted' = granted
        BY <1>2 DEF SetDecision
  <2>2. /\ report'.status[act[d]] = status
        /\ \A a \in Actions : a # act[d] => report'.status[a] = report.status[a]
        BY <1>0, <2>1, StatusSet DEF ActionStatus
  <2>3. \A e \in Executors : UNCHANGED <<act[e], at[e]>>
        BY <1>0, <2>1 DEF SetStatus, MoveTo, Typed, ExecutionTypeOK
  <2>4. ASSUME NEW a \in Gated
        PROVE  \/ granted'[a] = granted[a] + 1
               \/ /\ granted'[a] = granted[a]
                  /\ report'.status[a] = "approved" => report.status[a] = "approved"
        BY <1>0, <2>1, <2>2 DEF Typed, ExecutionTypeOK
  <2> QED BY <2>1, <2>3, <2>4, UndisturbedOther DEF SetStatus, Executing
<1>3. CASE Unlist(d) \/ AssignList(d)
  <2>1. \A e \in Executors : UNCHANGED <<act[e], at[e]>>
        BY <1>0, <1>3 DEF Unlist, AssignList, MoveTo, Typed, ExecutionTypeOK
  <2>2. UNCHANGED <<posts, granted, disturbed>> /\ report'.status = report.status
        BY <1>0, <1>3 DEF Unlist, AssignList, history, Typed, ExecutionTypeOK, Reports
  <2> QED BY <2>1, <2>2, UndisturbedOther DEF Executing
<1> QED BY <1>1, <1>2, <1>3 DEF Decide

LEMMA UndisturbedSave ==
    ASSUME Typed, Undisturbed, NEW r \in Requests, SaveReport(r) PROVE Undisturbed'
<1>1. UNCHANGED <<report, act, posts, granted, disturbed>>
      BY DEF SaveReport, Serialise, StoreReport, AnswerRequest, history
<1>2. ASSUME NEW e \in Executors
      PROVE  /\ Executing(e)' <=> Executing(e)
             /\ Executing(e) => UNCHANGED <<act[e], at[e]>>
  <2>1. e \in Requests BY DEF Requests
  <2> QED BY <1>1, <2>1 DEF SaveReport, Serialise, StoreReport, AnswerRequest, MoveTo, Executing,
                            Typed, ExecutionTypeOK
<1> QED BY <1>1, <1>2, UndisturbedOther

\* As long as executions of one action do not overlap and the process does not
\* die, every sending of a write spends an approval of its own, whatever the
\* owner decides in the meantime.
THEOREM ApprovalSpentOnce == ExecutionSpec => []OnePostPerApproval
<1>1. ExecutionInit => Undisturbed
  <2> SUFFICES ASSUME ExecutionInit PROVE AloneAtWork /\ \A a \in Gated : Spare(a)
      BY DEF Undisturbed
  <2>1. AloneAtWork BY DEF ExecutionInit, AloneAtWork, Executing, Requests
  <2>2. ASSUME NEW a \in Gated
        PROVE  posts[a] = 0 /\ granted[a] = 0 /\ report.status[a] # "approved"
    <3>1. a \in Actions BY ActionAssumption
    <3> QED BY <3>1 DEF ExecutionInit, NewReport
  <2>3. \A e \in Executors : at[e] # "sending" BY DEF ExecutionInit, Requests
  <2> QED BY <2>1, <2>2, <2>3 DEF Spare
<1>2. ReportsHold /\ Undisturbed /\ [ExecutionNext]_executionVars => Undisturbed'
  <2> SUFFICES ASSUME ReportsHold, Undisturbed, [ExecutionNext]_executionVars
    PROVE Undisturbed' OBVIOUS
  <2>1. CASE UNCHANGED executionVars
        BY <2>1
          DEF executionVars, request, history, Undisturbed, AloneAtWork, Spare, Executing, Sent
  <2>2. CASE Crash BY <2>2 DEF Crash, Undisturbed
  <2> QED BY <2>1, <2>2, UndisturbedExecute, UndisturbedDecide, UndisturbedSave
          DEF ExecutionNext, ReportsHold
<1>3. ReportsHold /\ Undisturbed => OnePostPerApproval
      BY DEF Undisturbed, Spare, OnePostPerApproval
<1> QED BY <1>1, <1>2, <1>3, ReportsAlwaysHold, PTL DEF ExecutionSpec

-----------------------------------------------------------------------------
\* What the owner was told is rejected is not approved in the shared report, and an
\* execution that is sending it was past its last check by then.
Withdrawn ==
    crashes = 0 =>
       \A a \in refused \cap Gated :
          /\ report.status[a] # "approved"
          /\ \A e \in Executors : at[e] = "sending" /\ act[e] = a => e \in late

\* Steps that answer nothing and lead nobody to its sending.
LEMMA WithdrawnKept ==
    ASSUME Withdrawn, UNCHANGED crashes, refused' \subseteq refused,
           \A a \in refused' \cap Gated : report'.status[a] = "approved"
                                             => report.status[a] = "approved",
           \A e \in Executors : at'[e] = "sending" =>
              at[e] = "sending" /\ act'[e] = act[e] /\ (e \in late => e \in late')
    PROVE  Withdrawn'
BY DEF Withdrawn

\* Only an approval makes a write approved while the process lives, and it takes the
\* write out of those whose rejection was answered.
LEMMA WithdrawnStep == Typed /\ Withdrawn /\ [ExecutionNext]_executionVars => Withdrawn'
<1> SUFFICES ASSUME Typed, Withdrawn, [ExecutionNext]_executionVars PROVE Withdrawn' OBVIOUS
<1>0. /\ Executors \subseteq Requests /\ Deciders \subseteq Requests /\ Gated \subseteq Actions
      /\ \A r \in Requests : act[r] \in Actions
      /\ at \in [Requests -> RequestStates] /\ act \in [Requests -> Actions]
      /\ ExecutionTypeOK /\ report \in Reports
      BY ActionAssumption DEF Requests, Typed, ExecutionTypeOK
<1>1. CASE UNCHANGED executionVars
      BY <1>1 DEF executionVars, request, history, bounds, Withdrawn
<1>2. CASE Crash
      BY <1>2 DEF Crash, Withdrawn, Typed, ExecutionTypeOK
<1>3. ASSUME NEW r \in Requests, NEW a \in Actions, NEW p \in {"begun", "approve", "reject"},
             Begin(r, a, p), \A b \in Gated : report'.status[b] = report.status[b]
      PROVE  Withdrawn'
  <2>1. /\ \A q \in Requests : at'[q] = IF q = r THEN p ELSE at[q]
        /\ \A q \in Requests : act'[q] = IF q = r THEN a ELSE act[q]
        /\ UNCHANGED <<crashes, refused>> /\ late' = late \ {r}
        BY <1>0, <1>3 DEF Begin, MoveTo
  <2> QED BY <1>0, <1>3, <2>1, WithdrawnKept
<1>4. ASSUME NEW e \in Executors, NEW a \in Actions, BeginReadAgain(e, a) PROVE Withdrawn'
  <2>1. \A b \in Gated : report'.status[b] = report.status[b]
        BY <1>0, <1>4, ActionAssumption DEF BeginReadAgain, WithStatus, Reports
  <2> QED BY <1>0, <1>3, <1>4, <2>1 DEF BeginReadAgain, BeginExecution
<1>5. ASSUME NEW e \in Executors, Check(e) PROVE Withdrawn'
  <2>1. /\ UNCHANGED <<report, refused, late, crashes, act>>
        /\ \A x \in Executors : x # e => at'[x] = at[x]
        /\ at'[e] = "sending" /\ act[e] \in Gated => report.status[act[e]] = "approved"
        BY <1>0, <1>5 DEF Check, MoveTo, history, bounds
  <2> QED BY <2>1 DEF Withdrawn
<1>6. ASSUME NEW e \in Executors, Post(e) \/ ToolAnswers(e) \/ Relist(e) PROVE Withdrawn'
  <2>1. /\ UNCHANGED <<refused, late, crashes, act>> /\ report'.status = report.status
        /\ \A x \in Executors : at'[x] = "sending" => at[x] = "sending"
        BY <1>0, <1>6 DEF Post, ToolAnswers, Relist, MoveTo, history, bounds, Reports
  <2> QED BY <2>1, WithdrawnKept
<1>7. ASSUME NEW r \in Requests, NEW status \in ActionStatus,
             NEW next \in {"save", "relist", "unlist"}, SetStatus(r, status, next),
             refused' \subseteq refused, status = "approved" => act[r] \notin refused'
      PROVE  Withdrawn'
  <2>1. /\ report'.status[act[r]] = status
        /\ \A a \in Actions : a # act[r] => report'.status[a] = report.status[a]
        BY <1>0, <1>7, StatusSet
  <2>2. /\ UNCHANGED <<late, crashes, act>>
        /\ \A x \in Executors : at'[x] = "sending" => at[x] = "sending"
        BY <1>0, <1>7 DEF SetStatus, MoveTo, bounds
  <2> QED BY <1>0, <1>7, <2>1, <2>2, WithdrawnKept
<1>8. ASSUME NEW e \in Executors, SetResult(e) PROVE Withdrawn'
      BY <1>0, <1>7, <1>8 DEF SetResult, ActionStatus
<1>9. ASSUME NEW d \in Deciders, SetDecision(d) PROVE Withdrawn'
      BY <1>0, <1>7, <1>9 DEF SetDecision, ActionStatus
<1>10. ASSUME NEW d \in Deciders, NEW a \in Actions, BeginDecide(d, a) PROVE Withdrawn'
       BY <1>0, <1>3, <1>10 DEF BeginDecide
<1>11. ASSUME NEW d \in Deciders, Unlist(d) \/ AssignList(d) PROVE Withdrawn'
  <2>1. /\ UNCHANGED <<refused, late, crashes, act>> /\ report'.status = report.status
        /\ \A x \in Executors : at'[x] = "sending" => at[x] = "sending"
        BY <1>0, <1>11 DEF Unlist, AssignList, MoveTo, history, bounds, Reports
  <2> QED BY <2>1, WithdrawnKept
<1>12. ASSUME NEW r \in Requests, Serialise(r) \/ StoreReport(r) PROVE Withdrawn'
  <2>1. /\ UNCHANGED <<report, refused, late, crashes, act>>
        /\ \A x \in Executors : at'[x] = "sending" => at[x] = "sending"
        BY <1>0, <1>12 DEF Serialise, StoreReport, MoveTo, history, bounds
  <2> QED BY <2>1, WithdrawnKept
<1>13. ASSUME NEW r \in Requests, AnswerRequest(r) PROVE Withdrawn'
  <2>1. /\ UNCHANGED <<report, crashes, act>>
        /\ \A x \in Executors : at'[x] = "sending" => at[x] = "sending"
        BY <1>0, <1>13 DEF AnswerRequest, MoveTo, bounds
  <2>2. CASE AnswersRejection(r)
    <3>1. /\ refused' = refused \cup {act[r]} /\ report.status[act[r]] # "approved"
          /\ late' = late \cup {e \in Executors : at[e] = "sending" /\ act[e] = act[r]}
          BY <1>13, <2>2 DEF AnswerRequest, AnswersRejection
    <3> QED BY <2>1, <3>1 DEF Withdrawn
  <2>3. CASE ~ AnswersRejection(r)
        BY <1>13, <2>1, <2>3, WithdrawnKept DEF AnswerRequest
  <2> QED BY <2>2, <2>3
<1> QED BY <1>0, <1>1, <1>2, <1>3, <1>4, <1>5, <1>6, <1>8, <1>9, <1>10, <1>11, <1>12, <1>13
        DEF ExecutionNext, Execute, Decide, SaveReport, BeginExecute, BeginExecution

\* A write whose rejection was answered is not sent until the owner approves it again,
\* but by an execution that had passed its last check before the answer.
THEOREM RejectionHolds == ExecutionSpec => RejectedNeverPosted
<1> DEFINE Kind ==
      crashes = 0 =>
         \A a \in refused \cap Gated :
            \/ posts'[a] = posts[a]
            \/ \E e \in late : act[e] = a /\ at[e] = "sending" /\ at'[e] = "waiting"
<1>1. ExecutionInit => Withdrawn BY DEF ExecutionInit, Withdrawn
<1>2. Typed /\ Withdrawn /\ [ExecutionNext]_executionVars => [Kind]_executionVars
  <2> SUFFICES ASSUME Typed, Withdrawn, ExecutionNext, crashes = 0,
                      NEW a \in refused \cap Gated, posts'[a] # posts[a]
               PROVE  \E e \in late : act[e] = a /\ at[e] = "sending" /\ at'[e] = "waiting"
      OBVIOUS
  <2>1. /\ a \in Actions /\ posts \in [Actions -> Nat] /\ Executors \subseteq Requests
        /\ at \in [Requests -> RequestStates]
        BY ActionAssumption DEF Typed, ExecutionTypeOK, Requests
  <2>2. ASSUME NEW e \in Executors, Post(e)
        PROVE  \E x \in late : act[x] = a /\ at[x] = "sending" /\ at'[x] = "waiting"
    <3>1. act[e] = a /\ at[e] = "sending" /\ at'[e] = "waiting"
          BY <2>1, <2>2 DEF Post, MoveTo
    <3> QED BY <3>1 DEF Withdrawn
  <2>3. ASSUME NEW e \in Executors, Execute(e), ~ Post(e) PROVE posts' = posts
        BY <2>3 DEF Execute, BeginExecute, BeginReadAgain, BeginExecution, Begin, Check,
           ToolAnswers, SetResult, SetStatus, Relist, history
  <2>4. ASSUME NEW d \in Deciders, Decide(d) PROVE posts' = posts
        BY <2>4 DEF Decide, BeginDecide, Begin, SetDecision, SetStatus, Unlist, AssignList, history
  <2>5. ASSUME NEW r \in Requests, SaveReport(r) PROVE posts' = posts
        BY <2>5 DEF SaveReport, Serialise, StoreReport, AnswerRequest, history
  <2>6. Crash => posts' = posts BY DEF Crash
  <2> QED BY <2>2, <2>3, <2>4, <2>5, <2>6 DEF ExecutionNext
<1>3. ReportsHold => Typed BY DEF ReportsHold
<1> QED BY <1>1, <1>2, <1>3, WithdrawnStep, ReportsAlwaysHold, PTL
        DEF ExecutionSpec, RejectedNeverPosted

\* The invariant that the runs check: well typed, a failed write asks again, and no
\* write is sent that was not granted.
THEOREM ExecutionConsistentHolds == ExecutionSpec => []ExecutionConsistent
<1>1. ExecutionTypeOK /\ FailedIsPending /\ PostsAreGranted => ExecutionConsistent
      BY DEF ExecutionConsistent
<1> QED BY <1>1, ExecutionTypeCorrect, FailedAsksAgain, NothingUngranted, PTL
=============================================================================
