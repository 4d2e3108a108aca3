---------------------------- MODULE SalesSignals ----------------------------
(***************************************************************************)
(* What the hub derives from a journey: the Sales SLA windows and the      *)
(* proof that the activities behind them are complete, the lead score, and *)
(* the next best action, with and without the SLA.  All of it is computed  *)
(* from a ledger and a request, and nothing is stored.                     *)
(*   source: services/agent_hub/npd_agent_hub/sales_intelligence.py,       *)
(*           sales_completeness.py, lead_scoring.py, next_best_action.py,  *)
(*           sales_next_best_action.py and their models                    *)
(* Digests bind what they digest, and signatures are of the hub's key.     *)
(***************************************************************************)
EXTENDS LeadJourney, FiniteSetsExt

CONSTANTS
    TargetOf,   \* the SLA of a campaign's handoff, per type of activity: a touchpoint
                \* is stored only under a campaign that exists, and none is deleted
    AgeLimits   \* the ages at which the recency of a lead drops

ACTIVITY_TYPES == {"first_response", "appointment_booked", "site_visit_completed"}
SLA_TYPES      == {"first_response", "appointment_booked"}

ASSUME SignalAssumption ==
    /\ \A c \in DOMAIN TargetOf : TargetOf[c] \in [SLA_TYPES -> Nat \ {0}]
    /\ AgeLimits \in [1..4 -> Nat]

Never == -1

-----------------------------------------------------------------------------
(* Sales intelligence.  A request has the rows of an activity batch, how   *)
(* many more repeat one of them, a proof or NoProof, and its as_of.        *)

\* The clock starts with the first lead created, else with the first form.
StartEvents(events) ==
    LET created == {e \in events : e.type = "lead_created"}
    IN IF created # {} THEN created ELSE {e \in events : e.type = "form_submit"}

FirstOf(rows) == CHOOSE x \in rows : \A y \in rows : y = x \/ Earlier(x, y)

LeadStart(events) ==
    IF StartEvents(events) = {} THEN Never ELSE FirstOf(StartEvents(events)).at

PolicyCampaign(events) ==
    FirstOf(IF StartEvents(events) = {} THEN events ELSE StartEvents(events)).campaign

\* Rows of another source, subject or campaign, or from before the lead, are untrusted.
Accepted(request, campaign, start) ==
    {x \in request.rows : /\ x.source = "sales hub" /\ x.subject = request.subject
                          /\ x.campaign = campaign /\ x.at >= start}

Batch(request) == [rows |-> request.rows, repeats |-> request.repeats]

\* Mutated form: the claim need not be the one that the heartbeat carries.
VerifiedUnbound(request, campaign, start) ==
    LET proof == request.proof  claim == proof.claim  beat == proof.heartbeat
    IN /\ proof.receipt.signed /\ proof.receipt.heartbeat = beat
       /\ beat.producer = "sales_hub"
       /\ claim.through <= beat.emitted
       /\ claim.subject = request.subject /\ claim.campaign = campaign
       /\ claim.batch = Batch(request)
       /\ request.repeats = 0 /\ Accepted(request, campaign, start) = request.rows
       /\ start # Never => claim.start <= start

\* The proof binds the batch to a claim, the claim to a heartbeat of the Sales Hub,
\* and the heartbeat to a receipt that the hub signed.
Verified(request, campaign, start) ==
    LET proof == request.proof  claim == proof.claim  beat == proof.heartbeat
    IN /\ proof.receipt.signed /\ proof.receipt.heartbeat = beat
       /\ beat.producer = "sales_hub" /\ beat.digest = claim
       /\ claim.through <= beat.emitted
       /\ claim.subject = request.subject /\ claim.campaign = campaign
       /\ claim.batch = Batch(request)
       /\ request.repeats = 0 /\ Accepted(request, campaign, start) = request.rows
       /\ start # Never => claim.start <= start

NoProof == [receipt |-> [signed |-> FALSE]]

\* Only a verified claim that covers the type through the deadline turns silence
\* into a breach.
Window(type, request, campaign, start) ==
    LET rows     == {x \in Accepted(request, campaign, start) : x.type = type}
        deadline == start + TargetOf[campaign][type]
        claim    == request.proof.claim
    IN IF start = Never THEN "not_evaluable"
       ELSE IF rows # {}
            THEN IF FirstOf(rows).at <= deadline THEN "met" ELSE "late"
       ELSE IF request.as_of <= deadline THEN "pending"
       ELSE IF /\ Verified(request, campaign, start)
               /\ type \in claim.covered /\ claim.through >= deadline
            THEN "breached"
       ELSE "overdue_missing_evidence"

WindowStatuses == {"not_evaluable", "met", "late", "pending", "breached",
                   "overdue_missing_evidence"}

Preview(events, request) ==
    LET start == LeadStart(events)  campaign == PolicyCampaign(events)
    IN [start    |-> start,
        campaign |-> campaign,
        verified |-> Verified(request, campaign, start),
        window   |-> [t \in SLA_TYPES |-> Window(t, request, campaign, start)]]

-----------------------------------------------------------------------------
(* The lead score: what was scored of what could be, never a percentage.   *)

STATE_POINTS ==
    [anonymous |-> 0, lead |-> 10, engaged |-> 20, mql |-> 30, sql |-> 40,
     appointment |-> 50, site_visit |-> 58, negotiation |-> 65, won |-> 70,
     customer |-> 70, lost |-> 5, reengagement |-> 25]

SLA_FACTOR_CAPACITY == [first_response |-> 6, appointment_booked |-> 9]
SLA_LATE_POINTS     == [first_response |-> 2, appointment_booked |-> 3]

RecencyPoints(age) ==
    <<20, 16, 12, 6, 0>>[1 + Cardinality({i \in 1..4 : age > AgeLimits[i]})]

EngagementPoints(n) == <<4, 7, 10>>[Min({n, 3})]

Factor(name, points, capacity) == [name |-> name, points |-> points, capacity |-> capacity]

\* Mutated form: what may be missing never counts into the capacity.
EngagementFactorsFree(n) ==
    IF n = 0 THEN {} ELSE {Factor("engagement", EngagementPoints(n), 0)}

\* Without engagement the factor is missing, not zero.
EngagementFactors(n) ==
    IF n = 0 THEN {} ELSE {Factor("engagement", EngagementPoints(n), 10)}

\* Mutated form: a window without a result counts as one that was missed.
SlaFactorsOfAll(sales) ==
    {Factor(t, IF sales.window[t] = "met" THEN SLA_FACTOR_CAPACITY[t]
               ELSE IF sales.window[t] = "late" THEN SLA_LATE_POINTS[t] ELSE 0,
            SLA_FACTOR_CAPACITY[t]) : t \in SLA_TYPES}

\* A window counts when it has a result and the batch is proven; otherwise it is
\* left out of the points and of the capacity.
SlaFactors(sales) ==
    {Factor(t, IF sales.window[t] = "met" THEN SLA_FACTOR_CAPACITY[t]
               ELSE IF sales.window[t] = "late" THEN SLA_LATE_POINTS[t] ELSE 0,
            SLA_FACTOR_CAPACITY[t]) :
        t \in {u \in SLA_TYPES : /\ sales.verified
                                 /\ sales.window[u] \in {"met", "late", "breached"}}}

NoSales == [verified |-> FALSE, window |-> [t \in SLA_TYPES |-> "not_evaluable"]]

TrustedOf(events) == {e \in events : Trusted(e)}

\* The age is that of the latest trusted event, and untrusted ones do not count.
Score(events, as_of, sales) ==
    LET latest   == Max({e.at : e \in TrustedOf(events)})
        engaging == Cardinality({e \in TrustedOf(events) : e.type \in ENGAGEMENT_TYPES})
        factors  ==
            {Factor("journey_state", STATE_POINTS[Replay(events).state], 70),
             Factor("recency", RecencyPoints(Max({0, as_of - latest})), 20)}
                \cup EngagementFactors(engaging) \cup SlaFactors(sales)
        Points(f)   == f.points
        Capacity(f) == f.capacity
    IN [points |-> MapThenSumSet(Points, factors), capacity |-> MapThenSumSet(Capacity, factors)]

\* Rounding to two decimals moves no score over a threshold: points are integers
\* and the capacity is at most 115.
AtLeast(score, percent) == score.points * 100 >= percent * score.capacity

-----------------------------------------------------------------------------
(* The next best action: what to review, how urgently, and within minutes. *)

LOW    == 0
MEDIUM == 1
HIGH   == 2

EARLY_SALES_STATES == {"lead", "engaged", "mql", "sql"}

Advice(action, priority, minutes) ==
    [action |-> action, priority |-> priority, minutes |-> minutes, escalation |-> "none"]

LaterAdvice ==
    [anonymous   |-> Advice("collect_more_evidence", LOW, 1440),
     appointment |-> Advice("review_appointment_preparation", HIGH, 30),
     site_visit  |-> Advice("review_post_visit_follow_up", HIGH, 30),
     negotiation |-> Advice("review_negotiation_next_step", HIGH, 30),
     won         |-> Advice("review_customer_handoff", MEDIUM, 240),
     customer    |-> Advice("review_customer_care", LOW, 1440),
     lost        |-> Advice("review_lost_reason", MEDIUM, 1440)]

Rule(state, score) ==
    IF state \in EARLY_SALES_STATES
    THEN IF AtLeast(score, 70) THEN Advice("review_sales_follow_up", HIGH, 30)
         ELSE IF AtLeast(score, 50) THEN Advice("review_sales_follow_up", MEDIUM, 120)
         ELSE Advice("review_sales_follow_up", LOW, 1440)
    ELSE IF state = "reengagement"
    THEN IF AtLeast(score, 70) THEN Advice("review_reengagement", HIGH, 60)
         ELSE Advice("review_reengagement", MEDIUM, 240)
    ELSE LaterAdvice[state]

\* A proven miss of the SLA raises what is advised early in the journey.
Escalated(advice, state, sales) ==
    LET results == {sales.window[t] : t \in SLA_TYPES}
    IN IF ~(sales.verified /\ state \in EARLY_SALES_STATES) THEN advice
       ELSE IF "breached" \in results
       THEN [action |-> "review_sales_follow_up", priority |-> HIGH,
             minutes |-> Min({advice.minutes, 15}), escalation |-> "verified_breach"]
       ELSE IF "late" \in results
       THEN [action |-> "review_sales_follow_up", priority |-> Max({advice.priority, MEDIUM}),
             minutes |-> Min({advice.minutes, 60}), escalation |-> "verified_late"]
       ELSE advice
=============================================================================
