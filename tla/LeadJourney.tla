----------------------------- MODULE LeadJourney -----------------------------
(***************************************************************************)
(* The customer journey of one subject, replayed from its touchpoints: the *)
(* state it is in, the states it was seen in and those it skipped.         *)
(*   source: services/agent_hub/npd_agent_hub/journeys.py,                 *)
(*           journey_models.py                                             *)
(* A source is its normalized name, of which the aliases are one.  Reasons,*)
(* confidences and the evidence list are left out.                         *)
(***************************************************************************)
EXTENDS Integers, Sequences, FiniteSets, SequencesExt, Folds

STATE_SEQUENCE == <<"anonymous", "lead", "engaged", "mql", "sql", "appointment",
                    "site_visit", "negotiation", "won", "customer">>

Linear == ToSet(STATE_SEQUENCE)
States == Linear \cup {"lost", "reengagement"}

STATE_RANK == [s \in Linear |-> CHOOSE i \in 1..10 : STATE_SEQUENCE[i] = s]

DIRECT_TARGETS ==
    [form_submit |-> "lead", lead_created |-> "lead", opportunity_created |-> "sql",
     opportunity_stage_changed |-> "negotiation", sale_closed |-> "won"]

ENGAGEMENT_TYPES == {"ad_click", "landing_view"}
EVENT_TYPES      == DOMAIN DIRECT_TARGETS \cup ENGAGEMENT_TYPES

\* A stage is declared by versioned evidence, on two types of event only.
SALES_EVIDENCE_EVENT_TYPES == {"opportunity_stage_changed", "sale_closed"}
SALES_EVIDENCE_STATES ==
    {"mql", "appointment", "site_visit", "lost", "customer", "reengagement"}

\* A sale is lost, and a customer won, on the word of the CRM alone.
SOURCE_POLICY ==
    [s \in SALES_EVIDENCE_STATES |->
        {"espocrm"} \cup (IF s \in {"lost", "customer"} THEN {} ELSE {"sales hub"})]

-----------------------------------------------------------------------------
\* A touchpoint declares a stage, nothing, or something that fails the contract.
Contract(e) == e.type \in SALES_EVIDENCE_EVENT_TYPES /\ e.declares \in SALES_EVIDENCE_STATES

\* Mutated form: whoever declares a stage is believed.
AuthorityUnchecked(e) ==
    IF e.declares = "nothing" THEN "not_required"
    ELSE IF Contract(e) THEN "accepted" ELSE "invalid_contract"

Authority(e) ==
    IF e.declares = "nothing" THEN "not_required"
    ELSE IF ~Contract(e) THEN "invalid_contract"
    ELSE IF e.source \in SOURCE_POLICY[e.declares] THEN "accepted"
    ELSE "rejected_source"

Trusted(e) == Authority(e) \in {"not_required", "accepted"}

\* Where an event would lead from a state: to one state, or nowhere.
Target(e, state) ==
    IF ~Trusted(e) THEN {}
    ELSE IF e.declares # "nothing" THEN {e.declares}
    ELSE IF e.type \in DOMAIN DIRECT_TARGETS THEN {DIRECT_TARGETS[e.type]}
    ELSE IF e.type \in ENGAGEMENT_TYPES /\ state \in Linear \ {"anonymous"} THEN {"engaged"}
    ELSE {}

\* Mutated form: a later stage of the linear journey need not be higher.
TransitionAllowedDown(from, to) ==
    \/ to = "reengagement" /\ from \in {"lost", "customer"}
    \/ to = "lost" /\ from \notin {"lost", "won", "customer", "reengagement"}
    \/ {from, to} \subseteq Linear

TransitionAllowed(from, to) ==
    \/ to = "reengagement" /\ from \in {"lost", "customer"}
    \/ to = "lost" /\ from \notin {"lost", "won", "customer", "reengagement"}
    \/ {from, to} \subseteq Linear /\ STATE_RANK[to] > STATE_RANK[from]

\* Mutated form: the state just above the one that is left is taken for seen.
SkippedStatesButOne(from, to) ==
    LET top == IF to = "lost" THEN STATE_RANK["negotiation"] + 1 ELSE STATE_RANK[to]
    IN IF to = "reengagement" THEN {}
       ELSE {s \in Linear : STATE_RANK[s] \in (STATE_RANK[from] + 2)..(top - 1)}

\* A loss skips the states up to the negotiation that did not take place.
SkippedStates(from, to) ==
    LET top == IF to = "lost" THEN STATE_RANK["negotiation"] + 1 ELSE STATE_RANK[to]
    IN IF to = "reengagement" THEN {}
       ELSE {s \in Linear : STATE_RANK[s] \in (STATE_RANK[from] + 1)..(top - 1)}

-----------------------------------------------------------------------------
Beginning == [state |-> "anonymous", observed |-> {}, skipped |-> {}]

\* An event moves the journey to its target, or leaves it where it is.
Advance(p, e) ==
    IF \E s \in Target(e, p.state) : TransitionAllowed(p.state, s)
    THEN LET s == CHOOSE t \in Target(e, p.state) : TRUE
         IN [state    |-> s,
             observed |-> p.observed \cup {s},
             skipped  |-> p.skipped \cup SkippedStates(p.state, s)]
    ELSE p

Earlier(e, f) == e.at < f.at \/ (e.at = f.at /\ e.id < f.id)

\* Events are replayed in the order they occurred, whenever they arrived.
Latest(events) == CHOOSE e \in events : \A f \in events : f = e \/ Earlier(f, e)

Replay(events) ==
    LET After(e, p) == Advance(p, e)  Itself(e) == e
    IN MapThenFoldSet(After, Beginning, Itself, Latest, events)

MissingSignals(p) == p.skipped \ p.observed
=============================================================================
