---------------------- MODULE AttributionReconciliation ----------------------
(***************************************************************************)
(* How opportunities are reconciled with the touchpoint ledger, accepted   *)
(* by the owner and reported.  A request matches each of its opportunities *)
(* with the touches the ledger lists, one store call after the other, and  *)
(* keeps the matches with their quality and a fingerprint of the ledger;   *)
(* the ledger grows meanwhile (AttributionLedger says how).                *)
(*   source: services/agent_hub/npd_agent_hub/attribution.py, store.py,    *)
(*           espocrm_opportunities.py                                      *)
(* Campaigns are never deleted, so the known ones are a constant.          *)
(***************************************************************************)
EXTENDS Naturals, Sequences, FiniteSets, FiniteSetsExt, Functions

CONSTANTS
    Handlers,      \* threads that serve attribution routes
    Touchpoints,   \* event ids of touchpoints
    TouchOf,       \* their campaign, opportunity, lead, and rank by (occurred_at, event_id)
    Campaigns,     \* the campaigns the hub knows
    Opportunities, Leads, Amounts,
    Batches,       \* what operators post, sequences of observations
    EspoRecords,   \* what EspoCRM answers, sequences of its records
    MatchLimit,    \* how many touches of one opportunity or lead are listed, 1000
    LedgerLimit,   \* how many touches of the whole ledger are listed, 5000
    MaxRecords,    \* bound: reconciliations
    Scale,         \* a whole credit, in parts that any number of campaigns can share
    None           \* no lead, no campaign hint

ASSUME TouchAssumption ==
    /\ \A t \in Touchpoints : TouchOf[t].campaign \in Campaigns /\ TouchOf[t].at \in Nat
    /\ \A t, u \in Touchpoints : TouchOf[t].at = TouchOf[u].at => t = u

ASSUME ReportAssumption ==
    /\ IsFiniteSet(Campaigns) /\ Amounts \subseteq Nat
    /\ Scale \in Nat \ {0} /\ \A n \in 1..Cardinality(Campaigns) : n * (Scale \div n) = Scale

VARIABLES
    ledger,    \* the touchpoints that readers list
    records,   \* the stored reconciliations
    pc, call   \* where each handler is, and its local variables

reconciliationVars == <<ledger, records, pc, call>>

-----------------------------------------------------------------------------
Statuses     == {"open", "won", "lost"}
Hints        == Campaigns \cup {"unknown_campaign", None}
Observations == [opportunity : Opportunities, lead : Leads \cup {None}, hint : Hints,
                 status : Statuses, amount : Amounts, closed : BOOLEAN]

\* A record of EspoCRM, as far as it is projected.
EspoRows == [id : Opportunities, hint : Hints, stage : STRING, amount : Amounts, dated : BOOLEAN]

\* A request holds at least one observation, and the threads of the hub are finitely many.
ASSUME RequestAssumption ==
    /\ IsFiniteSet(Handlers) /\ MaxRecords \in Nat
    /\ MatchLimit \in Nat \ {0} /\ LedgerLimit \in Nat \ {0}
    /\ Batches \subseteq Seq(Observations) /\ <<>> \notin Batches
    /\ EspoRecords \subseteq Seq(EspoRows)

Issues  == {"campaign_id_hint_not_found", "no_campaign_touchpoint_match",
            "campaign_id_hint_conflicts_with_touchpoints"}
Methods == {"opportunity_id", "lead_id", "campaign_id_hint"}
Matches == [campaigns : SUBSET Campaigns, touches : SUBSET Touchpoints,
            method : Methods, issues : SUBSET Issues]

\* seen, read: history, the ledger when the first match was listed and when the digest was.
Records == [observations : Seq(Observations), matches : Seq(Matches), eligible : BOOLEAN,
            fingerprint : SUBSET Touchpoints, seen : SUBSET Touchpoints,
            read : SUBSET Touchpoints,
            state : {"awaiting_quality_acceptance", "blocked_by_data_quality",
                     "quality_accepted", "quality_rejected"}]

NoCall == [kind |-> "none"]
Calls  == [kind : {"reconcile"}, observations : Seq(Observations), matches : Seq(Matches),
           seen : SUBSET Touchpoints, read : SUBSET Touchpoints,
           fingerprint : SUBSET Touchpoints]
            \cup [kind : {"decide"}, id : 1..MaxRecords, copy : Records, accepted : BOOLEAN]

ReconciliationTypeOK ==
    /\ ledger \subseteq Touchpoints
    /\ records \in Seq(Records) /\ Len(records) <= MaxRecords
    /\ pc \in [Handlers -> {"idle", "list", "list_lead", "fingerprint", "save", "decide"}]
    /\ call \in [Handlers -> Calls \cup {NoCall}]

ReconciliationInit ==
    /\ ledger = {} /\ records = <<>>
    /\ pc = [h \in Handlers |-> "idle"]
    /\ call = [h \in Handlers |-> NoCall]

MoveTo(h, p) == pc' = [pc EXCEPT ![h] = p]
End(h) == MoveTo(h, "idle") /\ call' = [call EXCEPT ![h] = NoCall]

\* append_touchpoint adds a touchpoint to the sorted sets in one transaction.
Append_touchpoint(t) ==
    /\ t \notin ledger
    /\ ledger' = ledger \cup {t}
    /\ UNCHANGED <<records, pc, call>>

-----------------------------------------------------------------------------
(* Matching.                                                               *)

\* A listing holds the newest touches of a set, as many as its limit allows.
Listing(touches, limit) ==
    IF Cardinality(touches) <= limit THEN touches
    ELSE {t \in touches : Cardinality({u \in touches : TouchOf[u].at > TouchOf[t].at}) < limit}

OfOpportunity(l, o) ==
    Listing({t \in l : TouchOf[t].opportunity = o.opportunity}, MatchLimit)
OfLead(l, o) ==
    Listing({t \in l : o.lead # None /\ TouchOf[t].lead = o.lead}, MatchLimit)

TouchedBy(touches) == {TouchOf[t].campaign : t \in touches}

\* Mutated form: the hint is not looked up.
HintedUnchecked(o, touches) ==
    IF touches = {} /\ o.hint # None THEN {o.hint} ELSE TouchedBy(touches)

\* The hint stands in for missing touches, and must not contradict them.
Hinted(o, touches) ==
    IF touches = {} /\ o.hint \in Campaigns THEN {o.hint} ELSE TouchedBy(touches)

IssuesOf(o, touches) ==
    {i \in Issues :
        \/ /\ i = "campaign_id_hint_not_found"
           /\ touches = {} /\ o.hint \notin Campaigns \cup {None}
        \/ i = "no_campaign_touchpoint_match" /\ Hinted(o, touches) = {}
        \/ /\ i = "campaign_id_hint_conflicts_with_touchpoints"
           /\ touches # {} /\ o.hint \notin TouchedBy(touches) \cup {None}}

\* by: the reference the touches were last looked up by.
Match(o, touches, by) ==
    [campaigns |-> Hinted(o, touches), touches |-> touches, issues |-> IssuesOf(o, touches),
     method |-> IF touches = {} /\ o.hint \in Campaigns THEN "campaign_id_hint" ELSE by]

\* Mutated form: an opportunity without a campaign is no obstacle.
EligibleUnmatched(os, ms) ==
    /\ os # <<>>
    /\ \A i \in DOMAIN ms : ms[i].issues \subseteq {"no_campaign_touchpoint_match"}
    /\ \E i \in DOMAIN os : os[i].status = "won"
    /\ \A i \in DOMAIN os : os[i].status = "won" => os[i].amount > 0 /\ os[i].closed

\* _quality: what the owner may accept.
Eligible(os, ms) ==
    /\ os # <<>>
    /\ \A i \in DOMAIN ms : ms[i].issues = {}
    /\ \E i \in DOMAIN os : os[i].status = "won"
    /\ \A i \in DOMAIN os : os[i].status = "won" => os[i].amount > 0 /\ os[i].closed

-----------------------------------------------------------------------------
(* reconcile.                                                              *)
Begin(h, os) ==
    /\ pc[h] = "idle"
    /\ Len(records) + Cardinality({g \in Handlers : call[g].kind = "reconcile"}) < MaxRecords
    /\ \A i, j \in DOMAIN os : os[i].opportunity = os[j].opportunity => i = j
    /\ MoveTo(h, "list")
    /\ call' = [call EXCEPT ![h] = [kind |-> "reconcile", observations |-> os, matches |-> <<>>,
                                    seen |-> {}, read |-> {}, fingerprint |-> {}]]
    /\ UNCHANGED <<ledger, records>>

Current(h) == call[h].observations[Len(call[h].matches) + 1]

\* History: the ledger that the first of the readings saw.
Seen(h) == IF pc[h] = "list" /\ call[h].matches = <<>> THEN ledger ELSE call[h].seen

Matched(h, touches, by) ==
    /\ call' = [call EXCEPT ![h].matches = Append(@, Match(Current(h), touches, by)),
                            ![h].seen = Seen(h)]
    /\ MoveTo(h, IF Len(call[h].matches) + 1 = Len(call[h].observations) THEN "fingerprint" ELSE "list")

\* The touches of the opportunity, or else of its lead.
ListByOpportunity(h) ==
    /\ pc[h] = "list"
    /\ LET touches == OfOpportunity(ledger, Current(h)) IN
       IF touches = {} /\ Current(h).lead # None
       THEN /\ MoveTo(h, "list_lead")
            /\ call' = [call EXCEPT ![h].seen = Seen(h)]
       ELSE Matched(h, touches, "opportunity_id")
    /\ UNCHANGED <<ledger, records>>

ListByLead(h) ==
    /\ pc[h] = "list_lead"
    /\ Matched(h, OfLead(ledger, Current(h)), "lead_id")
    /\ UNCHANGED <<ledger, records>>

\* Mutated form: the digest has the limit of a match.
FingerprintOfFewer == Listing(ledger, MatchLimit)

\* A digest stands for what it digests: what the ledger lists.
LedgerFingerprint == Listing(ledger, LedgerLimit)

TakeFingerprint(h) ==
    /\ pc[h] = "fingerprint"
    /\ call' = [call EXCEPT ![h].fingerprint = LedgerFingerprint, ![h].read = ledger]
    /\ MoveTo(h, "save")
    /\ UNCHANGED <<ledger, records>>

SaveReconciliation(h) ==
    /\ pc[h] = "save"
    /\ LET c == call[h] ok == Eligible(c.observations, c.matches) IN
       records' = Append(records,
           [observations |-> c.observations, matches |-> c.matches, eligible |-> ok,
            fingerprint |-> c.fingerprint, seen |-> c.seen, read |-> c.read,
            state |-> IF ok THEN "awaiting_quality_acceptance" ELSE "blocked_by_data_quality"])
    /\ End(h)
    /\ UNCHANGED ledger

-----------------------------------------------------------------------------
(* Observations read from EspoCRM.                                         *)
StatusOf(stage) ==
    CASE stage = "closed won" -> "won" [] stage = "closed lost" -> "lost" [] OTHER -> "open"

\* No lead is projected, and only a won opportunity keeps its close date.
Observation(r) ==
    [opportunity |-> r.id, lead |-> None, hint |-> r.hint, status |-> StatusOf(r.stage),
     amount |-> r.amount, closed |-> StatusOf(r.stage) = "won" /\ r.dated]

\* reconcile_espocrm_opportunities: an empty snapshot is refused.
BeginFromEspo(h, rs) ==
    /\ rs # <<>>
    /\ Begin(h, [i \in DOMAIN rs |-> Observation(rs[i])])

-----------------------------------------------------------------------------
(* accept_quality.                                                         *)

\* Mutated form: the gate is not asked.
MayDecideAnyway(r, accepted) == accepted \in BOOLEAN

MayDecide(r, accepted) == accepted => r.eligible

ReadForDecision(h, i, accepted) ==
    /\ pc[h] = "idle" /\ i \in DOMAIN records
    /\ MayDecide(records[i], accepted)
    /\ MoveTo(h, "decide")
    /\ call' = [call EXCEPT ![h] = [kind |-> "decide", id |-> i, copy |-> records[i],
                                    accepted |-> accepted]]
    /\ UNCHANGED <<ledger, records>>

SaveDecision(h) ==
    /\ pc[h] = "decide"
    /\ records' = [records EXCEPT ![call[h].id] = [call[h].copy EXCEPT !.state =
                      IF call[h].accepted THEN "quality_accepted" ELSE "quality_rejected"]]
    /\ End(h)
    /\ UNCHANGED ledger

-----------------------------------------------------------------------------
(* report: credits in parts of Scale, rows rounded as the report rounds them. *)
QualityAccepted(r) == r.state = "quality_accepted"

Models == {"first_touch", "last_touch", "linear"}

\* campaign_ids keeps each campaign where its first touch stands.
FirstAt(m, c) == Min({TouchOf[t].at : t \in {u \in m.touches : TouchOf[u].campaign = c}})
IsFirst(m, c) == m.touches = {} \/ \A d \in m.campaigns : FirstAt(m, c) <= FirstAt(m, d)
IsLast(m, c)  == m.touches = {} \/ \A d \in m.campaigns : FirstAt(m, d) <= FirstAt(m, c)

Credit(m, c, model) ==
    IF c \notin m.campaigns THEN 0
    ELSE CASE model = "first_touch" -> IF IsFirst(m, c) THEN Scale ELSE 0
           [] model = "last_touch"  -> IF IsLast(m, c) THEN Scale ELSE 0
           [] OTHER -> Scale \div Cardinality(m.campaigns)

\* The value of an opportunity in a column of the report.
Worth(o, column) ==
    CASE column = "credit" -> 1
      [] column = "pipeline" -> IF o.status \in {"open", "won"} THEN o.amount ELSE 0
      [] OTHER -> IF o.status = "won" THEN o.amount ELSE 0

Places(column) == IF column = "credit" THEN 10000 ELSE 100
Rounded(x, p)  == (2 * x * p + Scale) \div (2 * Scale)

Row(r, model, c, column) ==
    Rounded(SumFunction([i \in DOMAIN r.matches |-> Worth(r.observations[i], column)
                                                   * Credit(r.matches[i], c, model)]),
            Places(column))

Total(r, model, column) == SumFunction([c \in Campaigns |-> Row(r, model, c, column)])

-----------------------------------------------------------------------------
Request(h) ==
    \/ \E os \in Batches : Begin(h, os)
    \/ \E rs \in EspoRecords : BeginFromEspo(h, rs)
    \/ \E i \in 1..MaxRecords, accepted \in BOOLEAN : ReadForDecision(h, i, accepted)

Step(h) ==
    \/ ListByOpportunity(h) \/ ListByLead(h) \/ TakeFingerprint(h)
    \/ SaveReconciliation(h) \/ SaveDecision(h)

ReconciliationNext ==
    \/ \E t \in Touchpoints : Append_touchpoint(t)
    \/ \E h \in Handlers : Request(h) \/ Step(h)

ReconciliationSpec == ReconciliationInit /\ [][ReconciliationNext]_reconciliationVars

-----------------------------------------------------------------------------
(* Properties.                                                             *)

\* A match, computed again: its opportunity is looked up in one ledger, and its
\* lead, if need be, in a later one.
Recomputed(o, l, later) ==
    IF OfOpportunity(l, o) # {} \/ o.lead = None
    THEN Match(o, OfOpportunity(l, o), "opportunity_id")
    ELSE Match(o, OfLead(later, o), "lead_id")

\* The ledgers there may have been between two readings; nothing leaves a ledger.
Between(first, last) == {first \cup new : new \in SUBSET (last \ first)}

Explained(o, m, first, last) ==
    \E l \in Between(first, last) : \E later \in Between(l, last) : m = Recomputed(o, l, later)

\* A reconciliation can be computed again from the ledger it names, if the ledger
\* stood still and was listed in full.  If not, each match is still that of ledgers
\* between its first reading and the digest, and rests on no touch that the digest
\* leaves out, but for those that the limit leaves out.  ("It is therefore a
\* reproducible historical snapshot", docs/PHASE_7_ATTRIBUTION_REVENUE_OS.md, says
\* more; reconcile, _ledger_fingerprint)
SnapshotIsReproducible ==
    \A k \in DOMAIN records : LET r == records[k] IN
        \A i \in DOMAIN r.matches :
            LET o == r.observations[i]  m == r.matches[i]
            IN  /\ r.seen = r.read /\ Cardinality(r.read) <= LedgerLimit =>
                      m = Recomputed(o, r.fingerprint, r.fingerprint)
                /\ Explained(o, m, r.seen, r.read)
                /\ \A t \in m.touches :
                      Cardinality({u \in r.read : TouchOf[u].at > TouchOf[t].at}) < LedgerLimit
                          => t \in r.fingerprint

\* What the owner accepted is credited in full: under every model the report
\* of an accepted reconciliation adds up to all its opportunities, their
\* pipeline and their closed revenue, but for the rounding of its rows.
\* (_quality, accept_quality, report)
AcceptedIsCreditedInFull ==
    \A k \in DOMAIN records : LET r == records[k] IN
        QualityAccepted(r) =>
            \A model \in Models, column \in {"credit", "pipeline", "revenue"} :
                LET due  == Places(column) * SumFunction([i \in DOMAIN r.observations |->
                                                            Worth(r.observations[i], column)])
                    slip == Cardinality(Campaigns)
                IN  /\ 2 * Total(r, model, column) <= 2 * due + slip
                    /\ 2 * due <= 2 * Total(r, model, column) + slip

\* No sequence of decisions, whichever copies they save over each other, shows
\* revenue of a won opportunity without an amount or a close date.  ("cannot
\* pass owner acceptance", docs/PHASE_7_ATTRIBUTION_REVENUE_OS.md)
AcceptedRevenueIsClosed ==
    \A k \in DOMAIN records : LET r == records[k] IN
        QualityAccepted(r) => \A i \in DOMAIN r.observations :
            r.observations[i].status = "won" => r.observations[i].amount > 0 /\ r.observations[i].closed

\* "last_touch: 100% credit to the latest Campaign touch"
\* (docs/PHASE_7_ATTRIBUTION_REVENUE_OS.md).
LastTouchIsLatest ==
    \A k \in DOMAIN records : \A i \in DOMAIN records[k].matches :
        LET m == records[k].matches[i] IN
        \A t \in m.touches :
            (\A u \in m.touches : TouchOf[u].at <= TouchOf[t].at)
                => Credit(m, TouchOf[t].campaign, "last_touch") = Scale

\* Every state is well typed, and no acceptance covers revenue that is not closed.
ReconciliationConsistent ==
    /\ ReconciliationTypeOK
    /\ AcceptedRevenueIsClosed
=============================================================================
