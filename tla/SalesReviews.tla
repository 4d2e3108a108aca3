---------------------------- MODULE SalesReviews ----------------------------
(***************************************************************************)
(* Recommendations for a lead and the reviews of them.  A request reads    *)
(* the ledger two or three times, in a worker thread of its own, while     *)
(* touchpoints arrive; the Sales Hub records its activities and attests    *)
(* that they are complete; and a review is stored, indexed and makes room  *)
(* for the next by a sequence of Redis commands that others come between.  *)
(*   source: services/agent_hub/npd_agent_hub/nba_review.py,               *)
(*           sales_nba_review.py, nba_review_repository.py, routers/       *)
(* An unknown subject (404) and a reader without the role change nothing.  *)
(***************************************************************************)
EXTENDS SalesSignals

CONSTANTS
    Subjects,
    Reviewers,   \* requests that are handled at the same time
    Retention,   \* NBA_REVIEW_RETENTION
    EventLimit,  \* how many touchpoints of a subject are listed, 5000
    Scenarios    \* the instances of a run: what may happen, and its bounds

ASSUME RetentionAssumption == Retention \in Nat \ {0}
ASSUME EventLimitAssumption == EventLimit \in Nat \ {0}

VARIABLES
    scenario,   \* the instance this behaviour belongs to; never changes
    now,
    arrived,     \* the touchpoints ingested so far (module AttributionLedger)
    log,        \* what happened at the Sales Hub
    beats,      \* the heartbeats for which the hub signed a receipt
    calls,      \* what each reviewer's request has come to
    reviews,    \* the record keys of the reviews
    listed,     \* the index of all reviews, by the time they were made
    bySubject,  \* the index of each subject
    issued,     \* how many reviews were made; the last is the newest
    saved,      \* history: the reviews that were indexed
    mishaps     \* history: "overlap" and "death" of requests that store a review

signals == <<now, arrived, log, beats>>
store   == <<reviews, listed, bySubject, issued, saved, mishaps>>
vars    == <<scenario, signals, calls, store>>

-----------------------------------------------------------------------------
Times    == 0..scenario.time
Ids      == 1..scenario.saves
Versions == {"phase-9a-nba-v1", "phase-9b-nba-v2"}

Touches    == [id : Nat, subject : Subjects, type : EVENT_TYPES, at : Nat, source : STRING,
               campaign : DOMAIN TargetOf,
               declares : States \cup {"nothing", "malformed"}]
Activities == [id : Nat, type : ACTIVITY_TYPES, at : Nat, source : STRING,
               subject : Subjects, campaign : DOMAIN TargetOf]

\* What may happen in an instance is well formed, and an id names one touchpoint.  No
\* claim ends at the very instant it is made at, when more may happen yet.
ASSUME ScenarioAssumption ==
    \A s \in Scenarios :
        LET touches == s.known \cup s.touches
        IN /\ s.time \in Nat /\ s.saves \in Nat
           /\ IsFiniteSet(touches) /\ touches \subseteq Touches
           /\ \A e, f \in touches : e.id = f.id => e = f
           /\ s.activities \subseteq Activities
           /\ \A kind \in s.claims : kind.start \in Nat /\ kind.ahead \in Int \ {0}

Idle    == [pc |-> "idle"]
Storing == {"indexing", "counting", "ranging", "expiring"}

TypeOK ==
    /\ scenario \in Scenarios /\ now \in Times
    /\ arrived \subseteq Touches /\ log \subseteq Activities
    /\ \A b \in beats : b.emitted \in Times /\ b.digest.batch.rows \subseteq Activities
    /\ \A r \in Reviewers :
          /\ calls[r].pc \in {"idle", "projected", "previewed", "scored", "recommended"} \cup Storing
          /\ calls[r].pc = "recommended" =>
                /\ calls[r].state \in States /\ calls[r].advice.priority \in LOW..HIGH
                /\ calls[r].score.points \in 0..calls[r].score.capacity
          /\ calls[r].pc \in Storing => calls[r].id \in 1..issued
    /\ DOMAIN reviews \subseteq Ids
    /\ \A i \in DOMAIN reviews : reviews[i] \in [subject : Subjects, version : Versions]
    /\ listed \subseteq Ids /\ bySubject \subseteq Subjects \X Ids
    /\ issued \in 0..scenario.saves /\ saved \subseteq Ids
    /\ mishaps \subseteq {"overlap", "death"}

Init ==
    /\ scenario \in Scenarios
    /\ now = 0 /\ arrived = scenario.known /\ log = {} /\ beats = {}
    /\ calls = [r \in Reviewers |-> Idle]
    /\ reviews = [i \in {} |-> Idle] /\ listed = {} /\ bySubject = {}
    /\ issued = 0 /\ saved = {} /\ mishaps = {}

-----------------------------------------------------------------------------
(* The world: time, touchpoints in any order, activities and attestations. *)

Tick ==
    /\ now < scenario.time
    /\ now' = now + 1
    /\ UNCHANGED <<scenario, arrived, log, beats, calls, store>>

Ingest(e) ==
    /\ e \in scenario.touches \ arrived
    /\ arrived' = arrived \cup {e}
    /\ UNCHANGED <<scenario, now, log, beats, calls, store>>

Happen(a) ==
    /\ a \in scenario.activities /\ \A x \in log : x.id # a.id
    /\ log' = log \cup {[a EXCEPT !.at = now]}
    /\ UNCHANGED <<scenario, now, arrived, beats, calls, store>>

\* A claim of the Sales Hub omits nothing that it covers; what else it reports, and
\* whether its watermark is one it has reached, is its own affair.
Honest(claim) ==
    LET own == {x \in log : x.subject = claim.subject /\ x.campaign = claim.campaign}
    IN /\ claim.batch.rows \subseteq own /\ claim.batch.repeats = 0
       /\ {x \in own : x.type \in claim.covered /\ x.at \in claim.start..claim.through}
             \subseteq claim.batch.rows

Attest(producer, claim) ==
    /\ Cardinality(beats) < scenario.beats
    /\ claim.start <= claim.through
    /\ producer = "sales_hub" => Honest(claim)
    /\ beats' = beats \cup {[producer |-> producer, digest |-> claim, emitted |-> now]}
    /\ UNCHANGED <<scenario, now, arrived, log, calls, store>>

\* The kinds of claim an instance has, each over any batch.
Claims(kind) ==
    {[subject |-> s, campaign |-> kind.campaign, start |-> kind.start,
      through |-> now + kind.ahead, covered |-> kind.covered,
      batch |-> [rows |-> rows, repeats |-> 0]] : s \in Subjects, rows \in SUBSET log}

-----------------------------------------------------------------------------
(* A recommendation.  Every reading of the ledger is a step of its own.    *)

Ingested(s) == {e \in arrived : e.subject = s}

\* The touchpoints that are listed, the newest as the limit allows.
Events(s) ==
    IF Cardinality(Ingested(s)) <= EventLimit THEN Ingested(s)
    ELSE {e \in Ingested(s) : Cardinality({f \in Ingested(s) : Earlier(e, f)}) < EventLimit}

Goto(r, c) == calls' = [calls EXCEPT ![r] = c] /\ UNCHANGED <<scenario, signals>>

\* The bounds of the instance on the requests.
MayBegin(r) ==
    /\ calls[r] = Idle
    /\ Cardinality({q \in Reviewers : calls[q] # Idle}) < scenario.atOnce

\* NextBestActionService.recommend reads the journey, and then the score reads it again.
Project(r, s, as_of) ==
    /\ MayBegin(r) /\ issued < scenario.saves
    /\ "phase-9a-nba-v1" \in scenario.versions /\ Events(s) # {}
    /\ Goto(r, [pc |-> "projected", version |-> "phase-9a-nba-v1", subject |-> s,
                as_of |-> as_of, state |-> Replay(Events(s)).state,
                trusted |-> TrustedOf(Events(s)) # {}])
    /\ UNCHANGED store

ScoreProjected(r) ==
    LET c == calls[r]  score == Score(Events(c.subject), c.as_of, NoSales)
    IN /\ c.pc = "projected" /\ c.trusted
       /\ Goto(r, [pc |-> "recommended", version |-> c.version, subject |-> c.subject,
                   state |-> c.state, score |-> score, advice |-> Rule(c.state, score)])
       /\ UNCHANGED store

\* No trusted evidence: the score, or the recommendation, raises.
Refuse(r) ==
    /\ \/ calls[r].pc = "projected" /\ ~calls[r].trusted
       \/ calls[r].pc = "previewed" /\ TrustedOf(Events(calls[r].subject)) = {}
    /\ Goto(r, Idle)
    /\ UNCHANGED store

\* What a reviewer may send along: parts of what was signed, and parts that were not.
Proofs(batch) ==
    {NoProof} \cup UNION {
        {[claim |-> c, heartbeat |-> h, receipt |-> [signed |-> h = b, heartbeat |-> g]] :
            h \in {b, [b EXCEPT !.digest = c]}, g \in {b, [b EXCEPT !.digest = c]}} :
        b \in beats, c \in UNION {{x.digest, [x.digest EXCEPT !.batch = batch]} : x \in beats}}

Requests(s) ==
    UNION {{[subject |-> s, rows |-> b.rows, repeats |-> b.repeats, proof |-> p, as_of |-> t] :
               p \in Proofs(b), t \in {now, scenario.time}} :
           b \in {[rows |-> {}, repeats |-> 0]}
                    \cup [rows : (SUBSET log) \ {{}}, repeats : {0, 1}]}

\* History: the results that the claim vouches for.
VouchedFor(request, sales) ==
    {t \in SLA_TYPES : /\ sales.verified /\ t \in request.proof.claim.covered
                       /\ \E x \in request.rows :
                             x.type = t /\ x.at <= request.proof.claim.through}

\* SalesNBAReviewService.record: the preview, the score, the recommendation.
PreviewSales(r, request) ==
    LET sales == Preview(Events(request.subject), request)
    IN /\ MayBegin(r)
       /\ "phase-9b-nba-v2" \in scenario.versions /\ Events(request.subject) # {}
       /\ Goto(r, [pc |-> "previewed", version |-> "phase-9b-nba-v2",
                   subject |-> request.subject, as_of |-> request.as_of, sales |-> sales,
                   vouched |-> VouchedFor(request, sales)])
       /\ UNCHANGED store

ScoreSales(r) ==
    LET c == calls[r]  es == Events(c.subject)
    IN /\ c.pc = "previewed" /\ TrustedOf(es) # {}
       /\ Goto(r, [pc |-> "scored", version |-> c.version, subject |-> c.subject,
                   sales |-> c.sales, vouched |-> c.vouched,
                   score |-> Score(es, c.as_of, c.sales),
                   plain |-> Score(es, c.as_of, NoSales)])
       /\ UNCHANGED store

RecommendSales(r) ==
    LET c == calls[r]  state == Replay(Events(c.subject)).state
        advice == Escalated(Rule(state, c.score), state, c.sales)
    IN /\ c.pc = "scored"
       /\ Goto(r, [pc |-> "recommended", version |-> c.version, subject |-> c.subject,
                   state |-> state, score |-> c.score, advice |-> advice,
                   sales |-> c.sales, vouched |-> c.vouched])
       /\ UNCHANGED store

\* A preview ends with its answer.
Answer(r) == calls[r].pc = "recommended" /\ Goto(r, Idle) /\ UNCHANGED store

-----------------------------------------------------------------------------
(* The review repository in Redis.  The id of a review is new.             *)

\* SET NX of the immutable record.
SetRecord(r) ==
    LET c == calls[r]  id == issued + 1
    IN /\ c.pc = "recommended" /\ issued < scenario.saves
       /\ issued' = id
       /\ reviews' = [i \in DOMAIN reviews \cup {id} |->
             IF i = id THEN [subject |-> c.subject, version |-> c.version] ELSE reviews[i]]
       /\ Goto(r, [pc |-> "indexing", id |-> id, subject |-> c.subject])
       /\ UNCHANGED <<listed, bySubject, saved, mishaps>>

\* One pipeline, which Redis runs as a transaction, adds the id to both indexes.
Index(r) ==
    LET c == calls[r]
    IN /\ c.pc = "indexing"
       /\ listed' = listed \cup {c.id}
       /\ bySubject' = bySubject \cup {<<c.subject, c.id>>}
       /\ saved' = saved \cup {c.id}
       /\ mishaps' = mishaps \cup
             (IF \E q \in Reviewers : calls[q].pc \in Storing \ {"indexing"}
              THEN {"overlap"} ELSE {})
       /\ Goto(r, [pc |-> "counting", id |-> c.id])
       /\ UNCHANGED <<reviews, issued>>

\* Mutated form: as many as there are are kept.
OverflowLate == Cardinality(listed) - Retention - 1

Overflow == Cardinality(listed) - Retention

Count(r) ==
    LET c == calls[r]
    IN /\ c.pc = "counting"
       /\ Goto(r, IF Overflow > 0
                  THEN [pc |-> "ranging", id |-> c.id, overflow |-> Overflow] ELSE Idle)
       /\ UNCHANGED store

Older(i) == {j \in listed : j < i}

Expired(n) == {i \in listed : Cardinality(Older(i)) < n}

ListExpired(r) ==
    LET c == calls[r]  ids == Expired(c.overflow)
    IN /\ c.pc = "ranging"
       /\ Goto(r, IF ids = {} THEN Idle ELSE [pc |-> "expiring", id |-> c.id, ids |-> ids])
       /\ UNCHANGED store

\* Mutated form: the id stays in the index of its subject.
WithoutSubjectKept(i) == bySubject

WithoutSubject(i) == {x \in bySubject : i \notin DOMAIN reviews \/ x # <<reviews[i].subject, i>>}

\* The record tells the subject, and one pipeline removes the id from both indexes and
\* deletes the record.
Expire(r) ==
    LET c == calls[r]  i == Min(c.ids)
    IN /\ c.pc = "expiring"
       /\ listed' = listed \ {i}
       /\ bySubject' = WithoutSubject(i)
       /\ reviews' = [j \in DOMAIN reviews \ {i} |-> reviews[j]]
       /\ Goto(r, IF c.ids = {i} THEN Idle ELSE [c EXCEPT !.ids = @ \ {i}])
       /\ UNCHANGED <<issued, saved, mishaps>>

\* The process of a request dies; the store is Redis and stays.
Die(r) ==
    /\ "death" \notin mishaps /\ scenario.deaths
    /\ calls[r].pc \in Storing
    /\ mishaps' = mishaps \cup {"death"}
    /\ Goto(r, Idle)
    /\ UNCHANGED <<reviews, listed, bySubject, issued, saved>>

-----------------------------------------------------------------------------
World ==
    \/ Tick
    \/ \E e \in scenario.touches : Ingest(e)
    \/ \E a \in scenario.activities : Happen(a)
    \/ \E kind \in scenario.claims : \E claim \in Claims(kind) : Attest(kind.producer, claim)

Act(r) ==
    \/ \E s \in Subjects, t \in {now, scenario.time} : Project(r, s, t)
    \/ \E s \in Subjects : \E request \in Requests(s) : PreviewSales(r, request)
    \/ ScoreProjected(r) \/ Refuse(r) \/ ScoreSales(r) \/ RecommendSales(r) \/ Answer(r)
    \/ SetRecord(r) \/ Index(r) \/ Count(r) \/ ListExpired(r) \/ Expire(r) \/ Die(r)

Next == World \/ \E r \in Reviewers : Act(r)

Spec == Init /\ [][Next]_vars

-----------------------------------------------------------------------------
Journey(s) == Replay(Events(s))

\* Every stage below the highest one a journey reached was either seen in
\* evidence of its own or is reported as missing: JourneyService.project.
GapsAreReported ==
    \A s \in Subjects :
        LET p       == Journey(s)
            highest == Max({1} \cup {STATE_RANK[t] : t \in p.observed \cap Linear})
            passed  == {t \in Linear : STATE_RANK[t] \in 2..highest}
        IN passed \ p.observed \subseteq MissingSignals(p)

\* A stage that only the CRM or the Sales Hub may declare was declared by one of them,
\* whatever else arrived and in whatever order: SOURCE_POLICY.
StagesAreBacked ==
    \A s \in Subjects : \A t \in Journey(s).observed \cap SALES_EVIDENCE_STATES :
        \E e \in Events(s) : /\ e.declares = t /\ e.type \in SALES_EVIDENCE_EVENT_TYPES
                             /\ e.source = "espocrm" \/ (e.source = "sales hub" /\
                                                         t \notin {"lost", "customer"})

\* An event that arrives late takes a linear journey back only when it declares a loss,
\* a customer or a reengagement, which are where a journey branches; unless the journey
\* has more touchpoints than are listed, and an older one makes room for it.
OnlyBranchesTakeBack ==
    [][\A s \in {t \in Subjects : Cardinality(Ingested(t)') <= EventLimit} :
       \A before \in {Events(s)}, after \in {Events(s)'} :
          LET old == Replay(before).state  new == Replay(after).state
          IN (old \in Linear /\ ~(new \in Linear /\ STATE_RANK[new] >= STATE_RANK[old])) =>
                \E e \in after \ before :
                    Trusted(e) /\ e.declares \in {"lost", "customer", "reengagement"}]_vars

\* A recommendation is escalated for a breach, or for a late result that the claim
\* vouches for, only if nothing happened at the Sales Hub in time: the batch cannot hide
\* what the claim covers, nor a claim speak for time that has not passed.
EscalationIsTrue ==
    \A r \in Reviewers :
        LET c == calls[r]
            InTime(t) == \E x \in log :
                /\ x.type = t /\ x.subject = c.subject /\ x.campaign = c.sales.campaign
                /\ x.at \in c.sales.start..(c.sales.start + TargetOf[x.campaign][t])
        IN (c.pc = "recommended" /\ c.version = "phase-9b-nba-v2") =>
              \/ c.advice.escalation = "none"
              \/ \E t \in SLA_TYPES :
                    /\ c.sales.window[t] = "breached" \/
                          (c.sales.window[t] = "late" /\ t \in c.vouched)
                    /\ ~InTime(t)
              \/ \E t \in SLA_TYPES : c.sales.window[t] = "late" /\ t \notin c.vouched

\* Missing is not negative: a score for which no result of the SLA is proven is the one
\* without the SLA, and one for which both are met is never less.
MissingIsNeutral ==
    \A r \in Reviewers :
        LET c == calls[r]
        IN c.pc = "scored" =>
              /\ (\A t \in SLA_TYPES : ~c.sales.verified \/ c.sales.window[t] \in
                      {"not_evaluable", "pending", "overdue_missing_evidence"}) =>
                    c.score = c.plain
              /\ (c.sales.verified /\ \A t \in SLA_TYPES : c.sales.window[t] = "met") =>
                    c.score.points * c.plain.capacity >= c.plain.points * c.score.capacity

\* Both indexes name the same reviews, each of them can be read, and a review that can
\* be read but not listed is one whose request has not indexed it, or died before.
IndexesAgree ==
    /\ listed \subseteq DOMAIN reviews
    /\ bySubject = {<<reviews[i].subject, i>> : i \in listed}
    /\ "death" \notin mishaps =>
          DOMAIN reviews \ listed \subseteq
              {calls[r].id : r \in {q \in Reviewers : calls[q].pc = "indexing"}}

\* Once everyone is done, the newest reviews are retained and no more; requests that
\* overlapped may have removed more, and one that died less.
NewestAreRetained ==
    (\A r \in Reviewers : calls[r].pc \notin Storing \ {"indexing"}) =>
        /\ "death" \notin mishaps => Cardinality(listed) <= Retention
        /\ mishaps = {} =>
              listed = {i \in saved : Cardinality({j \in saved : j > i}) < Retention}

\* Every state is well typed; journeys report their gaps and hold backed stages, what
\* is missing moves no score, and the indexes of the reviews agree.
Consistent ==
    /\ TypeOK
    /\ GapsAreReported
    /\ StagesAreBacked
    /\ MissingIsNeutral
    /\ IndexesAgree
=============================================================================
