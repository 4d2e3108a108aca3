--------------------------- MODULE MCSalesReviews ---------------------------
(* Instances of SalesReviews for TLC. *)
EXTENDS SalesReviews, TLC

CONSTANTS r1, r2

Handoffs == [c1 |-> [first_response |-> 1, appointment_booked |-> 2],
             c2 |-> [first_response |-> 2, appointment_booked |-> 2]]
Limits   == <<0, 1, 2, 3>>

Touch(n, type, at, source, declares) ==
    [id |-> n, subject |-> "lead:a", type |-> type, at |-> at, source |-> source,
     campaign |-> "c1", declares |-> declares]
Plain(n, type, at) == Touch(n, type, at, "npd site", "nothing")
Stage(n, type, at, source, state) == Touch(n, type, at, source, state)

Instance(known, touches) ==
    [time |-> 0, known |-> known, touches |-> touches, activities |-> {}, claims |-> {},
     beats |-> 0, versions |-> {}, saves |-> 0, atOnce |-> 1, deaths |-> FALSE]

\* Journeys: events of every kind, in every order of arrival.
Climbing == Instance({},
    {Plain(1, "ad_click", 0), Plain(2, "form_submit", 1), Plain(3, "landing_view", 2),
     Plain(4, "opportunity_created", 3), Plain(5, "opportunity_stage_changed", 4),
     Stage(6, "opportunity_stage_changed", 4, "sales hub", "site_visit"),
     Stage(7, "opportunity_stage_changed", 5, "npd site", "customer"),
     Plain(8, "sale_closed", 6), Stage(9, "sale_closed", 7, "espocrm", "customer")})
Branching == Instance({Plain(1, "lead_created", 0)},
    {Stage(2, "opportunity_stage_changed", 1, "sales hub", "mql"),
     Stage(3, "opportunity_stage_changed", 2, "espocrm", "lost"),
     Stage(4, "opportunity_stage_changed", 3, "sales hub", "lost"),
     Plain(5, "sale_closed", 3),
     Stage(6, "opportunity_stage_changed", 4, "sales hub", "reengagement"),
     Stage(7, "sale_closed", 5, "espocrm", "customer"),
     Stage(8, "lead_created", 5, "espocrm", "appointment"),
     Stage(9, "sale_closed", 6, "espocrm", "malformed"),
     Stage(10, "opportunity_stage_changed", 7, "espocrm", "lost")})

Activity(n, type, campaign) ==
    [id |-> n, type |-> type, at |-> 0, source |-> "sales hub", subject |-> "lead:a",
     campaign |-> campaign]

\* Claims of the Sales Hub: of everything so far; from too late on; too early for its
\* watermark; of one type.  And one of another producer.
Kind == [producer |-> "sales_hub", campaign |-> "c1", start |-> 0, ahead |-> -1,
         covered |-> ACTIVITY_TYPES]
Kinds == {Kind, [Kind EXCEPT !.start = 1], [Kind EXCEPT !.ahead = 1],
          [Kind EXCEPT !.covered = {"appointment_booked"}], [Kind EXCEPT !.producer = "npd_site"]}

\* One reviewer, whose lead turns out to be older than it seemed.
Escalating == [Instance({Plain(1, "form_submit", 0)}, {Plain(2, "lead_created", 1)}) EXCEPT
    !.time = 3, !.claims = Kinds, !.beats = 1, !.versions = {"phase-9b-nba-v2"},
    !.activities = {Activity(1, "first_response", "c1"), Activity(2, "appointment_booked", "c1")}]

\* The first evidence is not trusted, and more arrives between two readings.
Racing == [Instance({},
    {Stage(1, "sale_closed", 0, "npd site", "customer"), Plain(2, "lead_created", 0),
     Plain(3, "ad_click", 1), Plain(4, "sale_closed", 1)}) EXCEPT
    !.time = 1, !.versions = {"phase-9a-nba-v1", "phase-9b-nba-v2"}, !.saves = 1]

\* Reviews of two leads, of which two are retained.
Reviewing == [Instance({Plain(1, "lead_created", 0),
                        [Plain(2, "lead_created", 0) EXCEPT !.subject = "lead:b"]}, {}) EXCEPT
    !.versions = {"phase-9a-nba-v1"}, !.saves = 4, !.atOnce = 2, !.deaths = TRUE]

PassingScenarios == {Climbing, Branching, Escalating, Racing, Reviewing}

ReviewerSymmetry == Permutations(Reviewers)
=============================================================================
