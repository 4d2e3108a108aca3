------------------------ MODULE ExperimentPlanningProofs ------------------------
(***************************************************************************)
(* Theorems about ExperimentPlanning, for any number of handlers,          *)
(* experiments and observations and for any plans.                         *)
(*                                                                         *)
(* Experiments are saved as a whole, so a stored one is always a copy that *)
(* some request made: what every operation preserves (Sound) holds of all  *)
(* copies and all stored experiments, however requests overlap.  Where     *)
(* they do not, the copy of a request also follows from what is stored by  *)
(* now (Follows), since whatever changed the experiment in between would   *)
(* have overlapped.  Base joins the two with what a handler may rely on at *)
(* each place (Fits).                                                      *)
(***************************************************************************)
EXTENDS ExperimentPlanning, SequenceTheorems, TLAPS

Campaigns == [editable : BOOLEAN, ads : Ads \cup {Unmapped}]

Experiments ==
    [status : ExperimentStatus, variants : Plans, preview : Plans \cup {NoPlan},
     observations : Seq(Observations), evaluation : Evaluations \cup {None}]

Calls ==
    [id : 0..MaxExperiments, copy : Experiments \cup {Absent}, campaign : Campaigns,
     plan : Plans \cup {NoPlan}, observation : [id : Nat] \cup Observations,
     creates : BOOLEAN]

\* Observation o carries what evaluation v concludes.
Carries(o, v) ==
    /\ o.id = v.id /\ o.quality = "accepted"
    /\ v.recommendation = "winner_candidate" => o.state = "verified_read_only"

\* What holds of every experiment, stored or copied.
Sound(m) ==
    /\ m \in Experiments
    /\ Len(m.observations) <= Kept
    /\ m.preview \in {NoPlan, m.variants}
    /\ m.evaluation # None =>
          \E i \in DOMAIN m.observations : Carries(m.observations[i], m.evaluation)

\* Observation b is listed, or as many newer ones as are kept.
Holds(m, b) ==
    \/ \E i \in DOMAIN m.observations : m.observations[i].id = b
    \/ Len(m.observations) = Kept /\ \A i \in DOMAIN m.observations : m.observations[i].id > b

Bounded(m, n) == \A i \in DOMAIN m.observations : m.observations[i].id <= n

Ordered(m) ==
    \A i, j \in DOMAIN m.observations : i < j => m.observations[i].id < m.observations[j].id

\* What m becomes by one request: the owner decides, and no observation is lost.
Follows(m, c) ==
    /\ c.status \in {"approved", "rejected"} /\ c.status # m.status => m.status = "awaiting_approval"
    /\ m.status = "rejected" => c.status = "rejected"
    /\ \A b \in Nat : Holds(m, b) => Holds(c, b)
    /\ Ordered(c)

\* An observation b of plan m covers it, if it is called verified.
Covering(m, b) == b.state = "verified_read_only" => b.ids = m.variants.ids

\* The observations of c are those of m, and o, which covers the plan of c.
Adds(m, c, o) ==
    \A i \in DOMAIN c.observations :
        \/ \E k \in DOMAIN m.observations : m.observations[k].id = c.observations[i].id
        \/ o # None /\ c.observations[i].id = o.id /\ Covering(c, c.observations[i])

\* The observations of the copy in c were stored before, or it is the one that c adds.
Attached(c) ==
    \A i \in DOMAIN c.copy.observations :
        \/ <<c.id, c.copy.observations[i].id>> \in answered
        \/ /\ c.observation # None /\ c.copy.observations[i].id = c.observation.id
           /\ Covering(c.copy, c.copy.observations[i])

Saving  == {"save", "map_read", "map_campaign", "map_save"}
Reading == {"tracking", "contract", "await", "ingest"}

\* What a handler that saves a copy may rely on ...
SaveFits(h) ==
    LET c == call[h]  m == experiments[c.id]
    IN /\ Sound(c.copy) /\ Bounded(c.copy, ops)
       /\ c.observation # None =>
             \E i \in DOMAIN c.copy.observations : c.copy.observations[i].id = c.observation.id
       /\ c.creates =>
             /\ pc[h] = "save" /\ c.observation = None
             /\ c.copy.observations = <<>> /\ c.copy.status = "planned"
             /\ m = Absent \/ c.id \in disturbed \/ Len(index) > ListLimit
       /\ Attached(c)
       /\ pc[h] # "save" => c.observation = None
       /\ pc[h] = "map_campaign" => c.campaign.ads = c.copy.variants.ads
       /\ ~ c.creates /\ c.id \notin disturbed => Follows(m, c.copy)

\* ... and one that reads a source.
ReadFits(h) ==
    LET c == call[h]  m == experiments[c.id]
    IN /\ ~ c.creates
       /\ c.plan \in Plans /\ c.observation.id \in 1..ops
       /\ pc[h] = "ingest" => c.observation \in Observations
       /\ c.id \notin disturbed => \A i \in DOMAIN m.observations : m.observations[i].id < c.observation.id

Fits(h) ==
    /\ call[h] \in Calls
    /\ pc[h] = "campaign_save" <=> call[h].id = 0
    /\ call[h].id # 0 => call[h].creates \/ experiments[call[h].id] # Absent
    /\ pc[h] \in Saving => SaveFits(h)
    /\ pc[h] \in Reading => ReadFits(h)

\* Requests on one experiment that are served together disturb it.
Apart ==
    \A g, h \in Handlers :
        pc[g] # "idle" /\ pc[h] # "idle" /\ call[g].id = call[h].id /\ g # h =>
            call[g].id \in disturbed \cup {0}

Indexed ==
    /\ index \in Seq(Ids) /\ IsInjective(index)
    /\ \A e \in Ids : experiments[e] # Absent <=> e \in ToSet(index)

Stored ==
    \A e \in Ids : experiments[e] # Absent =>
        /\ Sound(experiments[e]) /\ Bounded(experiments[e], ops)
        /\ e \notin disturbed => Ordered(experiments[e])
        /\ \A i \in DOMAIN experiments[e].observations :
              <<e, experiments[e].observations[i].id>> \in answered

Listed ==
    \A x \in answered :
        /\ experiments[x[1]] # Absent
        /\ Holds(experiments[x[1]], x[2]) \/ x[1] \in disturbed \/ Len(index) > ListLimit

\* As long as nothing disturbs the tracking, who is about to save a mapping carries
\* that of the campaign.
Tracks ==
    0 \notin disturbed =>
        /\ \A h \in Handlers : pc[h] = "map_save" => call[h].copy.variants.ads = campaign.ads
        /\ (\A h \in Handlers : pc[h] # "map_save") =>
              \A e \in Ids : experiments[e] # Absent =>
                  experiments[e].variants.ads \in {Unmapped, campaign.ads}

Types ==
    /\ scenario \in Scenarios
    /\ experiments \in [Ids -> Experiments \cup {Absent}]
    /\ campaign \in Campaigns
    /\ pc \in [Handlers -> HandlerStates]
    /\ DOMAIN call = Handlers
    /\ answered \subseteq Ids \X Nat /\ disturbed \subseteq 0..MaxExperiments
    /\ ops \in 0..scenario.ops /\ deaths \in 0..scenario.deaths

Base ==
    /\ Types
    /\ Indexed
    /\ Stored
    /\ Listed
    /\ Apart
    /\ Tracks
    /\ \A h \in Handlers : pc[h] # "idle" => Fits(h)

-----------------------------------------------------------------------------
(* What the operations make of an experiment.                              *)

\* Observations are numbered.
LEMMA IdsAreNat ==
    ASSUME NEW m, Sound(m)
    PROVE  \A i \in DOMAIN m.observations : m.observations[i].id \in Nat
<1>1. m.observations \in Seq(Observations) BY DEF Sound, Experiments
<1>2. \A i \in DOMAIN m.observations : m.observations[i] \in Observations
      BY <1>1, LenProperties, ElementOfSeq
<1> QED BY <1>2 DEF Observations

\* A copy that keeps the observations follows, if its status does.
LEMMA KeepingFollows ==
    ASSUME NEW m, NEW c, c.observations = m.observations, Ordered(m),
           c.status \in {"approved", "rejected"} /\ c.status # m.status
               => m.status = "awaiting_approval",
           m.status = "rejected" => c.status = "rejected"
    PROVE  Follows(m, c)
<1>1. \A b \in Nat : Holds(m, b) => Holds(c, b) BY DEF Holds
<1>2. Ordered(c) BY DEF Ordered
<1> QED BY <1>1, <1>2 DEF Follows

LEMMA NewSound ==
    ASSUME NEW v \in Drafts
    PROVE  /\ Sound(NewExperiment(v))
           /\ NewExperiment(v).observations = <<>>
           /\ NewExperiment(v).status = "planned"
<1>1. v \in Plans BY ExperimentAssumption DEF Plans
<1>2. NewExperiment(v) \in Experiments
      BY <1>1 DEF NewExperiment, Experiments, ExperimentStatus
<1>3. Len(<<>>) = 0 /\ 0 <= Kept BY ExperimentAssumption
<1> QED BY <1>2, <1>3 DEF NewExperiment, Sound

LEMMA UpdatedSound ==
    ASSUME NEW m, Sound(m), NEW v \in Drafts
    PROVE  /\ Sound(Updated(m, v))
           /\ Updated(m, v).observations = m.observations
           /\ Updated(m, v).status = "planned"
<1>1. v \in Plans BY ExperimentAssumption DEF Plans
<1> DEFINE a == [m EXCEPT !.variants = v]
           b == [a EXCEPT !.preview = NoPlan]
<1>2. Updated(m, v) = [b EXCEPT !.status = "planned"] BY DEF Updated
<1>3. a = [status |-> m.status, variants |-> v, preview |-> m.preview,
           observations |-> m.observations, evaluation |-> m.evaluation]
      BY DEF Sound, Experiments
<1> HIDE DEF a
<1>4. b = [status |-> m.status, variants |-> v, preview |-> NoPlan,
           observations |-> m.observations, evaluation |-> m.evaluation]
      BY <1>3
<1> HIDE DEF b
<1>5. Updated(m, v) = [status |-> "planned", variants |-> v, preview |-> NoPlan,
                       observations |-> m.observations, evaluation |-> m.evaluation]
      BY <1>2, <1>4
<1> QED BY <1>1, <1>5 DEF Sound, Experiments, ExperimentStatus

LEMMA PreviewedSound ==
    ASSUME NEW m, Sound(m)
    PROVE  /\ Sound(Previewed(m))
           /\ Previewed(m).observations = m.observations
           /\ Previewed(m).status = "previewed"
<1> DEFINE a == [m EXCEPT !.status = "previewed"]
<1>1. Previewed(m) = [a EXCEPT !.preview = m.variants] BY DEF Previewed
<1>2. a = [status |-> "previewed", variants |-> m.variants, preview |-> m.preview,
           observations |-> m.observations, evaluation |-> m.evaluation]
      BY DEF Sound, Experiments
<1> HIDE DEF a
<1>3. Previewed(m) = [status |-> "previewed", variants |-> m.variants, preview |-> m.variants,
                      observations |-> m.observations, evaluation |-> m.evaluation]
      BY <1>1, <1>2
<1> QED BY <1>3 DEF Sound, Experiments, ExperimentStatus

LEMMA StatusSound ==
    ASSUME NEW m, Sound(m), NEW s \in ExperimentStatus
    PROVE  /\ Sound([m EXCEPT !.status = s])
           /\ [m EXCEPT !.status = s].observations = m.observations
           /\ [m EXCEPT !.status = s].status = s
<1>1. [m EXCEPT !.status = s] =
          [status |-> s, variants |-> m.variants, preview |-> m.preview,
           observations |-> m.observations, evaluation |-> m.evaluation]
      BY DEF Sound, Experiments
<1> QED BY <1>1 DEF Sound, Experiments

LEMMA MappedSound ==
    ASSUME NEW m, Sound(m), NEW ads \in Ads
    PROVE  /\ Sound(Mapped(m, ads))
           /\ Mapped(m, ads).observations = m.observations
           /\ Mapped(m, ads).status = "planned"
<1> DEFINE w == [m.variants EXCEPT !.ads = ads]
<1>1. w \in Plans BY DEF Sound, Experiments, Plans
<1> DEFINE a == [m EXCEPT !.variants = w]
           b == [a EXCEPT !.preview = NoPlan]
           d == [b EXCEPT !.evaluation = None]
<1>2. Mapped(m, ads) = [d EXCEPT !.status = "planned"] BY DEF Mapped
<1> HIDE DEF w
<1>3. a = [status |-> m.status, variants |-> w, preview |-> m.preview,
           observations |-> m.observations, evaluation |-> m.evaluation]
      BY DEF Sound, Experiments
<1> HIDE DEF a
<1>4. b = [status |-> m.status, variants |-> w, preview |-> NoPlan,
           observations |-> m.observations, evaluation |-> m.evaluation]
      BY <1>3
<1> HIDE DEF b
<1>5. d = [status |-> m.status, variants |-> w, preview |-> NoPlan,
           observations |-> m.observations, evaluation |-> None]
      BY <1>4
<1> HIDE DEF d
<1>6. Mapped(m, ads) = [status |-> "planned", variants |-> w, preview |-> NoPlan,
                        observations |-> m.observations, evaluation |-> None]
      BY <1>2, <1>5
<1> QED BY <1>1, <1>6 DEF Sound, Experiments, ExperimentStatus

\* An evaluation rests on the accepted observation it was made of.
LEMMA EvaluatedSound ==
    ASSUME NEW m, Sound(m), NEW o, Evaluable(m, o), NEW v \in Verdicts,
           NEW n, n = [m EXCEPT !.evaluation =
                          [id |-> o.id, recommendation |-> Recommendation(m, o, v)]]
    PROVE  Sound(n) /\ n.observations = m.observations /\ n.status = m.status
<1> DEFINE r == Recommendation(m, o, v)
           w == [id |-> o.id, recommendation |-> r]
<1>1. o \in Observations /\ o.quality = "accepted"
      BY DEF Evaluable, ToSet, Sound, Experiments
<1>2. PICK i \in DOMAIN m.observations : m.observations[i] = o BY DEF Evaluable, ToSet
<1>3. r \in Recommendations /\ (r = "winner_candidate" => o.state # "partial")
  <2>1. v.comparison \in {"uncounted", "better", "worse", "level"} BY DEF Verdicts
  <2>2. \/ r \in {"insufficient_data", "manual_review", "stop_and_review"}
        \/ /\ o.state # "partial"
           /\ r = CASE v.comparison = "uncounted" -> "manual_review"
                    [] v.comparison = "better" -> "winner_candidate"
                    [] v.comparison = "worse" -> "stop_and_review"
                    [] v.comparison = "level" -> "continue"
        BY Zenon DEF Recommendation
  <2> QED BY <2>1, <2>2 DEF Recommendations
<1>4. w \in Evaluations /\ Carries(o, w) BY <1>1, <1>3 DEF Evaluations, Carries, Observations
<1>5. n = [m EXCEPT !.evaluation = w] OBVIOUS
<1> HIDE DEF w, r
<1>6. n = [status |-> m.status, variants |-> m.variants, preview |-> m.preview,
           observations |-> m.observations, evaluation |-> w]
      BY <1>5 DEF Sound, Experiments
<1> QED BY <1>2, <1>4, <1>6 DEF Sound, Experiments

-----------------------------------------------------------------------------
(* Adding and judging an observation.                                      *)

\* t lists the l observations of m without the k oldest, and then o.
Added(m, o, l, k, t) ==
    /\ Observed(m, o) = [status |-> m.status, variants |-> m.variants, preview |-> m.preview,
                         observations |-> t, evaluation |-> None]
    /\ l = Len(m.observations) /\ k = IF l < Kept THEN 0 ELSE 1
    /\ Len(t) = l + 1 - k
    /\ DOMAIN m.observations = 1..l /\ DOMAIN t = 1..(l + 1 - k)
    /\ \A i \in 1..(l - k) : t[i] = m.observations[i + k]
    /\ t[l + 1 - k] = o

\* A new observation comes last, and the oldest goes when there are too many.
LEMMA ObservedList ==
    ASSUME NEW m, Sound(m), NEW o \in Observations
    PROVE  \E l \in Nat, k \in {0, 1}, t \in Seq(Observations) : Added(m, o, l, k, t)
<1> DEFINE s == m.observations
           l == Len(s)
           k == IF l < Kept THEN 0 ELSE 1
<1>0. s = m.observations /\ l = Len(s) /\ k = IF l < Kept THEN 0 ELSE 1 OBVIOUS
<1> HIDE DEF s, l, k
<1> DEFINE u == Append(s, o)
           t == SubSeq(u, 1 + k, l + 1)
           a == [m EXCEPT !.observations = t]
<1>1. s \in Seq(Observations) /\ l = Len(s) /\ l \in Nat /\ DOMAIN s = 1..l
      BY <1>0, LenProperties DEF Sound, Experiments
<1>2. /\ u \in Seq(Observations) /\ Len(u) = l + 1
      /\ \A i \in 1..l : u[i] = s[i]
      /\ u[l + 1] = o
      BY <1>1, AppendProperties
<1>3. k \in {0, 1} /\ (k = 1 => l >= 1) /\ IF l < Kept THEN k = 0 ELSE k = 1
      BY <1>0, <1>1, ExperimentAssumption DEF Sound
<1>4. t = SubSeq(Append(s, o), IF l < Kept THEN 1 ELSE 2, l + 1) BY <1>0, <1>1
<1> HIDE DEF u
<1>5. \A i \in (1 + k)..(l + 1) : u[i] \in Observations
      BY <1>1, <1>2, <1>3, ElementOfSeq
<1>6. /\ t \in Seq(Observations) /\ Len(t) = l + 1 - k
      /\ \A i \in 1..(l + 1 - k) : t[i] = u[i + k]
  <2> DEFINE x == 1 + k
             y == l + 1
  <2>1. x \in Int /\ y \in Int /\ y - x + 1 = l + 1 - k /\ x <= y BY <1>1, <1>3
  <2>4. t = SubSeq(u, x, y) /\ \A i \in x..y : u[i] \in Observations BY <1>5
  <2> HIDE DEF x, y, t
  <2>2. /\ t \in Seq(Observations)
        /\ Len(t) = IF x <= y THEN y - x + 1 ELSE 0
        /\ \A i \in 1..(y - x + 1) : t[i] = u[x + i - 1]
        BY <2>1, <2>4, SubSeqProperties
  <2>3. \A i \in 1..(l + 1 - k) : x + i - 1 = i + k BY <1>1, <1>3 DEF x
  <2> QED BY <2>1, <2>2, <2>3
<1>7. DOMAIN t = 1..(l + 1 - k) BY <1>6, LenProperties
<1>8. Observed(m, o) = [a EXCEPT !.evaluation = None] BY <1>0, <1>4 DEF Observed, u
<1> HIDE DEF t
<1>9. a = [status |-> m.status, variants |-> m.variants, preview |-> m.preview,
           observations |-> t, evaluation |-> m.evaluation]
      BY DEF Sound, Experiments
<1> HIDE DEF a
<1>10. Observed(m, o) = [status |-> m.status, variants |-> m.variants, preview |-> m.preview,
                         observations |-> t, evaluation |-> None]
       BY <1>8, <1>9
<1>11. ASSUME NEW i \in 1..(l - k) PROVE t[i] = s[i + k]
  <2>1. i \in 1..(l + 1 - k) /\ i + k \in 1..l BY <1>1, <1>3
  <2> QED BY <1>2, <1>6, <2>1
<1>12. t[l + 1 - k] = o
  <2>1. l + 1 - k \in 1..(l + 1 - k) /\ (l + 1 - k) + k = l + 1 BY <1>1, <1>3
  <2> QED BY <1>2, <1>6, <2>1
<1>13. Added(m, o, l, k, t) BY <1>0, <1>1, <1>6, <1>7, <1>10, <1>11, <1>12 DEF Added
<1> QED BY <1>1, <1>3, <1>6, <1>13

\* A plan observed as MayObserve allows has lost no observation and covers what it
\* calls verified.
LEMMA ObservedSound ==
    ASSUME NEW m, Sound(m), NEW o \in Observations, NEW n \in Nat,
           Bounded(m, n), o.id <= n
    PROVE  /\ Sound(Observed(m, o)) /\ Bounded(Observed(m, o), n)
           /\ \E i \in DOMAIN Observed(m, o).observations :
                  Observed(m, o).observations[i].id = o.id
           /\ (Ordered(m) /\ \A i \in DOMAIN m.observations : m.observations[i].id < o.id)
                  => Follows(m, Observed(m, o))
           /\ MayObserve(m, o) => Adds(m, Observed(m, o), o)
<1> DEFINE s == m.observations
           c == Observed(m, o)
<1>0. PICK l \in Nat, k \in {0, 1}, t \in Seq(Observations) : Added(m, o, l, k, t)
      BY ObservedList
<1>1. /\ c = [status |-> m.status, variants |-> m.variants, preview |-> m.preview,
              observations |-> t, evaluation |-> None]
      /\ l = Len(s) /\ Len(t) = l + 1 - k
      /\ DOMAIN s = 1..l /\ DOMAIN t = 1..(l + 1 - k)
      /\ \A i \in 1..(l - k) : t[i] = s[i + k]
      /\ t[l + 1 - k] = o
      /\ k = IF l < Kept THEN 0 ELSE 1
      BY <1>0 DEF Added
<1>2. /\ k \in {0, 1} /\ Kept \in Nat \ {0} /\ l <= Kept
      /\ k = 0 => l < Kept
      /\ k = 1 => l = Kept
      BY <1>1, ExperimentAssumption DEF Sound
<1>3. \A i \in 1..l : s[i] \in Observations
  <2>1. s \in Seq(Observations) BY DEF Sound, Experiments
  <2> QED BY <1>1, <2>1, ElementOfSeq
<1>4. /\ c.status = m.status /\ c.variants = m.variants /\ c.preview = m.preview
      /\ c.observations = t /\ c.evaluation = None
      BY <1>1
<1> DEFINE last == l + 1 - k
<1>5. Sound(c) BY <1>1, <1>2, <1>4 DEF Sound, Experiments
<1> HIDE DEF c, s
<1>6. \A i \in DOMAIN t : \/ i \in 1..(l - k) /\ i + k \in DOMAIN s /\ t[i] = s[i + k]
                          \/ i = last /\ t[i] = o
      BY <1>1, <1>2
<1>7. last \in DOMAIN t /\ t[last] = o BY <1>1, <1>2
<1>8. Bounded(c, n) BY <1>4, <1>6 DEF Bounded, s
<1>9. ASSUME Ordered(m), \A i \in DOMAIN s : s[i].id < o.id
      PROVE  Follows(m, c)
  <2>1. Ordered(c)
    <3> SUFFICES ASSUME NEW i \in DOMAIN t, NEW j \in DOMAIN t, i < j PROVE t[i].id < t[j].id
        BY <1>4 DEF Ordered
    <3>1. i \in 1..(l - k) /\ t[i] = s[i + k] /\ i + k \in DOMAIN s BY <1>1, <1>2, <1>6
    <3>2. CASE j = last BY <3>1, <3>2, <1>7, <1>9
    <3>3. CASE j # last
      <4>1. t[j] = s[j + k] /\ j + k \in DOMAIN s /\ i + k < j + k BY <1>1, <1>2, <1>6, <3>1, <3>3
      <4> QED BY <1>9, <3>1, <4>1 DEF Ordered, s
    <3> QED BY <3>2, <3>3
  <2>2. ASSUME NEW b \in Nat, Holds(m, b) PROVE Holds(c, b)
    <3>1. CASE l = Kept /\ \A i \in DOMAIN s : s[i].id > b
      <4>1. s[1].id \in Nat /\ o.id \in Nat /\ 1 \in DOMAIN s BY <1>1, <1>2, <1>3, <3>1 DEF Observations
      <4>2. o.id > b BY <1>9, <3>1, <4>1
      <4>3. \A i \in DOMAIN t : t[i].id > b BY <1>6, <3>1, <4>2
      <4>4. Len(t) = Kept BY <1>1, <1>2, <3>1
      <4> QED BY <1>4, <4>3, <4>4 DEF Holds
    <3>2. ASSUME NEW i \in DOMAIN s, s[i].id = b PROVE Holds(c, b)
      <4>1. CASE i - k \in 1..(l - k)
        <5>1. t[i - k] = s[i] /\ i - k \in DOMAIN t BY <1>1, <1>2, <3>2, <4>1
        <5> QED BY <1>4, <3>2, <5>1 DEF Holds
      <4>2. CASE i - k \notin 1..(l - k)
        <5>1. i = 1 /\ k = 1 /\ l = Kept BY <1>1, <1>2, <3>2, <4>2
        <5>2. \A j \in DOMAIN t : t[j].id > b
          <6> SUFFICES ASSUME NEW j \in DOMAIN t PROVE t[j].id > b OBVIOUS
          <6>1. o.id > b /\ b \in Nat /\ o.id \in Nat BY <1>9, <3>2 DEF Observations
          <6>2. CASE j = last BY <1>7, <6>1, <6>2
          <6>3. CASE j # last
            <7>1. t[j] = s[j + k] /\ j + k \in DOMAIN s /\ i < j + k BY <1>1, <1>2, <1>6, <5>1, <6>3
            <7>2. s[j + k].id > s[i].id BY <1>9, <7>1 DEF Ordered, s
            <7> QED BY <3>2, <7>1, <7>2
          <6> QED BY <6>2, <6>3
        <5>3. Len(t) = Kept BY <1>1, <1>2, <5>1
        <5> QED BY <1>4, <5>2, <5>3 DEF Holds
      <4> QED BY <4>1, <4>2
    <3> QED BY <1>1, <2>2, <3>1, <3>2 DEF Holds, s
  <2> QED BY <1>4, <2>1, <2>2 DEF Follows
<1>10. ASSUME MayObserve(m, o) PROVE Adds(m, c, o)
  <2>1. o # None BY DEF Observations, None
  <2>2. Covering(c, o) BY <1>4, <1>10 DEF Covering, MayObserve
  <2> QED BY <1>4, <1>6, <2>1, <2>2 DEF Adds, s
<1> QED BY <1>4, <1>5, <1>7, <1>8, <1>9, <1>10 DEF c, s

\* A judgement changes the quality of what is listed, and what was concluded goes.
LEMMA JudgedSound ==
    ASSUME NEW m, Sound(m), NEW id, NEW q \in {"accepted", "rejected"}, NEW n \in Nat,
           Bounded(m, n)
    PROVE  /\ Sound(Judged(m, id, q)) /\ Bounded(Judged(m, id, q), n)
           /\ Ordered(m) => Follows(m, Judged(m, id, q))
           /\ Adds(m, Judged(m, id, q), None)
<1> DEFINE s == m.observations
           t == [i \in DOMAIN s |-> IF s[i].id = id THEN [s[i] EXCEPT !.quality = q] ELSE s[i]]
           a == [m EXCEPT !.observations = t]
           c == Judged(m, id, q)
<1>1. s \in Seq(Observations) /\ Len(s) \in Nat /\ DOMAIN s = 1..Len(s)
      BY LenProperties DEF Sound, Experiments
<1>2. \A i \in 1..Len(s) : s[i] \in Observations BY <1>1, ElementOfSeq
<1>3. \A i \in DOMAIN t : /\ t[i] \in Observations /\ t[i].id = s[i].id
                          /\ t[i].state = s[i].state /\ t[i].ids = s[i].ids
      BY <1>1, <1>2 DEF Observations
<1>4. t \in Seq(Observations) /\ DOMAIN t = DOMAIN s /\ Len(t) = Len(s)
  <2>1. t \in [1..Len(s) -> Observations] BY <1>1, <1>3
  <2>2. t \in Seq(Observations) BY <1>1, <2>1, SeqDef
  <2> QED BY <1>1, <2>2, LenProperties
<1>5. c = [a EXCEPT !.evaluation = None] BY DEF Judged
<1> HIDE DEF t
<1>6. a = [status |-> m.status, variants |-> m.variants, preview |-> m.preview,
           observations |-> t, evaluation |-> m.evaluation]
      BY DEF Sound, Experiments
<1> HIDE DEF a
<1>7. c = [status |-> m.status, variants |-> m.variants, preview |-> m.preview,
           observations |-> t, evaluation |-> None]
      BY <1>5, <1>6
<1> HIDE DEF c
<1>8. Sound(c) BY <1>4, <1>7 DEF Sound, Experiments
<1>9. Bounded(c, n) BY <1>3, <1>4, <1>7 DEF Bounded
<1>10. ASSUME Ordered(m) PROVE Follows(m, c)
  <2>1. Ordered(c) BY <1>3, <1>4, <1>7, <1>10 DEF Ordered
  <2>2. \A b \in Nat : Holds(m, b) => Holds(c, b) BY <1>3, <1>4, <1>7 DEF Holds
  <2> QED BY <1>7, <2>1, <2>2 DEF Follows
<1>11. Adds(m, c, None) BY <1>3, <1>4, <1>7 DEF Adds
<1> QED BY <1>8, <1>9, <1>10, <1>11 DEF c

-----------------------------------------------------------------------------
(* The index.                                                              *)

\* A sequence without its entry at j.
LEMMA RemovedList ==
    ASSUME NEW S, NEW s \in Seq(S), NEW j \in 1..Len(s)
    PROVE  /\ RemoveAt(s, j) \in Seq(S) /\ Len(RemoveAt(s, j)) = Len(s) - 1
           /\ \A i \in 1..(Len(s) - 1) :
                 RemoveAt(s, j)[i] = IF i < j THEN s[i] ELSE s[i + 1]
<1> DEFINE l == Len(s)
           a == SubSeq(s, 1, j - 1)
           x == j + 1
           b == SubSeq(s, x, l)
<1>1. l \in Nat /\ j \in Int /\ 1 <= j /\ j <= l BY LenProperties
<1>2. \A i \in 1..l : s[i] \in S BY ElementOfSeq
<1>3. a \in Seq(S) /\ Len(a) = j - 1 /\ \A i \in 1..(j - 1) : a[i] = s[i]
  <2> DEFINE y == j - 1
  <2>1. y \in Int /\ y >= 0 /\ (\A i \in 1..y : s[i] \in S) BY <1>1, <1>2
  <2>2. a = SubSeq(s, 1, y) OBVIOUS
  <2> HIDE DEF y, a
  <2>3. /\ a \in Seq(S) /\ Len(a) = IF 1 <= y THEN y - 1 + 1 ELSE 0
        /\ \A i \in 1..(y - 1 + 1) : a[i] = s[1 + i - 1]
        BY <2>1, <2>2, SubSeqProperties
  <2>4. \A i \in 1..y : i \in 1..(y - 1 + 1) /\ 1 + i - 1 = i BY <2>1
  <2>5. Len(a) = y /\ \A i \in 1..y : a[i] = s[i] BY <2>1, <2>3, <2>4
  <2> QED BY <2>3, <2>5 DEF y
<1>4. b \in Seq(S) /\ Len(b) = l - j /\ \A i \in 1..(l - j) : b[i] = s[i + j]
  <2>1. x \in Int /\ l \in Int /\ (\A i \in x..l : s[i] \in S) BY <1>1, <1>2
  <2>2. x = j + 1 OBVIOUS
  <2> HIDE DEF x, l
  <2>3. /\ b \in Seq(S) /\ Len(b) = IF x <= l THEN l - x + 1 ELSE 0
        /\ \A i \in 1..(l - x + 1) : b[i] = s[x + i - 1]
        BY <2>1, SubSeqProperties
  <2> HIDE DEF b
  <2>4. \A i \in 1..(l - j) : i \in 1..(l - x + 1) /\ x + i - 1 = i + j BY <1>1, <2>1, <2>2
  <2>5. Len(b) = l - j BY <1>1, <2>1, <2>2, <2>3
  <2>6. \A i \in 1..(l - j) : b[i] = s[i + j] BY <2>3, <2>4
  <2> QED BY <2>3, <2>5, <2>6
<1>5. RemoveAt(s, j) = a \o b BY DEF RemoveAt
<1> HIDE DEF a, b, x, l
<1>6. /\ a \o b \in Seq(S) /\ Len(a \o b) = Len(a) + Len(b)
      /\ \A i \in 1..(Len(a) + Len(b)) :
            (a \o b)[i] = IF i <= Len(a) THEN a[i] ELSE b[i - Len(a)]
      BY <1>3, <1>4, ConcatProperties
<1>7. Len(a) + Len(b) = l - 1 BY <1>1, <1>3, <1>4
<1>8. ASSUME NEW i \in 1..(l - 1)
      PROVE  (a \o b)[i] = IF i < j THEN s[i] ELSE s[i + 1]
  <2>1. (a \o b)[i] = IF i <= j - 1 THEN a[i] ELSE b[i - (j - 1)] BY <1>3, <1>6, <1>7
  <2>2. CASE i < j BY <1>1, <1>3, <2>1, <2>2
  <2>3. CASE ~ (i < j)
    <3>1. i - (j - 1) \in 1..(l - j) /\ (i - (j - 1)) + j = i + 1 /\ ~ (i <= j - 1)
          BY <1>1, <2>3
    <3> QED BY <1>4, <2>1, <2>3, <3>1
  <2> QED BY <2>2, <2>3
<1> QED BY <1>5, <1>6, <1>7, <1>8 DEF l

LEMMA NewestIndex ==
    ASSUME index \in Seq(Ids), IsInjective(index), NEW e \in Ids
    PROVE  /\ Newest(e) \in Seq(Ids) /\ IsInjective(Newest(e))
           /\ ToSet(Newest(e)) = ToSet(index) \cup {e}
           /\ Len(index) \in Nat /\ Len(Newest(e)) \in Nat
           /\ Len(index) <= Len(Newest(e))
<1> DEFINE j == CHOOSE i \in DOMAIN index : index[i] = e
           rest == IF e \in ToSet(index) THEN RemoveAt(index, j) ELSE index
           r == <<e>> \o rest
<1>1. Newest(e) = r BY DEF Newest
<1>2. Len(index) \in Nat /\ DOMAIN index = 1..Len(index) BY LenProperties
<1>3. /\ rest \in Seq(Ids) /\ e \notin ToSet(rest) /\ IsInjective(rest)
      /\ ToSet(rest) \cup {e} = ToSet(index) \cup {e}
      /\ Len(index) <= Len(rest) + 1
  <2>1. CASE e \notin ToSet(index) BY <1>2, <2>1
  <2>2. CASE e \in ToSet(index)
    <3>1. j \in DOMAIN index /\ index[j] = e BY <2>2 DEF ToSet
    <3>2. rest = RemoveAt(index, j) BY <2>2
    <3> HIDE DEF j, rest
    <3>3. /\ rest \in Seq(Ids) /\ Len(rest) = Len(index) - 1
          /\ \A i \in 1..(Len(index) - 1) : rest[i] = IF i < j THEN index[i] ELSE index[i + 1]
          BY <1>2, <3>1, <3>2, RemovedList
    <3>4. DOMAIN rest = 1..(Len(index) - 1) BY <3>3, LenProperties
    <3>5. \A i \in DOMAIN rest :
              \E k \in DOMAIN index : /\ k # j /\ rest[i] = index[k]
                                      /\ k = IF i < j THEN i ELSE i + 1
          BY <1>2, <3>1, <3>3, <3>4
    <3>6. IsInjective(rest)
      <4> SUFFICES ASSUME NEW a \in DOMAIN rest, NEW b \in DOMAIN rest, rest[a] = rest[b]
                   PROVE  a = b
          BY DEF IsInjective
      <4>1. PICK k \in DOMAIN index : /\ rest[a] = index[k]
                                      /\ k = IF a < j THEN a ELSE a + 1
            BY <3>5
      <4>2. PICK m \in DOMAIN index : /\ rest[b] = index[m]
                                      /\ m = IF b < j THEN b ELSE b + 1
            BY <3>5
      <4>3. k = m BY <4>1, <4>2 DEF IsInjective
      <4> QED BY <1>2, <3>1, <3>4, <4>1, <4>2, <4>3
    <3>7. e \notin ToSet(rest) BY <3>1, <3>5 DEF ToSet, IsInjective
    <3>8. \A k \in DOMAIN index : k # j => \E i \in DOMAIN rest : rest[i] = index[k]
      <4> SUFFICES ASSUME NEW k \in DOMAIN index, k # j
                   PROVE  \E i \in DOMAIN rest : rest[i] = index[k]
          OBVIOUS
      <4>1. CASE k < j BY <1>2, <3>1, <3>3, <3>4, <4>1
      <4>2. CASE ~ (k < j)
        <5>1. k - 1 \in 1..(Len(index) - 1) /\ ~ (k - 1 < j) /\ (k - 1) + 1 = k
              BY <1>2, <3>1, <4>2
        <5>2. rest[k - 1] = index[k] BY <3>3, <5>1
        <5> QED BY <3>4, <5>1, <5>2
      <4> QED BY <4>1, <4>2
    <3>9. ToSet(rest) \cup {e} = ToSet(index) \cup {e}
          BY <3>1, <3>5, <3>8 DEF ToSet
    <3> QED BY <1>2, <3>3, <3>6, <3>7, <3>9
  <2> QED BY <2>1, <2>2
<1> HIDE DEF rest, j
<1>4. <<e>> \in Seq(Ids) /\ Len(<<e>>) = 1 /\ <<e>>[1] = e OBVIOUS
<1>5. /\ r \in Seq(Ids) /\ Len(r) = 1 + Len(rest)
      /\ \A i \in 1..(1 + Len(rest)) : r[i] = IF i <= 1 THEN <<e>>[i] ELSE rest[i - 1]
      BY <1>3, <1>4, ConcatProperties
<1>6. Len(rest) \in Nat /\ DOMAIN rest = 1..Len(rest) /\ DOMAIN r = 1..(1 + Len(rest))
      BY <1>3, <1>5, LenProperties
<1> HIDE DEF r
<1>7. r[1] = e /\ 1 \in DOMAIN r BY <1>4, <1>5, <1>6
<1>8. \A i \in DOMAIN r : i # 1 => i - 1 \in DOMAIN rest /\ r[i] = rest[i - 1]
      BY <1>5, <1>6
<1>9. \A i \in DOMAIN rest : i + 1 \in DOMAIN r /\ r[i + 1] = rest[i]
  <2> SUFFICES ASSUME NEW i \in DOMAIN rest PROVE i + 1 \in DOMAIN r /\ r[i + 1] = rest[i]
      OBVIOUS
  <2>1. i + 1 \in DOMAIN r /\ i + 1 # 1 /\ (i + 1) - 1 = i BY <1>6
  <2> QED BY <1>8, <2>1
<1>10. ToSet(r) = ToSet(rest) \cup {e} BY <1>7, <1>8, <1>9 DEF ToSet
<1>11. IsInjective(r)
  <2> SUFFICES ASSUME NEW a \in DOMAIN r, NEW b \in DOMAIN r, r[a] = r[b] PROVE a = b
      BY DEF IsInjective
  <2>1. CASE a = 1 \/ b = 1 BY <1>3, <1>7, <1>8, <2>1 DEF ToSet
  <2>2. CASE a # 1 /\ b # 1
    <3>1. a - 1 = b - 1 BY <1>3, <1>8, <2>2 DEF IsInjective
    <3> QED BY <1>6, <3>1
  <2> QED BY <2>1, <2>2
<1> QED BY <1>1, <1>2, <1>3, <1>5, <1>6, <1>10, <1>11

-----------------------------------------------------------------------------
(* What a handler begins with.                                             *)

Makes(m, c, o, n) ==
    Sound(c) /\ Bounded(c, n) /\ (Ordered(m) => Follows(m, c)) /\ Adds(m, c, o)

\* A request on experiment e begins at place p with call c.
Ready(e, p, c) ==
    /\ c \in Calls /\ c.id = e
    /\ \/ /\ p = "save" /\ c.creates /\ c.observation = None
          /\ Sound(c.copy) /\ c.copy.observations = <<>> /\ c.copy.status = "planned"
          /\ experiments[e] = Absent \/ Len(index) > ListLimit
       \/ /\ p \in {"save", "map_read"} /\ ~ c.creates /\ experiments[e] # Absent
          /\ Makes(experiments[e], c.copy, c.observation, ops + 1)
          /\ c.observation # None =>
                p = "save" /\ \E i \in DOMAIN c.copy.observations : c.copy.observations[i].id = c.observation.id
       \/ /\ p = "tracking" /\ ~ c.creates /\ experiments[e] # Absent
          /\ c.plan \in Plans /\ c.observation = [id |-> ops + 1]

LEMMA NewCallTyped ==
    ASSUME Types, NEW e \in 0..MaxExperiments, NEW copy \in Experiments \cup {Absent}
    PROVE  /\ NewCall(e, copy) \in Calls /\ NewCall(e, copy).id = e
           /\ NewCall(e, copy).copy = copy /\ NewCall(e, copy).observation = None
           /\ ~ NewCall(e, copy).creates
BY DEF NewCall, Calls, Types, None

\* What is made of a stored experiment by a request that keeps its observations.
LEMMA KeepingMakes ==
    ASSUME NEW m, Sound(m), Bounded(m, ops), ops \in Nat, NEW c, Sound(c),
           c.observations = m.observations,
           c.status \in {"approved", "rejected"} /\ c.status # m.status
               => m.status = "awaiting_approval",
           m.status = "rejected" => c.status = "rejected"
    PROVE  Makes(m, c, None, ops + 1)
<1>1. Bounded(c, ops + 1) BY IdsAreNat DEF Bounded
<1>2. Adds(m, c, None) BY DEF Adds
<1> QED BY <1>1, <1>2, KeepingFollows DEF Makes

\* The routes that read, change and save an experiment.
LEMMA ChangeReady ==
    ASSUME Base, NEW h \in Handlers, NEW e \in Ids, experiments[e] # Absent, NEW copy,
           Makes(experiments[e], copy, None, ops + 1)
    PROVE  Ready(e, "save", NewCall(e, copy))
<1>1. copy \in Experiments BY DEF Makes, Sound
<1>2. e \in 0..MaxExperiments BY DEF Ids
<1> QED BY <1>1, <1>2, NewCallTyped DEF Ready, Base

LEMMA StoredFacts ==
    ASSUME Base, NEW e \in Ids, experiments[e].status # "absent"
    PROVE  /\ experiments[e] # Absent /\ Sound(experiments[e]) /\ Bounded(experiments[e], ops)
           /\ ops \in Nat /\ e \in 0..MaxExperiments
<1>1. experiments[e] # Absent BY DEF Absent
<1>2. ops \in Nat BY ExperimentAssumption DEF Base, Types
<1> QED BY <1>1, <1>2 DEF Base, Stored, Ids

LEMMA CreateReady ==
    ASSUME Base, NEW e \in NextId, NEW v \in Drafts
    PROVE  /\ e \in Ids
           /\ Ready(e, "save", [NewCall(e, NewExperiment(v)) EXCEPT !.creates = TRUE])
<1> DEFINE n == NewCall(e, NewExperiment(v))
           c == [n EXCEPT !.creates = TRUE]
<1>1. e \in Ids /\ e \in 0..MaxExperiments BY DEF NextId, Ids
<1>2. /\ Sound(NewExperiment(v)) /\ NewExperiment(v).observations = <<>>
      /\ NewExperiment(v).status = "planned"
      BY NewSound
<1>3. /\ n \in Calls /\ n.id = e /\ n.copy = NewExperiment(v) /\ n.observation = None
      BY <1>1, <1>2, NewCallTyped DEF Base, Sound
<1> HIDE DEF n
<1>4. /\ c \in Calls /\ c.id = e /\ c.copy = NewExperiment(v) /\ c.observation = None
      BY <1>3 DEF Calls
<1>5. c.creates BY <1>3, Zenon DEF Calls
<1>6. experiments[e] = Absent \/ Len(index) > ListLimit
  <2> SUFFICES ASSUME ~ (Len(index) > ListLimit) PROVE experiments[e] = Absent OBVIOUS
  <2>1. index \in Seq(Ids) /\ Len(index) \in Nat /\ ListLimit \in Nat
        BY ExperimentAssumption, LenProperties DEF Base, Indexed
  <2>2. (IF Len(index) < ListLimit THEN Len(index) ELSE ListLimit) = Len(index) BY <2>1
  <2>3. SubSeq(index, 1, Len(index)) = index BY <2>1, SubSeqFull
  <2>4. e \notin ToSet(index) BY <2>2, <2>3 DEF NextId
  <2> QED BY <1>1, <2>4 DEF Base, Indexed
<1> HIDE DEF c
<1>7. Ready(e, "save", c) BY <1>2, <1>4, <1>5, <1>6 DEF Ready
<1> QED BY <1>1, <1>7 DEF c, n

\* Every request but that on the campaign's own route begins ready.
Begins(h) ==
    \E e \in Ids, p \in {"save", "map_read", "tracking"}, c \in Calls :
        /\ ops < scenario.ops /\ ops' = ops + 1
        /\ Work(h, e, p, c)
        /\ Ready(e, p, c)

LEMMA ChangeBegins ==
    ASSUME Base, NEW h \in Handlers, NEW e \in Ids, experiments[e] # Absent,
           NEW operation, NEW copy, Change(h, e, operation, copy),
           Makes(experiments[e], copy, None, ops + 1)
    PROVE  Begins(h)
<1>1. Ready(e, "save", NewCall(e, copy)) BY ChangeReady
<1>2. NewCall(e, copy) \in Calls BY <1>1 DEF Ready
<1> QED BY <1>1, <1>2 DEF Change, Asked, Begins

LEMMA PlanBegins ==
    ASSUME Base, NEW h \in Handlers, NEW e \in Ids,
           \/ \E v \in Drafts : Update(h, e, v)
           \/ Preview(h, e) \/ RequestApproval(h, e)
           \/ \E yes \in BOOLEAN : DecideApproval(h, e, yes)
    PROVE  Begins(h)
<1> DEFINE m == experiments[e]
<1>1. ASSUME NEW v \in Drafts, Update(h, e, v) PROVE Begins(h)
  <2>1. Draft(m) /\ Change(h, e, "update", Updated(m, v)) BY <1>1 DEF Update
  <2>2. m.status \notin {"absent", "rejected"} BY <2>1 DEF Draft
  <2>3. m # Absent /\ Makes(m, Updated(m, v), None, ops + 1)
        BY <2>2, StoredFacts, UpdatedSound, KeepingMakes
  <2> QED BY <2>1, <2>3, ChangeBegins
<1>2. ASSUME Preview(h, e) PROVE Begins(h)
  <2>1. m.status \notin {"absent", "rejected"} /\ Change(h, e, "preview", Previewed(m))
        BY <1>2 DEF Preview
  <2>2. m # Absent /\ Makes(m, Previewed(m), None, ops + 1)
        BY <2>1, StoredFacts, PreviewedSound, KeepingMakes
  <2> QED BY <2>1, <2>2, ChangeBegins
<1>3. ASSUME RequestApproval(h, e) PROVE Begins(h)
  <2> DEFINE c == [m EXCEPT !.status = "awaiting_approval"]
  <2>1. Draft(m) /\ Change(h, e, "request", c) BY <1>3 DEF RequestApproval
  <2>2. m.status \notin {"absent", "rejected"} BY <2>1 DEF Draft
  <2>3. m # Absent /\ Sound(m) /\ Bounded(m, ops) /\ ops \in Nat BY <2>2, StoredFacts
  <2>4. Sound(c) /\ c.observations = m.observations /\ c.status = "awaiting_approval"
        BY <2>3, StatusSound DEF ExperimentStatus
  <2> HIDE DEF c
  <2>5. Makes(m, c, None, ops + 1) BY <2>2, <2>3, <2>4, KeepingMakes
  <2> QED BY <2>1, <2>3, <2>5, ChangeBegins
<1>4. ASSUME NEW yes \in BOOLEAN, DecideApproval(h, e, yes) PROVE Begins(h)
  <2> DEFINE s == IF yes THEN "approved" ELSE "rejected"
             c == [m EXCEPT !.status = s]
  <2>1. m.status = "awaiting_approval" /\ Change(h, e, "decide", c) BY <1>4 DEF DecideApproval
  <2>2. s \in {"approved", "rejected"} /\ s \in ExperimentStatus BY DEF ExperimentStatus
  <2> HIDE DEF s
  <2>3. m # Absent /\ Sound(m) /\ Bounded(m, ops) /\ ops \in Nat BY <2>1, StoredFacts
  <2>4. Sound(c) /\ c.observations = m.observations /\ c.status = s
        BY <2>2, <2>3, StatusSound
  <2> HIDE DEF c
  <2>5. Makes(m, c, None, ops + 1) BY <2>1, <2>3, <2>4, KeepingMakes
  <2> QED BY <2>1, <2>3, <2>5, ChangeBegins
<1> QED BY <1>1, <1>2, <1>3, <1>4

LEMMA EvidenceBegins ==
    ASSUME Base, NEW h \in Handlers, NEW e \in Ids,
           \/ \E ids \in (SUBSET Variants) \ {{}}, s \in Unjudged : AddObservation(h, e, ids, s)
           \/ /\ experiments[e] # Absent
              /\ \E o \in ToSet(experiments[e].observations) :
                    \/ \E yes \in BOOLEAN : DecideQuality(h, e, o, yes)
                    \/ \E v \in Verdicts : Evaluate(h, e, o, v)
    PROVE  Begins(h)
<1> DEFINE m == experiments[e]
<1>0. /\ ops \in Nat /\ e \in 0..MaxExperiments
      /\ m # Absent => Sound(m) /\ Bounded(m, ops) /\ Bounded(m, ops + 1)
      /\ m # Absent => \A i \in DOMAIN m.observations : m.observations[i].id < ops + 1
  <2>1. ops \in Nat BY ExperimentAssumption DEF Base, Types
  <2>2. m # Absent => Sound(m) /\ Bounded(m, ops) BY DEF Base, Stored
  <2> QED BY <2>1, <2>2, IdsAreNat DEF Bounded, Ids
<1>1. ASSUME NEW ids \in (SUBSET Variants) \ {{}}, NEW s \in Unjudged, AddObservation(h, e, ids, s)
      PROVE  Begins(h)
  <2> DEFINE o == NewObservation(ids, s)
             k == Observed(m, o)
             n == NewCall(e, k)
             c == [n EXCEPT !.observation = o]
  <2>1. /\ m # Absent /\ MayObserve(m, o) /\ Asked("observe") /\ Work(h, e, "save", c)
        BY <1>1 DEF AddObservation
  <2>2. o \in Observations /\ o.id = ops + 1
        BY <1>0 DEF NewObservation, Observations, Unjudged
  <2> HIDE DEF o
  <2>3. ops + 1 \in Nat /\ o.id <= ops + 1 BY <1>0, <2>2
  <2>4. /\ Sound(k) /\ Bounded(k, ops + 1)
        /\ \E i \in DOMAIN k.observations : k.observations[i].id = o.id
        /\ Ordered(m) => Follows(m, k)
        /\ Adds(m, k, o)
        BY <1>0, <2>1, <2>2, <2>3, ObservedSound
  <2> HIDE DEF k
  <2>5. n \in Calls /\ n.id = e /\ n.copy = k /\ ~ n.creates
        BY <1>0, <2>4, NewCallTyped DEF Base, Sound
  <2> HIDE DEF n
  <2>6. c \in Calls /\ c.id = e /\ c.copy = k /\ c.observation = o BY <2>2, <2>5 DEF Calls
  <2>7. ~ c.creates BY <2>5, Zenon DEF Calls
  <2> HIDE DEF c
  <2>8. Ready(e, "save", c) BY <2>1, <2>4, <2>6, <2>7 DEF Ready, Makes
  <2> QED BY <2>1, <2>6, <2>8 DEF Begins, Asked
<1>2. ASSUME m # Absent, NEW o \in ToSet(m.observations), NEW yes \in BOOLEAN,
             DecideQuality(h, e, o, yes)
      PROVE  Begins(h)
  <2> DEFINE q == IF yes THEN "accepted" ELSE "rejected"
             c == Judged(m, o.id, q)
  <2>1. Change(h, e, "quality", c) BY <1>2 DEF DecideQuality
  <2>2. q \in {"accepted", "rejected"} OBVIOUS
  <2> HIDE DEF q
  <2>3. ops + 1 \in Nat BY <1>0
  <2>4. Makes(m, c, None, ops + 1) BY <1>0, <1>2, <2>2, <2>3, JudgedSound DEF Makes
  <2> QED BY <1>2, <2>1, <2>4, ChangeBegins
<1>3. ASSUME m # Absent, NEW o \in ToSet(m.observations), NEW v \in Verdicts, Evaluate(h, e, o, v)
      PROVE  Begins(h)
  <2> DEFINE c == [m EXCEPT !.evaluation =
                      [id |-> o.id, recommendation |-> Recommendation(m, o, v)]]
  <2>1. Evaluable(m, o) /\ Change(h, e, "evaluate", c) BY <1>3 DEF Evaluate
  <2>2. Sound(m) /\ Bounded(m, ops) /\ ops \in Nat BY <1>0, <1>3
  <2>3. c = [m EXCEPT !.evaluation =
                [id |-> o.id, recommendation |-> Recommendation(m, o, v)]] OBVIOUS
  <2> HIDE DEF c
  <2>4. Sound(c) /\ c.observations = m.observations /\ c.status = m.status
        BY <2>1, <2>2, <2>3, EvaluatedSound
  <2>5. Makes(m, c, None, ops + 1) BY <2>2, <2>4, KeepingMakes
  <2> QED BY <1>3, <2>1, <2>5, ChangeBegins
<1> QED BY <1>1, <1>2, <1>3

LEMMA SourceBegins ==
    ASSUME Base, NEW h \in Handlers, NEW e \in Ids,
           ReadSource(h, e) \/ \E ads \in Ads : ApplyMapping(h, e, ads)
    PROVE  Begins(h)
<1> DEFINE m == experiments[e]
<1>1. ASSUME ReadSource(h, e) PROVE Begins(h)
  <2> DEFINE n == NewCall(e, Absent)
             a == [n EXCEPT !.plan = m.variants]
             c == [a EXCEPT !.observation = [id |-> ops + 1]]
  <2>1. m # Absent /\ Asked("read") /\ Work(h, e, "tracking", c) BY <1>1 DEF ReadSource
  <2>2. ops \in Nat /\ Sound(m) /\ m.variants \in Plans
        BY <2>1, ExperimentAssumption DEF Base, Types, Stored, Sound, Experiments
  <2>3. n \in Calls /\ n.id = e /\ ~ n.creates BY NewCallTyped DEF Base, Ids
  <2> HIDE DEF n
  <2>4. a \in Calls /\ a.id = e /\ a.plan = m.variants BY <2>2, <2>3 DEF Calls
  <2>5. ~ a.creates BY <2>3, Zenon DEF Calls
  <2> HIDE DEF a
  <2>6. [id |-> ops + 1] \in [id : Nat] BY <2>2
  <2>7. /\ c \in Calls /\ c.id = e /\ c.plan = m.variants
        /\ c.observation = [id |-> ops + 1]
        BY <2>4, <2>6 DEF Calls
  <2>8. ~ c.creates BY <2>4, <2>5, Zenon DEF Calls
  <2> HIDE DEF c
  <2>9. Ready(e, "tracking", c) BY <2>1, <2>2, <2>7, <2>8 DEF Ready
  <2> QED BY <2>1, <2>7, <2>9 DEF Begins, Asked
<1>2. ASSUME NEW ads \in Ads, ApplyMapping(h, e, ads) PROVE Begins(h)
  <2> DEFINE k == Mapped(m, ads)
             n == NewCall(e, k)
             c == [n EXCEPT !.plan = m.variants]
  <2>1. Draft(m) /\ Asked("map") /\ Work(h, e, "map_read", c) BY <1>2 DEF ApplyMapping
  <2>2. m.status \notin {"absent", "rejected"} BY <2>1 DEF Draft
  <2>3. /\ m # Absent /\ Sound(m) /\ Bounded(m, ops) /\ ops \in Nat
        /\ e \in 0..MaxExperiments /\ m.variants \in Plans
        BY <2>2, StoredFacts DEF Sound, Experiments
  <2>4. Sound(k) /\ k.observations = m.observations /\ k.status = "planned"
        BY <2>3, MappedSound
  <2> HIDE DEF k
  <2>5. Makes(m, k, None, ops + 1) BY <2>2, <2>3, <2>4, KeepingMakes
  <2>6. n \in Calls /\ n.id = e /\ n.copy = k /\ ~ n.creates /\ n.observation = None
        BY <2>3, <2>4, NewCallTyped DEF Base, Sound
  <2> HIDE DEF n
  <2>7. c \in Calls /\ c.id = e /\ c.copy = k /\ c.observation = None
        BY <2>3, <2>6 DEF Calls
  <2>8. ~ c.creates BY <2>6, Zenon DEF Calls
  <2> HIDE DEF c
  <2>9. Ready(e, "map_read", c) BY <2>3, <2>5, <2>7, <2>8 DEF Ready
  <2> QED BY <2>1, <2>7, <2>9 DEF Begins, Asked
<1> QED BY <1>1, <1>2

LEMMA RequestBegins ==
    ASSUME Base, NEW h \in Handlers, Request(h)
    PROVE  EditCampaign(h) \/ Begins(h)
<1>1. ASSUME NEW v \in Drafts, Create(h, v) PROVE Begins(h)
  <2>1. PICK e \in NextId :
            /\ Asked("create")
            /\ Work(h, e, "save", [NewCall(e, NewExperiment(v)) EXCEPT !.creates = TRUE])
        BY <1>1 DEF Create
  <2> DEFINE c == [NewCall(e, NewExperiment(v)) EXCEPT !.creates = TRUE]
  <2>2. e \in Ids /\ Ready(e, "save", c) BY CreateReady
  <2>3. Asked("create") /\ Work(h, e, "save", c) BY <2>1
  <2> HIDE DEF c
  <2>4. c \in Calls BY <2>2 DEF Ready
  <2> QED BY <2>2, <2>3, <2>4 DEF Begins, Asked
<1> QED BY <1>1, PlanBegins, EvidenceBegins, SourceBegins DEF Request

-----------------------------------------------------------------------------
(* The invariant is inductive.                                             *)

\* A handler keeps what it relies on while others work, as long as whoever changes
\* its experiment disturbs it.
LEMMA FitsStays ==
    ASSUME Base, NEW g \in Handlers, pc[g] # "idle", Fits(g),
           pc'[g] = pc[g], call'[g] = call[g], disturbed \subseteq disturbed',
           answered \subseteq answered',
           Len(index) \in Nat, Len(index') \in Nat, Len(index) <= Len(index'),
           ops \in Nat, ops' \in Nat, ops <= ops',
           call[g].id # 0 =>
              \/ experiments'[call[g].id] = experiments[call[g].id]
              \/ call[g].id \in disturbed' /\ experiments'[call[g].id] # Absent
    PROVE  Fits(g)'
<1> DEFINE c == call[g]
<1>1. c \in Calls /\ call'[g] = c BY DEF Fits
<1>2. /\ pc'[g] = "campaign_save" <=> c.id = 0
      /\ c.id # 0 => c.creates \/ experiments'[c.id] # Absent
      BY DEF Fits
<1>3. ListLimit \in Nat BY ExperimentAssumption
<1>4. c.id = 0 => pc[g] \notin Saving \cup Reading BY DEF Fits, Saving, Reading
<1>5. ASSUME pc[g] \in Saving PROVE SaveFits(g)'
  <2>1. SaveFits(g) /\ c.id # 0 BY <1>4, <1>5 DEF Fits
  <2>2. /\ Sound(c.copy) /\ Bounded(c.copy, ops)
        /\ c.observation # None =>
              \E i \in DOMAIN c.copy.observations : c.copy.observations[i].id = c.observation.id
        BY <2>1 DEF SaveFits
  <2>3. Bounded(c.copy, ops') BY <2>2, IdsAreNat DEF Bounded
  <2>4. c.creates =>
           /\ pc'[g] = "save" /\ c.observation = None
           /\ c.copy.observations = <<>> /\ c.copy.status = "planned"
           /\ experiments'[c.id] = Absent \/ c.id \in disturbed' \/ Len(index') > ListLimit
        BY <1>3, <2>1 DEF SaveFits
  <2>5. ~ c.creates /\ c.id \notin disturbed' => Follows(experiments'[c.id], c.copy)
        BY <2>1 DEF SaveFits
  <2>6. /\ Attached(c)'
        /\ pc'[g] # "save" => c.observation = None
        /\ pc'[g] = "map_campaign" => c.campaign.ads = c.copy.variants.ads
        BY <1>1, <2>1 DEF SaveFits, Attached
  <2> QED BY <1>1, <2>2, <2>3, <2>4, <2>5, <2>6 DEF SaveFits, Attached
<1>6. ASSUME pc[g] \in Reading PROVE ReadFits(g)'
  <2>1. ReadFits(g) /\ c.id # 0 BY <1>4, <1>6 DEF Fits
  <2>2. ~ c.creates /\ c.plan \in Plans /\ c.observation.id \in 1..ops'
        BY <2>1 DEF ReadFits
  <2>3. pc'[g] = "ingest" => c.observation \in Observations BY <2>1 DEF ReadFits
  <2>4. c.id \notin disturbed' =>
            \A i \in DOMAIN experiments'[c.id].observations :
                experiments'[c.id].observations[i].id < c.observation.id
        BY <2>1 DEF ReadFits
  <2> QED BY <1>1, <2>2, <2>3, <2>4 DEF ReadFits
<1>7. pc'[g] = pc[g] OBVIOUS
<1> QED BY <1>1, <1>2, <1>5, <1>6, <1>7 DEF Fits, Calls

LEMMA BaseInit == Init => Base
<1> SUFFICES ASSUME Init PROVE Base OBVIOUS
<1>1. /\ \A s \in Scenarios : s.ops \in Nat /\ s.deaths \in Nat
      /\ MaxExperiments \in Nat \ {0} /\ Unmapped \notin Ads
      BY ExperimentAssumption
<1>2. Types BY <1>1 DEF Init, Types, Campaigns, HandlerStates
<1>3. Indexed
  <2>1. <<>> \in Seq(Ids) /\ ToSet(<<>>) = {} /\ IsInjective(<<>>) BY DEF ToSet, IsInjective
  <2> QED BY <2>1 DEF Init, Indexed
<1>4. Stored /\ Listed /\ Apart BY DEF Init, Stored, Listed, Apart
<1>5. Tracks BY DEF Init, Tracks
<1> QED BY <1>2, <1>3, <1>4, <1>5 DEF Init, Base

\* The lengths and counters that FitsStays compares.
LEMMA Counters == ASSUME Base PROVE Len(index) \in Nat /\ ops \in Nat
BY ExperimentAssumption, LenProperties DEF Base, Types, Indexed

LEMMA BeginSafe ==
    ASSUME Base, NEW h \in Handlers, Begins(h)
    PROVE  Base'
<1>1. PICK e \in Ids, p \in {"save", "map_read", "tracking"}, c \in Calls :
          /\ ops < scenario.ops /\ ops' = ops + 1
          /\ Work(h, e, p, c)
          /\ Ready(e, p, c)
      BY DEF Begins
<1>2. /\ pc[h] = "idle" /\ pc' = [pc EXCEPT ![h] = p] /\ call' = [call EXCEPT ![h] = c]
      /\ disturbed' = disturbed \cup (IF Overlaps(h, e) THEN {e} ELSE {})
      /\ UNCHANGED <<scenario, experiments, index, campaign, answered, deaths>>
      BY <1>1 DEF Work, Goto
<1>3. /\ pc'[h] = p /\ call'[h] = c /\ c.id = e /\ e # 0
      /\ \A g \in Handlers \ {h} : pc'[g] = pc[g] /\ call'[g] = call[g]
      BY <1>1, <1>2 DEF Base, Types, Ready, Ids
<1>4. disturbed \subseteq disturbed' /\ disturbed' \subseteq disturbed \cup {e} BY <1>2
<1>5. /\ Len(index) \in Nat /\ Len(index') \in Nat /\ Len(index) <= Len(index')
      /\ ops \in Nat /\ ops' \in Nat /\ ops <= ops'
      BY <1>1, <1>2, Counters
<1>6. Types'
  <2>1. ops' \in 0..scenario'.ops
    <3>1. scenario.ops \in Nat BY ExperimentAssumption DEF Base, Types
    <3> QED BY <1>1, <1>2, <1>5, <3>1
  <2>2. pc' \in [Handlers -> HandlerStates] /\ DOMAIN call' = Handlers
        BY <1>2 DEF Base, Types, HandlerStates
  <2>3. disturbed' \subseteq 0..MaxExperiments BY <1>4 DEF Base, Types, Ids
  <2> QED BY <1>2, <2>1, <2>2, <2>3 DEF Base, Types
<1>7. Indexed' BY <1>2 DEF Base, Indexed
<1>8. Stored' /\ Listed'
  <2>1. ASSUME NEW k \in Ids, experiments'[k] # Absent
        PROVE  /\ Sound(experiments'[k]) /\ Bounded(experiments'[k], ops')
               /\ k \notin disturbed' => Ordered(experiments'[k])
               /\ \A i \in DOMAIN experiments'[k].observations :
                     <<k, experiments'[k].observations[i].id>> \in answered'
    <3>1. /\ Sound(experiments[k]) /\ Bounded(experiments[k], ops)
          /\ k \notin disturbed => Ordered(experiments[k])
          /\ \A i \in DOMAIN experiments[k].observations :
                <<k, experiments[k].observations[i].id>> \in answered
          BY <1>2, <2>1 DEF Base, Stored
    <3>2. Bounded(experiments[k], ops') BY <1>5, <3>1, IdsAreNat DEF Bounded
    <3> QED BY <1>2, <1>4, <3>1, <3>2
  <2>2. Stored' BY <2>1 DEF Stored
  <2>3. Listed' BY <1>2, <1>4 DEF Base, Listed
  <2> QED BY <2>2, <2>3
<1>9. Apart'
  <2>1. \A g \in Handlers \ {h} : pc[g] # "idle" /\ call[g].id = e => e \in disturbed'
        BY <1>2 DEF Overlaps
  <2> QED BY <1>3, <1>4, <2>1 DEF Base, Apart
<1>10. Tracks' BY <1>2, <1>3, <1>4 DEF Base, Tracks
<1>11. ASSUME NEW g \in Handlers, pc'[g] # "idle", g # h PROVE Fits(g)'
  <2>1. pc[g] # "idle" /\ pc'[g] = pc[g] /\ call'[g] = call[g] /\ Fits(g)
        BY <1>3, <1>11 DEF Base
  <2>2. experiments' = experiments /\ answered' = answered BY <1>2
  <2> QED BY <1>4, <1>5, <2>1, <2>2, FitsStays
<1>12. Fits(h)'
  <2> DEFINE m == experiments[e]
  <2>1. m # Absent => /\ \A i \in DOMAIN m.observations : m.observations[i].id < ops + 1
                      /\ e \notin disturbed => Ordered(m)
    <3>1. m # Absent => /\ Sound(m) /\ Bounded(m, ops)
                        /\ e \notin disturbed => Ordered(m)
          BY DEF Base, Stored
    <3> QED BY <1>5, <3>1, IdsAreNat DEF Bounded
  <2>2. CASE p = "save" /\ c.creates
    <3>1. /\ c.observation = None
          /\ Sound(c.copy) /\ c.copy.observations = <<>> /\ c.copy.status = "planned"
          /\ experiments[e] = Absent \/ Len(index) > ListLimit
          BY <1>1, <2>2 DEF Ready
    <3>2. Bounded(c.copy, ops + 1) BY <3>1 DEF Bounded
    <3>3. DOMAIN c.copy.observations = {} BY <3>1
    <3>4. SaveFits(h)' BY <1>1, <1>2, <1>3, <2>2, <3>1, <3>2, <3>3 DEF SaveFits, Attached
    <3> QED BY <1>1, <1>2, <1>3, <2>2, <3>4 DEF Fits, Reading
  <2>3. CASE p \in {"save", "map_read"} /\ ~ c.creates
    <3>1. /\ m # Absent /\ Makes(m, c.copy, c.observation, ops + 1)
          /\ c.observation # None =>
                p = "save" /\ \E i \in DOMAIN c.copy.observations : c.copy.observations[i].id = c.observation.id
          BY <1>1, <2>3 DEF Ready
    <3>2. e \notin disturbed' => Follows(m, c.copy) BY <1>4, <2>1, <3>1 DEF Makes
    <3>3. \A k \in DOMAIN m.observations : <<e, m.observations[k].id>> \in answered
          BY <3>1 DEF Base, Stored
    <3>4. Attached(c) BY <1>3, <3>1, <3>3 DEF Makes, Adds, Attached
    <3>5. SaveFits(h)' BY <1>1, <1>2, <1>3, <2>3, <3>1, <3>2, <3>4 DEF SaveFits, Makes, Attached
    <3> QED BY <1>1, <1>2, <1>3, <2>3, <3>1, <3>5 DEF Fits, Reading
  <2>4. CASE p = "tracking"
    <3>1. /\ m # Absent /\ ~ c.creates /\ c.plan \in Plans /\ c.observation = [id |-> ops + 1]
          BY <1>1, <2>4 DEF Ready
    <3>2. ops + 1 \in 1..ops' BY <1>1, <1>5
    <3>3. ReadFits(h)' BY <1>1, <1>2, <1>3, <1>4, <2>1, <2>4, <3>1, <3>2 DEF ReadFits
    <3> QED BY <1>1, <1>2, <1>3, <2>4, <3>1, <3>3 DEF Fits, Saving
  <2> QED BY <1>1, <2>2, <2>3, <2>4 DEF Ready
<1> QED BY <1>6, <1>7, <1>8, <1>9, <1>10, <1>11, <1>12 DEF Base

\* A step that changes no experiment is safe if the handler that takes it goes on
\* with its experiment or ends, and the tracking stays in step.
LEMMA OwnStepSafe ==
    ASSUME Base, NEW h \in Handlers, UNCHANGED <<scenario, experiments, index, answered>>,
           campaign' \in Campaigns,
           disturbed \subseteq disturbed', disturbed' \subseteq 0..MaxExperiments,
           ops' \in 0..scenario.ops, ops <= ops', deaths' \in 0..scenario.deaths,
           pc' \in [Handlers -> HandlerStates], DOMAIN call' = Handlers,
           \A g \in Handlers \ {h} : pc'[g] = pc[g] /\ call'[g] = call[g],
           pc'[h] # "idle" => Fits(h)',
           pc'[h] # "idle" => call'[h].id = 0 \/ (pc[h] # "idle" /\ call'[h].id = call[h].id),
           Tracks'
    PROVE  Base'
<1>1. /\ Len(index) \in Nat /\ Len(index') \in Nat /\ Len(index) <= Len(index')
      /\ ops \in Nat /\ ops' \in Nat
      BY Counters
<1>2. Types' BY DEF Base, Types
<1>3. Indexed' BY DEF Base, Indexed
<1>4. Stored'
  <2> SUFFICES ASSUME NEW k \in Ids, experiments[k] # Absent
               PROVE  /\ Sound(experiments[k]) /\ Bounded(experiments[k], ops')
                      /\ k \notin disturbed' => Ordered(experiments[k])
                      /\ \A i \in DOMAIN experiments[k].observations :
                            <<k, experiments[k].observations[i].id>> \in answered
      BY DEF Stored
  <2>1. /\ Sound(experiments[k]) /\ Bounded(experiments[k], ops)
        /\ k \notin disturbed => Ordered(experiments[k])
        /\ \A i \in DOMAIN experiments[k].observations :
              <<k, experiments[k].observations[i].id>> \in answered
        BY DEF Base, Stored
  <2>2. Bounded(experiments[k], ops') BY <1>1, <2>1, IdsAreNat DEF Bounded
  <2> QED BY <2>1, <2>2
<1>5. Listed' BY DEF Base, Listed
<1>6. Apart'
  <2> SUFFICES ASSUME NEW f \in Handlers, NEW g \in Handlers,
                      pc'[f] # "idle", pc'[g] # "idle", call'[f].id = call'[g].id, f # g
               PROVE  call'[f].id \in disturbed' \cup {0}
      BY DEF Apart
  <2>1. Apart BY DEF Base
  <2>2. CASE f # h /\ g # h BY <2>1, <2>2 DEF Apart
  <2>3. CASE f = h \/ g = h
    <3>1. call'[h].id = 0 \/ (pc[h] # "idle" /\ call'[h].id = call[h].id) BY <2>3
    <3>2. CASE call'[h].id = 0 BY <2>3, <3>2
    <3>3. CASE pc[h] # "idle" /\ call'[h].id = call[h].id
          BY <2>1, <2>3, <3>3 DEF Apart
    <3> QED BY <3>1, <3>2, <3>3
  <2> QED BY <2>2, <2>3
<1>7. ASSUME NEW g \in Handlers, pc'[g] # "idle", g # h PROVE Fits(g)'
  <2>1. pc[g] # "idle" /\ pc'[g] = pc[g] /\ call'[g] = call[g] /\ Fits(g) BY <1>7 DEF Base
  <2> QED BY <1>1, <2>1, FitsStays
<1> QED BY <1>2, <1>3, <1>4, <1>5, <1>6, <1>7 DEF Base

LEMMA EditSafe ==
    ASSUME Base, NEW h \in Handlers, EditCampaign(h)
    PROVE  Base'
<1> DEFINE c == NewCall(0, Absent)
<1>1. /\ pc[h] = "idle" /\ pc' = [pc EXCEPT ![h] = "campaign_save"]
      /\ call' = [call EXCEPT ![h] = c]
      /\ UNCHANGED <<scenario, experiments, index, campaign, answered, disturbed, deaths>>
      /\ ops < scenario.ops /\ ops' = ops + 1
      BY DEF EditCampaign, Goto, Asked
<1>2. c \in Calls /\ c.id = 0 BY ExperimentAssumption, NewCallTyped DEF Base
<1> HIDE DEF c
<1>3. /\ pc'[h] = "campaign_save" /\ call'[h] = c
      /\ \A g \in Handlers \ {h} : pc'[g] = pc[g] /\ call'[g] = call[g]
      /\ pc' \in [Handlers -> HandlerStates] /\ DOMAIN call' = Handlers
      BY <1>1 DEF Base, Types, HandlerStates
<1>4. ops' \in 0..scenario.ops /\ ops <= ops'
  <2>1. ops \in Nat /\ scenario.ops \in Nat
        BY ExperimentAssumption, Counters DEF Base, Types
  <2> QED BY <1>1, <2>1
<1>5. Fits(h)' BY <1>2, <1>3 DEF Fits, Saving, Reading
<1>6. Tracks' BY <1>1, <1>3 DEF Base, Tracks
<1>7. campaign' \in Campaigns /\ deaths' \in 0..scenario.deaths /\ disturbed' \subseteq 0..MaxExperiments
      BY <1>1 DEF Base, Types
<1>8. call'[h].id = 0 BY <1>2, <1>3
<1>9. disturbed \subseteq disturbed' /\ UNCHANGED <<scenario, experiments, index, answered>>
      BY <1>1
<1> QED BY <1>3, <1>4, <1>5, <1>6, <1>7, <1>8, <1>9, OwnStepSafe

\* A handler that ends, where the tracking is not its own.
LEMMA EndSafe ==
    ASSUME Base, NEW h \in Handlers, End(h),
           UNCHANGED <<scenario, experiments, index, answered, ops>>,
           campaign' \in Campaigns, campaign'.ads = campaign.ads \/ 0 \in disturbed',
           disturbed \subseteq disturbed', disturbed' \subseteq 0..MaxExperiments,
           deaths' \in 0..scenario.deaths,
           pc[h] # "map_save" \/ 0 \in disturbed'
    PROVE  Base'
<1>1. /\ pc' = [pc EXCEPT ![h] = "idle"] /\ call' = [call EXCEPT ![h] = NoCall]
      BY DEF End, Goto
<1>2. /\ pc'[h] = "idle"
      /\ \A g \in Handlers \ {h} : pc'[g] = pc[g] /\ call'[g] = call[g]
      /\ pc' \in [Handlers -> HandlerStates] /\ DOMAIN call' = Handlers
      BY <1>1 DEF Base, Types, HandlerStates
<1>3. ops' \in 0..scenario.ops /\ ops <= ops' BY Counters DEF Base, Types
<1>4. Tracks'
  <2> SUFFICES ASSUME 0 \notin disturbed'
               PROVE  /\ \A g \in Handlers : pc'[g] = "map_save" => call'[g].copy.variants.ads = campaign.ads
                      /\ (\A g \in Handlers : pc'[g] # "map_save") =>
                            \A e \in Ids : experiments[e] # Absent =>
                                experiments[e].variants.ads \in {Unmapped, campaign.ads}
      BY DEF Tracks
  <2>1. (\A g \in Handlers : pc'[g] # "map_save") => \A g \in Handlers : pc[g] # "map_save"
        BY <1>2
  <2> QED BY <1>2, <2>1 DEF Base, Tracks
<1> QED BY <1>2, <1>3, <1>4, OwnStepSafe

LEMMA CampaignSafe ==
    ASSUME Base, NEW h \in Handlers, CampaignSave(h)
    PROVE  Base'
<1>1. /\ pc[h] = "campaign_save" /\ End(h)
      /\ UNCHANGED <<scenario, experiments, index, answered, ops, deaths>>
      /\ disturbed' = disturbed \cup (IF campaign.ads # call[h].campaign.ads THEN {0} ELSE {})
      BY DEF CampaignSave
<1>2. PICK editable \in BOOLEAN : campaign' = [call[h].campaign EXCEPT !.editable = editable]
      BY DEF CampaignSave
<1>3. call[h].campaign \in Campaigns BY <1>1 DEF Base, Fits, Calls
<1>4. campaign' \in Campaigns /\ campaign'.ads = call[h].campaign.ads
      BY <1>2, <1>3 DEF Campaigns
<1>5. disturbed \subseteq disturbed' /\ disturbed' \subseteq 0..MaxExperiments
      BY <1>1, ExperimentAssumption DEF Base, Types
<1>6. campaign'.ads = campaign.ads \/ 0 \in disturbed' BY <1>1, <1>4
<1>7. deaths' \in 0..scenario.deaths BY <1>1 DEF Base, Types
<1> QED BY <1>1, <1>4, <1>5, <1>6, <1>7, EndSafe

LEMMA DeathSafe ==
    ASSUME Base, NEW h \in Handlers, HandlerDies(h)
    PROVE  Base'
<1>1. /\ deaths < scenario.deaths /\ deaths' = deaths + 1 /\ End(h)
      /\ disturbed' = disturbed \cup (IF pc[h] = "map_save" THEN {0} ELSE {})
      /\ UNCHANGED <<scenario, experiments, index, campaign, answered, ops>>
      BY DEF HandlerDies
<1>2. deaths' \in 0..scenario.deaths
  <2>1. deaths \in Nat /\ scenario.deaths \in Nat BY ExperimentAssumption DEF Base, Types
  <2> QED BY <1>1, <2>1
<1>3. disturbed \subseteq disturbed' /\ disturbed' \subseteq 0..MaxExperiments
      BY <1>1, ExperimentAssumption DEF Base, Types
<1>4. campaign' \in Campaigns BY <1>1 DEF Base, Types
<1> QED BY <1>1, <1>2, <1>3, <1>4, EndSafe

\* A handler that goes on without a change of the tracking.
LEMMA GoOnSafe ==
    ASSUME Base, NEW h \in Handlers, pc[h] # "idle", NEW p \in HandlerStates,
           p # "map_save", pc[h] # "map_save", Goto(h, p),
           DOMAIN call' = Handlers, \A g \in Handlers \ {h} : call'[g] = call[g],
           call'[h].id = call[h].id,
           UNCHANGED <<scenario, experiments, index, campaign, answered, disturbed, ops, deaths>>,
           Fits(h)'
    PROVE  Base'
<1>1. /\ pc'[h] = p /\ \A g \in Handlers \ {h} : pc'[g] = pc[g]
      /\ pc' \in [Handlers -> HandlerStates]
      BY DEF Base, Types, Goto
<1>2. Tracks' BY <1>1 DEF Base, Tracks
<1>3. ops' \in 0..scenario.ops /\ ops <= ops' BY Counters DEF Base, Types
<1>4. /\ campaign' \in Campaigns /\ deaths' \in 0..scenario.deaths
      /\ disturbed \subseteq disturbed' /\ disturbed' \subseteq 0..MaxExperiments
      BY DEF Base, Types
<1> QED BY <1>1, <1>2, <1>3, <1>4, OwnStepSafe

LEMMA EndQuietlySafe ==
    ASSUME Base, NEW h \in Handlers, pc[h] # "map_save", End(h),
           UNCHANGED <<scenario, experiments, index, campaign, answered, disturbed, ops, deaths>>
    PROVE  Base'
<1>1. /\ campaign' \in Campaigns /\ deaths' \in 0..scenario.deaths
      /\ disturbed \subseteq disturbed' /\ disturbed' \subseteq 0..MaxExperiments
      BY DEF Base, Types
<1> QED BY <1>1, EndSafe

LEMMA SourceSafe ==
    ASSUME Base, NEW h \in Handlers,
           Tracking(h) \/ Contract(h) \/ SourceAnswers(h) \/ Ingest(h)
    PROVE  Base'
<1>0. pc[h] # "idle" => Fits(h) BY DEF Base
<1>1. ASSUME Tracking(h) \/ Contract(h) PROVE Base'
  <2>1. /\ pc[h] \in {"tracking", "contract"}
        /\ UNCHANGED <<scenario, experiments, index, campaign, answered, disturbed, ops, deaths>>
        /\ End(h) \/ \E p \in {"await", "contract"} : Goto(h, p) /\ UNCHANGED call
        BY <1>1 DEF Tracking, Contract
  <2>2. CASE End(h) BY <2>1, <2>2, EndQuietlySafe
  <2>3. ASSUME NEW p \in {"await", "contract"}, Goto(h, p), UNCHANGED call PROVE Base'
    <3>1. pc'[h] = p BY <2>3 DEF Goto, Base, Types
    <3>2. Fits(h) /\ ReadFits(h) /\ pc[h] \in Reading BY <1>0, <2>1 DEF Fits, Reading
    <3>3. ReadFits(h)' BY <2>1, <2>3, <3>1, <3>2 DEF ReadFits
    <3>4. Fits(h)' BY <2>1, <2>3, <3>1, <3>2, <3>3 DEF Fits, Saving, Reading
    <3>5. p \in HandlerStates /\ DOMAIN call' = Handlers
          BY <2>3 DEF HandlerStates, Base, Types
    <3> QED BY <2>1, <2>3, <3>4, <3>5, GoOnSafe
  <2> QED BY <2>1, <2>2, <2>3
<1>2. ASSUME SourceAnswers(h) PROVE Base'
  <2>1. /\ pc[h] = "await"
        /\ UNCHANGED <<scenario, experiments, index, campaign, answered, disturbed, ops, deaths>>
        BY <1>2 DEF SourceAnswers
  <2>2. CASE End(h) BY <2>1, <2>2, EndQuietlySafe
  <2>3. CASE ~ End(h)
    <3>1. PICK ids \in (SUBSET call[h].plan.ids) \ {{}}, state \in {"verified_read_only", "partial"} :
              /\ Goto(h, "ingest")
              /\ call' = [call EXCEPT ![h].observation =
                   [id |-> @.id, ids |-> ids, state |-> state, quality |-> "pending_owner"]]
          BY <1>2, <2>3 DEF SourceAnswers
    <3> DEFINE o == [id |-> call[h].observation.id, ids |-> ids, state |-> state,
                     quality |-> "pending_owner"]
               c == [call[h] EXCEPT !.observation = o]
    <3>2. Fits(h) /\ ReadFits(h) /\ call[h] \in Calls BY <1>0, <2>1 DEF Fits, Reading
    <3>3. o \in Observations /\ o.id = call[h].observation.id
      <4>1. call[h].plan \in Plans /\ call[h].observation.id \in Nat \ {0}
            BY <3>2, Counters DEF ReadFits
      <4>2. ids \subseteq Variants BY <4>1 DEF Plans
      <4> QED BY <4>1, <4>2 DEF Observations
    <3>4. call' = [call EXCEPT ![h] = c] BY <3>1
    <3> HIDE DEF o
    <3>5. /\ c \in Calls /\ c.id = call[h].id /\ c.plan = call[h].plan /\ c.observation = o
          BY <3>2, <3>3 DEF Calls
    <3>6. ~ c.creates
      <4>1. ~ call[h].creates BY <3>2 DEF ReadFits
      <4> QED BY <3>2, <4>1, Zenon DEF Calls
    <3> HIDE DEF c
    <3>7. /\ DOMAIN call' = Handlers /\ call'[h] = c
          /\ \A g \in Handlers \ {h} : call'[g] = call[g]
          /\ pc'[h] = "ingest"
          BY <3>1, <3>4 DEF Base, Types, Goto
    <3>8. ReadFits(h)' BY <2>1, <3>2, <3>3, <3>5, <3>6, <3>7 DEF ReadFits
    <3>9. Fits(h)'
      <4>1. call[h].id # 0 /\ experiments[call[h].id] # Absent
            BY <2>1, <3>2 DEF Fits, ReadFits
      <4> QED BY <2>1, <3>5, <3>7, <3>8, <4>1 DEF Fits, Saving, Reading
    <3> QED BY <2>1, <3>1, <3>5, <3>7, <3>9, GoOnSafe DEF HandlerStates
  <2> QED BY <2>2, <2>3
<1>3. ASSUME Ingest(h) PROVE Base'
  <2> DEFINE m == experiments[call[h].id]
             o == call[h].observation
             k == Observed(m, o)
             c == [call[h] EXCEPT !.copy = k]
  <2>1. /\ pc[h] = "ingest"
        /\ UNCHANGED <<scenario, experiments, index, campaign, answered, disturbed, ops, deaths>>
        BY <1>3 DEF Ingest
  <2>2. CASE End(h) BY <2>1, <2>2, EndQuietlySafe
  <2>3. CASE ~ End(h)
    <3>1. /\ MayObserve(m, o) /\ Goto(h, "save")
          /\ call' = [call EXCEPT ![h] = c]
          BY <1>3, <2>3 DEF Ingest
    <3>2. /\ Fits(h) /\ ReadFits(h) /\ call[h] \in Calls
          /\ call[h].id # 0 /\ m # Absent /\ o \in Observations /\ o.id \in 1..ops
          /\ call[h].id \notin disturbed => \A i \in DOMAIN m.observations : m.observations[i].id < o.id
          BY <1>0, <2>1 DEF Fits, Reading, ReadFits
    <3>3. call[h].id \in Ids BY <3>2, ExperimentAssumption DEF Calls, Ids
    <3>4. Sound(m) /\ Bounded(m, ops) /\ (call[h].id \notin disturbed => Ordered(m))
          BY <3>2, <3>3 DEF Base, Stored
    <3>5. /\ Sound(k) /\ Bounded(k, ops)
          /\ \E i \in DOMAIN k.observations : k.observations[i].id = o.id
          /\ (Ordered(m) /\ \A i \in DOMAIN m.observations : m.observations[i].id < o.id)
                 => Follows(m, k)
          /\ Adds(m, k, o)
      <4>1. ops \in Nat /\ o.id <= ops BY <3>2, Counters
      <4> HIDE DEF m, o
      <4> QED BY <3>1, <3>2, <3>4, <4>1, ObservedSound
    <3> HIDE DEF k
    <3>6. c \in Calls /\ c.id = call[h].id /\ c.copy = k /\ c.observation = o
          BY <3>2, <3>5 DEF Calls, Sound
    <3>7. ~ c.creates
      <4>1. ~ call[h].creates BY <3>2 DEF ReadFits
      <4> QED BY <3>2, <4>1, Zenon DEF Calls
    <3> HIDE DEF c
    <3>8. /\ DOMAIN call' = Handlers /\ call'[h] = c
          /\ \A g \in Handlers \ {h} : call'[g] = call[g]
          /\ pc'[h] = "save"
          BY <3>1 DEF Base, Types, Goto
    <3>9. call[h].id \notin disturbed => Follows(m, k) BY <3>2, <3>4, <3>5
    <3>10. \A i \in DOMAIN m.observations : <<call[h].id, m.observations[i].id>> \in answered
           BY <3>2, <3>3 DEF Base, Stored
    <3>11. Attached(c) BY <3>5, <3>6, <3>10 DEF Adds, Attached
    <3>12. SaveFits(h)' BY <2>1, <3>5, <3>6, <3>7, <3>8, <3>9, <3>11 DEF SaveFits, Attached
    <3>13. Fits(h)' BY <2>1, <3>2, <3>6, <3>8, <3>12 DEF Fits, Saving, Reading
    <3> QED BY <2>1, <3>1, <3>6, <3>8, <3>13, GoOnSafe DEF HandlerStates
  <2> QED BY <2>2, <2>3
<1> QED BY <1>1, <1>2, <1>3

\* The campaign that a mapping read, with the new Meta id.
LEMMA MapReadSafe ==
    ASSUME Base, NEW h \in Handlers, MapReads(h)
    PROVE  Base'
<1>1. /\ pc[h] = "map_read"
      /\ UNCHANGED <<scenario, experiments, index, campaign, answered, disturbed, ops, deaths>>
      BY DEF MapReads
<1>2. CASE ~ campaign.editable
  <2>1. End(h) BY <1>2 DEF MapReads
  <2> QED BY <1>1, <2>1, EndQuietlySafe
<1>3. CASE campaign.editable
  <2> DEFINE ads == call[h].copy.variants.ads
             k == [campaign EXCEPT !.ads = ads]
             c == [call[h] EXCEPT !.campaign = k]
  <2>1. Goto(h, "map_campaign") /\ call' = [call EXCEPT ![h] = c] BY <1>3 DEF MapReads
  <2>2. Fits(h) /\ SaveFits(h) /\ call[h] \in Calls BY <1>1 DEF Base, Fits, Saving
  <2>3. ads \in Ads \cup {Unmapped} BY <2>2 DEF SaveFits, Sound, Experiments, Plans
  <2>4. k \in Campaigns /\ k.ads = ads BY <2>3 DEF Base, Types, Campaigns
  <2> HIDE DEF k
  <2>5. /\ c \in Calls /\ c.id = call[h].id /\ c.copy = call[h].copy
        /\ c.observation = call[h].observation /\ c.campaign = k
        BY <2>2, <2>4 DEF Calls
  <2>6. ~ c.creates
    <3>1. ~ call[h].creates BY <1>1, <2>2 DEF SaveFits
    <3> QED BY <2>2, <3>1, Zenon DEF Calls
  <2> HIDE DEF c
  <2>7. /\ DOMAIN call' = Handlers /\ call'[h] = c
        /\ \A g \in Handlers \ {h} : call'[g] = call[g]
        /\ pc'[h] = "map_campaign"
        BY <2>1 DEF Base, Types, Goto
  <2>8. ~ call[h].creates BY <1>1, <2>2 DEF SaveFits
  <2>9. SaveFits(h)'
        BY <1>1, <2>2, <2>4, <2>5, <2>6, <2>7, <2>8 DEF SaveFits, Attached
  <2>10. Fits(h)' BY <1>1, <2>2, <2>5, <2>7, <2>8, <2>9 DEF Fits, Saving, Reading
  <2> QED BY <1>1, <2>1, <2>5, <2>7, <2>10, GoOnSafe DEF HandlerStates
<1> QED BY <1>2, <1>3

\* It is saved with the Meta id that the mapping is about to store.
LEMMA MapSafe ==
    ASSUME Base, NEW h \in Handlers, MapCampaign(h)
    PROVE  Base'
<1>1. /\ pc[h] = "map_campaign" /\ campaign' = call[h].campaign
      /\ Goto(h, "map_save") /\ UNCHANGED call
      /\ disturbed' = disturbed \cup (IF Others(h, {"map_save"}) # {} THEN {0} ELSE {})
      /\ UNCHANGED <<scenario, experiments, index, answered, ops, deaths>>
      BY DEF MapCampaign
<1>2. disturbed \subseteq disturbed' /\ disturbed' \subseteq 0..MaxExperiments
      BY <1>1, ExperimentAssumption DEF Base, Types
<1>3. deaths' \in 0..scenario.deaths /\ ops' \in 0..scenario.ops /\ ops <= ops'
      BY <1>1, Counters DEF Base, Types
<1>4. Fits(h) /\ SaveFits(h) /\ call[h] \in Calls BY <1>1 DEF Base, Fits, Saving
<1>5. campaign' \in Campaigns /\ campaign'.ads = call[h].copy.variants.ads
      BY <1>1, <1>4 DEF SaveFits, Calls
<1>6. /\ pc'[h] = "map_save" /\ \A g \in Handlers \ {h} : pc'[g] = pc[g]
      /\ pc' \in [Handlers -> HandlerStates] /\ DOMAIN call' = Handlers
      BY <1>1 DEF Base, Types, Goto, HandlerStates
<1>7. ~ call[h].creates BY <1>1, <1>4 DEF SaveFits
<1>8. SaveFits(h)' BY <1>1, <1>2, <1>4, <1>6, <1>7 DEF SaveFits, Attached
<1>9. Fits(h)' BY <1>1, <1>4, <1>6, <1>7, <1>8 DEF Fits, Saving, Reading
<1>10. Tracks'
  <2>1. ASSUME 0 \notin disturbed', NEW g \in Handlers, pc'[g] = "map_save" PROVE g = h
        BY <1>1, <1>6, <2>1 DEF Others
  <2> QED BY <1>1, <1>5, <1>6, <2>1 DEF Tracks
<1> QED BY <1>1, <1>2, <1>3, <1>5, <1>6, <1>9, <1>10, OwnStepSafe

\* What a handler stores, whether it mapped the campaign before or not.
StoresOwn(h) ==
    /\ pc[h] \in {"save", "map_save"} /\ Store(h) /\ End(h)
    /\ UNCHANGED <<scenario, campaign, ops, deaths>>
    /\ disturbed \subseteq disturbed' /\ disturbed' \subseteq disturbed \cup {0}
    /\ answered' = answered \cup
          (IF call[h].observation = None THEN {} ELSE {<<call[h].id, call[h].observation.id>>})

LEMMA StoreSafe ==
    ASSUME Base, NEW h \in Handlers, StoresOwn(h), Tracks'
    PROVE  Base'
<1> DEFINE c == call[h]
           e == c.id
<1>1. /\ pc[h] \in {"save", "map_save"} /\ pc' = [pc EXCEPT ![h] = "idle"]
      /\ call' = [call EXCEPT ![h] = NoCall]
      /\ experiments' = [experiments EXCEPT ![e] = c.copy] /\ index' = Newest(e)
      /\ UNCHANGED <<scenario, campaign, ops, deaths>>
      /\ disturbed \subseteq disturbed' /\ disturbed' \subseteq disturbed \cup {0}
      /\ answered \subseteq answered'
      /\ answered' = answered \cup
            (IF c.observation = None THEN {} ELSE {<<e, c.observation.id>>})
      BY DEF StoresOwn, Store, End, Goto
<1>2. Fits(h) /\ SaveFits(h) /\ c \in Calls BY <1>1 DEF Base, Fits, Saving
<1>3. e \in Ids /\ e # 0
  <2>1. e # 0 /\ e \in 0..MaxExperiments BY <1>1, <1>2 DEF Fits, Calls
  <2> QED BY <2>1, ExperimentAssumption DEF Ids
<1>4. /\ Sound(c.copy) /\ Bounded(c.copy, ops) /\ c.copy # Absent
      /\ c.observation # None =>
            \E i \in DOMAIN c.copy.observations : c.copy.observations[i].id = c.observation.id
  <2>1. Sound(c.copy) BY <1>2 DEF SaveFits
  <2>2. c.copy # Absent BY <2>1 DEF Sound, Experiments, Absent, ExperimentStatus
  <2> QED BY <1>2, <2>2 DEF SaveFits
<1>5. /\ experiments'[e] = c.copy
      /\ \A k \in Ids \ {e} : experiments'[k] = experiments[k]
      /\ experiments' \in [Ids -> Experiments \cup {Absent}]
      BY <1>1, <1>3, <1>4 DEF Base, Types, Sound
<1>6. /\ index' \in Seq(Ids) /\ IsInjective(index') /\ ToSet(index') = ToSet(index) \cup {e}
      /\ Len(index) \in Nat /\ Len(index') \in Nat /\ Len(index) <= Len(index')
      BY <1>1, <1>3, NewestIndex DEF Base, Indexed
<1>7. /\ pc'[h] = "idle" /\ pc' \in [Handlers -> HandlerStates] /\ DOMAIN call' = Handlers
      /\ \A g \in Handlers \ {h} : pc'[g] = pc[g] /\ call'[g] = call[g]
      BY <1>1 DEF Base, Types, HandlerStates
<1>8. Types'
  <2>1. disturbed' \subseteq 0..MaxExperiments BY <1>1, ExperimentAssumption DEF Base, Types
  <2>2. answered' \subseteq Ids \X Nat
    <3>1. c.observation.id \in Nat BY <1>2 DEF Calls, Observations
    <3> QED BY <1>1, <1>3, <3>1 DEF Base, Types
  <2> QED BY <1>1, <1>5, <1>7, <2>1, <2>2 DEF Base, Types
<1>9. Indexed' BY <1>4, <1>5, <1>6 DEF Base, Indexed
<1>10. e \notin disturbed => \/ ~ c.creates /\ Follows(experiments[e], c.copy)
                             \/ /\ c.creates /\ c.copy.observations = <<>>
                                /\ experiments[e] = Absent \/ Len(index) > ListLimit
       BY <1>2 DEF SaveFits
<1>11. Stored'
  <2> SUFFICES ASSUME NEW k \in Ids, experiments'[k] # Absent
               PROVE  /\ Sound(experiments'[k]) /\ Bounded(experiments'[k], ops)
                      /\ k \notin disturbed' => Ordered(experiments'[k])
                      /\ \A i \in DOMAIN experiments'[k].observations :
                            <<k, experiments'[k].observations[i].id>> \in answered'
      BY <1>1 DEF Stored
  <2>1. CASE k # e BY <1>1, <1>5, <2>1 DEF Base, Stored
  <2>2. CASE k = e
    <3>1. e \notin disturbed' => Ordered(c.copy) BY <1>1, <1>10 DEF Follows, Ordered
    <3>2. \A i \in DOMAIN c.copy.observations :
              <<e, c.copy.observations[i].id>> \in answered'
          BY <1>1, <1>2 DEF SaveFits, Attached
    <3> QED BY <1>4, <1>5, <2>2, <3>1, <3>2
  <2> QED BY <2>1, <2>2
<1>12. Listed'
  <2> SUFFICES ASSUME NEW x \in answered'
               PROVE  /\ experiments'[x[1]] # Absent
                      /\ \/ Holds(experiments'[x[1]], x[2]) \/ x[1] \in disturbed'
                         \/ Len(index') > ListLimit
      BY DEF Listed
  <2>0. ListLimit \in Nat BY ExperimentAssumption
  <2>1. CASE x \in answered
    <3>1. /\ experiments[x[1]] # Absent /\ x[1] \in Ids /\ x[2] \in Nat
          /\ Holds(experiments[x[1]], x[2]) \/ x[1] \in disturbed \/ Len(index) > ListLimit
          BY <2>1 DEF Base, Listed, Types
    <3>2. CASE x[1] # e BY <1>1, <1>5, <1>6, <2>0, <3>1, <3>2
    <3>3. CASE x[1] = e
      <4>1. experiments'[x[1]] # Absent BY <1>4, <1>5, <3>3
      <4>2. CASE e \in disturbed \/ Len(index) > ListLimit BY <1>1, <1>6, <2>0, <3>3, <4>1, <4>2
      <4>3. CASE e \notin disturbed /\ ~ (Len(index) > ListLimit)
        <5>1. Follows(experiments[e], c.copy) BY <1>10, <3>1, <3>3, <4>3
        <5>2. Holds(c.copy, x[2]) BY <3>1, <3>3, <4>3, <5>1 DEF Follows
        <5> QED BY <1>5, <3>3, <4>1, <5>2
      <4> QED BY <4>2, <4>3
    <3> QED BY <3>2, <3>3
  <2>2. CASE x \notin answered
    <3>1. c.observation # None /\ x = <<e, c.observation.id>> BY <1>1, <2>2
    <3>2. Holds(c.copy, x[2]) BY <1>4, <3>1 DEF Holds
    <3> QED BY <1>4, <1>5, <3>1, <3>2
  <2> QED BY <2>1, <2>2
<1>13. Apart' BY <1>1, <1>7 DEF Base, Apart
<1>14. ASSUME NEW g \in Handlers, pc'[g] # "idle" PROVE Fits(g)'
  <2>1. /\ g # h /\ pc[g] # "idle" /\ pc'[g] = pc[g] /\ call'[g] = call[g] /\ Fits(g)
        BY <1>7, <1>14 DEF Base
  <2>2. call[g].id # 0 =>
           \/ experiments'[call[g].id] = experiments[call[g].id]
           \/ call[g].id \in disturbed' /\ experiments'[call[g].id] # Absent
    <3> SUFFICES ASSUME call[g].id # 0
                 PROVE  \/ experiments'[call[g].id] = experiments[call[g].id]
                        \/ call[g].id \in disturbed' /\ experiments'[call[g].id] # Absent
        OBVIOUS
    <3>1. CASE call[g].id = e
      <4>1. pc[h] # "idle" BY <1>1
      <4>2. e \in disturbed BY <1>3, <2>1, <3>1, <4>1 DEF Base, Apart
      <4> QED BY <1>1, <1>4, <1>5, <3>1, <4>2
    <3>2. CASE call[g].id # e
      <4>1. call[g].id \in Ids BY <2>1, ExperimentAssumption DEF Fits, Calls, Ids
      <4> QED BY <1>5, <3>2, <4>1
    <3> QED BY <3>1, <3>2
  <2>3. ops \in Nat /\ ops' \in Nat /\ ops <= ops' BY <1>1, Counters
  <2> QED BY <1>1, <1>6, <2>1, <2>2, <2>3, FitsStays
<1> QED BY <1>8, <1>9, <1>11, <1>12, <1>13, <1>14 DEF Base

LEMMA SaveStores ==
    ASSUME Base, NEW h \in Handlers, Save(h)
    PROVE  StoresOwn(h) /\ Tracks'
<1> DEFINE c == call[h]
           e == c.id
           old == IF c.creates THEN Unmapped ELSE experiments[e].variants.ads
<1>1. /\ pc[h] = "save" /\ Store(h) /\ End(h) /\ UNCHANGED <<scenario, campaign, ops, deaths>>
      /\ answered' = IF c.observation = None THEN answered
                     ELSE answered \cup {<<e, c.observation.id>>}
      /\ disturbed' = disturbed \cup (IF c.copy.variants.ads = old THEN {} ELSE {0})
      BY DEF Save
<1>2. StoresOwn(h)
  <2>1. answered' = answered \cup
            (IF c.observation = None THEN {} ELSE {<<e, c.observation.id>>})
        BY <1>1
  <2>2. disturbed \subseteq disturbed' /\ disturbed' \subseteq disturbed \cup {0} BY <1>1
  <2> QED BY <1>1, <2>1, <2>2 DEF StoresOwn
<1>3. /\ \A g \in Handlers \ {h} : pc'[g] = pc[g] /\ call'[g] = call[g]
      /\ pc'[h] = "idle"
      /\ experiments' = [experiments EXCEPT ![e] = c.copy]
      BY <1>1 DEF Base, Types, Store, End, Goto
<1>4. /\ experiments \in [Ids -> Experiments \cup {Absent}]
      /\ e \in Ids /\ (c.creates \/ experiments[e] # Absent)
  <2>1. Fits(h) /\ e # 0 /\ c \in Calls BY <1>1 DEF Base, Fits
  <2>2. e \in Ids BY <2>1, ExperimentAssumption DEF Calls, Ids
  <2> QED BY <2>1, <2>2 DEF Fits, Base, Types
<1>5. ASSUME 0 \notin disturbed' PROVE c.copy.variants.ads = old BY <1>1, <1>5
<1>6. Tracks'
  <2> SUFFICES ASSUME 0 \notin disturbed'
               PROVE  /\ \A g \in Handlers : pc'[g] = "map_save" => call'[g].copy.variants.ads = campaign.ads
                      /\ (\A g \in Handlers : pc'[g] # "map_save") =>
                            \A k \in Ids : experiments'[k] # Absent =>
                                experiments'[k].variants.ads \in {Unmapped, campaign.ads}
      BY <1>1 DEF Tracks
  <2>1. 0 \notin disturbed /\ c.copy.variants.ads = old BY <1>1, <1>5
  <2>2. \A g \in Handlers : pc'[g] = "map_save" => call'[g].copy.variants.ads = campaign.ads
        BY <1>3, <2>1 DEF Base, Tracks
  <2>3. ASSUME \A g \in Handlers : pc'[g] # "map_save", NEW k \in Ids, experiments'[k] # Absent
        PROVE  experiments'[k].variants.ads \in {Unmapped, campaign.ads}
    <3>1. \A k1 \in Ids : experiments[k1] # Absent =>
              experiments[k1].variants.ads \in {Unmapped, campaign.ads}
          BY <1>1, <1>3, <2>1, <2>3 DEF Base, Tracks
    <3>2. CASE k # e BY <1>3, <1>4, <2>3, <3>1, <3>2
    <3>3. CASE k = e BY <1>3, <1>4, <2>1, <3>1, <3>3
    <3> QED BY <3>2, <3>3
  <2> QED BY <2>2, <2>3
<1> QED BY <1>2, <1>6

LEMMA MapSaveStores ==
    ASSUME Base, NEW h \in Handlers, MapSave(h)
    PROVE  StoresOwn(h) /\ Tracks'
<1> DEFINE c == call[h]
           e == c.id
<1>1. /\ pc[h] = "map_save" /\ Store(h) /\ End(h)
      /\ UNCHANGED <<scenario, campaign, answered, ops, deaths>>
      /\ disturbed' = disturbed \cup
            (IF \E f \in Ids \ {e} : experiments[f] # Absent THEN {0} ELSE {})
      BY DEF MapSave
<1>2. StoresOwn(h)
  <2>1. disturbed \subseteq disturbed' /\ disturbed' \subseteq disturbed \cup {0} BY <1>1
  <2>2. c.observation = None BY <1>1 DEF Base, Fits, Saving, SaveFits
  <2> QED BY <1>1, <2>1, <2>2 DEF StoresOwn
<1>3. /\ \A g \in Handlers \ {h} : pc'[g] = pc[g] /\ call'[g] = call[g]
      /\ pc'[h] = "idle"
      /\ experiments' = [experiments EXCEPT ![e] = c.copy]
      /\ experiments \in [Ids -> Experiments \cup {Absent}]
      BY <1>1 DEF Base, Types, Store, End, Goto
<1>4. Tracks'
  <2> SUFFICES ASSUME 0 \notin disturbed'
               PROVE  /\ \A g \in Handlers : pc'[g] = "map_save" => call'[g].copy.variants.ads = campaign.ads
                      /\ \A k \in Ids : experiments'[k] # Absent =>
                                experiments'[k].variants.ads \in {Unmapped, campaign.ads}
      BY <1>1 DEF Tracks
  <2>1. 0 \notin disturbed /\ \A f \in Ids \ {e} : experiments[f] = Absent BY <1>1
  <2>2. \A g \in Handlers : pc[g] = "map_save" => call[g].copy.variants.ads = campaign.ads
        BY <2>1 DEF Base, Tracks
  <2>3. \A g \in Handlers : pc'[g] = "map_save" => call'[g].copy.variants.ads = campaign.ads
        BY <1>3, <2>2
  <2>4. c.copy.variants.ads = campaign.ads BY <1>1, <2>2
  <2>5. \A k \in Ids : experiments'[k] # Absent => experiments'[k] = c.copy
        BY <1>3, <2>1
  <2> QED BY <2>3, <2>4, <2>5
<1> QED BY <1>2, <1>4

\* Only who saves a copy changes an experiment.
LEMMA WhoStores ==
    ASSUME Base, [Next]_vars
    PROVE  UNCHANGED experiments \/ \E h \in Handlers : StoresOwn(h)
<1>1. ASSUME NEW h \in Handlers, Request(h) PROVE UNCHANGED experiments
  <2>1. CASE EditCampaign(h) BY <2>1 DEF EditCampaign
  <2>2. CASE Begins(h) BY <2>2 DEF Begins, Work
  <2> QED BY <1>1, <2>1, <2>2, RequestBegins
<1>2. ASSUME NEW h \in Handlers, Step(h) PROVE UNCHANGED experiments \/ StoresOwn(h)
  <2>1. CASE Save(h) BY <2>1, SaveStores
  <2>2. CASE MapSave(h) BY <2>2, MapSaveStores
  <2>3. CASE MapReads(h) \/ MapCampaign(h) \/ CampaignSave(h)
        BY <2>3 DEF MapReads, MapCampaign, CampaignSave
  <2>4. CASE Tracking(h) \/ Contract(h) BY <2>4 DEF Tracking, Contract
  <2>5. CASE SourceAnswers(h) \/ Ingest(h) BY <2>5 DEF SourceAnswers, Ingest
  <2>6. CASE HandlerDies(h) BY <2>6 DEF HandlerDies
  <2> QED BY <1>2, <2>1, <2>2, <2>3, <2>4, <2>5, <2>6 DEF Step
<1>3. CASE UNCHANGED vars BY <1>3 DEF vars
<1> QED BY <1>1, <1>2, <1>3 DEF Next

LEMMA StillSafe ==
    ASSUME Base, UNCHANGED vars
    PROVE  Base'
<1>1. Types' /\ Indexed' /\ Stored' /\ Listed' BY DEF vars, Base, Types, Indexed, Stored, Listed
<1>2. Apart' /\ Tracks' BY DEF vars, Base, Apart, Tracks
<1>3. ASSUME NEW g \in Handlers, pc'[g] # "idle" PROVE Fits(g)'
  <2>1. pc[g] # "idle" /\ Fits(g) BY <1>3 DEF vars, Base
  <2>2. Len(index) \in Nat /\ Len(index') \in Nat /\ ops \in Nat /\ ops' \in Nat
        BY Counters DEF vars
  <2> QED BY <2>1, <2>2, FitsStays DEF vars
<1> QED BY <1>1, <1>2, <1>3 DEF Base

LEMMA BaseStep == Base /\ [Next]_vars => Base'
<1> SUFFICES ASSUME Base, [Next]_vars PROVE Base' OBVIOUS
<1>1. ASSUME NEW h \in Handlers, Request(h) PROVE Base'
      BY <1>1, RequestBegins, EditSafe, BeginSafe
<1>2. ASSUME NEW h \in Handlers, Step(h) PROVE Base'
  <2>1. CASE Save(h) BY <2>1, SaveStores, StoreSafe
  <2>2. CASE MapSave(h) BY <2>2, MapSaveStores, StoreSafe
  <2>3. CASE MapReads(h) \/ MapCampaign(h) BY <2>3, MapReadSafe, MapSafe
  <2>4. CASE CampaignSave(h) BY <2>4, CampaignSafe
  <2>5. CASE Tracking(h) \/ Contract(h) \/ SourceAnswers(h) \/ Ingest(h) BY <2>5, SourceSafe
  <2>6. CASE HandlerDies(h) BY <2>6, DeathSafe
  <2> QED BY <1>2, <2>1, <2>2, <2>3, <2>4, <2>5, <2>6 DEF Step
<1>3. CASE UNCHANGED vars BY <1>3, StillSafe
<1> QED BY <1>1, <1>2, <1>3 DEF Next

\* What is stored, what a request holds of it and what it may rely on agree, in every
\* reachable state.
THEOREM BaseHolds == Spec => []Base
BY BaseInit, BaseStep, PTL DEF Spec

-----------------------------------------------------------------------------
(* Theorems.                                                               *)

\* What was concluded rests on an observation that is still listed and accepted, and
\* a winner on verified evidence, however requests overlap.
THEOREM ConclusionsRest == Spec => []EvaluationRestsOnAccepted
<1>1. Base => EvaluationRestsOnAccepted
  <2> SUFFICES ASSUME Base, NEW e \in Ids, experiments[e] # Absent,
                      experiments[e].evaluation # None
               PROVE  \E o \in ToSet(experiments[e].observations) :
                          /\ o.id = experiments[e].evaluation.id /\ o.quality = "accepted"
                          /\ experiments[e].evaluation.recommendation = "winner_candidate" =>
                                o.state = "verified_read_only"
      BY DEF EvaluationRestsOnAccepted
  <2>1. PICK i \in DOMAIN experiments[e].observations :
            Carries(experiments[e].observations[i], experiments[e].evaluation)
        BY DEF Base, Stored, Sound
  <2> QED BY <2>1 DEF Carries, ToSet
<1> QED BY <1>1, BaseHolds, PTL

LEMMA BaseTyped == Base => TypeOK
<1> SUFFICES ASSUME Base PROVE TypeOK OBVIOUS
<1>1. ASSUME NEW e \in Ids, experiments[e] # Absent PROVE IsExperiment(experiments[e])
  <2> DEFINE m == experiments[e]
  <2>1. Sound(m) BY <1>1 DEF Base, Stored
  <2>2. m.observations \in Seq(Observations) BY <2>1 DEF Sound, Experiments
  <2>3. ToSet(m.observations) \subseteq Observations
        BY <2>2, LenProperties, ElementOfSeq DEF ToSet
  <2> QED BY <2>1, <2>3 DEF Sound, Experiments, IsExperiment
<1>2. ToSet(index) \subseteq Ids /\ IsInjective(index)
      BY LenProperties, ElementOfSeq DEF Base, Indexed, ToSet
<1>3. \A h \in Handlers : pc[h] # "idle" => call[h] # NoCall
  <2> SUFFICES ASSUME NEW h \in Handlers, pc[h] # "idle" PROVE call[h] # NoCall OBVIOUS
  <2>1. DOMAIN call[h] = {"id", "copy", "campaign", "plan", "observation", "creates"}
        BY DEF Base, Fits, Calls
  <2>2. DOMAIN NoCall = {"id"} BY DEF NoCall
  <2> QED BY <2>1, <2>2
<1> QED BY <1>1, <1>2, <1>3 DEF Base, Types, TypeOK, Campaigns

\* Every variable keeps its type, for any handlers, experiments and plans.
THEOREM TypeCorrect == Spec => []TypeOK
BY BaseTyped, BaseHolds, PTL

\* Previews show their plans, the tracking agrees, no plan takes another's id and no
\* stored observation is lost, as far as requests do not overlap.
THEOREM ConsistentHolds == Spec => []Consistent
<1>1. Base => Consistent
  <2> SUFFICES ASSUME Base PROVE Consistent OBVIOUS
  <2>1. PreviewShowsPlan BY DEF Base, Stored, Sound, PreviewShowsPlan
  <2>2. TrackingAgrees BY DEF Base, Tracks, TrackingAgrees
  <2>3. CreatesAreFresh
    <3> SUFFICES ASSUME NEW h \in Handlers, pc[h] = "save", call[h].creates
                 PROVE  \/ experiments[call[h].id] = Absent
                        \/ call[h].id \in disturbed
                        \/ Len(index) > ListLimit
        BY DEF CreatesAreFresh
    <3>1. SaveFits(h) BY DEF Base, Fits, Saving
    <3> QED BY <3>1 DEF SaveFits
  <2>4. ObservationsAreKept
    <3> SUFFICES ASSUME NEW x \in answered,
                        x[1] \notin disturbed, ~ (Len(index) > ListLimit)
                 PROVE  LET m == experiments[x[1]]
                        IN \/ \E i \in DOMAIN m.observations : m.observations[i].id = x[2]
                           \/ Len(m.observations) = Kept /\ \A i \in 1..Kept : m.observations[i].id > x[2]
        BY DEF ObservationsAreKept
    <3>1. /\ Holds(experiments[x[1]], x[2])
          /\ experiments[x[1]] # Absent /\ x[1] \in Ids
          BY DEF Base, Listed, Types
    <3>2. experiments[x[1]].observations \in Seq(Observations)
          BY <3>1 DEF Base, Stored, Sound, Experiments
    <3>3. DOMAIN experiments[x[1]].observations = 1..Len(experiments[x[1]].observations)
          BY <3>2, LenProperties
    <3> QED BY <3>1, <3>3 DEF Holds
  <2> QED BY <2>1, <2>2, <2>3, <2>4, BaseTyped DEF Consistent
<1> QED BY <1>1, BaseHolds, PTL

\* What a step that stores an experiment makes of it.
LEMMA StoredFollows ==
    ASSUME Base, NEW h \in Handlers, StoresOwn(h), NEW e \in Ids,
           experiments'[e] # experiments[e], e \notin disturbed, Len(index) <= ListLimit
    PROVE  \/ experiments[e] # Absent /\ Follows(experiments[e], experiments'[e])
           \/ experiments[e] = Absent /\ experiments'[e].status = "planned"
<1> DEFINE c == call[h]
<1>1. experiments' = [experiments EXCEPT ![c.id] = c.copy] /\ pc[h] \in {"save", "map_save"}
      BY DEF StoresOwn, Store
<1>2. e = c.id /\ experiments'[e] = c.copy BY <1>1 DEF Base, Types
<1>3. Fits(h) /\ SaveFits(h) BY <1>1 DEF Base, Fits, Saving
<1>4. CASE c.creates
  <2>1. ~ (Len(index) > ListLimit) BY Counters, ExperimentAssumption
  <2> QED BY <1>2, <1>3, <1>4, <2>1 DEF SaveFits
<1>5. CASE ~ c.creates
  <2>1. experiments[e] # Absent BY <1>2, <1>3, <1>5, ExperimentAssumption DEF Fits, Ids
  <2> QED BY <1>2, <1>3, <1>5, <2>1 DEF SaveFits
<1> QED BY <1>4, <1>5

\* Nobody gets around the owner where requests do not overlap.
THEOREM OwnerDecides == Spec => DecidedByOwner
<1>1. Base /\ [Next]_vars =>
        [\A e \in Ids :
          LET old == experiments[e].status  new == experiments'[e].status
          IN old # new /\ e \notin disturbed /\ Len(index) <= ListLimit =>
                /\ new \in {"approved", "rejected"} => old = "awaiting_approval"
                /\ old # "rejected"]_vars
  <2> SUFFICES ASSUME Base, [Next]_vars, NEW e \in Ids,
                      experiments[e].status # experiments'[e].status,
                      e \notin disturbed, Len(index) <= ListLimit
               PROVE  /\ experiments'[e].status \in {"approved", "rejected"} =>
                            experiments[e].status = "awaiting_approval"
                      /\ experiments[e].status # "rejected"
      OBVIOUS
  <2>1. PICK h \in Handlers : StoresOwn(h) BY WhoStores
  <2>2. \/ experiments[e] # Absent /\ Follows(experiments[e], experiments'[e])
        \/ experiments[e] = Absent /\ experiments'[e].status = "planned"
        BY <2>1, StoredFollows
  <2> QED BY <2>2 DEF Follows, Absent
<1> QED BY <1>1, BaseHolds, PTL DEF Spec, DecidedByOwner

\* Evidence called verified covers the plan it is first stored with, for any handlers,
\* plans and observations and however requests overlap: what a copy holds was stored
\* before, or was checked against the plan in the same copy.
THEOREM VerifiedCovers == Spec => VerifiedCoversPlan
<1>1. Base /\ [Next]_vars =>
        [\A e \in Ids :
          experiments'[e] # experiments[e] =>
              \A i \in DOMAIN experiments'[e].observations :
                  LET o == experiments'[e].observations[i]
                  IN <<e, o.id>> \notin answered /\ o.state = "verified_read_only" =>
                         o.ids = experiments'[e].variants.ids]_vars
  <2> SUFFICES ASSUME Base, [Next]_vars, NEW e \in Ids,
                      experiments'[e] # experiments[e],
                      NEW i \in DOMAIN experiments'[e].observations,
                      <<e, experiments'[e].observations[i].id>> \notin answered,
                      experiments'[e].observations[i].state = "verified_read_only"
               PROVE  experiments'[e].observations[i].ids = experiments'[e].variants.ids
      OBVIOUS
  <2>1. PICK h \in Handlers : StoresOwn(h) BY WhoStores
  <2> DEFINE c == call[h]
  <2>2. experiments' = [experiments EXCEPT ![c.id] = c.copy] /\ pc[h] \in {"save", "map_save"}
        BY <2>1 DEF StoresOwn, Store
  <2>3. e = c.id /\ experiments'[e] = c.copy BY <2>2 DEF Base, Types
  <2>4. Attached(c) BY <2>2 DEF Base, Fits, Saving, SaveFits
  <2> QED BY <2>3, <2>4 DEF Attached, Covering
<1> QED BY <1>1, BaseHolds, PTL DEF Spec, VerifiedCoversPlan
=============================================================================
