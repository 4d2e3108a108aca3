--------------------------- MODULE ReadModelProofs ---------------------------
(***************************************************************************)
(* Theorems about what the hub reads from the touchpoint ledger.  Of       *)
(* AttributionReconciliation, for any threads, requests and touches: its   *)
(* types, that a snapshot can be computed again from the ledger it names,  *)
(* that no acceptance covers revenue that is not closed, and that a report *)
(* adds up to all that was accepted.  Of SalesReviews, for any requests,   *)
(* touches, activities and claims: its types, the index and the retention  *)
(* of the reviews, what the journeys and the scores say, and that an       *)
(* escalation is true.                                                     *)
(***************************************************************************)
EXTENDS AttributionReconciliation, SalesReviews, FiniteSetTheorems,
        SequenceTheorems, WellFoundedInduction, TLAPS

-----------------------------------------------------------------------------
(* AttributionReconciliation: the inductive invariant.                     *)

\* What a handler holds fits where it is.
CallFits(h) ==
    LET c == call[h] IN
    /\ pc[h] = "idle" => c = NoCall
    /\ pc[h] = "decide" => c.kind = "decide" /\ c \in Calls
    /\ pc[h] \notin {"idle", "decide"} => c.kind = "reconcile" /\ c \in Calls
    /\ pc[h] \in {"list", "list_lead"} => Len(c.matches) < Len(c.observations)
    /\ pc[h] \in {"fingerprint", "save"} => Len(c.matches) = Len(c.observations)

\* A match names the campaigns and the issues that its touches give the observation.
Fitting(o, m) == m.campaigns = Hinted(o, m.touches) /\ m.issues = IssuesOf(o, m.touches)

\* The matches are those of ledgers from the first reading on, and up to l.
MatchesOf(c, l) ==
    \A i \in DOMAIN c.matches :
        /\ Fitting(c.observations[i], c.matches[i])
        /\ Explained(c.observations[i], c.matches[i], c.seen, l)

\* How far a reconciliation has come.
InProgress(h) ==
    LET c == call[h] IN
    /\ c.seen \subseteq ledger
    /\ pc[h] \in {"list", "list_lead", "fingerprint"} => MatchesOf(c, ledger)
    /\ pc[h] = "list_lead" =>
          /\ Current(h).lead # None
          /\ \E l \in Between(c.seen, ledger) : OfOpportunity(l, Current(h)) = {}
    /\ pc[h] = "save" =>
          /\ c.seen \subseteq c.read /\ MatchesOf(c, c.read)
          /\ c.fingerprint = Listing(c.read, LedgerLimit)

\* What is true of a stored reconciliation and of every copy of it.
Sound(r) ==
    /\ Len(r.matches) = Len(r.observations)
    /\ r.eligible = Eligible(r.observations, r.matches)
    /\ QualityAccepted(r) => r.eligible
    /\ r.seen \subseteq r.read /\ r.fingerprint = Listing(r.read, LedgerLimit)
    /\ \A i \in DOMAIN r.matches :
          /\ Fitting(r.observations[i], r.matches[i])
          /\ Explained(r.observations[i], r.matches[i], r.seen, r.read)

\* A decision is about a stored reconciliation, and the gate was asked.
Deciding(h) ==
    LET c == call[h] IN
    /\ c.id \in DOMAIN records
    /\ Sound(c.copy) /\ (c.accepted => c.copy.eligible)

Reconcilers == {h \in Handlers : call[h].kind = "reconcile"}

\* Every reconciliation begun is counted against the bound.
Bounded == Len(records) + Cardinality(Reconcilers) <= MaxRecords

SnapshotInv ==
    /\ ReconciliationTypeOK
    /\ \A h \in Handlers : CallFits(h)
    /\ \A h \in Handlers : pc[h] \notin {"idle", "decide"} => InProgress(h)
    /\ \A h \in Handlers : pc[h] = "decide" => Deciding(h)
    /\ \A k \in DOMAIN records : Sound(records[k])
    /\ Bounded

-----------------------------------------------------------------------------
(* AttributionReconciliation: lemmas about matching.                       *)

LEMMA StatusTyped == \A stage : StatusOf(stage) \in Statuses
BY Zenon DEF StatusOf, Statuses

\* What EspoCRM answers is projected to observations.
LEMMA ProjectionTyped ==
    ASSUME NEW rs \in EspoRecords
    PROVE  [i \in DOMAIN rs |-> Observation(rs[i])] \in Seq(Observations)
<1>1. rs \in Seq(EspoRows)
    BY RequestAssumption
<1>2. \A r \in EspoRows : Observation(r) \in Observations
  <2> TAKE r \in EspoRows
  <2>1. /\ r.id \in Opportunities /\ r.hint \in Hints
        /\ r.amount \in Amounts /\ r.dated \in BOOLEAN
      BY DEF EspoRows
  <2>2. StatusOf(r.stage) \in Statuses
      BY StatusTyped
  <2>3. (StatusOf(r.stage) = "won" /\ r.dated) \in BOOLEAN
      OBVIOUS
  <2>4. QED  BY <2>1, <2>2, <2>3 DEF Observation, Observations
<1>3. DOMAIN rs = 1..Len(rs) /\ Len(rs) \in Nat /\ \A i \in DOMAIN rs : rs[i] \in EspoRows
    BY <1>1
<1>4. QED  BY <1>2, <1>3

LEMMA HintedTyped ==
    ASSUME NEW o \in Observations, NEW touches \in SUBSET Touchpoints
    PROVE  Hinted(o, touches) \in SUBSET Campaigns
BY TouchAssumption DEF Hinted, TouchedBy

LEMMA MatchTyped ==
    ASSUME NEW o \in Observations, NEW touches \in SUBSET Touchpoints, NEW by \in Methods
    PROVE  /\ Match(o, touches, by) \in Matches
           /\ Match(o, touches, by).touches = touches
           /\ Fitting(o, Match(o, touches, by))
<1>1. Hinted(o, touches) \in SUBSET Campaigns
    BY HintedTyped
<1>2. IssuesOf(o, touches) \in SUBSET Issues
    BY DEF IssuesOf
<1>3. QED  BY <1>1, <1>2 DEF Match, Matches, Methods, Fitting

LEMMA ListingIsPart == \A l, n : Listing(l, n) \subseteq l
BY DEF Listing

LEMMA BetweenIs ==
    ASSUME NEW first, NEW last, first \subseteq last
    PROVE  \A l : l \in Between(first, last) <=> first \subseteq l /\ l \subseteq last
<1>1. ASSUME NEW l, first \subseteq l, l \subseteq last PROVE l \in Between(first, last)
  <2>1. l \ first \in SUBSET (last \ first) /\ l = first \cup (l \ first) BY <1>1
  <2> QED BY <2>1 DEF Between
<1>2. ASSUME NEW l \in Between(first, last) PROVE first \subseteq l /\ l \subseteq last
    BY <1>2 DEF Between
<1> QED BY <1>1, <1>2

\* What explains a match still does so when the ledger has grown.
LEMMA ExplainedLater ==
    ASSUME NEW o, NEW m, NEW first, NEW last, NEW grown,
           first \subseteq last, last \subseteq grown, Explained(o, m, first, last)
    PROVE  Explained(o, m, first, grown)
<1>1. PICK l \in Between(first, last) :
          \E later \in Between(l, last) : m = Recomputed(o, l, later)
    BY DEF Explained
<1>2. PICK later \in Between(l, last) : m = Recomputed(o, l, later)
    BY <1>1
<1>3. first \subseteq l /\ l \subseteq last
    BY BetweenIs
<1>4. l \subseteq later /\ later \subseteq last
    BY <1>3, BetweenIs
<1>5. first \subseteq grown /\ l \subseteq grown /\ later \subseteq grown
    BY <1>3, <1>4
<1>6. l \in Between(first, grown) /\ later \in Between(l, grown)
    BY <1>3, <1>4, <1>5, BetweenIs
<1>7. QED  BY <1>2, <1>6 DEF Explained

\* The two readings of one observation explain its match.
LEMMA MatchedByOpportunity ==
    ASSUME NEW o, NEW first, NEW l, first \subseteq l,
           OfOpportunity(l, o) # {} \/ o.lead = None
    PROVE  Explained(o, Match(o, OfOpportunity(l, o), "opportunity_id"), first, l)
<1>1. l \in Between(first, l) /\ l \in Between(l, l)
    BY BetweenIs
<1>2. Match(o, OfOpportunity(l, o), "opportunity_id") = Recomputed(o, l, l)
    BY DEF Recomputed
<1>3. QED  BY <1>1, <1>2 DEF Explained

LEMMA MatchedByLead ==
    ASSUME NEW o, NEW first, NEW last, first \subseteq last, o.lead # None,
           NEW l \in Between(first, last), OfOpportunity(l, o) = {}
    PROVE  Explained(o, Match(o, OfLead(last, o), "lead_id"), first, last)
<1>1. l \subseteq last
    BY BetweenIs
<1>2. last \in Between(l, last)
    BY <1>1, BetweenIs
<1>3. Match(o, OfLead(last, o), "lead_id") = Recomputed(o, l, last)
    BY DEF Recomputed
<1>4. QED  BY <1>2, <1>3 DEF Explained

\* A match rests on touches that the ledger had by then, and on a ledger that stood
\* still it is what is computed again from it.
LEMMA ExplainedFacts ==
    ASSUME NEW o, NEW m, NEW first, NEW last, first \subseteq last, Explained(o, m, first, last)
    PROVE  /\ m.touches \subseteq last
           /\ first = last => m = Recomputed(o, last, last)
<1>1. PICK l \in Between(first, last) :
          \E later \in Between(l, last) : m = Recomputed(o, l, later)
    BY DEF Explained
<1>2. PICK later \in Between(l, last) : m = Recomputed(o, l, later)
    BY <1>1
<1>3. first \subseteq l /\ l \subseteq last
    BY BetweenIs
<1>4. l \subseteq later /\ later \subseteq last
    BY <1>3, BetweenIs
<1>5. OfOpportunity(l, o) \subseteq l /\ OfLead(later, o) \subseteq later
    BY ListingIsPart DEF OfOpportunity, OfLead
<1>6. m.touches = OfOpportunity(l, o) \/ m.touches = OfLead(later, o)
    BY <1>2 DEF Recomputed, Match
<1>7. m.touches \subseteq last
    BY <1>3, <1>4, <1>5, <1>6
<1>8. ASSUME first = last PROVE m = Recomputed(o, last, last)
  <2>1. l = last /\ later = last BY <1>3, <1>4, <1>8
  <2> QED BY <1>2, <2>1
<1>9. QED  BY <1>7, <1>8

LEMMA TouchesListed ==
    ASSUME NEW o, NEW l \in SUBSET Touchpoints
    PROVE  /\ OfOpportunity(l, o) \subseteq l /\ OfLead(l, o) \subseteq l
           /\ OfOpportunity(l, o) \in SUBSET Touchpoints
           /\ OfLead(l, o) \in SUBSET Touchpoints
BY ListingIsPart DEF OfOpportunity, OfLead

-----------------------------------------------------------------------------
(* AttributionReconciliation: the invariant is inductive.                  *)

LEMMA SnapshotInit == ReconciliationInit => SnapshotInv
<1> SUFFICES ASSUME ReconciliationInit PROVE SnapshotInv
    OBVIOUS
<1> USE DEF ReconciliationInit
<1>1. ReconciliationTypeOK
    BY RequestAssumption DEF ReconciliationTypeOK
<1>2. \A h \in Handlers : CallFits(h)
    BY DEF CallFits
<1>3. Bounded
  <2>1. Reconcilers = {} BY DEF Reconcilers, NoCall
  <2>2. Cardinality(Reconcilers) = 0 BY <2>1, FS_EmptySet
  <2> QED BY <2>2, RequestAssumption DEF Bounded
<1>4. QED  BY <1>1, <1>2, <1>3 DEF SnapshotInv

\* The handlers that a step leaves alone, while the ledger stays.
LEMMA OthersKeep ==
    ASSUME SnapshotInv, NEW h \in Handlers, ledger' = ledger,
           DOMAIN records \subseteq DOMAIN records',
           \A g \in Handlers \ {h} : pc'[g] = pc[g] /\ call'[g] = call[g]
    PROVE  \A g \in Handlers \ {h} :
               /\ CallFits(g)'
               /\ pc'[g] \notin {"idle", "decide"} => InProgress(g)'
               /\ pc'[g] = "decide" => Deciding(g)'
<1> SUFFICES ASSUME NEW g \in Handlers \ {h}
             PROVE  /\ CallFits(g)'
                    /\ pc'[g] \notin {"idle", "decide"} => InProgress(g)'
                    /\ pc'[g] = "decide" => Deciding(g)'
    OBVIOUS
<1>1. pc'[g] = pc[g] /\ call'[g] = call[g]
    OBVIOUS
<1>2. CallFits(g)'
    BY <1>1 DEF SnapshotInv, CallFits
<1>3. ASSUME pc'[g] \notin {"idle", "decide"} PROVE InProgress(g)'
  <2>1. InProgress(g) BY <1>1, <1>3 DEF SnapshotInv
  <2> QED BY <1>1, <2>1 DEF InProgress, Current
<1>4. ASSUME pc'[g] = "decide" PROVE Deciding(g)'
  <2>1. Deciding(g) BY <1>1, <1>4 DEF SnapshotInv
  <2> QED BY <1>1, <2>1 DEF Deciding
<1>5. QED  BY <1>2, <1>3, <1>4

\* The reconciliations in progress, when one handler moves.
LEMMA ReconcilersFinite ==
    ASSUME NEW S \in SUBSET Handlers
    PROVE  IsFiniteSet(S) /\ Cardinality(S) \in Nat
BY RequestAssumption, FS_Subset, FS_CardinalityType

LEMMA BoundedWhenNoneBegins ==
    ASSUME SnapshotInv, Len(records') = Len(records), Reconcilers' \subseteq Reconcilers
    PROVE  Bounded'
<1>1. Reconcilers \in SUBSET Handlers /\ Reconcilers' \in SUBSET Handlers
    BY DEF Reconcilers
<1>2. Cardinality(Reconcilers') <= Cardinality(Reconcilers)
    BY <1>1, ReconcilersFinite, FS_Subset
<1>3. Len(records) \in Nat /\ MaxRecords \in Nat
    BY RequestAssumption DEF SnapshotInv, ReconciliationTypeOK
<1>4. Cardinality(Reconcilers) \in Nat /\ Cardinality(Reconcilers') \in Nat
    BY <1>1, ReconcilersFinite
<1>5. Len(records) + Cardinality(Reconcilers) <= MaxRecords
    BY DEF SnapshotInv, Bounded
<1>6. Len(records') + Cardinality(Reconcilers') <= MaxRecords
    BY <1>2, <1>3, <1>4, <1>5
<1>7. QED  BY <1>6 DEF Bounded

LEMMA AppendKeeps ==
    ASSUME SnapshotInv, NEW t \in Touchpoints, Append_touchpoint(t)
    PROVE  SnapshotInv'
<1>1. t \notin ledger /\ ledger' = ledger \cup {t} /\ UNCHANGED <<records, pc, call>>
    BY DEF Append_touchpoint
<1>2. ReconciliationTypeOK'
    BY <1>1 DEF SnapshotInv, ReconciliationTypeOK
<1>3. \A h \in Handlers : CallFits(h)'
    BY <1>1 DEF SnapshotInv, CallFits
<1>4. ASSUME NEW h \in Handlers, pc'[h] \notin {"idle", "decide"}
      PROVE  InProgress(h)'
  <2> DEFINE c == call[h]
  <2>1. InProgress(h) /\ call'[h] = c /\ pc'[h] = pc[h]
      BY <1>1, <1>4 DEF SnapshotInv
  <2>2. c.seen \subseteq ledger /\ ledger \subseteq ledger' /\ c.seen \subseteq ledger'
      BY <1>1, <2>1 DEF InProgress
  <2>3. MatchesOf(c, ledger) => MatchesOf(c, ledger')
      BY <2>2, ExplainedLater DEF MatchesOf
  <2>4. \A l \in Between(c.seen, ledger) : l \in Between(c.seen, ledger')
    <3> TAKE l \in Between(c.seen, ledger)
    <3>1. c.seen \subseteq l /\ l \subseteq ledger BY <2>2, BetweenIs
    <3>2. l \subseteq ledger' BY <2>2, <3>1
    <3> QED BY <2>2, <3>1, <3>2, BetweenIs
  <2>5. Current(h)' = Current(h) BY <2>1 DEF Current
  <2> QED BY <2>1, <2>2, <2>3, <2>4, <2>5 DEF InProgress
<1>5. \A h \in Handlers : pc'[h] = "decide" => Deciding(h)'
    BY <1>1 DEF SnapshotInv, Deciding
<1>6. \A k \in DOMAIN records' : Sound(records'[k])
    BY <1>1 DEF SnapshotInv
<1>7. Bounded'
    BY <1>1, BoundedWhenNoneBegins DEF Reconcilers
<1>8. QED  BY <1>2, <1>3, <1>4, <1>5, <1>6, <1>7 DEF SnapshotInv

Stops == {"idle", "list", "list_lead", "fingerprint", "save", "decide"}

\* A handler that moves to p with the call c keeps what the rest is about.
LEMMA HandlerMoves ==
    ASSUME SnapshotInv, NEW h \in Handlers, NEW p \in Stops, NEW c \in Calls \cup {NoCall},
           ledger' = ledger,
           pc' = [pc EXCEPT ![h] = p], call' = [call EXCEPT ![h] = c],
           records' \in Seq(Records), DOMAIN records \subseteq DOMAIN records',
           \A k \in DOMAIN records' : Sound(records'[k]),
           CallFits(h)',
           p \notin {"idle", "decide"} => InProgress(h)',
           p = "decide" => Deciding(h)',
           Bounded'
    PROVE  SnapshotInv'
<1> USE DEF Stops
<1>1. /\ pc \in [Handlers -> Stops] /\ call \in [Handlers -> Calls \cup {NoCall}]
      /\ ledger \subseteq Touchpoints
    BY DEF SnapshotInv, ReconciliationTypeOK
<1>2. /\ pc' \in [Handlers -> Stops] /\ call' \in [Handlers -> Calls \cup {NoCall}]
      /\ pc'[h] = p /\ \A g \in Handlers \ {h} : pc'[g] = pc[g] /\ call'[g] = call[g]
    BY <1>1
<1>3. \A g \in Handlers \ {h} :
          /\ CallFits(g)'
          /\ pc'[g] \notin {"idle", "decide"} => InProgress(g)'
          /\ pc'[g] = "decide" => Deciding(g)'
    BY <1>2, OthersKeep
<1>4. Len(records') <= MaxRecords
  <2>1. Reconcilers' \in SUBSET Handlers BY DEF Reconcilers
  <2>2. Cardinality(Reconcilers') \in Nat BY <2>1, ReconcilersFinite
  <2>3. Len(records') + Cardinality(Reconcilers') <= MaxRecords BY DEF Bounded
  <2>4. Len(records') \in Nat OBVIOUS
  <2> QED BY <2>2, <2>3, <2>4, RequestAssumption
<1>5. ReconciliationTypeOK'
    BY <1>1, <1>2, <1>4 DEF ReconciliationTypeOK
<1>6. \A g \in Handlers : CallFits(g)'
    BY <1>3
<1>7. \A g \in Handlers : pc'[g] \notin {"idle", "decide"} => InProgress(g)'
    BY <1>2, <1>3
<1>8. \A g \in Handlers : pc'[g] = "decide" => Deciding(g)'
    BY <1>2, <1>3
<1>9. QED  BY <1>5, <1>6, <1>7, <1>8 DEF SnapshotInv

\* The call of a handler that reconciles is of this form.
Reconciling(os, ms, seen, read, print) ==
    [kind |-> "reconcile", observations |-> os, matches |-> ms, seen |-> seen,
     read |-> read, fingerprint |-> print]

LEMMA ReconcilingForm ==
    ASSUME SnapshotInv, NEW h \in Handlers, pc[h] \notin {"idle", "decide"}
    PROVE  LET c == call[h] IN
           /\ c = Reconciling(c.observations, c.matches, c.seen, c.read, c.fingerprint)
           /\ c.observations \in Seq(Observations) /\ c.matches \in Seq(Matches)
           /\ c.seen \in SUBSET Touchpoints /\ c.read \in SUBSET Touchpoints
           /\ c.fingerprint \in SUBSET Touchpoints
           /\ CallFits(h) /\ InProgress(h)
           /\ h \in Reconcilers
<1>1. call[h] \in Calls /\ call[h].kind = "reconcile"
    BY DEF SnapshotInv, CallFits
<1>2. call[h] \in [kind : {"reconcile"}, observations : Seq(Observations),
                   matches : Seq(Matches), seen : SUBSET Touchpoints,
                   read : SUBSET Touchpoints, fingerprint : SUBSET Touchpoints]
    BY <1>1 DEF Calls
<1>3. QED  BY <1>1, <1>2 DEF SnapshotInv, Reconcilers, Reconciling

LEMMA ReconcilingTyped ==
    ASSUME NEW os \in Seq(Observations), NEW ms \in Seq(Matches), NEW seen \in SUBSET Touchpoints,
           NEW read \in SUBSET Touchpoints, NEW print \in SUBSET Touchpoints
    PROVE  LET c == Reconciling(os, ms, seen, read, print) IN
           /\ c \in Calls /\ c.kind = "reconcile"
           /\ c.observations = os /\ c.matches = ms /\ c.seen = seen
           /\ c.read = read /\ c.fingerprint = print
BY DEF Reconciling, Calls

LEMMA ReconcilingFields ==
    ASSUME NEW os, NEW ms, NEW seen, NEW read, NEW print, NEW new, NEW c,
           c = Reconciling(os, ms, seen, read, print)
    PROVE  /\ [c EXCEPT !.matches = new] = Reconciling(os, new, seen, read, print)
           /\ [c EXCEPT !.seen = new] = Reconciling(os, ms, new, read, print)
           /\ [c EXCEPT !.read = new] = Reconciling(os, ms, seen, new, print)
           /\ [c EXCEPT !.fingerprint = new] = Reconciling(os, ms, seen, read, new)
           /\ c.observations = os /\ c.matches = ms /\ c.seen = seen
           /\ c.read = read /\ c.fingerprint = print
BY DEF Reconciling

LEMMA ReconcilingSeen ==
    ASSUME SnapshotInv, NEW h \in Handlers, pc[h] \notin {"idle", "decide"}, NEW s
    PROVE  LET c == call[h] IN
           [c EXCEPT !.seen = s] = Reconciling(c.observations, c.matches, s, c.read, c.fingerprint)
BY ReconcilingForm, ReconcilingFields

LEMMA ReconcilingMatched ==
    ASSUME SnapshotInv, NEW h \in Handlers, pc[h] \notin {"idle", "decide"}, NEW m, NEW s
    PROVE  LET c == call[h] IN
           [[c EXCEPT !.matches = m] EXCEPT !.seen = s]
                = Reconciling(c.observations, m, s, c.read, c.fingerprint)
<1> DEFINE c == call[h]
           d == [c EXCEPT !.matches = m]
<1>1. c = Reconciling(c.observations, c.matches, c.seen, c.read, c.fingerprint)
    BY ReconcilingForm
<1>2. d = Reconciling(c.observations, m, c.seen, c.read, c.fingerprint)
    BY <1>1, ReconcilingFields
<1> HIDE DEF d
<1>3. [d EXCEPT !.seen = s] = Reconciling(c.observations, m, s, c.read, c.fingerprint)
    BY <1>2, ReconcilingFields
<1>4. QED  BY <1>3 DEF d

LEMMA ReconcilingRead ==
    ASSUME SnapshotInv, NEW h \in Handlers, pc[h] \notin {"idle", "decide"}, NEW f, NEW l
    PROVE  LET c == call[h] IN
           [[c EXCEPT !.fingerprint = f] EXCEPT !.read = l]
                = Reconciling(c.observations, c.matches, c.seen, l, f)
<1> DEFINE c == call[h]
           d == [c EXCEPT !.fingerprint = f]
<1>1. c = Reconciling(c.observations, c.matches, c.seen, c.read, c.fingerprint)
    BY ReconcilingForm
<1>2. d = Reconciling(c.observations, c.matches, c.seen, c.read, f)
    BY <1>1, ReconcilingFields
<1> HIDE DEF d
<1>3. [d EXCEPT !.read = l] = Reconciling(c.observations, c.matches, c.seen, l, f)
    BY <1>2, ReconcilingFields
<1>4. QED  BY <1>3 DEF d

\* A read that leaves the stored reconciliations alone, by a handler that goes on.
LEMMA ReadStep ==
    ASSUME SnapshotInv, NEW h \in Handlers, NEW p \in {"list", "list_lead", "fingerprint", "save"},
           pc[h] \notin {"idle", "decide"},
           NEW os \in Seq(Observations), NEW ms \in Seq(Matches),
           NEW seen \in SUBSET Touchpoints, NEW read \in SUBSET Touchpoints,
           NEW print \in SUBSET Touchpoints,
           ledger' = ledger, records' = records,
           pc' = [pc EXCEPT ![h] = p],
           call' = [call EXCEPT ![h] = Reconciling(os, ms, seen, read, print)],
           p \in {"list", "list_lead"} => Len(ms) < Len(os),
           p \in {"fingerprint", "save"} => Len(ms) = Len(os),
           InProgress(h)'
    PROVE  SnapshotInv'
<1>1. /\ pc \in [Handlers -> Stops] /\ call \in [Handlers -> Calls \cup {NoCall}]
      /\ records \in Seq(Records)
    BY DEF SnapshotInv, ReconciliationTypeOK, Stops
<1>2. /\ pc'[h] = p /\ call'[h] = Reconciling(os, ms, seen, read, print)
      /\ Reconciling(os, ms, seen, read, print) \in Calls
      /\ \A g \in Handlers \ {h} : call'[g] = call[g]
    BY <1>1, ReconcilingTyped
<1>3. CallFits(h)'
    BY <1>2, ReconcilingTyped DEF CallFits
<1>4. Bounded'
  <2>1. h \in Reconcilers BY ReconcilingForm
  <2>2. Reconcilers' \subseteq Reconcilers BY <1>2, <2>1 DEF Reconcilers
  <2> QED BY <2>2, BoundedWhenNoneBegins
<1>5. \A k \in DOMAIN records' : Sound(records'[k])
    BY DEF SnapshotInv
<1>6. QED  BY <1>1, <1>2, <1>3, <1>4, <1>5, HandlerMoves DEF Stops

\* The ledger first read, and the observation that is matched next.
LEMMA SeenFacts ==
    ASSUME SnapshotInv, NEW h \in Handlers, pc[h] \in {"list", "list_lead"}
    PROVE  /\ Seen(h) \in SUBSET Touchpoints /\ Seen(h) \subseteq ledger
           /\ ledger \in SUBSET Touchpoints
           /\ Current(h) \in Observations
           /\ Len(call[h].matches) < Len(call[h].observations)
           /\ \A i \in DOMAIN call[h].matches :
                 /\ Fitting(call[h].observations[i], call[h].matches[i])
                 /\ Explained(call[h].observations[i], call[h].matches[i], Seen(h), ledger)
<1> DEFINE c == call[h]
<1>1. /\ c.observations \in Seq(Observations) /\ c.matches \in Seq(Matches)
      /\ c.seen \in SUBSET Touchpoints /\ CallFits(h) /\ InProgress(h)
    BY ReconcilingForm
<1>2. ledger \in SUBSET Touchpoints
    BY DEF SnapshotInv, ReconciliationTypeOK
<1>3. Len(c.matches) < Len(c.observations)
    BY <1>1 DEF CallFits
<1>4. Current(h) \in Observations
  <2>1. Len(c.matches) \in Nat /\ Len(c.observations) \in Nat BY <1>1
  <2>2. Len(c.matches) + 1 \in 1..Len(c.observations) BY <1>3, <2>1
  <2> QED BY <1>1, <2>2 DEF Current
<1>5. c.seen \subseteq ledger /\ MatchesOf(c, ledger)
    BY <1>1 DEF InProgress
<1>6. c.matches = <<>> => DOMAIN c.matches = {}
    OBVIOUS
<1>7. QED  BY <1>1, <1>2, <1>3, <1>4, <1>5, <1>6 DEF Seen, MatchesOf

LEMMA MatchedKeeps ==
    ASSUME SnapshotInv, NEW h \in Handlers, pc[h] \in {"list", "list_lead"},
           NEW touches \in SUBSET Touchpoints, NEW by \in Methods,
           Explained(Current(h), Match(Current(h), touches, by), Seen(h), ledger),
           Matched(h, touches, by), UNCHANGED <<ledger, records>>
    PROVE  SnapshotInv'
<1> DEFINE c  == call[h]
           m  == Match(Current(h), touches, by)
           ms == Append(c.matches, m)
           p  == IF Len(c.matches) + 1 = Len(c.observations) THEN "fingerprint" ELSE "list"
<1>1. /\ c.observations \in Seq(Observations) /\ c.matches \in Seq(Matches)
      /\ c.seen \in SUBSET Touchpoints /\ c.read \in SUBSET Touchpoints
      /\ c.fingerprint \in SUBSET Touchpoints
    BY ReconcilingForm
<1>2. /\ Seen(h) \in SUBSET Touchpoints /\ Seen(h) \subseteq ledger
      /\ Current(h) \in Observations
      /\ Len(c.matches) < Len(c.observations)
    BY SeenFacts
<1>3. m \in Matches /\ m.touches = touches /\ Fitting(Current(h), m)
    BY <1>2, MatchTyped
<1> HIDE DEF m
<1>4. /\ ms \in Seq(Matches) /\ Len(ms) = Len(c.matches) + 1
      /\ DOMAIN ms = DOMAIN c.matches \cup {Len(ms)}
      /\ \A i \in DOMAIN c.matches : ms[i] = c.matches[i]
      /\ ms[Len(ms)] = m
  <2>1. c.matches \in Seq(Matches) /\ m \in Matches BY <1>1, <1>3
  <2> HIDE DEF c
  <2> QED BY <2>1, AppendProperties, LenProperties
<1>5. /\ Len(c.matches) \in Nat /\ Len(c.observations) \in Nat
      /\ p \in {"list", "fingerprint"}
      /\ p = "list" => Len(ms) < Len(c.observations)
      /\ p = "fingerprint" => Len(ms) = Len(c.observations)
    BY <1>1, <1>2, <1>4
<1>6. call \in [Handlers -> Calls \cup {NoCall}] /\ pc \in [Handlers -> Stops]
    BY DEF SnapshotInv, ReconciliationTypeOK, Stops
<1>7. /\ call' = [call EXCEPT ![h] = Reconciling(c.observations, ms, Seen(h), c.read, c.fingerprint)]
      /\ pc' = [pc EXCEPT ![h] = p]
  <2>1. call' = [call EXCEPT ![h] = [[c EXCEPT !.matches = ms] EXCEPT !.seen = Seen(h)]]
      BY <1>6 DEF Matched, m
  <2>2. [[c EXCEPT !.matches = ms] EXCEPT !.seen = Seen(h)]
            = Reconciling(c.observations, ms, Seen(h), c.read, c.fingerprint)
    <3>1. pc[h] \notin {"idle", "decide"} OBVIOUS
    <3> HIDE DEF ms
    <3> QED BY <3>1, ReconcilingMatched, Zenon
  <2> QED BY <2>1, <2>2 DEF Matched, MoveTo
<1>8. pc'[h] = p /\ call'[h] = Reconciling(c.observations, ms, Seen(h), c.read, c.fingerprint)
  <2> HIDE DEF p, ms
  <2>1. p \in Stops BY <1>5 DEF Stops
  <2> QED BY <1>6, <1>7, <2>1
<1> DEFINE d == call'[h]
<1>9. d.observations = c.observations /\ d.matches = ms /\ d.seen = Seen(h)
  <2> HIDE DEF p, ms
  <2> QED BY <1>1, <1>2, <1>4, <1>8, ReconcilingTyped
<1>10. MatchesOf(d, ledger)
  <2> SUFFICES ASSUME NEW i \in DOMAIN ms
               PROVE  /\ Fitting(c.observations[i], ms[i])
                      /\ Explained(c.observations[i], ms[i], Seen(h), ledger)
      BY <1>9 DEF MatchesOf
  <2>1. CASE i \in DOMAIN c.matches
      BY <1>4, <2>1, SeenFacts
  <2>2. CASE i = Len(ms)
      BY <1>3, <1>4, <2>2 DEF Current, m
  <2> QED BY <1>4, <2>1, <2>2
<1>11. InProgress(h)'
  <2>1. pc'[h] \in {"list", "fingerprint"} BY <1>5, <1>8
  <2>2. d.seen \subseteq ledger BY <1>2, <1>9
  <2> HIDE DEF d
  <2>3. ledger' = ledger OBVIOUS
  <2> QED BY <1>10, <2>1, <2>2, <2>3 DEF InProgress, d
<1> HIDE DEF ms, p, d
<1>12. QED
  <2>1. p \in {"list", "list_lead", "fingerprint", "save"} /\ pc[h] \notin {"idle", "decide"}
      BY <1>5
  <2>2. /\ p \in {"list", "list_lead"} => Len(ms) < Len(c.observations)
        /\ p \in {"fingerprint", "save"} => Len(ms) = Len(c.observations)
      BY <1>5
  <2>3. ledger' = ledger /\ records' = records OBVIOUS
  <2> QED BY <1>1, <1>2, <1>4, <1>7, <1>11, <2>1, <2>2, <2>3, ReadStep

LEMMA ListByOpportunityKeeps ==
    ASSUME SnapshotInv, NEW h \in Handlers, ListByOpportunity(h)
    PROVE  SnapshotInv'
<1> DEFINE c == call[h]
           touches == OfOpportunity(ledger, Current(h))
<1>1. pc[h] = "list" /\ UNCHANGED <<ledger, records>>
    BY DEF ListByOpportunity
<1>2. /\ c.observations \in Seq(Observations) /\ c.matches \in Seq(Matches)
      /\ c.seen \in SUBSET Touchpoints /\ c.read \in SUBSET Touchpoints
      /\ c.fingerprint \in SUBSET Touchpoints
    BY <1>1, ReconcilingForm
<1>3. /\ Seen(h) \in SUBSET Touchpoints /\ Seen(h) \subseteq ledger
      /\ ledger \in SUBSET Touchpoints /\ Current(h) \in Observations
      /\ Len(c.matches) < Len(c.observations)
    BY <1>1, SeenFacts
<1>4. call \in [Handlers -> Calls \cup {NoCall}] /\ pc \in [Handlers -> Stops]
    BY DEF SnapshotInv, ReconciliationTypeOK, Stops
<1>5. CASE touches = {} /\ Current(h).lead # None
  <2> DEFINE d == call'[h]
  <2>1. /\ pc' = [pc EXCEPT ![h] = "list_lead"]
        /\ call' = [call EXCEPT ![h].seen = Seen(h)]
      BY <1>5 DEF ListByOpportunity, MoveTo
  <2>2. call' = [call EXCEPT ![h] = Reconciling(c.observations, c.matches, Seen(h), c.read, c.fingerprint)]
    <3>1. [c EXCEPT !.seen = Seen(h)] = Reconciling(c.observations, c.matches, Seen(h), c.read, c.fingerprint)
        BY <1>1, ReconcilingSeen
    <3> QED BY <1>4, <2>1, <3>1
  <2>3. pc'[h] = "list_lead" /\ d = Reconciling(c.observations, c.matches, Seen(h), c.read, c.fingerprint)
      BY <1>4, <2>1, <2>2
  <2>4. d.observations = c.observations /\ d.matches = c.matches /\ d.seen = Seen(h)
      BY <1>2, <1>3, <2>3, ReconcilingTyped
  <2>5. MatchesOf(d, ledger)
      BY <1>1, <2>4, SeenFacts DEF MatchesOf
  <2>6. Current(h)' = Current(h)
      BY <2>4 DEF Current
  <2>7. InProgress(h)'
    <3>1. ledger' = ledger /\ pc'[h] = "list_lead" BY <1>1, <2>3
    <3>2. d.seen \subseteq ledger BY <1>3, <2>4
    <3>3. /\ Current(h)'.lead # None
          /\ \E l \in Between(d.seen, ledger) : OfOpportunity(l, Current(h)') = {}
      <4>1. d.seen \subseteq ledger BY <1>3, <2>4
      <4>2. ledger \in Between(d.seen, ledger) BY <4>1, BetweenIs
      <4> QED BY <1>5, <2>6, <4>2
    <3> HIDE DEF d, touches
    <3> QED BY <2>5, <3>1, <3>2, <3>3 DEF InProgress, d
  <2>8. ledger' = ledger /\ records' = records BY <1>1
  <2>9. pc[h] \notin {"idle", "decide"} BY <1>1
  <2>10. /\ pc' = [pc EXCEPT ![h] = "list_lead"]
         /\ Len(c.matches) < Len(c.observations)
      BY <1>3, <2>1
  <2> HIDE DEF c, d, touches
  <2> QED BY <1>2, <1>3, <2>2, <2>7, <2>8, <2>9, <2>10, ReadStep
<1>6. CASE ~(touches = {} /\ Current(h).lead # None)
  <2>1. Matched(h, touches, "opportunity_id")
      BY <1>6 DEF ListByOpportunity
  <2>2. Explained(Current(h), Match(Current(h), touches, "opportunity_id"), Seen(h), ledger)
      BY <1>3, <1>6, MatchedByOpportunity
  <2>3. touches \in SUBSET Touchpoints /\ touches \subseteq ledger
      BY <1>3, TouchesListed
  <2>4. "opportunity_id" \in Methods BY DEF Methods
  <2> HIDE DEF touches
  <2> QED BY <1>1, <2>1, <2>2, <2>3, <2>4, MatchedKeeps
<1>7. QED  BY <1>5, <1>6

LEMMA ListByLeadKeeps ==
    ASSUME SnapshotInv, NEW h \in Handlers, ListByLead(h)
    PROVE  SnapshotInv'
<1> DEFINE touches == OfLead(ledger, Current(h))
<1>1. /\ pc[h] = "list_lead" /\ UNCHANGED <<ledger, records>>
      /\ Matched(h, touches, "lead_id")
    BY DEF ListByLead
<1>2. InProgress(h) /\ Seen(h) = call[h].seen
    BY <1>1, ReconcilingForm DEF Seen
<1>3. Explained(Current(h), Match(Current(h), touches, "lead_id"), Seen(h), ledger)
  <2>1. Seen(h) \subseteq ledger /\ Current(h).lead # None BY <1>1, <1>2 DEF InProgress
  <2>2. PICK l \in Between(Seen(h), ledger) : OfOpportunity(l, Current(h)) = {}
        BY <1>1, <1>2 DEF InProgress
  <2> QED BY <2>1, <2>2, MatchedByLead
<1>4. touches \in SUBSET Touchpoints /\ touches \subseteq ledger
    BY <1>1, SeenFacts, TouchesListed
<1>5. "lead_id" \in Methods
    BY DEF Methods
<1> HIDE DEF touches
<1>6. QED  BY <1>1, <1>3, <1>4, <1>5, MatchedKeeps

LEMMA TakeFingerprintKeeps ==
    ASSUME SnapshotInv, NEW h \in Handlers, TakeFingerprint(h)
    PROVE  SnapshotInv'
<1> DEFINE c == call[h]
           d == call'[h]
           print == Listing(ledger, LedgerLimit)
<1>1. /\ pc[h] = "fingerprint" /\ ledger' = ledger /\ records' = records
      /\ pc' = [pc EXCEPT ![h] = "save"]
      /\ call' = [call EXCEPT ![h].fingerprint = print, ![h].read = ledger]
    BY DEF TakeFingerprint, MoveTo, LedgerFingerprint
<1>2. /\ c.observations \in Seq(Observations) /\ c.matches \in Seq(Matches)
      /\ c.seen \in SUBSET Touchpoints
      /\ InProgress(h) /\ Len(c.matches) = Len(c.observations)
    BY <1>1, ReconcilingForm DEF CallFits
<1>3. /\ call \in [Handlers -> Calls \cup {NoCall}] /\ pc \in [Handlers -> Stops]
      /\ ledger \in SUBSET Touchpoints /\ print \in SUBSET Touchpoints
    BY ListingIsPart DEF SnapshotInv, ReconciliationTypeOK, Stops
<1>4. call' = [call EXCEPT ![h] = Reconciling(c.observations, c.matches, c.seen, ledger, print)]
  <2> HIDE DEF print
  <2>1. call' = [call EXCEPT ![h] = [[c EXCEPT !.fingerprint = print] EXCEPT !.read = ledger]]
      BY <1>1, <1>3
  <2>2. [[c EXCEPT !.fingerprint = print] EXCEPT !.read = ledger]
            = Reconciling(c.observations, c.matches, c.seen, ledger, print)
    <3>1. pc[h] \notin {"idle", "decide"} BY <1>1
    <3> QED BY <3>1, ReconcilingRead, Zenon
  <2> QED BY <2>1, <2>2
<1> HIDE DEF print
<1>5. /\ pc'[h] = "save" /\ d = Reconciling(c.observations, c.matches, c.seen, ledger, print)
    BY <1>1, <1>3, <1>4
<1>6. /\ d.observations = c.observations /\ d.matches = c.matches /\ d.seen = c.seen
      /\ d.read = ledger /\ d.fingerprint = print
    BY <1>2, <1>3, <1>5, ReconcilingTyped
<1>7. MatchesOf(c, ledger) /\ c.seen \subseteq ledger
    BY <1>1, <1>2 DEF InProgress
<1>8. MatchesOf(d, d.read) /\ d.seen \subseteq ledger' /\ d.seen \subseteq d.read
    BY <1>1, <1>6, <1>7 DEF MatchesOf
<1>9. InProgress(h)'
  <2>1. d.fingerprint = Listing(d.read, LedgerLimit) BY <1>6 DEF print
  <2> HIDE DEF d
  <2> QED BY <1>5, <1>8, <2>1 DEF InProgress, d
<1>10. /\ pc[h] \notin {"idle", "decide"}
       /\ pc' = [pc EXCEPT ![h] = "save"] /\ ledger' = ledger /\ records' = records
    BY <1>1
<1>11. /\ c.observations \in Seq(Observations) /\ c.matches \in Seq(Matches)
       /\ c.seen \in SUBSET Touchpoints /\ ledger \in SUBSET Touchpoints
       /\ Len(c.matches) = Len(c.observations)
    BY <1>2, <1>3
<1> HIDE DEF c, d
<1>12. QED  BY <1>3, <1>4, <1>9, <1>10, <1>11, ReadStep

\* A handler that ends.
LEMMA EndMoves ==
    ASSUME SnapshotInv, NEW h \in Handlers, End(h), ledger' = ledger,
           records' \in Seq(Records), DOMAIN records \subseteq DOMAIN records',
           \A k \in DOMAIN records' : Sound(records'[k]),
           Bounded'
    PROVE  SnapshotInv'
<1>1. /\ pc' = [pc EXCEPT ![h] = "idle"] /\ call' = [call EXCEPT ![h] = NoCall]
      /\ pc \in [Handlers -> Stops] /\ call \in [Handlers -> Calls \cup {NoCall}]
    BY DEF End, MoveTo, SnapshotInv, ReconciliationTypeOK, Stops
<1>2. pc'[h] = "idle" /\ call'[h] = NoCall
    BY <1>1
<1>3. CallFits(h)'
    BY <1>2 DEF CallFits
<1>4. QED  BY <1>1, <1>2, <1>3, HandlerMoves DEF Stops

\* What a request stores.
Saved(os, ms, seen, read, print) ==
    [observations |-> os, matches |-> ms, eligible |-> Eligible(os, ms),
     fingerprint |-> print, seen |-> seen, read |-> read,
     state |-> IF Eligible(os, ms) THEN "awaiting_quality_acceptance"
               ELSE "blocked_by_data_quality"]

\* The stored reconciliation tells what was computed.
LEMMA SavedIsSound ==
    ASSUME NEW os \in Seq(Observations), NEW ms \in Seq(Matches),
           NEW seen \in SUBSET Touchpoints, NEW read \in SUBSET Touchpoints,
           NEW print \in SUBSET Touchpoints,
           Len(ms) = Len(os), seen \subseteq read, print = Listing(read, LedgerLimit),
           \A i \in DOMAIN ms : Fitting(os[i], ms[i]) /\ Explained(os[i], ms[i], seen, read)
    PROVE  Saved(os, ms, seen, read, print) \in Records /\ Sound(Saved(os, ms, seen, read, print))
<1> DEFINE ok == Eligible(os, ms)
           st == IF ok THEN "awaiting_quality_acceptance" ELSE "blocked_by_data_quality"
           r  == [observations |-> os, matches |-> ms, eligible |-> ok,
                  fingerprint |-> print, seen |-> seen, read |-> read, state |-> st]
<1>1. ok \in BOOLEAN
    BY DEF Eligible
<1>2. st \in {"awaiting_quality_acceptance", "blocked_by_data_quality"}
    OBVIOUS
<1> HIDE DEF ok, st
<1>3. r \in Records
    BY <1>1, <1>2 DEF Records
<1>4. Sound(r)
  <2>1. /\ r.observations = os /\ r.matches = ms /\ r.eligible = ok
        /\ r.fingerprint = print /\ r.seen = seen /\ r.read = read /\ r.state = st
      OBVIOUS
  <2>2. ~QualityAccepted(r)
      BY <1>2, <2>1 DEF QualityAccepted
  <2>3. r.eligible = Eligible(r.observations, r.matches)
      BY <2>1 DEF ok
  <2>4. \A i \in DOMAIN r.matches :
            /\ Fitting(r.observations[i], r.matches[i])
            /\ Explained(r.observations[i], r.matches[i], r.seen, r.read)
      BY <2>1
  <2>5. /\ r.seen \subseteq r.read /\ r.fingerprint = Listing(r.read, LedgerLimit)
        /\ Len(r.matches) = Len(r.observations)
      BY <2>1
  <2> HIDE DEF r
  <2> QED BY <2>2, <2>3, <2>4, <2>5 DEF Sound
<1>5. Saved(os, ms, seen, read, print) = r
    BY DEF Saved, ok, st
<1>6. QED  BY <1>3, <1>4, <1>5

LEMMA SaveReconciliationKeeps ==
    ASSUME SnapshotInv, NEW h \in Handlers, SaveReconciliation(h)
    PROVE  SnapshotInv'
<1> DEFINE c == call[h]
           r == Saved(c.observations, c.matches, c.seen, c.read, c.fingerprint)
<1>1. pc[h] = "save" /\ records' = Append(records, r) /\ End(h) /\ ledger' = ledger
    BY DEF SaveReconciliation, Saved
<1>2. /\ c.observations \in Seq(Observations) /\ c.matches \in Seq(Matches)
      /\ c.seen \in SUBSET Touchpoints /\ c.read \in SUBSET Touchpoints
      /\ c.fingerprint \in SUBSET Touchpoints
      /\ InProgress(h) /\ Len(c.matches) = Len(c.observations) /\ h \in Reconcilers
    BY <1>1, ReconcilingForm DEF CallFits
<1>3. /\ c.seen \subseteq c.read /\ MatchesOf(c, c.read)
      /\ c.fingerprint = Listing(c.read, LedgerLimit)
    BY <1>1, <1>2 DEF InProgress
<1>4. r \in Records /\ Sound(r)
  <2>1. \A i \in DOMAIN c.matches :
            /\ Fitting(c.observations[i], c.matches[i])
            /\ Explained(c.observations[i], c.matches[i], c.seen, c.read)
      BY <1>3 DEF MatchesOf
  <2>2. /\ c.observations \in Seq(Observations) /\ c.matches \in Seq(Matches)
        /\ c.seen \in SUBSET Touchpoints /\ c.read \in SUBSET Touchpoints
        /\ c.fingerprint \in SUBSET Touchpoints
        /\ Len(c.matches) = Len(c.observations)
      BY <1>2
  <2>3. c.seen \subseteq c.read /\ c.fingerprint = Listing(c.read, LedgerLimit) BY <1>3
  <2> HIDE DEF c
  <2> QED BY <2>1, <2>2, <2>3, SavedIsSound
<1> HIDE DEF r
<1>5. /\ records \in Seq(Records) /\ Len(records) \in Nat
      /\ call \in [Handlers -> Calls \cup {NoCall}] /\ pc \in [Handlers -> Stops]
    BY DEF SnapshotInv, ReconciliationTypeOK, Stops
<1>6. /\ records' \in Seq(Records) /\ Len(records') = Len(records) + 1
      /\ DOMAIN records' = DOMAIN records \cup {Len(records) + 1}
      /\ \A k \in DOMAIN records : records'[k] = records[k]
      /\ records'[Len(records) + 1] = r
    BY <1>1, <1>4, <1>5
<1>7. \A k \in DOMAIN records' : Sound(records'[k])
    BY <1>4, <1>6 DEF SnapshotInv
<1>8. Bounded'
  <2>1. call' = [call EXCEPT ![h] = NoCall] BY <1>1 DEF End
  <2>2. Reconcilers' = Reconcilers \ {h}
      BY <1>5, <2>1 DEF Reconcilers, NoCall
  <2>3. IsFiniteSet(Reconcilers) /\ Cardinality(Reconcilers) \in Nat
      BY ReconcilersFinite DEF Reconcilers
  <2>4. Cardinality(Reconcilers') = Cardinality(Reconcilers) - 1
      BY <1>2, <2>2, <2>3, FS_RemoveElement
  <2>5. Len(records) + Cardinality(Reconcilers) <= MaxRecords
      BY DEF SnapshotInv, Bounded
  <2>6. Len(records') + Cardinality(Reconcilers') <= MaxRecords
      BY <1>5, <1>6, <2>3, <2>4, <2>5, RequestAssumption
  <2> QED BY <2>6 DEF Bounded
<1>9. DOMAIN records \subseteq DOMAIN records'
    BY <1>6
<1>10. QED  BY <1>1, <1>6, <1>7, <1>8, <1>9, EndMoves

LEMMA BeginKeeps ==
    ASSUME SnapshotInv, NEW h \in Handlers, NEW os \in Seq(Observations), os # <<>>,
           Begin(h, os)
    PROVE  SnapshotInv'
<1> DEFINE d == call'[h]
<1>1. /\ pc[h] = "idle" /\ ledger' = ledger /\ records' = records
      /\ Len(records) + Cardinality(Reconcilers) < MaxRecords
      /\ pc' = [pc EXCEPT ![h] = "list"]
      /\ call' = [call EXCEPT ![h] = Reconciling(os, <<>>, {}, {}, {})]
    BY DEF Begin, MoveTo, Reconcilers, Reconciling
<1>2. /\ pc \in [Handlers -> Stops] /\ call \in [Handlers -> Calls \cup {NoCall}]
      /\ records \in Seq(Records)
    BY DEF SnapshotInv, ReconciliationTypeOK, Stops
<1>3. /\ pc'[h] = "list" /\ d = Reconciling(os, <<>>, {}, {}, {})
      /\ \A g \in Handlers \ {h} : call'[g] = call[g]
    BY <1>1, <1>2
<1>4. /\ Reconciling(os, <<>>, {}, {}, {}) \in Calls
      /\ d.kind = "reconcile" /\ d.observations = os /\ d.matches = <<>> /\ d.seen = {}
  <2> DEFINE ms == <<>>
  <2>1. ms \in Seq(Matches) /\ {} \in SUBSET Touchpoints OBVIOUS
  <2> HIDE DEF ms
  <2>2. d = Reconciling(os, ms, {}, {}, {}) BY <1>3 DEF ms
  <2>3. /\ Reconciling(os, ms, {}, {}, {}) \in Calls
        /\ d.kind = "reconcile" /\ d.observations = os /\ d.matches = ms /\ d.seen = {}
    <3> HIDE DEF d
    <3> QED BY <2>1, <2>2, ReconcilingTyped
  <2> QED BY <2>3 DEF ms
<1>5. Len(d.matches) < Len(d.observations) /\ DOMAIN d.matches = {}
    BY <1>4
<1>6. CallFits(h)'
  <2> HIDE DEF d
  <2>1. d \in Calls BY <1>3, <1>4
  <2> QED BY <1>3, <1>4, <1>5, <2>1 DEF CallFits, d
<1>7. InProgress(h)'
  <2>1. MatchesOf(d, ledger') BY <1>5 DEF MatchesOf
  <2>2. d.seen \subseteq ledger' BY <1>4
  <2> HIDE DEF d
  <2> QED BY <1>3, <2>1, <2>2 DEF InProgress, d
<1>8. Bounded'
  <2>1. Reconcilers' \subseteq Reconcilers \cup {h}
      BY <1>3 DEF Reconcilers
  <2>2. Reconcilers \in SUBSET Handlers /\ Reconcilers \cup {h} \in SUBSET Handlers
      BY DEF Reconcilers
  <2>3. /\ IsFiniteSet(Reconcilers) /\ Cardinality(Reconcilers) \in Nat
        /\ IsFiniteSet(Reconcilers \cup {h}) /\ Cardinality(Reconcilers \cup {h}) \in Nat
      BY <2>2, ReconcilersFinite
  <2>4. Cardinality(Reconcilers \cup {h}) <= Cardinality(Reconcilers) + 1
      BY <2>3, FS_AddElement
  <2>5. Cardinality(Reconcilers') <= Cardinality(Reconcilers \cup {h})
      BY <2>1, <2>3, FS_Subset
  <2>6. Cardinality(Reconcilers') \in Nat
      BY <2>1, <2>3, FS_Subset, FS_CardinalityType
  <2>7. Len(records) \in Nat /\ Len(records') = Len(records)
      BY <1>1, <1>2
  <2>8. Len(records') + Cardinality(Reconcilers') <= MaxRecords
      BY <1>1, <2>3, <2>4, <2>5, <2>6, <2>7, RequestAssumption
  <2> QED BY <2>8 DEF Bounded
<1>9. \A k \in DOMAIN records' : Sound(records'[k])
    BY <1>1 DEF SnapshotInv
<1>10. /\ records' \in Seq(Records) /\ DOMAIN records \subseteq DOMAIN records'
       /\ "list" \in Stops /\ Reconciling(os, <<>>, {}, {}, {}) \in Calls \cup {NoCall}
       /\ ledger' = ledger /\ pc' = [pc EXCEPT ![h] = "list"]
       /\ call' = [call EXCEPT ![h] = Reconciling(os, <<>>, {}, {}, {})]
    BY <1>1, <1>2, <1>4 DEF Stops
<1> DEFINE e == Reconciling(os, <<>>, {}, {}, {})
<1>11. e \in Calls \cup {NoCall} /\ call' = [call EXCEPT ![h] = e]
    BY <1>10
<1>12. ledger' = ledger /\ pc' = [pc EXCEPT ![h] = "list"] /\ "list" \in Stops
    BY <1>10
<1>13. /\ records' \in Seq(Records) /\ DOMAIN records \subseteq DOMAIN records'
    BY <1>10
<1> HIDE DEF d, e
<1>14. QED  BY <1>6, <1>7, <1>8, <1>9, <1>11, <1>12, <1>13, HandlerMoves

LEMMA BeginFromEspoKeeps ==
    ASSUME SnapshotInv, NEW h \in Handlers, NEW rs \in EspoRecords, BeginFromEspo(h, rs)
    PROVE  SnapshotInv'
<1> DEFINE os == [i \in DOMAIN rs |-> Observation(rs[i])]
<1>1. rs # <<>> /\ Begin(h, os)
    BY DEF BeginFromEspo
<1>2. os \in Seq(Observations)
    BY ProjectionTyped
<1>3. os # <<>>
  <2>1. rs \in Seq(EspoRows) BY RequestAssumption
  <2>2. DOMAIN rs # {} BY <1>1, <2>1
  <2>3. DOMAIN os = DOMAIN rs OBVIOUS
  <2> QED BY <2>2, <2>3
<1> HIDE DEF os
<1>4. QED  BY <1>1, <1>2, <1>3, BeginKeeps

LEMMA ReadForDecisionKeeps ==
    ASSUME SnapshotInv, NEW h \in Handlers, NEW i \in 1..MaxRecords, NEW accepted \in BOOLEAN,
           ReadForDecision(h, i, accepted)
    PROVE  SnapshotInv'
<1> DEFINE c == [kind |-> "decide", id |-> i, copy |-> records[i], accepted |-> accepted]
<1>1. /\ pc[h] = "idle" /\ i \in DOMAIN records /\ (accepted => records[i].eligible)
      /\ pc' = [pc EXCEPT ![h] = "decide"] /\ call' = [call EXCEPT ![h] = c]
      /\ ledger' = ledger /\ records' = records
    BY DEF ReadForDecision, MayDecide, MoveTo
<1>2. /\ pc \in [Handlers -> Stops] /\ call \in [Handlers -> Calls \cup {NoCall}]
      /\ records \in Seq(Records)
    BY DEF SnapshotInv, ReconciliationTypeOK, Stops
<1>3. records[i] \in Records /\ Sound(records[i])
    BY <1>1, <1>2 DEF SnapshotInv
<1>4. c \in Calls
    BY <1>3 DEF Calls
<1>5. /\ c.kind = "decide" /\ c.id = i /\ c.copy = records[i] /\ c.accepted = accepted
    OBVIOUS
<1> HIDE DEF c
<1>6. pc'[h] = "decide" /\ call'[h] = c /\ \A g \in Handlers \ {h} : call'[g] = call[g]
    BY <1>1, <1>2, <1>4
<1>7. CallFits(h)'
    BY <1>4, <1>5, <1>6 DEF CallFits
<1>8. Deciding(h)'
    BY <1>1, <1>3, <1>5, <1>6 DEF Deciding
<1>9. Bounded'
  <2>1. Reconcilers' \subseteq Reconcilers
      BY <1>5, <1>6 DEF Reconcilers
  <2> QED BY <1>1, <2>1, BoundedWhenNoneBegins
<1>10. /\ \A k \in DOMAIN records' : Sound(records'[k])
       /\ records' \in Seq(Records) /\ DOMAIN records \subseteq DOMAIN records'
       /\ "decide" \in Stops /\ c \in Calls \cup {NoCall} /\ ledger' = ledger
       /\ pc' = [pc EXCEPT ![h] = "decide"] /\ call' = [call EXCEPT ![h] = c]
    BY <1>1, <1>2, <1>4 DEF SnapshotInv, Stops
<1>11. QED  BY <1>7, <1>8, <1>9, <1>10, HandlerMoves

\* A decision changes the state of the copy alone.
LEMMA DecidedIsSound ==
    ASSUME NEW r \in Records, Sound(r), NEW st \in {"quality_accepted", "quality_rejected"},
           st = "quality_accepted" => r.eligible
    PROVE  [r EXCEPT !.state = st] \in Records /\ Sound([r EXCEPT !.state = st])
<1> DEFINE q == [r EXCEPT !.state = st]
<1>1. q \in Records
    BY DEF Records
<1>2. /\ q.observations = r.observations /\ q.matches = r.matches
      /\ q.eligible = r.eligible /\ q.fingerprint = r.fingerprint
      /\ q.seen = r.seen /\ q.read = r.read /\ q.state = st
    BY DEF Records
<1> HIDE DEF q
<1>3. Sound(q)
    BY <1>2 DEF Sound, QualityAccepted
<1>4. QED  BY <1>1, <1>3 DEF q

LEMMA SaveDecisionKeeps ==
    ASSUME SnapshotInv, NEW h \in Handlers, SaveDecision(h)
    PROVE  SnapshotInv'
<1> DEFINE c == call[h]
           st == IF c.accepted THEN "quality_accepted" ELSE "quality_rejected"
           q == [c.copy EXCEPT !.state = st]
<1>1. /\ pc[h] = "decide" /\ records' = [records EXCEPT ![c.id] = q]
      /\ End(h) /\ ledger' = ledger
    BY DEF SaveDecision
<1>2. Deciding(h) /\ c \in Calls /\ c.kind = "decide"
    BY <1>1 DEF SnapshotInv, CallFits
<1>3. c.copy \in Records
    BY <1>2 DEF Calls
<1>4. /\ c.id \in DOMAIN records /\ Sound(c.copy) /\ (c.accepted => c.copy.eligible)
    BY <1>2 DEF Deciding
<1>5. q \in Records /\ Sound(q)
  <2>1. st \in {"quality_accepted", "quality_rejected"} OBVIOUS
  <2>2. st = "quality_accepted" => c.copy.eligible BY <1>4
  <2> HIDE DEF st, c
  <2> QED BY <1>3, <1>4, <2>1, <2>2, DecidedIsSound
<1> HIDE DEF q
<1>6. /\ records \in Seq(Records) /\ call \in [Handlers -> Calls \cup {NoCall}]
    BY DEF SnapshotInv, ReconciliationTypeOK
<1>7. /\ records' \in Seq(Records) /\ Len(records') = Len(records)
      /\ DOMAIN records' = DOMAIN records
      /\ \A k \in DOMAIN records : records'[k] = IF k = c.id THEN q ELSE records[k]
    BY <1>1, <1>4, <1>5, <1>6
<1>8. \A k \in DOMAIN records' : Sound(records'[k])
    BY <1>5, <1>7 DEF SnapshotInv
<1>9. Bounded'
  <2>1. call' = [call EXCEPT ![h] = NoCall] BY <1>1 DEF End
  <2>2. Reconcilers' \subseteq Reconcilers
      BY <1>6, <2>1 DEF Reconcilers, NoCall
  <2> QED BY <1>7, <2>2, BoundedWhenNoneBegins
<1>10. DOMAIN records \subseteq DOMAIN records'
    BY <1>7
<1>11. QED  BY <1>1, <1>7, <1>8, <1>9, <1>10, EndMoves

-----------------------------------------------------------------------------
LEMMA SnapshotStep == SnapshotInv /\ [ReconciliationNext]_reconciliationVars => SnapshotInv'
<1> SUFFICES ASSUME SnapshotInv, [ReconciliationNext]_reconciliationVars PROVE SnapshotInv'
    OBVIOUS
<1>1. ASSUME NEW t \in Touchpoints, Append_touchpoint(t) PROVE SnapshotInv'
    BY <1>1, AppendKeeps
<1>2. ASSUME NEW h \in Handlers, Request(h) PROVE SnapshotInv'
  <2>1. ASSUME NEW os \in Batches, Begin(h, os) PROVE SnapshotInv'
    <3>1. os \in Seq(Observations) /\ os # <<>> BY RequestAssumption
    <3> QED BY <2>1, <3>1, BeginKeeps
  <2>2. ASSUME NEW rs \in EspoRecords, BeginFromEspo(h, rs) PROVE SnapshotInv'
      BY <2>2, BeginFromEspoKeeps
  <2>3. ASSUME NEW i \in 1..MaxRecords, NEW accepted \in BOOLEAN, ReadForDecision(h, i, accepted)
        PROVE  SnapshotInv'
      BY <2>3, ReadForDecisionKeeps
  <2> QED BY <1>2, <2>1, <2>2, <2>3 DEF Request
<1>3. ASSUME NEW h \in Handlers, Step(h) PROVE SnapshotInv'
  <2>1. CASE ListByOpportunity(h) BY <2>1, ListByOpportunityKeeps
  <2>2. CASE ListByLead(h) BY <2>2, ListByLeadKeeps
  <2>3. CASE TakeFingerprint(h) BY <2>3, TakeFingerprintKeeps
  <2>4. CASE SaveReconciliation(h) BY <2>4, SaveReconciliationKeeps
  <2>5. CASE SaveDecision(h) BY <2>5, SaveDecisionKeeps
  <2> QED BY <1>3, <2>1, <2>2, <2>3, <2>4, <2>5 DEF Step
<1>4. CASE UNCHANGED reconciliationVars
  <2>1. UNCHANGED <<ledger, records, pc, call>> BY <1>4 DEF reconciliationVars
  <2>2. ReconciliationTypeOK' BY <2>1 DEF SnapshotInv, ReconciliationTypeOK
  <2>3. \A h \in Handlers : CallFits(h)'
      BY <2>1 DEF SnapshotInv, CallFits
  <2>4. \A h \in Handlers : pc'[h] \notin {"idle", "decide"} => InProgress(h)'
      BY <2>1 DEF SnapshotInv, InProgress, Current
  <2>5. \A h \in Handlers : pc'[h] = "decide" => Deciding(h)'
      BY <2>1 DEF SnapshotInv, Deciding
  <2>6. Bounded' BY <2>1, BoundedWhenNoneBegins DEF Reconcilers
  <2> QED BY <2>1, <2>2, <2>3, <2>4, <2>5, <2>6 DEF SnapshotInv
<1>5. QED  BY <1>1, <1>2, <1>3, <1>4 DEF ReconciliationNext

LEMMA SnapshotInvHolds == ReconciliationSpec => []SnapshotInv
BY SnapshotInit, SnapshotStep, PTL DEF ReconciliationSpec

\* Whatever the touches, the requests, their order and the limits of the listings: a
\* stored reconciliation can be computed again from the ledger it names, if the ledger
\* stood still and was listed in full; and otherwise its matches are those of ledgers
\* between its reads, with the touches that its fingerprint lists.
THEOREM SnapshotsAreReproducible == ReconciliationSpec => []SnapshotIsReproducible
<1>1. ASSUME SnapshotInv, NEW k \in DOMAIN records, NEW i \in DOMAIN records[k].matches
      PROVE  LET r == records[k]  o == r.observations[i]  m == r.matches[i]
             IN  /\ r.seen = r.read /\ Cardinality(r.read) <= LedgerLimit =>
                       m = Recomputed(o, r.fingerprint, r.fingerprint)
                 /\ Explained(o, m, r.seen, r.read)
                 /\ \A t \in m.touches :
                       Cardinality({u \in r.read : TouchOf[u].at > TouchOf[t].at}) < LedgerLimit
                           => t \in r.fingerprint
  <2> DEFINE r == records[k]  o == r.observations[i]  m == r.matches[i]
  <2>1. Sound(r) BY <1>1 DEF SnapshotInv
  <2>2. /\ r.seen \subseteq r.read /\ r.fingerprint = Listing(r.read, LedgerLimit)
        /\ Explained(o, m, r.seen, r.read)
      BY <1>1, <2>1 DEF Sound
  <2> HIDE DEF r, o, m
  <2>5. /\ m.touches \subseteq r.read
        /\ r.seen = r.read => m = Recomputed(o, r.read, r.read)
      BY <2>2, ExplainedFacts
  <2>6. Cardinality(r.read) <= LedgerLimit => r.fingerprint = r.read
      BY <2>2 DEF Listing
  <2>7. \A t \in r.read :
            Cardinality({u \in r.read : TouchOf[u].at > TouchOf[t].at}) < LedgerLimit
                => t \in r.fingerprint
      BY <2>2 DEF Listing
  <2> QED BY <2>2, <2>5, <2>6, <2>7 DEF r, o, m
<1>2. SnapshotInv => SnapshotIsReproducible
    BY <1>1 DEF SnapshotIsReproducible
<1>3. QED  BY <1>2, SnapshotInvHolds, PTL

\* However many owners decide at once, the model is well typed and no accepted
\* reconciliation shows a won opportunity without an amount or a close date.
THEOREM ReconciliationConsistentHolds == ReconciliationSpec => []ReconciliationConsistent
<1>1. SnapshotInv => AcceptedRevenueIsClosed
  <2> SUFFICES ASSUME SnapshotInv, NEW k \in DOMAIN records, QualityAccepted(records[k])
               PROVE  \A i \in DOMAIN records[k].observations :
                         records[k].observations[i].status = "won" =>
                            /\ records[k].observations[i].amount > 0
                            /\ records[k].observations[i].closed
      BY DEF AcceptedRevenueIsClosed
  <2>1. Sound(records[k]) BY DEF SnapshotInv
  <2>2. Eligible(records[k].observations, records[k].matches) BY <2>1 DEF Sound
  <2> QED BY <2>2 DEF Eligible
<1>2. SnapshotInv => ReconciliationConsistent
    BY <1>1 DEF SnapshotInv, ReconciliationConsistent
<1>3. QED  BY <1>2, SnapshotInvHolds, PTL

-----------------------------------------------------------------------------
(* SalesReviews: the inductive invariant of the review repository.         *)

\* Requests that make room, after their review was indexed.
Busy == Storing \ {"indexing"}

\* What a request that stores a review holds fits where it is.
StoringFits(r) ==
    LET c == calls[r] IN
    /\ c.pc = "indexing" =>
          /\ c.id \in DOMAIN reviews \ saved
          /\ reviews[c.id].subject = c.subject
    /\ c.pc \in {"counting", "ranging"} => c.id \in saved
    /\ c.pc = "ranging" => c.overflow \in Nat \ {0}
    /\ c.pc = "expiring" =>
          /\ c.ids \subseteq saved /\ c.ids # {}
          /\ {"pc", "id", "ids"} \subseteq DOMAIN c

\* Without a death, whatever is too much is on somebody's list.
MakesRoom(r) ==
    LET c == calls[r] IN
    \/ c.pc = "counting"
    \/ c.pc = "ranging" /\ Cardinality(listed) <= Retention + c.overflow
    \/ c.pc = "expiring" /\ Cardinality(listed \ c.ids) <= Retention

\* The reviews L are the newest of S, and as many as are retained.
Newest(L, S) ==
    /\ L \subseteq S
    /\ \A i \in S \ L, j \in L : i < j
    /\ Cardinality(L) <= Retention
    /\ S # L => Cardinality(L) = Retention

\* The others are the newest, and one of all may have to go.
MakesRoomAlone(r) ==
    LET c == calls[r] IN
    /\ c.id \in listed
    /\ Newest(listed \ {c.id}, saved \ {c.id})
    /\ c.pc \in {"ranging", "expiring"} => Cardinality(listed \ {c.id}) = Retention
    /\ c.pc = "ranging" => c.overflow = 1
    /\ c.pc = "expiring" => c.ids = {Min(listed)}

RoomIsMade ==
    "death" \notin mishaps =>
        Cardinality(listed) <= Retention \/ \E r \in Reviewers : MakesRoom(r)

OneAtATime ==
    mishaps = {} =>
        /\ \A q, r \in Reviewers : calls[q].pc \in Busy /\ calls[r].pc \in Busy => q = r
        /\ \A r \in Reviewers : calls[r].pc \in Busy => MakesRoomAlone(r)
        /\ (\A r \in Reviewers : calls[r].pc \notin Busy) => Newest(listed, saved)

StoreInv ==
    /\ calls = [r \in Reviewers |-> calls[r]]
    /\ issued \in Nat /\ DOMAIN reviews \subseteq 1..issued
    /\ saved \subseteq 1..issued /\ listed \subseteq saved
    /\ \A r \in Reviewers : StoringFits(r)
    /\ \A q, r \in Reviewers :
          calls[q].pc = "indexing" /\ calls[r].pc = "indexing" /\ calls[q].id = calls[r].id => q = r
    /\ IndexesAgree
    /\ RoomIsMade
    /\ OneAtATime

-----------------------------------------------------------------------------
(* Finite sets of numbers.                                                 *)

LEMMA Bounded_Finite ==
    ASSUME NEW n \in Nat, NEW S \in SUBSET (1..n)
    PROVE  /\ IsFiniteSet(S) /\ Cardinality(S) \in Nat
           /\ \A T \in SUBSET S : IsFiniteSet(T) /\ Cardinality(T) \in Nat
                                  /\ Cardinality(T) <= Cardinality(S)
<1>1. IsFiniteSet(1..n)
    BY FS_Interval
<1>2. IsFiniteSet(S)
    BY <1>1, FS_Subset
<1>3. QED  BY <1>2, FS_Subset, FS_CardinalityType

\* A finite set of integers that is not empty has a least one.
LEMMA LeastInteger ==
    ASSUME NEW T \in SUBSET Int, IsFiniteSet(T), T # {}
    PROVE  Min(T) \in T /\ \A c \in T : Min(T) <= c
<1> DEFINE Upto(b) == {c \in T : c <= b}
           U == {Upto(b) : b \in T}
<1>1. IsWellFoundedOn(StrictSubsetOrdering(T), FiniteSubsetsOf(T))
    BY FS_StrictSubsetOrderingWellFounded
<1>2. U \subseteq FiniteSubsetsOf(T) /\ U # {}
  <2>1. \A b \in T : IsFiniteSet(Upto(b)) BY FS_Subset
  <2> QED BY <2>1 DEF FiniteSubsetsOf
<1>3. PICK x \in U : \A y \in U : <<y, x>> \notin StrictSubsetOrdering(T)
    BY <1>1, <1>2, WFMin
<1>4. PICK b \in T : x = Upto(b)
    BY <1>3
<1>5. ASSUME NEW c \in T, ~ (b <= c) PROVE FALSE
  <2>1. c < b /\ b \in Int /\ c \in Int BY <1>5
  <2>2. Upto(c) \subseteq Upto(b)
    <3> SUFFICES ASSUME NEW d \in T, d <= c PROVE d <= b OBVIOUS
    <3>1. d \in Int OBVIOUS
    <3> QED BY <2>1, <3>1
  <2>3. b \in Upto(b) /\ b \notin Upto(c) BY <2>1
  <2>4. <<Upto(c), Upto(b)>> \in StrictSubsetOrdering(T)
    <3>1. Upto(c) \in SUBSET T /\ Upto(b) \in SUBSET T OBVIOUS
    <3>2. Upto(c) # Upto(b) BY <2>3
    <3> HIDE DEF Upto
    <3> QED BY <2>2, <3>1, <3>2 DEF StrictSubsetOrdering
  <2> QED BY <1>3, <1>4, <2>4
<1>6. \E m \in T : \A c \in T : m <= c
    BY <1>5
<1>7. QED  BY <1>6 DEF Min

\* Without the n least, n fewer are left, or none.
LEMMA TrimmedCount ==
    ASSUME NEW L \in SUBSET Nat, IsFiniteSet(L), NEW n \in Nat,
           NEW E \in SUBSET L, E = {i \in L : Cardinality({j \in L : j < i}) < n}
    PROVE  L \ E = {} \/ Cardinality(L \ E) + n <= Cardinality(L)
<1> DEFINE kept == L \ E
           Before(b) == {j \in L : j < b}
<1> SUFFICES ASSUME kept # {} PROVE Cardinality(kept) + n <= Cardinality(L)
    OBVIOUS
<1>1. IsFiniteSet(kept) /\ kept \in SUBSET Int
  <2>1. kept \in SUBSET L BY Zenon
  <2> HIDE DEF kept
  <2>2. Nat \in SUBSET Int OBVIOUS
  <2>3. kept \in SUBSET Int BY <2>1, <2>2, Zenon
  <2> QED BY <2>1, <2>3, FS_Subset
<1>2. PICK b \in kept : \A c \in kept : b <= c
    BY <1>1, LeastInteger
<1>3. Before(b) \cap kept = {}
  <2> SUFFICES ASSUME NEW c \in kept, c < b PROVE FALSE
      OBVIOUS
  <2>1. b <= c /\ b \in Nat /\ c \in Nat BY <1>2
  <2> QED BY <2>1
<1>4. IsFiniteSet(Before(b)) /\ Cardinality(Before(b)) \in Nat
    BY FS_Subset, FS_CardinalityType
<1>5. Cardinality(Before(b)) >= n
  <2>1. b \in L /\ b \notin E OBVIOUS
  <2>2. ~ (Cardinality(Before(b)) < n) BY <2>1
  <2> QED BY <1>4, <2>2
<1>6. Cardinality(kept) \in Nat
    BY <1>1, FS_CardinalityType
<1>7. Cardinality(Before(b) \cup kept) = Cardinality(Before(b)) + Cardinality(kept)
  <2> DEFINE B == Before(b)
  <2>1. Cardinality(B \cap kept) = 0 BY <1>3, FS_EmptySet
  <2> HIDE DEF kept, B
  <2>2. Cardinality(B \cup kept) = Cardinality(B) + Cardinality(kept) - Cardinality(B \cap kept)
      BY <1>1, <1>4, FS_Union DEF B
  <2>3. Cardinality(B) \in Nat BY <1>4 DEF B
  <2>4. Cardinality(B \cup kept) = Cardinality(B) + Cardinality(kept)
      BY <1>6, <2>1, <2>2, <2>3
  <2> QED BY <2>4 DEF B
<1>8. Cardinality(Before(b) \cup kept) <= Cardinality(L)
  <2>1. Before(b) \cup kept \in SUBSET L OBVIOUS
  <2> QED BY <2>1, FS_Subset
<1>9. Cardinality(L) \in Nat
    BY FS_CardinalityType
<1> HIDE DEF kept, Before
<1>10. Cardinality(kept) + n <= Cardinality(L)
    BY <1>4, <1>5, <1>6, <1>7, <1>8, <1>9
<1>11. QED  BY <1>10

\* The first alone is the least.
LEMMA FirstIsLeast ==
    ASSUME NEW L \in SUBSET Nat, IsFiniteSet(L), L # {}
    PROVE  {i \in L : Cardinality({j \in L : j < i}) < 1} = {Min(L)}
<1> DEFINE Before(b) == {j \in L : j < b}
<1>1. Min(L) \in L /\ \A c \in L : Min(L) <= c
  <2>1. L \in SUBSET Int OBVIOUS
  <2> QED BY <2>1, LeastInteger
<1>2. ASSUME NEW i \in L
      PROVE  Cardinality(Before(i)) < 1 <=> i = Min(L)
  <2>1. IsFiniteSet(Before(i)) /\ Cardinality(Before(i)) \in Nat
      BY FS_Subset, FS_CardinalityType
  <2>2. Cardinality(Before(i)) < 1 <=> Before(i) = {}
    <3> HIDE DEF Before
    <3>1. Cardinality(Before(i)) = 0 <=> Before(i) = {} BY <2>1, FS_EmptySet
    <3> QED BY <2>1, <3>1
  <2>3. Before(i) = {} <=> i = Min(L)
    <3>1. ASSUME Before(i) = {} PROVE i = Min(L)
      <4>1. ~ (Min(L) < i) /\ Min(L) <= i BY <1>1, <3>1
      <4>2. Min(L) \in Nat /\ i \in Nat BY <1>1
      <4> QED BY <4>1, <4>2
    <3>2. ASSUME i = Min(L) PROVE Before(i) = {}
      <4> SUFFICES ASSUME NEW j \in L, j < i PROVE FALSE OBVIOUS
      <4>1. i <= j /\ i \in Nat /\ j \in Nat BY <1>1, <3>2
      <4> QED BY <4>1
    <3> QED BY <3>1, <3>2
  <2> QED BY <2>2, <2>3
<1>3. QED  BY <1>1, <1>2

\* The newest of a set, as many as are retained.
LEMMA NewestAre ==
    ASSUME NEW n \in Nat, NEW S \in SUBSET (1..n), NEW L, Newest(L, S)
    PROVE  L = {i \in S : Cardinality({j \in S : j > i}) < Retention}
<1> DEFINE After(i) == {j \in S : j > i}
<1>1. L \in SUBSET S /\ IsFiniteSet(L) /\ Cardinality(L) \in Nat
    BY Bounded_Finite DEF Newest
<1>2. \A i \in S : IsFiniteSet(After(i)) /\ Cardinality(After(i)) \in Nat
  <2> TAKE i \in S
  <2>1. After(i) \in SUBSET S OBVIOUS
  <2> QED BY <2>1, Bounded_Finite
<1>3. ASSUME NEW i \in L PROVE Cardinality(After(i)) < Retention
  <2>1. After(i) \subseteq L \ {i}
    <3> SUFFICES ASSUME NEW j \in S, j > i PROVE j \in L /\ j # i OBVIOUS
    <3>1. i \in Nat /\ j \in Nat BY <1>1
    <3>2. j \notin L => j < i BY DEF Newest
    <3> QED BY <3>1, <3>2
  <2>2. IsFiniteSet(L \ {i}) /\ Cardinality(L \ {i}) = Cardinality(L) - 1
      BY <1>1, FS_RemoveElement, FS_Subset
  <2>3. Cardinality(After(i)) <= Cardinality(L \ {i}) BY <2>1, <2>2, FS_Subset
  <2>4. Cardinality(L) <= Retention BY DEF Newest
  <2>5. Cardinality(After(i)) \in Nat BY <1>1, <1>2
  <2> HIDE DEF After
  <2> QED BY <1>1, <2>2, <2>3, <2>4, <2>5, RetentionAssumption
<1>4. ASSUME NEW i \in S \ L PROVE ~ (Cardinality(After(i)) < Retention)
  <2>1. L \subseteq After(i)
    <3> SUFFICES ASSUME NEW j \in L PROVE j \in S /\ j > i OBVIOUS
    <3>1. i < j BY DEF Newest
    <3>2. i \in Nat /\ j \in Nat BY <1>1
    <3> QED BY <1>1, <3>1, <3>2
  <2>2. Cardinality(L) = Retention BY DEF Newest
  <2>3. Cardinality(L) <= Cardinality(After(i)) BY <1>2, <2>1, FS_Subset
  <2>4. Cardinality(After(i)) \in Nat BY <1>2
  <2> HIDE DEF After
  <2> QED BY <2>2, <2>3, <2>4, RetentionAssumption
<1> HIDE DEF After
<1>5. L = {i \in S : Cardinality(After(i)) < Retention}
    BY <1>1, <1>3, <1>4
<1>6. QED  BY <1>5 DEF After

-----------------------------------------------------------------------------
(* SalesReviews: the invariant is inductive.                               *)

LEMMA StoreInit == Init => StoreInv
<1> SUFFICES ASSUME Init PROVE StoreInv
    OBVIOUS
<1> USE DEF Init
<1>1. \A r \in Reviewers : calls[r].pc = "idle"
    BY DEF Idle
<1>2. calls = [r \in Reviewers |-> calls[r]]
    OBVIOUS
<1>3. /\ issued \in Nat /\ DOMAIN reviews = {} /\ saved = {} /\ listed = {}
    OBVIOUS
<1>4. \A r \in Reviewers : StoringFits(r)
    BY <1>1 DEF StoringFits
<1>5. IndexesAgree
    BY <1>3 DEF IndexesAgree
<1>6. Cardinality(listed) = 0
    BY <1>3, FS_EmptySet
<1>7. RoomIsMade
    BY <1>6, RetentionAssumption DEF RoomIsMade
<1>8. Newest(listed, saved)
    BY <1>3, <1>6, RetentionAssumption DEF Newest
<1>9. OneAtATime
    BY <1>1, <1>8 DEF OneAtATime, Busy, Storing
<1>10. QED  BY <1>1, <1>2, <1>3, <1>4, <1>5, <1>7, <1>9 DEF StoreInv

LEMMA CallsMove ==
    ASSUME StoreInv, NEW r \in Reviewers, NEW c, Goto(r, c)
    PROVE  /\ calls' = [q \in Reviewers |-> calls'[q]]
           /\ calls'[r] = c
           /\ \A q \in Reviewers \ {r} : calls'[q] = calls[q]
BY DEF Goto, StoreInv

LEMMA StoreNumbers ==
    ASSUME StoreInv
    PROVE  /\ \A S \in SUBSET saved : /\ IsFiniteSet(S) /\ Cardinality(S) \in Nat
                                      /\ S \in SUBSET Nat /\ S \in SUBSET Int
           /\ listed \in SUBSET saved /\ saved \in SUBSET (1..issued) /\ issued \in Nat
<1>1. /\ listed \in SUBSET saved /\ saved \in SUBSET (1..issued) /\ issued \in Nat
    BY DEF StoreInv
<1>2. 1..issued \in SUBSET Nat /\ 1..issued \in SUBSET Int
    BY <1>1
<1>3. QED  BY <1>1, <1>2, Bounded_Finite

\* Whatever neither stores a review nor touches the store.
LEMMA StoreRests ==
    ASSUME StoreInv, UNCHANGED store, calls' = [q \in Reviewers |-> calls'[q]],
           \A q \in Reviewers :
               calls[q].pc \in Storing \/ calls'[q].pc \in Storing => calls'[q] = calls[q]
    PROVE  StoreInv'
<1>1. UNCHANGED <<reviews, listed, bySubject, issued, saved, mishaps>>
    BY DEF store
<1>2. \A q \in Reviewers : StoringFits(q)'
  <2> TAKE q \in Reviewers
  <2>1. StoringFits(q) BY DEF StoreInv
  <2>2. CASE calls'[q].pc \in Storing
    <3>1. calls'[q] = calls[q] BY <2>2
    <3> QED BY <1>1, <2>1, <3>1 DEF StoringFits
  <2>3. CASE calls'[q].pc \notin Storing
      BY <2>3 DEF StoringFits, Storing
  <2> QED BY <2>2, <2>3
<1>3. \A p, q \in Reviewers :
          calls'[p].pc = "indexing" /\ calls'[q].pc = "indexing" /\ calls'[p].id = calls'[q].id
              => p = q
    BY DEF StoreInv, Storing
<1>4. IndexesAgree'
  <2>1. {calls[q].id : q \in {p \in Reviewers : calls[p].pc = "indexing"}}
          \subseteq {calls'[q].id : q \in {p \in Reviewers : calls'[p].pc = "indexing"}}
    <3> SUFFICES ASSUME NEW q \in Reviewers, calls[q].pc = "indexing"
                 PROVE  calls[q].id \in
                          {calls'[p].id : p \in {o \in Reviewers : calls'[o].pc = "indexing"}}
        OBVIOUS
    <3>1. calls'[q] = calls[q] BY DEF Storing
    <3> QED BY <3>1
  <2>2. IndexesAgree BY DEF StoreInv
  <2> QED BY <1>1, <2>1, <2>2 DEF IndexesAgree
<1>5. ASSUME NEW q \in Reviewers
      PROVE  /\ calls'[q].pc \in Busy <=> calls[q].pc \in Busy
             /\ MakesRoom(q) => MakesRoom(q)'
             /\ calls[q].pc \in Busy => (MakesRoomAlone(q) => MakesRoomAlone(q)')
  <2>1. CASE calls[q].pc \in Storing \/ calls'[q].pc \in Storing
    <3>1. calls'[q] = calls[q] BY <2>1
    <3> QED BY <1>1, <3>1 DEF MakesRoom, MakesRoomAlone
  <2>2. CASE ~ (calls[q].pc \in Storing \/ calls'[q].pc \in Storing)
      BY <2>2 DEF Busy, Storing, MakesRoom
  <2> QED BY <2>1, <2>2
<1>6. RoomIsMade'
    BY <1>1, <1>5 DEF StoreInv, RoomIsMade
<1>7. OneAtATime'
  <2>1. OneAtATime BY DEF StoreInv
  <2>2. Newest(listed, saved) => Newest(listed, saved)' BY <1>1 DEF Newest
  <2> QED BY <1>1, <1>5, <2>1, <2>2 DEF OneAtATime
<1>8. QED  BY <1>1, <1>2, <1>3, <1>4, <1>6, <1>7 DEF StoreInv

\* The request that stores moves on, and the others stay.
LEMMA OthersFit ==
    ASSUME StoreInv, NEW r \in Reviewers,
           \A q \in Reviewers \ {r} : calls'[q] = calls[q],
           saved \subseteq saved', saved' \ saved \subseteq {calls[r].id},
           calls[r].pc = "indexing" \/ saved' = saved,
           DOMAIN reviews \ saved \subseteq DOMAIN reviews',
           \A i \in DOMAIN reviews \cap DOMAIN reviews' : reviews'[i] = reviews[i]
    PROVE  \A q \in Reviewers \ {r} : StoringFits(q)'
<1> SUFFICES ASSUME NEW q \in Reviewers \ {r} PROVE StoringFits(q)'
    OBVIOUS
<1>1. calls'[q] = calls[q] /\ StoringFits(q)
    BY DEF StoreInv
<1>2. calls[q].pc = "indexing" => calls[q].id \notin saved'
  <2>1. calls[q].pc = "indexing" => calls[q].id \notin saved BY <1>1 DEF StoringFits
  <2>2. calls[q].pc = "indexing" /\ calls[r].pc = "indexing" => calls[q].id # calls[r].id
      BY DEF StoreInv
  <2> QED BY <2>1, <2>2
<1>3. QED  BY <1>1, <1>2 DEF StoringFits

LEMMA SetRecordKeeps ==
    ASSUME StoreInv, NEW r \in Reviewers, SetRecord(r)
    PROVE  StoreInv'
<1> DEFINE c == calls[r]
           id == issued + 1
           d == [pc |-> "indexing", id |-> id, subject |-> c.subject]
           entry == [subject |-> c.subject, version |-> c.version]
<1>1. /\ c.pc = "recommended" /\ issued' = id /\ Goto(r, d)
      /\ reviews' = [i \in DOMAIN reviews \cup {id} |-> IF i = id THEN entry ELSE reviews[i]]
      /\ UNCHANGED <<listed, bySubject, saved, mishaps>>
    BY DEF SetRecord
<1>2. /\ calls' = [q \in Reviewers |-> calls'[q]] /\ calls'[r] = d
      /\ \A q \in Reviewers \ {r} : calls'[q] = calls[q]
    BY <1>1, CallsMove
<1>3. d.pc = "indexing" /\ d.id = id /\ d.subject = c.subject /\ entry.subject = c.subject
    OBVIOUS
<1>4. /\ issued \in Nat /\ DOMAIN reviews \subseteq 1..issued /\ saved \subseteq 1..issued
      /\ listed \subseteq saved /\ id \in Nat /\ 1..issued \subseteq 1..id
      /\ id \in 1..id /\ id \notin 1..issued
    BY DEF StoreInv
<1> HIDE DEF d, entry
<1>5. /\ DOMAIN reviews' = DOMAIN reviews \cup {id}
      /\ reviews'[id] = entry /\ \A i \in DOMAIN reviews : reviews'[i] = reviews[i]
    BY <1>1, <1>4
<1>6. \A q \in Reviewers : StoringFits(q)'
  <2>1. StoringFits(r)'
      BY <1>1, <1>2, <1>3, <1>4, <1>5 DEF StoringFits
  <2>2. \A q \in Reviewers \ {r} : StoringFits(q)'
      BY <1>1, <1>2, <1>5, OthersFit
  <2> QED BY <2>1, <2>2
<1>7. \A p, q \in Reviewers :
          calls'[p].pc = "indexing" /\ calls'[q].pc = "indexing" /\ calls'[p].id = calls'[q].id
              => p = q
  <2>1. \A q \in Reviewers \ {r} : calls[q].pc = "indexing" => calls[q].id # id
      BY <1>4 DEF StoreInv, StoringFits
  <2> QED BY <1>2, <1>3, <2>1 DEF StoreInv
<1>8. IndexesAgree'
  <2>1. IndexesAgree BY DEF StoreInv
  <2>2. \A i \in listed : reviews'[i].subject = reviews[i].subject
      BY <1>5, <2>1 DEF IndexesAgree
  <2>3. {<<reviews[i].subject, i>> : i \in listed} = {<<reviews'[i].subject, i>> : i \in listed}
      BY <2>2
  <2>4. ASSUME "death" \notin mishaps, NEW i \in DOMAIN reviews' \ listed
        PROVE  \E q \in Reviewers : calls'[q].pc = "indexing" /\ calls'[q].id = i
    <3>1. CASE i = id BY <1>2, <1>3, <3>1
    <3>2. CASE i # id
      <4>1. i \in DOMAIN reviews \ listed BY <1>5, <2>4, <3>2
      <4>2. PICK q \in Reviewers : calls[q].pc = "indexing" /\ calls[q].id = i
          BY <2>1, <2>4, <4>1 DEF IndexesAgree
      <4>3. q # r BY <1>1, <4>2
      <4> QED BY <1>2, <4>2, <4>3
    <3> QED BY <3>1, <3>2
  <2>5. listed' \subseteq DOMAIN reviews' BY <1>1, <1>5, <2>1 DEF IndexesAgree
  <2>6. bySubject' = {<<reviews'[i].subject, i>> : i \in listed'}
      BY <1>1, <2>1, <2>3 DEF IndexesAgree
  <2>7. "death" \notin mishaps' => "death" \notin mishaps BY <1>1
  <2> QED BY <1>1, <2>4, <2>5, <2>6, <2>7 DEF IndexesAgree
<1>9. ASSUME NEW q \in Reviewers
      PROVE  /\ calls'[q].pc \in Busy <=> calls[q].pc \in Busy
             /\ MakesRoom(q) => MakesRoom(q)'
             /\ calls[q].pc \in Busy => (MakesRoomAlone(q) => MakesRoomAlone(q)')
  <2>1. CASE q = r BY <1>1, <1>2, <1>3, <2>1 DEF Busy, Storing, MakesRoom
  <2>2. CASE q # r BY <1>1, <1>2, <2>2 DEF MakesRoom, MakesRoomAlone
  <2> QED BY <2>1, <2>2
<1>10. RoomIsMade'
    BY <1>1, <1>9 DEF StoreInv, RoomIsMade
<1>11. OneAtATime'
  <2>1. OneAtATime BY DEF StoreInv
  <2>2. Newest(listed, saved) => Newest(listed, saved)' BY <1>1 DEF Newest
  <2> QED BY <1>1, <1>9, <2>1, <2>2 DEF OneAtATime
<1>12. /\ issued' \in Nat /\ DOMAIN reviews' \subseteq 1..issued'
       /\ saved' \subseteq 1..issued' /\ listed' \subseteq saved'
    BY <1>1, <1>4, <1>5
<1>13. QED  BY <1>2, <1>6, <1>7, <1>8, <1>10, <1>11, <1>12 DEF StoreInv

LEMMA IndexKeeps ==
    ASSUME StoreInv, NEW r \in Reviewers, Index(r)
    PROVE  StoreInv'
<1> DEFINE c == calls[r]
           id == c.id
           d == [pc |-> "counting", id |-> id]
<1>1. /\ c.pc = "indexing" /\ Goto(r, d)
      /\ listed' = listed \cup {id} /\ bySubject' = bySubject \cup {<<c.subject, id>>}
      /\ saved' = saved \cup {id}
      /\ reviews' = reviews /\ issued' = issued
      /\ mishaps \subseteq mishaps'
      /\ (\E q \in Reviewers : calls[q].pc \in Busy) => mishaps' # {}
    BY DEF Index, Busy
<1>2. /\ calls' = [q \in Reviewers |-> calls'[q]] /\ calls'[r] = d
      /\ \A q \in Reviewers \ {r} : calls'[q] = calls[q]
    BY <1>1, CallsMove
<1>3. d.pc = "counting" /\ d.id = id
    OBVIOUS
<1> HIDE DEF d
<1>4. /\ issued \in Nat /\ DOMAIN reviews \subseteq 1..issued /\ saved \subseteq 1..issued
      /\ listed \subseteq saved
    BY DEF StoreInv
<1>5. id \in DOMAIN reviews /\ id \notin saved /\ reviews[id].subject = c.subject
    BY <1>1 DEF StoreInv, StoringFits
<1>6. \A q \in Reviewers : StoringFits(q)'
  <2>1. StoringFits(r)'
      BY <1>1, <1>2, <1>3 DEF StoringFits
  <2>2. \A q \in Reviewers \ {r} : StoringFits(q)'
      BY <1>1, <1>2, OthersFit
  <2> QED BY <2>1, <2>2
<1>7. \A p, q \in Reviewers :
          calls'[p].pc = "indexing" /\ calls'[q].pc = "indexing" /\ calls'[p].id = calls'[q].id
              => p = q
    BY <1>2, <1>3 DEF StoreInv
<1>8. IndexesAgree'
  <2>1. IndexesAgree BY DEF StoreInv
  <2>2. {<<reviews[i].subject, i>> : i \in listed \cup {id}}
           = {<<reviews[i].subject, i>> : i \in listed} \cup {<<c.subject, id>>}
      BY <1>5
  <2>3. ASSUME "death" \notin mishaps, NEW i \in DOMAIN reviews \ (listed \cup {id})
        PROVE  \E q \in Reviewers : calls'[q].pc = "indexing" /\ calls'[q].id = i
    <3>1. PICK q \in Reviewers : calls[q].pc = "indexing" /\ calls[q].id = i
        BY <2>1, <2>3 DEF IndexesAgree
    <3>2. q # r BY <2>3, <3>1
    <3> QED BY <1>2, <3>1, <3>2
  <2>4. listed' \subseteq DOMAIN reviews' BY <1>1, <1>5, <2>1 DEF IndexesAgree
  <2>5. bySubject' = {<<reviews'[i].subject, i>> : i \in listed'}
      BY <1>1, <2>1, <2>2 DEF IndexesAgree
  <2>6. "death" \notin mishaps' => "death" \notin mishaps BY <1>1
  <2> QED BY <1>1, <2>3, <2>4, <2>5, <2>6 DEF IndexesAgree
<1>9. RoomIsMade'
    BY <1>2, <1>3 DEF RoomIsMade, MakesRoom
<1>10. OneAtATime'
  <2> SUFFICES ASSUME mishaps' = {}
               PROVE  /\ \A p, q \in Reviewers : calls'[p].pc \in Busy /\ calls'[q].pc \in Busy
                                                   => p = q
                      /\ \A q \in Reviewers : calls'[q].pc \in Busy => MakesRoomAlone(q)'
                      /\ (\A q \in Reviewers : calls'[q].pc \notin Busy) => Newest(listed, saved)'
      BY DEF OneAtATime
  <2>1. mishaps = {} /\ \A q \in Reviewers : calls[q].pc \notin Busy
      BY <1>1
  <2>2. Newest(listed, saved) BY <2>1 DEF StoreInv, OneAtATime
  <2>3. calls'[r].pc \in Busy /\ \A q \in Reviewers \ {r} : calls'[q].pc \notin Busy
      BY <1>2, <1>3, <2>1 DEF Busy, Storing
  <2>4. listed' \ {id} = listed /\ saved' \ {id} = saved
      BY <1>1, <1>4, <1>5
  <2>5. MakesRoomAlone(r)'
      BY <1>1, <1>2, <1>3, <2>2, <2>4 DEF MakesRoomAlone
  <2> QED BY <2>3, <2>5
<1>11. /\ issued' \in Nat /\ DOMAIN reviews' \subseteq 1..issued'
       /\ saved' \subseteq 1..issued' /\ listed' \subseteq saved'
    BY <1>1, <1>4, <1>5
<1>12. QED  BY <1>2, <1>6, <1>7, <1>8, <1>9, <1>10, <1>11 DEF StoreInv

\* The indexes, while no request begins or ends to index.
LEMMA RestAgree ==
    ASSUME StoreInv, UNCHANGED <<reviews, listed, bySubject, mishaps>>,
           \A q \in Reviewers : calls[q].pc = "indexing" => calls'[q] = calls[q]
    PROVE  IndexesAgree'
<1>1. IndexesAgree
    BY DEF StoreInv
<1>2. ASSUME "death" \notin mishaps, NEW i \in DOMAIN reviews \ listed
      PROVE  \E q \in Reviewers : calls'[q].pc = "indexing" /\ calls'[q].id = i
  <2>1. PICK q \in Reviewers : calls[q].pc = "indexing" /\ calls[q].id = i
      BY <1>1, <1>2 DEF IndexesAgree
  <2> QED BY <2>1
<1>3. QED  BY <1>1, <1>2 DEF IndexesAgree

LEMMA CountKeeps ==
    ASSUME StoreInv, NEW r \in Reviewers, Count(r)
    PROVE  StoreInv'
<1> DEFINE c == calls[r]
           d == IF Overflow > 0 THEN [pc |-> "ranging", id |-> c.id, overflow |-> Overflow]
                ELSE Idle
           others == listed \ {c.id}
<1>1. /\ c.pc = "counting" /\ Goto(r, d)
      /\ UNCHANGED <<reviews, listed, bySubject, issued, saved, mishaps>>
    BY DEF Count, store
<1>2. /\ calls' = [q \in Reviewers |-> calls'[q]] /\ calls'[r] = d
      /\ \A q \in Reviewers \ {r} : calls'[q] = calls[q]
    BY <1>1, CallsMove
<1>3. /\ IsFiniteSet(listed) /\ Cardinality(listed) \in Nat
      /\ Overflow = Cardinality(listed) - Retention /\ Retention \in Nat \ {0}
    BY StoreNumbers, RetentionAssumption DEF Overflow
<1>4. Overflow > 0 => d.pc = "ranging" /\ d.id = c.id /\ d.overflow = Overflow
    OBVIOUS
<1>5. ~ (Overflow > 0) => d.pc = "idle"
    BY DEF Idle
<1> HIDE DEF d
<1>6. c.id \in saved
    BY <1>1 DEF StoreInv, StoringFits
<1>7. \A q \in Reviewers : StoringFits(q)'
  <2>1. StoringFits(r)'
      BY <1>1, <1>2, <1>3, <1>4, <1>5, <1>6 DEF StoringFits
  <2>2. \A q \in Reviewers \ {r} : StoringFits(q)'
      BY <1>1, <1>2, OthersFit
  <2> QED BY <2>1, <2>2
<1>8. /\ d.pc # "indexing"
      /\ \A q \in Reviewers : calls[q].pc = "indexing" => calls'[q] = calls[q]
    BY <1>1, <1>2, <1>4, <1>5
<1>9. RoomIsMade'
  <2> SUFFICES ASSUME "death" \notin mishaps
               PROVE  Cardinality(listed) <= Retention \/ \E q \in Reviewers : MakesRoom(q)'
      BY <1>1 DEF RoomIsMade
  <2>1. CASE Overflow > 0
    <3>1. Cardinality(listed) <= Retention + Overflow BY <1>3
    <3>2. MakesRoom(r)' BY <1>1, <1>2, <1>4, <2>1, <3>1 DEF MakesRoom
    <3> QED BY <3>2
  <2>2. CASE ~ (Overflow > 0) BY <1>3, <2>2
  <2> QED BY <2>1, <2>2
<1>10. OneAtATime'
  <2> SUFFICES ASSUME mishaps = {}
               PROVE  /\ \A p, q \in Reviewers : calls'[p].pc \in Busy /\ calls'[q].pc \in Busy
                                                   => p = q
                      /\ \A q \in Reviewers : calls'[q].pc \in Busy => MakesRoomAlone(q)'
                      /\ (\A q \in Reviewers : calls'[q].pc \notin Busy) => Newest(listed, saved)'
      BY <1>1 DEF OneAtATime
  <2>1. /\ calls[r].pc \in Busy
        /\ \A p, q \in Reviewers : calls[p].pc \in Busy /\ calls[q].pc \in Busy => p = q
        /\ \A q \in Reviewers : calls[q].pc \in Busy => MakesRoomAlone(q)
      BY <1>1 DEF StoreInv, OneAtATime, Busy, Storing
  <2>2. c.id \in listed /\ Newest(others, saved \ {c.id})
      BY <2>1 DEF MakesRoomAlone
  <2>3. /\ Cardinality(others) \in Nat /\ Cardinality(others) <= Retention
        /\ Cardinality(listed) = Cardinality(others) + 1
    <3>1. others \in SUBSET saved BY StoreNumbers
    <3>2. Cardinality(others) = Cardinality(listed) - 1 BY <1>3, <2>2, FS_RemoveElement
    <3>3. Cardinality(others) \in Nat BY <3>1, StoreNumbers
    <3>4. Cardinality(others) <= Retention BY <2>2 DEF Newest
    <3> QED BY <1>3, <3>2, <3>3, <3>4
  <2>4. \A q \in Reviewers \ {r} : calls'[q].pc \notin Busy
      BY <1>2, <2>1
  <2>5. CASE Overflow > 0
    <3>1. Overflow = 1 /\ Cardinality(others) = Retention BY <1>3, <2>3, <2>5
    <3>2. MakesRoomAlone(r)'
        BY <1>1, <1>2, <1>4, <2>2, <2>5, <3>1 DEF MakesRoomAlone
    <3>3. calls'[r].pc \in Busy BY <1>2, <1>4, <2>5 DEF Busy, Storing
    <3> QED BY <2>4, <3>2, <3>3
  <2>6. CASE ~ (Overflow > 0)
    <3>1. Cardinality(others) # Retention /\ Cardinality(listed) <= Retention
        BY <1>3, <2>3, <2>6
    <3>2. saved \ {c.id} = others BY <2>2, <3>1 DEF Newest
    <3>3. saved = listed BY <1>6, <2>2, <3>2
    <3>4. Newest(listed, saved)' BY <1>1, <3>1, <3>3 DEF Newest
    <3>5. calls'[r].pc \notin Busy BY <1>2, <1>5, <2>6 DEF Busy, Storing
    <3> QED BY <2>4, <3>4, <3>5
  <2> QED BY <2>5, <2>6
<1>11. IndexesAgree'
    BY <1>1, <1>8, RestAgree
<1>12. \A p, q \in Reviewers :
          calls'[p].pc = "indexing" /\ calls'[q].pc = "indexing" /\ calls'[p].id = calls'[q].id
              => p = q
    BY <1>2, <1>8 DEF StoreInv
<1>13. QED  BY <1>1, <1>2, <1>7, <1>9, <1>10, <1>11, <1>12 DEF StoreInv

LEMMA ListExpiredKeeps ==
    ASSUME StoreInv, NEW r \in Reviewers, ListExpired(r)
    PROVE  StoreInv'
<1> DEFINE c == calls[r]
           n == c.overflow
           ids == Expired(n)
           d == IF ids = {} THEN Idle ELSE [pc |-> "expiring", id |-> c.id, ids |-> ids]
<1>1. /\ c.pc = "ranging" /\ Goto(r, d)
      /\ UNCHANGED <<reviews, listed, bySubject, issued, saved, mishaps>>
    BY DEF ListExpired, store
<1>2. /\ calls' = [q \in Reviewers |-> calls'[q]] /\ calls'[r] = d
      /\ \A q \in Reviewers \ {r} : calls'[q] = calls[q]
    BY <1>1, CallsMove
<1>3. /\ IsFiniteSet(listed) /\ Cardinality(listed) \in Nat /\ Retention \in Nat \ {0}
      /\ listed \in SUBSET Nat /\ listed \subseteq saved
    BY StoreNumbers, RetentionAssumption
<1>4. n \in Nat \ {0} /\ c.id \in saved
    BY <1>1 DEF StoreInv, StoringFits
<1>5. ids = {i \in listed : Cardinality({j \in listed : j < i}) < n} /\ ids \in SUBSET listed
    BY DEF Expired, Older
<1>6. listed \ ids = {} \/ Cardinality(listed \ ids) + n <= Cardinality(listed)
  <2> HIDE DEF ids, n
  <2>1. n \in Nat BY <1>4
  <2> QED BY <1>3, <1>5, <2>1, TrimmedCount
<1>7. ids # {} => /\ d.pc = "expiring" /\ d.id = c.id /\ d.ids = ids
                  /\ {"pc", "id", "ids"} \subseteq DOMAIN d
    OBVIOUS
<1>8. ids = {} => d.pc = "idle"
    BY DEF Idle
<1> HIDE DEF d, ids
<1>9. \A q \in Reviewers : StoringFits(q)'
  <2>1. StoringFits(r)'
      BY <1>1, <1>2, <1>3, <1>5, <1>7, <1>8 DEF StoringFits
  <2>2. \A q \in Reviewers \ {r} : StoringFits(q)'
      BY <1>1, <1>2, OthersFit
  <2> QED BY <2>1, <2>2
<1>10. /\ d.pc # "indexing"
       /\ \A q \in Reviewers : calls[q].pc = "indexing" => calls'[q] = calls[q]
    BY <1>1, <1>2, <1>7, <1>8
<1>11. ids = {} => Cardinality(listed) = 0
  <2> SUFFICES ASSUME ids = {} PROVE listed = {}
      BY FS_EmptySet
  <2>1. listed \ ids = listed OBVIOUS
  <2> QED BY <1>3, <1>4, <1>6, <2>1
<1>12. RoomIsMade'
  <2> SUFFICES ASSUME "death" \notin mishaps
               PROVE  Cardinality(listed) <= Retention \/ \E q \in Reviewers : MakesRoom(q)'
      BY <1>1 DEF RoomIsMade
  <2>1. CASE ids = {} BY <1>3, <1>11, <2>1
  <2>2. CASE ids # {}
    <3>1. Cardinality(listed) <= Retention \/ \E q \in Reviewers : MakesRoom(q)
        BY DEF StoreInv, RoomIsMade
    <3>2. ASSUME MakesRoom(r) PROVE MakesRoom(r)'
      <4>1. Cardinality(listed) <= Retention + n BY <1>1, <3>2 DEF MakesRoom
      <4>2. listed \ ids \in SUBSET saved BY <1>3
      <4>3. Cardinality(listed \ ids) \in Nat BY <4>2, StoreNumbers
      <4>4. listed \ ids = {} => Cardinality(listed \ ids) = 0 BY FS_EmptySet
      <4>5. Cardinality(listed \ ids) <= Retention BY <1>3, <1>4, <1>6, <4>1, <4>3, <4>4
      <4> QED BY <1>1, <1>2, <1>7, <2>2, <4>5 DEF MakesRoom
    <3>3. ASSUME NEW q \in Reviewers \ {r}, MakesRoom(q) PROVE MakesRoom(q)'
        BY <1>1, <1>2, <3>3 DEF MakesRoom
    <3> QED BY <3>1, <3>2, <3>3
  <2> QED BY <2>1, <2>2
<1>13. OneAtATime'
  <2> SUFFICES ASSUME mishaps = {}
               PROVE  /\ \A p, q \in Reviewers : calls'[p].pc \in Busy /\ calls'[q].pc \in Busy
                                                   => p = q
                      /\ \A q \in Reviewers : calls'[q].pc \in Busy => MakesRoomAlone(q)'
                      /\ (\A q \in Reviewers : calls'[q].pc \notin Busy) => Newest(listed, saved)'
      BY <1>1 DEF OneAtATime
  <2>1. /\ calls[r].pc \in Busy
        /\ \A p, q \in Reviewers : calls[p].pc \in Busy /\ calls[q].pc \in Busy => p = q
        /\ \A q \in Reviewers : calls[q].pc \in Busy => MakesRoomAlone(q)
      BY <1>1 DEF StoreInv, OneAtATime, Busy, Storing
  <2>2. /\ c.id \in listed /\ Newest(listed \ {c.id}, saved \ {c.id})
        /\ n = 1 /\ Cardinality(listed \ {c.id}) = Retention
      BY <1>1, <2>1 DEF MakesRoomAlone
  <2>3. ids = {Min(listed)}
    <3>1. listed # {} BY <2>2
    <3>2. {i \in listed : Cardinality({j \in listed : j < i}) < 1} = {Min(listed)}
        BY <1>3, <3>1, FirstIsLeast
    <3> QED BY <1>5, <2>2, <3>2
  <2>4. calls'[r].pc \in Busy BY <1>2, <1>7, <2>3 DEF Busy, Storing
  <2>5. \A q \in Reviewers \ {r} : calls'[q].pc \notin Busy
      BY <1>2, <2>1
  <2>6. MakesRoomAlone(r)'
      BY <1>1, <1>2, <1>7, <2>2, <2>3 DEF MakesRoomAlone
  <2> QED BY <2>4, <2>5, <2>6
<1>14. IndexesAgree'
    BY <1>1, <1>10, RestAgree
<1>15. \A p, q \in Reviewers :
          calls'[p].pc = "indexing" /\ calls'[q].pc = "indexing" /\ calls'[p].id = calls'[q].id
              => p = q
    BY <1>2, <1>10 DEF StoreInv
<1>16. QED  BY <1>1, <1>2, <1>9, <1>12, <1>13, <1>14, <1>15 DEF StoreInv

\* The oldest that is listed goes, and the newest remain.
LEMMA NewestRemain ==
    ASSUME StoreInv, NEW id \in listed, Newest(listed \ {id}, saved \ {id}),
           Cardinality(listed \ {id}) = Retention
    PROVE  Newest(listed \ {Min(listed)}, saved)
<1> DEFINE m == Min(listed)
           left == listed \ {m}
<1>1. /\ listed \in SUBSET Int /\ IsFiniteSet(listed) /\ Cardinality(listed) \in Nat
      /\ listed \subseteq saved /\ saved \in SUBSET Int
    BY StoreNumbers
<1>2. m \in listed /\ \A j \in listed : m <= j
    BY <1>1, LeastInteger
<1> HIDE DEF m
<1>3. Cardinality(left) = Retention
  <2>1. Cardinality(left) = Cardinality(listed) - 1 BY <1>1, <1>2, FS_RemoveElement
  <2>2. Cardinality(listed \ {id}) = Cardinality(listed) - 1 BY <1>1, FS_RemoveElement
  <2> QED BY <2>1, <2>2
<1>4. ASSUME NEW i \in saved \ left, NEW j \in left PROVE i < j
  <2>1. i \in Int /\ j \in Int /\ id \in Int /\ m \in Int BY <1>1, <1>2
  <2>2. m < j BY <1>2, <2>1
  <2>3. CASE i = m BY <2>2, <2>3
  <2>4. CASE i # m
    <3>1. i \in (saved \ {id}) \ (listed \ {id}) BY <2>4
    <3>2. CASE j # id
      <4>1. j \in listed \ {id} BY <3>2
      <4> QED BY <3>1, <4>1 DEF Newest
    <3>3. CASE j = id
      <4>1. m \in listed \ {id} BY <1>2, <3>3
      <4>2. i < m BY <3>1, <4>1 DEF Newest
      <4> QED BY <2>1, <2>2, <4>2
    <3> QED BY <3>2, <3>3
  <2> QED BY <2>3, <2>4
<1>5. left \subseteq saved /\ Cardinality(left) <= Retention
  <2>1. left \subseteq saved BY <1>1
  <2> HIDE DEF left
  <2> QED BY <1>3, <2>1, RetentionAssumption
<1>6. Newest(left, saved)
  <2> HIDE DEF left
  <2> QED BY <1>3, <1>4, <1>5 DEF Newest
<1>7. QED  BY <1>6 DEF m

LEMMA ExpireKeeps ==
    ASSUME StoreInv, NEW r \in Reviewers, Expire(r)
    PROVE  StoreInv'
<1> DEFINE c == calls[r]
           i == Min(c.ids)
           d == IF c.ids = {i} THEN Idle ELSE [c EXCEPT !.ids = @ \ {i}]
<1>1. /\ c.pc = "expiring" /\ Goto(r, d)
      /\ listed' = listed \ {i} /\ bySubject' = WithoutSubject(i)
      /\ reviews' = [j \in DOMAIN reviews \ {i} |-> reviews[j]]
      /\ UNCHANGED <<issued, saved, mishaps>>
    BY DEF Expire
<1>2. /\ calls' = [q \in Reviewers |-> calls'[q]] /\ calls'[r] = d
      /\ \A q \in Reviewers \ {r} : calls'[q] = calls[q]
    BY <1>1, CallsMove
<1>3. c.ids \subseteq saved /\ c.ids # {} /\ {"pc", "id", "ids"} \subseteq DOMAIN c
    BY <1>1 DEF StoreInv, StoringFits
<1>4. i \in c.ids
  <2>1. c.ids \in SUBSET Int /\ IsFiniteSet(c.ids) BY <1>3, StoreNumbers
  <2> QED BY <1>3, <2>1, LeastInteger
<1>5. c.ids # {i} => /\ d.pc = "expiring" /\ d.id = c.id /\ d.ids = c.ids \ {i}
                     /\ {"pc", "id", "ids"} \subseteq DOMAIN d
    BY <1>1, <1>3
<1>6. c.ids = {i} => d.pc = "idle"
    BY DEF Idle
<1> HIDE DEF d, i
<1>7. /\ issued \in Nat /\ DOMAIN reviews \subseteq 1..issued /\ saved \subseteq 1..issued
      /\ listed \subseteq saved
    BY DEF StoreInv
<1>8. /\ DOMAIN reviews' = DOMAIN reviews \ {i}
      /\ \A j \in DOMAIN reviews \ {i} : reviews'[j] = reviews[j]
    BY <1>1
<1>9. \A q \in Reviewers : StoringFits(q)'
  <2>1. StoringFits(r)'
    <3>1. CASE c.ids = {i} BY <1>2, <1>6, <3>1 DEF StoringFits
    <3>2. CASE c.ids # {i}
      <4>1. c.ids \ {i} # {} /\ c.ids \ {i} \subseteq saved' BY <1>1, <1>3, <1>4, <3>2
      <4> QED BY <1>2, <1>5, <3>2, <4>1 DEF StoringFits
    <3> QED BY <3>1, <3>2
  <2>2. \A q \in Reviewers \ {r} : StoringFits(q)'
    <3>1. DOMAIN reviews \ saved \subseteq DOMAIN reviews' BY <1>3, <1>4, <1>8
    <3>2. \A j \in DOMAIN reviews \cap DOMAIN reviews' : reviews'[j] = reviews[j] BY <1>8
    <3>3. saved' = saved BY <1>1
    <3> QED BY <1>2, <3>1, <3>2, <3>3, OthersFit
  <2> QED BY <2>1, <2>2
<1>10. /\ d.pc # "indexing"
       /\ \A q \in Reviewers : calls[q].pc = "indexing" => calls'[q] = calls[q]
    BY <1>1, <1>2, <1>5, <1>6
<1>11. IndexesAgree'
  <2>1. IndexesAgree BY DEF StoreInv
  <2>2. listed' \subseteq DOMAIN reviews' BY <1>1, <1>8, <2>1 DEF IndexesAgree
  <2>3. \A j \in listed' : reviews'[j] = reviews[j] BY <1>1, <1>8, <2>1 DEF IndexesAgree
  <2>4. bySubject' = {<<reviews[j].subject, j>> : j \in listed'}
    <3>1. CASE i \in DOMAIN reviews
      <4>1. bySubject' = {x \in bySubject : x # <<reviews[i].subject, i>>}
          BY <1>1, <3>1 DEF WithoutSubject
      <4> QED BY <1>1, <2>1, <4>1 DEF IndexesAgree
    <3>2. CASE i \notin DOMAIN reviews
      <4>1. bySubject' = bySubject BY <1>1, <3>2 DEF WithoutSubject
      <4>2. i \notin listed BY <2>1, <3>2 DEF IndexesAgree
      <4>3. listed' = listed BY <1>1, <4>2
      <4> QED BY <2>1, <4>1, <4>3 DEF IndexesAgree
    <3> QED BY <3>1, <3>2
  <2>5. {<<reviews[j].subject, j>> : j \in listed'} = {<<reviews'[j].subject, j>> : j \in listed'}
      BY <2>3
  <2>6. ASSUME "death" \notin mishaps, NEW j \in DOMAIN reviews' \ listed'
        PROVE  \E q \in Reviewers : calls'[q].pc = "indexing" /\ calls'[q].id = j
    <3>1. j \in DOMAIN reviews \ listed BY <1>1, <1>8, <2>6
    <3>2. PICK q \in Reviewers : calls[q].pc = "indexing" /\ calls[q].id = j
        BY <2>1, <2>6, <3>1 DEF IndexesAgree
    <3> QED BY <1>10, <3>2
  <2>7. mishaps' = mishaps BY <1>1
  <2>8. bySubject' = {<<reviews'[j].subject, j>> : j \in listed'} BY <2>4, <2>5
  <2> QED BY <2>2, <2>6, <2>7, <2>8 DEF IndexesAgree
<1>12. /\ IsFiniteSet(listed) /\ Cardinality(listed) \in Nat /\ Cardinality(listed') \in Nat
       /\ Cardinality(listed') <= Cardinality(listed) /\ Retention \in Nat \ {0}
  <2>1. listed' \in SUBSET listed /\ listed \in SUBSET saved /\ listed' \in SUBSET saved
      BY <1>1, <1>7
  <2>2. IsFiniteSet(listed) /\ Cardinality(listed) \in Nat /\ Cardinality(listed') \in Nat
      BY <2>1, StoreNumbers
  <2> QED BY <2>1, <2>2, FS_Subset, RetentionAssumption
<1>13. RoomIsMade'
  <2> SUFFICES ASSUME "death" \notin mishaps
               PROVE  Cardinality(listed') <= Retention \/ \E q \in Reviewers : MakesRoom(q)'
      BY <1>1 DEF RoomIsMade
  <2>1. Cardinality(listed) <= Retention \/ \E q \in Reviewers : MakesRoom(q)
      BY DEF StoreInv, RoomIsMade
  <2>2. CASE Cardinality(listed) <= Retention BY <1>12, <2>2
  <2>3. ASSUME MakesRoom(r)
        PROVE  Cardinality(listed') <= Retention \/ MakesRoom(r)'
    <3>1. Cardinality(listed \ c.ids) <= Retention BY <1>1, <2>3 DEF MakesRoom
    <3>2. CASE c.ids = {i} BY <1>1, <3>1, <3>2
    <3>3. CASE c.ids # {i}
      <4>1. listed' \ (c.ids \ {i}) = listed \ c.ids BY <1>1, <1>4
      <4> QED BY <1>2, <1>5, <3>1, <3>3, <4>1 DEF MakesRoom
    <3> QED BY <3>2, <3>3
  <2>4. ASSUME NEW q \in Reviewers \ {r}, MakesRoom(q) PROVE MakesRoom(q)'
    <3>1. calls'[q] = calls[q] /\ StoringFits(q) BY <1>2 DEF StoreInv
    <3>2. CASE calls[q].pc = "counting" BY <3>1, <3>2 DEF MakesRoom
    <3>3. CASE calls[q].pc = "ranging"
      <4>1. calls[q].overflow \in Nat BY <3>1, <3>3 DEF StoringFits
      <4>2. Cardinality(listed) <= Retention + calls[q].overflow BY <2>4, <3>3 DEF MakesRoom
      <4>3. Cardinality(listed') <= Retention + calls[q].overflow BY <1>12, <4>1, <4>2
      <4> QED BY <3>1, <3>3, <4>3 DEF MakesRoom
    <3>4. CASE calls[q].pc = "expiring"
      <4> DEFINE A == listed \ calls[q].ids
                 B == listed' \ calls[q].ids
      <4>1. B \subseteq A /\ A \in SUBSET saved /\ B \in SUBSET saved BY <1>1, <1>7
      <4>2. Cardinality(A) <= Retention BY <2>4, <3>4 DEF MakesRoom
      <4>3. IsFiniteSet(A) /\ Cardinality(A) \in Nat /\ Cardinality(B) \in Nat
          BY <4>1, StoreNumbers
      <4>4. Cardinality(B) <= Cardinality(A) BY <4>1, <4>3, FS_Subset
      <4>5. Cardinality(B) <= Retention BY <1>12, <4>2, <4>3, <4>4
      <4> QED BY <3>1, <3>4, <4>5 DEF MakesRoom
    <3> QED BY <2>4, <3>2, <3>3, <3>4 DEF MakesRoom
  <2> QED BY <2>1, <2>2, <2>3, <2>4
<1>14. OneAtATime'
  <2> SUFFICES ASSUME mishaps = {}
               PROVE  /\ \A p, q \in Reviewers : calls'[p].pc \in Busy /\ calls'[q].pc \in Busy
                                                   => p = q
                      /\ \A q \in Reviewers : calls'[q].pc \in Busy => MakesRoomAlone(q)'
                      /\ (\A q \in Reviewers : calls'[q].pc \notin Busy) => Newest(listed, saved)'
      BY <1>1 DEF OneAtATime
  <2>1. /\ calls[r].pc \in Busy
        /\ \A p, q \in Reviewers : calls[p].pc \in Busy /\ calls[q].pc \in Busy => p = q
        /\ \A q \in Reviewers : calls[q].pc \in Busy => MakesRoomAlone(q)
      BY <1>1 DEF StoreInv, OneAtATime, Busy, Storing
  <2>2. /\ c.id \in listed /\ Newest(listed \ {c.id}, saved \ {c.id})
        /\ c.ids = {Min(listed)} /\ Cardinality(listed \ {c.id}) = Retention
      BY <1>1, <2>1 DEF MakesRoomAlone
  <2>3. i = Min(listed) /\ c.ids = {i} BY <1>4, <2>2
  <2>4. Newest(listed \ {i}, saved) BY <2>2, <2>3, NewestRemain
  <2>5. Newest(listed, saved)' BY <1>1, <2>4 DEF Newest
  <2>6. \A q \in Reviewers : calls'[q].pc \notin Busy
      BY <1>2, <1>6, <2>1, <2>3 DEF Busy, Storing
  <2> QED BY <2>5, <2>6
<1>15. \A p, q \in Reviewers :
          calls'[p].pc = "indexing" /\ calls'[q].pc = "indexing" /\ calls'[p].id = calls'[q].id
              => p = q
    BY <1>2, <1>10 DEF StoreInv
<1>16. /\ issued' \in Nat /\ DOMAIN reviews' \subseteq 1..issued'
       /\ saved' \subseteq 1..issued' /\ listed' \subseteq saved'
    BY <1>1, <1>7, <1>8
<1>17. QED  BY <1>2, <1>9, <1>11, <1>13, <1>14, <1>15, <1>16 DEF StoreInv

LEMMA DieKeeps ==
    ASSUME StoreInv, NEW r \in Reviewers, Die(r)
    PROVE  StoreInv'
<1>1. /\ Goto(r, Idle) /\ "death" \in mishaps'
      /\ UNCHANGED <<reviews, listed, bySubject, issued, saved>>
    BY DEF Die
<1>2. /\ calls' = [q \in Reviewers |-> calls'[q]] /\ calls'[r] = Idle
      /\ \A q \in Reviewers \ {r} : calls'[q] = calls[q]
    BY <1>1, CallsMove
<1>3. Idle.pc = "idle"
    BY DEF Idle
<1>4. \A q \in Reviewers : StoringFits(q)'
  <2>1. StoringFits(r)' BY <1>2, <1>3 DEF StoringFits
  <2>2. \A q \in Reviewers \ {r} : StoringFits(q)'
      BY <1>1, <1>2, OthersFit
  <2> QED BY <2>1, <2>2
<1>5. IndexesAgree' /\ RoomIsMade' /\ OneAtATime'
    BY <1>1 DEF StoreInv, IndexesAgree, RoomIsMade, OneAtATime
<1>6. \A p, q \in Reviewers :
          calls'[p].pc = "indexing" /\ calls'[q].pc = "indexing" /\ calls'[p].id = calls'[q].id
              => p = q
    BY <1>2, <1>3 DEF StoreInv
<1>7. QED  BY <1>1, <1>2, <1>4, <1>5, <1>6 DEF StoreInv

\* A request that stores nothing yet, or no more.
LEMMA RequestRests ==
    ASSUME StoreInv, NEW r \in Reviewers, NEW c, Goto(r, c), UNCHANGED store,
           calls[r].pc \notin Storing, c.pc \notin Storing
    PROVE  StoreInv'
<1>1. /\ calls' = [q \in Reviewers |-> calls'[q]] /\ calls'[r] = c
      /\ \A q \in Reviewers \ {r} : calls'[q] = calls[q]
    BY CallsMove
<1>2. ASSUME NEW q \in Reviewers, calls[q].pc \in Storing \/ calls'[q].pc \in Storing
      PROVE  calls'[q] = calls[q]
    BY <1>1, <1>2
<1>3. QED  BY <1>1, <1>2, StoreRests

LEMMA ReadingKeeps ==
    ASSUME StoreInv, NEW r \in Reviewers,
           \/ \E s, t : Project(r, s, t)
           \/ \E request : PreviewSales(r, request)
           \/ ScoreProjected(r) \/ Refuse(r) \/ ScoreSales(r) \/ RecommendSales(r) \/ Answer(r)
    PROVE  StoreInv'
<1> USE DEF Storing
<1>1. Idle.pc = "idle"
    BY DEF Idle
<1>2. ASSUME NEW s, NEW t, Project(r, s, t) PROVE StoreInv'
  <2>1. PICK c : Goto(r, c) /\ c.pc = "projected" /\ UNCHANGED store /\ calls[r] = Idle
      BY <1>2 DEF Project, MayBegin
  <2> QED BY <1>1, <2>1, RequestRests
<1>3. ASSUME NEW request, PreviewSales(r, request) PROVE StoreInv'
  <2>1. PICK c : Goto(r, c) /\ c.pc = "previewed" /\ UNCHANGED store /\ calls[r] = Idle
      BY <1>3 DEF PreviewSales, MayBegin
  <2> QED BY <1>1, <2>1, RequestRests
<1>4. ASSUME ScoreProjected(r) PROVE StoreInv'
  <2>1. PICK c : Goto(r, c) /\ c.pc = "recommended" /\ UNCHANGED store /\ calls[r].pc = "projected"
      BY <1>4 DEF ScoreProjected
  <2> QED BY <2>1, RequestRests
<1>5. ASSUME Refuse(r) PROVE StoreInv'
  <2>1. Goto(r, Idle) /\ UNCHANGED store /\ calls[r].pc \in {"projected", "previewed"}
      BY <1>5 DEF Refuse
  <2> QED BY <1>1, <2>1, RequestRests
<1>6. ASSUME ScoreSales(r) PROVE StoreInv'
  <2>1. PICK c : Goto(r, c) /\ c.pc = "scored" /\ UNCHANGED store /\ calls[r].pc = "previewed"
      BY <1>6 DEF ScoreSales
  <2> QED BY <2>1, RequestRests
<1>7. ASSUME RecommendSales(r) PROVE StoreInv'
  <2>1. PICK c : Goto(r, c) /\ c.pc = "recommended" /\ UNCHANGED store /\ calls[r].pc = "scored"
      BY <1>7 DEF RecommendSales
  <2> QED BY <2>1, RequestRests
<1>8. ASSUME Answer(r) PROVE StoreInv'
  <2>1. Goto(r, Idle) /\ UNCHANGED store /\ calls[r].pc = "recommended"
      BY <1>8 DEF Answer
  <2> QED BY <1>1, <2>1, RequestRests
<1>9. QED  BY <1>2, <1>3, <1>4, <1>5, <1>6, <1>7, <1>8

LEMMA StoreStep == StoreInv /\ [Next]_vars => StoreInv'
<1> SUFFICES ASSUME StoreInv, [Next]_vars PROVE StoreInv'
    OBVIOUS
<1>1. ASSUME UNCHANGED <<calls, store>> PROVE StoreInv'
  <2>1. calls' = [q \in Reviewers |-> calls'[q]] BY <1>1 DEF StoreInv
  <2> QED BY <1>1, <2>1, StoreRests
<1>2. CASE World
    BY <1>1, <1>2 DEF World, Tick, Ingest, Happen, Attest
<1>3. ASSUME NEW r \in Reviewers, Act(r) PROVE StoreInv'
  <2>1. CASE SetRecord(r) BY <2>1, SetRecordKeeps
  <2>2. CASE Index(r) BY <2>2, IndexKeeps
  <2>3. CASE Count(r) BY <2>3, CountKeeps
  <2>4. CASE ListExpired(r) BY <2>4, ListExpiredKeeps
  <2>5. CASE Expire(r) BY <2>5, ExpireKeeps
  <2>6. CASE Die(r) BY <2>6, DieKeeps
  <2>7. CASE \/ \E s, t : Project(r, s, t)
             \/ \E request : PreviewSales(r, request)
             \/ ScoreProjected(r) \/ Refuse(r) \/ ScoreSales(r) \/ RecommendSales(r) \/ Answer(r)
      BY <2>7, ReadingKeeps
  <2> QED BY <1>3, <2>1, <2>2, <2>3, <2>4, <2>5, <2>6, <2>7 DEF Act
<1>4. CASE UNCHANGED vars
    BY <1>1, <1>4 DEF vars
<1>5. QED  BY <1>2, <1>3, <1>4 DEF Next

LEMMA StoreInvHolds == Spec => []StoreInv
BY StoreInit, StoreStep, PTL DEF Spec

\* Whenever no request makes room, the newest reviews are listed and no more than are
\* retained, as long as requests neither overlapped nor died.
THEOREM NewestReviewsAreRetained == Spec => []NewestAreRetained
<1>1. StoreInv => NewestAreRetained
  <2> SUFFICES ASSUME StoreInv, \A r \in Reviewers : calls[r].pc \notin Busy
               PROVE  /\ "death" \notin mishaps => Cardinality(listed) <= Retention
                      /\ mishaps = {} =>
                            listed = {i \in saved : Cardinality({j \in saved : j > i}) < Retention}
      BY DEF NewestAreRetained, Busy
  <2>1. ASSUME "death" \notin mishaps PROVE Cardinality(listed) <= Retention
      BY <2>1 DEF StoreInv, RoomIsMade, MakesRoom, Busy, Storing
  <2>2. ASSUME mishaps = {}
        PROVE  listed = {i \in saved : Cardinality({j \in saved : j > i}) < Retention}
    <3>1. Newest(listed, saved) BY <2>2 DEF StoreInv, OneAtATime
    <3>2. saved \in SUBSET (1..issued) /\ issued \in Nat BY DEF StoreInv
    <3> QED BY <3>1, <3>2, NewestAre
  <2> QED BY <2>1, <2>2
<1>2. QED  BY <1>1, StoreInvHolds, PTL

\* Whoever overlapped or died, both indexes name the same readable reviews.
THEOREM ReviewIndexesAgree == Spec => []IndexesAgree
BY StoreInvHolds, PTL DEF StoreInv

-----------------------------------------------------------------------------
(* Recursion over the subsets of a finite set: it is defined, and once.    *)

\* Among sets of subsets of a finite set one is minimal.
LEMMA MinimalSubset ==
    ASSUME NEW S, IsFiniteSet(S), NEW B \in SUBSET (SUBSET S), B # {}
    PROVE  \E T \in B : \A U \in SUBSET T : U # T => U \notin B
<1>1. IsWellFoundedOn(StrictSubsetOrdering(S), FiniteSubsetsOf(S))
    BY FS_StrictSubsetOrderingWellFounded
<1>2. B \subseteq FiniteSubsetsOf(S)
    BY FS_Subset DEF FiniteSubsetsOf
<1>3. PICK T \in B : \A U \in B : <<U, T>> \notin StrictSubsetOrdering(S)
    BY <1>1, <1>2, WFMin
<1>4. ASSUME NEW U \in SUBSET T, U # T, U \in B PROVE FALSE
    BY <1>3, <1>4 DEF StrictSubsetOrdering
<1>5. QED  BY <1>4

\* A function on the subsets of S that takes off one element after the other.
IsFold(it, S, base, pick, step) ==
    it = [s \in SUBSET S |-> IF s = {} THEN base ELSE step[<<pick[s], it[s \ {pick[s]}]>>]]

LEMMA FoldUnique ==
    ASSUME NEW T, IsFiniteSet(T), NEW U \in SUBSET T, NEW base, NEW pick, NEW step,
           \A s \in SUBSET T : s # {} => pick[s] \in s,
           NEW it, NEW jt, IsFold(it, T, base, pick, step), IsFold(jt, U, base, pick, step)
    PROVE  \A s \in SUBSET U : it[s] = jt[s]
<1> DEFINE B == {s \in SUBSET U : it[s] # jt[s]}
<1> SUFFICES ASSUME B # {} PROVE FALSE
    OBVIOUS
<1>1. IsFiniteSet(U)
    BY FS_Subset
<1>2. PICK s \in B : \A r \in SUBSET s : r # s => r \notin B
  <2>1. B \in SUBSET (SUBSET U) OBVIOUS
  <2> HIDE DEF B
  <2> QED BY <1>1, <2>1, MinimalSubset
<1>3. s \in SUBSET U /\ s \in SUBSET T /\ it[s] # jt[s]
    OBVIOUS
<1>4. it[s] = IF s = {} THEN base ELSE step[<<pick[s], it[s \ {pick[s]}]>>]
    BY <1>3 DEF IsFold
<1>5. jt[s] = IF s = {} THEN base ELSE step[<<pick[s], jt[s \ {pick[s]}]>>]
    BY <1>3 DEF IsFold
<1>6. s # {} => it[s \ {pick[s]}] = jt[s \ {pick[s]}]
  <2> SUFFICES ASSUME s # {} PROVE it[s \ {pick[s]}] = jt[s \ {pick[s]}]
      OBVIOUS
  <2>1. pick[s] \in s BY <1>3
  <2>2. s \ {pick[s]} \in SUBSET s /\ s \ {pick[s]} # s BY <2>1
  <2>3. s \ {pick[s]} \in SUBSET U BY <1>3
  <2>4. s \ {pick[s]} \notin B BY <1>2, <2>2
  <2> QED BY <2>3, <2>4
<1>7. QED  BY <1>3, <1>4, <1>5, <1>6

LEMMA FoldExists ==
    ASSUME NEW S, IsFiniteSet(S), NEW V, NEW base \in V, NEW pick, NEW step \in [S \X V -> V],
           \A s \in SUBSET S : s # {} => pick[s] \in s
    PROVE  \E it \in [SUBSET S -> V] : IsFold(it, S, base, pick, step)
<1> DEFINE Good(T) == \E it \in [SUBSET T -> V] : IsFold(it, T, base, pick, step)
           B == {T \in SUBSET S : ~ Good(T)}
<1> SUFFICES ASSUME B # {} PROVE FALSE
    OBVIOUS
<1>1. PICK T \in B : \A U \in SUBSET T : U # T => U \notin B
  <2>1. B \in SUBSET (SUBSET S) OBVIOUS
  <2> HIDE DEF B
  <2> QED BY <2>1, MinimalSubset
<1>2. T \in SUBSET S /\ ~ Good(T)
    OBVIOUS
<1>3. \A U \in SUBSET T : U # T => Good(U)
    BY <1>1, <1>2
<1> DEFINE Sol(U) == CHOOSE it : it \in [SUBSET U -> V] /\ IsFold(it, U, base, pick, step)
           Rest(s) == s \ {pick[s]}
<1>4. \A U \in SUBSET T : U # T =>
          Sol(U) \in [SUBSET U -> V] /\ IsFold(Sol(U), U, base, pick, step)
    BY <1>3, Zenon
<1>5. \A s \in SUBSET T : s # {} =>
          /\ pick[s] \in s /\ pick[s] \in S
          /\ Rest(s) \in SUBSET s /\ Rest(s) \in SUBSET T /\ Rest(s) # T /\ Rest(s) # s
  <2> TAKE s \in SUBSET T
  <2> HAVE s # {}
  <2>1. pick[s] \in s BY <1>2
  <2> QED BY <1>2, <2>1
<1> DEFINE it == [s \in SUBSET T |->
                     IF s = {} THEN base ELSE step[<<pick[s], Sol(Rest(s))[Rest(s)]>>]]
<1> HIDE DEF Sol, Rest
<1>6. it \in [SUBSET T -> V]
  <2> SUFFICES ASSUME NEW s \in SUBSET T, s # {}
               PROVE  step[<<pick[s], Sol(Rest(s))[Rest(s)]>>] \in V
      OBVIOUS
  <2>1. Sol(Rest(s)) \in [SUBSET Rest(s) -> V] BY <1>4, <1>5
  <2>2. Sol(Rest(s))[Rest(s)] \in V BY <2>1
  <2>3. pick[s] \in S BY <1>5
  <2> QED BY <2>2, <2>3
<1>7. ASSUME NEW U \in SUBSET T, U # T PROVE it[U] = Sol(U)[U]
  <2>1. Sol(U)[U] = IF U = {} THEN base ELSE step[<<pick[U], Sol(U)[Rest(U)]>>]
    <3>1. IsFold(Sol(U), U, base, pick, step) BY <1>4, <1>7
    <3> QED BY <3>1 DEF IsFold, Rest
  <2>2. U # {} => Sol(U)[Rest(U)] = Sol(Rest(U))[Rest(U)]
    <3> SUFFICES ASSUME U # {} PROVE Sol(U)[Rest(U)] = Sol(Rest(U))[Rest(U)]
        OBVIOUS
    <3> DEFINE R == Rest(U)
    <3>1. R \in SUBSET U /\ R \in SUBSET T /\ R # T BY <1>5
    <3>2. IsFold(Sol(U), U, base, pick, step) BY <1>4, <1>7
    <3>3. IsFold(Sol(R), R, base, pick, step) BY <1>4, <3>1
    <3>4. IsFiniteSet(U) BY <1>2, FS_Subset
    <3>5. \A s \in SUBSET U : s # {} => pick[s] \in s BY <1>2
    <3> HIDE DEF R
    <3>6. \A s \in SUBSET R : Sol(U)[s] = Sol(R)[s]
        BY <3>1, <3>2, <3>3, <3>4, <3>5, FoldUnique
    <3>7. Sol(U)[R] = Sol(R)[R] BY <3>6
    <3> QED BY <3>7 DEF R
  <2>3. it[U] = IF U = {} THEN base ELSE step[<<pick[U], Sol(Rest(U))[Rest(U)]>>]
      OBVIOUS
  <2> QED BY <2>1, <2>2, <2>3
<1>8. \A s \in SUBSET T : s # {} => it[Rest(s)] = Sol(Rest(s))[Rest(s)]
    BY <1>5, <1>7
<1>9. IsFold(it, T, base, pick, step)
  <2>1. \A s \in SUBSET T :
          it[s] = IF s = {} THEN base ELSE step[<<pick[s], it[s \ {pick[s]}]>>]
    <3> TAKE s \in SUBSET T
    <3>1. it[s] = IF s = {} THEN base ELSE step[<<pick[s], Sol(Rest(s))[Rest(s)]>>]
        OBVIOUS
    <3>2. s # {} => it[s \ {pick[s]}] = Sol(Rest(s))[Rest(s)] BY <1>8 DEF Rest
    <3> QED BY <3>1, <3>2
  <2>2. it = [s \in SUBSET T |-> it[s]] OBVIOUS
  <2> HIDE DEF it
  <2> QED BY <2>1, <2>2 DEF IsFold
<1>10. QED  BY <1>2, <1>6, <1>9

\* A set of subsets that gains every set from the one with an element less.
LEMMA SubsetInduction ==
    ASSUME NEW S, IsFiniteSet(S), NEW G \in SUBSET (SUBSET S), {} \in G,
           \A U \in SUBSET S : \A x \in U : U \ {x} \in G => U \in G
    PROVE  S \in G
<1> DEFINE B == (SUBSET S) \ G
<1>1. B = {}
  <2> SUFFICES ASSUME B # {} PROVE FALSE
      OBVIOUS
  <2>1. PICK T \in B : \A U \in SUBSET T : U # T => U \notin B
    <3>1. B \in SUBSET (SUBSET S) OBVIOUS
    <3> HIDE DEF B
    <3> QED BY <3>1, MinimalSubset
  <2>2. T \in SUBSET S /\ T \notin G /\ T # {}
      OBVIOUS
  <2>3. PICK x \in T : TRUE
      BY <2>2
  <2>4. T \ {x} \in SUBSET T /\ T \ {x} # T
      BY <2>3
  <2>5. T \ {x} \in G
      BY <2>1, <2>2, <2>4
  <2> QED BY <2>2, <2>3, <2>5
<1>2. S \in SUBSET S
    OBVIOUS
<1>3. QED  BY <1>1, <1>2

-----------------------------------------------------------------------------
(* Sums over a finite set, in whatever order.                              *)

Taken(s) == CHOOSE x \in s : TRUE

\* The sum of v over a set, as SumFunction takes it.
SumsUp(it, v, F) ==
    it = [s \in SUBSET F |-> IF s = {} THEN 0 ELSE v[Taken(s)] + it[s \ {Taken(s)}]]

Sums(v, F) == CHOOSE it : SumsUp(it, v, F)
SumOver(v, F) == Sums(v, F)[F]

\* Functions that are numbers on a finite set.
Summable(v, F) == IsFiniteSet(F) /\ \A x \in F : v[x] \in Nat

TakenIn(F)   == [s \in SUBSET F |-> Taken(s)]
AddOf(v, F)  == [x \in F \X Nat |-> v[x[1]] + x[2]]

LEMMA TakenIsIn ==
    ASSUME NEW F, NEW s \in SUBSET F, s # {}
    PROVE  Taken(s) \in s /\ TakenIn(F)[s] = Taken(s)
BY DEF Taken, TakenIn

\* Over numbers, both recursions are the same.
LEMMA SumsAreFold ==
    ASSUME NEW v, NEW F, Summable(v, F), NEW it \in [SUBSET F -> Nat]
    PROVE  IsFold(it, F, 0, TakenIn(F), AddOf(v, F)) <=> SumsUp(it, v, F)
<1>1. ASSUME NEW s \in SUBSET F
      PROVE  (IF s = {} THEN 0 ELSE AddOf(v, F)[<<TakenIn(F)[s], it[s \ {TakenIn(F)[s]}]>>])
             = (IF s = {} THEN 0 ELSE v[Taken(s)] + it[s \ {Taken(s)}])
  <2> SUFFICES ASSUME s # {}
               PROVE  AddOf(v, F)[<<TakenIn(F)[s], it[s \ {TakenIn(F)[s]}]>>]
                      = v[Taken(s)] + it[s \ {Taken(s)}]
      OBVIOUS
  <2>1. TakenIn(F)[s] = Taken(s) /\ Taken(s) \in F BY TakenIsIn
  <2>2. it[s \ {Taken(s)}] \in Nat OBVIOUS
  <2>3. ASSUME NEW x \in F, NEW n \in Nat PROVE AddOf(v, F)[<<x, n>>] = v[x] + n
      BY DEF AddOf
  <2> QED BY <2>1, <2>2, <2>3
<1>2. QED  BY <1>1, Zenon DEF IsFold, SumsUp

LEMMA SumsEquation ==
    ASSUME NEW v, NEW F, Summable(v, F)
    PROVE  SumsUp(Sums(v, F), v, F)
<1>1. AddOf(v, F) \in [F \X Nat -> Nat]
    BY DEF AddOf, Summable
<1>2. PICK jt \in [SUBSET F -> Nat] : IsFold(jt, F, 0, TakenIn(F), AddOf(v, F))
  <2>1. IsFiniteSet(F) BY DEF Summable
  <2>2. \A s \in SUBSET F : s # {} => TakenIn(F)[s] \in s BY TakenIsIn
  <2>3. 0 \in Nat OBVIOUS
  <2> QED BY <1>1, <2>1, <2>2, <2>3, FoldExists
<1>3. SumsUp(jt, v, F)
    BY <1>2, SumsAreFold
<1>4. QED  BY <1>3, Zenon DEF Sums

LEMMA SumsTyped ==
    ASSUME NEW v, NEW F, Summable(v, F)
    PROVE  Sums(v, F) \in [SUBSET F -> Nat]
<1> DEFINE it == Sums(v, F)
           B  == {s \in SUBSET F : it[s] \notin Nat}
<1>1. /\ it = [s \in SUBSET F |-> it[s]]
      /\ \A s \in SUBSET F : it[s] = IF s = {} THEN 0 ELSE v[Taken(s)] + it[s \ {Taken(s)}]
  <2>1. SumsUp(it, v, F)
      BY SumsEquation
  <2> HIDE DEF it
  <2>2. DOMAIN it = SUBSET F BY <2>1 DEF SumsUp
  <2>3. it = [s \in SUBSET F |-> it[s]] BY <2>1, <2>2 DEF SumsUp
  <2>4. \A s \in SUBSET F : it[s] = IF s = {} THEN 0 ELSE v[Taken(s)] + it[s \ {Taken(s)}]
      BY <2>1, Zenon DEF SumsUp
  <2> QED BY <2>3, <2>4
<1> HIDE DEF it
<1>2. B = {}
  <2> SUFFICES ASSUME B # {} PROVE FALSE
      OBVIOUS
  <2>1. PICK s \in B : \A r \in SUBSET s : r # s => r \notin B
    <3>1. B \in SUBSET (SUBSET F) OBVIOUS
    <3> HIDE DEF B
    <3> QED BY <3>1, MinimalSubset DEF Summable
  <2>2. s \in SUBSET F /\ it[s] \notin Nat
      OBVIOUS
  <2>3. s # {}
    <3>1. s = {} => it[s] = 0 BY <1>1, <2>2
    <3>2. 0 \in Nat OBVIOUS
    <3> QED BY <2>2, <3>1, <3>2
  <2>4. Taken(s) \in s /\ v[Taken(s)] \in Nat
      BY <2>2, <2>3, TakenIsIn DEF Summable
  <2>5. s \ {Taken(s)} \in SUBSET s /\ s \ {Taken(s)} # s
      BY <2>4
  <2>6. it[s \ {Taken(s)}] \in Nat
      BY <2>1, <2>2, <2>5
  <2>7. it[s] = v[Taken(s)] + it[s \ {Taken(s)}]
      BY <1>1, <2>2, <2>3
  <2> QED BY <2>2, <2>4, <2>6, <2>7
<1>3. QED  BY <1>1, <1>2 DEF it

LEMMA SumsCoherent ==
    ASSUME NEW v, NEW F, Summable(v, F), NEW U \in SUBSET F
    PROVE  Summable(v, U) /\ Sums(v, F)[U] = SumOver(v, U)
<1> DEFINE it == Sums(v, F)  jt == Sums(v, U)
<1>1. Summable(v, U)
    BY FS_Subset DEF Summable
<1>2. IsFold(it, F, 0, TakenIn(F), AddOf(v, F))
    BY SumsEquation, SumsTyped, SumsAreFold
<1>3. IsFold(jt, U, 0, TakenIn(U), AddOf(v, U))
    BY <1>1, SumsEquation, SumsTyped, SumsAreFold
<1>4. jt \in [SUBSET U -> Nat]
    BY <1>1, SumsTyped
<1> HIDE DEF it, jt
<1>5. ASSUME NEW s \in SUBSET U, s # {}
      PROVE  AddOf(v, U)[<<TakenIn(U)[s], jt[s \ {TakenIn(U)[s]}]>>]
             = AddOf(v, F)[<<TakenIn(F)[s], jt[s \ {TakenIn(F)[s]}]>>]
  <2>1. TakenIn(U)[s] = TakenIn(F)[s] /\ TakenIn(U)[s] \in U BY <1>5, TakenIsIn
  <2>2. jt[s \ {TakenIn(U)[s]}] \in Nat BY <1>4
  <2>3. ASSUME NEW x \in U, NEW n \in Nat PROVE AddOf(v, U)[<<x, n>>] = AddOf(v, F)[<<x, n>>]
      BY DEF AddOf
  <2> QED BY <2>1, <2>2, <2>3
<1>6. IsFold(jt, U, 0, TakenIn(F), AddOf(v, F))
  <2>1. ASSUME NEW s \in SUBSET U
        PROVE  (IF s = {} THEN 0 ELSE AddOf(v, U)[<<TakenIn(U)[s], jt[s \ {TakenIn(U)[s]}]>>])
               = IF s = {} THEN 0 ELSE AddOf(v, F)[<<TakenIn(F)[s], jt[s \ {TakenIn(F)[s]}]>>]
      BY <1>5
  <2> QED BY <1>3, <2>1, Zenon DEF IsFold
<1>7. IsFiniteSet(F) /\ \A s \in SUBSET F : s # {} => TakenIn(F)[s] \in s
    BY TakenIsIn DEF Summable
<1>8. \A s \in SUBSET U : it[s] = jt[s]
    BY <1>2, <1>6, <1>7, FoldUnique
<1>9. it[U] = jt[U]
    BY <1>8
<1>10. QED  BY <1>1, <1>9 DEF it, jt, SumOver

LEMMA SumTyped ==
    ASSUME NEW v, NEW F, Summable(v, F)
    PROVE  SumOver(v, F) \in Nat
<1>1. Sums(v, F) \in [SUBSET F -> Nat]
    BY SumsTyped
<1>2. F \in SUBSET F
    OBVIOUS
<1>3. Sums(v, F)[F] \in Nat
    BY <1>1, <1>2
<1>4. QED  BY <1>3 DEF SumOver

LEMMA SumEmpty == \A v : SumOver(v, {}) = 0
<1> TAKE v
<1>1. Summable(v, {})
    BY FS_EmptySet DEF Summable
<1>2. SumsUp(Sums(v, {}), v, {})
    BY <1>1, SumsEquation
<1>3. Sums(v, {})[{}] = 0
    BY <1>2 DEF SumsUp
<1>4. QED  BY <1>3 DEF SumOver

LEMMA SumStep ==
    ASSUME NEW v, NEW F, Summable(v, F), F # {}
    PROVE  SumOver(v, F) = v[Taken(F)] + SumOver(v, F \ {Taken(F)})
<1> DEFINE it == Sums(v, F)
<1>1. it[F] = v[Taken(F)] + it[F \ {Taken(F)}]
  <2>1. SumsUp(it, v, F)
      BY SumsEquation
  <2> HIDE DEF it
  <2>2. F \in SUBSET F OBVIOUS
  <2> QED BY <2>1, <2>2, Zenon DEF SumsUp
<1>2. it[F \ {Taken(F)}] = SumOver(v, F \ {Taken(F)})
    BY SumsCoherent
<1>3. QED  BY <1>1, <1>2 DEF SumOver

\* The order in which the elements are added does not matter.
LEMMA SumRemove ==
    ASSUME NEW v, NEW F, Summable(v, F), NEW x \in F
    PROVE  SumOver(v, F) = v[x] + SumOver(v, F \ {x})
<1> DEFINE B == {T \in SUBSET F : ~ \A y \in T : SumOver(v, T) = v[y] + SumOver(v, T \ {y})}
<1>1. B = {}
  <2> SUFFICES ASSUME B # {} PROVE FALSE
      OBVIOUS
  <2>1. PICK T \in B : \A U \in SUBSET T : U # T => U \notin B
    <3>1. B \in SUBSET (SUBSET F) OBVIOUS
    <3> HIDE DEF B
    <3> QED BY <3>1, MinimalSubset DEF Summable
  <2>2. T \in SUBSET F /\ ~ \A y \in T : SumOver(v, T) = v[y] + SumOver(v, T \ {y})
      OBVIOUS
  <2>3. PICK y \in T : SumOver(v, T) # v[y] + SumOver(v, T \ {y})
      BY <2>2
  <2>4. PICK z : z = Taken(T)
      OBVIOUS
  <2>5. z \in T /\ Summable(v, T) /\ Summable(v, T \ {z}) /\ Summable(v, T \ {y})
        /\ Summable(v, (T \ {z}) \ {y})
      BY <2>2, <2>3, <2>4, TakenIsIn, SumsCoherent
  <2>6. SumOver(v, T) = v[z] + SumOver(v, T \ {z})
      BY <2>3, <2>4, <2>5, SumStep
  <2>7. y # z
      BY <2>3, <2>6
  <2>8. SumOver(v, T \ {z}) = v[y] + SumOver(v, (T \ {z}) \ {y})
    <3>1. T \ {z} \in SUBSET T /\ T \ {z} # T /\ T \ {z} \in SUBSET F /\ y \in T \ {z}
        BY <2>2, <2>3, <2>5, <2>7
    <3> QED BY <2>1, <3>1
  <2>9. SumOver(v, T \ {y}) = v[z] + SumOver(v, (T \ {y}) \ {z})
    <3>1. T \ {y} \in SUBSET T /\ T \ {y} # T /\ T \ {y} \in SUBSET F /\ z \in T \ {y}
        BY <2>2, <2>3, <2>5, <2>7
    <3> QED BY <2>1, <3>1
  <2>10. (T \ {y}) \ {z} = (T \ {z}) \ {y}
      OBVIOUS
  <2>11. v[y] \in Nat /\ v[z] \in Nat /\ SumOver(v, (T \ {z}) \ {y}) \in Nat
      BY <2>3, <2>5, SumTyped DEF Summable
  <2>12. \A a, b, c \in Nat : a + (b + c) = b + (a + c)
      OBVIOUS
  <2> DEFINE c == SumOver(v, (T \ {z}) \ {y})
  <2>13. SumOver(v, T) = v[z] + (v[y] + c)
      BY <2>6, <2>8, Zenon
  <2>14. SumOver(v, T \ {y}) = v[z] + c
      BY <2>9, <2>10, Zenon
  <2>15. v[z] + (v[y] + c) = v[y] + (v[z] + c)
      BY <2>11, <2>12, Zenon
  <2> HIDE DEF c
  <2> QED BY <2>3, <2>13, <2>14, <2>15, Zenon
<1>2. F \in SUBSET F
    OBVIOUS
<1>3. QED  BY <1>1, <1>2

LEMMA SumIs == \A f : SumFunction(f) = SumOver(f, DOMAIN f)
BY DEF SumFunction, SumFunctionOnSet, FoldFunctionOnSet, MapThenFoldSet, SumOver, Sums, SumsUp, Taken

LEMMA SummablePart ==
    ASSUME NEW v, NEW S, Summable(v, S), NEW U \in SUBSET S
    PROVE  Summable(v, U)
BY FS_Subset DEF Summable

\* As many times k as there are elements that have it.
LEMMA SumUniform ==
    ASSUME NEW S, IsFiniteSet(S), NEW T \in SUBSET S, NEW k \in Nat,
           NEW f, \A x \in S : f[x] = IF x \in T THEN k ELSE 0
    PROVE  SumOver(f, S) = k * Cardinality(T)
<1> DEFINE G == {U \in SUBSET S : SumOver(f, U) = k * Cardinality(T \cap U)}
<1>1. Summable(f, S)
    BY DEF Summable
<1>2. {} \in G
  <2>1. T \cap {} = {} /\ Cardinality({}) = 0 BY FS_EmptySet
  <2>2. k * 0 = 0 OBVIOUS
  <2> QED BY <2>1, <2>2, SumEmpty
<1>3. ASSUME NEW U \in SUBSET S, NEW x \in U, U \ {x} \in G PROVE U \in G
  <2>1. SumOver(f, U) = f[x] + SumOver(f, U \ {x})
      BY <1>1, SummablePart, SumRemove
  <2>2. SumOver(f, U \ {x}) = k * Cardinality(T \cap (U \ {x}))
      BY <1>3
  <2>3. IsFiniteSet(T \cap U)
      BY FS_Subset
  <2>4. CASE x \in T
    <3>1. T \cap (U \ {x}) = (T \cap U) \ {x} /\ x \in T \cap U BY <2>4
    <3>2. /\ Cardinality((T \cap U) \ {x}) = Cardinality(T \cap U) - 1
          /\ Cardinality(T \cap U) \in Nat
        BY <2>3, <3>1, FS_RemoveElement, FS_CardinalityType
    <3>3. f[x] = k BY <2>4
    <3> DEFINE n == Cardinality(T \cap U)
    <3>4. SumOver(f, U) = k + k * (n - 1) BY <2>1, <2>2, <3>1, <3>2, <3>3
    <3>5. n \in Nat BY <3>2
    <3> HIDE DEF n
    <3>6. k + k * (n - 1) = k * n BY <3>5
    <3> QED BY <3>4, <3>6 DEF n
  <2>5. CASE x \notin T
    <3>1. T \cap (U \ {x}) = T \cap U /\ f[x] = 0 BY <2>5
    <3>2. SumOver(f, U \ {x}) \in Nat BY <1>1, SummablePart, SumTyped
    <3>3. SumOver(f, U) = SumOver(f, U \ {x}) BY <2>1, <3>1, <3>2
    <3> QED BY <2>2, <3>1, <3>3
  <2> QED BY <2>4, <2>5
<1>4. S \in G
  <2> HIDE DEF G
  <2>1. G \in SUBSET (SUBSET S) BY DEF G
  <2> QED BY <1>2, <1>3, <2>1, SubsetInduction
<1>5. T \cap S = T
    OBVIOUS
<1>6. QED  BY <1>4, <1>5

LEMMA SumScaled ==
    ASSUME NEW S, NEW f, Summable(f, S), NEW k \in Nat,
           NEW h, \A x \in S : h[x] = k * f[x]
    PROVE  SumOver(h, S) = k * SumOver(f, S)
<1> DEFINE G == {U \in SUBSET S : SumOver(h, U) = k * SumOver(f, U)}
<1>1. Summable(h, S)
  <2>1. \A x \in S : f[x] \in Nat BY DEF Summable
  <2>2. \A a, b \in Nat : a * b \in Nat OBVIOUS
  <2>3. \A x \in S : h[x] \in Nat BY <2>1, <2>2
  <2> QED BY <2>3 DEF Summable
<1>2. {} \in G
  <2>1. k * 0 = 0 OBVIOUS
  <2> QED BY <2>1, SumEmpty
<1>3. ASSUME NEW U \in SUBSET S, NEW x \in U, U \ {x} \in G PROVE U \in G
  <2>1. SumOver(h, U) = h[x] + SumOver(h, U \ {x}) /\ SumOver(f, U) = f[x] + SumOver(f, U \ {x})
      BY <1>1, SummablePart, SumRemove
  <2>2. SumOver(h, U \ {x}) = k * SumOver(f, U \ {x})
      BY <1>3
  <2>3. f[x] \in Nat /\ SumOver(f, U \ {x}) \in Nat
      BY SummablePart, SumTyped DEF Summable
  <2>4. \A a, b \in Nat : k * a + k * b = k * (a + b)
      OBVIOUS
  <2>5. k * f[x] + k * SumOver(f, U \ {x}) = k * (f[x] + SumOver(f, U \ {x}))
      BY <2>3, <2>4
  <2> QED BY <2>1, <2>2, <2>5
<1>4. S \in G
  <2> HIDE DEF G
  <2>1. G \in SUBSET (SUBSET S) BY DEF G
  <2>2. IsFiniteSet(S) BY DEF Summable
  <2> QED BY <1>2, <1>3, <2>1, <2>2, SubsetInduction
<1>5. QED  BY <1>4

LEMMA SumPlus ==
    ASSUME NEW S, NEW f, NEW g, Summable(f, S), Summable(g, S),
           NEW h, \A x \in S : h[x] = f[x] + g[x]
    PROVE  SumOver(h, S) = SumOver(f, S) + SumOver(g, S)
<1> DEFINE G == {U \in SUBSET S : SumOver(h, U) = SumOver(f, U) + SumOver(g, U)}
<1>1. Summable(h, S)
    BY DEF Summable
<1>2. {} \in G
    BY SumEmpty
<1>3. ASSUME NEW U \in SUBSET S, NEW x \in U, U \ {x} \in G PROVE U \in G
  <2>1. /\ SumOver(h, U) = h[x] + SumOver(h, U \ {x})
        /\ SumOver(f, U) = f[x] + SumOver(f, U \ {x})
        /\ SumOver(g, U) = g[x] + SumOver(g, U \ {x})
      BY <1>1, SummablePart, SumRemove
  <2>2. SumOver(h, U \ {x}) = SumOver(f, U \ {x}) + SumOver(g, U \ {x})
      BY <1>3
  <2>3. /\ f[x] \in Nat /\ SumOver(f, U \ {x}) \in Nat
        /\ g[x] \in Nat /\ SumOver(g, U \ {x}) \in Nat
      BY SummablePart, SumTyped DEF Summable
  <2> QED BY <2>1, <2>2, <2>3
<1>4. S \in G
  <2> HIDE DEF G
  <2>1. G \in SUBSET (SUBSET S) BY DEF G
  <2>2. IsFiniteSet(S) BY DEF Summable
  <2> QED BY <1>2, <1>3, <2>1, <2>2, SubsetInduction
<1>5. QED  BY <1>4

\* A slip of at most k in every element.
LEMMA SumWithin ==
    ASSUME NEW S, NEW f, NEW g, Summable(f, S), Summable(g, S), NEW k \in Nat,
           \A x \in S : f[x] <= g[x] + k
    PROVE  SumOver(f, S) <= SumOver(g, S) + k * Cardinality(S)
<1> DEFINE G == {U \in SUBSET S : SumOver(f, U) <= SumOver(g, U) + k * Cardinality(U)}
<1>1. {} \in G
  <2>1. Cardinality({}) = 0 BY FS_EmptySet
  <2>2. k * 0 = 0 OBVIOUS
  <2> QED BY <2>1, <2>2, SumEmpty
<1>2. ASSUME NEW U \in SUBSET S, NEW x \in U, U \ {x} \in G PROVE U \in G
  <2>1. /\ SumOver(f, U) = f[x] + SumOver(f, U \ {x})
        /\ SumOver(g, U) = g[x] + SumOver(g, U \ {x})
      BY SummablePart, SumRemove
  <2>2. SumOver(f, U \ {x}) <= SumOver(g, U \ {x}) + k * Cardinality(U \ {x})
      BY <1>2
  <2>3. /\ f[x] \in Nat /\ SumOver(f, U \ {x}) \in Nat
        /\ g[x] \in Nat /\ SumOver(g, U \ {x}) \in Nat /\ f[x] <= g[x] + k
      BY SummablePart, SumTyped DEF Summable
  <2>4. Cardinality(U \ {x}) = Cardinality(U) - 1 /\ Cardinality(U) \in Nat
    <3>1. IsFiniteSet(U) BY FS_Subset DEF Summable
    <3> QED BY <3>1, FS_RemoveElement, FS_CardinalityType
  <2>5. \A n \in Nat : k * (n - 1) = k * n - k /\ k * n \in Nat
      OBVIOUS
  <2>6. k * Cardinality(U \ {x}) = k * Cardinality(U) - k /\ k * Cardinality(U) \in Nat
      BY <2>4, <2>5
  <2> QED BY <2>1, <2>2, <2>3, <2>6
<1>3. S \in G
  <2> HIDE DEF G
  <2>1. G \in SUBSET (SUBSET S) BY DEF G
  <2>2. IsFiniteSet(S) BY DEF Summable
  <2> QED BY <1>1, <1>2, <2>1, <2>2, SubsetInduction
<1>4. QED  BY <1>3

\* A table of numbers: what its rows add up to over I, and one of its columns.
RowSums(a, C, I) == [c \in C |-> SumOver(a[c], I)]
ColumnAt(a, C, i) == [c \in C |-> a[c][i]]

\* Adding up by rows or by columns.
LEMMA SumsExchange ==
    ASSUME NEW C, IsFiniteSet(C), NEW I, IsFiniteSet(I),
           NEW a, \A c \in C : \A i \in I : a[c][i] \in Nat,
           NEW w, \A i \in I : w[i] \in Nat,
           \A i \in I : SumOver(ColumnAt(a, C, i), C) = w[i]
    PROVE  SumOver(RowSums(a, C, I), C) = SumOver(w, I)
<1> USE DEF RowSums, ColumnAt
<1> DEFINE Rows(U) == RowSums(a, C, U)
           Column(i) == ColumnAt(a, C, i)
           G == {U \in SUBSET I : SumOver(Rows(U), C) = SumOver(w, U)}
<1>1. Summable(w, I) /\ \A c \in C : Summable(a[c], I)
    BY DEF Summable
<1>2. ASSUME NEW U \in SUBSET I PROVE Summable(Rows(U), C)
  <2>1. \A c \in C : SumOver(a[c], U) \in Nat BY <1>1, SummablePart, SumTyped
  <2> QED BY <2>1 DEF Summable
<1>3. \A i \in I : Summable(Column(i), C)
    BY DEF Summable
<1>4. {} \in G
  <2>1. \A c \in C : Rows({})[c] = IF c \in {} THEN 0 ELSE 0 BY SumEmpty
  <2> HIDE DEF Rows
  <2>2. {} \in SUBSET C /\ 0 \in Nat /\ Cardinality({}) = 0 /\ 0 * 0 = 0 BY FS_EmptySet
  <2>3. SumOver(Rows({}), C) = 0 * Cardinality({}) BY <2>1, <2>2, SumUniform
  <2>4. SumOver(Rows({}), C) = 0 BY <2>2, <2>3
  <2> QED BY <2>4, SumEmpty
<1>5. ASSUME NEW U \in SUBSET I, NEW x \in U, U \ {x} \in G PROVE U \in G
  <2>1. SumOver(Rows(U \ {x}), C) = SumOver(w, U \ {x})
      BY <1>5
  <2>2. \A c \in C : SumOver(a[c], U) = a[c][x] + SumOver(a[c], U \ {x})
      BY <1>1, SummablePart, SumRemove
  <2>3. \A c \in C : Rows(U)[c] = Column(x)[c] + Rows(U \ {x})[c]
      BY <2>2
  <2>4. Summable(Column(x), C) /\ Summable(Rows(U \ {x}), C) /\ SumOver(Column(x), C) = w[x]
      BY <1>2, <1>3
  <2> HIDE DEF Rows, Column
  <2>5. SumOver(Rows(U), C) = SumOver(Column(x), C) + SumOver(Rows(U \ {x}), C)
      BY <2>3, <2>4, SumPlus
  <2>6. SumOver(w, U) = w[x] + SumOver(w, U \ {x})
      BY <1>1, SummablePart, SumRemove
  <2> QED BY <2>1, <2>4, <2>5, <2>6
<1> HIDE DEF Rows
<1>6. I \in G
  <2> HIDE DEF G
  <2>1. G \in SUBSET (SUBSET I) BY DEF G
  <2> QED BY <1>4, <1>5, <2>1, SubsetInduction
<1>7. QED  BY <1>6 DEF Rows

-----------------------------------------------------------------------------
(* LeadJourney: the order of the replay.                                   *)

\* Events that the replay can order: an id is that of one event.
Orderly(S) ==
    /\ IsFiniteSet(S)
    /\ \A e \in S : e.at \in Int /\ e.id \in Int
    /\ \A e, f \in S : e.id = f.id => e = f

LEMMA OrderlyPart ==
    ASSUME NEW S, Orderly(S), NEW T \in SUBSET S
    PROVE  Orderly(T)
BY FS_Subset DEF Orderly

LEMMA LatestIs ==
    ASSUME NEW S, Orderly(S), S # {}
    PROVE  Latest(S) \in S /\ \A f \in S : f = Latest(S) \/ Earlier(f, Latest(S))
<1> DEFINE HasLast(T) == \E e \in T : \A f \in T : f = e \/ Earlier(f, e)
           B == {T \in SUBSET S : T # {} /\ ~ HasLast(T)}
<1>1. B = {}
  <2> SUFFICES ASSUME B # {} PROVE FALSE
      OBVIOUS
  <2>1. PICK T \in B : \A U \in SUBSET T : U # T => U \notin B
    <3>1. B \in SUBSET (SUBSET S) OBVIOUS
    <3> HIDE DEF B
    <3> QED BY <3>1, MinimalSubset DEF Orderly
  <2>2. T \in SUBSET S /\ T # {} /\ ~ HasLast(T)
      OBVIOUS
  <2>3. PICK x \in T : TRUE
      BY <2>2
  <2>4. T \ {x} # {}
    <3> SUFFICES ASSUME T \ {x} = {} PROVE FALSE
        OBVIOUS
    <3>1. \A f \in T : f = x OBVIOUS
    <3> QED BY <2>2, <2>3, <3>1
  <2>5. HasLast(T \ {x})
      BY <2>1, <2>2, <2>3, <2>4
  <2>6. PICK e \in T \ {x} : \A f \in T \ {x} : f = e \/ Earlier(f, e)
      BY <2>5
  <2>7. /\ e.at \in Int /\ e.id \in Int /\ x.at \in Int /\ x.id \in Int
        /\ e.id # x.id
      BY <2>2, <2>3, <2>6 DEF Orderly
  <2>8. CASE Earlier(x, e)
      BY <2>2, <2>6, <2>8
  <2>9. CASE ~ Earlier(x, e)
    <3>1. Earlier(e, x) BY <2>7, <2>9 DEF Earlier
    <3>2. ASSUME NEW f \in T \ {x} PROVE Earlier(f, x)
      <4>1. f.at \in Int /\ f.id \in Int BY <2>2 DEF Orderly
      <4> QED BY <2>6, <2>7, <3>1, <4>1 DEF Earlier
    <3> QED BY <2>2, <2>3, <3>2
  <2> QED BY <2>8, <2>9
<1>2. HasLast(S)
  <2>1. S \in SUBSET S OBVIOUS
  <2> QED BY <1>1, <2>1
<1>3. QED  BY <1>2 DEF Latest

\* No other element of the set is as late.
LEMMA LatestUnique ==
    ASSUME NEW S, Orderly(S), NEW e \in S, \A f \in S : f = e \/ Earlier(f, e)
    PROVE  Latest(S) = e
<1>1. Latest(S) \in S /\ (e = Latest(S) \/ Earlier(e, Latest(S)))
    BY LatestIs
<1>2. Latest(S) = e \/ Earlier(Latest(S), e)
    BY <1>1
<1>3. /\ e.at \in Int /\ e.id \in Int
      /\ Latest(S).at \in Int /\ Latest(S).id \in Int
    BY <1>1 DEF Orderly
<1>4. QED  BY <1>1, <1>2, <1>3 DEF Earlier

-----------------------------------------------------------------------------
(* LeadJourney: where a position can go.                                   *)

Positions == [state : States, observed : SUBSET States, skipped : SUBSET States]

LEMMA StateNames ==
    /\ Linear = {"anonymous", "lead", "engaged", "mql", "sql", "appointment",
                 "site_visit", "negotiation", "won", "customer"}
    /\ States = Linear \cup {"lost", "reengagement"}
    /\ "lost" \notin Linear /\ "reengagement" \notin Linear
<1>1. DOMAIN STATE_SEQUENCE = 1..10
    BY DEF STATE_SEQUENCE
<1>2. Linear = {STATE_SEQUENCE[i] : i \in 1..10}
    BY <1>1 DEF Linear, ToSet
<1>3. Linear = {"anonymous", "lead", "engaged", "mql", "sql", "appointment",
                "site_visit", "negotiation", "won", "customer"}
    BY <1>2 DEF STATE_SEQUENCE
<1>4. QED  BY <1>3 DEF States

LEMMA SequenceNumbers ==
    ASSUME NEW i \in 1..10
    PROVE  STATE_SEQUENCE[i] \in Linear /\ STATE_RANK[STATE_SEQUENCE[i]] = i
<1>1. STATE_SEQUENCE[i] \in Linear
    BY DEF Linear, ToSet, STATE_SEQUENCE
<1>2. \A j \in 1..10 : STATE_SEQUENCE[j] = STATE_SEQUENCE[i] => j = i
    BY DEF STATE_SEQUENCE
<1>3. STATE_RANK[STATE_SEQUENCE[i]] =
          CHOOSE j \in 1..10 : STATE_SEQUENCE[j] = STATE_SEQUENCE[i]
    BY <1>1 DEF STATE_RANK
<1>4. QED  BY <1>1, <1>2, <1>3

LEMMA RankNumbers ==
    ASSUME NEW s \in Linear
    PROVE  STATE_RANK[s] \in 1..10 /\ STATE_SEQUENCE[STATE_RANK[s]] = s
<1>1. PICK i \in 1..10 : STATE_SEQUENCE[i] = s
    BY DEF Linear, ToSet, STATE_SEQUENCE
<1>2. QED  BY <1>1, SequenceNumbers

LEMMA Ranks ==
    /\ STATE_RANK["anonymous"] = 1 /\ STATE_RANK["lead"] = 2 /\ STATE_RANK["engaged"] = 3
    /\ STATE_RANK["mql"] = 4 /\ STATE_RANK["sql"] = 5 /\ STATE_RANK["appointment"] = 6
    /\ STATE_RANK["site_visit"] = 7 /\ STATE_RANK["negotiation"] = 8
    /\ STATE_RANK["won"] = 9 /\ STATE_RANK["customer"] = 10
<1>1. \A i \in 1..10 : STATE_RANK[STATE_SEQUENCE[i]] = i
    BY SequenceNumbers
<1>2. QED  BY <1>1 DEF STATE_SEQUENCE

\* An event has at most one target, which is a state.
LEMMA TargetIs ==
    ASSUME NEW e, NEW state, NEW s \in Target(e, state)
    PROVE  /\ Target(e, state) = {s} /\ s \in States /\ Trusted(e)
           /\ e.declares # "nothing" => s = e.declares /\ s \in SALES_EVIDENCE_STATES
           /\ e.declares = "nothing" =>
                  s \in {"lead", "sql", "negotiation", "won", "engaged"}
<1>1. CASE e.declares # "nothing"
  <2>1. Trusted(e) /\ Target(e, state) = {e.declares} BY <1>1 DEF Target
  <2>2. e.declares \in SALES_EVIDENCE_STATES BY <1>1, <2>1 DEF Trusted, Authority, Contract
  <2>3. SALES_EVIDENCE_STATES \subseteq States BY StateNames DEF SALES_EVIDENCE_STATES
  <2> QED BY <1>1, <2>1, <2>2, <2>3
<1>2. CASE e.declares = "nothing"
  <2>1. Trusted(e) BY DEF Target
  <2>2. CASE e.type \in DOMAIN DIRECT_TARGETS
    <3>1. Target(e, state) = {DIRECT_TARGETS[e.type]} BY <1>2, <2>1, <2>2 DEF Target
    <3>2. DIRECT_TARGETS[e.type] \in {"lead", "sql", "negotiation", "won"}
        BY <2>2 DEF DIRECT_TARGETS
    <3> QED BY <1>2, <2>1, <3>1, <3>2, StateNames
  <2>3. CASE e.type \notin DOMAIN DIRECT_TARGETS
    <3>1. Target(e, state) = {"engaged"} BY <1>2, <2>1, <2>3 DEF Target
    <3> QED BY <1>2, <2>1, <3>1, StateNames
  <2> QED BY <2>2, <2>3
<1>3. QED  BY <1>1, <1>2

Moved(p, s) == [state    |-> s,
                observed |-> p.observed \cup {s},
                skipped  |-> p.skipped \cup SkippedStates(p.state, s)]

LEMMA AdvanceIs ==
    ASSUME NEW p, NEW e
    PROVE  \/ Advance(p, e) = p /\ \A s \in Target(e, p.state) : ~ TransitionAllowed(p.state, s)
           \/ \E s \in Target(e, p.state) :
                  TransitionAllowed(p.state, s) /\ Advance(p, e) = Moved(p, s)
<1>1. CASE ~ \E s \in Target(e, p.state) : TransitionAllowed(p.state, s)
    BY <1>1 DEF Advance
<1>2. CASE \E s \in Target(e, p.state) : TransitionAllowed(p.state, s)
  <2>1. PICK s \in Target(e, p.state) : TransitionAllowed(p.state, s) BY <1>2
  <2>2. Target(e, p.state) = {s} BY TargetIs
  <2>3. (CHOOSE t \in Target(e, p.state) : TRUE) = s BY <2>2
  <2> QED BY <1>2, <2>1, <2>3 DEF Advance, Moved
<1>3. QED  BY <1>1, <1>2

LEMMA AdvanceTyped ==
    ASSUME NEW p \in Positions, NEW e
    PROVE  Advance(p, e) \in Positions
<1>1. ASSUME NEW s \in Target(e, p.state) PROVE Moved(p, s) \in Positions
  <2>1. s \in States BY TargetIs
  <2>2. SkippedStates(p.state, s) \subseteq Linear BY DEF SkippedStates
  <2>3. Linear \subseteq States BY StateNames
  <2> QED BY <2>1, <2>2, <2>3 DEF Moved, Positions
<1>2. QED  BY <1>1, AdvanceIs

LEMMA BeginningTyped == Beginning \in Positions
BY StateNames DEF Beginning, Positions

-----------------------------------------------------------------------------
(* LeadJourney: the replay, one event at a time.                           *)

\* The function of which a replay takes the last value.
Iter(S) ==
    CHOOSE it : it = [s \in SUBSET S |->
        IF s = {} THEN Beginning ELSE Advance(it[s \ {Latest(s)}], Latest(s))]

LEMMA ReplayIsIter == ASSUME NEW S PROVE Replay(S) = Iter(S)[S]
BY DEF Replay, MapThenFoldSet, Iter

Picked(S) == [s \in SUBSET S |-> Latest(s)]
StepOf(S)   == [x \in S \X Positions |-> Advance(x[2], x[1])]

LEMMA PickedIs ==
    ASSUME NEW S, Orderly(S)
    PROVE  \A s \in SUBSET S : s # {} => Picked(S)[s] \in s
<1> TAKE s \in SUBSET S
<1> HAVE s # {}
<1>1. Latest(s) \in s BY OrderlyPart, LatestIs
<1> QED BY <1>1 DEF Picked

\* Over positions, both recursions are the same.
LEMMA IterIsFold ==
    ASSUME NEW S, Orderly(S), NEW it \in [SUBSET S -> Positions]
    PROVE  IsFold(it, S, Beginning, Picked(S), StepOf(S)) <=>
           it = [s \in SUBSET S |->
                    IF s = {} THEN Beginning ELSE Advance(it[s \ {Latest(s)}], Latest(s))]
<1>1. ASSUME NEW s \in SUBSET S
      PROVE  (IF s = {} THEN Beginning
              ELSE StepOf(S)[<<Picked(S)[s], it[s \ {Picked(S)[s]}]>>])
             = (IF s = {} THEN Beginning ELSE Advance(it[s \ {Latest(s)}], Latest(s)))
  <2> SUFFICES ASSUME s # {}
               PROVE  StepOf(S)[<<Picked(S)[s], it[s \ {Picked(S)[s]}]>>]
                      = Advance(it[s \ {Latest(s)}], Latest(s))
      OBVIOUS
  <2>1. Picked(S)[s] = Latest(s) BY DEF Picked
  <2>2. Latest(s) \in S BY <2>1, PickedIs
  <2>3. it[s \ {Latest(s)}] \in Positions OBVIOUS
  <2>4. ASSUME NEW x \in S, NEW p \in Positions PROVE StepOf(S)[<<x, p>>] = Advance(p, x)
      BY DEF StepOf
  <2> QED BY <2>1, <2>2, <2>3, <2>4
<1>2. QED  BY <1>1, Zenon DEF IsFold

LEMMA IterExists ==
    ASSUME NEW S, Orderly(S)
    PROVE  \E it \in [SUBSET S -> Positions] :
               it = [s \in SUBSET S |->
                        IF s = {} THEN Beginning ELSE Advance(it[s \ {Latest(s)}], Latest(s))]
<1>1. StepOf(S) \in [S \X Positions -> Positions]
    BY AdvanceTyped DEF StepOf
<1>2. \E it \in [SUBSET S -> Positions] : IsFold(it, S, Beginning, Picked(S), StepOf(S))
  <2>1. IsFiniteSet(S) BY DEF Orderly
  <2>2. Beginning \in Positions BY BeginningTyped
  <2>3. \A s \in SUBSET S : s # {} => Picked(S)[s] \in s BY PickedIs
  <2> QED BY <1>1, <2>1, <2>2, <2>3, FoldExists
<1>3. QED  BY <1>2, IterIsFold

LEMMA IterEquation ==
    ASSUME NEW S, Orderly(S)
    PROVE  Iter(S) = [s \in SUBSET S |->
               IF s = {} THEN Beginning ELSE Advance(Iter(S)[s \ {Latest(s)}], Latest(s))]
<1>1. PICK jt \in [SUBSET S -> Positions] :
          jt = [s \in SUBSET S |->
                   IF s = {} THEN Beginning ELSE Advance(jt[s \ {Latest(s)}], Latest(s))]
    BY IterExists
<1>2. \E it : it = [s \in SUBSET S |->
          IF s = {} THEN Beginning ELSE Advance(it[s \ {Latest(s)}], Latest(s))]
    BY <1>1, Zenon
<1>3. QED  BY <1>2, Zenon DEF Iter

LEMMA IterTyped ==
    ASSUME NEW S, Orderly(S)
    PROVE  Iter(S) \in [SUBSET S -> Positions]
<1> DEFINE it == Iter(S)
           B  == {s \in SUBSET S : it[s] \notin Positions}
<1>1. /\ it = [s \in SUBSET S |-> it[s]]
      /\ \A s \in SUBSET S :
             it[s] = IF s = {} THEN Beginning ELSE Advance(it[s \ {Latest(s)}], Latest(s))
  <2>1. it = [s \in SUBSET S |->
               IF s = {} THEN Beginning ELSE Advance(it[s \ {Latest(s)}], Latest(s))]
      BY IterEquation
  <2> HIDE DEF it
  <2>2. DOMAIN it = SUBSET S BY <2>1
  <2> QED BY <2>1, <2>2
<1> HIDE DEF it
<1>2. B = {}
  <2> SUFFICES ASSUME B # {} PROVE FALSE
      OBVIOUS
  <2>1. PICK s \in B : \A r \in SUBSET s : r # s => r \notin B
    <3>1. B \in SUBSET (SUBSET S) OBVIOUS
    <3> HIDE DEF B
    <3> QED BY <3>1, MinimalSubset DEF Orderly
  <2>2. s \in SUBSET S /\ it[s] \notin Positions
      OBVIOUS
  <2>3. s # {}
      BY <1>1, <2>2, BeginningTyped
  <2>4. Latest(s) \in s
      BY <2>2, <2>3, OrderlyPart, LatestIs
  <2>5. s \ {Latest(s)} \in SUBSET s /\ s \ {Latest(s)} # s
      BY <2>4
  <2>6. it[s \ {Latest(s)}] \in Positions
      BY <2>1, <2>2, <2>5
  <2>7. it[s] = Advance(it[s \ {Latest(s)}], Latest(s))
      BY <1>1, <2>2, <2>3
  <2> QED BY <2>2, <2>6, <2>7, AdvanceTyped
<1>3. QED  BY <1>1, <1>2 DEF it

\* The replay of a part is on the way of the replay of the whole.
LEMMA IterCoherent ==
    ASSUME NEW S, Orderly(S), NEW U \in SUBSET S
    PROVE  Iter(S)[U] = Iter(U)[U]
<1> DEFINE it == Iter(S)  jt == Iter(U)
<1>1. Orderly(U)
    BY OrderlyPart
<1>2. IsFold(it, S, Beginning, Picked(S), StepOf(S))
    BY IterEquation, IterTyped, IterIsFold
<1>3. IsFold(jt, U, Beginning, Picked(U), StepOf(U))
    BY <1>1, IterEquation, IterTyped, IterIsFold
<1>4. jt \in [SUBSET U -> Positions]
    BY <1>1, IterTyped
<1> HIDE DEF it, jt
<1>5. ASSUME NEW s \in SUBSET U, s # {}
      PROVE  StepOf(U)[<<Picked(U)[s], jt[s \ {Picked(U)[s]}]>>]
             = StepOf(S)[<<Picked(S)[s], jt[s \ {Picked(S)[s]}]>>]
  <2>1. Picked(U)[s] = Picked(S)[s] BY DEF Picked
  <2>2. Picked(U)[s] \in U BY <1>1, <1>5, PickedIs
  <2>3. jt[s \ {Picked(U)[s]}] \in Positions BY <1>4
  <2>4. ASSUME NEW x \in U, NEW p \in Positions
        PROVE  StepOf(U)[<<x, p>>] = StepOf(S)[<<x, p>>]
      BY DEF StepOf
  <2> QED BY <2>1, <2>2, <2>3, <2>4
<1>6. IsFold(jt, U, Beginning, Picked(S), StepOf(S))
  <2>1. ASSUME NEW s \in SUBSET U
        PROVE  (IF s = {} THEN Beginning ELSE StepOf(U)[<<Picked(U)[s], jt[s \ {Picked(U)[s]}]>>])
               = IF s = {} THEN Beginning ELSE StepOf(S)[<<Picked(S)[s], jt[s \ {Picked(S)[s]}]>>]
      BY <1>5
  <2> QED BY <1>3, <2>1, Zenon DEF IsFold
<1>7. IsFiniteSet(S) /\ \A s \in SUBSET S : s # {} => Picked(S)[s] \in s
    BY PickedIs DEF Orderly
<1>8. \A s \in SUBSET U : it[s] = jt[s]
    BY <1>2, <1>6, <1>7, FoldUnique
<1>9. it[U] = jt[U]
    BY <1>8
<1>10. QED  BY <1>9 DEF it, jt

LEMMA ReplayTyped ==
    ASSUME NEW S, Orderly(S)
    PROVE  Replay(S) \in Positions
BY ReplayIsIter, IterTyped

LEMMA ReplayEmpty == Replay({}) = Beginning
<1>1. Orderly({})
    BY FS_EmptySet DEF Orderly
<1>2. Iter({})[{}] = Beginning
    BY <1>1, IterEquation
<1>3. QED  BY <1>2, ReplayIsIter

\* A replay ends with its latest event.
LEMMA ReplayStep ==
    ASSUME NEW S, Orderly(S), S # {}
    PROVE  Replay(S) = Advance(Replay(S \ {Latest(S)}), Latest(S))
<1> DEFINE it == Iter(S)  U == S \ {Latest(S)}
<1>1. it[S] = Advance(it[U], Latest(S))
  <2>1. it = [s \in SUBSET S |->
               IF s = {} THEN Beginning ELSE Advance(it[s \ {Latest(s)}], Latest(s))]
      BY IterEquation
  <2> HIDE DEF it
  <2>2. S \in SUBSET S OBVIOUS
  <2> QED BY <2>1, <2>2
<1>2. it[U] = Iter(U)[U]
    BY IterCoherent
<1>3. QED  BY <1>1, <1>2, ReplayIsIter

\* A set of positions that every event of a replay keeps holds its result.
LEMMA ReplayInduction ==
    ASSUME NEW S, Orderly(S), NEW P \in SUBSET Positions, Beginning \in P,
           \A p \in P, e \in S : Advance(p, e) \in P
    PROVE  Replay(S) \in P
<1> DEFINE B == {T \in SUBSET S : Replay(T) \notin P}
<1>1. B = {}
  <2> SUFFICES ASSUME B # {} PROVE FALSE
      OBVIOUS
  <2>1. PICK T \in B : \A U \in SUBSET T : U # T => U \notin B
    <3>1. B \in SUBSET (SUBSET S) OBVIOUS
    <3> HIDE DEF B
    <3> QED BY <3>1, MinimalSubset DEF Orderly
  <2>2. T \in SUBSET S /\ Replay(T) \notin P
      OBVIOUS
  <2>3. T # {}
      BY <2>2, ReplayEmpty
  <2>4. Orderly(T)
      BY <2>2, OrderlyPart
  <2>5. Latest(T) \in T
      BY <2>3, <2>4, LatestIs
  <2>6. Replay(T \ {Latest(T)}) \in P
      BY <2>1, <2>2, <2>5
  <2>7. Replay(T) = Advance(Replay(T \ {Latest(T)}), Latest(T))
      BY <2>3, <2>4, ReplayStep
  <2> QED BY <2>2, <2>5, <2>6, <2>7
<1>2. S \in SUBSET S
    OBVIOUS
<1>3. QED  BY <1>1, <1>2

-----------------------------------------------------------------------------
(* LeadJourney: gaps.                                                      *)

\* What lies below a stage that was seen was seen or skipped.
NoGaps(p) ==
    /\ p.state \in Linear \ {"anonymous"} => p.state \in p.observed
    /\ \A u \in p.observed \cap Linear, t \in Linear :
          2 <= STATE_RANK[t] /\ STATE_RANK[t] <= STATE_RANK[u] => t \in p.observed \cup p.skipped

LEMMA NoGapsKept ==
    ASSUME NEW p \in Positions, NoGaps(p), NEW e
    PROVE  NoGaps(Advance(p, e))
<1>1. ASSUME NEW s \in Target(e, p.state), TransitionAllowed(p.state, s)
      PROVE  NoGaps(Moved(p, s))
  <2> DEFINE q == Moved(p, s)
  <2>1. q.state = s /\ q.observed = p.observed \cup {s}
        /\ q.skipped = p.skipped \cup SkippedStates(p.state, s)
      BY DEF Moved
  <2> HIDE DEF q
  <2>2. ASSUME NEW u \in q.observed \cap Linear, NEW t \in Linear,
               2 <= STATE_RANK[t], STATE_RANK[t] <= STATE_RANK[u]
        PROVE  t \in q.observed \cup q.skipped
    <3>1. CASE u \in p.observed
        BY <2>1, <2>2, <3>1 DEF NoGaps
    <3>2. CASE u \notin p.observed
      <4>1. u = s /\ s \in Linear BY <2>1, <3>2
      <4>2. p.state \in Linear /\ STATE_RANK[s] > STATE_RANK[p.state]
          BY <1>1, <4>1, StateNames DEF TransitionAllowed
      <4>3. /\ STATE_RANK[t] \in Int /\ STATE_RANK[s] \in Int /\ STATE_RANK[p.state] \in Int
            /\ STATE_SEQUENCE[STATE_RANK[t]] = t /\ STATE_SEQUENCE[STATE_RANK[s]] = s
          BY <4>1, <4>2, RankNumbers
      <4>4. CASE STATE_RANK[t] <= STATE_RANK[p.state]
        <5>1. p.state # "anonymous" BY <2>2, <4>3, <4>4, Ranks
        <5>2. p.state \in p.observed BY <4>2, <5>1 DEF NoGaps
        <5> QED BY <2>1, <2>2, <4>2, <4>4, <5>2 DEF NoGaps
      <4>5. CASE STATE_RANK[t] > STATE_RANK[p.state] /\ STATE_RANK[t] < STATE_RANK[s]
        <5>1. STATE_RANK[t] \in (STATE_RANK[p.state] + 1)..(STATE_RANK[s] - 1)
            BY <4>3, <4>5
        <5>2. s # "lost" /\ s # "reengagement" BY <4>1, StateNames
        <5>3. t \in SkippedStates(p.state, s) BY <5>1, <5>2 DEF SkippedStates
        <5> QED BY <2>1, <5>3
      <4>6. CASE STATE_RANK[t] = STATE_RANK[s]
        <5>1. t = s BY <4>3, <4>6
        <5> QED BY <2>1, <5>1
      <4>7. STATE_RANK[t] <= STATE_RANK[s] BY <2>2, <4>1
      <4> QED BY <4>3, <4>4, <4>5, <4>6, <4>7
    <3> QED BY <3>1, <3>2
  <2>3. q.state \in q.observed BY <2>1
  <2> QED BY <2>2, <2>3 DEF NoGaps, q
<1>2. QED  BY <1>1, AdvanceIs

LEMMA ReplayHasNoGaps ==
    ASSUME NEW S, Orderly(S)
    PROVE  NoGaps(Replay(S))
<1> DEFINE P == {p \in Positions : NoGaps(p)}
<1>1. Beginning \in P
  <2>1. NoGaps(Beginning) BY DEF Beginning, NoGaps
  <2> QED BY <2>1, BeginningTyped
<1>2. \A p \in P, e \in S : Advance(p, e) \in P
    BY NoGapsKept, AdvanceTyped
<1>3. P \in SUBSET Positions
    OBVIOUS
<1> HIDE DEF P
<1>4. Replay(S) \in P
    BY <1>1, <1>2, <1>3, ReplayInduction
<1>5. QED  BY <1>4 DEF P

\* A set of numbers up to n has a greatest one.
LEMMA GreatestUpTo ==
    ASSUME NEW n \in Nat, NEW T \in SUBSET (1..n), T # {}
    PROVE  Max(T) \in T /\ \A c \in T : c <= Max(T)
<1> DEFINE B == {U \in SUBSET T : U # {} /\ ~ \E m \in U : \A c \in U : m >= c}
<1>1. IsFiniteSet(T)
    BY Bounded_Finite
<1>2. B = {}
  <2> SUFFICES ASSUME B # {} PROVE FALSE
      OBVIOUS
  <2>1. PICK U \in B : \A R \in SUBSET U : R # U => R \notin B
    <3>1. B \in SUBSET (SUBSET T) OBVIOUS
    <3> HIDE DEF B
    <3> QED BY <1>1, <3>1, MinimalSubset
  <2>2. U \in SUBSET T /\ U # {} /\ ~ \E m \in U : \A c \in U : m >= c
      OBVIOUS
  <2>3. PICK x \in U : TRUE
      BY <2>2
  <2>4. CASE U \ {x} = {}
    <3>1. \A c \in U : c = x BY <2>4
    <3>2. x \in Int /\ x >= x BY <2>2
    <3> QED BY <2>2, <2>3, <3>1, <3>2
  <2>5. CASE U \ {x} # {}
    <3>1. PICK m \in U \ {x} : \A c \in U \ {x} : m >= c
        BY <2>1, <2>2, <2>3, <2>5
    <3>2. \A c \in U : c \in Int BY <2>2
    <3>3. CASE m >= x BY <2>2, <3>1, <3>3
    <3>4. CASE x > m
      <4>1. \A c \in U : x >= c
        <5> TAKE c \in U
        <5>1. c = x \/ m >= c BY <3>1
        <5> QED BY <3>1, <3>2, <3>4, <5>1
      <4> QED BY <2>2, <2>3, <4>1
    <3> QED BY <3>1, <3>2, <3>3, <3>4
  <2> QED BY <2>4, <2>5
<1>3. \E m \in T : \A c \in T : m >= c
  <2>1. T \in SUBSET T OBVIOUS
  <2> QED BY <1>2, <2>1
<1>4. Max(T) \in T /\ \A c \in T : Max(T) >= c
    BY <1>3 DEF Max
<1>5. \A c \in T : c \in Int
    OBVIOUS
<1>6. QED  BY <1>4, <1>5

\* The gaps of a position are reported.
LEMMA NoGapsReported ==
    ASSUME NEW p \in Positions, NoGaps(p)
    PROVE  LET highest == Max({1} \cup {STATE_RANK[t] : t \in p.observed \cap Linear})
               passed  == {t \in Linear : STATE_RANK[t] \in 2..highest}
           IN passed \ p.observed \subseteq MissingSignals(p)
<1> DEFINE R == {1} \cup {STATE_RANK[t] : t \in p.observed \cap Linear}
<1>1. R \in SUBSET (1..10) /\ R # {}
    BY RankNumbers
<1>2. Max(R) \in R
  <2>1. 10 \in Nat OBVIOUS
  <2> HIDE DEF R
  <2> QED BY <1>1, <2>1, GreatestUpTo
<1>3. ASSUME NEW t \in Linear, STATE_RANK[t] \in 2..Max(R), t \notin p.observed
      PROVE  t \in p.skipped
  <2>1. Max(R) \in Int /\ STATE_RANK[t] \in Int
    <3> HIDE DEF R
    <3>1. Max(R) \in 1..10 BY <1>1, <1>2
    <3>2. STATE_RANK[t] \in 1..10 BY RankNumbers
    <3> QED BY <3>1, <3>2
  <2> HIDE DEF R
  <2>2. Max(R) # 1 /\ STATE_RANK[t] <= Max(R) /\ 2 <= STATE_RANK[t] BY <1>3, <2>1
  <2>3. PICK u \in p.observed \cap Linear : Max(R) = STATE_RANK[u] BY <1>2, <2>2 DEF R
  <2> QED BY <1>3, <2>2, <2>3 DEF NoGaps
<1>4. QED  BY <1>3 DEF MissingSignals

-----------------------------------------------------------------------------
(* LeadJourney: stages that need evidence.                                 *)

\* An event on whose word a stage that needs evidence is seen.
Backs(e, t) ==
    /\ e.declares = t /\ e.type \in SALES_EVIDENCE_EVENT_TYPES
    /\ e.source = "espocrm" \/ (e.source = "sales hub" /\ t \notin {"lost", "customer"})

LEMMA TargetBacked ==
    ASSUME NEW e, NEW state, NEW t \in Target(e, state), t \in SALES_EVIDENCE_STATES
    PROVE  Backs(e, t)
<1>1. Trusted(e) /\ (e.declares # "nothing" => t = e.declares)
      /\ (e.declares = "nothing" => t \in {"lead", "sql", "negotiation", "won", "engaged"})
    BY TargetIs
<1>2. e.declares # "nothing" /\ t = e.declares
    BY <1>1 DEF SALES_EVIDENCE_STATES
<1>3. Contract(e) /\ e.source \in SOURCE_POLICY[t]
    BY <1>1, <1>2 DEF Trusted, Authority
<1>4. SOURCE_POLICY[t] = {"espocrm"} \cup (IF t \in {"lost", "customer"} THEN {} ELSE {"sales hub"})
    BY DEF SOURCE_POLICY
<1>5. QED  BY <1>2, <1>3, <1>4 DEF Contract, Backs

LEMMA ReplayBacked ==
    ASSUME NEW S, Orderly(S)
    PROVE  \A t \in Replay(S).observed \cap SALES_EVIDENCE_STATES : \E e \in S : Backs(e, t)
<1> DEFINE P == {p \in Positions :
                   \A t \in p.observed \cap SALES_EVIDENCE_STATES : \E e \in S : Backs(e, t)}
<1>1. Beginning \in P
    BY BeginningTyped DEF Beginning
<1>2. ASSUME NEW p \in P, NEW e \in S PROVE Advance(p, e) \in P
  <2>1. Advance(p, e) \in Positions BY AdvanceTyped
  <2>2. ASSUME NEW s \in Target(e, p.state)
        PROVE  \A t \in Moved(p, s).observed \cap SALES_EVIDENCE_STATES : \E f \in S : Backs(f, t)
    <3> TAKE t \in Moved(p, s).observed \cap SALES_EVIDENCE_STATES
    <3>1. t \in p.observed \/ t = s BY DEF Moved
    <3> QED BY <3>1, TargetBacked
  <2>3. Advance(p, e) = p \/ \E s \in Target(e, p.state) : Advance(p, e) = Moved(p, s)
      BY AdvanceIs
  <2> QED BY <2>1, <2>2, <2>3
<1>3. P \in SUBSET Positions
    OBVIOUS
<1> HIDE DEF P
<1>4. Replay(S) \in P
    BY <1>1, <1>2, <1>3, ReplayInduction
<1>5. QED  BY <1>4 DEF P

-----------------------------------------------------------------------------
(* LeadJourney: an event that arrives late.                                *)

\* Who left the linear journey does not come back to it.
LEMMA BranchesStay ==
    ASSUME NEW p \in Positions, NEW e, p.state \notin Linear
    PROVE  Advance(p, e).state \notin Linear
<1>1. ASSUME NEW s, TransitionAllowed(p.state, s) PROVE s \notin Linear
    BY <1>1, StateNames DEF TransitionAllowed
<1>2. QED  BY <1>1, AdvanceIs DEF Moved

\* The second position is as far as the first, as long as the first is linear.
AtLeastAsFar(p, q) ==
    p.state \in Linear =>
        /\ q.state \in Linear /\ STATE_RANK[q.state] >= STATE_RANK[p.state]
        /\ q.state = "customer" => p.state = "customer"

LEMMA RankCompares ==
    ASSUME NEW s \in Linear, NEW t \in Linear
    PROVE  /\ STATE_RANK[s] \in Int /\ STATE_RANK[t] \in Int
           /\ STATE_RANK[s] >= STATE_RANK[s]
           /\ STATE_RANK[t] <= 10
           /\ STATE_RANK[s] >= 10 => s = "customer"
           /\ STATE_RANK[s] >= 9 => s \in {"won", "customer"}
           /\ STATE_RANK[s] <= 1 => s = "anonymous"
<1>1. STATE_RANK[s] \in 1..10 /\ STATE_RANK[t] \in 1..10
    BY RankNumbers
<1>2. STATE_SEQUENCE[STATE_RANK[s]] = s
    BY RankNumbers
<1>3. STATE_RANK[s] = 10 => s = "customer"
    BY <1>2 DEF STATE_SEQUENCE
<1>4. STATE_RANK[s] = 9 => s = "won"
    BY <1>2 DEF STATE_SEQUENCE
<1>5. STATE_RANK[s] = 1 => s = "anonymous"
    BY <1>2 DEF STATE_SEQUENCE
<1> QED  BY <1>1, <1>3, <1>4, <1>5

\* An event with a linear target takes a linear position to the higher of the two.
LEMMA LinearAdvance ==
    ASSUME NEW p \in Positions, NEW e, NEW s \in Linear,
           p.state \in Linear, Target(e, p.state) = {s}
    PROVE  Advance(p, e).state = IF STATE_RANK[s] > STATE_RANK[p.state] THEN s ELSE p.state
<1>1. TransitionAllowed(p.state, s) <=> STATE_RANK[s] > STATE_RANK[p.state]
    BY StateNames DEF TransitionAllowed
<1>2. QED  BY <1>1, AdvanceIs DEF Moved

LEMMA StaysPut ==
    ASSUME NEW p \in Positions, NEW e, NEW s, Target(e, p.state) \subseteq {s},
           Target(e, p.state) # {} => ~ TransitionAllowed(p.state, s)
    PROVE  Advance(p, e) = p
BY AdvanceIs

\* Where an event leads does not depend on the state, but for an engagement.
LEMMA TargetCases ==
    ASSUME NEW e
    PROVE  \/ \A state : Target(e, state) = {}
           \/ \E s \in States : \A state : Target(e, state) = {s}
           \/ \A state : Target(e, state) =
                  IF state \in Linear \ {"anonymous"} THEN {"engaged"} ELSE {}
<1>1. CASE ~ Trusted(e)
    BY <1>1 DEF Target
<1>2. CASE Trusted(e) /\ e.declares # "nothing"
  <2>1. \A state : Target(e, state) = {e.declares} BY <1>2 DEF Target
  <2>2. e.declares \in States
    <3>1. e.declares \in Target(e, "lead") BY <2>1
    <3> QED BY <3>1, TargetIs
  <2> QED BY <2>1, <2>2
<1>3. CASE Trusted(e) /\ e.declares = "nothing" /\ e.type \in DOMAIN DIRECT_TARGETS
  <2>1. \A state : Target(e, state) = {DIRECT_TARGETS[e.type]} BY <1>3 DEF Target
  <2>2. DIRECT_TARGETS[e.type] \in States
    <3>1. DIRECT_TARGETS[e.type] \in Target(e, "lead") BY <2>1
    <3> QED BY <3>1, TargetIs
  <2> QED BY <2>1, <2>2
<1>4. CASE Trusted(e) /\ e.declares = "nothing" /\ e.type \notin DOMAIN DIRECT_TARGETS
  <2>1. CASE e.type \in ENGAGEMENT_TYPES
      BY <1>4, <2>1 DEF Target
  <2>2. CASE e.type \notin ENGAGEMENT_TYPES
      BY <1>4, <2>2 DEF Target
  <2> QED BY <2>1, <2>2
<1>5. QED  BY <1>1, <1>2, <1>3, <1>4

\* One and the same event keeps the distance.
LEMMA AdvanceKeepsDistance ==
    ASSUME NEW p \in Positions, NEW q \in Positions, AtLeastAsFar(p, q), NEW e
    PROVE  AtLeastAsFar(Advance(p, e), Advance(q, e))
<1> SUFFICES ASSUME p.state \in Linear, Advance(p, e).state \in Linear
             PROVE  AtLeastAsFar(Advance(p, e), Advance(q, e))
    BY BranchesStay DEF AtLeastAsFar
<1>1. /\ q.state \in Linear /\ STATE_RANK[q.state] >= STATE_RANK[p.state]
      /\ q.state = "customer" => p.state = "customer"
    BY DEF AtLeastAsFar
<1>2. /\ STATE_RANK[p.state] \in Int /\ STATE_RANK[q.state] \in Int
      /\ STATE_RANK[p.state] <= 10 /\ STATE_RANK[q.state] <= 10
    BY <1>1, RankCompares
<1>3. ASSUME NEW s \in Linear, Target(e, p.state) = {s}, Target(e, q.state) = {s}
      PROVE  AtLeastAsFar(Advance(p, e), Advance(q, e))
  <2>1. Advance(p, e).state = IF STATE_RANK[s] > STATE_RANK[p.state] THEN s ELSE p.state
      BY <1>3, LinearAdvance
  <2>2. Advance(q, e).state = IF STATE_RANK[s] > STATE_RANK[q.state] THEN s ELSE q.state
      BY <1>1, <1>3, LinearAdvance
  <2>3. STATE_RANK[s] \in Int /\ STATE_RANK[s] <= 10 /\ (STATE_RANK[s] >= 10 => s = "customer")
      BY RankCompares
  <2>4. STATE_RANK[p.state] >= 10 => p.state = "customer"
      BY RankCompares
  <2>5. STATE_RANK["customer"] = 10
      BY Ranks
  <2> QED BY <1>1, <1>2, <2>1, <2>2, <2>3, <2>4, <2>5 DEF AtLeastAsFar
<1>4. CASE \A state : Target(e, state) = {}
  <2>1. Advance(p, e) = p /\ Advance(q, e) = q BY <1>4, AdvanceIs
  <2> QED BY <2>1
<1>5. ASSUME NEW s \in States, \A state : Target(e, state) = {s}
      PROVE  AtLeastAsFar(Advance(p, e), Advance(q, e))
  <2>1. CASE s \in Linear
      BY <1>3, <1>5, <2>1
  <2>2. CASE s \notin Linear
    <3>1. ~ TransitionAllowed(p.state, s)
      <4> SUFFICES ASSUME TransitionAllowed(p.state, s) PROVE FALSE
          OBVIOUS
      <4>1. Advance(p, e) = Moved(p, s) BY <1>5, AdvanceIs
      <4> QED BY <2>2, <4>1 DEF Moved
    <3>2. ~ TransitionAllowed(q.state, s)
      <4>1. s = "lost" \/ s = "reengagement" BY <2>2, StateNames
      <4>2. CASE s = "reengagement"
        <5>1. p.state # "customer" BY <3>1, <4>2 DEF TransitionAllowed
        <5>2. q.state # "lost" BY <1>1, StateNames
        <5> QED BY <1>1, <2>2, <4>2, <5>1, <5>2 DEF TransitionAllowed
      <4>3. CASE s = "lost"
        <5>1. p.state \in {"won", "customer"}
            BY <3>1, <4>3, StateNames DEF TransitionAllowed
        <5>2. STATE_RANK[p.state] >= 9 BY <5>1, Ranks
        <5>3. STATE_RANK[q.state] >= 9 BY <1>1, <1>2, <5>2
        <5>4. q.state \in {"won", "customer"} BY <1>1, <5>3, RankCompares
        <5> QED BY <2>2, <4>3, <5>4 DEF TransitionAllowed
      <4> QED BY <4>1, <4>2, <4>3
    <3>3. Advance(p, e) = p /\ Advance(q, e) = q BY <1>5, <3>1, <3>2, StaysPut
    <3> QED BY <3>3
  <2> QED BY <2>1, <2>2
<1>6. CASE \A state : Target(e, state) =
               IF state \in Linear \ {"anonymous"} THEN {"engaged"} ELSE {}
  <2>1. CASE p.state = "anonymous"
    <3>1. Target(e, p.state) = {} BY <1>6, <2>1
    <3>2. Advance(p, e) = p BY <3>1, AdvanceIs
    <3>3. "anonymous" \in Linear /\ "engaged" \in Linear BY StateNames
    <3>4. STATE_RANK["anonymous"] = 1 /\ STATE_RANK["engaged"] = 3 BY Ranks
    <3>5. q.state # "customer" BY <1>1, <2>1
    <3>6. Advance(q, e) = q \/ Advance(q, e).state = "engaged"
      <4>1. \A t \in Target(e, q.state) : t = "engaged" BY <1>6
      <4> QED BY <4>1, AdvanceIs DEF Moved
    <3> QED BY <1>1, <2>1, <3>2, <3>3, <3>4, <3>5, <3>6 DEF AtLeastAsFar
  <2>2. CASE p.state # "anonymous"
    <3>1. ~ STATE_RANK[p.state] <= 1 BY <2>2, RankCompares
    <3>2. q.state # "anonymous" BY <1>1, <1>2, <3>1, Ranks
    <3>3. Target(e, p.state) = {"engaged"} /\ Target(e, q.state) = {"engaged"}
        BY <1>1, <1>6, <2>2, <3>2
    <3>4. "engaged" \in Linear BY StateNames
    <3> QED BY <1>3, <3>3, <3>4
  <2> QED BY <2>1, <2>2
<1>7. QED  BY <1>4, <1>5, <1>6, TargetCases

Branch(e) == Trusted(e) /\ e.declares \in {"lost", "customer", "reengagement"}

\* An event that is no branch takes a linear journey nowhere back.
LEMMA OneMoreIsAsFar ==
    ASSUME NEW p \in Positions, NEW e, ~ Branch(e)
    PROVE  AtLeastAsFar(p, Advance(p, e))
<1> SUFFICES ASSUME p.state \in Linear PROVE AtLeastAsFar(p, Advance(p, e))
    BY DEF AtLeastAsFar
<1>1. STATE_RANK[p.state] \in Int /\ STATE_RANK[p.state] >= STATE_RANK[p.state]
    BY RankCompares
<1>2. CASE Advance(p, e) = p
    BY <1>1, <1>2 DEF AtLeastAsFar
<1>3. ASSUME NEW s \in Target(e, p.state), TransitionAllowed(p.state, s),
             Advance(p, e) = Moved(p, s)
      PROVE  AtLeastAsFar(p, Advance(p, e))
  <2>1. s \in Linear /\ s # "customer"
    <3>1. CASE e.declares # "nothing"
      <4>1. Trusted(e) /\ s = e.declares /\ s \in SALES_EVIDENCE_STATES BY <3>1, TargetIs
      <4>2. s \notin {"lost", "customer", "reengagement"} BY <4>1 DEF Branch
      <4>3. s \in {"mql", "appointment", "site_visit"} BY <4>1, <4>2 DEF SALES_EVIDENCE_STATES
      <4> QED BY <4>3, StateNames
    <3>2. CASE e.declares = "nothing"
      <4>1. s \in {"lead", "sql", "negotiation", "won", "engaged"} BY <3>2, TargetIs
      <4> QED BY <4>1, StateNames
    <3> QED BY <3>1, <3>2
  <2>2. STATE_RANK[s] > STATE_RANK[p.state]
      BY <1>3, <2>1, StateNames DEF TransitionAllowed
  <2>3. STATE_RANK[s] \in Int BY <2>1, RankCompares
  <2>4. Advance(p, e).state = s BY <1>3 DEF Moved
  <2> QED BY <1>1, <2>1, <2>2, <2>3, <2>4 DEF AtLeastAsFar
<1>4. QED  BY <1>2, <1>3, AdvanceIs

LEMMA LatestRemains ==
    ASSUME NEW S, Orderly(S), NEW e \in S, Latest(S) # e
    PROVE  Latest(S \ {e}) = Latest(S)
<1>1. Latest(S) \in S \ {e}
    BY LatestIs
<1>2. \A f \in S \ {e} : f = Latest(S) \/ Earlier(f, Latest(S))
    BY LatestIs
<1>3. Orderly(S \ {e})
    BY OrderlyPart
<1>4. QED  BY <1>1, <1>2, <1>3, LatestUnique

\* With one event more, whenever it occurred, a linear journey is as far.
LEMMA LateEventIsAsFar ==
    ASSUME NEW S, Orderly(S), NEW e \in S, ~ Branch(e)
    PROVE  AtLeastAsFar(Replay(S \ {e}), Replay(S))
<1> DEFINE Far(T) == AtLeastAsFar(Replay(T \ {e}), Replay(T))
           B == {T \in SUBSET S : ~ Far(T)}
<1>1. B = {}
  <2> SUFFICES ASSUME B # {} PROVE FALSE
      OBVIOUS
  <2>1. PICK T \in B : \A U \in SUBSET T : U # T => U \notin B
    <3>1. B \in SUBSET (SUBSET S) OBVIOUS
    <3> HIDE DEF B
    <3> QED BY <3>1, MinimalSubset DEF Orderly
  <2>2. T \in SUBSET S /\ ~ AtLeastAsFar(Replay(T \ {e}), Replay(T))
      OBVIOUS
  <2>3. Orderly(T)
      BY <2>2, OrderlyPart
  <2>4. e \in T
    <3> SUFFICES ASSUME e \notin T PROVE FALSE
        OBVIOUS
    <3>1. T \ {e} = T OBVIOUS
    <3>2. Replay(T) \in Positions BY <2>3, ReplayTyped
    <3>3. Replay(T).state \in Linear =>
              STATE_RANK[Replay(T).state] >= STATE_RANK[Replay(T).state]
        BY RankCompares
    <3>4. AtLeastAsFar(Replay(T), Replay(T)) BY <3>3 DEF AtLeastAsFar
    <3> QED BY <2>2, <3>1, <3>4
  <2> DEFINE x == Latest(T)
  <2>5. x \in T /\ Replay(T) = Advance(Replay(T \ {x}), x)
      BY <2>3, <2>4, ReplayStep, LatestIs
  <2>6. CASE x = e
    <3>1. Orderly(T \ {e}) BY <2>3, OrderlyPart
    <3>2. Replay(T \ {e}) \in Positions BY <3>1, ReplayTyped
    <3>3. Replay(T) = Advance(Replay(T \ {e}), e) BY <2>5, <2>6
    <3> HIDE DEF x
    <3> QED BY <2>2, <3>2, <3>3, OneMoreIsAsFar
  <2>7. CASE x # e
    <3>1. Orderly(T \ {e}) /\ Orderly(T \ {x}) /\ Orderly((T \ {e}) \ {x})
        BY <2>3, OrderlyPart
    <3>2. Latest(T \ {e}) = x BY <2>3, <2>4, <2>7, LatestRemains
    <3> HIDE DEF x
    <3>3. T \ {e} # {} BY <2>5, <2>7
    <3>4. Replay(T \ {e}) = Advance(Replay((T \ {e}) \ {x}), x)
        BY <3>1, <3>2, <3>3, ReplayStep
    <3>5. AtLeastAsFar(Replay((T \ {x}) \ {e}), Replay(T \ {x}))
      <4>1. T \ {x} \in SUBSET T /\ T \ {x} # T /\ T \ {x} \in SUBSET S BY <2>2, <2>5
      <4> QED BY <2>1, <4>1
    <3>6. (T \ {x}) \ {e} = (T \ {e}) \ {x} OBVIOUS
    <3>7. Replay((T \ {e}) \ {x}) \in Positions /\ Replay(T \ {x}) \in Positions
        BY <3>1, ReplayTyped
    <3>8. AtLeastAsFar(Advance(Replay((T \ {e}) \ {x}), x), Advance(Replay(T \ {x}), x))
        BY <3>5, <3>6, <3>7, AdvanceKeepsDistance
    <3> QED BY <2>2, <2>5, <3>4, <3>8
  <2> QED BY <2>6, <2>7
<1>2. S \in SUBSET S
    OBVIOUS
<1>3. QED  BY <1>1, <1>2

-----------------------------------------------------------------------------
(* SalesReviews: the journeys of all that arrived.                         *)

Expected == scenario.known \cup scenario.touches

\* What arrived was expected, so that it can be replayed.
ArrivedFits == scenario \in Scenarios /\ arrived \subseteq Expected

LEMMA ScenarioOrderly ==
    ASSUME NEW c \in Scenarios
    PROVE  Orderly(c.known \cup c.touches)
<1> DEFINE expected == c.known \cup c.touches
<1>1. /\ IsFiniteSet(expected) /\ expected \subseteq Touches
      /\ \A e, f \in expected : e.id = f.id => e = f
    BY ScenarioAssumption, Zenon
<1>2. \A e \in Touches : e.at \in Int /\ e.id \in Int
    BY DEF Touches
<1> HIDE DEF expected
<1>3. Orderly(expected)
    BY <1>1, <1>2 DEF Orderly
<1>4. QED  BY <1>3 DEF expected

LEMMA ArrivedFitsHolds == Spec => []ArrivedFits
<1>1. Init => ArrivedFits
    BY DEF Init, ArrivedFits, Expected
<1>2. ArrivedFits /\ [Next]_vars => ArrivedFits'
  <2> SUFFICES ASSUME ArrivedFits, [Next]_vars PROVE ArrivedFits'
      OBVIOUS
  <2>1. ASSUME UNCHANGED <<scenario, arrived>> PROVE ArrivedFits'
      BY <2>1 DEF ArrivedFits, Expected
  <2>2. CASE World
      BY <2>1, <2>2 DEF World, Tick, Ingest, Happen, Attest, ArrivedFits, Expected
  <2>3. ASSUME NEW r \in Reviewers, Act(r) PROVE ArrivedFits'
    <3>1. UNCHANGED <<scenario, arrived>>
        BY <2>3 DEF Act, Project, PreviewSales, ScoreProjected, Refuse, ScoreSales,
               RecommendSales, Answer, SetRecord, Index, Count, ListExpired, Expire, Die,
               Goto, signals
    <3> QED BY <2>1, <3>1
  <2>4. CASE UNCHANGED vars
      BY <2>1, <2>4 DEF vars, signals
  <2> QED BY <2>2, <2>3, <2>4 DEF Next
<1>3. QED  BY <1>1, <1>2, PTL DEF Spec

LEMMA EventsOrderly ==
    ASSUME ArrivedFits, NEW s
    PROVE  Orderly(Events(s))
<1>1. Events(s) \subseteq arrived
    BY DEF Events, Ingested
<1>2. arrived \subseteq scenario.known \cup scenario.touches /\ scenario \in Scenarios
    BY DEF ArrivedFits, Expected
<1>3. Events(s) \subseteq scenario.known \cup scenario.touches
    BY <1>1, <1>2
<1>4. QED  BY <1>2, <1>3, ScenarioOrderly, OrderlyPart

\* Journeys that are listed in full were so before one of their events arrived.
LEMMA ListedInFull ==
    ASSUME ArrivedFits', NEW s, arrived \subseteq arrived', Cardinality(Ingested(s)') <= EventLimit
    PROVE  Events(s) = Ingested(s) /\ Events(s)' = Ingested(s)'
<1>1. scenario' \in Scenarios /\ arrived' \subseteq scenario'.known \cup scenario'.touches
    BY DEF ArrivedFits, Expected
<1>2. IsFiniteSet(scenario'.known \cup scenario'.touches)
    BY <1>1, ScenarioAssumption
<1>3. /\ Ingested(s) \subseteq Ingested(s)'
      /\ Ingested(s)' \subseteq scenario'.known \cup scenario'.touches
    BY <1>1 DEF Ingested
<1>4. IsFiniteSet(Ingested(s)')
    BY <1>2, <1>3, FS_Subset
<1>5. IsFiniteSet(Ingested(s)) /\ Cardinality(Ingested(s)) <= Cardinality(Ingested(s)')
    BY <1>3, <1>4, FS_Subset
<1>6. Cardinality(Ingested(s)) \in Nat /\ Cardinality(Ingested(s)') \in Nat
    BY <1>4, <1>5, FS_CardinalityType
<1>7. Cardinality(Ingested(s)) <= EventLimit
    BY <1>5, <1>6, EventLimitAssumption
<1>8. QED  BY <1>7 DEF Events

\* For every journey: stages below the highest are seen, or reported as missing.
THEOREM JourneysReportTheirGaps == Spec => []GapsAreReported
<1>1. ArrivedFits => GapsAreReported
  <2> SUFFICES ASSUME ArrivedFits, NEW s \in Subjects
               PROVE  LET p       == Journey(s)
                          highest == Max({1} \cup {STATE_RANK[t] : t \in p.observed \cap Linear})
                          passed  == {t \in Linear : STATE_RANK[t] \in 2..highest}
                      IN passed \ p.observed \subseteq MissingSignals(p)
      BY DEF GapsAreReported
  <2>1. Orderly(Events(s)) BY EventsOrderly
  <2>2. Journey(s) \in Positions /\ NoGaps(Journey(s))
      BY <2>1, ReplayTyped, ReplayHasNoGaps DEF Journey
  <2> QED BY <2>2, NoGapsReported
<1>2. QED  BY <1>1, ArrivedFitsHolds, PTL

\* For every journey: a stage that only some may declare was declared by one of them.
THEOREM JourneyStagesAreBacked == Spec => []StagesAreBacked
<1>1. ArrivedFits => StagesAreBacked
  <2> SUFFICES ASSUME ArrivedFits, NEW s \in Subjects,
                      NEW t \in Journey(s).observed \cap SALES_EVIDENCE_STATES
               PROVE  \E e \in Events(s) : Backs(e, t)
      BY Zenon DEF StagesAreBacked, Backs
  <2>1. Orderly(Events(s)) BY EventsOrderly
  <2> QED BY <2>1, ReplayBacked DEF Journey
<1>2. QED  BY <1>1, ArrivedFitsHolds, PTL

\* Whatever arrives late, only a loss, a customer or a reengagement that it declares
\* takes a linear journey back, as long as all of the journey is listed.
THEOREM OnlyBranchesTakeJourneysBack == Spec => OnlyBranchesTakeBack
<1>1. ASSUME ArrivedFits, ArrivedFits', [Next]_vars, NEW s \in Subjects,
             Cardinality(Ingested(s)') <= EventLimit
      PROVE  LET before == Events(s)  after == Events(s)'
                 old == Replay(before).state  new == Replay(after).state
             IN (old \in Linear /\ ~(new \in Linear /\ STATE_RANK[new] >= STATE_RANK[old])) =>
                   \E e \in after \ before :
                       Trusted(e) /\ e.declares \in {"lost", "customer", "reengagement"}
  <2> DEFINE before == Events(s)  after == Events(s)'
  <2>1. after = before \/ \E e \in after : e \notin before /\ before = after \ {e}
    <3>1. arrived' = arrived \/ \E e \in Expected : e \notin arrived /\ arrived' = arrived \cup {e}
      <4>1. CASE World
          BY <4>1 DEF World, Tick, Ingest, Happen, Attest, Expected
      <4>2. ASSUME NEW r \in Reviewers, Act(r) PROVE arrived' = arrived
          BY <4>2 DEF Act, Project, PreviewSales, ScoreProjected, Refuse, ScoreSales,
                 RecommendSales, Answer, SetRecord, Index, Count, ListExpired, Expire, Die,
                 Goto, signals
      <4>3. CASE UNCHANGED vars
          BY <4>3 DEF vars, signals
      <4> QED BY <1>1, <4>1, <4>2, <4>3 DEF Next
    <3>2. before = Ingested(s) /\ after = Ingested(s)'
      <4>1. arrived \subseteq arrived' BY <3>1
      <4> QED BY <1>1, <4>1, ListedInFull
    <3>3. before = {e \in arrived : e.subject = s} /\ after = {e \in arrived' : e.subject = s}
        BY <3>2 DEF Ingested
    <3> HIDE DEF before, after
    <3> QED BY <3>1, <3>3
  <2>2. Orderly(before) /\ Orderly(after)
    <3>1. Orderly(before) BY <1>1, EventsOrderly
    <3>2. Orderly(after)
      <4>1. scenario' \in Scenarios /\ arrived' \subseteq scenario'.known \cup scenario'.touches
          BY <1>1 DEF ArrivedFits, Expected
      <4>2. after \subseteq scenario'.known \cup scenario'.touches BY <4>1 DEF Events, Ingested
      <4> HIDE DEF after
      <4> QED BY <4>1, <4>2, ScenarioOrderly, OrderlyPart
    <3> QED BY <3>1, <3>2
  <2> HIDE DEF before, after
  <2>3. CASE after = before
    <3>1. Replay(before).state \in Linear =>
              STATE_RANK[Replay(before).state] >= STATE_RANK[Replay(before).state]
        BY RankCompares
    <3> QED BY <2>3, <3>1 DEF before, after
  <2>4. ASSUME NEW e \in after, e \notin before, before = after \ {e}, ~ Branch(e)
        PROVE  AtLeastAsFar(Replay(before), Replay(after))
      BY <2>2, <2>4, LateEventIsAsFar
  <2>5. ASSUME NEW e \in after, e \notin before, before = after \ {e}, Branch(e)
        PROVE  \E f \in after \ before :
                   Trusted(f) /\ f.declares \in {"lost", "customer", "reengagement"}
      BY <2>5 DEF Branch
  <2> QED BY <2>1, <2>3, <2>4, <2>5 DEF AtLeastAsFar, before, after
<1>2. ASSUME ArrivedFits, ArrivedFits', [Next]_vars
      PROVE  [\A s \in {t \in Subjects : Cardinality(Ingested(t)') <= EventLimit} :
              \A before \in {Events(s)}, after \in {Events(s)'} :
                LET old == Replay(before).state  new == Replay(after).state
                IN (old \in Linear /\ ~(new \in Linear /\ STATE_RANK[new] >= STATE_RANK[old])) =>
                      \E e \in after \ before :
                          Trusted(e) /\ e.declares \in {"lost", "customer", "reengagement"}]_vars
    BY <1>1, <1>2
<1>3. QED  BY <1>2, ArrivedFitsHolds, PTL DEF Spec, OnlyBranchesTakeBack

-----------------------------------------------------------------------------
(* SalesSignals: sums of factors.                                          *)

\* What a factor scores, and what it could score, over a set of factors.
AddsUp(it, w, F) ==
    it = [s \in SUBSET F |-> IF s = {} THEN 0 ELSE Taken(s)[w] + it[s \ {Taken(s)}]]

Weights(w, F) == CHOOSE it : AddsUp(it, w, F)
Weight(w, F) == Weights(w, F)[F]

Factors(events, as_of, sales) ==
    {Factor("journey_state", STATE_POINTS[Replay(events).state], 70),
     Factor("recency", RecencyPoints(Max({0, as_of - Max({e.at : e \in TrustedOf(events)})})), 20)}
        \cup EngagementFactors(Cardinality({e \in TrustedOf(events) : e.type \in ENGAGEMENT_TYPES}))
        \cup SlaFactors(sales)

LEMMA ScoreIs ==
    ASSUME NEW events, NEW as_of, NEW sales
    PROVE  Score(events, as_of, sales) =
             [points   |-> Weight("points", Factors(events, as_of, sales)),
              capacity |-> Weight("capacity", Factors(events, as_of, sales))]
BY DEF Score, Factors, Weight, Weights, AddsUp, Taken, MapThenSumSet, MapThenFoldSet

\* Factors of which everything is a number.
Weighed(w, F) == IsFiniteSet(F) /\ \A x \in F : x[w] \in Nat

LEMMA WeighedPart ==
    ASSUME NEW w, NEW F, Weighed(w, F), NEW U \in SUBSET F
    PROVE  Weighed(w, U)
BY FS_Subset DEF Weighed

LEMMA WeightIs ==
    ASSUME NEW w, NEW F, NEW v, \A x \in F : v[x] = x[w]
    PROVE  Weight(w, F) = SumOver(v, F)
<1>1. ASSUME NEW it PROVE AddsUp(it, w, F) = SumsUp(it, v, F)
  <2>1. ASSUME NEW s \in SUBSET F
        PROVE  (IF s = {} THEN 0 ELSE Taken(s)[w] + it[s \ {Taken(s)}])
               = IF s = {} THEN 0 ELSE v[Taken(s)] + it[s \ {Taken(s)}]
    <3>1. s # {} => Taken(s) \in F BY TakenIsIn
    <3> QED BY <3>1
  <2> QED BY <2>1, Zenon DEF AddsUp, SumsUp
<1>2. Weights(w, F) = Sums(v, F)
    BY <1>1, Zenon DEF Weights, Sums
<1>3. QED  BY <1>2 DEF Weight, SumOver

LEMMA WeighedIsSummable ==
    ASSUME NEW w, NEW F, Weighed(w, F), NEW v, v = [x \in F |-> x[w]]
    PROVE  /\ \A U \in SUBSET F : Summable(v, U) /\ Weight(w, U) = SumOver(v, U)
           /\ \A x \in F : v[x] = x[w] /\ v[x] \in Nat
<1>1. \A x \in F : v[x] = x[w] /\ v[x] \in Nat
    BY DEF Weighed
<1>2. ASSUME NEW U \in SUBSET F PROVE Summable(v, U) /\ Weight(w, U) = SumOver(v, U)
  <2>1. Summable(v, U) BY <1>1, FS_Subset DEF Weighed, Summable
  <2>2. \A x \in U : v[x] = x[w] BY <1>1
  <2> QED BY <2>1, <2>2, WeightIs
<1>3. QED  BY <1>1, <1>2

LEMMA WeightTyped ==
    ASSUME NEW w, NEW F, Weighed(w, F)
    PROVE  Weight(w, F) \in Nat
<1>1. PICK v : v = [x \in F |-> x[w]]
    OBVIOUS
<1>2. F \in SUBSET F
    OBVIOUS
<1>3. Summable(v, F) /\ Weight(w, F) = SumOver(v, F)
    BY <1>1, <1>2, WeighedIsSummable
<1>4. QED  BY <1>3, SumTyped

LEMMA WeightEmpty == \A w : Weight(w, {}) = 0
<1> TAKE w
<1>1. PICK v : v = [x \in {} |-> x[w]]
    OBVIOUS
<1>2. Weight(w, {}) = SumOver(v, {})
    BY WeightIs
<1>3. QED  BY <1>2, SumEmpty

\* The order in which the elements are added does not matter.
LEMMA WeightRemove ==
    ASSUME NEW w, NEW F, Weighed(w, F), NEW x \in F
    PROVE  Weight(w, F) = x[w] + Weight(w, F \ {x})
<1>1. PICK v : v = [y \in F |-> y[w]]
    OBVIOUS
<1>2. F \in SUBSET F /\ F \ {x} \in SUBSET F
    OBVIOUS
<1>3. /\ Summable(v, F) /\ Weight(w, F) = SumOver(v, F)
      /\ Weight(w, F \ {x}) = SumOver(v, F \ {x}) /\ v[x] = x[w]
    BY <1>1, <1>2, WeighedIsSummable
<1>4. SumOver(v, F) = v[x] + SumOver(v, F \ {x})
    BY <1>3, SumRemove
<1>5. QED  BY <1>3, <1>4

LEMMA WeightInsert ==
    ASSUME NEW w, NEW F, NEW x, x \notin F, Weighed(w, F \cup {x})
    PROVE  Weight(w, F \cup {x}) = x[w] + Weight(w, F)
<1>1. (F \cup {x}) \ {x} = F
    OBVIOUS
<1>2. x \in F \cup {x}
    OBVIOUS
<1>3. QED  BY <1>1, <1>2, WeightRemove

-----------------------------------------------------------------------------
(* SalesSignals: scores.                                                   *)

LEMMA GreaterOfTwo ==
    ASSUME NEW a \in Int, NEW b \in Int
    PROVE  Max({a, b}) = IF a >= b THEN a ELSE b
<1>1. \E m \in {a, b} : \A c \in {a, b} : m >= c
    OBVIOUS
<1>2. Max({a, b}) \in {a, b} /\ \A c \in {a, b} : Max({a, b}) >= c
    BY <1>1 DEF Max
<1>3. QED  BY <1>2

LEMMA LesserOfTwo ==
    ASSUME NEW a \in Int, NEW b \in Int
    PROVE  Min({a, b}) = IF a <= b THEN a ELSE b
<1>1. \E m \in {a, b} : \A c \in {a, b} : m <= c
    OBVIOUS
<1>2. Min({a, b}) \in {a, b} /\ \A c \in {a, b} : Min({a, b}) <= c
    BY <1>1 DEF Min
<1>3. QED  BY <1>2

\* A factor scores at most what it could.
FactorFits(x) == x["points"] \in Nat /\ x["capacity"] \in Nat /\ x["points"] <= x["capacity"]

LEMMA FactorIs ==
    ASSUME NEW name, NEW points \in Nat, NEW capacity \in Nat, points <= capacity
    PROVE  FactorFits(Factor(name, points, capacity))
BY DEF FactorFits, Factor

LEMMA RecencyFits ==
    ASSUME NEW age
    PROVE  RecencyPoints(age) \in Nat /\ RecencyPoints(age) <= 20
<1> DEFINE passed == {i \in 1..4 : age > AgeLimits[i]}
<1>1. Cardinality(passed) \in 0..4
  <2>1. IsFiniteSet(1..4) /\ Cardinality(1..4) = IF 1 > 4 THEN 0 ELSE 4 - 1 + 1
    <3>1. 1 \in Int /\ 4 \in Int OBVIOUS
    <3> QED BY <3>1, FS_Interval
  <2>2. passed \in SUBSET (1..4) OBVIOUS
  <2> HIDE DEF passed
  <2>3. IsFiniteSet(passed) /\ Cardinality(passed) <= Cardinality(1..4)
      BY <2>1, <2>2, FS_Subset
  <2>4. Cardinality(passed) \in Nat BY <2>3, FS_CardinalityType
  <2> QED BY <2>1, <2>3, <2>4
<1> HIDE DEF passed
<1>2. \A i \in 0..4 : <<20, 16, 12, 6, 0>>[1 + i] \in {0, 6, 12, 16, 20}
    OBVIOUS
<1>3. RecencyPoints(age) = <<20, 16, 12, 6, 0>>[1 + Cardinality(passed)]
    BY DEF RecencyPoints, passed
<1>4. RecencyPoints(age) \in {0, 6, 12, 16, 20}
    BY <1>1, <1>2, <1>3
<1>5. QED  BY <1>4

LEMMA EngagementFits ==
    ASSUME NEW n \in Nat
    PROVE  IsFiniteSet(EngagementFactors(n)) /\ \A x \in EngagementFactors(n) : FactorFits(x)
<1>1. CASE n = 0
    BY <1>1, FS_EmptySet DEF EngagementFactors
<1>2. CASE n > 0
  <2>1. Min({n, 3}) \in 1..3 BY <1>2, LesserOfTwo
  <2>2. \A i \in 1..3 : <<4, 7, 10>>[i] \in {4, 7, 10} OBVIOUS
  <2>3. EngagementPoints(n) \in {4, 7, 10} BY <2>1, <2>2 DEF EngagementPoints
  <2>4. FactorFits(Factor("engagement", EngagementPoints(n), 10)) BY <2>3, FactorIs
  <2>5. EngagementFactors(n) = {Factor("engagement", EngagementPoints(n), 10)}
      BY <1>2 DEF EngagementFactors
  <2> QED BY <2>4, <2>5, FS_Singleton
<1>3. QED  BY <1>1, <1>2

LEMMA SlaFits ==
    ASSUME NEW sales
    PROVE  IsFiniteSet(SlaFactors(sales)) /\ \A x \in SlaFactors(sales) : FactorFits(x)
<1> DEFINE F(t) == Factor(t, IF sales.window[t] = "met" THEN SLA_FACTOR_CAPACITY[t]
                             ELSE IF sales.window[t] = "late" THEN SLA_LATE_POINTS[t] ELSE 0,
                          SLA_FACTOR_CAPACITY[t])
<1>1. \A t \in SLA_TYPES :
          /\ SLA_FACTOR_CAPACITY[t] \in Nat /\ SLA_LATE_POINTS[t] \in Nat
          /\ SLA_LATE_POINTS[t] <= SLA_FACTOR_CAPACITY[t]
    BY DEF SLA_TYPES, SLA_FACTOR_CAPACITY, SLA_LATE_POINTS
<1>2. \A t \in SLA_TYPES : FactorFits(F(t))
  <2> TAKE t \in SLA_TYPES
  <2> DEFINE points == IF sales.window[t] = "met" THEN SLA_FACTOR_CAPACITY[t]
                       ELSE IF sales.window[t] = "late" THEN SLA_LATE_POINTS[t] ELSE 0
  <2>1. points \in Nat /\ points <= SLA_FACTOR_CAPACITY[t] BY <1>1
  <2> HIDE DEF points
  <2>2. FactorFits(Factor(t, points, SLA_FACTOR_CAPACITY[t])) BY <1>1, <2>1, FactorIs
  <2> QED BY <2>2 DEF points
<1>3. SlaFactors(sales) \in SUBSET {F("first_response"), F("appointment_booked")}
    BY DEF SlaFactors, SLA_TYPES
<1>4. IsFiniteSet({F("first_response"), F("appointment_booked")})
  <2> HIDE DEF F
  <2>1. IsFiniteSet({F("first_response")}) BY FS_Singleton
  <2>2. {F("first_response"), F("appointment_booked")}
            = {F("first_response")} \cup {F("appointment_booked")} OBVIOUS
  <2> QED BY <2>1, <2>2, FS_AddElement
<1> HIDE DEF F
<1>5. \A x \in SlaFactors(sales) : FactorFits(x)
    BY <1>2, <1>3 DEF SLA_TYPES
<1>6. QED  BY <1>3, <1>4, <1>5, FS_Subset

LEMMA FactorsFit ==
    ASSUME NEW es, Orderly(es), NEW as_of, NEW sales
    PROVE  /\ IsFiniteSet(Factors(es, as_of, sales))
           /\ \A x \in Factors(es, as_of, sales) : FactorFits(x)
<1> DEFINE age == Max({0, as_of - Max({e.at : e \in TrustedOf(es)})})
           engaging == {e \in TrustedOf(es) : e.type \in ENGAGEMENT_TYPES}
           stage   == Factor("journey_state", STATE_POINTS[Replay(es).state], 70)
           recency == Factor("recency", RecencyPoints(age), 20)
<1>1. FactorFits(stage)
  <2>1. Replay(es).state \in States BY ReplayTyped DEF Positions
  <2>2. \A s \in States : STATE_POINTS[s] \in Nat /\ STATE_POINTS[s] <= 70
      BY StateNames DEF STATE_POINTS
  <2> QED BY <2>1, <2>2, FactorIs
<1>2. FactorFits(recency)
    BY RecencyFits, FactorIs
<1>3. Cardinality(engaging) \in Nat
  <2>1. engaging \in SUBSET es BY DEF TrustedOf
  <2> QED BY <2>1, FS_Subset, FS_CardinalityType DEF Orderly
<1>4. Factors(es, as_of, sales) =
          ({stage, recency} \cup EngagementFactors(Cardinality(engaging))) \cup SlaFactors(sales)
    BY DEF Factors
<1> HIDE DEF stage, recency, engaging
<1>5. IsFiniteSet({stage, recency})
  <2>1. IsFiniteSet({stage}) BY FS_Singleton
  <2>2. {stage, recency} = {stage} \cup {recency} OBVIOUS
  <2> QED BY <2>1, <2>2, FS_AddElement
<1>6. IsFiniteSet({stage, recency} \cup EngagementFactors(Cardinality(engaging)))
    BY <1>3, <1>5, EngagementFits, FS_Union
<1>7. IsFiniteSet(Factors(es, as_of, sales))
    BY <1>4, <1>6, SlaFits, FS_Union
<1>8. QED  BY <1>1, <1>2, <1>3, <1>4, <1>7, EngagementFits, SlaFits

\* What is scored is at most what could be.
LEMMA WeightsOrdered ==
    ASSUME NEW F, IsFiniteSet(F), \A x \in F : FactorFits(x)
    PROVE  /\ Weighed("points", F) /\ Weighed("capacity", F)
           /\ Weight("points", F) \in Nat /\ Weight("capacity", F) \in Nat
           /\ Weight("points", F) <= Weight("capacity", F)
<1>1. Weighed("points", F) /\ Weighed("capacity", F)
    BY DEF Weighed, FactorFits
<1> DEFINE B == {T \in SUBSET F : ~ Weight("points", T) <= Weight("capacity", T)}
<1>2. B = {}
  <2> SUFFICES ASSUME B # {} PROVE FALSE
      OBVIOUS
  <2>1. PICK T \in B : \A U \in SUBSET T : U # T => U \notin B
    <3>1. B \in SUBSET (SUBSET F) OBVIOUS
    <3> HIDE DEF B
    <3> QED BY <3>1, MinimalSubset
  <2>2. T \in SUBSET F /\ ~ Weight("points", T) <= Weight("capacity", T)
      OBVIOUS
  <2>3. T # {}
    <3>1. Weight("points", {}) = 0 /\ Weight("capacity", {}) = 0 BY WeightEmpty
    <3> QED BY <2>2, <3>1
  <2>4. PICK x \in T : TRUE
      BY <2>3
  <2>5. /\ Weighed("points", T) /\ Weighed("capacity", T)
        /\ Weighed("points", T \ {x}) /\ Weighed("capacity", T \ {x})
      BY <1>1, <2>2, <2>4, WeighedPart
  <2>6. Weight("points", T) = x["points"] + Weight("points", T \ {x})
      BY <2>4, <2>5, WeightRemove
  <2>7. Weight("capacity", T) = x["capacity"] + Weight("capacity", T \ {x})
      BY <2>4, <2>5, WeightRemove
  <2>8. Weight("points", T \ {x}) <= Weight("capacity", T \ {x})
    <3>1. T \ {x} \in SUBSET T /\ T \ {x} # T /\ T \ {x} \in SUBSET F BY <2>2, <2>4
    <3> QED BY <2>1, <3>1
  <2>9. /\ Weight("points", T \ {x}) \in Nat /\ Weight("capacity", T \ {x}) \in Nat
      BY <2>5, WeightTyped
  <2>10. FactorFits(x)
      BY <2>2, <2>4
  <2>11. \A a, b, m, n \in Nat : a <= b /\ m <= n => a + m <= b + n
      OBVIOUS
  <2>12. x["points"] + Weight("points", T \ {x}) <= x["capacity"] + Weight("capacity", T \ {x})
      BY <2>8, <2>9, <2>10, <2>11 DEF FactorFits
  <2> QED BY <2>2, <2>6, <2>7, <2>12, Zenon
<1>3. F \in SUBSET F
    OBVIOUS
<1>4. Weight("points", F) <= Weight("capacity", F)
    BY <1>2, <1>3
<1>5. QED  BY <1>1, <1>4, WeightTyped

ScoreFits(score) ==
    /\ score.points \in Nat /\ score.capacity \in Nat
    /\ score.points <= score.capacity

LEMMA ScoreHasFit ==
    ASSUME NEW es, Orderly(es), NEW as_of, NEW sales
    PROVE  ScoreFits(Score(es, as_of, sales))
<1> DEFINE F == Factors(es, as_of, sales)
<1>1. IsFiniteSet(F) /\ \A x \in F : FactorFits(x)
    BY FactorsFit
<1>2. Score(es, as_of, sales) = [points |-> Weight("points", F), capacity |-> Weight("capacity", F)]
    BY ScoreIs
<1> HIDE DEF F
<1>3. QED  BY <1>1, <1>2, WeightsOrdered DEF ScoreFits

\* A score without a result of the SLA is the plain one.
LEMMA UnprovenIsPlain ==
    ASSUME NEW es, NEW as_of, NEW sales,
           \A t \in SLA_TYPES : ~ sales.verified \/ sales.window[t] \in
               {"not_evaluable", "pending", "overdue_missing_evidence"}
    PROVE  Score(es, as_of, sales) = Score(es, as_of, NoSales)
<1>1. SlaFactors(sales) = {}
  <2>1. {u \in SLA_TYPES : sales.verified /\ sales.window[u] \in {"met", "late", "breached"}} = {}
      OBVIOUS
  <2> QED BY <2>1, Zenon DEF SlaFactors
<1>2. SlaFactors(NoSales) = {}
  <2>1. {u \in SLA_TYPES : NoSales.verified /\ NoSales.window[u] \in {"met", "late", "breached"}} = {}
      BY DEF NoSales
  <2> QED BY <2>1, Zenon DEF SlaFactors
<1>3. Factors(es, as_of, sales) = Factors(es, as_of, NoSales)
    BY <1>1, <1>2 DEF Factors
<1>4. QED  BY <1>3, ScoreIs

Plainly(es, as_of) == Factors(es, as_of, NoSales)

LEMMA MetAddsBoth ==
    ASSUME NEW es, NEW as_of, NEW sales, sales.verified,
           \A t \in SLA_TYPES : sales.window[t] = "met"
    PROVE  /\ Factors(es, as_of, sales) =
                 (Plainly(es, as_of) \cup {Factor("first_response", 6, 6)})
                     \cup {Factor("appointment_booked", 9, 9)}
           /\ \A x \in Plainly(es, as_of) : x.name \in {"journey_state", "recency", "engagement"}
<1>1. {u \in SLA_TYPES : sales.verified /\ sales.window[u] \in {"met", "late", "breached"}}
          = {"first_response", "appointment_booked"}
    BY DEF SLA_TYPES
<1>2. \A t \in {"first_response", "appointment_booked"} : sales.window[t] = "met"
    BY DEF SLA_TYPES
<1>3. SlaFactors(sales) = {Factor("first_response", 6, 6), Factor("appointment_booked", 9, 9)}
  <2>1. SlaFactors(sales) =
          {Factor(t, IF sales.window[t] = "met" THEN SLA_FACTOR_CAPACITY[t]
                     ELSE IF sales.window[t] = "late" THEN SLA_LATE_POINTS[t] ELSE 0,
                  SLA_FACTOR_CAPACITY[t]) : t \in {"first_response", "appointment_booked"}}
      BY <1>1, Zenon DEF SlaFactors
  <2>2. \A t \in {"first_response", "appointment_booked"} :
            Factor(t, IF sales.window[t] = "met" THEN SLA_FACTOR_CAPACITY[t]
                      ELSE IF sales.window[t] = "late" THEN SLA_LATE_POINTS[t] ELSE 0,
                   SLA_FACTOR_CAPACITY[t])
            = Factor(t, SLA_FACTOR_CAPACITY[t], SLA_FACTOR_CAPACITY[t])
      BY <1>2
  <2>3. SLA_FACTOR_CAPACITY["first_response"] = 6 /\ SLA_FACTOR_CAPACITY["appointment_booked"] = 9
      BY DEF SLA_FACTOR_CAPACITY
  <2>4. SlaFactors(sales) = {Factor(t, SLA_FACTOR_CAPACITY[t], SLA_FACTOR_CAPACITY[t]) :
                                 t \in {"first_response", "appointment_booked"}}
      BY <2>1, <2>2
  <2> QED BY <2>3, <2>4
<1>4. SlaFactors(NoSales) = {}
  <2>1. {u \in SLA_TYPES : NoSales.verified /\ NoSales.window[u] \in {"met", "late", "breached"}} = {}
      BY DEF NoSales
  <2> QED BY <2>1, Zenon DEF SlaFactors
<1>5. Factors(es, as_of, sales) =
          (Plainly(es, as_of) \cup {Factor("first_response", 6, 6)})
              \cup {Factor("appointment_booked", 9, 9)}
    BY <1>3, <1>4 DEF Factors, Plainly
<1>6. \A x \in Plainly(es, as_of) : x.name \in {"journey_state", "recency", "engagement"}
    BY <1>4 DEF Factors, Plainly, EngagementFactors, Factor
<1>7. QED  BY <1>5, <1>6

LEMMA MetCrossMultiplied ==
    ASSUME NEW p \in Nat, NEW c \in Nat, p <= c
    PROVE  (p + 15) * c >= p * (c + 15)
<1>1. (p + 15) * c = p * c + 15 * c
    OBVIOUS
<1>2. p * (c + 15) = p * c + 15 * p
    OBVIOUS
<1>3. 15 * c >= 15 * p
    OBVIOUS
<1>4. p * c \in Int /\ 15 * c \in Int /\ 15 * p \in Int
    OBVIOUS
<1>5. QED  BY <1>1, <1>2, <1>3, <1>4

\* A score with both results met is never less than the plain one.
LEMMA MetIsNotLess ==
    ASSUME NEW es, Orderly(es), NEW as_of, NEW sales, sales.verified,
           \A t \in SLA_TYPES : sales.window[t] = "met"
    PROVE  LET score == Score(es, as_of, sales)  plain == Score(es, as_of, NoSales)
           IN score.points * plain.capacity >= plain.points * score.capacity
<1> DEFINE F == Plainly(es, as_of)
           a == Factor("first_response", 6, 6)
           b == Factor("appointment_booked", 9, 9)
           G == F \cup {a}
           H == G \cup {b}
<1>1. Factors(es, as_of, sales) = H
    BY MetAddsBoth
<1>2. \A x \in F : x.name \in {"journey_state", "recency", "engagement"}
    BY MetAddsBoth
<1>3. /\ a["points"] = 6 /\ a["capacity"] = 6 /\ a.name = "first_response"
      /\ b["points"] = 9 /\ b["capacity"] = 9 /\ b.name = "appointment_booked"
    BY DEF Factor
<1>4. IsFiniteSet(H) /\ \A x \in H : FactorFits(x)
    BY <1>1, FactorsFit
<1>5. Factors(es, as_of, NoSales) = F
    BY DEF Plainly
<1> HIDE DEF F, a, b
<1>6. a \notin F /\ b \notin G
    BY <1>2, <1>3
<1>7. /\ G \in SUBSET H /\ F \in SUBSET H
      /\ IsFiniteSet(F) /\ IsFiniteSet(G)
    BY <1>4, FS_Subset
<1> HIDE DEF H
<1>8. /\ Weighed("points", H) /\ Weighed("capacity", H)
      /\ Weighed("points", G) /\ Weighed("capacity", G)
      /\ Weight("points", F) \in Nat /\ Weight("capacity", F) \in Nat
      /\ Weight("points", F) <= Weight("capacity", F)
  <2>1. Weighed("points", H) /\ Weighed("capacity", H) BY <1>4, WeightsOrdered
  <2>2. (\A x \in G : FactorFits(x)) /\ (\A x \in F : FactorFits(x)) BY <1>4, <1>7
  <2>3. Weighed("points", G) /\ Weighed("capacity", G) BY <1>7, <2>2, WeightsOrdered
  <2> QED BY <1>7, <2>1, <2>2, <2>3, WeightsOrdered
<1>9. Weight("points", H) = 9 + Weight("points", G)
  <2>1. Weighed("points", G \cup {b}) BY <1>8 DEF H
  <2>2. Weight("points", G \cup {b}) = b["points"] + Weight("points", G)
    <3> HIDE DEF G
    <3> QED BY <1>6, <2>1, WeightInsert
  <2> QED BY <1>3, <2>2, Zenon DEF H
<1>10. Weight("capacity", H) = 9 + Weight("capacity", G)
  <2>1. Weighed("capacity", G \cup {b}) BY <1>8 DEF H
  <2>2. Weight("capacity", G \cup {b}) = b["capacity"] + Weight("capacity", G)
    <3> HIDE DEF G
    <3> QED BY <1>6, <2>1, WeightInsert
  <2> QED BY <1>3, <2>2, Zenon DEF H
<1>11. Weight("points", G) = 6 + Weight("points", F)
  <2>1. Weighed("points", F \cup {a}) BY <1>8 DEF G
  <2>2. Weight("points", F \cup {a}) = a["points"] + Weight("points", F)
    <3> HIDE DEF G
    <3> QED BY <1>6, <2>1, WeightInsert
  <2> QED BY <1>3, <2>2, Zenon DEF G
<1>12. Weight("capacity", G) = 6 + Weight("capacity", F)
  <2>1. Weighed("capacity", F \cup {a}) BY <1>8 DEF G
  <2>2. Weight("capacity", F \cup {a}) = a["capacity"] + Weight("capacity", F)
    <3> HIDE DEF G
    <3> QED BY <1>6, <2>1, WeightInsert
  <2> QED BY <1>3, <2>2, Zenon DEF G
<1> HIDE DEF G
<1>13. PICK p \in Nat, c \in Nat : p = Weight("points", F) /\ c = Weight("capacity", F)
    BY <1>8
<1>14. Weight("points", H) = p + 15 /\ Weight("capacity", H) = c + 15
    BY <1>9, <1>10, <1>11, <1>12, <1>13
<1>15. (p + 15) * c >= p * (c + 15)
    BY <1>8, <1>13, MetCrossMultiplied
<1>16. Score(es, as_of, sales) = [points |-> p + 15, capacity |-> c + 15]
    BY <1>1, <1>14, ScoreIs
<1>17. Score(es, as_of, NoSales) = [points |-> p, capacity |-> c]
    BY <1>5, <1>13, ScoreIs
<1>18. QED  BY <1>15, <1>16, <1>17

-----------------------------------------------------------------------------
(* SalesSignals: advice.                                                   *)

LEMMA RuleFits ==
    ASSUME NEW state \in States, NEW score
    PROVE  Rule(state, score).priority \in LOW..HIGH /\ Rule(state, score).escalation = "none"
<1> DEFINE Fits(a) == a.priority \in LOW..HIGH /\ a.escalation = "none"
<1>1. \A action, minutes : \A priority \in {LOW, MEDIUM, HIGH} : Fits(Advice(action, priority, minutes))
    BY DEF Advice, LOW, MEDIUM, HIGH
<1>2. \A s \in {"anonymous", "appointment", "site_visit", "negotiation", "won", "customer", "lost"} :
          Fits(LaterAdvice[s])
    BY DEF LaterAdvice, Advice, LOW, MEDIUM, HIGH
<1>3. state \in EARLY_SALES_STATES \cup {"reengagement", "anonymous", "appointment", "site_visit",
                                        "negotiation", "won", "customer", "lost"}
    BY StateNames DEF EARLY_SALES_STATES
<1> HIDE DEF Fits
<1>4. Fits(Rule(state, score))
  <2>1. CASE state \in EARLY_SALES_STATES
    <3>1. \/ Rule(state, score) = Advice("review_sales_follow_up", HIGH, 30)
          \/ Rule(state, score) = Advice("review_sales_follow_up", MEDIUM, 120)
          \/ Rule(state, score) = Advice("review_sales_follow_up", LOW, 1440)
        BY <2>1 DEF Rule
    <3>2. LOW \in {LOW, MEDIUM, HIGH} /\ MEDIUM \in {LOW, MEDIUM, HIGH}
          /\ HIGH \in {LOW, MEDIUM, HIGH}
        OBVIOUS
    <3>3. \A action, minutes : /\ Fits(Advice(action, LOW, minutes))
                               /\ Fits(Advice(action, MEDIUM, minutes))
                               /\ Fits(Advice(action, HIGH, minutes))
        BY <1>1, <3>2, Zenon
    <3> QED BY <3>1, <3>3
  <2>2. CASE state \notin EARLY_SALES_STATES /\ state = "reengagement"
      BY <1>1, <2>2, Zenon DEF Rule
  <2>3. CASE state \notin EARLY_SALES_STATES /\ state # "reengagement"
    <3>1. Rule(state, score) = LaterAdvice[state] BY <2>3, Zenon DEF Rule
    <3> QED BY <1>2, <1>3, <2>3, <3>1
  <2> QED BY <2>1, <2>2, <2>3
<1>5. QED  BY <1>4 DEF Fits

LEMMA EscalatedFits ==
    ASSUME NEW advice, advice.priority \in LOW..HIGH, advice.escalation = "none",
           NEW state, NEW sales
    PROVE  /\ Escalated(advice, state, sales).priority \in LOW..HIGH
           /\ Escalated(advice, state, sales).escalation # "none" =>
                 sales.verified /\ \E t \in SLA_TYPES : sales.window[t] \in {"breached", "late"}
<1> DEFINE results == {sales.window[t] : t \in SLA_TYPES}
           early == sales.verified /\ state \in EARLY_SALES_STATES
           breach == [action |-> "review_sales_follow_up", priority |-> HIGH,
                      minutes |-> Min({advice.minutes, 15}), escalation |-> "verified_breach"]
           late == [action |-> "review_sales_follow_up", priority |-> Max({advice.priority, MEDIUM}),
                    minutes |-> Min({advice.minutes, 60}), escalation |-> "verified_late"]
<1>1. Escalated(advice, state, sales) =
          IF ~ early THEN advice
          ELSE IF "breached" \in results THEN breach
          ELSE IF "late" \in results THEN late ELSE advice
    BY Zenon DEF Escalated
<1>2. breach.priority \in LOW..HIGH
    BY DEF LOW, HIGH
<1>3. late.priority \in LOW..HIGH
  <2>1. advice.priority \in Int /\ MEDIUM \in Int BY DEF LOW, MEDIUM, HIGH
  <2>2. Max({advice.priority, MEDIUM}) \in {advice.priority, MEDIUM} BY <2>1, GreaterOfTwo
  <2>3. Max({advice.priority, MEDIUM}) \in LOW..HIGH BY <2>2 DEF LOW, MEDIUM, HIGH
  <2> QED BY <2>3
<1>4. (early /\ ("breached" \in results \/ "late" \in results)) =>
          sales.verified /\ \E t \in SLA_TYPES : sales.window[t] \in {"breached", "late"}
    OBVIOUS
<1> HIDE DEF results, early, breach, late
<1>5. QED  BY <1>1, <1>2, <1>3, <1>4

-----------------------------------------------------------------------------
(* SalesReviews: what a request holds, and what is missing moves no score. *)

\* What is missing moves no score, as MissingIsNeutral says of one call.
Neutral(c) ==
    /\ (\A t \in SLA_TYPES : ~c.sales.verified \/ c.sales.window[t] \in
            {"not_evaluable", "pending", "overdue_missing_evidence"}) =>
          c.score = c.plain
    /\ (c.sales.verified /\ \A t \in SLA_TYPES : c.sales.window[t] = "met") =>
          c.score.points * c.plain.capacity >= c.plain.points * c.score.capacity

Reading == {"projected", "previewed", "scored", "recommended"}

\* What a request holds fits where it is, when n reviews were made.
RequestFits(c, n) ==
    /\ c.pc \in {"idle"} \cup Reading \cup Storing
    /\ c.pc \in Reading => c.subject \in Subjects /\ c.version \in Versions
    /\ c.pc = "projected" => c.state \in States
    /\ c.pc = "scored" => ScoreFits(c.score) /\ Neutral(c)
    /\ c.pc = "recommended" =>
          c.state \in States /\ c.advice.priority \in LOW..HIGH /\ ScoreFits(c.score)
    /\ c.pc \in Storing => c.id \in 1..n

Entries == [subject : Subjects, version : Versions]

RequestsInv ==
    /\ ArrivedFits
    /\ issued <= scenario.saves
    /\ \A i \in DOMAIN reviews : reviews[i] \in Entries
    /\ mishaps \subseteq {"overlap", "death"}
    /\ \A r \in Reviewers : RequestFits(calls[r], issued)

LEMMA RequestsInit == Init => RequestsInv
<1> SUFFICES ASSUME Init PROVE RequestsInv
    OBVIOUS
<1>1. ArrivedFits
    BY DEF Init, ArrivedFits, Expected
<1>2. issued <= scenario.saves
  <2>1. scenario \in Scenarios /\ issued = 0 BY DEF Init
  <2>2. scenario.saves \in Nat BY <2>1, ScenarioAssumption
  <2> QED BY <2>1, <2>2
<1>3. \A r \in Reviewers : RequestFits(calls[r], issued)
    BY DEF Init, Idle, RequestFits, Reading, Storing
<1>4. /\ \A i \in DOMAIN reviews : reviews[i] \in Entries
      /\ mishaps \subseteq {"overlap", "death"}
    BY DEF Init
<1>5. QED  BY <1>1, <1>2, <1>3, <1>4 DEF RequestsInv

\* The request that moves on fits, and so do the others, since no review is unmade.
LEMMA RequestMoves ==
    ASSUME StoreInv, RequestsInv, ArrivedFits', NEW r \in Reviewers, NEW c, Goto(r, c),
           issued' \in Nat, issued <= issued', issued' <= scenario.saves,
           RequestFits(c, issued'),
           \A i \in DOMAIN reviews' : reviews'[i] \in Entries,
           mishaps' \subseteq {"overlap", "death"}
    PROVE  RequestsInv'
<1>1. calls'[r] = c /\ \A q \in Reviewers \ {r} : calls'[q] = calls[q]
    BY CallsMove
<1>2. \A q \in Reviewers : RequestFits(calls'[q], issued')
  <2> SUFFICES ASSUME NEW q \in Reviewers, q # r PROVE RequestFits(calls'[q], issued')
      BY <1>1
  <2>1. RequestFits(calls[q], issued) BY DEF RequestsInv
  <2>2. 1..issued \subseteq 1..issued' BY DEF StoreInv
  <2>3. RequestFits(calls[q], issued') BY <2>1, <2>2 DEF RequestFits
  <2> QED BY <1>1, <2>3
<1>3. scenario' = scenario
    BY DEF Goto
<1>4. QED  BY <1>2, <1>3 DEF RequestsInv, Entries

LEMMA StoringMoves ==
    ASSUME StoreInv, RequestsInv, ArrivedFits', NEW r \in Reviewers,
           \/ SetRecord(r) \/ Index(r) \/ Count(r) \/ ListExpired(r) \/ Expire(r) \/ Die(r)
    PROVE  RequestsInv'
<1>1. /\ RequestFits(calls[r], issued) /\ issued \in Nat /\ issued <= scenario.saves
      /\ scenario.saves \in Nat
      /\ \A i \in DOMAIN reviews : reviews[i] \in Entries
      /\ mishaps \subseteq {"overlap", "death"}
    BY ScenarioAssumption DEF RequestsInv, StoreInv, ArrivedFits
<1>2. RequestFits(Idle, issued)
    BY DEF RequestFits, Idle, Reading, Storing
<1>3. CASE SetRecord(r)
  <2> DEFINE c == calls[r]  id == issued + 1
             d == [pc |-> "indexing", id |-> id, subject |-> c.subject]
             entry == [subject |-> c.subject, version |-> c.version]
  <2>1. /\ c.pc = "recommended" /\ issued < scenario.saves /\ issued' = id /\ Goto(r, d)
        /\ reviews' = [i \in DOMAIN reviews \cup {id} |-> IF i = id THEN entry ELSE reviews[i]]
        /\ mishaps' = mishaps
      BY <1>3 DEF SetRecord
  <2>2. c.subject \in Subjects /\ c.version \in Versions
      BY <1>1, <2>1 DEF RequestFits, Reading
  <2>3. entry \in Entries BY <2>2 DEF Entries
  <2>4. RequestFits(d, issued')
    <3>1. d.pc = "indexing" /\ d.id = id OBVIOUS
    <3>2. id \in 1..issued' BY <1>1, <2>1
    <3> HIDE DEF d
    <3> QED BY <3>1, <3>2 DEF RequestFits, Reading, Storing
  <2> HIDE DEF c, d, entry
  <2>5. \A i \in DOMAIN reviews' : reviews'[i] \in Entries
      BY <1>1, <2>1, <2>3
  <2>6. issued' \in Nat /\ issued <= issued' /\ issued' <= scenario.saves
      BY <1>1, <2>1
  <2>7. mishaps' \subseteq {"overlap", "death"}
      BY <1>1, <2>1
  <2> QED BY <2>1, <2>4, <2>5, <2>6, <2>7, RequestMoves
<1>4. CASE Index(r)
  <2> DEFINE c == calls[r]  d == [pc |-> "counting", id |-> c.id]
  <2>1. c.pc = "indexing" /\ Goto(r, d) /\ UNCHANGED <<reviews, issued>>
        /\ mishaps' \subseteq mishaps \cup {"overlap"}
      BY <1>4 DEF Index
  <2>2. RequestFits(d, issued')
    <3>1. d.pc = "counting" /\ d.id = c.id OBVIOUS
    <3> HIDE DEF d
    <3> QED BY <1>1, <2>1, <3>1 DEF RequestFits, Reading, Storing
  <2> HIDE DEF d
  <2>3. issued' \in Nat /\ issued <= issued' /\ issued' <= scenario.saves
      BY <1>1, <2>1
  <2>4. (\A i \in DOMAIN reviews' : reviews'[i] \in Entries)
        /\ mishaps' \subseteq {"overlap", "death"}
      BY <1>1, <2>1
  <2> QED BY <2>1, <2>2, <2>3, <2>4, RequestMoves
<1>5. ASSUME NEW d, Goto(r, d), UNCHANGED store, RequestFits(d, issued) PROVE RequestsInv'
  <2>1. UNCHANGED <<reviews, issued, mishaps>> BY <1>5 DEF store
  <2>2. issued' \in Nat /\ issued <= issued' /\ issued' <= scenario.saves
      BY <1>1, <2>1
  <2>3. RequestFits(d, issued') /\ (\A i \in DOMAIN reviews' : reviews'[i] \in Entries)
        /\ mishaps' \subseteq {"overlap", "death"}
      BY <1>1, <1>5, <2>1
  <2> QED BY <1>5, <2>2, <2>3, RequestMoves
<1>6. CASE Count(r)
  <2> DEFINE c == calls[r]
             d == IF Overflow > 0
                  THEN [pc |-> "ranging", id |-> c.id, overflow |-> Overflow] ELSE Idle
  <2>1. c.pc = "counting" /\ Goto(r, d) /\ UNCHANGED store
      BY <1>6, Zenon DEF Count
  <2>2. d = Idle \/ (d.pc = "ranging" /\ d.id = c.id)
      OBVIOUS
  <2> HIDE DEF d
  <2>3. RequestFits(d, issued)
      BY <1>1, <1>2, <2>1, <2>2 DEF RequestFits, Reading, Storing
  <2> QED BY <1>5, <2>1, <2>3
<1>7. CASE ListExpired(r)
  <2> DEFINE c == calls[r]  ids == Expired(c.overflow)
             d == IF ids = {} THEN Idle ELSE [pc |-> "expiring", id |-> c.id, ids |-> ids]
  <2>1. c.pc = "ranging" /\ Goto(r, d) /\ UNCHANGED store
      BY <1>7, Zenon DEF ListExpired
  <2>2. d = Idle \/ (d.pc = "expiring" /\ d.id = c.id)
      OBVIOUS
  <2> HIDE DEF d
  <2>3. RequestFits(d, issued)
      BY <1>1, <1>2, <2>1, <2>2 DEF RequestFits, Reading, Storing
  <2> QED BY <1>5, <2>1, <2>3
<1>8. CASE Expire(r)
  <2> DEFINE c == calls[r]  i == Min(c.ids)
             d == IF c.ids = {i} THEN Idle ELSE [c EXCEPT !.ids = @ \ {i}]
  <2>1. c.pc = "expiring" /\ Goto(r, d) /\ UNCHANGED <<issued, mishaps>>
        /\ reviews' = [j \in DOMAIN reviews \ {i} |-> reviews[j]]
      BY <1>8, Zenon DEF Expire
  <2>2. d = Idle \/ (d.pc = "expiring" /\ d.id = c.id)
    <3>1. StoringFits(r) BY DEF StoreInv
    <3>2. {"pc", "id", "ids"} \subseteq DOMAIN c BY <2>1, <3>1 DEF StoringFits
    <3>3. [c EXCEPT !.ids = @ \ {i}].pc = c.pc /\ [c EXCEPT !.ids = @ \ {i}].id = c.id
        BY <3>2
    <3> QED BY <2>1, <3>3
  <2> HIDE DEF d
  <2>3. RequestFits(d, issued')
      BY <1>1, <1>2, <2>1, <2>2 DEF RequestFits, Reading, Storing
  <2>4. issued' \in Nat /\ issued <= issued' /\ issued' <= scenario.saves
      BY <1>1, <2>1
  <2>5. mishaps' \subseteq {"overlap", "death"} BY <1>1, <2>1
  <2>6. \A j \in DOMAIN reviews' : reviews'[j] \in Entries
    <3> HIDE DEF i
    <3> QED BY <1>1, <2>1
  <2> QED BY <2>1, <2>3, <2>4, <2>5, <2>6, RequestMoves
<1>9. CASE Die(r)
  <2>1. /\ mishaps' = mishaps \cup {"death"} /\ Goto(r, Idle)
        /\ UNCHANGED <<reviews, issued>>
      BY <1>9 DEF Die
  <2>2. issued' \in Nat /\ issued <= issued' /\ issued' <= scenario.saves
        /\ RequestFits(Idle, issued')
      BY <1>1, <1>2, <2>1
  <2>3. (\A i \in DOMAIN reviews' : reviews'[i] \in Entries)
        /\ mishaps' \subseteq {"overlap", "death"}
      BY <1>1, <2>1
  <2> QED BY <2>1, <2>2, <2>3, RequestMoves
<1>10. QED  BY <1>3, <1>4, <1>6, <1>7, <1>8, <1>9

\* A request that reads leaves the store alone.
LEMMA ReadingMoves ==
    ASSUME StoreInv, RequestsInv, ArrivedFits', NEW r \in Reviewers, NEW d, Goto(r, d),
           UNCHANGED store, RequestFits(d, issued)
    PROVE  RequestsInv'
<1>1. UNCHANGED <<reviews, issued, mishaps>>
    BY DEF store
<1>2. issued \in Nat /\ issued <= scenario.saves
      /\ (\A i \in DOMAIN reviews : reviews[i] \in Entries)
      /\ mishaps \subseteq {"overlap", "death"}
    BY DEF RequestsInv, StoreInv
<1>3. issued' \in Nat /\ issued <= issued' /\ issued' <= scenario.saves
    BY <1>1, <1>2
<1>4. RequestFits(d, issued') /\ (\A i \in DOMAIN reviews' : reviews'[i] \in Entries)
      /\ mishaps' \subseteq {"overlap", "death"}
    BY <1>1, <1>2
<1>5. QED  BY <1>3, <1>4, RequestMoves

LEMMA StateTyped ==
    ASSUME ArrivedFits, NEW s
    PROVE  Replay(Events(s)).state \in States
BY EventsOrderly, ReplayTyped DEF Positions

LEMMA RequestReads ==
    ASSUME StoreInv, RequestsInv, ArrivedFits', NEW r \in Reviewers,
           \/ \E s \in Subjects : \E t : Project(r, s, t)
           \/ \E s \in Subjects : \E request \in Requests(s) : PreviewSales(r, request)
           \/ ScoreProjected(r) \/ Refuse(r) \/ ScoreSales(r) \/ RecommendSales(r) \/ Answer(r)
    PROVE  RequestsInv'
<1>1. RequestFits(calls[r], issued) /\ ArrivedFits
    BY DEF RequestsInv
<1>2. RequestFits(Idle, issued)
    BY DEF RequestFits, Idle, Reading, Storing
<1>3. ASSUME NEW s \in Subjects, NEW t, Project(r, s, t) PROVE RequestsInv'
  <2> DEFINE d == [pc |-> "projected", version |-> "phase-9a-nba-v1", subject |-> s,
                   as_of |-> t, state |-> Replay(Events(s)).state,
                   trusted |-> TrustedOf(Events(s)) # {}]
  <2>1. Goto(r, d) /\ UNCHANGED store BY <1>3, Zenon DEF Project
  <2>2. d.pc = "projected" /\ d.subject \in Subjects /\ d.version \in Versions
        /\ d.state = Replay(Events(s)).state
      BY DEF Versions
  <2>3. Replay(Events(s)).state \in States BY <1>1, StateTyped
  <2> HIDE DEF d
  <2>4. RequestFits(d, issued) BY <2>2, <2>3 DEF RequestFits, Reading, Storing
  <2> QED BY <2>1, <2>4, ReadingMoves
<1>4. ASSUME NEW s \in Subjects, NEW request \in Requests(s), PreviewSales(r, request)
      PROVE  RequestsInv'
  <2> DEFINE sales == Preview(Events(request.subject), request)
             d == [pc |-> "previewed", version |-> "phase-9b-nba-v2",
                   subject |-> request.subject, as_of |-> request.as_of, sales |-> sales,
                   vouched |-> VouchedFor(request, sales)]
  <2>1. Goto(r, d) /\ UNCHANGED store BY <1>4, Zenon DEF PreviewSales
  <2>2. request.subject = s BY DEF Requests
  <2>3. d.pc = "previewed" /\ d.subject = request.subject /\ d.version \in Versions
      BY DEF Versions
  <2> HIDE DEF d
  <2>4. RequestFits(d, issued) BY <2>2, <2>3 DEF RequestFits, Reading, Storing
  <2> QED BY <2>1, <2>4, ReadingMoves
<1>5. CASE ScoreProjected(r)
  <2> DEFINE c == calls[r]
             score == Score(Events(c.subject), c.as_of, NoSales)
             d == [pc |-> "recommended", version |-> c.version, subject |-> c.subject,
                   state |-> c.state, score |-> score, advice |-> Rule(c.state, score)]
  <2>1. c.pc = "projected" /\ Goto(r, d) /\ UNCHANGED store BY <1>5, Zenon DEF ScoreProjected
  <2>2. c.subject \in Subjects /\ c.version \in Versions /\ c.state \in States
      BY <1>1, <2>1 DEF RequestFits, Reading
  <2>3. ScoreFits(score) BY <1>1, EventsOrderly, ScoreHasFit
  <2>4. Rule(c.state, score).priority \in LOW..HIGH BY <2>2, RuleFits
  <2>5. d.pc = "recommended" /\ d.subject = c.subject /\ d.version = c.version
        /\ d.state = c.state /\ d.score = score /\ d.advice = Rule(c.state, score)
      OBVIOUS
  <2> HIDE DEF c, d, score
  <2>6. RequestFits(d, issued) BY <2>2, <2>3, <2>4, <2>5 DEF RequestFits, Reading, Storing
  <2> QED BY <2>1, <2>6, ReadingMoves
<1>6. CASE Refuse(r) \/ Answer(r)
  <2>1. Goto(r, Idle) /\ UNCHANGED store BY <1>6 DEF Refuse, Answer
  <2> QED BY <1>2, <2>1, ReadingMoves
<1>7. CASE ScoreSales(r)
  <2> DEFINE c == calls[r]  es == Events(c.subject)
             score == Score(es, c.as_of, c.sales)
             plain == Score(es, c.as_of, NoSales)
             d == [pc |-> "scored", version |-> c.version, subject |-> c.subject,
                   sales |-> c.sales, vouched |-> c.vouched, score |-> score, plain |-> plain]
  <2>1. c.pc = "previewed" /\ Goto(r, d) /\ UNCHANGED store BY <1>7, Zenon DEF ScoreSales
  <2>2. c.subject \in Subjects /\ c.version \in Versions
      BY <1>1, <2>1 DEF RequestFits, Reading
  <2>3. Orderly(es) BY <1>1, EventsOrderly
  <2> HIDE DEF es
  <2>4. ScoreFits(score) BY <2>3, ScoreHasFit
  <2>5. (\A t \in SLA_TYPES : ~c.sales.verified \/ c.sales.window[t] \in
             {"not_evaluable", "pending", "overdue_missing_evidence"}) => score = plain
      BY UnprovenIsPlain
  <2>6. (c.sales.verified /\ \A t \in SLA_TYPES : c.sales.window[t] = "met") =>
            score.points * plain.capacity >= plain.points * score.capacity
      BY <2>3, MetIsNotLess
  <2>7. d.pc = "scored" /\ d.subject = c.subject /\ d.version = c.version
        /\ d.sales = c.sales /\ d.score = score /\ d.plain = plain
      OBVIOUS
  <2> HIDE DEF c, d, score, plain
  <2>8. Neutral(d) BY <2>5, <2>6, <2>7 DEF Neutral
  <2>9. RequestFits(d, issued) BY <2>2, <2>4, <2>7, <2>8 DEF RequestFits, Reading, Storing
  <2> QED BY <2>1, <2>9, ReadingMoves
<1>8. CASE RecommendSales(r)
  <2> DEFINE c == calls[r]  state == Replay(Events(c.subject)).state
             advice == Escalated(Rule(state, c.score), state, c.sales)
             d == [pc |-> "recommended", version |-> c.version, subject |-> c.subject,
                   state |-> state, score |-> c.score, advice |-> advice,
                   sales |-> c.sales, vouched |-> c.vouched]
  <2>1. c.pc = "scored" /\ Goto(r, d) /\ UNCHANGED store BY <1>8, Zenon DEF RecommendSales
  <2>2. c.subject \in Subjects /\ c.version \in Versions /\ ScoreFits(c.score)
      BY <1>1, <2>1 DEF RequestFits, Reading
  <2>3. state \in States BY <1>1, StateTyped
  <2> HIDE DEF state
  <2>4. advice.priority \in LOW..HIGH BY <2>3, RuleFits, EscalatedFits
  <2>5. d.pc = "recommended" /\ d.subject = c.subject /\ d.version = c.version
        /\ d.state = state /\ d.score = c.score /\ d.advice = advice
      OBVIOUS
  <2> HIDE DEF c, d, advice
  <2>6. RequestFits(d, issued) BY <2>2, <2>3, <2>4, <2>5 DEF RequestFits, Reading, Storing
  <2> QED BY <2>1, <2>6, ReadingMoves
<1>9. QED  BY <1>3, <1>4, <1>5, <1>6, <1>7, <1>8

LEMMA RequestsStep ==
    StoreInv /\ ArrivedFits' /\ RequestsInv /\ [Next]_vars => RequestsInv'
<1> SUFFICES ASSUME StoreInv, ArrivedFits', RequestsInv, [Next]_vars PROVE RequestsInv'
    OBVIOUS
<1>1. ASSUME UNCHANGED <<scenario, calls, store>> PROVE RequestsInv'
  <2>1. UNCHANGED <<reviews, issued, mishaps>> BY <1>1 DEF store
  <2> QED BY <1>1, <2>1 DEF RequestsInv, Entries
<1>2. CASE World
    BY <1>1, <1>2 DEF World, Tick, Ingest, Happen, Attest
<1>3. ASSUME NEW r \in Reviewers, Act(r) PROVE RequestsInv'
  <2>1. CASE \/ SetRecord(r) \/ Index(r) \/ Count(r) \/ ListExpired(r) \/ Expire(r) \/ Die(r)
      BY <2>1, StoringMoves
  <2>2. CASE \/ \E s \in Subjects : \E t : Project(r, s, t)
             \/ \E s \in Subjects : \E request \in Requests(s) : PreviewSales(r, request)
             \/ ScoreProjected(r) \/ Refuse(r) \/ ScoreSales(r) \/ RecommendSales(r) \/ Answer(r)
      BY <2>2, RequestReads
  <2> QED BY <1>3, <2>1, <2>2 DEF Act
<1>4. CASE UNCHANGED vars
    BY <1>1, <1>4 DEF vars
<1>5. QED  BY <1>2, <1>3, <1>4 DEF Next

LEMMA RequestsInvHolds == Spec => []RequestsInv
BY RequestsInit, RequestsStep, StoreInvHolds, ArrivedFitsHolds, PTL DEF Spec

-----------------------------------------------------------------------------
(* SalesReviews: time, activities and what the Sales Hub attested.         *)

\* What the log has of the claim's subject and campaign within what the claim covers.
Covered(claim) ==
    {x \in log : /\ x.subject = claim.subject /\ x.campaign = claim.campaign
                 /\ x.type \in claim.covered /\ x.at \in claim.start..claim.through}

\* What the Sales Hub claims of a time that had passed stays true.
BeatFits(b) ==
    /\ b.emitted \in 0..now
    /\ b.digest.batch.rows \subseteq log
    /\ b.digest.start \in Int /\ b.digest.through \in Int
    /\ b.digest.through # b.emitted
    /\ (b.producer = "sales_hub" /\ b.digest.through < b.emitted) =>
          Covered(b.digest) \subseteq b.digest.batch.rows

WorldInv ==
    /\ ArrivedFits
    /\ now \in Times
    /\ IsFiniteSet(log) /\ log \subseteq Activities
    /\ \A x \in log : x.at <= now
    /\ \A x, y \in log : x.id = y.id => x = y
    /\ \A b \in beats : BeatFits(b)

LEMMA ScenarioBounds ==
    ASSUME NEW c \in Scenarios
    PROVE  /\ c.time \in Nat /\ c.saves \in Nat /\ c.activities \subseteq Activities
           /\ \A kind \in c.claims : kind.start \in Nat /\ kind.ahead \in Int \ {0}
BY ScenarioAssumption, Zenon

LEMMA WorldInit == Init => WorldInv
<1> SUFFICES ASSUME Init PROVE WorldInv
    OBVIOUS
<1>1. ArrivedFits
    BY DEF Init, ArrivedFits, Expected
<1>2. now \in Times
    BY <1>1, ScenarioBounds DEF Init, Times, ArrivedFits
<1>3. log = {} /\ beats = {} /\ IsFiniteSet(log)
    BY FS_EmptySet DEF Init
<1>4. QED  BY <1>1, <1>2, <1>3 DEF WorldInv

LEMMA ActivityFields ==
    ASSUME NEW x \in Activities
    PROVE  /\ x.at \in Nat /\ x.id \in Nat /\ x.subject \in Subjects
           /\ x.type \in ACTIVITY_TYPES /\ x.campaign \in DOMAIN TargetOf
BY DEF Activities

\* What happens later is outside of what a claim of passed time covers.
LEMMA HappenKeeps ==
    ASSUME WorldInv, ArrivedFits', NEW a, Happen(a)
    PROVE  WorldInv'
<1> DEFINE x == [a EXCEPT !.at = now]
<1>1. /\ a \in scenario.activities /\ (\A y \in log : y.id # a.id) /\ log' = log \cup {x}
      /\ UNCHANGED <<scenario, now, arrived, beats>>
    BY DEF Happen
<1>2. a \in Activities /\ now \in Nat
    BY <1>1, ScenarioBounds DEF WorldInv, ArrivedFits, Times
<1>3. x \in Activities /\ x.at = now /\ x.id = a.id
    BY <1>2 DEF Activities
<1> HIDE DEF x
<1>4. IsFiniteSet(log') /\ log' \subseteq Activities
    BY <1>1, <1>3, FS_AddElement DEF WorldInv
<1>5. \A y \in log' : y.at <= now'
    BY <1>1, <1>2, <1>3 DEF WorldInv
<1>6. \A y, z \in log' : y.id = z.id => y = z
    BY <1>1, <1>3 DEF WorldInv
<1>7. ASSUME NEW b \in beats PROVE BeatFits(b)'
  <2>1. BeatFits(b) BY DEF WorldInv
  <2>2. ASSUME b.producer = "sales_hub", b.digest.through < b.emitted
        PROVE  Covered(b.digest)' \subseteq b.digest.batch.rows
    <3>1. x.at \notin b.digest.start..b.digest.through
        BY <1>2, <1>3, <2>1, <2>2 DEF BeatFits
    <3>2. Covered(b.digest)' \subseteq Covered(b.digest)
        BY <1>1, <3>1 DEF Covered
    <3> QED BY <2>1, <2>2, <3>2 DEF BeatFits
  <2> QED BY <1>1, <2>1, <2>2 DEF BeatFits
<1>8. now' \in Times'
    BY <1>1 DEF WorldInv, Times
<1>9. QED  BY <1>1, <1>4, <1>5, <1>6, <1>7, <1>8 DEF WorldInv

LEMMA AttestKeeps ==
    ASSUME WorldInv, ArrivedFits', NEW kind \in scenario.claims, NEW claim \in Claims(kind),
           Attest(kind.producer, claim)
    PROVE  WorldInv'
<1> DEFINE b == [producer |-> kind.producer, digest |-> claim, emitted |-> now]
<1>1. /\ (kind.producer = "sales_hub" => Honest(claim)) /\ beats' = beats \cup {b}
      /\ UNCHANGED <<scenario, now, arrived, log>>
    BY DEF Attest
<1>2. now \in Nat /\ kind.start \in Nat /\ kind.ahead \in Int \ {0}
    BY ScenarioBounds DEF WorldInv, ArrivedFits, Times
<1>3. /\ claim.start = kind.start /\ claim.through = now + kind.ahead
      /\ claim.batch.rows \subseteq log
    BY DEF Claims
<1>4. kind.producer = "sales_hub" => Covered(claim) \subseteq claim.batch.rows
    BY <1>1 DEF Honest, Covered
<1>5. b.producer = kind.producer /\ b.digest = claim /\ b.emitted = now
    OBVIOUS
<1> HIDE DEF b
<1>6. BeatFits(b)
    BY <1>2, <1>3, <1>4, <1>5 DEF BeatFits
<1>7. \A d \in beats' : BeatFits(d)'
  <2> TAKE d \in beats'
  <2>1. BeatFits(d) BY <1>1, <1>6 DEF WorldInv
  <2> QED BY <1>1, <2>1 DEF BeatFits, Covered
<1>8. now' \in Times'
    BY <1>1 DEF WorldInv, Times
<1>9. QED  BY <1>1, <1>7, <1>8 DEF WorldInv

LEMMA TickKeeps ==
    ASSUME WorldInv, ArrivedFits', Tick
    PROVE  WorldInv'
<1>1. /\ now < scenario.time /\ now' = now + 1 /\ UNCHANGED <<scenario, log, beats>>
    BY DEF Tick
<1>2. now \in Nat /\ scenario.time \in Nat
    BY ScenarioBounds DEF WorldInv, ArrivedFits, Times
<1>3. now' \in Times'
    BY <1>1, <1>2 DEF Times
<1>4. \A x \in log : x.at <= now'
  <2> TAKE x \in log
  <2>1. x.at <= now /\ x.at \in Nat BY ActivityFields DEF WorldInv
  <2> QED BY <1>1, <1>2, <2>1
<1>5. ASSUME NEW b \in beats PROVE BeatFits(b)'
  <2>1. BeatFits(b) BY DEF WorldInv
  <2>2. b.emitted \in 0..now' BY <1>1, <1>2, <2>1 DEF BeatFits
  <2> QED BY <1>1, <2>1, <2>2 DEF BeatFits, Covered
<1>6. QED  BY <1>1, <1>3, <1>4, <1>5 DEF WorldInv

LEMMA WorldStep == ArrivedFits' /\ WorldInv /\ [Next]_vars => WorldInv'
<1> SUFFICES ASSUME ArrivedFits', WorldInv, [Next]_vars PROVE WorldInv'
    OBVIOUS
<1>1. ASSUME UNCHANGED <<scenario, now, log, beats>> PROVE WorldInv'
    BY <1>1 DEF WorldInv, Times, BeatFits, Covered
<1>2. CASE World
  <2>1. CASE Tick BY <2>1, TickKeeps
  <2>2. ASSUME NEW e \in scenario.touches, Ingest(e) PROVE WorldInv'
      BY <1>1, <2>2 DEF Ingest
  <2>3. ASSUME NEW a \in scenario.activities, Happen(a) PROVE WorldInv'
      BY <2>3, HappenKeeps
  <2>4. ASSUME NEW kind \in scenario.claims, NEW claim \in Claims(kind),
               Attest(kind.producer, claim)
        PROVE  WorldInv'
      BY <2>4, AttestKeeps
  <2> QED BY <1>2, <2>1, <2>2, <2>3, <2>4 DEF World
<1>3. ASSUME NEW r \in Reviewers, Act(r) PROVE WorldInv'
  <2>1. UNCHANGED <<scenario, now, log, beats>>
      BY <1>3 DEF Act, Project, PreviewSales, ScoreProjected, Refuse, ScoreSales,
             RecommendSales, Answer, SetRecord, Index, Count, ListExpired, Expire, Die,
             Goto, signals
  <2> QED BY <1>1, <2>1
<1>4. CASE UNCHANGED vars
    BY <1>1, <1>4 DEF vars, signals
<1>5. QED  BY <1>2, <1>3, <1>4 DEF Next

LEMMA WorldInvHolds == Spec => []WorldInv
BY WorldInit, WorldStep, ArrivedFitsHolds, PTL DEF Spec

-----------------------------------------------------------------------------
(* SalesReviews: types, journeys, scores and indexes.                      *)

LEMMA SalesTypes ==
    ASSUME StoreInv, RequestsInv, WorldInv
    PROVE  TypeOK
<1>1. /\ scenario \in Scenarios /\ scenario.saves \in Nat /\ scenario.time \in Nat
      /\ arrived \subseteq Expected
    BY ScenarioBounds DEF WorldInv, ArrivedFits
<1>2. arrived \subseteq Touches
  <2>1. Expected \subseteq Touches BY <1>1, ScenarioAssumption, Zenon DEF Expected
  <2> QED BY <1>1, <2>1
<1>3. \A b \in beats : b.emitted \in Times /\ b.digest.batch.rows \subseteq Activities
  <2> TAKE b \in beats
  <2>1. BeatFits(b) /\ now \in 0..scenario.time /\ log \subseteq Activities
      BY DEF WorldInv, Times
  <2> QED BY <1>1, <2>1 DEF BeatFits, Times
<1>4. ASSUME NEW r \in Reviewers
      PROVE  /\ calls[r].pc \in {"idle", "projected", "previewed", "scored", "recommended"} \cup Storing
             /\ calls[r].pc = "recommended" =>
                   /\ calls[r].state \in States /\ calls[r].advice.priority \in LOW..HIGH
                   /\ calls[r].score.points \in 0..calls[r].score.capacity
             /\ calls[r].pc \in Storing => calls[r].id \in 1..issued
  <2>1. RequestFits(calls[r], issued) BY DEF RequestsInv
  <2>2. calls[r].pc = "recommended" => calls[r].score.points \in 0..calls[r].score.capacity
      BY <2>1 DEF RequestFits, ScoreFits
  <2> QED BY <2>1, <2>2 DEF RequestFits, Reading
<1>5. issued \in Nat /\ issued <= scenario.saves
      /\ DOMAIN reviews \subseteq 1..issued /\ saved \subseteq 1..issued /\ listed \subseteq saved
    BY DEF StoreInv, RequestsInv
<1>6. 1..issued \subseteq Ids
    BY <1>1, <1>5 DEF Ids
<1>7. \A i \in DOMAIN reviews : reviews[i] \in [subject : Subjects, version : Versions]
    BY DEF RequestsInv, Entries
<1>8. bySubject \subseteq Subjects \X Ids
  <2>1. bySubject = {<<reviews[i].subject, i>> : i \in listed} /\ listed \subseteq DOMAIN reviews
      BY DEF StoreInv, IndexesAgree
  <2>2. \A i \in listed : reviews[i].subject \in Subjects /\ i \in Ids
      BY <1>5, <1>6, <1>7, <2>1
  <2> QED BY <2>1, <2>2
<1>9. issued \in 0..scenario.saves
    BY <1>1, <1>5
<1>10. /\ scenario \in Scenarios /\ now \in Times /\ log \subseteq Activities
       /\ mishaps \subseteq {"overlap", "death"}
       /\ listed \subseteq Ids /\ saved \subseteq Ids /\ DOMAIN reviews \subseteq Ids
    BY <1>1, <1>5, <1>6 DEF WorldInv, RequestsInv
<1>11. QED  BY <1>2, <1>3, <1>4, <1>7, <1>8, <1>9, <1>10 DEF TypeOK

\* Types, reported gaps, backed stages, neutral scores and indexes that agree.
THEOREM SalesReviewsConsistent == Spec => []Consistent
<1>1. StoreInv /\ RequestsInv /\ WorldInv => TypeOK /\ MissingIsNeutral /\ IndexesAgree
  <2> SUFFICES ASSUME StoreInv, RequestsInv, WorldInv
               PROVE  TypeOK /\ MissingIsNeutral /\ IndexesAgree
      OBVIOUS
  <2>1. MissingIsNeutral
      BY DEF RequestsInv, RequestFits, Neutral, MissingIsNeutral
  <2> QED BY <2>1, SalesTypes DEF StoreInv
<1>2. TypeOK /\ MissingIsNeutral /\ IndexesAgree /\ GapsAreReported /\ StagesAreBacked => Consistent
    BY DEF Consistent
<1>3. QED
    BY <1>1, <1>2, StoreInvHolds, RequestsInvHolds, WorldInvHolds, JourneysReportTheirGaps,
       JourneyStagesAreBacked, PTL

-----------------------------------------------------------------------------
(* SalesSignals: the first of a set of events.                             *)

LEMMA FirstIs ==
    ASSUME NEW S, Orderly(S), S # {}
    PROVE  FirstOf(S) \in S /\ \A f \in S : FirstOf(S).at <= f.at
<1> DEFINE HasFirst(T) == \E e \in T : \A f \in T : f = e \/ Earlier(e, f)
           B == {T \in SUBSET S : T # {} /\ ~ HasFirst(T)}
<1>1. B = {}
  <2> SUFFICES ASSUME B # {} PROVE FALSE
      OBVIOUS
  <2>1. PICK T \in B : \A U \in SUBSET T : U # T => U \notin B
    <3>1. B \in SUBSET (SUBSET S) OBVIOUS
    <3> HIDE DEF B
    <3> QED BY <3>1, MinimalSubset DEF Orderly
  <2>2. T \in SUBSET S /\ T # {} /\ ~ HasFirst(T)
      OBVIOUS
  <2>3. PICK x \in T : TRUE
      BY <2>2
  <2>4. T \ {x} # {}
    <3> SUFFICES ASSUME T \ {x} = {} PROVE FALSE
        OBVIOUS
    <3>1. \A f \in T : f = x OBVIOUS
    <3> QED BY <2>2, <2>3, <3>1
  <2>5. HasFirst(T \ {x})
      BY <2>1, <2>2, <2>3, <2>4
  <2>6. PICK e \in T \ {x} : \A f \in T \ {x} : f = e \/ Earlier(e, f)
      BY <2>5
  <2>7. /\ e.at \in Int /\ e.id \in Int /\ x.at \in Int /\ x.id \in Int
        /\ e.id # x.id
      BY <2>2, <2>3, <2>6 DEF Orderly
  <2>8. CASE Earlier(e, x)
      BY <2>2, <2>6, <2>8
  <2>9. CASE ~ Earlier(e, x)
    <3>1. Earlier(x, e) BY <2>7, <2>9 DEF Earlier
    <3>2. ASSUME NEW f \in T \ {x} PROVE Earlier(x, f)
      <4>1. f.at \in Int /\ f.id \in Int BY <2>2 DEF Orderly
      <4> QED BY <2>6, <2>7, <3>1, <4>1 DEF Earlier
    <3> QED BY <2>2, <2>3, <3>2
  <2> QED BY <2>8, <2>9
<1>2. HasFirst(S)
  <2>1. S \in SUBSET S OBVIOUS
  <2> QED BY <1>1, <2>1
<1>3. FirstOf(S) \in S /\ \A f \in S : f = FirstOf(S) \/ Earlier(FirstOf(S), f)
    BY <1>2 DEF FirstOf
<1>4. \A f \in S : FirstOf(S).at <= f.at
  <2> TAKE f \in S
  <2>1. f.at \in Int /\ FirstOf(S).at \in Int BY <1>3 DEF Orderly
  <2> QED BY <1>3, <2>1 DEF Earlier
<1>5. QED  BY <1>3, <1>4

-----------------------------------------------------------------------------
(* SalesReviews: a proven miss is one.                                     *)

\* A result of the SLA for which a request may be escalated.
Misses(c, t) ==
    /\ c.sales.verified
    /\ c.sales.window[t] = "breached" \/ (c.sales.window[t] = "late" /\ t \in c.vouched)

\* The target of the type is over, and nothing happened in time.
Missed(subject, sales, t) ==
    LET deadline == sales.start + TargetOf[sales.campaign][t]
    IN /\ sales.start \in Int /\ deadline \in Int /\ deadline < now
       /\ \A x \in log : x.type = t /\ x.subject = subject /\ x.campaign = sales.campaign =>
              ~ (sales.start <= x.at /\ x.at <= deadline)

LEMMA TouchFields ==
    ASSUME ArrivedFits, NEW e \in arrived
    PROVE  e.at \in Nat /\ e.campaign \in DOMAIN TargetOf
<1>1. arrived \subseteq Touches
    BY ScenarioAssumption, Zenon DEF ArrivedFits, Expected
<1>2. e \in Touches
    BY <1>1
<1>3. QED  BY <1>2 DEF Touches

LEMMA PolicyIs ==
    ASSUME ArrivedFits, NEW s, Events(s) # {}
    PROVE  /\ LeadStart(Events(s)) \in Nat \cup {Never}
           /\ PolicyCampaign(Events(s)) \in DOMAIN TargetOf
<1> DEFINE es == Events(s)  start == StartEvents(es)
<1>1. Orderly(es) /\ es \subseteq arrived
    BY EventsOrderly DEF Events, Ingested
<1>2. start \subseteq es
    BY DEF StartEvents
<1>3. Orderly(start)
    BY <1>1, <1>2, OrderlyPart
<1>4. start # {} => FirstOf(start) \in start
    BY <1>3, FirstIs
<1>5. FirstOf(es) \in es
    BY <1>1, FirstIs
<1>6. start # {} => FirstOf(start) \in arrived
    BY <1>1, <1>2, <1>4
<1>7. FirstOf(es) \in arrived
    BY <1>1, <1>5
<1>8. LeadStart(es) = IF start = {} THEN Never ELSE FirstOf(start).at
    BY DEF LeadStart
<1>9. PolicyCampaign(es) = IF start = {} THEN FirstOf(es).campaign ELSE FirstOf(start).campaign
    BY DEF PolicyCampaign
<1> HIDE DEF es, start
<1>10. LeadStart(es) \in Nat \cup {Never} /\ PolicyCampaign(es) \in DOMAIN TargetOf
    BY <1>6, <1>7, <1>8, <1>9, TouchFields
<1>11. QED  BY <1>10 DEF es

\* What is known of a request, and of the proof that it carries.
LEMMA RequestIs ==
    ASSUME NEW s, NEW request \in Requests(s)
    PROVE  request.subject = s /\ request.rows \subseteq log
           /\ \E batch : request.proof \in Proofs(batch)
<1>1. PICK b \in [rows : SUBSET log, repeats : {0, 1}] : \E p \in Proofs(b), t \in {now, scenario.time} :
          request = [subject |-> s, rows |-> b.rows, repeats |-> b.repeats, proof |-> p, as_of |-> t]
    BY DEF Requests
<1>2. QED  BY <1>1

LEMMA ProofIs ==
    ASSUME NEW batch, NEW p \in Proofs(batch), p.receipt.signed, p.receipt.heartbeat = p.heartbeat
    PROVE  p.heartbeat \in beats
<1>1. CASE p = NoProof
    BY <1>1 DEF NoProof
<1>2. CASE p # NoProof
  <2>1. PICK b, c, h, g :
            b \in beats /\
            p = [claim |-> c, heartbeat |-> h, receipt |-> [signed |-> h = b, heartbeat |-> g]]
      BY <1>2 DEF Proofs
  <2>2. p.heartbeat = h /\ p.receipt.signed = (h = b) BY <2>1
  <2> QED BY <2>1, <2>2
<1>3. QED  BY <1>1, <1>2

\* A verified request has every row that the claim covers.
LEMMA VerifiedIsComplete ==
    ASSUME WorldInv, NEW s, NEW request \in Requests(s), NEW campaign, NEW start,
           Verified(request, campaign, start)
    PROVE  LET claim == request.proof.claim
           IN /\ request.rows = Accepted(request, campaign, start)
              /\ start # Never => claim.start <= start
              /\ claim.start \in Int /\ claim.through \in Int /\ claim.through < now
              /\ \A x \in log : /\ x.subject = s /\ x.campaign = campaign
                                /\ x.type \in claim.covered
                                /\ claim.start <= x.at /\ x.at <= claim.through
                                => x \in request.rows
<1> DEFINE claim == request.proof.claim  beat == request.proof.heartbeat
<1>1. /\ request.proof.receipt.signed /\ request.proof.receipt.heartbeat = beat
      /\ beat.producer = "sales_hub" /\ beat.digest = claim
      /\ claim.through <= beat.emitted
      /\ claim.subject = request.subject /\ claim.campaign = campaign
      /\ claim.batch = Batch(request)
      /\ Accepted(request, campaign, start) = request.rows
      /\ start # Never => claim.start <= start
    BY DEF Verified
<1>2. request.subject = s
    BY RequestIs
<1>3. beat \in beats
    BY <1>1, RequestIs, ProofIs
<1>4. BeatFits(beat)
    BY <1>3 DEF WorldInv
<1>5. /\ beat.emitted \in 0..now /\ claim.start \in Int /\ claim.through \in Int
      /\ claim.through # beat.emitted
      /\ claim.through < beat.emitted => Covered(claim) \subseteq claim.batch.rows
    BY <1>1, <1>4 DEF BeatFits
<1>6. now \in Nat
    BY ScenarioBounds DEF WorldInv, ArrivedFits, Times
<1>7. claim.through < beat.emitted /\ claim.through < now
    BY <1>1, <1>5, <1>6
<1>8. claim.batch.rows = request.rows
    BY <1>1 DEF Batch
<1> HIDE DEF claim, beat
<1>9. \A x \in log : /\ x.subject = s /\ x.campaign = campaign
                     /\ x.type \in claim.covered
                     /\ claim.start <= x.at /\ x.at <= claim.through
                     => x \in request.rows
  <2> SUFFICES ASSUME NEW x \in log, x.subject = s, x.campaign = campaign,
                      x.type \in claim.covered, claim.start <= x.at, x.at <= claim.through
               PROVE  x \in request.rows
      OBVIOUS
  <2>1. x.at \in Int BY ActivityFields DEF WorldInv
  <2>2. x.at \in claim.start..claim.through BY <1>5, <2>1
  <2>3. x \in Covered(claim) BY <1>1, <1>2, <2>2 DEF Covered
  <2> QED BY <1>5, <1>7, <1>8, <2>3
<1>10. QED  BY <1>1, <1>5, <1>7, <1>9 DEF claim

\* A proven miss is one: what the batch does not show did not happen in time.
LEMMA PreviewIsTrue ==
    ASSUME WorldInv, NEW s, Events(s) # {}, NEW request \in Requests(s),
           NEW t \in SLA_TYPES, NEW sales, sales = Preview(Events(s), request),
           sales.verified,
           \/ sales.window[t] = "breached"
           \/ sales.window[t] = "late" /\ t \in VouchedFor(request, sales)
    PROVE  Missed(s, sales, t)
<1> DEFINE es == Events(s)
           start == LeadStart(es)
           campaign == PolicyCampaign(es)
           claim == request.proof.claim
           deadline == start + TargetOf[campaign][t]
           rows == {x \in Accepted(request, campaign, start) : x.type = t}
<1>1. /\ sales.start = start /\ sales.campaign = campaign
      /\ sales.verified = Verified(request, campaign, start)
      /\ sales.window[t] = Window(t, request, campaign, start)
    BY DEF Preview
<1>2. start \in Nat \cup {Never} /\ campaign \in DOMAIN TargetOf
    BY PolicyIs DEF WorldInv
<1>3. TargetOf[campaign][t] \in Nat
    BY <1>2, SignalAssumption
<1>4. Verified(request, campaign, start)
    BY <1>1
<1>5. Window(t, request, campaign, start) =
          IF start = Never THEN "not_evaluable"
          ELSE IF rows # {} THEN IF FirstOf(rows).at <= deadline THEN "met" ELSE "late"
          ELSE IF request.as_of <= deadline THEN "pending"
          ELSE IF /\ Verified(request, campaign, start)
                  /\ t \in claim.covered /\ claim.through >= deadline
               THEN "breached" ELSE "overdue_missing_evidence"
    BY DEF Window
<1>6. /\ request.rows = Accepted(request, campaign, start)
      /\ start # Never => claim.start <= start
      /\ claim.start \in Int /\ claim.through \in Int /\ claim.through < now
      /\ \A x \in log : /\ x.subject = s /\ x.campaign = campaign
                        /\ x.type \in claim.covered
                        /\ claim.start <= x.at /\ x.at <= claim.through
                        => x \in request.rows
    BY <1>4, VerifiedIsComplete
<1>7. request.rows \subseteq log
    BY RequestIs
<1>8. now \in Nat /\ \A x \in log : x.at \in Nat
    BY ScenarioBounds, ActivityFields DEF WorldInv, ArrivedFits, Times
<1> HIDE DEF start, campaign, claim
<1>9. start # Never
    BY <1>1, <1>5
<1>10. start \in Nat /\ deadline \in Nat
    BY <1>2, <1>3, <1>9
<1>11. rows \subseteq log /\ Orderly(rows)
  <2>1. rows \subseteq log BY <1>6, <1>7
  <2>2. Orderly(log) BY <1>8, ActivityFields DEF WorldInv, Orderly
  <2> HIDE DEF rows
  <2> QED BY <2>1, <2>2, OrderlyPart
<1>12. t \in claim.covered /\ deadline <= claim.through /\
       (rows # {} => deadline < FirstOf(rows).at)
  <2>1. CASE sales.window[t] = "breached"
      BY <1>1, <1>5, <1>6, <1>10, <2>1
  <2>2. CASE sales.window[t] = "late" /\ t \in VouchedFor(request, sales)
    <3>1. rows # {} /\ ~ FirstOf(rows).at <= deadline
        BY <1>1, <1>5, <2>2
    <3>2. PICK x \in request.rows : x.type = t /\ x.at <= claim.through
        BY <2>2 DEF VouchedFor, claim
    <3>3. t \in claim.covered
        BY <2>2 DEF VouchedFor, claim
    <3>4. x \in rows BY <1>6, <3>2
    <3> HIDE DEF rows
    <3>5. FirstOf(rows) \in rows /\ FirstOf(rows).at <= x.at BY <1>11, <3>4, FirstIs
    <3>6. FirstOf(rows).at \in Nat /\ x.at \in Nat BY <1>8, <1>11, <3>4, <3>5
    <3> HIDE DEF deadline
    <3> QED BY <1>6, <1>10, <3>1, <3>2, <3>3, <3>5, <3>6
  <2> QED BY <2>1, <2>2
<1>13. deadline < now
  <2> HIDE DEF deadline
  <2> QED BY <1>6, <1>8, <1>10, <1>12
<1>14. ASSUME NEW x \in log, x.type = t, x.subject = s, x.campaign = campaign,
              start <= x.at, x.at <= deadline
       PROVE  FALSE
  <2> HIDE DEF deadline
  <2>1. x.at \in Int BY <1>8
  <2>2. claim.start <= x.at /\ x.at <= claim.through
      BY <1>6, <1>9, <1>10, <1>12, <1>14, <2>1
  <2>3. x \in request.rows BY <1>6, <1>12, <1>14, <2>2
  <2>4. x \in rows BY <1>6, <1>14, <2>3
  <2> HIDE DEF rows
  <2>5. FirstOf(rows).at <= x.at /\ FirstOf(rows) \in rows BY <1>11, <2>4, FirstIs
  <2>6. FirstOf(rows).at \in Int BY <1>8, <1>11, <2>5
  <2> QED BY <1>10, <1>12, <1>14, <2>1, <2>4, <2>5, <2>6
<1>15. QED
  <2>1. sales.start + TargetOf[sales.campaign][t] = deadline BY <1>1
  <2> HIDE DEF deadline
  <2> QED BY <1>1, <1>10, <1>13, <1>14, <2>1 DEF Missed

-----------------------------------------------------------------------------
(* SalesReviews: a request keeps what it knows.                            *)

\* A request that knows of the SLA knows the truth, and escalates for nothing else.
KnowsMisses(c) ==
    /\ c.pc = "projected" => c.version = "phase-9a-nba-v1"
    /\ (c.pc \in {"previewed", "scored"} \/ (c.pc = "recommended" /\ c.version = "phase-9b-nba-v2"))
          => \A t \in SLA_TYPES : Misses(c, t) => Missed(c.subject, c.sales, t)
    /\ (c.pc = "recommended" /\ c.version = "phase-9b-nba-v2" /\ c.advice.escalation # "none")
          => c.sales.verified /\ \E t \in SLA_TYPES : c.sales.window[t] \in {"breached", "late"}

MissesInv == \A r \in Reviewers : KnowsMisses(calls[r])

\* What was missed stays missed.
LEMMA MissedStays ==
    ASSUME WorldInv, World \/ UNCHANGED signals, NEW subject, NEW sales, NEW t,
           Missed(subject, sales, t)
    PROVE  Missed(subject, sales, t)'
<1> DEFINE deadline == sales.start + TargetOf[sales.campaign][t]
<1>1. /\ sales.start \in Int /\ deadline \in Int /\ deadline < now
      /\ \A x \in log : x.type = t /\ x.subject = subject /\ x.campaign = sales.campaign =>
             ~ (sales.start <= x.at /\ x.at <= deadline)
    BY DEF Missed
<1>2. now \in Nat
    BY ScenarioBounds DEF WorldInv, ArrivedFits, Times
<1>3. now' \in Nat /\ now <= now'
    BY <1>2 DEF World, Tick, Ingest, Happen, Attest, signals
<1>4. log' = log \/ \E a \in scenario.activities : log' = log \cup {[a EXCEPT !.at = now]}
    BY DEF World, Tick, Ingest, Happen, Attest, signals
<1>5. ASSUME NEW x \in log', x.type = t, x.subject = subject, x.campaign = sales.campaign
      PROVE  ~ (sales.start <= x.at /\ x.at <= deadline)
  <2>1. CASE x \in log BY <1>1, <1>5, <2>1
  <2>2. CASE x \notin log
    <3>1. PICK a \in scenario.activities : x = [a EXCEPT !.at = now] BY <1>4, <2>2
    <3>2. a \in Activities BY ScenarioBounds DEF WorldInv, ArrivedFits
    <3>3. x.at = now BY <3>1, <3>2 DEF Activities
    <3> HIDE DEF deadline
    <3> QED BY <1>1, <1>2, <3>3
  <2> QED BY <2>1, <2>2
<1>6. deadline < now'
  <2> HIDE DEF deadline
  <2> QED BY <1>1, <1>2, <1>3
<1>7. QED  BY <1>1, <1>5, <1>6 DEF Missed

\* A call without the SLA, or with what the call before it knew.
LEMMA KnowsNothing ==
    ASSUME NEW c, c.pc \notin {"projected", "previewed", "scored", "recommended"}
    PROVE  KnowsMisses(c)'
BY DEF KnowsMisses

LEMMA MissesMove ==
    ASSUME WorldInv, StoreInv, MissesInv, NEW r \in Reviewers, NEW d, Goto(r, d), KnowsMisses(d)'
    PROVE  MissesInv'
<1>1. calls'[r] = d /\ (\A q \in Reviewers \ {r} : calls'[q] = calls[q]) /\ UNCHANGED signals
    BY CallsMove DEF Goto
<1>2. ASSUME NEW c, KnowsMisses(c) PROVE KnowsMisses(c)'
    BY <1>1, <1>2, MissedStays DEF KnowsMisses, Misses
<1>3. ASSUME NEW q \in Reviewers PROVE KnowsMisses(calls[q])'
  <2>1. calls'[q] = d \/ calls'[q] = calls[q] BY <1>1
  <2> QED BY <1>2, <2>1 DEF MissesInv
<1>4. QED  BY <1>3 DEF MissesInv

\* What is read from the ledger and the batch in one step.
LEMMA PreviewKnows ==
    ASSUME WorldInv, NEW r \in Reviewers, NEW s \in Subjects, NEW request \in Requests(s),
           PreviewSales(r, request)
    PROVE  \E d : Goto(r, d) /\ KnowsMisses(d)'
<1>1. PICK sales : sales = Preview(Events(s), request)
    OBVIOUS
<1>2. PICK d : d = [pc |-> "previewed", version |-> "phase-9b-nba-v2",
                    subject |-> request.subject, as_of |-> request.as_of, sales |-> sales,
                    vouched |-> VouchedFor(request, sales)]
    OBVIOUS
<1>3. request.subject = s
    BY RequestIs
<1>4. Events(s) # {} /\ Goto(r, d)
    BY <1>1, <1>2, <1>3 DEF PreviewSales
<1>5. d.pc = "previewed" /\ d.subject = s /\ d.sales = sales /\ d.vouched = VouchedFor(request, sales)
    BY <1>2, <1>3
<1>6. UNCHANGED signals
    BY <1>4 DEF Goto
<1>7. ASSUME NEW t \in SLA_TYPES, Misses(d, t) PROVE Missed(d.subject, d.sales, t)'
  <2>1. Missed(s, sales, t)
      BY <1>1, <1>4, <1>5, <1>7, PreviewIsTrue DEF Misses
  <2>2. Missed(s, sales, t)'
      BY <1>6, <2>1, MissedStays
  <2> QED BY <1>5, <2>2
<1>8. KnowsMisses(d)'
    BY <1>5, <1>7 DEF KnowsMisses, Misses
<1>9. QED  BY <1>4, <1>8

\* A request that knows of the SLA keeps what it knows.
LEMMA StillKnows ==
    ASSUME WorldInv, UNCHANGED signals, NEW c, KnowsMisses(c), c.pc \in {"previewed", "scored"},
           NEW d, d.pc \in {"scored", "recommended"},
           d.subject = c.subject, d.sales = c.sales, d.vouched = c.vouched,
           d.pc = "recommended" =>
              (d.advice.escalation # "none" =>
                  d.sales.verified /\ \E t \in SLA_TYPES : d.sales.window[t] \in {"breached", "late"})
    PROVE  KnowsMisses(d)'
<1>1. \A t \in SLA_TYPES : Misses(c, t) => Missed(c.subject, c.sales, t)
    BY DEF KnowsMisses
<1>2. ASSUME NEW t \in SLA_TYPES, Misses(d, t) PROVE Missed(d.subject, d.sales, t)'
  <2>1. Missed(d.subject, d.sales, t)
      BY <1>1, <1>2 DEF Misses
  <2> QED BY <2>1, MissedStays
<1>3. QED  BY <1>2 DEF KnowsMisses, Misses

LEMMA ScoreKnows ==
    ASSUME WorldInv, NEW r \in Reviewers, KnowsMisses(calls[r]), ScoreSales(r)
    PROVE  \E d : Goto(r, d) /\ KnowsMisses(d)'
<1>1. PICK c : c = calls[r]
    OBVIOUS
<1>2. PICK d : /\ d = [pc |-> "scored", version |-> c.version, subject |-> c.subject,
                       sales |-> c.sales, vouched |-> c.vouched,
                       score |-> Score(Events(c.subject), c.as_of, c.sales),
                       plain |-> Score(Events(c.subject), c.as_of, NoSales)]
               /\ Goto(r, d)
    BY <1>1 DEF ScoreSales
<1>3. c.pc = "previewed" /\ KnowsMisses(c)
    BY <1>1 DEF ScoreSales
<1>4. d.pc = "scored" /\ d.subject = c.subject /\ d.sales = c.sales /\ d.vouched = c.vouched
    BY <1>2
<1>5. UNCHANGED signals
    BY <1>2 DEF Goto
<1>6. KnowsMisses(d)'
    BY <1>3, <1>4, <1>5, StillKnows
<1>7. QED  BY <1>2, <1>6

LEMMA RecommendKnows ==
    ASSUME WorldInv, NEW r \in Reviewers, KnowsMisses(calls[r]), RecommendSales(r)
    PROVE  \E d : Goto(r, d) /\ KnowsMisses(d)'
<1>1. PICK c : c = calls[r]
    OBVIOUS
<1>2. PICK state : state = Replay(Events(c.subject)).state
    OBVIOUS
<1>3. PICK advice : advice = Escalated(Rule(state, c.score), state, c.sales)
    OBVIOUS
<1>4. PICK d : /\ d = [pc |-> "recommended", version |-> c.version, subject |-> c.subject,
                       state |-> state, score |-> c.score, advice |-> advice,
                       sales |-> c.sales, vouched |-> c.vouched]
               /\ Goto(r, d)
    BY <1>1, <1>2, <1>3 DEF RecommendSales
<1>5. c.pc = "scored" /\ KnowsMisses(c)
    BY <1>1 DEF RecommendSales
<1>6. /\ d.pc = "recommended" /\ d.subject = c.subject /\ d.sales = c.sales
      /\ d.vouched = c.vouched /\ d.advice = advice
    BY <1>4
<1>7. state \in States
  <2>1. ArrivedFits BY DEF WorldInv
  <2> QED BY <1>2, <2>1, StateTyped
<1>8. Rule(state, c.score).priority \in LOW..HIGH /\ Rule(state, c.score).escalation = "none"
    BY <1>7, RuleFits
<1>9. advice.escalation # "none" =>
          c.sales.verified /\ \E t \in SLA_TYPES : c.sales.window[t] \in {"breached", "late"}
    BY <1>3, <1>8, EscalatedFits
<1>10. UNCHANGED signals
    BY <1>4 DEF Goto
<1>11. KnowsMisses(d)'
    BY <1>5, <1>6, <1>9, <1>10, StillKnows
<1>12. QED  BY <1>4, <1>11

LEMMA ProjectKnows ==
    ASSUME NEW r \in Reviewers, KnowsMisses(calls[r]),
           ScoreProjected(r) \/ \E s \in Subjects : \E t : Project(r, s, t)
    PROVE  \E d : Goto(r, d) /\ KnowsMisses(d)'
<1>1. CASE \E s \in Subjects : \E t : Project(r, s, t)
  <2>1. PICK s, t : s \in Subjects /\ Project(r, s, t) BY <1>1
  <2>2. PICK d : /\ d = [pc |-> "projected", version |-> "phase-9a-nba-v1", subject |-> s,
                         as_of |-> t, state |-> Replay(Events(s)).state,
                         trusted |-> TrustedOf(Events(s)) # {}]
                 /\ Goto(r, d)
      BY <2>1, Zenon DEF Project
  <2>3. d.pc = "projected" /\ d.version = "phase-9a-nba-v1" BY <2>2
  <2> QED BY <2>2, <2>3 DEF KnowsMisses
<1>2. CASE ScoreProjected(r)
  <2>1. PICK c : c = calls[r] OBVIOUS
  <2>2. PICK score : score = Score(Events(c.subject), c.as_of, NoSales) OBVIOUS
  <2>3. PICK d : /\ d = [pc |-> "recommended", version |-> c.version, subject |-> c.subject,
                         state |-> c.state, score |-> score, advice |-> Rule(c.state, score)]
                 /\ Goto(r, d)
      BY <1>2, <2>1, <2>2, Zenon DEF ScoreProjected
  <2>4. c.pc = "projected" /\ KnowsMisses(c) BY <1>2, <2>1 DEF ScoreProjected
  <2>5. d.pc = "recommended" /\ d.version = "phase-9a-nba-v1" BY <2>3, <2>4 DEF KnowsMisses
  <2> QED BY <2>3, <2>5 DEF KnowsMisses
<1>3. QED  BY <1>1, <1>2

\* A request that is over, or that stores its review, knows of no SLA.
LEMMA OtherKnows ==
    ASSUME StoreInv, NEW r \in Reviewers,
           \/ Refuse(r) \/ Answer(r) \/ SetRecord(r) \/ Index(r) \/ Count(r) \/ ListExpired(r)
           \/ Expire(r) \/ Die(r)
    PROVE  \E d : Goto(r, d) /\ KnowsMisses(d)'
<1> DEFINE c == calls[r]
           Quiet(d) == d.pc \notin {"projected", "previewed", "scored", "recommended"}
<1>1. Quiet(Idle)
    BY DEF Idle
<1>2. \E d : Goto(r, d) /\ Quiet(d)
  <2>1. CASE Refuse(r) \/ Answer(r) \/ Die(r)
      BY <1>1, <2>1 DEF Refuse, Answer, Die
  <2>2. CASE SetRecord(r)
    <3> DEFINE d == [pc |-> "indexing", id |-> issued + 1, subject |-> c.subject]
    <3>1. Goto(r, d) BY <2>2 DEF SetRecord
    <3>2. Quiet(d) OBVIOUS
    <3> QED BY <3>1, <3>2
  <2>3. CASE Index(r)
    <3> DEFINE d == [pc |-> "counting", id |-> c.id]
    <3>1. Goto(r, d) BY <2>3 DEF Index
    <3>2. Quiet(d) OBVIOUS
    <3> QED BY <3>1, <3>2
  <2>4. CASE Count(r)
    <3> DEFINE d == IF Overflow > 0
                    THEN [pc |-> "ranging", id |-> c.id, overflow |-> Overflow] ELSE Idle
    <3>1. Goto(r, d) BY <2>4, Zenon DEF Count
    <3>2. Quiet(d) BY <1>1
    <3> QED BY <3>1, <3>2
  <2>5. CASE ListExpired(r)
    <3> DEFINE ids == Expired(c.overflow)
               d == IF ids = {} THEN Idle ELSE [pc |-> "expiring", id |-> c.id, ids |-> ids]
    <3>1. Goto(r, d) BY <2>5, Zenon DEF ListExpired
    <3>2. Quiet(d) BY <1>1
    <3> QED BY <3>1, <3>2
  <2>6. CASE Expire(r)
    <3> DEFINE i == Min(c.ids)
               d == IF c.ids = {i} THEN Idle ELSE [c EXCEPT !.ids = @ \ {i}]
    <3>1. c.pc = "expiring" /\ Goto(r, d) BY <2>6, Zenon DEF Expire
    <3>2. StoringFits(r) BY DEF StoreInv
    <3>3. {"pc", "id", "ids"} \subseteq DOMAIN c BY <3>1, <3>2 DEF StoringFits
    <3>4. [c EXCEPT !.ids = @ \ {i}].pc = c.pc BY <3>3
    <3>5. Quiet(d) BY <1>1, <3>1, <3>4
    <3> QED BY <3>1, <3>5
  <2> QED BY <2>1, <2>2, <2>3, <2>4, <2>5, <2>6
<1>3. PICK d : Goto(r, d) /\ Quiet(d)
    BY <1>2
<1>4. KnowsMisses(d)'
    BY <1>3, KnowsNothing
<1>5. QED  BY <1>3, <1>4

LEMMA MissesInit == Init => MissesInv
BY DEF Init, Idle, MissesInv, KnowsMisses

LEMMA MissesStep == StoreInv /\ WorldInv /\ MissesInv /\ [Next]_vars => MissesInv'
<1> SUFFICES ASSUME StoreInv, WorldInv, MissesInv, [Next]_vars PROVE MissesInv'
    OBVIOUS
<1>1. ASSUME World \/ UNCHANGED signals, UNCHANGED calls PROVE MissesInv'
  <2>1. ASSUME NEW c, KnowsMisses(c) PROVE KnowsMisses(c)'
      BY <1>1, <2>1, MissedStays DEF KnowsMisses, Misses
  <2>2. ASSUME NEW q \in Reviewers PROVE KnowsMisses(calls[q])'
      BY <1>1, <2>1 DEF MissesInv
  <2> QED BY <2>2 DEF MissesInv
<1>2. CASE World
  <2>1. UNCHANGED calls BY <1>2 DEF World, Tick, Ingest, Happen, Attest
  <2> QED BY <1>1, <1>2, <2>1
<1>3. ASSUME NEW r \in Reviewers, Act(r) PROVE MissesInv'
  <2>1. KnowsMisses(calls[r]) BY DEF MissesInv
  <2>2. \E d : Goto(r, d) /\ KnowsMisses(d)'
    <3>1. CASE ScoreProjected(r) \/ \E s \in Subjects : \E t : Project(r, s, t)
        BY <2>1, <3>1, ProjectKnows
    <3>2. CASE \E s \in Subjects : \E request \in Requests(s) : PreviewSales(r, request)
        BY <3>2, PreviewKnows
    <3>3. CASE ScoreSales(r) BY <2>1, <3>3, ScoreKnows
    <3>4. CASE RecommendSales(r) BY <2>1, <3>4, RecommendKnows
    <3>5. CASE \/ Refuse(r) \/ Answer(r) \/ SetRecord(r) \/ Index(r) \/ Count(r)
               \/ ListExpired(r) \/ Expire(r) \/ Die(r)
        BY <3>5, OtherKnows
    <3> QED BY <1>3, <3>1, <3>2, <3>3, <3>4, <3>5 DEF Act
  <2> QED BY <2>2, MissesMove
<1>4. CASE UNCHANGED vars
    BY <1>1, <1>4 DEF vars
<1>5. QED  BY <1>2, <1>3, <1>4 DEF Next

LEMMA MissesInvHolds == Spec => []MissesInv
BY MissesInit, MissesStep, StoreInvHolds, WorldInvHolds, PTL DEF Spec

\* What a verified window of a recommendation says of time that has passed is so at the
\* Sales Hub: no batch hides what a claim covers, and no claim speaks for the future.
THEOREM EscalationsAreTrue == Spec => []EscalationIsTrue
<1>1. WorldInv /\ MissesInv => EscalationIsTrue
  <2> SUFFICES ASSUME WorldInv, MissesInv, NEW r \in Reviewers,
                      calls[r].pc = "recommended", calls[r].version = "phase-9b-nba-v2",
                      calls[r].advice.escalation # "none"
               PROVE  LET c == calls[r]
                          InTime(t) == \E x \in log :
                             /\ x.type = t /\ x.subject = c.subject /\ x.campaign = c.sales.campaign
                             /\ x.at \in c.sales.start..(c.sales.start + TargetOf[x.campaign][t])
                      IN \/ \E t \in SLA_TYPES :
                               /\ c.sales.window[t] = "breached" \/
                                     (c.sales.window[t] = "late" /\ t \in c.vouched)
                               /\ ~InTime(t)
                         \/ \E t \in SLA_TYPES : c.sales.window[t] = "late" /\ t \notin c.vouched
      BY DEF EscalationIsTrue
  <2>1. PICK c : c = calls[r]
      OBVIOUS
  <2>2. KnowsMisses(c)
      BY <2>1 DEF MissesInv
  <2>3. /\ \A t \in SLA_TYPES : Misses(c, t) => Missed(c.subject, c.sales, t)
        /\ c.sales.verified
        /\ \E t \in SLA_TYPES : c.sales.window[t] \in {"breached", "late"}
      BY <2>1, <2>2 DEF KnowsMisses
  <2>4. PICK t \in SLA_TYPES : c.sales.window[t] \in {"breached", "late"}
      BY <2>3
  <2>5. CASE c.sales.window[t] = "late" /\ t \notin c.vouched
      BY <2>1, <2>5
  <2>6. CASE ~ (c.sales.window[t] = "late" /\ t \notin c.vouched)
    <3>1. c.sales.window[t] = "breached" \/ (c.sales.window[t] = "late" /\ t \in c.vouched)
        BY <2>4, <2>6
    <3>2. Missed(c.subject, c.sales, t) BY <2>3, <3>1 DEF Misses
    <3>3. ASSUME NEW x \in log, x.type = t, x.subject = c.subject, x.campaign = c.sales.campaign,
                 x.at \in c.sales.start..(c.sales.start + TargetOf[x.campaign][t])
          PROVE  FALSE
      <4>1. c.sales.start \in Int /\ c.sales.start + TargetOf[c.sales.campaign][t] \in Int
          BY <3>2 DEF Missed
      <4>2. c.sales.start <= x.at /\ x.at <= c.sales.start + TargetOf[c.sales.campaign][t]
          BY <3>3, <4>1
      <4> QED BY <3>2, <3>3, <4>2 DEF Missed
    <3> QED BY <2>1, <3>1, <3>3
  <2> QED BY <2>5, <2>6
<1>2. QED  BY <1>1, WorldInvHolds, MissesInvHolds, PTL

-----------------------------------------------------------------------------
(* Least and greatest members.                                             *)

LEMMA LeastNatural ==
    ASSUME NEW T \in SUBSET Nat, T # {}
    PROVE  Min(T) \in T /\ \A c \in T : Min(T) <= c
<1>1. PICK n \in T : TRUE
    OBVIOUS
<1> DEFINE U == T \cap (0..n)
<1>2. U \in SUBSET Int /\ IsFiniteSet(U) /\ U # {}
  <2>1. n \in Nat OBVIOUS
  <2>2. IsFiniteSet(0..n) BY <2>1, FS_Interval
  <2>3. IsFiniteSet(U) BY <2>2, FS_Subset
  <2>4. n \in U BY <2>1
  <2> QED BY <2>3, <2>4
<1>3. Min(U) \in U /\ \A c \in U : Min(U) <= c
    BY <1>2, LeastInteger
<1>4. PICK m : m = Min(U)
    OBVIOUS
<1>5. m \in T /\ \A c \in T : m <= c
  <2>1. m \in U /\ m \in T /\ m \in Nat /\ m <= n BY <1>3, <1>4
  <2>2. ASSUME NEW c \in T PROVE m <= c
    <3>1. CASE c <= n BY <1>3, <1>4, <3>1
    <3>2. CASE ~ c <= n BY <2>1, <3>2
    <3> QED BY <3>1, <3>2
  <2> QED BY <2>1, <2>2
<1>6. \E x \in T : \A c \in T : x <= c
    BY <1>5
<1>7. QED  BY <1>6 DEF Min

LEMMA GreatestBy ==
    ASSUME NEW S, IsFiniteSet(S), S # {}, NEW f, \A x \in S : f[x] \in Nat
    PROVE  \E x \in S : \A y \in S : f[y] <= f[x]
<1> DEFINE HasGreatest(U) == U = {} \/ \E x \in U : \A y \in U : f[y] <= f[x]
           G == {U \in SUBSET S : HasGreatest(U)}
<1>1. ASSUME NEW U \in SUBSET S, NEW x \in U, U \ {x} \in G PROVE U \in G
  <2>1. CASE U \ {x} = {}
    <3>1. \A y \in U : y = x BY <2>1
    <3>2. f[x] <= f[x] OBVIOUS
    <3> QED BY <3>1, <3>2
  <2>2. CASE U \ {x} # {}
    <3>1. PICK z \in U \ {x} : \A y \in U \ {x} : f[y] <= f[z] BY <1>1, <2>2
    <3>2. CASE f[x] <= f[z] BY <3>1, <3>2
    <3>3. CASE ~ f[x] <= f[z]
      <4>1. \A y \in U : f[y] <= f[x] BY <3>1, <3>3
      <4> QED BY <4>1
    <3> QED BY <3>2, <3>3
  <2> QED BY <2>1, <2>2
<1>2. {} \in G
    OBVIOUS
<1>3. S \in G
  <2> HIDE DEF G
  <2>1. G \in SUBSET (SUBSET S) BY DEF G
  <2> QED BY <1>1, <1>2, <2>1, SubsetInduction
<1>4. QED  BY <1>3

-----------------------------------------------------------------------------
(* AttributionReconciliation: how a credit is shared.                      *)

\* A match with at least one campaign.
Shareable(m) ==
    /\ m.campaigns # {} /\ m.campaigns \subseteq Campaigns /\ m.touches \subseteq Touchpoints
    /\ IF m.touches = {} THEN \E c \in Campaigns : m.campaigns = {c}
       ELSE m.campaigns = TouchedBy(m.touches)

\* Each campaign stands where its first touch does, and no other campaign does.
LEMMA CampaignsApart ==
    ASSUME NEW m, Shareable(m), m.touches # {}
    PROVE  /\ \A c \in m.campaigns : FirstAt(m, c) \in Nat
           /\ \A c, d \in m.campaigns : FirstAt(m, c) = FirstAt(m, d) => c = d
<1> DEFINE InstantsOf(c) == {TouchOf[t].at : t \in {u \in m.touches : TouchOf[u].campaign = c}}
<1>1. ASSUME NEW c \in m.campaigns
      PROVE  FirstAt(m, c) \in InstantsOf(c) /\ InstantsOf(c) \in SUBSET Nat
  <2>1. InstantsOf(c) \in SUBSET Nat /\ InstantsOf(c) # {}
      BY TouchAssumption DEF Shareable, TouchedBy
  <2> HIDE DEF InstantsOf
  <2>2. Min(InstantsOf(c)) \in InstantsOf(c) BY <2>1, LeastNatural
  <2> QED BY <2>1, <2>2 DEF FirstAt, InstantsOf
<1>2. ASSUME NEW c \in m.campaigns, NEW d \in m.campaigns, FirstAt(m, c) = FirstAt(m, d)
      PROVE  c = d
  <2>1. PICK t \in m.touches : TouchOf[t].campaign = c /\ TouchOf[t].at = FirstAt(m, c)
      BY <1>1
  <2>2. PICK u \in m.touches : TouchOf[u].campaign = d /\ TouchOf[u].at = FirstAt(m, d)
      BY <1>1
  <2>3. t = u BY <1>2, <2>1, <2>2, TouchAssumption DEF Shareable
  <2> QED BY <2>1, <2>2, <2>3
<1>3. QED  BY <1>1, <1>2

LEMMA CampaignsFinite ==
    ASSUME NEW m, Shareable(m)
    PROVE  /\ IsFiniteSet(Campaigns) /\ IsFiniteSet(m.campaigns)
           /\ Cardinality(m.campaigns) \in 1..Cardinality(Campaigns)
<1>1. IsFiniteSet(Campaigns) /\ IsFiniteSet(m.campaigns)
    BY ReportAssumption, FS_Subset DEF Shareable
<1>2. /\ Cardinality(m.campaigns) \in Nat /\ Cardinality(Campaigns) \in Nat
      /\ Cardinality(m.campaigns) <= Cardinality(Campaigns)
    BY <1>1, FS_Subset, FS_CardinalityType DEF Shareable
<1>3. Cardinality(m.campaigns) # 0
    BY <1>1, FS_EmptySet DEF Shareable
<1>4. QED  BY <1>1, <1>2, <1>3

LEMMA OneIsFirst ==
    ASSUME NEW m, Shareable(m)
    PROVE  \E c \in m.campaigns : {d \in m.campaigns : IsFirst(m, d)} = {c}
<1>1. CASE m.touches = {}
    BY <1>1 DEF Shareable, IsFirst
<1>2. CASE m.touches # {}
  <2> DEFINE R == {FirstAt(m, c) : c \in m.campaigns}
  <2>1. R \in SUBSET Nat /\ R # {}
      BY <1>2, CampaignsApart DEF Shareable
  <2>2. Min(R) \in R /\ \A c \in R : Min(R) <= c
    <3> HIDE DEF R
    <3> QED BY <2>1, LeastNatural
  <2>3. PICK c \in m.campaigns : FirstAt(m, c) = Min(R)
      BY <2>2
  <2>4. \A d \in m.campaigns : FirstAt(m, c) <= FirstAt(m, d)
      BY <2>2, <2>3
  <2>5. ASSUME NEW d \in m.campaigns, IsFirst(m, d) PROVE d = c
    <3>1. FirstAt(m, d) <= FirstAt(m, c) BY <1>2, <2>5 DEF IsFirst
    <3>2. FirstAt(m, d) \in Nat /\ FirstAt(m, c) \in Nat BY <1>2, CampaignsApart
    <3>3. FirstAt(m, d) = FirstAt(m, c) BY <2>4, <3>1, <3>2
    <3> QED BY <1>2, <3>3, CampaignsApart
  <2>6. IsFirst(m, c) BY <2>4 DEF IsFirst
  <2> QED BY <2>5, <2>6
<1>3. QED  BY <1>1, <1>2

LEMMA OneIsLast ==
    ASSUME NEW m, Shareable(m)
    PROVE  \E c \in m.campaigns : {d \in m.campaigns : IsLast(m, d)} = {c}
<1>1. CASE m.touches = {}
    BY <1>1 DEF Shareable, IsLast
<1>2. CASE m.touches # {}
  <2>1. PICK f : f = [c \in m.campaigns |-> FirstAt(m, c)]
      OBVIOUS
  <2>2. \A c \in m.campaigns : f[c] = FirstAt(m, c) /\ f[c] \in Nat
      BY <1>2, <2>1, CampaignsApart
  <2>3. IsFiniteSet(m.campaigns) /\ m.campaigns # {}
      BY CampaignsFinite DEF Shareable
  <2>4. PICK c \in m.campaigns : \A d \in m.campaigns : f[d] <= f[c]
      BY <2>2, <2>3, GreatestBy
  <2>5. \A d \in m.campaigns : FirstAt(m, d) <= FirstAt(m, c)
      BY <2>2, <2>4
  <2>6. ASSUME NEW d \in m.campaigns, IsLast(m, d) PROVE d = c
    <3>1. FirstAt(m, c) <= FirstAt(m, d) BY <1>2, <2>6 DEF IsLast
    <3>2. FirstAt(m, d) \in Nat /\ FirstAt(m, c) \in Nat BY <1>2, CampaignsApart
    <3>3. FirstAt(m, d) = FirstAt(m, c) BY <2>5, <3>1, <3>2
    <3> QED BY <1>2, <3>3, CampaignsApart
  <2>7. IsLast(m, c) BY <2>5 DEF IsLast
  <2> QED BY <2>6, <2>7
<1>3. QED  BY <1>1, <1>2

LEMMA CreditIs ==
    ASSUME NEW m, NEW c, NEW model \in Models
    PROVE  Credit(m, c, model) =
               IF c \notin m.campaigns THEN 0
               ELSE IF model = "first_touch" THEN IF IsFirst(m, c) THEN Scale ELSE 0
               ELSE IF model = "last_touch" THEN IF IsLast(m, c) THEN Scale ELSE 0
               ELSE Scale \div Cardinality(m.campaigns)
<1> DEFINE share == CASE model = "first_touch" -> IF IsFirst(m, c) THEN Scale ELSE 0
                      [] model = "last_touch"  -> IF IsLast(m, c) THEN Scale ELSE 0
                      [] OTHER -> Scale \div Cardinality(m.campaigns)
<1>1. Credit(m, c, model) = IF c \notin m.campaigns THEN 0 ELSE share
    BY Zenon DEF Credit
<1>2. model = "first_touch" => share = IF IsFirst(m, c) THEN Scale ELSE 0
  <2>1. "last_touch" # "first_touch" OBVIOUS
  <2> QED BY <2>1, Zenon
<1>3. model = "last_touch" => share = IF IsLast(m, c) THEN Scale ELSE 0
  <2>1. "last_touch" # "first_touch" OBVIOUS
  <2> QED BY <2>1, Zenon
<1>4. model # "first_touch" /\ model # "last_touch" => share = Scale \div Cardinality(m.campaigns)
    BY Zenon
<1> HIDE DEF share
<1>5. QED  BY <1>1, <1>2, <1>3, <1>4

\* Every model gives one whole credit away.
LEMMA CreditIsShared ==
    ASSUME NEW m, Shareable(m), NEW model \in Models,
           NEW f, f = [c \in Campaigns |-> Credit(m, c, model)]
    PROVE  Summable(f, Campaigns) /\ SumOver(f, Campaigns) = Scale
<1> DEFINE n == Cardinality(m.campaigns)
<1>1. /\ IsFiniteSet(Campaigns) /\ IsFiniteSet(m.campaigns) /\ n \in 1..Cardinality(Campaigns)
      /\ m.campaigns \in SUBSET Campaigns
    BY CampaignsFinite DEF Shareable
<1>2. Scale \in Nat /\ n * (Scale \div n) = Scale
    BY <1>1, ReportAssumption
<1>3. \E T \in SUBSET Campaigns : \E k \in Nat :
          /\ \A c \in Campaigns : f[c] = IF c \in T THEN k ELSE 0
          /\ k * Cardinality(T) = Scale
  <2> DEFINE Shares(T, k) == \A c \in Campaigns : f[c] = IF c \in T THEN k ELSE 0
  <2>1. CASE model = "first_touch"
    <3>1. PICK d \in m.campaigns : {c \in m.campaigns : IsFirst(m, c)} = {d} BY OneIsFirst
    <3>2. Shares({d}, Scale) BY <2>1, <3>1, CreditIs
    <3>3. Cardinality({d}) = 1 BY FS_Singleton
    <3>4. Scale * Cardinality({d}) = Scale BY <1>2, <3>3
    <3>5. {d} \in SUBSET Campaigns BY <1>1
    <3> QED BY <1>2, <3>2, <3>4, <3>5
  <2>2. CASE model = "last_touch"
    <3>1. PICK d \in m.campaigns : {c \in m.campaigns : IsLast(m, c)} = {d} BY OneIsLast
    <3>2. Shares({d}, Scale) BY <2>2, <3>1, CreditIs
    <3>3. Cardinality({d}) = 1 BY FS_Singleton
    <3>4. Scale * Cardinality({d}) = Scale BY <1>2, <3>3
    <3>5. {d} \in SUBSET Campaigns BY <1>1
    <3> QED BY <1>2, <3>2, <3>4, <3>5
  <2>3. CASE model \notin {"first_touch", "last_touch"}
    <3> DEFINE k == Scale \div n
    <3>1. Shares(m.campaigns, k) BY <2>3, CreditIs
    <3>2. n \in Nat \ {0} BY <1>1
    <3> HIDE DEF n
    <3>3. k \in Nat BY <1>2, <3>2
    <3>4. k * n = Scale
      <4> HIDE DEF k
      <4>1. k * n = n * k BY <3>2, <3>3
      <4> QED BY <1>2, <4>1 DEF k
    <3> HIDE DEF k
    <3> QED BY <1>1, <3>1, <3>3, <3>4 DEF n
  <2> QED BY <2>1, <2>2, <2>3
<1>4. PICK T \in SUBSET Campaigns, k \in Nat :
          /\ \A c \in Campaigns : f[c] = IF c \in T THEN k ELSE 0
          /\ k * Cardinality(T) = Scale
    BY <1>3
<1>5. Summable(f, Campaigns)
  <2>1. \A c \in Campaigns : f[c] \in Nat BY <1>4
  <2> QED BY <1>1, <2>1 DEF Summable
<1>6. QED  BY <1>1, <1>4, <1>5, SumUniform

-----------------------------------------------------------------------------
(* AttributionReconciliation: a report adds up.                            *)

\* The columns of a report.
Columns == {"credit", "pipeline", "revenue"}

LEMMA PlacesTyped == \A column : Places(column) \in Nat
BY DEF Places

LEMMA WorthTyped ==
    ASSUME NEW o \in Observations, NEW column \in Columns
    PROVE  Worth(o, column) \in Nat
<1>1. o.amount \in Nat
    BY ReportAssumption DEF Observations
<1>2. CASE column = "credit"
  <2>1. column # "pipeline" BY <1>2
  <2>2. Worth(o, column) = 1 BY <1>2, <2>1, Zenon DEF Worth
  <2> QED BY <2>2
<1>3. CASE column = "pipeline"
  <2>1. column # "credit" BY <1>3
  <2>2. Worth(o, column) = IF o.status \in {"open", "won"} THEN o.amount ELSE 0
      BY <1>3, <2>1, Zenon DEF Worth
  <2> QED BY <1>1, <2>2
<1>4. CASE column # "credit" /\ column # "pipeline"
  <2>1. Worth(o, column) = IF o.status = "won" THEN o.amount ELSE 0
      BY <1>4, Zenon DEF Worth
  <2> QED BY <1>1, <2>1
<1>5. QED  BY <1>2, <1>3, <1>4

\* A row is off by at most half of its last place.
LEMMA RoundedIsNear ==
    ASSUME NEW x \in Nat, NEW p \in Nat
    PROVE  /\ Rounded(x, p) \in Nat
           /\ (2 * Scale) * Rounded(x, p) <= (2 * p) * x + Scale
           /\ (2 * p) * x <= (2 * Scale) * Rounded(x, p) + Scale
<1> DEFINE b == 2 * Scale
           a == 2 * x * p + Scale
           q == a \div b
<1>1. Scale \in Nat \ {0} /\ b \in Nat \ {0}
    BY ReportAssumption
<1>2. 2 * x * p \in Nat /\ 2 * x * p = (2 * p) * x
  <2>1. x * p \in Nat OBVIOUS
  <2>2. 2 * x * p = 2 * (x * p) /\ (2 * p) * x = 2 * (x * p) OBVIOUS
  <2> QED BY <2>1, <2>2
<1>3. a \in Nat /\ a = (2 * p) * x + Scale
    BY <1>1, <1>2
<1>4. b = Scale + Scale
    BY <1>1
<1>5. Rounded(x, p) = q
    BY DEF Rounded
<1> HIDE DEF a, b
<1>6. q \in Nat /\ b * q <= a /\ a < b * q + b
    BY <1>1, <1>3
<1>7. b * q \in Nat
    BY <1>1, <1>6
<1> HIDE DEF q
<1>8. /\ b * q <= (2 * p) * x + Scale
      /\ (2 * p) * x <= b * q + Scale
    BY <1>1, <1>2, <1>3, <1>4, <1>6, <1>7
<1>9. QED  BY <1>5, <1>6, <1>8 DEF b

\* What is a multiple of Scale on both sides.
LEMMA Cancel ==
    ASSUME NEW a \in Nat, NEW b \in Nat, Scale * a <= Scale * b
    PROVE  a <= b
<1> SUFFICES ASSUME b < a PROVE FALSE
    OBVIOUS
<1>1. Scale \in Nat \ {0}
    BY ReportAssumption
<1>2. PICK d \in Nat : a = b + 1 + d
  <2>1. a - b - 1 \in Nat OBVIOUS
  <2>2. a = b + 1 + (a - b - 1) OBVIOUS
  <2> QED BY <2>1, <2>2
<1>3. Scale * a = Scale * b + Scale + Scale * d
    BY <1>1, <1>2
<1>4. Scale * d \in Nat /\ Scale * b \in Nat
    BY <1>1, <1>2
<1>5. QED  BY <1>1, <1>3, <1>4

-----------------------------------------------------------------------------
\* Rows that are near what they round add up to nearly all that is due, when W is what
\* all is worth: each of the observations D is worth v, and c gets the credits k[c].
LEMMA RowsAddUp ==
    ASSUME NEW D, IsFiniteSet(D), NEW v, \A i \in D : v[i] \in Nat,
           NEW k, \A i \in D : \A c \in Campaigns : k[i][c] \in Nat,
           \A i \in D : SumOver(k[i], Campaigns) = Scale,
           NEW p \in Nat,
           NEW R, \A c \in Campaigns :
                     R[c] = Rounded(SumOver([i \in D |-> v[i] * k[i][c]], D), p)
    PROVE  /\ 2 * SumOver(R, Campaigns) <= 2 * (p * SumOver(v, D)) + Cardinality(Campaigns)
           /\ 2 * (p * SumOver(v, D)) <= 2 * SumOver(R, Campaigns) + Cardinality(Campaigns)
<1>1. IsFiniteSet(Campaigns) /\ Scale \in Nat /\ Cardinality(Campaigns) \in Nat
    BY ReportAssumption, FS_CardinalityType
<1>2. PICK a : a = [c \in Campaigns |-> [i \in D |-> v[i] * k[i][c]]]
    OBVIOUS
<1>3. \A c \in Campaigns : a[c] = [i \in D |-> v[i] * k[i][c]]
    BY <1>2
<1>4. \A c \in Campaigns : \A i \in D : a[c][i] = v[i] * k[i][c]
    BY <1>3
<1>5. \A c \in Campaigns : \A i \in D : a[c][i] \in Nat
  <2>1. \A m, n \in Nat : m * n \in Nat OBVIOUS
  <2> QED BY <1>4, <2>1
<1>6. PICK X : X = RowSums(a, Campaigns, D)
    OBVIOUS
<1>7. \A c \in Campaigns : X[c] \in Nat /\ R[c] = Rounded(X[c], p)
  <2> TAKE c \in Campaigns
  <2>1. Summable(a[c], D) BY <1>5 DEF Summable
  <2>2. X[c] = SumOver(a[c], D) BY <1>6 DEF RowSums
  <2>3. X[c] \in Nat BY <2>1, <2>2, SumTyped
  <2>4. R[c] = Rounded(SumOver(a[c], D), p) BY <1>3
  <2> QED BY <2>2, <2>3, <2>4
<1>8. Summable(v, D) /\ SumOver(v, D) \in Nat
  <2>1. Summable(v, D) BY DEF Summable
  <2> QED BY <2>1, SumTyped
<1>9. SumOver(X, Campaigns) = Scale * SumOver(v, D)
  <2>1. PICK w : w = [i \in D |-> Scale * v[i]]
      OBVIOUS
  <2>2. \A i \in D : w[i] = Scale * v[i] /\ w[i] \in Nat
    <3>1. \A m, n \in Nat : m * n \in Nat OBVIOUS
    <3> QED BY <1>1, <2>1, <3>1
  <2>3. ASSUME NEW i \in D PROVE SumOver(ColumnAt(a, Campaigns, i), Campaigns) = w[i]
    <3>1. PICK h : h = ColumnAt(a, Campaigns, i) OBVIOUS
    <3>2. Summable(k[i], Campaigns) BY <1>1 DEF Summable
    <3>3. \A c \in Campaigns : h[c] = v[i] * k[i][c] BY <1>4, <3>1 DEF ColumnAt
    <3>4. SumOver(h, Campaigns) = v[i] * SumOver(k[i], Campaigns) BY <3>2, <3>3, SumScaled
    <3>5. v[i] * Scale = Scale * v[i] BY <1>1
    <3> QED BY <2>2, <3>1, <3>4, <3>5
  <2>4. SumOver(RowSums(a, Campaigns, D), Campaigns) = SumOver(w, D)
    <3>1. IsFiniteSet(Campaigns) /\ \A i \in D : w[i] \in Nat BY <1>1, <2>2
    <3> QED BY <1>5, <2>3, <3>1, SumsExchange
  <2>5. SumOver(w, D) = Scale * SumOver(v, D)
      BY <1>1, <1>8, <2>2, SumScaled
  <2> QED BY <1>6, <2>4, <2>5
<1>10. PICK f : f = [c \in Campaigns |-> (2 * Scale) * R[c]]
    OBVIOUS
<1>11. PICK g : g = [c \in Campaigns |-> (2 * p) * X[c]]
    OBVIOUS
<1>12. \A c \in Campaigns :
          /\ R[c] \in Nat /\ f[c] = (2 * Scale) * R[c] /\ g[c] = (2 * p) * X[c]
          /\ f[c] \in Nat /\ g[c] \in Nat
          /\ f[c] <= g[c] + Scale /\ g[c] <= f[c] + Scale
  <2> TAKE c \in Campaigns
  <2>1. X[c] \in Nat /\ R[c] = Rounded(X[c], p) BY <1>7
  <2>2. /\ R[c] \in Nat
        /\ (2 * Scale) * R[c] <= (2 * p) * X[c] + Scale
        /\ (2 * p) * X[c] <= (2 * Scale) * R[c] + Scale
      BY <2>1, RoundedIsNear
  <2>3. f[c] = (2 * Scale) * R[c] /\ g[c] = (2 * p) * X[c] BY <1>10, <1>11
  <2>4. \A m, n \in Nat : (2 * m) * n \in Nat OBVIOUS
  <2>5. (2 * Scale) * R[c] \in Nat /\ (2 * p) * X[c] \in Nat BY <1>1, <2>1, <2>2, <2>4
  <2> QED BY <2>2, <2>3, <2>5
<1>13. /\ Summable(f, Campaigns) /\ Summable(g, Campaigns)
       /\ Summable(R, Campaigns) /\ Summable(X, Campaigns)
    BY <1>1, <1>7, <1>12 DEF Summable
<1> DEFINE T == SumOver(R, Campaigns)  W == SumOver(v, D)  n == Cardinality(Campaigns)
<1>14. SumOver(f, Campaigns) = (2 * Scale) * T
  <2>1. 2 * Scale \in Nat BY <1>1
  <2> QED BY <1>12, <1>13, <2>1, SumScaled
<1>15. SumOver(g, Campaigns) = (2 * p) * (Scale * W)
  <2>1. 2 * p \in Nat OBVIOUS
  <2>2. SumOver(g, Campaigns) = (2 * p) * SumOver(X, Campaigns) BY <1>12, <1>13, <2>1, SumScaled
  <2> QED BY <1>9, <2>2
<1>16. /\ SumOver(f, Campaigns) <= SumOver(g, Campaigns) + Scale * n
       /\ SumOver(g, Campaigns) <= SumOver(f, Campaigns) + Scale * n
    BY <1>1, <1>12, <1>13, SumWithin
<1>17. T \in Nat /\ W \in Nat /\ n \in Nat
    BY <1>1, <1>8, <1>13, SumTyped
<1> HIDE DEF T, W, n
<1>18. /\ (2 * Scale) * T = Scale * (2 * T)
       /\ (2 * p) * (Scale * W) = Scale * (2 * (p * W))
       /\ Scale * (2 * T) + Scale * n = Scale * (2 * T + n)
       /\ Scale * (2 * (p * W)) + Scale * n = Scale * (2 * (p * W) + n)
    BY <1>1, <1>17
<1>19. 2 * T \in Nat /\ 2 * (p * W) \in Nat /\ 2 * T + n \in Nat /\ 2 * (p * W) + n \in Nat
  <2>1. \A m, j \in Nat : m * j \in Nat /\ m + j \in Nat OBVIOUS
  <2> QED BY <1>17, <2>1
<1>20. /\ Scale * (2 * T) <= Scale * (2 * (p * W) + n)
       /\ Scale * (2 * (p * W)) <= Scale * (2 * T + n)
    BY <1>14, <1>15, <1>16, <1>18
<1>21. 2 * T <= 2 * (p * W) + n /\ 2 * (p * W) <= 2 * T + n
    BY <1>19, <1>20, Cancel
<1>22. QED  BY <1>21 DEF T, W, n

-----------------------------------------------------------------------------
\* An observation without an issue has a campaign that the report can credit.
LEMMA MatchedIsShareable ==
    ASSUME NEW o, NEW m, m.touches \in SUBSET Touchpoints, Fitting(o, m), m.issues = {}
    PROVE  Shareable(m)
<1>1. m.campaigns = Hinted(o, m.touches) /\ IssuesOf(o, m.touches) = {}
    BY DEF Fitting
<1>2. Hinted(o, m.touches) # {}
    BY <1>1 DEF IssuesOf, Issues
<1>3. CASE m.touches = {} /\ o.hint \in Campaigns
    BY <1>1, <1>3 DEF Hinted, Shareable
<1>4. CASE ~ (m.touches = {} /\ o.hint \in Campaigns)
  <2>1. m.campaigns = TouchedBy(m.touches) BY <1>1, <1>4 DEF Hinted
  <2>2. m.touches # {} BY <1>1, <1>2, <2>1 DEF TouchedBy
  <2>3. TouchedBy(m.touches) \subseteq Campaigns BY TouchAssumption DEF TouchedBy
  <2> QED BY <1>1, <1>2, <2>1, <2>2, <2>3 DEF Shareable
<1>5. QED  BY <1>3, <1>4

LEMMA AcceptedAddsUp ==
    ASSUME NEW r \in Records, Sound(r), QualityAccepted(r), NEW model \in Models,
           NEW column \in Columns
    PROVE  LET due  == Places(column) * SumFunction([i \in DOMAIN r.observations |->
                                                Worth(r.observations[i], column)])
               slip == Cardinality(Campaigns)
           IN  /\ 2 * Total(r, model, column) <= 2 * due + slip
               /\ 2 * due <= 2 * Total(r, model, column) + slip
<1> DEFINE os == r.observations  ms == r.matches  p == Places(column)
<1>1. /\ os \in Seq(Observations) /\ ms \in Seq(Matches) /\ Len(ms) = Len(os)
      /\ Eligible(os, ms) /\ \A i \in DOMAIN ms : Fitting(os[i], ms[i])
    BY DEF Records, Sound
<1>2. PICK D : D = DOMAIN ms
    OBVIOUS
<1>3. /\ D = DOMAIN os /\ IsFiniteSet(D)
      /\ \A i \in D : os[i] \in Observations /\ ms[i] \in Matches
  <2>1. D = 1..Len(ms) /\ D = 1..Len(os) /\ Len(ms) \in Nat BY <1>1, <1>2
  <2>2. IsFiniteSet(1..Len(ms)) BY <2>1, FS_Interval
  <2> QED BY <1>1, <2>1, <2>2
<1>4. PICK v : v = [i \in D |-> Worth(os[i], column)]
    OBVIOUS
<1>5. \A i \in D : v[i] = Worth(os[i], column) /\ v[i] \in Nat
    BY <1>3, <1>4, WorthTyped
<1>6. PICK k : k = [i \in D |-> [c \in Campaigns |-> Credit(ms[i], c, model)]]
    OBVIOUS
<1>7. \A i \in D : /\ k[i] = [c \in Campaigns |-> Credit(ms[i], c, model)]
                   /\ Summable(k[i], Campaigns) /\ SumOver(k[i], Campaigns) = Scale
  <2> TAKE i \in D
  <2>1. ms[i].touches \in SUBSET Touchpoints BY <1>3 DEF Matches
  <2>2. ms[i].issues = {} BY <1>1, <1>2 DEF Eligible
  <2>3. Shareable(ms[i]) BY <1>1, <1>2, <2>1, <2>2, MatchedIsShareable
  <2>4. k[i] = [c \in Campaigns |-> Credit(ms[i], c, model)] BY <1>6
  <2> QED BY <2>3, <2>4, CreditIsShared
<1>8. PICK R : R = [c \in Campaigns |-> Row(r, model, c, column)]
    OBVIOUS
<1>9. \A c \in Campaigns : R[c] = Rounded(SumOver([i \in D |-> v[i] * k[i][c]], D), p)
  <2> TAKE c \in Campaigns
  <2> DEFINE f == [i \in D |-> Worth(os[i], column) * Credit(ms[i], c, model)]
             e == [i \in D |-> v[i] * k[i][c]]
  <2>1. f = e BY <1>5, <1>7
  <2>2. R[c] = Rounded(SumFunction(f), p) BY <1>2, <1>8 DEF Row
  <2>3. DOMAIN f = D OBVIOUS
  <2> HIDE DEF f, e, p
  <2>4. SumFunction(f) = SumOver(f, D) BY <2>3, SumIs
  <2>5. R[c] = Rounded(SumOver(e, D), p) BY <2>1, <2>2, <2>4
  <2> QED BY <2>5 DEF e
<1>10. Total(r, model, column) = SumOver(R, Campaigns)
  <2>1. Total(r, model, column) = SumFunction(R) BY <1>8 DEF Total
  <2>2. DOMAIN R = Campaigns BY <1>8
  <2> QED BY <2>1, <2>2, SumIs
<1>11. SumFunction([i \in DOMAIN r.observations |-> Worth(r.observations[i], column)])
           = SumOver(v, D)
  <2>1. SumFunction(v) = SumOver(v, D)
    <3>1. DOMAIN v = D BY <1>4
    <3> QED BY <3>1, SumIs
  <2> QED BY <1>3, <1>4, <2>1
<1>12. p \in Nat
    BY PlacesTyped
<1>13. \A i \in D : \A c \in Campaigns : k[i][c] \in Nat
    BY <1>7 DEF Summable
<1> HIDE DEF p
<1>14. /\ \A i \in D : v[i] \in Nat
       /\ \A i \in D : SumOver(k[i], Campaigns) = Scale
       /\ \A c \in Campaigns : R[c] = Rounded(SumOver([i \in D |-> v[i] * k[i][c]], D), p)
    BY <1>5, <1>7, <1>9
<1>15. /\ 2 * SumOver(R, Campaigns) <= 2 * (p * SumOver(v, D)) + Cardinality(Campaigns)
       /\ 2 * (p * SumOver(v, D)) <= 2 * SumOver(R, Campaigns) + Cardinality(Campaigns)
    BY <1>3, <1>12, <1>13, <1>14, RowsAddUp, Zenon
<1>16. QED  BY <1>10, <1>11, <1>15 DEF p

\* For any campaigns, touches, amounts and requests: under every model the report of an
\* accepted reconciliation adds up to all its opportunities, their pipeline and their
\* closed revenue, but for half of the last place in each row.
THEOREM AcceptedReportsAddUp == ReconciliationSpec => []AcceptedIsCreditedInFull
<1>1. SnapshotInv => AcceptedIsCreditedInFull
  <2> SUFFICES ASSUME SnapshotInv, NEW n \in DOMAIN records, QualityAccepted(records[n]),
                      NEW model \in Models, NEW column \in Columns
               PROVE  LET r    == records[n]
                          due  == Places(column) * SumFunction([i \in DOMAIN r.observations |->
                                                      Worth(r.observations[i], column)])
                          slip == Cardinality(Campaigns)
                      IN  /\ 2 * Total(r, model, column) <= 2 * due + slip
                          /\ 2 * due <= 2 * Total(r, model, column) + slip
      BY DEF AcceptedIsCreditedInFull, Columns
  <2>1. records \in Seq(Records) /\ Sound(records[n])
      BY DEF SnapshotInv, ReconciliationTypeOK
  <2>2. records[n] \in Records
      BY <2>1
  <2> QED BY <2>1, <2>2, AcceptedAddsUp
<1>2. QED  BY <1>1, SnapshotInvHolds, PTL
=============================================================================
