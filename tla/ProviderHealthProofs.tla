-------------------------- MODULE ProviderHealthProofs --------------------------
(***************************************************************************)
(* Theorems of ProviderHealth for any number of replicas, threads,         *)
(* producers, heartbeats and scenarios.  The parts of the invariant hardly *)
(* touch each other: receipts and sequences (Beats), the lease (Leased),   *)
(* the probes on their way to the snapshot (Shown), and the copies of      *)
(* alerts (Settling, Held).  Each says what is so as long as the history   *)
(* does not tell of the overlap that breaks it.                            *)
(***************************************************************************)
EXTENDS ProviderHealth, FiniteSetTheorems, SequenceTheorems, WellFoundedInduction, TLAPS

Limits ==
    [enabled : BOOLEAN, beats : Nat, elapses : Nat, deliveries : Nat, probes : Nat,
     forced : Nat, acks : Nat, expiries : Nat, deaths : Nat, errors : Nat]

Calls ==
    [kind : {"scheduled", "forced", "refresh"}, beat : Heartbeats \cup {[id |-> "none"]},
     at : Nat, overflow : Nat, expired : SUBSET BeatIds,
     copy : SchedulerStates \cup {"none"}, probe : Nat,
     elders : SUBSET Replicas, overtaken : BOOLEAN, conditions : SUBSET Keys,
     listing : [Keys -> AlertStates] \cup {<<>>}, todo : SUBSET Keys,
     alone : BOOLEAN, crashed : BOOLEAN]

Acks == [step : {"idle"}] \cup [step : {"get", "save"}, key : Keys]

Beating == {"hb_save", "hb_count", "hb_trim", "hb_delete"}

\* What a loop at place p needs of its local variables c.
Fits(p, c) ==
    /\ p # "idle" => c \in Calls
    /\ p = "hb_save" => c.beat \in Heartbeats
    /\ p \in {"acquire", "skip"} => c.copy \in SchedulerStates
    /\ p \in {"acquire", "extend", "skip", "begin"} => c.kind # "refresh"
    /\ p = "sync" => c.listing \in [Keys -> AlertStates]

Types ==
    /\ BeatTypeOK /\ IsFiniteSet(Listed)
    /\ limits \in Limits
    /\ alerts \in [Keys -> AlertStates]
    /\ probes \in Seq({"available", "failed"})
    /\ snapshot \in 0..Len(probes)
    /\ pending \in [Replicas -> SUBSET (1..Len(probes))]
    /\ status \in SchedulerStates
    /\ lease \in Replicas \cup {"none", "lost"}
    /\ task \in [Replicas -> BOOLEAN]
    /\ pc \in [Replicas -> LoopStates]
    /\ call \in [Replicas -> Calls \cup {NoCall}]
    /\ ack \in [Threads -> Acks]
    /\ \A r \in Replicas : Fits(pc[r], call[r])

-----------------------------------------------------------------------------
(* Receipts.                                                               *)

\* Listed receipts have scores of their own, in the order of their sequences for
\* each producer, and the newest of a producer has its peak.
Rising ==
    /\ \A b, c \in Listed :
          b # c => /\ beats[b].score # beats[c].score
                   /\ beats[b].producer = beats[c].producer /\ beats[b].score < beats[c].score
                         => beats[b].sequence < beats[c].sequence
    /\ \A b \in Listed :
          /\ beats[b].score <= clock
          /\ (\A c \in Listed : beats[c].producer = beats[b].producer
                                  => beats[c].score <= beats[b].score)
                => beats[b].sequence = peak[beats[b].producer]

\* The receipt that is about to be saved is new, and newer than all.
Arriving(r) ==
    LET b == call[r].beat
    IN /\ beats[b.id] = NoReceipt /\ call[r].at <= clock
       /\ \A c \in Listed : beats[c].score < call[r].at
       /\ ListedOf(b.producer) # {} => b.sequence > peak[b.producer]

\* What is about to be deleted are still the oldest.
ExpiredListed(r) == call[r].expired = Oldest(call[r].overflow)

Trimmed ==
    /\ \A r \in Replicas :
          /\ pc[r] \in {"hb_trim", "hb_delete"} =>
                Cardinality(Listed) = Retention + call[r].overflow
          /\ pc[r] = "hb_delete" => ExpiredListed(r)
    /\ \/ Cardinality(Listed) <= Retention
       \/ "trimming" \in overlaps
       \/ \E r \in Replicas : pc[r] \in {"hb_count", "hb_trim", "hb_delete"}

Beats ==
    "loops" \notin overlaps =>
        /\ \A q, r \in Replicas : pc[q] \in Beating /\ pc[r] \in Beating => q = r
        /\ Rising
        /\ \A r \in Replicas : pc[r] = "hb_save" => Arriving(r)
        /\ Trimmed

-----------------------------------------------------------------------------
\* Who is in the middle of a run holds the lease.
Leased == "lease" \notin overlaps => \A r \in Replicas : MidRun(r) => lease = r

\* A probe that is on its way to the snapshot is none of the past, and one whose
\* evaluation still has to observe is no older than one about to be shown.
Carried == \A r \in Replicas : pc[r] \in {"observe", "snapshot"} => call[r].probe <= Len(probes)

Refreshing(r) == pc[r] = "observe" /\ call[r].kind = "refresh"

Shown ==
    "snapshots" \notin overlaps =>
        /\ \A q, r \in Replicas : pc[q] = "snapshot" /\ pc[r] = "snapshot" => q = r
        /\ \A r \in Replicas : pc[r] = "snapshot" \/ Refreshing(r) => snapshot <= call[r].probe
        /\ \A q, r \in Replicas : pc[q] = "snapshot" /\ Refreshing(r) => call[q].probe <= call[r].probe

\* What an evaluation has still to save holds or was active; if it is alone with its
\* copies, what it is done with is as its conditions say.
Settling ==
    \A r \in Replicas : pc[r] = "sync" =>
        /\ \A k \in call[r].todo \ call[r].conditions : call[r].listing[k] \in {"open", "acknowledged"}
        /\ call[r].alone =>
              /\ \A q \in Replicas : pc[q] = "sync" => q = r
              /\ \A t \in Threads : ack[t].step # "save"
              /\ \A k \in Keys \ call[r].todo : Active(k) <=> k \in call[r].conditions

\* Copies of alerts are those that are stored.
Held ==
    "alerts" \notin overlaps =>
        /\ \A r \in Replicas : pc[r] = "sync" =>
              /\ \A q \in Replicas : pc[q] = "sync" => q = r
              /\ \A t \in Threads : ack[t].step # "save"
              /\ \A k \in call[r].todo : call[r].listing[k] = alerts[k]
        /\ \A t \in Threads : ack[t].step = "save" =>
              /\ alerts[ack[t].key] = "open"
              /\ \A u \in Threads : ack[u].step = "save" => u = t

Base == Types /\ Beats /\ Leased /\ Carried /\ Shown /\ Settling /\ Held

-----------------------------------------------------------------------------
(* Local variables.                                                        *)

\* What one loop may do to the local variables of another: c becomes d.
Alike(c, d) ==
    \/ d = c
    \/ /\ c \in Calls /\ d \in Calls
       /\ d.kind = c.kind /\ d.beat = c.beat /\ d.at = c.at /\ d.overflow = c.overflow
       /\ d.expired = c.expired /\ d.copy = c.copy /\ d.probe = c.probe /\ d.conditions = c.conditions
       /\ d.listing = c.listing /\ d.todo = c.todo
       /\ d.alone => c.alone

Others(r) == \A q \in Replicas \ {r} : pc'[q] = pc[q] /\ Alike(call[q], call'[q])

LEMMA AlikeFields ==
    ASSUME NEW c, NEW d, Alike(c, d)
    PROVE  /\ d.kind = c.kind /\ d.beat = c.beat /\ d.at = c.at /\ d.overflow = c.overflow
           /\ d.expired = c.expired /\ d.copy = c.copy /\ d.probe = c.probe /\ d.conditions = c.conditions
           /\ d.listing = c.listing /\ d.todo = c.todo
           /\ d.alone => c.alone
           /\ \A p : Fits(p, c) => Fits(p, d)
<1>1. CASE d = c BY <1>1
<1>2. CASE d # c
  <2>1. d.alone => c.alone BY <1>2, Zenon DEF Alike
  <2> QED BY <1>2, <2>1 DEF Alike, Fits
<1> QED BY <1>1, <1>2

LEMMA NewCalls ==
    ASSUME NEW kind \in {"scheduled", "forced", "refresh"}
    PROVE  NewCall(kind) \in Calls /\ NewCall(kind).kind = kind
BY DEF NewCall, Calls

LEMMA RunningCall ==
    ASSUME NEW kind \in {"scheduled", "forced", "refresh"}, NEW s \in SchedulerStates
    PROVE  LET c == [NewCall(kind) EXCEPT !.copy = s]
           IN c \in Calls /\ c.copy = s /\ c.kind = kind
<1> DEFINE c == NewCall(kind)
<1>1. c \in Calls /\ c.kind = kind BY NewCalls
<1> HIDE DEF c
<1>2. LET d == [c EXCEPT !.copy = s] IN d \in Calls /\ d.copy = s /\ d.kind = kind
      BY <1>1 DEF Calls
<1> QED BY <1>2 DEF c

LEMMA BeatingCall ==
    ASSUME NEW b \in Heartbeats, NEW n \in Nat
    PROVE  LET c == [NewCall("forced") EXCEPT !.beat = b, !.at = n]
           IN c \in Calls /\ c.beat = b /\ c.at = n
<1> DEFINE c == NewCall("forced")
<1>1. c \in Calls BY NewCalls
<1> HIDE DEF c
<1>2. LET d == [c EXCEPT !.beat = b, !.at = n] IN d \in Calls /\ d.beat = b /\ d.at = n
      BY <1>1 DEF Calls
<1> QED BY <1>2 DEF c

LEMMA OtherUpdates ==
    ASSUME NEW c \in Calls, NEW E \in SUBSET Replicas, NEW b \in BOOLEAN
    PROVE  /\ [c EXCEPT !.elders = E] \in Calls /\ Alike(c, [c EXCEPT !.elders = E])
           /\ [c EXCEPT !.overtaken = b] \in Calls /\ Alike(c, [c EXCEPT !.overtaken = b])
           /\ [c EXCEPT !.alone = FALSE] \in Calls /\ Alike(c, [c EXCEPT !.alone = FALSE])
BY DEF Calls, Alike

LEMMA OwnUpdates ==
    ASSUME NEW c \in Calls, NEW n \in Nat
    PROVE  /\ [c EXCEPT !.copy = "none"] \in Calls
           /\ [c EXCEPT !.copy = "none"].kind = c.kind
           /\ [c EXCEPT !.crashed = TRUE] \in Calls
           /\ [c EXCEPT !.crashed = TRUE].kind = c.kind
           /\ [c EXCEPT !.overflow = n] \in Calls
           /\ [c EXCEPT !.overflow = n].overflow = n
BY DEF Calls

LEMMA ExpiredUpdate ==
    ASSUME NEW c \in Calls, NEW E \in SUBSET BeatIds
    PROVE  [c EXCEPT !.expired = E] \in Calls /\ [c EXCEPT !.expired = E].expired = E
           /\ [c EXCEPT !.expired = E].overflow = c.overflow
BY DEF Calls

\* A loop that ends moves itself, and the others forget that they wait for it.
LEMMA EndMoves ==
    ASSUME Types, NEW r \in Replicas, End(r)
    PROVE  /\ pc' = [pc EXCEPT ![r] = "idle"] /\ call'[r] = NoCall /\ Others(r)
           /\ call' \in [Replicas -> Calls \cup {NoCall}]
<1>1. pc' = [pc EXCEPT ![r] = "idle"] BY DEF End, Goto
<1>2. ASSUME NEW q \in Replicas, q # r
      PROVE  Alike(call[q], call'[q]) /\ call'[q] \in Calls \cup {NoCall}
  <2>1. CASE call[q] = NoCall BY <1>2, <2>1 DEF End, Alike
  <2>2. CASE call[q] # NoCall
    <3>1. call[q] \in Calls BY <2>2 DEF Types
    <3>2. call[q].elders \ {r} \in SUBSET Replicas BY <3>1 DEF Calls
    <3>3. call'[q] = [call[q] EXCEPT !.elders = call[q].elders \ {r}]
          BY <1>2, <2>2 DEF End
    <3> QED BY <3>1, <3>2, <3>3, OtherUpdates
  <2> QED BY <2>1, <2>2
<1>3. call'[r] = NoCall BY DEF End
<1>4. call' \in [Replicas -> Calls \cup {NoCall}]
  <2>1. call' = [q \in Replicas |->
                    IF q = r THEN NoCall
                    ELSE IF call[q] = NoCall THEN NoCall
                    ELSE [call[q] EXCEPT !.elders = @ \ {r}]]
        BY DEF End
  <2>2. \A q \in Replicas : call'[q] \in Calls \cup {NoCall} BY <1>2, <1>3
  <2> QED BY <2>1, <2>2
<1> QED BY <1>1, <1>2, <1>3, <1>4 DEF Others, Types

\* A loop that changes only its own local variables.
LEMMA OwnMoves ==
    ASSUME Types, NEW r \in Replicas, NEW p \in LoopStates, NEW c \in Calls,
           pc' = [pc EXCEPT ![r] = p], call' = [call EXCEPT ![r] = c]
    PROVE  /\ call'[r] = c /\ pc'[r] = p /\ Others(r)
           /\ pc' \in [Replicas -> LoopStates]
           /\ call' \in [Replicas -> Calls \cup {NoCall}]
BY DEF Types, Others, Alike

LEMMA AllFit ==
    ASSUME Types, NEW r \in Replicas, Others(r), Fits(pc'[r], call'[r])
    PROVE  \A q \in Replicas : Fits(pc'[q], call'[q])
<1>1. ASSUME NEW q \in Replicas, q # r PROVE Fits(pc'[q], call'[q])
  <2>1. Fits(pc[q], call[q]) BY DEF Types
  <2>2. pc'[q] = pc[q] /\ Alike(call[q], call'[q]) BY <1>1 DEF Others
  <2> QED BY <2>1, <2>2, AlikeFields
<1> QED BY <1>1

LEMMA LessTyped ==
    ASSUME limits \in Limits,
           NEW x \in {"beats", "elapses", "deliveries", "probes", "forced", "acks", "expiries",
                      "deaths", "errors"},
           Less(x)
    PROVE  limits' \in Limits
BY DEF Limits, Less


LEMMA RestTyped ==
    ASSUME Types, UNCHANGED <<beatVars, evidence>>
    PROVE  /\ BeatTypeOK' /\ IsFiniteSet(Listed')
           /\ (alerts \in [Keys -> AlertStates])' /\ (probes \in Seq({"available", "failed"}))'
           /\ (snapshot \in 0..Len(probes))'
           /\ (pending \in [Replicas -> SUBSET (1..Len(probes))])'
BY DEF Types, BeatTypeOK, beatVars, evidence, Listed, Receipts

\* A heartbeat that is accepted, or refused by the store.
LEMMA BeatTypes ==
    ASSUME Types, NEW r \in Replicas, NEW b \in Heartbeats, Heartbeat(r, b)
    PROVE  Types' /\ Others(r)
<1> DEFINE c == [NewCall("forced") EXCEPT !.beat = b, !.at = clock + 1]
<1>1. /\ call' = [call EXCEPT ![r] = c] /\ pc' = [pc EXCEPT ![r] = "hb_save"] /\ Less("beats")
      /\ clock' = clock + 1
      /\ UNCHANGED <<beats, delivered, horizon, peak, evidence, schedule, ack>>
      BY DEF Heartbeat, Goto
<1>2. overlaps' \subseteq overlaps \cup {"loops"} BY DEF Heartbeat, Note
<1>3. c \in Calls /\ c.beat = b
  <2>1. clock + 1 \in Nat BY DEF Types, BeatTypeOK
  <2> QED BY <2>1, BeatingCall
<1> HIDE DEF c
<1>4. call'[r] = c /\ pc'[r] = "hb_save" /\ Others(r) /\ pc' \in [Replicas -> LoopStates]
      /\ call' \in [Replicas -> Calls \cup {NoCall}]
      BY <1>1, <1>3, OwnMoves DEF LoopStates
<1>5. Fits(pc'[r], call'[r]) BY <1>3, <1>4 DEF Fits
<1>6. BeatTypeOK' /\ Listed' = Listed
      BY <1>1, <1>2 DEF Types, BeatTypeOK, Receipts, Listed
<1>7. limits' \in Limits BY <1>1, LessTyped DEF Types
<1> QED BY <1>1, <1>4, <1>5, <1>6, <1>7, AllFit DEF Types, evidence, schedule

LEMMA SaveTypes ==
    ASSUME Types, NEW r \in Replicas, SaveBeat(r)
    PROVE  Types' /\ Others(r) /\ Listed' = Listed \cup {call[r].beat.id}
<1> DEFINE b == call[r].beat
<1>1. /\ pc[r] = "hb_save" /\ StoreBeat(b, call[r].at)
      /\ pc' = [pc EXCEPT ![r] = "hb_count"] /\ call' = call
      /\ UNCHANGED <<delivered, clock, horizon, overlaps, limits, evidence, schedule, call, ack>>
      BY DEF SaveBeat, Goto
<1>2. /\ call[r] \in Calls /\ b \in Heartbeats /\ b.id \in BeatIds /\ b.producer \in Producers
      /\ b.sequence \in Nat /\ call[r].at \in Nat
      BY <1>1, HeartbeatAssumption DEF Types, Fits, Calls
<1>3. pc'[r] = "hb_count" /\ Others(r) /\ pc' \in [Replicas -> LoopStates]
      BY <1>1 DEF Types, Others, Alike, LoopStates
<1>4. Fits(pc'[r], call'[r]) BY <1>1, <1>2, <1>3 DEF Fits
<1>5. beats' \in [BeatIds -> Receipts \cup {NoReceipt}] /\ beats'[b.id] \in Receipts
      /\ \A i \in BeatIds \ {b.id} : beats'[i] = beats[i]
  <2>1. CASE beats[b.id] = NoReceipt
        BY <1>1, <1>2, <2>1 DEF StoreBeat, BeatReceipt, Receipts, Types, BeatTypeOK
  <2>2. CASE beats[b.id] # NoReceipt
    <3>1. beats[b.id] \in Receipts BY <1>2, <2>2 DEF Types, BeatTypeOK
    <3>2. [beats[b.id] EXCEPT !.score = call[r].at] \in Receipts BY <1>2, <3>1 DEF Receipts
    <3> QED BY <1>1, <1>2, <2>2, <3>2 DEF StoreBeat, Types, BeatTypeOK
  <2> QED BY <2>1, <2>2
<1>6. peak' \in [Producers -> Nat]
  <2>1. peak[b.producer] \in Nat BY <1>2 DEF Types, BeatTypeOK
  <2> QED BY <1>1, <1>2, <2>1 DEF StoreBeat, Higher, Types, BeatTypeOK
<1>7. Listed' = Listed \cup {b.id}
  <2>1. \A x \in Receipts : x # NoReceipt BY DEF Receipts, NoReceipt
  <2> QED BY <1>2, <1>5, <2>1 DEF Listed
<1>8. IsFiniteSet(Listed') BY <1>7, FS_AddElement DEF Types
<1>9. BeatTypeOK' BY <1>1, <1>5, <1>6 DEF Types, BeatTypeOK
<1> QED BY <1>1, <1>3, <1>4, <1>7, <1>8, <1>9, AllFit DEF Types, evidence, schedule

\* A loop that goes on to evaluate.
LEMMA RunTypes ==
    ASSUME Types, NEW r \in Replicas, NEW kind \in {"scheduled", "forced"}, RunAgain(r, kind)
    PROVE  /\ pc'[r] = "acquire" /\ call'[r] \in Calls /\ call'[r].kind = kind /\ Others(r)
           /\ Fits(pc'[r], call'[r])
           /\ pc' \in [Replicas -> LoopStates]
           /\ call' \in [Replicas -> Calls \cup {NoCall}]
<1> DEFINE c == [NewCall(kind) EXCEPT !.copy = status]
<1>1. call' = [call EXCEPT ![r] = c] /\ pc' = [pc EXCEPT ![r] = "acquire"]
      BY DEF RunAgain, Goto
<1>2. c \in Calls /\ c.kind = kind /\ c.copy = status BY RunningCall DEF Types
<1> HIDE DEF c
<1>3. call'[r] = c /\ pc'[r] = "acquire" /\ Others(r) /\ pc' \in [Replicas -> LoopStates]
      /\ call' \in [Replicas -> Calls \cup {NoCall}]
      BY <1>1, <1>2, OwnMoves DEF LoopStates
<1> QED BY <1>2, <1>3 DEF Fits, Types

LEMMA TrimTypes ==
    ASSUME Types, NEW r \in Replicas, TrimBeats(r)
    PROVE  Types' /\ Others(r) /\ Listed' \subseteq Listed
<1>1. /\ pc[r] = "hb_delete" /\ RunAgain(r, "forced") /\ Evict(call[r].expired)
      /\ overlaps' = overlaps \ {"trimming"}
      /\ UNCHANGED <<delivered, clock, horizon, peak, limits, evidence, schedule, ack>>
      BY DEF TrimBeats
<1>2. /\ Others(r) /\ Fits(pc'[r], call'[r])
      /\ pc' \in [Replicas -> LoopStates]
      /\ call' \in [Replicas -> Calls \cup {NoCall}]
      BY <1>1, RunTypes
<1>3. beats' \in [BeatIds -> Receipts \cup {NoReceipt}] /\ Listed' \subseteq Listed
      BY <1>1 DEF Evict, Types, BeatTypeOK, Listed
<1>4. IsFiniteSet(Listed') BY <1>3, FS_Subset DEF Types
<1>5. BeatTypeOK' BY <1>1, <1>3 DEF Types, BeatTypeOK
<1> QED BY <1>1, <1>2, <1>3, <1>4, <1>5, AllFit DEF Types, evidence, schedule

\* A step of loop r keeps the types, leaves the others what matters to them, and begins
\* no run but by taking the lease.
Moves(r) ==
    Types' /\ Others(r) /\ (MidRun(r)' => MidRun(r) \/ pc[r] \in {"acquire", "extend"})

\* A loop that ends, whatever else happens to the variables named below.
LEMMA EndTypes ==
    ASSUME Types, NEW r \in Replicas, End(r), UNCHANGED <<beats, delivered, clock, horizon, peak>>,
           UNCHANGED <<alerts, snapshot, probes, ack>>,
           overlaps' \subseteq overlaps \cup {"trimming", "lease"}, limits' \in Limits,
           pending' \in [Replicas -> SUBSET (1..Len(probes))],
           status' \in SchedulerStates, lease' \in Replicas \cup {"none", "lost"},
           task' \in [Replicas -> BOOLEAN]
    PROVE  Moves(r) /\ pc'[r] = "idle"
<1>1. /\ pc' = [pc EXCEPT ![r] = "idle"] /\ call'[r] = NoCall /\ Others(r)
      /\ call' \in [Replicas -> Calls \cup {NoCall}]
      BY EndMoves
<1>2. pc'[r] = "idle" /\ pc' \in [Replicas -> LoopStates] BY <1>1 DEF Types, LoopStates
<1>3. Fits(pc'[r], call'[r]) BY <1>2 DEF Fits
<1>4. ~ MidRun(r)' BY <1>2 DEF MidRun
<1>5. BeatTypeOK' /\ Listed' = Listed BY DEF Types, BeatTypeOK, Receipts, Listed
<1> QED BY <1>1, <1>2, <1>3, <1>4, <1>5, AllFit DEF Types, Moves

\* A loop that goes on by itself, with what it does to the schedule.
LEMMA GoesTypes ==
    ASSUME Types, NEW r \in Replicas, NEW p \in LoopStates, NEW c \in Calls,
           pc' = [pc EXCEPT ![r] = p], call' = [call EXCEPT ![r] = c], Fits(p, c),
           MidRun(r)' => MidRun(r) \/ pc[r] \in {"acquire", "extend"},
           UNCHANGED <<beats, delivered, clock, horizon, peak, alerts, snapshot, probes, ack>>,
           overlaps' \subseteq overlaps \cup {"trimming", "lease", "alerts", "snapshots"},
           limits' \in Limits,
           pending' \in [Replicas -> SUBSET (1..Len(probes))],
           status' \in SchedulerStates, lease' \in Replicas \cup {"none", "lost"},
           task' \in [Replicas -> BOOLEAN]
    PROVE  Moves(r) /\ pc'[r] = p /\ call'[r] = c
<1>1. /\ call'[r] = c /\ pc'[r] = p /\ Others(r)
      /\ pc' \in [Replicas -> LoopStates] /\ call' \in [Replicas -> Calls \cup {NoCall}]
      BY OwnMoves
<1>2. BeatTypeOK' /\ Listed' = Listed BY DEF Types, BeatTypeOK, Receipts, Listed
<1> QED BY <1>1, <1>2, AllFit DEF Types, Moves

LEMMA CountTypes ==
    ASSUME Types, NEW r \in Replicas, CountBeats(r)
    PROVE  Moves(r)
<1>1. pc[r] = "hb_count" /\ UNCHANGED <<beatVars, limits, evidence, schedule, ack>>
      BY DEF CountBeats
<1>2. call[r] \in Calls BY <1>1 DEF Types, Fits
<1>3. CASE Overflow = 0
  <2>1. RunAgain(r, "forced") BY <1>3 DEF CountBeats
  <2>2. /\ pc'[r] = "acquire" /\ Others(r) /\ Fits(pc'[r], call'[r])
        /\ pc' \in [Replicas -> LoopStates] /\ call' \in [Replicas -> Calls \cup {NoCall}]
        BY <2>1, RunTypes
  <2>3. ~ MidRun(r)' BY <2>2 DEF MidRun
  <2>4. BeatTypeOK' /\ Listed' = Listed BY <1>1 DEF Types, BeatTypeOK, Receipts, Listed, beatVars
  <2> QED BY <1>1, <2>2, <2>3, <2>4, AllFit DEF Types, Moves, evidence, schedule
<1>4. CASE Overflow # 0
  <2> DEFINE c == [call[r] EXCEPT !.overflow = Overflow]
  <2>1. Overflow \in Nat
    <3>1. Cardinality(Listed) \in Nat BY FS_CardinalityType DEF Types
    <3> QED BY <3>1, HeartbeatAssumption DEF Overflow
  <2>2. c \in Calls BY <1>2, <2>1, OwnUpdates
  <2>3. pc' = [pc EXCEPT ![r] = "hb_trim"] /\ call' = [call EXCEPT ![r] = c]
        BY <1>4 DEF CountBeats, Goto
  <2> HIDE DEF c
  <2>4. Fits("hb_trim", c) BY <2>2 DEF Fits
  <2>5. ~ MidRun(r)' BY <2>3 DEF MidRun, Types
  <2> QED BY <1>1, <2>2, <2>3, <2>4, <2>5, GoesTypes
          DEF LoopStates, beatVars, evidence, schedule, Types
<1> QED BY <1>3, <1>4

LEMMA ListExpiredTypes ==
    ASSUME Types, NEW r \in Replicas, ListExpired(r)
    PROVE  /\ Moves(r) /\ pc'[r] = "hb_delete"
           /\ call'[r].expired = Oldest(call[r].overflow) /\ call'[r].overflow = call[r].overflow
<1> DEFINE E == Oldest(call[r].overflow)
           c == [call[r] EXCEPT !.expired = E]
<1>1. /\ pc[r] = "hb_trim" /\ pc' = [pc EXCEPT ![r] = "hb_delete"]
      /\ call' = [call EXCEPT ![r] = c]
      /\ UNCHANGED <<beatVars, limits, evidence, schedule, ack>>
      BY DEF ListExpired, Goto
<1>2. call[r] \in Calls BY <1>1 DEF Types, Fits
<1>3. E \in SUBSET BeatIds BY DEF Oldest, Listed
<1>4. c \in Calls /\ c.expired = E /\ c.overflow = call[r].overflow
  <2> HIDE DEF E
  <2> QED BY <1>2, <1>3, ExpiredUpdate
<1> HIDE DEF c
<1>5. Fits("hb_delete", c) BY <1>4 DEF Fits
<1>6. ~ MidRun(r)' BY <1>1 DEF MidRun, Types
<1>7. Moves(r) /\ pc'[r] = "hb_delete" /\ call'[r] = c
      BY <1>1, <1>4, <1>5, <1>6, GoesTypes DEF LoopStates, beatVars, evidence, schedule, Types
<1> QED BY <1>4, <1>7

LEMMA RunsTypes ==
    ASSUME Types, NEW r \in Replicas, ScheduledRun(r) \/ ForcedRun(r)
    PROVE  Moves(r) /\ pc'[r] = "acquire"
<1>1. PICK kind \in {"scheduled", "forced"} : RunAgain(r, kind)
      BY DEF ScheduledRun, ForcedRun
<1>2. UNCHANGED <<beatVars, evidence, schedule, ack>> BY DEF ScheduledRun, ForcedRun
<1>3. limits' \in Limits
  <2>1. CASE ScheduledRun(r) BY <2>1 DEF ScheduledRun, Types
  <2>2. CASE ForcedRun(r) BY <2>2, LessTyped DEF ForcedRun, Types
  <2> QED BY <2>1, <2>2
<1>4. /\ pc'[r] = "acquire" /\ Others(r) /\ Fits(pc'[r], call'[r])
      /\ pc' \in [Replicas -> LoopStates] /\ call' \in [Replicas -> Calls \cup {NoCall}]
      BY <1>1, RunTypes
<1>5. ~ MidRun(r)' BY <1>4 DEF MidRun
<1>6. BeatTypeOK' /\ Listed' = Listed BY <1>2 DEF Types, BeatTypeOK, Receipts, Listed, beatVars
<1> QED BY <1>2, <1>3, <1>4, <1>5, <1>6, AllFit DEF Types, Moves, evidence, schedule

LEMMA AcquireTypes ==
    ASSUME Types, NEW r \in Replicas, Acquire(r)
    PROVE  Moves(r) /\ pc'[r] \in {"begin", "extend", "skip"}
<1>1. pc[r] = "acquire" /\ UNCHANGED <<beatVars, limits, evidence, status, task, ack>>
      BY DEF Acquire
<1>2. call[r] \in Calls /\ call[r].copy \in SchedulerStates /\ call[r].kind # "refresh"
      BY <1>1 DEF Types, Fits
<1>3. CASE lease = "none"
  <2> DEFINE c == [call[r] EXCEPT !.copy = "none"]
  <2>1. c \in Calls /\ c.kind # "refresh" BY <1>2, OwnUpdates, 0 \in Nat
  <2>2. pc' = [pc EXCEPT ![r] = "begin"] /\ call' = [call EXCEPT ![r] = c] /\ lease' = r
        BY <1>3, HealthAssumption DEF Acquire, Goto
  <2> HIDE DEF c
  <2>3. Fits("begin", c) BY <2>1 DEF Fits
  <2> QED BY <1>1, <2>1, <2>2, <2>3, GoesTypes DEF LoopStates, beatVars, evidence, Types
<1>4. CASE lease # "none"
  <2> PICK p \in {"extend", "skip"} : pc' = [pc EXCEPT ![r] = p]
      BY <1>4 DEF Acquire, Goto
  <2>1. call' = [call EXCEPT ![r] = call[r]] /\ lease' = lease BY <1>4 DEF Acquire, Types
  <2>2. Fits(p, call[r]) /\ p \in LoopStates BY <1>2 DEF Fits, LoopStates
  <2>3. MidRun(r)' => MidRun(r) \/ pc[r] \in {"acquire", "extend"} BY <1>1
  <2> QED BY <1>1, <1>2, <2>1, <2>2, <2>3, GoesTypes DEF beatVars, evidence, Types
<1> QED BY <1>3, <1>4

LEMMA ExtendTypes ==
    ASSUME Types, NEW r \in Replicas, Extend(r)
    PROVE  Moves(r) /\ pc'[r] = "begin"
<1>1. /\ pc[r] = "extend"
      /\ UNCHANGED <<beats, delivered, clock, horizon, peak, limits, evidence, schedule, ack>>
      BY DEF Extend
<1>2. overlaps' \subseteq overlaps \cup {"lease"} BY DEF Extend, Note
<1> DEFINE c == [call[r] EXCEPT !.copy = "none"]
<1>3. call[r] \in Calls /\ call[r].kind # "refresh" BY <1>1 DEF Types, Fits
<1>4. c \in Calls /\ c.kind # "refresh" BY <1>3, OwnUpdates, 0 \in Nat
<1>5. pc' = [pc EXCEPT ![r] = "begin"] /\ call' = [call EXCEPT ![r] = c] BY DEF Extend, Goto
<1> HIDE DEF c
<1>6. Fits("begin", c) BY <1>4 DEF Fits
<1> QED BY <1>1, <1>2, <1>4, <1>5, <1>6, GoesTypes
        DEF LoopStates, beatVars, evidence, schedule, Types

LEMMA SkipTypes ==
    ASSUME Types, NEW r \in Replicas, Skip(r) \/ RefuseBeat(r)
    PROVE  Moves(r) /\ pc'[r] = "idle"
<1>1. End(r) /\ UNCHANGED <<beatVars, limits, evidence, lease, task, ack>>
      BY DEF Skip, RefuseBeat, schedule
<1>2. status' \in SchedulerStates
  <2>1. CASE Skip(r) BY <2>1 DEF Skip, SaveStatus, Types, Fits
  <2>2. CASE RefuseBeat(r) BY <2>2 DEF RefuseBeat, schedule, Types
  <2> QED BY <2>1, <2>2
<1> QED BY <1>1, <1>2, EndTypes DEF beatVars, evidence, Types

LEMMA EvaluatingTyped == Evaluating \in SUBSET Replicas
BY DEF Evaluating

LEMMA BeginTypes ==
    ASSUME Types, NEW r \in Replicas, Begin(r)
    PROVE  Moves(r) /\ pc'[r] = "observe" /\ call'[r].kind = call[r].kind /\ call'[r].probe = 0
<1> DEFINE c == [NewCall(call[r].kind) EXCEPT !.probe = 0, !.elders = Evaluating]
<1>1. /\ pc[r] = "begin" /\ UNCHANGED <<beatVars, limits, evidence, lease, task, ack>>
      /\ pc' = [pc EXCEPT ![r] = "observe"] /\ call' = [call EXCEPT ![r] = c]
      /\ status' = "running"
      BY DEF Begin, BeginObserving, Goto, SaveStatus
<1>2. call[r] \in Calls BY <1>1 DEF Types, Fits
<1>3. call[r].kind \in {"scheduled", "forced", "refresh"} BY <1>2 DEF Calls
<1>4. c \in Calls /\ c.probe = 0 /\ c.kind = call[r].kind
      BY <1>3, EvaluatingTyped DEF NewCall, Calls
<1> HIDE DEF c
<1>5. Fits("observe", c) BY <1>4 DEF Fits
<1>6. MidRun(r)' => MidRun(r) BY <1>1, <1>4 DEF MidRun, Types
<1> QED BY <1>1, <1>4, <1>5, <1>6, GoesTypes
        DEF LoopStates, SchedulerStates, beatVars, evidence, Types

LEMMA RefreshTypes ==
    ASSUME Types, NEW r \in Replicas, Refresh(r)
    PROVE  /\ Moves(r) /\ pc'[r] = "observe" /\ call'[r].kind = "refresh"
           /\ call'[r].probe \in 1..Len(probes)
           /\ call'[r].probe < Len(probes) => "snapshots" \in overlaps'
<1>1. /\ pc[r] = "idle"
      /\ UNCHANGED <<beats, delivered, clock, horizon, peak, limits, alerts, snapshot, probes,
                     schedule, ack>>
      BY DEF Refresh
<1>2. PICK n \in pending[r] :
          /\ pending' = [pending EXCEPT ![r] = @ \ {n}]
          /\ BeginObserving(r, "refresh", n)
          /\ Note(IF n < Len(probes) THEN {"snapshots"} ELSE {})
      BY DEF Refresh
<1> DEFINE c == [NewCall("refresh") EXCEPT !.probe = n, !.elders = Evaluating]
<1>3. pc' = [pc EXCEPT ![r] = "observe"] /\ call' = [call EXCEPT ![r] = c]
      BY <1>2 DEF BeginObserving, Goto
<1>4. n \in 1..Len(probes) BY DEF Types
<1>5. c \in Calls /\ c.probe = n /\ c.kind = "refresh"
  <2>1. n \in Nat BY <1>4
  <2> QED BY <2>1, EvaluatingTyped DEF NewCall, Calls
<1> HIDE DEF c
<1>6. Fits("observe", c) BY <1>5 DEF Fits
<1>7. ~ MidRun(r)' BY <1>3, <1>5 DEF MidRun, Types
<1>8. pending' \in [Replicas -> SUBSET (1..Len(probes))] BY <1>2 DEF Types
<1>9. overlaps' \subseteq overlaps \cup {"snapshots"} BY <1>2 DEF Note
<1>10. Moves(r) /\ pc'[r] = "observe" /\ call'[r] = c
       BY <1>1, <1>3, <1>5, <1>6, <1>7, <1>8, <1>9, GoesTypes DEF LoopStates, schedule, Types
<1> QED BY <1>2, <1>4, <1>5, <1>10 DEF Note

LEMMA ConditionsTyped ==
    ASSUME NEW n PROVE Conditions(n) \in SUBSET Keys
<1>1. Freshness(Required) \in {"no_data", "fresh", "stale"} BY DEF Freshness
<1>2. Observations(n) \ {"fresh"} \subseteq {"no_data", "stale", "failed"}
      BY <1>1 DEF Observations
<1> QED BY <1>2 DEF Conditions, KeyOf, Keys

LEMMA ObserveTypes ==
    ASSUME Types, Carried, NEW r \in Replicas, Observe(r)
    PROVE  /\ Moves(r) /\ pc[r] = "observe" /\ pc'[r] = "snapshot"
           /\ call'[r].kind = call[r].kind
           /\ call'[r].probe = IF call[r].kind = "refresh" THEN call[r].probe ELSE snapshot
           /\ Evaluating # {r} => "snapshots" \in overlaps'
<1> DEFINE n == IF call[r].kind = "refresh" THEN call[r].probe ELSE snapshot
           c1 == [call[r] EXCEPT !.probe = n]
           c == [c1 EXCEPT !.conditions = Conditions(n)]
<1>1. /\ pc[r] = "observe" /\ pc' = [pc EXCEPT ![r] = "snapshot"]
      /\ UNCHANGED <<beats, delivered, clock, horizon, peak, limits, evidence, schedule, ack>>
      /\ Note(IF Evaluating # {r} THEN {"snapshots"} ELSE {})
      /\ call' = [call EXCEPT ![r].probe = n, ![r].conditions = Conditions(n)]
      BY DEF Observe, Goto
<1>2. call[r] \in Calls /\ n \in Nat
  <2>1. call[r] \in Calls BY <1>1 DEF Types, Fits
  <2>2. snapshot \in Nat /\ call[r].probe \in Nat BY <2>1 DEF Types, Calls
  <2> QED BY <2>1, <2>2
<1> HIDE DEF n
<1>3. c1 \in Calls /\ c1.probe = n /\ c1.kind = call[r].kind BY <1>2 DEF Calls
<1>4. call' = [call EXCEPT ![r] = c] BY <1>1 DEF Types
<1> HIDE DEF c1
<1>5. c \in Calls /\ c.probe = n /\ c.kind = call[r].kind BY <1>3, ConditionsTyped DEF Calls
<1> HIDE DEF c
<1>6. Fits("snapshot", c) BY <1>5 DEF Fits
<1>7. MidRun(r)' => MidRun(r) BY <1>1, <1>4, <1>5 DEF MidRun, Types
<1>8. overlaps' \subseteq overlaps \cup {"snapshots"} BY <1>1 DEF Note
<1>9. Moves(r) /\ pc'[r] = "snapshot" /\ call'[r] = c
      BY <1>1, <1>4, <1>5, <1>6, <1>7, <1>8, GoesTypes DEF LoopStates, schedule, evidence, Types
<1>10. Evaluating # {r} => "snapshots" \in overlaps' BY <1>1 DEF Note
<1> QED BY <1>1, <1>5, <1>9, <1>10 DEF n

LEMMA SnapshotTypes ==
    ASSUME Types, Carried, NEW r \in Replicas, SaveSnapshot(r)
    PROVE  /\ Moves(r) /\ pc[r] = "snapshot" /\ pc'[r] = "list"
           /\ snapshot' \in {snapshot, call[r].probe}
<1>1. /\ pc[r] = "snapshot" /\ pc' = [pc EXCEPT ![r] = "list"]
      /\ snapshot' = IF call[r].overtaken THEN snapshot ELSE call[r].probe
      /\ UNCHANGED <<beatVars, limits, alerts, probes, pending, schedule, ack>>
      BY DEF SaveSnapshot, IndexSnapshot, Goto
<1>2. call[r] \in Calls BY <1>1 DEF Types, Fits
<1>3. \A q \in Replicas : q # r =>
          /\ call'[q] \in Calls \cup {NoCall} /\ Alike(call[q], call'[q])
  <2> SUFFICES ASSUME NEW q \in Replicas, q # r
               PROVE  call'[q] \in Calls \cup {NoCall} /\ Alike(call[q], call'[q])
      OBVIOUS
  <2> DEFINE b == pc[q] \in {"observe", "snapshot"}
  <2>1. CASE q \notin call[r].elders
        BY <2>1 DEF SaveSnapshot, Types, Alike
  <2>2. CASE q \in call[r].elders
    <3>1. call'[q] = [call[q] EXCEPT !.overtaken = b] BY <2>2 DEF SaveSnapshot
    <3>2. CASE call[q] = NoCall
      <4>1. call'[q] = NoCall BY <3>1, <3>2 DEF NoCall
      <4> QED BY <3>2, <4>1 DEF Alike
    <3>3. CASE call[q] # NoCall
      <4>1. call[q] \in Calls BY <3>3 DEF Types
      <4>2. b \in BOOLEAN OBVIOUS
      <4> QED BY <3>1, <4>1, <4>2, OtherUpdates
    <3> QED BY <3>2, <3>3
  <2> QED BY <2>1, <2>2
<1>4. call'[r] \in Calls /\ call'[r].kind = call[r].kind
  <2> DEFINE c1 == [call[r] EXCEPT !.elders = {}]
             c2 == [c1 EXCEPT !.overtaken = FALSE]
             c3 == [c2 EXCEPT !.probe = 0]
  <2>1. call'[r] = c3 BY DEF SaveSnapshot
  <2>2. c1 \in Calls /\ c1.kind = call[r].kind BY <1>2 DEF Calls
  <2> HIDE DEF c1
  <2>3. c2 \in Calls /\ c2.kind = call[r].kind BY <2>2 DEF Calls
  <2> HIDE DEF c2
  <2>4. c3 \in Calls /\ c3.kind = call[r].kind BY <2>3 DEF Calls
  <2> QED BY <2>1, <2>4
<1>5. call' \in [Replicas -> Calls \cup {NoCall}]
  <2>1. \A q \in Replicas : call'[q] \in Calls \cup {NoCall} BY <1>3, <1>4
  <2>2. call' = [q \in Replicas |->
                    IF q = r THEN [call[r] EXCEPT !.elders = {}, !.overtaken = FALSE, !.probe = 0]
                    ELSE IF q \in call[r].elders
                         THEN [call[q] EXCEPT !.overtaken = pc[q] \in {"observe", "snapshot"}]
                         ELSE call[q]]
        BY DEF SaveSnapshot
  <2> QED BY <2>1, <2>2
<1>6. Others(r) BY <1>1, <1>3 DEF Others, Types
<1>7. pc'[r] = "list" /\ pc' \in [Replicas -> LoopStates] BY <1>1 DEF Types, LoopStates
<1>8. Fits(pc'[r], call'[r]) BY <1>4, <1>7 DEF Fits
<1>9. MidRun(r)' => MidRun(r) BY <1>1, <1>4, <1>7 DEF MidRun
<1>10. BeatTypeOK' /\ Listed' = Listed BY <1>1 DEF Types, BeatTypeOK, Receipts, Listed, beatVars
<1>11. snapshot' \in 0..Len(probes) /\ snapshot' \in {snapshot, call[r].probe}
  <2>1. call[r].probe \in Nat /\ call[r].probe <= Len(probes) BY <1>1, <1>2 DEF Carried, Calls
  <2>2. Len(probes) \in Nat BY LenProperties DEF Types
  <2> QED BY <1>1, <2>1, <2>2 DEF Types
<1> QED BY <1>1, <1>5, <1>6, <1>7, <1>8, <1>9, <1>10, <1>11, AllFit
        DEF Types, Moves, beatVars, schedule

\* ListAlerts makes of the alerts the copy of the evaluation, and ends the loneliness
\* of the others.
LEMMA ListTypes ==
    ASSUME Types, NEW r \in Replicas, ListAlerts(r)
    PROVE  /\ Moves(r) /\ pc[r] = "list" /\ pc'[r] = "sync"
           /\ call'[r].listing = alerts /\ call'[r].conditions = call[r].conditions
           /\ call'[r].todo = call[r].conditions \cup {k \in Keys : Active(k)}
           /\ call'[r].alone => Holders = {}
           /\ \A q \in Replicas \ {r} : pc[q] = "sync" => ~ call'[q].alone
           /\ Holders # {} => "alerts" \in overlaps'
<1> DEFINE todo == call[r].conditions \cup {k \in Keys : Active(k)}
           alone == (Holders = {})
           c1 == [call[r] EXCEPT !.listing = alerts]
           c2 == [c1 EXCEPT !.alone = alone]
           c3 == [c2 EXCEPT !.todo = todo]
<1>1. /\ pc[r] = "list" /\ pc' = [pc EXCEPT ![r] = "sync"]
      /\ UNCHANGED <<beats, delivered, clock, horizon, peak, limits, evidence, schedule, ack>>
      /\ Note(IF Holders # {} THEN {"alerts"} ELSE {})
      BY DEF ListAlerts, Goto
<1>2. call' = [q \in Replicas |->
                  IF q = r
                  THEN [call[q] EXCEPT !.listing = alerts, !.alone = (Holders = {}),
                                       !.todo = call[r].conditions \cup {k \in Keys : Active(k)}]
                  ELSE IF pc[q] = "sync" THEN [call[q] EXCEPT !.alone = FALSE] ELSE call[q]]
      BY DEF ListAlerts
<1>3. call[r] \in Calls BY <1>1 DEF Types, Fits
<1>4. alone \in BOOLEAN OBVIOUS
<1>5. todo \in SUBSET Keys BY <1>3 DEF Calls
<1>6. call'[r] = c3 BY <1>2
<1> HIDE DEF todo, alone
<1>7. c1 \in Calls /\ c1.listing = alerts /\ c1.conditions = call[r].conditions
      BY <1>3 DEF Calls, Types
<1> HIDE DEF c1
<1>8. c2 \in Calls /\ c2.listing = alerts /\ c2.conditions = call[r].conditions
      BY <1>4, <1>7 DEF Calls
<1>9. c2.alone = alone BY <1>7, Zenon DEF Calls
<1> HIDE DEF c2
<1>10. /\ c3 \in Calls /\ c3.listing = alerts /\ c3.conditions = call[r].conditions
       /\ c3.todo = todo
       BY <1>5, <1>8 DEF Calls
<1>11. c3.alone => alone BY <1>8, <1>9 DEF Calls
<1> HIDE DEF c3
<1>12. \A q \in Replicas : q # r =>
          /\ call'[q] \in Calls \cup {NoCall} /\ Alike(call[q], call'[q])
          /\ pc[q] = "sync" => ~ call'[q].alone
  <2> SUFFICES ASSUME NEW q \in Replicas, q # r
               PROVE  /\ call'[q] \in Calls \cup {NoCall} /\ Alike(call[q], call'[q])
                      /\ pc[q] = "sync" => ~ call'[q].alone
      OBVIOUS
  <2>1. CASE pc[q] # "sync" BY <1>2, <2>1 DEF Types, Alike
  <2>2. CASE pc[q] = "sync"
    <3>1. call[q] \in Calls BY <2>2 DEF Types, Fits
    <3>2. call'[q] = [call[q] EXCEPT !.alone = FALSE] BY <1>2, <2>2
    <3>3. call'[q] \in Calls /\ Alike(call[q], call'[q]) BY <3>1, <3>2, OtherUpdates
    <3>4. call'[q].alone = FALSE BY <3>1, <3>2 DEF Calls
    <3> QED BY <3>3, <3>4
  <2> QED BY <2>1, <2>2
<1>13. call' \in [Replicas -> Calls \cup {NoCall}]
  <2>1. \A q \in Replicas : call'[q] \in Calls \cup {NoCall} BY <1>6, <1>10, <1>12
  <2> QED BY <1>2, <2>1
<1>14. Others(r) BY <1>1, <1>12 DEF Others, Types
<1>15. pc'[r] = "sync" /\ pc' \in [Replicas -> LoopStates] BY <1>1 DEF Types, LoopStates
<1>16. Fits(pc'[r], call'[r]) BY <1>6, <1>10, <1>15 DEF Fits, Types
<1>17. MidRun(r)' => MidRun(r)
  <2>1. c3.kind = call[r].kind BY <1>3 DEF Calls, c1, c2, c3
  <2> QED BY <1>1, <1>6, <1>15, <2>1 DEF MidRun
<1>18. BeatTypeOK' /\ Listed' = Listed
       BY <1>1 DEF Types, BeatTypeOK, Receipts, Listed, Note
<1>19. Moves(r) BY <1>1, <1>13, <1>14, <1>15, <1>16, <1>17, <1>18, AllFit
       DEF Types, Moves, evidence, schedule
<1>20. Holders # {} => "alerts" \in overlaps' BY <1>1 DEF Note
<1> QED BY <1>1, <1>6, <1>10, <1>11, <1>12, <1>15, <1>19, <1>20 DEF todo, alone

LEMMA SyncTypes ==
    ASSUME Types, NEW r \in Replicas, SyncAlert(r)
    PROVE  /\ Moves(r) /\ pc[r] = "sync" /\ pc' = pc
           /\ \E k \in call[r].todo :
                 /\ k \notin call[r].conditions => call[r].todo \cap call[r].conditions = {}
                 /\ alerts' = [alerts EXCEPT
                                 ![k] = Synced(call[r].listing[k], k \in call[r].conditions)]
                 /\ call'[r] = [call[r] EXCEPT !.todo = call[r].todo \ {k}]
                 /\ call'[r].todo = call[r].todo \ {k}
           /\ call'[r].alone => call[r].alone
           /\ call'[r].listing = call[r].listing /\ call'[r].conditions = call[r].conditions
<1>1. /\ pc[r] = "sync"
      /\ UNCHANGED <<beatVars, limits, snapshot, probes, pending, schedule, pc, ack>>
      BY DEF SyncAlert
<1>2. PICK k \in call[r].todo :
          /\ k \notin call[r].conditions => call[r].todo \cap call[r].conditions = {}
          /\ alerts' = [alerts EXCEPT ![k] = Synced(call[r].listing[k], k \in call[r].conditions)]
          /\ call' = [call EXCEPT ![r].todo = @ \ {k}]
      BY DEF SyncAlert
<1> DEFINE c == [call[r] EXCEPT !.todo = call[r].todo \ {k}]
<1>3. call[r] \in Calls /\ call[r].listing \in [Keys -> AlertStates] BY <1>1 DEF Types, Fits
<1>4. k \in Keys BY <1>3 DEF Calls
<1>5. /\ c \in Calls /\ c.kind = call[r].kind /\ c.listing = call[r].listing
      /\ c.conditions = call[r].conditions /\ c.todo = call[r].todo \ {k}
      BY <1>3 DEF Calls
<1>6. c.alone = call[r].alone BY <1>3, Zenon DEF Calls
<1>7. call' = [call EXCEPT ![r] = c] BY <1>2 DEF Types
<1>8. pc' = [pc EXCEPT ![r] = "sync"] BY <1>1 DEF Types
<1>9. call'[r] = c BY <1>7 DEF Types
<1> HIDE DEF c
<1>10. /\ pc'[r] = "sync" /\ Others(r) /\ pc' \in [Replicas -> LoopStates]
       /\ call' \in [Replicas -> Calls \cup {NoCall}]
       BY <1>5, <1>7, <1>8, OwnMoves DEF LoopStates
<1>11. Fits(pc'[r], call'[r]) BY <1>3, <1>5, <1>9, <1>10 DEF Fits
<1>12. MidRun(r)' => MidRun(r) BY <1>1, <1>5, <1>9 DEF MidRun
<1>13. BeatTypeOK' /\ Listed' = Listed BY <1>1 DEF Types, BeatTypeOK, Receipts, Listed, beatVars
<1>14. alerts' \in [Keys -> AlertStates]
  <2>1. call[r].listing[k] \in AlertStates BY <1>3, <1>4
  <2>2. Synced(call[r].listing[k], k \in call[r].conditions) \in AlertStates
        BY <2>1 DEF Synced, AlertStates
  <2> QED BY <1>2, <2>2 DEF Types
<1>15. Moves(r) BY <1>1, <1>10, <1>11, <1>12, <1>13, <1>14, AllFit
       DEF Types, Moves, beatVars, schedule
<1>16. \E j \in call[r].todo :
          /\ j \notin call[r].conditions => call[r].todo \cap call[r].conditions = {}
          /\ alerts' = [alerts EXCEPT ![j] = Synced(call[r].listing[j], j \in call[r].conditions)]
          /\ call'[r] = [call[r] EXCEPT !.todo = call[r].todo \ {j}]
          /\ call'[r].todo = call[r].todo \ {j}
       BY <1>2, <1>5, <1>9 DEF c
<1> QED BY <1>1, <1>5, <1>6, <1>9, <1>15, <1>16

-----------------------------------------------------------------------------
(* Steps that touch neither a receipt, a probe, an alert nor a copy of one. *)

Untrimmed(r) ==
    pc[r] \in {"hb_count", "hb_trim", "hb_delete"} =>
        Cardinality(Listed) <= Retention \/ "trimming" \in overlaps'

LeaseKept(r) ==
    \/ "lease" \in overlaps'
    \/ /\ lease' = lease \/ lease \in {"none", r}
       /\ MidRun(r)' => lease' = r \/ (MidRun(r) /\ lease' = lease)

Onward(r) ==
    /\ Moves(r) /\ pc'[r] \notin Beating \cup {"observe", "snapshot", "sync"}
    /\ UNCHANGED <<beats, peak, clock, alerts, snapshot, probes, ack>>
    /\ overlaps \subseteq overlaps'
    /\ LeaseKept(r) /\ Untrimmed(r)

LEMMA CountOnward ==
    ASSUME Types, NEW r \in Replicas, CountBeats(r), Overflow = 0
    PROVE  Onward(r)
<1>1. Moves(r) BY CountTypes
<1>2. UNCHANGED <<beatVars, limits, evidence, schedule, ack>> /\ RunAgain(r, "forced")
      BY DEF CountBeats
<1>3. pc'[r] = "acquire" BY <1>2, RunTypes
<1>4. Cardinality(Listed) <= Retention
  <2>1. Cardinality(Listed) \in Nat BY FS_CardinalityType DEF Types
  <2> QED BY <2>1, HeartbeatAssumption DEF Overflow
<1>5. LeaseKept(r) BY <1>2, <1>3 DEF LeaseKept, MidRun, schedule
<1> QED BY <1>1, <1>2, <1>3, <1>4, <1>5 DEF Onward, Untrimmed, Beating, beatVars, evidence

LEMMA StartOnward ==
    ASSUME Types, NEW r \in Replicas, ScheduledRun(r) \/ ForcedRun(r)
    PROVE  Onward(r)
<1>1. Moves(r) /\ pc'[r] = "acquire" BY RunsTypes
<1>2. UNCHANGED <<beatVars, evidence, schedule, ack>> /\ pc[r] = "idle"
      BY DEF ScheduledRun, ForcedRun
<1>3. LeaseKept(r) BY <1>1, <1>2 DEF LeaseKept, MidRun, schedule
<1> QED BY <1>1, <1>2, <1>3 DEF Onward, Untrimmed, Beating, beatVars, evidence

LEMMA AcquireOnward ==
    ASSUME Types, NEW r \in Replicas, Acquire(r)
    PROVE  Onward(r)
<1>1. Moves(r) /\ pc'[r] \in {"begin", "extend", "skip"} BY AcquireTypes
<1>2. UNCHANGED <<beatVars, evidence, ack>> /\ pc[r] = "acquire" BY DEF Acquire
<1>3. LeaseKept(r)
  <2>1. CASE lease = "none"
    <3>1. lease' = r BY <2>1, HealthAssumption DEF Acquire
    <3> QED BY <2>1, <3>1 DEF LeaseKept
  <2>2. CASE lease # "none"
    <3>1. pc'[r] \in {"extend", "skip"} /\ lease' = lease BY <2>2 DEF Acquire, Goto, Types
    <3> QED BY <3>1 DEF LeaseKept, MidRun
  <2> QED BY <2>1, <2>2
<1> QED BY <1>1, <1>2, <1>3 DEF Onward, Untrimmed, Beating, beatVars, evidence

LEMMA ExtendOnward ==
    ASSUME Types, NEW r \in Replicas, Extend(r)
    PROVE  Onward(r)
<1>1. Moves(r) /\ pc'[r] = "begin" BY ExtendTypes
<1>2. /\ pc[r] = "extend" /\ UNCHANGED <<beats, peak, clock, evidence, ack>> /\ lease' = lease
      /\ overlaps' = overlaps \cup (IF lease # r THEN {"lease"} ELSE {})
      BY DEF Extend, schedule, Note
<1>3. LeaseKept(r) BY <1>2 DEF LeaseKept
<1> QED BY <1>1, <1>2, <1>3 DEF Onward, Untrimmed, Beating, evidence

LEMMA SkipOnward ==
    ASSUME Types, NEW r \in Replicas, Skip(r) \/ RefuseBeat(r)
    PROVE  Onward(r)
<1>1. Moves(r) /\ pc'[r] = "idle" BY SkipTypes
<1>2. UNCHANGED <<beatVars, evidence, lease, ack>> /\ pc[r] \in {"skip", "hb_save"}
      BY DEF Skip, RefuseBeat, schedule
<1>3. LeaseKept(r) BY <1>1, <1>2 DEF LeaseKept, MidRun
<1> QED BY <1>1, <1>2, <1>3 DEF Onward, Untrimmed, Beating, beatVars, evidence

LEMMA DoneOnward ==
    ASSUME Types, NEW r \in Replicas, SyncDone(r)
    PROVE  Onward(r)
<1>1. pc[r] = "sync" /\ UNCHANGED <<beatVars, limits, evidence, schedule, ack>>
      BY DEF SyncDone
<1>2. call[r] \in Calls /\ call[r].kind \in {"scheduled", "forced", "refresh"}
      BY <1>1 DEF Types, Fits, Calls
<1>3. CASE End(r)
  <2>1. Moves(r) /\ pc'[r] = "idle"
        BY <1>1, <1>3, EndTypes DEF beatVars, evidence, schedule, Types
  <2>2. LeaseKept(r) BY <1>1, <2>1 DEF LeaseKept, MidRun, schedule
  <2> QED BY <1>1, <2>1, <2>2 DEF Onward, Untrimmed, Beating, beatVars, evidence
<1>4. CASE /\ Goto(r, "finish") /\ call' = [call EXCEPT ![r] = NewCall(call[r].kind)]
           /\ call[r].kind # "refresh"
  <2> DEFINE c == NewCall(call[r].kind)
  <2>1. c \in Calls /\ c.kind = call[r].kind BY <1>2, NewCalls
  <2>2. pc' = [pc EXCEPT ![r] = "finish"] /\ call' = [call EXCEPT ![r] = c]
        BY <1>4 DEF Goto
  <2> HIDE DEF c
  <2>3. Fits("finish", c) BY <2>1 DEF Fits
  <2>4. MidRun(r) BY <1>1, <1>4 DEF MidRun
  <2>5. Moves(r) /\ pc'[r] = "finish"
        BY <1>1, <2>1, <2>2, <2>3, <2>4, GoesTypes DEF LoopStates, beatVars, evidence, schedule, Types
  <2>6. LeaseKept(r) BY <1>1, <2>4 DEF LeaseKept, schedule
  <2> QED BY <1>1, <2>5, <2>6 DEF Onward, Untrimmed, Beating, beatVars, evidence
<1> QED BY <1>3, <1>4 DEF SyncDone

LEMMA FinishOnward ==
    ASSUME Types, NEW r \in Replicas, Finish(r)
    PROVE  Onward(r)
<1>1. /\ pc[r] \in {"finish", "failing"} /\ pc' = [pc EXCEPT ![r] = "release"]
      /\ UNCHANGED <<beatVars, limits, evidence, lease, task, call, ack>>
      /\ status' \in {"succeeded", "failed"}
      BY DEF Finish, SaveStatus, Goto
<1>2. call[r] \in Calls /\ call' = [call EXCEPT ![r] = call[r]] BY <1>1 DEF Types, Fits
<1>3. Fits("release", call[r]) BY <1>2 DEF Fits
<1>4. MidRun(r)' => MidRun(r) BY <1>1 DEF MidRun
<1>5. Moves(r) /\ pc'[r] = "release"
      BY <1>1, <1>2, <1>3, <1>4, GoesTypes
      DEF LoopStates, SchedulerStates, beatVars, evidence, Types
<1>6. LeaseKept(r) BY <1>1, <1>4 DEF LeaseKept
<1> QED BY <1>1, <1>5, <1>6 DEF Onward, Untrimmed, Beating, beatVars, evidence

LEMMA ReleaseOnward ==
    ASSUME Types, NEW r \in Replicas, Release(r) \/ DeleteLease(r)
    PROVE  Onward(r)
<1>1. /\ pc[r] \in {"release", "delete"}
      /\ UNCHANGED <<beats, delivered, clock, horizon, peak, limits, evidence, status, ack>>
      BY DEF Release, DeleteLease, beatVars
<1>2. CASE /\ Leave(r) /\ overlaps' \in {overlaps, overlaps \cup {"lease"}}
           /\ \/ lease' = lease
              \/ lease' = "none" /\ (lease = r \/ "lease" \in overlaps')
  <2>1. End(r) /\ task' \in [Replicas -> BOOLEAN] BY <1>2 DEF Leave, Types
  <2>2. Moves(r) /\ pc'[r] = "idle"
        BY <1>1, <1>2, <2>1, EndTypes DEF evidence, Types
  <2>3. LeaseKept(r) BY <1>2, <2>2 DEF LeaseKept, MidRun
  <2> QED BY <1>1, <1>2, <2>2, <2>3 DEF Onward, Untrimmed, Beating, evidence
<1>3. CASE Goto(r, "delete") /\ UNCHANGED <<call, task, lease, overlaps>> /\ lease = r
  <2>1. call[r] \in Calls /\ call' = [call EXCEPT ![r] = call[r]] BY <1>1, <1>3 DEF Types, Fits
  <2>2. Fits("delete", call[r]) BY <2>1 DEF Fits
  <2>3. MidRun(r)' => MidRun(r) BY <1>1, <1>3 DEF MidRun
  <2>4. pc' = [pc EXCEPT ![r] = "delete"] BY <1>3 DEF Goto
  <2>5. Moves(r) /\ pc'[r] = "delete"
        BY <1>1, <1>3, <2>1, <2>2, <2>3, <2>4, GoesTypes DEF LoopStates, evidence, Types
  <2>6. LeaseKept(r) BY <1>3, <2>3 DEF LeaseKept
  <2> QED BY <1>1, <1>3, <2>5, <2>6 DEF Onward, Untrimmed, Beating, evidence
<1>4. CASE Release(r)
  <2>1. lease' = lease /\ overlaps' = overlaps BY <1>4 DEF Release, beatVars
  <2> QED BY <1>2, <1>3, <1>4, <2>1 DEF Release
<1>5. CASE DeleteLease(r)
  <2>1. lease' = "none" /\ Leave(r) /\ overlaps' = overlaps \cup (IF lease # r THEN {"lease"} ELSE {})
        BY <1>5 DEF DeleteLease, Note
  <2> QED BY <1>2, <2>1
<1> QED BY <1>4, <1>5

LEMMA UntrimmedAfter ==
    ASSUME Types, NEW r \in Replicas, LeavesUntrimmed(r)
    PROVE  /\ Untrimmed(r) /\ overlaps \subseteq overlaps'
           /\ overlaps' \subseteq overlaps \cup {"trimming"}
<1>1. Cardinality(Listed) \in Nat BY FS_CardinalityType DEF Types
<1>2. Cardinality(Listed) <= Retention \/ Overflow > 0
      BY <1>1, HeartbeatAssumption DEF Overflow
<1> QED BY <1>2 DEF LeavesUntrimmed, Note, Untrimmed

LEMMA ErrorOnward ==
    ASSUME Types, NEW r \in Replicas, StoreError(r)
    PROVE  Onward(r)
<1>1. /\ pc[r] # "idle" /\ Less("errors")
      /\ UNCHANGED <<beats, delivered, clock, horizon, peak, evidence, status, lease, ack>>
      BY DEF StoreError
<1>2. /\ Untrimmed(r) /\ overlaps \subseteq overlaps'
      /\ overlaps' \subseteq overlaps \cup {"trimming"}
      BY UntrimmedAfter DEF StoreError
<1>3. limits' \in Limits BY <1>1, LessTyped DEF Types
<1>4. call[r] \in Calls BY <1>1 DEF Types, Fits
<1>5. CASE End(r) /\ task' = [task EXCEPT ![r] = @ /\ call[r].kind # "scheduled"]
  <2>1. task' \in [Replicas -> BOOLEAN] BY <1>5 DEF Types
  <2>2. Moves(r) /\ pc'[r] = "idle"
        BY <1>1, <1>2, <1>3, <1>5, <2>1, EndTypes DEF evidence, Types
  <2>3. LeaseKept(r) BY <1>1, <2>2 DEF LeaseKept, MidRun
  <2> QED BY <1>1, <1>2, <2>2, <2>3 DEF Onward, Beating, evidence
<1>6. ASSUME NEW p \in {"failing", "release"}, NEW c \in Calls, c.kind = call[r].kind,
             pc' = [pc EXCEPT ![r] = p], call' = [call EXCEPT ![r] = c], task' = task,
             pc[r] \in {"observe", "snapshot", "list", "sync", "finish", "failing"}
      PROVE  Onward(r)
  <2>1. Fits(p, c) BY <1>6 DEF Fits
  <2>2. MidRun(r)' => MidRun(r) BY <1>6 DEF MidRun, Types
  <2> p \in LoopStates BY DEF LoopStates
  <2> /\ status' \in SchedulerStates /\ lease' \in Replicas \cup {"none", "lost"}
      /\ task' \in [Replicas -> BOOLEAN]
      /\ pending' \in [Replicas -> SUBSET (1..Len(probes))]
      BY <1>1, <1>6 DEF evidence, Types
  <2> UNCHANGED <<beats, delivered, clock, horizon, peak, alerts, snapshot, probes, ack>>
      BY <1>1 DEF evidence
  <2>3. Moves(r) /\ pc'[r] = p BY <1>2, <1>3, <1>6, <2>1, <2>2, GoesTypes
  <2>4. LeaseKept(r) BY <1>1, <2>2 DEF LeaseKept
  <2> QED BY <1>1, <1>2, <2>3, <2>4 DEF Onward, Beating, evidence
<1>7. CASE /\ pc[r] \in {"observe", "snapshot", "list", "sync", "finish"}
           /\ Goto(r, "failing") /\ UNCHANGED <<call, task>>
  <2>1. call' = [call EXCEPT ![r] = call[r]] BY <1>7 DEF Types
  <2> QED BY <1>4, <1>6, <1>7, <2>1 DEF Goto
<1>8. CASE /\ pc[r] = "failing"
           /\ Goto(r, "release") /\ call' = [call EXCEPT ![r].crashed = TRUE] /\ UNCHANGED task
  <2> DEFINE c == [call[r] EXCEPT !.crashed = TRUE]
  <2>1. c \in Calls /\ c.kind = call[r].kind BY <1>4, OwnUpdates, 0 \in Nat
  <2>2. call' = [call EXCEPT ![r] = c] BY <1>8
  <2> HIDE DEF c
  <2> QED BY <1>6, <1>8, <2>1, <2>2 DEF Goto
<1> QED BY <1>5, <1>7, <1>8 DEF StoreError

LEMMA DiesOnward ==
    ASSUME Types, NEW r \in Replicas, ReplicaDies(r)
    PROVE  Onward(r)
<1>1. /\ Less("deaths") /\ End(r)
      /\ pending' = [pending EXCEPT ![r] = {}]
      /\ lease' = IF lease = r THEN "lost" ELSE lease
      /\ task' = [task EXCEPT ![r] = limits.enabled]
      /\ UNCHANGED <<beats, delivered, clock, horizon, peak, alerts, snapshot, probes, status, ack>>
      BY DEF ReplicaDies
<1>2. /\ Untrimmed(r) /\ overlaps \subseteq overlaps'
      /\ overlaps' \subseteq overlaps \cup {"trimming"}
      BY UntrimmedAfter DEF ReplicaDies
<1>3. limits' \in Limits BY <1>1, LessTyped DEF Types
<1>4. task' \in [Replicas -> BOOLEAN] BY <1>1 DEF Types, Limits
<1>5. pending' \in [Replicas -> SUBSET (1..Len(probes))] BY <1>1 DEF Types
<1>6. Moves(r) /\ pc'[r] = "idle"
      BY <1>1, <1>2, <1>3, <1>4, <1>5, EndTypes DEF Types
<1>7. LeaseKept(r) BY <1>1, <1>6 DEF LeaseKept, MidRun
<1> QED BY <1>1, <1>2, <1>6, <1>7 DEF Onward, Beating

-----------------------------------------------------------------------------
(* What keeps each part of the invariant, for the loops M that move.       *)

OnlyMoves(M) == \A q \in Replicas \ M : pc'[q] = pc[q] /\ Alike(call[q], call'[q])

LEMMA OthersStay ==
    ASSUME NEW M, OnlyMoves(M), NEW q \in Replicas, q \notin M
    PROVE  /\ pc'[q] = pc[q] /\ Alike(call[q], call'[q])
           /\ call'[q].kind = call[q].kind /\ call'[q].beat = call[q].beat
           /\ call'[q].at = call[q].at /\ call'[q].overflow = call[q].overflow
           /\ call'[q].expired = call[q].expired
           /\ call'[q].probe = call[q].probe /\ call'[q].conditions = call[q].conditions
           /\ call'[q].listing = call[q].listing /\ call'[q].todo = call[q].todo
           /\ call'[q].alone => call[q].alone
<1>1. pc'[q] = pc[q] /\ Alike(call[q], call'[q]) BY DEF OnlyMoves
<1> QED BY <1>1, AlikeFields

LEMMA ExpiredStay ==
    ASSUME NEW r \in Replicas, beats' = beats, call'[r].overflow = call[r].overflow,
           call'[r].expired = Oldest(call[r].overflow)
    PROVE  ExpiredListed(r)'
<1> SUFFICES call'[r].expired =
                 {b \in Listed' : Cardinality({c \in Listed' : beats'[c].score < beats'[b].score})
                                    < call'[r].overflow}
    BY DEF ExpiredListed, Oldest
<1>1. Listed' = Listed BY DEF Listed
<1> QED BY <1>1 DEF Oldest

LEMMA BeatsStay ==
    ASSUME Types, Types', Beats, NEW M, OnlyMoves(M), UNCHANGED <<beats, peak>>, clock' >= clock,
           "loops" \in overlaps => "loops" \in overlaps',
           "trimming" \in overlaps => "trimming" \in overlaps',
           \A r \in M : pc'[r] \notin Beating /\ Untrimmed(r)
    PROVE  Beats'
<1> SUFFICES ASSUME "loops" \notin overlaps'
             PROVE  /\ \A q, r \in Replicas : pc'[q] \in Beating /\ pc'[r] \in Beating => q = r
                    /\ Rising'
                    /\ \A r \in Replicas : pc'[r] = "hb_save" => Arriving(r)'
                    /\ Trimmed'
    BY DEF Beats
<1>1. /\ \A q, r \in Replicas : pc[q] \in Beating /\ pc[r] \in Beating => q = r
      /\ Rising /\ Trimmed
      /\ \A r \in Replicas : pc[r] = "hb_save" => Arriving(r)
      BY DEF Beats
<1>2. \A q \in Replicas : pc'[q] \in Beating =>
          /\ pc'[q] = pc[q] /\ call'[q].beat = call[q].beat
          /\ call'[q].at = call[q].at /\ call'[q].overflow = call[q].overflow
          /\ call'[q].expired = call[q].expired
      BY OthersStay
<1>3. Listed' = Listed /\ \A p : ListedOf(p)' = ListedOf(p) BY DEF Listed, ListedOf
<1>4. clock \in Nat /\ clock' \in Nat /\ beats \in [BeatIds -> Receipts \cup {NoReceipt}]
      BY DEF Types, BeatTypeOK
<1>5. Rising'
  <2>1. ASSUME NEW b \in Listed PROVE beats[b].score <= clock'
    <3>1. beats[b] \in Receipts BY <1>4 DEF Listed
    <3>2. beats[b].score \in Nat /\ beats[b].score <= clock BY <1>1, <3>1 DEF Rising, Receipts
    <3> QED BY <1>4, <3>2
  <2> QED BY <1>1, <1>3, <2>1 DEF Rising
<1>6. ASSUME NEW r \in Replicas, pc'[r] = "hb_save" PROVE Arriving(r)'
  <2>1. pc[r] = "hb_save" /\ call'[r].beat = call[r].beat /\ call'[r].at = call[r].at
        BY <1>2, <1>6 DEF Beating
  <2>2. Arriving(r) BY <1>1, <2>1
  <2>3. call[r].at \in Nat BY <2>1 DEF Types, Fits, Calls
  <2>4. call'[r].at <= clock' BY <1>4, <2>1, <2>2, <2>3 DEF Arriving
  <2> QED BY <1>3, <2>1, <2>2, <2>4 DEF Arriving
<1>7. Trimmed'
  <2>1. ASSUME NEW r \in Replicas, pc'[r] \in {"hb_trim", "hb_delete"}
        PROVE  Cardinality(Listed') = Retention + call'[r].overflow
        BY <1>1, <1>2, <1>3, <2>1 DEF Trimmed, Beating
  <2>2. ASSUME NEW r \in Replicas, pc[r] \in {"hb_count", "hb_trim", "hb_delete"}
        PROVE  \/ Cardinality(Listed') <= Retention
               \/ "trimming" \in overlaps'
               \/ pc'[r] \in {"hb_count", "hb_trim", "hb_delete"}
    <3>1. CASE r \in M BY <1>3, <2>2, <3>1 DEF Untrimmed
    <3>2. CASE r \notin M BY <2>2, <3>2, OthersStay
    <3> QED BY <3>1, <3>2
  <2>3. ASSUME NEW r \in Replicas, pc'[r] = "hb_delete"
        PROVE  ExpiredListed(r)'
    <3>1. /\ pc[r] = "hb_delete" /\ call'[r].expired = call[r].expired
          /\ call'[r].overflow = call[r].overflow
          BY <1>2, <2>3 DEF Beating
    <3>2. ExpiredListed(r) BY <1>1, <3>1 DEF Trimmed
    <3> QED BY <3>1, <3>2, ExpiredStay DEF ExpiredListed
  <2> QED BY <1>1, <1>3, <2>1, <2>2, <2>3 DEF Trimmed
<1> QED BY <1>1, <1>2, <1>5, <1>6, <1>7

LEMMA LeasedStays ==
    ASSUME Leased, NEW M, OnlyMoves(M), "lease" \in overlaps => "lease" \in overlaps',
           \/ "lease" \in overlaps'
           \/ /\ lease' = lease \/ \A q \in Replicas : lease = q => q \in M \/ ~ MidRun(q)
              /\ \A r \in M : MidRun(r)' => lease' = r \/ (MidRun(r) /\ lease' = lease)
    PROVE  Leased'
<1> SUFFICES ASSUME "lease" \notin overlaps', NEW q \in Replicas, MidRun(q)'
             PROVE  lease' = q
    BY DEF Leased
<1>1. \A r \in Replicas : MidRun(r) => lease = r BY DEF Leased
<1>2. CASE q \in M BY <1>1, <1>2
<1>3. CASE q \notin M
  <2>1. MidRun(q) BY <1>3, OthersStay DEF MidRun
  <2> QED BY <1>1, <1>3, <2>1
<1> QED BY <1>2, <1>3

LEMMA CarriedStays ==
    ASSUME Types, Types', Carried, NEW M, OnlyMoves(M), Len(probes') >= Len(probes),
           \A r \in M : pc'[r] \in {"observe", "snapshot"} => call'[r].probe <= Len(probes')
    PROVE  Carried'
<1> SUFFICES ASSUME NEW q \in Replicas, pc'[q] \in {"observe", "snapshot"}
             PROVE  call'[q].probe <= Len(probes')
    BY DEF Carried
<1>1. CASE q \in M BY <1>1
<1>2. CASE q \notin M
  <2>1. pc[q] = pc'[q] /\ call'[q].probe = call[q].probe BY <1>2, OthersStay
  <2>2. call[q].probe \in Nat BY <2>1 DEF Types, Fits, Calls
  <2>3. call[q].probe <= Len(probes) BY <2>1 DEF Carried
  <2>4. Len(probes) \in Nat /\ Len(probes') \in Nat BY LenProperties DEF Types
  <2> QED BY <2>1, <2>2, <2>3, <2>4
<1> QED BY <1>1, <1>2

LEMMA ShownStays ==
    ASSUME Shown, NEW M, OnlyMoves(M), "snapshots" \in overlaps => "snapshots" \in overlaps',
           snapshot' = snapshot, \A r \in M : pc'[r] # "snapshot" /\ ~ Refreshing(r)'
    PROVE  Shown'
<1> SUFFICES ASSUME "snapshots" \notin overlaps' PROVE Shown' BY DEF Shown
<1>1. \A q \in Replicas : pc'[q] = "snapshot" =>
          pc[q] = "snapshot" /\ call'[q].probe = call[q].probe
      BY OthersStay
<1>2. \A q \in Replicas : Refreshing(q)' => Refreshing(q) /\ call'[q].probe = call[q].probe
      BY OthersStay DEF Refreshing
<1> QED BY <1>1, <1>2 DEF Shown

AcksKept == \A t \in Threads : ack'[t].step = "save" => ack'[t] = ack[t]

LEMMA SettlingStays ==
    ASSUME Settling, NEW M, OnlyMoves(M), alerts' = alerts, AcksKept,
           \A r \in M : pc'[r] # "sync"
    PROVE  Settling'
<1> SUFFICES ASSUME NEW r \in Replicas, pc'[r] = "sync"
             PROVE  /\ \A k \in call'[r].todo \ call'[r].conditions :
                          call'[r].listing[k] \in {"open", "acknowledged"}
                    /\ call'[r].alone =>
                          /\ \A q \in Replicas : pc'[q] = "sync" => q = r
                          /\ \A t \in Threads : ack'[t].step # "save"
                          /\ \A k \in Keys \ call'[r].todo : Active(k)' <=> k \in call'[r].conditions
    BY DEF Settling
<1>1. \A q \in Replicas : pc'[q] = "sync" => pc[q] = "sync" BY OthersStay
<1>2. /\ call'[r].conditions = call[r].conditions /\ call'[r].listing = call[r].listing
      /\ call'[r].todo = call[r].todo
      /\ call'[r].alone => call[r].alone
      BY OthersStay
<1>3. \A t \in Threads : ack'[t].step = "save" => ack[t].step = "save" BY DEF AcksKept
<1>4. \A k : Active(k)' <=> Active(k) BY DEF Active
<1> QED BY <1>1, <1>2, <1>3, <1>4 DEF Settling

LEMMA HeldStays ==
    ASSUME Held, NEW M, OnlyMoves(M), "alerts" \in overlaps => "alerts" \in overlaps',
           alerts' = alerts, AcksKept, \A r \in M : pc'[r] # "sync"
    PROVE  Held'
<1> SUFFICES ASSUME "alerts" \notin overlaps' PROVE Held' BY DEF Held
<1>1. \A q \in Replicas : pc'[q] = "sync" =>
          /\ pc[q] = "sync" /\ call'[q].listing = call[q].listing
          /\ call'[q].todo = call[q].todo
      BY OthersStay
<1>2. \A t \in Threads : ack'[t].step = "save" => ack'[t] = ack[t] BY DEF AcksKept
<1> QED BY <1>1, <1>2 DEF Held

\* A step of the loops M that concerns none of the parts but the lease.
Elsewhere(M) ==
    /\ Types' /\ OnlyMoves(M) /\ AcksKept
    /\ UNCHANGED <<beats, peak, alerts, snapshot>>
    /\ clock' >= clock /\ Len(probes') >= Len(probes) /\ overlaps \subseteq overlaps'
    /\ \A r \in M : pc'[r] \notin Beating \cup {"observe", "snapshot", "sync"} /\ Untrimmed(r)
    /\ \/ "lease" \in overlaps'
       \/ /\ lease' = lease \/ \A q \in Replicas : lease = q => q \in M \/ ~ MidRun(q)
          /\ \A r \in M : MidRun(r)' => lease' = r \/ (MidRun(r) /\ lease' = lease)

LEMMA ElsewhereBase ==
    ASSUME Base, NEW M, Elsewhere(M)
    PROVE  Base'
<1>1. /\ Types' /\ OnlyMoves(M) /\ AcksKept
      /\ UNCHANGED <<beats, peak, alerts, snapshot>>
      /\ clock' >= clock /\ Len(probes') >= Len(probes) /\ overlaps \subseteq overlaps'
      BY DEF Elsewhere
<1>2. \A r \in M : /\ pc'[r] \notin Beating \cup {"observe", "snapshot", "sync"}
                   /\ Untrimmed(r)
      BY DEF Elsewhere
<1>3. Beats' BY <1>1, <1>2, BeatsStay DEF Base
<1>4. Leased' BY <1>1, LeasedStays DEF Base, Elsewhere
<1>5. Carried' BY <1>1, <1>2, CarriedStays DEF Base
<1>6. Shown' BY <1>1, <1>2, ShownStays DEF Base, Refreshing
<1>7. Settling' BY <1>1, <1>2, SettlingStays DEF Base
<1>8. Held' BY <1>1, <1>2, HeldStays DEF Base
<1> QED BY <1>1, <1>3, <1>4, <1>5, <1>6, <1>7, <1>8 DEF Base

LEMMA OnwardBase ==
    ASSUME Base, NEW r \in Replicas, Onward(r)
    PROVE  Base'
<1>1. Types' /\ OnlyMoves({r}) BY DEF Onward, Moves, Others, OnlyMoves
<1>2. UNCHANGED <<beats, peak, clock, alerts, snapshot, probes, ack>> /\ overlaps \subseteq overlaps'
      BY DEF Onward
<1>3. clock' >= clock /\ Len(probes') >= Len(probes)
  <2>1. clock \in Nat /\ Len(probes) \in Nat BY LenProperties DEF Base, Types, BeatTypeOK
  <2> QED BY <1>2, <2>1
<1>4. AcksKept BY <1>2 DEF AcksKept
<1>5. \/ "lease" \in overlaps'
      \/ /\ lease' = lease \/ \A q \in Replicas : lease = q => q \in {r} \/ ~ MidRun(q)
         /\ \A q \in {r} : MidRun(q)' => lease' = q \/ (MidRun(q) /\ lease' = lease)
  <2>1. \A q \in Replicas : q # "none" BY HealthAssumption
  <2> QED BY <2>1 DEF Onward, LeaseKept
<1>6. \A q \in {r} : pc'[q] \notin Beating \cup {"observe", "snapshot", "sync"} /\ Untrimmed(q)
      BY DEF Onward
<1>7. Elsewhere({r}) BY <1>1, <1>2, <1>3, <1>4, <1>5, <1>6 DEF Elsewhere
<1> QED BY <1>7, ElsewhereBase

-----------------------------------------------------------------------------
(* Steps that move no loop.                                                *)

\* Loops do not move: the types of what they keep are as before.
LEMMA StillTypes ==
    ASSUME Types, UNCHANGED <<pc, call>>
    PROVE  /\ (pc \in [Replicas -> LoopStates])' /\ (call \in [Replicas -> Calls \cup {NoCall}])'
           /\ (\A r \in Replicas : Fits(pc[r], call[r]))' /\ OnlyMoves({})
BY DEF Types, OnlyMoves, Alike

LEMMA ProbeBase ==
    ASSUME Base, NEW r \in Replicas, NEW result \in {"available", "failed"}, Probe(r, result)
    PROVE  Base'
<1>1. /\ Less("probes") /\ probes' = Append(probes, result)
      /\ pending' = [pending EXCEPT ![r] = @ \cup {Len(probes) + 1}]
      /\ UNCHANGED <<beatVars, alerts, snapshot, schedule, pc, call, ack>>
      BY DEF Probe
<1>2. Types BY DEF Base
<1>3. limits' \in Limits BY <1>1, <1>2, LessTyped DEF Types
<1>4. /\ probes' \in Seq({"available", "failed"}) /\ Len(probes') = Len(probes) + 1
      /\ Len(probes) \in Nat
      BY <1>1, <1>2, AppendProperties, LenProperties DEF Types
<1>5. snapshot' \in 0..Len(probes') BY <1>1, <1>2, <1>4 DEF Types
<1>6. pending' \in [Replicas -> SUBSET (1..Len(probes'))]
  <2>1. 1..Len(probes) \subseteq 1..Len(probes') /\ Len(probes) + 1 \in 1..Len(probes')
        BY <1>4
  <2>2. pending \in [Replicas -> SUBSET (1..Len(probes))] BY <1>2 DEF Types
  <2>3. pending \in [Replicas -> SUBSET (1..Len(probes'))] BY <2>1, <2>2
  <2> QED BY <1>1, <2>1, <2>3
<1>7. BeatTypeOK' /\ Listed' = Listed
      BY <1>1, <1>2 DEF Types, BeatTypeOK, Receipts, Listed, beatVars
<1>8. Types' BY <1>1, <1>2, <1>3, <1>4, <1>5, <1>6, <1>7, StillTypes DEF Types, schedule
<1>9. OnlyMoves({}) BY <1>1, <1>2, StillTypes
<1>10. clock' >= clock /\ Len(probes') >= Len(probes) /\ AcksKept
  <2>1. clock \in Nat BY <1>2 DEF Types, BeatTypeOK
  <2> QED BY <1>1, <1>4, <2>1 DEF beatVars, AcksKept
<1>11. Elsewhere({}) BY <1>1, <1>8, <1>9, <1>10 DEF Elsewhere, beatVars, schedule
<1> QED BY <1>11, ElsewhereBase

\* Steps that change no more than the lease, the time, the limits and the
\* acknowledgements that save nothing.
LEMMA AsideBase ==
    ASSUME Base, UNCHANGED <<pc, call, evidence, status, task>>, BeatTypeOK',
           UNCHANGED <<beats, peak>>, clock' >= clock, overlaps \subseteq overlaps',
           limits' \in Limits, ack' \in [Threads -> Acks], AcksKept,
           lease' \in Replicas \cup {"none", "lost"},
           \/ "lease" \in overlaps'
           \/ lease' = lease \/ \A q \in Replicas : lease = q => ~ MidRun(q)
    PROVE  Base'
<1>1. Types BY DEF Base
<1>2. IsFiniteSet(Listed') BY <1>1 DEF Listed, Types
<1>3. Types' BY <1>1, <1>2, StillTypes DEF Types, evidence
<1>4. OnlyMoves({}) BY <1>1, StillTypes
<1>5. Len(probes') >= Len(probes)
  <2>1. Len(probes) \in Nat BY <1>1, LenProperties DEF Types
  <2> QED BY <2>1 DEF evidence
<1>6. Elsewhere({}) BY <1>3, <1>4, <1>5 DEF Elsewhere, evidence
<1> QED BY <1>6, ElsewhereBase

LEMMA LeaseBase ==
    ASSUME Base, LeaseExpires \/ LeaseExpiresEarly
    PROVE  Base'
<1>1. /\ UNCHANGED <<beats, delivered, clock, horizon, peak, evidence, status, task, pc, call, ack>>
      /\ lease' = "none"
      BY DEF LeaseExpires, LeaseExpiresEarly, beatVars
<1>2. Types BY DEF Base
<1>3. limits' \in Limits
  <2>1. CASE LeaseExpires BY <1>2, <2>1 DEF LeaseExpires, Types
  <2>2. CASE LeaseExpiresEarly BY <1>2, <2>2, LessTyped DEF LeaseExpiresEarly, Types
  <2> QED BY <2>1, <2>2
<1>4. /\ overlaps' \in {overlaps, overlaps \cup {"lease"}}
      /\ "lease" \in overlaps' \/ \A q \in Replicas : lease = q => ~ MidRun(q)
      BY DEF LeaseExpires, LeaseExpiresEarly, Note, beatVars
<1>5. BeatTypeOK' BY <1>1, <1>2, <1>4 DEF Types, BeatTypeOK, Receipts
<1>6. AcksKept /\ ack' \in [Threads -> Acks] BY <1>1, <1>2 DEF AcksKept, Types
<1>7. clock' >= clock
  <2>1. clock \in Nat BY <1>2 DEF Types, BeatTypeOK
  <2> QED BY <1>1, <2>1
<1> QED BY <1>1, <1>3, <1>4, <1>5, <1>6, <1>7, AsideBase

LEMMA EnvironmentBase ==
    ASSUME Base, Environment
    PROVE  Base'
<1>1. /\ UNCHANGED <<evidence, schedule, pc, call, ack, beats, peak, overlaps>>
      BY DEF Environment, Deliver, Elapse
<1>2. Types BY DEF Base
<1>3. limits' \in Limits BY <1>2, LessTyped DEF Environment, Types
<1>4. BeatTypeOK' /\ clock' >= clock
  <2>1. CASE Deliver(Required)
        BY <1>1, <1>2, <2>1, HeartbeatAssumption DEF Deliver, Types, BeatTypeOK, Receipts
  <2>2. CASE Elapse BY <1>1, <1>2, <2>2 DEF Elapse, Types, BeatTypeOK, Receipts
  <2> QED BY <2>1, <2>2 DEF Environment
<1>5. AcksKept /\ ack' \in [Threads -> Acks] /\ lease' \in Replicas \cup {"none", "lost"}
      BY <1>1, <1>2 DEF AcksKept, Types, schedule
<1> QED BY <1>1, <1>3, <1>4, <1>5, AsideBase DEF schedule

LEMMA StutterBase ==
    ASSUME Base, UNCHANGED vars
    PROVE  Base'
<1>1. Types /\ clock \in Nat BY DEF Base, Types, BeatTypeOK
<1>2. BeatTypeOK' BY <1>1 DEF vars, beatVars, Types, BeatTypeOK, Receipts
<1>3. AcksKept /\ clock' >= clock BY <1>1 DEF vars, beatVars, AcksKept
<1> QED BY <1>1, <1>2, <1>3, AsideBase DEF vars, beatVars, schedule, Types

LEMMA AckRouteBase ==
    ASSUME Base, NEW t \in Threads, NEW k \in Keys, AckRoute(t, k)
    PROVE  Base'
<1>1. /\ Less("acks") /\ ack' = [ack EXCEPT ![t] = [step |-> "get", key |-> k]]
      /\ UNCHANGED <<beatVars, evidence, schedule, pc, call>>
      BY DEF AckRoute
<1>2. Types /\ clock \in Nat BY DEF Base, Types, BeatTypeOK
<1>3. limits' \in Limits BY <1>1, <1>2, LessTyped DEF Types
<1>4. ack' \in [Threads -> Acks] BY <1>1, <1>2 DEF Types, Acks
<1>5. AcksKept BY <1>1, <1>2 DEF AcksKept, Types
<1>6. BeatTypeOK' BY <1>1, <1>2 DEF beatVars, Types, BeatTypeOK, Receipts
<1> QED BY <1>1, <1>2, <1>3, <1>4, <1>5, <1>6, AsideBase DEF beatVars, schedule, Types

-----------------------------------------------------------------------------
(* The evaluation.                                                         *)

\* A step inside an evaluation concerns neither receipts nor the lease.
LEMMA InnerParts ==
    ASSUME Base, NEW r \in Replicas, Moves(r), UNCHANGED <<beats, peak, clock, lease>>,
           overlaps \subseteq overlaps', pc'[r] \notin Beating,
           pc[r] \notin {"hb_count", "hb_trim", "hb_delete", "acquire", "extend"}
    PROVE  Types' /\ OnlyMoves({r}) /\ Beats' /\ Leased'
<1>1. Types /\ Types' /\ OnlyMoves({r}) BY DEF Base, Moves, Others, OnlyMoves
<1>2. clock' >= clock
  <2>1. clock \in Nat BY <1>1 DEF Types, BeatTypeOK
  <2> QED BY <2>1
<1>3. \A q \in {r} : pc'[q] \notin Beating /\ Untrimmed(q) BY DEF Untrimmed
<1>4. Beats' BY <1>1, <1>2, <1>3, BeatsStay DEF Base
<1>5. \A q \in {r} : MidRun(q)' => lease' = q \/ (MidRun(q) /\ lease' = lease) BY DEF Moves
<1>6. Leased' BY <1>1, <1>5, LeasedStays DEF Base
<1> QED BY <1>1, <1>4, <1>6

\* Steps that save no alert and copy none.
LEMMA AlertParts ==
    ASSUME Base, NEW r \in Replicas, OnlyMoves({r}), UNCHANGED <<alerts, ack>>,
           overlaps \subseteq overlaps', pc'[r] # "sync"
    PROVE  Settling' /\ Held'
<1>1. AcksKept /\ \A q \in {r} : pc'[q] # "sync" BY DEF AcksKept
<1> QED BY <1>1, SettlingStays, HeldStays DEF Base

\* Steps of which the snapshot knows nothing.
LEMMA SnapshotParts ==
    ASSUME Base, Types', NEW r \in Replicas, OnlyMoves({r}), UNCHANGED <<probes, snapshot>>,
           overlaps \subseteq overlaps', pc'[r] \notin {"observe", "snapshot"}
    PROVE  Carried' /\ Shown'
<1>1. Len(probes') >= Len(probes)
  <2>1. Len(probes) \in Nat BY LenProperties DEF Base, Types
  <2> QED BY <2>1
<1>2. Carried' BY <1>1, CarriedStays DEF Base
<1>3. Shown' BY ShownStays DEF Base, Refreshing
<1> QED BY <1>2, <1>3

LEMMA BeginBase ==
    ASSUME Base, NEW r \in Replicas, Begin(r)
    PROVE  Base'
<1>1. /\ pc[r] = "begin" /\ UNCHANGED <<beatVars, limits, evidence, lease, task, ack>>
      BY DEF Begin
<1>2. Types BY DEF Base
<1>3. Moves(r) /\ pc'[r] = "observe" /\ call'[r].kind = call[r].kind /\ call'[r].probe = 0
      BY <1>2, BeginTypes
<1>4. Types' /\ OnlyMoves({r}) /\ Beats' /\ Leased'
      BY <1>1, <1>3, InnerParts DEF Beating, beatVars
<1>5. call[r].kind # "refresh" BY <1>1, <1>2 DEF Types, Fits
<1>6. Len(probes) \in Nat BY <1>2, LenProperties DEF Types
<1>7. Carried'
  <2>1. Len(probes') >= Len(probes) /\ call'[r].probe <= Len(probes')
        BY <1>1, <1>3, <1>6 DEF evidence
  <2> QED BY <1>2, <1>4, <2>1, CarriedStays DEF Base
<1>8. Shown'
  <2>1. pc'[r] # "snapshot" /\ ~ Refreshing(r)' BY <1>3, <1>5 DEF Refreshing
  <2> QED BY <1>1, <1>4, <2>1, ShownStays DEF Base, evidence, beatVars
<1>9. Settling' /\ Held' BY <1>1, <1>3, <1>4, AlertParts DEF evidence, beatVars
<1> QED BY <1>4, <1>7, <1>8, <1>9 DEF Base

LEMMA RefreshBase ==
    ASSUME Base, NEW r \in Replicas, Refresh(r)
    PROVE  Base'
<1>1. /\ pc[r] = "idle"
      /\ UNCHANGED <<beats, delivered, clock, horizon, peak, limits, alerts, snapshot, probes,
                     schedule, ack>>
      BY DEF Refresh
<1>2. Types BY DEF Base
<1>3. /\ Moves(r) /\ pc'[r] = "observe" /\ call'[r].kind = "refresh"
      /\ call'[r].probe \in 1..Len(probes)
      /\ call'[r].probe < Len(probes) => "snapshots" \in overlaps'
      BY <1>2, RefreshTypes
<1>4. overlaps \subseteq overlaps' BY DEF Refresh, Note
<1>5. Types' /\ OnlyMoves({r}) /\ Beats' /\ Leased'
      BY <1>1, <1>3, <1>4, InnerParts DEF Beating, schedule
<1>6. Len(probes) \in Nat BY <1>2, LenProperties DEF Types
<1>7. Carried'
  <2>1. Len(probes') >= Len(probes) /\ call'[r].probe <= Len(probes')
        BY <1>1, <1>3, <1>6
  <2> QED BY <1>2, <1>5, <2>1, CarriedStays DEF Base
<1>8. Shown'
  <2> SUFFICES ASSUME "snapshots" \notin overlaps' PROVE Shown' BY DEF Shown
  <2>1. call'[r].probe = Len(probes) BY <1>3, <1>6
  <2>2. \A q \in Replicas : pc'[q] = "snapshot" =>
            pc[q] = "snapshot" /\ call'[q].probe = call[q].probe /\ call[q].probe <= Len(probes)
    <3> SUFFICES ASSUME NEW q \in Replicas, pc'[q] = "snapshot"
                 PROVE  /\ pc[q] = "snapshot" /\ call'[q].probe = call[q].probe
                        /\ call[q].probe <= Len(probes)
        OBVIOUS
    <3>1. q # r BY <1>3
    <3>2. pc[q] = "snapshot" /\ call'[q].probe = call[q].probe
          BY <1>5, <3>1, OthersStay
    <3> QED BY <3>2 DEF Base, Carried
  <2>3. \A q \in Replicas : Refreshing(q)' =>
            q = r \/ (Refreshing(q) /\ call'[q].probe = call[q].probe)
    <3> SUFFICES ASSUME NEW q \in Replicas, Refreshing(q)', q # r
                 PROVE  Refreshing(q) /\ call'[q].probe = call[q].probe
        OBVIOUS
    <3> QED BY <1>5, OthersStay DEF Refreshing
  <2>4. snapshot <= Len(probes) BY <1>2 DEF Types
  <2>5. "snapshots" \notin overlaps BY <1>4
  <2> QED BY <1>1, <2>1, <2>2, <2>3, <2>4, <2>5 DEF Base, Shown
<1>9. Settling' /\ Held' BY <1>1, <1>3, <1>4, <1>5, AlertParts
<1> QED BY <1>5, <1>7, <1>8, <1>9 DEF Base

LEMMA ObserveBase ==
    ASSUME Base, NEW r \in Replicas, Observe(r)
    PROVE  Base'
<1>1. UNCHANGED <<beats, delivered, clock, horizon, peak, limits, evidence, schedule, ack>>
      BY DEF Observe
<1>2. Types /\ Carried BY DEF Base
<1>3. /\ Moves(r) /\ pc[r] = "observe" /\ pc'[r] = "snapshot"
      /\ call'[r].kind = call[r].kind
      /\ call'[r].probe = IF call[r].kind = "refresh" THEN call[r].probe ELSE snapshot
      /\ Evaluating # {r} => "snapshots" \in overlaps'
      BY <1>2, ObserveTypes
<1>4. overlaps \subseteq overlaps' BY DEF Observe, Note
<1>5. Types' /\ OnlyMoves({r}) /\ Beats' /\ Leased'
      BY <1>1, <1>3, <1>4, InnerParts DEF Beating, schedule
<1>6. /\ Len(probes) \in Nat /\ snapshot \in Nat /\ snapshot <= Len(probes)
      /\ call[r].probe <= Len(probes)
      BY <1>2, <1>3, LenProperties DEF Types, Carried
<1>7. Carried'
  <2>1. Len(probes') >= Len(probes) /\ call'[r].probe <= Len(probes')
        BY <1>1, <1>3, <1>6 DEF evidence
  <2> QED BY <1>2, <1>5, <2>1, CarriedStays
<1>8. Shown'
  <2> SUFFICES ASSUME "snapshots" \notin overlaps' PROVE Shown' BY DEF Shown
  <2>1. Evaluating = {r} BY <1>3
  <2>2. \A q \in Replicas : q # r => pc'[q] \notin {"observe", "snapshot"}
    <3> SUFFICES ASSUME NEW q \in Replicas, q # r PROVE pc'[q] \notin {"observe", "snapshot"}
        OBVIOUS
    <3>1. pc[q] \notin {"observe", "snapshot"} BY <2>1 DEF Evaluating
    <3> QED BY <1>5, <3>1, OthersStay
  <2>3. \A q \in Replicas : ~ Refreshing(q)' BY <1>3, <2>2 DEF Refreshing
  <2>4. snapshot <= call'[r].probe
    <3>1. CASE call[r].kind = "refresh"
      <4>1. "snapshots" \notin overlaps BY <1>4
      <4> QED BY <1>3, <3>1, <4>1 DEF Base, Shown, Refreshing
    <3>2. CASE call[r].kind # "refresh" BY <1>3, <1>6, <3>2
    <3> QED BY <3>1, <3>2
  <2> QED BY <1>1, <2>2, <2>3, <2>4 DEF Shown, evidence
<1>9. Settling' /\ Held' BY <1>1, <1>3, <1>4, <1>5, AlertParts DEF evidence
<1> QED BY <1>5, <1>7, <1>8, <1>9 DEF Base

LEMMA SaveSnapshotBase ==
    ASSUME Base, NEW r \in Replicas, SaveSnapshot(r)
    PROVE  Base'
<1>1. UNCHANGED <<beatVars, limits, alerts, probes, pending, schedule, ack>>
      BY DEF SaveSnapshot
<1>2. Types /\ Carried BY DEF Base
<1>3. /\ Moves(r) /\ pc[r] = "snapshot" /\ pc'[r] = "list"
      /\ snapshot' \in {snapshot, call[r].probe}
      BY <1>2, SnapshotTypes
<1>4. Types' /\ OnlyMoves({r}) /\ Beats' /\ Leased'
      BY <1>1, <1>3, InnerParts DEF Beating, beatVars, schedule
<1>5. Carried'
  <2>1. Len(probes) \in Nat BY <1>2, LenProperties DEF Types
  <2>2. Len(probes') >= Len(probes) BY <1>1, <2>1
  <2> QED BY <1>2, <1>3, <1>4, <2>2, CarriedStays
<1>6. Shown'
  <2> SUFFICES ASSUME "snapshots" \notin overlaps' PROVE Shown' BY DEF Shown
  <2>1. "snapshots" \notin overlaps BY <1>1 DEF beatVars
  <2>2. \A q \in Replicas : pc'[q] # "snapshot"
    <3> SUFFICES ASSUME NEW q \in Replicas, pc'[q] = "snapshot" PROVE FALSE OBVIOUS
    <3>1. q # r BY <1>3
    <3>2. pc[q] = "snapshot" BY <1>4, <3>1, OthersStay
    <3> QED BY <1>3, <2>1, <3>1, <3>2 DEF Base, Shown
  <2>3. ASSUME NEW q \in Replicas, Refreshing(q)' PROVE snapshot' <= call'[q].probe
    <3>1. q # r BY <1>3, <2>3 DEF Refreshing
    <3>2. Refreshing(q) /\ call'[q].probe = call[q].probe
          BY <1>4, <2>3, <3>1, OthersStay DEF Refreshing
    <3> QED BY <1>3, <2>1, <3>2 DEF Base, Shown
  <2> QED BY <2>2, <2>3 DEF Shown
<1>7. Settling' /\ Held' BY <1>1, <1>3, <1>4, AlertParts DEF beatVars
<1> QED BY <1>4, <1>5, <1>6, <1>7 DEF Base

-----------------------------------------------------------------------------
(* The copies of alerts.                                                   *)

LEMMA ListBase ==
    ASSUME Base, NEW r \in Replicas, ListAlerts(r)
    PROVE  Base'
<1>1. UNCHANGED <<beats, delivered, clock, horizon, peak, limits, evidence, schedule, ack>>
      BY DEF ListAlerts
<1>2. Types BY DEF Base
<1>3. /\ Moves(r) /\ pc[r] = "list" /\ pc'[r] = "sync"
      /\ call'[r].listing = alerts /\ call'[r].conditions = call[r].conditions
      /\ call'[r].todo = call[r].conditions \cup {k \in Keys : Active(k)}
      /\ call'[r].alone => Holders = {}
      /\ \A q \in Replicas \ {r} : pc[q] = "sync" => ~ call'[q].alone
      /\ Holders # {} => "alerts" \in overlaps'
      BY <1>2, ListTypes
<1>4. overlaps \subseteq overlaps' BY DEF ListAlerts, Note
<1>5. Types' /\ OnlyMoves({r}) /\ Beats' /\ Leased'
      BY <1>1, <1>3, <1>4, InnerParts DEF Beating, schedule
<1>6. Carried' /\ Shown' BY <1>1, <1>3, <1>4, <1>5, SnapshotParts DEF evidence
<1>7. Holders = {} => /\ \A q \in Replicas : pc'[q] = "sync" => q = r
                      /\ \A t \in Threads : ack'[t].step # "save"
  <2> SUFFICES ASSUME Holders = {}
               PROVE  /\ \A q \in Replicas : pc'[q] = "sync" => q = r
                      /\ \A t \in Threads : ack'[t].step # "save"
      OBVIOUS
  <2>1. \A t \in Threads : ack[t].step # "save" BY DEF Holders
  <2>2. \A q \in Replicas : pc[q] # "sync" BY DEF Holders
  <2>3. \A q \in Replicas : q # r => pc'[q] = pc[q] BY <1>5, OthersStay
  <2> QED BY <1>1, <2>1, <2>2, <2>3
<1>8. Settling'
  <2> SUFFICES ASSUME NEW q \in Replicas, pc'[q] = "sync"
               PROVE  /\ \A k \in call'[q].todo \ call'[q].conditions :
                            call'[q].listing[k] \in {"open", "acknowledged"}
                      /\ call'[q].alone =>
                            /\ \A p \in Replicas : pc'[p] = "sync" => p = q
                            /\ \A t \in Threads : ack'[t].step # "save"
                            /\ \A k \in Keys \ call'[q].todo :
                                  Active(k)' <=> k \in call'[q].conditions
      BY DEF Settling
  <2>1. CASE q = r
    <3>1. \A k \in call'[r].todo \ call'[r].conditions :
              call'[r].listing[k] \in {"open", "acknowledged"}
          BY <1>3 DEF Active
    <3>2. \A k \in Keys \ call'[r].todo : ~ Active(k)' /\ k \notin call'[r].conditions
          BY <1>1, <1>3 DEF Active, evidence
    <3> QED BY <1>3, <1>7, <2>1, <3>1, <3>2
  <2>2. CASE q # r
    <3>1. /\ pc[q] = "sync" /\ call'[q].conditions = call[q].conditions
          /\ call'[q].listing = call[q].listing /\ call'[q].todo = call[q].todo
          BY <1>5, <2>2, OthersStay
    <3>2. ~ call'[q].alone BY <1>3, <2>2, <3>1
    <3> QED BY <3>1, <3>2 DEF Base, Settling
  <2> QED BY <2>1, <2>2
<1>9. Held'
  <2> SUFFICES ASSUME "alerts" \notin overlaps' PROVE Held' BY DEF Held
  <2>1. Holders = {} BY <1>3
  <2>2. \A k \in call'[r].todo : call'[r].listing[k] = alerts'[k] BY <1>1, <1>3 DEF evidence
  <2> QED BY <1>7, <2>1, <2>2 DEF Held
<1> QED BY <1>5, <1>6, <1>8, <1>9 DEF Base

\* What an evaluation makes of its copy of an alert is active if the condition holds.
LEMMA SyncedActive ==
    ASSUME NEW a \in AlertStates, NEW holds \in BOOLEAN
    PROVE  Synced(a, holds) \in {"open", "acknowledged"} <=> holds
BY DEF Synced, AlertStates

LEMMA SyncBase ==
    ASSUME Base, NEW r \in Replicas, SyncAlert(r)
    PROVE  Base'
<1>1. UNCHANGED <<beatVars, limits, snapshot, probes, pending, schedule, pc, ack>>
      BY DEF SyncAlert
<1>2. Types BY DEF Base
<1>3. /\ Moves(r) /\ pc[r] = "sync" /\ pc' = pc
      /\ call'[r].listing = call[r].listing /\ call'[r].conditions = call[r].conditions
      BY <1>2, SyncTypes
<1>4. call'[r].alone => call[r].alone BY <1>2, SyncTypes
<1>5. PICK k \in call[r].todo :
          /\ k \notin call[r].conditions => call[r].todo \cap call[r].conditions = {}
          /\ alerts' = [alerts EXCEPT ![k] = Synced(call[r].listing[k], k \in call[r].conditions)]
          /\ call'[r].todo = call[r].todo \ {k}
      BY <1>2, SyncTypes
<1>6. Types' /\ OnlyMoves({r}) /\ Beats' /\ Leased'
      BY <1>1, <1>3, InnerParts DEF Beating, beatVars, schedule
<1>7. Carried' /\ Shown' BY <1>1, <1>3, <1>6, SnapshotParts DEF beatVars
<1>8. /\ call[r].todo \in SUBSET Keys /\ call[r].conditions \in SUBSET Keys
      /\ call[r].listing \in [Keys -> AlertStates] /\ alerts \in [Keys -> AlertStates]
      BY <1>2, <1>3 DEF Types, Fits, Calls
<1>9. alerts'[k] \in {"open", "acknowledged"} <=> k \in call[r].conditions
  <2>1. call[r].listing[k] \in AlertStates BY <1>8
  <2>2. (k \in call[r].conditions) \in BOOLEAN OBVIOUS
  <2>3. alerts'[k] = Synced(call[r].listing[k], k \in call[r].conditions) BY <1>5, <1>8
  <2> QED BY <2>1, <2>2, <2>3, SyncedActive
<1>10. Settling'
  <2> SUFFICES ASSUME NEW q \in Replicas, pc'[q] = "sync"
               PROVE  /\ \A j \in call'[q].todo \ call'[q].conditions :
                            call'[q].listing[j] \in {"open", "acknowledged"}
                      /\ call'[q].alone =>
                            /\ \A p \in Replicas : pc'[p] = "sync" => p = q
                            /\ \A t \in Threads : ack'[t].step # "save"
                            /\ \A j \in Keys \ call'[q].todo :
                                  Active(j)' <=> j \in call'[q].conditions
      BY DEF Settling
  <2>1. CASE q = r
    <3>1. \A j \in call'[r].todo \ call'[r].conditions :
              call'[r].listing[j] \in {"open", "acknowledged"}
          BY <1>3, <1>5 DEF Base, Settling
    <3>2. ASSUME call'[r].alone, NEW j \in Keys \ call'[r].todo
          PROVE  Active(j)' <=> j \in call'[r].conditions
      <4>1. CASE j = k BY <1>3, <1>9, <4>1 DEF Active
      <4>2. CASE j # k
        <5>1. j \in Keys \ call[r].todo BY <1>5, <4>2
        <5>2. Active(j) <=> j \in call[r].conditions
              BY <1>3, <1>4, <3>2, <5>1 DEF Base, Settling
        <5>3. alerts'[j] = alerts[j] BY <1>5, <1>8, <4>2
        <5> QED BY <1>3, <5>2, <5>3 DEF Active
      <4> QED BY <4>1, <4>2
    <3>3. call'[r].alone => /\ \A p \in Replicas : pc'[p] = "sync" => p = r
                            /\ \A t \in Threads : ack'[t].step # "save"
          BY <1>1, <1>3, <1>4 DEF Base, Settling
    <3> QED BY <2>1, <3>1, <3>2, <3>3
  <2>2. CASE q # r
    <3>1. /\ pc[q] = "sync" /\ call'[q].conditions = call[q].conditions
          /\ call'[q].listing = call[q].listing /\ call'[q].todo = call[q].todo
          /\ call'[q].alone => call[q].alone
          BY <1>6, <2>2, OthersStay
    <3>2. ~ call[q].alone BY <1>3, <2>2, <3>1 DEF Base, Settling
    <3> QED BY <3>1, <3>2 DEF Base, Settling
  <2> QED BY <2>1, <2>2
<1>11. Held'
  <2> SUFFICES ASSUME "alerts" \notin overlaps' PROVE Held' BY DEF Held
  <2>1. /\ \A q \in Replicas : pc[q] = "sync" => q = r
        /\ \A t \in Threads : ack[t].step # "save"
        /\ \A j \in call[r].todo : call[r].listing[j] = alerts[j]
        BY <1>1, <1>3 DEF Base, Held, beatVars
  <2>2. \A j \in call'[r].todo : call'[r].listing[j] = alerts'[j]
        BY <1>3, <1>5, <1>8, <2>1
  <2> QED BY <1>1, <1>3, <2>1, <2>2 DEF Held
<1> QED BY <1>6, <1>7, <1>10, <1>11 DEF Base

\* The types of an acknowledgement that goes on.
LEMMA AckTypes ==
    ASSUME Base, OnlyMoves({}), pc' = pc, call' \in [Replicas -> Calls \cup {NoCall}],
           UNCHANGED <<beats, delivered, clock, horizon, peak, limits, snapshot, probes, pending>>,
           UNCHANGED schedule, overlaps' \in {overlaps, overlaps \cup {"alerts"}},
           alerts' \in [Keys -> AlertStates], ack' \in [Threads -> Acks]
    PROVE  Types' /\ Beats' /\ Leased' /\ Carried' /\ Shown'
<1>1. Types BY DEF Base
<1>2. \A q \in Replicas : Fits(pc'[q], call'[q])
  <2> SUFFICES ASSUME NEW q \in Replicas PROVE Fits(pc'[q], call'[q]) OBVIOUS
  <2>1. Fits(pc[q], call[q]) BY <1>1 DEF Types
  <2>2. pc'[q] = pc[q] /\ Alike(call[q], call'[q]) BY OthersStay
  <2> QED BY <2>1, <2>2, AlikeFields
<1>3. BeatTypeOK' /\ Listed' = Listed BY <1>1 DEF Types, BeatTypeOK, Receipts, Listed
<1>4. Types' BY <1>1, <1>2, <1>3 DEF Types, schedule
<1>5. clock' >= clock /\ Len(probes') >= Len(probes)
  <2>1. clock \in Nat /\ Len(probes) \in Nat BY <1>1, LenProperties DEF Types, BeatTypeOK
  <2> QED BY <2>1
<1>6. Beats' BY <1>1, <1>4, <1>5, BeatsStay DEF Base
<1>7. Leased' BY LeasedStays DEF Base, schedule
<1>8. Carried' BY <1>1, <1>4, <1>5, CarriedStays DEF Base
<1>9. Shown' BY ShownStays DEF Base
<1> QED BY <1>4, <1>6, <1>7, <1>8, <1>9

LEMMA AckGetBase ==
    ASSUME Base, NEW t \in Threads, AckGet(t)
    PROVE  Base'
<1>1. /\ ack[t].step = "get" /\ pc' = pc
      /\ UNCHANGED <<beats, delivered, clock, horizon, peak, limits, evidence, schedule>>
      BY DEF AckGet
<1>2. Types BY DEF Base
<1>3. ack[t] \in [step : {"get"}, key : Keys] BY <1>1, <1>2 DEF Types, Acks
<1>4. CASE alerts[ack[t].key] # "open"
  <2>1. /\ ack' = [ack EXCEPT ![t] = [step |-> "idle"]] /\ UNCHANGED <<call, overlaps>>
        BY <1>4 DEF AckGet
  <2>2. AcksKept /\ ack' \in [Threads -> Acks] BY <1>2, <2>1 DEF AcksKept, Types, Acks
  <2>3. BeatTypeOK' /\ clock' >= clock BY <1>1, <1>2, <2>1 DEF Types, BeatTypeOK, Receipts
  <2> QED BY <1>1, <1>2, <2>1, <2>2, <2>3, AsideBase DEF schedule, Types
<1>5. CASE alerts[ack[t].key] = "open"
  <2>1. /\ ack' = [ack EXCEPT ![t].step = "save"]
        /\ call' = [r \in Replicas |-> IF pc[r] = "sync"
                                       THEN [call[r] EXCEPT !.alone = FALSE] ELSE call[r]]
        /\ Note(IF Holders # {} THEN {"alerts"} ELSE {})
        BY <1>5 DEF AckGet
  <2>2. /\ ack' \in [Threads -> Acks] /\ ack'[t].step = "save" /\ ack'[t].key = ack[t].key
        /\ \A u \in Threads \ {t} : ack'[u] = ack[u]
        BY <1>2, <1>3, <2>1 DEF Types, Acks
  <2>3. \A r \in Replicas : /\ call'[r] \in Calls \cup {NoCall} /\ Alike(call[r], call'[r])
                            /\ pc[r] = "sync" => ~ call'[r].alone
    <3> SUFFICES ASSUME NEW r \in Replicas
                 PROVE  /\ call'[r] \in Calls \cup {NoCall} /\ Alike(call[r], call'[r])
                        /\ pc[r] = "sync" => ~ call'[r].alone
        OBVIOUS
    <3>1. CASE pc[r] # "sync" BY <1>2, <2>1, <3>1 DEF Types, Alike
    <3>2. CASE pc[r] = "sync"
      <4>1. call[r] \in Calls BY <1>2, <3>2 DEF Types, Fits
      <4>2. call'[r] = [call[r] EXCEPT !.alone = FALSE] BY <2>1, <3>2
      <4>3. call'[r] \in Calls /\ Alike(call[r], call'[r]) BY <4>1, <4>2, OtherUpdates
      <4>4. call'[r].alone = FALSE BY <4>1, <4>2 DEF Calls
      <4> QED BY <4>3, <4>4
    <3> QED BY <3>1, <3>2
  <2>4. OnlyMoves({}) BY <1>1, <2>3 DEF OnlyMoves
  <2>5. call' \in [Replicas -> Calls \cup {NoCall}] BY <2>1, <2>3
  <2>6. overlaps' \in {overlaps, overlaps \cup {"alerts"}} BY <2>1 DEF Note
  <2>7. Types' /\ Beats' /\ Leased' /\ Carried' /\ Shown'
        BY <1>1, <1>2, <2>2, <2>4, <2>5, <2>6, AckTypes DEF evidence, Types
  <2>8. Settling'
    <3> SUFFICES ASSUME NEW q \in Replicas, pc'[q] = "sync"
                 PROVE  /\ ~ call'[q].alone
                        /\ \A k \in call'[q].todo \ call'[q].conditions :
                              call'[q].listing[k] \in {"open", "acknowledged"}
        BY DEF Settling
    <3>1. /\ pc[q] = "sync" /\ call'[q].conditions = call[q].conditions
          /\ call'[q].listing = call[q].listing /\ call'[q].todo = call[q].todo
          BY <2>4, OthersStay
    <3> QED BY <2>3, <3>1 DEF Base, Settling
  <2>9. Held'
    <3> SUFFICES ASSUME "alerts" \notin overlaps' PROVE Held' BY DEF Held
    <3>1. Holders = {} BY <2>1 DEF Note
    <3>2. \A q \in Replicas : pc'[q] # "sync" BY <1>1, <3>1 DEF Holders
    <3>3. \A u \in Threads : ack'[u].step = "save" => u = t BY <2>2, <3>1 DEF Holders
    <3>4. alerts'[ack'[t].key] = "open" BY <1>1, <1>5, <2>2 DEF evidence
    <3> QED BY <3>2, <3>3, <3>4 DEF Held
  <2> QED BY <2>7, <2>8, <2>9 DEF Base
<1> QED BY <1>4, <1>5

LEMMA AckSaveBase ==
    ASSUME Base, NEW t \in Threads, AckSave(t)
    PROVE  Base'
<1>1. /\ ack[t].step = "save"
      /\ alerts' = [alerts EXCEPT ![ack[t].key] = "acknowledged"]
      /\ ack' = [ack EXCEPT ![t] = [step |-> "idle"]]
      /\ UNCHANGED <<beatVars, limits, snapshot, probes, pending, schedule, pc, call>>
      BY DEF AckSave
<1>2. Types BY DEF Base
<1>3. ack[t].key \in Keys BY <1>1, <1>2 DEF Types, Acks
<1>4. /\ ack' \in [Threads -> Acks] /\ ack'[t].step = "idle"
      /\ \A u \in Threads \ {t} : ack'[u] = ack[u]
      BY <1>1, <1>2 DEF Types, Acks
<1>5. alerts' \in [Keys -> AlertStates] BY <1>1, <1>2 DEF Types, AlertStates
<1>6. OnlyMoves({}) /\ call' \in [Replicas -> Calls \cup {NoCall}]
      BY <1>1, <1>2 DEF OnlyMoves, Alike, Types
<1>7. Types' /\ Beats' /\ Leased' /\ Carried' /\ Shown'
      BY <1>1, <1>4, <1>5, <1>6, AckTypes DEF beatVars
<1>8. Settling'
  <2> SUFFICES ASSUME NEW q \in Replicas, pc'[q] = "sync"
               PROVE  /\ ~ call'[q].alone
                      /\ \A k \in call'[q].todo \ call'[q].conditions :
                            call'[q].listing[k] \in {"open", "acknowledged"}
      BY DEF Settling
  <2> QED BY <1>1 DEF Base, Settling
<1>9. Held'
  <2> SUFFICES ASSUME "alerts" \notin overlaps' PROVE Held' BY DEF Held
  <2>1. "alerts" \notin overlaps BY <1>1 DEF beatVars
  <2>2. \A q \in Replicas : pc'[q] # "sync" BY <1>1, <2>1 DEF Base, Held
  <2>3. \A u \in Threads : ack'[u].step # "save" BY <1>1, <1>4, <2>1 DEF Base, Held
  <2> QED BY <2>2, <2>3 DEF Held
<1> QED BY <1>7, <1>8, <1>9 DEF Base

-----------------------------------------------------------------------------
(* Receipts.                                                               *)

\* A finite set that is not empty has an element of the least score.
LEMMA LeastElement ==
    ASSUME NEW T, IsFiniteSet(T), T # {}, NEW f, \A x \in T : f[x] \in Nat
    PROVE  \E b \in T : \A c \in T : f[b] <= f[c]
<1> DEFINE Upto(b) == {c \in T : f[c] <= f[b]}
           U == {Upto(b) : b \in T}
<1>1. IsWellFoundedOn(StrictSubsetOrdering(T), FiniteSubsetsOf(T))
      BY FS_StrictSubsetOrderingWellFounded
<1>2. U \subseteq FiniteSubsetsOf(T) /\ U # {}
  <2>1. \A b \in T : IsFiniteSet(Upto(b)) BY FS_Subset
  <2> QED BY <2>1 DEF FiniteSubsetsOf
<1>3. PICK x \in U : \A y \in U : <<y, x>> \notin StrictSubsetOrdering(T)
      BY <1>1, <1>2, WFMin
<1>4. PICK b \in T : x = Upto(b) BY <1>3
<1>5. ASSUME NEW c \in T, ~ (f[b] <= f[c]) PROVE FALSE
  <2>1. f[b] \in Nat /\ f[c] \in Nat OBVIOUS
  <2>2. f[c] < f[b] BY <1>5, <2>1
  <2>3. Upto(c) \subseteq Upto(b)
    <3> SUFFICES ASSUME NEW d \in T, f[d] <= f[c] PROVE f[d] <= f[b] OBVIOUS
    <3>1. f[d] \in Nat OBVIOUS
    <3> QED BY <2>1, <2>2, <3>1
  <2>4. b \in Upto(b) /\ b \notin Upto(c) BY <1>5, <2>1, <2>2
  <2>5. <<Upto(c), Upto(b)>> \in StrictSubsetOrdering(T)
    <3>1. Upto(c) \in SUBSET T /\ Upto(b) \in SUBSET T OBVIOUS
    <3>2. Upto(c) # Upto(b) BY <2>4
    <3> HIDE DEF Upto
    <3> QED BY <2>3, <3>1, <3>2 DEF StrictSubsetOrdering
  <2> QED BY <1>3, <1>4, <2>5
<1> QED BY <1>5

\* A finite set with bounded scores that is not empty has an element of the greatest.
LEMMA GreatestElement ==
    ASSUME NEW T, IsFiniteSet(T), T # {}, NEW f, NEW n \in Nat, \A x \in T : f[x] \in 0..n
    PROVE  \E b \in T : \A c \in T : f[c] <= f[b]
<1> DEFINE g == [x \in T |-> n - f[x]]
<1>1. \A x \in T : g[x] \in Nat /\ g[x] = n - f[x]
  <2> SUFFICES ASSUME NEW x \in T PROVE g[x] \in Nat /\ g[x] = n - f[x] OBVIOUS
  <2>1. f[x] \in 0..n OBVIOUS
  <2> QED BY <2>1
<1> HIDE DEF g
<1>2. PICK b \in T : \A c \in T : g[b] <= g[c] BY <1>1, LeastElement
<1>3. ASSUME NEW c \in T PROVE f[c] <= f[b]
  <2>1. f[c] \in 0..n /\ f[b] \in 0..n OBVIOUS
  <2>2. n - f[b] <= n - f[c] BY <1>1, <1>2
  <2> QED BY <2>1, <2>2
<1> QED BY <1>3

ReceiptOf(b) == beats[b] \in Receipts /\ beats[b].producer \in Producers
                /\ beats[b].sequence \in Nat /\ beats[b].score \in Nat

LEMMA ListedTyped ==
    ASSUME Types, NEW b \in Listed PROVE b \in BeatIds /\ ReceiptOf(b)
BY DEF Listed, Types, BeatTypeOK, Receipts, ReceiptOf

\* The newest receipt of a producer carries the highest of its sequences.
LEMMA LatestIsPeak ==
    ASSUME Types, Rising, NEW p \in Producers, ListedOf(p) # {}
    PROVE  /\ beats[Latest(ListedOf(p))].sequence = peak[p]
           /\ \A c \in ListedOf(p) : beats[c].sequence <= peak[p]
<1> DEFINE T == ListedOf(p)
           f == [x \in T |-> beats[x].score]
           l == Latest(T)
<1>1. \A x \in T : x \in Listed /\ ReceiptOf(x) /\ beats[x].producer = p
      BY ListedTyped DEF ListedOf
<1>2. IsFiniteSet(T) BY FS_Subset DEF ListedOf, Types
<1>3. clock \in Nat BY DEF Types, BeatTypeOK
<1>4. \A x \in T : f[x] \in 0..clock /\ f[x] = beats[x].score
      BY <1>1, <1>3 DEF Rising, ReceiptOf
<1> HIDE DEF f
<1>5. \E b \in T : \A c \in T : f[c] <= f[b] BY <1>2, <1>3, <1>4, GreatestElement
<1>6. \E b \in T : \A c \in T : beats[c].score <= beats[b].score BY <1>4, <1>5
<1> HIDE DEF T
<1>7. l \in T /\ \A c \in T : beats[c].score <= beats[l].score BY <1>6, Zenon DEF Latest
<1> HIDE DEF l
<1>8. beats[l].sequence = peak[p] BY <1>1, <1>7 DEF Rising, T, ListedOf
<1>9. ASSUME NEW c \in T PROVE beats[c].sequence <= peak[p]
  <2>1. peak[p] \in Nat BY DEF Types, BeatTypeOK
  <2>2. CASE c = l BY <1>8, <2>1, <2>2
  <2>3. CASE c # l
    <3>1. beats[c].score < beats[l].score BY <1>1, <1>7, <2>3 DEF Rising, ReceiptOf
    <3>2. beats[c].sequence < beats[l].sequence BY <1>1, <1>7, <2>3, <3>1 DEF Rising
    <3> QED BY <1>1, <1>7, <1>8, <2>1, <3>2 DEF ReceiptOf
  <2> QED BY <2>2, <2>3
<1> QED BY <1>8, <1>9 DEF T, l

\* The other parts know nothing of receipts.
LEMMA BeatingParts ==
    ASSUME Base, NEW r \in Replicas, Types', Others(r), ~ MidRun(r)',
           pc'[r] \notin {"observe", "snapshot", "sync"},
           UNCHANGED <<snapshot, probes, alerts, ack, lease>>,
           \A x \in {"lease", "snapshots", "alerts"} : x \in overlaps => x \in overlaps'
    PROVE  Leased' /\ Carried' /\ Shown' /\ Settling' /\ Held'
<1>1. OnlyMoves({r}) BY DEF Others, OnlyMoves
<1>2. AcksKept BY DEF AcksKept
<1>3. Leased' BY <1>1, LeasedStays DEF Base
<1>4. Carried'
  <2>1. Len(probes') >= Len(probes)
    <3>1. Len(probes) \in Nat BY LenProperties DEF Base, Types
    <3> QED BY <3>1
  <2> QED BY <1>1, <2>1, CarriedStays DEF Base
<1>5. Shown' BY <1>1, ShownStays DEF Base, Refreshing
<1>6. Settling' BY <1>1, <1>2, SettlingStays DEF Base
<1>7. Held' BY <1>1, <1>2, HeldStays DEF Base
<1> QED BY <1>3, <1>4, <1>5, <1>6, <1>7

LEMMA HeartbeatBase ==
    ASSUME Base, NEW r \in Replicas, NEW b \in Heartbeats, Heartbeat(r, b)
    PROVE  Base'
<1>1. /\ pc[r] = "idle" /\ MayAccept(b) /\ clock' = clock + 1 /\ pc'[r] = "hb_save"
      /\ Note(IF \E q \in Replicas : pc[q] \in {"hb_save", "hb_count", "hb_trim", "hb_delete"}
              THEN {"loops"} ELSE {})
      /\ UNCHANGED <<beats, delivered, horizon, peak, evidence, schedule, ack>>
      BY DEF Heartbeat, Goto, Base, Types
<1>2. Types /\ clock \in Nat BY DEF Base, Types, BeatTypeOK
<1>3. Types' /\ Others(r) BY <1>2, BeatTypes
<1>4. call'[r].beat = b /\ call'[r].at = clock + 1
  <2> DEFINE c == [NewCall("forced") EXCEPT !.beat = b, !.at = clock + 1]
  <2>1. c.beat = b /\ c.at = clock + 1
    <3>1. clock + 1 \in Nat BY <1>2
    <3> QED BY <3>1, BeatingCall
  <2>2. call' = [call EXCEPT ![r] = c] BY DEF Heartbeat
  <2> HIDE DEF c
  <2> QED BY <1>2, <2>1, <2>2 DEF Types
<1>5. Leased' /\ Carried' /\ Shown' /\ Settling' /\ Held'
      BY <1>1, <1>3, BeatingParts DEF MidRun, evidence, schedule, Note
<1>6. Beats'
  <2> SUFFICES ASSUME "loops" \notin overlaps' PROVE Beats' BY DEF Beats
  <2>1. "loops" \notin overlaps /\ \A q \in Replicas : pc[q] \notin Beating
        BY <1>1 DEF Note, Beating
  <2>2. Rising /\ Trimmed BY <2>1 DEF Base, Beats
  <2>3. Listed' = Listed /\ \A p : ListedOf(p)' = ListedOf(p) BY <1>1 DEF Listed, ListedOf
  <2>4. \A q \in Replicas : q # r => pc'[q] \notin Beating BY <1>3, <2>1 DEF Others
  <2>5. \A c \in Listed : ReceiptOf(c) /\ beats[c].score <= clock
        BY <1>2, <2>2, ListedTyped DEF Rising
  <2>6. Rising'
    <3>1. \A c \in Listed : beats[c].score <= clock' BY <1>1, <1>2, <2>5 DEF ReceiptOf
    <3> QED BY <1>1, <2>2, <2>3, <3>1 DEF Rising
  <2>7. Arriving(r)'
    <3>1. beats[b.id] = NoReceipt BY <1>1 DEF MayAccept
    <3>2. \A c \in Listed : beats[c].score < clock + 1 BY <1>2, <2>5 DEF ReceiptOf
    <3>3. ListedOf(b.producer) # {} => b.sequence > peak[b.producer]
      <4>1. b.producer \in Producers BY HeartbeatAssumption
      <4> QED BY <1>1, <1>2, <2>2, <4>1, LatestIsPeak DEF MayAccept
    <3>4. clock + 1 <= clock' BY <1>1, <1>2
    <3> QED BY <1>1, <1>4, <2>3, <3>1, <3>2, <3>3, <3>4 DEF Arriving
  <2>8. Trimmed' BY <1>1, <2>1, <2>2, <2>3, <2>4 DEF Trimmed, Beating, Note
  <2> QED BY <1>1, <2>4, <2>6, <2>7, <2>8 DEF Beats, Beating
<1> QED BY <1>3, <1>5, <1>6 DEF Base

LEMMA SaveBeatBase ==
    ASSUME Base, NEW r \in Replicas, SaveBeat(r)
    PROVE  Base'
<1> DEFINE b == call[r].beat
<1>1. /\ pc[r] = "hb_save" /\ StoreBeat(b, call[r].at) /\ pc'[r] = "hb_count"
      /\ UNCHANGED <<delivered, clock, horizon, overlaps, limits, evidence, schedule, call, ack>>
      BY DEF SaveBeat, Goto, Base, Types
<1>2. Types BY DEF Base
<1>3. Types' /\ Others(r) /\ Listed' = Listed \cup {b.id} BY <1>2, SaveTypes
<1>4. /\ b \in Heartbeats /\ b.id \in BeatIds /\ b.producer \in Producers
      /\ b.sequence \in Nat /\ call[r].at \in Nat
      BY <1>1, <1>2, HeartbeatAssumption DEF Types, Fits, Calls
<1>5. Leased' /\ Carried' /\ Shown' /\ Settling' /\ Held'
      BY <1>1, <1>3, BeatingParts DEF MidRun, evidence, schedule
<1>6. Beats'
  <2> SUFFICES ASSUME "loops" \notin overlaps' PROVE Beats' BY DEF Beats
  <2>1. /\ \A q \in Replicas : pc[q] \in Beating => q = r
        /\ Rising /\ Arriving(r)
        BY <1>1 DEF Base, Beats, Beating
  <2>2. \A q \in Replicas : q # r => pc'[q] \notin Beating BY <1>3, <2>1 DEF Others
  <2>3. /\ b.id \notin Listed /\ beats'[b.id] = BeatReceipt(b, call[r].at)
        /\ \A c \in Listed : beats'[c] = beats[c] /\ ReceiptOf(c) /\ beats[c].score < call[r].at
    <3>1. beats[b.id] = NoReceipt BY <2>1 DEF Arriving
    <3>2. \A c \in Listed : ReceiptOf(c) BY <1>2, ListedTyped
    <3>3. \A c \in Listed : c \in BeatIds /\ c # b.id BY <3>1 DEF Listed
    <3>4. beats' = [beats EXCEPT ![b.id] = BeatReceipt(b, call[r].at)]
          BY <1>1, <3>1 DEF StoreBeat
    <3> HIDE DEF b
    <3>5. beats \in [BeatIds -> Receipts \cup {NoReceipt}] BY <1>2 DEF Types, BeatTypeOK
    <3> QED BY <1>4, <2>1, <3>2, <3>3, <3>4, <3>5 DEF Arriving, b
  <2>4. /\ beats'[b.id].producer = b.producer /\ beats'[b.id].sequence = b.sequence
        /\ beats'[b.id].score = call[r].at
        BY <2>3 DEF BeatReceipt
  <2>5. \A c \in ListedOf(b.producer) : beats[c].sequence < b.sequence
    <3> SUFFICES ASSUME NEW c \in ListedOf(b.producer) PROVE beats[c].sequence < b.sequence
        OBVIOUS
    <3>1. beats[c].sequence <= peak[b.producer] BY <1>2, <1>4, <2>1, LatestIsPeak
    <3>2. b.sequence > peak[b.producer] BY <2>1 DEF Arriving
    <3>3. peak[b.producer] \in Nat BY <1>2, <1>4 DEF Types, BeatTypeOK
    <3>4. beats[c].sequence \in Nat BY <2>3 DEF ListedOf, ReceiptOf
    <3> QED BY <1>4, <3>1, <3>2, <3>3, <3>4
  <2>6. /\ peak'[b.producer] = b.sequence
        /\ \A p \in Producers \ {b.producer} : peak'[p] = peak[p]
    <3>1. peak \in [Producers -> Nat] BY <1>2 DEF Types, BeatTypeOK
    <3>2. ListedOf(b.producer) # {} => b.sequence > peak[b.producer] BY <2>1 DEF Arriving
    <3>3. peak' = [peak EXCEPT ![b.producer] =
                      IF ListedOf(b.producer) = {} THEN b.sequence
                      ELSE Higher(peak[b.producer], b.sequence)]
          BY <1>1 DEF StoreBeat
    <3> HIDE DEF b
    <3>4. ListedOf(b.producer) # {} => Higher(peak[b.producer], b.sequence) = b.sequence
          BY <1>4, <3>1, <3>2 DEF Higher
    <3> QED BY <1>4, <3>1, <3>3, <3>4
  <2>7. Rising'
    <3> SUFFICES /\ \A c, d \in Listed' :
                       c # d => /\ beats'[c].score # beats'[d].score
                                /\ beats'[c].producer = beats'[d].producer
                                      /\ beats'[c].score < beats'[d].score
                                      => beats'[c].sequence < beats'[d].sequence
                 /\ \A c \in Listed' :
                       /\ beats'[c].score <= clock'
                       /\ (\A d \in Listed' : beats'[d].producer = beats'[c].producer
                                                 => beats'[d].score <= beats'[c].score)
                             => beats'[c].sequence = peak'[beats'[c].producer]
        BY DEF Rising
    <3>1. ASSUME NEW c \in Listed', NEW d \in Listed', c # d
          PROVE  /\ beats'[c].score # beats'[d].score
                 /\ beats'[c].producer = beats'[d].producer /\ beats'[c].score < beats'[d].score
                       => beats'[c].sequence < beats'[d].sequence
      <4>1. CASE c \in Listed /\ d \in Listed BY <2>1, <2>3, <3>1, <4>1 DEF Rising
      <4>2. CASE c \in Listed /\ d = b.id
            BY <1>4, <2>3, <2>4, <2>5, <4>2 DEF ReceiptOf, ListedOf
      <4>3. CASE c = b.id /\ d \in Listed
            BY <1>4, <2>3, <2>4, <4>3 DEF ReceiptOf
      <4> QED BY <1>3, <3>1, <4>1, <4>2, <4>3
    <3>2. ASSUME NEW c \in Listed'
          PROVE  beats'[c].score <= clock'
      <4>1. CASE c \in Listed BY <1>1, <2>1, <2>3, <4>1 DEF Rising
      <4>2. CASE c = b.id BY <1>1, <2>1, <2>4, <4>2 DEF Arriving
      <4> QED BY <1>3, <4>1, <4>2
    <3>3. ASSUME NEW c \in Listed',
                 \A d \in Listed' : beats'[d].producer = beats'[c].producer
                                       => beats'[d].score <= beats'[c].score
          PROVE  beats'[c].sequence = peak'[beats'[c].producer]
      <4>1. CASE c = b.id BY <2>4, <2>6, <4>1
      <4>2. CASE c \in Listed
        <5>1. beats'[c] = beats[c] /\ ReceiptOf(c) /\ beats[c].score < call[r].at
              BY <2>3, <4>2
        <5>2. beats[c].producer # b.producer
          <6> SUFFICES ASSUME beats[c].producer = b.producer PROVE FALSE OBVIOUS
          <6>1. b.id \in Listed' /\ beats'[b.id].producer = beats'[c].producer
                BY <1>3, <2>4, <5>1
          <6>2. beats'[b.id].score <= beats'[c].score BY <3>3, <6>1
          <6> QED BY <1>4, <2>4, <5>1, <6>2 DEF ReceiptOf
        <5>3. \A d \in Listed : beats[d].producer = beats[c].producer
                                     => beats[d].score <= beats[c].score
              BY <1>3, <2>3, <3>3, <5>1
        <5>4. beats[c].sequence = peak[beats[c].producer] BY <2>1, <4>2, <5>3 DEF Rising
        <5> QED BY <2>6, <5>1, <5>2, <5>4 DEF ReceiptOf
      <4> QED BY <1>3, <4>1, <4>2
    <3> QED BY <3>1, <3>2, <3>3
  <2>8. Trimmed' BY <1>1, <2>2 DEF Trimmed, Beating
  <2> QED BY <1>1, <2>2, <2>7, <2>8 DEF Beats, Beating
<1> QED BY <1>3, <1>5, <1>6 DEF Base

LEMMA CountBase ==
    ASSUME Base, NEW r \in Replicas, CountBeats(r)
    PROVE  Base'
<1>1. Types BY DEF Base
<1>2. CASE Overflow = 0 BY <1>1, <1>2, CountOnward, OnwardBase
<1>3. CASE Overflow # 0
  <2>1. /\ pc[r] = "hb_count" /\ UNCHANGED <<beatVars, limits, evidence, schedule, ack>>
        /\ pc' = [pc EXCEPT ![r] = "hb_trim"] /\ call' = [call EXCEPT ![r].overflow = Overflow]
        BY <1>3 DEF CountBeats, Goto
  <2>2. Types' /\ Others(r) BY <1>1, CountTypes DEF Moves
  <2>3. pc'[r] = "hb_trim" BY <1>1, <2>1 DEF Types
  <2>4. Leased' /\ Carried' /\ Shown' /\ Settling' /\ Held'
        BY <2>1, <2>2, <2>3, BeatingParts DEF MidRun, evidence, schedule, beatVars
  <2>5. Beats'
    <3> SUFFICES ASSUME "loops" \notin overlaps' PROVE Beats' BY DEF Beats
    <3>1. /\ \A q \in Replicas : pc[q] \in Beating => q = r
          /\ Rising
          BY <2>1 DEF Base, Beats, Beating, beatVars
    <3>2. \A q \in Replicas : q # r => pc'[q] \notin Beating BY <2>2, <3>1 DEF Others
    <3>3. Rising' BY <2>1, <3>1 DEF Rising, beatVars, Listed
    <3>4. call'[r].overflow = Overflow
      <4>1. call[r] \in Calls BY <1>1, <2>1 DEF Types, Fits
      <4>2. call' = [call EXCEPT ![r] = [call[r] EXCEPT !.overflow = Overflow]] BY <2>1
      <4>3. [call[r] EXCEPT !.overflow = Overflow].overflow = Overflow BY <4>1 DEF Calls
      <4> QED BY <1>1, <4>2, <4>3 DEF Types
    <3>5. Cardinality(Listed) = Retention + Overflow
      <4>1. Cardinality(Listed) \in Nat BY <1>1, FS_CardinalityType DEF Types
      <4> QED BY <1>3, <4>1, HeartbeatAssumption DEF Overflow
    <3>6. Listed' = Listed BY <2>1 DEF beatVars, Listed
    <3>7. Trimmed' BY <2>3, <3>2, <3>4, <3>5, <3>6 DEF Trimmed, Beating
    <3> QED BY <2>3, <3>2, <3>3, <3>7 DEF Beats, Beating
  <2> QED BY <2>2, <2>4, <2>5 DEF Base
<1> QED BY <1>2, <1>3

LEMMA ListExpiredBase ==
    ASSUME Base, NEW r \in Replicas, ListExpired(r)
    PROVE  Base'
<1>1. Types BY DEF Base
<1>2. pc[r] = "hb_trim" /\ UNCHANGED <<beatVars, limits, evidence, schedule, ack>>
      BY DEF ListExpired
<1>3. /\ Types' /\ Others(r) /\ pc'[r] = "hb_delete"
      /\ call'[r].expired = Oldest(call[r].overflow) /\ call'[r].overflow = call[r].overflow
      BY <1>1, ListExpiredTypes DEF Moves
<1>4. Leased' /\ Carried' /\ Shown' /\ Settling' /\ Held'
      BY <1>2, <1>3, BeatingParts DEF MidRun, evidence, schedule, beatVars
<1>5. Beats'
  <2> SUFFICES ASSUME "loops" \notin overlaps' PROVE Beats' BY DEF Beats
  <2>1. /\ \A q \in Replicas : pc[q] \in Beating => q = r
        /\ Rising /\ Cardinality(Listed) = Retention + call[r].overflow
        BY <1>2 DEF Base, Beats, Beating, beatVars, Trimmed
  <2>2. \A q \in Replicas : q # r => pc'[q] \notin Beating BY <1>3, <2>1 DEF Others
  <2>3. Rising' BY <1>2, <2>1 DEF Rising, beatVars, Listed
  <2>4. Listed' = Listed BY <1>2 DEF beatVars, Listed
  <2>5. ExpiredListed(r)' BY <1>2, <1>3, ExpiredStay DEF beatVars
  <2>6. Trimmed' BY <1>3, <2>1, <2>2, <2>4, <2>5 DEF Trimmed, Beating
  <2> QED BY <1>3, <2>2, <2>3, <2>6 DEF Beats, Beating
<1> QED BY <1>3, <1>4, <1>5 DEF Base

\* The receipts that were before b, by their scores.
Before(b) == {c \in Listed : beats[c].score < beats[b].score}

\* What a trim leaves are the newest: as many as are retained, with their order.
LEMMA TrimLeaves ==
    ASSUME Types, NEW n \in Nat, Evict(Oldest(n))
    PROVE  /\ Listed' = {b \in Listed : Cardinality(Before(b)) >= n}
           /\ \A b \in Listed' : beats'[b] = beats[b]
           /\ Cardinality(Listed) = Retention + n => Cardinality(Listed') <= Retention
           /\ \A b \in Listed', c \in Listed \ Listed' : beats[c].score <= beats[b].score
<1> DEFINE kept == {b \in Listed : Cardinality(Before(b)) >= n}
<1>1. \A b \in BeatIds : IsFiniteSet(Before(b)) /\ Cardinality(Before(b)) \in Nat
  <2> SUFFICES ASSUME NEW b \in BeatIds
               PROVE  IsFiniteSet(Before(b)) /\ Cardinality(Before(b)) \in Nat
      OBVIOUS
  <2>1. IsFiniteSet(Before(b)) BY FS_Subset DEF Before, Types
  <2> QED BY <2>1, FS_CardinalityType
<1>2. \A b \in BeatIds : beats'[b] = IF b \in Listed /\ Cardinality(Before(b)) < n
                                     THEN NoReceipt ELSE beats[b]
      BY DEF Evict, Oldest, Before
<1>3. Listed' = kept
  <2>1. \A b \in BeatIds : ~ (Cardinality(Before(b)) < n) <=> Cardinality(Before(b)) >= n
        BY <1>1
  <2> QED BY <1>2, <2>1 DEF Listed
<1>4. \A b \in Listed' : beats'[b] = beats[b] BY <1>1, <1>2, <1>3 DEF Listed
<1>5. ASSUME Cardinality(Listed) = Retention + n PROVE Cardinality(Listed') <= Retention
  <2>1. CASE Listed' = {} BY <2>1, FS_EmptySet, HeartbeatAssumption
  <2>2. CASE Listed' # {}
    <3> DEFINE f == [x \in Listed |-> beats[x].score]
    <3>1. \A x \in Listed : f[x] \in Nat /\ f[x] = beats[x].score BY ListedTyped DEF ReceiptOf
    <3> HIDE DEF f
    <3>2. Listed' \subseteq Listed BY <1>3
    <3>3. IsFiniteSet(Listed') BY <3>2, FS_Subset DEF Types
    <3>4. \A x \in Listed' : f[x] \in Nat BY <3>1, <3>2
    <3>5. PICK b \in Listed' : \A c \in Listed' : f[b] <= f[c]
          BY <2>2, <3>3, <3>4, LeastElement
    <3>6. Before(b) \cap Listed' = {}
      <4> SUFFICES ASSUME NEW c \in Listed', c \in Before(b) PROVE FALSE OBVIOUS
      <4>1. f[b] <= f[c] /\ f[c] < f[b] BY <3>1, <3>2, <3>5 DEF Before
      <4> QED BY <3>4, <4>1
    <3>7. /\ Cardinality(Before(b)) \in Nat /\ Cardinality(Before(b)) >= n
          /\ IsFiniteSet(Before(b))
          BY <1>1, <1>3 DEF Listed
    <3>8. Cardinality(Before(b) \cup Listed') = Cardinality(Before(b)) + Cardinality(Listed')
      <4>1. Cardinality(Before(b) \cap Listed') = 0 BY <3>6, FS_EmptySet
      <4>2. Cardinality(Listed') \in Nat BY <3>3, FS_CardinalityType
      <4>3. Cardinality(Before(b) \cup Listed')
                = Cardinality(Before(b)) + Cardinality(Listed') - Cardinality(Before(b) \cap Listed')
            BY <3>3, <3>7, FS_Union
      <4> QED BY <3>7, <4>1, <4>2, <4>3
    <3>9. Cardinality(Before(b) \cup Listed') <= Cardinality(Listed)
      <4>1. Before(b) \cup Listed' \in SUBSET Listed BY <3>2 DEF Before
      <4> QED BY <4>1, FS_Subset DEF Types
    <3>10. Cardinality(Listed') \in Nat BY <3>3, FS_CardinalityType
    <3> QED BY <1>5, <3>7, <3>8, <3>9, <3>10, HeartbeatAssumption
  <2> QED BY <2>1, <2>2
<1>6. ASSUME NEW b \in Listed', NEW c \in Listed \ Listed'
      PROVE  beats[c].score <= beats[b].score
  <2>1. b \in Listed /\ c \in Listed BY <1>3
  <2>2. beats[b].score \in Nat /\ beats[c].score \in Nat BY <2>1, ListedTyped DEF ReceiptOf
  <2> SUFFICES ASSUME beats[b].score < beats[c].score PROVE FALSE BY <2>2
  <2>3. Before(b) \subseteq Before(c)
    <3> SUFFICES ASSUME NEW d \in Listed, beats[d].score < beats[b].score
                 PROVE  beats[d].score < beats[c].score
        BY DEF Before
    <3>1. beats[d].score \in Nat BY ListedTyped DEF ReceiptOf
    <3> QED BY <2>2, <3>1
  <2>4. b \in BeatIds /\ c \in BeatIds BY <2>1 DEF Listed
  <2>5. Cardinality(Before(b)) <= Cardinality(Before(c)) BY <1>1, <2>3, <2>4, FS_Subset
  <2>6. Cardinality(Before(b)) >= n /\ ~ (Cardinality(Before(c)) >= n) BY <1>3
  <2> QED BY <1>1, <2>4, <2>5, <2>6
<1> QED BY <1>3, <1>4, <1>5, <1>6

LEMMA TrimBase ==
    ASSUME Base, NEW r \in Replicas, TrimBeats(r)
    PROVE  Base'
<1>1. /\ pc[r] = "hb_delete" /\ Evict(call[r].expired) /\ overlaps' = overlaps \ {"trimming"}
      /\ RunAgain(r, "forced")
      /\ UNCHANGED <<delivered, clock, horizon, peak, limits, evidence, schedule, ack>>
      BY DEF TrimBeats
<1>2. Types BY DEF Base
<1>3. Types' /\ Others(r) BY <1>2, TrimTypes
<1>4. pc'[r] = "acquire" BY <1>1, <1>2, RunTypes
<1>5. Leased' /\ Carried' /\ Shown' /\ Settling' /\ Held'
      BY <1>1, <1>3, <1>4, BeatingParts DEF MidRun, evidence, schedule
<1>6. Beats'
  <2> SUFFICES ASSUME "loops" \notin overlaps' PROVE Beats' BY DEF Beats
  <2>1. /\ \A q \in Replicas : pc[q] \in Beating => q = r
        /\ Rising /\ Cardinality(Listed) = Retention + call[r].overflow
        /\ call[r].expired = Oldest(call[r].overflow)
        BY <1>1 DEF Base, Beats, Beating, Trimmed, ExpiredListed
  <2>2. \A q \in Replicas : pc'[q] \notin Beating BY <1>3, <1>4, <2>1 DEF Others, Beating
  <2>3. call[r].overflow \in Nat BY <1>1, <1>2 DEF Types, Fits, Calls
  <2>4. /\ Listed' \subseteq Listed
        /\ \A b \in Listed' : beats'[b] = beats[b]
        /\ Cardinality(Listed') <= Retention
        /\ \A b \in Listed', c \in Listed \ Listed' : beats[c].score <= beats[b].score
        BY <1>1, <1>2, <2>1, <2>3, TrimLeaves
  <2>5. Rising'
    <3>1. ASSUME NEW b \in Listed',
                 \A c \in Listed' : beats'[c].producer = beats'[b].producer
                                       => beats'[c].score <= beats'[b].score
          PROVE  beats'[b].sequence = peak'[beats'[b].producer]
      <4>1. \A c \in Listed : beats[c].producer = beats[b].producer
                                 => beats[c].score <= beats[b].score
            BY <2>4, <3>1
      <4> QED BY <1>1, <2>1, <2>4, <4>1 DEF Rising
    <3> QED BY <1>1, <2>1, <2>4, <3>1 DEF Rising
  <2>6. Trimmed' BY <2>2, <2>4 DEF Trimmed, Beating
  <2> QED BY <2>2, <2>5, <2>6 DEF Beats, Beating
<1> QED BY <1>3, <1>5, <1>6 DEF Base

-----------------------------------------------------------------------------
LEMMA InitBase == Init => Base
<1> SUFFICES ASSUME Init PROVE Base OBVIOUS
<1>1. /\ BeatInit /\ pc = [r \in Replicas |-> "idle"] /\ call = [r \in Replicas |-> NoCall]
      /\ ack = [t \in Threads |-> [step |-> "idle"]]
      BY DEF Init
<1>2. Listed = {} BY <1>1 DEF BeatInit, Listed
<1>3. IsFiniteSet(Listed) /\ Cardinality(Listed) <= Retention
      BY <1>2, FS_EmptySet, HeartbeatAssumption
<1>4. BeatTypeOK BY <1>1 DEF BeatInit, BeatTypeOK
<1>5. limits \in Limits BY HealthAssumption DEF Init, Limits
<1>6. probes \in Seq({"available", "failed"}) /\ Len(probes) = 0 BY EmptySeq DEF Init
<1>7. snapshot \in 0..Len(probes) /\ pending \in [Replicas -> SUBSET (1..Len(probes))]
      BY <1>6 DEF Init
<1>8. alerts \in [Keys -> AlertStates] BY DEF Init, AlertStates
<1>9. /\ status \in SchedulerStates /\ lease \in Replicas \cup {"none", "lost"}
      /\ task \in [Replicas -> BOOLEAN]
      BY <1>5 DEF Init, SchedulerStates, Limits
<1>10. /\ pc \in [Replicas -> LoopStates] /\ call \in [Replicas -> Calls \cup {NoCall}]
       /\ ack \in [Threads -> Acks]
       BY <1>1 DEF LoopStates, Acks
<1>11. \A r \in Replicas : Fits(pc[r], call[r]) BY <1>1 DEF Fits
<1>12. Types BY <1>3, <1>4, <1>5, <1>6, <1>7, <1>8, <1>9, <1>10, <1>11 DEF Types
<1>13. Beats BY <1>1, <1>2, <1>3 DEF Beats, Beating, Rising, Trimmed
<1>14. Leased /\ Carried /\ Shown BY <1>1 DEF Leased, MidRun, Carried, Shown, Refreshing
<1>15. Settling /\ Held BY <1>1 DEF Settling, Held
<1> QED BY <1>12, <1>13, <1>14, <1>15 DEF Base

LEMMA BaseStep == Base /\ [Next]_vars => Base'
<1> SUFFICES ASSUME Base, [Next]_vars PROVE Base' OBVIOUS
<1> Types BY DEF Base
<1>1. ASSUME NEW r \in Replicas, Request(r) PROVE Base'
  <2>1. ASSUME NEW b \in Heartbeats, Heartbeat(r, b) PROVE Base' BY <2>1, HeartbeatBase
  <2>2. ASSUME NEW result \in {"available", "failed"}, Probe(r, result) PROVE Base'
        BY <2>2, ProbeBase
  <2>3. CASE ForcedRun(r) BY <2>3, StartOnward, OnwardBase
  <2> QED BY <1>1, <2>1, <2>2, <2>3 DEF Request
<1>2. ASSUME NEW r \in Replicas, Step(r) PROVE Base'
  <2>1. CASE SaveBeat(r) \/ CountBeats(r) \/ ListExpired(r) \/ TrimBeats(r)
        BY <2>1, SaveBeatBase, CountBase, ListExpiredBase, TrimBase
  <2>2. CASE RefuseBeat(r) \/ Acquire(r) \/ Extend(r) \/ Skip(r) \/ SyncDone(r)
        BY <2>2, SkipOnward, AcquireOnward, ExtendOnward, DoneOnward, OnwardBase
  <2>3. CASE Begin(r) \/ Refresh(r) BY <2>3, BeginBase, RefreshBase
  <2>4. CASE Observe(r) \/ SaveSnapshot(r) BY <2>4, ObserveBase, SaveSnapshotBase
  <2>5. CASE ListAlerts(r) \/ SyncAlert(r) BY <2>5, ListBase, SyncBase
  <2>6. CASE Finish(r) \/ Release(r) \/ DeleteLease(r)
        BY <2>6, FinishOnward, ReleaseOnward, OnwardBase
  <2> QED BY <1>2, <2>1, <2>2, <2>3, <2>4, <2>5, <2>6 DEF Step
<1>3. ASSUME NEW r \in Replicas, ScheduledRun(r) \/ StoreError(r) \/ ReplicaDies(r) PROVE Base'
      BY <1>3, StartOnward, ErrorOnward, DiesOnward, OnwardBase
<1>4. ASSUME NEW t \in Threads, Acknowledge(t) PROVE Base'
  <2>1. ASSUME NEW k \in Keys, AckRoute(t, k) PROVE Base' BY <2>1, AckRouteBase
  <2> QED BY <1>4, <2>1, AckGetBase, AckSaveBase DEF Acknowledge
<1>5. CASE LeaseExpires \/ LeaseExpiresEarly \/ Environment BY <1>5, LeaseBase, EnvironmentBase
<1>6. CASE UNCHANGED vars BY <1>6, StutterBase
<1> QED BY <1>1, <1>2, <1>3, <1>4, <1>5, <1>6 DEF Next

\* Every reachable state satisfies each part: the receipts of a producer rise with their
\* sequences, a run holds the lease, no older probe is on its way to the snapshot, and
\* copies of alerts are as those that are stored (provider_health.py _sync_alerts,
\* store.py save_attribution_heartbeat_receipt), as long as the history has not
\* recorded the overlap that breaks it.
THEOREM BaseHolds == Spec => []Base
<1>1. Init => Base BY InitBase
<1>2. Base /\ [Next]_vars => Base' BY BaseStep
<1> QED BY <1>1, <1>2, PTL DEF Spec

LEMMA BaseTyped == Base => TypeOK
BY DEF Base, Types, TypeOK

LEMMA BaseRetains == Base => RetentionIsKept
BY DEF Base, Beats, Trimmed, RetentionIsKept

LEMMA BaseOneEvaluator == Base => OneEvaluator
<1> SUFFICES ASSUME Base, "lease" \notin overlaps
             PROVE  Cardinality({r \in Replicas : MidRun(r)}) <= 1
    BY DEF OneEvaluator
<1> DEFINE runs == {r \in Replicas : MidRun(r)}
<1>1. runs \in SUBSET {lease} BY DEF Base, Leased
<1> HIDE DEF runs
<1>2. IsFiniteSet({lease}) /\ Cardinality({lease}) = 1 BY FS_Singleton
<1>3. Cardinality(runs) <= 1 BY <1>1, <1>2, FS_Subset
<1> QED BY <1>3 DEF runs

LEMMA BaseSettles == Base => EvaluationSettlesAlerts
<1> SUFFICES ASSUME Base, NEW r \in Replicas,
                    pc[r] = "sync", call[r].todo = {}, call[r].alone
             PROVE  {k \in Keys : Active(k)} = call[r].conditions
    BY DEF EvaluationSettlesAlerts
<1>1. call[r].conditions \in SUBSET Keys BY DEF Base, Types, Fits, Calls
<1>2. \A k \in Keys : Active(k) <=> k \in call[r].conditions BY DEF Base, Settling
<1> QED BY <1>1, <1>2

\* In every state receipts stay within the retention but while a save has still to
\* trim them, at most one run_once is between its acquire and its release, and an
\* evaluation that was alone leaves exactly the alerts of its conditions active.
THEOREM ConsistentHolds == Spec => []Consistent
<1>1. Base => Consistent
      BY BaseTyped, BaseRetains, BaseOneEvaluator, BaseSettles DEF Consistent
<1> QED BY <1>1, BaseHolds, PTL

-----------------------------------------------------------------------------
(* What no step does.                                                      *)

\* An alert goes through its life as if by itself.
Follows(k) ==
    alerts[k] # alerts'[k] /\ "alerts" \notin overlaps' =>
        \/ alerts'[k] = "open" /\ alerts[k] \in {"none", "resolved"}
        \/ alerts'[k] = "acknowledged" /\ alerts[k] = "open"
        \/ alerts'[k] = "resolved" /\ alerts[k] \in {"open", "acknowledged"}

LEMMA SyncFollows ==
    ASSUME Base, NEW r \in Replicas, SyncAlert(r), NEW k \in Keys
    PROVE  Follows(k)
<1> SUFFICES ASSUME alerts[k] # alerts'[k], "alerts" \notin overlaps' PROVE Follows(k)
    BY DEF Follows
<1>1. pc[r] = "sync" /\ "alerts" \notin overlaps BY DEF SyncAlert, beatVars
<1>2. PICK j \in call[r].todo :
          alerts' = [alerts EXCEPT ![j] = Synced(call[r].listing[j], j \in call[r].conditions)]
      BY DEF SyncAlert
<1>3. alerts \in [Keys -> AlertStates] BY DEF Base, Types
<1>4. j = k BY <1>2, <1>3
<1>5. call[r].listing[k] = alerts[k] BY <1>1, <1>4 DEF Base, Held
<1>6. alerts'[k] = Synced(alerts[k], k \in call[r].conditions) BY <1>2, <1>3, <1>4, <1>5
<1>7. k \notin call[r].conditions => alerts[k] \in {"open", "acknowledged"}
      BY <1>1, <1>4, <1>5 DEF Base, Settling
<1>8. alerts[k] \in AlertStates BY <1>3
<1>9. CASE k \in call[r].conditions BY <1>6, <1>8, <1>9 DEF Synced, Follows, AlertStates
<1>10. CASE k \notin call[r].conditions BY <1>6, <1>7, <1>10 DEF Synced, Follows
<1> QED BY <1>9, <1>10

LEMMA StepFollows ==
    ASSUME Base, [Next]_vars, NEW k \in Keys
    PROVE  Follows(k)
<1>1. CASE alerts' = alerts BY <1>1 DEF Follows
<1>2. ASSUME NEW r \in Replicas, Request(r) PROVE alerts' = alerts
      BY <1>2 DEF Request, Heartbeat, Probe, ForcedRun, evidence
<1>3. ASSUME NEW r \in Replicas, Step(r) PROVE alerts' = alerts \/ SyncAlert(r)
  <2>1. CASE SaveBeat(r) \/ RefuseBeat(r) \/ CountBeats(r) \/ ListExpired(r) \/ TrimBeats(r)
        BY <2>1 DEF SaveBeat, RefuseBeat, CountBeats, ListExpired, TrimBeats, evidence
  <2>2. CASE Acquire(r) \/ Extend(r) \/ Skip(r) \/ Begin(r) \/ Refresh(r)
        BY <2>2 DEF Acquire, Extend, Skip, Begin, Refresh, evidence
  <2>3. CASE Observe(r) \/ SaveSnapshot(r) \/ ListAlerts(r) \/ SyncDone(r)
        BY <2>3 DEF Observe, SaveSnapshot, ListAlerts, SyncDone, evidence
  <2>4. CASE Finish(r) \/ Release(r) \/ DeleteLease(r)
        BY <2>4 DEF Finish, Release, DeleteLease, evidence
  <2> QED BY <1>3, <2>1, <2>2, <2>3, <2>4 DEF Step
<1>4. ASSUME NEW r \in Replicas, ScheduledRun(r) \/ StoreError(r) \/ ReplicaDies(r)
      PROVE  alerts' = alerts
      BY <1>4 DEF ScheduledRun, StoreError, ReplicaDies, evidence
<1>5. ASSUME NEW t \in Threads, Acknowledge(t) PROVE Follows(k)
  <2>1. CASE AckSave(t)
    <3>1. /\ ack[t].step = "save"
          /\ alerts' = [alerts EXCEPT ![ack[t].key] = "acknowledged"]
          /\ overlaps' = overlaps
          BY <2>1 DEF AckSave, beatVars
    <3>2. "alerts" \notin overlaps => alerts[ack[t].key] = "open" BY <3>1 DEF Base, Held
    <3>3. alerts \in [Keys -> AlertStates] BY DEF Base, Types
    <3> QED BY <3>1, <3>2, <3>3 DEF Follows
  <2>2. CASE ~ AckSave(t)
    <3>1. alerts' = alerts BY <1>5, <2>2 DEF Acknowledge, AckRoute, AckGet, evidence
    <3> QED BY <1>1, <3>1
  <2> QED BY <2>1, <2>2
<1>6. CASE LeaseExpires \/ LeaseExpiresEarly \/ Environment \/ UNCHANGED vars
  <2>1. alerts' = alerts
        BY <1>6 DEF LeaseExpires, LeaseExpiresEarly, Environment, vars, evidence
  <2> QED BY <1>1, <2>1
<1>7. ASSUME NEW r \in Replicas, Step(r) PROVE Follows(k) BY <1>1, <1>3, <1>7, SyncFollows
<1> QED BY <1>1, <1>2, <1>4, <1>5, <1>6, <1>7 DEF Next

\* An alert is opened once per incident, acknowledged while it is open and resolved
\* while it is active (_sync_alerts, acknowledge), in any number of evaluations of
\* any number of replicas, as long as no two copies of alerts overlap.
THEOREM AlertsFollowTheirCycle == Spec => AlertLifecycle
<1>1. Base /\ [Next]_vars =>
          [\A k \in Keys :
              LET old == alerts[k]  new == alerts'[k]
              IN old # new /\ "alerts" \notin overlaps' =>
                    \/ new = "open" /\ old \in {"none", "resolved"}
                    \/ new = "acknowledged" /\ old = "open"
                    \/ new = "resolved" /\ old \in {"open", "acknowledged"}]_vars
      BY StepFollows DEF Follows
<1> QED BY <1>1, BaseHolds, PTL DEF Spec, AlertLifecycle

\* A receipt that is new carries a sequence above all since one was retained.
Rises(b) ==
    beats[b] = NoReceipt /\ beats'[b] # NoReceipt =>
        \/ beats'[b].sequence > peak[beats'[b].producer]
        \/ ListedOf(beats'[b].producer) = {}
        \/ "loops" \in overlaps

LEMMA SaveRises ==
    ASSUME Base, NEW r \in Replicas, SaveBeat(r), NEW b \in BeatIds
    PROVE  Rises(b)
<1> SUFFICES ASSUME beats[b] = NoReceipt, beats'[b] # NoReceipt, "loops" \notin overlaps
             PROVE  \/ beats'[b].sequence > peak[beats'[b].producer]
                    \/ ListedOf(beats'[b].producer) = {}
    BY DEF Rises
<1>1. pc[r] = "hb_save" /\ StoreBeat(call[r].beat, call[r].at) BY DEF SaveBeat
<1>2. Types /\ Arriving(r) BY <1>1 DEF Base, Beats
<1>3. beats \in [BeatIds -> Receipts \cup {NoReceipt}] BY <1>2 DEF Types, BeatTypeOK
<1>4. call[r].beat.id = b BY <1>1, <1>3 DEF StoreBeat
<1>5. beats'[b] = BeatReceipt(call[r].beat, call[r].at) BY <1>1, <1>3, <1>4 DEF StoreBeat
<1>6. beats'[b].sequence = call[r].beat.sequence /\ beats'[b].producer = call[r].beat.producer
      BY <1>5 DEF BeatReceipt
<1> QED BY <1>2, <1>6 DEF Arriving

\* The probe that is shown stays, or a newer one follows.
GoesOn == snapshot' >= snapshot \/ "snapshots" \in overlaps'

LEMMA SnapshotGoesOn ==
    ASSUME Base, NEW r \in Replicas, SaveSnapshot(r)
    PROVE  GoesOn
<1>1. pc[r] = "snapshot" /\ snapshot' \in {snapshot, call[r].probe} /\ overlaps' = overlaps
      BY DEF SaveSnapshot, IndexSnapshot, beatVars
<1>2. snapshot \in Nat /\ call[r].probe \in Nat
      BY <1>1 DEF Base, Types, Fits, Calls
<1>3. "snapshots" \notin overlaps => snapshot <= call[r].probe BY <1>1 DEF Base, Shown
<1> QED BY <1>1, <1>2, <1>3 DEF GoesOn

LEMMA StepGoesOn ==
    ASSUME Base, [Next]_vars
    PROVE  GoesOn /\ \A b \in BeatIds : Rises(b)
<1> USE DEF evidence, beatVars
<1>1. ASSUME snapshot' = snapshot PROVE GoesOn
  <2>1. snapshot \in Nat BY DEF Base, Types
  <2> QED BY <1>1, <2>1 DEF GoesOn
<1>2. ASSUME beats' = beats PROVE \A b \in BeatIds : Rises(b) BY <1>2 DEF Rises
<1>3. ASSUME NEW r \in Replicas, Request(r) PROVE UNCHANGED <<beats, snapshot>>
      BY <1>3 DEF Request, Heartbeat, Probe, ForcedRun
<1>4. ASSUME NEW r \in Replicas, Step(r)
      PROVE  /\ snapshot' = snapshot \/ SaveSnapshot(r)
             /\ beats' = beats \/ SaveBeat(r) \/ TrimBeats(r)
  <2>1. CASE SaveBeat(r) \/ RefuseBeat(r) \/ CountBeats(r) \/ ListExpired(r) \/ TrimBeats(r)
        BY <2>1 DEF SaveBeat, RefuseBeat, CountBeats, ListExpired, TrimBeats
  <2>2. CASE Acquire(r) \/ Extend(r) \/ Skip(r) \/ Begin(r) \/ Refresh(r)
        BY <2>2 DEF Acquire, Extend, Skip, Begin, Refresh
  <2>3. CASE Observe(r) \/ SaveSnapshot(r) \/ ListAlerts(r) \/ SyncAlert(r) \/ SyncDone(r)
        BY <2>3 DEF Observe, SaveSnapshot, ListAlerts, SyncAlert, SyncDone
  <2>4. CASE Finish(r) \/ Release(r) \/ DeleteLease(r)
        BY <2>4 DEF Finish, Release, DeleteLease
  <2> QED BY <1>4, <2>1, <2>2, <2>3, <2>4 DEF Step
<1>5. ASSUME NEW r \in Replicas, TrimBeats(r) PROVE \A b \in BeatIds : Rises(b)
      BY <1>5 DEF TrimBeats, Evict, Rises
<1>6. ASSUME NEW r \in Replicas, ScheduledRun(r) \/ StoreError(r) \/ ReplicaDies(r)
      PROVE  UNCHANGED <<beats, snapshot>>
      BY <1>6 DEF ScheduledRun, StoreError, ReplicaDies
<1>7. ASSUME NEW t \in Threads, Acknowledge(t) PROVE UNCHANGED <<beats, snapshot>>
      BY <1>7 DEF Acknowledge, AckRoute, AckGet, AckSave
<1>8. CASE LeaseExpires \/ LeaseExpiresEarly \/ Environment \/ UNCHANGED vars
  <2>1. UNCHANGED <<beats, snapshot>>
        BY <1>8 DEF LeaseExpires, LeaseExpiresEarly, Environment, Deliver, Elapse, vars
  <2> QED BY <1>1, <1>2, <2>1
<1>9. ASSUME NEW r \in Replicas, Step(r) PROVE GoesOn /\ \A b \in BeatIds : Rises(b)
      BY <1>1, <1>2, <1>4, <1>5, <1>9, SaveRises, SnapshotGoesOn
<1> QED BY <1>1, <1>2, <1>3, <1>6, <1>7, <1>8, <1>9 DEF Next

\* The sequence of a producer never goes back while a receipt of it is retained to
\* compare with (_validate_sequence), and the probe that is shown never goes back to
\* an older one (_commit_snapshot), unless handlers or evaluations overlapped.
THEOREM NothingEverGoesBack == Spec => NothingGoesBack
<1>1. Base /\ [Next]_vars =>
          [\A b \in BeatIds :
              beats[b] = NoReceipt /\ beats'[b] # NoReceipt =>
                  \/ beats'[b].sequence > peak[beats'[b].producer]
                  \/ ListedOf(beats'[b].producer) = {}
                  \/ "loops" \in overlaps]_vars
      BY StepGoesOn DEF Rises
<1>2. Base /\ [Next]_vars => [snapshot' >= snapshot \/ "snapshots" \in overlaps']_vars
      BY StepGoesOn DEF GoesOn
<1> QED BY <1>1, <1>2, BaseHolds, PTL
        DEF Spec, NothingGoesBack, SequenceIncreases, ProbeNeverGoesBack
=============================================================================
