-------------------------- MODULE ProducerHeartbeat --------------------------
(***************************************************************************)
(* Heartbeats of the attribution producers and the freshness they prove.   *)
(* A replica of the Agent Hub takes a heartbeat on its event loop, without *)
(* an await, so only another replica's calls to Redis come in between.     *)
(*   source: services/agent_hub/npd_agent_hub/delivery_observability.py,   *)
(*           delivery_models.py, store.py                                  *)
(* The module holds the state and the steps; ProviderHealth, which acts on *)
(* the freshness, schedules them.                                          *)
(***************************************************************************)
EXTENDS Naturals, FiniteSets

CONSTANTS
    Replicas,     \* processes of the Agent Hub
    Producers,
    Required,     \* the producer that must be heard (REQUIRED_DELIVERY_PRODUCERS)
    BeatIds,      \* heartbeat ids
    Heartbeats,   \* what producers may send: id, producer and sequence
    Retention     \* HEARTBEAT_RECEIPT_RETENTION

ASSUME HeartbeatAssumption ==
    /\ Required \in Producers
    /\ Heartbeats \subseteq [id : BeatIds, producer : Producers, sequence : Nat \ {0}]
    /\ Retention \in Nat \ {0}

VARIABLES
    beats,      \* the stored heartbeat receipts by id, and their score in the index
    delivered,  \* when the last successful delivery of each producer was received, or 0
    clock,      \* receipts are stamped in the order of their arrival
    horizon,    \* receipts up to here are older than their freshness target
    peak,       \* history: the highest sequence stored for a producer while receipts of it were listed
    overlaps    \* history: which kinds of work overlapped, or were left half done

beatVars == <<beats, delivered, clock, horizon, peak, overlaps>>

Receipts  == [producer : Producers, sequence : Nat, at : Nat, score : Nat]
NoReceipt == [at |-> 0]

Listed    == {b \in BeatIds : beats[b] # NoReceipt}
ListedOf(p) == {b \in Listed : beats[b].producer = p}

\* The newest of the listed receipts, by the score of the sorted set.
Latest(bs) == CHOOSE b \in bs : \A c \in bs : beats[c].score <= beats[b].score

\* status(): the heartbeat of a producer speaks for it, a successful delivery
\* only for one that has no heartbeat.
Freshness(p) ==
    LET at == IF ListedOf(p) # {} THEN beats[Latest(ListedOf(p))].at ELSE delivered[p]
    IN IF at = 0 THEN "no_data" ELSE IF at > horizon THEN "fresh" ELSE "stale"

-----------------------------------------------------------------------------
\* Mutated form: the sequence may repeat.
MayAcceptEqual(b) ==
    /\ beats[b.id] = NoReceipt
    /\ ListedOf(b.producer) # {} =>
          b.sequence >= beats[Latest(ListedOf(b.producer))].sequence

\* A known id is answered or refused without a change, and so is a sequence that
\* does not exceed the one of the latest receipt of the producer.
MayAccept(b) ==
    /\ beats[b.id] = NoReceipt
    /\ ListedOf(b.producer) # {} =>
          b.sequence > beats[Latest(ListedOf(b.producer))].sequence

Higher(m, n) == IF m > n THEN m ELSE n

\* _build_heartbeat_receipt: signed, stamped and listed with the time it came.
BeatReceipt(b, at) ==
    [producer |-> b.producer, sequence |-> b.sequence, at |-> at, score |-> at]

\* SET NX keeps the receipt of the faster of two replicas, ZADD its score not.
StoreBeat(b, at) ==
    /\ beats' = [beats EXCEPT ![b.id] =
          IF @ = NoReceipt THEN BeatReceipt(b, at) ELSE [@ EXCEPT !.score = at]]
    /\ peak' = [peak EXCEPT ![b.producer] =
          IF ListedOf(b.producer) = {} THEN b.sequence ELSE Higher(@, b.sequence)]

\* Mutated form: one receipt too many is retained.
OverflowLate ==
    IF Cardinality(Listed) > Retention + 1 THEN Cardinality(Listed) - Retention ELSE 0

Overflow == IF Cardinality(Listed) > Retention THEN Cardinality(Listed) - Retention ELSE 0

\* The n oldest receipts, of whatever producer.
Oldest(n) ==
    {b \in Listed : Cardinality({c \in Listed : beats[c].score < beats[b].score}) < n}

Evict(expired) ==
    beats' = [b \in BeatIds |-> IF b \in expired THEN NoReceipt ELSE beats[b]]

\* A delivery of the producer is accepted (module AttributionDelivery).
Deliver(p) ==
    /\ clock' = clock + 1
    /\ delivered' = [delivered EXCEPT ![p] = clock + 1]
    /\ UNCHANGED <<beats, horizon, peak, overlaps>>

\* Time passes: every receipt so far is older than its target.
Elapse ==
    /\ horizon # clock
    /\ horizon' = clock
    /\ UNCHANGED <<beats, delivered, clock, peak, overlaps>>

-----------------------------------------------------------------------------
BeatTypeOK ==
    /\ beats \in [BeatIds -> Receipts \cup {NoReceipt}]
    /\ delivered \in [Producers -> Nat]
    /\ clock \in Nat /\ horizon \in 0..clock
    /\ peak \in [Producers -> Nat]
    /\ overlaps \subseteq {"loops", "trimming", "lease", "alerts", "snapshots"}

BeatInit ==
    /\ beats = [b \in BeatIds |-> NoReceipt]
    /\ delivered = [p \in Producers |-> 0]
    /\ clock = 0 /\ horizon = 0
    /\ peak = [p \in Producers |-> 0]
    /\ overlaps = {}
=============================================================================
