--------------------------- MODULE MCProviderHealth ---------------------------
(* Instances of ProviderHealth for TLC. *)
EXTENDS ProviderHealth, TLC

CONSTANTS r1, r2, n8n, other

\* The scheduler is on, and the environment does nothing.
Quiet == [enabled |-> TRUE, beats |-> 0, elapses |-> 0, deliveries |-> 0, probes |-> 0,
          forced |-> 0, acks |-> 0, expiries |-> 0, deaths |-> 0, errors |-> 0]

\* A sequence that repeats under another id, a higher one, one of the other producer.
Sent == {[id |-> 1, producer |-> n8n, sequence |-> 1], [id |-> 2, producer |-> n8n, sequence |-> 2],
         [id |-> 3, producer |-> n8n, sequence |-> 2], [id |-> 4, producer |-> other, sequence |-> 1]}

\* Heartbeats of two producers fill the retained receipts and evict some, a process
\* may die before it does; only they are evaluated.
ManyHeartbeats == [Quiet EXCEPT !.enabled = FALSE, !.beats = 4, !.deaths = 1]
\* A delivery gets old, a heartbeat proves the producer alive.
StaleAndHeard == [Quiet EXCEPT !.beats = 1, !.deliveries = 1, !.elapses = 1]
\* The same alert is acknowledged while evaluations go on.
Acknowledging == [Quiet EXCEPT !.deliveries = 1, !.acks = 1]
\* An operator forces a run, with the scheduler off, while a refresh awaits its probe.
Forcing == [Quiet EXCEPT !.enabled = FALSE, !.probes = 1, !.forced = 1, !.deliveries = 1,
                         !.elapses = 1]
\* Two probes are awaited and their results come in any order.
Probing == [Quiet EXCEPT !.probes = 2]
\* Runs that outlast the lease, and processes that die, while the producer falls silent.
Faulty == [Quiet EXCEPT !.deliveries = 1, !.elapses = 1, !.expiries = 1, !.deaths = 1]
\* Two failing Redis calls: they can end the loops of both schedulers.
TwoErrors == [Quiet EXCEPT !.deliveries = 1, !.elapses = 1, !.errors = 2]
\* A forced run that cannot release its lease, which the next one of the replica extends.
Unreleased == [Quiet EXCEPT !.forced = 1, !.errors = 1]

PassingScenarios == {ManyHeartbeats, StaleAndHeard, Acknowledging, Forcing, Probing,
                     Faulty, TwoErrors, Unreleased}
=============================================================================
