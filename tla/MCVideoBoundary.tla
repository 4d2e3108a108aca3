--------------------------- MODULE MCVideoBoundary ---------------------------
(* Instances of VideoBoundary for TLC. *)
EXTENDS VideoBoundary, TLC

CONSTANTS k1, k2, b1, b2, n1, n2, n3

AllSymmetry == Permutations(Replicas) \cup Permutations(Keys) \cup Permutations(Nonces)

Changed == [foreign |-> "changed"]
Other   == {Changed}

Webhook(e, c) == [event |-> e, named |-> e, live |-> TRUE, content |-> c, ts |-> 0]
Genuine(e, b) == Webhook(e, [project |-> e, body |-> b])

\* Requests that arrive early, late and twice, nonces that expire, and a lead of Ttl - Skew.
Bridging == [time |-> 4, sends |-> 2, aheads |-> {0, 1, 2}, kinds |-> {}, posts |-> 0,
             reposts |-> {}, kept |-> 1, deaths |-> 0]
\* All routes.
Reading == [time |-> 1, sends |-> 3, aheads |-> {0}, kinds |-> {"summary", "contract"},
            posts |-> 0, reposts |-> {}, kept |-> 1, deaths |-> 0]
\* One event, delivered late and again, changed, and of a type that is not live.
Receiving == [time |-> 1, sends |-> 1, aheads |-> {0}, kinds |-> {}, posts |-> 3,
              reposts |-> {Genuine(1, b1), Webhook(1, Changed),
                           [Webhook(1, Changed) EXCEPT !.live = FALSE]},
              kept |-> 2, deaths |-> 1]
\* Two drafts from the request to the list.
Whole == [time |-> 0, sends |-> 2, aheads |-> {0}, kinds |-> {}, posts |-> 2,
          reposts |-> {}, kept |-> 2, deaths |-> 1]

PassingScenarios == {Bridging, Reading, Receiving, Whole}
=============================================================================
