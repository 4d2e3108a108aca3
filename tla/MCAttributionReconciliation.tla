--------------------- MODULE MCAttributionReconciliation ---------------------
(* Instances of AttributionReconciliation for TLC. *)
EXTENDS AttributionReconciliation, TLC

CONSTANTS ca, cb, cc, t1, t2, t3, t4, t5, t6, o1, o2, l1

HandlerSymmetry == Permutations(Handlers)

Touch(k, o, l, n) == [campaign |-> k, opportunity |-> o, lead |-> l, at |-> n]

\* Campaign ca returns after cb and cc on the first opportunity; the lead of the
\* second knows cb, and its own touch comes later.
Touches == t1 :> Touch(ca, o1, None, 1) @@ t2 :> Touch(cb, o1, None, 2) @@ t3 :> Touch(cc, o1, None, 3)
             @@ t4 :> Touch(ca, o1, None, 4) @@ t5 :> Touch(cb, None, l1, 5)
             @@ t6 :> Touch(cc, o2, l1, 6)

Observe(o, l, hint, status, amount, closed) ==
    [opportunity |-> o, lead |-> l, hint |-> hint, status |-> status, amount |-> amount,
     closed |-> closed]

Won == Observe(o1, None, None, "won", 100, TRUE)

\* The hint of the first request agrees with the touch of the lead and contradicts that
\* of the opportunity; the last one names an opportunity twice.
SomeRequests ==
    {<<Won, Observe(o2, l1, cb, "open", 70, FALSE)>>,
     <<Won, Observe(o2, None, "unknown_campaign", "lost", 70, FALSE)>>,
     <<Observe(o2, l1, None, "open", 70, FALSE)>>,
     <<Won, Won>>}

Record(o, hint, stage, amount, dated) ==
    [id |-> o, hint |-> hint, stage |-> stage, amount |-> amount, dated |-> dated]

SomeRecords ==
    {<<Record(o1, ca, "closed won", 0, TRUE), Record(o2, cb, "proposal", 70, TRUE)>>,
     <<Record(o1, ca, "closed won", 100, TRUE), Record(o2, cb, "closed lost", 70, FALSE)>>, <<>>}

RecentReturn == {<<Won>>}
=============================================================================
