----------------------------- MODULE VideoBridge -----------------------------
(***************************************************************************)
(* The bridge to the Video Factory: the hub's client, and the factory as   *)
(* its contract double serves it.  A request is signed over a timestamp    *)
(* and a nonce, a project draft is created under an idempotency key, and   *)
(* each draft queues one event.                                            *)
(*   source: services/agent_hub/npd_agent_hub/video_factory/client.py,     *)
(*           auth.py, mock.py                                              *)
(* The transport is the environment: a request that was sent arrives when  *)
(* it likes, never, or again, and the answer may be lost.  What arrives is *)
(* what was sent: a signature covers method, path, query, timestamp, nonce *)
(* and body, the Idempotency-Key header is left as the client set it.      *)
(***************************************************************************)
EXTENDS Integers, Sequences, FiniteSets

CONSTANTS
    Keys,      \* idempotency keys of the callers
    Bodies,    \* canonical bodies of a project draft
    Nonces,    \* what the client's nonce factory may return
    Skew,      \* max_clock_skew_seconds
    Ttl,       \* replay_ttl_seconds, and nonce_ttl_seconds of the client
    Ahead,     \* how far the sender's clock may be ahead of the receiver's
    Scenarios, \* the instances of a run: what may happen, and its bounds
    NoProject

\* What the constructor of the verifier asks of its two windows.
ASSUME WindowAssumption ==
    Skew \in Nat \ {0} /\ Ahead \in Nat /\ Ttl \in Nat /\ Ttl >= Skew

ASSUME ScenarioAssumption ==
    /\ NoProject \notin Nat
    /\ \A s \in Scenarios : s.time \in Nat /\ s.sends \in Nat /\ s.aheads \subseteq 0..Ahead

VARIABLES
    scenario,    \* the instance this behaviour belongs to; never changes
    now,         \* the receivers' clock
    mode,        \* of the client: disabled, not_configured or mock
    claimed,     \* the client's registry: when each nonce may be used again
    wire,        \* the requests that were signed and sent
    registry,    \* the factory's registry of nonces
    projects,    \* the drafts created so far; the index is the ordinal of their ids
    bound,       \* the factory's idempotency table: the project and body of a key
    undelivered, \* projects whose event was not drained
    answers,     \* history: what the factory answered
    handled      \* history: when each request passed verification

bridge == <<mode, claimed, wire, registry, projects, bound, undelivered, answers, handled>>

-----------------------------------------------------------------------------
Times    == 0..(scenario.time + Ahead + Ttl)
Ordinals == 1..scenario.sends

\* What the client may send; the other capabilities raise before the transport.
Requests ==
    [kind : {"create"}, key : Keys, body : Bodies, nonce : Nonces, ts : Times]
        \cup [kind : {"summary"}, project : Ordinals, nonce : Nonces, ts : Times]
        \cup [kind : {"contract"}, nonce : Nonces, ts : Times]

Statuses == {"ok", "not_found", "conflict"}
Answers  == [request : Requests, status : Statuses, project : Ordinals \cup {NoProject}]

Unbound == [project |-> NoProject]

BridgeTypeOK ==
    /\ scenario \in Scenarios
    /\ now \in 0..scenario.time
    /\ mode \in {"disabled", "not_configured", "mock"}
    /\ claimed \in [Nonces -> Times] /\ registry \in [Nonces -> Times]
    /\ wire \subseteq Requests
    /\ projects \in Seq([key : Keys, body : Bodies])
    /\ bound \in [Keys -> [project : Ordinals, body : Bodies] \cup {Unbound}]
    /\ undelivered \in Seq(Ordinals)
    /\ answers \subseteq Answers
    /\ DOMAIN handled = wire /\ \A r \in wire : handled[r] \in Seq(Times)

BridgeInit ==
    /\ scenario \in Scenarios
    /\ now = 0
    /\ mode \in {"disabled", "not_configured", "mock"}
    /\ claimed = [n \in Nonces |-> 0] /\ registry = [n \in Nonces |-> 0]
    /\ wire = {} /\ answers = {} /\ handled = [r \in {} |-> <<>>]
    /\ projects = <<>> /\ undelivered = <<>>
    /\ bound = [k \in Keys |-> Unbound]

-----------------------------------------------------------------------------
\* Mutated form: the claim lasts as long as the constructor asks at least.
ClaimedBriefly(table, n) == [table EXCEPT ![n] = now + Skew]

\* claim_replay: the nonce is taken until its time is over.
Claimed(table, n) == [table EXCEPT ![n] = now + Ttl]

MayClaim(table, n) == table[n] <= now

\* _send: only a client in mock mode sends, each time with a nonce of its own.
Send(r, ahead) ==
    /\ mode = "mock"
    /\ Cardinality(wire) < scenario.sends
    /\ MayClaim(claimed, r.nonce)
    /\ r.ts = now + ahead /\ r \notin wire
    /\ claimed' = Claimed(claimed, r.nonce)
    /\ wire' = wire \cup {r}
    /\ handled' = [q \in wire' |-> IF q = r THEN <<>> ELSE handled[q]]
    /\ UNCHANGED <<mode, registry, projects, bound, undelivered, answers>>

CreateDraftProject(k, b, n, ahead) ==
    Send([kind |-> "create", key |-> k, body |-> b, nonce |-> n, ts |-> now + ahead], ahead)

\* A project and the request that created it have one ordinal, and are read alike.
GetProjectSummary(p, n, ahead) ==
    Send([kind |-> "summary", project |-> p, nonce |-> n, ts |-> now + ahead], ahead)

GetContract(n, ahead) ==
    Send([kind |-> "contract", nonce |-> n, ts |-> now + ahead], ahead)

-----------------------------------------------------------------------------
\* abs(now - timestamp) is within the allowed skew.
Timely(ts) == ts - now \in (-Skew)..Skew

\* Everything verify asks of a signed request, the claim of its nonce last.
Verified(r) == Timely(r.ts) /\ MayClaim(registry, r.nonce)

Answer(r, status, p) ==
    answers' = answers \cup {[request |-> r, status |-> status, project |-> p]}

\* Mutated form: a replay is looked up by the key and the body together.
ReplayOfBody(r) == bound[r.key].project # NoProject /\ bound[r.key].body = r.body

\* The factory knows the key, whatever body it comes with.
Replay(r) == bound[r.key].project # NoProject

Conflicting(r) == bound[r.key].body # r.body

\* A new draft queues its event, a replay does not.
EventQueued(r) ==
    IF Replay(r) THEN undelivered ELSE Append(undelivered, bound'[r.key].project)

\* _create_project: a new draft, the draft of the same request, or a conflict.
CreateProject(r) ==
    /\ r.kind = "create"
    /\ IF Replay(r)
       THEN UNCHANGED <<projects, bound>>
       ELSE /\ projects' = Append(projects, [key |-> r.key, body |-> r.body])
            /\ bound' = [bound EXCEPT ![r.key] = [project |-> Len(projects) + 1, body |-> r.body]]
    /\ IF Replay(r) /\ Conflicting(r)
       THEN Answer(r, "conflict", NoProject) /\ UNCHANGED undelivered
       ELSE Answer(r, "ok", bound'[r.key].project) /\ undelivered' = EventQueued(r)

ReadSummary(r) ==
    /\ r.kind = "summary"
    /\ IF r.project \in DOMAIN projects
       THEN Answer(r, "ok", r.project)
       ELSE Answer(r, "not_found", NoProject)
    /\ UNCHANGED <<projects, bound, undelivered>>

ReadContract(r) ==
    /\ r.kind = "contract"
    /\ Answer(r, "ok", NoProject)
    /\ UNCHANGED <<projects, bound, undelivered>>

\* handle: a request that fails verification is refused and changes nothing.
Handle(r) ==
    /\ r \in wire /\ Verified(r)
    /\ registry' = Claimed(registry, r.nonce)
    /\ handled' = [handled EXCEPT ![r] = Append(@, now)]
    /\ CreateProject(r) \/ ReadSummary(r) \/ ReadContract(r)
    /\ UNCHANGED <<mode, claimed, wire>>

\* drain_webhooks takes the oldest event; what it posts is in VideoBoundary.
Drain ==
    /\ undelivered # <<>>
    /\ undelivered' = Tail(undelivered)
    /\ UNCHANGED <<mode, claimed, wire, registry, projects, bound, answers, handled>>

-----------------------------------------------------------------------------
\* A request that was signed once is carried out again only if its timestamp was
\* so far ahead of the receiver's clock that it is accepted for as long as its
\* nonce is remembered, or longer: however often it arrives, and whatever the
\* clocks, every earlier time it was carried out had a lead of Ttl - Skew at least.
\* (ServiceRequestVerifier.verify, claim_replay)
NoRequestTwice ==
    \A r \in wire : \A i, j \in DOMAIN handled[r] :
        i < j => r.ts - handled[r][i] >= Ttl - Skew

\* Retries under one idempotency key, with fresh nonces, reordered or
\* repeated, are all answered with one project, and only for one body.
\* (_create_project)
RetriesAgree ==
    \A a, b \in answers :
        (/\ a.request.kind = "create" /\ b.request.kind = "create"
         /\ a.request.key = b.request.key /\ a.status = "ok" /\ b.status = "ok")
            => a.project = b.project /\ a.request.body = b.request.body
=============================================================================
