---------------------------- MODULE VideoBoundary ----------------------------
(***************************************************************************)
(* The boundary to the Video Factory, both ways: the bridge, and the       *)
(* signed webhooks with which the factory reports its events.  Replicas of *)
(* the hub receive them into one Redis; a replica receives one webhook at  *)
(* a time, since the route calls the receiver on its event loop.           *)
(*   source: services/agent_hub/npd_agent_hub/video_factory/receiver.py,   *)
(*           store.py, auth.py, router.py                                  *)
(* A webhook that was posted arrives when it likes, never, or again.  A    *)
(* webhook the receiver refuses (signature, window, envelope, event id of  *)
(* the header, type without a live emitter) changes nothing.               *)
(***************************************************************************)
EXTENDS VideoBridge

CONSTANTS Replicas, Foreign  \* what else may be signed under the id of an event

\* The bounds of the hub's side, and what a scenario lets the factory post again.
ASSUME RepostAssumption ==
    \A s \in Scenarios :
        /\ s.kept \in Nat /\ s.deaths \in Nat
        /\ \A w \in s.reposts :
              w \in [event : 1..s.sends, named : 1..s.sends, live : BOOLEAN,
                     content : [project : 1..s.sends, body : Bodies] \cup Foreign, ts : {0}]

VARIABLES
    posted,   \* the webhooks that were posted
    records,  \* the event key of Redis
    index,    \* the sorted set of events: the score of each
    audit,    \* the audit list
    pc, call, \* where each replica is, and its local variables
    accepted, \* history: what was answered 202
    deaths

events == <<posted, records, index, audit, pc, call, accepted, deaths>>
vars   == <<scenario, now, bridge, events>>

-----------------------------------------------------------------------------
\* The payload names the project and, through it, the draft.
Contents == [project : Ordinals, body : Bodies] \cup Foreign

\* Header and body name the same event, and only project.created is live.
Webhooks == [event : Ordinals, named : Ordinals, live : BOOLEAN, content : Contents, ts : Times]

Absent  == [at |-> "absent"]
Records == [content : Contents, signed : Times, at : 0..scenario.time]

NoCall  == [at |-> "none"]
Calls   == [webhook : Webhooks, at : 0..scenario.time, existing : Records \cup {Absent},
            outcome : {"accepted", "idempotent_replay", "conflict"}]

Entries == [event : Ordinals, content : Contents,
            outcome : {"accepted", "idempotent_replay", "conflict"}]

TypeOK ==
    /\ BridgeTypeOK
    /\ posted \subseteq Webhooks
    /\ records \in [Ordinals -> Records \cup {Absent}]
    /\ index \in [Ordinals -> (0..scenario.time) \cup {-1}]
    /\ audit \in Seq(Entries) /\ Len(audit) <= scenario.kept
    /\ pc \in [Replicas -> {"idle", "insert", "index", "read", "repair", "audit"}]
    /\ call \in [Replicas -> Calls \cup {NoCall}]
    /\ accepted \subseteq Entries
    /\ deaths \in 0..scenario.deaths

Init ==
    /\ BridgeInit
    /\ posted = {} /\ accepted = {} /\ audit = <<>> /\ deaths = 0
    /\ records = [e \in Ordinals |-> Absent]
    /\ index = [e \in Ordinals |-> -1]
    /\ pc = [h \in Replicas |-> "idle"]
    /\ call = [h \in Replicas |-> NoCall]

Goto(h, p) == pc' = [pc EXCEPT ![h] = p]
Stored == <<records, index, audit>>

-----------------------------------------------------------------------------
\* The factory posts the oldest event it has not delivered.
DrainWebhooks ==
    /\ Drain /\ Cardinality(posted) < scenario.posts
    /\ LET p == Head(undelivered) IN
       posted' = posted \cup {[event |-> p, named |-> p, live |-> TRUE, ts |-> now,
                               content |-> [project |-> p, body |-> projects[p].body]]}
    /\ UNCHANGED <<Stored, pc, call, accepted, deaths>>

\* External: the factory posts again what it posted, signed anew, or signs
\* something else: another content, another header, a type without emitter.
Repost(w) ==
    /\ Cardinality(posted) < scenario.posts
    /\ \E old \in posted : w.event = old.event
    /\ w.ts = now /\ posted' = posted \cup {w}
    /\ UNCHANGED <<bridge, Stored, pc, call, accepted, deaths>>

\* receive: verified, parsed, of the event that was signed, and of a live type.
Admitted(w) == Timely(w.ts) /\ w.named = w.event /\ w.live

Receive(h, w) ==
    /\ pc[h] = "idle" /\ w \in posted /\ Admitted(w)
    /\ Goto(h, "insert")
    /\ call' = [call EXCEPT ![h] = [webhook |-> w, at |-> now, existing |-> Absent,
                                    outcome |-> "accepted"]]
    /\ UNCHANGED <<bridge, posted, Stored, accepted, deaths>>

Event(h) == call[h].webhook.event
NewRecord(h) == [content |-> call[h].webhook.content, signed |-> call[h].webhook.ts,
                 at |-> call[h].at]

\* save_event: SET NX of the record.
InsertEvent(h) ==
    /\ pc[h] = "insert"
    /\ IF records[Event(h)] = Absent
       THEN records' = [records EXCEPT ![Event(h)] = NewRecord(h)] /\ Goto(h, "index")
       ELSE Goto(h, "read") /\ UNCHANGED records
    /\ UNCHANGED <<bridge, posted, index, audit, call, accepted, deaths>>

\* save_event: ZADD of the event that was inserted.
IndexEvent(h) ==
    /\ pc[h] = "index"
    /\ index' = [index EXCEPT ![Event(h)] = call[h].at]
    /\ Goto(h, "audit")
    /\ UNCHANGED <<bridge, posted, records, audit, call, accepted, deaths>>

\* Mutated form: every known event is a replay, whatever its body.
SameBodyAlways(h) == records[Event(h)] # Absent

SameBody(h) == records[Event(h)].content = call[h].webhook.content

\* save_event: GET of the existing record, a replay or a conflict.
ReadExisting(h) ==
    /\ pc[h] = "read"
    /\ Goto(h, IF SameBody(h) THEN "repair" ELSE "audit")
    /\ call' = [call EXCEPT ![h] = [@ EXCEPT !.existing = records[Event(h)],
                    !.outcome = IF SameBody(h) THEN "idempotent_replay" ELSE "conflict"]]
    /\ UNCHANGED <<bridge, posted, Stored, accepted, deaths>>

\* Mutated forms: the repair uses the time of the retry; it is left out.
RepairedNow(h) == [index EXCEPT ![Event(h)] = call[h].at]
RepairedNot(h) == index

Repaired(h) == [index EXCEPT ![Event(h)] = call[h].existing.at]

\* save_event: ZADD of the existing record, in case the index misses it.
RepairIndex(h) ==
    /\ pc[h] = "repair"
    /\ index' = Repaired(h)
    /\ Goto(h, "audit")
    /\ UNCHANGED <<bridge, posted, records, audit, call, accepted, deaths>>

Entry(h) == [event |-> Event(h), content |-> call[h].webhook.content, outcome |-> call[h].outcome]

\* Mutated form: the list is not trimmed.
AuditedAll(s) == s

\* append_audit: RPUSH and LTRIM in one pipeline; 5000 entries are kept.
Audited(s) == IF Len(s) > scenario.kept THEN Tail(s) ELSE s

\* receive: the outcome is audited and then answered, a conflict with 409.
AuditAndAnswer(h) ==
    /\ pc[h] = "audit"
    /\ audit' = Audited(Append(audit, Entry(h)))
    /\ accepted' = accepted \cup (IF call[h].outcome = "conflict" THEN {} ELSE {Entry(h)})
    /\ Goto(h, "idle") /\ call' = [call EXCEPT ![h] = NoCall]
    /\ UNCHANGED <<bridge, posted, records, index, deaths>>

\* The replica dies between two calls of Redis and is started again.
Die(h) ==
    /\ pc[h] # "idle" /\ deaths < scenario.deaths
    /\ deaths' = deaths + 1
    /\ Goto(h, "idle") /\ call' = [call EXCEPT ![h] = NoCall]
    /\ UNCHANGED <<bridge, posted, Stored, accepted>>

Bridge(A) == A /\ UNCHANGED events

Clock ==
    /\ now < scenario.time /\ now' = now + 1
    /\ UNCHANGED <<scenario, bridge, events>>

Factory ==
    \/ \E k \in Keys, b \in Bodies, n \in Nonces, a \in scenario.aheads :
          Bridge(CreateDraftProject(k, b, n, a))
    \/ \E p \in Ordinals, n \in Nonces, a \in scenario.aheads :
          "summary" \in scenario.kinds /\ Bridge(GetProjectSummary(p, n, a))
    \/ \E n \in Nonces, a \in scenario.aheads :
          "contract" \in scenario.kinds /\ Bridge(GetContract(n, a))
    \/ \E r \in wire : Bridge(Handle(r))
    \/ DrainWebhooks
    \/ \E w \in scenario.reposts : Repost([w EXCEPT !.ts = now])

Receiver(h) ==
    \/ \E w \in posted : Receive(h, w)
    \/ InsertEvent(h) \/ IndexEvent(h) \/ ReadExisting(h) \/ RepairIndex(h)
    \/ AuditAndAnswer(h) \/ Die(h)

Next ==
    \/ Clock
    \/ /\ Factory \/ \E h \in Replicas : Receiver(h)
       /\ UNCHANGED <<scenario, now>>

Spec == Init /\ [][Next]_vars

-----------------------------------------------------------------------------
\* An event that was answered 202 is stored with the body of that webhook and is
\* in the index that list_events reads, so that it is listed unless a thousand newer
\* ones are, although a replica may have died between the insertion of an event and
\* its index.  (save_event, "Repair a missing index entry after a process crash
\* between SET NX and ZADD")
AcknowledgedIsListed ==
    \A a \in accepted : records[a.event] # Absent /\ records[a.event].content = a.content
                            /\ index[a.event] # -1

\* Whoever indexes an event, the insertion or any repair, gives it the time of
\* its first receipt, and indexes nothing that get_event does not find.
IndexTellsFirstReceipt ==
    \A e \in Ordinals : index[e] # -1 => records[e] # Absent /\ index[e] = records[e].at

\* At most one delivery of an event is audited as accepted, and a conflict is
\* audited exactly when the body differs from the stored one.  (receive)
AuditTellsOutcome ==
    /\ \A i, j \in DOMAIN audit :
          /\ audit[i].event = audit[j].event
          /\ audit[i].outcome = "accepted" /\ audit[j].outcome = "accepted"
          => i = j
    /\ \A i \in DOMAIN audit :
          audit[i].outcome = "conflict" <=> audit[i].content # records[audit[i].event].content

\* One draft request leads to at most one listed project: of the events the
\* factory signed for its projects, no two belong to one idempotency key.
\* (_create_project, drain_webhooks, save_event)
OneListingPerKey ==
    \A e, f \in Ordinals :
        (/\ index[e] # -1 /\ index[f] # -1 /\ e # f
         /\ records[e].content \notin Foreign /\ records[f].content \notin Foreign)
            => projects[e].key # projects[f].key

\* Every state is well typed; index, audit and list tell what was received, whatever
\* was repeated, reordered or cut off.
Consistent ==
    /\ TypeOK
    /\ IndexTellsFirstReceipt
    /\ AuditTellsOutcome
    /\ OneListingPerKey
=============================================================================
