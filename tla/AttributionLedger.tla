-------------------------- MODULE AttributionLedger --------------------------
(***************************************************************************)
(* How source events reach the immutable touchpoint ledger of the Agent    *)
(* Hub.  An ingest request resolves its event to one campaign from the     *)
(* campaigns' own tracking contract and the registry of owner-verified     *)
(* mappings, and appends a touchpoint, finds it a duplicate, or keeps the  *)
(* event as an intake issue outside the ledger.  Owners register mappings, *)
(* operators replay issues and backfill finished touchpoints.  Every store *)
(* call is a step: routes run in a thread pool and no call locks another.  *)
(*   source: services/agent_hub/npd_agent_hub/attribution.py, store.py     *)
(* A request carries one event: a batch is what one handler does in turn.  *)
(***************************************************************************)
EXTENDS Naturals, Sequences, FiniteSets

CONSTANTS
    Handlers,       \* threads that serve attribution routes
    Events,         \* source event ids; each determines its touchpoint id and its issue id
    Contents,       \* what a producer sends under one source event id
    Campaigns,
    Contract,       \* the campaigns whose ids or UTM contract an event names
    Registrations,  \* owner requests to register a mapping; each gets a mapping id
    CampaignOf,     \* the campaign a registration verifies
    Matches,        \* the events that fit every identifier of a registration
    MappingLimit,   \* how many mappings are listed, 5000
    MaxOps, MaxDeaths  \* bounds: requests, handler deaths

ASSUME EvidenceAssumption ==
    /\ Contract \in [Events -> SUBSET Campaigns]
    /\ CampaignOf \in [Registrations -> Campaigns]
    /\ Matches \in [Registrations -> SUBSET Events]
ASSUME BoundAssumption == MappingLimit \in Nat \ {0} /\ MaxOps \in Nat /\ MaxDeaths \in Nat

VARIABLES
    registry,   \* the identity mappings, the newest last
    ledger,     \* the touchpoint of each event, or Absent
    listed,     \* the touchpoints in the sorted sets that every reader lists
    issue,      \* the intake issue of each event, or NoIssue
    pc, call,   \* where each handler is, and its local variables
    answered,   \* history: events of ingest requests that were answered
    raced,      \* history: two registrations were checked at once
    ops, deaths

stored  == <<registry, ledger, listed, issue>>
history == <<answered, raced>>
vars    == <<stored, pc, call, history, ops, deaths>>

-----------------------------------------------------------------------------
\* A touchpoint without its time stamps: the metadata of an ingested one names
\* the mappings that resolved it, a backfilled one is what the operator sent.
Touchpoints == [content : Contents, campaign : Campaigns, via : {"ingest", "backfill"},
                mappings : SUBSET Registrations]
Absent == [via |-> "absent"]

Issues  == [state : {"unknown", "conflict"}, status : {"pending", "resolved"}, content : Contents]
NoIssue == [status |-> "none"]

NoCall == [kind |-> "none"]
Ingests == [kind : {"ingest"}, event : Events, content : Contents,
            touchpoint : Touchpoints \cup {Absent}, verdict : {"unknown", "conflict"},
            copy : Issues \cup {NoIssue}]
Registering == [kind : {"register"}, mapping : Registrations]
Backfills == [kind : {"backfill"}, rest : SUBSET Events, event : Events \cup {"none"},
              touchpoint : Touchpoints]
Calls == Ingests \cup Registering \cup Backfills

HandlerStates == {"idle", "compare", "append", "index", "record", "close", "resolve",
                  "stamp", "restamp", "register", "fill", "fill_index"}

TypeOK ==
    /\ registry \in Seq(Registrations)
    /\ ledger \in [Events -> Touchpoints \cup {Absent}]
    /\ listed \subseteq Events
    /\ issue \in [Events -> Issues \cup {NoIssue}]
    /\ pc \in [Handlers -> HandlerStates]
    /\ call \in [Handlers -> Calls \cup {NoCall}]
    /\ answered \subseteq Events /\ raced \in BOOLEAN
    /\ ops \in 0..MaxOps /\ deaths \in 0..MaxDeaths

Init ==
    /\ registry = <<>> /\ listed = {}
    /\ ledger = [e \in Events |-> Absent]
    /\ issue = [e \in Events |-> NoIssue]
    /\ pc = [h \in Handlers |-> "idle"]
    /\ call = [h \in Handlers |-> NoCall]
    /\ answered = {} /\ raced = FALSE
    /\ ops = 0 /\ deaths = 0

Goto(h, p) == pc' = [pc EXCEPT ![h] = p]

Accept(h, p, c) ==
    /\ pc[h] = "idle" /\ ops < MaxOps
    /\ ops' = ops + 1
    /\ Goto(h, p) /\ call' = [call EXCEPT ![h] = c]

End(h) == Goto(h, "idle") /\ call' = [call EXCEPT ![h] = NoCall]

-----------------------------------------------------------------------------
(* register_identity_mapping.                                              *)

\* What every reader gets to see of the registry.
ListedMappings == {registry[i] : i \in {j \in DOMAIN registry : j + MappingLimit > Len(registry)}}

Overlap(m, n) == Matches[m] \cap Matches[n] # {}

\* Mutated form: only an identical identity is refused.
MayRegisterOverlap(m) ==
    \A n \in ListedMappings : Matches[m] = Matches[n] => CampaignOf[m] = CampaignOf[n]

\* No listed mapping of another campaign has the identity or overlaps it.  (An
\* identity that its own campaign already has is answered without a save.)
MayRegister(m) ==
    \A n \in ListedMappings :
        /\ Overlap(m, n) => CampaignOf[m] = CampaignOf[n]
        /\ Matches[m] = Matches[n] => CampaignOf[m] # CampaignOf[n]

Register(h, m) ==
    /\ \A i \in DOMAIN registry : registry[i] # m
    /\ \A g \in Handlers : pc[g] = "register" => call[g].mapping # m
    /\ MayRegister(m)
    /\ Accept(h, "register", [kind |-> "register", mapping |-> m])
    /\ raced' = (raced \/ \E g \in Handlers : pc[g] = "register")
    /\ UNCHANGED <<stored, answered, deaths>>

\* Mutated form: the campaign is listed instead of the mapping.
SaveCampaign(h) ==
    /\ pc[h] = "register"
    /\ registry' = Append(registry, CampaignOf[call[h].mapping])
    /\ End(h)
    /\ UNCHANGED <<ledger, listed, issue, history, ops, deaths>>

\* SET NX of the mapping, then ZADD: readers go by the sorted set, which is in the order
\* of creation.  (Two that were checked at once may be saved the other way round.)
SaveMapping(h) ==
    /\ pc[h] = "register"
    /\ registry' = Append(registry, call[h].mapping)
    /\ End(h)
    /\ UNCHANGED <<ledger, listed, issue, history, ops, deaths>>

-----------------------------------------------------------------------------
(* ingest_source_touchpoints.                                              *)
Mappings(e)  == {m \in ListedMappings : e \in Matches[m]}
Evidence(e)  == Contract[e] \cup {CampaignOf[m] : m \in Mappings(e)}
Resolved(e, c) ==
    {[content |-> c, campaign |-> k, via |-> "ingest", mappings |-> Mappings(e)] :
        k \in Evidence(e)}

IngestCall(e, c, touchpoint, verdict) ==
    [kind |-> "ingest", event |-> e, content |-> c, touchpoint |-> touchpoint,
     verdict |-> verdict, copy |-> NoIssue]

\* _resolve_source_event: exactly one campaign, or the event stays outside.
BeginIngest(h, e, c) ==
    /\ IF Cardinality(Evidence(e)) = 1
       THEN \E t \in Resolved(e, c) : Accept(h, "compare", IngestCall(e, c, t, "conflict"))
       ELSE Accept(h, "record",
                   IngestCall(e, c, Absent, IF Evidence(e) = {} THEN "unknown" ELSE "conflict"))
    /\ UNCHANGED <<stored, history, deaths>>

\* replay_intake_issue: the preview only reads, and ingest reads all of it again.
Replay(h, e) ==
    /\ issue[e] # NoIssue
    /\ Cardinality(Evidence(e)) = 1
    /\ ledger[e] \in {Absent} \cup Resolved(e, issue[e].content)
    /\ BeginIngest(h, e, issue[e].content)

\* Mutated form: a new event goes straight to closing its issue, before any append.
CompareClosesFirst(h) ==
    /\ pc[h] = "compare"
    /\ Goto(h, IF ledger[call[h].event] \in {Absent, call[h].touchpoint} THEN "close" ELSE "record")
    /\ UNCHANGED <<stored, call, history, ops, deaths>>

\* The stored touchpoint, metadata included, must be the one just built.
Compare(h) ==
    /\ pc[h] = "compare"
    /\ Goto(h, CASE ledger[call[h].event] = Absent -> "append"
                 [] ledger[call[h].event] = call[h].touchpoint -> "close"
                 [] OTHER -> "record")
    /\ UNCHANGED <<stored, call, history, ops, deaths>>

\* Mutated form: SET without NX.
AppendOverwriting(h) ==
    /\ pc[h] = "append"
    /\ ledger' = [ledger EXCEPT ![call[h].event] = call[h].touchpoint]
    /\ Goto(h, "index") /\ UNCHANGED call
    /\ UNCHANGED <<registry, listed, issue, history, ops, deaths>>

\* SET NX of the touchpoint; when another request was faster it raises.
AppendTouchpoint(h) ==
    /\ pc[h] = "append"
    /\ IF ledger[call[h].event] = Absent
       THEN /\ ledger' = [ledger EXCEPT ![call[h].event] = call[h].touchpoint]
            /\ Goto(h, "index") /\ UNCHANGED call
       ELSE End(h) /\ UNCHANGED ledger
    /\ UNCHANGED <<registry, listed, issue, history, ops, deaths>>

\* Mutated form: the sorted sets are forgotten.
IndexNothing(h) ==
    /\ pc[h] = "index"
    /\ Goto(h, "close")
    /\ UNCHANGED <<stored, call, history, ops, deaths>>

\* The ZADDs, in a transaction of their own.
IndexTouchpoint(h) ==
    /\ pc[h] = "index"
    /\ listed' = listed \cup {call[h].event}
    /\ Goto(h, "close")
    /\ UNCHANGED <<registry, ledger, issue, call, history, ops, deaths>>

\* save_attribution_intake_issue: one SET, so the last copy that is saved stays.
SaveIssue(e, copy) == issue' = [issue EXCEPT ![e] = copy]

\* Mutated form: an event that names no known campaign is only counted.
RecordConflictsOnly(h) ==
    /\ pc[h] = "record"
    /\ issue' = IF call[h].verdict = "unknown" THEN issue
                ELSE [issue EXCEPT ![call[h].event] =
                        [state |-> "conflict", status |-> "pending", content |-> call[h].content]]
    /\ Goto(h, "stamp")
    /\ UNCHANGED <<registry, ledger, listed, call, history, ops, deaths>>

\* _record_intake_issue: the issue becomes pending whatever it was.
RecordIssue(h) ==
    /\ pc[h] = "record"
    /\ SaveIssue(call[h].event, [state |-> call[h].verdict, status |-> "pending",
                                 content |-> call[h].content])
    /\ Goto(h, "stamp")
    /\ UNCHANGED <<registry, ledger, listed, call, history, ops, deaths>>

\* _resolve_intake_issue reads the issue of the event, if there is one ...
ReadIssue(h) ==
    /\ pc[h] = "close"
    /\ IF issue[call[h].event] = NoIssue
       THEN Goto(h, "stamp") /\ UNCHANGED call
       ELSE /\ Goto(h, "resolve")
            /\ call' = [call EXCEPT ![h].copy = [issue[call[h].event] EXCEPT !.status = "resolved"]]
    /\ UNCHANGED <<stored, history, ops, deaths>>

\* ... and saves its copy as resolved.
ResolveIssue(h) ==
    /\ pc[h] = "resolve"
    /\ SaveIssue(call[h].event, call[h].copy)
    /\ Goto(h, "stamp")
    /\ UNCHANGED <<registry, ledger, listed, call, history, ops, deaths>>

\* The quality snapshot is saved; a resolved issue is read to be stamped with its id ...
Snapshot(h) ==
    /\ pc[h] = "stamp"
    /\ LET e == call[h].event
       IN IF issue[e] # NoIssue /\ issue[e].status = "resolved"
          THEN /\ Goto(h, "restamp") /\ call' = [call EXCEPT ![h].copy = issue[e]]
               /\ UNCHANGED answered
          ELSE End(h) /\ answered' = answered \cup {e}
    /\ UNCHANGED <<stored, raced, ops, deaths>>

\* ... and the stamped copy saved, whatever the issue is by now.
StampIssue(h) ==
    /\ pc[h] = "restamp"
    /\ SaveIssue(call[h].event, call[h].copy)
    /\ answered' = answered \cup {call[h].event}
    /\ End(h)
    /\ UNCHANGED <<registry, ledger, listed, raced, ops, deaths>>

-----------------------------------------------------------------------------
(* backfill: the whole batch is checked first, then appended one by one; a *)
(* stored touchpoint must be the one sent, ingestion time included.         *)
Backfill(h, batch, t) ==
    /\ \A e \in batch : ledger[e] \in {Absent, t}
    /\ Accept(h, "fill", [kind |-> "backfill", event |-> "none", touchpoint |-> t,
                          rest |-> {e \in batch : ledger[e] = Absent}])
    /\ UNCHANGED <<stored, history, deaths>>

FillNext(h) ==
    /\ pc[h] = "fill"
    /\ \/ /\ call[h].rest = {}
          /\ End(h) /\ UNCHANGED ledger
       \/ \E e \in call[h].rest :
             IF ledger[e] = Absent
             THEN /\ ledger' = [ledger EXCEPT ![e] = call[h].touchpoint]
                  /\ call' = [call EXCEPT ![h].rest = @ \ {e}, ![h].event = e]
                  /\ Goto(h, "fill_index")
             ELSE End(h) /\ UNCHANGED ledger
    /\ UNCHANGED <<registry, listed, issue, history, ops, deaths>>

FillIndex(h) ==
    /\ pc[h] = "fill_index"
    /\ listed' = listed \cup {call[h].event}
    /\ Goto(h, "fill")
    /\ UNCHANGED <<registry, ledger, issue, call, history, ops, deaths>>

\* A Redis call raises, or the process dies, between two steps of a handler.
HandlerDies(h) ==
    /\ pc[h] # "idle" /\ deaths < MaxDeaths
    /\ deaths' = deaths + 1
    /\ End(h)
    /\ UNCHANGED <<stored, history, ops>>

-----------------------------------------------------------------------------
Request(h) ==
    \/ \E m \in Registrations : Register(h, m)
    \/ \E e \in Events, c \in Contents : BeginIngest(h, e, c)
    \/ \E e \in Events : Replay(h, e)
    \/ \E batch \in (SUBSET Events) \ {{}}, c \in Contents, k \in Campaigns :
          Backfill(h, batch,
                   [content |-> c, campaign |-> k, via |-> "backfill", mappings |-> {}])

Step(h) ==
    \/ SaveMapping(h) \/ Compare(h) \/ AppendTouchpoint(h) \/ IndexTouchpoint(h)
    \/ RecordIssue(h) \/ ReadIssue(h) \/ ResolveIssue(h) \/ Snapshot(h) \/ StampIssue(h)
    \/ FillNext(h) \/ FillIndex(h) \/ HandlerDies(h)

Next == \E h \in Handlers : Request(h) \/ Step(h)

Spec == Init /\ [][Next]_vars

-----------------------------------------------------------------------------
(* Properties.                                                             *)

\* The ledger is append-only: whatever requests overlap, a touchpoint that was
\* stored once is never changed or taken away.
LedgerIsImmutable ==
    [][\A e \in Events : ledger[e] # Absent => ledger'[e] = ledger[e]]_vars

\* No answered event is lost: it is in the ledger, or its issue waits in the
\* queue of the operators, although handlers die and overwrite each other's
\* copies of the issue.
AnsweredIsKept ==
    \A e \in answered :
        ledger[e] # Absent \/ (issue[e] # NoIssue /\ issue[e].status = "pending")

\* An issue is closed only when its event is in the ledger.
ResolvedIsInLedger ==
    \A e \in Events :
        issue[e] # NoIssue /\ issue[e].status = "resolved" => ledger[e] # Absent

\* Unless a handler died, readers list every touchpoint but the one being appended.
LedgerIsListed ==
    deaths = 0 =>
        \A e \in Events : ledger[e] # Absent =>
            \/ e \in listed
            \/ \E h \in Handlers : pc[h] \in {"index", "fill_index"} /\ call[h].event = e

\* Registrations checked one at a time never give one event two campaigns, however
\* many mappings are too old to be listed:
\* "the same identity cannot be reassigned to a different Campaign; a broad
\* mapping cannot overlap a more-specific mapping for another Campaign"
\* (docs/PHASE_8_4_CAMPAIGN_IDENTITY_DATA_QUALITY.md).
RegistryIsUnambiguous ==
    raced \/ \A e \in Events : Cardinality({CampaignOf[m] : m \in Mappings(e)}) <= 1

\* Every state is well typed, closed issues are backed by the ledger, the ledger is
\* listed, and no event has the mappings of two campaigns.
Consistent ==
    /\ TypeOK
    /\ ResolvedIsInLedger
    /\ LedgerIsListed
    /\ RegistryIsUnambiguous
=============================================================================
