----------------------- MODULE AttributionLedgerProofs -----------------------
(***************************************************************************)
(* Theorems of AttributionLedger for any number of handlers, events and    *)
(* mappings, any bound on requests and any number of deaths.  What makes   *)
(* the unchecked copies of issues harmless is that "in the ledger or in    *)
(* the queue" is stable (Kept): a copy that is saved as resolved was read  *)
(* by a handler whose event was in the ledger, and stays there.            *)
(***************************************************************************)
EXTENDS AttributionLedger, FiniteSetTheorems, SequenceTheorems, TLAPS

\* The event is in the ledger, or its issue waits.
Kept(e) == ledger[e] # Absent \/ (issue[e] # NoIssue /\ issue[e].status = "pending")

\* What a handler knows of its call, of the ledger and of the queue.
Ingesting == {"compare", "append", "index", "record", "close", "resolve", "stamp", "restamp"}

Knows(h) ==
    /\ pc[h] \in Ingesting => call[h] \in Ingests
    /\ pc[h] \in {"compare", "append"} => call[h].touchpoint \in Touchpoints
    /\ pc[h] \in {"index", "close", "resolve", "restamp"} => ledger[call[h].event] # Absent
    /\ pc[h] \in {"resolve", "restamp"} =>
          call[h].copy \in Issues /\ call[h].copy.status = "resolved"
    /\ pc[h] = "stamp" => Kept(call[h].event)
    /\ pc[h] = "register" => call[h] \in Registering
    /\ pc[h] \in {"fill", "fill_index"} => call[h] \in Backfills
    /\ pc[h] = "fill_index" => call[h].event \in Events

\* The inductive invariant.
Base ==
    /\ TypeOK
    /\ ResolvedIsInLedger
    /\ AnsweredIsKept
    /\ \A h \in Handlers : Knows(h)

LEMMA DistinctAbsence ==
    /\ Absent \notin Touchpoints
    /\ NoIssue \notin Issues
    /\ NoCall \notin Calls
BY DEF Absent, Touchpoints, NoIssue, Issues, NoCall, Calls, Ingests, Registering, Backfills

LEMMA ListedTyped == TypeOK => ListedMappings \subseteq Registrations
BY DEF TypeOK, ListedMappings

LEMMA ResolvedTyped ==
    ASSUME TypeOK, NEW e \in Events, NEW c \in Contents, NEW t \in Resolved(e, c)
    PROVE  t \in Touchpoints
<1>1. Evidence(e) \subseteq Campaigns BY EvidenceAssumption, ListedTyped DEF Evidence, Mappings
<1>2. Mappings(e) \in SUBSET Registrations BY ListedTyped DEF Mappings
<1>3. PICK k \in Evidence(e) :
         t = [content |-> c, campaign |-> k, via |-> "ingest", mappings |-> Mappings(e)]
      BY DEF Resolved
<1> QED BY <1>1, <1>2, <1>3 DEF Touchpoints

LEMMA BaseInit == Init => Base
<1> SUFFICES ASSUME Init PROVE Base OBVIOUS
<1>1. raced \in BOOLEAN BY Zenon DEF Init
<1>2. TypeOK BY <1>1, BoundAssumption DEF Init, TypeOK, HandlerStates
<1>3. ResolvedIsInLedger /\ AnsweredIsKept
      BY DEF Init, ResolvedIsInLedger, AnsweredIsKept
<1>4. \A h \in Handlers : Knows(h) BY DEF Init, Knows, Ingesting
<1> QED BY <1>2, <1>3, <1>4 DEF Base

\* A step of h that touches neither the ledger nor the queue, and answers none.
LEMMA LocalStep ==
    ASSUME Base, TypeOK', NEW h \in Handlers, UNCHANGED <<ledger, issue, answered>>,
           \A g \in Handlers : g # h => UNCHANGED <<pc[g], call[g]>>,
           Knows(h)'
    PROVE  Base'
<1>1. ResolvedIsInLedger' /\ AnsweredIsKept'
      BY DEF Base, ResolvedIsInLedger, AnsweredIsKept
<1>2. ASSUME NEW g \in Handlers PROVE Knows(g)'
  <2>1. CASE g = h BY <2>1
  <2>2. CASE g # h BY <2>2 DEF Base, Knows, Kept
  <2> QED BY <2>1, <2>2
<1> QED BY <1>1, <1>2 DEF Base

\* A step of h that fills one place of the ledger.
LEMMA LedgerStep ==
    ASSUME Base, TypeOK', NEW h \in Handlers, UNCHANGED <<issue, answered>>,
           \A e \in Events : ledger[e] # Absent => ledger'[e] = ledger[e],
           \A g \in Handlers : g # h => UNCHANGED <<pc[g], call[g]>>,
           Knows(h)'
    PROVE  Base'
<1>0. \A e \in Events : Kept(e) => Kept(e)' BY DEF Kept
<1>1. ResolvedIsInLedger' /\ AnsweredIsKept'
      BY DEF Base, TypeOK, ResolvedIsInLedger, AnsweredIsKept
<1>2. ASSUME NEW g \in Handlers PROVE Knows(g)'
  <2>1. CASE g = h BY <2>1
  <2>2. CASE g # h
    <3>1. Knows(g) BY DEF Base
    <3>2. pc[g] \in Ingesting => call[g].event \in Events BY <3>1 DEF Knows, Ingests
    <3> QED BY <1>0, <2>2, <3>1, <3>2 DEF Knows, Ingesting
  <2> QED BY <2>1, <2>2
<1> QED BY <1>1, <1>2 DEF Base

\* A step of h that saves an issue: pending, or resolved with the event in the ledger.
LEMMA IssueStep ==
    ASSUME Base, TypeOK', NEW h \in Handlers, UNCHANGED ledger,
           NEW e \in Events, NEW i \in Issues, issue' = [issue EXCEPT ![e] = i],
           i.status = "pending" \/ ledger[e] # Absent,
           answered' \subseteq answered \cup {e},
           \A g \in Handlers : g # h => UNCHANGED <<pc[g], call[g]>>,
           Knows(h)'
    PROVE  Base'
<1>0. issue \in [Events -> Issues \cup {NoIssue}] BY DEF Base, TypeOK
<1>1. Kept(e)' BY <1>0, DistinctAbsence DEF Kept
<1>2. \A x \in Events : Kept(x) => Kept(x)' BY <1>0, <1>1 DEF Kept
<1>3. ResolvedIsInLedger'
      BY <1>0 DEF Base, ResolvedIsInLedger, Issues
<1>4. AnsweredIsKept'
  <2> SUFFICES ASSUME NEW x \in answered' PROVE Kept(x)' BY DEF AnsweredIsKept, Kept
  <2>1. CASE x = e BY <1>1, <2>1
  <2>2. CASE x # e
    <3>1. x \in answered /\ x \in Events BY <2>2 DEF Base, TypeOK
    <3>2. Kept(x) BY <3>1 DEF Base, AnsweredIsKept, Kept
    <3> QED BY <1>2, <3>1, <3>2
  <2> QED BY <2>1, <2>2
<1>5. ASSUME NEW g \in Handlers PROVE Knows(g)'
  <2>1. CASE g = h BY <2>1
  <2>2. CASE g # h
    <3>1. Knows(g) BY DEF Base
    <3>2. pc[g] \in Ingesting => call[g].event \in Events BY <3>1 DEF Knows, Ingests
    <3> QED BY <1>2, <2>2, <3>1, <3>2 DEF Knows, Ingesting
  <2> QED BY <2>1, <2>2
<1> QED BY <1>3, <1>4, <1>5 DEF Base

-----------------------------------------------------------------------------
LEMMA BeginIngestSafe ==
    ASSUME Base, NEW h \in Handlers, NEW e \in Events, NEW c \in Contents, BeginIngest(h, e, c)
    PROVE  Base'
<1>1. CASE \E t \in Resolved(e, c) : Accept(h, "compare", IngestCall(e, c, t, "conflict"))
  <2>1. PICK t \in Resolved(e, c) : Accept(h, "compare", IngestCall(e, c, t, "conflict")) BY <1>1
  <2>2. t \in Touchpoints BY ResolvedTyped DEF Base
  <2>3. IngestCall(e, c, t, "conflict") \in Ingests BY <2>2 DEF IngestCall, Ingests
  <2>4. TypeOK' BY <2>1, <2>3, BoundAssumption
        DEF BeginIngest, Accept, Goto, Base, TypeOK, Calls, HandlerStates, stored, history
  <2>5. pc'[h] = "compare" /\ call'[h] = IngestCall(e, c, t, "conflict")
        BY <2>1 DEF Accept, Goto, Base, TypeOK
  <2>6. Knows(h)' BY <2>2, <2>3, <2>5 DEF Knows, IngestCall
  <2>7. \A g \in Handlers : g # h => UNCHANGED <<pc[g], call[g]>>
        BY <2>1 DEF Accept, Goto, Base, TypeOK
  <2> QED BY <2>4, <2>6, <2>7, LocalStep DEF BeginIngest, stored, history
<1>2. ASSUME NEW v \in {"unknown", "conflict"}, Accept(h, "record", IngestCall(e, c, Absent, v))
      PROVE  Base'
  <2>3. IngestCall(e, c, Absent, v) \in Ingests BY DEF IngestCall, Ingests
  <2>4. TypeOK' BY <1>2, <2>3, BoundAssumption
        DEF BeginIngest, Accept, Goto, Base, TypeOK, Calls, HandlerStates, stored, history
  <2>5. pc'[h] = "record" /\ call'[h] = IngestCall(e, c, Absent, v)
        BY <1>2 DEF Accept, Goto, Base, TypeOK
  <2>6. Knows(h)' BY <2>3, <2>5 DEF Knows
  <2>7. \A g \in Handlers : g # h => UNCHANGED <<pc[g], call[g]>>
        BY <1>2 DEF Accept, Goto, Base, TypeOK
  <2> QED BY <2>4, <2>6, <2>7, LocalStep DEF BeginIngest, stored, history
<1> QED BY <1>1, <1>2 DEF BeginIngest

LEMMA RequestSafe == ASSUME Base, NEW h \in Handlers, Request(h) PROVE Base'
<1>1. ASSUME NEW m \in Registrations, Register(h, m) PROVE Base'
  <2>1. [kind |-> "register", mapping |-> m] \in Registering BY DEF Registering
  <2>2. raced' \in BOOLEAN BY <1>1, Zenon DEF Register
  <2>3. TypeOK' BY <1>1, <2>1, <2>2, BoundAssumption
        DEF Register, Accept, Goto, Base, TypeOK, Calls, HandlerStates, stored
  <2>4. pc'[h] = "register" /\ call'[h] \in Registering
        BY <1>1, <2>1 DEF Register, Accept, Goto, Base, TypeOK
  <2>5. Knows(h)' BY <2>4 DEF Knows, Ingesting
  <2>6. \A g \in Handlers : g # h => UNCHANGED <<pc[g], call[g]>>
        BY <1>1 DEF Register, Accept, Goto, Base, TypeOK
  <2> QED BY <1>1, <2>3, <2>5, <2>6, LocalStep DEF Register, stored
<1>2. ASSUME NEW e \in Events, NEW c \in Contents, BeginIngest(h, e, c) PROVE Base'
      BY <1>2, BeginIngestSafe
<1>3. ASSUME NEW e \in Events, Replay(h, e) PROVE Base'
  <2>1. issue[e].content \in Contents BY <1>3 DEF Replay, Base, TypeOK, Issues
  <2> QED BY <1>3, <2>1, BeginIngestSafe DEF Replay
<1>4. ASSUME NEW batch \in SUBSET Events, NEW t \in Touchpoints, Backfill(h, batch, t) PROVE Base'
  <2> DEFINE new == [kind |-> "backfill", event |-> "none", touchpoint |-> t,
                     rest |-> {e \in batch : ledger[e] = Absent}]
  <2>1. new \in Backfills BY DEF Backfills
  <2>2. TypeOK' BY <1>4, <2>1, BoundAssumption
        DEF Backfill, Accept, Goto, Base, TypeOK, Calls, HandlerStates, stored, history
  <2>3. pc'[h] = "fill" /\ call'[h] \in Backfills
        BY <1>4, <2>1 DEF Backfill, Accept, Goto, Base, TypeOK
  <2>4. Knows(h)' BY <2>3 DEF Knows, Ingesting
  <2>5. \A g \in Handlers : g # h => UNCHANGED <<pc[g], call[g]>>
        BY <1>4 DEF Backfill, Accept, Goto, Base, TypeOK
  <2> QED BY <1>4, <2>2, <2>4, <2>5, LocalStep DEF Backfill, stored, history
<1>5. \A c \in Contents, k \in Campaigns :
         [content |-> c, campaign |-> k, via |-> "backfill", mappings |-> {}] \in Touchpoints
      BY DEF Touchpoints
<1> QED BY <1>1, <1>2, <1>3, <1>4, <1>5 DEF Request

LEMMA AppendSafe ==
    ASSUME Base, NEW h \in Handlers,
           Compare(h) \/ AppendTouchpoint(h) \/ IndexTouchpoint(h) \/ ReadIssue(h)
    PROVE  Base'
<1>0. Knows(h) BY DEF Base
<1>1. call[h] \in Ingests /\ call[h].event \in Events
      BY <1>0 DEF Compare, AppendTouchpoint, IndexTouchpoint, ReadIssue, Knows, Ingesting, Ingests
<1>2. \A g \in Handlers : g # h => UNCHANGED <<pc[g], call[g]>>
      BY DEF Compare, AppendTouchpoint, IndexTouchpoint, ReadIssue, Goto, End, Base, TypeOK
<1>3. CASE Compare(h)
  <2>1. pc'[h] \in {"append", "close", "record"} /\ call' = call
        BY <1>3 DEF Compare, Goto, Base, TypeOK
  <2>2. TypeOK' BY <1>3, <2>1 DEF Compare, Goto, Base, TypeOK, HandlerStates, stored, history
  <2>3. call[h].touchpoint \in Touchpoints BY <1>0, <1>3 DEF Compare, Knows
  <2>4. pc'[h] = "close" => ledger[call[h].event] # Absent
        BY <1>3, <2>3, DistinctAbsence DEF Compare, Goto, Base, TypeOK
  <2>5. Knows(h)' BY <1>1, <1>3, <2>1, <2>3, <2>4 DEF Compare, Knows, Ingesting, stored
  <2> QED BY <1>2, <1>3, <2>2, <2>5, LocalStep DEF Compare, stored, history
<1>4. CASE AppendTouchpoint(h)
  <2>1. call[h].touchpoint \in Touchpoints BY <1>0, <1>4 DEF AppendTouchpoint, Knows
  <2>2. TypeOK' BY <1>1, <1>4, <2>1
        DEF AppendTouchpoint, Goto, End, Base, TypeOK, HandlerStates, history
  <2>3. CASE ledger[call[h].event] = Absent
    <3>1. /\ ledger' = [ledger EXCEPT ![call[h].event] = call[h].touchpoint]
          /\ pc'[h] = "index" /\ call' = call
          BY <1>4, <2>3 DEF AppendTouchpoint, Goto, Base, TypeOK
    <3>2. ledger'[call[h].event] # Absent
          BY <1>1, <2>1, <3>1, DistinctAbsence DEF Base, TypeOK
    <3>3. Knows(h)' BY <1>1, <3>1, <3>2 DEF Knows
    <3>4. \A e \in Events : ledger[e] # Absent => ledger'[e] = ledger[e]
          BY <2>3, <3>1 DEF Base, TypeOK
    <3> QED BY <1>2, <1>4, <2>2, <3>3, <3>4, LedgerStep DEF AppendTouchpoint, history
  <2>4. CASE ledger[call[h].event] # Absent
    <3>1. Knows(h)' BY <1>4, <2>4 DEF AppendTouchpoint, End, Goto, Base, TypeOK, Knows, Ingesting
    <3> QED BY <1>2, <1>4, <2>2, <2>4, <3>1, LocalStep DEF AppendTouchpoint, history
  <2> QED BY <2>3, <2>4
<1>5. CASE IndexTouchpoint(h)
  <2>1. TypeOK' BY <1>1, <1>5 DEF IndexTouchpoint, Goto, Base, TypeOK, HandlerStates, history
  <2>2. Knows(h)' BY <1>0, <1>5 DEF IndexTouchpoint, Goto, Base, TypeOK, Knows, Ingesting
  <2> QED BY <1>2, <1>5, <2>1, <2>2, LocalStep DEF IndexTouchpoint, history
<1>6. CASE ReadIssue(h)
  <2>0. issue[call[h].event] \in Issues \cup {NoIssue} BY <1>1 DEF Base, TypeOK
  <2>1. CASE issue[call[h].event] = NoIssue
    <3>1. pc' = [pc EXCEPT ![h] = "stamp"] /\ call' = call BY <1>6, <2>1 DEF ReadIssue, Goto
    <3>2. TypeOK' BY <1>6, <3>1 DEF ReadIssue, Base, TypeOK, HandlerStates, stored, history
    <3>3. ledger[call[h].event] # Absent BY <1>0, <1>6 DEF ReadIssue, Knows
    <3>4. Knows(h)' BY <1>1, <1>6, <3>1, <3>3
          DEF ReadIssue, Base, TypeOK, Knows, Kept, Ingesting, stored
    <3> QED BY <1>2, <1>6, <3>2, <3>4, LocalStep DEF ReadIssue, stored, history
  <2>2. CASE issue[call[h].event] # NoIssue
    <3> DEFINE closed == [issue[call[h].event] EXCEPT !.status = "resolved"]
    <3>1. closed \in Issues /\ closed.status = "resolved" BY <2>0, <2>2 DEF Issues
    <3>2. pc' = [pc EXCEPT ![h] = "resolve"] /\ call' = [call EXCEPT ![h].copy = closed]
          BY <1>6, <2>2 DEF ReadIssue, Goto
    <3> HIDE DEF closed
    <3>3. call'[h] \in Ingests /\ call'[h].copy = closed /\ call'[h].event = call[h].event
          BY <1>1, <3>1, <3>2 DEF Base, TypeOK, Ingests
    <3>4. TypeOK' BY <1>6, <3>2, <3>3
          DEF ReadIssue, Base, TypeOK, HandlerStates, stored, history, Calls
    <3>5. ledger[call[h].event] # Absent BY <1>0, <1>6 DEF ReadIssue, Knows
    <3>6. Knows(h)' BY <1>6, <3>1, <3>2, <3>3, <3>5
          DEF ReadIssue, Base, TypeOK, Knows, Ingesting, stored
    <3> QED BY <1>2, <1>6, <3>4, <3>6, LocalStep DEF ReadIssue, stored, history
  <2> QED BY <2>1, <2>2
<1> QED BY <1>3, <1>4, <1>5, <1>6

LEMMA QueueSafe ==
    ASSUME Base, NEW h \in Handlers,
           RecordIssue(h) \/ ResolveIssue(h) \/ Snapshot(h) \/ StampIssue(h)
    PROVE  Base'
<1> USE DEF SaveIssue
<1>0. Knows(h) BY DEF Base
<1>1. call[h] \in Ingests /\ call[h].event \in Events
      BY <1>0 DEF RecordIssue, ResolveIssue, Snapshot, StampIssue, Knows, Ingesting, Ingests
<1>2. \A g \in Handlers : g # h => UNCHANGED <<pc[g], call[g]>>
      BY DEF RecordIssue, ResolveIssue, Snapshot, StampIssue, Goto, End, Base, TypeOK
<1>3. CASE RecordIssue(h)
  <2> DEFINE i == [state |-> call[h].verdict, status |-> "pending", content |-> call[h].content]
  <2>1. i \in Issues /\ i.status = "pending" BY <1>1 DEF Issues, Ingests
  <2>2. issue' = [issue EXCEPT ![call[h].event] = i] BY <1>3 DEF RecordIssue
  <2> HIDE DEF i
  <2>3. TypeOK' BY <1>1, <1>3, <2>1, <2>2
        DEF RecordIssue, Goto, Base, TypeOK, HandlerStates, history
  <2>4. issue'[call[h].event] = i BY <1>1, <2>2 DEF Base, TypeOK
  <2>5. Knows(h)' BY <1>1, <1>3, <2>1, <2>4, DistinctAbsence
        DEF RecordIssue, Goto, Base, TypeOK, Knows, Kept, Ingesting
  <2> QED BY <1>1, <1>2, <1>3, <2>1, <2>2, <2>3, <2>5, IssueStep DEF RecordIssue, history
<1>4. CASE ResolveIssue(h)
  <2>1. call[h].copy \in Issues /\ ledger[call[h].event] # Absent
        BY <1>0, <1>4 DEF ResolveIssue, Knows
  <2>2. TypeOK' BY <1>1, <1>4, <2>1 DEF ResolveIssue, Goto, Base, TypeOK, HandlerStates, history
  <2>3. Knows(h)' BY <1>1, <1>4, <2>1 DEF ResolveIssue, Goto, Base, TypeOK, Knows, Kept, Ingesting
  <2> QED BY <1>1, <1>2, <1>4, <2>1, <2>2, <2>3, IssueStep DEF ResolveIssue, history
<1>5. CASE Snapshot(h)
  <2>0. issue[call[h].event] \in Issues \cup {NoIssue} BY <1>1 DEF Base, TypeOK
  <2>1. CASE issue[call[h].event] # NoIssue /\ issue[call[h].event].status = "resolved"
    <3>1. /\ pc' = [pc EXCEPT ![h] = "restamp"]
          /\ call' = [call EXCEPT ![h].copy = issue[call[h].event]]
          /\ UNCHANGED answered
          BY <1>5, <2>1 DEF Snapshot, Goto
    <3>2. /\ call'[h] \in Ingests /\ call'[h].event = call[h].event
          /\ call'[h].copy = issue[call[h].event]
          BY <1>1, <2>0, <3>1 DEF Base, TypeOK, Ingests
    <3>3. TypeOK' BY <1>5, <3>1, <3>2
          DEF Snapshot, Base, TypeOK, HandlerStates, stored, Calls
    <3>4. ledger[call[h].event] # Absent BY <1>1, <2>1 DEF Base, ResolvedIsInLedger
    <3>5. Knows(h)' BY <1>5, <2>0, <2>1, <3>1, <3>2, <3>4
          DEF Snapshot, Base, TypeOK, Knows, Ingesting, stored
    <3> QED BY <1>2, <1>5, <3>1, <3>3, <3>5, LocalStep DEF Snapshot, stored
  <2>2. CASE ~ (issue[call[h].event] # NoIssue /\ issue[call[h].event].status = "resolved")
    <3>1. End(h) /\ answered' = answered \cup {call[h].event} /\ UNCHANGED <<ledger, issue>>
          BY <1>5, <2>2 DEF Snapshot, stored
    <3>2. TypeOK' BY <1>1, <1>5, <3>1
          DEF Snapshot, End, Goto, Base, TypeOK, HandlerStates, stored
    <3>3. Kept(call[h].event) BY <1>0, <1>5 DEF Snapshot, Knows
    <3>4. Knows(h)' BY <3>1 DEF End, Goto, Base, TypeOK, Knows, Ingesting
    <3>5. AnsweredIsKept' BY <3>1, <3>3 DEF Base, AnsweredIsKept, Kept
    <3>6. ResolvedIsInLedger' BY <3>1 DEF Base, ResolvedIsInLedger
    <3>7. ASSUME NEW g \in Handlers, g # h PROVE Knows(g)'
          BY <1>2, <3>1, <3>7 DEF Base, Knows, Kept
    <3> QED BY <3>2, <3>4, <3>5, <3>6, <3>7 DEF Base
  <2> QED BY <2>1, <2>2
<1>6. CASE StampIssue(h)
  <2>1. call[h].copy \in Issues /\ ledger[call[h].event] # Absent
        BY <1>0, <1>6 DEF StampIssue, Knows
  <2>2. TypeOK' BY <1>1, <1>6, <2>1 DEF StampIssue, End, Goto, Base, TypeOK, HandlerStates
  <2>3. Knows(h)' BY <1>6 DEF StampIssue, End, Goto, Base, TypeOK, Knows, Ingesting
  <2> QED BY <1>1, <1>2, <1>6, <2>1, <2>2, <2>3, IssueStep DEF StampIssue
<1> QED BY <1>3, <1>4, <1>5, <1>6

LEMMA OtherSafe ==
    ASSUME Base, NEW h \in Handlers,
           SaveMapping(h) \/ FillNext(h) \/ FillIndex(h) \/ HandlerDies(h)
    PROVE  Base'
<1>0. Knows(h) BY DEF Base
<1>1. \A g \in Handlers : g # h => UNCHANGED <<pc[g], call[g]>>
      BY DEF SaveMapping, FillNext, FillIndex, HandlerDies, Goto, End, Base, TypeOK
<1>2. CASE SaveMapping(h)
  <2>1. call[h].mapping \in Registrations BY <1>0, <1>2 DEF SaveMapping, Knows, Registering
  <2>2. TypeOK' BY <1>2, <2>1 DEF SaveMapping, End, Goto, Base, TypeOK, HandlerStates, history
  <2>3. Knows(h)' BY <1>2 DEF SaveMapping, End, Goto, Base, TypeOK, Knows, Ingesting
  <2> QED BY <1>1, <1>2, <2>2, <2>3, LocalStep DEF SaveMapping, history
<1>3. CASE FillNext(h)
  <2>1. call[h] \in Backfills BY <1>0, <1>3 DEF FillNext, Knows
  <2>2. CASE End(h) /\ UNCHANGED ledger
    <3>1. TypeOK' BY <1>3, <2>2 DEF FillNext, End, Goto, Base, TypeOK, HandlerStates, history
    <3>2. Knows(h)' BY <2>2 DEF End, Goto, Base, TypeOK, Knows, Ingesting
    <3> QED BY <1>1, <1>3, <2>2, <3>1, <3>2, LocalStep DEF FillNext, history
  <2>3. ASSUME NEW e \in call[h].rest, ledger[e] = Absent,
               ledger' = [ledger EXCEPT ![e] = call[h].touchpoint],
               call' = [call EXCEPT ![h].rest = @ \ {e}, ![h].event = e],
               pc' = [pc EXCEPT ![h] = "fill_index"]
        PROVE  Base'
    <3>1. e \in Events /\ call[h].touchpoint \in Touchpoints BY <2>1 DEF Backfills
    <3>2. call'[h] \in Backfills /\ call'[h].event = e
          BY <2>1, <2>3, <3>1 DEF Base, TypeOK, Backfills
    <3>3. TypeOK' BY <1>3, <2>3, <3>1, <3>2
          DEF FillNext, Base, TypeOK, HandlerStates, Calls, history
    <3>4. Knows(h)' BY <2>3, <3>1, <3>2 DEF Base, TypeOK, Knows, Ingesting
    <3>5. \A x \in Events : ledger[x] # Absent => ledger'[x] = ledger[x]
          BY <2>3, <3>1 DEF Base, TypeOK
    <3> QED BY <1>1, <1>3, <3>3, <3>4, <3>5, LedgerStep DEF FillNext, history
  <2> QED BY <1>3, <2>2, <2>3 DEF FillNext, Goto
<1>4. CASE FillIndex(h)
  <2>1. call[h] \in Backfills /\ call[h].event \in Events BY <1>0, <1>4 DEF FillIndex, Knows
  <2>2. TypeOK' BY <1>4, <2>1 DEF FillIndex, Goto, Base, TypeOK, HandlerStates, history
  <2>3. Knows(h)' BY <1>4, <2>1 DEF FillIndex, Goto, Base, TypeOK, Knows, Ingesting
  <2> QED BY <1>1, <1>4, <2>2, <2>3, LocalStep DEF FillIndex, history
<1>5. CASE HandlerDies(h)
  <2>1. TypeOK' BY <1>5, BoundAssumption
        DEF HandlerDies, End, Goto, Base, TypeOK, HandlerStates, stored, history
  <2>2. Knows(h)' BY <1>5 DEF HandlerDies, End, Goto, Base, TypeOK, Knows, Ingesting
  <2> QED BY <1>1, <1>5, <2>1, <2>2, LocalStep DEF HandlerDies, stored, history
<1> QED BY <1>2, <1>3, <1>4, <1>5

LEMMA BaseStep == Base /\ [Next]_vars => Base'
<1> SUFFICES ASSUME Base, [Next]_vars PROVE Base' OBVIOUS
<1>1. CASE UNCHANGED vars
      BY <1>1 DEF vars, stored, history, Base, TypeOK, ResolvedIsInLedger, AnsweredIsKept,
                  Knows, Kept
<1> QED BY <1>1, RequestSafe, AppendSafe, QueueSafe, OtherSafe DEF Next, Step

THEOREM BaseHolds == Spec => []Base
BY BaseInit, BaseStep, PTL DEF Spec

\* Every variable keeps its type.
THEOREM TypeCorrect == Spec => []TypeOK
<1>1. Base => TypeOK BY DEF Base
<1> QED BY <1>1, BaseHolds, PTL

\* No answered event is lost between the ledger and the queue, whatever copies
\* of issues handlers overwrite and wherever they die.
THEOREM NoEventLost == Spec => []AnsweredIsKept
<1>1. Base => AnsweredIsKept BY DEF Base
<1> QED BY <1>1, BaseHolds, PTL

\* Closed issues are backed by the ledger.
THEOREM ClosedIsBacked == Spec => []ResolvedIsInLedger
<1>1. Base => ResolvedIsInLedger BY DEF Base
<1> QED BY <1>1, BaseHolds, PTL

-----------------------------------------------------------------------------
\* The ledger is append-only: a step fills an empty place or leaves all places alone.
THEOREM LedgerImmutable == Spec => LedgerIsImmutable
<1>1. ASSUME Base, [Next]_vars, NEW e \in Events, ledger[e] # Absent PROVE ledger'[e] = ledger[e]
  <2>1. CASE UNCHANGED vars BY <2>1 DEF vars, stored
  <2>2. ASSUME NEW h \in Handlers, Request(h) PROVE ledger' = ledger
        BY <2>2 DEF Request, Register, BeginIngest, Replay, Backfill, stored
  <2>3. ASSUME NEW h \in Handlers, AppendTouchpoint(h) PROVE ledger'[e] = ledger[e]
        BY <1>1, <2>3 DEF AppendTouchpoint, Base, TypeOK
  <2>4. ASSUME NEW h \in Handlers, FillNext(h) PROVE ledger'[e] = ledger[e]
        BY <1>1, <2>4 DEF FillNext, Base, TypeOK
  <2>5. ASSUME NEW h \in Handlers, Step(h), ~ AppendTouchpoint(h), ~ FillNext(h)
        PROVE  ledger' = ledger
        BY <2>5 DEF Step, SaveMapping, Compare, IndexTouchpoint, RecordIssue, ReadIssue,
                    ResolveIssue, Snapshot, StampIssue, FillIndex, HandlerDies, stored
  <2> QED BY <1>1, <2>1, <2>2, <2>3, <2>4, <2>5 DEF Next
<1>2. Base /\ [Next]_vars => [\A e \in Events : ledger[e] # Absent => ledger'[e] = ledger[e]]_vars
      BY <1>1
<1> QED BY <1>2, BaseHolds, PTL DEF Spec, LedgerIsImmutable

-----------------------------------------------------------------------------
\* The handlers between SET NX and the ZADDs of a touchpoint.
Indexing(h, e) == pc[h] \in {"index", "fill_index"} /\ call[h].event = e

\* A handler's step is its own.
LEMMA OnlyMine ==
    ASSUME TypeOK, NEW h \in Handlers, Request(h) \/ Step(h)
    PROVE  \A g \in Handlers : g # h => UNCHANGED <<pc[g], call[g]>>
<1>1. CASE Request(h)
      BY <1>1 DEF Request, Register, BeginIngest, Replay, Backfill, Accept, Goto, TypeOK
<1>2. CASE Step(h)
      BY <1>2 DEF Step, SaveMapping, Compare, AppendTouchpoint, IndexTouchpoint, RecordIssue,
                  ReadIssue, ResolveIssue, Snapshot, StampIssue, FillNext, FillIndex,
                  HandlerDies, Goto, End, TypeOK
<1> QED BY <1>1, <1>2

\* Unless a handler died, readers list every touchpoint but those being appended.
THEOREM ListedUnlessDeath == Spec => []LedgerIsListed
<1>1. Init => LedgerIsListed BY DEF Init, LedgerIsListed
<1>2. Base /\ LedgerIsListed /\ [Next]_vars => LedgerIsListed'
  <2> SUFFICES ASSUME Base, LedgerIsListed, [Next]_vars, deaths' = 0,
                      NEW e \in Events, ledger'[e] # Absent
               PROVE  e \in listed' \/ \E g \in Handlers : Indexing(g, e)'
      BY DEF LedgerIsListed, Indexing
  <2>1. CASE UNCHANGED vars BY <2>1 DEF vars, stored, LedgerIsListed, Indexing
  <2>2. ASSUME NEW h \in Handlers, Request(h) \/ Step(h)
        PROVE  e \in listed' \/ \E g \in Handlers : Indexing(g, e)'
    <3>a. \A g \in Handlers : g # h => UNCHANGED <<pc[g], call[g]>>
          BY <2>2, OnlyMine DEF Base
    <3>b. deaths' = deaths + 1 \/ UNCHANGED deaths
          BY <2>2 DEF Request, Register, BeginIngest, Replay, Backfill, Accept, Step,
                SaveMapping, Compare, AppendTouchpoint, IndexTouchpoint, RecordIssue, ReadIssue,
                ResolveIssue, Snapshot, StampIssue, FillNext, FillIndex, HandlerDies
    <3>c. deaths = 0 /\ UNCHANGED deaths BY <3>b DEF Base, TypeOK
    <3>d. ~ HandlerDies(h) BY <3>c DEF HandlerDies
    <3>e. listed \subseteq listed'
          BY <2>2, <3>d
          DEF Request, Register, BeginIngest, Replay, Backfill, Step, SaveMapping, Compare,
              AppendTouchpoint, IndexTouchpoint, RecordIssue, ReadIssue, ResolveIssue, Snapshot,
              StampIssue, FillNext, FillIndex, stored
    <3>0. /\ deaths = 0 /\ listed \subseteq listed' /\ ~ HandlerDies(h)
          /\ \A g \in Handlers : g # h => UNCHANGED <<pc[g], call[g]>>
          BY <3>a, <3>c, <3>d, <3>e
    <3>1. CASE ledger[e] = Absent
      <4>1. AppendTouchpoint(h) \/ FillNext(h)
            BY <2>2, <3>0, <3>1
            DEF Request, Register, BeginIngest, Replay, Backfill, Step, SaveMapping, Compare,
                IndexTouchpoint, RecordIssue, ReadIssue, ResolveIssue, Snapshot, StampIssue,
                FillIndex, stored
      <4>3. CASE AppendTouchpoint(h)
            BY <3>1, <4>3 DEF AppendTouchpoint, Goto, Base, TypeOK, Indexing
      <4>4. CASE FillNext(h)
        <5>1. call[h] \in Backfills BY <4>4 DEF FillNext, Base, Knows
        <5>2. PICK x \in call[h].rest :
                 /\ ledger' = [ledger EXCEPT ![x] = call[h].touchpoint]
                 /\ call' = [call EXCEPT ![h].rest = @ \ {x}, ![h].event = x]
                 /\ Goto(h, "fill_index")
              BY <3>1, <4>4 DEF FillNext
        <5>3. x = e BY <3>1, <5>2 DEF Base, TypeOK
        <5> QED BY <5>1, <5>2, <5>3 DEF Goto, Base, TypeOK, Indexing, Backfills
      <4> QED BY <4>1, <4>3, <4>4
    <3>2. CASE ledger[e] # Absent
      <4>1. e \in listed \/ \E g \in Handlers : Indexing(g, e)
            BY <3>0, <3>2 DEF LedgerIsListed, Indexing
      <4>2. ASSUME NEW g \in Handlers, g # h, Indexing(g, e) PROVE Indexing(g, e)'
            BY <3>0, <4>2 DEF Indexing
      <4>3. ASSUME Indexing(h, e) PROVE e \in listed'
            BY <2>2, <3>0, <4>3
            DEF Indexing, Request, Register, BeginIngest, Replay, Backfill, Accept, Step,
                SaveMapping, Compare, AppendTouchpoint, IndexTouchpoint, RecordIssue, ReadIssue,
                ResolveIssue, Snapshot, StampIssue, FillNext, FillIndex
      <4> QED BY <3>0, <4>1, <4>2, <4>3
    <3> QED BY <3>1, <3>2
  <2> QED BY <2>1, <2>2 DEF Next
<1> QED BY <1>1, <1>2, BaseHolds, PTL DEF Spec

-----------------------------------------------------------------------------
\* Overlapping listed mappings agree, and the mapping that is being saved was
\* checked against all that are listed.
Agreeing ==
    \A m, n \in ListedMappings : Overlap(m, n) => CampaignOf[m] = CampaignOf[n]

OneAtATime ==
    /\ \A g, h \in Handlers : pc[g] = "register" /\ pc[h] = "register" => g = h
    /\ \A h \in Handlers : pc[h] = "register" =>
          \A n \in ListedMappings :
             Overlap(call[h].mapping, n) => CampaignOf[call[h].mapping] = CampaignOf[n]

\* A mapping that is saved joins the listed ones, and may displace the oldest.
LEMMA SavedIsListed ==
    ASSUME TypeOK, NEW m \in Registrations, registry' = Append(registry, m)
    PROVE  ListedMappings' \subseteq ListedMappings \cup {m}
<1>1. /\ Len(registry) \in Nat /\ DOMAIN registry = 1..Len(registry)
      /\ Len(registry') = Len(registry) + 1 /\ DOMAIN registry' = 1..(Len(registry) + 1)
      /\ \A i \in 1..Len(registry) : registry'[i] = registry[i]
      /\ registry'[Len(registry) + 1] = m
    BY AppendProperties, LenProperties DEF TypeOK
<1> SUFFICES ASSUME NEW i \in DOMAIN registry', i + MappingLimit > Len(registry')
             PROVE  registry'[i] \in ListedMappings \cup {m}
    BY DEF ListedMappings
<1>2. CASE i = Len(registry) + 1
    BY <1>1, <1>2
<1>3. CASE i # Len(registry) + 1
  <2>1. i \in DOMAIN registry /\ i + MappingLimit > Len(registry)
        BY <1>1, <1>3, BoundAssumption
  <2> QED BY <1>1, <2>1 DEF ListedMappings
<1> QED BY <1>2, <1>3

Checked == raced \/ (Agreeing /\ OneAtATime)

LEMMA AgreeingMappings ==
    ASSUME TypeOK, Agreeing, NEW e \in Events
    PROVE  Cardinality({CampaignOf[m] : m \in Mappings(e)}) <= 1
<1> DEFINE S == {CampaignOf[m] : m \in Mappings(e)}
<1> SUFFICES Cardinality(S) <= 1 OBVIOUS
<1>1. \A x, y \in S : x = y BY DEF Agreeing, Mappings, Overlap
<1>2. CASE S = {}
  <2>1. Cardinality(S) = 0 BY <1>2, FS_EmptySet
  <2> QED BY <2>1
<1>3. CASE S # {}
  <2>1. PICK x : x \in S BY <1>3
  <2>2. S = {x} BY <1>1, <2>1
  <2>3. Cardinality({x}) = 1 BY FS_Singleton
  <2> HIDE DEF S
  <2> QED BY <2>2, <2>3
<1> QED BY <1>2, <1>3

\* Registrations checked one at a time leave no event with mappings of two campaigns.
THEOREM MappingsAgree == Spec => []RegistryIsUnambiguous
<1>1. Init => Checked BY DEF Init, Checked, Agreeing, OneAtATime, ListedMappings
<1>2. Base /\ Checked /\ [Next]_vars => Checked'
  <2> SUFFICES ASSUME Base, Checked, [Next]_vars, ~ raced' PROVE Agreeing' /\ OneAtATime'
      BY DEF Checked
  <2>1. CASE UNCHANGED vars
        BY <2>1 DEF vars, stored, history, Checked, Agreeing, OneAtATime, ListedMappings
  <2>2. ASSUME NEW h \in Handlers, NEW m \in Registrations, Register(h, m)
        PROVE  Agreeing' /\ OneAtATime'
    <3>1. /\ ~ raced /\ \A g \in Handlers : pc[g] # "register"
          /\ UNCHANGED registry
          /\ \A g \in Handlers : g # h => pc'[g] = pc[g]
          /\ call'[h].mapping = m
          BY <2>2 DEF Register, Accept, Goto, Base, TypeOK, stored
    <3>2. \A n \in ListedMappings : Overlap(m, n) => CampaignOf[m] = CampaignOf[n]
          BY <2>2 DEF Register, MayRegister
    <3>3. ListedMappings' = ListedMappings BY <3>1 DEF ListedMappings
    <3> QED BY <3>1, <3>2, <3>3 DEF Checked, Agreeing, OneAtATime
  <2>3. ASSUME NEW h \in Handlers, SaveMapping(h) PROVE Agreeing' /\ OneAtATime'
    <3>1. /\ ~ raced /\ pc[h] = "register" /\ registry' = Append(registry, call[h].mapping)
          /\ pc' = [pc EXCEPT ![h] = "idle"]
          BY <2>3 DEF SaveMapping, End, Goto, history
    <3>2. \A g \in Handlers : pc'[g] # "register"
          BY <3>1 DEF Checked, OneAtATime, Base, TypeOK
    <3>3. \A n \in ListedMappings :
             /\ Overlap(call[h].mapping, n) => CampaignOf[call[h].mapping] = CampaignOf[n]
             /\ Overlap(n, call[h].mapping) => CampaignOf[call[h].mapping] = CampaignOf[n]
          BY <3>1 DEF Checked, OneAtATime, Overlap
    <3>4. call[h].mapping \in Registrations
          BY <3>1 DEF Base, Knows, Registering
    <3>5. ListedMappings' \subseteq ListedMappings \cup {call[h].mapping}
          BY <3>1, <3>4, SavedIsListed DEF Base
    <3>6. Agreeing' BY <3>1, <3>3, <3>5 DEF Checked, Agreeing
    <3> QED BY <3>2, <3>6 DEF OneAtATime
  <2>4. ASSUME NEW h \in Handlers, Request(h) \/ Step(h), ~ SaveMapping(h),
               \A m \in Registrations : ~ Register(h, m)
        PROVE  Agreeing' /\ OneAtATime'
    <3>1. /\ UNCHANGED <<registry, raced>>
          /\ \A g \in Handlers : g # h => UNCHANGED <<pc[g], call[g]>>
          /\ pc'[h] # "register"
      <4> USE DEF Goto, End, Base, TypeOK, stored, history
      <4>1. CASE Request(h)
            BY <2>4, <4>1 DEF Request, BeginIngest, Replay, Backfill, Accept
      <4>2. CASE Compare(h) \/ AppendTouchpoint(h) \/ IndexTouchpoint(h)
            BY <4>2 DEF Compare, AppendTouchpoint, IndexTouchpoint
      <4>3. CASE RecordIssue(h) \/ ReadIssue(h) \/ ResolveIssue(h)
            BY <4>3 DEF RecordIssue, ReadIssue, ResolveIssue
      <4>4. CASE Snapshot(h) \/ StampIssue(h)
            BY <4>4 DEF Snapshot, StampIssue
      <4>5. CASE FillNext(h) \/ FillIndex(h) \/ HandlerDies(h)
            BY <4>5 DEF FillNext, FillIndex, HandlerDies
      <4> QED BY <2>4, <4>1, <4>2, <4>3, <4>4, <4>5 DEF Step
    <3>2. ListedMappings' = ListedMappings BY <3>1 DEF ListedMappings
    <3> QED BY <3>1, <3>2 DEF Checked, Agreeing, OneAtATime
  <2> QED BY <2>1, <2>2, <2>3, <2>4 DEF Next, Request
<1>3. Base /\ Checked => RegistryIsUnambiguous
      BY AgreeingMappings DEF Base, Checked, RegistryIsUnambiguous
<1> QED BY <1>1, <1>2, <1>3, BaseHolds, PTL DEF Spec

\* The invariant that the runs check: well typed, closed issues backed by the ledger,
\* the ledger listed unless a handler died, mappings agreed on unless two raced.
THEOREM ConsistentHolds == Spec => []Consistent
<1>1. TypeOK /\ ResolvedIsInLedger /\ LedgerIsListed /\ RegistryIsUnambiguous => Consistent
      BY DEF Consistent
<1> QED BY <1>1, TypeCorrect, ClosedIsBacked, ListedUnlessDeath, MappingsAgree, PTL
=============================================================================
