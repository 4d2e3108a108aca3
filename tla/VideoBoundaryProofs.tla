------------------------- MODULE VideoBoundaryProofs -------------------------
(***************************************************************************)
(* Theorems of VideoBoundary for any number of keys, nonces, replicas and  *)
(* scenarios.  The bridge: a claimed nonce outlives the timestamps that    *)
(* are accepted with it (Spent), and the idempotency table is one-to-one   *)
(* between keys and drafts (Drafts).  The receiver: what a replica knows   *)
(* of the stored event at each place (Knows), and that at most one replica *)
(* or audit entry stands for the insertion of an event (OneInsertion).     *)
(***************************************************************************)
EXTENDS VideoBoundary, FiniteSetTheorems, SequenceTheorems, TLAPS

-----------------------------------------------------------------------------
(* The bridge.                                                             *)

\* The nonce of a request is taken for Ttl after each time it was carried out, so that
\* only one with a lead of Ttl - Skew is accepted for long enough to be again.
Spent(r) ==
    /\ \A i \in DOMAIN handled[r] : handled[r][i] + Ttl <= registry[r.nonce]
    /\ \A i, j \in DOMAIN handled[r] : i < j => r.ts - handled[r][i] >= Ttl - Skew

\* Each draft is bound to its key, and a request asked for it.
Drafts ==
    /\ \A p \in DOMAIN projects :
          /\ bound[projects[p].key].project = p
          /\ \E r \in wire : r.kind = "create" /\ r.key = projects[p].key
    /\ \A k \in Keys : bound[k].project # NoProject => bound[k].project \in DOMAIN projects
    /\ \A i \in DOMAIN undelivered : undelivered[i] \in DOMAIN projects

\* A created draft that was answered is the one bound to the key of the request.
Granted(a) ==
    a.request.kind = "create" /\ a.status = "ok" =>
        /\ bound[a.request.key].project = a.project /\ a.project # NoProject
        /\ bound[a.request.key].body = a.request.body

BridgeBase ==
    /\ BridgeTypeOK
    /\ IsFiniteSet(wire) /\ Cardinality(wire) <= scenario.sends
    /\ \A r \in wire : Spent(r)
    /\ Drafts
    /\ \A a \in answers : Granted(a)

-----------------------------------------------------------------------------
(* The receiver.                                                           *)

\* What a replica knows of the event it serves.
Knows(h) ==
    LET c == call[h]
        e == c.webhook.event
        r == records[e]
    IN /\ c \in Calls /\ e \in DOMAIN projects
       /\ pc[h] = "insert" => c.outcome = "accepted"
       /\ pc[h] # "insert" => r # Absent
       /\ pc[h] = "index" => c.outcome = "accepted" /\ r.content = c.webhook.content /\ r.at = c.at
       /\ pc[h] = "repair" => /\ c.outcome = "idempotent_replay" /\ c.existing = r
                              /\ r.content = c.webhook.content
       /\ pc[h] = "audit" => /\ c.outcome = "conflict" <=> r.content # c.webhook.content
                             /\ c.outcome # "conflict" => index[e] # -1

Inserting(h) == pc[h] \in {"index", "audit"} /\ call[h].outcome = "accepted"

\* The insertion of an event is with one replica, or in one entry of the audit.
OneInsertion ==
    /\ \A g, h \in Replicas : Inserting(g) /\ Inserting(h) /\ Event(g) = Event(h) => g = h
    /\ \A h \in Replicas, i \in DOMAIN audit :
          Inserting(h) /\ audit[i].outcome = "accepted" => audit[i].event # Event(h)
    /\ \A i, j \in DOMAIN audit :
          (audit[i].event = audit[j].event /\ audit[i].outcome = "accepted"
              /\ audit[j].outcome = "accepted") => i = j

\* An audit entry tells how its webhook compares with the stored event.
Told ==
    \A i \in DOMAIN audit :
        /\ records[audit[i].event] # Absent
        /\ audit[i].outcome = "conflict" <=> audit[i].content # records[audit[i].event].content

Base ==
    /\ BridgeBase
    /\ TypeOK
    /\ \A w \in posted : w.event \in DOMAIN projects
    /\ \A h \in Replicas : pc[h] # "idle" => Knows(h)
    /\ OneInsertion
    /\ Told
    /\ \A e \in Ordinals : index[e] # -1 =>
          records[e] # Absent /\ index[e] = records[e].at /\ e \in DOMAIN projects
    /\ AcknowledgedIsListed

-----------------------------------------------------------------------------
(* Data.                                                                   *)

\* The sets that bound the values of a run depend on the scenario alone.
LEMMA SameSets ==
    ASSUME UNCHANGED scenario
    PROVE  /\ Times' = Times /\ Ordinals' = Ordinals
           /\ Requests' = Requests /\ Answers' = Answers
           /\ Contents' = Contents /\ Webhooks' = Webhooks /\ Records' = Records
           /\ Calls' = Calls /\ Entries' = Entries
<1>1. Times' = Times /\ Ordinals' = Ordinals BY DEF Times, Ordinals
<1>2. Requests' = Requests BY <1>1 DEF Requests
<1>3. Answers' = Answers BY <1>1, <1>2 DEF Answers
<1>4. Contents' = Contents BY <1>1 DEF Contents
<1>5. Webhooks' = Webhooks BY <1>1, <1>4 DEF Webhooks
<1>6. Records' = Records BY <1>1, <1>4 DEF Records
<1>7. Calls' = Calls BY <1>5, <1>6 DEF Calls
<1>8. Entries' = Entries BY <1>1, <1>4 DEF Entries
<1> QED BY <1>1, <1>2, <1>3, <1>4, <1>5, <1>6, <1>7, <1>8

\* Times and ordinals are natural numbers, with room for what is set from the clock.
LEMMA Bounds ==
    ASSUME BridgeTypeOK
    PROVE  /\ scenario.time \in Nat /\ scenario.sends \in Nat
           /\ now \in Nat /\ Skew \in Nat /\ Ahead \in Nat /\ Ttl \in Nat
           /\ Times \subseteq Nat /\ Ordinals \subseteq Nat
           /\ now + Ttl \in Times
           /\ \A a \in 0..Ahead : now + a \in Times
           /\ NoProject \notin Ordinals
BY WindowAssumption, ScenarioAssumption DEF BridgeTypeOK, Times, Ordinals

LEMMA RequestTypes ==
    ASSUME NEW r \in Requests
    PROVE  /\ r.nonce \in Nonces /\ r.ts \in Times
           /\ r.kind = "create" => r.key \in Keys /\ r.body \in Bodies
           /\ r.kind = "summary" => r.project \in Ordinals
BY DEF Requests

-----------------------------------------------------------------------------
(* Steps of the bridge.                                                    *)

\* A request that is sent is new, and its clock is not too far ahead.
LEMMA SendSafe ==
    ASSUME BridgeBase, NEW r \in Requests, NEW ahead \in 0..Ahead, Send(r, ahead),
           UNCHANGED <<scenario, now>>
    PROVE  BridgeBase'
<1>1. BridgeTypeOK /\ IsFiniteSet(wire) BY DEF BridgeBase
<1>2. /\ r \notin wire /\ wire' = wire \cup {r} /\ Cardinality(wire) < scenario.sends
      /\ handled' = [q \in wire' |-> IF q = r THEN <<>> ELSE handled[q]]
      /\ r.ts = now + ahead
      /\ claimed' = [claimed EXCEPT ![r.nonce] = now + Ttl]
      /\ UNCHANGED <<mode, registry, projects, bound, undelivered, answers>>
      BY DEF Send, Claimed
<1>3. IsFiniteSet(wire') /\ Cardinality(wire') <= scenario'.sends
  <2>1. IsFiniteSet(wire') /\ Cardinality(wire') = Cardinality(wire) + 1
        BY <1>1, <1>2, FS_AddElement
  <2>2. Cardinality(wire) \in Nat /\ scenario.sends \in Nat
        BY <1>1, Bounds, FS_CardinalityType
  <2> QED BY <1>2, <2>1, <2>2
<1>4. \A q \in wire : handled'[q] = handled[q] BY <1>2
<1>5. handled'[r] = <<>> /\ DOMAIN handled' = wire' BY <1>2
<1>6. BridgeTypeOK'
  <2>1. claimed' \in [Nonces -> Times] BY <1>1, <1>2, Bounds DEF BridgeTypeOK
  <2>2. DOMAIN handled' = wire' /\ \A q \in wire' : handled'[q] \in Seq(Times')
    <3>1. Times' = Times BY SameSets
    <3>2. <<>> \in Seq(Times) OBVIOUS
    <3>3. \A q \in wire : handled[q] \in Seq(Times) BY <1>1 DEF BridgeTypeOK
    <3> QED BY <1>2, <1>4, <1>5, <3>1, <3>2, <3>3
  <2>3. wire' \subseteq Requests BY <1>1, <1>2 DEF BridgeTypeOK
  <2> QED BY <1>1, <1>2, <2>1, <2>2, <2>3, SameSets DEF BridgeTypeOK
<1>7. \A q \in wire' : Spent(q)'
  <2>1. ASSUME NEW q \in wire PROVE Spent(q)' BY <1>2, <1>4, <2>1 DEF BridgeBase, Spent
  <2>2. Spent(r)' BY <1>5 DEF Spent
  <2> QED BY <1>2, <2>1, <2>2
<1>8. Drafts' BY <1>2 DEF BridgeBase, Drafts
<1>9. \A a \in answers' : Granted(a)' BY <1>2 DEF BridgeBase, Granted
<1> QED BY <1>3, <1>6, <1>7, <1>8, <1>9 DEF BridgeBase

\* Verification spends the nonce for longer than the timestamp is accepted.
LEMMA VerifySafe ==
    ASSUME BridgeBase, NEW r \in wire, Handle(r), UNCHANGED <<scenario, now>>
    PROVE  /\ UNCHANGED <<mode, claimed, wire>>
           /\ registry' \in [Nonces -> Times]
           /\ DOMAIN handled' = wire' /\ \A q \in wire' : handled'[q] \in Seq(Times')
           /\ \A q \in wire' : Spent(q)'
<1>1. BridgeTypeOK /\ r \in Requests BY DEF BridgeBase, BridgeTypeOK
<1>2. /\ r.nonce \in Nonces /\ r.ts \in Nat /\ now \in Nat /\ now + Ttl \in Times
      /\ Skew \in Nat /\ Ahead \in Nat /\ Ttl \in Nat
      BY <1>1, RequestTypes, Bounds
<1>3. /\ UNCHANGED <<mode, claimed, wire>>
      /\ registry[r.nonce] <= now /\ r.ts - now \in (-Skew)..Skew
      /\ registry' = [registry EXCEPT ![r.nonce] = now + Ttl]
      /\ handled' = [handled EXCEPT ![r] = Append(@, now)]
      BY DEF Handle, Verified, Timely, MayClaim, Claimed
<1>4. registry \in [Nonces -> Times] /\ DOMAIN handled = wire BY <1>1 DEF BridgeTypeOK
<1>5. /\ registry' \in [Nonces -> Times] /\ registry'[r.nonce] = now + Ttl
      /\ \A n \in Nonces : n # r.nonce => registry'[n] = registry[n]
      BY <1>2, <1>3, <1>4
<1>6. /\ handled[r] \in Seq(Times) /\ Len(handled[r]) \in Nat
      /\ DOMAIN handled[r] = 1..Len(handled[r])
      /\ \A i \in DOMAIN handled[r] : handled[r][i] \in Nat
      /\ now \in Times
  <2>1. handled[r] \in Seq(Times) /\ Times \subseteq Nat BY <1>1, Bounds DEF BridgeTypeOK
  <2>2. now + 0 \in Times /\ now + 0 = now BY <1>1, <1>2, Bounds
  <2>3. /\ Len(handled[r]) \in Nat /\ DOMAIN handled[r] = 1..Len(handled[r])
        BY <2>1, LenProperties
  <2>4. \A i \in DOMAIN handled[r] : handled[r][i] \in Times BY <2>1, <2>3, ElementOfSeq
  <2> QED BY <2>1, <2>2, <2>3, <2>4
<1> DEFINE n == Len(handled[r])
<1>7. /\ handled'[r] \in Seq(Times) /\ DOMAIN handled'[r] = 1..(n + 1)
      /\ \A i \in 1..n : handled'[r][i] = handled[r][i]
      /\ handled'[r][n + 1] = now
  <2>1. handled'[r] = Append(handled[r], now) BY <1>3, <1>4
  <2> QED BY <1>6, <2>1, AppendProperties, LenProperties
<1>8. DOMAIN handled' = wire /\ \A q \in wire \ {r} : handled'[q] = handled[q]
      BY <1>3, <1>4
<1>9. \A q \in wire' : handled'[q] \in Seq(Times')
  <2>1. Times' = Times BY SameSets
  <2>2. \A q \in wire : handled[q] \in Seq(Times) BY <1>1 DEF BridgeTypeOK
  <2> QED BY <1>3, <1>7, <1>8, <2>1, <2>2
<1>10. ASSUME NEW q \in wire PROVE Spent(q)'
  <2>1. Spent(q) /\ q \in Requests BY <1>1 DEF BridgeBase, BridgeTypeOK
  <2>2. q.nonce \in Nonces /\ registry[q.nonce] \in Nat
        BY <1>1, <1>4, <2>1, RequestTypes, Bounds
  <2>3. registry'[q.nonce] \in Nat /\ registry[q.nonce] <= registry'[q.nonce]
        BY <1>2, <1>3, <1>5, <2>2
  <2>4. CASE q = r
    <3>1. \A i \in 1..n : handled[r][i] + Ttl <= registry[r.nonce] BY <1>6, <2>1, <2>4 DEF Spent
    <3>2. \A i \in 1..(n + 1) : handled'[r][i] + Ttl <= registry'[r.nonce]
      <4>1. ASSUME NEW i \in 1..n PROVE handled'[r][i] + Ttl <= registry'[r.nonce]
        <5>1. handled[r][i] + Ttl <= registry[r.nonce] /\ handled[r][i] \in Nat BY <1>6, <3>1
        <5> QED BY <1>2, <1>7, <2>2, <2>3, <2>4, <5>1
      <4>2. handled'[r][n + 1] + Ttl <= registry'[r.nonce] BY <1>2, <1>5, <1>7
      <4>3. \A i \in 1..(n + 1) : i \in 1..n \/ i = n + 1 BY <1>6
      <4> QED BY <4>1, <4>2, <4>3
    <3>3. \A i \in 1..n : r.ts - handled[r][i] >= Ttl - Skew
      <4> SUFFICES ASSUME NEW i \in 1..n PROVE r.ts - handled[r][i] >= Ttl - Skew OBVIOUS
      <4>1. handled[r][i] + Ttl <= now
        <5>1. handled[r][i] + Ttl <= registry[r.nonce] /\ handled[r][i] \in Nat BY <1>6, <3>1
        <5> QED BY <1>2, <1>3, <2>2, <2>4, <5>1
      <4>2. r.ts + Skew >= now BY <1>2, <1>3
      <4> QED BY <1>2, <1>6, <4>1, <4>2
    <3>4. ASSUME NEW i \in 1..(n + 1), NEW j \in 1..(n + 1), i < j
          PROVE  r.ts - handled'[r][i] >= Ttl - Skew
      <4>1. i \in 1..n BY <1>6, <3>4
      <4> QED BY <1>7, <3>3, <4>1
    <3> QED BY <1>3, <1>7, <2>4, <3>2, <3>4 DEF Spent
  <2>5. CASE q # r
    <3>1. handled'[q] = handled[q] BY <1>8, <2>5
    <3>2. ASSUME NEW i \in DOMAIN handled[q] PROVE handled[q][i] + Ttl <= registry'[q.nonce]
      <4>1. handled[q] \in Seq(Times) /\ Times \subseteq Nat BY <1>1, Bounds DEF BridgeTypeOK
      <4>2. handled[q][i] \in Nat BY <3>2, <4>1, ElementOfSeq, LenProperties
      <4> QED BY <1>2, <2>1, <2>2, <2>3, <3>2, <4>2 DEF Spent
    <3> QED BY <1>3, <2>1, <3>1, <3>2 DEF Spent
  <2> QED BY <2>4, <2>5
<1> QED BY <1>3, <1>5, <1>8, <1>9, <1>10

\* A request under a new key finds room: each draft has a request of its own.
LEMMA RoomForDraft ==
    ASSUME BridgeBase, NEW r \in wire, r.kind = "create", ~ Replay(r)
    PROVE  Len(projects) + 1 \in Ordinals
<1>1. /\ BridgeTypeOK /\ IsFiniteSet(wire) /\ Cardinality(wire) <= scenario.sends /\ Drafts
      BY DEF BridgeBase
<1>2. Len(projects) \in Nat /\ DOMAIN projects = 1..Len(projects)
      BY <1>1, LenProperties DEF BridgeTypeOK
<1> DEFINE n == Len(projects) + 1
           asked(p) == CHOOSE q \in wire : q.kind = "create" /\ q.key = projects[p].key
           f == [p \in 1..n |-> IF p = n THEN r ELSE asked(p)]
<1>3. ASSUME NEW p \in 1..n, p # n
      PROVE  /\ asked(p) \in wire /\ asked(p).key = projects[p].key
             /\ bound[projects[p].key].project = p
  <2>1. p \in DOMAIN projects BY <1>2, <1>3
  <2> QED BY <1>1, <2>1 DEF Drafts
<1>4. f \in [1..n -> wire] BY <1>3
<1>5. ASSUME NEW p \in 1..n, NEW q \in 1..n, f[p] = f[q] PROVE p = q
  <2>1. ASSUME NEW x \in 1..n, x # n PROVE f[x] # r
    <3>1. f[x] = asked(x) BY <2>1
    <3>2. bound[f[x].key].project = x BY <1>3, <2>1, <3>1
    <3>3. x # NoProject BY <1>2, ScenarioAssumption
    <3> QED BY <3>2, <3>3 DEF Replay
  <2>2. f[n] = r BY <1>2
  <2>3. CASE p = n \/ q = n BY <1>5, <2>1, <2>2, <2>3
  <2>4. CASE p # n /\ q # n
    <3>1. f[p] = asked(p) /\ f[q] = asked(q) BY <2>4
    <3> HIDE DEF f
    <3>2. bound[f[p].key].project = p /\ bound[f[q].key].project = q BY <1>3, <2>4, <3>1
    <3> QED BY <1>5, <3>2
  <2> QED BY <2>3, <2>4
<1> HIDE DEF f
<1>6. f \in Injection(1..n, wire) BY <1>4, <1>5 DEF Injection, IsInjective
<1>7. Cardinality(1..n) <= Cardinality(wire) BY <1>1, <1>6, FS_Injection
<1>8. Cardinality(1..n) = n BY <1>2, FS_Interval
<1>9. Cardinality(wire) \in Nat /\ scenario.sends \in Nat
      BY <1>1, Bounds, FS_CardinalityType
<1> QED BY <1>1, <1>2, <1>7, <1>8, <1>9 DEF Ordinals

\* What an answer must satisfy to be added.
LEMMA AnswerSafe ==
    ASSUME BridgeTypeOK, NEW r \in wire, NEW status \in Statuses,
           NEW p \in Ordinals \cup {NoProject}, Answer(r, status, p)
    PROVE  /\ answers' \subseteq Answers
           /\ \A a \in answers' : \/ a \in answers
                                  \/ a.request = r /\ a.status = status /\ a.project = p
<1>1. [request |-> r, status |-> status, project |-> p] \in Answers
      BY DEF BridgeTypeOK, Answers
<1> QED BY <1>1 DEF BridgeTypeOK, Answer

\* The idempotency table after a request for a draft.
Tables ==
    /\ projects' \in Seq([key : Keys, body : Bodies])
    /\ bound' \in [Keys -> [project : Ordinals, body : Bodies] \cup {Unbound}]
    /\ undelivered' \in Seq(Ordinals)
    /\ answers' \subseteq Answers
    /\ Drafts'
    /\ \A a \in answers' : Granted(a)'
    /\ DOMAIN projects \subseteq DOMAIN projects'
    /\ \A p \in DOMAIN projects : projects'[p] = projects[p]

LEMMA CreateSafe ==
    ASSUME BridgeBase, NEW r \in wire, CreateProject(r), UNCHANGED wire
    PROVE  Tables
<1>1. /\ BridgeTypeOK /\ Drafts /\ r.kind = "create"
      /\ r.key \in Keys /\ r.body \in Bodies
      BY RequestTypes DEF BridgeBase, BridgeTypeOK, CreateProject
<1>2. /\ projects \in Seq([key : Keys, body : Bodies]) /\ undelivered \in Seq(Ordinals)
      /\ bound \in [Keys -> [project : Ordinals, body : Bodies] \cup {Unbound}]
      BY <1>1 DEF BridgeTypeOK
<1>3. CASE Replay(r)
  <2>1. UNCHANGED <<projects, bound, undelivered>>
        BY <1>3 DEF CreateProject, EventQueued
  <2>2. Drafts' BY <1>1, <2>1 DEF Drafts
  <2>3. bound[r.key].project \in Ordinals /\ bound[r.key].project # NoProject
        BY <1>1, <1>2, <1>3 DEF Replay, Unbound
  <2>4. \A a \in answers : Granted(a)' BY <2>1 DEF BridgeBase, Granted
  <2>5. CASE Conflicting(r)
    <3>1. Answer(r, "conflict", NoProject) BY <1>3, <2>5 DEF CreateProject
    <3>2. answers' \subseteq Answers /\ \A a \in answers' : a \in answers \/ a.status = "conflict"
          BY <1>1, <3>1, AnswerSafe DEF Statuses
    <3>3. \A a \in answers' : Granted(a)' BY <2>4, <3>2 DEF Granted
    <3> QED BY <1>2, <2>1, <2>2, <3>2, <3>3 DEF Tables
  <2>6. CASE ~ Conflicting(r)
    <3>1. Answer(r, "ok", bound[r.key].project) BY <1>3, <2>1, <2>6 DEF CreateProject
    <3>2. /\ answers' \subseteq Answers
          /\ \A a \in answers' :
                a \in answers \/ (a.request = r /\ a.project = bound[r.key].project)
          BY <1>1, <2>3, <3>1, AnswerSafe DEF Statuses
    <3>3. bound[r.key].body = r.body BY <2>6 DEF Conflicting
    <3>4. \A a \in answers' : Granted(a)' BY <2>1, <2>3, <2>4, <3>2, <3>3 DEF Granted
    <3> QED BY <1>2, <2>1, <2>2, <3>2, <3>4 DEF Tables
  <2> QED BY <2>5, <2>6
<1>4. CASE ~ Replay(r)
  <2> DEFINE n == Len(projects) + 1
             x == [key |-> r.key, body |-> r.body]
             y == [project |-> n, body |-> r.body]
  <2>1. n \in Ordinals /\ n # NoProject BY <1>1, <1>4, RoomForDraft, Bounds
  <2>2. /\ projects' = Append(projects, x) /\ bound' = [bound EXCEPT ![r.key] = y]
        BY <1>4 DEF CreateProject
  <2>3. x \in [key : Keys, body : Bodies] /\ x.key = r.key BY <1>1
  <2>4. y \in [project : Ordinals, body : Bodies] /\ y.project = n /\ y.body = r.body
        BY <1>1, <2>1
  <2>5. undelivered' = Append(undelivered, bound'[r.key].project)
        /\ Answer(r, "ok", bound'[r.key].project)
        BY <1>4 DEF CreateProject, EventQueued
  <2> HIDE DEF x, y
  <2>6. /\ bound' \in [Keys -> [project : Ordinals, body : Bodies] \cup {Unbound}]
        /\ bound'[r.key] = y /\ \A k \in Keys : k # r.key => bound'[k] = bound[k]
        BY <1>1, <1>2, <2>2, <2>4
  <2>7. undelivered' = Append(undelivered, n) /\ Answer(r, "ok", n) BY <2>4, <2>5, <2>6
  <2>8. /\ DOMAIN projects = 1..Len(projects) /\ Len(projects) \in Nat
        BY <1>2, LenProperties
  <2>9. /\ projects' \in Seq([key : Keys, body : Bodies])
        /\ DOMAIN projects' = 1..n /\ projects'[n] = x
        /\ \A p \in DOMAIN projects : projects'[p] = projects[p]
        BY <1>2, <2>2, <2>3, <2>8, AppendProperties, LenProperties
  <2>10. DOMAIN projects \subseteq DOMAIN projects' /\ n \in DOMAIN projects' /\ n \notin DOMAIN projects
         BY <2>8, <2>9
  <2>11. \A p \in DOMAIN projects' : p \in DOMAIN projects \/ p = n BY <2>8, <2>9
  <2>12. Drafts'
    <3>1. ASSUME NEW p \in DOMAIN projects'
          PROVE  /\ bound'[projects'[p].key].project = p
                 /\ \E q \in wire' : q.kind = "create" /\ q.key = projects'[p].key
      <4>1. CASE p = n BY <1>1, <2>3, <2>4, <2>6, <2>9, <4>1
      <4>2. CASE p \in DOMAIN projects
        <5>1. projects'[p] = projects[p] /\ projects[p].key \in Keys
          <6>1. projects[p] \in [key : Keys, body : Bodies] BY <1>2, <2>8, <4>2, ElementOfSeq
          <6> QED BY <2>9, <4>2, <6>1
        <5>2. bound[projects[p].key].project = p BY <1>1, <4>2 DEF Drafts
        <5>3. p # NoProject BY <2>8, <4>2, ScenarioAssumption
        <5>4. projects[p].key # r.key BY <1>4, <5>2, <5>3 DEF Replay
        <5> QED BY <1>1, <2>6, <4>2, <5>1, <5>2, <5>4 DEF Drafts
      <4> QED BY <2>11, <4>1, <4>2
    <3>2. \A k \in Keys : bound'[k].project # NoProject => bound'[k].project \in DOMAIN projects'
          BY <1>1, <2>4, <2>6, <2>10 DEF Drafts
    <3>3. ASSUME NEW i \in DOMAIN undelivered' PROVE undelivered'[i] \in DOMAIN projects'
      <4>1. /\ Len(undelivered) \in Nat /\ DOMAIN undelivered = 1..Len(undelivered)
            BY <1>2, LenProperties
      <4>2. /\ DOMAIN undelivered' = 1..(Len(undelivered) + 1)
            /\ \A j \in 1..Len(undelivered) : undelivered'[j] = undelivered[j]
            /\ undelivered'[Len(undelivered) + 1] = n
            BY <1>2, <2>1, <2>7, AppendProperties, LenProperties
      <4> QED BY <1>1, <2>10, <3>3, <4>1, <4>2 DEF Drafts
    <3> QED BY <3>1, <3>2, <3>3 DEF Drafts
  <2>13. undelivered' \in Seq(Ordinals) BY <1>2, <2>1, <2>7, AppendProperties
  <2>14. answers' \subseteq Answers /\ \A a \in answers' : Granted(a)'
    <3>1. /\ answers' \subseteq Answers
          /\ \A a \in answers' : a \in answers \/ (a.request = r /\ a.project = n)
          BY <1>1, <2>1, <2>7, AnswerSafe DEF Statuses
    <3>2. ASSUME NEW a \in answers PROVE Granted(a)'
      <4> SUFFICES ASSUME a.request.kind = "create", a.status = "ok" PROVE Granted(a)'
          BY DEF Granted
      <4>1. Granted(a) BY DEF BridgeBase
      <4>2. bound[a.request.key].project # NoProject BY <4>1 DEF Granted
      <4>3. a.request.key # r.key BY <1>4, <4>2 DEF Replay
      <4>4. a.request \in Requests BY <1>1 DEF BridgeTypeOK, Answers
      <4>5. bound'[a.request.key] = bound[a.request.key] BY <2>6, <4>3, <4>4, RequestTypes
      <4> QED BY <4>1, <4>5 DEF Granted
    <3>3. ASSUME NEW a, a.request = r, a.project = n PROVE Granted(a)'
          BY <2>1, <2>4, <2>6, <3>3 DEF Granted
    <3> QED BY <3>1, <3>2, <3>3
  <2> QED BY <2>6, <2>9, <2>10, <2>12, <2>13, <2>14 DEF Tables
<1> QED BY <1>3, <1>4

\* Reading answers, and changes no table.
LEMMA ReadSafe ==
    ASSUME BridgeBase, NEW r \in wire, ReadSummary(r) \/ ReadContract(r), UNCHANGED wire
    PROVE  Tables
<1>1. BridgeTypeOK /\ Drafts /\ r \in Requests BY DEF BridgeBase, BridgeTypeOK
<1>2. UNCHANGED <<projects, bound, undelivered>> /\ r.kind # "create"
      BY DEF ReadSummary, ReadContract
<1>3. \E status \in Statuses, p \in Ordinals \cup {NoProject} : Answer(r, status, p)
      BY <1>1, RequestTypes DEF ReadSummary, ReadContract, Statuses
<1>4. answers' \subseteq Answers /\ \A a \in answers' : a \in answers \/ a.request = r
      BY <1>1, <1>3, AnswerSafe
<1>5. \A a \in answers' : Granted(a)' BY <1>2, <1>4 DEF BridgeBase, Granted
<1>6. Drafts' BY <1>1, <1>2 DEF Drafts
<1> QED BY <1>1, <1>2, <1>4, <1>5, <1>6 DEF Tables, BridgeTypeOK

LEMMA HandleSafe ==
    ASSUME BridgeBase, NEW r \in wire, Handle(r), UNCHANGED <<scenario, now>>
    PROVE  BridgeBase' /\ Tables
<1>1. /\ UNCHANGED <<mode, claimed, wire>>
      /\ registry' \in [Nonces -> Times]
      /\ DOMAIN handled' = wire' /\ \A q \in wire' : handled'[q] \in Seq(Times')
      /\ \A q \in wire' : Spent(q)'
      BY VerifySafe
<1>2. Tables BY <1>1, CreateSafe, ReadSafe DEF Handle
<1>3. BridgeTypeOK'
      BY <1>1, <1>2, SameSets DEF BridgeBase, BridgeTypeOK, Tables
<1> QED BY <1>1, <1>2, <1>3 DEF BridgeBase, Tables

\* Drafts whose event is taken stay drafts.
LEMMA DrainSafe ==
    ASSUME BridgeBase, Drain, UNCHANGED <<scenario, now>>
    PROVE  BridgeBase' /\ Head(undelivered) \in DOMAIN projects
<1>1. BridgeTypeOK /\ Drafts /\ undelivered \in Seq(Ordinals) /\ undelivered # <<>>
      BY DEF BridgeBase, BridgeTypeOK, Drain
<1>2. undelivered' = Tail(undelivered)
      /\ UNCHANGED <<mode, claimed, wire, registry, projects, bound, answers, handled>>
      BY DEF Drain
<1>3. /\ undelivered' \in Seq(Ordinals)
      /\ DOMAIN undelivered = 1..Len(undelivered) /\ Len(undelivered) \in Nat \ {0}
      /\ DOMAIN undelivered' = 1..(Len(undelivered) - 1)
      /\ \A i \in DOMAIN undelivered' : undelivered'[i] = undelivered[i + 1]
      BY <1>1, <1>2, HeadTailProperties, LenProperties
<1>4. Drafts' BY <1>1, <1>2, <1>3 DEF Drafts
<1>5. BridgeTypeOK' BY <1>1, <1>2, <1>3, SameSets DEF BridgeTypeOK
<1>6. \A r \in wire' : Spent(r)' BY <1>2 DEF BridgeBase, Spent
<1>7. \A a \in answers' : Granted(a)' BY <1>2 DEF BridgeBase, Granted
<1>8. Head(undelivered) = undelivered[1] OBVIOUS
<1> QED BY <1>1, <1>2, <1>3, <1>4, <1>5, <1>6, <1>7, <1>8 DEF BridgeBase, Drafts

\* The hub's side and the clock leave the bridge alone.
LEMMA BridgeStays ==
    ASSUME BridgeBase, UNCHANGED <<scenario, bridge>>,
           now' = now \/ (now' = now + 1 /\ now < scenario.time)
    PROVE  BridgeBase'
<1>1. BridgeTypeOK BY DEF BridgeBase
<1>2. now' \in 0..scenario.time /\ now' >= now /\ now \in Nat /\ now' \in Nat
      BY <1>1, Bounds DEF BridgeTypeOK
<1>3. BridgeTypeOK' BY <1>1, <1>2, SameSets DEF BridgeTypeOK, bridge
<1>4. ASSUME NEW r \in wire PROVE Spent(r)'
  <2>1. r \in Requests /\ Spent(r) BY <1>1 DEF BridgeBase, BridgeTypeOK
  <2>2. r.ts \in Nat /\ Ahead \in Nat BY <1>1, <2>1, RequestTypes, Bounds
  <2> QED BY <1>2, <2>1, <2>2 DEF Spent, bridge
<1>5. Drafts' /\ \A a \in answers' : Granted(a)' BY DEF BridgeBase, Drafts, Granted, bridge
<1> QED BY <1>3, <1>4, <1>5 DEF BridgeBase, bridge

-----------------------------------------------------------------------------
(* Steps of the receiver.                                                  *)

LEMMA AbsentApart ==
    ASSUME NEW r \in Records \cup {Absent}, r # Absent, TypeOK
    PROVE  r \in Records /\ r.at \in 0..scenario.time /\ r.at # -1
<1>1. scenario.time \in Nat BY Bounds DEF TypeOK
<1> QED BY <1>1 DEF Records

\* Nothing that the receiver keeps changes when the factory or the clock moves.
LEMMA PostSafe ==
    ASSUME Base, BridgeBase', UNCHANGED <<scenario, Stored, pc, call, accepted, deaths>>,
           DOMAIN projects \subseteq DOMAIN projects',
           posted' \subseteq Webhooks, \A w \in posted' : w.event \in DOMAIN projects'
    PROVE  Base'
<1> USE DEF Stored
<1>1. TypeOK' BY SameSets DEF Base, TypeOK, BridgeBase
<1>2. ASSUME NEW h \in Replicas, pc'[h] # "idle" PROVE Knows(h)'
  <2>1. Knows(h) BY <1>2 DEF Base
  <2> QED BY <2>1, SameSets DEF Knows
<1>0. /\ records' = records /\ index' = index /\ audit' = audit /\ pc' = pc /\ call' = call
      /\ OneInsertion
      /\ \A e \in Ordinals : index[e] # -1 =>
            records[e] # Absent /\ index[e] = records[e].at /\ e \in DOMAIN projects
      BY DEF Base
<1>3. OneInsertion' BY <1>0 DEF OneInsertion, Inserting, Event
<1>4. Told' BY DEF Base, Told
<1>5. AcknowledgedIsListed' BY DEF Base, AcknowledgedIsListed
<1>6. \A e \in Ordinals' : index'[e] # -1 =>
          records'[e] # Absent /\ index'[e] = records'[e].at /\ e \in DOMAIN projects'
      BY <1>0, SameSets
<1> QED BY <1>1, <1>2, <1>3, <1>4, <1>5, <1>6 DEF Base

LEMMA FactorySafe == ASSUME Base, Factory, UNCHANGED <<scenario, now>> PROVE Base'
<1>1. /\ BridgeBase /\ BridgeTypeOK /\ TypeOK /\ posted \subseteq Webhooks
      /\ \A w \in posted : w.event \in DOMAIN projects
      /\ scenario \in Scenarios
      BY DEF Base, BridgeBase, BridgeTypeOK, TypeOK
<1>2. scenario.aheads \subseteq 0..Ahead /\ now \in Times
  <2>1. scenario.aheads \subseteq 0..Ahead BY <1>1, ScenarioAssumption
  <2>2. now + 0 \in Times /\ now \in Nat BY <1>1, Bounds
  <2> QED BY <2>1, <2>2
<1>3. ASSUME NEW r \in Requests, NEW ahead \in 0..Ahead, Bridge(Send(r, ahead)) PROVE Base'
  <2>1. BridgeBase' BY <1>1, <1>3, SendSafe DEF Bridge
  <2>2. UNCHANGED <<posted, Stored, pc, call, accepted, deaths, projects>>
        BY <1>3 DEF Bridge, Send, events, Stored
  <2> QED BY <1>1, <2>1, <2>2, PostSafe
<1>4. ASSUME NEW k \in Keys, NEW b \in Bodies, NEW n \in Nonces, NEW a \in scenario.aheads,
             Bridge(CreateDraftProject(k, b, n, a))
      PROVE  Base'
  <2>1. [kind |-> "create", key |-> k, body |-> b, nonce |-> n, ts |-> now + a] \in Requests
        BY <1>1, <1>2, Bounds DEF Requests
  <2> QED BY <1>2, <1>3, <1>4, <2>1 DEF CreateDraftProject, Bridge
<1>5. ASSUME NEW p \in Ordinals, NEW n \in Nonces, NEW a \in scenario.aheads,
             Bridge(GetProjectSummary(p, n, a))
      PROVE  Base'
  <2>1. [kind |-> "summary", project |-> p, nonce |-> n, ts |-> now + a] \in Requests
        BY <1>1, <1>2, Bounds DEF Requests
  <2> QED BY <1>2, <1>3, <1>5, <2>1 DEF GetProjectSummary, Bridge
<1>6. ASSUME NEW n \in Nonces, NEW a \in scenario.aheads, Bridge(GetContract(n, a)) PROVE Base'
  <2>1. [kind |-> "contract", nonce |-> n, ts |-> now + a] \in Requests
        BY <1>1, <1>2, Bounds DEF Requests
  <2> QED BY <1>2, <1>3, <1>6, <2>1 DEF GetContract, Bridge
<1>7. ASSUME NEW r \in wire, Bridge(Handle(r)) PROVE Base'
  <2>1. BridgeBase' /\ Tables BY <1>1, <1>7, HandleSafe DEF Bridge
  <2>2. UNCHANGED <<posted, Stored, pc, call, accepted, deaths>>
        BY <1>7 DEF Bridge, events, Stored
  <2> QED BY <1>1, <2>1, <2>2, PostSafe DEF Tables
<1>8. CASE DrainWebhooks
  <2> DEFINE p == Head(undelivered)
             w == [event |-> p, named |-> p, live |-> TRUE, ts |-> now,
                   content |-> [project |-> p, body |-> projects[p].body]]
  <2>1. BridgeBase' /\ p \in DOMAIN projects BY <1>1, <1>8, DrainSafe DEF DrainWebhooks
  <2>2. posted' = posted \cup {w} /\ UNCHANGED <<Stored, pc, call, accepted, deaths, projects>>
        BY <1>8 DEF DrainWebhooks, Drain
  <2>3. projects[p].body \in Bodies
    <3>1. projects \in Seq([key : Keys, body : Bodies]) BY <1>1 DEF BridgeTypeOK
    <3>2. projects[p] \in [key : Keys, body : Bodies]
          BY <2>1, <3>1, ElementOfSeq, LenProperties
    <3> QED BY <3>2
  <2>4. p \in Ordinals
    <3>1. undelivered \in Seq(Ordinals) /\ undelivered # <<>>
          BY <1>1, <1>8 DEF BridgeTypeOK, DrainWebhooks, Drain
    <3> QED BY <3>1, HeadTailProperties
  <2>5. w \in Webhooks /\ w.event = p BY <1>2, <2>3, <2>4 DEF Webhooks, Contents
  <2> HIDE DEF w, p
  <2> QED BY <1>1, <2>1, <2>2, <2>5, PostSafe
<1>9. ASSUME NEW v \in scenario.reposts, Repost([v EXCEPT !.ts = now]) PROVE Base'
  <2> DEFINE w == [v EXCEPT !.ts = now]
  <2>1. v \in [event : Ordinals, named : Ordinals, live : BOOLEAN, content : Contents, ts : {0}]
        BY <1>1, <1>9, RepostAssumption DEF Ordinals, Contents
  <2>2. w \in Webhooks /\ w.event = v.event BY <1>2, <2>1 DEF Webhooks
  <2>3. /\ posted' = posted \cup {w} /\ \E old \in posted : w.event = old.event
        /\ UNCHANGED <<bridge, Stored, pc, call, accepted, deaths>>
        BY <1>9 DEF Repost
  <2> HIDE DEF w
  <2>4. BridgeBase' /\ projects' = projects BY <1>1, <2>3, BridgeStays DEF bridge
  <2> QED BY <1>1, <2>2, <2>3, <2>4, PostSafe
<1> QED BY <1>4, <1>5, <1>6, <1>7, <1>8, <1>9 DEF Factory

LEMMA ClockSafe == ASSUME Base, Clock PROVE Base'
<1>1. BridgeBase' /\ projects' = projects BY BridgeStays DEF Base, Clock, bridge
<1>2. posted' = posted /\ posted \subseteq Webhooks BY DEF Clock, events, Base, TypeOK
<1> QED BY <1>1, <1>2, PostSafe DEF Base, Clock, events, Stored

\* A step of a replica moves that replica alone; a stored event is never changed, and
\* the index of an event is left alone or set to its first receipt.
Moves(g) ==
    /\ UNCHANGED <<posted, projects>>
    /\ \A h \in Replicas \ {g} : pc'[h] = pc[h] /\ call'[h] = call[h]
    /\ \A e \in Ordinals : records[e] # Absent => records'[e] = records[e]
    /\ \A e \in Ordinals :
          \/ index'[e] = index[e]
          \/ records[e] # Absent /\ index'[e] = records[e].at /\ e \in DOMAIN projects

LEMMA ReceiverMoves == ASSUME Base, NEW g \in Replicas, Receiver(g), UNCHANGED scenario PROVE Moves(g)
<1>1. TypeOK BY DEF Base
<1>2. pc[g] # "idle" => Knows(g) BY DEF Base
<1> USE DEF Moves, Goto, TypeOK, bridge, Stored
<1>3. ASSUME NEW w \in posted, Receive(g, w) PROVE Moves(g) BY <1>1, <1>3 DEF Receive
<1>4. CASE InsertEvent(g) BY <1>1, <1>4 DEF InsertEvent
<1>5. CASE IndexEvent(g)
  <2>1. /\ records[Event(g)] # Absent /\ records[Event(g)].at = call[g].at
        /\ Event(g) \in DOMAIN projects
        BY <1>2, <1>5 DEF IndexEvent, Knows, Event
  <2> QED BY <1>1, <1>5, <2>1 DEF IndexEvent
<1>6. CASE ReadExisting(g)
  <2> DEFINE c == [call[g] EXCEPT !.existing = records[Event(g)],
                    !.outcome = IF SameBody(g) THEN "idempotent_replay" ELSE "conflict"]
  <2>1. call' = [call EXCEPT ![g] = c] BY <1>6 DEF ReadExisting
  <2> HIDE DEF c
  <2> QED BY <1>1, <1>6, <2>1 DEF ReadExisting
<1>7. CASE RepairIndex(g)
  <2>1. /\ records[Event(g)] # Absent /\ call[g].existing = records[Event(g)]
        /\ Event(g) \in DOMAIN projects
        BY <1>2, <1>7 DEF RepairIndex, Knows, Event
  <2> QED BY <1>1, <1>7, <2>1 DEF RepairIndex, Repaired
<1>8. CASE AuditAndAnswer(g) BY <1>1, <1>8 DEF AuditAndAnswer
<1>9. CASE Die(g) BY <1>1, <1>9 DEF Die
<1> QED BY <1>3, <1>4, <1>5, <1>6, <1>7, <1>8, <1>9 DEF Receiver

\* What is indexed stays so, with the same time.
LEMMA IndexSafe ==
    ASSUME Base, NEW g \in Replicas, Moves(g), UNCHANGED scenario, NEW e \in Ordinals
    PROVE  /\ index[e] # -1 => index'[e] # -1
           /\ index'[e] # -1 =>
                 records'[e] # Absent /\ index'[e] = records'[e].at /\ e \in DOMAIN projects'
<1>1. TypeOK /\ records[e] \in Records \cup {Absent} BY DEF Base, TypeOK
<1>2. CASE index'[e] = index[e] BY <1>1, <1>2, AbsentApart DEF Base, Moves
<1>3. CASE records[e] # Absent /\ index'[e] = records[e].at /\ e \in DOMAIN projects
      BY <1>1, <1>3, AbsentApart DEF Moves
<1> QED BY <1>2, <1>3 DEF Moves

\* What the other replicas know is not disturbed.
LEMMA OthersKnow ==
    ASSUME Base, NEW g \in Replicas, Moves(g), UNCHANGED scenario,
           NEW h \in Replicas \ {g}, pc'[h] # "idle"
    PROVE  Knows(h)'
<1>1. pc'[h] = pc[h] /\ call'[h] = call[h] /\ projects' = projects BY DEF Moves
<1>2. Knows(h) BY <1>1 DEF Base
<1>3. call[h].webhook.event \in Ordinals BY <1>2 DEF Knows, Calls, Webhooks
<1>4. index[call[h].webhook.event] # -1 => index'[call[h].webhook.event] # -1
      BY <1>3, IndexSafe
<1>5. records[call[h].webhook.event] # Absent =>
          records'[call[h].webhook.event] = records[call[h].webhook.event]
      BY <1>3 DEF Moves
<1> QED BY <1>1, <1>2, <1>4, <1>5, SameSets DEF Knows
\* The local variables after the existing record was read.
LEMMA CallRead ==
    ASSUME NEW c \in Calls, NEW x, NEW o
    PROVE  [c EXCEPT !.existing = x, !.outcome = o]
               = [webhook |-> c.webhook, at |-> c.at, existing |-> x, outcome |-> o]
<1> DEFINE d == [c EXCEPT !.existing = x]
<1>1. [c EXCEPT !.existing = x, !.outcome = o] = [d EXCEPT !.outcome = o] OBVIOUS
<1>2. d = [webhook |-> c.webhook, at |-> c.at, existing |-> x, outcome |-> c.outcome]
      BY DEF Calls
<1> HIDE DEF d
<1>3. [d EXCEPT !.outcome = o]
          = [webhook |-> c.webhook, at |-> c.at, existing |-> x, outcome |-> o]
      BY <1>2
<1> QED BY <1>1, <1>3

\* What a replica knows after its own step.
LEMMA OwnKnows ==
    ASSUME Base, NEW g \in Replicas, Receiver(g), UNCHANGED <<scenario, now>>, pc'[g] # "idle"
    PROVE  Knows(g)' /\ call'[g] \in Calls
<1>1. /\ TypeOK /\ BridgeTypeOK /\ Moves(g) /\ projects' = projects
      BY ReceiverMoves DEF Base, BridgeBase, Moves
<1>2. pc[g] # "idle" => Knows(g) BY DEF Base
<1> DEFINE c == call[g]
           e == c.webhook.event
<1>3. pc[g] # "idle" =>
          /\ c \in Calls /\ c.webhook \in Webhooks /\ e \in Ordinals
          /\ records[e] \in Records \cup {Absent}
      BY <1>1, <1>2 DEF Knows, Calls, Webhooks, TypeOK
<1>4. e \in Ordinals /\ index[e] # -1 => index'[e] # -1 BY <1>1, IndexSafe
<1> USE DEF Goto, Event, Stored
<1>5. ASSUME NEW w \in posted, Receive(g, w) PROVE Knows(g)' /\ call'[g] \in Calls
  <2> DEFINE d == [webhook |-> w, at |-> now, existing |-> Absent, outcome |-> "accepted"]
  <2>1. call'[g] = d /\ pc'[g] = "insert" BY <1>1, <1>5 DEF Receive, TypeOK
  <2>2. w \in Webhooks /\ now \in 0..scenario.time BY <1>1 DEF TypeOK, BridgeTypeOK
  <2>3. d \in Calls /\ d.webhook = w /\ d.outcome = "accepted" BY <2>2 DEF Calls
  <2>4. w.event \in DOMAIN projects BY DEF Base
  <2> HIDE DEF d
  <2> QED BY <1>1, <2>1, <2>3, <2>4, SameSets DEF Knows
<1>6. CASE InsertEvent(g)
  <2>1. pc[g] = "insert" /\ call'[g] = c BY <1>6 DEF InsertEvent
  <2>2. c \in Calls /\ e \in DOMAIN projects /\ c.outcome = "accepted" /\ e \in Ordinals
        BY <1>2, <1>3, <2>1 DEF Knows
  <2>3. CASE records[e] = Absent
    <3>1. NewRecord(g) # Absent /\ NewRecord(g).content = c.webhook.content
          /\ NewRecord(g).at = c.at
      <4>1. c.at \in 0..scenario.time BY <1>3, <2>1 DEF Calls
      <4>2. DOMAIN NewRecord(g) # DOMAIN Absent BY DEF NewRecord, Absent
      <4> QED BY <4>2 DEF NewRecord
    <3>2. records'[e] = NewRecord(g) /\ pc'[g] = "index"
          BY <1>1, <1>6, <2>2, <2>3 DEF InsertEvent, TypeOK
    <3> QED BY <1>1, <2>1, <2>2, <3>1, <3>2, SameSets DEF Knows
  <2>4. CASE records[e] # Absent
    <3>1. records'[e] = records[e] /\ pc'[g] = "read"
          BY <1>1, <1>6, <2>4 DEF InsertEvent, TypeOK
    <3> QED BY <1>1, <2>1, <2>2, <2>4, <3>1, SameSets DEF Knows
  <2> QED BY <2>3, <2>4
<1>7. CASE IndexEvent(g)
  <2>1. /\ pc[g] = "index" /\ call'[g] = c /\ records' = records /\ pc'[g] = "audit"
        BY <1>1, <1>7 DEF IndexEvent, TypeOK
  <2>2. /\ c \in Calls /\ e \in DOMAIN projects /\ c.outcome = "accepted" /\ e \in Ordinals
        /\ records[e] # Absent /\ records[e].content = c.webhook.content
        BY <1>2, <1>3, <2>1 DEF Knows
  <2>3. index'[e] # -1
    <3>1. c.at \in Nat BY <2>2 DEF Calls
    <3>2. index'[e] = c.at BY <1>1, <1>7, <2>2 DEF IndexEvent, TypeOK
    <3> QED BY <3>1, <3>2
  <2> QED BY <1>1, <2>1, <2>2, <2>3, SameSets DEF Knows
<1>8. CASE ReadExisting(g)
  <2> DEFINE o == IF SameBody(g) THEN "idempotent_replay" ELSE "conflict"
             d == [webhook |-> c.webhook, at |-> c.at, existing |-> records[e], outcome |-> o]
  <2>1. pc[g] = "read" /\ records' = records BY <1>8 DEF ReadExisting
  <2>2. c \in Calls /\ e \in DOMAIN projects /\ e \in Ordinals /\ records[e] # Absent
        BY <1>2, <1>3, <2>1 DEF Knows
  <2>3. call'[g] = d
    <3>1. [c EXCEPT !.existing = records[e], !.outcome = o] = d BY <2>2, CallRead
    <3>2. call' = [call EXCEPT ![g] = [c EXCEPT !.existing = records[e], !.outcome = o]]
          BY <1>8 DEF ReadExisting
    <3> HIDE DEF d
    <3> QED BY <1>1, <3>1, <3>2 DEF TypeOK
  <2>4. pc'[g] = IF SameBody(g) THEN "repair" ELSE "audit"
        BY <1>1, <1>8 DEF ReadExisting, TypeOK
  <2>5. /\ d \in Calls /\ d.webhook = c.webhook /\ d.existing = records[e] /\ d.outcome = o
        BY <1>3, <2>1, <2>2 DEF Calls
  <2> HIDE DEF d
  <2>6. CASE SameBody(g)
        BY <1>1, <2>1, <2>2, <2>3, <2>4, <2>5, <2>6, SameSets DEF Knows, SameBody
  <2>7. CASE ~ SameBody(g)
        BY <1>1, <2>1, <2>2, <2>3, <2>4, <2>5, <2>7, SameSets DEF Knows, SameBody
  <2> QED BY <2>6, <2>7
<1>9. CASE RepairIndex(g)
  <2>1. /\ pc[g] = "repair" /\ call'[g] = c /\ records' = records /\ pc'[g] = "audit"
        BY <1>1, <1>9 DEF RepairIndex, TypeOK
  <2>2. /\ c \in Calls /\ e \in DOMAIN projects /\ c.outcome = "idempotent_replay"
        /\ e \in Ordinals /\ records[e] # Absent /\ records[e].content = c.webhook.content
        /\ c.existing = records[e]
        BY <1>2, <1>3, <2>1 DEF Knows
  <2>3. index'[e] = records[e].at
        BY <1>1, <1>9, <2>2 DEF RepairIndex, Repaired, TypeOK
  <2>4. index'[e] # -1 BY <1>1, <1>3, <2>1, <2>2, <2>3, AbsentApart
  <2> QED BY <1>1, <2>1, <2>2, <2>4, SameSets DEF Knows
<1>10. ~ AuditAndAnswer(g) /\ ~ Die(g) BY <1>1 DEF AuditAndAnswer, Die, TypeOK
<1> QED BY <1>5, <1>6, <1>7, <1>8, <1>9, <1>10 DEF Receiver

\* The audit list after an entry: it ends with it, and may have lost its first one.
Extended(s, x, t) ==
    \E k \in {0, 1} :
        /\ DOMAIN t = 1..(Len(s) + 1 - k)
        /\ \A i \in DOMAIN t : \/ i + k \in DOMAIN s /\ t[i] = s[i + k]
                               \/ i + k = Len(s) + 1 /\ t[i] = x

LEMMA AuditExtended ==
    ASSUME TypeOK, NEW x \in Entries
    PROVE  /\ Audited(Append(audit, x)) \in Seq(Entries)
           /\ Len(Audited(Append(audit, x))) <= scenario.kept
           /\ Extended(audit, x, Audited(Append(audit, x)))
<1> DEFINE s == Append(audit, x)
<1>1. /\ audit \in Seq(Entries) /\ Len(audit) <= scenario.kept /\ scenario.kept \in Nat
      /\ Len(audit) \in Nat /\ DOMAIN audit = 1..Len(audit)
      BY RepostAssumption, LenProperties DEF TypeOK, BridgeTypeOK
<1>2. /\ s \in Seq(Entries) /\ s # <<>> /\ Len(s) = Len(audit) + 1
      /\ \A i \in 1..Len(audit) : s[i] = audit[i]
      /\ s[Len(audit) + 1] = x
      BY <1>1, AppendProperties
<1> HIDE DEF s
<1>3. DOMAIN s = 1..(Len(audit) + 1) BY <1>2, LenProperties
<1>4. CASE Len(s) > scenario.kept
  <2>1. /\ Tail(s) \in Seq(Entries) /\ Len(Tail(s)) = Len(audit)
        /\ \A i \in 1..Len(audit) : Tail(s)[i] = s[i + 1]
        BY <1>1, <1>2, HeadTailProperties
  <2>2. DOMAIN Tail(s) = 1..Len(audit) BY <2>1, LenProperties
  <2>3. Extended(audit, x, Tail(s))
    <3>1. \A i \in DOMAIN Tail(s) : \/ i + 1 \in DOMAIN audit /\ Tail(s)[i] = audit[i + 1]
                                    \/ i + 1 = Len(audit) + 1 /\ Tail(s)[i] = x
          BY <1>1, <1>2, <2>1, <2>2
    <3>2. DOMAIN Tail(s) = 1..(Len(audit) + 1 - 1) BY <1>1, <2>2
    <3> QED BY <3>1, <3>2 DEF Extended
  <2>4. Audited(s) = Tail(s) BY <1>4 DEF Audited
  <2> QED BY <1>1, <2>1, <2>3, <2>4 DEF s
<1>5. CASE ~ (Len(s) > scenario.kept)
  <2>1. Audited(s) = s BY <1>5 DEF Audited
  <2>2. Len(s) <= scenario.kept BY <1>1, <1>2, <1>5
  <2>3. Extended(audit, x, s)
    <3>1. \A i \in DOMAIN s : \/ i + 0 \in DOMAIN audit /\ s[i] = audit[i + 0]
                              \/ i + 0 = Len(audit) + 1 /\ s[i] = x
          BY <1>1, <1>2, <1>3
    <3>2. DOMAIN s = 1..(Len(audit) + 1 - 0) BY <1>1, <1>3
    <3> QED BY <3>1, <3>2 DEF Extended
  <2> QED BY <1>2, <2>1, <2>2, <2>3 DEF s
<1> QED BY <1>4, <1>5
\* The only step that changes the audit list writes the entry of a replica that is to
\* answer, and leaves every record and index alone.
Tells(g) ==
    /\ pc[g] = "audit" /\ pc'[g] = "idle" /\ Entry(g) \in Entries
    /\ audit' \in Seq(Entries) /\ Len(audit') <= scenario.kept
    /\ Extended(audit, Entry(g), audit')
    /\ accepted' = accepted \cup (IF call[g].outcome = "conflict" THEN {} ELSE {Entry(g)})
    /\ UNCHANGED <<records, index>>

LEMMA ReceiverTells ==
    ASSUME Base, NEW g \in Replicas, Receiver(g)
    PROVE  (~ AuditAndAnswer(g) /\ UNCHANGED <<audit, accepted>>) \/ (AuditAndAnswer(g) /\ Tells(g))
<1>1. CASE AuditAndAnswer(g)
  <2>1. TypeOK /\ pc[g] = "audit" BY <1>1 DEF Base, AuditAndAnswer
  <2>2. call[g] \in Calls BY <2>1 DEF Base, Knows
  <2>3. Entry(g) \in Entries BY <2>2 DEF Entry, Entries, Event, Calls, Webhooks
  <2>4. audit' = Audited(Append(audit, Entry(g))) BY <1>1 DEF AuditAndAnswer
  <2>5. /\ audit' \in Seq(Entries) /\ Len(audit') <= scenario.kept
        /\ Extended(audit, Entry(g), audit')
        BY <2>1, <2>3, <2>4, AuditExtended
  <2> QED BY <1>1, <2>1, <2>3, <2>5 DEF AuditAndAnswer, Tells, Goto, TypeOK
<1>2. CASE ~ AuditAndAnswer(g)
      BY <1>2 DEF Receiver, Receive, InsertEvent, IndexEvent, ReadExisting, RepairIndex, Die, Stored
<1> QED BY <1>1, <1>2

LEMMA ReceiverTyped ==
    ASSUME Base, NEW g \in Replicas, Receiver(g), UNCHANGED <<scenario, now>>
    PROVE  TypeOK' /\ BridgeBase'
<1>1. TypeOK /\ BridgeTypeOK BY DEF Base, TypeOK
<1>2. UNCHANGED <<bridge, posted>>
      BY DEF Receiver, Receive, InsertEvent, IndexEvent, ReadExisting, RepairIndex,
         AuditAndAnswer, Die
<1>3. BridgeBase' BY <1>2, BridgeStays DEF Base
<1>4. deaths' \in 0..scenario.deaths
  <2>1. scenario.deaths \in Nat BY <1>1, RepostAssumption DEF BridgeTypeOK
  <2> QED BY <1>1, <2>1 DEF TypeOK, Receiver, Receive, InsertEvent, IndexEvent, ReadExisting,
             RepairIndex, AuditAndAnswer, Die
<1>5. pc' \in [Replicas -> {"idle", "insert", "index", "read", "repair", "audit"}]
      BY <1>1 DEF TypeOK, Goto, Receiver, Receive, InsertEvent, IndexEvent, ReadExisting,
         RepairIndex, AuditAndAnswer, Die
<1>6. call' \in [Replicas -> Calls \cup {NoCall}]
  <2>1. \E v : call' = [call EXCEPT ![g] = v]
    <3>1. CASE UNCHANGED call
      <4>1. call' = [call EXCEPT ![g] = call[g]] BY <1>1, <3>1 DEF TypeOK
      <4> QED BY <4>1
    <3>2. CASE \/ \E w \in posted : Receive(g, w)
               \/ ReadExisting(g) \/ AuditAndAnswer(g) \/ Die(g)
          BY <3>2 DEF Receive, ReadExisting, AuditAndAnswer, Die
    <3> QED BY <3>1, <3>2 DEF Receiver, InsertEvent, IndexEvent, RepairIndex
  <2>2. pc'[g] = "idle" => call'[g] = NoCall
    <3>1. CASE AuditAndAnswer(g) \/ Die(g) BY <1>1, <3>1 DEF AuditAndAnswer, Die, TypeOK
    <3>2. CASE \/ \E w \in posted : Receive(g, w)
               \/ InsertEvent(g) \/ IndexEvent(g) \/ ReadExisting(g) \/ RepairIndex(g)
      <4>1. pc'[g] # "idle"
            BY <1>1, <3>2 DEF Receive, InsertEvent, IndexEvent, ReadExisting, RepairIndex,
               Goto, TypeOK
      <4> QED BY <4>1
    <3> QED BY <3>1, <3>2 DEF Receiver
  <2>3. call'[g] \in Calls \cup {NoCall} BY <2>2, OwnKnows
  <2> QED BY <1>1, <2>1, <2>3 DEF TypeOK
<1>7. pc[g] # "idle" => call[g] \in Calls /\ Event(g) \in Ordinals
      BY DEF Base, Knows, Calls, Webhooks, Event
<1>8. records' \in [Ordinals -> Records \cup {Absent}]
  <2>1. CASE UNCHANGED records BY <1>1, <2>1 DEF TypeOK
  <2>2. CASE InsertEvent(g)
    <3>1. pc[g] = "insert" BY <2>2 DEF InsertEvent
    <3>2. NewRecord(g) \in Records BY <1>7, <3>1 DEF NewRecord, Records, Calls, Webhooks
    <3> QED BY <1>1, <1>7, <2>2, <3>1, <3>2 DEF InsertEvent, TypeOK
  <2> QED BY <2>1, <2>2 DEF Receiver, Receive, IndexEvent, ReadExisting, RepairIndex,
             AuditAndAnswer, Die, Stored
<1>9. index' \in [Ordinals -> (0..scenario.time) \cup {-1}]
  <2>1. CASE UNCHANGED index BY <1>1, <2>1 DEF TypeOK
  <2>2. CASE IndexEvent(g)
    <3>1. call[g].at \in 0..scenario.time BY <1>7, <2>2 DEF IndexEvent, Calls
    <3> QED BY <1>1, <2>2, <3>1 DEF IndexEvent, TypeOK
  <2>3. CASE RepairIndex(g)
    <3>1. pc[g] = "repair" BY <2>3 DEF RepairIndex
    <3>2. call[g].existing = records[Event(g)] /\ records[Event(g)] # Absent
          BY <3>1 DEF Base, Knows, Event
    <3>3. records[Event(g)] \in Records \cup {Absent} BY <1>1, <1>7, <3>1 DEF TypeOK
    <3>4. call[g].existing.at \in 0..scenario.time BY <1>1, <3>2, <3>3, AbsentApart
    <3> QED BY <1>1, <2>3, <3>4 DEF RepairIndex, Repaired, TypeOK
  <2> QED BY <2>1, <2>2, <2>3 DEF Receiver, Receive, InsertEvent, ReadExisting,
             AuditAndAnswer, Die, Stored
<1>10. /\ audit' \in Seq(Entries) /\ Len(audit') <= scenario.kept
       /\ accepted' \subseteq Entries
       BY <1>1, ReceiverTells DEF Tells, TypeOK
<1> QED BY <1>1, <1>2, <1>3, <1>4, <1>5, <1>6, <1>8, <1>9, <1>10, SameSets DEF BridgeBase, TypeOK

\* The events of entries are ordinals.
LEMMA EntryEvents ==
    ASSUME TypeOK, NEW i \in DOMAIN audit PROVE audit[i] \in Entries /\ audit[i].event \in Ordinals
<1>1. audit[i] \in Entries BY LenProperties, ElementOfSeq DEF TypeOK
<1> QED BY <1>1 DEF Entries

LEMMA ToldSafe ==
    ASSUME Base, NEW g \in Replicas, Receiver(g), UNCHANGED scenario
    PROVE  Told'
<1>1. TypeOK /\ Told /\ Moves(g) BY ReceiverMoves DEF Base
<1>2. ASSUME NEW i \in DOMAIN audit
      PROVE  /\ records'[audit[i].event] # Absent
             /\ audit[i].outcome = "conflict" <=> audit[i].content # records'[audit[i].event].content
  <2>1. audit[i].event \in Ordinals BY <1>1, EntryEvents
  <2>2. records[audit[i].event] # Absent BY <1>1 DEF Told
  <2>3. records'[audit[i].event] = records[audit[i].event] BY <1>1, <2>1, <2>2 DEF Moves
  <2> QED BY <1>1, <2>2, <2>3 DEF Told
<1>3. CASE UNCHANGED audit BY <1>2, <1>3 DEF Told
<1>4. CASE Tells(g)
  <2>1. Knows(g) /\ records' = records BY <1>4 DEF Base, Tells
  <2>2. /\ records'[Entry(g).event] # Absent
        /\ Entry(g).outcome = "conflict" <=> Entry(g).content # records'[Entry(g).event].content
        BY <1>4, <2>1 DEF Knows, Entry, Event, Tells
  <2>3. \A i \in DOMAIN audit' : audit'[i] = Entry(g) \/ \E j \in DOMAIN audit : audit'[i] = audit[j]
        BY <1>4 DEF Tells, Extended
  <2> QED BY <1>2, <2>2, <2>3 DEF Told
<1> QED BY <1>3, <1>4, ReceiverTells

\* Who stands for an insertion, stands for a stored event.
LEMMA InsertedIsStored ==
    ASSUME Base, NEW h \in Replicas, Inserting(h)
    PROVE  records[Event(h)] # Absent /\ Event(h) \in Ordinals
BY DEF Base, Knows, Inserting, Event, Calls, Webhooks

LEMMA InsertionSafe ==
    ASSUME Base, NEW g \in Replicas, Receiver(g), UNCHANGED <<scenario, now>>
    PROVE  OneInsertion'
<1>1. TypeOK /\ Told /\ OneInsertion /\ Moves(g) BY ReceiverMoves DEF Base
<1>2. \A h \in Replicas \ {g} : (Inserting(h)' <=> Inserting(h)) /\ Event(h)' = Event(h)
      BY <1>1 DEF Moves, Inserting, Event
<1>3. CASE Tells(g)
  <2>1. ~ Inserting(g)' BY <1>3 DEF Tells, Inserting
  <2>2. PICK k \in {0, 1} :
            /\ DOMAIN audit' = 1..(Len(audit) + 1 - k)
            /\ \A i \in DOMAIN audit' : \/ i + k \in DOMAIN audit /\ audit'[i] = audit[i + k]
                                        \/ i + k = Len(audit) + 1 /\ audit'[i] = Entry(g)
        BY <1>3 DEF Tells, Extended
  <2>3. /\ Entry(g).outcome = "accepted" <=> Inserting(g)
        /\ Entry(g).event = Event(g)
        BY <1>3 DEF Tells, Inserting, Entry
  <2>4. Len(audit) \in Nat /\ DOMAIN audit = 1..Len(audit) BY <1>1, LenProperties DEF TypeOK
  <2>5. ASSUME NEW h \in Replicas, NEW i \in DOMAIN audit', Inserting(h)',
               audit'[i].outcome = "accepted"
        PROVE  audit'[i].event # Event(h)'
    <3>1. h # g /\ Inserting(h) /\ Event(h)' = Event(h) BY <1>2, <2>1, <2>5
    <3> QED BY <1>1, <2>2, <2>3, <2>5, <3>1 DEF OneInsertion
  <2>6. ASSUME NEW i \in DOMAIN audit', NEW j \in DOMAIN audit',
               audit'[i].event = audit'[j].event,
               audit'[i].outcome = "accepted", audit'[j].outcome = "accepted"
        PROVE  i = j
    <3>1. i \in Int /\ j \in Int /\ k \in Int BY <2>2, <2>4
    <3>2. CASE i + k \in DOMAIN audit /\ j + k \in DOMAIN audit
      <4>1. i + k = j + k BY <1>1, <2>2, <2>4, <2>6, <3>1, <3>2 DEF OneInsertion
      <4>2. \A a, b, c \in Int : a + c = b + c => a = b OBVIOUS
      <4> QED BY <3>1, <4>1, <4>2, Zenon
    <3>3. CASE i + k = Len(audit) + 1 /\ j + k = Len(audit) + 1 BY <2>4, <3>1, <3>3
    <3>4. CASE i + k \in DOMAIN audit /\ j + k \notin DOMAIN audit
          BY <1>1, <2>2, <2>3, <2>6, <3>4 DEF OneInsertion
    <3>5. CASE i + k \notin DOMAIN audit /\ j + k \in DOMAIN audit
          BY <1>1, <2>2, <2>3, <2>6, <3>5 DEF OneInsertion
    <3> QED BY <2>2, <3>2, <3>3, <3>4, <3>5
  <2>7. \A f, h \in Replicas : Inserting(f)' /\ Inserting(h)' /\ Event(f)' = Event(h)' => f = h
        BY <1>1, <1>2, <2>1 DEF OneInsertion
  <2> QED BY <2>5, <2>6, <2>7 DEF OneInsertion
<1>4. CASE UNCHANGED audit /\ (Inserting(g)' => Inserting(g) /\ Event(g)' = Event(g))
      BY <1>1, <1>2, <1>4 DEF OneInsertion
<1>5. CASE UNCHANGED audit /\ InsertEvent(g) /\ records[Event(g)] = Absent
  <2>1. Event(g)' = Event(g) BY <1>5 DEF InsertEvent, Event
  <2>2. \A h \in Replicas \ {g} : Inserting(h)' => Event(h)' # Event(g)
        BY <1>2, <1>5, InsertedIsStored
  <2>3. \A i \in DOMAIN audit : audit[i].event # Event(g) BY <1>1, <1>5 DEF Told
  <2> QED BY <1>1, <1>2, <1>5, <2>1, <2>2, <2>3 DEF OneInsertion
<1>6. ASSUME ~ AuditAndAnswer(g), ~ (InsertEvent(g) /\ records[Event(g)] = Absent), Inserting(g)'
      PROVE  Inserting(g) /\ Event(g)' = Event(g)
  <2>1. pc'[g] \in {"index", "audit"} /\ call'[g].outcome = "accepted" BY <1>6 DEF Inserting
  <2>2. CASE IndexEvent(g) \/ RepairIndex(g)
    <3>1. pc[g] \in {"index", "repair"} /\ call'[g] = call[g]
          BY <2>2 DEF IndexEvent, RepairIndex
    <3>2. Knows(g) BY <3>1 DEF Base
    <3>3. pc[g] # "repair" BY <2>1, <3>1, <3>2 DEF Knows
    <3> QED BY <2>1, <3>1, <3>3 DEF Inserting, Event
  <2>3. ~ ReadExisting(g)
    <3>1. SUFFICES ASSUME ReadExisting(g) PROVE FALSE OBVIOUS
    <3>2. call[g] \in Calls BY <3>1 DEF Base, Knows, ReadExisting
    <3> DEFINE o == IF SameBody(g) THEN "idempotent_replay" ELSE "conflict"
               d == [call[g] EXCEPT !.existing = records[Event(g)], !.outcome = o]
    <3>3. d.outcome = o BY <3>2, CallRead
    <3>4. call' = [call EXCEPT ![g] = d] BY <3>1 DEF ReadExisting
    <3>5. call'[g] = d
      <4> HIDE DEF d
      <4> QED BY <1>1, <3>4 DEF TypeOK
    <3> QED BY <2>1, <3>3, <3>5
  <2>4. ~ (InsertEvent(g) /\ records[Event(g)] # Absent)
        BY <1>1, <2>1 DEF InsertEvent, Goto, TypeOK
  <2>5. ~ Die(g) /\ \A w \in posted : ~ Receive(g, w)
        BY <1>1, <2>1 DEF Die, Receive, Goto, TypeOK
  <2> QED BY <1>6, <2>2, <2>3, <2>4, <2>5 DEF Receiver
<1> QED BY <1>3, <1>4, <1>5, <1>6, ReceiverTells

LEMMA AcknowledgedSafe ==
    ASSUME Base, NEW g \in Replicas, Receiver(g), UNCHANGED scenario
    PROVE  AcknowledgedIsListed'
<1>1. TypeOK /\ AcknowledgedIsListed /\ Moves(g) BY ReceiverMoves DEF Base
<1>2. ASSUME NEW a \in accepted
      PROVE  /\ records'[a.event] # Absent /\ records'[a.event].content = a.content
             /\ index'[a.event] # -1
  <2>1. a.event \in Ordinals BY <1>1 DEF TypeOK, Entries
  <2>2. records[a.event] # Absent /\ records[a.event].content = a.content /\ index[a.event] # -1
        BY <1>1 DEF AcknowledgedIsListed
  <2> QED BY <1>1, <2>1, <2>2, IndexSafe DEF Moves
<1>3. CASE UNCHANGED accepted BY <1>2, <1>3 DEF AcknowledgedIsListed
<1>4. CASE Tells(g)
  <2>1. Knows(g) /\ UNCHANGED <<records, index>> BY <1>4 DEF Base, Tells
  <2>2. call[g].outcome # "conflict" =>
            /\ records[Entry(g).event] # Absent /\ records[Entry(g).event].content = Entry(g).content
            /\ index[Entry(g).event] # -1
        BY <1>4, <2>1 DEF Knows, Entry, Event, Tells
  <2> QED BY <1>2, <1>4, <2>1, <2>2 DEF Tells, AcknowledgedIsListed
<1> QED BY <1>3, <1>4, ReceiverTells

LEMMA ReceiverSafe ==
    ASSUME Base, NEW g \in Replicas, Receiver(g), UNCHANGED <<scenario, now>>
    PROVE  Base'
<1>1. Moves(g) /\ UNCHANGED <<posted, projects>> BY ReceiverMoves DEF Moves
<1>2. \A h \in Replicas : pc'[h] # "idle" => Knows(h)' BY <1>1, OthersKnow, OwnKnows
<1>3. \A e \in Ordinals' : index'[e] # -1 =>
          records'[e] # Absent /\ index'[e] = records'[e].at /\ e \in DOMAIN projects'
      BY <1>1, IndexSafe, SameSets
<1>4. \A w \in posted' : w.event \in DOMAIN projects' BY <1>1 DEF Base
<1> QED BY <1>2, <1>3, <1>4, ReceiverTyped, ToldSafe, InsertionSafe, AcknowledgedSafe DEF Base

-----------------------------------------------------------------------------
(* The theorems.                                                           *)

LEMMA BaseInit == Init => Base
<1> SUFFICES ASSUME Init PROVE Base OBVIOUS
<1>1. /\ scenario \in Scenarios /\ scenario.time \in Nat /\ scenario.sends \in Nat
      /\ scenario.kept \in Nat /\ scenario.deaths \in Nat
      BY ScenarioAssumption, RepostAssumption DEF Init, BridgeInit
<1>2. BridgeTypeOK
  <2>1. 0 \in Times /\ now \in 0..scenario.time
        BY <1>1, WindowAssumption DEF Times, Init, BridgeInit
  <2> QED BY <1>1, <2>1 DEF Init, BridgeInit, BridgeTypeOK
<1>3. IsFiniteSet(wire) /\ Cardinality(wire) <= scenario.sends
      BY <1>1, FS_EmptySet DEF Init, BridgeInit
<1>4. BridgeBase
      BY <1>2, <1>3 DEF Init, BridgeInit, BridgeBase, Drafts, Unbound
<1>5. TypeOK BY <1>1, <1>2 DEF Init, TypeOK
<1>6. OneInsertion /\ Told /\ AcknowledgedIsListed
      BY DEF Init, OneInsertion, Inserting, Told, AcknowledgedIsListed
<1> QED BY <1>4, <1>5, <1>6 DEF Init, Base

LEMMA BaseStep == Base /\ [Next]_vars => Base'
<1> SUFFICES ASSUME Base, [Next]_vars PROVE Base' OBVIOUS
<1>1. CASE UNCHANGED vars
  <2>1. BridgeBase' BY <1>1, BridgeStays DEF vars, bridge, Base
  <2>2. projects' = projects /\ posted' = posted /\ posted \subseteq Webhooks
        BY <1>1 DEF vars, bridge, events, Base, TypeOK
  <2> QED BY <1>1, <2>1, <2>2, PostSafe DEF vars, events, Stored, Base
<1> QED BY <1>1, FactorySafe, ClockSafe, ReceiverSafe DEF Next

\* What the gate, the bridge and the receiver each hold agrees, in every reachable state.
THEOREM BaseHolds == Spec => []Base
BY BaseInit, BaseStep, PTL DEF Spec

\* A request that was signed once is carried out at most once, however often and
\* whenever it arrives, for any number of nonces and any clock skew the windows allow.
THEOREM CarriedOutOnce == Spec => []NoRequestTwice
<1>1. Base => NoRequestTwice BY DEF Base, BridgeBase, Spent, NoRequestTwice
<1> QED BY <1>1, BaseHolds, PTL

\* Retries under one idempotency key are all answered with one project and for one
\* body, in whatever order they are sent, lost, repeated and carried out.
THEOREM OneProjectPerKey == Spec => []RetriesAgree
<1>1. Base => RetriesAgree
  <2> SUFFICES ASSUME Base, NEW a \in answers, NEW b \in answers,
                      a.request.kind = "create", b.request.kind = "create",
                      a.request.key = b.request.key, a.status = "ok", b.status = "ok"
               PROVE  a.project = b.project /\ a.request.body = b.request.body
      BY DEF RetriesAgree
  <2>1. Granted(a) /\ Granted(b) BY DEF Base, BridgeBase
  <2> QED BY <2>1 DEF Granted
<1> QED BY <1>1, BaseHolds, PTL

\* What was answered 202 is stored with that content and is listed, although replicas
\* die between inserting an event and indexing it.
THEOREM AcknowledgedStays == Spec => []AcknowledgedIsListed
<1>1. Base => AcknowledgedIsListed BY DEF Base
<1> QED BY <1>1, BaseHolds, PTL

\* Index, audit and listing tell what was received, for any number of replicas and
\* whatever the factory repeats, changes or reorders.
THEOREM ConsistentHolds == Spec => []Consistent
<1>1. Base => Consistent
  <2> SUFFICES ASSUME Base PROVE Consistent OBVIOUS
  <2>1. TypeOK /\ IndexTellsFirstReceipt BY DEF Base, IndexTellsFirstReceipt
  <2>2. AuditTellsOutcome BY DEF Base, OneInsertion, Told, AuditTellsOutcome
  <2>3. OneListingPerKey
    <3> SUFFICES ASSUME NEW e \in Ordinals, NEW f \in Ordinals, index[e] # -1, index[f] # -1, e # f
                 PROVE  projects[e].key # projects[f].key
        BY DEF OneListingPerKey
    <3>1. e \in DOMAIN projects /\ f \in DOMAIN projects BY DEF Base
    <3>2. bound[projects[e].key].project = e /\ bound[projects[f].key].project = f
          BY <3>1 DEF Base, BridgeBase, Drafts
    <3> QED BY <3>2
  <2> QED BY <2>1, <2>2, <2>3 DEF Consistent
<1> QED BY <1>1, BaseHolds, PTL
=============================================================================
