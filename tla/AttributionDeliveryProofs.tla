---------------------- MODULE AttributionDeliveryProofs ----------------------
(***************************************************************************)
(* Theorems of AttributionDelivery for any number of handlers, deliveries  *)
(* and attempts.  The argument has three layers, each inductive with those *)
(* before it:                                                              *)
(*   Base    types, and what a handler may rely on at each place (Knows):  *)
(*           the receipt it carries was true when it was built, and stays  *)
(*           true: the ledger never changes, issues are never taken away;  *)
(*   Race    what a handler alone on its attempt has read is still so;     *)
(*   Single  the one append that finds no touchpoint claims the event.     *)
(***************************************************************************)
EXTENDS AttributionDelivery, FiniteSetTheorems, TLAPS

\* What the receipt r of delivery d says holds in a ledger and a set of issues.
True(r, d, led, iss) ==
    /\ r.outcome = "accepted" => r.digest.body \in Contents /\ led[d] = r.digest.body
    /\ r.outcome = "partial" => d \in iss

\* What the receipt that a handler carries has to do with its request.
Matches(c) ==
    c.receipt \in Receipts =>
        /\ c.receipt.digest = c.digest
        /\ c.receipt.outcome = "dead_lettered" => c.digest.kind = "failure"

\* What a handler at place p with local variables c relies on.
Knows(p, c, led, iss) ==
    /\ c \in Calls /\ Matches(c)
    /\ p \in {"compare", "append", "issue"} => c.digest.kind = "ingest"
    /\ p = "issue" => c.receipt \in Receipts /\ c.receipt.outcome = "partial"
    /\ p \in {"check", "save"} => c.receipt \in Receipts /\ True(c.receipt, c.attempt[1], led, iss)
    /\ p \in {"letter", "letter_save"} => c.refuse \/ c.receipt \in Receipts

\* The inductive invariant.
Base ==
    /\ TypeOK
    /\ \A h \in Handlers : pc[h] # "idle" => Knows(pc[h], call[h], ledger, issues)
    /\ \A a \in Attempts : True(receipts[a], a[1], ledger, issues)

\* What is written once stays.
Grows ==
    /\ \A d \in Deliveries : ledger[d] # "absent" => ledger'[d] = ledger[d]
    /\ issues \subseteq issues'

-----------------------------------------------------------------------------
(* Data.                                                                   *)

\* The body of a request is an event or a failure code.
LEMMA BodyTypes ==
    ASSUME NEW g \in Digests
    PROVE  /\ g.kind = "ingest" => g.body \in Contents
           /\ g.kind = "failure" => g.body \in Codes
           /\ g.kind \in {"ingest", "failure"}
BY DEF Digests

\* A receipt is not the absence of one.
LEMMA NoReceiptApart == NoReceipt \notin Receipts
BY DEF NoReceipt, Receipts, Outcomes

\* What a receipt says holds of a ledger and issues that grew.
LEMMA TrueStays ==
    ASSUME Grows, NEW r, NEW d \in Deliveries, True(r, d, ledger, issues)
    PROVE  True(r, d, ledger', issues')
BY DeliveryAssumption DEF True, Grows

\* So does what a handler relies on.
LEMMA KnowsStays ==
    ASSUME Grows, NEW p, NEW c, Knows(p, c, ledger, issues)
    PROVE  Knows(p, c, ledger', issues')
<1>1. c \in Calls BY DEF Knows
<1>2. c.attempt[1] \in Deliveries BY <1>1 DEF Calls, Attempts
<1>3. p \in {"check", "save"} => True(c.receipt, c.attempt[1], ledger', issues')
      BY <1>2, TrueStays DEF Knows
<1> QED BY <1>3 DEF Knows

-----------------------------------------------------------------------------
(* Steps.                                                                  *)

\* A handler that goes to a place where it knows enough leaves the others theirs.
LEMMA MoveSafe ==
    ASSUME Base, Grows, NEW h \in Handlers, NEW p \in HandlerStates, NEW c \in Calls \cup {NoCall},
           pc' = [pc EXCEPT ![h] = p], call' = [call EXCEPT ![h] = c],
           p # "idle" => Knows(p, c, ledger', issues')
    PROVE  /\ pc' \in [Handlers -> HandlerStates] /\ call' \in [Handlers -> Calls \cup {NoCall}]
           /\ \A g \in Handlers : pc'[g] # "idle" => Knows(pc'[g], call'[g], ledger', issues')
<1>1. pc' \in [Handlers -> HandlerStates] /\ call' \in [Handlers -> Calls \cup {NoCall}]
      BY DEF Base, TypeOK
<1>2. ASSUME NEW g \in Handlers, pc'[g] # "idle" PROVE Knows(pc'[g], call'[g], ledger', issues')
  <2>1. CASE g = h BY <1>2, <2>1 DEF Base, TypeOK
  <2>2. CASE g # h
    <3>1. pc'[g] = pc[g] /\ call'[g] = call[g] BY <2>2 DEF Base, TypeOK
    <3>2. Knows(pc[g], call[g], ledger, issues) BY <1>2, <3>1 DEF Base
    <3> QED BY <3>1, <3>2, KnowsStays
  <2> QED BY <2>1, <2>2
<1> QED BY <1>1, <1>2

\* A handler that ends needs to know nothing.
LEMMA EndSafe ==
    ASSUME Base, Grows, NEW h \in Handlers, End(h)
    PROVE  /\ pc' \in [Handlers -> HandlerStates] /\ call' \in [Handlers -> Calls \cup {NoCall}]
           /\ \A g \in Handlers : pc'[g] # "idle" => Knows(pc'[g], call'[g], ledger', issues')
<1>1. "idle" \in HandlerStates BY DEF HandlerStates
<1> QED BY <1>1, MoveSafe DEF End, Goto

\* One that goes on with the same local variables.
LEMMA GotoSafe ==
    ASSUME Base, Grows, NEW h \in Handlers, NEW p \in HandlerStates, Goto(h, p), UNCHANGED call,
           Knows(p, call[h], ledger', issues')
    PROVE  /\ pc' \in [Handlers -> HandlerStates] /\ call' \in [Handlers -> Calls \cup {NoCall}]
           /\ \A g \in Handlers : pc'[g] # "idle" => Knows(pc'[g], call'[g], ledger', issues')
<1>1. call' = [call EXCEPT ![h] = call[h]] /\ call[h] \in Calls \cup {NoCall}
      BY DEF Base, TypeOK
<1> QED BY <1>1, MoveSafe DEF Goto

\* Answers are typed when the receipt that is answered is one.
LEMMA AnswerTyped ==
    ASSUME TypeOK, NEW h \in Handlers, call[h] \in Calls
    PROVE  /\ \A r \in Receipts : AnswerReceipt(h, r) => answers' \subseteq Answers
           /\ AnswerConflict(h) => answers' \subseteq Answers
<1>1. ASSUME NEW r \in Receipts, AnswerReceipt(h, r) PROVE answers' \subseteq Answers
  <2>1. [attempt |-> call[h].attempt, digest |-> call[h].digest, receipt |-> r] \in Answers
        BY DEF Calls, Answers
  <2> QED BY <1>1, <2>1 DEF TypeOK, AnswerReceipt
<1>2. ASSUME AnswerConflict(h) PROVE answers' \subseteq Answers
  <2>1. [attempt |-> call[h].attempt, digest |-> call[h].digest, refused |-> TRUE] \in Answers
        BY DEF Calls, Answers
  <2> QED BY <1>2, <2>1 DEF TypeOK, AnswerConflict
<1> QED BY <1>1, <1>2

LEMMA BaseInit == Init => Base
<1> SUFFICES ASSUME Init PROVE Base OBVIOUS
<1>1. ops \in 0..MaxOps /\ deaths \in 0..MaxDeaths BY BudgetAssumption DEF Init
<1>2. TypeOK BY <1>1 DEF Init, TypeOK, HandlerStates
<1>3. \A a \in Attempts : True(receipts[a], a[1], ledger, issues)
      BY DEF Init, NoReceipt, True
<1> QED BY <1>2, <1>3 DEF Init, Base

\* What is stored is typed and stays true when only handlers move.
LEMMA HandlersOnly ==
    ASSUME Base, UNCHANGED stored,
           pc' \in [Handlers -> HandlerStates], call' \in [Handlers -> Calls \cup {NoCall}],
           \A g \in Handlers : pc'[g] # "idle" => Knows(pc'[g], call'[g], ledger', issues'),
           answers' \subseteq Answers, raced' \subseteq Attempts,
           ops' \in 0..MaxOps, deaths' \in 0..MaxDeaths
    PROVE  Base'
BY DEF Base, stored, TypeOK

\* A request that is taken knows nothing yet.
LEMMA AcceptSafe ==
    ASSUME Base, NEW h \in Handlers, NEW a \in Attempts, NEW g \in Digests, Accept(h, a, g)
    PROVE  Base'
<1> DEFINE c == [attempt |-> a, digest |-> g, receipt |-> NoReceipt,
                 reason |-> Conflict, refuse |-> FALSE]
<1>1. c \in Calls BY DeliveryAssumption DEF Calls
<1>2. Knows("lookup", c, ledger', issues') BY <1>1, NoReceiptApart DEF Knows, Matches
<1>3. Grows BY DEF Accept, stored, Grows
<1>4. /\ pc' \in [Handlers -> HandlerStates] /\ call' \in [Handlers -> Calls \cup {NoCall}]
      /\ \A f \in Handlers : pc'[f] # "idle" => Knows(pc'[f], call'[f], ledger', issues')
  <2>1. pc' = [pc EXCEPT ![h] = "lookup"] /\ call' = [call EXCEPT ![h] = c]
        BY DEF Accept, Goto
  <2> HIDE DEF c
  <2> QED BY <1>1, <1>2, <1>3, <2>1, MoveSafe DEF HandlerStates
<1>5. raced' \subseteq Attempts /\ ops' \in 0..MaxOps /\ deaths' \in 0..MaxDeaths
      /\ answers' \subseteq Answers
      BY BudgetAssumption DEF Accept, Base, TypeOK
<1> QED BY <1>4, <1>5, HandlersOnly DEF Accept

\* Every step of a handler keeps the invariant.
LEMMA StepSafe == ASSUME Base, NEW h \in Handlers, Step(h) PROVE Base'
<1> DEFINE c == call[h]
<1>0. pc[h] # "idle"
      BY DEF Step, Lookup, CompareLedger, AppendTouchpoint, RecordIssue, CheckReceipt,
         SaveReceipt, FindLetter, SaveLetter, HandlerDies
<1>1. /\ c \in Calls /\ Matches(c) /\ c.attempt \in Attempts /\ c.attempt[1] \in Deliveries
      /\ c.digest \in Digests /\ Knows(pc[h], c, ledger, issues)
      BY <1>0 DEF Base, Knows, Calls, Attempts
<1>2. /\ ops \in 0..MaxOps /\ deaths \in 0..MaxDeaths /\ raced \subseteq Attempts
      /\ answers \subseteq Answers /\ TypeOK
      BY DEF Base, TypeOK
<1>3. UNCHANGED <<ledger, issues>> => Grows BY DEF Grows
<1>4. CASE Lookup(h)
  <2> DEFINE r == receipts[c.attempt]
  <2>1. UNCHANGED stored /\ Grows BY <1>3, <1>4 DEF Lookup, stored
  <2>2. r \in Receipts \cup {NoReceipt} BY <1>1, <1>2 DEF TypeOK
  <2>3. CASE r # NoReceipt /\ AnswerReceipt(h, r) /\ End(h)
    <3>1. answers' \subseteq Answers BY <1>1, <1>2, <2>2, <2>3, AnswerTyped
    <3> QED BY <1>2, <1>4, <2>1, <2>3, <3>1, EndSafe, HandlersOnly DEF Lookup
  <2>4. CASE /\ Goto(h, "letter") /\ call' = [call EXCEPT ![h].refuse = TRUE]
             /\ UNCHANGED answers
    <3> DEFINE d == [c EXCEPT !.refuse = TRUE]
    <3>1. d \in Calls /\ Matches(d) /\ d.refuse BY <1>1 DEF Calls, Matches
    <3>2. Knows("letter", d, ledger', issues') BY <3>1 DEF Knows
    <3>3. call' = [call EXCEPT ![h] = d] BY <2>4
    <3> HIDE DEF d
    <3> QED BY <1>2, <1>4, <2>1, <2>4, <3>1, <3>2, <3>3, MoveSafe, HandlersOnly
            DEF Lookup, Goto, HandlerStates
  <2>5. CASE /\ Goto(h, IF c.digest.kind = "ingest" THEN "compare" ELSE "check")
             /\ call' = [call EXCEPT ![h].receipt =
                            IF c.digest.kind = "ingest" THEN NoReceipt ELSE FailureReceipt(h)]
             /\ UNCHANGED answers
    <3>1. CASE c.digest.kind = "ingest"
      <4> DEFINE d == [c EXCEPT !.receipt = NoReceipt]
      <4>1. d \in Calls /\ d.receipt = NoReceipt /\ d.digest = c.digest BY <1>1 DEF Calls
      <4>2. Knows("compare", d, ledger', issues')
            BY <3>1, <4>1, NoReceiptApart DEF Knows, Matches
      <4>3. call' = [call EXCEPT ![h] = d] /\ Goto(h, "compare") BY <2>5, <3>1
      <4> HIDE DEF d
      <4> QED BY <1>2, <1>4, <2>1, <2>5, <4>1, <4>2, <4>3, MoveSafe, HandlersOnly
              DEF Lookup, Goto, HandlerStates
    <3>2. CASE c.digest.kind # "ingest"
      <4> DEFINE f == FailureReceipt(h)
                 d == [c EXCEPT !.receipt = f]
      <4>1. c.digest.kind = "failure" BY <1>1, <3>2, BodyTypes
      <4>2. f \in Receipts /\ f.digest = c.digest /\ f.outcome \in {"dead_lettered", "retry_pending"}
            BY <1>1 DEF FailureReceipt, Receipts, Outcomes
      <4>3. d \in Calls /\ d.receipt = f /\ d.digest = c.digest BY <1>1, <4>2 DEF Calls
      <4>4. Knows("check", d, ledger', issues')
            BY <4>1, <4>2, <4>3 DEF Knows, Matches, True
      <4>5. call' = [call EXCEPT ![h] = d] /\ Goto(h, "check") BY <2>5, <3>2
      <4> HIDE DEF d, f
      <4> QED BY <1>2, <1>4, <2>1, <2>5, <4>3, <4>4, <4>5, MoveSafe, HandlersOnly
              DEF Lookup, Goto, HandlerStates
    <3> QED BY <3>1, <3>2
  <2> QED BY <1>4, <2>3, <2>4, <2>5 DEF Lookup
<1>5. CASE CompareLedger(h)
  <2>1. UNCHANGED stored /\ Grows /\ pc[h] = "compare" BY <1>3, <1>5 DEF CompareLedger, stored
  <2>2. c.digest.kind = "ingest" /\ c.digest.body \in Contents
        BY <1>1, <2>1, BodyTypes DEF Knows
  <2>3. CASE Goto(h, "append") /\ UNCHANGED call
    <3>1. Knows("append", c, ledger', issues') BY <1>1, <2>2 DEF Knows
    <3> QED BY <1>2, <1>5, <2>1, <2>3, <3>1, GotoSafe, HandlersOnly
            DEF CompareLedger, HandlerStates
  <2>4. ASSUME NEW p \in {"check", "issue"}, NEW outcome \in {"accepted", "partial"},
               Goto(h, p), call' = [call EXCEPT ![h].receipt = IngestReceipt(h, outcome, FALSE)],
               p = "check" => outcome = "accepted" /\ ledger[Event(h)] = c.digest.body,
               p = "issue" => outcome = "partial"
        PROVE  Base'
    <3> DEFINE f == IngestReceipt(h, outcome, FALSE)
               d == [c EXCEPT !.receipt = f]
    <3>1. f \in Receipts /\ f.digest = c.digest /\ f.outcome = outcome
          BY <1>1 DEF IngestReceipt, Receipts, Outcomes
    <3>2. d \in Calls /\ d.receipt = f /\ d.digest = c.digest /\ d.attempt = c.attempt
          BY <1>1, <3>1 DEF Calls
    <3>3. Knows(p, d, ledger', issues')
          BY <2>1, <2>2, <2>4, <3>1, <3>2 DEF Knows, Matches, True, Event, stored
    <3>4. call' = [call EXCEPT ![h] = d] BY <2>4
    <3> HIDE DEF d, f
    <3>5. p \in HandlerStates /\ pc' = [pc EXCEPT ![h] = p] BY <2>4 DEF Goto, HandlerStates
    <3>6. /\ pc' \in [Handlers -> HandlerStates] /\ call' \in [Handlers -> Calls \cup {NoCall}]
          /\ \A g \in Handlers : pc'[g] # "idle" => Knows(pc'[g], call'[g], ledger', issues')
          BY <2>1, <3>2, <3>3, <3>4, <3>5, MoveSafe
    <3> QED BY <1>2, <1>5, <2>1, <3>6, HandlersOnly DEF CompareLedger
  <2> QED BY <1>5, <2>3, <2>4 DEF CompareLedger
<1>6. CASE AppendTouchpoint(h)
  <2>1. pc[h] = "append" BY <1>6 DEF AppendTouchpoint
  <2>2. c.digest.kind = "ingest" /\ c.digest.body \in Contents
        BY <1>1, <2>1, BodyTypes DEF Knows
  <2>3. CASE /\ ledger[Event(h)] = "absent"
             /\ ledger' = [ledger EXCEPT ![Event(h)] = call[h].digest.body]
             /\ Goto(h, "check")
             /\ call' = [call EXCEPT ![h].receipt = IngestReceipt(h, "accepted", TRUE)]
    <3> DEFINE f == IngestReceipt(h, "accepted", TRUE)
               d == [c EXCEPT !.receipt = f]
    <3>1. Event(h) = c.attempt[1] BY DEF Event
    <3>2. Grows BY <1>1, <1>2, <1>6, <2>3, <3>1 DEF Grows, TypeOK, AppendTouchpoint
    <3>3. ledger' \in [Deliveries -> Contents \cup {"absent"}]
          /\ ledger'[c.attempt[1]] = c.digest.body
          BY <1>1, <1>2, <2>2, <2>3, <3>1 DEF TypeOK
    <3>4. f \in Receipts /\ f.digest = c.digest /\ f.outcome = "accepted"
          BY <1>1 DEF IngestReceipt, Receipts, Outcomes
    <3>5. d \in Calls /\ d.receipt = f /\ d.digest = c.digest /\ d.attempt = c.attempt
          BY <1>1, <3>4 DEF Calls
    <3>6. Knows("check", d, ledger', issues')
          BY <2>2, <3>3, <3>4, <3>5 DEF Knows, Matches, True
    <3>7. call' = [call EXCEPT ![h] = d] BY <2>3
    <3> HIDE DEF d, f
    <3>8. /\ pc' \in [Handlers -> HandlerStates] /\ call' \in [Handlers -> Calls \cup {NoCall}]
          /\ \A g \in Handlers : pc'[g] # "idle" => Knows(pc'[g], call'[g], ledger', issues')
          BY <2>3, <3>2, <3>5, <3>6, <3>7, MoveSafe DEF Goto, HandlerStates
    <3>9. \A a \in Attempts : True(receipts[a], a[1], ledger', issues')
          BY <3>2, TrueStays DEF Base, Attempts
    <3> QED BY <1>2, <1>6, <3>3, <3>8, <3>9 DEF Base, TypeOK, AppendTouchpoint
  <2>4. CASE End(h) /\ UNCHANGED ledger
    <3>1. UNCHANGED stored /\ Grows BY <1>3, <1>6, <2>4 DEF AppendTouchpoint, stored
    <3> QED BY <1>2, <1>6, <2>4, <3>1, EndSafe, HandlersOnly DEF AppendTouchpoint
  <2> QED BY <1>6, <2>3, <2>4 DEF AppendTouchpoint
<1>7. CASE RecordIssue(h)
  <2>1. pc[h] = "issue" /\ Event(h) = c.attempt[1] /\ UNCHANGED <<ledger, receipts>>
        BY <1>7 DEF RecordIssue, Event
  <2>2. issues' = issues \cup {c.attempt[1]} BY <1>7, <2>1 DEF RecordIssue
  <2>3. Grows BY <2>1, <2>2 DEF Grows
  <2>4. Knows("check", c, ledger', issues') BY <1>1, <2>1, <2>2 DEF Knows, True
  <2>5. /\ pc' \in [Handlers -> HandlerStates] /\ call' \in [Handlers -> Calls \cup {NoCall}]
        /\ \A g \in Handlers : pc'[g] # "idle" => Knows(pc'[g], call'[g], ledger', issues')
        BY <1>7, <2>3, <2>4, GotoSafe DEF RecordIssue, HandlerStates
  <2>6. \A a \in Attempts : True(receipts[a], a[1], ledger', issues')
        BY <2>3, TrueStays DEF Base, Attempts
  <2>7. issues' \subseteq Deliveries BY <1>1, <1>2, <2>2 DEF TypeOK
  <2> QED BY <1>2, <1>7, <2>1, <2>5, <2>6, <2>7 DEF Base, TypeOK, RecordIssue
<1>8. CASE CheckReceipt(h)
  <2>1. UNCHANGED stored /\ Grows /\ pc[h] = "check" BY <1>3, <1>8 DEF CheckReceipt, stored
  <2>2. CASE Goto(h, "save") /\ UNCHANGED call
    <3>1. Knows("save", c, ledger', issues') BY <1>1, <2>1 DEF Knows, stored
    <3> QED BY <1>2, <1>8, <2>1, <2>2, <3>1, GotoSafe, HandlersOnly
            DEF CheckReceipt, HandlerStates
  <2>3. CASE End(h)
        BY <1>2, <1>8, <2>1, <2>3, EndSafe, HandlersOnly DEF CheckReceipt
  <2> QED BY <1>8, <2>2, <2>3 DEF CheckReceipt
<1>9. CASE SaveReceipt(h)
  <2> DEFINE f == c.receipt
  <2>1. /\ f \in Receipts /\ f.digest = c.digest
        /\ f.outcome = "dead_lettered" => c.digest.kind = "failure"
        /\ True(f, c.attempt[1], ledger, issues)
        BY <1>1, <1>9 DEF SaveReceipt, Knows, Matches
  <2>2. UNCHANGED <<ledger, issues>> /\ Grows BY <1>3, <1>9 DEF SaveReceipt
  <2>3. /\ receipts' \in [Attempts -> Receipts \cup {NoReceipt}]
        /\ \A a \in Attempts : receipts'[a] = receipts[a] \/ (a = c.attempt /\ receipts'[a] = f)
    <3> DEFINE new == IF receipts[c.attempt] = NoReceipt THEN f ELSE receipts[c.attempt]
    <3>1. receipts' = [receipts EXCEPT ![c.attempt] = new] BY <1>9 DEF SaveReceipt
    <3>2. new \in Receipts \cup {NoReceipt} BY <1>1, <1>2, <2>1 DEF TypeOK
    <3>3. new \in {receipts[c.attempt], f} OBVIOUS
    <3> HIDE DEF new, f, c
    <3> QED BY <1>1, <1>2, <3>1, <3>2, <3>3 DEF TypeOK
  <2>4. \A a \in Attempts : True(receipts'[a], a[1], ledger', issues')
        BY <2>1, <2>2, <2>3 DEF Base
  <2>5. CASE /\ f.outcome = "dead_lettered"
             /\ Goto(h, "letter") /\ call' = [call EXCEPT ![h].reason = call[h].digest.body]
             /\ UNCHANGED answers
    <3> DEFINE d == [c EXCEPT !.reason = c.digest.body]
    <3>1. c.digest.body \in Codes BY <1>1, <2>1, <2>5, BodyTypes
    <3>2. d \in Calls /\ d.receipt = f /\ d.digest = c.digest BY <1>1, <3>1 DEF Calls
    <3>3. Knows("letter", d, ledger', issues') BY <2>1, <3>2 DEF Knows, Matches
    <3>4. call' = [call EXCEPT ![h] = d] BY <2>5
    <3> HIDE DEF d, f
    <3>5. /\ pc' \in [Handlers -> HandlerStates] /\ call' \in [Handlers -> Calls \cup {NoCall}]
          /\ \A g \in Handlers : pc'[g] # "idle" => Knows(pc'[g], call'[g], ledger', issues')
          BY <2>2, <2>5, <3>2, <3>3, <3>4, MoveSafe DEF Goto, HandlerStates
    <3> QED BY <1>2, <1>9, <2>3, <2>4, <2>5, <3>5 DEF Base, TypeOK, SaveReceipt
  <2>6. CASE AnswerReceipt(h, f) /\ End(h)
    <3>1. answers' \subseteq Answers BY <1>1, <1>2, <2>1, <2>6, AnswerTyped
    <3>2. /\ pc' \in [Handlers -> HandlerStates] /\ call' \in [Handlers -> Calls \cup {NoCall}]
          /\ \A g \in Handlers : pc'[g] # "idle" => Knows(pc'[g], call'[g], ledger', issues')
          BY <2>2, <2>6, EndSafe
    <3> QED BY <1>2, <1>9, <2>3, <2>4, <3>1, <3>2 DEF Base, TypeOK, SaveReceipt
  <2> QED BY <1>9, <2>5, <2>6 DEF SaveReceipt
<1>10. ASSUME pc[h] \in {"letter", "letter_save"}, Finish(h) PROVE answers' \subseteq Answers
  <2>1. c.refuse \/ c.receipt \in Receipts BY <1>1, <1>10 DEF Knows
  <2> QED BY <1>1, <1>2, <1>10, <2>1, AnswerTyped DEF Finish
<1>11. CASE FindLetter(h)
  <2>1. UNCHANGED stored /\ Grows /\ pc[h] = "letter" BY <1>3, <1>11 DEF FindLetter, stored
  <2>2. CASE Finish(h)
    <3>1. answers' \subseteq Answers /\ End(h) BY <1>10, <2>1, <2>2 DEF Finish
    <3> QED BY <1>2, <1>11, <2>1, <3>1, EndSafe, HandlersOnly DEF FindLetter
  <2>3. CASE Goto(h, "letter_save") /\ UNCHANGED <<call, answers>>
    <3>1. Knows("letter_save", c, ledger', issues') BY <1>1, <2>1 DEF Knows
    <3> QED BY <1>2, <1>11, <2>1, <2>3, <3>1, GotoSafe, HandlersOnly
            DEF FindLetter, HandlerStates
  <2> QED BY <1>11, <2>2, <2>3 DEF FindLetter
<1>12. CASE SaveLetter(h)
  <2> DEFINE l == <<c.attempt, c.reason>>
  <2>1. pc[h] = "letter_save" /\ UNCHANGED <<receipts, ledger, issues>> BY <1>12 DEF SaveLetter
  <2>2. Grows BY <1>3, <2>1
  <2>3. l \in Attempts \X Codes BY <1>1 DEF Calls
  <2>4. [digest |-> c.digest, by |-> h] \in Letters BY <1>1 DEF Letters
  <2>5. letters' \in [Attempts \X Codes -> Letters \cup {NoLetter}]
        BY <1>2, <1>12, <2>3, <2>4 DEF SaveLetter, TypeOK
  <2>6. End(h) BY <1>12 DEF SaveLetter, Finish
  <2>7. answers' \subseteq Answers BY <1>2, <1>10, <1>12, <2>1 DEF SaveLetter
  <2>8. /\ pc' \in [Handlers -> HandlerStates] /\ call' \in [Handlers -> Calls \cup {NoCall}]
        /\ \A g \in Handlers : pc'[g] # "idle" => Knows(pc'[g], call'[g], ledger', issues')
        BY <2>2, <2>6, EndSafe
  <2> QED BY <1>2, <1>12, <2>1, <2>5, <2>7, <2>8 DEF Base, TypeOK, SaveLetter
<1>13. CASE HandlerDies(h)
  <2>1. UNCHANGED stored /\ Grows BY <1>3, <1>13 DEF HandlerDies, stored
  <2>2. deaths' \in 0..MaxDeaths BY <1>2, <1>13, BudgetAssumption DEF HandlerDies
  <2> QED BY <1>2, <1>13, <2>1, <2>2, EndSafe, HandlersOnly DEF HandlerDies
<1> QED BY <1>4, <1>5, <1>6, <1>7, <1>8, <1>9, <1>11, <1>12, <1>13 DEF Step

LEMMA BaseStep == Base /\ [Next]_vars => Base'
<1> SUFFICES ASSUME Base, [Next]_vars PROVE Base' OBVIOUS
<1>1. CASE UNCHANGED vars BY <1>1 DEF vars, stored, Base, TypeOK
<1>2. ASSUME NEW h \in Handlers, Request(h) PROVE Base'
  <2>1. PICK d \in Deliveries, n \in 1..Budget, m \in 1..Budget :
            \/ \E c \in Contents : Ingest(h, d, n, c, m)
            \/ \E e \in Codes : RecordFailure(h, d, n, e, m)
        BY <1>2 DEF Request
  <2>2. <<d, n>> \in Attempts BY DEF Attempts
  <2>3. ASSUME NEW c \in Contents, Ingest(h, d, n, c, m) PROVE Base'
    <3>1. [kind |-> "ingest", max |-> m, body |-> c] \in Digests BY DEF Digests
    <3> QED BY <2>2, <2>3, <3>1, AcceptSafe DEF Ingest
  <2>4. ASSUME NEW e \in Codes, RecordFailure(h, d, n, e, m) PROVE Base'
    <3>1. [kind |-> "failure", max |-> m, body |-> e] \in Digests BY DEF Digests
    <3> QED BY <2>2, <2>4, <3>1, AcceptSafe DEF RecordFailure
  <2> QED BY <2>1, <2>3, <2>4
<1> QED BY <1>1, <1>2, StepSafe DEF Next

THEOREM BaseHolds == Spec => []Base
BY BaseInit, BaseStep, PTL DEF Spec

-----------------------------------------------------------------------------
(* What it gives.                                                          *)

\* Every variable keeps its type, for any number of handlers and deliveries.
THEOREM TypeCorrect == Spec => []TypeOK
<1>1. Base => TypeOK BY DEF Base
<1> QED BY <1>1, BaseHolds, PTL

\* However attempts overlap and wherever handlers die, a stored receipt tells what
\* became of its event: it is in the ledger as sent, or waits as an issue.
THEOREM ReceiptsTellTruth == Spec => []ReceiptIsTrue
<1>1. Base => ReceiptIsTrue BY DEF Base, True, ReceiptIsTrue
<1> QED BY <1>1, BaseHolds, PTL

\* What is stored is never changed or removed.
Keeps ==
    /\ \A a \in Attempts : receipts[a] # NoReceipt => receipts'[a] = receipts[a]
    /\ \A l \in Attempts \X Codes : letters[l] # NoLetter => letters'[l] = letters[l]
    /\ \A d \in Deliveries : ledger[d] # "absent" => ledger'[d] = ledger[d]

LEMMA KeepsStep == ASSUME Base, [Next]_vars PROVE Keeps
<1>1. TypeOK BY DEF Base
<1>2. CASE UNCHANGED <<receipts, letters, ledger>> BY <1>2 DEF Keeps
<1>3. ASSUME NEW h \in Handlers, AppendTouchpoint(h) PROVE Keeps
      BY <1>1, <1>3 DEF AppendTouchpoint, TypeOK, Keeps
<1>4. ASSUME NEW h \in Handlers, SaveReceipt(h) PROVE Keeps
  <2>1. UNCHANGED <<letters, ledger>> BY <1>4 DEF SaveReceipt
  <2>2. ASSUME NEW a \in Attempts, receipts[a] # NoReceipt PROVE receipts'[a] = receipts[a]
    <3> DEFINE b == call[h].attempt
    <3>1. receipts' = [receipts EXCEPT ![b] =
                          IF receipts[b] = NoReceipt THEN call[h].receipt ELSE receipts[b]]
          BY <1>4 DEF SaveReceipt
    <3>2. CASE a = b BY <1>1, <2>2, <3>1, <3>2 DEF TypeOK
    <3>3. CASE a # b
      <4> HIDE DEF b
      <4> QED BY <1>1, <3>1, <3>3 DEF TypeOK
    <3> QED BY <3>2, <3>3
  <2> QED BY <2>1, <2>2 DEF Keeps
<1>5. ASSUME NEW h \in Handlers, SaveLetter(h) PROVE Keeps
      BY <1>1, <1>5 DEF SaveLetter, TypeOK, Keeps
<1>6. ASSUME NEW h \in Handlers, Request(h) PROVE Keeps
  <2>1. ASSUME NEW a, NEW g, Accept(h, a, g) PROVE UNCHANGED stored BY <2>1 DEF Accept
  <2>2. UNCHANGED stored BY <1>6, <2>1 DEF Request, Ingest, RecordFailure
  <2> QED BY <1>2, <2>2 DEF stored
<1>7. ASSUME NEW h \in Handlers,
             \/ Lookup(h) \/ CompareLedger(h) \/ RecordIssue(h)
             \/ CheckReceipt(h) \/ FindLetter(h) \/ HandlerDies(h)
      PROVE  Keeps
      BY <1>2, <1>7 DEF Lookup, CompareLedger, RecordIssue, CheckReceipt, FindLetter,
         HandlerDies, stored
<1>8. ASSUME NEW h \in Handlers, Step(h) PROVE Keeps
      BY <1>3, <1>4, <1>5, <1>7, <1>8 DEF Step
<1>9. CASE UNCHANGED vars BY <1>2, <1>9 DEF vars, stored
<1> QED BY <1>6, <1>8, <1>9 DEF Next

\* No step changes or removes a receipt, a dead letter or a touchpoint.
THEOREM NothingChanges == Spec => StoredIsImmutable
<1>1. Base /\ [Next]_vars => [Keeps]_vars BY KeepsStep
<1> QED BY <1>1, BaseHolds, PTL DEF Spec, StoredIsImmutable, Keeps

-----------------------------------------------------------------------------
(* What producers hold, and what was given up.  The argument is that a     *)
(* handler whose attempt nobody else worked on (it is not in raced) is     *)
(* alone: what it read of the attempt is still so when it writes.          *)

\* Two handlers that work on one attempt are in its race.
Alone ==
    \A g, h \in Handlers :
        pc[g] # "idle" /\ pc[h] # "idle" /\ call[g].attempt = call[h].attempt
            /\ call[h].attempt \notin raced => g = h

\* What a handler carries has to do with the receipt of its attempt.
Carries(p, c, rec, rac) ==
    /\ p \in {"lookup", "compare", "append", "issue", "check", "save"} => ~ c.refuse
    /\ p = "lookup" => c.reason = Conflict
    /\ p \in {"compare", "append", "issue", "check", "save"} /\ c.attempt \notin rac =>
           rec[c.attempt] = NoReceipt
    /\ p \in {"letter", "letter_save"} =>
           /\ c.refuse => c.reason = Conflict
           /\ ~ c.refuse => c.reason = c.receipt.digest.body
           /\ ~ c.refuse /\ c.attempt \notin rac => rec[c.attempt] = c.receipt

\* What is stored about an answer that was given.
Backed(x, rec, rac, let) ==
    /\ "receipt" \in DOMAIN x /\ x.attempt \notin rac =>
           rec[x.attempt] = x.receipt /\ x.receipt.digest = x.digest
    /\ "refused" \in DOMAIN x => let[<<x.attempt, Conflict>>] # NoLetter

\* A given up attempt has its letter, or the handler that will save it.
Filed(a) ==
    \/ letters[<<a, receipts[a].digest.body>>] # NoLetter
    \/ \E h \in Handlers : /\ pc[h] \in {"letter", "letter_save"}
                           /\ call[h].attempt = a /\ ~ call[h].refuse
                           /\ call[h].receipt = receipts[a]

Race ==
    /\ Base
    /\ Alone
    /\ \A h \in Handlers : pc[h] # "idle" => Carries(pc[h], call[h], receipts, raced)
    /\ \A x \in answers : Backed(x, receipts, raced, letters)
    /\ \A a \in Attempts :
           receipts[a].outcome = "dead_lettered" => receipts[a].digest.body \in Codes
    /\ deaths = 0 => \A a \in Attempts : receipts[a].outcome = "dead_lettered" => Filed(a)

-----------------------------------------------------------------------------
\* A step of a handler moves that handler alone, and touches its attempt alone.
Moves(h) ==
    /\ pc[h] # "idle" /\ raced' = raced
    /\ \A k \in Handlers \ {h} : pc'[k] = pc[k] /\ call'[k] = call[k]
    /\ pc'[h] # "idle" => call'[h].attempt = call[h].attempt /\ call'[h].digest = call[h].digest
    /\ \A a \in Attempts \ {call[h].attempt} : receipts'[a] = receipts[a]

\* A handler that builds a receipt keeps the rest of what it carries.
LEMMA ReceiptKept ==
    ASSUME TypeOK, NEW h \in Handlers, call[h] \in Calls, NEW f,
           call' = [call EXCEPT ![h].receipt = f]
    PROVE  /\ \A k \in Handlers \ {h} : call'[k] = call[k]
           /\ call'[h].attempt = call[h].attempt /\ call'[h].digest = call[h].digest
           /\ call'[h].refuse = call[h].refuse /\ call'[h].receipt = f
<1> DEFINE d == [call[h] EXCEPT !.receipt = f]
<1>1. /\ d.attempt = call[h].attempt /\ d.digest = call[h].digest
      /\ d.refuse = call[h].refuse /\ d.receipt = f
      BY DEF Calls
<1>2. call' = [call EXCEPT ![h] = d] OBVIOUS
<1> HIDE DEF d
<1> QED BY <1>1, <1>2 DEF TypeOK

LEMMA StepMoves == ASSUME Base, NEW h \in Handlers, Step(h) PROVE Moves(h)
<1>1. TypeOK BY DEF Base
<1>2. pc[h] # "idle"
      BY DEF Step, Lookup, CompareLedger, AppendTouchpoint, RecordIssue, CheckReceipt,
         SaveReceipt, FindLetter, SaveLetter, HandlerDies
<1>3. call[h] \in Calls BY <1>2 DEF Base, Knows
<1> USE DEF Moves, Goto, End, Calls, TypeOK
<1>4. CASE Lookup(h) BY <1>1, <1>2, <1>3, <1>4 DEF Lookup, stored
<1>5. CASE CompareLedger(h)
  <2>1. ASSUME NEW o, call' = [call EXCEPT ![h].receipt = IngestReceipt(h, o, FALSE)]
        PROVE  /\ \A k \in Handlers \ {h} : call'[k] = call[k]
               /\ call'[h].attempt = call[h].attempt /\ call'[h].digest = call[h].digest
        BY <1>1, <1>3, <2>1, ReceiptKept
  <2> QED BY <1>1, <1>2, <1>5, <2>1 DEF CompareLedger, stored
<1>6. CASE AppendTouchpoint(h)
  <2>1. ASSUME call' = [call EXCEPT ![h].receipt = IngestReceipt(h, "accepted", TRUE)]
        PROVE  /\ \A k \in Handlers \ {h} : call'[k] = call[k]
               /\ call'[h].attempt = call[h].attempt /\ call'[h].digest = call[h].digest
        BY <1>1, <1>3, <2>1, ReceiptKept
  <2> QED BY <1>1, <1>2, <1>6, <2>1 DEF AppendTouchpoint
<1>7. CASE RecordIssue(h) BY <1>1, <1>2, <1>3, <1>7 DEF RecordIssue
<1>8. CASE CheckReceipt(h) BY <1>1, <1>2, <1>3, <1>8 DEF CheckReceipt, stored
<1>9. CASE SaveReceipt(h) BY <1>1, <1>2, <1>3, <1>9 DEF SaveReceipt
<1>10. CASE FindLetter(h) BY <1>1, <1>2, <1>3, <1>10 DEF FindLetter, Finish, stored
<1>11. CASE SaveLetter(h) BY <1>1, <1>2, <1>3, <1>11 DEF SaveLetter, Finish
<1>12. CASE HandlerDies(h) BY <1>1, <1>2, <1>3, <1>12 DEF HandlerDies, stored
<1> QED BY <1>4, <1>5, <1>6, <1>7, <1>8, <1>9, <1>10, <1>11, <1>12 DEF Step

\* A request moves an idle handler, and what it meets on its attempt races.
Takes(h, a, g) ==
    /\ pc[h] = "idle" /\ pc' = [pc EXCEPT ![h] = "lookup"]
    /\ call' = [call EXCEPT ![h] = [attempt |-> a, digest |-> g, receipt |-> NoReceipt,
                                    reason |-> Conflict, refuse |-> FALSE]]
    /\ raced \subseteq raced'
    /\ (\E k \in Handlers : pc[k] # "idle" /\ call[k].attempt = a) => a \in raced'
    /\ UNCHANGED <<stored, answers, deaths>>

LEMMA RequestTakes ==
    ASSUME NEW h \in Handlers, Request(h)
    PROVE  \E a \in Attempts, g \in Digests : Takes(h, a, g)
<1>1. ASSUME NEW a, NEW g, Accept(h, a, g) PROVE Takes(h, a, g)
      BY <1>1 DEF Accept, Takes, Goto
<1>2. PICK d \in Deliveries, n \in 1..Budget, m \in 1..Budget :
          \/ \E c \in Contents : Ingest(h, d, n, c, m)
          \/ \E e \in Codes : RecordFailure(h, d, n, e, m)
      BY DEF Request
<1>3. <<d, n>> \in Attempts BY DEF Attempts
<1>4. ASSUME NEW c \in Contents, Ingest(h, d, n, c, m)
      PROVE  \E a \in Attempts, g \in Digests : Takes(h, a, g)
  <2>1. [kind |-> "ingest", max |-> m, body |-> c] \in Digests BY DEF Digests
  <2> QED BY <1>1, <1>3, <1>4, <2>1 DEF Ingest
<1>5. ASSUME NEW e \in Codes, RecordFailure(h, d, n, e, m)
      PROVE  \E a \in Attempts, g \in Digests : Takes(h, a, g)
  <2>1. [kind |-> "failure", max |-> m, body |-> e] \in Digests BY DEF Digests
  <2> QED BY <1>1, <1>3, <1>5, <2>1 DEF RecordFailure
<1> QED BY <1>2, <1>4, <1>5

LEMMA AloneStep == ASSUME Race, Next PROVE Alone'
<1>1. TypeOK /\ Base /\ Alone BY DEF Race, Base
<1>2. ASSUME NEW h \in Handlers, Step(h) PROVE Alone'
  <2>1. Moves(h) BY <1>1, <1>2, StepMoves
  <2> QED BY <1>1, <2>1 DEF Alone, Moves
<1>3. ASSUME NEW h \in Handlers, Request(h) PROVE Alone'
  <2>1. PICK a \in Attempts, g \in Digests : Takes(h, a, g) BY <1>3, RequestTakes
  <2>2. call'[h].attempt = a BY <1>1, <2>1 DEF Takes, TypeOK
  <2>3. \A k \in Handlers \ {h} : pc'[k] = pc[k] /\ call'[k] = call[k]
        BY <1>1, <2>1 DEF Takes, TypeOK
  <2> QED BY <1>1, <2>1, <2>2, <2>3 DEF Alone, Takes
<1> QED BY <1>2, <1>3 DEF Next

\* What the other handlers carry is not disturbed.
LEMMA OthersCarry ==
    ASSUME Race, NEW h \in Handlers, Moves(h), NEW k \in Handlers \ {h}, pc'[k] # "idle"
    PROVE  Carries(pc'[k], call'[k], receipts', raced')
<1>1. pc'[k] = pc[k] /\ call'[k] = call[k] /\ raced' = raced /\ pc[h] # "idle" BY DEF Moves
<1>2. Carries(pc[k], call[k], receipts, raced) /\ call[k] \in Calls
      BY <1>1 DEF Race, Base, Knows
<1>3. call[k].attempt \notin raced => receipts'[call[k].attempt] = receipts[call[k].attempt]
      BY <1>1, <1>2 DEF Race, Alone, Moves, Calls
<1> QED BY <1>1, <1>2, <1>3 DEF Carries

\* What a handler carries after its own step.
LEMMA OwnCarries ==
    ASSUME Race, NEW h \in Handlers, Step(h), pc'[h] # "idle"
    PROVE  Carries(pc'[h], call'[h], receipts', raced')
<1> DEFINE c == call[h]
<1>1. /\ TypeOK /\ pc[h] # "idle" /\ c \in Calls /\ Matches(c)
      /\ Knows(pc[h], c, ledger, issues) /\ raced' = raced
      BY StepMoves DEF Race, Base, Knows, Moves
<1>2. Carries(pc[h], c, receipts, raced) BY <1>1 DEF Race
<1>3. c.attempt \in Attempts BY <1>1 DEF Calls
<1> USE DEF Goto, End, Carries, TypeOK
<1>4. CASE Lookup(h)
  <2>1. pc[h] = "lookup" /\ UNCHANGED receipts BY <1>4 DEF Lookup, stored
  <2>2. CASE receipts[c.attempt] # NoReceipt /\ call' = [call EXCEPT ![h].refuse = TRUE]
    <3> DEFINE d == [c EXCEPT !.refuse = TRUE]
    <3>1. call'[h] = d BY <1>1, <2>2
    <3>2. d.refuse /\ d.reason = c.reason /\ d.attempt = c.attempt BY <1>1 DEF Calls
    <3>3. pc'[h] = "letter" BY <1>1, <1>4, <2>2 DEF Lookup
    <3> QED BY <1>1, <1>2, <2>1, <3>1, <3>2, <3>3
  <2>3. CASE receipts[c.attempt] = NoReceipt
    <3> DEFINE f == IF c.digest.kind = "ingest" THEN NoReceipt ELSE FailureReceipt(h)
               d == [c EXCEPT !.receipt = f]
    <3>1. call'[h] = d BY <1>1, <1>4, <2>3 DEF Lookup
    <3>2. d.refuse = c.refuse /\ d.attempt = c.attempt BY <1>1 DEF Calls
    <3>3. pc'[h] \in {"compare", "check"} BY <1>1, <1>4, <2>3 DEF Lookup
    <3>4. ~ c.refuse BY <1>2, <2>1
    <3> QED BY <1>1, <2>1, <2>3, <3>1, <3>2, <3>3, <3>4
  <2> QED BY <1>1, <1>4, <2>2, <2>3 DEF Lookup
<1>5. CASE CompareLedger(h) \/ AppendTouchpoint(h) \/ RecordIssue(h) \/ CheckReceipt(h)
  <2>1. pc[h] \in {"compare", "append", "issue", "check"} /\ UNCHANGED receipts
        BY <1>5 DEF CompareLedger, AppendTouchpoint, RecordIssue, CheckReceipt, stored
  <2>2. pc'[h] \in {"append", "issue", "check", "save"}
        BY <1>1, <1>5 DEF CompareLedger, AppendTouchpoint, RecordIssue, CheckReceipt
  <2>3. call'[h].attempt = c.attempt /\ call'[h].refuse = c.refuse
    <3>1. CASE UNCHANGED call BY <3>1
    <3>2. ASSUME NEW f, call' = [call EXCEPT ![h].receipt = f]
          PROVE  call'[h].attempt = c.attempt /\ call'[h].refuse = c.refuse
          BY <1>1, <3>2, ReceiptKept
    <3>3. pc'[h] = "idle" \/ UNCHANGED call \/ \E f : call' = [call EXCEPT ![h].receipt = f]
          BY <1>1, <1>5 DEF CompareLedger, AppendTouchpoint, RecordIssue, CheckReceipt
    <3> QED BY <2>2, <3>1, <3>2, <3>3
  <2> QED BY <1>1, <1>2, <2>1, <2>2, <2>3
<1>6. CASE SaveReceipt(h)
  <2>1. pc[h] = "save" BY <1>6 DEF SaveReceipt
  <2>2. pc'[h] = "letter" /\ call' = [call EXCEPT ![h].reason = c.digest.body]
        BY <1>1, <1>6 DEF SaveReceipt
  <2> DEFINE d == [c EXCEPT !.reason = c.digest.body]
  <2>3. call'[h] = d BY <1>1, <2>2
  <2>4. /\ d.refuse = c.refuse /\ d.attempt = c.attempt /\ d.receipt = c.receipt
        /\ d.reason = c.digest.body
        BY <1>1 DEF Calls
  <2>5. c.receipt.digest = c.digest BY <1>1, <2>1 DEF Matches, Knows
  <2>6. c.attempt \notin raced => receipts'[c.attempt] = c.receipt
        BY <1>1, <1>2, <1>3, <1>6, <2>1 DEF SaveReceipt
  <2>7. ~ c.refuse BY <1>2, <2>1
  <2> QED BY <1>1, <2>2, <2>3, <2>4, <2>5, <2>6, <2>7
<1>7. CASE FindLetter(h)
  <2>1. pc[h] = "letter" /\ pc'[h] = "letter_save" /\ call'[h] = c /\ UNCHANGED receipts
        BY <1>1, <1>7 DEF FindLetter, Finish, stored
  <2> QED BY <1>1, <1>2, <2>1
<1>8. CASE SaveLetter(h) \/ HandlerDies(h)
      BY <1>1, <1>8 DEF SaveLetter, HandlerDies, Finish
<1> QED BY <1>4, <1>5, <1>6, <1>7, <1>8 DEF Step

LEMMA CarriesStep ==
    ASSUME Race, Next, NEW k \in Handlers, pc'[k] # "idle"
    PROVE  Carries(pc'[k], call'[k], receipts', raced')
<1>1. ASSUME NEW h \in Handlers, Step(h) PROVE Carries(pc'[k], call'[k], receipts', raced')
      BY <1>1, StepMoves, OthersCarry, OwnCarries DEF Race
<1>2. ASSUME NEW h \in Handlers, Request(h) PROVE Carries(pc'[k], call'[k], receipts', raced')
  <2>1. PICK a \in Attempts, g \in Digests : Takes(h, a, g) BY <1>2, RequestTakes
  <2>2. receipts' = receipts /\ raced \subseteq raced' BY <2>1 DEF Takes, stored
  <2>3. CASE k = h
    <3>1. pc'[k] = "lookup" /\ call'[k].reason = Conflict /\ ~ call'[k].refuse
          BY <2>1, <2>3 DEF Takes, Race, Base, TypeOK
    <3> QED BY <3>1 DEF Carries
  <2>4. CASE k # h
    <3>1. pc'[k] = pc[k] /\ call'[k] = call[k] BY <2>1, <2>4 DEF Takes, Race, Base, TypeOK
    <3>2. Carries(pc[k], call[k], receipts, raced) BY <3>1 DEF Race
    <3> QED BY <2>2, <3>1, <3>2 DEF Carries
  <2> QED BY <2>3, <2>4
<1> QED BY <1>1, <1>2 DEF Next

\* What backs an answer is never changed.
LEMMA BackedStays ==
    ASSUME Race, Keeps, raced \subseteq raced', NEW x \in answers
    PROVE  Backed(x, receipts', raced', letters')
<1>1. x \in Answers /\ Backed(x, receipts, raced, letters) BY DEF Race, Base, TypeOK
<1>2. ASSUME "receipt" \in DOMAIN x, x.attempt \notin raced'
      PROVE  receipts'[x.attempt] = x.receipt /\ x.receipt.digest = x.digest
  <2>1. x.attempt \in Attempts /\ x.receipt \in Receipts
    <3>1. CASE x \in [attempt : Attempts, digest : Digests, receipt : Receipts] BY <3>1
    <3>2. CASE x \in [attempt : Attempts, digest : Digests, refused : {TRUE}]
      <4>1. DOMAIN x = {"attempt", "digest", "refused"} BY <3>2
      <4> QED BY <1>2, <4>1
    <3> QED BY <1>1, <3>1, <3>2 DEF Answers
  <2>2. receipts[x.attempt] = x.receipt /\ x.receipt.digest = x.digest BY <1>1, <1>2 DEF Backed
  <2> QED BY <2>1, <2>2, NoReceiptApart DEF Keeps
<1>3. ASSUME "refused" \in DOMAIN x PROVE letters'[<<x.attempt, Conflict>>] # NoLetter
  <2>1. x.attempt \in Attempts BY <1>1 DEF Answers
  <2>2. <<x.attempt, Conflict>> \in Attempts \X Codes BY <2>1, DeliveryAssumption
  <2> QED BY <1>1, <1>3, <2>2 DEF Backed, Keeps
<1> QED BY <1>2, <1>3 DEF Backed

\* A receipt that is answered while it is stored, or on an attempt in a race.
LEMMA ReceiptBacked ==
    ASSUME Race, Keeps, raced' = raced, NEW h \in Handlers, NEW r, AnswerReceipt(h, r),
           call[h].attempt \notin raced =>
               receipts'[call[h].attempt] = r /\ r.digest = call[h].digest
    PROVE  \A x \in answers' : Backed(x, receipts', raced', letters')
<1> DEFINE y == [attempt |-> call[h].attempt, digest |-> call[h].digest, receipt |-> r]
<1>1. y.attempt = call[h].attempt /\ y.digest = call[h].digest /\ y.receipt = r
      /\ "refused" \notin DOMAIN y
      OBVIOUS
<1>2. answers' = answers \cup {y} BY DEF AnswerReceipt
<1> HIDE DEF y
<1>3. Backed(y, receipts', raced', letters') BY <1>1 DEF Backed
<1> QED BY <1>2, <1>3, BackedStays

\* What a handler answers from the dead letters is backed.
LEMMA FinishBacked ==
    ASSUME Race, Keeps, raced' = raced, NEW h \in Handlers, pc[h] \in {"letter", "letter_save"},
           Finish(h), letters'[<<call[h].attempt, call[h].reason>>] # NoLetter
    PROVE  \A x \in answers' : Backed(x, receipts', raced', letters')
<1> DEFINE c == call[h]
<1>1. /\ c \in Calls /\ Carries(pc[h], c, receipts, raced) /\ Matches(c)
      /\ c.refuse \/ c.receipt \in Receipts
      BY DEF Race, Base, Knows
<1>2. CASE c.refuse
  <2> DEFINE y == [attempt |-> c.attempt, digest |-> c.digest, refused |-> TRUE]
  <2>1. y.attempt = c.attempt /\ "receipt" \notin DOMAIN y OBVIOUS
  <2>2. answers' = answers \cup {y} BY <1>2 DEF Finish, AnswerConflict
  <2>3. c.reason = Conflict BY <1>1, <1>2 DEF Carries
  <2> HIDE DEF y
  <2>4. Backed(y, receipts', raced', letters') BY <2>1, <2>3 DEF Backed
  <2> QED BY <2>2, <2>4, BackedStays
<1>3. CASE ~ c.refuse
  <2>1. AnswerReceipt(h, c.receipt) BY <1>3 DEF Finish
  <2>2. c.receipt \in Receipts /\ c.receipt.digest = c.digest BY <1>1, <1>3 DEF Matches
  <2>3. c.attempt \notin raced => receipts[c.attempt] = c.receipt BY <1>1, <1>3 DEF Carries
  <2>4. c.attempt \notin raced => receipts'[c.attempt] = c.receipt
        BY <1>1, <2>2, <2>3, NoReceiptApart DEF Keeps, Calls
  <2> QED BY <2>1, <2>2, <2>4, ReceiptBacked
<1> QED BY <1>2, <1>3

\* No letter is the absence of one.
LEMMA LetterApart == NoLetter \notin Letters
BY DEF NoLetter, Letters

LEMMA AnswersBacked ==
    ASSUME Race, Next PROVE \A x \in answers' : Backed(x, receipts', raced', letters')
<1>1. Keeps /\ TypeOK BY KeepsStep DEF Race, Base
<1>2. ASSUME UNCHANGED answers, raced \subseteq raced'
      PROVE  \A x \in answers' : Backed(x, receipts', raced', letters')
      BY <1>1, <1>2, BackedStays
<1>3. ASSUME NEW h \in Handlers, Step(h)
      PROVE  \A x \in answers' : Backed(x, receipts', raced', letters')
  <2> DEFINE c == call[h]
  <2>1. Moves(h) BY <1>3, StepMoves DEF Race
  <2>2. /\ c \in Calls /\ Matches(c) /\ Knows(pc[h], c, ledger, issues)
        /\ Carries(pc[h], c, receipts, raced) /\ c.attempt \in Attempts
        BY <2>1 DEF Race, Base, Knows, Moves, Calls
  <2>3. CASE Lookup(h)
    <3>1. CASE AnswerReceipt(h, receipts[c.attempt]) /\ receipts[c.attempt].digest = c.digest
          BY <1>1, <2>1, <2>3, <3>1, ReceiptBacked DEF Lookup, stored, Moves
    <3>2. CASE UNCHANGED answers BY <1>2, <2>1, <3>2 DEF Moves
    <3> QED BY <2>3, <3>1, <3>2 DEF Lookup
  <2>4. CASE SaveReceipt(h)
    <3>1. c.receipt \in Receipts /\ c.receipt.digest = c.digest
          BY <2>2, <2>4 DEF SaveReceipt, Knows, Matches
    <3>2. c.attempt \notin raced => receipts'[c.attempt] = c.receipt
          BY <1>1, <2>2, <2>4 DEF SaveReceipt, Carries, TypeOK
    <3>3. CASE AnswerReceipt(h, c.receipt)
          BY <1>1, <2>1, <3>1, <3>2, <3>3, ReceiptBacked DEF Moves
    <3>4. CASE UNCHANGED answers BY <1>2, <2>1, <3>4 DEF Moves
    <3> QED BY <2>4, <3>3, <3>4 DEF SaveReceipt
  <2>5. CASE FindLetter(h)
    <3>1. CASE Finish(h) /\ letters[<<c.attempt, c.reason>>] # NoLetter
          BY <1>1, <2>1, <2>5, <3>1, FinishBacked DEF FindLetter, stored, Moves
    <3>2. CASE UNCHANGED answers BY <1>2, <2>1, <3>2 DEF Moves
    <3> QED BY <2>5, <3>1, <3>2 DEF FindLetter
  <2>6. CASE SaveLetter(h)
    <3>1. CASE Finish(h)
      <4>1. <<c.attempt, c.reason>> \in Attempts \X Codes BY <2>2 DEF Calls
      <4>2. [digest |-> c.digest, by |-> h] # NoLetter BY DEF NoLetter
      <4>3. letters'[<<c.attempt, c.reason>>] # NoLetter
            BY <1>1, <2>6, <4>1, <4>2 DEF SaveLetter, TypeOK
      <4> QED BY <1>1, <2>1, <2>6, <3>1, <4>3, FinishBacked DEF SaveLetter, Moves
    <3>2. CASE UNCHANGED answers BY <1>2, <2>1, <3>2 DEF Moves
    <3> QED BY <2>6, <3>1, <3>2 DEF SaveLetter
  <2>7. CASE \/ CompareLedger(h) \/ AppendTouchpoint(h) \/ RecordIssue(h) \/ CheckReceipt(h)
             \/ HandlerDies(h)
    <3>1. UNCHANGED answers
          BY <2>7 DEF CompareLedger, AppendTouchpoint, RecordIssue, CheckReceipt, HandlerDies
    <3> QED BY <1>2, <2>1, <3>1 DEF Moves
  <2> QED BY <1>3, <2>3, <2>4, <2>5, <2>6, <2>7 DEF Step
<1>4. ASSUME NEW h \in Handlers, Request(h)
      PROVE  \A x \in answers' : Backed(x, receipts', raced', letters')
  <2>1. PICK a \in Attempts, g \in Digests : Takes(h, a, g) BY <1>4, RequestTakes
  <2> QED BY <1>2, <2>1 DEF Takes
<1> QED BY <1>3, <1>4 DEF Next
-----------------------------------------------------------------------------
\* The only receipt that a step adds is the one its handler carries.
LEMMA NewReceipt ==
    ASSUME Race, Next, NEW a \in Attempts, receipts'[a] # receipts[a]
    PROVE  \E h \in Handlers : SaveReceipt(h) /\ call[h].attempt = a /\ receipts'[a] = call[h].receipt
<1>1. TypeOK /\ Base BY DEF Race, Base
<1>2. ASSUME NEW h \in Handlers, Request(h) PROVE FALSE
  <2>1. PICK b \in Attempts, g \in Digests : Takes(h, b, g) BY <1>2, RequestTakes
  <2> QED BY <2>1 DEF Takes, stored
<1>3. ASSUME NEW h \in Handlers,
             \/ Lookup(h) \/ CompareLedger(h) \/ AppendTouchpoint(h) \/ RecordIssue(h)
             \/ CheckReceipt(h) \/ FindLetter(h) \/ SaveLetter(h) \/ HandlerDies(h)
      PROVE  FALSE
      BY <1>3 DEF Lookup, CompareLedger, AppendTouchpoint, RecordIssue, CheckReceipt,
         FindLetter, SaveLetter, HandlerDies, stored
<1>4. PICK h \in Handlers : SaveReceipt(h) BY <1>2, <1>3 DEF Next, Step
<1>5. Moves(h) BY <1>1, <1>4, StepMoves DEF Step
<1>6. call[h].attempt = a BY <1>5 DEF Moves
<1> DEFINE new == IF receipts[a] = NoReceipt THEN call[h].receipt ELSE receipts[a]
<1>7. receipts' = [receipts EXCEPT ![a] = new] BY <1>4, <1>6 DEF SaveReceipt
<1>8. receipts'[a] = new
  <2> HIDE DEF new
  <2> QED BY <1>1, <1>7 DEF TypeOK
<1> QED BY <1>4, <1>6, <1>8

LEMMA ReceiptTypes ==
    ASSUME Race, NEW h \in Handlers, SaveReceipt(h)
    PROVE  /\ call[h] \in Calls /\ call[h].receipt \in Receipts
           /\ call[h].receipt.digest = call[h].digest /\ ~ call[h].refuse
           /\ call[h].receipt.outcome = "dead_lettered" => call[h].digest.body \in Codes
<1>1. pc[h] = "save" BY DEF SaveReceipt
<1>2. /\ Knows("save", call[h], ledger, issues) /\ Carries("save", call[h], receipts, raced)
      BY <1>1 DEF Race, Base
<1>3. call[h] \in Calls /\ call[h].receipt \in Receipts BY <1>2 DEF Knows
<1>4. /\ call[h].receipt.digest = call[h].digest
      /\ call[h].receipt.outcome = "dead_lettered" => call[h].digest.kind = "failure"
      BY <1>2, <1>3 DEF Knows, Matches
<1>5. call[h].digest \in Digests BY <1>3 DEF Calls
<1> QED BY <1>2, <1>3, <1>4, <1>5, BodyTypes DEF Carries

LEMMA ReasonsStored ==
    ASSUME Race, Next, NEW a \in Attempts, receipts'[a].outcome = "dead_lettered"
    PROVE  receipts'[a].digest.body \in Codes
<1>1. CASE receipts'[a] = receipts[a] BY <1>1 DEF Race
<1>2. CASE receipts'[a] # receipts[a] BY <1>2, NewReceipt, ReceiptTypes
<1> QED BY <1>1, <1>2

\* The handler that is to save a letter has saved it when it is through.
LEMMA WaiterFiles ==
    ASSUME Race, Keeps, NEW h \in Handlers, Step(h), deaths' = deaths, deaths \in Nat,
           pc[h] \in {"letter", "letter_save"}, ~ call[h].refuse
    PROVE  \/ letters'[<<call[h].attempt, call[h].receipt.digest.body>>] # NoLetter
           \/ pc'[h] = "letter_save" /\ call'[h] = call[h]
<1> DEFINE c == call[h]
           l == <<c.attempt, c.reason>>
<1>1. c \in Calls /\ TypeOK /\ c.reason = c.receipt.digest.body
      BY DEF Race, Base, Knows, Carries
<1>2. l \in Attempts \X Codes BY <1>1 DEF Calls
<1>3. CASE FindLetter(h)
  <2>1. CASE letters[l] # NoLetter
    <3>1. letters' = letters BY <1>3 DEF FindLetter, stored
    <3> QED BY <1>1, <2>1, <3>1
  <2>2. CASE Goto(h, "letter_save") /\ UNCHANGED <<call, answers>>
        BY <1>1, <2>2 DEF Goto, TypeOK
  <2> QED BY <1>3, <2>1, <2>2 DEF FindLetter
<1>4. CASE SaveLetter(h)
  <2>1. [digest |-> c.digest, by |-> h] # NoLetter BY DEF NoLetter
  <2>2. letters'[l] # NoLetter BY <1>1, <1>2, <1>4, <2>1 DEF SaveLetter, TypeOK
  <2> QED BY <1>1, <2>2
<1>5. ~ HandlerDies(h) BY DEF HandlerDies
<1>6. ~ (\/ Lookup(h) \/ CompareLedger(h) \/ AppendTouchpoint(h) \/ RecordIssue(h)
         \/ CheckReceipt(h) \/ SaveReceipt(h))
      BY DEF Lookup, CompareLedger, AppendTouchpoint, RecordIssue, CheckReceipt, SaveReceipt
<1> QED BY <1>3, <1>4, <1>5, <1>6 DEF Step

LEMMA FiledStep ==
    ASSUME Race, Next, deaths' = 0, NEW a \in Attempts, receipts'[a].outcome = "dead_lettered"
    PROVE  Filed(a)'
<1> DEFINE r == receipts[a]
<1>1. TypeOK /\ Base /\ Keeps BY KeepsStep DEF Race, Base
<1>2. deaths = 0 /\ deaths \in Nat
  <2>1. deaths \in Nat BY <1>1 DEF TypeOK
  <2>2. ASSUME NEW h \in Handlers, Step(h) PROVE deaths' = deaths \/ deaths' = deaths + 1
        BY <2>2 DEF Step, Lookup, CompareLedger, AppendTouchpoint, RecordIssue, CheckReceipt,
           SaveReceipt, FindLetter, SaveLetter, HandlerDies
  <2>3. ASSUME NEW h \in Handlers, Request(h) PROVE deaths' = deaths
    <3>1. PICK b \in Attempts, g \in Digests : Takes(h, b, g) BY <2>3, RequestTakes
    <3> QED BY <3>1 DEF Takes
  <2> QED BY <2>1, <2>2, <2>3 DEF Next
<1>3. CASE receipts'[a] # r
  <2>1. PICK h \in Handlers : /\ SaveReceipt(h) /\ call[h].attempt = a
                              /\ receipts'[a] = call[h].receipt
        BY <1>3, NewReceipt
  <2>2. call[h] \in Calls /\ ~ call[h].refuse BY <2>1, ReceiptTypes
  <2>3. /\ Goto(h, "letter") /\ call' = [call EXCEPT ![h].reason = call[h].digest.body]
        BY <2>1 DEF SaveReceipt
  <2> DEFINE d == [call[h] EXCEPT !.reason = call[h].digest.body]
  <2>4. d.refuse = call[h].refuse /\ d.attempt = a /\ d.receipt = call[h].receipt
        BY <2>1, <2>2 DEF Calls
  <2>5. call'[h] = d /\ pc'[h] = "letter" BY <1>1, <2>3 DEF Goto, TypeOK
  <2> HIDE DEF d
  <2> QED BY <2>1, <2>2, <2>4, <2>5 DEF Filed
<1>4. CASE receipts'[a] = r
  <2>1. r.digest.body \in Codes /\ Filed(a) BY <1>2, <1>4 DEF Race
  <2>2. CASE letters[<<a, r.digest.body>>] # NoLetter
    <3>1. <<a, r.digest.body>> \in Attempts \X Codes BY <2>1
    <3>2. letters'[<<a, r.digest.body>>] # NoLetter BY <1>1, <2>2, <3>1 DEF Keeps
    <3> QED BY <1>4, <3>2 DEF Filed
  <2>3. ASSUME NEW k \in Handlers, pc[k] \in {"letter", "letter_save"},
               call[k].attempt = a, ~ call[k].refuse, call[k].receipt = r
        PROVE  Filed(a)'
    <3>1. CASE pc'[k] \in {"letter", "letter_save"} /\ call'[k] = call[k]
          BY <1>4, <2>3, <3>1 DEF Filed
    <3>2. CASE Step(k)
      <4>1. \/ letters'[<<a, r.digest.body>>] # NoLetter
            \/ pc'[k] = "letter_save" /\ call'[k] = call[k]
            BY <1>1, <1>2, <2>3, <3>2, WaiterFiles
      <4> QED BY <1>4, <3>1, <4>1 DEF Filed
    <3>3. ASSUME NEW h \in Handlers \ {k}, Step(h)
          PROVE  pc'[k] = pc[k] /\ call'[k] = call[k]
          BY <1>1, <3>3, StepMoves DEF Moves
    <3>4. ASSUME NEW h \in Handlers, Request(h) PROVE pc'[k] = pc[k] /\ call'[k] = call[k]
      <4>1. PICK b \in Attempts, g \in Digests : Takes(h, b, g) BY <3>4, RequestTakes
      <4>2. h # k BY <2>3, <4>1 DEF Takes
      <4> QED BY <1>1, <4>1, <4>2 DEF Takes, TypeOK
    <3> QED BY <2>3, <3>1, <3>2, <3>3, <3>4 DEF Next
  <2> QED BY <2>1, <2>2, <2>3 DEF Filed
<1> QED BY <1>3, <1>4

LEMMA RaceInit == Init => Race
<1> SUFFICES ASSUME Init PROVE Race OBVIOUS
<1>1. Base BY BaseInit
<1>2. Alone BY DEF Init, Alone
<1>3. \A h \in Handlers : pc[h] = "idle" BY DEF Init
<1>4. answers = {} BY DEF Init
<1>5. \A a \in Attempts : receipts[a].outcome # "dead_lettered" BY DEF Init, NoReceipt
<1> QED BY <1>1, <1>2, <1>3, <1>4, <1>5 DEF Race

LEMMA RaceStep == Race /\ [Next]_vars => Race'
<1> SUFFICES ASSUME Race, [Next]_vars PROVE Race' OBVIOUS
<1>1. Base' BY BaseStep DEF Race
<1>2. CASE Next
  <2>1. \A h \in Handlers : pc'[h] # "idle" => Carries(pc'[h], call'[h], receipts', raced')
        BY <1>2, CarriesStep
  <2>2. \A a \in Attempts :
            receipts'[a].outcome = "dead_lettered" => receipts'[a].digest.body \in Codes
        BY <1>2, ReasonsStored
  <2>3. deaths' = 0 => \A a \in Attempts : receipts'[a].outcome = "dead_lettered" => Filed(a)'
        BY <1>2, FiledStep
  <2> QED BY <1>1, <1>2, <2>1, <2>2, <2>3, AloneStep, AnswersBacked DEF Race
<1>3. CASE UNCHANGED vars BY <1>1, <1>3 DEF vars, stored, Race, Alone, Filed
<1> QED BY <1>2, <1>3

\* However attempts overlap, what a producer holds of an attempt that no other request
\* met is the stored receipt; what was given up is filed unless a handler died; and what
\* was refused left its letter, together with the types and the truth of receipts.
THEOREM ConsistentHolds == Spec => []Consistent
<1>1. Race => Consistent
  <2> SUFFICES ASSUME Race PROVE Consistent OBVIOUS
  <2>1. TypeOK /\ ReceiptIsTrue BY DEF Race, Base, True, ReceiptIsTrue
  <2>2. AnswerIsStored BY DEF Race, Backed, AnswerIsStored
  <2>3. GivenUpIsFiled BY DEF Race, Backed, Filed, GivenUpIsFiled
  <2> QED BY <2>1, <2>2, <2>3 DEF Consistent
<1> QED BY <1>1, RaceInit, RaceStep, PTL DEF Spec
-----------------------------------------------------------------------------
(* Each event is counted once.  Only the append that found no touchpoint   *)
(* makes a receipt that claims the event, and it is the last to find none. *)

\* The receipts that claim to have counted the event of delivery d.
Claims(d) ==
    {r \in Receipts :
        /\ r.inserted
        /\ \/ \E a \in Attempts : a[1] = d /\ receipts[a] = r
           \/ \E x \in answers : "receipt" \in DOMAIN x /\ x.attempt[1] = d /\ x.receipt = r
           \/ \E h \in Handlers : pc[h] # "idle" /\ call[h].attempt[1] = d /\ call[h].receipt = r}

\* There is at most one, and only once the event is in the ledger.
Single ==
    \A d \in Deliveries :
        /\ \A r, s \in Claims(d) : r = s
        /\ Claims(d) # {} => ledger[d] # "absent"

\* A receipt that is answered is the stored one, or the one that its handler carries.
LEMMA NewAnswer ==
    ASSUME Race, Next, NEW x \in answers' \ answers, "receipt" \in DOMAIN x
    PROVE  \E h \in Handlers : /\ pc[h] # "idle" /\ x.attempt = call[h].attempt
                               /\ x.receipt \in {receipts[call[h].attempt], call[h].receipt}
<1>1. Base BY DEF Race
<1>2. ASSUME NEW h \in Handlers, Request(h) PROVE FALSE
  <2>1. PICK b \in Attempts, g \in Digests : Takes(h, b, g) BY <1>2, RequestTakes
  <2> QED BY <2>1 DEF Takes
<1>3. PICK h \in Handlers : Step(h) BY <1>2 DEF Next
<1>4. pc[h] # "idle" BY <1>1, <1>3, StepMoves DEF Moves
<1>5. ASSUME NEW r, AnswerReceipt(h, r) PROVE x.attempt = call[h].attempt /\ x.receipt = r
  <2> DEFINE y == [attempt |-> call[h].attempt, digest |-> call[h].digest, receipt |-> r]
  <2>1. y.attempt = call[h].attempt /\ y.receipt = r OBVIOUS
  <2>2. answers' = answers \cup {y} BY <1>5 DEF AnswerReceipt
  <2> HIDE DEF y
  <2> QED BY <2>1, <2>2
<1>6. ASSUME AnswerConflict(h) PROVE FALSE
  <2> DEFINE y == [attempt |-> call[h].attempt, digest |-> call[h].digest, refused |-> TRUE]
  <2>1. "receipt" \notin DOMAIN y OBVIOUS
  <2>2. answers' = answers \cup {y} BY <1>6 DEF AnswerConflict
  <2> HIDE DEF y
  <2> QED BY <2>1, <2>2
<1>7. \/ AnswerReceipt(h, receipts[call[h].attempt]) \/ AnswerReceipt(h, call[h].receipt)
      \/ AnswerConflict(h)
      BY <1>3 DEF Step, Lookup, CompareLedger, AppendTouchpoint, RecordIssue, CheckReceipt,
         SaveReceipt, FindLetter, SaveLetter, HandlerDies, Finish
<1> QED BY <1>4, <1>5, <1>6, <1>7

\* A handler carries the receipt it carried, one that claims nothing, or the append's.
LEMMA NewCarried ==
    ASSUME Race, NEW h \in Handlers, Step(h), pc'[h] # "idle",
           call'[h].receipt \in Receipts, call'[h].receipt.inserted
    PROVE  \/ call'[h].receipt = call[h].receipt
           \/ /\ AppendTouchpoint(h) /\ ledger[Event(h)] = "absent"
              /\ ledger' = [ledger EXCEPT ![Event(h)] = call[h].digest.body]
<1>1. TypeOK /\ call[h] \in Calls BY StepMoves DEF Race, Base, Knows, Moves
<1>2. CASE Lookup(h)
  <2>1. CASE call' = [call EXCEPT ![h].refuse = TRUE]
    <3> DEFINE d == [call[h] EXCEPT !.refuse = TRUE]
    <3>1. d.receipt = call[h].receipt BY <1>1 DEF Calls
    <3>2. call'[h] = d BY <1>1, <2>1 DEF TypeOK
    <3> QED BY <3>1, <3>2
  <2>2. CASE call' = [call EXCEPT ![h].receipt =
                IF call[h].digest.kind = "ingest" THEN NoReceipt ELSE FailureReceipt(h)]
    <3> DEFINE f == IF call[h].digest.kind = "ingest" THEN NoReceipt ELSE FailureReceipt(h)
    <3>1. call'[h].receipt = f
      <4>1. call' = [call EXCEPT ![h].receipt = f] BY <2>2
      <4> HIDE DEF f
      <4> QED BY <1>1, <4>1, ReceiptKept
    <3>2. ~ FailureReceipt(h).inserted BY DEF FailureReceipt
    <3> QED BY <3>1, <3>2, NoReceiptApart
  <2>3. CASE End(h) BY <1>1, <2>3 DEF End, Goto, TypeOK
  <2> QED BY <1>2, <2>1, <2>2, <2>3 DEF Lookup
<1>3. CASE CompareLedger(h)
  <2>1. ASSUME NEW o, call' = [call EXCEPT ![h].receipt = IngestReceipt(h, o, FALSE)] PROVE FALSE
    <3>1. call'[h].receipt = IngestReceipt(h, o, FALSE) BY <1>1, <2>1, ReceiptKept
    <3>2. ~ IngestReceipt(h, o, FALSE).inserted BY DEF IngestReceipt
    <3> QED BY <3>1, <3>2
  <2> QED BY <1>3, <2>1 DEF CompareLedger
<1>4. CASE AppendTouchpoint(h)
  <2>1. ~ End(h) BY <1>1 DEF End, Goto, TypeOK
  <2> QED BY <1>4, <2>1 DEF AppendTouchpoint
<1>5. CASE RecordIssue(h) \/ CheckReceipt(h) \/ FindLetter(h) \/ SaveLetter(h) \/ HandlerDies(h)
      BY <1>1, <1>5 DEF RecordIssue, CheckReceipt, FindLetter, SaveLetter, HandlerDies, Finish,
         End, Goto, TypeOK
<1>6. CASE SaveReceipt(h)
  <2>1. ~ End(h) BY <1>1 DEF End, Goto, TypeOK
  <2>2. call' = [call EXCEPT ![h].reason = call[h].digest.body] BY <1>6, <2>1 DEF SaveReceipt
  <2> DEFINE d == [call[h] EXCEPT !.reason = call[h].digest.body]
  <2>3. d.receipt = call[h].receipt BY <1>1 DEF Calls
  <2>4. call'[h] = d BY <1>1, <2>2 DEF TypeOK
  <2> QED BY <2>3, <2>4
<1> QED BY <1>2, <1>3, <1>4, <1>5, <1>6 DEF Step

\* The handler that appends the touchpoint of delivery d while there is none.
Appends(h, d) ==
    /\ AppendTouchpoint(h) /\ Event(h) = d /\ ledger[d] = "absent"
    /\ ledger' = [ledger EXCEPT ![d] = call[h].digest.body]

\* A claim that appears is the one of that handler.
LEMMA NewClaim ==
    ASSUME Race, Next, NEW d \in Deliveries, NEW r \in Claims(d)', r \notin Claims(d)
    PROVE  \E h \in Handlers : Appends(h, d) /\ call'[h].receipt = r
<1>1. TypeOK /\ Base /\ r \in Receipts /\ r.inserted BY DEF Race, Base, Claims
<1>2. ASSUME NEW a \in Attempts, a[1] = d, receipts'[a] = r PROVE FALSE
  <2>1. receipts[a] # r BY <1>1, <1>2 DEF Claims
  <2>2. PICK h \in Handlers : SaveReceipt(h) /\ call[h].attempt = a /\ call[h].receipt = r
        BY <1>2, <2>1, NewReceipt
  <2>3. pc[h] # "idle" BY <2>2 DEF SaveReceipt
  <2> QED BY <1>1, <1>2, <2>2, <2>3 DEF Claims
<1>3. ASSUME NEW x \in answers', "receipt" \in DOMAIN x, x.attempt[1] = d, x.receipt = r
      PROVE  FALSE
  <2>1. x \notin answers BY <1>1, <1>3 DEF Claims
  <2>2. PICK h \in Handlers : /\ pc[h] # "idle" /\ x.attempt = call[h].attempt
                              /\ x.receipt \in {receipts[call[h].attempt], call[h].receipt}
        BY <1>3, <2>1, NewAnswer
  <2>3. call[h].attempt \in Attempts BY <1>1, <2>2 DEF Base, Knows, Calls
  <2> QED BY <1>1, <1>3, <2>2, <2>3 DEF Claims
<1>4. ASSUME NEW k \in Handlers, pc'[k] # "idle", call'[k].attempt[1] = d, call'[k].receipt = r
      PROVE  Appends(k, d)
  <2>1. ~ (pc[k] # "idle" /\ call[k].attempt[1] = d /\ call[k].receipt = r)
        BY <1>1 DEF Claims
  <2>2. ASSUME NEW h \in Handlers, Request(h) PROVE FALSE
    <3>1. PICK b \in Attempts, g \in Digests : Takes(h, b, g) BY <2>2, RequestTakes
    <3>2. CASE k = h
      <4>1. call'[k].receipt = NoReceipt BY <1>1, <3>1, <3>2 DEF Takes, TypeOK
      <4> QED BY <1>1, <1>4, <4>1, NoReceiptApart
    <3>3. CASE k # h
      <4>1. pc'[k] = pc[k] /\ call'[k] = call[k] BY <1>1, <3>1, <3>3 DEF Takes, TypeOK
      <4> QED BY <1>4, <2>1, <4>1
    <3> QED BY <3>2, <3>3
  <2>3. PICK h \in Handlers : Step(h) BY <2>2 DEF Next
  <2>4. Moves(h) BY <1>1, <2>3, StepMoves
  <2>5. k = h BY <1>4, <2>1, <2>4 DEF Moves
  <2>6. pc[k] # "idle" /\ call[k].attempt = call'[k].attempt BY <1>4, <2>4, <2>5 DEF Moves
  <2>7. call'[k].receipt # call[k].receipt BY <1>4, <2>1, <2>6
  <2>8. Event(k) = d BY <1>4, <2>6 DEF Event
  <2> QED BY <1>1, <1>4, <2>3, <2>5, <2>7, <2>8, NewCarried DEF Appends
<1>5. \/ \E a \in Attempts : a[1] = d /\ receipts'[a] = r
      \/ \E x \in answers' : "receipt" \in DOMAIN x /\ x.attempt[1] = d /\ x.receipt = r
      \/ \E k \in Handlers : pc'[k] # "idle" /\ call'[k].attempt[1] = d /\ call'[k].receipt = r
      BY DEF Claims
<1> QED BY <1>2, <1>3, <1>4, <1>5

LEMMA SingleInit == ASSUME Init PROVE Single
<1>1. \A a \in Attempts : receipts[a] = NoReceipt BY DEF Init
<1>2. answers = {} /\ \A h \in Handlers : pc[h] = "idle" BY DEF Init
<1>3. \A d \in Deliveries : Claims(d) = {} BY <1>1, <1>2, NoReceiptApart DEF Claims
<1> QED BY <1>3 DEF Single

LEMMA SingleStep == Race /\ Single /\ [Next]_vars => Single'
<1> SUFFICES ASSUME Race, Single, [Next]_vars PROVE Single' OBVIOUS
<1>1. CASE UNCHANGED vars BY <1>1 DEF vars, stored, Single, Claims
<1>2. ASSUME Next, NEW d \in Deliveries
      PROVE  /\ \A r, s \in Claims(d)' : r = s
             /\ Claims(d)' # {} => ledger'[d] # "absent"
  <2>1. Keeps /\ TypeOK BY <1>2, KeepsStep DEF Race, Base
  <2>2. CASE Claims(d)' \subseteq Claims(d)
        BY <2>1, <2>2 DEF Single, Keeps
  <2>3. CASE ~ (Claims(d)' \subseteq Claims(d))
    <3>1. PICK r \in Claims(d)' : r \notin Claims(d) BY <2>3
    <3>2. PICK h \in Handlers : Appends(h, d) /\ call'[h].receipt = r
          BY <1>2, <3>1, NewClaim
    <3>3. Claims(d) = {} BY <3>2 DEF Single, Appends
    <3>4. ASSUME NEW s \in Claims(d)' PROVE s = r
      <4>1. PICK k \in Handlers : Appends(k, d) /\ call'[k].receipt = s
            BY <1>2, <3>3, NewClaim
      <4>2. pc[h] = "append" /\ pc[k] = "append" /\ pc'[h] = "check" /\ pc'[k] = "check"
        <5>1. ASSUME NEW g \in Handlers, Appends(g, d)
              PROVE  pc[g] = "append" /\ pc'[g] = "check"
              BY <2>1, <5>1 DEF Appends, AppendTouchpoint, Goto, TypeOK
        <5> QED BY <3>2, <4>1, <5>1
      <4>3. Moves(h) BY <3>2, StepMoves DEF Race, Appends, Step
      <4>4. h = k BY <4>2, <4>3 DEF Moves
      <4> QED BY <3>2, <4>1, <4>4
    <3>5. ledger'[d] # "absent"
      <4>1. Knows("append", call[h], ledger, issues)
            BY <3>2 DEF Race, Base, Appends, AppendTouchpoint
      <4>2. call[h].digest.body \in Contents BY <4>1, BodyTypes DEF Knows, Calls
      <4> QED BY <2>1, <3>2, <4>2, DeliveryAssumption DEF Appends, TypeOK
    <3> QED BY <3>4, <3>5
  <2> QED BY <2>2, <2>3
<1> QED BY <1>1, <1>2 DEF Single

\* Retries and overlapping attempts of a delivery count its event once, however many
\* there are: no two receipts that are stored or answered claim to have inserted it.
THEOREM CountedOnce == Spec => []InsertedOnce
<1>1. ASSUME Race, Single PROVE InsertedOnce
  <2> SUFFICES ASSUME NEW d \in Deliveries
      PROVE Cardinality({r \in {receipts[a] : a \in {d} \X (1..Budget)}
                                  \cup {x.receipt : x \in {y \in answers : "receipt" \in DOMAIN y
                                                                        /\ y.attempt[1] = d}} :
                            r # NoReceipt /\ r.inserted}) <= 1
      BY DEF InsertedOnce
  <2> DEFINE S == {r \in {receipts[a] : a \in {d} \X (1..Budget)}
                             \cup {x.receipt : x \in {y \in answers : "receipt" \in DOMAIN y
                                                                   /\ y.attempt[1] = d}} :
                      r # NoReceipt /\ r.inserted}
  <2>1. TypeOK BY <1>1 DEF Race, Base
  <2>2. ASSUME NEW a \in {d} \X (1..Budget), receipts[a] # NoReceipt, receipts[a].inserted
        PROVE  receipts[a] \in Claims(d)
    <3>1. a \in Attempts /\ a[1] = d BY <2>2 DEF Attempts
    <3> QED BY <2>1, <2>2, <3>1 DEF Claims, TypeOK
  <2>3. ASSUME NEW x \in answers, "receipt" \in DOMAIN x, x.attempt[1] = d, x.receipt.inserted
        PROVE  x.receipt \in Claims(d)
    <3>1. x \in Answers BY <2>1 DEF TypeOK
    <3>2. CASE x \in [attempt : Attempts, digest : Digests, receipt : Receipts]
          BY <2>3, <3>2 DEF Claims
    <3>3. CASE x \in [attempt : Attempts, digest : Digests, refused : {TRUE}]
      <4>1. DOMAIN x = {"attempt", "digest", "refused"} BY <3>3
      <4> QED BY <2>3, <4>1
    <3> QED BY <3>1, <3>2, <3>3 DEF Answers
  <2>4. S \subseteq Claims(d) BY <2>2, <2>3
  <2>5. \A r, s \in S : r = s BY <1>1, <2>4 DEF Single
  <2> HIDE DEF S
  <2>6. ASSUME S = {} PROVE Cardinality(S) <= 1 BY <2>6, FS_EmptySet
  <2>7. ASSUME S # {} PROVE Cardinality(S) <= 1
    <3>1. PICK r \in S : TRUE BY <2>7
    <3>2. S = {r} BY <2>5, <3>1
    <3> QED BY <3>2, FS_Singleton
  <2>8. Cardinality(S) <= 1 BY <2>6, <2>7
  <2> QED BY <2>8 DEF S
<1>2. Race /\ Single => InsertedOnce BY <1>1
<1>3. Init => Race /\ Single BY RaceInit, SingleInit
<1>4. (Race /\ Single) /\ [Next]_vars => (Race /\ Single)' BY RaceStep, SingleStep
<1> QED BY <1>2, <1>3, <1>4, PTL DEF Spec
=============================================================================
