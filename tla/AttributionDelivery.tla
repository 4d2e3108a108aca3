------------------------- MODULE AttributionDelivery -------------------------
(***************************************************************************)
(* Signed receipts for attribution deliveries.  A producer delivers source *)
(* events, attempt by attempt, or reports that an attempt failed; the hub  *)
(* answers each attempt with an immutable receipt and keeps a dead letter  *)
(* of what it gave up or refused.  Routes run in a thread pool, so every   *)
(* Redis call is a step and handlers of one attempt may overlap.           *)
(*   source: services/agent_hub/npd_agent_hub/delivery_observability.py,   *)
(*           delivery_models.py, store.py, routers/delivery.py             *)
(* A delivery carries one event; how the event resolves is the module      *)
(* AttributionLedger, of which only the append is repeated here.  Requests *)
(* over the attempt budget are answered 422 before anything is read.       *)
(***************************************************************************)
EXTENDS Naturals, FiniteSets

CONSTANTS
    Handlers,     \* threads that serve delivery routes
    Deliveries,   \* delivery ids; each carries one source event
    Known,        \* the deliveries whose event resolves to a campaign
    Contents,     \* what a producer may send as the event of a delivery
    Codes,        \* failure codes a producer reports
    Conflict,     \* the code integrity_conflict
    Budget,       \* AGENT_ATTRIBUTION_DELIVERY_MAX_ATTEMPTS
    MaxOps, MaxDeaths  \* bounds: requests, handler deaths

ASSUME DeliveryAssumption ==
    Known \subseteq Deliveries /\ Conflict \in Codes /\ "absent" \notin Contents
ASSUME BudgetAssumption == Budget \in 1..10 /\ MaxOps \in Nat /\ MaxDeaths \in Nat

VARIABLES
    receipts,   \* the receipt stored for each attempt
    letters,    \* the dead letter stored for each attempt and reason
    ledger,     \* what the touchpoint ledger holds of each delivery's event
    issues,     \* the deliveries whose event is an intake issue
    pc, call,   \* where each handler is, and its local variables
    answers,    \* history: what producers were answered
    raced,      \* history: attempts two handlers worked on at once
    ops, deaths

stored == <<receipts, letters, ledger, issues>>
vars   == <<stored, pc, call, answers, raced, ops, deaths>>

-----------------------------------------------------------------------------
Attempts == Deliveries \X (1..Budget)

\* The payload digest covers the whole request, max_attempts included.
Digests ==
    [kind : {"ingest"}, max : 1..Budget, body : Contents]
        \cup [kind : {"failure"}, max : 1..Budget, body : Codes]

Outcomes == {"accepted", "partial", "retry_pending", "dead_lettered"}

\* received_at and the signature tell receipts of different handlers apart.
Receipts  == [digest : Digests, outcome : Outcomes, inserted : BOOLEAN, by : Handlers]
NoReceipt == [outcome |-> "none"]

Letters  == [digest : Digests, by : Handlers]
NoLetter == [by |-> "none"]

NoCall == [attempt |-> "none"]
Calls  == [attempt : Attempts, digest : Digests, receipt : Receipts \cup {NoReceipt},
           reason : Codes, refuse : BOOLEAN]

HandlerStates == {"idle", "lookup", "compare", "append", "issue", "check", "save",
                  "letter", "letter_save"}

Answers == [attempt : Attempts, digest : Digests, receipt : Receipts]
              \cup [attempt : Attempts, digest : Digests, refused : {TRUE}]

TypeOK ==
    /\ receipts \in [Attempts -> Receipts \cup {NoReceipt}]
    /\ letters \in [Attempts \X Codes -> Letters \cup {NoLetter}]
    /\ ledger \in [Deliveries -> Contents \cup {"absent"}]
    /\ issues \subseteq Deliveries
    /\ pc \in [Handlers -> HandlerStates]
    /\ call \in [Handlers -> Calls \cup {NoCall}]
    /\ answers \subseteq Answers /\ raced \subseteq Attempts
    /\ ops \in 0..MaxOps /\ deaths \in 0..MaxDeaths

Init ==
    /\ receipts = [a \in Attempts |-> NoReceipt]
    /\ letters = [l \in Attempts \X Codes |-> NoLetter]
    /\ ledger = [d \in Deliveries |-> "absent"]
    /\ issues = {}
    /\ pc = [h \in Handlers |-> "idle"]
    /\ call = [h \in Handlers |-> NoCall]
    /\ answers = {} /\ raced = {}
    /\ ops = 0 /\ deaths = 0

Goto(h, p) == pc' = [pc EXCEPT ![h] = p]
End(h) == Goto(h, "idle") /\ call' = [call EXCEPT ![h] = NoCall]

AnswerReceipt(h, r) ==
    answers' = answers \cup
        {[attempt |-> call[h].attempt, digest |-> call[h].digest, receipt |-> r]}

AnswerConflict(h) ==
    answers' = answers \cup
        {[attempt |-> call[h].attempt, digest |-> call[h].digest, refused |-> TRUE]}

\* A request within the budgets of the envelope and of the configuration.
Accept(h, a, g) ==
    /\ pc[h] = "idle" /\ ops < MaxOps
    /\ a[2] <= g.max
    /\ ops' = ops + 1
    /\ Goto(h, "lookup")
    /\ call' = [call EXCEPT ![h] = [attempt |-> a, digest |-> g, receipt |-> NoReceipt,
                                    reason |-> Conflict, refuse |-> FALSE]]
    /\ raced' = raced \cup (IF \E k \in Handlers : pc[k] # "idle" /\ call[k].attempt = a
                            THEN {a} ELSE {})
    /\ UNCHANGED <<stored, answers, deaths>>

Ingest(h, d, n, c, m) == Accept(h, <<d, n>>, [kind |-> "ingest", max |-> m, body |-> c])
RecordFailure(h, d, n, e, m) == Accept(h, <<d, n>>, [kind |-> "failure", max |-> m, body |-> e])

-----------------------------------------------------------------------------
Exhausted(h) == call[h].attempt[2] >= call[h].digest.max

\* Mutated form: the outcome is the code that the producer reported.
FailureReceiptByCode(h) ==
    [digest |-> call[h].digest, inserted |-> FALSE, by |-> h, outcome |-> call[h].digest.body]

\* The receipt of a reported failure: a bounded retry, or the end of the budget.
FailureReceipt(h) ==
    [digest |-> call[h].digest, inserted |-> FALSE, by |-> h,
     outcome |-> IF Exhausted(h) THEN "dead_lettered" ELSE "retry_pending"]

\* _existing_or_conflict: the same payload is answered from the store, another
\* payload of the attempt goes to the dead letters and is refused.
Lookup(h) ==
    /\ pc[h] = "lookup"
    /\ LET r == receipts[call[h].attempt]
       IN \/ /\ r # NoReceipt /\ r.digest = call[h].digest
             /\ AnswerReceipt(h, r) /\ End(h)
          \/ /\ r # NoReceipt /\ r.digest # call[h].digest
             /\ Goto(h, "letter") /\ call' = [call EXCEPT ![h].refuse = TRUE]
             /\ UNCHANGED answers
          \/ /\ r = NoReceipt
             /\ Goto(h, IF call[h].digest.kind = "ingest" THEN "compare" ELSE "check")
             /\ call' = [call EXCEPT ![h].receipt =
                            IF call[h].digest.kind = "ingest" THEN NoReceipt ELSE FailureReceipt(h)]
             /\ UNCHANGED answers
    /\ UNCHANGED <<stored, raced, ops, deaths>>

-----------------------------------------------------------------------------
(* attribution.ingest_source_touchpoints, as far as a receipt depends on it. *)
Event(h) == call[h].attempt[1]

IngestReceipt(h, outcome, inserted) ==
    [digest |-> call[h].digest, inserted |-> inserted, by |-> h, outcome |-> outcome]

\* The stored touchpoint is read: a duplicate ends here, a conflict or an
\* unknown identity is an intake issue, a new event is appended.
CompareLedger(h) ==
    /\ pc[h] = "compare"
    /\ \/ /\ Event(h) \in Known /\ ledger[Event(h)] = "absent"
          /\ Goto(h, "append") /\ UNCHANGED call
       \/ /\ Event(h) \in Known /\ ledger[Event(h)] = call[h].digest.body
          /\ Goto(h, "check")
          /\ call' = [call EXCEPT ![h].receipt = IngestReceipt(h, "accepted", FALSE)]
       \/ /\ Event(h) \notin Known \/ ledger[Event(h)] \notin {"absent", call[h].digest.body}
          /\ Goto(h, "issue")
          /\ call' = [call EXCEPT ![h].receipt = IngestReceipt(h, "partial", FALSE)]
    /\ UNCHANGED <<stored, answers, raced, ops, deaths>>

\* Mutated form: SET without NX, so that both of two attempts count the event.
AppendOverwriting(h) ==
    /\ pc[h] = "append"
    /\ ledger' = [ledger EXCEPT ![Event(h)] = call[h].digest.body]
    /\ Goto(h, "check")
    /\ call' = [call EXCEPT ![h].receipt = IngestReceipt(h, "accepted", TRUE)]
    /\ UNCHANGED <<receipts, letters, issues, answers, raced, ops, deaths>>

\* SET NX: the slower of two attempts raises, and leaves no receipt.
AppendTouchpoint(h) ==
    /\ pc[h] = "append"
    /\ \/ /\ ledger[Event(h)] = "absent"
          /\ ledger' = [ledger EXCEPT ![Event(h)] = call[h].digest.body]
          /\ Goto(h, "check")
          /\ call' = [call EXCEPT ![h].receipt = IngestReceipt(h, "accepted", TRUE)]
       \/ /\ ledger[Event(h)] # "absent"
          /\ End(h) /\ UNCHANGED ledger
    /\ UNCHANGED <<receipts, letters, issues, answers, raced, ops, deaths>>

\* Mutated form: an exception of identity is only counted, never queued.
CountIssue(h) ==
    /\ pc[h] = "issue"
    /\ Goto(h, "check")
    /\ UNCHANGED <<stored, call, answers, raced, ops, deaths>>

RecordIssue(h) ==
    /\ pc[h] = "issue"
    /\ issues' = issues \cup {Event(h)}
    /\ Goto(h, "check")
    /\ UNCHANGED <<receipts, letters, ledger, call, answers, raced, ops, deaths>>

-----------------------------------------------------------------------------
\* save_attribution_delivery_receipt: a stored receipt that differs raises ...
CheckReceipt(h) ==
    /\ pc[h] = "check"
    /\ IF receipts[call[h].attempt] \in {NoReceipt, call[h].receipt}
       THEN Goto(h, "save") /\ UNCHANGED call
       ELSE End(h)
    /\ UNCHANGED <<stored, answers, raced, ops, deaths>>

\* Mutated form: SET without NX.
SaveReceiptOverwriting(h) ==
    /\ pc[h] = "save"
    /\ receipts' = [receipts EXCEPT ![call[h].attempt] = call[h].receipt]
    /\ IF call[h].receipt.outcome = "dead_lettered"
       THEN /\ Goto(h, "letter") /\ call' = [call EXCEPT ![h].reason = call[h].digest.body]
            /\ UNCHANGED answers
       ELSE AnswerReceipt(h, call[h].receipt) /\ End(h)
    /\ UNCHANGED <<letters, ledger, issues, raced, ops, deaths>>

\* Mutated form: the receipt is only indexed.
SaveReceiptIndexOnly(h) ==
    /\ pc[h] = "save"
    /\ AnswerReceipt(h, call[h].receipt) /\ End(h)
    /\ UNCHANGED <<stored, raced, ops, deaths>>

\* ... and SET NX keeps the one that was faster.  The caller is answered with the
\* receipt it built, or goes on to the dead letter of an exhausted delivery.
SaveReceipt(h) ==
    /\ pc[h] = "save"
    /\ receipts' = [receipts EXCEPT ![call[h].attempt] =
                        IF @ = NoReceipt THEN call[h].receipt ELSE @]
    /\ IF call[h].receipt.outcome = "dead_lettered"
       THEN /\ Goto(h, "letter") /\ call' = [call EXCEPT ![h].reason = call[h].digest.body]
            /\ UNCHANGED answers
       ELSE AnswerReceipt(h, call[h].receipt) /\ End(h)
    /\ UNCHANGED <<letters, ledger, issues, raced, ops, deaths>>

-----------------------------------------------------------------------------
\* What a handler answers once its dead letter is kept.
Finish(h) ==
    /\ IF call[h].refuse THEN AnswerConflict(h) ELSE AnswerReceipt(h, call[h].receipt)
    /\ End(h)

\* Mutated form: a refused payload is not looked for among the dead letters.
FindLetterOfExhausted(h) ==
    /\ pc[h] = "letter"
    /\ \/ call[h].refuse /\ Finish(h)
       \/ ~ call[h].refuse /\ Goto(h, "letter_save") /\ UNCHANGED <<call, answers>>
    /\ UNCHANGED <<stored, raced, ops, deaths>>

\* _save_dead_letter: the id names attempt and reason, and an id that is listed is enough.
FindLetter(h) ==
    /\ pc[h] = "letter"
    /\ \/ letters[<<call[h].attempt, call[h].reason>>] # NoLetter /\ Finish(h)
       \/ /\ letters[<<call[h].attempt, call[h].reason>>] = NoLetter
          /\ Goto(h, "letter_save") /\ UNCHANGED <<call, answers>>
    /\ UNCHANGED <<stored, raced, ops, deaths>>

\* save_attribution_dead_letter: one that was stored in between raises, or, after
\* the comparison, is kept by SET NX.
SaveLetter(h) ==
    LET l == <<call[h].attempt, call[h].reason>>
    IN /\ pc[h] = "letter_save"
       /\ \/ /\ letters[l] = NoLetter
             /\ letters' = [letters EXCEPT ![l] = [digest |-> call[h].digest, by |-> h]]
             /\ Finish(h)
          \/ letters[l] # NoLetter /\ UNCHANGED letters /\ Finish(h)
          \/ letters[l] # NoLetter /\ UNCHANGED <<letters, answers>> /\ End(h)
       /\ UNCHANGED <<receipts, ledger, issues, raced, ops, deaths>>

\* A Redis call raises, or the process dies, between two steps of a handler.
HandlerDies(h) ==
    /\ pc[h] # "idle" /\ deaths < MaxDeaths
    /\ deaths' = deaths + 1
    /\ End(h)
    /\ UNCHANGED <<stored, answers, raced, ops>>

-----------------------------------------------------------------------------
Request(h) ==
    \E d \in Deliveries, n \in 1..Budget, m \in 1..Budget :
        \/ \E c \in Contents : Ingest(h, d, n, c, m)
        \/ \E e \in Codes : RecordFailure(h, d, n, e, m)

Step(h) ==
    \/ Lookup(h) \/ CompareLedger(h) \/ AppendTouchpoint(h) \/ RecordIssue(h)
    \/ CheckReceipt(h) \/ SaveReceipt(h) \/ FindLetter(h) \/ SaveLetter(h) \/ HandlerDies(h)

Next == \E h \in Handlers : Request(h) \/ Step(h)

Spec == Init /\ [][Next]_vars

-----------------------------------------------------------------------------
(* Properties.                                                             *)

\* A conflict or a race "never changes the existing receipt or touchpoint ledger"
\* (docs/PHASE_8_6_INGESTION_DELIVERY_OBSERVABILITY.md), whoever overlaps.
StoredIsImmutable ==
    [][/\ \A a \in Attempts : receipts[a] # NoReceipt => receipts'[a] = receipts[a]
       /\ \A l \in Attempts \X Codes : letters[l] # NoLetter => letters'[l] = letters[l]
       /\ \A d \in Deliveries : ledger[d] # "absent" => ledger'[d] = ledger[d]]_vars

\* Retries and overlapping attempts of a delivery count its event once: at most
\* one receipt, stored or answered, claims to have inserted it.
InsertedOnce ==
    \A d \in Deliveries :
        Cardinality({r \in {receipts[a] : a \in {d} \X (1..Budget)}
                              \cup {x.receipt : x \in {y \in answers : "receipt" \in DOMAIN y
                                                                    /\ y.attempt[1] = d}} :
                        r # NoReceipt /\ r.inserted}) <= 1

\* A stored receipt tells the truth although handlers die between the ledger and
\* the receipt: what it accepted is the touchpoint of the ledger, what it took
\* in part waits as an intake issue.
ReceiptIsTrue ==
    \A a \in Attempts :
        /\ receipts[a].outcome = "accepted" => ledger[a[1]] = receipts[a].digest.body
        /\ receipts[a].outcome = "partial" => a[1] \in issues

\* Unless a handler died, an attempt that spent its budget has its dead letter, or
\* the handler that stored the receipt is about to save it; and every refused
\* payload left a letter for its attempt.
GivenUpIsFiled ==
    /\ deaths = 0 =>
          \A a \in Attempts : receipts[a].outcome = "dead_lettered" =>
              \/ letters[<<a, receipts[a].digest.body>>] # NoLetter
              \/ \E h \in Handlers : pc[h] \in {"letter", "letter_save"}
                                     /\ call[h].receipt = receipts[a]
    /\ \A x \in answers : "refused" \in DOMAIN x => letters[<<x.attempt, Conflict>>] # NoLetter

\* Where no two requests of an attempt overlapped, the receipt a producer holds is
\* the stored one, and it is the receipt of the payload that it sent.
AnswerIsStored ==
    \A x \in answers :
        "receipt" \in DOMAIN x /\ x.attempt \notin raced =>
            receipts[x.attempt] = x.receipt /\ x.receipt.digest = x.digest

\* Every state is well typed; receipts tell the truth, are the answers that producers
\* hold, and come with the dead letter of what was given up.
Consistent ==
    /\ TypeOK
    /\ ReceiptIsTrue
    /\ AnswerIsStored
    /\ GivenUpIsFiled
=============================================================================
