--------------------------- MODULE ActionExecution ---------------------------
(***************************************************************************)
(* Approval and execution of the planned actions of one Agent Hub task.    *)
(* The hub keeps the task's report as an object in memory that all         *)
(* requests share, and stores a serialised copy of it in Redis.  execute   *)
(* is a coroutine of the one event loop, which it leaves only while it     *)
(* waits for the tool; decide runs in a thread pool, so each of its steps  *)
(* interleaves with everything, and an object serialised by one request    *)
(* may be stored after a later one of another request.  When the process   *)
(* dies the report is read back from Redis.                                *)
(*   source: services/agent_hub/npd_agent_hub/orchestrator.py, tools.py    *)
(***************************************************************************)
EXTENDS Naturals

CONSTANTS
    Actions,        \* the planned actions of the report
    Gated,          \* those with requires_approval: n8n write tools
    Reads,          \* those of AUTO_READ_TOOLS, which analyze runs again
    Executors,      \* concurrent execute and analyze requests
    Deciders,       \* concurrent decision requests of the owner
    MaxRequests, MaxCrashes  \* bounds: requests begun, process deaths

ASSUME ActionAssumption ==
    /\ Gated \subseteq Actions /\ Reads \subseteq Actions \ Gated
    /\ Executors \cap Deciders = {}
    /\ MaxRequests \in Nat /\ MaxCrashes \in Nat

VARIABLES
    report,    \* the shared object: status of each action, approvals_required
    stored,    \* the report in Redis
    at, act,   \* where each request is, and its action
    rest, snap,    \* the list a decision has rebuilt, the report a request serialised
    granted,   \* history: how often the owner approved each action
    posts,     \* history: how often each action was sent to its tool
    refused,   \* history: actions whose rejection was answered, and not revoked
    late,      \* history: executions past their last check when a rejection was answered
    crossed,   \* history: actions whose failure was recorded in the middle of a decision
    disturbed, \* history: two executions of an action overlapped, or the process died
    requests, crashes

request == <<at, act, rest, snap>>
history == <<granted, posts, refused, late, crossed, disturbed>>
bounds  == <<requests, crashes>>
executionVars == <<report, stored, request, history, bounds>>

-----------------------------------------------------------------------------
ActionStatus == {"proposed", "approved", "rejected", "executed", "execution_failed"}
Decidable    == {"proposed", "approved", "execution_failed"}
Reports      == [status : [Actions -> ActionStatus], pending : SUBSET Gated]
Requests     == Executors \cup Deciders
RequestStates == {"idle", "begun", "sending", "waiting", "succeeded", "failed", "relist",
                  "approve", "reject", "unlist", "assign", "save", "store", "audit"}

ExecutionTypeOK ==
    /\ report \in Reports /\ stored \in Reports
    /\ at \in [Requests -> RequestStates]
    /\ act \in [Requests -> Actions]
    /\ rest \in [Requests -> SUBSET Gated] /\ snap \in [Requests -> Reports]
    /\ granted \in [Actions -> Nat] /\ posts \in [Actions -> Nat]
    /\ refused \subseteq Actions /\ late \subseteq Executors
    /\ crossed \subseteq Actions /\ disturbed \in BOOLEAN
    /\ requests \in 0..MaxRequests /\ crashes \in 0..MaxCrashes

NewReport == [status |-> [a \in Actions |-> "proposed"], pending |-> Gated]

ExecutionInit ==
    /\ report = NewReport /\ stored = NewReport
    /\ at = [r \in Requests |-> "idle"]
    /\ act \in [Requests -> Actions]
    /\ rest = [r \in Requests |-> {}] /\ snap = [r \in Requests |-> NewReport]
    /\ granted = [a \in Actions |-> 0] /\ posts = [a \in Actions |-> 0]
    /\ refused = {} /\ late = {} /\ crossed = {} /\ disturbed = FALSE
    /\ requests = 0 /\ crashes = 0

-----------------------------------------------------------------------------
MoveTo(r, p) == at' = [at EXCEPT ![r] = p]

\* No other execution holds the event loop.
LoopFree(e) ==
    \A x \in Executors \ {e} : at[x] \notin {"begun", "relist", "save", "store", "audit"}

Begin(r, a, p) ==
    /\ at[r] = "idle" /\ requests < MaxRequests
    /\ requests' = requests + 1
    /\ act' = [act EXCEPT ![r] = a]
    /\ MoveTo(r, p)
    /\ late' = late \ {r}
    /\ UNCHANGED <<stored, rest, snap, granted, posts, refused, crossed, crashes>>

\* The request e has passed the checks for its action and has no result yet.
Executing(e) == at[e] \in {"begun", "sending", "waiting", "succeeded", "failed"}

\* An execution of a begins.
BeginExecution(e, a) ==
    /\ LoopFree(e)
    /\ Begin(e, a, "begun")
    /\ disturbed' = (disturbed \/ \E x \in Executors : Executing(x) /\ act[x] = a)

WithStatus(r, a, s) == [r EXCEPT !.status[a] = s]

MayExecute(a) ==
    /\ report.status[a] \notin {"rejected", "executed"}
    /\ a \in Gated => report.status[a] = "approved"

\* execute: the checks of the status.
BeginExecute(e, a) ==
    /\ MayExecute(a)
    /\ BeginExecution(e, a)
    /\ UNCHANGED report

\* analyze runs an executed read once more; others it executes like any request.
BeginReadAgain(e, a) ==
    /\ a \in Reads /\ report.status[a] = "executed"
    /\ BeginExecution(e, a)
    /\ report' = WithStatus(report, a, "proposed")

\* Mutated form: the executor sends whatever it is handed.
CheckNothing(e) ==
    /\ at[e] = "begun"
    /\ MoveTo(e, "sending")
    /\ UNCHANGED <<report, stored, act, rest, snap, history, bounds>>

\* ToolExecutor: an n8n write looks at the status again and is refused.
Check(e) ==
    /\ at[e] = "begun"
    /\ MoveTo(e, IF act[e] \in Gated /\ report.status[act[e]] # "approved"
                 THEN "failed" ELSE "sending")
    /\ UNCHANGED <<report, stored, act, rest, snap, history, bounds>>

\* The client is entered and connected, and the request reaches the tool.
Post(e) ==
    /\ at[e] = "sending" /\ LoopFree(e)
    /\ posts' = [posts EXCEPT ![act[e]] = @ + 1]
    /\ MoveTo(e, "waiting")
    /\ UNCHANGED <<report, stored, act, rest, snap, granted, refused, late, crossed, disturbed,
                   bounds>>

\* The tool answers, refuses, or its answer is lost.
ToolAnswers(e) ==
    /\ at[e] = "waiting"
    /\ \E outcome \in {"succeeded", "failed"} : MoveTo(e, outcome)
    /\ UNCHANGED <<report, stored, act, rest, snap, history, bounds>>

\* A decision has set a status that its list does not show yet, or will serialise it.
Deciding(d) == at[d] \in {"unlist", "assign", "save"}

\* A failure is recorded that is not listed yet, in the middle of a decision.
Crossing == {act[e] : e \in {x \in Executors : at[x] = "relist"
                                               /\ \E d \in Deciders : Deciding(d)}}

SetStatus(r, status, next) ==
    /\ report' = WithStatus(report, act[r], status)
    /\ MoveTo(r, next)
    /\ UNCHANGED <<stored, act, rest, snap, posts, late, disturbed, bounds>>
    /\ crossed' = crossed \cup Crossing'

\* Mutated form: a failed write stays approved.
SetResultKeepingApproval(e) ==
    /\ LoopFree(e)
    /\ \/ at[e] = "succeeded" /\ SetStatus(e, "executed", "save")
       \/ /\ at[e] = "failed"
          /\ SetStatus(e, report.status[act[e]], IF act[e] \in Gated THEN "relist" ELSE "save")
    /\ UNCHANGED <<granted, refused>>

\* Mutated form: the ExecutionStatus of the result becomes the ActionStatus.
SetResultRaw(e) ==
    /\ LoopFree(e)
    /\ at[e] \in {"succeeded", "failed"} /\ SetStatus(e, at[e], "save")
    /\ UNCHANGED <<granted, refused>>

\* The result decides the status, whatever the status is by now.  (The result is
\* also appended to the execution history, which nothing here reads.)
SetResult(e) ==
    /\ LoopFree(e)
    /\ \/ at[e] = "succeeded" /\ SetStatus(e, "executed", "save")
       \/ /\ at[e] = "failed"
          /\ SetStatus(e, "execution_failed", IF act[e] \in Gated THEN "relist" ELSE "save")
    /\ UNCHANGED <<granted, refused>>

\* Mutated form: a failed write is not put back in approvals_required.
RelistNothing(e) ==
    /\ at[e] = "relist"
    /\ MoveTo(e, "save")
    /\ UNCHANGED <<report, stored, act, rest, snap, history, bounds>>

\* A failed write goes back into approvals_required.
Relist(e) ==
    /\ at[e] = "relist"
    /\ report' = [report EXCEPT !.pending = @ \cup {act[e]}]
    /\ MoveTo(e, "save")
    /\ UNCHANGED <<stored, act, rest, snap, history, bounds>>

-----------------------------------------------------------------------------
\* decide: the check of the status.
BeginDecide(d, a) ==
    /\ a \in Gated /\ report.status[a] \in Decidable
    /\ \E p \in {"approve", "reject"} : Begin(d, a, p)
    /\ UNCHANGED <<report, disturbed>>

\* Mutated form: the decision itself is not looked at.
ApproveAnyway(d) ==
    /\ at[d] \in {"approve", "reject"}
    /\ SetStatus(d, "approved", "unlist")
    /\ granted' = IF at[d] = "approve" THEN [granted EXCEPT ![act[d]] = @ + 1] ELSE granted
    /\ UNCHANGED refused

\* decide: the status, whatever it is by now ...
SetDecision(d) ==
    \/ /\ at[d] = "approve" /\ SetStatus(d, "approved", "unlist")
       /\ granted' = [granted EXCEPT ![act[d]] = @ + 1]
       /\ refused' = refused \ {act[d]}
    \/ /\ at[d] = "reject" /\ SetStatus(d, "rejected", "unlist")
       /\ UNCHANGED <<granted, refused>>

\* ... then approvals_required is read without the action ...
Unlist(d) ==
    /\ at[d] = "unlist"
    /\ rest' = [rest EXCEPT ![d] = report.pending \ {act[d]}]
    /\ MoveTo(d, "assign")
    /\ UNCHANGED <<report, stored, act, snap, history, bounds>>

\* ... and replaced by what was read.
AssignList(d) ==
    /\ at[d] = "assign"
    /\ report' = [report EXCEPT !.pending = rest[d]]
    /\ MoveTo(d, "save")
    /\ UNCHANGED <<stored, act, rest, snap, history, bounds>>

-----------------------------------------------------------------------------
\* save_report serialises the shared object as it is now ...
Serialise(r) ==
    /\ at[r] = "save"
    /\ snap' = [snap EXCEPT ![r] = report]
    /\ MoveTo(r, "store")
    /\ UNCHANGED <<report, stored, act, rest, history, bounds>>

\* ... and then sets the key.
StoreReport(r) ==
    /\ at[r] = "store"
    /\ stored' = snap[r]
    /\ MoveTo(r, "audit")
    /\ UNCHANGED <<report, act, rest, snap, history, bounds>>

\* r answers a rejection.  It may have been revoked by an approval of another request
\* before it is answered.
AnswersRejection(r) ==
    /\ r \in Deciders /\ snap[r].status[act[r]] = "rejected"
    /\ report.status[act[r]] # "approved"

\* The audit event is appended and the request answered.
AnswerRequest(r) ==
    /\ at[r] = "audit"
    /\ IF AnswersRejection(r)
       THEN /\ refused' = refused \cup {act[r]}
            /\ late' = late \cup {e \in Executors : at[e] = "sending" /\ act[e] = act[r]}
       ELSE UNCHANGED <<refused, late>>
    /\ MoveTo(r, "idle")
    /\ UNCHANGED <<report, stored, act, rest, snap, granted, posts, crossed, disturbed, bounds>>

\* The process dies; the next one reads the report from Redis.
Crash ==
    /\ crashes < MaxCrashes
    /\ crashes' = crashes + 1
    /\ report' = stored
    /\ at' = [r \in Requests |-> "idle"]
    /\ disturbed' = TRUE
    /\ UNCHANGED <<stored, act, rest, snap, granted, posts, refused, late, crossed, requests>>

Execute(e)    ==
    \/ \E a \in Actions : BeginExecute(e, a) \/ BeginReadAgain(e, a)
    \/ Check(e) \/ Post(e) \/ ToolAnswers(e) \/ SetResult(e) \/ Relist(e)
Decide(d)     ==
    \/ \E a \in Actions : BeginDecide(d, a)
    \/ SetDecision(d) \/ Unlist(d) \/ AssignList(d)
SaveReport(r) == Serialise(r) \/ StoreReport(r) \/ AnswerRequest(r)

ExecutionNext ==
    \/ \E e \in Executors : Execute(e)
    \/ \E d \in Deciders : Decide(d)
    \/ \E r \in Requests : SaveReport(r)
    \/ Crash

ExecutionSpec == ExecutionInit /\ [][ExecutionNext]_executionVars

-----------------------------------------------------------------------------
(* Properties.                                                             *)

\* A failed write is back in approvals_required, in memory and in Redis, so
\* that the owner is asked again also after a restart; in memory from the step
\* after the one that records the failure.  Where the failure was recorded in the
\* middle of a decision, of whatever action, the code does not promise it: the list
\* of the decision replaces the one that the failed write was appended to, and the
\* decision may serialise the report before it is appended.
FailedIsPending ==
    \A a \in Gated \ crossed :
        /\ report.status[a] = "execution_failed" =>
              \/ a \in report.pending
              \/ \E e \in Executors : at[e] = "relist" /\ act[e] = a
        /\ stored.status[a] = "execution_failed" => a \in stored.pending

\* A write is sent, and counts as approved after any restart, only if the owner
\* approved it at some time.
PostsAreGranted ==
    \A a \in Gated :
        posts[a] > 0 \/ stored.status[a] = "approved" => granted[a] > 0

\* Each sending of a write spends an approval of its own: "a write failure must
\* be approved again by the owner" (docs/MULTI_AGENT_MANAGEMENT_HUB.md, in
\* Vietnamese).  Only as long as no two executions of one action overlapped and
\* the process did not die: nothing marks an action as being executed.
OnePostPerApproval == disturbed \/ \A a \in Gated : posts[a] <= granted[a]

\* After its rejection was answered a write is not sent again, but by an execution
\* that had passed its last check of the status when the rejection was answered:
\* nothing looks at the status while the client connects.  As long as no restart
\* brings back a report stored late.
RejectedNeverPosted ==
    [][crashes = 0 =>
         \A a \in refused \cap Gated :
            \/ posts'[a] = posts[a]
            \/ \E e \in late : act[e] = a /\ at[e] = "sending" /\ at'[e] = "waiting"
      ]_executionVars

\* Every state is well typed, a failed write is pending again wherever the report is
\* kept, and what was sent had been approved.
ExecutionConsistent ==
    /\ ExecutionTypeOK
    /\ FailedIsPending
    /\ PostsAreGranted
=============================================================================
