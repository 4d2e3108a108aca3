--------------------------- MODULE VideoJobProofs ---------------------------
(***************************************************************************)
(* Theorems about the jobs of the V1 video factory.  First what holds of   *)
(* JobQueue for every set of POSTs and keys: typing, the processing list,  *)
(* the bookkeeping of accepted jobs as long as no exception leaves         *)
(* run_job, and idempotency of keys used one POST at a time.  Then what    *)
(* holds of VideoPipeline for any number of renders the renderer can have  *)
(* in hand and any number of faults: typing, what a reviewable job shows,  *)
(* and that the record only goes forward.  Both keep the promise of        *)
(* JobLifecycle.                                                           *)
(***************************************************************************)
EXTENDS JobQueue, VideoPipeline, TLAPS

\* What the two list moves of the worker and the RPUSH of the API do to the elements.
LEMMA AppendElements ==
    ASSUME NEW S, NEW s \in Seq(S), NEW e \in S
    PROVE  ToSet(Append(s, e)) = ToSet(s) \cup {e}
<1>1. ToSet(Append(s, e)) \subseteq ToSet(s) \cup {e}
    BY DEF ToSet
<1>2. \A i \in DOMAIN s : Append(s, e)[i] = s[i] /\ i \in DOMAIN Append(s, e)
    OBVIOUS
<1>3. Append(s, e)[Len(s) + 1] = e /\ Len(s) + 1 \in DOMAIN Append(s, e)
    OBVIOUS
<1>4. QED  BY <1>1, <1>2, <1>3 DEF ToSet

LEMMA ConcatElements ==
    ASSUME NEW S, NEW s \in Seq(S), NEW t \in Seq(S)
    PROVE  ToSet(s \o t) = ToSet(s) \cup ToSet(t)
<1> DEFINE u == s \o t
<1>1. /\ Len(s) \in Nat /\ DOMAIN s = 1..Len(s)
      /\ Len(t) \in Nat /\ DOMAIN t = 1..Len(t)
      /\ DOMAIN u = 1..(Len(s) + Len(t))
    OBVIOUS
<1>2. /\ \A i \in 1..Len(s) : u[i] = s[i]
      /\ \A i \in 1..Len(t) : u[Len(s) + i] = t[i]
    OBVIOUS
<1>3. \A i \in 1..(Len(s) + Len(t)) :
         i \in 1..Len(s) \/ \E k \in 1..Len(t) : i = Len(s) + k
  <2> SUFFICES ASSUME NEW i \in 1..(Len(s) + Len(t)), i \notin 1..Len(s)
               PROVE  \E k \in 1..Len(t) : i = Len(s) + k
      OBVIOUS
  <2>1. i - Len(s) \in 1..Len(t) /\ i = Len(s) + (i - Len(s)) BY <1>1
  <2> QED BY <2>1
<1>4. \A i \in 1..Len(s) : i \in 1..(Len(s) + Len(t)) BY <1>1
<1>5. \A i \in 1..Len(t) : Len(s) + i \in 1..(Len(s) + Len(t)) BY <1>1
<1> HIDE DEF u
<1>6. ToSet(u) \subseteq ToSet(s) \cup ToSet(t)
  <2> SUFFICES ASSUME NEW i \in DOMAIN u PROVE u[i] \in ToSet(s) \cup ToSet(t)
      BY DEF ToSet
  <2>1. CASE i \in 1..Len(s) BY <1>1, <1>2, <2>1 DEF ToSet
  <2>2. CASE \E k \in 1..Len(t) : i = Len(s) + k BY <1>1, <1>2, <2>2 DEF ToSet
  <2> QED BY <1>1, <1>3, <2>1, <2>2
<1>7. ToSet(s) \subseteq ToSet(u)
  <2> SUFFICES ASSUME NEW i \in 1..Len(s) PROVE s[i] \in ToSet(u)
      BY <1>1 DEF ToSet
  <2> QED BY <1>1, <1>2, <1>4 DEF ToSet
<1>8. ToSet(t) \subseteq ToSet(u)
  <2> SUFFICES ASSUME NEW i \in 1..Len(t) PROVE t[i] \in ToSet(u)
      BY <1>1 DEF ToSet
  <2> QED BY <1>1, <1>2, <1>5 DEF ToSet
<1> QED BY <1>6, <1>7, <1>8 DEF u

LEMMA FrontLast ==
    ASSUME NEW S, NEW s \in Seq(S), s # <<>>
    PROVE  /\ Front(s) \in Seq(S) /\ Last(s) \in S
           /\ ToSet(s) = ToSet(Front(s)) \cup {Last(s)}
<1>1. Len(s) \in Nat \ {0}
    OBVIOUS
<1>2. Front(s) \in Seq(S) /\ Last(s) \in S
    BY <1>1 DEF Front, Last
<1>3. DOMAIN Front(s) = 1..(Len(s) - 1) /\ \A i \in 1..(Len(s) - 1) : Front(s)[i] = s[i]
    BY <1>1 DEF Front
<1>4. DOMAIN s = 1..Len(s) /\ 1..Len(s) = (1..(Len(s) - 1)) \cup {Len(s)}
    BY <1>1
<1>5. QED  BY <1>2, <1>3, <1>4 DEF ToSet, Last

LEMMA RemoveOnly ==
    ASSUME NEW e
    PROVE  LRem(<<e>>, e) = <<>>
<1> DEFINE I == {i \in DOMAIN <<e>> : <<e>>[i] = e}
<1>1. I = {1} /\ e \in ToSet(<<e>>)
    BY DEF ToSet
<1>2. Min(I) = 1
    BY <1>1 DEF Min
<1>3. LRem(<<e>>, e) = RemoveAt(<<e>>, 1)
    BY <1>1, <1>2 DEF LRem
<1>4. RemoveAt(<<e>>, 1) = <<>>
    BY DEF RemoveAt
<1>5. QED  BY <1>3, <1>4

-----------------------------------------------------------------------------
\* Types, the single worker's hold on the processing list, and the handlers' records.
Base == TypeOK /\ WorkerInv /\ ApiInv

LEMMA Stages ==
    /\ Finished \cup {"queued"} \cup Working = JobStage
    /\ Absent \notin JobStage /\ Absent # "queued"
    /\ Working \cap (Finished \cup {"queued"}) = {}
    /\ "quality_check" \in Working /\ "queued" \notin Finished
BY DEF JobStage, STAGE_ORDER, Working, Finished, Absent

LEMMA InitBase == Init => Base
<1>1. escaped = FALSE => escaped \in BOOLEAN
    BY Zenon
<1>2. QED
    BY <1>1, KeyAssumption, BoundAssumption
    DEF Init, Base, TypeOK, WorkerInv, ApiInv, ProcessingMirrorsWorker, ApiStates, WorkerStates,
       Absent

LEMMA ApiKeepsBase ==
    ASSUME Base, NEW j \in Jobs, ApiStep(j)
    PROVE  Base'
<1> USE KeyAssumption, BoundAssumption, Stages
    DEF Base, TypeOK, WorkerInv, ApiInv, ProcessingMirrorsWorker, ApiStates, WorkerStates,
        ApiGoto, worker, bounds, redis
<1>1. CASE LookUpKey(j)
    BY <1>1 DEF LookUpKey
<1>2. CASE FetchExisting(j)
    BY <1>2 DEF FetchExisting
<1>3. CASE CreateJob(j)
    <2>1. TypeOK'
        BY <1>3 DEF CreateJob
    <2>2. WorkerInv'
        BY <1>3 DEF CreateJob, Finished
    <2>3. ApiInv'
        BY <1>3 DEF CreateJob
    <2>4. QED  BY <2>1, <2>2, <2>3
<1>4. CASE BindKey(j)
    BY <1>4 DEF BindKey
<1>5. CASE EnqueueJob(j)
    BY <1>5 DEF EnqueueJob
<1>6. CASE HandlerDies(j)
    BY <1>6 DEF HandlerDies, MidFlight
<1>7. QED  BY <1>1, <1>2, <1>3, <1>4, <1>5, <1>6 DEF ApiStep

LEMMA WorkerKeepsBase ==
    ASSUME Base, ReadInflight \/ WorkerStep \/ WorkerCrash
    PROVE  Base'
<1> USE KeyAssumption, BoundAssumption, Stages
    DEF Base, TypeOK, WorkerInv, ApiInv, ProcessingMirrorsWorker, ApiStates, WorkerStates,
        WorkerGoto, worker, bounds, redis, client
<1>1. CASE ReadInflight
    BY <1>1 DEF ReadInflight
<1>2. CASE RequeueInflight
    BY <1>2 DEF RequeueInflight
<1>3. CASE Claim
    <2>1. Front(queue) \in Seq(Jobs) /\ Last(queue) \in Jobs
        BY <1>3, FrontLast DEF Claim
    <2>2. processing = <<>>
        BY <1>3 DEF Claim
    <2>3. processing' = <<Last(queue)>>
        BY <1>3, <2>1, <2>2 DEF Claim
    <2>4. QED  BY <1>3, <2>1, <2>3 DEF Claim
<1>4. CASE SkipFinished
    BY <1>4 DEF SkipFinished
<1>5. CASE RunAdvances
    BY <1>5 DEF RunAdvances, Finished
<1>6. CASE RunCompletes
    BY <1>6 DEF RunCompletes, Finished
<1>7. CASE RunFails
    BY <1>7 DEF RunFails, Finished
<1>8. CASE RunRaises
    BY <1>8 DEF RunRaises
<1>9. CASE Release
    <2>1. processing = <<job>>
        BY <1>9 DEF Release
    <2>2. processing' = <<>>
        BY <1>9, <2>1, RemoveOnly DEF Release
    <2>3. QED  BY <1>9, <2>2 DEF Release
<1>10. CASE WorkerCrash
    BY <1>10 DEF WorkerCrash
<1>11. QED
    BY <1>1, <1>2, <1>3, <1>4, <1>5, <1>6, <1>7, <1>8, <1>9, <1>10 DEF WorkerStep

LEMMA BaseInductive == Base /\ [Next]_vars => Base'
<1> SUFFICES ASSUME Base, [Next]_vars PROVE Base'
    OBVIOUS
<1>1. CASE \E j \in Jobs : ApiStep(j)
    BY <1>1, ApiKeepsBase
<1>2. CASE \E k \in Keys : ExpireKey(k)
    BY <1>2, KeyAssumption
       DEF ExpireKey, Base, TypeOK, WorkerInv, ApiInv, ProcessingMirrorsWorker, worker, bounds, client
<1>3. CASE ReadInflight \/ WorkerStep \/ WorkerCrash
    BY <1>3, WorkerKeepsBase
<1>4. CASE UNCHANGED vars
    BY <1>4 DEF vars, redis, client, worker, bounds, Base, TypeOK, WorkerInv, ApiInv,
                ProcessingMirrorsWorker
<1>5. QED  BY <1>1, <1>2, <1>3, <1>4 DEF Next

THEOREM BaseHolds == Spec => []Base
BY InitBase, BaseInductive, PTL DEF Spec

\* Every reachable state is well typed, for any POSTs, keys, crashes and exceptions.
THEOREM TypeCorrect == Spec => []TypeOK
BY BaseHolds, PTL DEF Base

\* The processing list is exactly the running worker's job, so a restart never
\* requeues a job somebody is still running (recover_inflight, main).
THEOREM ProcessingIsWorkers == Spec => []ProcessingMirrorsWorker
<1>1. Base => ProcessingMirrorsWorker
    BY DEF Base, WorkerInv
<1>2. QED  BY <1>1, BaseHolds, PTL

-----------------------------------------------------------------------------
\* Accepted jobs.  Until an exception leaves run_job, nothing takes a job off
\* both lists before it is finished.
AnsweredTracked == \A j \in Jobs : api[j] = "answered" => Tracked(answer[j])

NeverLost == escaped \/ (StartedInv /\ AnsweredTracked /\ pc # "raised")

LEMMA InitNeverLost == Init => NeverLost
BY DEF Init, NeverLost, StartedInv, AnsweredTracked, Working, Absent, JobStage, STAGE_ORDER

\* A step after which every tracked job is tracked, that starts no job off the
\* lists and accepts none, keeps the bookkeeping.
LEMMA TrackedStep ==
    ASSUME NeverLost, Base, escaped' = escaped, pc' # "raised",
           UNCHANGED client,
           \A j \in Jobs : Tracked(j) => Tracked(j)',
           \A j \in Jobs : stage'[j] \in Working => stage[j] \in Working \/ Tracked(j)
    PROVE  NeverLost'
BY DEF NeverLost, StartedInv, AnsweredTracked, Base, ApiInv, client, Tracked

\* The history of an exception is never erased.
LEMMA EscapedStays == escaped /\ [Next]_vars => escaped'
BY DEF Next, vars, bounds, ApiStep, LookUpKey, FetchExisting, CreateJob, BindKey, EnqueueJob,
       HandlerDies, ExpireKey, ReadInflight, WorkerStep, WorkerCrash, RequeueInflight, Claim,
       SkipFinished, RunAdvances, RunCompletes, RunFails, RunRaises, Release

LEMMA ApiNeverLoses ==
    ASSUME ~ escaped, NeverLost, Base, NEW j \in Jobs, ApiStep(j)
    PROVE  NeverLost'
<1> USE DEF ApiGoto, NeverLost, worker, redis, bounds
<1>1. CASE LookUpKey(j)
    BY <1>1 DEF LookUpKey, Base, TypeOK, StartedInv, AnsweredTracked, Tracked
<1>2. CASE FetchExisting(j)
    <2>1. answer[j] \in Jobs /\ stage[answer[j]] \in JobStage
        BY <1>2 DEF FetchExisting, Base, ApiInv, TypeOK
    <2>2. stage[answer[j]] # "queued" => Tracked(answer[j])
        BY <2>1, Stages DEF StartedInv, Tracked
    <2>3. QED
        BY <1>2, <2>1, <2>2
           DEF FetchExisting, Base, TypeOK, StartedInv, AnsweredTracked, Tracked
<1>3. CASE CreateJob(j)
    <2>1. stage[j] = Absent
        BY <1>3 DEF CreateJob, Base, ApiInv
    <2>2. \A i \in Jobs : Tracked(i) => Tracked(i)'
        BY <1>3, <2>1, Stages DEF CreateJob, Base, TypeOK, Tracked, Finished, Absent
    <2>3. StartedInv'
        BY <1>3, <2>2, Stages DEF CreateJob, Base, TypeOK, StartedInv
    <2>4. \A i \in Jobs \ {j} : api'[i] = api[i] /\ answer'[i] = answer[i]
        BY <1>3 DEF CreateJob, Base, TypeOK
    <2>5. api'[j] # "answered"
        BY <1>3 DEF CreateJob, Base, TypeOK
    <2>6. AnsweredTracked'
        BY <2>2, <2>4, <2>5 DEF AnsweredTracked, Base, ApiInv, Tracked
    <2>7. QED  BY <1>3, <2>3, <2>6 DEF CreateJob
<1>4. CASE BindKey(j)
    BY <1>4 DEF BindKey, Base, TypeOK, StartedInv, AnsweredTracked, Tracked
<1>5. CASE EnqueueJob(j)
    <2>1. answer[j] \in Jobs
        BY <1>5 DEF EnqueueJob, Base, ApiInv
    <2>2. ToSet(queue') = ToSet(queue) \cup {answer[j]}
        BY <1>5, <2>1, AppendElements DEF EnqueueJob, Base, TypeOK
    <2>3. QED
        BY <1>5, <2>1, <2>2 DEF EnqueueJob, Base, TypeOK, StartedInv, AnsweredTracked, Tracked
<1>6. CASE HandlerDies(j)
    BY <1>6 DEF HandlerDies, Base, TypeOK, StartedInv, AnsweredTracked, Tracked
<1>7. QED  BY <1>1, <1>2, <1>3, <1>4, <1>5, <1>6 DEF ApiStep

LEMMA WorkerNeverLoses ==
    ASSUME ~ escaped, NeverLost, Base, ReadInflight \/ WorkerStep \/ WorkerCrash
    PROVE  NeverLost'
<1> USE DEF Tracked, WorkerGoto, client, redis, worker, bounds
<1>0. Base'
    BY WorkerKeepsBase
<1>1. CASE ReadInflight
    BY <1>1, TrackedStep DEF ReadInflight
<1>2. CASE RequeueInflight
    <2>1. ToSet(queue') = ToSet(queue) \cup ToSet(processing)
        BY <1>2, ConcatElements DEF RequeueInflight, Base, TypeOK, WorkerInv
    <2>2. QED  BY <1>2, <2>1, TrackedStep DEF RequeueInflight
<1>3. CASE Claim
    <2>1. processing = <<>> /\ processing' = <<Last(queue)>>
        BY <1>3, <1>0 DEF Claim, Base, WorkerInv, ProcessingMirrorsWorker
    <2>2. ToSet(queue) = ToSet(queue') \cup {Last(queue)}
        BY <1>3, FrontLast DEF Claim, Base, TypeOK
    <2>3. ToSet(processing) = {} /\ ToSet(processing') = {Last(queue)}
        BY <2>1 DEF ToSet
    <2>4. QED  BY <1>3, <2>2, <2>3, TrackedStep DEF Claim
<1>4. CASE SkipFinished
    BY <1>4, TrackedStep DEF SkipFinished
<1>5. CASE RunAdvances \/ RunCompletes \/ RunFails
    <2>1. processing = <<job>> /\ job \in Jobs
        BY <1>5 DEF RunAdvances, RunCompletes, RunFails, Base, WorkerInv, ProcessingMirrorsWorker
    <2>2. Tracked(job) /\ job \in ToSet(processing)
        BY <2>1 DEF ToSet
    <2>3. stage' = [stage EXCEPT ![job] = stage'[job]] /\ UNCHANGED <<queue, processing, client, escaped>>
        BY <1>5, <2>1 DEF RunAdvances, RunCompletes, RunFails, Base, TypeOK
    <2>4. pc' # "raised"
        BY <1>5 DEF RunAdvances, RunCompletes, RunFails, NeverLost
    <2>5. \A j \in Jobs \ {job} : stage'[j] = stage[j]
        BY <2>3 DEF Base, TypeOK
    <2>6. QED  BY <2>2, <2>3, <2>4, <2>5, TrackedStep
<1>6. CASE RunRaises
    BY <1>6 DEF RunRaises, NeverLost
<1>7. CASE Release
    <2>1. processing = <<job>> /\ stage[job] \in Finished
        BY <1>7 DEF Release, NeverLost, Base, WorkerInv, ProcessingMirrorsWorker
    <2>2. processing' = <<>>
        BY <1>7, <2>1, RemoveOnly DEF Release
    <2>3. ToSet(processing) = {job}
        BY <2>1 DEF ToSet
    <2>4. QED  BY <1>7, <2>1, <2>3, TrackedStep DEF Release, NeverLost
<1>8. CASE WorkerCrash
    BY <1>8, TrackedStep DEF WorkerCrash
<1>9. QED  BY <1>1, <1>2, <1>3, <1>4, <1>5, <1>6, <1>7, <1>8 DEF WorkerStep

\* A POST that was answered names a job that is finished or on a list, in every
\* interleaving of handlers, deaths, recoveries and runs, until an exception
\* leaves run_job: the finally clause of main then removes finished jobs only.
THEOREM AcceptedSafe == Spec => []AcceptedNeverLost
<1>1. Init => NeverLost
    BY InitNeverLost
<1>2. NeverLost /\ Base /\ [Next]_vars => NeverLost'
    <2> SUFFICES ASSUME NeverLost, Base, [Next]_vars PROVE NeverLost'
        OBVIOUS
    <2>1. CASE escaped
        BY <2>1, EscapedStays DEF NeverLost
    <2>2. CASE ~ escaped
        <3>1. CASE \E j \in Jobs : ApiStep(j)
            BY <2>2, <3>1, ApiNeverLoses
        <3>2. CASE \E k \in Keys : ExpireKey(k)
            BY <2>2, <3>2
               DEF ExpireKey, NeverLost, StartedInv, AnsweredTracked, Tracked, worker, client
        <3>3. CASE ReadInflight \/ WorkerStep \/ WorkerCrash
            BY <2>2, <3>3, WorkerNeverLoses
        <3>4. CASE UNCHANGED vars
            BY <2>2, <3>4
               DEF vars, redis, client, worker, bounds, NeverLost, StartedInv,
                   AnsweredTracked, Tracked
        <3>5. QED  BY <3>1, <3>2, <3>3, <3>4 DEF Next
    <2>3. QED  BY <2>1, <2>2
<1>3. NeverLost => AcceptedNeverLost
    BY DEF NeverLost, AcceptedNeverLost, AnsweredTracked
<1>4. QED  BY <1>1, <1>2, <1>3, BaseHolds, PTL DEF Spec

-----------------------------------------------------------------------------
\* A key in Redis only ever expires: SET NX and nothing else writes it.
THEOREM KeyBindingIsStable == Spec => KeyBindingStable
<1>1. Base /\ [Next]_vars =>
        [\A k \in Keys : idem[k] # NoJob => idem'[k] \in {idem[k], NoJob}]_vars
    <2> SUFFICES ASSUME Base, [Next]_vars, NEW k \in Keys, idem[k] # NoJob
                 PROVE  idem'[k] \in {idem[k], NoJob}
        OBVIOUS
    <2>1. CASE \E j \in Jobs : ApiStep(j)
        BY <2>1 DEF Base, TypeOK, ApiStep, LookUpKey, FetchExisting, CreateJob, BindKey,
                    EnqueueJob, HandlerDies, redis
    <2>2. CASE \E l \in Keys : ExpireKey(l)
        BY <2>2 DEF Base, TypeOK, ExpireKey
    <2>3. CASE ReadInflight \/ WorkerStep \/ WorkerCrash
        BY <2>3 DEF ReadInflight, WorkerStep, WorkerCrash, RequeueInflight, Claim, SkipFinished,
                    RunAdvances, RunCompletes, RunFails, RunRaises, Release, redis
    <2>4. CASE UNCHANGED vars
        BY <2>4 DEF vars, redis
    <2>5. QED  BY <2>1, <2>2, <2>3, <2>4 DEF Next
<1>2. QED  BY <1>1, BaseHolds, PTL DEF Spec, KeyBindingStable

-----------------------------------------------------------------------------
\* Idempotency of a key that did not expire and whose POSTs did not overlap:
\* what the key is bound to is what every POST with that key answers.
Settled(j) == KeyOf[j] \notin {NoKey} \cup expired \cup overlapped

KeyInv ==
    /\ \A i, j \in Jobs :
          i # j /\ KeyOf[i] = KeyOf[j] /\ Settled(i) => ~ (MidFlight(i) /\ MidFlight(j))
    /\ \A j \in Jobs :
          Settled(j) =>
             /\ api[j] \in {"create", "bind"} => idem[KeyOf[j]] = NoJob
             /\ api[j] = "bind" => answer[j] = j
             /\ api[j] \in {"fetch", "enqueue", "answered"} => answer[j] = idem[KeyOf[j]]

LEMMA ApiKeepsKeyInv ==
    ASSUME KeyInv, Base, NEW j \in Jobs, ApiStep(j)
    PROVE  KeyInv'
<1> USE KeyAssumption DEF ApiGoto, KeyInv, Settled, MidFlight, redis, bounds, Base, TypeOK
<1>1. CASE LookUpKey(j)
    BY <1>1 DEF LookUpKey
<1>2. CASE FetchExisting(j)
    BY <1>2 DEF FetchExisting
<1>3. CASE CreateJob(j)
    BY <1>3 DEF CreateJob
<1>4. CASE BindKey(j)
    <2>1. Settled(j)' = Settled(j) /\ \A i \in Jobs : Settled(i)' = Settled(i)
        BY <1>4 DEF BindKey
    <2>2. api[j] = "bind" /\ KeyOf[j] \in Keys /\ UNCHANGED answer
        BY <1>4 DEF BindKey, ApiInv
    <2>3. \A i \in Jobs \ {j} : api'[i] = api[i]
        BY <1>4 DEF BindKey
    <2>4. api'[j] = "enqueue"
        BY <1>4 DEF BindKey
    <2>5. \A i \in Jobs \ {j} :
             KeyOf[i] = KeyOf[j] /\ Settled(j) => api[i] \in {"new", "died"}
        <3>1. SUFFICES ASSUME NEW i \in Jobs \ {j}, KeyOf[i] = KeyOf[j], Settled(j)
                       PROVE  api[i] \in {"new", "died"}
            OBVIOUS
        <3>2. ~ MidFlight(i) /\ idem[KeyOf[j]] = NoJob
            BY <2>2, <3>1
        <3>3. api[i] = "answered" => answer[i] = NoJob /\ answer[i] \in Jobs
            BY <3>1, <3>2 DEF ApiInv
        <3>4. QED  BY <3>2, <3>3
    <2>6. \A k \in Keys \ {KeyOf[j]} : idem'[k] = idem[k]
        BY <1>4 DEF BindKey
    <2>7. Settled(j) => idem'[KeyOf[j]] = j /\ answer[j] = j
        BY <1>4, <2>2 DEF BindKey
    <2>8. ASSUME NEW i \in Jobs \ {j}, Settled(i)'
          PROVE  /\ api[i] \in {"create", "bind"} => idem'[KeyOf[i]] = NoJob
                 /\ api[i] = "bind" => answer[i] = i
                 /\ api[i] \in {"fetch", "enqueue", "answered"} => answer[i] = idem'[KeyOf[i]]
        <3>1. CASE KeyOf[i] = KeyOf[j]
            BY <2>1, <2>5, <2>8, <3>1
        <3>2. CASE KeyOf[i] # KeyOf[j]
            BY <2>1, <2>6, <2>8, <3>2
        <3>3. QED  BY <3>1, <3>2
    <2>9. \A i, l \in Jobs :
             i # l /\ KeyOf[i] = KeyOf[l] /\ Settled(i)' => ~ (MidFlight(i)' /\ MidFlight(l)')
        BY <2>1, <2>2, <2>3, <2>5
    <2>10. QED  BY <2>1, <2>2, <2>3, <2>4, <2>7, <2>8, <2>9
<1>5. CASE EnqueueJob(j)
    BY <1>5 DEF EnqueueJob
<1>6. CASE HandlerDies(j)
    BY <1>6 DEF HandlerDies
<1>7. QED  BY <1>1, <1>2, <1>3, <1>4, <1>5, <1>6 DEF ApiStep

\* Repeating a key returns the original job (RedisJobStore.create), for POSTs
\* one after the other inside the 24 hours of the key, whatever dies in between.
THEOREM SerialIdempotency == Spec => []SameKeySameJob
<1>1. Init => KeyInv
    BY DEF Init, KeyInv, MidFlight
<1>2. KeyInv /\ Base /\ [Next]_vars => KeyInv'
    <2> SUFFICES ASSUME KeyInv, Base, [Next]_vars PROVE KeyInv'
        OBVIOUS
    <2>1. CASE \E j \in Jobs : ApiStep(j)
        BY <2>1, ApiKeepsKeyInv
    <2>2. CASE \E k \in Keys : ExpireKey(k)
        BY <2>2, KeyAssumption
           DEF ExpireKey, KeyInv, Settled, MidFlight, client, Base, TypeOK
    <2>3. CASE ReadInflight \/ WorkerStep \/ WorkerCrash
        <3>1. UNCHANGED <<idem, api, answer, expired, overlapped>>
            BY <2>3 DEF ReadInflight, WorkerStep, WorkerCrash, RequeueInflight, Claim,
                        SkipFinished, RunAdvances, RunCompletes, RunFails, RunRaises, Release,
                        redis, client, bounds
        <3>2. QED  BY <3>1 DEF KeyInv, Settled, MidFlight
    <2>4. CASE UNCHANGED vars
        BY <2>4 DEF vars, redis, client, bounds, KeyInv, Settled, MidFlight
    <2>5. QED  BY <2>1, <2>2, <2>3, <2>4 DEF Next
<1>3. KeyInv => SameKeySameJob
    BY DEF KeyInv, Settled, SameKeySameJob
<1>4. QED  BY <1>1, <1>2, <1>3, BaseHolds, PTL DEF Spec

-----------------------------------------------------------------------------
\* Handlers and worker implement JobLifecycle: every step that touches a record
\* is one of its steps, the others leave all records alone.
THEOREM ImplementsLifecycle == Spec => LifecycleKept
<1>1. Init => Lifecycle!Init
    BY DEF Init, Lifecycle!Init, Lifecycle!Absent, Absent
<1>2. Base /\ [Next]_vars => [Lifecycle!Next]_stage
    <2> SUFFICES ASSUME Base, [Next]_vars PROVE Lifecycle!Next \/ UNCHANGED stage
        OBVIOUS
    <2> USE DEF Lifecycle!Next, Lifecycle!Absent, Absent, Lifecycle!Working, Working
    <2>1. ASSUME NEW j \in Jobs, ApiStep(j) PROVE Lifecycle!Next \/ UNCHANGED stage
        <3>1. CASE CreateJob(j)
            BY <3>1 DEF CreateJob, Base, ApiInv, Lifecycle!Create
        <3>2. CASE ~ CreateJob(j)
            BY <2>1, <3>2 DEF ApiStep, LookUpKey, FetchExisting, BindKey, EnqueueJob, HandlerDies, redis
        <3>3. QED  BY <3>1, <3>2
    <2>2. CASE \E k \in Keys : ExpireKey(k)
        BY <2>2 DEF ExpireKey
    <2>3. CASE RunAdvances
        <3>1. Lifecycle!STAGE_ORDER = STAGE_ORDER /\ Lifecycle!Working = Working
            BY DEF Lifecycle!STAGE_ORDER, STAGE_ORDER, Lifecycle!JobStage, JobStage
        <3>2. Lifecycle!Work(job) /\ job \in Jobs
            BY <2>3, <3>1 DEF RunAdvances, Base, WorkerInv, Lifecycle!Work
        <3>3. QED  BY <3>2
    <2>4. CASE RunCompletes
        BY <2>4 DEF RunCompletes, Base, WorkerInv, Lifecycle!Complete
    <2>5. CASE RunFails
        BY <2>5, Stages DEF RunFails, Base, WorkerInv, Lifecycle!Abort
    <2>6. CASE \/ ReadInflight \/ RequeueInflight \/ Claim \/ SkipFinished
               \/ RunRaises \/ Release \/ WorkerCrash
        BY <2>6 DEF ReadInflight, RequeueInflight, Claim, SkipFinished, RunRaises, Release,
                    WorkerCrash, redis
    <2>7. CASE UNCHANGED vars
        BY <2>7 DEF vars, redis
    <2>8. QED
        BY <2>1, <2>2, <2>3, <2>4, <2>5, <2>6, <2>7 DEF Next, WorkerStep
<1>3. QED  BY <1>1, <1>2, BaseHolds, PTL DEF Spec, LifecycleKept, Lifecycle!Spec

\* The invariant that the runs check: well typed, and the processing list is what
\* the worker runs.
THEOREM ConsistentHolds == Spec => []Consistent
<1>1. TypeOK /\ ProcessingMirrorsWorker => Consistent BY DEF Consistent
<1> QED BY <1>1, TypeCorrect, ProcessingIsWorkers, PTL

-----------------------------------------------------------------------------
(* The pipeline.                                                           *)

\* The artifacts a run has behind it when it is at a step.
Before == [script |-> {}, storyboard |-> {"script"}, narration |-> {"script", "storyboard"},
           subtitles |-> {"script", "storyboard", "narration"},
           assets |-> {"script", "storyboard", "narration", "subtitles"},
           manifest |-> {"script", "storyboard", "narration", "subtitles"},
           final |-> {"script", "storyboard", "narration", "subtitles", "manifest"}]

Running  == phase \notin {"idle", "failing"}
AfterQc  == {"probe", "write_qc", "register_video", "register_qc", "complete"}
AfterAll == {"render", "await", "qc_stage"} \cup AfterQc
Open     == {"queued", "scripting", "storyboarding", "generating_voice", "generating_subtitles",
             "resolving_assets", "building_manifest", "rendering", "quality_check"}

\* Which artifact run_job can be at where.
Placed ==
    /\ phase = "check" => at # "assets"
    /\ phase = "produce" => at # "final"
    /\ phase = "register" => at \notin {"assets", "final"}
    /\ phase \in AfterAll => at = "final"
    /\ phase = "await" => waiting \in RenderIds
    /\ reused => phase \in {"qc_stage", "failing"} \cup (AfterQc \ {"probe"})

\* Status and stage agree ...
Agrees(r) ==
    /\ r.status = "failed" <=> r.stage = "failed"
    /\ r.status = "awaiting_review" <=> r.stage = "awaiting_review"
    /\ ~ Terminal(r) => r.progress <= 95

\* ... and a run only works on a record that is open.
RecordInv ==
    /\ Agrees(record)
    /\ Running => ~ Terminal(record)
    /\ phase = "failing" => record.status # "failed"
    /\ phase \in AfterQc => record.stage = "quality_check"

\* What a run has behind it is registered, by itself or by a run before it.
Registered ==
    /\ Running => Before[at] \subseteq record.artifacts
    /\ phase \in {"register_qc", "complete"} => "final" \in record.artifacts
    /\ phase = "complete" => "qc" \in record.artifacts
    /\ ReviewableIsComplete

\* ... and is valid on disk; the video too, unless a render that nobody waits for
\* may still be at work.
OnDisk ==
    /\ Running => \A a \in Before[at] \ {"narration"} : files[a] = "valid"
    /\ phase = "register" /\ at # "narration" => files[at] = "valid"
    /\ phase \in {"register_video", "register_qc", "complete"} => files["qc"] = "valid"
    /\ ~ abandoned => \A s \in RenderIds : renders[s] = "free" \/ (phase = "await" /\ s = waiting)
    /\ ~ abandoned /\ (phase \in AfterQc \ {"probe"} \/ (phase = "qc_stage" /\ reused)) =>
          files["final"] = "valid"
    /\ ReviewableIsServable

RunInv == PipelineTypeOK /\ Placed /\ RecordInv /\ Registered /\ OnDisk


-----------------------------------------------------------------------------
(* What the mutations of JobRecord do to a record.                         *)
LEMMA PipelineStages ==
    /\ JobStage = Open \cup {"awaiting_review", "failed"}
    /\ \A s \in Open : STAGE_ORDER[s] \in 0..90
    /\ STAGE_ORDER["awaiting_review"] = 100 /\ STAGE_ORDER["failed"] = 1000
    /\ \A s, t \in Open : STAGE_ORDER[s] = STAGE_ORDER[t] => s = t
    /\ \A s \in Open : STAGE_ORDER["quality_check"] >= STAGE_ORDER[s]
BY DEF JobStage, STAGE_ORDER, Open

LEMMA StepTables ==
    ASSUME NEW a \in Steps
    PROVE  /\ StageOf[a] \in Open \ {"queued", "quality_check"} /\ ProgressOf[a] \in 0..70
           /\ a # "final" => NextOf[a] \in Steps
           /\ a \in {"script", "storyboard", "narration", "subtitles", "manifest"} =>
                 /\ a \in Artifacts
                 /\ Before[NextOf[a]] = Before[a] \cup {a}
           /\ Before["manifest"] = Before["assets"] /\ Before["script"] = {}
           /\ NextOf["assets"] = "manifest"
           /\ Before[a] \subseteq Artifacts \ {"final", "qc", a}
           /\ Before["final"] = Artifacts \ {"final", "qc"}
           /\ EntryOf(a) \in {"check", "advance"} /\ EntryOf("assets") = "advance"
BY DEF Steps, StageOf, Open, ProgressOf, NextOf, Artifacts, Before, EntryOf, CheckedFirst

Advanced(r, s, p, q) ==
    /\ q \in JobRecords /\ ~ Terminal(q) /\ q.artifacts = r.artifacts
    /\ q.progress >= r.progress /\ q.progress <= 95
    /\ q.stage \in Open
    /\ q.stage = r.stage \/ (q.stage = s /\ STAGE_ORDER[s] > STAGE_ORDER[r.stage])
    /\ s = "quality_check" /\ p = 95 => q.stage = "quality_check"

LEMMA AdvanceRecord ==
    ASSUME NEW r \in JobRecords, ~ Terminal(r), Agrees(r),
           NEW s \in Open \ {"queued"}, NEW p \in 0..95
    PROVE  Advanced(r, s, p, Advance(r, s, p))
<1> DEFINE q == Advance(r, s, p)
<1>1. r.stage \in Open /\ r.progress \in 0..95 /\ r.status \in {"queued", "running"}
      BY PipelineStages DEF Agrees, Terminal, JobRecords, JobStatus
<1>2. CASE ~ ValidTransition(r, s, p)
  <2>1. q = r BY <1>2 DEF Advance
  <2>2. ~ (s = "quality_check" /\ p = 95)
    <3> SUFFICES ASSUME s = "quality_check", p = 95 PROVE ValidTransition(r, s, p) BY <1>2
    <3>0. \A t \in Open : STAGE_ORDER["quality_check"] >= STAGE_ORDER[t] BY PipelineStages
    <3>1. STAGE_ORDER[s] >= STAGE_ORDER[r.stage] BY <1>1, <3>0
    <3> QED BY <1>1, <3>1 DEF ValidTransition
  <2> QED BY <1>1, <2>1, <2>2 DEF Advanced
<1>3. CASE ValidTransition(r, s, p)
  <2>1. q = [status |-> "running", stage |-> s, progress |-> p,
             artifacts |-> r.artifacts, error |-> r.error]
        BY <1>3 DEF Advance, UpdateStage, JobRecords
  <2>2. p >= r.progress /\ STAGE_ORDER[s] >= STAGE_ORDER[r.stage] /\ s \in JobStage
        BY <1>3, PipelineStages DEF ValidTransition, Open
  <2>3. s = r.stage \/ STAGE_ORDER[s] > STAGE_ORDER[r.stage]
    <3> DEFINE m == STAGE_ORDER[s]
               n == STAGE_ORDER[r.stage]
    <3>1. m = n => s = r.stage BY <1>1, PipelineStages
    <3>2. m \in 0..90 /\ n \in 0..90 BY <1>1, PipelineStages
    <3>3. m >= n BY <2>2
    <3> HIDE DEF m, n
    <3>4. m = n \/ m > n BY <3>2, <3>3
    <3> QED BY <3>1, <3>4 DEF m, n
  <2>4. /\ q.status = "running" /\ q.stage = s /\ q.progress = p
        /\ q.artifacts = r.artifacts /\ q \in JobRecords
        BY <1>1, <2>1, <2>2 DEF JobRecords, JobStatus
  <2> QED BY <1>1, <2>2, <2>3, <2>4 DEF Terminal, Advanced
<1> QED BY <1>2, <1>3


-----------------------------------------------------------------------------
(* What the store call at hand does to the record.                         *)
\* The stage stays or goes on as JobLifecycle lets it.
Onward(r, q) ==
    \/ q.stage = r.stage
    \/ /\ r.stage \in Open /\ q.stage \in Open \ {"queued"}
       /\ STAGE_ORDER[q.stage] > STAGE_ORDER[r.stage]
    \/ r.stage = "quality_check" /\ q.stage = "awaiting_review"
    \/ r.stage # "failed" /\ q.stage = "failed"

LEMMA StoreCall ==
    ASSUME PipelineTypeOK, Placed, RecordInv, NEW q, q = StoreEffect
    PROVE  /\ q \in JobRecords /\ Agrees(q) /\ Onward(record, q)
           /\ record.artifacts \subseteq q.artifacts /\ q.progress >= record.progress
           /\ phase \notin {"idle", "complete", "failing"} => ~ Terminal(q)
           /\ phase \in (AfterQc \cup {"qc_stage"}) \ {"complete"} => q.stage = "quality_check"
           /\ phase = "register" => at \in q.artifacts
           /\ phase = "register_video" => "final" \in q.artifacts
           /\ phase = "register_qc" => "qc" \in q.artifacts
           /\ phase = "complete" => q.status = "awaiting_review"
           /\ phase = "failing" => q.status = "failed"
<1> USE DEF RecordInv, Agrees, Running
<1>0. record \in JobRecords /\ Agrees(record) BY DEF PipelineTypeOK
<1>1. ASSUME phase \in {"advance", "qc_stage"} PROVE ~ Terminal(record) /\ record.progress <= 95
      BY <1>1
<1>2. CASE phase = "advance"
  <2>1. q = Advance(record, StageOf[at], ProgressOf[at]) BY <1>2 DEF StoreEffect
  <2>2. StageOf[at] \in Open \ {"queued", "quality_check"} /\ ProgressOf[at] \in 0..95
        BY StepTables DEF PipelineTypeOK
  <2>3. /\ q \in JobRecords /\ ~ Terminal(q) /\ q.artifacts = record.artifacts
        /\ q.progress >= record.progress /\ q.progress <= 95 /\ q.stage \in Open
        /\ q.stage = record.stage \/ STAGE_ORDER[q.stage] > STAGE_ORDER[record.stage]
        /\ q.stage = record.stage \/ q.stage = StageOf[at]
    <3> DEFINE next == StageOf[at]
               progress == ProgressOf[at]
    <3>1. next \in Open \ {"queued"} /\ progress \in 0..95 BY <2>2
    <3>2. ~ Terminal(record) BY <1>1, <1>2
    <3>3. q = Advance(record, next, progress) BY <2>1
    <3> HIDE DEF next, progress, Agrees, RecordInv, Running
    <3>4. Advanced(record, next, progress, q) BY <1>0, <3>1, <3>2, <3>3, AdvanceRecord
    <3> QED BY <3>4 DEF next, Advanced
  <2>4. q.stage \notin {"failed", "awaiting_review"} /\ record.stage \in Open
        BY <1>0, <1>1, <1>2, <2>3, PipelineStages DEF Open, JobRecords, Terminal
  <2>5. Agrees(q) /\ Onward(record, q) BY <2>2, <2>3, <2>4 DEF Terminal, Onward
  <2> QED BY <1>2, <2>3, <2>5 DEF AfterQc
<1>3. CASE phase = "qc_stage"
  <2>1. q = Advance(record, "quality_check", 95) BY <1>3 DEF StoreEffect
  <2>2. /\ q \in JobRecords /\ ~ Terminal(q) /\ q.artifacts = record.artifacts
        /\ q.progress >= record.progress /\ q.progress <= 95 /\ q.stage = "quality_check"
        /\ q.stage = record.stage \/ STAGE_ORDER[q.stage] > STAGE_ORDER[record.stage]
        BY <1>0, <1>1, <1>3, <2>1, AdvanceRecord DEF Open, Advanced
  <2>3. record.stage \in Open
        BY <1>0, <1>1, <1>3, PipelineStages DEF JobRecords, Terminal
  <2>4. Agrees(q) /\ Onward(record, q) BY <2>2, <2>3 DEF Terminal, Onward, Open
  <2> QED BY <1>3, <2>2, <2>4 DEF AfterQc
<1>4. ASSUME NEW a \in Artifacts, q = AddArtifact(record, a),
             phase \notin {"idle", "complete", "failing"}
      PROVE  /\ q \in JobRecords /\ Agrees(q) /\ Onward(record, q) /\ ~ Terminal(q)
             /\ record.artifacts \subseteq q.artifacts /\ q.progress >= record.progress
             /\ q.stage = record.stage /\ a \in q.artifacts
  <2>1. /\ q \in JobRecords /\ q.status = record.status /\ q.stage = record.stage
        /\ q.progress = record.progress /\ q.artifacts = record.artifacts \cup {a}
        BY <1>0, <1>4 DEF AddArtifact, JobRecords
  <2> QED BY <1>0, <1>4, <2>1 DEF Terminal, Onward, JobRecords
<1>5. CASE phase = "register"
  <2>1. at \in Artifacts /\ q = AddArtifact(record, at)
        BY <1>5 DEF StoreEffect, PipelineTypeOK, Placed, Steps, Artifacts
  <2> QED BY <1>4, <1>5, <2>1 DEF AfterQc
<1>6. CASE phase = "register_video"
  <2>1. q = AddArtifact(record, "final") BY <1>6 DEF StoreEffect
  <2> QED BY <1>4, <1>6, <2>1 DEF AfterQc, Artifacts
<1>7. CASE phase = "register_qc"
  <2>1. q = AddArtifact(record, "qc") BY <1>7 DEF StoreEffect
  <2> QED BY <1>4, <1>7, <2>1 DEF AfterQc, Artifacts
<1>8. CASE phase = "complete"
  <2>1. q = [status |-> "awaiting_review", stage |-> "awaiting_review", progress |-> 100,
             artifacts |-> record.artifacts, error |-> record.error]
        BY <1>0, <1>8 DEF StoreEffect, UpdateStage, JobRecords
  <2>2. q \in JobRecords /\ record.progress \in 0..100 /\ record.stage = "quality_check"
        BY <1>0, <1>8, <2>1, PipelineStages DEF JobRecords, JobStatus, AfterQc
  <2> QED BY <1>8, <2>1, <2>2 DEF Terminal, Onward
<1>9. CASE phase = "failing"
  <2>1. q = [status |-> "failed", stage |-> "failed", progress |-> record.progress,
             artifacts |-> record.artifacts, error |-> error]
        BY <1>0, <1>9 DEF StoreEffect, Fail, JobRecords
  <2>2. q \in JobRecords /\ record.progress \in 0..100 /\ record.stage # "failed"
        BY <1>0, <1>9, <2>1, PipelineStages DEF JobRecords, JobStatus, PipelineTypeOK
  <2> QED BY <1>9, <2>1, <2>2 DEF Terminal, Onward, AfterQc
<1>10. CASE phase \notin {"advance", "qc_stage", "register", "register_video", "register_qc",
                       "complete", "failing"}
  <2>1. q = record BY <1>10 DEF StoreEffect
  <2> QED BY <1>0, <1>10, <2>1 DEF Onward, JobRecords
<1> QED BY <1>2, <1>3, <1>5, <1>6, <1>7, <1>8, <1>9, <1>10


-----------------------------------------------------------------------------
(* Every step keeps the invariant.                                         *)
LEMMA FirstStep ==
    /\ "script" \in Steps /\ EntryOf("script") = "check" /\ Before["script"] = {}
    /\ "manifest" \in Steps /\ EntryOf("manifest") = "advance"
    /\ NextOf["assets"] = "manifest" /\ Before["manifest"] = Before["assets"]
BY DEF Steps, EntryOf, CheckedFirst, Before, NextOf

LEMMA RunInvInit == PipelineInit => RunInv
<1> SUFFICES ASSUME PipelineInit PROVE RunInv OBVIOUS
<1> USE DEF PipelineInit
<1>1. record \in JobRecords /\ record = NewJobRecord
  <2>1. "queued" \in JobStage BY PipelineStages DEF Open
  <2> QED BY <2>1 DEF NewJobRecord, JobRecords, JobStatus
<1>2. PipelineTypeOK
  <2>1. reused \in BOOLEAN /\ abandoned \in BOOLEAN OBVIOUS
  <2>2. faults \in 0..MaxFaults BY FaultAssumption
  <2>3. at \in Steps BY FirstStep
  <2>4. files \in [Artifacts -> FileStates] /\ renders \in [RenderIds -> RenderStates]
        BY DEF FileStates, RenderStates
  <2> QED BY <1>1, <2>1, <2>2, <2>3, <2>4 DEF PipelineTypeOK, Pcs
<1>3. Placed BY DEF Placed, AfterAll, AfterQc
<1>4. RecordInv
  <2>1. record.status = "queued" /\ record.stage = "queued" /\ record.progress = 0
        BY <1>1 DEF NewJobRecord
  <2> QED BY <2>1 DEF RecordInv, Agrees, Running, AfterQc
<1>5. Registered BY <1>1 DEF Registered, Running, ReviewableIsComplete, NewJobRecord
<1>6. OnDisk BY <1>1 DEF OnDisk, Running, ReviewableIsServable, NewJobRecord, AfterQc
<1> QED BY <1>2, <1>3, <1>4, <1>5, <1>6 DEF RunInv

LEMMA CutOffFiles ==
    ASSUME PipelineTypeOK, Placed, NEW f \in CutOff
    PROVE  /\ f \in [Artifacts -> FileStates]
           /\ \A a \in Artifacts : f[a] = files[a] \/ (phase = "produce" /\ a = at)
                                                 \/ (phase = "write_qc" /\ a = "qc")
<1>1. CASE phase = "produce" /\ at # "assets"
      BY <1>1 DEF CutOff, PipelineTypeOK, Placed, Steps, Artifacts, FileStates
<1>2. CASE phase = "write_qc"
      BY <1>2 DEF CutOff, PipelineTypeOK, Artifacts, FileStates
<1>3. CASE ~ (phase = "produce" /\ at # "assets") /\ phase # "write_qc"
      BY <1>3 DEF CutOff, PipelineTypeOK
<1> QED BY <1>1, <1>2, <1>3

LEMMA TypeStep == RunInv /\ PipelineNext => PipelineTypeOK'
<1> SUFFICES ASSUME RunInv, PipelineNext PROVE PipelineTypeOK' OBVIOUS
<1> USE DEF RunInv, Goto, GotoStep, Leave, Raise
<1>0. /\ Fault => faults' \in 0..MaxFaults
      /\ record' = StoreEffect => record' \in JobRecords
      BY StoreCall, FaultAssumption DEF Fault, PipelineTypeOK
<1>1. CASE StartRun BY <1>1, FirstStep DEF StartRun, PipelineTypeOK, Pcs, env
<1>16. CASE Reuse BY <1>16 DEF Reuse, PipelineTypeOK, Pcs, env
<1>2. CASE Miss \/ Produce
      BY <1>2, FirstStep
      DEF Miss, Produce, PipelineTypeOK, Placed, Pcs, FileStates, RenderStates, env, Steps,
          Artifacts
<1>3. CASE AdvanceStage \/ Register
      BY <1>0, <1>3, StepTables DEF AdvanceStage, Register, PipelineTypeOK, Placed, Pcs, env
<1>4. ASSUME NEW s \in RenderIds, PostRender(s) PROVE PipelineTypeOK'
      BY <1>4 DEF PostRender, PipelineTypeOK, RenderStates, Pcs, env
<1>5. CASE RenderRefused \/ RenderTimesOut \/ RenderConnectionLost
      BY <1>0, <1>5
      DEF RenderRefused, RenderTimesOut, RenderConnectionLost, RetryOrGiveUp, PipelineTypeOK, Pcs,
          ErrorCodes, env
<1>6. CASE RenderReplies
      BY <1>6 DEF RenderReplies, PipelineTypeOK, RenderStates, Pcs, ErrorCodes, env
<1>7. ASSUME NEW s \in RenderIds, RendererStep(s) PROVE PipelineTypeOK'
      BY <1>7
      DEF RendererStep, RendererWrites, RendererFinishes, RendererFails, Replied, PipelineTypeOK,
          FileStates, RenderStates, run, env
<1>8. CASE RendererCrash BY <1>0, <1>8 DEF RendererCrash, PipelineTypeOK, RenderStates, run
<1>9. CASE QualityCheckStage \/ RegisterResults
      BY <1>0, <1>9 DEF QualityCheckStage, RegisterResults, PipelineTypeOK, Pcs, env
<1>10. CASE Probe \/ WriteQc
      BY <1>10 DEF Probe, WriteQc, PipelineTypeOK, FileStates, Pcs, ErrorCodes, env
<1>11. CASE CompleteJob \/ FailJob
      BY <1>0, <1>11, FirstStep DEF CompleteJob, FailJob, PipelineTypeOK, Pcs, env
<1>12. ASSUME files' \in CutOff PROVE files' \in [Artifacts -> FileStates]
      BY <1>12, CutOffFiles
<1>13. CASE ProduceFails
  <2>1. files' \in CutOff BY <1>13 DEF ProduceFails, CutOff
  <2>2. FailureOf[at] \in ErrorCodes BY <1>13 DEF ProduceFails, FailureOf, ErrorCodes
  <2> QED BY <1>0, <1>12, <1>13, <2>1, <2>2 DEF ProduceFails, PipelineTypeOK, Pcs
<1>14. CASE UnexpectedError
      BY <1>0, <1>12, <1>14 DEF UnexpectedError, PipelineTypeOK, Pcs, ErrorCodes
<1>15. CASE FailJobRaises \/ WorkerDies
      BY <1>0, <1>12, <1>15, FirstStep DEF FailJobRaises, WorkerDies, PipelineTypeOK, Pcs
<1> QED BY <1>1, <1>2, <1>3, <1>4, <1>5, <1>6, <1>7, <1>8, <1>9, <1>10, <1>11, <1>13, <1>14,
           <1>15, <1>16 DEF PipelineNext, RunStep, EnvironmentFault

LEMMA PlacedStep == RunInv /\ PipelineNext => Placed'
<1> SUFFICES ASSUME RunInv, PipelineNext PROVE Placed' OBVIOUS
<1> USE DEF RunInv, Placed, PipelineTypeOK, Goto, GotoStep, Leave, Raise, AfterAll, AfterQc
<1>1. CASE StartRun \/ Reuse \/ Miss \/ AdvanceStage \/ Produce \/ Register
      BY <1>1, StepTables, FirstStep DEF StartRun, Reuse, Miss, AdvanceStage, Produce, Register
<1>2. CASE RenderRefused \/ RenderTimesOut \/ RenderConnectionLost \/ RenderReplies
              \/ \E s \in RenderIds : PostRender(s)
      BY <1>2 DEF RenderRefused, RenderTimesOut, RenderConnectionLost, RenderReplies, PostRender,
                  RetryOrGiveUp
<1>3. CASE RendererCrash \/ \E s \in RenderIds : RendererStep(s)
      BY <1>3 DEF RendererCrash, RendererStep, RendererWrites, RendererFinishes, RendererFails,
                  run
<1>4. CASE QualityCheckStage \/ Probe \/ WriteQc \/ RegisterResults \/ CompleteJob \/ FailJob
      BY <1>4 DEF QualityCheckStage, Probe, WriteQc, RegisterResults, CompleteJob, FailJob
<1>5. CASE ProduceFails \/ UnexpectedError \/ FailJobRaises \/ WorkerDies
      BY <1>5 DEF ProduceFails, UnexpectedError, FailJobRaises, WorkerDies
<1> QED BY <1>1, <1>2, <1>3, <1>4, <1>5 DEF PipelineNext, RunStep, EnvironmentFault

\* The record changes by the store call at hand only, and the control goes on from it.
LEMMA RecordMoves ==
    ASSUME RunInv, PipelineNext
    PROVE  \/ /\ UNCHANGED record
              /\ Running' => Running \/ ~ Terminal(record)
              /\ phase' = "failing" => Running \/ phase = "failing"
              /\ phase' \in AfterQc => phase \in AfterQc
           \/ /\ record' = StoreEffect
              /\ phase \notin {"idle", "complete", "failing"}
              /\ phase' \in AfterQc => phase \in AfterQc \cup {"qc_stage"}
           \/ record' = StoreEffect /\ phase = "complete" /\ phase' \in {"idle", "failing"}
           \/ record' = StoreEffect /\ phase = "failing" /\ phase' = "idle"
<1> USE DEF RunInv, Goto, GotoStep, Leave, Raise, AfterQc, Running
<1>1. CASE StartRun \/ Reuse \/ Miss \/ Produce
      BY <1>1, StepTables, FirstStep DEF StartRun, Reuse, Miss, Produce, PipelineTypeOK, Placed
<1>2. CASE AdvanceStage \/ Register
      BY <1>2, StepTables DEF AdvanceStage, Register, PipelineTypeOK, Placed
<1>3. CASE RenderRefused \/ RenderTimesOut \/ RenderConnectionLost \/ RenderReplies
              \/ \E s \in RenderIds : PostRender(s)
      BY <1>3 DEF RenderRefused, RenderTimesOut, RenderConnectionLost, RenderReplies, PostRender,
                  RetryOrGiveUp
<1>4. CASE RendererCrash \/ \E s \in RenderIds : RendererStep(s)
      BY <1>4 DEF RendererCrash, RendererStep, RendererWrites, RendererFinishes, RendererFails,
                  run
<1>5. CASE QualityCheckStage \/ Probe \/ WriteQc \/ RegisterResults \/ CompleteJob \/ FailJob
      BY <1>5 DEF QualityCheckStage, Probe, WriteQc, RegisterResults, CompleteJob, FailJob
<1>6. CASE ProduceFails \/ UnexpectedError \/ FailJobRaises \/ WorkerDies
      BY <1>6 DEF ProduceFails, UnexpectedError, FailJobRaises, WorkerDies
<1> QED BY <1>1, <1>2, <1>3, <1>4, <1>5, <1>6 DEF PipelineNext, RunStep, EnvironmentFault

LEMMA RecordStep == RunInv /\ PipelineNext => RecordInv'
BY RecordMoves, StoreCall DEF RunInv, RecordInv, Agrees, Running, AfterQc, Terminal

LEMMA RegisteredStep == RunInv /\ PipelineNext => Registered'
<1> SUFFICES ASSUME RunInv, PipelineNext PROVE Registered' OBVIOUS
<1> USE DEF RunInv
<1>0. PipelineTypeOK' /\ at \in Steps BY TypeStep DEF PipelineTypeOK
<1>1. record.artifacts \subseteq record'.artifacts BY RecordMoves, StoreCall
<1>2. ASSUME record'.status = "awaiting_review" PROVE record'.artifacts = Artifacts
  <2>1. CASE UNCHANGED record
        BY <1>2, <2>1 DEF Registered, ReviewableIsComplete
  <2>2. CASE phase = "complete"
    <3>1. Before["final"] \subseteq record.artifacts
          BY <2>2 DEF Registered, Running, Placed, AfterAll, AfterQc
    <3>2. Artifacts \subseteq record'.artifacts
          BY <1>1, <2>2, <3>1, StepTables DEF Registered, Steps
    <3> QED BY <1>0, <3>2 DEF PipelineTypeOK, JobRecords
  <2> QED BY <1>2, <2>1, <2>2, RecordMoves, StoreCall DEF Terminal
<1>3. ASSUME Running' => Before[at'] \subseteq record'.artifacts,
             phase' \in {"register_qc", "complete"} => "final" \in record'.artifacts,
             phase' = "complete" => "qc" \in record'.artifacts
      PROVE  Registered'
      BY <1>2, <1>3 DEF Registered, ReviewableIsComplete
<1> USE DEF Goto, GotoStep, Leave, Raise, Running, Registered
<1>4. CASE StartRun \/ Reuse \/ Miss \/ AdvanceStage
      BY <1>1, <1>3, <1>4, StepTables, FirstStep
      DEF StartRun, Reuse, Miss, AdvanceStage, PipelineTypeOK, Placed
<1>5. CASE Produce BY <1>1, <1>3, <1>5, FirstStep DEF Produce, PipelineTypeOK, Placed
<1>6. CASE Register
  <2>1. at \in {"script", "storyboard", "narration", "subtitles", "manifest"} /\ phase = "register"
        BY <1>6 DEF Register, Placed, PipelineTypeOK, Steps
  <2>2. at \in record'.artifacts BY <1>6, <2>1, StoreCall DEF Register
  <2>3. Before[NextOf[at]] = Before[at] \cup {at} /\ EntryOf(NextOf[at]) \in {"check", "advance"}
        BY <1>0, <2>1, StepTables
  <2> QED BY <1>1, <1>3, <1>6, <2>1, <2>2, <2>3 DEF Register
<1>7. CASE RenderRefused \/ RenderTimesOut \/ RenderConnectionLost \/ RenderReplies
              \/ \E s \in RenderIds : PostRender(s)
      BY <1>1, <1>3, <1>7
      DEF RenderRefused, RenderTimesOut, RenderConnectionLost, RenderReplies, PostRender,
          RetryOrGiveUp
<1>8. CASE RendererCrash \/ \E s \in RenderIds : RendererStep(s)
      BY <1>1, <1>3, <1>8
      DEF RendererCrash, RendererStep, RendererWrites, RendererFinishes, RendererFails, run
<1>9. CASE QualityCheckStage \/ Probe \/ WriteQc \/ CompleteJob \/ FailJob
      BY <1>1, <1>3, <1>9 DEF QualityCheckStage, Probe, WriteQc, CompleteJob, FailJob
<1>10. CASE RegisterResults
      BY <1>1, <1>3, <1>10, StoreCall DEF RegisterResults
<1>11. CASE ProduceFails \/ UnexpectedError \/ FailJobRaises \/ WorkerDies
      BY <1>1, <1>3, <1>11 DEF ProduceFails, UnexpectedError, FailJobRaises, WorkerDies
<1> QED BY <1>4, <1>5, <1>6, <1>7, <1>8, <1>9, <1>10, <1>11
          DEF PipelineNext, RunStep, EnvironmentFault

\* A file changes where the run produces it, and the video under the renderer's hands.
LEMMA FilesMove ==
    ASSUME RunInv, PipelineNext, NEW a \in Artifacts, files'[a] # files[a]
    PROVE  \/ phase = "produce" /\ a = at
           \/ phase = "write_qc" /\ a = "qc"
           \/ a = "final" /\ phase = "check" /\ at = "final"
           \/ a = "final" /\ \E s \in RenderIds : renders[s] # "free"
<1> USE DEF RunInv
<1>1. CASE UNCHANGED files BY <1>1
<1>2. CASE Miss BY <1>2 DEF Miss, PipelineTypeOK
<1>3. CASE Produce BY <1>3 DEF Produce, PipelineTypeOK
<1>4. CASE WriteQc BY <1>4 DEF WriteQc, PipelineTypeOK
<1>5. ASSUME NEW s \in RenderIds, RendererStep(s), renders[s] # "free"
      PROVE  a = "final" \/ files'[a] = files[a]
      BY <1>5 DEF RendererStep, RendererWrites, RendererFinishes, RendererFails, PipelineTypeOK
<1>6. ASSUME NEW s \in RenderIds, RendererStep(s) PROVE renders[s] # "free"
      BY <1>6 DEF RendererStep, RendererWrites, RendererFinishes, RendererFails
<1>7. CASE files' \in CutOff BY <1>7, CutOffFiles
<1>8. ProduceFails => files' \in CutOff BY DEF ProduceFails, CutOff
<1>9. \/ StartRun \/ Reuse \/ AdvanceStage \/ Register \/ RenderTimesOut
      \/ RenderConnectionLost \/ RenderReplies \/ QualityCheckStage \/ Probe \/ RegisterResults
      \/ CompleteJob \/ FailJob \/ RenderRefused \/ RendererCrash \/ FailJobRaises
      \/ (\E s \in RenderIds : PostRender(s))
      => UNCHANGED files
      BY DEF StartRun, Reuse, AdvanceStage, Register, RenderTimesOut, RenderConnectionLost,
             RenderReplies, QualityCheckStage, Probe, RegisterResults, CompleteJob, FailJob,
             RenderRefused, RendererCrash, FailJobRaises, PostRender
<1>10. UnexpectedError \/ WorkerDies => files' \in CutOff BY DEF UnexpectedError, WorkerDies
<1> QED BY <1>1, <1>2, <1>3, <1>4, <1>5, <1>6, <1>7, <1>8, <1>9, <1>10
        DEF PipelineNext, RunStep, EnvironmentFault

\* Renders are at work for the run that waits, or one was left.
Waited == ~ abandoned => \A s \in RenderIds : renders[s] = "free" \/ (phase = "await" /\ s = waiting)

LEMMA WaitedStep == RunInv /\ PipelineNext => Waited'
<1> SUFFICES ASSUME RunInv, PipelineNext PROVE Waited' OBVIOUS
<1> USE DEF RunInv, Waited, OnDisk, Goto, GotoStep, Leave, Raise
<1>1. CASE UNCHANGED <<renders, abandoned>> /\ phase # "await" /\ phase' # "await" BY <1>1
<1>2. CASE StartRun \/ Reuse \/ AdvanceStage \/ Produce \/ Register
      BY <1>1, <1>2, StepTables, FirstStep
      DEF StartRun, Reuse, AdvanceStage, Produce, Register, PipelineTypeOK, Placed, env
<1>3. CASE Miss BY <1>3 DEF Miss, env
<1>4. ASSUME NEW s \in RenderIds, PostRender(s) PROVE Waited'
      BY <1>4 DEF PostRender, PipelineTypeOK, env
<1>5. CASE RenderRefused BY <1>5 DEF RenderRefused, RetryOrGiveUp
<1>6. CASE RenderTimesOut BY <1>6 DEF RenderTimesOut
<1>7. CASE RenderConnectionLost \/ RenderReplies
      BY <1>7 DEF RenderConnectionLost, RenderReplies, RetryOrGiveUp, PipelineTypeOK, env
<1>8. ASSUME NEW s \in RenderIds, RendererStep(s) PROVE Waited'
      BY <1>8
        DEF RendererStep, RendererWrites, RendererFinishes, RendererFails, Replied, PipelineTypeOK,
                  run, env
<1>9. CASE RendererCrash BY <1>9 DEF RendererCrash
<1>10. CASE QualityCheckStage \/ Probe \/ WriteQc \/ RegisterResults \/ CompleteJob \/ FailJob
      BY <1>1, <1>10
      DEF QualityCheckStage, Probe, WriteQc, RegisterResults, CompleteJob, FailJob, env
<1>11. CASE ProduceFails \/ UnexpectedError \/ FailJobRaises
      BY <1>1, <1>11 DEF ProduceFails, UnexpectedError, FailJobRaises
<1>12. CASE WorkerDies BY <1>12 DEF WorkerDies
<1> QED BY <1>2, <1>3, <1>4, <1>5, <1>6, <1>7, <1>8, <1>9, <1>10, <1>11, <1>12
        DEF PipelineNext, RunStep, EnvironmentFault

\* A render that was left stays left.
LEMMA AbandonedStays == PipelineNext /\ abandoned => abandoned'
<1>1. \/ RunStep \/ StartRun \/ \E s \in RenderIds : RendererStep(s)
      => abandoned' = abandoned \/ abandoned' = TRUE
      BY DEF RunStep, StartRun, Reuse, Miss, AdvanceStage, Produce, Register, PostRender,
             RenderTimesOut, RenderConnectionLost, RenderReplies, QualityCheckStage, Probe,
             WriteQc, RegisterResults, CompleteJob, FailJob, RendererStep, RendererWrites,
             RendererFinishes, RendererFails, env
<1>2. EnvironmentFault => abandoned' = abandoned \/ abandoned' = TRUE
      BY DEF EnvironmentFault, ProduceFails, RenderRefused, RendererCrash, UnexpectedError,
             FailJobRaises, WorkerDies
<1> QED BY <1>1, <1>2 DEF PipelineNext

\* What the run goes on to rely on at the next place.
LEMMA RunFiles ==
    ASSUME RunInv, PipelineNext
    PROVE  /\ Running' => \A a \in Before[at'] \ {"narration"} : files'[a] = "valid"
           /\ phase' = "register" /\ at' # "narration" => files'[at'] = "valid"
           /\ phase' \in {"register_video", "register_qc", "complete"} => files'["qc"] = "valid"
<1> USE DEF RunInv, Goto, GotoStep, Leave, Raise, Running
<1>0. at \in Steps /\ Before[at] \subseteq Artifacts \ {"final", "qc", at}
      BY StepTables DEF PipelineTypeOK
<1>1. ASSUME Running PROVE \A a \in Before[at] \ {"narration"} : files'[a] = "valid"
      BY <1>0, <1>1, FilesMove DEF OnDisk
<1>2. CASE StartRun \/ Miss \/ AdvanceStage
      BY <1>1, <1>2, StepTables, FirstStep DEF StartRun, Miss, AdvanceStage, PipelineTypeOK, Placed
<1>3. CASE Reuse BY <1>1, <1>3 DEF Reuse, PipelineTypeOK, Placed, Accepts
<1>4. CASE Produce
      BY <1>0, <1>1, <1>4, FirstStep DEF Produce, PipelineTypeOK, Placed, Steps, Artifacts
<1>5. CASE Register
  <2>1. at \in {"script", "storyboard", "narration", "subtitles", "manifest"} /\ phase = "register"
        BY <1>5 DEF Register, Placed, PipelineTypeOK, Steps
  <2>2. Before[NextOf[at]] = Before[at] \cup {at} /\ EntryOf(NextOf[at]) \in {"check", "advance"}
        BY <1>0, <2>1, StepTables
  <2>3. at # "narration" => files'[at] = "valid" BY <1>5, <2>1 DEF Register, OnDisk
  <2> QED BY <1>1, <1>5, <2>1, <2>2, <2>3 DEF Register
<1>6. CASE RenderRefused \/ RenderTimesOut \/ RenderConnectionLost \/ RenderReplies
              \/ \E s \in RenderIds : PostRender(s)
      BY <1>1, <1>6
      DEF RenderRefused, RenderTimesOut, RenderConnectionLost, RenderReplies, PostRender,
          RetryOrGiveUp
<1>7. CASE RendererCrash BY <1>1, <1>7 DEF RendererCrash, run, OnDisk
<1>8. ASSUME NEW s \in RenderIds, RendererStep(s)
      PROVE  UNCHANGED run /\ \A a \in Artifacts : a = "final" \/ files'[a] = files[a]
      BY <1>8 DEF RendererStep, RendererWrites, RendererFinishes, RendererFails, PipelineTypeOK
<1>9. CASE \E s \in RenderIds : RendererStep(s)
      BY <1>0, <1>1, <1>8, <1>9 DEF run, OnDisk, Placed, Steps, Artifacts
<1>10. CASE QualityCheckStage \/ Probe \/ CompleteJob \/ FailJob
      BY <1>1, <1>10 DEF QualityCheckStage, Probe, CompleteJob, FailJob
<1>11. CASE WriteQc BY <1>1, <1>11 DEF WriteQc, PipelineTypeOK, Artifacts
<1>12. CASE RegisterResults BY <1>1, <1>12 DEF RegisterResults, OnDisk
<1>13. CASE ProduceFails \/ UnexpectedError \/ FailJobRaises \/ WorkerDies
      BY <1>1, <1>13 DEF ProduceFails, UnexpectedError, FailJobRaises, WorkerDies
<1> QED BY <1>2, <1>3, <1>4, <1>5, <1>6, <1>7, <1>9, <1>10, <1>11, <1>12, <1>13
        DEF PipelineNext, RunStep, EnvironmentFault

\* The video the run has accepted stays, as long as no render was left.
LEMMA RunVideo ==
    ASSUME RunInv, PipelineNext, ~ abandoned',
           phase' \in AfterQc \ {"probe"} \/ (phase' = "qc_stage" /\ reused')
    PROVE  files'["final"] = "valid"
<1> USE DEF RunInv, Goto, GotoStep, Leave, Raise, AfterQc
<1>0. ~ abandoned /\ "final" \in Artifacts BY AbandonedStays DEF Artifacts
<1>1. ASSUME files["final"] = "valid", phase # "await", phase \notin {"check", "produce"}
      PROVE  files'["final"] = "valid"
      BY <1>0, <1>1, FilesMove DEF OnDisk
<1>2. CASE phase \in AfterQc \ {"probe"} BY <1>0, <1>1, <1>2 DEF OnDisk
<1>3. CASE phase = "qc_stage" /\ reused BY <1>0, <1>1, <1>3 DEF OnDisk
<1>4. CASE Reuse BY <1>4 DEF Reuse, Accepts
<1>5. CASE Probe BY <1>5 DEF Probe
<1>6. CASE QualityCheckStage BY <1>3, <1>6 DEF QualityCheckStage
<1> DEFINE Accepted == phase \in AfterQc \ {"probe"} \/ (phase = "qc_stage" /\ reused)
<1>7. CASE StartRun \/ Miss \/ AdvanceStage \/ Produce \/ Register
      BY <1>7, StepTables, FirstStep
      DEF StartRun, Miss, AdvanceStage, Produce, Register, PipelineTypeOK, Placed
<1>8. ASSUME \/ RenderTimesOut \/ RenderConnectionLost \/ RenderReplies \/ RenderRefused
             \/ \E s \in RenderIds : PostRender(s)
      PROVE  FALSE
      BY <1>8
      DEF PostRender, RenderTimesOut, RenderConnectionLost, RenderReplies, RenderRefused,
          RetryOrGiveUp, Placed
<1>9. ASSUME \/ WriteQc \/ RegisterResults \/ CompleteJob \/ RendererCrash
             \/ \E s \in RenderIds : RendererStep(s)
      PROVE  Accepted
      BY <1>9
      DEF WriteQc, RegisterResults, CompleteJob, RendererStep, RendererWrites, RendererFinishes,
          RendererFails, RendererCrash, run
<1>10. ASSUME FailJob \/ ProduceFails \/ UnexpectedError \/ FailJobRaises \/ WorkerDies
       PROVE  FALSE
      BY <1>10 DEF FailJob, ProduceFails, UnexpectedError, FailJobRaises, WorkerDies
<1> QED BY <1>2, <1>3, <1>4, <1>5, <1>6, <1>7, <1>8, <1>9, <1>10
        DEF PipelineNext, RunStep, EnvironmentFault

LEMMA OnDiskStep == RunInv /\ PipelineNext => OnDisk'
<1> SUFFICES ASSUME RunInv, PipelineNext PROVE OnDisk' OBVIOUS
<1> USE DEF RunInv
<1>1. ASSUME ~ abandoned', record'.status = "awaiting_review"
      PROVE  \A a \in Artifacts \ {"narration"} : files'[a] = "valid"
  <2>0. ~ abandoned BY <1>1, AbandonedStays
  <2>1. CASE record.status = "awaiting_review"
    <3>1. phase \in {"idle", "failing"} BY <2>1 DEF RecordInv, Running, Terminal
    <3> QED BY <2>0, <2>1, <3>1, FilesMove DEF OnDisk, ReviewableIsServable
  <2>2. CASE phase = "complete"
    <3>1. Before["final"] = Artifacts \ {"final", "qc"} BY StepTables DEF Steps
    <3>2. \A a \in Artifacts \ {"narration"} : files[a] = "valid"
          BY <2>0, <2>2, <3>1 DEF OnDisk, Running, Placed, AfterAll, AfterQc
    <3> QED BY <2>0, <2>2, <3>2, FilesMove DEF OnDisk
  <2> QED BY <1>1, <2>1, <2>2, RecordMoves, StoreCall DEF Terminal
<1> QED BY <1>1, WaitedStep, RunFiles, RunVideo DEF OnDisk, Waited, ReviewableIsServable

LEMMA RunInvStep == RunInv /\ [PipelineNext]_pipelineVars => RunInv'
<1>1. RunInv /\ UNCHANGED pipelineVars => RunInv'
      BY
        DEF pipelineVars, run, env, RunInv, PipelineTypeOK, Placed, RecordInv, Agrees, Registered,
            OnDisk, Running,
             ReviewableIsComplete, ReviewableIsServable, Terminal
<1> QED BY <1>1, TypeStep, PlacedStep, RecordStep, RegisteredStep, OnDiskStep DEF RunInv

\* Wherever runs crash and renders are left, the invariant holds of every state.
THEOREM RunInvHolds == PipelineSpec => []RunInv
BY RunInvInit, RunInvStep, PTL DEF PipelineSpec

-----------------------------------------------------------------------------
(* What it gives.                                                          *)

\* Every state is well typed, a job under review has all its artifacts, and, unless
\* a render was left, they are valid on disk.
THEOREM PipelineConsistentHolds == PipelineSpec => []PipelineConsistent
<1>1. RunInv => PipelineConsistent BY DEF RunInv, PipelineConsistent, Registered, OnDisk
<1> QED BY <1>1, RunInvHolds, PTL

\* No step of a run, a second run or a lost reply lowers the progress of a job or
\* touches a record that failed.
THEOREM RecordForwardOnly == PipelineSpec => RecordNeverGoesBack
<1>1. ASSUME RunInv, PipelineNext
      PROVE  /\ record'.progress >= record.progress
             /\ record.status = "failed" => UNCHANGED record
  <2>1. CASE UNCHANGED record
        BY <1>1, <2>1 DEF RunInv, PipelineTypeOK, JobRecords
  <2>2. CASE record' = StoreEffect /\ phase # "idle"
    <3>1. record.status # "failed" BY <1>1, <2>2 DEF RunInv, RecordInv, Running, Terminal
    <3> QED BY <1>1, <2>2, <3>1, StoreCall DEF RunInv
  <2> QED BY <1>1, <2>1, <2>2, RecordMoves
<1>2. RunInv /\ [PipelineNext]_pipelineVars => [record'.progress >= record.progress]_pipelineVars
        BY <1>1
<1>3. RunInv /\ [PipelineNext]_pipelineVars => [record.status = "failed" => UNCHANGED record]_pipelineVars
        BY <1>1
<1> QED BY <1>2, <1>3, RunInvHolds, PTL
        DEF PipelineSpec, RecordNeverGoesBack, ProgressNeverDecreases, FailedJobIsFrozen

\* The pipeline implements JobLifecycle: each store call that moves the stage is a
\* step of it, every other step, crash and fault leaves the stage alone.
THEOREM PipelineImplementsLifecycle == PipelineSpec => PromiseKept
<1> DEFINE stages == [j \in {"job"} |-> record.stage]
<1>1. PipelineInit => Promise!Init
      BY DEF PipelineInit, NewJobRecord, Promise!Init, Promise!Absent
<1>2. ASSUME RunInv, PipelineNext PROVE Promise!Next \/ UNCHANGED stages
  <2> USE DEF Promise!Next, Promise!Absent
  <2>1. CASE record'.stage = record.stage BY <2>1
  <2>2. Onward(record, record')
        BY <1>1, <1>2, RecordMoves, StoreCall DEF RunInv, Onward
  <2>3. Promise!Working = Open \ {"queued"} /\ Promise!STAGE_ORDER = STAGE_ORDER
        BY PipelineStages
          DEF Promise!Working, Promise!JobStage, JobStage, Promise!STAGE_ORDER, Open,
                      STAGE_ORDER
  <2>4. CASE /\ record.stage \in Open /\ record'.stage \in Open \ {"queued"}
             /\ STAGE_ORDER[record'.stage] > STAGE_ORDER[record.stage]
    <3>1. stages["job"] \in Promise!Working \cup {"queued"} BY <2>3, <2>4
    <3>2. /\ record'.stage \in Promise!Working
          /\ Promise!STAGE_ORDER[record'.stage] > Promise!STAGE_ORDER[stages["job"]]
          /\ stages' = [stages EXCEPT !["job"] = record'.stage]
          BY <2>3, <2>4
    <3> QED BY <3>1, <3>2 DEF Promise!Work
  <2>5. CASE record.stage = "quality_check" /\ record'.stage = "awaiting_review"
        BY <2>5 DEF Promise!Complete
  <2>6. CASE record.stage # "failed" /\ record'.stage = "failed"
    <3>1. record.stage # "absent" BY <1>2, PipelineStages
              DEF RunInv, PipelineTypeOK, JobRecords, Open
    <3> QED BY <2>6, <3>1 DEF Promise!Abort
  <2> QED BY <2>1, <2>2, <2>4, <2>5, <2>6 DEF Onward
<1>3. UNCHANGED pipelineVars => UNCHANGED stages BY DEF pipelineVars
<1>4. RunInv /\ [PipelineNext]_pipelineVars => [Promise!Next]_stages BY <1>2, <1>3
<1> QED BY <1>1, <1>4, RunInvHolds, PTL DEF PipelineSpec, PromiseKept, Promise!Spec
=============================================================================
