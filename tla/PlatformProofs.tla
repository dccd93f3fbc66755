---------------------------- MODULE PlatformProofs ----------------------------
(***************************************************************************)
(* Theorems about Platform, for all jobs, workers, files and retry limits   *)
(* and any number of faults: claims and life cycle first; then the messages,*)
(* which of them reach the DLQ and why none is lost, and what uploads and    *)
(* failed jobs leave behind.                                                *)
(***************************************************************************)
EXTENDS PlatformInvariants, TLAPS

\* A subset that includes its superset is all of it.
LEMMA WholeSubset == \A T : \A S \in SUBSET T : T \subseteq S => S = T
<1> SUFFICES ASSUME NEW T, NEW S \in SUBSET T, T \subseteq S PROVE S = T
  OBVIOUS
<1>1. \A x : x \in S <=> x \in T
  OBVIOUS
<1> QED BY <1>1, Zenon

\* Initially every variable has its type.
LEMMA TypeInit == Init => TypeOK
BY RetriesAssumption
DEF Init, FaultsInit, JobTableInit, JobQueueInit, BundleStoreInit, WorkerInit, UploadInit,
    TypeOK, Statuses, Terminal, Failures, Bag, Empty, BundleRows, Stages, Pipeline, UploadStages

\* Every step preserves the types.
LEMMA TypeStep == TypeOK /\ [Next]_vars => TypeOK'
<1> SUFFICES ASSUME TypeOK, [Next]_vars PROVE TypeOK'
  OBVIOUS
<1> USE WorkerAssumption
<1> USE DEF TypeOK, Statuses, Terminal, Failures, Bag, BundleRows, Stages, Pipeline,
            Verdicts, InFlight, Ended, UploadStages,
            Fault, NoFault, Go, Proceed, Put, Take, UpdateRow
<1>1. CASE UNCHANGED vars
  BY <1>1 DEF vars, jobTable, queues, store, worker, upload
<1>2. CASE WorkerNext /\ UNCHANGED <<upload, verdict>>
  <2> SUFFICES ASSUME NEW w \in Workers,
                      \/ Handle(w) \/ Crash(w) \/ LoseConnection(w)
                      \/ \E m \in JobMessage : Deliver(w, m)
               PROVE  TypeOK'
    BY <1>2 DEF WorkerNext
  <2> USE <1>2 DEF jobTable, queues, store, worker, upload
  <2>1. CASE \E m \in JobMessage : Deliver(w, m)
    BY <2>1 DEF Deliver, Consume
  <2>2. CASE LoadJob(w)
    BY <2>2 DEF LoadJob, AfterLoad
  <2>3. CASE ClaimJob(w)
    BY <2>3 DEF ClaimJob, ClaimJobForProcessing
  <2>4. CASE DeferJob(w)
    BY <2>4 DEF DeferJob, NackRequeue, Return, Forget, PublishJob, PublishJobDeferred
  <2>5. CASE LoadDocument(w)
    BY <2>5 DEF LoadDocument
  <2>6. CASE FetchDocument(w)
    BY <2>6 DEF FetchDocument, AfterConversion, JobMessage
  <2>7. CASE RequeueForRetry(w)
    BY <2>7 DEF RequeueForRetry, RequeueJob, NackRequeue, Return, Forget, PublishJob
  <2>8. CASE ScheduleRetry(w)
    BY <2>8 DEF ScheduleRetry, NackRequeue, Return, Forget, PublishJob, PublishJobRetry
  <2>9. CASE ExhaustJob(w)
    BY <2>9 DEF ExhaustJob, UpdateJobStatus, NackRequeue, Return, Forget, PublishJob
  <2>10. CASE MoveToDLQ(w)
    BY <2>10 DEF MoveToDLQ, NackRequeue, Return, Forget, PublishJob, PublishJobDLQ
  <2>11. CASE RecordInvalidBundle(w)
    BY <2>11 DEF RecordInvalidBundle, CreateBundle
  <2>12. CASE UploadObject(w)
    BY <2>12 DEF UploadObject, PutObject
  <2>13. CASE PersistBundle(w)
    BY <2>13 DEF PersistBundle, CreateBundle
  <2>14. CASE CompleteJob(w)
    BY <2>14 DEF CompleteJob, UpdateJobStatus
  <2>15. CASE CleanupObject(w)
    BY <2>15 DEF CleanupObject, DeleteObject
  <2>16. CASE FailJob(w)
    BY <2>16 DEF FailJob, UpdateJobStatus
  <2>17. CASE Settle(w)
    BY <2>17 DEF Settle, Forget
  <2>18. CASE Restart(w)
    BY <2>18 DEF Restart
  <2>19. CASE Crash(w)
    BY <2>19 DEF Crash, Return, Forget, PublishJob
  <2>20. CASE LoseConnection(w)
    BY <2>20 DEF LoseConnection, Return, PublishJob
  <2> QED BY <2>1, <2>2, <2>3, <2>4, <2>5, <2>6, <2>7, <2>8, <2>9, <2>10, <2>11, <2>12,
             <2>13, <2>14, <2>15, <2>16, <2>17, <2>18, <2>19, <2>20 DEF Handle
<1>3. CASE UploadNext /\ UNCHANGED <<store, worker, verdict>>
  <2> USE <1>3 DEF jobTable, queues, store, worker, upload
  <2>1. ASSUME NEW j \in Jobs, HandleUpload(j) PROVE TypeOK'
    BY <2>1 DEF HandleUpload, StoreDocument, RecordDocument, CompensateDocument, RegisterJob,
                AnnounceJob, RejectJob, CreateJob, UpdateJobStatus, PublishJob
  <2>2. CASE ApiCrash
    BY <2>2 DEF ApiCrash
  <2>3. CASE LoseApiConnection
    <3>1. apiConnected' \in BOOLEAN
      BY <2>3 DEF LoseApiConnection
    <3>2. /\ faults' \in Nat
          /\ UNCHANGED <<jobTable, queues, store, worker, verdict, api, documents, documentRows>>
      BY <2>3 DEF LoseApiConnection
    <3> QED BY <3>1, <3>2
  <2>4. ASSUME NEW m \in JobMessage, DuplicateMessage(m) PROVE TypeOK'
    BY <2>4 DEF DuplicateMessage, PublishJob
  <2> QED BY <2>1, <2>2, <2>3, <2>4 DEF UploadNext
<1>4. ASSUME NEW j \in Jobs, LeaseExpires(j), UNCHANGED verdict PROVE TypeOK'
  BY <1>4 DEF LeaseExpires, LeaseElapses, queues, store, worker, upload
<1>5. ASSUME NEW m \in JobMessage, RetryExpires(m), UNCHANGED verdict PROVE TypeOK'
  BY <1>5 DEF RetryExpires, RetryElapses, jobTable, store, worker, upload
<1> QED BY <1>1, <1>2, <1>3, <1>4, <1>5 DEF Next

\* Every variable keeps its type, whatever faults occur.
THEOREM TypeCorrect == Spec => []TypeOK
BY TypeInit, TypeStep, PTL DEF Spec

-------------------------------------------------------------------------------
(* What is published, under every kind of fault. *)

\* Initially nothing is published and no worker is at work.
LEMMA PublicationInit == Init => PublicationInv
BY DEF Init, JobTableInit, BundleStoreInit, WorkerInit,
       PublicationInv, UploadsPublishable, RejectedNeverStored, CompletedHasRow

\* Every step preserves what is known of published bundles.
LEMMA PublicationStep == TypeOK /\ PublicationInv /\ [Next]_vars => PublicationInv'
<1> SUFFICES ASSUME TypeOK, PublicationInv, [Next]_vars PROVE PublicationInv'
  OBVIOUS
<1> USE DEF PublicationInv, UploadsPublishable, RejectedNeverStored, CompletedHasRow
<1>t. /\ status \in [Jobs -> Statuses] /\ bundles \in [Jobs -> BundleRows]
      /\ objects \in [Jobs -> SUBSET Keys] /\ pc \in [Workers -> Stages]
      /\ msg \in [Workers -> JobMessage \cup {NoMessage}]
      /\ keys \in [Workers -> SUBSET Keys] /\ verdict \in [Jobs -> Verdicts]
      /\ \A w \in Workers : pc[w] # "idle" => msg[w] \in JobMessage /\ msg[w].job \in Jobs
  BY DEF TypeOK, JobMessage
<1>1. CASE UNCHANGED vars
  BY <1>1 DEF vars, jobTable, queues, store, worker
<1>2. CASE WorkerNext /\ UNCHANGED verdict
  <2> SUFFICES ASSUME NEW w \in Workers,
                      \/ Handle(w) \/ Crash(w) \/ LoseConnection(w)
                      \/ \E m \in JobMessage : Deliver(w, m)
               PROVE  PublicationInv'
    BY <1>2 DEF WorkerNext
  <2> USE <1>2, <1>t DEF jobTable, store, Go, Forget, UpdateRow
  \* Steps that leave rows, objects and statuses alone and start no upload.
  <2>1. CASE \/ LoadJob(w) \/ DeferJob(w) \/ LoadDocument(w) \/ ScheduleRetry(w)
             \/ MoveToDLQ(w) \/ Settle(w) \/ Restart(w) \/ Crash(w) \/ LoseConnection(w)
             \/ \E m \in JobMessage : Deliver(w, m)
    <3>1. /\ UNCHANGED <<status, store>>
          /\ \A v \in Workers : \/ pc'[v] = pc[v] /\ msg'[v] = msg[v]
                               \/ pc'[v] \notin {"upload", "bundle", "complete"}
      BY <2>1 DEF LoadJob, AfterLoad, DeferJob, LoadDocument, ScheduleRetry, MoveToDLQ, Settle,
                  Restart, Crash, LoseConnection, Deliver, NackRequeue
    <3> QED BY <3>1
  <2>2. CASE ClaimJob(w)
    BY <2>2 DEF ClaimJob, ClaimJobForProcessing
  <2>3. CASE FetchDocument(w)
    BY <2>3 DEF FetchDocument, AfterConversion, Verdicts
  <2>4. CASE RequeueForRetry(w)
    BY <2>4 DEF RequeueForRetry, RequeueJob, NackRequeue
  <2>5. CASE ExhaustJob(w)
    BY <2>5 DEF ExhaustJob, UpdateJobStatus, NackRequeue
  <2>6. CASE RecordInvalidBundle(w)
    BY <2>6 DEF RecordInvalidBundle, CreateBundle, Insertable
  <2>7. CASE UploadObject(w)
    BY <2>7 DEF UploadObject, PutObject
  <2>8. CASE PersistBundle(w)
    BY <2>8 DEF PersistBundle, CreateBundle, Insertable
  <2>9. CASE CompleteJob(w)
    BY <2>9 DEF CompleteJob, UpdateJobStatus
  <2>10. CASE CleanupObject(w)
    BY <2>10 DEF CleanupObject, DeleteObject
  <2>11. CASE FailJob(w)
    BY <2>11 DEF FailJob, UpdateJobStatus
  <2> QED BY <2>1, <2>2, <2>3, <2>4, <2>5, <2>6, <2>7, <2>8, <2>9, <2>10, <2>11 DEF Handle
<1>3. CASE UploadNext /\ UNCHANGED <<store, worker, verdict>>
  <2>1. \A j \in Jobs : status'[j] = "completed" => status[j] = "completed"
    BY <1>3, <1>t DEF UploadNext, HandleUpload, StoreDocument, RecordDocument,
       CompensateDocument, RegisterJob, AnnounceJob, RejectJob, ApiCrash, LoseApiConnection,
       DuplicateMessage, CreateJob, UpdateJobStatus, UpdateRow, jobTable
  <2> QED BY <1>3, <2>1 DEF store, worker
<1>4. CASE /\ UNCHANGED verdict
           /\ \/ \E j \in Jobs : LeaseExpires(j)
              \/ \E m \in JobMessage : RetryExpires(m)
  BY <1>4 DEF LeaseExpires, LeaseElapses, RetryExpires, jobTable, store, worker
<1> QED BY <1>1, <1>2, <1>3, <1>4 DEF Next

\* A bundle that validation rejects is never stored and its job never completes.
THEOREM RejectedBundlesNeverStored == Spec => []RejectedNeverStored
<1>1. Init => TypeOK /\ PublicationInv
  BY TypeInit, PublicationInit
<1>2. TypeOK /\ PublicationInv /\ [Next]_vars => (TypeOK /\ PublicationInv)'
  BY TypeStep, PublicationStep
<1>3. PublicationInv => RejectedNeverStored
  BY DEF PublicationInv
<1> QED BY <1>1, <1>2, <1>3, PTL DEF Spec

\* A completed job has a valid row, whatever other deliveries do.
THEOREM CompletedJobsHaveRow == Spec => []CompletedHasRow
<1>1. Init => TypeOK /\ PublicationInv
  BY TypeInit, PublicationInit
<1>2. TypeOK /\ PublicationInv /\ [Next]_vars => (TypeOK /\ PublicationInv)'
  BY TypeStep, PublicationStep
<1>3. PublicationInv => CompletedHasRow
  BY DEF PublicationInv
<1> QED BY <1>1, <1>2, <1>3, PTL DEF Spec

-------------------------------------------------------------------------------
(* Terminal states are never left, under every kind of fault. *)

\* A step that makes a job active takes it from "none", queued or processing.
LEMMA TerminalStep ==
    TypeOK /\ [Next]_vars => \A j \in Jobs : status[j] \in Terminal => status'[j] \in Terminal
<1> SUFFICES ASSUME TypeOK, [Next]_vars, NEW j \in Jobs, status[j] \in Terminal
             PROVE  status'[j] \in Terminal
  OBVIOUS
<1> USE DEF Terminal, jobTable, UpdateRow
<1>t. status \in [Jobs -> Statuses]
  BY DEF TypeOK
<1>1. CASE UNCHANGED vars
  BY <1>1 DEF vars
<1>2. CASE WorkerNext
  <2> SUFFICES ASSUME NEW w \in Workers,
                      \/ Handle(w) \/ Crash(w) \/ LoseConnection(w)
                      \/ \E m \in JobMessage : Deliver(w, m)
               PROVE  status'[j] \in Terminal
    BY <1>2 DEF WorkerNext
  <2>1. \/ UNCHANGED status
        \/ \E i : ClaimJobForProcessing(i) \/ RequeueJob(i)
        \/ \E i, f : UpdateJobStatus(i, "failed", f) \/ UpdateJobStatus(i, "completed", f)
    BY DEF Handle, LoadJob, ClaimJob, DeferJob, LoadDocument, FetchDocument, RequeueForRetry,
           ScheduleRetry, ExhaustJob, MoveToDLQ, RecordInvalidBundle, UploadObject,
           PersistBundle, CompleteJob, CleanupObject, FailJob, Settle, Restart, Crash,
           LoseConnection, Deliver
  <2> QED BY <2>1, <1>t DEF ClaimJobForProcessing, Claimable, RequeueJob, Requeueable,
                          UpdateJobStatus
<1>3. CASE UploadNext
  BY <1>3, <1>t DEF UploadNext, HandleUpload, StoreDocument, RecordDocument, CompensateDocument,
     RegisterJob, AnnounceJob, RejectJob, ApiCrash, LoseApiConnection, DuplicateMessage,
     CreateJob, UpdateJobStatus
<1>4. CASE \/ \E i \in Jobs : LeaseExpires(i)
           \/ \E m \in JobMessage : RetryExpires(m)
  BY <1>4 DEF LeaseExpires, LeaseElapses, RetryExpires
<1> QED BY <1>1, <1>2, <1>3, <1>4 DEF Next

\* A job that reached completed or failed is never queued or processing again.
THEOREM TerminalJobsAbsorbing == Spec => TerminalAbsorbing
<1>1. TypeOK /\ [Next]_vars
        => [\A j \in Jobs : status[j] \in Terminal => status'[j] \in Terminal]_vars
  BY TerminalStep
<1> QED BY TypeCorrect, <1>1, PTL DEF Spec, TerminalAbsorbing

-------------------------------------------------------------------------------
(* Exclusive claims, when no worker outlives its lease. *)

\* Initially no worker holds a claim and no job is known.
LEMMA ClaimInit == Init => ClaimInv
BY WorkerAssumption
DEF Init, JobTableInit, JobQueueInit, BundleStoreInit, WorkerInit, UploadInit, Empty,
       ClaimInv, ClaimHeld, ClaimExclusive, KeysStored, Unannounced, CompletedBundleStored,
       Working, Pipeline, JobMessage

\* A worker about to complete its job has stored every object of the bundle.
LEMMA UploadedAll ==
    TypeOK /\ KeysStored => \A w \in Workers : pc[w] = "complete" => objects[msg[w].job] = Keys
<1> SUFFICES ASSUME TypeOK, KeysStored, NEW w \in Workers, pc[w] = "complete"
             PROVE  objects[msg[w].job] = Keys
  OBVIOUS
<1>1. Keys \subseteq objects[msg[w].job]
  BY DEF KeysStored, Pipeline
<1>2. objects[msg[w].job] \in SUBSET Keys
  BY DEF TypeOK, JobMessage
<1> QED BY <1>1, <1>2, WholeSubset

\* Every step preserves exclusive claims and what they protect.
LEMMA ClaimStep ==
    ASSUME "slow" \notin FaultKinds
    PROVE  TypeOK /\ PublicationInv /\ ClaimInv /\ [Next]_vars => ClaimInv'
<1> SUFFICES ASSUME TypeOK, PublicationInv, ClaimInv, [Next]_vars PROVE ClaimInv'
  OBVIOUS
<1> USE WorkerAssumption
        DEF ClaimInv, ClaimHeld, ClaimExclusive, KeysStored, Unannounced, CompletedBundleStored,
            Working, Pipeline, Stored
<1>t. /\ status \in [Jobs -> Statuses] /\ bundles \in [Jobs -> BundleRows]
      /\ objects \in [Jobs -> SUBSET Keys] /\ pc \in [Workers -> Stages]
      /\ verdict \in [Jobs -> Verdicts] /\ msg \in [Workers -> JobMessage \cup {NoMessage}]
      /\ keys \in [Workers -> SUBSET Keys] /\ api \in [Jobs -> UploadStages]
      /\ jobsQueue \in [JobMessage -> Nat] /\ retryQueue \in [JobMessage -> Nat]
      /\ \A w \in Workers : pc[w] = "idle" <=> msg[w] = NoMessage
      /\ \A w \in Workers : pc[w] # "idle" => msg[w] \in JobMessage
      /\ \A m \in JobMessage : m.job \in Jobs
  BY DEF TypeOK, Bag, JobMessage
\* A delivered message names a job whose upload has ended.
<1>e. \A w \in Workers : pc[w] # "idle" => api[msg[w].job] \notin {"publish", "reject"}
                                       /\ api[msg[w].job] \in Ended
  BY <1>t DEF Ended
<1>1. CASE UNCHANGED vars
  BY <1>1 DEF vars, jobTable, queues, store, worker, upload
<1>2. CASE WorkerNext /\ UNCHANGED upload
  <2> SUFFICES ASSUME NEW w \in Workers,
                      \/ Handle(w) \/ Crash(w) \/ LoseConnection(w)
                      \/ \E m \in JobMessage : Deliver(w, m)
               PROVE  ClaimInv'
    BY <1>2 DEF WorkerNext
  <2> USE <1>2, <1>t DEF jobTable, store, queues, upload, Go, Forget, UpdateRow, Return, NackRequeue,
                        Put, Take, PublishJob
  <2>1. CASE \E m \in JobMessage : Deliver(w, m)
    BY <2>1 DEF Deliver, Consume
  <2>2. CASE LoadJob(w)
    BY <2>2 DEF LoadJob, AfterLoad
  <2>3. CASE ClaimJob(w)
    <3>1. ClaimHeld'
      BY <2>3 DEF ClaimJob, ClaimJobForProcessing, Claimable
    <3>2. ClaimExclusive'
      BY <2>3 DEF ClaimJob, ClaimJobForProcessing, Claimable
    <3>3. KeysStored'
      BY <2>3 DEF ClaimJob, ClaimJobForProcessing, Claimable
    <3>4. Unannounced'
      BY <2>3, <1>e DEF ClaimJob, ClaimJobForProcessing, Claimable
    <3>5. CompletedBundleStored'
      BY <2>3 DEF ClaimJob, ClaimJobForProcessing, Claimable
    <3> QED BY <3>1, <3>2, <3>3, <3>4, <3>5
  <2>4. CASE DeferJob(w)
    BY <2>4 DEF DeferJob, PublishJobDeferred
  <2>5. CASE LoadDocument(w)
    BY <2>5 DEF LoadDocument
  <2>6. CASE FetchDocument(w)
    BY <2>6 DEF FetchDocument, AfterConversion, Verdicts
  <2>7. CASE RequeueForRetry(w)
    <3>1. ClaimHeld'
      BY <2>7 DEF RequeueForRetry, RequeueJob, Requeueable
    <3>2. ClaimExclusive'
      BY <2>7 DEF RequeueForRetry, RequeueJob, Requeueable
    <3>3. KeysStored'
      BY <2>7 DEF RequeueForRetry, RequeueJob, Requeueable
    <3>4. Unannounced'
      BY <2>7 DEF RequeueForRetry, RequeueJob, Requeueable
    <3>5. CompletedBundleStored'
      BY <2>7 DEF RequeueForRetry, RequeueJob, Requeueable
    <3> QED BY <3>1, <3>2, <3>3, <3>4, <3>5
  <2>8. CASE ScheduleRetry(w)
    <3>1. ClaimHeld'
      BY <2>8 DEF ScheduleRetry, PublishJobRetry, NextAttempt, JobMessage
    <3>2. ClaimExclusive'
      BY <2>8 DEF ScheduleRetry, PublishJobRetry, NextAttempt, JobMessage
    <3>3. KeysStored'
      BY <2>8 DEF ScheduleRetry, PublishJobRetry, NextAttempt, JobMessage
    <3>4. Unannounced'
      BY <2>8, <1>e DEF ScheduleRetry, PublishJobRetry, NextAttempt, JobMessage
    <3>5. CompletedBundleStored'
      BY <2>8 DEF ScheduleRetry, PublishJobRetry, NextAttempt, JobMessage
    <3> QED BY <3>1, <3>2, <3>3, <3>4, <3>5
  <2>9. CASE ExhaustJob(w)
    <3>1. ClaimHeld'
      BY <2>9 DEF ExhaustJob, UpdateJobStatus
    <3>2. ClaimExclusive'
      BY <2>9 DEF ExhaustJob, UpdateJobStatus
    <3>3. KeysStored'
      BY <2>9 DEF ExhaustJob, UpdateJobStatus
    <3>4. Unannounced'
      BY <2>9, <1>e DEF ExhaustJob, UpdateJobStatus
    <3>5. CompletedBundleStored'
      BY <2>9 DEF ExhaustJob, UpdateJobStatus
    <3> QED BY <3>1, <3>2, <3>3, <3>4, <3>5
  <2>10. CASE MoveToDLQ(w)
    BY <2>10 DEF MoveToDLQ, PublishJobDLQ
  <2>11. CASE RecordInvalidBundle(w)
    BY <2>11 DEF RecordInvalidBundle, CreateBundle, Insertable
  <2>12. CASE UploadObject(w)
    BY <2>12 DEF UploadObject, PutObject, Keys
  <2>13. CASE PersistBundle(w)
    BY <2>13 DEF PersistBundle, CreateBundle, Insertable
  <2>14. CASE CompleteJob(w)
    <3>1. ClaimHeld'
      BY <2>14 DEF CompleteJob, UpdateJobStatus, PublicationInv, UploadsPublishable
    <3>2. ClaimExclusive'
      BY <2>14 DEF CompleteJob, UpdateJobStatus, PublicationInv, UploadsPublishable
    <3>3. KeysStored'
      BY <2>14 DEF CompleteJob, UpdateJobStatus, PublicationInv, UploadsPublishable
    <3>4. Unannounced'
      BY <2>14 DEF CompleteJob, UpdateJobStatus, PublicationInv, UploadsPublishable
    <3>5. CompletedBundleStored'
      <4>1. pc[w] = "complete" /\ UNCHANGED <<bundles, objects>>
        BY <2>14 DEF CompleteJob
      <4>2. bundles[msg[w].job] = "valid"
        BY <4>1 DEF PublicationInv, UploadsPublishable
      <4>6. objects[msg[w].job] = Keys
        BY <4>1, UploadedAll
      <4>3. \A j \in Jobs : j # msg[w].job => status'[j] = status[j]
        BY <2>14 DEF CompleteJob, UpdateJobStatus
      <4> QED BY <4>1, <4>2, <4>3, <4>6
    <3> QED BY <3>1, <3>2, <3>3, <3>4, <3>5
  <2>15. CASE CleanupObject(w)
    BY <2>15 DEF CleanupObject, DeleteObject
  <2>16. CASE FailJob(w)
    BY <2>16 DEF FailJob, UpdateJobStatus
  <2>17. CASE Settle(w)
    BY <2>17 DEF Settle
  <2>18. CASE Restart(w)
    BY <2>18 DEF Restart
  <2>19. CASE Crash(w)
    BY <2>19 DEF Crash
  <2>20. CASE LoseConnection(w)
    BY <2>20 DEF LoseConnection
  <2> QED BY <2>1, <2>2, <2>3, <2>4, <2>5, <2>6, <2>7, <2>8, <2>9, <2>10, <2>11, <2>12,
             <2>13, <2>14, <2>15, <2>16, <2>17, <2>18, <2>19, <2>20 DEF Handle
<1>3. CASE UploadNext /\ UNCHANGED <<store, worker>>
  <2> USE <1>3, <1>t DEF jobTable, queues, store, worker, upload
  <2>1. ASSUME NEW j \in Jobs, HandleUpload(j) PROVE ClaimInv'
    BY <2>1 DEF HandleUpload, StoreDocument, RecordDocument, CompensateDocument, RegisterJob,
                AnnounceJob, RejectJob, CreateJob, UpdateJobStatus, PublishJob, UpdateRow, Put, Proceed,
                Ended, FirstAttempt
  <2>2. CASE ApiCrash
    BY <2>2 DEF ApiCrash, InFlight, Ended
  <2>3. CASE LoseApiConnection
    BY <2>3 DEF LoseApiConnection
  <2>4. ASSUME NEW m \in JobMessage, DuplicateMessage(m) PROVE ClaimInv'
    BY <2>4 DEF DuplicateMessage, PublishJob, Put
  <2> QED BY <2>1, <2>2, <2>3, <2>4 DEF UploadNext
<1>4. ASSUME NEW j \in Jobs, LeaseExpires(j), UNCHANGED verdict PROVE ClaimInv'
  BY <1>4, <1>t DEF LeaseExpires, LeaseElapses, queues, store, worker, upload, Fault
<1>5. ASSUME NEW m \in JobMessage, RetryExpires(m), UNCHANGED verdict PROVE ClaimInv'
  BY <1>5, <1>t DEF RetryExpires, RetryElapses, jobTable, store, worker, upload, Put, Take
<1> QED BY <1>1, <1>2, <1>3, <1>4, <1>5 DEF Next

\* The inductive invariant of the timely platform.
LEMMA TimelyInvariant ==
    ASSUME "slow" \notin FaultKinds
    PROVE  Spec => [](TypeOK /\ PublicationInv /\ ClaimInv)
<1>1. Init => TypeOK /\ PublicationInv /\ ClaimInv
  BY TypeInit, PublicationInit, ClaimInit
<1>2. TypeOK /\ PublicationInv /\ ClaimInv /\ [Next]_vars
        => (TypeOK /\ PublicationInv /\ ClaimInv)'
  BY TypeStep, PublicationStep, ClaimStep
<1> QED BY <1>1, <1>2, PTL DEF Spec

\* While leases outlast the work, no two workers execute the same job.
THEOREM ClaimsExclusive ==
    ASSUME "slow" \notin FaultKinds
    PROVE  Spec => []ClaimExclusive
<1>1. TypeOK /\ PublicationInv /\ ClaimInv => ClaimExclusive
  BY DEF ClaimInv
<1> QED BY TimelyInvariant, <1>1, PTL

\* While leases outlast the work, every completed job can be downloaded.
THEOREM CompletedBundlesStored ==
    ASSUME "slow" \notin FaultKinds
    PROVE  Spec => []CompletedBundleStored
<1>1. TypeOK /\ PublicationInv /\ ClaimInv => CompletedBundleStored
  BY DEF ClaimInv
<1> QED BY TimelyInvariant, <1>1, PTL

-------------------------------------------------------------------------------
(* The life cycle the client sees. *)

\* The changes of status a step may make, all of one job.
Moves == {<<"none", "queued">>, <<"queued", "processing">>, <<"processing", "queued">>,
          <<"processing", "completed">>, <<"queued", "failed">>, <<"processing", "failed">>}
StatusMoves == \E j \in Jobs : \E to \in Statuses :
    <<status[j], to>> \in Moves /\ status' = [status EXCEPT ![j] = to]

\* A step leaves every status alone or makes one move of the life cycle.
LEMMA StatusStep ==
    TypeOK /\ ClaimInv /\ [Next]_vars => UNCHANGED status \/ StatusMoves
<1> SUFFICES ASSUME TypeOK, ClaimInv, [Next]_vars PROVE UNCHANGED status \/ StatusMoves
  OBVIOUS
<1> USE DEF jobTable, UpdateRow
<1>t. /\ status \in [Jobs -> Statuses]
      /\ \A w \in Workers : pc[w] # "idle" => msg[w].job \in Jobs
  BY DEF TypeOK, JobMessage
<1>m. \A j \in Jobs, to \in Statuses :
        <<status[j], to>> \in Moves /\ status' = [status EXCEPT ![j] = to] => StatusMoves
  BY DEF StatusMoves
<1>1. CASE UNCHANGED vars
  BY <1>1 DEF vars
<1>2. CASE WorkerNext
  <2> SUFFICES ASSUME NEW w \in Workers,
                      \/ Handle(w) \/ Crash(w) \/ LoseConnection(w)
                      \/ \E m \in JobMessage : Deliver(w, m)
               PROVE  UNCHANGED status \/ StatusMoves
    BY <1>2 DEF WorkerNext
  <2> DEFINE j == msg[w].job
  <2>1. \/ UNCHANGED status
        \/ pc[w] = "claim" /\ ClaimJobForProcessing(j)
        \/ pc[w] = "requeue" /\ RequeueJob(j)
        \/ /\ pc[w] \in {"exhaust", "fail", "complete"}
           /\ \E to \in Terminal, f \in Failures : UpdateJobStatus(j, to, f)
    BY DEF Handle, LoadJob, ClaimJob, DeferJob, LoadDocument, FetchDocument, RequeueForRetry,
           ScheduleRetry, ExhaustJob, MoveToDLQ, RecordInvalidBundle, UploadObject,
           PersistBundle, CompleteJob, CleanupObject, FailJob, Settle, Restart, Crash,
           LoseConnection, Deliver, Terminal, Failures
  <2>2. CASE pc[w] = "claim" /\ ClaimJobForProcessing(j)
    <3>1. j \in Jobs /\ status' = [status EXCEPT ![j] = "processing"]
      BY <2>2, <1>t DEF ClaimJobForProcessing
    <3>2. CASE status[j] = "queued"
      BY <3>1, <3>2, <1>m DEF Moves, Statuses
    <3>3. CASE status[j] = "processing"
      BY <3>1, <3>3, <1>t
    <3> QED BY <2>2, <3>2, <3>3 DEF ClaimJobForProcessing, Claimable
  <2>3. CASE pc[w] = "requeue" /\ RequeueJob(j)
    BY <2>3, <1>t, <1>m DEF RequeueJob, Requeueable, Moves, Statuses
  <2>4. CASE /\ pc[w] \in {"exhaust", "fail", "complete"}
             /\ \E to \in Terminal, f \in Failures : UpdateJobStatus(j, to, f)
    <3>1. j \in Jobs /\ status[j] = "processing"
      BY <2>4, <1>t DEF ClaimInv, ClaimHeld, Working, Pipeline
    <3> QED BY <2>4, <3>1, <1>m DEF UpdateJobStatus, Moves, Statuses, Terminal
  <2> QED BY <2>1, <2>2, <2>3, <2>4
<1>3. CASE UploadNext
  <2>1. \/ UNCHANGED status
        \/ \E j \in Jobs : CreateJob(j)
        \/ \E j \in Jobs : api[j] = "reject" /\ UpdateJobStatus(j, "failed", "publish")
    BY <1>3 DEF UploadNext, HandleUpload, StoreDocument, RecordDocument, CompensateDocument,
       RegisterJob, AnnounceJob, RejectJob, ApiCrash, LoseApiConnection, DuplicateMessage
  <2>2. ASSUME NEW j \in Jobs, CreateJob(j) PROVE StatusMoves
    BY <2>2, <1>m DEF CreateJob, Moves, Statuses
  <2>3. ASSUME NEW j \in Jobs, api[j] = "reject", UpdateJobStatus(j, "failed", "publish")
        PROVE  StatusMoves
    BY <2>3, <1>m DEF UpdateJobStatus, ClaimInv, Unannounced, Moves, Statuses, Terminal
  <2> QED BY <2>1, <2>2, <2>3
<1>4. CASE \/ \E i \in Jobs : LeaseExpires(i)
           \/ \E m \in JobMessage : RetryExpires(m)
  BY <1>4 DEF LeaseExpires, LeaseElapses, RetryExpires
<1> QED BY <1>1, <1>2, <1>3, <1>4 DEF Next

\* While leases outlast the work, a terminal job never changes again.
THEOREM TerminalJobsStable ==
    ASSUME "slow" \notin FaultKinds
    PROVE  Spec => TerminalStable
<1>1. TypeOK /\ ClaimInv /\ [Next]_vars
        => [\A j \in Jobs : status[j] \in Terminal => status'[j] = status[j]]_vars
  <2> SUFFICES ASSUME TypeOK, ClaimInv, [Next]_vars, NEW j \in Jobs, status[j] \in Terminal
               PROVE  status'[j] = status[j]
    OBVIOUS
  <2>1. CASE StatusMoves
    BY <2>1 DEF StatusMoves, Moves, Terminal, TypeOK
  <2> QED BY <2>1, StatusStep
<1> QED BY TimelyInvariant, <1>1, PTL DEF Spec, TerminalStable

\* While leases outlast the work, the platform implements the job life cycle.
THEOREM PlatformImplementsLifecycle ==
    ASSUME "slow" \notin FaultKinds
    PROVE  Spec => LifecycleSpec
<1> DEFINE avail == {j \in Jobs : status[j] = "completed" /\ Stored(j)}
           done == {j \in Jobs : status[j] = "completed"}
<1>1. Init => Lifecycle!Init
  <2> SUFFICES ASSUME Init PROVE Lifecycle!Init
    OBVIOUS
  <2>1. status = [j \in Jobs |-> "none"]
    BY DEF Init, JobTableInit
  <2>2. avail = {}
    BY <2>1
  <2> QED BY <2>1, <2>2 DEF Lifecycle!Init
<1>2. ASSUME TypeOK, ClaimInv, ClaimInv', [Next]_vars
      PROVE  [Lifecycle!Next]_(Lifecycle!vars)
  <2>1. avail = done /\ avail' = done'
    BY <1>2 DEF ClaimInv, CompletedBundleStored
  <2>2. CASE UNCHANGED status
    BY <2>1, <2>2 DEF Lifecycle!vars
  <2>3. CASE StatusMoves
    <3>1. PICK j \in Jobs, to \in Statuses :
            <<status[j], to>> \in Moves /\ status' = [status EXCEPT ![j] = to]
      BY <2>3 DEF StatusMoves
    <3>2. status \in [Jobs -> Statuses]
      BY <1>2 DEF TypeOK
    <3>3. done' = IF to = "completed" THEN done \cup {j} ELSE done
      BY <3>1, <3>2 DEF Moves
    <3>4. \/ Lifecycle!Accept(j) \/ Lifecycle!Start(j) \/ Lifecycle!Retry(j)
          \/ Lifecycle!Complete(j) \/ Lifecycle!Fail(j)
      BY <2>1, <3>1, <3>3 DEF Moves, Lifecycle!Accept, Lifecycle!Start, Lifecycle!Retry,
         Lifecycle!Complete, Lifecycle!Fail, Lifecycle!Move
    <3> QED BY <3>4 DEF Lifecycle!Next
  <2> QED BY <1>2, <2>2, <2>3, StatusStep
<1> QED BY <1>1, <1>2, TimelyInvariant, PTL DEF Spec, LifecycleSpec, Lifecycle!Spec

-------------------------------------------------------------------------------
(* Uploads. *)

\* Initially no upload has left anything behind.
LEMMA UploadInvInit == Init => UploadInv /\ JobMade
BY DEF Init, UploadInit, UploadInv, JobMade, Ended

\* A job whose row exists keeps it, whatever happens.
LEMMA RowsStay == TypeOK /\ [Next]_vars =>
    \A j \in Jobs : status[j] # "none" => status'[j] # "none"
<1> SUFFICES ASSUME TypeOK, [Next]_vars, NEW j \in Jobs, status[j] # "none"
             PROVE  status'[j] # "none"
  OBVIOUS
<1> USE DEF jobTable, UpdateRow
<1>t. status \in [Jobs -> Statuses]
  BY DEF TypeOK
<1>1. CASE UNCHANGED vars
  BY <1>1 DEF vars
<1>2. CASE WorkerNext
  <2> SUFFICES ASSUME NEW w \in Workers,
                      \/ Handle(w) \/ Crash(w) \/ LoseConnection(w)
                      \/ \E m \in JobMessage : Deliver(w, m)
               PROVE  status'[j] # "none"
    BY <1>2 DEF WorkerNext
  <2>1. \/ UNCHANGED status
        \/ \E i : ClaimJobForProcessing(i) \/ RequeueJob(i)
        \/ \E i, f : UpdateJobStatus(i, "failed", f) \/ UpdateJobStatus(i, "completed", f)
    BY DEF Handle, LoadJob, ClaimJob, DeferJob, LoadDocument, FetchDocument, RequeueForRetry,
           ScheduleRetry, ExhaustJob, MoveToDLQ, RecordInvalidBundle, UploadObject,
           PersistBundle, CompleteJob, CleanupObject, FailJob, Settle, Restart, Crash,
           LoseConnection, Deliver
  <2> QED BY <2>1, <1>t DEF ClaimJobForProcessing, RequeueJob, UpdateJobStatus
<1>3. CASE UploadNext
  BY <1>3, <1>t DEF UploadNext, HandleUpload, StoreDocument, RecordDocument, CompensateDocument,
     RegisterJob, AnnounceJob, RejectJob, ApiCrash, LoseApiConnection, DuplicateMessage,
     CreateJob, UpdateJobStatus
<1>4. CASE \/ \E i \in Jobs : LeaseExpires(i)
           \/ \E m \in JobMessage : RetryExpires(m)
  BY <1>4 DEF LeaseExpires, LeaseElapses, RetryExpires
<1> QED BY <1>1, <1>2, <1>3, <1>4 DEF Next

\* PublishJob is only reached after CreateJob.
LEMMA JobMadeStep == TypeOK /\ JobMade /\ [Next]_vars => JobMade'
<1> SUFFICES ASSUME TypeOK, JobMade, [Next]_vars PROVE JobMade'
  OBVIOUS
<1>t. api \in [Jobs -> UploadStages] /\ status \in [Jobs -> Statuses]
  BY DEF TypeOK
<1>1. ASSUME NEW j \in Jobs, api'[j] = api[j] PROVE
        api'[j] \in {"publish", "reject", "accepted"} => status'[j] # "none"
  BY <1>1, RowsStay DEF JobMade
<1>2. CASE UNCHANGED api
  BY <1>1, <1>2 DEF JobMade
<1>3. CASE UploadNext
  <2>1. ASSUME NEW j \in Jobs, NEW stage \in UploadStages, Proceed(j, stage), 
               stage \in {"publish", "reject", "accepted"} => status'[j] # "none"
        PROVE  JobMade'
    BY <1>1, <1>t, <2>1 DEF JobMade, Proceed
  <2>2. ASSUME NEW j \in Jobs, HandleUpload(j) PROVE JobMade'
    <3>1. CASE StoreDocument(j)
      BY <2>1, <3>1 DEF StoreDocument, UploadStages, InFlight, Ended
    <3>2. CASE RecordDocument(j)
      BY <2>1, <3>2 DEF RecordDocument, UploadStages, InFlight, Ended
    <3>3. CASE CompensateDocument(j)
      BY <2>1, <3>3 DEF CompensateDocument, UploadStages, InFlight, Ended
    <3>4. CASE RegisterJob(j)
      BY <1>t, <2>1, <3>4 DEF RegisterJob, CreateJob, UpdateRow, UploadStages, InFlight, Ended
    <3>5. CASE AnnounceJob(j)
      <4>1. api[j] = "publish" /\ UNCHANGED status
            /\ (Proceed(j, "accepted") \/ Proceed(j, "reject"))
        BY <3>5 DEF AnnounceJob, jobTable
      <4>2. status'[j] # "none"
        BY <4>1 DEF JobMade
      <4> QED BY <2>1, <4>1, <4>2 DEF UploadStages, InFlight, Ended
    <3>6. CASE RejectJob(j)
      BY <2>1, <3>6 DEF RejectJob, UploadStages, InFlight, Ended
    <3> QED BY <2>2, <3>1, <3>2, <3>3, <3>4, <3>5, <3>6 DEF HandleUpload
  <2>3. CASE ApiCrash
    <3>1. UNCHANGED status
          /\ \A j \in Jobs : api'[j] = api[j] \/ api'[j] = "refused"
      BY <2>3 DEF ApiCrash, jobTable
    <3> QED BY <1>1, <3>1 DEF JobMade
  <2>4. CASE LoseApiConnection
    BY <1>2, <2>4 DEF LoseApiConnection
  <2>5. CASE \E m \in JobMessage : DuplicateMessage(m)
    BY <1>2, <2>5 DEF DuplicateMessage, upload
  <2> QED BY <1>3, <2>2, <2>3, <2>4, <2>5 DEF UploadNext
<1> QED BY <1>2, <1>3 DEF Next, vars, upload, LeaseExpires, RetryExpires

\* Every call of the upload keeps document and row in step.
LEMMA UploadStep ==
    ASSUME {"lost", "delete", "apiCrash"} \cap FaultKinds = {}
    PROVE  TypeOK /\ UploadInv /\ [Next]_vars => UploadInv'
<1> SUFFICES ASSUME TypeOK, UploadInv, [Next]_vars PROVE UploadInv'
  OBVIOUS
<1>n. ~Fault("lost") /\ ~Fault("delete") /\ ~Fault("apiCrash")
  BY DEF Fault
<1> USE DEF UploadInv, Ended
<1>t. api \in [Jobs -> UploadStages]
  BY DEF TypeOK
<1>1. CASE UNCHANGED <<api, documents, documentRows>>
  BY <1>1
<1>2. ASSUME NEW j \in Jobs, HandleUpload(j) PROVE UploadInv'
  BY <1>2, <1>n, <1>t DEF HandleUpload, StoreDocument, RecordDocument, CompensateDocument,
     RegisterJob, AnnounceJob, RejectJob, Proceed
<1> QED BY <1>1, <1>2, <1>n DEF Next, vars, upload, UploadNext, ApiCrash, LoseApiConnection,
           DuplicateMessage, LeaseExpires, RetryExpires

\* Unless a call succeeds without its answer arriving, a compensation fails or
\* the API dies, every answered upload has both its document and its row, or
\* neither, and an accepted one has made its job.
THEOREM UploadsCompensated ==
    ASSUME {"lost", "delete", "apiCrash"} \cap FaultKinds = {}
    PROVE  Spec => []UploadCompensated
<1>1. Init => TypeOK /\ UploadInv /\ JobMade
  BY TypeInit, UploadInvInit
<1>2. TypeOK /\ UploadInv /\ JobMade /\ [Next]_vars => (TypeOK /\ UploadInv /\ JobMade)'
  BY TypeStep, UploadStep, JobMadeStep
<1>3. UploadInv /\ JobMade => UploadCompensated
  BY DEF UploadInv, JobMade, UploadCompensated
<1> QED BY <1>1, <1>2, <1>3, PTL DEF Spec

-------------------------------------------------------------------------------
(* The DLQ. *)

\* Initially no worker is at work and the queues are empty.
LEMMA MessageInit == Init => AttemptsBounded /\ DlqInv /\ LastKept
BY WorkerAssumption, RetriesAssumption
DEF Init, JobTableInit, JobQueueInit, WorkerInit, Empty,
    AttemptsBounded, DlqInv, DlqOnlyExhausted, LastKept, LastAttempt, JobMessage

\* Only a message with retries left is retried, and only an exhausted one of an
\* ended job goes to the DLQ, under every kind of fault.
LEMMA AttemptsStep == TypeOK /\ AttemptsBounded /\ [Next]_vars => AttemptsBounded'
<1> SUFFICES ASSUME TypeOK, AttemptsBounded, [Next]_vars, NEW v \in Workers
             PROVE  /\ pc'[v] \in {"requeue", "retry"} => msg'[v].attempt < MaxRetries
                    /\ pc'[v] \in {"exhaust", "dlq"} => msg'[v].attempt = MaxRetries
                    /\ pc'[v] = "dlq" => status'[msg'[v].job] \in Terminal
  BY DEF AttemptsBounded
<1>t. /\ status \in [Jobs -> Statuses]
      /\ pc \in [Workers -> Stages] /\ msg \in [Workers -> JobMessage \cup {NoMessage}]
      /\ verdict \in [Jobs -> Verdicts]
      /\ \A w \in Workers : pc[w] # "idle" =>
            msg[w] \in JobMessage /\ msg[w].job \in Jobs /\ msg[w].attempt \in 0..MaxRetries
  BY DEF TypeOK, JobMessage
<1>k. CASE pc'[v] = pc[v] /\ msg'[v] = msg[v]
  <2>1. pc[v] = "dlq" => msg[v].job \in Jobs
    BY <1>t
  <2> QED BY <1>k, <2>1, TerminalStep DEF AttemptsBounded
<1>1. CASE UNCHANGED worker
  BY <1>1, <1>k DEF worker
<1>2. CASE WorkerNext
  <2> SUFFICES ASSUME NEW w \in Workers,
                      \/ Handle(w) \/ Crash(w) \/ LoseConnection(w)
                      \/ \E m \in JobMessage : Deliver(w, m)
               PROVE  /\ pc'[v] \in {"requeue", "retry"} => msg'[v].attempt < MaxRetries
                      /\ pc'[v] \in {"exhaust", "dlq"} => msg'[v].attempt = MaxRetries
                      /\ pc'[v] = "dlq" => status'[msg'[v].job] \in Terminal
    BY <1>2 DEF WorkerNext
  <2> USE <1>t, RetriesAssumption DEF Go, Forget, jobTable
  <2>1. CASE v # w
    <3>1. pc'[v] = pc[v] /\ msg'[v] = msg[v]
      BY <2>1 DEF Handle, LoadJob, ClaimJob, DeferJob, LoadDocument, FetchDocument,
           RequeueForRetry, ScheduleRetry, ExhaustJob, MoveToDLQ, RecordInvalidBundle,
           UploadObject, PersistBundle, CompleteJob, CleanupObject, FailJob, Settle, Restart,
           Crash, LoseConnection, Deliver, NackRequeue
    <3> QED BY <3>1, <1>k
  <2>2. CASE v = w /\ LoadJob(w)
    BY <2>2 DEF LoadJob, AfterLoad, Terminal
  <2>3. CASE v = w /\ FetchDocument(w)
    BY <2>3 DEF FetchDocument, AfterConversion, Verdicts
  <2>4. CASE v = w /\ RequeueForRetry(w)
    BY <2>4 DEF RequeueForRetry, NackRequeue, AttemptsBounded
  <2>5. CASE v = w /\ ExhaustJob(w)
    BY <2>5 DEF ExhaustJob, NackRequeue, AttemptsBounded, UpdateJobStatus, UpdateRow, Terminal
  <2>6. CASE v = w /\ \/ ClaimJob(w) \/ DeferJob(w) \/ LoadDocument(w) \/ ScheduleRetry(w)
                      \/ MoveToDLQ(w) \/ RecordInvalidBundle(w) \/ UploadObject(w)
                      \/ PersistBundle(w) \/ CompleteJob(w) \/ FailJob(w) \/ Settle(w)
                      \/ Crash(w) \/ \E m \in JobMessage : Deliver(w, m)
    <3>1. pc'[w] \notin {"requeue", "retry", "exhaust", "dlq"}
      BY <2>6 DEF ClaimJob, DeferJob, LoadDocument, ScheduleRetry, MoveToDLQ,
         RecordInvalidBundle, UploadObject, PersistBundle, CompleteJob, FailJob, Settle, Crash,
         Deliver, NackRequeue
    <3> QED BY <2>6, <3>1
  <2>7. CASE CleanupObject(w) \/ Restart(w) \/ LoseConnection(w)
    BY <2>7, <1>k DEF CleanupObject, Restart, LoseConnection
  <2> QED BY <2>1, <2>2, <2>3, <2>4, <2>5, <2>6, <2>7 DEF Handle
<1> QED BY <1>1, <1>2 DEF Next, vars, LeaseExpires, RetryExpires

\* While leases outlast the work, a failed job stays failed.
LEMMA FailedStays ==
    TypeOK /\ ClaimInv /\ [Next]_vars
        => \A j \in Jobs : status[j] \in Terminal => status'[j] = status[j]
<1> SUFFICES ASSUME TypeOK, ClaimInv, [Next]_vars, NEW j \in Jobs, status[j] \in Terminal
             PROVE  status'[j] = status[j]
  OBVIOUS
<1>1. CASE StatusMoves
  BY <1>1 DEF StatusMoves, Moves, Terminal, TypeOK
<1> QED BY <1>1, StatusStep

\* Only MoveToDLQ adds to the DLQ, and it adds the message in hand.
LEMMA DlqGrows == TypeOK /\ [Next]_vars =>
    \A m \in JobMessage : \/ dlq'[m] = dlq[m]
                         \/ \E w \in Workers : pc[w] = "dlq" /\ msg[w] = m
<1> SUFFICES ASSUME TypeOK, [Next]_vars, NEW m \in JobMessage, dlq'[m] # dlq[m]
             PROVE  \E w \in Workers : pc[w] = "dlq" /\ msg[w] = m
  OBVIOUS
<1>1. \E w \in Workers : pc[w] = "dlq" /\ PublishJobDLQ(msg[w])
  BY DEF Next, vars, queues, WorkerNext, Handle, LoadJob, ClaimJob, DeferJob, LoadDocument,
     FetchDocument, RequeueForRetry, ScheduleRetry, ExhaustJob, MoveToDLQ, RecordInvalidBundle,
     UploadObject, PersistBundle, CompleteJob, CleanupObject, FailJob, Settle, Restart, Crash,
     LoseConnection, Deliver, NackRequeue, Return, Consume, PublishJob, PublishJobRetry,
     PublishJobDeferred, UploadNext, HandleUpload, StoreDocument, RecordDocument,
     CompensateDocument, RegisterJob, AnnounceJob, RejectJob, ApiCrash, LoseApiConnection,
     DuplicateMessage, LeaseExpires, RetryExpires, RetryElapses
<1> QED BY <1>1 DEF PublishJobDLQ, Put, TypeOK, Bag

\* The jobs of the messages in the DLQ have failed, and stay so.
LEMMA DlqStep ==
    TypeOK /\ ClaimInv /\ AttemptsBounded /\ DlqInv /\ [Next]_vars => DlqInv'
<1> SUFFICES ASSUME TypeOK, ClaimInv, AttemptsBounded, DlqInv, [Next]_vars PROVE DlqInv'
  OBVIOUS
<1>t. /\ \A m \in JobMessage : m.job \in Jobs
      /\ \A w \in Workers : pc[w] # "idle" => msg[w] \in JobMessage /\ msg[w].job \in Jobs
      /\ pc \in [Workers -> Stages] /\ msg \in [Workers -> JobMessage \cup {NoMessage}]
      /\ status \in [Jobs -> Statuses]
  BY DEF TypeOK, JobMessage
<1>1. ASSUME NEW m \in JobMessage, dlq'[m] > 0
      PROVE  m.attempt = MaxRetries /\ status'[m.job] = "failed"
  <2>1. m.attempt = MaxRetries /\ status[m.job] = "failed"
    <3>1. CASE dlq'[m] = dlq[m]
      BY <1>1, <3>1 DEF DlqInv, DlqOnlyExhausted
    <3>2. CASE \E w \in Workers : pc[w] = "dlq" /\ msg[w] = m
      BY <3>2 DEF DlqInv, AttemptsBounded
    <3> QED BY <3>1, <3>2, DlqGrows
  <2> QED BY <1>t, <2>1, FailedStays DEF Terminal
<1>2. ASSUME NEW w \in Workers, pc'[w] = "dlq" PROVE status'[msg'[w].job] = "failed"
  <2>1. CASE pc[w] = "dlq" /\ msg'[w] = msg[w]
    <3>1. msg[w].job \in Jobs /\ status[msg[w].job] = "failed"
      BY <1>t, <2>1 DEF DlqInv
    <3> QED BY <2>1, <3>1, FailedStays DEF Terminal
  <2>2. CASE LoadJob(w) /\ status[msg[w].job] = "failed"
    BY <2>2, <1>t DEF LoadJob, Go, jobTable
  <2>3. CASE ExhaustJob(w)
    BY <2>3, <1>2, <1>t DEF ExhaustJob, Go, NackRequeue, Forget, UpdateJobStatus, UpdateRow
  <2>4. \/ pc[w] = "dlq" /\ msg'[w] = msg[w]
        \/ ExhaustJob(w)
        \/ LoadJob(w) /\ status[msg[w].job] = "failed"
    BY <1>2, <1>t DEF Next, vars, worker, WorkerNext, Handle, LoadJob, AfterLoad, ClaimJob, DeferJob,
       LoadDocument, FetchDocument, AfterConversion, Verdicts, TypeOK, RequeueForRetry,
       ScheduleRetry, ExhaustJob, MoveToDLQ, RecordInvalidBundle,
       UploadObject, PersistBundle, CompleteJob, CleanupObject, FailJob, Settle, Restart, Crash,
       LoseConnection, Deliver, NackRequeue, Go, Forget, LeaseExpires, RetryExpires
  <2> QED BY <2>1, <2>2, <2>3, <2>4
<1> QED BY <1>1, <1>2 DEF DlqInv, DlqOnlyExhausted

\* While leases outlast the work, the DLQ holds only messages that used up
\* their retries, of jobs that failed and stay failed.
THEOREM OnlyExhaustedInDLQ ==
    ASSUME "slow" \notin FaultKinds
    PROVE  Spec => []DlqOnlyExhausted
<1> DEFINE Inv == AttemptsBounded /\ DlqInv
<1>1. Init => Inv
  BY MessageInit
<1>2. (TypeOK /\ PublicationInv /\ ClaimInv) /\ Inv /\ [Next]_vars => Inv'
  BY AttemptsStep, DlqStep
<1>3. Inv => DlqOnlyExhausted
  BY DEF DlqInv
<1> HIDE DEF Inv
<1> QED BY TimelyInvariant, <1>1, <1>2, <1>3, PTL DEF Spec

-------------------------------------------------------------------------------
(* No message is lost. *)

\* What can become of a message that will be handled: it stays, it is replaced
\* by the next attempt, it is moved to the DLQ, or its job has no need of it.
PendingOn(m) ==
    \/ Pending(m)
    \/ m.attempt < MaxRetries /\ Pending(NextAttempt(m))
MovedToDLQ(m) ==
    m.attempt = MaxRetries /\ status[m.job] \in Terminal /\ dlq'[m] > 0
Needless(m) ==
    \/ status[m.job] \in {"none", "completed"}
    \/ status[m.job] = "failed" /\ m.attempt # MaxRetries
Ends(m) ==
    /\ status'[m.job] \in Terminal
    /\ \E w \in Workers : msg[w] = m /\ pc[w] \in {"complete", "fail"}

\* The next attempt of a message that has retries left is a message.
LEMMA NextIsMessage ==
    \A m \in JobMessage : m.attempt < MaxRetries =>
        NextAttempt(m) \in JobMessage /\ NextAttempt(m).job = m.job
BY RetriesAssumption DEF JobMessage, NextAttempt

\* What the worker that holds message m does with it.
LEMMA HandedOn ==
    ASSUME {"db", "lost"} \cap FaultKinds = {},
           TypeOK, AttemptsBounded,
           NEW w \in Workers, NEW m \in JobMessage,
           msg[w] = m, connected[w], pc[w] # "settle",
           Handle(w) \/ Crash(w) \/ LoseConnection(w)
    PROVE  \/ msg'[w] = m /\ connected'[w] /\ pc'[w] # "settle"
           \/ jobsQueue'[m] > 0 \/ retryQueue'[m] > 0
           \/ m.attempt < MaxRetries /\ retryQueue'[NextAttempt(m)] > 0
           \/ MovedToDLQ(m) \/ Needless(m) \/ Ends(m)
<1>n. ~Fault("db") /\ ~Fault("lost")
  BY DEF Fault
<1>t. /\ pc \in [Workers -> Stages] /\ msg \in [Workers -> JobMessage \cup {NoMessage}]
      /\ connected \in [Workers -> BOOLEAN] /\ status \in [Jobs -> Statuses]
      /\ jobsQueue \in [JobMessage -> Nat] /\ retryQueue \in [JobMessage -> Nat]
      /\ dlq \in [JobMessage -> Nat] /\ verdict \in [Jobs -> Verdicts]
      /\ m.job \in Jobs /\ m.attempt \in 0..MaxRetries
  BY DEF TypeOK, Bag, JobMessage
<1>i. pc[w] # "idle"
  BY WorkerAssumption DEF TypeOK
<1> USE <1>n, <1>t DEF Go
<1>1. CASE LoadJob(w)
  <2>1. CASE AfterLoad(m) = "settle"
    BY <1>1, <2>1 DEF LoadJob, AfterLoad, Needless, Statuses, Terminal
  <2>2. CASE AfterLoad(m) # "settle"
    BY <1>1, <2>2 DEF LoadJob
  <2> QED BY <2>1, <2>2
<1>2. CASE ClaimJob(w) \/ LoadDocument(w) \/ FetchDocument(w)
  BY <1>2 DEF ClaimJob, LoadDocument, FetchDocument, AfterConversion, Verdicts
<1>3. CASE DeferJob(w)
  BY <1>3 DEF DeferJob, PublishJobDeferred, Put
<1>4. CASE RequeueForRetry(w)
  BY <1>4 DEF RequeueForRetry, NackRequeue, Return, PublishJob, Put
<1>5. CASE ScheduleRetry(w)
  <2>1. m.attempt < MaxRetries /\ NextAttempt(m) \in JobMessage
    BY <1>5, NextIsMessage DEF ScheduleRetry, AttemptsBounded
  <2>2. retryQueue'[NextAttempt(m)] > 0
    BY <1>5, <2>1 DEF ScheduleRetry, PublishJobRetry, Put
  <2> QED BY <2>1, <2>2
<1>6. CASE ExhaustJob(w)
  BY <1>6 DEF ExhaustJob, NackRequeue, Return, PublishJob, Put
<1>7. CASE MoveToDLQ(w)
  BY <1>7 DEF MoveToDLQ, AttemptsBounded, PublishJobDLQ, Put, MovedToDLQ
<1>8. CASE RecordInvalidBundle(w) \/ UploadObject(w) \/ PersistBundle(w) \/ CleanupObject(w)
  BY <1>8 DEF RecordInvalidBundle, UploadObject, PersistBundle, CleanupObject
<1>9. CASE CompleteJob(w) \/ FailJob(w)
  BY <1>9 DEF CompleteJob, FailJob, UpdateJobStatus, UpdateRow, Ends, Terminal
<1>10. CASE Settle(w) \/ Restart(w)
  BY <1>i, <1>10 DEF Settle, Restart
<1>11. CASE Crash(w) \/ LoseConnection(w)
  BY <1>11 DEF Crash, LoseConnection, Return, PublishJob, Put
<1> QED BY <1>1, <1>2, <1>3, <1>4, <1>5, <1>6, <1>7, <1>8, <1>9, <1>10, <1>11 DEF Handle

\* A worker's step takes nothing out of the queues, and touches no other worker.
LEMMA OthersKept ==
    ASSUME TypeOK, NEW w \in Workers, Handle(w) \/ Crash(w) \/ LoseConnection(w)
    PROVE  /\ \A m \in JobMessage : /\ jobsQueue[m] > 0 => jobsQueue'[m] > 0
                                    /\ retryQueue[m] > 0 => retryQueue'[m] > 0
           /\ \A v \in Workers : v # w =>
                msg'[v] = msg[v] /\ connected'[v] = connected[v] /\ pc'[v] = pc[v]
<1>t. /\ jobsQueue \in [JobMessage -> Nat] /\ retryQueue \in [JobMessage -> Nat]
      /\ pc \in [Workers -> Stages] /\ msg \in [Workers -> JobMessage \cup {NoMessage}]
      /\ connected \in [Workers -> BOOLEAN]
  BY DEF TypeOK, Bag
<1>1. \/ UNCHANGED queues
      \/ \E m : PublishJob(m) \/ PublishJobRetry(m) \/ PublishJobDeferred(m) \/ PublishJobDLQ(m)
  BY DEF Handle, LoadJob, ClaimJob, DeferJob, LoadDocument,
     FetchDocument, RequeueForRetry, ScheduleRetry, ExhaustJob, MoveToDLQ, RecordInvalidBundle,
     UploadObject, PersistBundle, CompleteJob, CleanupObject, FailJob, Settle, Restart, Crash,
     LoseConnection, NackRequeue, Return
<1>2. \A m \in JobMessage : /\ jobsQueue[m] > 0 => jobsQueue'[m] > 0
                            /\ retryQueue[m] > 0 => retryQueue'[m] > 0
  BY <1>1, <1>t DEF queues, PublishJob, PublishJobRetry, PublishJobDeferred, PublishJobDLQ, Put
<1>3. \A v \in Workers : v # w =>
          msg'[v] = msg[v] /\ connected'[v] = connected[v] /\ pc'[v] = pc[v]
  BY <1>t DEF Handle, LoadJob, ClaimJob, DeferJob, LoadDocument,
     FetchDocument, RequeueForRetry, ScheduleRetry, ExhaustJob, MoveToDLQ, RecordInvalidBundle,
     UploadObject, PersistBundle, CompleteJob, CleanupObject, FailJob, Settle, Restart, Crash,
     LoseConnection, NackRequeue, Go, Forget
<1> QED BY <1>2, <1>3

\* No step drops a message that its job still needs.
LEMMA PendingStep ==
    ASSUME {"db", "lost"} \cap FaultKinds = {},
           TypeOK, AttemptsBounded, [Next]_vars,
           NEW m \in JobMessage, Pending(m)
    PROVE  PendingOn(m)' \/ MovedToDLQ(m) \/ Needless(m) \/ Ends(m)
<1>t. /\ jobsQueue \in [JobMessage -> Nat] /\ retryQueue \in [JobMessage -> Nat]
      /\ pc \in [Workers -> Stages] /\ msg \in [Workers -> JobMessage \cup {NoMessage}]
      /\ connected \in [Workers -> BOOLEAN]
  BY DEF TypeOK, Bag
<1>s. Pending(m)' => PendingOn(m)'
  BY DEF PendingOn
<1>1. CASE UNCHANGED <<worker, queues>>
  BY <1>1, <1>s DEF Pending, worker, queues
<1>2. ASSUME NEW w \in Workers, Handle(w) \/ Crash(w) \/ LoseConnection(w)
      PROVE  PendingOn(m)' \/ MovedToDLQ(m) \/ Needless(m) \/ Ends(m)
  <2>1. CASE jobsQueue[m] > 0 \/ retryQueue[m] > 0
    BY <1>2, <1>s, <2>1, OthersKept DEF Pending
  <2>2. CASE \E v \in Workers \ {w} : msg[v] = m /\ connected[v] /\ pc[v] # "settle"
    <3>1. PICK v \in Workers \ {w} : msg[v] = m /\ connected[v] /\ pc[v] # "settle"
      BY <2>2
    <3>2. msg'[v] = m /\ connected'[v] /\ pc'[v] # "settle"
      BY <1>2, <3>1, OthersKept
    <3> QED BY <1>s, <3>2 DEF Pending
  <2>3. CASE msg[w] = m /\ connected[w] /\ pc[w] # "settle"
    <3>1. \/ msg'[w] = m /\ connected'[w] /\ pc'[w] # "settle"
          \/ jobsQueue'[m] > 0 \/ retryQueue'[m] > 0
          \/ m.attempt < MaxRetries /\ retryQueue'[NextAttempt(m)] > 0
          \/ MovedToDLQ(m) \/ Needless(m) \/ Ends(m)
      BY <1>2, <2>3, HandedOn
    <3>2. m.attempt < MaxRetries /\ retryQueue'[NextAttempt(m)] > 0 => PendingOn(m)'
      BY DEF PendingOn, Pending
    <3>3. \/ msg'[w] = m /\ connected'[w] /\ pc'[w] # "settle"
          \/ jobsQueue'[m] > 0 \/ retryQueue'[m] > 0
          => Pending(m)'
      BY DEF Pending
    <3> QED BY <1>s, <3>1, <3>2, <3>3
  <2> QED BY <2>1, <2>2, <2>3 DEF Pending
<1>3. ASSUME NEW w \in Workers, NEW n \in JobMessage, Deliver(w, n) PROVE Pending(m)'
  <2>1. CASE jobsQueue[m] > 0 /\ n = m
    <3>1. msg'[w] = m /\ connected'[w] /\ pc'[w] # "settle"
      BY <1>3, <1>t, <2>1 DEF Deliver
    <3> QED BY <3>1 DEF Pending
  <2>2. CASE jobsQueue[m] > 0 /\ n # m
    BY <1>3, <1>t, <2>2 DEF Deliver, Consume, Take, Pending
  <2>3. CASE retryQueue[m] > 0
    BY <1>3, <2>3 DEF Deliver, Consume, Pending
  <2>4. CASE \E v \in Workers : msg[v] = m /\ connected[v] /\ pc[v] # "settle"
    <3>1. PICK v \in Workers : msg[v] = m /\ connected[v] /\ pc[v] # "settle"
      BY <2>4
    <3>2. v # w
      BY <1>3, <3>1, WorkerAssumption DEF Deliver, TypeOK
    <3>3. msg'[v] = m /\ connected'[v] /\ pc'[v] # "settle"
      BY <1>3, <1>t, <3>1, <3>2 DEF Deliver
    <3> QED BY <3>3 DEF Pending
  <2> QED BY <2>1, <2>2, <2>3, <2>4 DEF Pending
<1>4. CASE UploadNext /\ UNCHANGED <<store, worker>>
  <2>1. UNCHANGED queues \/ \E n : PublishJob(n)
    BY <1>4 DEF UploadNext, HandleUpload, StoreDocument, RecordDocument, CompensateDocument,
       RegisterJob, AnnounceJob, RejectJob, ApiCrash, LoseApiConnection, DuplicateMessage
  <2>2. (jobsQueue[m] > 0 => jobsQueue'[m] > 0) /\ retryQueue' = retryQueue
    BY <1>t, <2>1 DEF queues, PublishJob, Put
  <2>3. Pending(m)'
    BY <1>4, <2>2 DEF Pending, worker
  <2> QED BY <1>s, <2>3
<1>5. CASE \E n \in JobMessage : RetryExpires(n)
  <2>1. PICK n \in JobMessage : RetryExpires(n)
    BY <1>5
  <2>2. jobsQueue'[m] > 0 \/ retryQueue'[m] > 0 \/ UNCHANGED <<jobsQueue[m], retryQueue[m]>>
    BY <1>t, <2>1 DEF RetryExpires, RetryElapses, Put, Take
  <2>3. Pending(m)'
    BY <2>1, <2>2 DEF RetryExpires, Pending, worker
  <2> QED BY <1>s, <2>3
<1> QED BY <1>s, <1>1, <1>2, <1>3, <1>4, <1>5 DEF Next, vars, WorkerNext, LeaseExpires

\* An accepted job that has not ended keeps a message.
LEMMA NoLostJobStep ==
    ASSUME {"db", "lost", "apiConnection"} \cap FaultKinds = {}
    PROVE  TypeOK /\ AttemptsBounded /\ JobMade /\ apiConnected /\ NoLostJob /\ [Next]_vars
               => NoLostJob'
<1> SUFFICES ASSUME TypeOK, AttemptsBounded, JobMade, apiConnected, NoLostJob, [Next]_vars,
                    NEW j \in Jobs, api'[j] = "accepted", status'[j] \notin Terminal
             PROVE  \E m \in JobMessage : m.job = j /\ Pending(m)'
  BY DEF NoLostJob
<1>1. CASE api[j] = "accepted"
  <2>1. status[j] \notin Terminal /\ status[j] # "none"
    BY <1>1, TerminalStep DEF JobMade
  <2>2. PICK m \in JobMessage : m.job = j /\ Pending(m)
    BY <1>1, <2>1 DEF NoLostJob
  <2>3. PendingOn(m)'
    BY <2>1, <2>2, PendingStep DEF MovedToDLQ, Needless, Ends, Terminal
  <2> QED BY <2>2, <2>3, NextIsMessage DEF PendingOn
<1>2. CASE api[j] # "accepted"
  <2>1. AnnounceJob(j)
    BY <1>2 DEF Next, vars, worker, upload, UploadNext, HandleUpload, StoreDocument, RecordDocument,
       CompensateDocument, RegisterJob, AnnounceJob, RejectJob, ApiCrash, LoseApiConnection,
       DuplicateMessage, Proceed, LeaseExpires, RetryExpires, TypeOK
  <2>2. FirstAttempt(j) \in JobMessage /\ FirstAttempt(j).job = j
    BY RetriesAssumption DEF FirstAttempt, JobMessage
  <2>3. jobsQueue'[FirstAttempt(j)] > 0
    BY <2>1, <2>2 DEF AnnounceJob, PublishJob, Put, TypeOK, Bag
  <2> QED BY <2>2, <2>3 DEF Pending
<1> QED BY <1>1, <1>2

\* Without an unreported database error, a lost answer, or an API without its
\* connection, no crash of a worker or of the API, no disconnection, no retry, no
\* deferral and no takeover, however late, loses an accepted job.
THEOREM NoJobLost ==
    ASSUME {"db", "lost", "apiConnection"} \cap FaultKinds = {}
    PROVE  Spec => []NoLostJob
<1> DEFINE Inv == TypeOK /\ AttemptsBounded /\ JobMade /\ apiConnected /\ NoLostJob
<1>1. Init => Inv
  BY TypeInit, MessageInit, UploadInvInit DEF Init, UploadInit, NoLostJob
<1>2. Inv /\ [Next]_vars => Inv'
  <2>1. apiConnected /\ [Next]_vars => apiConnected'
    BY DEF Next, vars, upload, UploadNext, HandleUpload, StoreDocument, RecordDocument,
       CompensateDocument, RegisterJob, AnnounceJob, RejectJob, ApiCrash, LoseApiConnection,
       DuplicateMessage, LeaseExpires, RetryExpires, Fault
  <2> QED BY <2>1, TypeStep, AttemptsStep, JobMadeStep, NoLostJobStep
<1>3. Inv => NoLostJob
  OBVIOUS
<1> HIDE DEF Inv
<1> QED BY <1>1, <1>2, <1>3, PTL DEF Spec

-------------------------------------------------------------------------------
(* The last message of a job that could not be read. *)

\* The last attempt is a message of its job.
LEMMA LastIsMessage == \A j \in Jobs : LastAttempt(j) \in JobMessage
BY RetriesAssumption DEF LastAttempt, JobMessage

\* A message that a worker has in hand after a step it had before, or the step
\* has just delivered it to a connected worker.
LEMMA MessageInHand ==
    ASSUME TypeOK, [Next]_vars, NEW w \in Workers, pc'[w] # "settle", msg'[w] \in JobMessage
    PROVE  \/ msg[w] = msg'[w] /\ pc[w] # "settle"
           \/ connected'[w]
<1>t. /\ pc \in [Workers -> Stages] /\ msg \in [Workers -> JobMessage \cup {NoMessage}]
      /\ connected \in [Workers -> BOOLEAN]
  BY DEF TypeOK
<1>1. CASE \E v \in Workers, m \in JobMessage : Deliver(v, m)
  BY <1>1, <1>t, WorkerAssumption DEF Deliver, TypeOK
<1>2. CASE \E v \in Workers : Handle(v) \/ Crash(v) \/ LoseConnection(v)
  BY <1>2, <1>t, WorkerAssumption DEF Handle, LoadJob, ClaimJob, DeferJob, LoadDocument,
     FetchDocument, RequeueForRetry, ScheduleRetry, ExhaustJob, MoveToDLQ, RecordInvalidBundle,
     UploadObject, PersistBundle, CompleteJob, CleanupObject, FailJob, Settle, Restart, Crash,
     LoseConnection, NackRequeue, Go, Forget
<1>3. CASE UNCHANGED worker
  BY <1>3 DEF worker
<1> QED BY <1>1, <1>2, <1>3 DEF Next, vars, WorkerNext, LeaseExpires, RetryExpires

\* Only the upload of a job makes its row.
LEMMA OnlyUploadMakes == TypeOK /\ [Next]_vars =>
    \A j \in Jobs : status[j] = "none" /\ api[j] # "job" => status'[j] = "none"
<1> SUFFICES ASSUME TypeOK, [Next]_vars, NEW j \in Jobs, status[j] = "none", api[j] # "job"
             PROVE  status'[j] = "none"
  OBVIOUS
<1> USE DEF jobTable, UpdateRow
<1>t. status \in [Jobs -> Statuses]
  BY DEF TypeOK
<1>1. CASE UNCHANGED vars
  BY <1>1 DEF vars
<1>2. CASE WorkerNext
  <2> SUFFICES ASSUME NEW w \in Workers,
                      \/ Handle(w) \/ Crash(w) \/ LoseConnection(w)
                      \/ \E m \in JobMessage : Deliver(w, m)
               PROVE  status'[j] = "none"
    BY <1>2 DEF WorkerNext
  <2>1. \/ UNCHANGED status
        \/ \E i : ClaimJobForProcessing(i) \/ RequeueJob(i)
        \/ \E i, f : UpdateJobStatus(i, "failed", f) \/ UpdateJobStatus(i, "completed", f)
    BY DEF Handle, LoadJob, ClaimJob, DeferJob, LoadDocument, FetchDocument, RequeueForRetry,
           ScheduleRetry, ExhaustJob, MoveToDLQ, RecordInvalidBundle, UploadObject,
           PersistBundle, CompleteJob, CleanupObject, FailJob, Settle, Restart, Crash,
           LoseConnection, Deliver
  <2> QED BY <2>1, <1>t DEF ClaimJobForProcessing, Claimable, RequeueJob, Requeueable,
                          UpdateJobStatus
<1>3. CASE UploadNext
  BY <1>3, <1>t DEF UploadNext, HandleUpload, StoreDocument, RecordDocument, CompensateDocument,
     RegisterJob, AnnounceJob, RejectJob, ApiCrash, LoseApiConnection, DuplicateMessage,
     CreateJob, UpdateJobStatus
<1>4. CASE \/ \E i \in Jobs : LeaseExpires(i)
           \/ \E m \in JobMessage : RetryExpires(m)
  BY <1>4 DEF LeaseExpires, LeaseElapses, RetryExpires
<1> QED BY <1>1, <1>2, <1>3, <1>4 DEF Next

\* The last message of a job that goes on is kept, whoever holds it.
LEMMA LastKeptStep ==
    ASSUME {"db", "lost"} \cap FaultKinds = {}
    PROVE  TypeOK /\ ClaimInv /\ AttemptsBounded /\ LastKept /\ [Next]_vars => LastKept'
<1> SUFFICES ASSUME TypeOK, ClaimInv, AttemptsBounded, LastKept, [Next]_vars,
                    NEW w \in Workers, NEW j \in Jobs,
                    msg'[w] = LastAttempt(j), pc'[w] # "settle",
                    status'[j] \in {"queued", "processing"}
             PROVE  Pending(LastAttempt(j))'
  BY DEF LastKept
<1> DEFINE m == LastAttempt(j)
<1>m. m \in JobMessage /\ m.job = j /\ m.attempt = MaxRetries
  BY LastIsMessage DEF LastAttempt
<1>1. CASE connected'[w]
  BY <1>1, <1>m DEF Pending
<1>2. CASE msg[w] = m /\ pc[w] # "settle"
  <2>1. status[j] \notin Terminal
    BY TerminalStep DEF Terminal
  <2>2. status[j] # "none"
    <3>1. api[j] \in Ended
      BY <1>2, <1>m DEF ClaimInv, Unannounced
    <3> QED BY <3>1, OnlyUploadMakes DEF Ended
  <2>3. status[j] \in {"queued", "processing"}
    BY <2>1, <2>2 DEF TypeOK, Statuses, Terminal
  <2>4. Pending(m)
    BY <1>2, <2>3 DEF LastKept
  <2>5. PendingOn(m)'
    BY <1>m, <2>3, <2>4, PendingStep DEF MovedToDLQ, Needless, Ends, Terminal
  <2> QED BY <1>m, <2>5, RetriesAssumption DEF PendingOn
<1> QED BY <1>1, <1>2, <1>m, MessageInHand

\* The DLQ is never consumed.
LEMMA DlqKept == TypeOK /\ [Next]_vars =>
    \A m \in JobMessage : dlq[m] > 0 => dlq'[m] > 0
<1> SUFFICES ASSUME TypeOK, [Next]_vars, NEW m \in JobMessage, dlq[m] > 0 PROVE dlq'[m] > 0
  OBVIOUS
<1>1. UNCHANGED dlq \/ \E n : PublishJobDLQ(n)
  BY DEF Next, vars, queues, WorkerNext, Handle, LoadJob, ClaimJob, DeferJob, LoadDocument,
     FetchDocument, RequeueForRetry, ScheduleRetry, ExhaustJob, MoveToDLQ, RecordInvalidBundle,
     UploadObject, PersistBundle, CompleteJob, CleanupObject, FailJob, Settle, Restart, Crash,
     LoseConnection, Deliver, NackRequeue, Return, Consume, PublishJob, PublishJobRetry,
     PublishJobDeferred, UploadNext, HandleUpload, StoreDocument, RecordDocument,
     CompensateDocument, RegisterJob, AnnounceJob, RejectJob, ApiCrash, LoseApiConnection,
     DuplicateMessage, LeaseExpires, RetryExpires, RetryElapses
<1> QED BY <1>1 DEF PublishJobDLQ, Put, TypeOK, Bag

\* Only failJobToDLQ fails a job because its document could not be read.
LEMMA OnlyExhaustionFails == TypeOK /\ ClaimInv /\ [Next]_vars => \A j \in Jobs :
    /\ status'[j] = "failed" /\ failure'[j] = "fetch"
    /\ ~(status[j] = "failed" /\ failure[j] = "fetch")
    => \E w \in Workers : pc[w] = "exhaust" /\ msg[w].job = j
<1> SUFFICES ASSUME TypeOK, ClaimInv, [Next]_vars, NEW j \in Jobs,
                    status'[j] = "failed", failure'[j] = "fetch",
                    ~(status[j] = "failed" /\ failure[j] = "fetch")
             PROVE  \E w \in Workers : pc[w] = "exhaust" /\ msg[w].job = j
  OBVIOUS
<1>t. status \in [Jobs -> Statuses] /\ failure \in [Jobs -> Failures]
  BY DEF TypeOK
<1>1. \/ UNCHANGED <<status, failure>>
      \/ \E i : \/ UpdateRow(i, "queued", "none") \/ UpdateRow(i, "processing", "none")
                \/ UpdateRow(i, "queued", "fetch") \/ UpdateRow(i, "failed", "publish")
                \/ UpdateRow(i, "failed", "bundle") \/ UpdateRow(i, "completed", "none")
      \/ \E w \in Workers : pc[w] = "exhaust" /\ UpdateRow(msg[w].job, "failed", "fetch")
  BY DEF Next, vars, jobTable, WorkerNext, Handle, LoadJob, ClaimJob, DeferJob, LoadDocument,
     FetchDocument, RequeueForRetry, ScheduleRetry, ExhaustJob, MoveToDLQ, RecordInvalidBundle,
     UploadObject, PersistBundle, CompleteJob, CleanupObject, FailJob, Settle, Restart, Crash,
     LoseConnection, Deliver, UploadNext, HandleUpload, StoreDocument, RecordDocument,
     CompensateDocument, RegisterJob, AnnounceJob, RejectJob, ApiCrash, LoseApiConnection,
     DuplicateMessage, LeaseExpires, LeaseElapses, RetryExpires, CreateJob,
     ClaimJobForProcessing, RequeueJob, UpdateJobStatus
<1>2. CASE UNCHANGED <<status, failure>>
  BY <1>2
<1>3. ASSUME NEW i, NEW s, NEW f, UpdateRow(i, s, f), s # "failed" \/ f # "fetch" PROVE FALSE
  BY <1>3, <1>t DEF UpdateRow
<1>4. ASSUME NEW w \in Workers, pc[w] = "exhaust", UpdateRow(msg[w].job, "failed", "fetch")
      PROVE  msg[w].job = j
  BY <1>4, <1>t DEF UpdateRow
<1>5. ~\E i : \/ UpdateRow(i, "queued", "none") \/ UpdateRow(i, "processing", "none")
              \/ UpdateRow(i, "queued", "fetch") \/ UpdateRow(i, "failed", "publish")
              \/ UpdateRow(i, "failed", "bundle") \/ UpdateRow(i, "completed", "none")
  BY <1>3
<1> QED BY <1>1, <1>2, <1>4, <1>5

\* Once a job has failed for good, its last message is in the DLQ or on its way.
LEMMA ExhaustedStep ==
    ASSUME {"db", "lost"} \cap FaultKinds = {}
    PROVE  TypeOK /\ ClaimInv /\ AttemptsBounded /\ LastKept /\ ExhaustedReachesDLQ /\ [Next]_vars
               => ExhaustedReachesDLQ'
<1> SUFFICES ASSUME TypeOK, ClaimInv, AttemptsBounded, LastKept, ExhaustedReachesDLQ,
                    [Next]_vars, NEW j \in Jobs, status'[j] = "failed", failure'[j] = "fetch"
             PROVE  dlq'[LastAttempt(j)] > 0 \/ Pending(LastAttempt(j))'
  BY DEF ExhaustedReachesDLQ, LastAttempt
<1> DEFINE m == LastAttempt(j)
<1>m. m \in JobMessage /\ m.job = j /\ m.attempt = MaxRetries
  BY LastIsMessage DEF LastAttempt
<1>p. PendingOn(m)' => Pending(m)'
  BY <1>m, RetriesAssumption DEF PendingOn
<1>1. CASE status[j] = "failed" /\ failure[j] = "fetch"
  <2>1. dlq[m] > 0 \/ Pending(m)
    BY <1>1 DEF ExhaustedReachesDLQ, LastAttempt
  <2>2. CASE dlq[m] > 0
    BY <1>m, <2>2, DlqKept
  <2>3. CASE Pending(m)
    <3>1. ~Needless(m)
      BY <1>1, <1>m DEF Needless
    <3>2. ~Ends(m)
      BY <1>1, <1>m DEF Ends, ClaimInv, ClaimHeld, Working, Pipeline
    <3> QED BY <1>m, <1>p, <2>3, <3>1, <3>2, PendingStep DEF MovedToDLQ
  <2> QED BY <2>1, <2>2, <2>3
<1>2. CASE ~(status[j] = "failed" /\ failure[j] = "fetch")
  <2>1. PICK w \in Workers : pc[w] = "exhaust" /\ msg[w].job = j
    BY <1>2, OnlyExhaustionFails
  <2>2. Working(w, j) /\ status[j] = "processing"
    BY <2>1 DEF ClaimInv, ClaimHeld, Working, Pipeline
  <2>3. msg[w] = m
    BY <2>1 DEF AttemptsBounded, LastAttempt, JobMessage, TypeOK
  <2>4. Pending(m)
    BY <2>1, <2>2, <2>3 DEF LastKept
  <2>5. ~Ends(m)
    BY <1>m, <2>1, <2>2 DEF Ends, ClaimInv, ClaimExclusive, Working, Pipeline
  <2>6. PendingOn(m)'
    BY <1>m, <2>2, <2>4, <2>5, PendingStep DEF MovedToDLQ, Needless, Terminal
  <2> QED BY <1>p, <2>6
<1> QED BY <1>1, <1>2

\* While leases outlast the work and the database answers, a job that failed
\* because its document could not be read leaves its last message in the DLQ,
\* through crashes and disconnections inside failJobToDLQ.
THEOREM ExhaustedReach ==
    ASSUME {"slow", "db", "lost"} \cap FaultKinds = {}
    PROVE  Spec => []ExhaustedReachesDLQ
<1> DEFINE Inv == AttemptsBounded /\ LastKept /\ ExhaustedReachesDLQ
<1>1. Init => Inv
  BY MessageInit DEF Init, JobTableInit, ExhaustedReachesDLQ
<1>2. (TypeOK /\ PublicationInv /\ ClaimInv) /\ Inv /\ [Next]_vars => Inv'
  BY AttemptsStep, LastKeptStep, ExhaustedStep
<1>3. Inv => ExhaustedReachesDLQ
  OBVIOUS
<1>4. "slow" \notin FaultKinds
  OBVIOUS
<1> HIDE DEF Inv
<1> QED BY <1>4, TimelyInvariant, <1>1, <1>2, <1>3, PTL DEF Spec

-------------------------------------------------------------------------------
(* What a failed job leaves in the storage. *)

\* A step of a worker leaves what it does not work on alone.
LEMMA ObjectsOfOthers ==
    ASSUME {"crash", "db", "lost", "delete"} \cap FaultKinds = {}, TypeOK, ClaimInv,
           NEW w \in Workers, NEW j \in Jobs, ~Working(w, j),
           \/ Handle(w) \/ Crash(w) \/ LoseConnection(w)
           \/ \E m \in JobMessage : Deliver(w, m)
    PROVE  /\ objects'[j] = objects[j]
           /\ \A v \in Workers : Working(v, j) => Working(v, j)' /\ keys'[v] = keys[v]
<1>t. /\ pc \in [Workers -> Stages] /\ msg \in [Workers -> JobMessage \cup {NoMessage}]
      /\ keys \in [Workers -> SUBSET Keys] /\ objects \in [Jobs -> SUBSET Keys]
  BY DEF TypeOK
<1>1. objects' = objects \/ (pc[w] \in Pipeline /\ \E S : objects' = [objects EXCEPT ![msg[w].job] = S])
  BY DEF Handle, LoadJob, ClaimJob, DeferJob, LoadDocument,
     FetchDocument, RequeueForRetry, ScheduleRetry, ExhaustJob, MoveToDLQ, RecordInvalidBundle,
     UploadObject, PersistBundle, CompleteJob, CleanupObject, FailJob, Settle, Restart, Crash,
     LoseConnection, Deliver, store, CreateBundle, PutObject, DeleteObject, Pipeline
<1>2. objects'[j] = objects[j]
  BY <1>1, <1>t DEF Working
<1>3. \A v \in Workers \ {w} : pc'[v] = pc[v] /\ msg'[v] = msg[v] /\ keys'[v] = keys[v]
  BY <1>t DEF Handle, LoadJob, ClaimJob, DeferJob, LoadDocument,
     FetchDocument, RequeueForRetry, ScheduleRetry, ExhaustJob, MoveToDLQ, RecordInvalidBundle,
     UploadObject, PersistBundle, CompleteJob, CleanupObject, FailJob, Settle, Restart, Crash,
     LoseConnection, Deliver, NackRequeue, Go, Forget
<1> QED BY <1>2, <1>3 DEF Working

\* The worker of a job accounts for its objects until the job has ended.
LEMMA ObjectsOfWorker ==
    ASSUME {"crash", "db", "lost", "delete"} \cap FaultKinds = {}, TypeOK, ClaimInv,
           NEW w \in Workers, NEW j \in Jobs, Working(w, j), objects[j] \subseteq keys[w],
           \/ Handle(w) \/ Crash(w) \/ LoseConnection(w)
           \/ \E m \in JobMessage : Deliver(w, m)
    PROVE  \/ status'[j] = "completed" \/ objects'[j] = {}
           \/ Working(w, j)' /\ objects'[j] \subseteq keys'[w]
<1>n. ~Fault("db") /\ ~Fault("lost") /\ ~Fault("crash") /\ ~Fault("delete")
  BY DEF Fault
<1>t. /\ pc \in [Workers -> Stages] /\ msg \in [Workers -> JobMessage \cup {NoMessage}]
      /\ keys \in [Workers -> SUBSET Keys] /\ objects \in [Jobs -> SUBSET Keys]
      /\ status \in [Jobs -> Statuses] /\ verdict \in [Jobs -> Verdicts]
  BY DEF TypeOK
<1>j. msg[w].job = j /\ pc[w] \in Pipeline
  BY DEF Working
<1>e. pc[w] \in {"requeue", "exhaust"} => objects[j] = {}
  BY <1>t DEF ClaimInv, KeysStored
<1> USE <1>n, <1>t, <1>j DEF Go, Working, Pipeline
<1>1. CASE LoadDocument(w) \/ FetchDocument(w) \/ RecordInvalidBundle(w) \/ PersistBundle(w)
  <2>1. objects' = objects /\ msg' = msg /\ keys' = keys /\ pc'[w] \in Pipeline
    BY <1>1 DEF LoadDocument, FetchDocument, RecordInvalidBundle, PersistBundle, store,
       AfterConversion, Verdicts, CreateBundle
  <2> QED BY <2>1
<1>2. CASE RequeueForRetry(w) \/ ExhaustJob(w)
  BY <1>e, <1>2 DEF RequeueForRetry, ExhaustJob, store
<1>3. CASE UploadObject(w)
  BY <1>3 DEF UploadObject, PutObject, store
<1>4. CASE CompleteJob(w)
  BY <1>4 DEF CompleteJob, UpdateJobStatus, UpdateRow
<1>5. CASE CleanupObject(w)
  BY <1>5 DEF CleanupObject, DeleteObject
<1>6. CASE FailJob(w)
  BY <1>6 DEF FailJob, store
<1>7. CASE LoseConnection(w)
  BY <1>7 DEF LoseConnection, store
<1> QED BY <1>1, <1>2, <1>3, <1>4, <1>5, <1>6, <1>7 DEF Handle, LoadJob, ClaimJob, DeferJob,
           ScheduleRetry, MoveToDLQ, Settle, Restart, Crash, Deliver

\* Every step keeps the account of the objects of unfinished jobs.
LEMMA CleanupStep ==
    ASSUME {"slow", "crash", "db", "lost", "delete"} \cap FaultKinds = {}
    PROVE  TypeOK /\ ClaimInv /\ CleanupInv /\ [Next]_vars => CleanupInv'
<1> SUFFICES ASSUME TypeOK, ClaimInv, CleanupInv, [Next]_vars, NEW j \in Jobs
             PROVE  \/ status'[j] = "completed" \/ objects'[j] = {}
                    \/ \E v \in Workers : Working(v, j)' /\ objects'[j] \subseteq keys'[v]
  BY DEF CleanupInv
<1> DEFINE Kept == \/ status'[j] = "completed" \/ objects'[j] = {}
                   \/ \E v \in Workers : Working(v, j)' /\ objects'[j] \subseteq keys'[v]
<1>0. CASE status[j] = "completed"
  BY <1>0, FailedStays DEF Terminal
<1>1. CASE UNCHANGED <<store, worker>> /\ status[j] # "completed"
  BY <1>1 DEF CleanupInv, store, worker, Working
<1>2. ASSUME NEW w \in Workers, status[j] # "completed",
             \/ Handle(w) \/ Crash(w) \/ LoseConnection(w)
             \/ \E m \in JobMessage : Deliver(w, m)
      PROVE  Kept
  <2>1. CASE ~Working(w, j)
    <3>1. objects'[j] = objects[j]
          /\ \A v \in Workers : Working(v, j) => Working(v, j)' /\ keys'[v] = keys[v]
      BY <1>2, <2>1, ObjectsOfOthers
    <3>2. CASE objects[j] = {}
      BY <3>1, <3>2
    <3>3. CASE \E v \in Workers : Working(v, j) /\ objects[j] \subseteq keys[v]
      BY <3>1, <3>3
    <3> QED BY <1>2, <3>2, <3>3 DEF CleanupInv
  <2>2. CASE Working(w, j)
    <3>1. objects[j] \subseteq keys[w]
      <4>1. CASE objects[j] = {}
        BY <4>1
      <4>2. CASE \E v \in Workers : Working(v, j) /\ objects[j] \subseteq keys[v]
        BY <2>2, <4>2 DEF ClaimInv, ClaimExclusive
      <4> QED BY <1>2, <4>1, <4>2 DEF CleanupInv
    <3> QED BY <1>2, <2>2, <3>1, ObjectsOfWorker
  <2> QED BY <2>1, <2>2
<1> QED BY <1>0, <1>1, <1>2 DEF Next, vars, WorkerNext, LeaseExpires, RetryExpires

\* While leases outlast the work, workers live, and storage and database answer,
\* a failed job leaves no object behind.
THEOREM FailedJobsClean ==
    ASSUME {"slow", "crash", "db", "lost", "delete"} \cap FaultKinds = {}
    PROVE  Spec => []CleanupComplete
<1>1. Init => CleanupInv
  BY DEF Init, BundleStoreInit, CleanupInv
<1>2. (TypeOK /\ PublicationInv /\ ClaimInv) /\ CleanupInv /\ [Next]_vars => CleanupInv'
  BY CleanupStep
<1>3. ClaimInv /\ CleanupInv => CleanupComplete
  BY DEF ClaimInv, ClaimHeld, CleanupInv, CleanupComplete
<1>4. "slow" \notin FaultKinds
  OBVIOUS
<1> QED BY <1>4, TimelyInvariant, <1>1, <1>2, <1>3, PTL DEF Spec
==============================================================================
