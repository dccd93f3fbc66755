-------------------------------- MODULE Worker --------------------------------
(***************************************************************************)
(* The worker processes: the consume loop of cmd/worker/main.go, cut at     *)
(* every call that other processes can observe.  pc[w] names the call that  *)
(* worker w is about to make for the message it holds.  The conversion      *)
(* itself (package okf) is a deterministic function of the document, so its *)
(* outcome is fixed per job in verdict.                                     *)
(***************************************************************************)
EXTENDS Faults, JobTable, JobQueue, BundleStore

CONSTANTS Workers, NoMessage

ASSUME WorkerAssumption == NoMessage \notin JobMessage

VARIABLES
    pc,          \* the worker's next call
    msg,         \* the delivery in hand
    connected,   \* whether the worker's RabbitMQ connection is alive
    keys,        \* uploadedKeys: the objects this delivery has stored
    verdict      \* what Convert, BuildBundle and ValidateBundle say of a job

worker == <<pc, msg, connected, keys>>

\* The stages in which the worker owns a claim on the job of its message.
Pipeline == {"document", "fetch", "requeue", "exhaust", "record", "upload",
             "bundle", "complete", "fail"}
Stages == {"idle", "load", "claim", "defer", "retry", "dlq", "settle"} \cup Pipeline

Verdicts == {"unconvertible", "invalid", "publishable"}
\* Mutant of AfterConversion: the validation result is not looked at.
AfterConversionUnchecked ==
    [unconvertible |-> "fail", invalid |-> "upload", publishable |-> "upload"]

AfterConversion == [unconvertible |-> "fail", invalid |-> "record", publishable |-> "upload"]

WorkerInit == /\ pc = [w \in Workers |-> "idle"]
              /\ msg = [w \in Workers |-> NoMessage]
              /\ connected = [w \in Workers |-> TRUE]
              /\ keys = [w \in Workers |-> {}]
              /\ verdict \in [Jobs -> Verdicts]

Go(w, stage) == pc' = [pc EXCEPT ![w] = stage] /\ UNCHANGED <<msg, connected, keys>>

\* The loop turns to its next message.
Forget(w) == /\ pc' = [pc EXCEPT ![w] = "idle"]
             /\ msg' = [msg EXCEPT ![w] = NoMessage]
             /\ keys' = [keys EXCEPT ![w] = {}]

\* An unacknowledged delivery returns to its queue.  When the connection is
\* gone the broker has already returned it, and a Nack reaches nobody.
Return(w) == IF connected[w] THEN PublishJob(msg[w]) ELSE UNCHANGED queues

\* Nack(multiple = false, requeue = true)
NackRequeue(w) == Return(w) /\ Forget(w) /\ UNCHANGED connected

-------------------------------------------------------------------------------
Deliver(w, m) ==
    /\ pc[w] = "idle" /\ connected[w]
    /\ Consume(m)
    /\ pc' = [pc EXCEPT ![w] = "load"]
    /\ msg' = [msg EXCEPT ![w] = m]
    /\ NoFault
    /\ UNCHANGED <<connected, keys, jobTable, store>>

\* Mutants of AfterLoad: every failed job goes to the DLQ; no failed job does; a
\* completed job is processed again.
AfterLoadFailedToDLQ(m) ==
    CASE status[m.job] \in {"none", "completed"} -> "settle"
      [] status[m.job] = "failed" -> "dlq"
      [] OTHER -> "claim"
AfterLoadFailedSettled(m) ==
    IF status[m.job] \in {"none", "completed", "failed"} THEN "settle" ELSE "claim"
AfterLoadCompletedClaimed(m) ==
    CASE status[m.job] = "none" -> "settle"
      [] status[m.job] = "failed" -> IF m.attempt >= MaxRetries THEN "dlq" ELSE "settle"
      [] OTHER -> "claim"

\* Where the status read by GetJobByIDForProcessing sends the delivery.
AfterLoad(m) ==
    CASE status[m.job] \in {"none", "completed"} -> "settle"
      [] status[m.job] = "failed" -> IF m.attempt >= MaxRetries THEN "dlq" ELSE "settle"
      [] OTHER -> "claim"

LoadJob(w) ==
    /\ pc[w] = "load"
    /\ \/ NoFault /\ Go(w, AfterLoad(msg[w]))
       \/ Fault("db") /\ Go(w, "settle")
    /\ UNCHANGED <<jobTable, queues, store>>

ClaimJob(w) ==
    /\ pc[w] = "claim"
    /\ \/ NoFault /\ ClaimJobForProcessing(msg[w].job) /\ Go(w, "document")
       \/ NoFault /\ ~Claimable(msg[w].job) /\ UNCHANGED jobTable /\ Go(w, "defer")
       \/ Fault("db") /\ UNCHANGED jobTable /\ Go(w, "settle")
       \/ Fault("lost") /\ ClaimJobForProcessing(msg[w].job) /\ Go(w, "settle")
    /\ UNCHANGED <<queues, store>>

\* Mutant of DeferJob: a delivery that cannot be claimed is acknowledged.
DeferJobAcked(w) ==
    /\ pc[w] = "defer" /\ Go(w, "settle")
    /\ NoFault /\ UNCHANGED <<jobTable, queues, store>>

DeferJob(w) ==
    /\ pc[w] = "defer"
    /\ \/ connected[w] /\ PublishJobDeferred(msg[w]) /\ Go(w, "settle")
       \/ ~connected[w] /\ NackRequeue(w)
    /\ NoFault /\ UNCHANGED <<jobTable, store>>

LoadDocument(w) ==
    /\ pc[w] = "document"
    /\ \/ NoFault /\ Go(w, "fetch")
       \/ Fault("db") /\ Go(w, "settle")
    /\ UNCHANGED <<jobTable, queues, store>>

\* GetObject and ReadAll, then the conversion, which no other process sees.
FetchDocument(w) ==
    /\ pc[w] = "fetch"
    /\ \/ NoFault /\ Go(w, AfterConversion[verdict[msg[w].job]])
       \/ /\ Fault("fetch")
          /\ Go(w, IF msg[w].attempt >= MaxRetries THEN "exhaust" ELSE "requeue")
    /\ UNCHANGED <<jobTable, queues, store>>

\* retryJob, first half
RequeueForRetry(w) ==
    /\ pc[w] = "requeue"
    /\ \/ NoFault /\ RequeueJob(msg[w].job) /\ Go(w, "retry") /\ UNCHANGED queues
       \/ NoFault /\ ~Requeueable(msg[w].job) /\ UNCHANGED jobTable /\ NackRequeue(w)
       \/ Fault("db") /\ UNCHANGED jobTable /\ NackRequeue(w)
       \/ Fault("lost") /\ RequeueJob(msg[w].job) /\ NackRequeue(w)
    /\ UNCHANGED store

\* retryJob, second half
ScheduleRetry(w) ==
    /\ pc[w] = "retry"
    /\ \/ connected[w] /\ PublishJobRetry(msg[w]) /\ Go(w, "settle")
       \/ ~connected[w] /\ NackRequeue(w)
    /\ NoFault /\ UNCHANGED <<jobTable, store>>

\* failJobToDLQ, first half
ExhaustJob(w) ==
    /\ pc[w] = "exhaust"
    /\ \/ /\ NoFault /\ UpdateJobStatus(msg[w].job, "failed", "fetch")
          /\ Go(w, "dlq") /\ UNCHANGED queues
       \/ Fault("db") /\ UNCHANGED jobTable /\ NackRequeue(w)
       \/ Fault("lost") /\ UpdateJobStatus(msg[w].job, "failed", "fetch") /\ NackRequeue(w)
    /\ UNCHANGED store

\* failJobToDLQ, second half, and the delivery of a job that already failed
MoveToDLQ(w) ==
    /\ pc[w] = "dlq"
    /\ \/ connected[w] /\ PublishJobDLQ(msg[w]) /\ Go(w, "settle")
       \/ ~connected[w] /\ NackRequeue(w)
    /\ NoFault /\ UNCHANGED <<jobTable, store>>

-------------------------------------------------------------------------------
\* recordInvalidBundle: an error is only logged
RecordInvalidBundle(w) ==
    /\ pc[w] = "record"
    /\ \/ NoFault /\ CreateBundle(msg[w].job, "invalid")
       \/ NoFault /\ ~Insertable(msg[w].job) /\ UNCHANGED store
       \/ Fault("db") /\ UNCHANGED store
    /\ Go(w, "fail")
    /\ UNCHANGED <<jobTable, queues>>

\* Mutant of UploadObject: bundle.zip may be stored before the files.
UploadObjectUnordered(w) ==
    /\ pc[w] = "upload"
    /\ \E k \in Keys \ keys[w] :
        \/ /\ NoFault /\ PutObject(msg[w].job, k)
           /\ keys' = [keys EXCEPT ![w] = @ \cup {k}]
           /\ pc' = [pc EXCEPT ![w] = IF k = ZipKey THEN "bundle" ELSE "upload"]
           /\ UNCHANGED <<msg, connected>>
        \/ Fault("put") /\ UNCHANGED store /\ Go(w, "fail")
    /\ UNCHANGED <<jobTable, queues>>

\* One PutObject: the files of the bundle, then bundle.zip.
UploadObject(w) ==
    /\ pc[w] = "upload"
    /\ \E k \in Keys \ keys[w] :
        /\ k = ZipKey => Files \subseteq keys[w]
        /\ \/ /\ NoFault /\ PutObject(msg[w].job, k)
              /\ keys' = [keys EXCEPT ![w] = @ \cup {k}]
              /\ pc' = [pc EXCEPT ![w] = IF k = ZipKey THEN "bundle" ELSE "upload"]
              /\ UNCHANGED <<msg, connected>>
           \/ Fault("put") /\ UNCHANGED store /\ Go(w, "fail")
           \/ Fault("lost") /\ PutObject(msg[w].job, k) /\ Go(w, "fail")
    /\ UNCHANGED <<jobTable, queues>>

PersistBundle(w) ==
    /\ pc[w] = "bundle"
    /\ \/ NoFault /\ CreateBundle(msg[w].job, "valid") /\ Go(w, "complete")
       \/ NoFault /\ ~Insertable(msg[w].job) /\ UNCHANGED store /\ Go(w, "fail")
       \/ Fault("db") /\ UNCHANGED store /\ Go(w, "fail")
       \/ Fault("lost") /\ CreateBundle(msg[w].job, "valid") /\ Go(w, "fail")
    /\ UNCHANGED <<jobTable, queues>>

\* The job is marked completed; on an error the message is dropped all the same.
CompleteJob(w) ==
    /\ pc[w] = "complete"
    /\ \/ NoFault /\ UpdateJobStatus(msg[w].job, "completed", "none")
       \/ Fault("db") /\ UNCHANGED jobTable
       \/ Fault("lost") /\ UpdateJobStatus(msg[w].job, "completed", "none")
    /\ Go(w, "settle")
    /\ UNCHANGED <<queues, store>>

\* Mutant of CleanupObject: the row goes with the objects.
CleanupObjectAndRow(w) ==
    /\ pc[w] = "fail"
    /\ \E k \in keys[w] :
        /\ keys' = [keys EXCEPT ![w] = @ \ {k}]
        /\ objects' = [objects EXCEPT ![msg[w].job] = @ \ {k}]
    /\ bundles' = [bundles EXCEPT ![msg[w].job] = "none"]
    /\ NoFault /\ UNCHANGED <<pc, msg, connected, jobTable, queues>>

\* cleanupObjects: one key of uploadedKeys; an error is only logged.
CleanupObject(w) ==
    /\ pc[w] = "fail"
    /\ \E k \in keys[w] :
        /\ keys' = [keys EXCEPT ![w] = @ \ {k}]
        /\ \/ NoFault /\ DeleteObject(msg[w].job, k)
           \/ Fault("delete") /\ UNCHANGED store
    /\ UNCHANGED <<pc, msg, connected, jobTable, queues>>

\* Mutant of FailJob: uploadedKeys is not cleaned up.
FailJobUncleaned(w) ==
    /\ pc[w] = "fail"
    /\ NoFault /\ UpdateJobStatus(msg[w].job, "failed", "bundle")
    /\ Go(w, "settle")
    /\ UNCHANGED <<queues, store>>

\* Nothing is left to clean up and the job is marked failed.
FailJob(w) ==
    /\ pc[w] = "fail" /\ keys[w] = {}
    /\ \/ NoFault /\ UpdateJobStatus(msg[w].job, "failed", "bundle")
       \/ Fault("db") /\ UNCHANGED jobTable
       \/ Fault("lost") /\ UpdateJobStatus(msg[w].job, "failed", "bundle")
    /\ Go(w, "settle")
    /\ UNCHANGED <<queues, store>>

\* Ack, or Nack with requeue = false: the broker forgets the delivery.
Settle(w) ==
    /\ pc[w] = "settle"
    /\ Forget(w)
    /\ NoFault /\ UNCHANGED <<connected, jobTable, queues, store>>

-------------------------------------------------------------------------------
\* The process dies; its container restarts and connects again.
Crash(w) ==
    /\ pc[w] # "idle"
    /\ Fault("crash")
    /\ Return(w) /\ Forget(w)
    /\ connected' = [connected EXCEPT ![w] = TRUE]
    /\ UNCHANGED <<jobTable, store>>

\* The broker redelivers, while the worker goes on with the delivery it had.
LoseConnection(w) ==
    /\ pc[w] # "idle" /\ connected[w]
    /\ Fault("connection")
    /\ Return(w)
    /\ connected' = [connected EXCEPT ![w] = FALSE]
    /\ UNCHANGED <<pc, msg, keys, jobTable, store>>

\* range messages ends on a closed channel: the process exits and restarts.
Restart(w) ==
    /\ pc[w] = "idle" /\ ~connected[w]
    /\ connected' = [connected EXCEPT ![w] = TRUE]
    /\ NoFault /\ UNCHANGED <<pc, msg, keys, jobTable, queues, store>>

Handle(w) ==
    \/ LoadJob(w) \/ ClaimJob(w) \/ DeferJob(w) \/ LoadDocument(w) \/ FetchDocument(w)
    \/ RequeueForRetry(w) \/ ScheduleRetry(w) \/ ExhaustJob(w) \/ MoveToDLQ(w)
    \/ RecordInvalidBundle(w) \/ UploadObject(w) \/ PersistBundle(w) \/ CompleteJob(w)
    \/ CleanupObject(w) \/ FailJob(w) \/ Settle(w) \/ Restart(w)

WorkerNext == \E w \in Workers :
    \/ Handle(w) \/ Crash(w) \/ LoseConnection(w)
    \/ \E m \in JobMessage : Deliver(w, m)
==============================================================================
