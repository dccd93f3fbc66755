----------------------------- MODULE UploadService -----------------------------
(***************************************************************************)
(* POST /documents: DocumentService.CreateDocument followed by             *)
(* ProcessingService.CreateProcessingJob (internal/application).  Every job *)
(* of Jobs is the job one upload would create; api[j] is the next call of   *)
(* that upload's handler.                                                   *)
(***************************************************************************)
EXTENDS Faults, JobTable, JobQueue

VARIABLES
    api,            \* the stage of each upload
    documents,      \* the uploads whose source document is in MinIO
    documentRows,   \* the uploads with a row in documents
    apiConnected    \* whether the API's RabbitMQ connection is alive

upload == <<api, documents, documentRows, apiConnected>>

\* An upload has ended when its client has been answered, or never will be.
Ended == {"accepted", "refused"}
InFlight == {"record", "compensate", "job", "publish", "reject"}
UploadStages == {"idle"} \cup InFlight \cup Ended

UploadInit == /\ api = [j \in Jobs |-> "idle"]
              /\ documents = {}
              /\ documentRows = {}
              /\ apiConnected = TRUE

Proceed(j, stage) == api' = [api EXCEPT ![j] = stage]

\* DocumentService.CreateDocument: PutObject, CreateDocument, and on an error
\* the DeleteObject whose result nobody looks at.
StoreDocument(j) ==
    /\ api[j] = "idle"
    /\ \/ NoFault /\ documents' = documents \cup {j} /\ Proceed(j, "record")
       \/ Fault("put") /\ UNCHANGED documents /\ Proceed(j, "refused")
       \/ Fault("lost") /\ documents' = documents \cup {j} /\ Proceed(j, "refused")
    /\ UNCHANGED <<documentRows, apiConnected, jobTable, queues>>

RecordDocument(j) ==
    /\ api[j] = "record"
    /\ \/ NoFault /\ documentRows' = documentRows \cup {j} /\ Proceed(j, "job")
       \/ Fault("apiDb") /\ UNCHANGED documentRows /\ Proceed(j, "compensate")
       \/ Fault("lost") /\ documentRows' = documentRows \cup {j} /\ Proceed(j, "compensate")
    /\ UNCHANGED <<documents, apiConnected, jobTable, queues>>

\* Mutant of CompensateDocument: no compensation.
CompensateDocumentSkipped(j) ==
    /\ api[j] = "compensate"
    /\ NoFault /\ Proceed(j, "refused")
    /\ UNCHANGED <<documents, documentRows, apiConnected, jobTable, queues>>

CompensateDocument(j) ==
    /\ api[j] = "compensate"
    /\ \/ NoFault /\ documents' = documents \ {j}
       \/ Fault("delete") /\ UNCHANGED documents
    /\ Proceed(j, "refused")
    /\ UNCHANGED <<documentRows, apiConnected, jobTable, queues>>

\* ProcessingService.CreateProcessingJob: CreateJob, PublishJob, and on an
\* error of PublishJob the job is marked failed.
RegisterJob(j) ==
    /\ api[j] = "job"
    /\ \/ NoFault /\ CreateJob(j) /\ Proceed(j, "publish")
       \/ Fault("apiDb") /\ UNCHANGED jobTable /\ Proceed(j, "refused")
       \/ Fault("lost") /\ CreateJob(j) /\ Proceed(j, "refused")
    /\ UNCHANGED <<documents, documentRows, apiConnected, queues>>

\* There are no publisher confirms: on a dying connection PublishJob may
\* succeed although no broker ever sees the message.
AnnounceJob(j) ==
    /\ api[j] = "publish"
    /\ \/ apiConnected /\ PublishJob(FirstAttempt(j)) /\ Proceed(j, "accepted")
       \/ ~apiConnected /\ UNCHANGED queues /\ Proceed(j, "accepted")
       \/ ~apiConnected /\ UNCHANGED queues /\ Proceed(j, "reject")
    /\ NoFault /\ UNCHANGED <<documents, documentRows, apiConnected, jobTable>>

RejectJob(j) ==
    /\ api[j] = "reject"
    /\ \/ NoFault /\ UpdateJobStatus(j, "failed", "publish")
       \/ Fault("apiDb") /\ UNCHANGED jobTable
       \/ Fault("lost") /\ UpdateJobStatus(j, "failed", "publish")
    /\ Proceed(j, "refused")
    /\ UNCHANGED <<documents, documentRows, apiConnected, queues>>

-------------------------------------------------------------------------------
\* The API dies with the uploads it was handling, and its container restarts.
ApiCrash ==
    /\ Fault("apiCrash")
    /\ api' = [j \in Jobs |-> IF api[j] \in InFlight THEN "refused" ELSE api[j]]
    /\ apiConnected' = TRUE
    /\ UNCHANGED <<documents, documentRows, jobTable, queues>>

\* Nothing in the API dials RabbitMQ again.
LoseApiConnection ==
    /\ apiConnected /\ Fault("apiConnection")
    /\ apiConnected' = FALSE
    /\ UNCHANGED <<api, documents, documentRows, jobTable, queues>>

\* A message for an upload that ended, or that never made a job, is published
\* again: by hand, as in the README's redelivery checks, or out of the DLQ.
DuplicateMessage(m) ==
    /\ api[m.job] \in Ended
    /\ Fault("duplicate")
    /\ PublishJob(m)
    /\ UNCHANGED <<upload, jobTable>>

HandleUpload(j) ==
    \/ StoreDocument(j) \/ RecordDocument(j) \/ CompensateDocument(j)
    \/ RegisterJob(j) \/ AnnounceJob(j) \/ RejectJob(j)

UploadNext ==
    \/ \E j \in Jobs : HandleUpload(j)
    \/ ApiCrash \/ LoseApiConnection
    \/ \E m \in JobMessage : DuplicateMessage(m)
==============================================================================
