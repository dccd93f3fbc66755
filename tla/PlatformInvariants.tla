-------------------------- MODULE PlatformInvariants --------------------------
(***************************************************************************)
(* The inductive invariants behind the safety properties of Platform.       *)
(***************************************************************************)
EXTENDS Platform

\* Only a publishable bundle is uploaded, and a worker about to complete its
\* job has seen its valid row inserted.  Holds under every kind of fault.
UploadsPublishable == \A w \in Workers :
    /\ pc[w] \in {"upload", "bundle", "complete"} => verdict[msg[w].job] = "publishable"
    /\ pc[w] = "complete" => bundles[msg[w].job] = "valid"

PublicationInv == UploadsPublishable /\ RejectedNeverStored /\ CompletedHasRow

-------------------------------------------------------------------------------
\* What follows needs leases that outlast the work: "slow" \notin FaultKinds.

\* The worker that executes a job's pipeline holds a claim nobody can take.
ClaimHeld == \A w \in Workers, j \in Jobs :
    Working(w, j) => status[j] = "processing" /\ j \notin expired

\* uploadedKeys names objects that are stored, is empty before the upload and
\* names all of them after it.
KeysStored == \A w \in Workers :
    /\ pc[w] \in Pipeline => keys[w] \subseteq objects[msg[w].job]
    /\ keys[w] # {} => pc[w] \in {"upload", "bundle", "complete", "fail", "settle"}
    /\ pc[w] \in {"bundle", "complete"} => keys[w] = Keys

\* Nobody knows a job before its upload has ended, and a job that is being
\* announced or rejected is still queued.
Unannounced == \A j \in Jobs :
    /\ api[j] \notin Ended => \A m \in JobMessage : m.job = j =>
        /\ jobsQueue[m] = 0 /\ retryQueue[m] = 0
        /\ \A w \in Workers : msg[w] # m
    /\ api[j] \in {"publish", "reject"} => status[j] = "queued"

ClaimInv == ClaimHeld /\ ClaimExclusive /\ KeysStored /\ Unannounced /\ CompletedBundleStored

\* What is left of a job in the storage before it completes is in uploadedKeys
\* of the worker that holds its claim.  Needs workers that neither die nor lose
\* the answer of a call, and a database and a storage that do not fail them.
CleanupInv == \A j \in Jobs :
    \/ status[j] = "completed" \/ objects[j] = {}
    \/ \E w \in Workers : Working(w, j) /\ objects[j] \subseteq keys[w]

-------------------------------------------------------------------------------
\* The messages.

LastAttempt(j) == [job |-> j, attempt |-> MaxRetries]

\* Which attempts may be retried and which may go to the DLQ, after what.
AttemptsBounded == \A w \in Workers :
    /\ pc[w] \in {"requeue", "retry"} => msg[w].attempt < MaxRetries
    /\ pc[w] \in {"exhaust", "dlq"} => msg[w].attempt = MaxRetries
    /\ pc[w] = "dlq" => status[msg[w].job] \in Terminal

\* With timely leases: the job of a message on its way to the DLQ has failed.
DlqInv == /\ \A w \in Workers : pc[w] = "dlq" => status[msg[w].job] = "failed"
          /\ DlqOnlyExhausted

\* An upload that came as far as PublishJob has made its job.
JobMade == \A j \in Jobs : api[j] \in {"publish", "reject", "accepted"} => status[j] # "none"

\* While a worker handles the last message of a job that has not ended, that
\* message will be handled, also when the worker's connection is gone.
LastKept == \A w \in Workers : \A j \in Jobs :
    /\ msg[w] = LastAttempt(j) /\ pc[w] # "settle"
    /\ status[j] \in {"queued", "processing"}
    => Pending(LastAttempt(j))

-------------------------------------------------------------------------------
\* How far each upload has come, and what it has left behind.
UploadInv == \A j \in Jobs :
    /\ api[j] = "idle" => j \notin documents
    /\ api[j] \in {"record", "compensate"} => j \in documents
    /\ api[j] \in {"idle", "record", "compensate"} => j \notin documentRows
    /\ api[j] \in {"job", "publish", "reject", "accepted"} => j \in documents /\ j \in documentRows
    /\ api[j] \in Ended => (j \in documents <=> j \in documentRows)
==============================================================================
