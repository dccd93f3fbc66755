------------------------------- MODULE Platform -------------------------------
(***************************************************************************)
(* The whole backend: uploads through the API, the queues between them and  *)
(* the workers, the jobs table, the bundles, and the passing of time.       *)
(***************************************************************************)
EXTENDS Worker, UploadService

vars == <<faults, jobTable, queues, store, worker, verdict, upload>>

Init == /\ FaultsInit /\ JobTableInit /\ JobQueueInit /\ BundleStoreInit
        /\ WorkerInit /\ UploadInit

\* Worker w is executing the pipeline of job j, on a claim it made.
Working(w, j) == pc[w] \in Pipeline /\ msg[w].job = j

\* The lease of an abandoned job elapses in time; that of a job in work only
\* when the worker is slower than staleJobLease (or its clock is off by it).
LeaseExpires(j) ==
    /\ LeaseElapses(j)
    /\ \/ NoFault /\ \A w \in Workers : ~Working(w, j)
       \/ Fault("slow") /\ \E w \in Workers : Working(w, j)
    /\ UNCHANGED <<queues, store, worker, upload>>

RetryExpires(m) ==
    /\ RetryElapses(m)
    /\ NoFault /\ UNCHANGED <<jobTable, store, worker, upload>>

Next == /\ \/ WorkerNext /\ UNCHANGED upload
           \/ UploadNext /\ UNCHANGED <<store, worker>>
           \/ \E j \in Jobs : LeaseExpires(j)
           \/ \E m \in JobMessage : RetryExpires(m)
        /\ UNCHANGED verdict

Spec == Init /\ [][Next]_vars

\* A running process takes its next step; the broker eventually delivers every
\* message of the jobs queue, since the queue is FIFO and a consumer returns to
\* it again and again; time passes.  No fault has to happen.
Fairness ==
    /\ \A w \in Workers : WF_vars(Handle(w) /\ UNCHANGED <<upload, verdict>>)
    /\ \A m \in JobMessage :
        /\ SF_vars(\E w \in Workers : Deliver(w, m) /\ UNCHANGED <<upload, verdict>>)
        /\ WF_vars(RetryExpires(m) /\ UNCHANGED verdict)
    /\ \A j \in Jobs :
        /\ WF_vars(LeaseExpires(j) /\ UNCHANGED verdict)
        /\ WF_vars(api[j] \in InFlight /\ HandleUpload(j)
                   /\ UNCHANGED <<store, worker, verdict>>)

FairSpec == Spec /\ Fairness

-------------------------------------------------------------------------------
(* Properties. *)

\* Every variable has its type, and a worker is idle when it holds no message.
TypeOK ==
    /\ faults \in Nat
    /\ status \in [Jobs -> Statuses]
    /\ failure \in [Jobs -> Failures]
    /\ expired \subseteq Jobs
    /\ jobsQueue \in Bag /\ retryQueue \in Bag /\ dlq \in Bag
    /\ bundles \in [Jobs -> BundleRows]
    /\ objects \in [Jobs -> SUBSET Keys]
    /\ pc \in [Workers -> Stages]
    /\ msg \in [Workers -> JobMessage \cup {NoMessage}]
    /\ \A w \in Workers : pc[w] = "idle" <=> msg[w] = NoMessage
    /\ connected \in [Workers -> BOOLEAN]
    /\ keys \in [Workers -> SUBSET Keys]
    /\ verdict \in [Jobs -> Verdicts]
    /\ api \in [Jobs -> UploadStages]
    /\ documents \subseteq Jobs /\ documentRows \subseteq Jobs
    /\ apiConnected \in BOOLEAN

\* A job that reached completed or failed never becomes queued or processing
\* again, whatever redeliveries, takeovers and retries do (job_repo.go: the
\* status guards of ClaimJobForProcessing and RequeueJob).
TerminalAbsorbing ==
    [][\A j \in Jobs : status[j] \in Terminal => status'[j] \in Terminal]_vars

\* A terminal job never changes again: a failed job is not completed later nor
\* a completed one failed (IsTerminal in internal/domain/domain.go).
TerminalStable ==
    [][\A j \in Jobs : status[j] \in Terminal => status'[j] = status[j]]_vars

\* At most one worker executes the pipeline of a job, through redeliveries,
\* reconnections and takeovers of abandoned jobs (ClaimJobForProcessing).
ClaimExclusive ==
    \A v, w \in Workers : \A j \in Jobs : Working(v, j) /\ Working(w, j) => v = w

\* A job whose bundle the validation rejects leaves nothing in the object
\* storage and never completes (ValidateBundle runs before any upload).
RejectedNeverStored ==
    \A j \in Jobs : verdict[j] # "publishable" =>
        objects[j] = {} /\ bundles[j] # "valid" /\ status[j] # "completed"

\* A completed job has its valid row in bundles, also when a worker outlived its
\* lease and two of them ended the job: the objects may then be gone, but no path
\* of a delivery that was overtaken replaces or removes the row of the other
\* (CreateBundle, UNIQUE job_id; cleanupObjects and FailJob leave bundles alone).
CompletedHasRow == \A j \in Jobs : status[j] = "completed" => bundles[j] = "valid"

\* A completed job can be downloaded: valid row and every object in place.
\* No cleanup of another delivery removes them (the worker's comment at the
\* end of the loop: completed means a valid bundle, stored and registered).
CompletedBundleStored == \A j \in Jobs : status[j] = "completed" => Stored(j)

\* Only messages that used up every retry, of jobs that failed, are in the DLQ.
DlqOnlyExhausted ==
    \A m \in JobMessage : dlq[m] > 0 => m.attempt = MaxRetries /\ status[m.job] = "failed"

\* A message that will still be handled: queued, waiting in the retry queue,
\* or held by a worker that has not yet given its effect away.
Pending(m) == \/ jobsQueue[m] > 0 \/ retryQueue[m] > 0
              \/ \E w \in Workers : msg[w] = m /\ connected[w] /\ pc[w] # "settle"

\* An accepted job that has not ended still has a message that will bring it to
\* its end: no crash, disconnection, retry or deferral loses the only one.
NoLostJob ==
    \A j \in Jobs : api[j] = "accepted" /\ status[j] \notin Terminal =>
        \E m \in JobMessage : m.job = j /\ Pending(m)

\* A job that failed because its document could not be read leaves its last
\* message in the DLQ, also when the worker dies inside failJobToDLQ.
ExhaustedReachesDLQ ==
    \A j \in Jobs : status[j] = "failed" /\ failure[j] = "fetch" =>
        LET last == [job |-> j, attempt |-> MaxRetries]
        IN  dlq[last] > 0 \/ Pending(last)

\* A failed job leaves no object behind (cleanupObjects on every error path
\* after the first PutObject).
CleanupComplete == \A j \in Jobs : status[j] = "failed" => objects[j] = {}

\* When an upload has been answered, its source document is stored exactly if
\* its row exists, and an accepted upload has document, row and job
\* (the compensation of DocumentService.CreateDocument).
UploadCompensated ==
    \A j \in Jobs :
        /\ api[j] \in Ended => (j \in documents <=> j \in documentRows)
        /\ api[j] = "accepted" => j \in documents /\ status[j] # "none"

\* A job is failed either without a bundle or with one that the validation
\* rejected (README, the table of outcomes the client shows).
FailedBundleNotValid == \A j \in Jobs : status[j] = "failed" => bundles[j] # "valid"

\* The platform is a job life cycle, seen from the client.
Lifecycle == INSTANCE JobLifecycle WITH
    state <- status,
    available <- {j \in Jobs : status[j] = "completed" /\ Stored(j)}
LifecycleSpec == Lifecycle!Spec

\* Every accepted job ends (workers restart, leases elapse, retries are bounded).
AcceptedJobEnds ==
    \A j \in Jobs : api[j] = "accepted" ~> status[j] \in Terminal

\* The queues drain: no message is retried, deferred or redelivered for ever.
QueuesDrain == <>[](jobsQueue = Empty /\ retryQueue = Empty)
==============================================================================
