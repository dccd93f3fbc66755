------------------------------- MODULE JobTable -------------------------------
(***************************************************************************)
(* The jobs table and its statements: internal/database/job_repo.go and    *)
(* migrations/001_init.sql.  Every operator is one SQL statement, atomic.   *)
(***************************************************************************)
EXTENDS JobDomain

VARIABLES
    status,     \* jobs.status
    failure,    \* jobs.error_message
    expired     \* the jobs with updated_at older than staleJobLease

jobTable == <<status, failure, expired>>

JobTableInit == /\ status = [j \in Jobs |-> "none"]
                /\ failure = [j \in Jobs |-> "none"]
                /\ expired = {}

\* Mutant of UpdateRow: the placeholders $1 and $2 are swapped.
UpdateRowSwapped(j, newStatus, newFailure) ==
    /\ status' = [status EXCEPT ![j] = newFailure]
    /\ failure' = [failure EXCEPT ![j] = newStatus]
    /\ expired' = expired \ {j}

\* Any UPDATE of a row; the trigger trg_jobs_updated_at renews updated_at.
UpdateRow(j, newStatus, newFailure) ==
    /\ status' = [status EXCEPT ![j] = newStatus]
    /\ failure' = [failure EXCEPT ![j] = newFailure]
    /\ expired' = expired \ {j}

CreateJob(j) == status[j] = "none" /\ UpdateRow(j, "queued", "none")

\* Unconditional on the current status of an existing row.
UpdateJobStatus(j, newStatus, newFailure) ==
    status[j] # "none" /\ UpdateRow(j, newStatus, newFailure)

\* Mutants of Claimable: the lease is not compared; a failed job is taken again;
\* any row is taken; an abandoned job never is.
ClaimableWithoutLease(j) == status[j] \in {"queued", "processing"}
ClaimableFailed(j) == status[j] \in {"queued", "failed"}
ClaimableAlways(j) == status[j] # "none"
ClaimableQueuedOnly(j) == status[j] = "queued"

Claimable(j) == status[j] = "queued" \/ (status[j] = "processing" /\ j \in expired)
ClaimJobForProcessing(j) == Claimable(j) /\ UpdateRow(j, "processing", "none")

\* Mutant of Requeueable: RequeueJob without AND status = 'processing'.
RequeueableAlways(j) == status[j] # "none"

Requeueable(j) == status[j] = "processing"
RequeueJob(j) == Requeueable(j) /\ UpdateRow(j, "queued", "fetch")

\* updated_at falls behind time.Now() - staleJobLease.
LeaseElapses(j) == /\ status[j] = "processing"
                   /\ j \notin expired
                   /\ expired' = expired \cup {j}
                   /\ UNCHANGED <<status, failure>>
==============================================================================
