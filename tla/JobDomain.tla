------------------------------ MODULE JobDomain ------------------------------
(***************************************************************************)
(* The vocabulary every component shares: internal/domain.  A job is one   *)
(* row of the jobs table.                                                  *)
(***************************************************************************)
EXTENDS Naturals

CONSTANT Jobs   \* the jobs that uploads may create

\* domain.JobStatus; "none" stands for a job whose row does not exist.
Terminal == {"completed", "failed"}
Statuses == {"none", "queued", "processing"} \cup Terminal

\* jobs.error_message, reduced to which failure wrote it.
Failures == {"none", "publish", "fetch", "bundle"}
==============================================================================
