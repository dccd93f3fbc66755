------------------------------ MODULE BundleStore ------------------------------
(***************************************************************************)
(* What publication leaves behind: the bundles table, with its UNIQUE      *)
(* job_id (bundle_repo.go, 001_init.sql), and the bundle's objects in      *)
(* MinIO (storage/minio.go), under a prefix that only the job determines.   *)
(***************************************************************************)
EXTENDS JobDomain

CONSTANTS
    Files,     \* the Markdown files of a bundle
    ZipKey     \* bundle.zip, written after all of them

ASSUME StoreAssumption == ZipKey \notin Files

VARIABLES
    bundles,   \* the row of bundles for a job: absent, or is_valid or not
    objects    \* the keys stored under bundles/<owner>/<job>/

store == <<bundles, objects>>

Keys == Files \cup {ZipKey}
BundleRows == {"none", "invalid", "valid"}

BundleStoreInit == /\ bundles = [j \in Jobs |-> "none"]
                   /\ objects = [j \in Jobs |-> {}]

\* INSERT INTO bundles: a second row for the same job is refused.
Insertable(j) == bundles[j] = "none"
CreateBundle(j, validity) == /\ Insertable(j)
                             /\ bundles' = [bundles EXCEPT ![j] = validity]
                             /\ UNCHANGED objects

PutObject(j, k) == /\ objects' = [objects EXCEPT ![j] = @ \cup {k}]
                   /\ UNCHANGED bundles

DeleteObject(j, k) == /\ objects' = [objects EXCEPT ![j] = @ \ {k}]
                      /\ UNCHANGED bundles

\* What BundleHandler.Download needs: a valid row, and the objects it points to.
Stored(j) == bundles[j] = "valid" /\ objects[j] = Keys
==============================================================================
