----------------------------- MODULE JobLifecycle -----------------------------
(***************************************************************************)
(* What the API promises the client that follows a job (README, "Job       *)
(* states"): a job moves through the documented states and stops for good   *)
(* in completed or failed, and a bundle becomes available in the very step  *)
(* that completes its job, once, and stays available.  One move is the      *)
(* code's own: a job that cannot be announced fails while it is queued      *)
(* (processing_service.go 111), which the diagram of the README leaves out.  *)
(***************************************************************************)
CONSTANT Jobs

VARIABLES
    state,       \* the status the client reads
    available    \* the completed jobs whose bundle can be downloaded

vars == <<state, available>>

Init == state = [j \in Jobs |-> "none"] /\ available = {}

\* Mutant of Move: the current status is not looked at.
MoveUnchecked(j, from, to) == state' = [state EXCEPT ![j] = to]

Move(j, from, to) == /\ state[j] \in from
                     /\ state' = [state EXCEPT ![j] = to]

Accept(j) == Move(j, {"none"}, "queued") /\ UNCHANGED available
Start(j) == Move(j, {"queued"}, "processing") /\ UNCHANGED available
Retry(j) == Move(j, {"processing"}, "queued") /\ UNCHANGED available
Complete(j) == Move(j, {"processing"}, "completed") /\ available' = available \cup {j}
Fail(j) == Move(j, {"queued", "processing"}, "failed") /\ UNCHANGED available

Next == \E j \in Jobs : Accept(j) \/ Start(j) \/ Retry(j) \/ Complete(j) \/ Fail(j)

Spec == Init /\ [][Next]_vars
==============================================================================
