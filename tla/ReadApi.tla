-------------------------------- MODULE ReadApi --------------------------------
(***************************************************************************)
(* The API a client follows its jobs with: GET /jobs/{id} and GET /jobs     *)
(* (internal/http).  The jobs behind it move as JobLifecycle     *)
(* says, which is what the module Platform implements.  polls holds the     *)
(* requests for one job that a browser has in flight: they overlap, and     *)
(* their answers arrive in any order.                                       *)
(***************************************************************************)
EXTENDS Faults, JobDomain

CONSTANTS
    Foreign,     \* the jobs of other users
    PollSlots    \* bounds the requests for one job in flight

ASSUME ForeignAssumption == Foreign \subseteq Jobs

VARIABLES state, available, polls

Server == INSTANCE JobLifecycle

readApi == <<state, available, polls>>

\* JobDetailResponse and an entry of GET /jobs: status, and whether download_url
\* is there.  Status "none" is the absence of an entry.
Answers == [status: Statuses \cup {"error", "notfound"}, url: BOOLEAN]
Answer(status, url) == [status |-> status, url |-> url]
NoEntry == Answer("none", FALSE)

\* A poll: which job, for which view, the read that comes next, and the answer
\* as far as it is known.
Polls == [view: {"free", "job", "section", "left"}, job: Jobs,
          next: {"job", "bundle", "deliver"}, answer: Answers]
Poll(j, v) == [view |-> v, job |-> j, next |-> "job", answer |-> NoEntry]

Free(s) == polls[s].view = "free"
Send(s, j, v) == Free(s) /\ polls' = [polls EXCEPT ![s] = Poll(j, v)]
Arrived(s) == ~Free(s) /\ polls[s].next = "deliver"
Release(s) == polls' = [polls EXCEPT ![s] = Poll(@.job, "free")]
Read(s, stage, answer) ==
    polls' = [polls EXCEPT ![s].next = stage, ![s].answer = answer]

ReadApiInit == /\ state = [j \in Jobs |-> "none"] /\ available = {}
               /\ \E j \in Jobs : polls = [s \in PollSlots |-> Poll(j, "free")]

\* buildBundleResponse: download_url only for a completed job with a valid row.
Downloadable(j, status) == status = "completed" /\ j \in available

\* Mutant of Owned: AND owner_id = $2 is missing.
OwnedByAnyone(j) == TRUE

\* owner_id in the WHERE of every read
Owned(j) == j \notin Foreign

\* Mutant of NeedsBundle: the bundle is only read for failed jobs.
NeedsBundleFailed(status) == status = "failed"

NeedsBundle(status) == status \in Terminal

-------------------------------------------------------------------------------
\* loadJobDetail, first statement: GetJobByID, filtered by owner.
ReadJob(s) ==
    /\ ~Free(s) /\ polls[s].next = "job"
    /\ LET status == state[polls[s].job]
       IN \/ /\ NoFault /\ ~Owned(polls[s].job)
             /\ Read(s, "deliver", Answer("notfound", FALSE))
          \/ /\ NoFault /\ Owned(polls[s].job)
             /\ Read(s, IF NeedsBundle(status) THEN "bundle" ELSE "deliver",
                     Answer(status, FALSE))
          \/ Fault("db") /\ Read(s, "deliver", Answer("error", FALSE))
    /\ UNCHANGED <<state, available>>

\* loadJobDetail, last statement: GetBundleByJobID; an error is only logged.
ReadBundle(s) ==
    /\ ~Free(s) /\ polls[s].next = "bundle"
    /\ LET status == polls[s].answer.status
       IN \/ NoFault /\ Read(s, "deliver", Answer(status, Downloadable(polls[s].job, status)))
          \/ Fault("db") /\ Read(s, "deliver", Answer(status, FALSE))
    /\ UNCHANGED <<state, available>>

\* The request fails on its way, or its answer does.
LosePoll(s) ==
    /\ ~Free(s) /\ polls[s].answer.status # "error"
    /\ Fault("network") /\ Read(s, "deliver", Answer("error", FALSE))
    /\ UNCHANGED <<state, available>>

AnswerPoll(s) == ReadJob(s) \/ ReadBundle(s)

\* ListJobsByOwner: one statement for jobs and bundles.
Listing == [j \in Jobs |-> IF Owned(j) THEN Answer(state[j], Downloadable(j, state[j]))
                           ELSE NoEntry]

\* What happens to the jobs that exist.
JobMoves == /\ \E j \in Jobs : \/ Server!Start(j) \/ Server!Retry(j)
                               \/ Server!Complete(j) \/ Server!Fail(j)
            /\ NoFault /\ UNCHANGED polls
==============================================================================
