------------------------------- MODULE Dashboard -------------------------------
(***************************************************************************)
(* The main page of App.tsx: Dashboard shows the list of jobs and the      *)
(* metrics and refreshes them together (the numbers are left out, but not   *)
(* the wait for them); UploadSection uploads a document and      *)
(* polls its job until it ends.  The section is destroyed and created anew  *)
(* when the user visits another one; what it had in flight goes on, and     *)
(* every visit refreshes the list.                                          *)
(***************************************************************************)
EXTENDS ReadApi, FiniteSets

CONSTANTS
    NoJob,          \* activeJob is null
    RefreshSlots    \* bounds the refreshes in flight; without any, none is modelled

ASSUME NoJobAssumption == NoJob \notin Jobs

VARIABLES
    rows,         \* jobs: the list on the screen, status "none" for no entry
    refreshes,    \* the refreshes in flight
    uploads,      \* the upload that makes each job: of the section, of one the
                  \* user left, answered, or failed for the client
    latest,       \* the job of the last upload this section saw accepted
    phase,        \* phase of the section; "idle" includes "selected"
    activeJob,    \* the job the section follows
    seen          \* the answer about it

section == <<uploads, latest, phase, activeJob, seen>>
dashboard == <<rows, refreshes>>
vars == <<faults, readApi, dashboard, section>>

NoRows == [j \in Jobs |-> NoEntry]

\* A refresh is two requests; todo are those not answered, good says that the
\* list succeeded.
Refreshes == [busy: BOOLEAN, todo: SUBSET {"jobs", "stats"}, good: BOOLEAN,
              rows: [Jobs -> Answers]]
IdleRefresh == [busy |-> FALSE, todo |-> {}, good |-> FALSE, rows |-> NoRows]
NewRefresh == [IdleRefresh EXCEPT !.busy = TRUE, !.todo = {"jobs", "stats"}]

Init == /\ FaultsInit /\ ReadApiInit
        /\ rows = NoRows
        /\ \E first \in SUBSET RefreshSlots :   \* in flight, or already answered
             /\ Cardinality(first) <= 1
             /\ refreshes = [r \in RefreshSlots |->
                                IF r \in first THEN NewRefresh ELSE IdleRefresh]
        /\ uploads = [j \in Jobs |-> "none"]
        /\ latest = NoJob /\ phase = "idle" /\ activeJob = NoJob /\ seen = NoEntry

StartRefresh == \E r \in RefreshSlots :
    ~refreshes[r].busy /\ refreshes' = [refreshes EXCEPT ![r] = NewRefresh]

-------------------------------------------------------------------------------
(* The section that uploads. *)

\* submit, up to the request
Submit(j) ==
    /\ phase = "idle" /\ uploads[j] = "none" /\ j \notin Foreign
    /\ phase' = "uploading" /\ uploads' = [uploads EXCEPT ![j] = "section"]
    /\ NoFault /\ UNCHANGED <<readApi, dashboard, latest, activeJob, seen>>

\* The API accepts the upload, or that of another user: the job exists.
Accept(j) ==
    /\ uploads[j] \in {"section", "left"} \/ j \in Foreign
    /\ Server!Accept(j)
    /\ NoFault /\ UNCHANGED <<polls, dashboard, section>>

Track(j, answer) == activeJob' = j /\ seen' = answer

\* handleJobCreated: the entry of a job is replaced, or added.
HandleJobCreated(j, answer) == rows' = [rows EXCEPT ![j] = answer]

\* submit, from the answer on: the job as it was when it was created
UploadAnswered(j) ==
    /\ uploads[j] \in {"section", "left"} /\ state[j] # "none"
    /\ LET created == Answer("queued", FALSE)
       IN /\ HandleJobCreated(j, created)
          /\ \/ /\ uploads[j] = "section"
                /\ Track(j, created) /\ phase' = "processing" /\ latest' = j
             \/ uploads[j] = "left" /\ UNCHANGED <<activeJob, seen, phase, latest>>
    /\ uploads' = [uploads EXCEPT ![j] = "answered"]
    /\ NoFault /\ UNCHANGED <<readApi, refreshes>>

UploadFails(j) ==
    /\ uploads[j] \in {"section", "left"}
    /\ Fault("network")
    /\ phase' = IF uploads[j] = "section" THEN "idle" ELSE phase
    /\ uploads' = [uploads EXCEPT ![j] = "failed"]
    /\ UNCHANGED <<readApi, dashboard, latest, activeJob, seen>>

\* Mutant of Following: the interval is not created again after an answer.
FollowingOnce == activeJob # NoJob /\ seen.status = "queued"

Following == activeJob # NoJob /\ seen.status \notin Terminal

\* The interval of 2.5 s, while the last answer was not terminal.
PollTick ==
    /\ Following /\ \E s \in PollSlots : Send(s, activeJob, "section")
    /\ NoFault /\ UNCHANGED <<state, available, dashboard, section>>

\* An answer is applied whichever job the section follows by now.  In a section
\* that is gone only onJobCreated has an effect.
ReceivePoll(s) ==
    /\ Arrived(s) /\ Release(s)
    /\ LET j == polls[s].job  answer == polls[s].answer
           good == answer.status \notin {"error", "notfound"}
           end == answer.status \in Terminal
       IN /\ IF good /\ polls[s].view = "section"
             THEN /\ Track(j, answer)
                  /\ phase' = IF ~end THEN phase
                              ELSE IF answer.status = "completed" THEN "done" ELSE "failed"
             ELSE UNCHANGED <<activeJob, seen, phase>>
          /\ IF end THEN HandleJobCreated(j, answer) ELSE UNCHANGED rows
    /\ NoFault /\ UNCHANGED <<state, available, refreshes, uploads, latest>>

\* Subir otro documento, Cambiar archivo
Reset ==
    /\ phase # "uploading"
    /\ phase' = "idle" /\ activeJob' = NoJob /\ seen' = NoEntry
    /\ NoFault /\ UNCHANGED <<readApi, dashboard, uploads, latest>>

\* The user opens another section: the component of this one is gone, and
\* onLogout, hence refresh, is a new function, so that its effect runs again.
OpenSection ==
    /\ StartRefresh \/ (RefreshSlots = {} /\ UNCHANGED refreshes)
    /\ uploads' = [j \in Jobs |-> IF uploads[j] = "section" THEN "left" ELSE uploads[j]]
    /\ polls' = [s \in PollSlots |-> IF polls[s].view = "section"
                                     THEN [polls[s] EXCEPT !.view = "left"] ELSE polls[s]]
    /\ phase' = "idle" /\ activeJob' = NoJob /\ seen' = NoEntry /\ latest' = NoJob
    /\ NoFault /\ UNCHANGED <<state, available, rows>>

-------------------------------------------------------------------------------
(* The list and the metrics. *)

\* The interval of 3 s, while an entry on the screen is not terminal.
RefreshTick ==
    /\ \E j \in Jobs : rows[j].status \notin Terminal \cup {"none"}
    /\ StartRefresh
    /\ NoFault /\ UNCHANGED <<readApi, rows, section>>

\* One of the two requests of a refresh is answered by the API, in any order.
AnswerRefresh(r, part) ==
    /\ part \in refreshes[r].todo
    /\ LET rest == [refreshes[r] EXCEPT !.todo = @ \ {part}]
       IN \/ /\ NoFault /\ part = "jobs"
             /\ refreshes' = [refreshes EXCEPT ![r] =
                                 [rest EXCEPT !.good = TRUE, !.rows = Listing]]
          \/ /\ (NoFault /\ part = "stats") \/ Fault("db")
             /\ refreshes' = [refreshes EXCEPT ![r] = rest]
    /\ UNCHANGED <<readApi, rows, section>>

\* One of the two is lost: Promise.all throws the other answer away too.
LoseRefresh(r) ==
    /\ refreshes[r].busy
    /\ Fault("network") /\ refreshes' = [refreshes EXCEPT ![r] = IdleRefresh]
    /\ UNCHANGED <<readApi, rows, section>>

\* Both answers are there: a good list replaces the one on the screen.
ReceiveRefresh(r) ==
    /\ refreshes[r].busy /\ refreshes[r].todo = {}
    /\ rows' = IF refreshes[r].good THEN refreshes[r].rows ELSE rows
    /\ refreshes' = [refreshes EXCEPT ![r] = IdleRefresh]
    /\ NoFault /\ UNCHANGED <<readApi, section>>

ServerStep == /\ JobMoves \/ \E s \in PollSlots : AnswerPoll(s) \/ LosePoll(s)
              /\ UNCHANGED <<dashboard, section>>

Next == \/ \E j \in Jobs : Submit(j) \/ Accept(j) \/ UploadAnswered(j) \/ UploadFails(j)
        \/ PollTick \/ (\E s \in PollSlots : ReceivePoll(s)) \/ Reset \/ OpenSection
        \/ RefreshTick
        \/ \E r \in RefreshSlots : \/ \E part \in {"jobs", "stats"} : AnswerRefresh(r, part)
                                   \/ LoseRefresh(r) \/ ReceiveRefresh(r)
        \/ ServerStep

Spec == Init /\ [][Next]_vars

\* Timers go off, requests are answered, answers are handled.  Neither the user
\* nor the jobs have to make progress.
Fairness ==
    /\ WF_vars(PollTick) /\ WF_vars(RefreshTick)
    /\ \A s \in PollSlots : /\ WF_vars(AnswerPoll(s) /\ UNCHANGED <<dashboard, section>>)
                            /\ WF_vars(ReceivePoll(s))
    /\ \A r \in RefreshSlots :
        /\ \A part \in {"jobs", "stats"} : WF_vars(AnswerRefresh(r, part))
        /\ WF_vars(ReceiveRefresh(r))

FairSpec == Spec /\ Fairness

-------------------------------------------------------------------------------
(* Properties. *)

\* Every variable has its type, and no job of another user is listed.
TypeOK == /\ faults \in Nat
          /\ state \in [Jobs -> Statuses] /\ available \subseteq Jobs
          /\ polls \in [PollSlots -> Polls]
          /\ rows \in [Jobs -> Answers]
          /\ refreshes \in [RefreshSlots -> Refreshes]
          /\ uploads \in [Jobs -> {"none", "section", "left", "answered", "failed"}]
          /\ latest \in Jobs \cup {NoJob} /\ activeJob \in Jobs \cup {NoJob}
          /\ phase \in {"idle", "uploading", "processing", "done", "failed"}
          /\ seen \in Answers
          /\ \A j \in Foreign : rows[j] = NoEntry

\* Every end on the screen, in the list or in the section, is the end of that
\* job, through late answers, resets, lost requests and visits elsewhere.
ShownEndsAreReal ==
    /\ \A j \in Jobs : rows[j].status \in Terminal => rows[j].status = state[j]
    /\ seen.status \in Terminal => activeJob # NoJob /\ seen.status = state[activeJob]

\* The section comes to show the end of the job it follows, in spite of lost
\* requests, of answers that overtake each other, and of uploads in between
\* (App.tsx: it follows the job until the backend marks it as terminal).
UploadSettles ==
    \A j \in Jobs : activeJob = j /\ state[j] \in Terminal
                        ~> (activeJob # j \/ seen.status = state[j])

\* The list of an idle page comes to show the end of every job the client knows
\* of (App.tsx: the list refreshes itself while a job is alive).
ListSettles ==
    \A j \in Jobs : uploads[j] = "answered" /\ state[j] \in Terminal
                        ~> rows[j].status \in Terminal
==============================================================================
