------------------------------ MODULE DetailView ------------------------------
(***************************************************************************)
(* The page /jobs/:id: JobDetailView of App.tsx.  It loads the job when it *)
(* opens and then every 2.5 s, without waiting for the answer before, while *)
(* the last answer was a success and not terminal.                          *)
(***************************************************************************)
EXTENDS ReadApi

VARIABLES
    subject,     \* the id of the URL
    viewState,   \* state of the component; "closed" before the page is opened
    shown        \* job: the answer on the screen

view == <<subject, viewState, shown>>
vars == <<faults, readApi, view>>

Init == /\ FaultsInit /\ ReadApiInit
        /\ subject \in Jobs
        /\ viewState = "closed" /\ shown = NoEntry

Load == \E s \in PollSlots : Send(s, subject, "job")

Open == /\ viewState = "closed" /\ state[subject] # "none"
        /\ viewState' = "loading" /\ Load
        /\ NoFault /\ UNCHANGED <<state, available, subject, shown>>

\* Reintentar
Reload == /\ viewState = "error"
          /\ viewState' = "loading" /\ Load
          /\ NoFault /\ UNCHANGED <<state, available, subject, shown>>

\* Mutant of Polling: the client has a list of live states of its own.
PollingWhileQueued == viewState = "ok" /\ shown.status = "queued"

Polling == viewState = "ok" /\ shown.status \notin Terminal

Tick == /\ Polling /\ Load
        /\ NoFault /\ UNCHANGED <<state, available, view>>

\* The answer of a load, whichever it is; an answer without a job only
\* changes the state of the component.
Receive(s) ==
    /\ Arrived(s) /\ Release(s)
    /\ LET answer == polls[s].answer
       IN \/ /\ answer.status \in {"error", "notfound"}
             /\ viewState' = answer.status /\ UNCHANGED shown
          \/ /\ answer.status \notin {"error", "notfound"}
             /\ viewState' = "ok" /\ shown' = answer
    /\ NoFault /\ UNCHANGED <<state, available, subject>>

ServerStep == /\ \/ JobMoves
                 \/ NoFault /\ UNCHANGED polls /\ \E j \in Jobs : Server!Accept(j)
                 \/ \E s \in PollSlots : AnswerPoll(s) \/ LosePoll(s)
              /\ UNCHANGED view

Next == Open \/ Reload \/ Tick \/ (\E s \in PollSlots : Receive(s)) \/ ServerStep

Spec == Init /\ [][Next]_vars

\* The timer goes off, and every request is answered and its answer handled.
\* Nothing is assumed about the progress of the jobs.
Fairness == /\ WF_vars(Tick)
            /\ \A s \in PollSlots : /\ WF_vars(AnswerPoll(s) /\ UNCHANGED view)
                                    /\ WF_vars(Receive(s))

FairSpec == Spec /\ Fairness

-------------------------------------------------------------------------------
(* Properties. *)

\* Every variable has its type, and a job of another user is never shown.
TypeOK == /\ faults \in Nat
          /\ state \in [Jobs -> Statuses] /\ available \subseteq Jobs
          /\ polls \in [PollSlots -> Polls]
          /\ subject \in Jobs /\ shown \in Answers
          /\ viewState \in {"closed", "loading", "ok", "error", "notfound"}
          /\ subject \in Foreign => shown = NoEntry

\* An end that the page shows is the end of the job, however old the answer.
ShownEndIsReal == shown.status \in Terminal => shown.status = state[subject]

\* A job shown as completed offers its download (README, the table of outcomes),
\* as long as reads do not fail: the bundle is read after the status, so it can
\* only be newer.
CompletedOffersDownload == shown.status = "completed" => shown.url

\* Once a job has ended, the open page comes to show that end for good, or says
\* that a request failed, in spite of answers that overtake each other and of
\* lost requests (App.tsx: it refreshes while the job is not terminal).
DetailSettles ==
    (viewState # "closed" /\ state[subject] \in Terminal /\ subject \notin Foreign)
        ~> [](shown.status = state[subject] \/ viewState = "error")
==============================================================================
