--------------------------- MODULE DetailViewProofs ---------------------------
(***************************************************************************)
(* What the page /jobs/:id shows is true, for any number of jobs, requests *)
(* and faults.  An answer in flight may be old, but an end it carries       *)
(* cannot be: the job it was read from never left that end.                 *)
(***************************************************************************)
EXTENDS DetailView, ReadApiProofs

\* The page only asks for the job of its URL, and gets nothing of a job that
\* belongs to somebody else.
PollsOwned == \A s \in PollSlots : ~Free(s) =>
    /\ polls[s].job = subject
    /\ subject \in Foreign /\ polls[s].next # "job" =>
          polls[s].answer.status \in {"error", "notfound"} /\ polls[s].next = "deliver"

DetailInv == TypeOK /\ PollsReal /\ PollsOwned /\ ShownEndIsReal

-------------------------------------------------------------------------------
\* The initial states.
LEMMA DetailInit == Init => DetailInv
BY DEF Init, FaultsInit, ReadApiInit, DetailInv, TypeOK, PollsReal, PollsOwned,
       ShownEndIsReal, Free, Poll, Polls, NoEntry, Answer, Answers, Statuses, Terminal

\* Every step keeps the invariant.
LEMMA DetailStep == DetailInv /\ [Next]_vars => DetailInv'
<1> SUFFICES ASSUME DetailInv, [Next]_vars PROVE DetailInv'
  OBVIOUS
<1> USE DEF DetailInv, TypeOK, PollsReal, PollsOwned, ShownEndIsReal, Free
<1>1. ASSUME NEW s \in PollSlots, Send(s, subject, "job"),
             UNCHANGED <<state, available, subject, shown>>, faults' = faults,
             viewState' \in {"closed", "loading", "ok", "error", "notfound"}
      PROVE  DetailInv'
  BY <1>1 DEF Send, Poll, Polls, NoEntry, Answer, Answers, Statuses, Terminal
<1>2. CASE Open
  BY <1>1, <1>2 DEF Open, Load, NoFault
<1>3. CASE Tick
  BY <1>1, <1>3 DEF Tick, Load, NoFault, view
<1>4. ASSUME NEW s \in PollSlots, Receive(s) PROVE DetailInv'
  <2> DEFINE answer == polls[s].answer
  <2>1. /\ polls' = [polls EXCEPT ![s] = Poll(polls[s].job, "free")]
        /\ UNCHANGED <<state, available, subject, faults>>
        /\ ~Free(s) /\ polls[s].next = "deliver"
    BY <1>4 DEF Receive, Arrived, Release, NoFault
  <2>2. /\ polls' \in [PollSlots -> Polls]
        /\ PollsReal' /\ PollsOwned'
    BY <2>1 DEF Poll, Polls, NoEntry, Answer, Answers, Statuses, Terminal
  <2>3. CASE answer.status \in {"error", "notfound"} /\ viewState' = answer.status
             /\ UNCHANGED shown
    BY <2>1, <2>2, <2>3
  <2>4. CASE answer.status \notin {"error", "notfound"} /\ viewState' = "ok"
             /\ shown' = answer
    <3>1. polls[s].job = subject /\ subject \notin Foreign /\ answer \in Answers
      BY <2>1, <2>4 DEF Polls
    <3>2. answer.status \in Terminal => answer.status = state[subject]
      BY <3>1
    <3>3. QED
      BY <2>1, <2>2, <2>4, <3>1, <3>2
  <2>5. QED
    BY <1>4, <2>3, <2>4 DEF Receive
<1>5. ASSUME JobMoves \/ \E j \in Jobs : Server!Accept(j),
             UNCHANGED <<polls, subject, viewState, shown, faults>>
      PROVE  DetailInv'
  BY <1>5, EndsStay DEF Polls
<1>6. ASSUME NEW s \in PollSlots, NEW stage \in {"bundle", "deliver"}, NEW answer \in Answers,
             ~Free(s), Read(s, stage, answer), faults' \in Nat,
             UNCHANGED <<state, available, view>>,
             answer.status \in Terminal => answer.status = state[polls[s].job],
             polls[s].job \in Foreign =>
                answer.status \in {"error", "notfound"} /\ stage = "deliver"
      PROVE  DetailInv'
  BY <1>6 DEF Read, Polls, view
<1>7. ASSUME NEW s \in PollSlots, AnswerPoll(s) \/ LosePoll(s), UNCHANGED view
      PROVE  DetailInv'
  <2>1. ~Free(s) => (polls[s].next = "bundle" => polls[s].job \notin Foreign)
    OBVIOUS
  <2>2. ~Free(s)
    BY ONLY <1>7 DEF AnswerPoll, ReadJob, ReadBundle, LosePoll
  <2>3. QED
    BY <1>6, <1>7, <2>1, <2>2, ReadsAreReal
<1>8. CASE UNCHANGED vars
  BY <1>8 DEF vars, readApi, view
<1>9. CASE Reload
  BY <1>1, <1>9 DEF Reload, Load, NoFault
<1>10. QED
  BY <1>2, <1>3, <1>4, <1>5, <1>7, <1>8, <1>9 DEF Next, ServerStep, NoFault, view, JobMoves

\* The invariant holds throughout.
THEOREM DetailInvariant == Spec => []DetailInv
BY DetailInit, DetailStep, PTL DEF Spec

\* Types, and that a job of another user is never shown (GetJobByID filters by
\* owner).
THEOREM DetailTypeCorrect == Spec => []TypeOK
BY DetailInvariant, PTL DEF DetailInv

\* The page never shows an end that its job does not have, however many answers
\* are in flight, late or lost (JobDetailView of App.tsx).
THEOREM ShownEndsReal == Spec => []ShownEndIsReal
BY DetailInvariant, PTL DEF DetailInv

-------------------------------------------------------------------------------
\* What is completed can be downloaded, and so says every finished answer.
Downloads ==
    /\ \A j \in Jobs : state[j] = "completed" => j \in available
    /\ \A s \in PollSlots :
          polls[s].next = "deliver" /\ polls[s].answer.status = "completed" => polls[s].answer.url
    /\ CompletedOffersDownload

\* A job is completed and made available in one step, and stays both.
LEMMA CompletedAvailable ==
    ASSUME state \in [Jobs -> Statuses], JobMoves \/ \E j \in Jobs : Server!Accept(j),
           \A j \in Jobs : state[j] = "completed" => j \in available
    PROVE  \A j \in Jobs : state'[j] = "completed" => j \in available'
BY DEF JobMoves, Server!Accept, Server!Start, Server!Retry, Server!Complete,
       Server!Fail, Server!Move

\* The bundle is read after the status, so it is at least as new.
LEMMA ReadsOfferDownload ==
    ASSUME "db" \notin FaultKinds, DetailInv, Downloads,
           NEW s \in PollSlots, AnswerPoll(s) \/ LosePoll(s)
    PROVE  polls'[s].next = "deliver" /\ polls'[s].answer.status = "completed"
               => polls'[s].answer.url
<1> DEFINE job == polls[s].job
<1>n. ~Fault("db")
  BY DEF Fault
<1>t. polls \in [PollSlots -> Polls] /\ job \in Jobs /\ polls[s].answer \in Answers
  BY DEF DetailInv, TypeOK, Polls
<1>1. ASSUME NEW stage, NEW answer, Read(s, stage, answer),
             stage = "deliver" /\ answer.status = "completed" => answer.url
      PROVE  polls'[s].next = "deliver" /\ polls'[s].answer.status = "completed"
               => polls'[s].answer.url
  BY <1>1, <1>t DEF Read, Polls
<1>2. CASE ReadJob(s)
  <2>1. CASE Read(s, "deliver", Answer("notfound", FALSE))
    BY <1>1, <2>1 DEF Answer
  <2>2. CASE Read(s, IF NeedsBundle(state[job]) THEN "bundle" ELSE "deliver",
                  Answer(state[job], FALSE))
    <3>1. state[job] = "completed" => NeedsBundle(state[job])
      BY DEF NeedsBundle, Terminal
    <3> QED BY <1>1, <2>2, <3>1 DEF Answer
  <2> QED BY <1>2, <1>n, <2>1, <2>2 DEF ReadJob
<1>3. CASE ReadBundle(s)
  <2> DEFINE status == polls[s].answer.status
  <2>1. Read(s, "deliver", Answer(status, Downloadable(job, status)))
    BY <1>3, <1>n DEF ReadBundle
  <2>2. status = "completed" => Downloadable(job, status)
    BY <1>t DEF Downloadable, Downloads, DetailInv, PollsReal, Terminal
  <2> QED BY <1>1, <2>1, <2>2 DEF Answer
<1>4. CASE LosePoll(s)
  <2>1. Read(s, "deliver", Answer("error", FALSE))
    BY <1>4 DEF LosePoll
  <2> QED BY <1>1, <2>1 DEF Answer
<1> QED BY <1>2, <1>3, <1>4 DEF AnswerPoll

\* Every step keeps the downloads.
LEMMA DownloadsStep ==
    ASSUME "db" \notin FaultKinds
    PROVE  DetailInv /\ Downloads /\ [Next]_vars => Downloads'
<1> SUFFICES ASSUME DetailInv, Downloads, [Next]_vars PROVE Downloads'
  OBVIOUS
<1>t. polls \in [PollSlots -> Polls] /\ state \in [Jobs -> Statuses] /\ subject \in Jobs
  BY DEF DetailInv, TypeOK
<1> USE DEF CompletedOffersDownload
<1>1. ASSUME NEW s \in PollSlots, Send(s, subject, "job"), UNCHANGED <<state, available, shown>>
      PROVE  Downloads'
  BY <1>1, <1>t DEF Downloads, Send, Poll
<1>2. CASE Open \/ Tick \/ Reload
  BY <1>1, <1>2 DEF Open, Tick, Reload, Load, view
<1>3. ASSUME NEW s \in PollSlots, Receive(s) PROVE Downloads'
  <2>1. /\ polls' = [polls EXCEPT ![s] = Poll(polls[s].job, "free")]
        /\ UNCHANGED <<state, available>> /\ polls[s].next = "deliver"
        /\ shown' = shown \/ shown' = polls[s].answer
    BY <1>3 DEF Receive, Arrived, Release
  <2>2. shown'.status = "completed" => shown'.url
    BY <2>1 DEF Downloads
  <2> QED BY <1>t, <2>1, <2>2 DEF Downloads, Poll
<1>4. CASE (JobMoves \/ \E j \in Jobs : Server!Accept(j)) /\ UNCHANGED <<polls, shown>>
  BY <1>4, <1>t, CompletedAvailable DEF Downloads
<1>5. ASSUME NEW s \in PollSlots, AnswerPoll(s) \/ LosePoll(s), UNCHANGED view
      PROVE  Downloads'
  <2>1. UNCHANGED <<state, available>> /\ \A r \in PollSlots \ {s} : polls'[r] = polls[r]
    BY <1>5, <1>t DEF AnswerPoll, ReadJob, ReadBundle, LosePoll, Read
  <2>2. polls'[s].next = "deliver" /\ polls'[s].answer.status = "completed"
           => polls'[s].answer.url
    BY <1>5, ReadsOfferDownload
  <2> QED BY <1>5, <2>1, <2>2 DEF Downloads, view
<1>6. CASE UNCHANGED vars
  BY <1>6 DEF Downloads, vars, readApi, view
<1> QED BY <1>2, <1>3, <1>4, <1>5, <1>6 DEF Next, ServerStep, JobMoves, view

\* As long as the reads do not fail, a job shown as completed offers its
\* download: there is no answer that knows the end but not the bundle.
THEOREM CompletedOffers ==
    ASSUME "db" \notin FaultKinds
    PROVE  Spec => []CompletedOffersDownload
<1>1. Init => Downloads
  BY DEF Init, ReadApiInit, Downloads, CompletedOffersDownload, Poll, NoEntry, Answer
<1>2. DetailInv /\ Downloads /\ [Next]_vars => Downloads'
  BY DownloadsStep
<1>3. Downloads => CompletedOffersDownload
  BY DEF Downloads
<1> QED BY DetailInvariant, <1>1, <1>2, <1>3, PTL DEF Spec
==============================================================================
