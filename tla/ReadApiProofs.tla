---------------------------- MODULE ReadApiProofs ----------------------------
(* Facts about the read API that the proofs of every view of a job rest on. *)
EXTENDS ReadApi, TLAPS

\* An end that an answer in flight carries is the end of its job.
PollsReal == \A s \in PollSlots :
    polls[s].answer.status \in Terminal => polls[s].answer.status = state[polls[s].job]

\* A step of the jobs keeps every end that was reached (JobLifecycle, which the
\* platform implements).
LEMMA EndsStay ==
    ASSUME state \in [Jobs -> Statuses], available \subseteq Jobs,
           JobMoves \/ \E j \in Jobs : Server!Accept(j)
    PROVE  /\ state' \in [Jobs -> Statuses] /\ available' \subseteq Jobs
           /\ \A j \in Jobs : state[j] \in Terminal => state'[j] = state[j]
BY DEF JobMoves, Server!Accept, Server!Start, Server!Retry, Server!Complete,
       Server!Fail, Server!Move, Statuses, Terminal

\* What a poll may carry.
LEMMA AnswerType ==
    ASSUME NEW status \in Statuses \cup {"error", "notfound"}, NEW url \in BOOLEAN
    PROVE  Answer(status, url) \in Answers /\ Answer(status, url).status = status
BY DEF Answer, Answers

\* A read of the API fills in the answer of one poll, with a status that is true
\* at this moment if it is an end, and with nothing of a job of somebody else.
LEMMA ReadsAreReal ==
    ASSUME state \in [Jobs -> Statuses], polls \in [PollSlots -> Polls], faults \in Nat,
           PollsReal, NEW s \in PollSlots, AnswerPoll(s) \/ LosePoll(s),
           polls[s].next = "bundle" => polls[s].job \notin Foreign
    PROVE  /\ UNCHANGED <<state, available>> /\ faults' \in Nat /\ ~Free(s)
           /\ \E stage \in {"bundle", "deliver"}, answer \in Answers :
                /\ Read(s, stage, answer)
                /\ answer.status \in Terminal => answer.status = state[polls[s].job]
                /\ polls[s].job \in Foreign =>
                      answer.status \in {"error", "notfound"} /\ stage = "deliver"
<1> DEFINE job == polls[s].job
           Goal == \E stage \in {"bundle", "deliver"}, answer \in Answers :
                     /\ Read(s, stage, answer)
                     /\ answer.status \in Terminal => answer.status = state[job]
                     /\ job \in Foreign =>
                          answer.status \in {"error", "notfound"} /\ stage = "deliver"
<1>1. UNCHANGED <<state, available>> /\ faults' \in Nat /\ ~Free(s)
  <2>1. UNCHANGED <<state, available>> /\ ~Free(s)
        /\ (NoFault \/ Fault("db") \/ Fault("network"))
    BY Zenon DEF AnswerPoll, ReadJob, ReadBundle, LosePoll
  <2>2. QED
    BY <2>1 DEF NoFault, Fault
<1>2. /\ \A u \in BOOLEAN : /\ Answer("error", u) \in Answers
                            /\ Answer("error", u).status = "error"
      /\ Answer("notfound", FALSE) \in Answers
      /\ Answer("notfound", FALSE).status = "notfound"
      /\ "error" \notin Terminal /\ "notfound" \notin Terminal
  BY AnswerType DEF Terminal
<1>3. ASSUME Read(s, "deliver", Answer("error", FALSE)) PROVE Goal
  BY <1>2, <1>3
<1>4. ASSUME ReadJob(s) PROVE Goal
  <2>1. CASE Read(s, "deliver", Answer("notfound", FALSE))
    BY <1>2, <2>1
  <2>2. CASE /\ Owned(job)
             /\ Read(s, IF NeedsBundle(state[job]) THEN "bundle" ELSE "deliver",
                     Answer(state[job], FALSE))
    <3>1. state[job] \in Statuses
      BY DEF Polls
    <3>2. QED
      BY <2>2, <3>1, AnswerType DEF Owned
  <2>3. QED
    BY <1>4, <2>1, <2>2, <1>3 DEF ReadJob
<1>5. ASSUME ReadBundle(s) PROVE Goal
  <2> DEFINE status == polls[s].answer.status
  <2>1. PICK u \in BOOLEAN : Read(s, "deliver", Answer(status, u))
    <3>1. Downloadable(job, status) \in BOOLEAN
      BY DEF Downloadable
    <3>2. QED
      BY <1>5, <3>1 DEF ReadBundle
  <2>2. /\ status \in Statuses \cup {"error", "notfound"}
        /\ status \in Terminal => status = state[job]
        /\ job \notin Foreign
    BY <1>5 DEF ReadBundle, Polls, Answers, PollsReal
  <2>3. QED
    BY <2>1, <2>2, AnswerType
<1>6. ASSUME LosePoll(s) PROVE Goal
  BY <1>6, <1>3 DEF LosePoll
<1>7. QED
  BY <1>1, <1>4, <1>5, <1>6 DEF AnswerPoll
==============================================================================
