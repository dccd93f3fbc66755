---------------------------- MODULE DashboardProofs ----------------------------
(***************************************************************************)
(* What the main page shows is true, for any number of jobs, requests and   *)
(* faults.                                                                  *)
(***************************************************************************)
EXTENDS Dashboard, ReadApiProofs

\* The page asks for, uploads and follows jobs of its own user only.
OwnedOnly == /\ \A s \in PollSlots : ~Free(s) => polls[s].job \notin Foreign
             /\ \A j \in Foreign : uploads[j] = "none"
             /\ activeJob \notin Foreign

\* Every end in a list is the end of that job, and no job of others is listed.
ListReal(list) == /\ \A j \in Jobs : list[j].status \in Terminal => list[j].status = state[j]
                  /\ \A j \in Foreign : list[j] = NoEntry

RefreshesReal == \A r \in RefreshSlots : ListReal(refreshes[r].rows)

DashboardInv == TypeOK /\ PollsReal /\ OwnedOnly /\ RefreshesReal /\ ShownEndsAreReal

-------------------------------------------------------------------------------
\* The answers that stand for nothing.
LEMMA NothingYet ==
    /\ NoEntry \in Answers /\ NoEntry.status = "none"
    /\ IdleRefresh \in Refreshes /\ NewRefresh \in Refreshes
    /\ IdleRefresh.rows = NoRows /\ NewRefresh.rows = NoRows
    /\ NoRows \in [Jobs -> Answers] /\ ListReal(NoRows)
<1>1. NoEntry \in Answers /\ NoEntry.status = "none" /\ "none" \notin Terminal
  BY DEF NoEntry, Answer, Answers, Statuses, Terminal
<1>2. NoRows \in [Jobs -> Answers] /\ ListReal(NoRows)
  BY <1>1, ForeignAssumption DEF NoRows, ListReal
<1>3. IdleRefresh \in Refreshes /\ IdleRefresh.rows = NoRows
  BY <1>2 DEF IdleRefresh, Refreshes
<1>4. NewRefresh \in Refreshes /\ NewRefresh.rows = NoRows
  BY <1>3 DEF NewRefresh, Refreshes
<1>5. QED
  BY <1>1, <1>2, <1>3, <1>4

\* The initial states.
LEMMA DashboardInit == Init => DashboardInv
<1> SUFFICES ASSUME Init PROVE DashboardInv
  OBVIOUS
<1>1. /\ refreshes \in [RefreshSlots -> Refreshes] /\ RefreshesReal
      /\ rows \in [Jobs -> Answers] /\ ListReal(rows)
  BY NothingYet DEF Init, RefreshesReal
<1>2. polls \in [PollSlots -> Polls] /\ PollsReal /\ \A s \in PollSlots : Free(s)
  BY DEF Init, ReadApiInit, PollsReal, Free, Poll, Polls, NoEntry, Answer, Answers,
         Statuses, Terminal
<1>3. QED
  BY <1>1, <1>2, NothingYet, NoJobAssumption, ForeignAssumption
  DEF Init, FaultsInit, ReadApiInit, DashboardInv, TypeOK, OwnedOnly, ShownEndsAreReal,
      ListReal, Statuses, Terminal

-------------------------------------------------------------------------------
\* Every step keeps the invariant.
LEMMA DashboardStep == DashboardInv /\ [Next]_vars => DashboardInv'
<1> SUFFICES ASSUME DashboardInv, [Next]_vars PROVE DashboardInv'
  OBVIOUS
<1> USE ForeignAssumption, NoJobAssumption
<1> USE DEF DashboardInv, TypeOK, OwnedOnly, RefreshesReal, ListReal, ShownEndsAreReal
<1>0. /\ "queued" \notin Terminal /\ "none" \notin Terminal /\ "error" \notin Terminal
      /\ "notfound" \notin Terminal
  BY DEF Terminal
<1>1. ASSUME NEW j \in Jobs, Submit(j) PROVE DashboardInv'
  BY <1>1 DEF Submit, NoFault, readApi, dashboard, PollsReal, Free
<1>2. ASSUME JobMoves \/ \E j \in Jobs : Server!Accept(j),
             UNCHANGED <<faults, polls, dashboard, section>>
      PROVE  DashboardInv'
  <2>1. /\ state' \in [Jobs -> Statuses] /\ available' \subseteq Jobs
        /\ \A j \in Jobs : state[j] \in Terminal => state'[j] = state[j]
    BY <1>2, EndsStay
  <2>2. UNCHANGED <<faults, polls, rows, refreshes, uploads, latest, phase, activeJob, seen>>
    BY <1>2 DEF dashboard, section
  <2>3. PollsReal'
    BY <2>1, <2>2 DEF PollsReal, Polls
  <2>4. QED
    BY <2>1, <2>2, <2>3 DEF Free
<1>3. ASSUME NEW j \in Jobs, Accept(j) PROVE DashboardInv'
  BY <1>2, <1>3 DEF Accept, NoFault
<1>4. ASSUME NEW j \in Jobs, UploadAnswered(j) PROVE DashboardInv'
  <2>1. Answer("queued", FALSE) \in Answers /\ Answer("queued", FALSE).status = "queued"
    BY AnswerType DEF Statuses
  <2>2. j \notin Foreign
    BY <1>4 DEF UploadAnswered
  <2>3. /\ rows' = [rows EXCEPT ![j] = Answer("queued", FALSE)]
        /\ uploads' = [uploads EXCEPT ![j] = "answered"]
        /\ UNCHANGED <<faults, state, available, polls, refreshes>>
    BY ONLY <1>4 DEF UploadAnswered, HandleJobCreated, NoFault, readApi
  <2>4. \/ /\ activeJob' = j /\ seen' = Answer("queued", FALSE)
           /\ phase' = "processing" /\ latest' = j
        \/ UNCHANGED <<activeJob, seen, phase, latest>>
    BY ONLY <1>4 DEF UploadAnswered, Track
  <2>5. PollsReal'
    BY <2>3 DEF PollsReal
  <2>6. TypeOK' /\ ShownEndsAreReal'
    BY <1>0, <2>1, <2>2, <2>3, <2>4
  <2>7. OwnedOnly' /\ RefreshesReal'
    BY <2>2, <2>3, <2>4 DEF Free
  <2>8. QED
    BY ONLY <2>5, <2>6, <2>7 DEF DashboardInv
<1>5. ASSUME NEW j \in Jobs, UploadFails(j) PROVE DashboardInv'
  BY <1>5 DEF UploadFails, Fault, readApi, dashboard, PollsReal, Free
<1>6. CASE PollTick
  <2>1. PICK s \in PollSlots : Send(s, activeJob, "section")
    BY <1>6 DEF PollTick
  <2>2. /\ Poll(activeJob, "section") \in Polls
        /\ Poll(activeJob, "section").answer = NoEntry
        /\ Poll(activeJob, "section").job = activeJob
    BY <1>6, NothingYet DEF PollTick, Following, Poll, Polls
  <2>3. QED
    BY <1>0, <1>6, <2>1, <2>2, NothingYet
    DEF PollTick, Send, NoFault, dashboard, section, PollsReal, Free
<1>7. ASSUME NEW s \in PollSlots, ReceivePoll(s) PROVE DashboardInv'
  <2> DEFINE j == polls[s].job
             answer == polls[s].answer
  <2>1. /\ ~Free(s) /\ j \in Jobs \ Foreign /\ answer \in Answers
        /\ answer.status \in Terminal => answer.status = state[j]
    BY <1>7 DEF ReceivePoll, Arrived, Polls, PollsReal
  <2>2. /\ Poll(j, "free") \in Polls /\ Poll(j, "free").answer = NoEntry
        /\ Poll(j, "free").view = "free"
    BY <2>1, NothingYet DEF Poll, Polls
  <2>3. polls' = [polls EXCEPT ![s] = Poll(j, "free")]
    BY <1>7 DEF ReceivePoll, Release
  <2>4. /\ polls' \in [PollSlots -> Polls] /\ PollsReal'
        /\ \A t \in PollSlots : (~Free(t))' => polls'[t].job \notin Foreign
    BY <1>0, <1>7, <2>2, <2>3, NothingYet DEF ReceivePoll, PollsReal, Free
  <2>5. /\ rows' \in [Jobs -> Answers]
        /\ \A k \in Jobs : rows'[k].status \in Terminal => rows'[k].status = state[k]
        /\ \A k \in Foreign : rows'[k] = NoEntry
    BY <1>7, <2>1 DEF ReceivePoll, HandleJobCreated
  <2>6. \/ UNCHANGED <<activeJob, seen, phase>>
        \/ activeJob' = j /\ seen' = answer /\ phase' \in {phase, "done", "failed"}
    BY <1>7 DEF ReceivePoll, Track
  <2>7. UNCHANGED <<faults, state, available, refreshes, uploads, latest>>
    BY <1>7 DEF ReceivePoll, NoFault
  <2>8. QED
    BY <2>1, <2>4, <2>5, <2>6, <2>7
<1>8. CASE Reset
  BY <1>0, <1>8, NothingYet DEF Reset, NoFault, readApi, dashboard, PollsReal, Free
<1>9. CASE OpenSection
  <2>1. /\ polls' \in [PollSlots -> Polls] /\ PollsReal'
        /\ \A s \in PollSlots : (~Free(s))' => polls'[s].job \notin Foreign
    <3>1. \A s \in PollSlots : polls'[s] \in Polls
                             /\ polls'[s].job = polls[s].job
                             /\ polls'[s].answer = polls[s].answer
                             /\ (polls[s].view = "free" => polls'[s].view = "free")
      BY <1>9 DEF OpenSection, Polls
    <3>2. UNCHANGED state /\ polls' = [s \in PollSlots |-> polls'[s]]
      BY <1>9 DEF OpenSection
    <3>3. QED
      BY <3>1, <3>2 DEF PollsReal, Free
  <2>2. refreshes' \in [RefreshSlots -> Refreshes] /\ RefreshesReal'
    BY <1>9, NothingYet DEF OpenSection, StartRefresh
  <2>3. /\ UNCHANGED <<faults, state, available, rows>>

        /\ uploads' \in [Jobs -> {"none", "section", "left", "answered", "failed"}]
        /\ \A j \in Foreign : uploads'[j] = "none"
    BY <1>9 DEF OpenSection, NoFault
  <2>4. phase' = "idle" /\ activeJob' = NoJob /\ seen' = NoEntry /\ latest' = NoJob
    BY <1>9 DEF OpenSection
  <2>5. QED
    BY <1>0, <2>1, <2>2, <2>3, <2>4, NothingYet
<1>10. CASE RefreshTick
  BY <1>10, NothingYet DEF RefreshTick, StartRefresh, NoFault, readApi, section, PollsReal, Free
<1>11. ASSUME NEW r \in RefreshSlots, NEW part \in {"jobs", "stats"}, AnswerRefresh(r, part)
       PROVE  DashboardInv'
  <2> DEFINE old == refreshes[r]
  <2>1. Listing \in [Jobs -> Answers] /\ ListReal(Listing)
    <3>1. \A j \in Jobs : Downloadable(j, state[j]) \in BOOLEAN
      BY DEF Downloadable
    <3>2. QED
      BY <3>1, NothingYet, AnswerType DEF Listing, Owned
  <2>3. PICK new \in Refreshes : /\ refreshes' = [refreshes EXCEPT ![r] = new]
                                 /\ new.rows \in {old.rows, Listing}
    <3>1. old \in Refreshes
      OBVIOUS
    <3>2. DEFINE rest == [old EXCEPT !.todo = @ \ {part}]
                 answered == [rest EXCEPT !.good = TRUE, !.rows = Listing]
    <3>3. rest \in Refreshes /\ rest.rows = old.rows
      BY <3>1 DEF Refreshes
    <3>4. answered \in Refreshes /\ answered.rows = Listing
      BY <3>3, <2>1 DEF Refreshes
    <3>5. \/ refreshes' = [refreshes EXCEPT ![r] = answered]
          \/ refreshes' = [refreshes EXCEPT ![r] = rest]
      BY <1>11 DEF AnswerRefresh
    <3>6. QED
      BY <3>3, <3>4, <3>5
  <2>4. /\ faults' \in Nat
        /\ UNCHANGED <<state, available, polls, rows, uploads, latest, phase, activeJob, seen>>
    BY <1>11 DEF AnswerRefresh, NoFault, Fault, readApi, section
  <2>5. QED
    BY <2>1, <2>3, <2>4 DEF PollsReal, Free
<1>12. ASSUME NEW r \in RefreshSlots, LoseRefresh(r) PROVE DashboardInv'
  BY <1>12, NothingYet DEF LoseRefresh, Fault, readApi, section, PollsReal, Free
<1>13. ASSUME NEW r \in RefreshSlots, ReceiveRefresh(r) PROVE DashboardInv'
  <2>1. refreshes[r].rows \in [Jobs -> Answers]
    BY DEF Refreshes
  <2>2. QED
    BY <1>13, <2>1, NothingYet DEF ReceiveRefresh, NoFault, readApi, section, PollsReal, Free
<1>14. ASSUME NEW s \in PollSlots, AnswerPoll(s) \/ LosePoll(s), UNCHANGED <<dashboard, section>>
       PROVE  DashboardInv'
  <2>1. ~Free(s)
    BY ONLY <1>14 DEF AnswerPoll, ReadJob, ReadBundle, LosePoll
  <2>2. PICK stage \in {"bundle", "deliver"}, answer \in Answers :
           /\ Read(s, stage, answer)
           /\ answer.status \in Terminal => answer.status = state[polls[s].job]
    BY <1>14, <2>1, ReadsAreReal
  <2>3. UNCHANGED <<state, available>> /\ faults' \in Nat
    BY <1>14, <2>1, ReadsAreReal
  <2>4. UNCHANGED <<rows, refreshes, uploads, latest, phase, activeJob, seen>>
    BY <1>14 DEF dashboard, section
  <2>5. polls' \in [PollSlots -> Polls] /\ PollsReal'
        /\ \A t \in PollSlots : (~Free(t))' => polls'[t].job \notin Foreign
    <3>1. polls \in [PollSlots -> Polls] /\ PollsReal
          /\ \A t \in PollSlots : ~Free(t) => polls[t].job \notin Foreign
      OBVIOUS
    <3>2. polls' = [polls EXCEPT ![s].next = stage, ![s].answer = answer]
      BY ONLY <2>2 DEF Read
    <3>3. polls' \in [PollSlots -> Polls]
      BY ONLY <3>1, <3>2, <2>2 DEF Polls
    <3>4. /\ polls'[s].job = polls[s].job /\ polls'[s].view = polls[s].view
          /\ polls'[s].answer = answer
          /\ \A t \in PollSlots : t # s => polls'[t] = polls[t]
      BY ONLY <3>1, <3>2 DEF Polls
    <3>5. PollsReal'
      BY ONLY <3>1, <3>4, <2>2, <2>3 DEF PollsReal
    <3>6. QED
      BY ONLY <3>1, <3>3, <3>4, <3>5, <2>1 DEF Free
  <2>6. QED
    BY <2>3, <2>4, <2>5
<1>15. CASE UNCHANGED vars
  BY <1>15 DEF vars, readApi, dashboard, section, PollsReal, Free
<1>16. ASSUME ServerStep PROVE DashboardInv'
  BY <1>2, <1>14, <1>16 DEF ServerStep, JobMoves, NoFault
<1>17. QED
  BY <1>1, <1>3, <1>4, <1>5, <1>6, <1>7, <1>8, <1>9, <1>10, <1>11, <1>12, <1>13,
     <1>15, <1>16 DEF Next

\* The invariant holds throughout.
THEOREM DashboardInvariant == Spec => []DashboardInv
BY DashboardInit, DashboardStep, PTL DEF Spec

\* Types, and that no job of another user is listed (ListJobsByOwner filters by
\* owner).
THEOREM DashboardTypeCorrect == Spec => []TypeOK
BY DashboardInvariant, PTL DEF DashboardInv

\* Every end in the list or in the upload section is the end of that job
\* (Dashboard and UploadSection of App.tsx).
THEOREM ShownEndsReal == Spec => []ShownEndsAreReal
BY DashboardInvariant, PTL DEF DashboardInv
==============================================================================
