----------------------------- MODULE SessionProofs -----------------------------
(***************************************************************************)
(* Theorems about Session, for any number of tabs, addresses, logins,       *)
(* tokens and faults.                                                       *)
(*                                                                          *)
(* Accounts: the rows hold normal addresses only, so the UNIQUE constraint  *)
(* compares what it should.  Lists: whatever is in flight for the Dashboard *)
(* that is mounted was sent with the token of the tab's session, because    *)
(* every change of the session unmounts the Dashboard of the one before.    *)
(***************************************************************************)
EXTENDS Session, TLAPS

\* The rows of users and the registrations that were confirmed.
AccountsInv ==
    /\ \A u \in users : u.email \in Addresses /\ Normal[u.email] = u.email
    /\ \A u, v \in users : u.email = v.email => u = v
    /\ welcomed \subseteq users

\* The tokens that can be named.
Issued == 1 .. Len(tokens)

Sent == [phase : {"sent"}, token : Issued, live : BOOLEAN]
Answered == [phase : {"answered"}, live : BOOLEAN, owner : Addresses \cup {NoAddress}]
Slots == [RefreshSlots -> {NoRefresh} \cup Sent \cup Answered]

SessionTypes ==
    /\ tokens \in Seq([user : Addresses, valid : BOOLEAN])
    /\ session \in [Tabs -> Issued \cup {0}] /\ saved \in Issued \cup {0}
    /\ logins \subseteq [tab : Tabs, token : Issued \cup {0}]
    /\ rows \in [Tabs -> Addresses \cup {NoAddress}]
    /\ refreshes \in [Tabs -> Slots]

\* A refresh that is still of use to its tab was sent with the token of the
\* session, and its answer is about that user.
Serves(r, token) ==
    /\ r.phase = "sent" /\ r.live => r.token = token
    /\ r.phase = "answered" /\ r.live /\ r.owner # NoAddress =>
           token # 0 /\ r.owner = tokens[token].user

AllServe(slots, token) == \A s \in RefreshSlots : Serves(slots[s], token)

RefreshesServe == \A t \in Tabs : AllServe(refreshes[t], session[t])

SessionInv == SessionTypes /\ RefreshesServe /\ OwnRows

-------------------------------------------------------------------------------
\* A registration adds an account with a normal address nobody has, or nothing.
LEMMA RegisterKeepsAccounts ==
    ASSUME AccountsInv, NEW typed \in Typed, Register(typed)
    PROVE  AccountsInv'
<1> DEFINE c == Normalized(typed)
<1>1. c.email \in Addresses /\ Normal[c.email] = c.email
  BY SessionAssumption DEF Normalized
<1>2. users' = (IF Taken(c.email) THEN users ELSE users \cup {c})
      /\ (welcomed' = welcomed \/ welcomed' = (IF Taken(c.email) THEN welcomed ELSE welcomed \cup {c}))
  BY DEF Register, CreateUser
<1>3. ~Taken(c.email) => \A u \in users : u.email # c.email
  BY DEF Taken, Row
<1> HIDE DEF c
<1>4. QED
  BY <1>1, <1>2, <1>3 DEF AccountsInv

\* No other step changes the accounts.
LEMMA AccountsStep == AccountsInv /\ [Next]_vars => AccountsInv'
<1> SUFFICES ASSUME AccountsInv, [Next]_vars PROVE AccountsInv'
  OBVIOUS
<1>1. ASSUME UNCHANGED <<users, welcomed>> PROVE AccountsInv'
  BY <1>1 DEF AccountsInv
<1>2. ASSUME NEW typed \in Typed, Register(typed) PROVE AccountsInv'
  BY <1>2, RegisterKeepsAccounts
<1>3. CASE \E typed \in Typed : \E q \in logins : Login(q, typed)
  BY <1>1, <1>3 DEF Login
<1>4. CASE \E q \in logins : ReceiveLogin(q) \/ LoseLogin(q)
  BY <1>1, <1>4 DEF ReceiveLogin, LoseLogin, api
<1>5. CASE \E k \in DOMAIN tokens : Expire(k)
  BY <1>1, <1>5 DEF Expire
<1>6. CASE \E t \in Tabs : Submit(t) \/ Logout(t) \/ Reload(t)
  BY <1>1, <1>6 DEF Submit, Logout, Reload, api
<1>7. CASE \E t \in Tabs : \E s \in RefreshSlots :
            Refresh(t, s) \/ AnswerRefresh(t, s) \/ LoseRefresh(t, s) \/ ReceiveRefresh(t, s)
  BY <1>1, <1>7 DEF Refresh, AnswerRefresh, LoseRefresh, ReceiveRefresh, api
<1>8. CASE UNCHANGED vars
  BY <1>1, <1>8 DEF vars, api
<1>9. QED
  BY <1>2, <1>3, <1>4, <1>5, <1>6, <1>7, <1>8 DEF Next

\* The accounts are sound throughout, under any number of failing calls.
THEOREM AccountsInvariant == Spec => []AccountsInv
<1>1. Init => AccountsInv
  BY DEF Init, AccountsInv
<1>2. QED
  BY <1>1, AccountsStep, PTL DEF Spec

\* No address has two accounts, however it is typed and in whatever order the
\* registrations arrive and fail (auth_service.go 48, UNIQUE of 001_init.sql).
THEOREM AccountsDistinct == Spec => []OneAccountPerAddress
<1>1. AccountsInv => OneAccountPerAddress
  BY DEF AccountsInv, OneAccountPerAddress
<1>2. QED
  BY <1>1, AccountsInvariant, PTL

\* Whoever was told 201 can log in from then on: no later registration changes
\* the row.
THEOREM ConfirmedCanLogin == Spec => []RegisteredCanLogin
<1>1. AccountsInv => RegisteredCanLogin
  BY DEF AccountsInv, RegisteredCanLogin, Matching, Row, Normalized
<1>2. QED
  BY <1>1, AccountsInvariant, PTL

-------------------------------------------------------------------------------
\* The initial states.
LEMMA SessionInit == Init => SessionInv
BY DEF Init, SessionInv, SessionTypes, Issued, Slots, RefreshesServe, AllServe, Serves, NoRefresh,
       OwnRows

\* The tokens that can be named are there, and of users.
LEMMA IssuedTokens ==
    ASSUME SessionTypes
    PROVE  /\ DOMAIN tokens = Issued
           /\ \A k \in Issued : /\ tokens[k] \in [user : Addresses, valid : BOOLEAN]
                                /\ tokens[k].user \in Addresses
<1> DEFINE Token == [user : Addresses, valid : BOOLEAN]
<1>1. tokens \in Seq(Token)
  BY DEF SessionTypes
<1>2. \A u \in Token : u.user \in Addresses
  OBVIOUS
<1> HIDE DEF Token
<1>3. DOMAIN tokens = Issued /\ \A k \in Issued : tokens[k] \in Token
  BY <1>1 DEF Issued
<1>4. QED
  BY <1>2, <1>3 DEF Token

\* What is left of the Dashboard before serves whatever session comes next.
LEMMA UnmountedServes ==
    ASSUME NEW inFlight \in Slots, NEW token
    PROVE  Unmounted(inFlight) \in Slots /\ AllServe(Unmounted(inFlight), token)
<1> SUFFICES ASSUME NEW s \in RefreshSlots
             PROVE  /\ Unmounted(inFlight)[s] \in {NoRefresh} \cup Sent \cup Answered
                    /\ Serves(Unmounted(inFlight)[s], token)
  BY DEF Unmounted, Slots, AllServe
<1> DEFINE r == inFlight[s]
<1>1. CASE r \in {NoRefresh}
  BY <1>1 DEF Unmounted, Serves, NoRefresh
<1>2. CASE r \in Sent
  BY <1>2 DEF Unmounted, Serves, NoRefresh, Sent
<1>3. CASE r \in Answered
  BY <1>3 DEF Unmounted, Serves, NoRefresh, Answered
<1>4. QED
  BY <1>1, <1>2, <1>3 DEF Slots

\* A tab with a new session, or none, and an empty list.
LEMMA NewDashboard ==
    ASSUME SessionInv, NEW t \in Tabs, NEW token \in Issued \cup {0}, NEW slots \in Slots,
           AllServe(slots, token),
           session' = [session EXCEPT ![t] = token], saved' \in Issued \cup {0},
           rows' = [rows EXCEPT ![t] = NoAddress],
           refreshes' = [refreshes EXCEPT ![t] = slots],
           logins' \subseteq logins, UNCHANGED tokens
    PROVE  SessionInv'
<1> USE DEF SessionInv, SessionTypes
<1>1. Issued' = Issued /\ Slots' = Slots
  BY DEF Issued, Slots, Sent
<1>2. SessionTypes'
  BY <1>1
<1>3. RefreshesServe'
  BY DEF RefreshesServe, AllServe, Serves
<1>4. OwnRows'
  BY DEF OwnRows
<1>5. QED
  BY <1>2, <1>3, <1>4

\* A tab whose session stays, and one of whose refreshes goes on.
LEMMA OneRefresh ==
    ASSUME SessionInv, NEW t \in Tabs, NEW s \in RefreshSlots,
           NEW r \in {NoRefresh} \cup Sent \cup Answered, Serves(r, session[t]),
           refreshes' = [refreshes EXCEPT ![t][s] = r],
           UNCHANGED <<tokens, logins, session, saved, rows>>
    PROVE  SessionInv'
<1> USE DEF SessionInv, SessionTypes
<1>1. Issued' = Issued /\ Slots' = Slots
  BY DEF Issued, Slots, Sent
<1>2. refreshes' \in [Tabs -> Slots]
  BY DEF Slots
<1>3. SessionTypes'
  BY <1>1, <1>2
<1>4. RefreshesServe'
  <2> SUFFICES ASSUME NEW u \in Tabs, NEW x \in RefreshSlots
               PROVE  Serves(refreshes'[u][x], session[u])
    BY DEF RefreshesServe, AllServe, Serves
  <2>1. refreshes'[u][x] = IF u = t /\ x = s THEN r ELSE refreshes[u][x]
    BY DEF Slots
  <2>2. Serves(refreshes[u][x], session[u])
    BY DEF RefreshesServe, AllServe
  <2>3. QED
    BY <2>1, <2>2
<1>5. OwnRows'
  BY DEF OwnRows
<1>6. QED
  BY <1>3, <1>4, <1>5

\* A token is issued: those there are keep their users.
LEMMA LoginKeeps ==
    ASSUME SessionInv, AccountsInv, NEW typed \in Typed, NEW q \in logins, Login(q, typed)
    PROVE  SessionInv'
<1> USE DEF SessionInv, SessionTypes
<1>1. PICK u \in Matching(typed) : tokens' = Append(tokens, [user |-> u.email, valid |-> TRUE])
  BY DEF Login
<1>2. u.email \in Addresses
  BY DEF AccountsInv, Matching, Row
<1>3. /\ tokens' \in Seq([user : Addresses, valid : BOOLEAN])
      /\ Len(tokens') = Len(tokens) + 1
      /\ \A k \in Issued : tokens'[k] = tokens[k]
  BY <1>1, <1>2 DEF Issued
<1>4. Issued \subseteq Issued' /\ Len(tokens') \in Issued'
  BY <1>3 DEF Issued
<1>5. UNCHANGED <<session, saved, rows, refreshes>>
  BY DEF Login, page
<1>6. logins' \subseteq [tab : Tabs, token : Issued' \cup {0}]
  BY <1>4 DEF Login
<1>7. Slots \subseteq Slots'
  BY <1>4 DEF Slots, Sent
<1>8. SessionTypes'
  <2>1. session' \in [Tabs -> Issued' \cup {0}] /\ saved' \in Issued' \cup {0}
    BY <1>4, <1>5
  <2>2. refreshes' \in [Tabs -> Slots'] /\ rows' \in [Tabs -> Addresses \cup {NoAddress}]
    BY <1>5, <1>7
  <2>3. QED
    BY <1>3, <1>6, <2>1, <2>2
<1>9. \A t \in Tabs : session[t] # 0 => tokens'[session[t]] = tokens[session[t]]
  BY <1>3
<1>10. RefreshesServe' /\ OwnRows'
  BY <1>5, <1>9 DEF RefreshesServe, AllServe, Serves, OwnRows
<1>11. QED
  BY <1>8, <1>10

\* A token expires: it keeps its user.
LEMMA ExpireKeeps ==
    ASSUME SessionInv, NEW k \in DOMAIN tokens, Expire(k)
    PROVE  SessionInv'
<1> USE DEF SessionInv, SessionTypes
<1>1. /\ tokens' \in Seq([user : Addresses, valid : BOOLEAN])
      /\ Len(tokens') = Len(tokens)
      /\ \A j \in Issued : tokens'[j].user = tokens[j].user
  <2> DEFINE Token == [user : Addresses, valid : BOOLEAN]
             expired == [tokens[k] EXCEPT !.valid = FALSE]
  <2>1. tokens \in Seq(Token) /\ k \in Issued /\ tokens[k] \in Token
    BY IssuedTokens
  <2>2. expired \in Token /\ expired.user = tokens[k].user
    BY <2>1
  <2>3. tokens' = [tokens EXCEPT ![k] = expired]
    BY DEF Expire
  <2> HIDE DEF Token, expired
  <2>4. /\ tokens' \in Seq(Token) /\ Len(tokens') = Len(tokens)
        /\ \A j \in Issued : tokens'[j] = IF j = k THEN expired ELSE tokens[j]
    BY <2>1, <2>2, <2>3 DEF Issued
  <2>5. QED
    BY <2>2, <2>4 DEF Token
<1>2. Issued' = Issued /\ Slots' = Slots
  BY <1>1 DEF Issued, Slots, Sent
<1>3. UNCHANGED <<logins, session, saved, rows, refreshes>>
  BY DEF Expire, page
<1>4. SessionTypes'
  BY <1>1, <1>2, <1>3
<1>5. RefreshesServe' /\ OwnRows'
  BY <1>1, <1>3 DEF RefreshesServe, AllServe, Serves, OwnRows
<1>6. QED
  BY <1>4, <1>5

\* Every step keeps the invariant.
LEMMA SessionStep == SessionInv /\ AccountsInv /\ [Next]_vars => SessionInv'
<1> SUFFICES ASSUME SessionInv, AccountsInv, [Next]_vars PROVE SessionInv'
  OBVIOUS
<1> USE DEF SessionInv, SessionTypes
<1>1. ASSUME UNCHANGED <<tokens, page>>, logins' \subseteq [tab : Tabs, token : Issued \cup {0}]
      PROVE  SessionInv'
  BY <1>1 DEF page, Issued, Slots, Sent, RefreshesServe, AllServe, Serves, OwnRows
<1>2. CASE \E typed \in Typed : Register(typed)
  BY <1>1, <1>2 DEF Register
<1>3. CASE \E typed \in Typed : \E q \in logins : Login(q, typed)
  BY <1>3, LoginKeeps
<1>4. ASSUME NEW q \in logins, ReceiveLogin(q) PROVE SessionInv'
  <2>1. q.tab \in Tabs /\ q.token \in Issued \cup {0}
    OBVIOUS
  <2>2. refreshes[q.tab] \in Slots
    BY <2>1
  <2>3. refreshes' = [refreshes EXCEPT ![q.tab] = Unmounted(refreshes[q.tab])]
    BY <1>4, <2>2 DEF ReceiveLogin, HandleLogin
  <2>4. QED
    BY <1>4, <2>1, <2>2, <2>3, UnmountedServes, NewDashboard DEF ReceiveLogin, HandleLogin, api
<1>5. CASE \E q \in logins : LoseLogin(q)
  BY <1>1, <1>5 DEF LoseLogin, api
<1>6. CASE \E k \in DOMAIN tokens : Expire(k)
  BY <1>6, ExpireKeeps
<1>7. ASSUME NEW t \in Tabs, Submit(t) PROVE SessionInv'
  BY <1>1, <1>7 DEF Submit, api
<1>8. ASSUME NEW t \in Tabs, NEW slots \in Slots, HandleLogout(t, slots), UNCHANGED <<api, logins>>
      PROVE  SessionInv'
  BY <1>8, UnmountedServes, NewDashboard DEF HandleLogout, api
<1>9. CASE \E t \in Tabs : Logout(t)
  BY <1>8, <1>9 DEF Logout
<1>10. ASSUME NEW t \in Tabs, Reload(t) PROVE SessionInv'
  <2> DEFINE free == [s \in RefreshSlots |-> NoRefresh]
  <2>1. free \in Slots /\ AllServe(free, saved)
    BY DEF Slots, AllServe, Serves, NoRefresh
  <2> HIDE DEF free
  <2>2. refreshes' = [refreshes EXCEPT ![t] = free]
    BY <1>10 DEF Reload, free
  <2>3. QED
    BY <1>10, <2>1, <2>2, NewDashboard DEF Reload, api
<1>11. ASSUME NEW t \in Tabs, NEW s \in RefreshSlots,
              \/ Refresh(t, s) \/ AnswerRefresh(t, s) \/ LoseRefresh(t, s) \/ ReceiveRefresh(t, s)
       PROVE  SessionInv'
  <2> DEFINE r == refreshes[t][s]
  <2>1. r \in {NoRefresh} \cup Sent \cup Answered /\ Serves(r, session[t])
    BY DEF Slots, RefreshesServe, AllServe
  <2>2. Serves(NoRefresh, session[t]) /\ NoRefresh.phase = "free"
    BY DEF Serves, NoRefresh
  <2>3. CASE Refresh(t, s)
    <3> DEFINE sent == [phase |-> "sent", token |-> session[t], live |-> TRUE]
    <3>1. sent \in Sent /\ Serves(sent, session[t])
      BY <2>3 DEF Refresh, Sent, Serves
    <3>2. QED
      BY <2>3, <3>1, OneRefresh DEF Refresh, api
  <2>4. CASE AnswerRefresh(t, s)
    <3>1. r \in Sent
      BY <2>1, <2>4 DEF AnswerRefresh, NoRefresh, Answered
    <3>2. tokens[r.token].user \in Addresses
      BY <3>1, IssuedTokens DEF Sent
    <3>3. PICK owner \in {NoAddress, tokens[r.token].user} : refreshes' = [refreshes EXCEPT ![t][s] =
              [phase |-> "answered", live |-> r.live, owner |-> owner]]
      BY <2>4 DEF AnswerRefresh, Slots
    <3> DEFINE answered == [phase |-> "answered", live |-> r.live, owner |-> owner]
    <3>4. answered \in Answered
      BY <3>1, <3>2 DEF Answered, Sent
    <3>5. Serves(answered, session[t])
      BY <2>1, <3>1, <3>3 DEF Serves, Sent, Issued
    <3>6. QED
      BY <2>4, <3>3, <3>4, <3>5, OneRefresh DEF AnswerRefresh, api
  <2>5. CASE LoseRefresh(t, s)
    BY <2>2, <2>5, OneRefresh DEF LoseRefresh, api
  <2>6. CASE ReceiveRefresh(t, s)
    <3> DEFINE rest == [refreshes[t] EXCEPT ![s] = NoRefresh]
    <3>1. rest \in Slots /\ AllServe(rest, session[t])
      BY <2>2 DEF Slots, RefreshesServe, AllServe
    <3>2. CASE Expired(r)
      BY <1>8, <2>6, <3>1, <3>2 DEF ReceiveRefresh
    <3>3. CASE ~Expired(r) /\ r.live /\ r.owner # NoAddress
      <4>1. r \in Answered
        BY <2>1, <2>6 DEF ReceiveRefresh, NoRefresh, Sent
      <4>2. session[t] # 0 /\ r.owner = tokens[session[t]].user /\ r.owner \in Addresses
        BY <2>1, <3>3, <4>1 DEF Serves, Answered
      <4>3. /\ rows' = [rows EXCEPT ![t] = r.owner]
            /\ refreshes' = [refreshes EXCEPT ![t] = rest]
            /\ UNCHANGED <<session, saved, tokens, logins>>
        BY <2>6, <3>3 DEF ReceiveRefresh, api
      <4>4. SessionTypes'
        BY <3>1, <4>2, <4>3 DEF Issued, Slots, Sent
      <4>5. RefreshesServe'
        BY <3>1, <4>3 DEF RefreshesServe, AllServe, Serves
      <4>6. OwnRows'
        BY <4>2, <4>3 DEF OwnRows
      <4>7. QED
        BY <4>4, <4>5, <4>6
    <3>4. CASE ~Expired(r) /\ ~(r.live /\ r.owner # NoAddress)
      <4>1. /\ refreshes' = [refreshes EXCEPT ![t][s] = NoRefresh]
            /\ UNCHANGED <<tokens, logins, session, saved, rows>>
        BY <2>6, <3>4 DEF ReceiveRefresh, api
      <4>2. QED
        BY <2>2, <4>1, OneRefresh
    <3>5. QED
      BY <3>2, <3>3, <3>4
  <2>7. QED
    BY <1>11, <2>3, <2>4, <2>5, <2>6
<1>12. CASE UNCHANGED vars
  BY <1>1, <1>12 DEF vars, api, page
<1>13. QED
  BY <1>2, <1>3, <1>4, <1>5, <1>6, <1>7, <1>9, <1>10, <1>11, <1>12 DEF Next

\* Every tab, and what it has in flight, stays with the user of its session.
THEOREM SessionInvariant == Spec => []SessionInv
BY SessionInit, SessionStep, AccountsInvariant, PTL DEF Spec

\* A tab lists the jobs of its session's user only, however logins, logouts,
\* reloads, expiring tokens and late answers interleave (App.tsx, handleLogin and
\* refresh).
THEOREM ListsOwnRows == Spec => []OwnRows
BY SessionInvariant, PTL DEF SessionInv
===============================================================================
