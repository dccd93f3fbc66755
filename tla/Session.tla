-------------------------------- MODULE Session --------------------------------
(***************************************************************************)
(* Accounts and sessions: the users table and the tokens of the API         *)
(* (auth_service.go, user_repo.go, token.go, auth_middleware.go), and the   *)
(* session of App.tsx in the tabs of one browser, which share what          *)
(* localStorage has saved.                                                  *)
(*                                                                          *)
(* A user is known by the address in the row, and a token by the order in   *)
(* which it was issued; 0 is none.  The Dashboard of a tab is reduced to    *)
(* whose jobs it lists; one of them is pending, so the interval is on.      *)
(* Module Dashboard has the rest.                                           *)
(*                                                                          *)
(* A registration is the step in which the API handles it, whenever it was  *)
(* sent and whether or not its answer arrives: the answer only changes what *)
(* the form says.  A login is in flight before and after that step; a user  *)
(* can leave a form that waits for its answer and fill in another, so the   *)
(* logins of one tab overlap.                                               *)
(***************************************************************************)
EXTENDS Faults, Sequences, FiniteSets

CONSTANTS
    Tabs,
    Addresses,      \* the e-mail addresses as they are typed
    Normal,         \* each without capitals and outer blanks
    NoAddress,      \* the normal form of an empty field, and no user
    Typed,          \* what is typed into the form: [email, password]
    TooShort,       \* the passwords of less than 8 bytes
    MaxLogins,      \* bounds the logins in flight
    RefreshSlots,   \* bounds the refreshes of a tab in flight
    MaxTokens       \* bounds the tokens issued

ASSUME SessionAssumption ==
    /\ Normal \in [Addresses -> Addresses]
    /\ \A a \in Addresses : Normal[Normal[a]] = Normal[a]
    /\ \A c \in Typed : c.email \in Addresses

VARIABLES
    users,      \* the rows of users
    tokens,     \* the tokens issued, each valid until it expires
    welcomed,   \* the credentials whose registration was answered 201
    logins,     \* the logins in flight: [tab, token], token 0 before the API has them
    session,    \* the token of each tab's session
    saved,      \* the token in localStorage
    rows,       \* whose jobs each tab lists
    refreshes   \* the refreshes each tab has in flight

api == <<users, tokens, welcomed>>
page == <<session, saved, rows, refreshes>>
vars == <<faults, api, logins, page>>

NoRefresh == [phase |-> "free"]

Init ==
    /\ FaultsInit
    /\ users = {} /\ tokens = <<>> /\ welcomed = {}
    /\ logins = {}
    /\ session = [t \in Tabs |-> 0] /\ saved = 0
    /\ rows = [t \in Tabs |-> NoAddress]
    /\ refreshes = [t \in Tabs |-> [s \in RefreshSlots |-> NoRefresh]]

-------------------------------------------------------------------------------
(* The API *)

\* Mutant of Normalized: the address as it is typed.
NormalizedNot(c) == c

\* strings.ToLower(strings.TrimSpace(email))
Normalized(c) == [email |-> Normal[c.email], password |-> c.password]

Row(email) == {u \in users : u.email = email}
Taken(email) == Row(email) # {}

\* Mutant of CreateUser: ON CONFLICT (email) DO UPDATE.
CreateUserOrUpdate(c) == users' = (users \ Row(c.email)) \cup {c}

\* INSERT, refused by UNIQUE (email)
CreateUser(c) == users' = IF Taken(c.email) THEN users ELSE users \cup {c}

\* AuthService.Register and its handler: 201 or 409; 500 after an INSERT
\* whose answer is lost; 400, or 500 after an INSERT without effect, change nothing.
Register(typed) ==
    LET c == Normalized(typed)
    IN  /\ c.email # NoAddress /\ c.password \notin TooShort
        /\ CreateUser(c)
        /\ \/ NoFault /\ welcomed' = IF Taken(c.email) THEN welcomed ELSE welcomed \cup {c}
           \/ Fault("call") /\ UNCHANGED welcomed
        /\ UNCHANGED <<tokens, logins, page>>

\* GetUserByEmail and CheckPassword
Matching(typed) ==
    LET c == Normalized(typed) IN {u \in Row(c.email) : u.password = c.password}

\* AuthService.Login and its handler, which make a token; 401 and 500 only change
\* what the form says (LoseLogin).
Login(q, typed) ==
    /\ q.token = 0 /\ Len(tokens) < MaxTokens
    /\ \E u \in Matching(typed) : tokens' = Append(tokens, [user |-> u.email, valid |-> TRUE])
    /\ logins' = (logins \ {q}) \cup {[q EXCEPT !.token = Len(tokens')]}
    /\ NoFault /\ UNCHANGED <<users, welcomed, page>>

\* A token expires after 24 hours, so the older ones expire first.
Expire(k) ==
    /\ tokens[k].valid /\ \A j \in 1 .. k - 1 : ~tokens[j].valid
    /\ tokens' = [tokens EXCEPT ![k].valid = FALSE]
    /\ NoFault /\ UNCHANGED <<users, welcomed, logins, page>>

-------------------------------------------------------------------------------
(* The session of a tab *)

\* What the Dashboard that is unmounted has in flight goes on without effect on
\* the list of the next one.
Unmounted(inFlight) == [s \in RefreshSlots |->
    IF inFlight[s].phase = "free" THEN NoRefresh ELSE [inFlight[s] EXCEPT !.live = FALSE]]

\* Mutant of HandleLogin: navigate('/app/upload'), where the same Dashboard stays
\* mounted if the tab had a session already.
HandleLoginInPlace(t, token) ==
    /\ session' = [session EXCEPT ![t] = token] /\ saved' = token
    /\ UNCHANGED <<rows, refreshes>>

\* navigate('/app') unmounts a Dashboard that is there, and mounts a new one.  The
\* router may render that later than the new token; until then the old rows stay.
HandleLogin(t, token) ==
    /\ session' = [session EXCEPT ![t] = token] /\ saved' = token
    /\ rows' = [rows EXCEPT ![t] = NoAddress]
    /\ refreshes' = [refreshes EXCEPT ![t] = Unmounted(@)]

\* AuthView.submit, in a tab that shows the form
Submit(t) ==
    /\ session[t] = 0 /\ Cardinality(logins) < MaxLogins
    /\ logins' = logins \cup {[tab |-> t, token |-> 0]}
    /\ NoFault /\ UNCHANGED <<api, page>>

\* A login is applied wherever its tab is by then.
ReceiveLogin(q) ==
    /\ q.token # 0 /\ HandleLogin(q.tab, q.token)
    /\ logins' = logins \ {q}
    /\ NoFault /\ UNCHANGED api

\* Refused, failed, or lost on its way to or from the API
LoseLogin(q) == logins' = logins \ {q} /\ NoFault /\ UNCHANGED <<api, page>>

\* setSession(null), saveSession(null), navigate('/')
HandleLogout(t, inFlight) ==
    /\ session' = [session EXCEPT ![t] = 0] /\ saved' = 0
    /\ rows' = [rows EXCEPT ![t] = NoAddress]
    /\ refreshes' = [refreshes EXCEPT ![t] = Unmounted(inFlight)]

Logout(t) ==
    /\ session[t] # 0 /\ HandleLogout(t, refreshes[t])
    /\ NoFault /\ UNCHANGED <<api, logins>>

\* The page is loaded again: loadSession, and nobody waits for what was in flight.
Reload(t) ==
    /\ session' = [session EXCEPT ![t] = saved]
    /\ rows' = [rows EXCEPT ![t] = NoAddress]
    /\ refreshes' = [refreshes EXCEPT ![t] = [s \in RefreshSlots |-> NoRefresh]]
    /\ logins' = {q \in logins : q.tab # t}
    /\ NoFault /\ UNCHANGED <<api, saved>>

\* Dashboard: the refresh of its mounting and of every visit to a section.
Refresh(t, s) ==
    /\ session[t] # 0 /\ refreshes[t][s].phase = "free"
    /\ refreshes' = [refreshes EXCEPT ![t][s] =
           [phase |-> "sent", token |-> session[t], live |-> TRUE]]
    /\ NoFault /\ UNCHANGED <<api, logins, session, saved, rows>>

\* The interval, while a job is on the list.
RefreshTick(t) == rows[t] # NoAddress /\ \E s \in RefreshSlots : Refresh(t, s)

\* AuthMiddleware, and ListJobsByOwner of its user; no owner for a 401.  Of the two
\* requests one without a valid token is as good as both.
AnswerRefresh(t, s) ==
    /\ refreshes[t][s].phase = "sent"
    /\ LET token == tokens[refreshes[t][s].token]
           answer(owner) == refreshes' = [refreshes EXCEPT ![t][s] =
               [phase |-> "answered", live |-> @.live, owner |-> owner]]
       IN  IF token.valid THEN answer(token.user) ELSE answer(NoAddress)
    /\ NoFault /\ UNCHANGED <<api, logins, session, saved, rows>>

\* The requests, or an answer other than 200 and 401: the next refresh will do.
LoseRefresh(t, s) ==
    /\ refreshes[t][s].phase # "free" /\ Fault("network")
    /\ refreshes' = [refreshes EXCEPT ![t][s] = NoRefresh]
    /\ UNCHANGED <<api, logins, session, saved, rows>>

\* Mutant of Expired: the check of the status is missing.
ExpiredNever(answer) == FALSE

\* A saved session may have expired (App.tsx 862).
Expired(answer) == answer.owner = NoAddress

\* A 401 ends whatever session the tab has by now.
ReceiveRefresh(t, s) ==
    /\ refreshes[t][s].phase = "answered"
    /\ LET answer == refreshes[t][s]
           rest == [refreshes[t] EXCEPT ![s] = NoRefresh]
       IN  IF Expired(answer)
           THEN HandleLogout(t, rest)
           ELSE /\ rows' = IF answer.live /\ answer.owner # NoAddress
                           THEN [rows EXCEPT ![t] = answer.owner] ELSE rows
                /\ refreshes' = [refreshes EXCEPT ![t] = rest]
                /\ UNCHANGED <<session, saved>>
    /\ NoFault /\ UNCHANGED <<api, logins>>

-------------------------------------------------------------------------------
Next ==
    \/ \E typed \in Typed :
        Register(typed) \/ \E q \in logins : Login(q, typed)
    \/ \E q \in logins : ReceiveLogin(q) \/ LoseLogin(q)
    \/ \E k \in DOMAIN tokens : Expire(k)
    \/ \E t \in Tabs :
        \/ Submit(t) \/ Logout(t) \/ Reload(t)
        \/ \E s \in RefreshSlots :
            Refresh(t, s) \/ AnswerRefresh(t, s) \/ LoseRefresh(t, s) \/ ReceiveRefresh(t, s)

Spec == Init /\ [][Next]_vars

\* The interval fires, the API answers, and the browser runs the handlers.
Fairness ==
    \A t \in Tabs :
        /\ WF_vars(RefreshTick(t))
        /\ \A s \in RefreshSlots :
            WF_vars(AnswerRefresh(t, s)) /\ WF_vars(ReceiveRefresh(t, s))

FairSpec == Spec /\ Fairness

-------------------------------------------------------------------------------
(* Properties *)

\* Nobody gets a second account by another way of typing the address, whatever
\* the order and the failures of the registrations (auth_service.go 48).
OneAccountPerAddress ==
    \A u, v \in users : Normal[u.email] = Normal[v.email] => u = v

\* Whoever was told that the account was created can log in to it, however the
\* address is typed and whoever else tried to register it since.
RegisteredCanLogin ==
    \A typed \in Typed :
        [email |-> Normal[typed.email], password |-> typed.password] \in welcomed
            => Matching(typed) # {}

\* A tab lists the jobs of the user of its session only: no answer to an earlier
\* session of the tab gets into the list, after logins that overtake each other,
\* a logout, an expired token or a reload.
OwnRows ==
    \A t \in Tabs : rows[t] # NoAddress =>
        session[t] # 0 /\ rows[t] = tokens[session[t]].user

\* "Without this cut the application would go on standing, failing in silence"
\* (App.tsx 862): a tab does not keep refreshing with an expired token.
ExpiredSessionEnds ==
    \A t \in Tabs :
        LET failing == session[t] # 0 /\ ~tokens[session[t]].valid /\ rows[t] # NoAddress
        IN  failing ~> ~failing
===============================================================================
