-------------------------- MODULE SessionRotation ---------------------------
(***************************************************************************)
(* Signed-in sessions: the API client of every browser tab (apiClient.ts,  *)
(* authApi.ts), the cookies the tabs share, and the Control Plane's        *)
(* rotation of refresh credentials (AuthenticationService).  A call that   *)
(* is answered 401 refreshes the access token once; calls of one tab share *)
(* one refresh, tabs do not know of each other.                            *)
(*                                                                         *)
(* A credential is a refresh token with its CSRF token: both are issued,   *)
(* stored, compared and cleared together.  Credential 0 stands for none.   *)
(***************************************************************************)
EXTENDS Integers, FiniteSets

CONSTANTS
    Tabs, Calls,
    TabOf,                      \* the tab that makes a call
    MaxSessions, MaxCreds,      \* bounds: logins, credentials issued
    MaxLogouts                  \* bound: logouts

ASSUME CallsAssumption == TabOf \in [Calls -> Tabs]
ASSUME BoundsAssumption == MaxSessions \in Nat /\ MaxCreds \in Nat /\ MaxLogouts \in Nat

VARIABLES
    sessions,   \* auth_sessions: the current credential and revoked_at
    issued,     \* number of credentials issued
    parent,     \* the credential in exchange for which one was issued
    jar,        \* the cookies
    access,     \* accessToken of a tab: the credential it was issued with
    fresh,      \* access tokens that are not expired
    inFlight,   \* refreshInFlight of a tab
    calls, token,   \* a call's progress, and the access token it was sent with
    net,        \* requests to /auth under way, handled or not
    lost,       \* whether an answer ever got lost
    logouts

server == <<sessions, issued, parent>>
tab == <<access, inFlight, calls, token>>
vars == <<server, jar, tab, fresh, net, lost, logouts>>

Creds == 0 .. MaxCreds
Message == [kind : {"login", "refresh", "logout"}, tab : Tabs, cred : Creds,
            answer : {"none", "ok", "refused"}, new : Creds]

TypeOK ==
    /\ sessions \in [1 .. MaxSessions -> [cred : Creds, revoked : BOOLEAN]]
    /\ issued \in Creds /\ parent \in [1 .. MaxCreds -> Creds]
    /\ jar \in Creds /\ access \in [Tabs -> Creds] /\ fresh \subseteq 1 .. MaxCreds
    /\ inFlight \in [Tabs -> BOOLEAN]
    /\ calls \in [Calls -> {"idle", "asked", "waiting", "again", "done", "failed"}]
    /\ token \in [Calls -> Creds]
    /\ net \subseteq Message
    /\ lost \in BOOLEAN /\ logouts \in 0 .. MaxLogouts

Init ==
    /\ sessions = [s \in 1 .. MaxSessions |-> [cred |-> 0, revoked |-> FALSE]]
    /\ issued = 0 /\ parent = [c \in 1 .. MaxCreds |-> 0]
    /\ jar = 0 /\ access = [t \in Tabs |-> 0] /\ fresh = {}
    /\ inFlight = [t \in Tabs |-> FALSE]
    /\ calls = [c \in Calls |-> "idle"] /\ token = [c \in Calls |-> 0]
    /\ net = {} /\ lost = FALSE /\ logouts = 0

-----------------------------------------------------------------------------
(* A tab                                                                    *)

Request(kind, t) ==
    [kind |-> kind, tab |-> t, cred |-> jar, answer |-> "none", new |-> 0]

\* The calls of a tab that wait for its refresh.
Waiting(t) == {c \in Calls : TabOf[c] = t /\ calls[c] = "waiting"}

Login(t) ==
    /\ \A m \in net : m.tab # t
    /\ access[t] = 0
    /\ net' = net \cup {Request("login", t)}
    /\ UNCHANGED <<server, jar, tab, fresh, lost, logouts>>

Logout(t) ==
    /\ logouts < MaxLogouts /\ logouts' = logouts + 1
    /\ \A m \in net : m.tab = t => m.kind # "logout"
    /\ net' = net \cup {Request("logout", t)}
    /\ UNCHANGED <<server, jar, tab, fresh, lost>>

\* execute: the call leaves with the access token of this moment.
Ask(c) ==
    /\ calls[c] = "idle"
    /\ calls' = [calls EXCEPT ![c] = "asked"]
    /\ token' = [token EXCEPT ![c] = access[TabOf[c]]]
    /\ UNCHANGED <<server, jar, access, inFlight, fresh, net, lost, logouts>>

\* The call is answered.  401 starts a refresh or joins the one under way;
\* without the CSRF cookie there is nothing to refresh with.
AnswerCall(c) ==
    LET t == TabOf[c] IN
    /\ calls[c] = "asked"
    /\ IF token[c] \in fresh
       THEN calls' = [calls EXCEPT ![c] = "done"] /\ UNCHANGED <<access, inFlight, net>>
       ELSE \/ /\ inFlight[t]
               /\ calls' = [calls EXCEPT ![c] = "waiting"]
               /\ UNCHANGED <<access, inFlight, net>>
            \/ /\ ~inFlight[t] /\ jar = 0
               /\ calls' = [calls EXCEPT ![c] = "failed"]
               /\ access' = [access EXCEPT ![t] = 0]
               /\ UNCHANGED <<inFlight, net>>
            \/ /\ ~inFlight[t] /\ jar # 0
               /\ calls' = [calls EXCEPT ![c] = "waiting"]
               /\ inFlight' = [inFlight EXCEPT ![t] = TRUE]
               /\ net' = net \cup {Request("refresh", t)}
               /\ UNCHANGED access
    /\ UNCHANGED <<server, jar, token, fresh, lost, logouts>>

\* After a refresh the call is sent once more, and its answer is final.
AskAgain(c) ==
    /\ calls[c] = "again"
    /\ calls' = [calls EXCEPT ![c] = IF access[TabOf[c]] \in fresh THEN "done" ELSE "failed"]
    /\ UNCHANGED <<server, jar, access, inFlight, token, fresh, net, lost, logouts>>

\* For mutation only: the refresh of a tab is over; a call that joined it late
\* is forgotten.
WakeOne(t, state) ==
    /\ inFlight' = [inFlight EXCEPT ![t] = FALSE]
    /\ IF Waiting(t) = {} THEN UNCHANGED calls
       ELSE calls' = [calls EXCEPT ![CHOOSE c \in Waiting(t) : TRUE] = state]

\* The refresh of a tab is over.
Wake(t, state) ==
    /\ inFlight' = [inFlight EXCEPT ![t] = FALSE]
    /\ calls' = [c \in Calls |-> IF c \in Waiting(t) THEN state ELSE calls[c]]

\* For mutation only: the answer to a refresh sets no cookies.
DeliverKeepingCookies(m) ==
    /\ m \in net /\ m.answer # "none"
    /\ net' = net \ {m}
    /\ jar' = CASE m.kind = "login" -> m.new [] m.kind = "logout" -> 0 [] OTHER -> jar
    /\ access' = [access EXCEPT ![m.tab] = m.new]
    /\ IF m.kind = "refresh" THEN Wake(m.tab, IF m.answer = "ok" THEN "again" ELSE "failed")
                            ELSE UNCHANGED <<inFlight, calls>>
    /\ UNCHANGED <<server, token, fresh, lost, logouts>>

\* An answer arrives: the browser stores its cookies, the tab resumes.  The new
\* access token of a refused refresh, and of a logout, is none.
Deliver(m) ==
    /\ m \in net /\ m.answer # "none"
    /\ net' = net \ {m}
    /\ jar' = CASE m.answer = "ok" /\ m.kind # "logout" -> m.new
                [] m.kind = "logout" -> 0
                [] OTHER -> jar
    /\ access' = [access EXCEPT ![m.tab] = m.new]
    /\ IF m.kind = "refresh" THEN Wake(m.tab, IF m.answer = "ok" THEN "again" ELSE "failed")
                            ELSE UNCHANGED <<inFlight, calls>>
    /\ UNCHANGED <<server, token, fresh, lost, logouts>>

\* The request or its answer is lost and the tab's timeout ends it.  An access
\* token outlives a failed refresh but not a failed logout.
Lose(m) ==
    /\ m \in net
    /\ net' = net \ {m} /\ lost' = TRUE
    /\ access' = IF m.kind = "logout" THEN [access EXCEPT ![m.tab] = 0] ELSE access
    /\ IF m.kind = "refresh" THEN Wake(m.tab, "failed") ELSE UNCHANGED <<inFlight, calls>>
    /\ UNCHANGED <<server, jar, token, fresh, logouts>>

-----------------------------------------------------------------------------
(* The Control Plane; a transaction holds the session's row lock             *)

Holds(s, c) == c # 0 /\ sessions[s].cred = c

\* For mutation only: the hash of the presented token is not compared.
UsableBySession(s, c) == c # 0 /\ ~sessions[s].revoked /\ sessions[s].cred # 0

\* refresh's conditions.
Usable(s, c) == Holds(s, c) /\ ~sessions[s].revoked

Issue(s, from) ==
    /\ issued < MaxCreds /\ issued' = issued + 1
    /\ sessions' = [sessions EXCEPT ![s].cred = issued + 1]
    /\ parent' = [parent EXCEPT ![issued + 1] = from]
    /\ fresh' = fresh \cup {issued + 1}

Answer(m, answer, new) ==
    net' = (net \ {m}) \cup {[m EXCEPT !.answer = answer, !.new = new]}

\* createSession.
HandleLogin(m) ==
    /\ m \in net /\ m.kind = "login" /\ m.answer = "none"
    /\ \E s \in 1 .. MaxSessions :
          /\ sessions[s].cred = 0 /\ \A u \in 1 .. s - 1 : sessions[u].cred # 0
          /\ Issue(s, 0)
    /\ Answer(m, "ok", issued + 1)
    /\ UNCHANGED <<jar, tab, lost, logouts>>

HandleRefresh(m) ==
    /\ m \in net /\ m.kind = "refresh" /\ m.answer = "none"
    /\ \/ \E s \in 1 .. MaxSessions :
             Usable(s, m.cred) /\ Issue(s, m.cred) /\ Answer(m, "ok", issued + 1)
       \/ /\ \A s \in 1 .. MaxSessions : ~Usable(s, m.cred)
          /\ Answer(m, "refused", 0) /\ UNCHANGED <<server, fresh>>
    /\ UNCHANGED <<jar, tab, lost, logouts>>

\* logout answers the same whether or not it revoked a session.
HandleLogout(m) ==
    /\ m \in net /\ m.kind = "logout" /\ m.answer = "none"
    /\ sessions' = [s \in 1 .. MaxSessions |->
                       IF Holds(s, m.cred) THEN [sessions[s] EXCEPT !.revoked = TRUE] ELSE sessions[s]]
    /\ Answer(m, "ok", 0)
    /\ UNCHANGED <<issued, parent, fresh, jar, tab, lost, logouts>>

\* The lifetime of an access token ends; nobody asks whether its session is revoked.
Expire(a) ==
    /\ a \in fresh /\ fresh' = fresh \ {a}
    /\ UNCHANGED <<server, jar, tab, net, lost, logouts>>

Handle(m) == HandleLogin(m) \/ HandleRefresh(m) \/ HandleLogout(m)

Next ==
    \/ \E t \in Tabs : Login(t) \/ Logout(t)
    \/ \E c \in Calls : Ask(c) \/ AnswerCall(c) \/ AskAgain(c)
    \/ \E m \in net : Deliver(m) \/ Lose(m) \/ Handle(m)
    \/ \E a \in fresh : Expire(a)

\* Every request has a timeout, and calls are answered.
Fairness ==
    /\ \A c \in Calls : WF_vars(AnswerCall(c) \/ AskAgain(c))
    /\ \A t \in Tabs : WF_vars(\E m \in net : m.tab = t /\ m.kind = "refresh" /\ (Deliver(m) \/ Lose(m)))

Spec == Init /\ [][Next]_vars
FairSpec == Spec /\ Fairness

-----------------------------------------------------------------------------

\* However many tabs refresh at once, a credential is exchanged at most once.
ExchangedOnce ==
    \A c, d \in 1 .. MaxCreds : parent[c] # 0 /\ parent[c] = parent[d] => c = d

\* A call waits exactly while its tab's only refresh is under way: no call is
\* forgotten when it ends, and none starts a second one.
WaitersHaveARefresh ==
    \A t \in Tabs :
        LET refreshes == {m \in net : m.kind = "refresh" /\ m.tab = t} IN
        /\ inFlight[t] <=> Cardinality(refreshes) = 1
        /\ ~inFlight[t] <=> refreshes = {}
        /\ Waiting(t) # {} <=> inFlight[t]

\* When nothing is under way and no answer was ever lost, the cookies hold the
\* current credential of a live session: refreshes of two tabs that cross do not
\* leave the browser with one that no longer works.
CookiesWork ==
    (net = {} /\ ~lost /\ jar # 0) => \E s \in 1 .. MaxSessions : Usable(s, jar)

\* What the two say together: the refresh cookie of a browser that lost no answer
\* is one the server accepts, and no call is left waiting (apiRequest).
SessionsUsable == CookiesWork /\ WaitersHaveARefresh

\* Nothing is issued for a session after its revocation, although the refresh
\* may have been sent before it.
NothingAfterRevocation ==
    [][\A s \in 1 .. MaxSessions : sessions[s].revoked => sessions'[s] = sessions[s]]_vars

\* Every call of a tab is answered.
CallsEnd == \A c \in Calls : calls[c] = "asked" ~> calls[c] \in {"done", "failed"}

=============================================================================
