---------------------------- MODULE AccessProofs ----------------------------
(***************************************************************************)
(* Proofs about Access: the sessions of any number of tabs and calls, the  *)
(* admission of any finite number of requests, and the panel with any      *)
(* number of clones and calls.                                             *)
(***************************************************************************)
EXTENDS Access, FiniteSetTheorems, TLAPS

-----------------------------------------------------------------------------
(* Sessions                                                                 *)

Sessions == 1 .. MaxSessions

\* The books of the credentials: a current credential belongs to one session and
\* was never exchanged, and what was exchanged was issued before.
Books ==
    /\ \A s, u \in Sessions :
          (sessions[s].cred # 0 /\ sessions[s].cred = sessions[u].cred) => s = u
    /\ \A s \in Sessions : sessions[s].cred <= issued
    /\ \A s \in Sessions : sessions[s].revoked => sessions[s].cred # 0
    /\ \A c \in 1 .. MaxCreds : parent[c] <= issued
    /\ \A c \in 1 .. MaxCreds : c > issued => parent[c] = 0
    /\ \A c \in 1 .. MaxCreds : parent[c] # 0 =>
          \A s \in Sessions : sessions[s].cred # parent[c]

IInv == TypeOK /\ Books /\ ExchangedOnce

LEMMA InitHolds == Init => IInv
<1> SUFFICES ASSUME Init PROVE IInv
  OBVIOUS
<1>1. TypeOK
  <2>1. sessions \in [1 .. MaxSessions -> [cred : Creds, revoked : BOOLEAN]]
    BY BoundsAssumption DEF Init, Creds
  <2>2. /\ issued \in Creds /\ parent \in [1 .. MaxCreds -> Creds] /\ jar \in Creds
        /\ access \in [Tabs -> Creds] /\ fresh \subseteq 1 .. MaxCreds
        /\ token \in [Calls -> Creds] /\ logouts \in 0 .. MaxLogouts
    BY BoundsAssumption DEF Init, Creds
  <2>3. /\ inFlight \in [Tabs -> BOOLEAN] /\ net \subseteq Message /\ lost \in BOOLEAN
        /\ calls \in [Calls -> {"idle", "asked", "waiting", "again", "done", "failed"}]
    BY DEF Init
  <2> QED BY <2>1, <2>2, <2>3 DEF TypeOK
<1>2. Books /\ ExchangedOnce
  BY BoundsAssumption DEF Init, Books, ExchangedOnce, Sessions
<1> QED BY <1>1, <1>2 DEF IInv

\* A request is a message.
LEMMA RequestIsMessage ==
    ASSUME NEW kind \in {"login", "refresh", "logout"}, NEW t \in Tabs, TypeOK
    PROVE  Request(kind, t) \in Message
BY BoundsAssumption DEF Request, Message, TypeOK, Creds

\* So is an answered one.
LEMMA AnswerIsMessage ==
    ASSUME TypeOK, NEW m \in net, NEW a \in {"ok", "refused"}, NEW n \in Creds, Answer(m, a, n)
    PROVE  net' \subseteq Message
<1>1. m \in Message /\ net \subseteq Message
  BY DEF TypeOK
<1>2. [m EXCEPT !.answer = a, !.new = n] \in Message
  BY <1>1 DEF Message
<1> QED BY <1>1, <1>2 DEF Answer

\* Issuing a credential to a session in exchange for its current one, or to an
\* unused session in exchange for none, keeps the books.
LEMMA IssueKeepsBooks ==
    ASSUME IInv, NEW s \in Sessions, NEW from \in Creds, Issue(s, from),
           from = sessions[s].cred, ~sessions[s].revoked
    PROVE  /\ sessions' \in [Sessions -> [cred : Creds, revoked : BOOLEAN]]
           /\ issued' \in Creds /\ parent' \in [1 .. MaxCreds -> Creds]
           /\ fresh' \subseteq 1 .. MaxCreds
           /\ Books' /\ ExchangedOnce'
<1> DEFINE n == issued + 1
<1>1. /\ sessions \in [Sessions -> [cred : Creds, revoked : BOOLEAN]]
      /\ issued \in Nat /\ parent \in [1 .. MaxCreds -> Creds]
      /\ fresh \subseteq 1 .. MaxCreds /\ MaxCreds \in Nat /\ n \in 1 .. MaxCreds /\ issued < MaxCreds
  BY BoundsAssumption DEF IInv, TypeOK, Issue, Creds, Sessions
<1>2. /\ issued' = n
      /\ sessions' = [sessions EXCEPT ![s] = [sessions[s] EXCEPT !.cred = n]]
      /\ parent' = [parent EXCEPT ![n] = from] /\ fresh' = fresh \cup {n}
  BY <1>1 DEF Issue
<1>3. [sessions[s] EXCEPT !.cred = n] \in [cred : Creds, revoked : BOOLEAN]
  BY <1>1 DEF Creds
<1>4. \A u \in Sessions : /\ sessions'[u].cred = IF u = s THEN n ELSE sessions[u].cred
                          /\ sessions'[u].revoked = sessions[u].revoked
  BY <1>1, <1>2, <1>3
<1>5. \A c \in 1 .. MaxCreds : parent'[c] = IF c = n THEN from ELSE parent[c]
  BY <1>1, <1>2
<1>6. /\ \A u \in Sessions : sessions[u].cred \in Nat /\ sessions[u].cred <= issued
      /\ \A c \in 1 .. MaxCreds : parent[c] \in Nat /\ parent[c] <= issued
      /\ from \in Nat /\ from <= issued
  BY <1>1 DEF IInv, Books, Creds
<1>7. Books'
  <2>1. \A u, v \in Sessions :
          (sessions'[u].cred # 0 /\ sessions'[u].cred = sessions'[v].cred) => u = v
    BY <1>1, <1>4, <1>6 DEF IInv, Books
  <2>2. \A u \in Sessions : sessions'[u].cred <= issued'
    BY <1>1, <1>2, <1>4, <1>6
  <2>3. \A u \in Sessions : sessions'[u].revoked => sessions'[u].cred # 0
    BY <1>1, <1>4, <1>6 DEF IInv, Books
  <2>4. \A c \in 1 .. MaxCreds : parent'[c] <= issued'
    BY <1>1, <1>2, <1>5, <1>6
  <2>5. \A c \in 1 .. MaxCreds : c > issued' => parent'[c] = 0
    BY <1>1, <1>2, <1>5, <1>6 DEF IInv, Books
  <2>6. ASSUME NEW c \in 1 .. MaxCreds, parent'[c] # 0, NEW u \in Sessions
        PROVE  sessions'[u].cred # parent'[c]
    <3>1. CASE u = s
      BY <3>1, <1>1, <1>4, <1>5, <1>6
    <3>2. CASE u # s /\ c = n
      BY <3>2, <2>6, <1>1, <1>4, <1>5, <1>6 DEF IInv, Books
    <3>3. CASE u # s /\ c # n
      BY <3>3, <2>6, <1>1, <1>4, <1>5 DEF IInv, Books
    <3> QED BY <3>1, <3>2, <3>3
  <2> QED BY <2>1, <2>2, <2>3, <2>4, <2>5, <2>6 DEF Books
<1>8. ExchangedOnce'
  <2> SUFFICES ASSUME NEW c \in 1 .. MaxCreds, NEW d \in 1 .. MaxCreds,
                      parent'[c] # 0, parent'[c] = parent'[d]
               PROVE  c = d
    BY DEF ExchangedOnce
  <2>1. from # 0 => \A e \in 1 .. MaxCreds : parent[e] # from
    BY DEF IInv, Books
  <2> QED BY <2>1, <1>5 DEF IInv, ExchangedOnce
<1> QED BY <1>1, <1>2, <1>3, <1>7, <1>8 DEF Creds

\* Steps that leave the server alone keep the books.
LEMMA ServerIdle ==
    ASSUME IInv, UNCHANGED server
    PROVE  Books' /\ ExchangedOnce'
BY DEF IInv, Books, ExchangedOnce, server, Sessions

LEMMA StepHolds == IInv /\ [Next]_vars => IInv'
<1> SUFFICES ASSUME IInv, [Next]_vars PROVE IInv'
  OBVIOUS
<1> USE BoundsAssumption, CallsAssumption
<1>1. ASSUME NEW t \in Tabs, Login(t) PROVE IInv'
  <2>1. Request("login", t) \in Message
    BY RequestIsMessage DEF IInv
  <2> QED BY <1>1, <2>1, ServerIdle DEF Login, IInv, TypeOK, server, tab
<1>2. ASSUME NEW t \in Tabs, Logout(t) PROVE IInv'
  <2>1. Request("logout", t) \in Message
    BY RequestIsMessage DEF IInv
  <2> QED BY <1>2, <2>1, ServerIdle DEF Logout, IInv, TypeOK, server, tab
<1>3. ASSUME NEW c \in Calls, Ask(c) PROVE IInv'
  BY <1>3, ServerIdle DEF Ask, IInv, TypeOK, server
<1>4. ASSUME NEW c \in Calls, AnswerCall(c) PROVE IInv'
  <2>1. Request("refresh", TabOf[c]) \in Message
    BY RequestIsMessage DEF IInv
  <2>2. UNCHANGED <<server, jar, token, fresh, lost, logouts>>
    BY <1>4 DEF AnswerCall
  <2>3. access' \in [Tabs -> Creds] /\ net' \subseteq Message
    <3>1. access' = access \/ access' = [access EXCEPT ![TabOf[c]] = 0]
      BY <1>4 DEF AnswerCall
    <3>2. net' = net \/ net' = net \cup {Request("refresh", TabOf[c])}
      BY <1>4 DEF AnswerCall
    <3>3. access \in [Tabs -> Creds] /\ net \subseteq Message /\ 0 \in Creds
      BY DEF IInv, TypeOK, Creds
    <3> QED BY <2>1, <3>1, <3>2, <3>3
  <2>4. inFlight' \in [Tabs -> BOOLEAN]
    BY <1>4 DEF AnswerCall, IInv, TypeOK
  <2>5. calls' \in [Calls -> {"idle", "asked", "waiting", "again", "done", "failed"}]
    BY <1>4 DEF AnswerCall, IInv, TypeOK
  <2>6. TypeOK'
    BY <2>2, <2>3, <2>4, <2>5 DEF IInv, TypeOK, server, Creds, Message
  <2> QED BY <2>2, <2>6, ServerIdle DEF IInv
<1>5. ASSUME NEW c \in Calls, AskAgain(c) PROVE IInv'
  BY <1>5, ServerIdle DEF AskAgain, IInv, TypeOK, server
<1>6. ASSUME NEW m \in net, Deliver(m) PROVE IInv'
  <2>1. m \in Message
    BY DEF IInv, TypeOK
  <2>2. UNCHANGED <<server, token, fresh, lost, logouts>>
    BY <1>6 DEF Deliver
  <2>3. jar' \in Creds /\ access' \in [Tabs -> Creds] /\ net' \subseteq Message
    BY <1>6, <2>1 DEF Deliver, IInv, TypeOK, Message, Creds
  <2>4. inFlight' \in [Tabs -> BOOLEAN]
    BY <1>6, <2>1 DEF Deliver, IInv, TypeOK, Message, Wake
  <2>5. calls' \in [Calls -> {"idle", "asked", "waiting", "again", "done", "failed"}]
    BY <1>6, <2>1 DEF Deliver, IInv, TypeOK, Message, Wake
  <2>6. TypeOK'
    BY <2>2, <2>3, <2>4, <2>5 DEF IInv, TypeOK, server, Creds, Message
  <2> QED BY <2>2, <2>6, ServerIdle DEF IInv
<1>7. ASSUME NEW m \in net, Lose(m) PROVE IInv'
  <2>1. m \in Message
    BY DEF IInv, TypeOK
  <2>2. UNCHANGED <<server, jar, token, fresh, logouts>>
    BY <1>7 DEF Lose
  <2>3. access' \in [Tabs -> Creds] /\ net' \subseteq Message /\ lost' \in BOOLEAN
    BY <1>7, <2>1 DEF Lose, IInv, TypeOK, Message, Creds
  <2>4. inFlight' \in [Tabs -> BOOLEAN]
    BY <1>7, <2>1 DEF Lose, IInv, TypeOK, Message, Wake
  <2>5. calls' \in [Calls -> {"idle", "asked", "waiting", "again", "done", "failed"}]
    BY <1>7, <2>1 DEF Lose, IInv, TypeOK, Message, Wake
  <2>6. TypeOK'
    BY <2>2, <2>3, <2>4, <2>5 DEF IInv, TypeOK, server, Creds, Message
  <2> QED BY <2>2, <2>6, ServerIdle DEF IInv
<1>8. ASSUME NEW m \in net, HandleLogin(m) PROVE IInv'
  <2>1. PICK s \in Sessions : sessions[s].cred = 0 /\ Issue(s, 0)
    BY <1>8 DEF HandleLogin, Sessions
  <2>2. ~sessions[s].revoked
    BY <2>1 DEF IInv, Books, TypeOK, Sessions
  <2>3. issued + 1 \in Creds /\ 0 \in Creds
    BY <2>1 DEF Issue, IInv, TypeOK, Creds
  <2>4. net' \subseteq Message
    BY <1>8, <2>3, AnswerIsMessage DEF HandleLogin, IInv
  <2>5. /\ sessions' \in [Sessions -> [cred : Creds, revoked : BOOLEAN]]
        /\ issued' \in Creds /\ parent' \in [1 .. MaxCreds -> Creds]
        /\ fresh' \subseteq 1 .. MaxCreds /\ Books' /\ ExchangedOnce'
    BY <2>1, <2>2, <2>3, IssueKeepsBooks
  <2>6. UNCHANGED <<jar, access, inFlight, calls, token, lost, logouts>>
    BY <1>8 DEF HandleLogin, tab
  <2>7. TypeOK'
    BY <2>4, <2>5, <2>6 DEF IInv, TypeOK, Creds, Message, Sessions
  <2> QED BY <2>5, <2>7 DEF IInv
<1>9. ASSUME NEW m \in net, HandleRefresh(m) PROVE IInv'
  <2>1. UNCHANGED <<jar, access, inFlight, calls, token, lost, logouts>>
    BY <1>9 DEF HandleRefresh, tab
  <2>2. CASE \E s \in 1 .. MaxSessions :
               Usable(s, m.cred) /\ Issue(s, m.cred) /\ Answer(m, "ok", issued + 1)
    <3>1. PICK s \in Sessions : Usable(s, m.cred) /\ Issue(s, m.cred) /\ Answer(m, "ok", issued + 1)
      BY <2>2 DEF Sessions
    <3>2. m.cred \in Creds /\ m.cred = sessions[s].cred /\ ~sessions[s].revoked
      BY <3>1 DEF Usable, Holds, IInv, TypeOK, Message
    <3>3. issued + 1 \in Creds
      BY <3>1 DEF Issue, IInv, TypeOK, Creds
    <3>4. net' \subseteq Message
      BY <3>1, <3>3, AnswerIsMessage DEF IInv
    <3>5. /\ sessions' \in [Sessions -> [cred : Creds, revoked : BOOLEAN]]
          /\ issued' \in Creds /\ parent' \in [1 .. MaxCreds -> Creds]
          /\ fresh' \subseteq 1 .. MaxCreds /\ Books' /\ ExchangedOnce'
      BY <3>1, <3>2, IssueKeepsBooks
    <3>6. TypeOK'
      BY <2>1, <3>4, <3>5 DEF IInv, TypeOK, Creds, Message, Sessions
    <3> QED BY <3>5, <3>6 DEF IInv
  <2>3. CASE Answer(m, "refused", 0) /\ UNCHANGED <<server, fresh>>
    <3>1. net' \subseteq Message
      BY <2>3, AnswerIsMessage DEF IInv, Creds
    <3>2. TypeOK'
      BY <2>1, <2>3, <3>1 DEF IInv, TypeOK, server, Creds, Message
    <3> QED BY <2>3, <3>2, ServerIdle DEF IInv
  <2> QED BY <1>9, <2>2, <2>3 DEF HandleRefresh
<1>10. ASSUME NEW m \in net, HandleLogout(m) PROVE IInv'
  <2>1. net' \subseteq Message
    BY <1>10, AnswerIsMessage DEF HandleLogout, IInv, Creds
  <2>2. UNCHANGED <<issued, parent, fresh, jar, access, inFlight, calls, token, lost, logouts>>
    BY <1>10 DEF HandleLogout, tab
  <2>3. \A s \in Sessions :
          /\ sessions'[s] \in [cred : Creds, revoked : BOOLEAN]
          /\ sessions'[s].cred = sessions[s].cred
          /\ sessions'[s].revoked => (sessions[s].revoked \/ sessions[s].cred # 0)
    BY <1>10 DEF HandleLogout, Holds, IInv, TypeOK, Sessions, Creds
  <2>4. sessions' \in [Sessions -> [cred : Creds, revoked : BOOLEAN]]
    BY <1>10, <2>3 DEF HandleLogout, Sessions
  <2>5. TypeOK'
    BY <2>1, <2>2, <2>4 DEF IInv, TypeOK, Creds, Message, Sessions
  <2>6. Books' /\ ExchangedOnce'
    BY <2>2, <2>3 DEF IInv, Books, ExchangedOnce
  <2> QED BY <2>5, <2>6 DEF IInv
<1>11. ASSUME NEW a \in fresh, Expire(a) PROVE IInv'
  BY <1>11, ServerIdle DEF Expire, IInv, TypeOK, server, tab
<1>12. CASE UNCHANGED vars
  BY <1>12, ServerIdle DEF vars, IInv, TypeOK, server, tab, Creds, Message
<1> QED BY <1>1, <1>2, <1>3, <1>4, <1>5, <1>6, <1>7, <1>8, <1>9, <1>10, <1>11, <1>12
        DEF Next, Handle

\* TypeOK and the books hold in every reachable state.
THEOREM Invariance == Spec => []IInv
BY InitHolds, StepHolds, PTL DEF Spec

\* A refresh credential is exchanged for at most one other, however many tabs
\* present it at once (refresh under the session's row lock).
THEOREM EachIsExchangedOnce == Spec => []ExchangedOnce
<1>1. IInv => ExchangedOnce
  BY DEF IInv
<1> QED BY <1>1, Invariance, PTL

\* A step changes nothing of a revoked session.
LEMMA RevokedIsFinal ==
    ASSUME IInv, [Next]_vars, NEW s \in Sessions, sessions[s].revoked
    PROVE  sessions'[s] = sessions[s]
<1> USE BoundsAssumption
<1>0. /\ sessions \in [Sessions -> [cred : Creds, revoked : BOOLEAN]]
      /\ sessions[s].cred # 0 /\ sessions[s] \in [cred : Creds, revoked : BOOLEAN]
  BY DEF IInv, TypeOK, Books, Sessions
<1>1. ASSUME NEW u \in Sessions, NEW from \in Creds, Issue(u, from), u # s
      PROVE  sessions'[s] = sessions[s]
  BY <1>0, <1>1 DEF Issue
<1>2. ASSUME NEW m \in net, HandleLogin(m) PROVE sessions'[s] = sessions[s]
  BY <1>0, <1>1, <1>2 DEF HandleLogin, Sessions, Creds
<1>3. ASSUME NEW m \in net, HandleRefresh(m) PROVE sessions'[s] = sessions[s]
  <2>0. m.cred \in Creds
    BY DEF IInv, TypeOK, Message
  <2>1. CASE \E u \in Sessions : Usable(u, m.cred) /\ Issue(u, m.cred)
    BY <2>0, <2>1, <1>1 DEF Usable
  <2>2. CASE UNCHANGED server
    BY <2>2 DEF server
  <2> QED BY <1>3, <2>1, <2>2 DEF HandleRefresh, Sessions
<1>4. ASSUME NEW m \in net, HandleLogout(m) PROVE sessions'[s] = sessions[s]
  <2>1. [sessions[s] EXCEPT !.revoked = TRUE] = sessions[s]
    BY <1>0
  <2> QED BY <1>4, <2>1 DEF HandleLogout, Sessions
<1>5. CASE UNCHANGED server
  BY <1>5 DEF server
<1> QED BY <1>2, <1>3, <1>4, <1>5
        DEF Next, Handle, Login, Logout, Ask, AnswerCall, AskAgain, Deliver, Lose, Expire, vars

\* Nothing is issued for a session that a logout has revoked, whatever was sent
\* before it (isUsableAt in refresh, and login's new session).
THEOREM NothingIsIssuedAfterRevocation == Spec => NothingAfterRevocation
<1>1. IInv /\ [Next]_vars =>
        [\A s \in 1 .. MaxSessions : sessions[s].revoked => sessions'[s] = sessions[s]]_vars
  BY RevokedIsFinal DEF Sessions
<1> QED BY <1>1, Invariance, PTL DEF Spec, NothingAfterRevocation

-----------------------------------------------------------------------------
(* The cookies, and the calls that share a refresh.                          *)

\* A credential on its way to the browser is known to nobody but its session: it
\* is usable, it is not in the cookies and no request presents it.
Undelivered ==
    /\ jar <= issued
    /\ \A m \in net : m.cred <= issued /\ m.new <= issued
    /\ \A m \in net : m.new # 0 =>
          /\ jar # m.new /\ \E s \in Sessions : Usable(s, m.new)
          /\ \A n \in net : n.cred # m.new /\ (n.new = m.new => n = m)

\* Cookies that do not work will be overwritten: by a credential that was issued
\* or by the end of a logout.
Settling ==
    (~lost /\ jar # 0) =>
       \/ \E s \in Sessions : Usable(s, jar)
       \/ \E m \in net : m.kind = "logout" \/ m.answer = "ok"

\* refreshInFlight says that one refresh is under way, and some call waits for it.
Sharing ==
    /\ \A m, n \in net : (m.kind = "refresh" /\ n.kind = "refresh" /\ m.tab = n.tab) => m = n
    /\ \A t \in Tabs : inFlight[t] <=> \E m \in net : m.kind = "refresh" /\ m.tab = t
    /\ \A t \in Tabs : inFlight[t] <=> \E c \in Calls : TabOf[c] = t /\ calls[c] = "waiting"

CookieInv == Undelivered /\ Settling

\* What messages and credentials are, for the arithmetic below.
LEMMA MessageNumbers ==
    ASSUME IInv
    PROVE  /\ issued \in Nat /\ jar \in Nat
           /\ \A m \in net : m.cred \in Nat /\ m.new \in Nat
           /\ \A s \in Sessions : sessions[s].cred \in Nat
BY BoundsAssumption DEF IInv, TypeOK, Message, Creds, Sessions

\* Sending a request presents the cookies and nothing else.
LEMMA SendKeepsCookies ==
    ASSUME IInv, CookieInv, NEW kind, NEW t, net' = net \cup {Request(kind, t)},
           UNCHANGED <<sessions, issued, jar, lost>>
    PROVE  CookieInv'
<1> DEFINE r == Request(kind, t)
<1>1. r.cred = jar /\ r.new = 0
  BY DEF Request
<1>2. issued \in Nat /\ jar <= issued
  BY MessageNumbers DEF CookieInv, Undelivered
<1>3. \A s \in Sessions : \A c : Usable(s, c)' <=> Usable(s, c)
  BY DEF Usable, Holds
<1>4. Undelivered'
  <2>1. \A m \in net' : m.cred <= issued' /\ m.new <= issued'
    BY <1>1, <1>2 DEF CookieInv, Undelivered
  <2> SUFFICES ASSUME NEW m \in net', m.new # 0
               PROVE  /\ jar' # m.new /\ \E s \in Sessions : Usable(s, m.new)'
                      /\ \A n \in net' : n.cred # m.new /\ (n.new = m.new => n = m)
    BY <1>2, <2>1 DEF Undelivered
  <2>2. m \in net
    BY <1>1
  <2>3. /\ jar # m.new /\ \E s \in Sessions : Usable(s, m.new)
        /\ \A n \in net : n.cred # m.new /\ (n.new = m.new => n = m)
    BY <2>2 DEF CookieInv, Undelivered
  <2> QED BY <1>1, <1>3, <2>3
<1>5. Settling'
  BY <1>3 DEF CookieInv, Settling
<1> QED BY <1>4, <1>5 DEF CookieInv

\* An answer that is delivered brings cookies that work, clears them or leaves them.
LEMMA DeliverKeepsCookies ==
    ASSUME IInv, CookieInv, NEW m \in net, Deliver(m)
    PROVE  CookieInv'
<1>1. /\ net' = net \ {m} /\ m.answer # "none"
      /\ sessions' = sessions /\ issued' = issued /\ lost' = lost
  BY DEF Deliver, server
<1>2. \/ m.answer = "ok" /\ jar' = m.new
      \/ jar' = 0
      \/ m.answer # "ok" /\ m.kind # "logout" /\ jar' = jar
  BY DEF Deliver
<1>3. \A s \in Sessions : \A c : Usable(s, c)' <=> Usable(s, c)
  BY <1>1 DEF Usable, Holds
<1>4. Undelivered'
  <2>1. jar' <= issued' /\ \A n \in net' : n.cred <= issued' /\ n.new <= issued'
    BY <1>1, <1>2, MessageNumbers DEF CookieInv, Undelivered
  <2>2. ASSUME NEW n \in net', n.new # 0
        PROVE  /\ jar' # n.new /\ \E s \in Sessions : Usable(s, n.new)'
               /\ \A k \in net' : k.cred # n.new /\ (k.new = n.new => k = n)
    <3>1. /\ jar # n.new /\ \E s \in Sessions : Usable(s, n.new)
          /\ \A k \in net : k.cred # n.new /\ (k.new = n.new => k = n)
      BY <1>1, <2>2 DEF CookieInv, Undelivered
    <3>2. m.new # n.new
      BY <1>1, <3>1
    <3> QED BY <1>1, <1>2, <1>3, <2>2, <3>1, <3>2
  <2> QED BY <2>1, <2>2 DEF Undelivered
<1>5. Settling'
  <2> SUFFICES ASSUME ~lost', jar' # 0
               PROVE  \/ \E s \in Sessions : Usable(s, jar)'
                      \/ \E n \in net' : n.kind = "logout" \/ n.answer = "ok"
    BY DEF Settling
  <2>1. CASE m.answer = "ok" /\ jar' = m.new
    <3>1. \E s \in Sessions : Usable(s, m.new)
      BY <2>1 DEF CookieInv, Undelivered
    <3> QED BY <1>1, <2>1, <3>1 DEF Usable, Holds
  <2>2. CASE m.answer # "ok" /\ m.kind # "logout" /\ jar' = jar
    <3>1. \/ \E s \in Sessions : Usable(s, jar)
          \/ \E n \in net : n.kind = "logout" \/ n.answer = "ok"
      BY <1>1, <2>2 DEF CookieInv, Settling
    <3> QED BY <1>1, <2>2, <3>1 DEF Usable, Holds
  <2> QED BY <1>2, <2>1, <2>2
<1> QED BY <1>4, <1>5 DEF CookieInv

\* A lost message excuses cookies that do not work.
LEMMA LoseKeepsCookies ==
    ASSUME IInv, CookieInv, NEW m \in net, Lose(m)
    PROVE  CookieInv'
<1>1. /\ net' = net \ {m} /\ sessions' = sessions /\ issued' = issued /\ jar' = jar /\ lost'
  BY DEF Lose, server
<1>2. \A s \in Sessions : \A c : Usable(s, c)' <=> Usable(s, c)
  BY <1>1 DEF Usable, Holds
<1>3. Undelivered'
  BY <1>1, <1>2 DEF CookieInv, Undelivered
<1>4. Settling'
  BY <1>1 DEF Settling
<1> QED BY <1>3, <1>4 DEF CookieInv

\* A credential that is issued goes to a session that holds no credential on its
\* way, and the answer that carries it will overwrite the cookies.
LEMMA IssueKeepsCookies ==
    ASSUME IInv, CookieInv, NEW m \in net, NEW s \in Sessions, NEW from \in Creds,
           from = 0 \/ from = m.cred, from = sessions[s].cred, ~sessions[s].revoked,
           Issue(s, from), Answer(m, "ok", issued + 1), UNCHANGED <<jar, lost>>
    PROVE  CookieInv'
<1> DEFINE a == [m EXCEPT !.answer = "ok", !.new = issued + 1]
<1>0. m \in Message /\ issued \in Nat /\ jar \in Nat /\ MaxCreds \in Nat
  BY BoundsAssumption, MessageNumbers DEF IInv, TypeOK
<1>1. /\ a.kind = m.kind /\ a.cred = m.cred /\ a.answer = "ok" /\ a.new = issued + 1
      /\ net' = (net \ {m}) \cup {a}
  BY <1>0 DEF Message, Answer
<1> HIDE DEF a
<1>2. /\ issued' = issued + 1
      /\ sessions' = [sessions EXCEPT ![s] = [sessions[s] EXCEPT !.cred = issued + 1]]
      /\ sessions \in [Sessions -> [cred : Creds, revoked : BOOLEAN]]
  BY DEF Issue, IInv, TypeOK, Sessions
<1>3. \A u \in Sessions : u # s => sessions'[u] = sessions[u]
  BY <1>2
<1>4. sessions'[s].cred = issued + 1 /\ ~sessions'[s].revoked
  BY <1>2
<1>5. \A n \in net : n.cred \in Nat /\ n.new \in Nat /\ n.cred <= issued /\ n.new <= issued
  BY MessageNumbers DEF CookieInv, Undelivered
<1>6. \A n \in net' : n.cred <= issued' /\ n.new <= issued' /\ n.cred # issued + 1
  BY <1>0, <1>1, <1>2, <1>5
<1>7. ASSUME NEW n \in net', n.new # 0
      PROVE  /\ jar' # n.new /\ \E u \in Sessions : Usable(u, n.new)'
             /\ \A k \in net' : k.cred # n.new /\ (k.new = n.new => k = n)
  <2>1. CASE n = a
    <3>1. jar' # n.new
      BY <2>1, <1>0, <1>1 DEF CookieInv, Undelivered
    <3>2. Usable(s, n.new)'
      BY <2>1, <1>0, <1>1, <1>4 DEF Usable, Holds
    <3>3. \A k \in net' : k.cred # n.new /\ (k.new = n.new => k = n)
      BY <2>1, <1>0, <1>1, <1>5, <1>6
    <3> QED BY <3>1, <3>2, <3>3
  <2>2. CASE n \in net \ {m}
    <3>1. /\ jar # n.new /\ \A k \in net : k.cred # n.new /\ (k.new = n.new => k = n)
      BY <2>2, <1>7 DEF CookieInv, Undelivered
    <3>2. PICK u \in Sessions : Usable(u, n.new)
      BY <2>2, <1>7 DEF CookieInv, Undelivered
    <3>3. u # s
      BY <3>1, <3>2, <1>7 DEF Usable, Holds
    <3>4. Usable(u, n.new)'
      BY <3>2, <3>3, <1>3 DEF Usable, Holds
    <3>5. n.new # issued + 1
      BY <2>2, <1>0, <1>5
    <3>6. \A k \in net' : k.cred # n.new /\ (k.new = n.new => k = n)
      BY <3>1, <3>5, <1>1
    <3> QED BY <3>1, <3>4, <3>6
  <2> QED BY <1>1, <2>1, <2>2
<1>8. Undelivered'
  <2>1. jar' <= issued'
    BY <1>0, <1>2 DEF CookieInv, Undelivered
  <2> QED BY <1>6, <1>7, <2>1 DEF Undelivered
<1>9. Settling'
  BY <1>1 DEF Settling
<1> QED BY <1>8, <1>9 DEF CookieInv

\* A refresh that is refused changes no session and no cookie.
LEMMA RefuseKeepsCookies ==
    ASSUME IInv, CookieInv, NEW m \in net, m.kind = "refresh", m.answer = "none",
           Answer(m, "refused", 0), UNCHANGED <<sessions, issued, jar, lost>>
    PROVE  CookieInv'
<1> DEFINE a == [m EXCEPT !.answer = "refused", !.new = 0]
<1>0. m \in Message /\ issued \in Nat
  BY MessageNumbers DEF IInv, TypeOK
<1>1. a.cred = m.cred /\ a.new = 0 /\ net' = (net \ {m}) \cup {a}
  BY <1>0 DEF Message, Answer
<1> HIDE DEF a
<1>2. \A s \in Sessions : \A c : Usable(s, c)' <=> Usable(s, c)
  BY DEF Usable, Holds
<1>3. Undelivered'
  <2>1. jar' <= issued' /\ \A n \in net' : n.cred <= issued' /\ n.new <= issued'
    BY <1>0, <1>1 DEF CookieInv, Undelivered
  <2>2. ASSUME NEW n \in net', n.new # 0
        PROVE  /\ jar' # n.new /\ \E s \in Sessions : Usable(s, n.new)'
               /\ \A k \in net' : k.cred # n.new /\ (k.new = n.new => k = n)
    <3>1. n \in net
      BY <1>1, <2>2
    <3>2. /\ jar # n.new /\ \E s \in Sessions : Usable(s, n.new)
          /\ \A k \in net : k.cred # n.new /\ (k.new = n.new => k = n)
      BY <2>2, <3>1 DEF CookieInv, Undelivered
    <3> QED BY <1>1, <1>2, <2>2, <3>2
  <2> QED BY <2>1, <2>2 DEF Undelivered
<1>4. Settling'
  <2> SUFFICES ASSUME ~lost, jar # 0
               PROVE  \/ \E s \in Sessions : Usable(s, jar)
                      \/ \E n \in net' : n.kind = "logout" \/ n.answer = "ok"
    BY <1>2 DEF Settling
  <2>1. \A n \in net : n.kind = "logout" \/ n.answer = "ok" => n \in net'
    BY <1>1
  <2> QED BY <2>1 DEF CookieInv, Settling
<1> QED BY <1>3, <1>4 DEF CookieInv

\* A logout revokes what it presents, which is not on its way to anybody, and its
\* own answer will clear the cookies.
LEMMA LogoutKeepsCookies ==
    ASSUME IInv, CookieInv, NEW m \in net, HandleLogout(m)
    PROVE  CookieInv'
<1> DEFINE a == [m EXCEPT !.answer = "ok", !.new = 0]
<1>0. m \in Message /\ issued \in Nat
  BY MessageNumbers DEF IInv, TypeOK
<1>1. a.cred = m.cred /\ a.new = 0 /\ a.answer = "ok" /\ net' = (net \ {m}) \cup {a}
  BY <1>0 DEF Message, HandleLogout, Answer
<1> HIDE DEF a
<1>2. /\ issued' = issued /\ jar' = jar
      /\ sessions' = [s \in Sessions |-> IF Holds(s, m.cred) THEN [sessions[s] EXCEPT !.revoked = TRUE]
                                                            ELSE sessions[s]]
  BY DEF HandleLogout, Sessions
<1>3. Undelivered'
  <2>1. jar' <= issued' /\ \A n \in net' : n.cred <= issued' /\ n.new <= issued'
    BY <1>0, <1>1, <1>2 DEF CookieInv, Undelivered
  <2>2. ASSUME NEW n \in net', n.new # 0
        PROVE  /\ jar' # n.new /\ \E s \in Sessions : Usable(s, n.new)'
               /\ \A k \in net' : k.cred # n.new /\ (k.new = n.new => k = n)
    <3>1. n \in net
      BY <1>1, <2>2
    <3>2. /\ jar # n.new /\ \A k \in net : k.cred # n.new /\ (k.new = n.new => k = n)
      BY <2>2, <3>1 DEF CookieInv, Undelivered
    <3>3. PICK s \in Sessions : Usable(s, n.new)
      BY <2>2, <3>1 DEF CookieInv, Undelivered
    <3>4. sessions'[s] = sessions[s]
      BY <1>2, <3>2, <3>3 DEF Usable, Holds
    <3>5. Usable(s, n.new)'
      BY <3>3, <3>4 DEF Usable, Holds
    <3> QED BY <1>1, <1>2, <2>2, <3>2, <3>5
  <2> QED BY <2>1, <2>2 DEF Undelivered
<1>4. Settling'
  BY <1>1 DEF Settling
<1> QED BY <1>3, <1>4 DEF CookieInv

\* Every step keeps the cookies on their way to a credential that works.
LEMMA CookieStep == IInv /\ CookieInv /\ [Next]_vars => CookieInv'
<1> SUFFICES ASSUME IInv, CookieInv, [Next]_vars PROVE CookieInv'
  OBVIOUS
<1>0. ASSUME UNCHANGED <<sessions, issued, jar, lost, net>> PROVE CookieInv'
  BY <1>0 DEF CookieInv, Undelivered, Settling, Usable, Holds
<1>1. ASSUME NEW t \in Tabs, Login(t) \/ Logout(t) PROVE CookieInv'
  BY <1>1, SendKeepsCookies DEF Login, Logout, server
<1>2. ASSUME NEW c \in Calls, Ask(c) \/ AskAgain(c) PROVE CookieInv'
  BY <1>0, <1>2 DEF Ask, AskAgain, server
<1>3. ASSUME NEW c \in Calls, AnswerCall(c) PROVE CookieInv'
  <2>1. UNCHANGED <<sessions, issued, jar, lost>>
    BY <1>3 DEF AnswerCall, server
  <2>2. net' = net \/ net' = net \cup {Request("refresh", TabOf[c])}
    BY <1>3 DEF AnswerCall
  <2> QED BY <1>0, <2>1, <2>2, SendKeepsCookies
<1>4. ASSUME NEW m \in net, Deliver(m) \/ Lose(m) \/ HandleLogout(m) PROVE CookieInv'
  BY <1>4, DeliverKeepsCookies, LoseKeepsCookies, LogoutKeepsCookies
<1>5. ASSUME NEW m \in net, HandleLogin(m) PROVE CookieInv'
  <2>1. PICK s \in Sessions : sessions[s].cred = 0 /\ Issue(s, 0)
    BY <1>5 DEF HandleLogin, Sessions
  <2>2. ~sessions[s].revoked
    BY <2>1 DEF IInv, Books, TypeOK, Sessions
  <2>3. 0 \in Creds
    BY BoundsAssumption DEF Creds
  <2>4. Answer(m, "ok", issued + 1) /\ UNCHANGED <<jar, lost>>
    BY <1>5 DEF HandleLogin
  <2> QED BY <2>1, <2>2, <2>3, <2>4, IssueKeepsCookies
<1>6. ASSUME NEW m \in net, HandleRefresh(m) PROVE CookieInv'
  <2>1. CASE \E s \in 1 .. MaxSessions :
               Usable(s, m.cred) /\ Issue(s, m.cred) /\ Answer(m, "ok", issued + 1)
    <3>1. PICK s \in Sessions : Usable(s, m.cred) /\ Issue(s, m.cred) /\ Answer(m, "ok", issued + 1)
      BY <2>1 DEF Sessions
    <3>2. m.cred \in Creds /\ m.cred = sessions[s].cred /\ ~sessions[s].revoked
      BY <3>1 DEF Usable, Holds, IInv, TypeOK, Message
    <3>3. UNCHANGED <<jar, lost>>
      BY <1>6 DEF HandleRefresh
    <3> QED BY <3>1, <3>2, <3>3, IssueKeepsCookies
  <2>2. CASE Answer(m, "refused", 0) /\ UNCHANGED <<server, fresh>>
    BY <1>6, <2>2, RefuseKeepsCookies DEF HandleRefresh, server
  <2> QED BY <1>6, <2>1, <2>2 DEF HandleRefresh
<1>7. ASSUME NEW a \in fresh, Expire(a) PROVE CookieInv'
  BY <1>0, <1>7 DEF Expire, server
<1>8. CASE UNCHANGED vars
  BY <1>0, <1>8 DEF vars, server
<1> QED BY <1>1, <1>2, <1>3, <1>4, <1>5, <1>6, <1>7, <1>8 DEF Next, Handle

\* A request or an answer that is no refresh leaves the refreshes as they are.
LEMMA SharingKept ==
    ASSUME Sharing, UNCHANGED inFlight,
           \A c \in Calls : calls'[c] = "waiting" <=> calls[c] = "waiting",
           \A m \in net : m.kind = "refresh" => m \in net',
           \A m \in net' : m.kind = "refresh" => m \in net
    PROVE  Sharing'
BY DEF Sharing

\* The server's answer is a message of the same kind and tab.
LEMMA AnswerKeepsSharing ==
    ASSUME IInv, Sharing, NEW m \in net, NEW answer, NEW new, Answer(m, answer, new),
           UNCHANGED <<inFlight, calls>>
    PROVE  Sharing'
<1> DEFINE a == [m EXCEPT !.answer = answer, !.new = new]
<1>1. a.kind = m.kind /\ a.tab = m.tab /\ net' = (net \ {m}) \cup {a}
  BY DEF Answer, IInv, TypeOK, Message
<1> HIDE DEF a
<1>2. \A n, k \in net' : (n.kind = "refresh" /\ k.kind = "refresh" /\ n.tab = k.tab) => n = k
  BY <1>1 DEF Sharing
<1>3. \A t \in Tabs : (\E n \in net' : n.kind = "refresh" /\ n.tab = t)
                      <=> (\E n \in net : n.kind = "refresh" /\ n.tab = t)
  BY <1>1
<1> QED BY <1>2, <1>3 DEF Sharing

\* The end of a tab's refresh wakes every call that waits for it.
LEMMA WakeKeepsSharing ==
    ASSUME IInv, Sharing, NEW m \in net, m.kind = "refresh", net' = net \ {m},
           NEW state, state # "waiting", Wake(m.tab, state)
    PROVE  Sharing'
<1>1. m.tab \in Tabs /\ inFlight \in [Tabs -> BOOLEAN]
  BY DEF IInv, TypeOK, Message
<1>2. \A t \in Tabs : inFlight'[t] <=> (t # m.tab /\ inFlight[t])
  BY <1>1 DEF Wake
<1>3. \A c \in Calls : calls'[c] = "waiting" <=> (calls[c] = "waiting" /\ TabOf[c] # m.tab)
  BY DEF Wake, Waiting
<1>4. \A t \in Tabs : (\E n \in net' : n.kind = "refresh" /\ n.tab = t)
                      <=> (t # m.tab /\ \E n \in net : n.kind = "refresh" /\ n.tab = t)
  BY DEF Sharing
<1>5. \A t \in Tabs : (\E c \in Calls : TabOf[c] = t /\ calls'[c] = "waiting")
                      <=> (t # m.tab /\ \E c \in Calls : TabOf[c] = t /\ calls[c] = "waiting")
  BY <1>3
<1> QED BY <1>2, <1>4, <1>5 DEF Sharing

\* A call that is answered 401 joins the refresh of its tab or starts the only one.
LEMMA AnswerCallKeepsSharing ==
    ASSUME IInv, Sharing, NEW c \in Calls, AnswerCall(c)
    PROVE  Sharing'
<1> DEFINE t == TabOf[c]
           r == Request("refresh", t)
<1>0. /\ t \in Tabs /\ calls[c] = "asked" /\ inFlight \in [Tabs -> BOOLEAN]
      /\ calls \in [Calls -> {"idle", "asked", "waiting", "again", "done", "failed"}]
  BY CallsAssumption DEF AnswerCall, IInv, TypeOK
<1>1. r.kind = "refresh" /\ r.tab = t
  BY DEF Request
<1>2. CASE /\ UNCHANGED <<inFlight, net>>
           /\ \/ calls' = [calls EXCEPT ![c] = "done"] \/ calls' = [calls EXCEPT ![c] = "failed"]
  <2>1. \A d \in Calls : calls'[d] = "waiting" <=> calls[d] = "waiting"
    BY <1>0, <1>2
  <2> QED BY <1>2, <2>1, SharingKept
<1>3. CASE inFlight[t] /\ calls' = [calls EXCEPT ![c] = "waiting"] /\ UNCHANGED <<inFlight, net>>
  <2>1. \A d \in Calls : calls'[d] = "waiting" <=> (calls[d] = "waiting" \/ d = c)
    BY <1>0, <1>3
  <2>2. \A u \in Tabs : inFlight[u] <=> \E d \in Calls : TabOf[d] = u /\ calls'[d] = "waiting"
    BY <1>3, <2>1 DEF Sharing
  <2> QED BY <1>3, <2>2 DEF Sharing
<1>4. CASE /\ ~inFlight[t] /\ calls' = [calls EXCEPT ![c] = "waiting"]
           /\ inFlight' = [inFlight EXCEPT ![t] = TRUE] /\ net' = net \cup {r}
  <2>1. \A d \in Calls : calls'[d] = "waiting" <=> (calls[d] = "waiting" \/ d = c)
    BY <1>0, <1>4
  <2>2. \A u \in Tabs : inFlight'[u] <=> (inFlight[u] \/ u = t)
    BY <1>0, <1>4
  <2> HIDE DEF r
  <2>3. \A m \in net : m.kind = "refresh" => m.tab # t
    BY <1>0, <1>4 DEF Sharing
  <2>4. \A m, n \in net' : (m.kind = "refresh" /\ n.kind = "refresh" /\ m.tab = n.tab) => m = n
    BY <1>1, <1>4, <2>3 DEF Sharing
  <2>5. \A u \in Tabs : inFlight'[u] <=> \E m \in net' : m.kind = "refresh" /\ m.tab = u
    BY <1>1, <1>4, <2>2 DEF Sharing
  <2>6. \A u \in Tabs : inFlight'[u] <=> \E d \in Calls : TabOf[d] = u /\ calls'[d] = "waiting"
    BY <2>1, <2>2 DEF Sharing
  <2> QED BY <2>4, <2>5, <2>6 DEF Sharing
<1> QED BY <1>2, <1>3, <1>4 DEF AnswerCall

\* Every step keeps the calls of a tab on its one refresh.
LEMMA SharingStep == IInv /\ Sharing /\ [Next]_vars => Sharing'
<1> SUFFICES ASSUME IInv, Sharing, [Next]_vars PROVE Sharing'
  OBVIOUS
<1>0. calls \in [Calls -> {"idle", "asked", "waiting", "again", "done", "failed"}]
  BY DEF IInv, TypeOK
<1>1. ASSUME NEW t \in Tabs, Login(t) \/ Logout(t) PROVE Sharing'
  <2>1. \E k \in {"login", "logout"} : net' = net \cup {Request(k, t)}
    BY <1>1 DEF Login, Logout
  <2>2. \A k : Request(k, t).kind = k
    BY DEF Request
  <2>3. UNCHANGED <<inFlight, calls>>
    BY <1>1 DEF Login, Logout, tab
  <2>4. /\ \A m \in net : m.kind = "refresh" => m \in net'
        /\ \A m \in net' : m.kind = "refresh" => m \in net
    BY <2>1, <2>2
  <2> QED BY <2>3, <2>4, SharingKept
<1>2. ASSUME NEW c \in Calls, Ask(c) \/ AskAgain(c) PROVE Sharing'
  <2>1. \A d \in Calls : calls'[d] = "waiting" <=> calls[d] = "waiting"
    BY <1>0, <1>2 DEF Ask, AskAgain
  <2>2. UNCHANGED <<inFlight, net>>
    BY <1>2 DEF Ask, AskAgain
  <2> QED BY <2>1, <2>2, SharingKept
<1>3. ASSUME NEW c \in Calls, AnswerCall(c) PROVE Sharing'
  BY <1>3, AnswerCallKeepsSharing
<1>4. ASSUME NEW m \in net, Deliver(m) \/ Lose(m) PROVE Sharing'
  <2>1. net' = net \ {m}
    BY <1>4 DEF Deliver, Lose
  <2>2. CASE m.kind = "refresh"
    <3>1. \E state \in {"again", "failed"} : Wake(m.tab, state)
      BY <1>4, <2>2 DEF Deliver, Lose
    <3> QED BY <2>1, <2>2, <3>1, WakeKeepsSharing
  <2>3. CASE m.kind # "refresh"
    <3>1. UNCHANGED <<inFlight, calls>>
      BY <1>4, <2>3 DEF Deliver, Lose
    <3> QED BY <2>1, <2>3, <3>1, SharingKept
  <2> QED BY <2>2, <2>3
<1>5. ASSUME NEW m \in net, Handle(m) PROVE Sharing'
  <2>1. \E answer, new : Answer(m, answer, new)
    BY <1>5 DEF Handle, HandleLogin, HandleRefresh, HandleLogout
  <2>2. UNCHANGED <<inFlight, calls>>
    BY <1>5 DEF Handle, HandleLogin, HandleRefresh, HandleLogout, tab
  <2> QED BY <2>1, <2>2, AnswerKeepsSharing
<1>6. ASSUME NEW a \in fresh, Expire(a) PROVE Sharing'
  BY <1>6, SharingKept DEF Expire, tab
<1>7. CASE UNCHANGED vars
  BY <1>7, SharingKept DEF vars, tab
<1> QED BY <1>1, <1>2, <1>3, <1>4, <1>5, <1>6, <1>7 DEF Next

\* One refresh is one message: what Sharing says in terms of the network.
LEMMA SharingCounts == Sharing => WaitersHaveARefresh
<1> SUFFICES ASSUME Sharing, NEW t \in Tabs
             PROVE  LET refreshes == {m \in net : m.kind = "refresh" /\ m.tab = t} IN
                    /\ inFlight[t] <=> Cardinality(refreshes) = 1
                    /\ ~inFlight[t] <=> refreshes = {}
                    /\ Waiting(t) # {} <=> inFlight[t]
  BY DEF WaitersHaveARefresh
<1> DEFINE refreshes == {m \in net : m.kind = "refresh" /\ m.tab = t}
<1>1. ~inFlight[t] <=> refreshes = {}
  BY DEF Sharing
<1>2. Waiting(t) # {} <=> inFlight[t]
  BY DEF Sharing, Waiting
<1>3. ASSUME inFlight[t] PROVE Cardinality(refreshes) = 1
  <2>1. PICK m : refreshes = {m}
    BY <1>3 DEF Sharing
  <2> QED BY <2>1, FS_Singleton
<1>4. ASSUME ~inFlight[t] PROVE Cardinality(refreshes) # 1
  <2>1. Cardinality({}) = 0
    BY FS_EmptySet
  <2> QED BY <1>1, <1>4, <2>1
<1> QED BY <1>1, <1>2, <1>3, <1>4

\* The cookies of a browser that lost no answer hold a credential the server
\* accepts once nothing is under way, however the tabs' logins, refreshes and
\* logouts crossed, and a call waits exactly while its tab's one refresh is under
\* way (apiRequest and refresh in apiClient.ts, AuthenticationService).
THEOREM SessionsAlwaysUsable == Spec => []SessionsUsable
<1>1. Init => CookieInv /\ Sharing
  <2> SUFFICES ASSUME Init PROVE CookieInv /\ Sharing
    OBVIOUS
  <2>1. CookieInv
    BY DEF Init, CookieInv, Undelivered, Settling
  <2>2. Sharing
    BY DEF Init, Sharing
  <2> QED BY <2>1, <2>2
<1>2. CookieInv /\ Sharing => SessionsUsable
  <2>1. CookieInv => CookiesWork
    BY DEF CookieInv, Settling, CookiesWork, Sessions
  <2> QED BY <2>1, SharingCounts DEF SessionsUsable
<1> QED BY <1>1, <1>2, CookieStep, SharingStep, Invariance, PTL DEF Spec

-----------------------------------------------------------------------------
(* Admission                                                                *)

\* A request that has locked the user's row.
HoldsUser(r) ==
    req[r].op \in {"scan", "clone", "capture"} /\ req[r].at \notin {"user", "peek", "done"}

\* A request that has locked a website's row that others can see.
HoldsSite(r, w) ==
    \/ /\ req[r].op \in {"scan", "clone"} /\ req[r].site = w
       /\ req[r].at \in {"key", "active", "quota", "save"}
    \/ req[r].op = "archive" /\ req[r].target = w /\ req[r].at \in {"check", "save"}

\* A clone's request that has inserted a website and not yet committed it.
Inserted(r, w) ==
    req[r].op = "clone" /\ req[r].at = "site" /\ req[r].site = w /\ site[w].status = "ABSENT"

\* Where a request of each operation can be, and what it is about.
Placed(r) ==
    /\ req[r].op = "none" <=> req[r].at = "idle"
    /\ req[r].answer = "none" <=> req[r].at # "done"
    /\ req[r].op = "scan" =>
          /\ req[r].at \in {"user", "site", "key", "active", "quota", "save", "done"}
          /\ req[r].target \in Sites
          /\ req[r].at \notin {"user", "done"} => req[r].site = req[r].target
    /\ req[r].op = "clone" =>
          /\ req[r].at \in {"user", "cloneKey", "resolve", "insert", "site", "key", "active",
                            "quota", "save", "done"}
          /\ req[r].target \in Urls /\ req[r].key \in Keys
          /\ req[r].at \in {"site", "key", "active", "quota", "save"} => req[r].site \in Sites
    /\ req[r].op = "capture" =>
          req[r].at \in {"peek", "user", "key", "active", "save", "done"} /\ req[r].target \in Pages
    /\ req[r].op = "website" =>
          req[r].at \in {"exists", "insert", "done"} /\ req[r].target \in Urls /\ req[r].key = NoKey
    /\ req[r].op = "archive" =>
          req[r].at \in {"lock", "check", "save", "done"} /\ req[r].target \in Sites /\ req[r].key = NoKey

\* The locks are where the requests are.
Locked(r) ==
    /\ HoldsUser(r) => userLock = r
    /\ \A w \in Sites : HoldsSite(r, w) => siteLock[w] = r
    /\ \A w \in Sites : siteLock[w] = r => HoldsSite(r, w) \/ Inserted(r, w)
    /\ \A w \in Sites : HoldsSite(r, w) => /\ site[w].status # "ARCHIVED"
                                           /\ req[r].op # "clone" => site[w].status = "ACTIVE"

\* What a request has checked still holds.
Checked(r) ==
    /\ req[r].op \in {"scan", "clone"} /\ req[r].at \in {"active", "quota", "save"} /\ req[r].key # NoKey =>
          ScansWith(ScanKey(req[r])) = {}
    /\ req[r].op \in {"scan", "clone"} /\ req[r].at \in {"quota", "save"} =>
          \A s \in ActiveScans : scan[s].site # req[r].site
    /\ req[r].op \in {"scan", "clone"} /\ req[r].at = "save" =>
          Cardinality(ActiveScans) < MaxActive
    /\ req[r].op = "clone" /\ req[r].at \in {"resolve", "insert", "site", "key", "active", "quota", "save"} =>
          \A c \in Requests : clone[c].there => clone[c].key # req[r].key
    /\ req[r].op = "archive" /\ req[r].at = "save" =>
          \A s \in ActiveScans : scan[s].site # req[r].target
    /\ req[r].op = "capture" /\ req[r].at \in {"active", "save"} /\ req[r].key # NoKey =>
          \A c \in Requests : capture[c].there => capture[c].key # req[r].key
    /\ req[r].op = "capture" /\ req[r].at = "save" =>
          \A c \in Requests : capture[c].there /\ capture[c].active => capture[c].page # req[r].target

\* What a request has been told: a row of its own key and target.
Told(r) ==
    /\ req[r].answer # "INTEGRITY"
    /\ req[r].answer = "CREATED" => req[r].of = r
    /\ req[r].answer \in {"CREATED", "REPLAYED"} =>
          /\ req[r].of \in Requests
          /\ req[r].op \in {"scan", "clone", "capture", "website"}
          /\ req[r].op = "scan" => /\ scan[req[r].of].there /\ scan[req[r].of].site = req[r].target
                                   /\ scan[req[r].of].key = ScanKey(req[r])
          /\ req[r].op = "clone" => /\ clone[req[r].of].there /\ clone[req[r].of].url = req[r].target
                                    /\ clone[req[r].of].key = req[r].key
          /\ req[r].op = "capture" => /\ capture[req[r].of].there
                                      /\ capture[req[r].of].page = req[r].target
                                      /\ capture[req[r].of].key = req[r].key

Behaves(r) == Placed(r) /\ Locked(r) /\ Checked(r) /\ Told(r)

\* The rows: made by requests that are through, each with a key of its own.
Rows ==
    /\ \A s \in Requests : scan[s].there \/ clone[s].there \/ capture[s].there => req[s].at = "done"
    /\ \A s \in Requests : scan[s].there => scan[s].site \in Sites
    /\ \A s \in Requests : scan[s].there /\ scan[s].key.by = "clone" =>
          clone[s].there /\ clone[s].key = scan[s].key.key
    /\ \A s, t \in Requests : scan[s].there /\ scan[t].there /\ scan[s].key = scan[t].key /\ scan[s].key.key # NoKey
          => s = t
    /\ \A s, t \in Requests : clone[s].there /\ clone[t].there /\ clone[s].key = clone[t].key => s = t
    /\ \A s, t \in Requests : capture[s].there /\ capture[t].there /\ capture[s].key = capture[t].key /\ capture[s].key # NoKey
          => s = t

AdmissionInv == /\ AdmissionTypes /\ Rows /\ QuotaHeld /\ NothingActiveArchived
                /\ \A r \in Requests : Behaves(r)

\* What is kept about a request.
RequestRow == [op : Ops \cup {"none"}, target : Sites \cup Urls \cup Pages \cup {Nobody},
               key : Keys \cup {NoKey}, at : Statements, site : Sites \cup {Nobody},
               of : Requests \cup {Nobody}, answer : Answers]

\* A request and its row.
LEMMA RequestFields ==
    ASSUME AdmissionTypes, NEW r \in Requests
    PROVE  /\ req[r] \in RequestRow
           /\ req[r].op \in {"scan", "clone", "website", "archive", "capture", "none"}
           /\ r # Nobody
BY RequestsAssumption, OpsAssumption DEF AdmissionTypes, RequestRow

LEMMA AdmissionInitHolds == AdmissionInit => AdmissionInv
<1> SUFFICES ASSUME AdmissionInit PROVE AdmissionInv
  OBVIOUS
<1>1. AdmissionTypes
  <2>1. /\ NoScan \in [there : BOOLEAN, site : Sites \cup {Nobody},
                       key : [by : {"scan", "clone"}, key : Keys \cup {NoKey}], active : BOOLEAN]
        /\ NoClone \in [there : BOOLEAN, url : Urls \cup {Nobody}, key : Keys \cup {NoKey},
                        scan : Requests \cup {Nobody}]
        /\ NoCapture \in [there : BOOLEAN, page : Pages \cup {Nobody}, key : Keys \cup {NoKey},
                          active : BOOLEAN]
    BY DEF NoScan, NoClone, NoCapture
  <2>2. Idle \in RequestRow
    BY DEF Idle, Statements, Answers, RequestRow
  <2>3. site \in [Sites -> [url : Urls \cup {Nobody}, status : {"ABSENT", "ACTIVE", "ARCHIVED"}]]
    BY DEF AdmissionInit
  <2> QED BY <2>1, <2>2, <2>3 DEF AdmissionInit, AdmissionTypes, RequestRow
<1>2. /\ \A r \in Requests : ~scan[r].there /\ ~clone[r].there /\ ~capture[r].there
      /\ \A r \in Requests : req[r].op = "none" /\ req[r].at = "idle" /\ req[r].answer = "none"
      /\ \A w \in Sites : siteLock[w] = Nobody
  BY DEF AdmissionInit, NoScan, NoClone, NoCapture, Idle
<1>3. ActiveScans = {}
  BY <1>2 DEF ActiveScans
<1>4. QuotaHeld /\ NothingActiveArchived
  BY <1>3, FS_EmptySet, QuotaAssumption DEF QuotaHeld, NothingActiveArchived
<1>5. Rows
  BY <1>2 DEF Rows
<1>6. ASSUME NEW r \in Requests PROVE Behaves(r)
  BY <1>2, RequestsAssumption DEF Behaves, Placed, Locked, Checked, Told, HoldsUser, HoldsSite
<1> QED BY <1>1, <1>4, <1>5, <1>6 DEF AdmissionInv

-----------------------------------------------------------------------------
\* A step of r that writes no row and leaves the locks of the others keeps the
\* invariant if it keeps r's part of it.
LEMMA OthersUnmoved ==
    ASSUME AdmissionInv, NEW r \in Requests, UNCHANGED tables, AdmissionTypes', Behaves(r)',
           \A s \in Requests \ {r} : /\ req'[s] = req[s]
                                     /\ userLock = s => userLock' = s
                                     /\ \A w \in Sites : siteLock'[w] = s <=> siteLock[w] = s,
           req[r].at = "done" => req'[r].at = "done"
    PROVE  AdmissionInv'
<1>1. site' = site /\ scan' = scan /\ clone' = clone /\ capture' = capture
  BY DEF tables
<1>2. ActiveScans' = ActiveScans /\ \A k : ScansWith(k)' = ScansWith(k)
  BY <1>1 DEF ActiveScans, ScansWith
<1>3. QuotaHeld' /\ NothingActiveArchived'
  BY <1>1, <1>2 DEF AdmissionInv, QuotaHeld, NothingActiveArchived
<1>4. Rows'
  BY <1>1 DEF AdmissionInv, Rows
<1>5. ASSUME NEW s \in Requests \ {r} PROVE Behaves(s)'
  <2>1. Placed(s) /\ Locked(s) /\ Checked(s) /\ Told(s) /\ req'[s] = req[s]
    BY <1>5 DEF AdmissionInv, Behaves
  <2>2. Placed(s)'
    BY <2>1 DEF Placed
  <2>3. Locked(s)'
    BY <1>1, <1>5, <2>1 DEF Locked, HoldsUser, HoldsSite, Inserted
  <2>4. Checked(s)'
    BY <1>1, <1>2, <2>1 DEF Checked, ScanKey
  <2>5. Told(s)'
    BY <1>1, <2>1 DEF Told, ScanKey
  <2> QED BY <2>2, <2>3, <2>4, <2>5 DEF Behaves
<1> QED BY <1>3, <1>4, <1>5 DEF AdmissionInv

\* The next statement of a request: everything else about it stays.
LEMMA GotoFields ==
    ASSUME AdmissionTypes, NEW r \in Requests, NEW a \in Statements, req' = [req EXCEPT ![r].at = a]
    PROVE  /\ req'[r] = [req[r] EXCEPT !.at = a] /\ req'[r].at = a
           /\ req'[r].op = req[r].op /\ req'[r].target = req[r].target /\ req'[r].key = req[r].key
           /\ req'[r].site = req[r].site /\ req'[r].of = req[r].of /\ req'[r].answer = req[r].answer
           /\ \A s \in Requests \ {r} : req'[s] = req[s]
           /\ req' \in [Requests -> RequestRow]
<1>1. req \in [Requests -> RequestRow]
  BY DEF AdmissionTypes, RequestRow
<1>2. req[r] \in RequestRow
  BY <1>1
<1>3. req' = [req EXCEPT ![r] = [req[r] EXCEPT !.at = a]]
  BY <1>1
<1>4. req'[r] = [req[r] EXCEPT !.at = a] /\ \A s \in Requests \ {r} : req'[s] = req[s]
  BY <1>1, <1>3
<1>5. [req[r] EXCEPT !.at = a] \in RequestRow
  BY <1>2 DEF RequestRow
<1>6. req' \in [Requests -> RequestRow]
  BY <1>1, <1>3, <1>5
<1> QED BY <1>2, <1>4, <1>6 DEF RequestRow

\* A request goes on to a statement for which it has checked what is to be checked.
LEMMA GotoKeeps ==
    ASSUME AdmissionInv, NEW r \in Requests, NEW a \in Statements, Goto(r, a),
           req[r].at \notin {"idle", "done"}, Placed(r)', Checked(r)',
           HoldsUser(r)' => HoldsUser(r),
           \A w \in Sites : /\ HoldsSite(r, w)' <=> HoldsSite(r, w)
                            /\ Inserted(r, w) => Inserted(r, w)'
    PROVE  AdmissionInv'
<1>1. AdmissionTypes /\ Placed(r) /\ Locked(r) /\ Told(r)
  BY DEF AdmissionInv, Behaves
<1>2. req' = [req EXCEPT ![r].at = a] /\ UNCHANGED <<site, scan, clone, capture, userLock, siteLock, urlLock>>
  BY DEF Goto, tables
<1>3. AdmissionTypes'
  BY <1>1, <1>2, GotoFields DEF AdmissionTypes, RequestRow
<1>4. Locked(r)'
  BY <1>1, <1>2, GotoFields DEF Locked
<1>5. Told(r)'
  BY <1>1, <1>2, GotoFields DEF Told, ScanKey
<1>6. Behaves(r)'
  BY <1>4, <1>5 DEF Behaves
<1> QED BY <1>1, <1>2, <1>3, <1>6, GotoFields, OthersUnmoved DEF tables

\* The end of a transaction: the request holds nothing any more.
LEMMA AnsweredFields ==
    ASSUME AdmissionTypes, NEW r \in Requests, NEW a \in Answers, NEW of \in Requests \cup {Nobody},
           Answered(r, a, of)
    PROVE  /\ req'[r].at = "done" /\ req'[r].answer = a /\ req'[r].of = of
           /\ req'[r].op = req[r].op /\ req'[r].target = req[r].target /\ req'[r].key = req[r].key
           /\ req'[r].site = req[r].site
           /\ \A s \in Requests \ {r} : /\ req'[s] = req[s]
                                        /\ userLock = s => userLock' = s
                                        /\ \A w \in Sites : siteLock'[w] = s <=> siteLock[w] = s
           /\ \A w \in Sites : siteLock'[w] # r
           /\ \A w \in Sites : siteLock[w] # r => siteLock'[w] = siteLock[w]
           /\ req' \in [Requests -> RequestRow]
           /\ userLock' \in Requests \cup {Nobody} /\ siteLock' \in [Sites -> Requests \cup {Nobody}]
           /\ urlLock' \in [Urls -> Requests \cup {Nobody}]
<1>1. req' = [req EXCEPT ![r] = [req[r] EXCEPT !.at = "done", !.answer = a, !.of = of]]
  BY DEF Answered, AdmissionTypes
<1>2. "done" \in Statements
  BY DEF Statements
<1>3. [req[r] EXCEPT !.at = "done", !.answer = a, !.of = of] \in
         RequestRow
  BY <1>2, RequestFields, ZenonT(20) DEF RequestRow
<1>4. /\ siteLock' = [w \in Sites |-> IF siteLock[w] = r THEN Nobody ELSE siteLock[w]]
      /\ urlLock' = [u \in Urls |-> IF urlLock[u] = r THEN Nobody ELSE urlLock[u]]
      /\ userLock' = IF userLock = r THEN Nobody ELSE userLock
  BY DEF Answered
<1>5. siteLock' \in [Sites -> Requests \cup {Nobody}] /\ urlLock' \in [Urls -> Requests \cup {Nobody}]
  BY <1>4 DEF AdmissionTypes
<1>6. req'[r] = [req[r] EXCEPT !.at = "done", !.answer = a, !.of = of]
      /\ \A s \in Requests \ {r} : req'[s] = req[s]
  BY <1>1 DEF AdmissionTypes
<1>7. \A s \in Requests \ {r} : /\ userLock = s => userLock' = s
                                /\ \A w \in Sites : siteLock'[w] = s <=> siteLock[w] = s
  BY <1>4, RequestsAssumption
<1>8. \A w \in Sites : siteLock'[w] # r /\ (siteLock[w] # r => siteLock'[w] = siteLock[w])
  BY <1>4, RequestsAssumption
<1>9. req' \in [Requests -> RequestRow]
  BY <1>1, <1>3 DEF AdmissionTypes, RequestRow
<1> QED BY <1>3, <1>4, <1>5, <1>6, <1>7, <1>8, <1>9, RequestFields DEF AdmissionTypes, RequestRow

\* A request that is through holds and has checked nothing.
LEMMA DoneIsFree ==
    ASSUME NEW r \in Requests, Placed(r), req'[r].at = "done", req'[r].op = req[r].op,
           req'[r].target = req[r].target, req'[r].key = req[r].key, req'[r].answer # "none",
           req[r].at # "idle", \A w \in Sites : siteLock'[w] # r
    PROVE  Placed(r)' /\ Locked(r)' /\ Checked(r)'
<1>1. Placed(r)'
  BY DEF Placed
<1>2. ~HoldsUser(r)' /\ \A w \in Sites : ~HoldsSite(r, w)'
  BY DEF HoldsUser, HoldsSite
<1>3. Locked(r)'
  BY <1>2 DEF Locked
<1>4. Checked(r)'
  BY DEF Checked
<1> QED BY <1>1, <1>3, <1>4

\* A request is refused.
LEMMA RefusedKeeps ==
    ASSUME AdmissionInv, NEW r \in Requests, NEW a \in Answers \ {"none", "INTEGRITY", "CREATED", "REPLAYED"},
           Refused(r, a), req[r].at \notin {"idle", "done"}
    PROVE  AdmissionInv'
<1>1. AdmissionTypes /\ Placed(r)
  BY DEF AdmissionInv, Behaves
<1>2. Answered(r, a, Nobody) /\ UNCHANGED tables
  BY DEF Refused
<1>3. Placed(r)' /\ Locked(r)' /\ Checked(r)'
  BY <1>1, <1>2, AnsweredFields, DoneIsFree
<1>4. Told(r)'
  BY <1>1, <1>2, AnsweredFields DEF Told
<1>5. AdmissionTypes'
  BY <1>1, <1>2, AnsweredFields DEF AdmissionTypes, RequestRow, tables
<1>6. Behaves(r)'
  BY <1>3, <1>4 DEF Behaves
<1> QED BY <1>1, <1>2, <1>5, <1>6, AnsweredFields, OthersUnmoved

\* A request is answered with a row that has its key and its target.
LEMMA ReplayedKeeps ==
    ASSUME AdmissionInv, NEW r \in Requests, NEW s \in Requests, Answered(r, "REPLAYED", s),
           UNCHANGED tables, req[r].at \notin {"idle", "done"},
           req[r].op \in {"scan", "clone", "capture"},
           req[r].op = "scan" => scan[s].there /\ scan[s].site = req[r].target /\ scan[s].key = ScanKey(req[r]),
           req[r].op = "clone" => clone[s].there /\ clone[s].url = req[r].target /\ clone[s].key = req[r].key,
           req[r].op = "capture" => capture[s].there /\ capture[s].page = req[r].target
                                    /\ capture[s].key = req[r].key
    PROVE  AdmissionInv'
<1>1. AdmissionTypes /\ Placed(r) /\ "REPLAYED" \in Answers
  BY DEF AdmissionInv, Behaves, Answers
<1>2. Placed(r)' /\ Locked(r)' /\ Checked(r)'
  BY <1>1, AnsweredFields, DoneIsFree
<1>3. Told(r)'
  BY <1>1, AnsweredFields DEF Told, ScanKey, tables
<1>4. AdmissionTypes'
  BY <1>1, AnsweredFields DEF AdmissionTypes, RequestRow, tables
<1>5. Behaves(r)'
  BY <1>2, <1>3 DEF Behaves
<1> QED BY <1>1, <1>4, <1>5, AnsweredFields, OthersUnmoved

-----------------------------------------------------------------------------
\* A request arrives: it holds nothing yet.
LEMMA ArriveKeeps ==
    ASSUME AdmissionInv, NEW r \in Requests, Arrive(r)
    PROVE  AdmissionInv'
<1>1. AdmissionTypes /\ Placed(r) /\ Locked(r) /\ Checked(r) /\ Told(r) /\ req[r].at = "idle" /\ req[r].op = "none"
  BY DEF AdmissionInv, Behaves, Arrive, Placed
<1>2. PICK op \in Ops : \E t \in Targets(op), k \in KeysFor(op) :
         req' = [req EXCEPT ![r] = [Idle EXCEPT !.op = op, !.target = t, !.key = k, !.at = First(op)]]
  BY DEF Arrive
<1>3. PICK t \in Targets(op), k \in KeysFor(op) :
         req' = [req EXCEPT ![r] = [Idle EXCEPT !.op = op, !.target = t, !.key = k, !.at = First(op)]]
  BY <1>2
<1>4. /\ op = "scan" => First(op) = "user" /\ t \in Sites /\ k \in Keys \cup {NoKey}
      /\ op = "clone" => First(op) = "user" /\ t \in Urls /\ k \in Keys
      /\ op = "capture" => First(op) = "peek" /\ t \in Pages /\ k \in Keys \cup {NoKey}
      /\ op = "website" => First(op) = "exists" /\ t \in Urls /\ k = NoKey
      /\ op = "archive" => First(op) = "lock" /\ t \in Sites /\ k = NoKey
      /\ op \in {"scan", "clone", "capture", "website", "archive"}
  <2>1. op \in {"scan", "clone", "capture", "website", "archive"}
    BY OpsAssumption
  <2>2. op = "scan" => First(op) = "user" /\ t \in Sites /\ k \in Keys \cup {NoKey}
    BY DEF First, Targets, KeysFor
  <2>3. op = "clone" => First(op) = "user" /\ t \in Urls /\ k \in Keys
    BY DEF First, Targets, KeysFor
  <2>4. op = "capture" => First(op) = "peek" /\ t \in Pages /\ k \in Keys \cup {NoKey}
    BY DEF First, Targets, KeysFor
  <2>5. op = "website" => First(op) = "exists" /\ t \in Urls /\ k = NoKey
    BY DEF First, Targets, KeysFor
  <2>6. op = "archive" => First(op) = "lock" /\ t \in Sites /\ k = NoKey
    BY DEF First, Targets, KeysFor
  <2> QED BY <2>1, <2>2, <2>3, <2>4, <2>5, <2>6
<1>5. UNCHANGED <<site, scan, clone, capture, userLock, siteLock, urlLock>>
  BY DEF Arrive, tables
<1> DEFINE q == [Idle EXCEPT !.op = op, !.target = t, !.key = k, !.at = First(op)]
<1>6. q \in RequestRow /\ q.op = op /\ q.target = t /\ q.key = k /\ q.at = First(op) /\ q.answer = "none"
  BY <1>4 DEF Idle, RequestRow, Statements, Answers
<1>7. req'[r] = q /\ \A s \in Requests \ {r} : req'[s] = req[s]
  BY <1>1, <1>3 DEF AdmissionTypes
<1>8. req' \in [Requests -> RequestRow]
  BY <1>1, <1>3, <1>6 DEF AdmissionTypes, RequestRow
<1> HIDE DEF q
<1>9. AdmissionTypes'
  BY <1>1, <1>5, <1>8 DEF AdmissionTypes, RequestRow
<1>10. Placed(r)'
  BY <1>4, <1>6, <1>7 DEF Placed
<1>11. ~HoldsUser(r)' /\ \A w \in Sites : ~HoldsSite(r, w)' /\ siteLock'[w] # r
  <2>1. ~HoldsUser(r)' /\ \A w \in Sites : ~HoldsSite(r, w)'
    BY <1>4, <1>6, <1>7 DEF HoldsUser, HoldsSite
  <2>2. \A w \in Sites : siteLock[w] # r
    BY <1>1 DEF Locked, HoldsSite, Inserted
  <2> QED BY <1>5, <2>1, <2>2
<1>12. Locked(r)'
  BY <1>11 DEF Locked
<1>13. Checked(r)' /\ Told(r)'
  BY <1>4, <1>6, <1>7 DEF Checked, Told
<1>14. Behaves(r)'
  BY <1>10, <1>12, <1>13 DEF Behaves
<1> QED BY <1>1, <1>5, <1>7, <1>9, <1>14, OthersUnmoved DEF tables

LEMMA LockUserKeeps ==
    ASSUME AdmissionInv, NEW r \in Requests, LockUser(r)
    PROVE  AdmissionInv'
<1>1. /\ AdmissionTypes /\ Placed(r) /\ Locked(r) /\ Told(r) /\ req[r].at = "user"
      /\ req[r].op \in {"scan", "clone", "capture"} /\ userLock = Nobody /\ userLock' = r
  BY RequestFields DEF AdmissionInv, Behaves, LockUser, Placed
<1>2. UNCHANGED <<site, scan, clone, capture, siteLock, urlLock>>
  BY DEF LockUser, tables
<1> DEFINE a == CASE req[r].op = "scan" -> "site" [] req[r].op = "clone" -> "cloneKey"
                  [] req[r].op = "capture" -> "key"
           b == IF req[r].op = "scan" THEN req[r].target ELSE Nobody
           q == [req[r] EXCEPT !.at = a, !.site = b]
<1>3. req' = [req EXCEPT ![r] = q]
  BY <1>1 DEF LockUser, AdmissionTypes
<1>4. /\ req[r].op = "scan" => a = "site" /\ b = req[r].target /\ b \in Sites
      /\ req[r].op = "clone" => a = "cloneKey" /\ b = Nobody
      /\ req[r].op = "capture" => a = "key" /\ b = Nobody
  BY <1>1 DEF Placed
<1> HIDE DEF a, b
<1>5. /\ q \in RequestRow /\ q.op = req[r].op /\ q.target = req[r].target /\ q.key = req[r].key
      /\ q.at = a /\ q.site = b /\ q.answer = req[r].answer /\ q.of = req[r].of
  BY <1>1, <1>4, RequestFields DEF RequestRow, Statements
<1> HIDE DEF q
<1>6. req'[r] = q /\ \A s \in Requests \ {r} : req'[s] = req[s]
  BY <1>1, <1>3 DEF AdmissionTypes
<1>7. req' \in [Requests -> RequestRow]
  BY <1>1, <1>3, <1>5 DEF AdmissionTypes, RequestRow
<1>8. AdmissionTypes'
  BY <1>1, <1>2, <1>7 DEF AdmissionTypes, RequestRow
<1>9. Placed(r)'
  BY <1>1, <1>4, <1>5, <1>6 DEF Placed
<1>10. Locked(r)'
  <2>1. \A w \in Sites : siteLock[w] # r
    BY <1>1 DEF Locked, HoldsSite, Inserted
  <2>2. \A w \in Sites : ~HoldsSite(r, w)'
    BY <1>1, <1>4, <1>5, <1>6 DEF HoldsSite
  <2> QED BY <1>1, <1>2, <2>1, <2>2 DEF Locked
<1>11. Checked(r)' /\ Told(r)'
  BY <1>1, <1>2, <1>4, <1>5, <1>6 DEF Checked, Told, Placed
<1>12. Behaves(r)'
  BY <1>9, <1>10, <1>11 DEF Behaves
<1>13. \A s \in Requests \ {r} : userLock = s => userLock' = s
  BY <1>1, RequestFields
<1> QED BY <1>1, <1>2, <1>6, <1>8, <1>12, <1>13, OthersUnmoved DEF tables

LEMMA LockSiteKeeps ==
    ASSUME AdmissionInv, NEW r \in Requests, LockSite(r)
    PROVE  AdmissionInv'
<1>1. /\ AdmissionTypes /\ Placed(r) /\ Locked(r) /\ Checked(r) /\ Told(r) /\ req[r].at = "site"
      /\ req[r].op \in {"scan", "clone"} /\ req[r].site \in Sites
  BY RequestFields DEF AdmissionInv, Behaves, LockSite, Placed
<1> DEFINE w == req[r].site
<1>2. CASE Refused(r, "NOT_FOUND")
  BY <1>1, <1>2, RefusedKeeps DEF Answers
<1>3. ASSUME siteLock[w] \in {Nobody, r}, site[w].status = "ACTIVE" \/ siteLock[w] = r,
             siteLock' = [siteLock EXCEPT ![w] = r], req' = [req EXCEPT ![r].at = "key"],
             UNCHANGED <<tables, userLock, urlLock>>
      PROVE  AdmissionInv'
  <2>1. UNCHANGED <<site, scan, clone, capture, userLock, urlLock>>
    BY <1>3 DEF tables
  <2>2. /\ req'[r].at = "key" /\ req'[r].op = req[r].op /\ req'[r].target = req[r].target
        /\ req'[r].key = req[r].key /\ req'[r].site = w /\ req'[r].of = req[r].of
        /\ req'[r].answer = req[r].answer
        /\ \A s \in Requests \ {r} : req'[s] = req[s]
        /\ req' \in [Requests -> RequestRow]
    BY <1>1, <1>3, GotoFields DEF Statements
  <2>3. \A x \in Sites : siteLock'[x] = IF x = w THEN r ELSE siteLock[x]
    BY <1>1, <1>3 DEF AdmissionTypes
  <2>4. AdmissionTypes'
    BY <1>1, <1>3, <2>1, <2>2 DEF AdmissionTypes, RequestRow
  <2>5. Placed(r)'
    BY <1>1, <2>2 DEF Placed
  <2>6. Locked(r)'
    <3>1. \A x \in Sites : HoldsSite(r, x)' <=> x = w
      BY <1>1, <2>2 DEF HoldsSite
    <3>2. \A x \in Sites : siteLock'[x] = r => x = w
      BY <1>1, <2>3 DEF Locked, HoldsSite, Inserted
    <3>3. HoldsUser(r)' => userLock' = r
      BY <1>1, <2>1, <2>2 DEF Locked, HoldsUser
    <3>4. site[w].status # "ARCHIVED" /\ (req[r].op # "clone" => site[w].status = "ACTIVE")
      <4>1. CASE site[w].status = "ACTIVE"
        BY <4>1
      <4>2. CASE siteLock[w] = r
        BY <1>1, <4>2 DEF Locked, HoldsSite, Inserted
      <4> QED BY <1>3, <4>1, <4>2
    <3> QED BY <1>1, <2>1, <2>2, <2>3, <3>1, <3>2, <3>3, <3>4 DEF Locked
  <2>7. Checked(r)' /\ Told(r)'
    BY <1>1, <2>1, <2>2 DEF Checked, Told, Placed
  <2>8. Behaves(r)'
    BY <2>5, <2>6, <2>7 DEF Behaves
  <2>9. \A s \in Requests \ {r} : \A x \in Sites : siteLock'[x] = s <=> siteLock[x] = s
    BY <1>1, <1>3, <2>3, RequestFields
  <2> QED BY <1>1, <1>3, <2>1, <2>2, <2>4, <2>8, <2>9, OthersUnmoved DEF tables
<1> QED BY <1>2, <1>3 DEF LockSite

LEMMA LookupScanKeyKeeps ==
    ASSUME AdmissionInv, NEW r \in Requests, LookupScanKey(r)
    PROVE  AdmissionInv'
<1>1. /\ AdmissionTypes /\ Placed(r) /\ Locked(r) /\ Checked(r) /\ req[r].at = "key"
      /\ req[r].op \in {"scan", "clone"}
  BY DEF AdmissionInv, Behaves, LookupScanKey
<1> DEFINE found == ScansWith(ScanKey(req[r]))
<1>2. CASE (req[r].key = NoKey \/ found = {}) /\ Goto(r, "active")
  <2>1. req' = [req EXCEPT ![r].at = "active"] /\ UNCHANGED <<site, scan, clone, capture, userLock, siteLock, urlLock>>
    BY <1>2 DEF Goto, tables
  <2>2. "active" \in Statements
    BY DEF Statements
  <2>3. /\ req'[r].at = "active" /\ req'[r].op = req[r].op /\ req'[r].target = req[r].target
        /\ req'[r].key = req[r].key /\ req'[r].site = req[r].site /\ req'[r].answer = req[r].answer
    BY <1>1, <2>1, <2>2, GotoFields
  <2>4. Placed(r)'
    BY <1>1, <2>3 DEF Placed
  <2>5. ScansWith(ScanKey(req[r]))' = found
    BY <2>1, <2>3 DEF ScansWith, ScanKey
  <2>6. Checked(r)'
    BY <1>1, <1>2, <2>1, <2>3, <2>5 DEF Checked
  <2>7. /\ HoldsUser(r)' => HoldsUser(r)
        /\ \A w \in Sites : (HoldsSite(r, w)' <=> HoldsSite(r, w)) /\ ~Inserted(r, w)
    BY <1>1, <2>3 DEF HoldsUser, HoldsSite, Inserted
  <2> QED BY <1>1, <1>2, <2>2, <2>4, <2>6, <2>7, GotoKeeps
<1>3. ASSUME req[r].key # NoKey, NEW s \in found,
             IF req[r].op = "scan" THEN Replay(r, s, scan[s].site = req[r].site)
             ELSE Refused(r, IF scan[s].site = req[r].site THEN "INTEGRITY" ELSE "KEY_REUSED")
      PROVE  AdmissionInv'
  <2>1. s \in Requests /\ scan[s].there /\ scan[s].key = ScanKey(req[r])
    BY DEF ScansWith
  <2>2. req[r].op = "scan"
    <3> SUFFICES ASSUME req[r].op = "clone" PROVE FALSE
      BY <1>1
    <3>1. scan[s].key.by = "clone" /\ scan[s].key.key = req[r].key
      BY <2>1 DEF ScanKey
    <3>2. clone[s].there /\ clone[s].key = req[r].key
      BY <2>1, <3>1 DEF AdmissionInv, Rows
    <3> QED BY <1>1, <2>1, <3>2 DEF Checked
  <2>3. req[r].site = req[r].target
    BY <1>1, <2>2 DEF Placed
  <2>4. CASE scan[s].site = req[r].site
    BY <1>1, <1>3, <2>1, <2>2, <2>3, <2>4, ReplayedKeeps DEF Replay
  <2>5. CASE scan[s].site # req[r].site
    <3>1. Refused(r, "KEY_REUSED")
      BY <1>3, <2>2, <2>5 DEF Replay, Refused
    <3> QED BY <1>1, <3>1, RefusedKeeps DEF Answers
  <2> QED BY <2>4, <2>5
<1> QED BY <1>2, <1>3 DEF LookupScanKey

LEMMA CheckActiveScanKeeps ==
    ASSUME AdmissionInv, NEW r \in Requests, CheckActiveScan(r)
    PROVE  AdmissionInv'
<1>1. /\ AdmissionTypes /\ Placed(r) /\ Locked(r) /\ Checked(r) /\ req[r].at = "active"
      /\ req[r].op \in {"scan", "clone"}
  BY DEF AdmissionInv, Behaves, CheckActiveScan
<1>2. CASE Refused(r, "ALREADY_ACTIVE")
  BY <1>1, <1>2, RefusedKeeps DEF Answers
<1>3. CASE (\A s \in ActiveScans : scan[s].site # req[r].site) /\ Goto(r, "quota")
  <2>1. req' = [req EXCEPT ![r].at = "quota"] /\ UNCHANGED <<site, scan, clone, capture, userLock, siteLock, urlLock>>
    BY <1>3 DEF Goto, tables
  <2>2. "quota" \in Statements
    BY DEF Statements
  <2>3. /\ req'[r].at = "quota" /\ req'[r].op = req[r].op /\ req'[r].target = req[r].target
        /\ req'[r].key = req[r].key /\ req'[r].site = req[r].site /\ req'[r].answer = req[r].answer
    BY <1>1, <2>1, <2>2, GotoFields
  <2>4. Placed(r)'
    BY <1>1, <2>3 DEF Placed
  <2>5. ScansWith(ScanKey(req[r]))' = ScansWith(ScanKey(req[r])) /\ ActiveScans' = ActiveScans
    BY <2>1, <2>3 DEF ScansWith, ScanKey, ActiveScans
  <2>6. Checked(r)'
    BY <1>1, <1>3, <2>1, <2>3, <2>5 DEF Checked
  <2>7. /\ HoldsUser(r)' => HoldsUser(r)
        /\ \A w \in Sites : (HoldsSite(r, w)' <=> HoldsSite(r, w)) /\ ~Inserted(r, w)
    BY <1>1, <2>3 DEF HoldsUser, HoldsSite, Inserted
  <2> QED BY <1>1, <1>3, <2>2, <2>4, <2>6, <2>7, GotoKeeps
<1> QED BY <1>2, <1>3 DEF CheckActiveScan

LEMMA CheckQuotaKeeps ==
    ASSUME AdmissionInv, NEW r \in Requests, CheckQuota(r)
    PROVE  AdmissionInv'
<1>1. AdmissionTypes /\ Placed(r) /\ Locked(r) /\ Checked(r) /\ req[r].at = "quota"
  BY DEF AdmissionInv, Behaves, CheckQuota
<1>2. CASE Refused(r, "QUOTA_EXCEEDED")
  BY <1>1, <1>2, RefusedKeeps DEF Answers
<1>3. CASE ~(Cardinality(ActiveScans) >= MaxActive) /\ Goto(r, "save")
  <2>1. req' = [req EXCEPT ![r].at = "save"] /\ UNCHANGED <<site, scan, clone, capture, userLock, siteLock, urlLock>>
    BY <1>3 DEF Goto, tables
  <2>2. "save" \in Statements
    BY DEF Statements
  <2>3. /\ req'[r].at = "save" /\ req'[r].op = req[r].op /\ req'[r].target = req[r].target
        /\ req'[r].key = req[r].key /\ req'[r].site = req[r].site /\ req'[r].answer = req[r].answer
    BY <1>1, <2>1, <2>2, GotoFields
  <2>4. req[r].op \in {"scan", "clone"}
    BY <1>1, RequestFields DEF Placed
  <2>5. Placed(r)'
    BY <1>1, <2>3, <2>4 DEF Placed
  <2>6. ScansWith(ScanKey(req[r]))' = ScansWith(ScanKey(req[r])) /\ ActiveScans' = ActiveScans
    BY <2>1, <2>3 DEF ScansWith, ScanKey, ActiveScans
  <2>7. Cardinality(ActiveScans) < MaxActive
    <3>1. Cardinality(ActiveScans) \in Nat
      BY RequestsAssumption, FS_Subset, FS_CardinalityType DEF ActiveScans
    <3> QED BY <1>3, <3>1, QuotaAssumption
  <2>8. Checked(r)'
    BY <1>1, <2>1, <2>3, <2>4, <2>6, <2>7 DEF Checked
  <2>9. /\ HoldsUser(r)' => HoldsUser(r)
        /\ \A w \in Sites : (HoldsSite(r, w)' <=> HoldsSite(r, w)) /\ ~Inserted(r, w)
    BY <1>1, <2>3, <2>4 DEF HoldsUser, HoldsSite, Inserted
  <2> QED BY <1>1, <1>3, <2>2, <2>5, <2>8, <2>9, GotoKeeps
<1> QED BY <1>2, <1>3 DEF CheckQuota

LEMMA LookupCloneKeyKeeps ==
    ASSUME AdmissionInv, NEW r \in Requests, LookupCloneKey(r)
    PROVE  AdmissionInv'
<1>1. AdmissionTypes /\ Placed(r) /\ Locked(r) /\ req[r].at = "cloneKey" /\ req[r].op = "clone"
  BY RequestFields DEF AdmissionInv, Behaves, LookupCloneKey, Placed
<1> DEFINE found == {c \in Requests : clone[c].there /\ clone[c].key = req[r].key}
<1>2. CASE found = {} /\ Goto(r, "resolve")
  <2>1. req' = [req EXCEPT ![r].at = "resolve"] /\ UNCHANGED <<site, scan, clone, capture, userLock, siteLock, urlLock>>
    BY <1>2 DEF Goto, tables
  <2>2. "resolve" \in Statements
    BY DEF Statements
  <2>3. /\ req'[r].at = "resolve" /\ req'[r].op = req[r].op /\ req'[r].target = req[r].target
        /\ req'[r].key = req[r].key /\ req'[r].site = req[r].site /\ req'[r].answer = req[r].answer
    BY <1>1, <2>1, <2>2, GotoFields
  <2>4. Placed(r)'
    BY <1>1, <2>3 DEF Placed
  <2>5. Checked(r)'
    BY <1>1, <1>2, <2>1, <2>3 DEF Checked
  <2>6. /\ HoldsUser(r)' => HoldsUser(r)
        /\ \A w \in Sites : (HoldsSite(r, w)' <=> HoldsSite(r, w)) /\ ~Inserted(r, w)
    BY <1>1, <2>3 DEF HoldsUser, HoldsSite, Inserted
  <2> QED BY <1>1, <1>2, <2>2, <2>4, <2>5, <2>6, GotoKeeps
<1>3. ASSUME NEW c \in found, Replay(r, c, clone[c].url = req[r].target) PROVE AdmissionInv'
  <2>1. CASE clone[c].url = req[r].target
    BY <1>1, <1>3, <2>1, ReplayedKeeps DEF Replay
  <2>2. CASE clone[c].url # req[r].target
    <3>1. Refused(r, "KEY_REUSED")
      BY <1>3, <2>2 DEF Replay, Refused
    <3> QED BY <1>1, <3>1, RefusedKeeps DEF Answers
  <2> QED BY <2>1, <2>2
<1> QED BY <1>2, <1>3 DEF LookupCloneKey

LEMMA ResolveKeeps ==
    ASSUME AdmissionInv, NEW r \in Requests, Resolve(r)
    PROVE  AdmissionInv'
<1>1. /\ AdmissionTypes /\ Placed(r) /\ Locked(r) /\ Checked(r) /\ Told(r)
      /\ req[r].at = "resolve" /\ req[r].op = "clone"
  BY RequestFields DEF AdmissionInv, Behaves, Resolve, Placed
<1>2. UNCHANGED <<site, scan, clone, capture, userLock, siteLock, urlLock>>
  BY DEF Resolve, tables
<1>3. \A w \in Sites : siteLock[w] # r
  BY <1>1 DEF Locked, HoldsSite, Inserted
<1>4. ASSUME NEW w \in Sites, req' = [req EXCEPT ![r].at = "site", ![r].site = w] PROVE AdmissionInv'
  <2> DEFINE q == [req[r] EXCEPT !.at = "site", !.site = w]
  <2>1. req' = [req EXCEPT ![r] = q]
    BY <1>1, <1>4 DEF AdmissionTypes
  <2>2. /\ q \in RequestRow /\ q.op = req[r].op /\ q.target = req[r].target /\ q.key = req[r].key
        /\ q.at = "site" /\ q.site = w /\ q.answer = req[r].answer /\ q.of = req[r].of
    BY <1>1, RequestFields DEF RequestRow, Statements
  <2> HIDE DEF q
  <2>3. req'[r] = q /\ (\A s \in Requests \ {r} : req'[s] = req[s]) /\ req' \in [Requests -> RequestRow]
    BY <1>1, <2>1, <2>2 DEF AdmissionTypes, RequestRow
  <2>4. AdmissionTypes'
    BY <1>1, <1>2, <2>3 DEF AdmissionTypes, RequestRow
  <2>5. Placed(r)'
    BY <1>1, <2>2, <2>3 DEF Placed
  <2>6. Locked(r)'
    <3>1. \A x \in Sites : ~HoldsSite(r, x)'
      BY <1>1, <2>2, <2>3 DEF HoldsSite
    <3>2. userLock = r
      BY <1>1 DEF Locked, HoldsUser
    <3> QED BY <1>2, <1>3, <3>1, <3>2 DEF Locked
  <2>7. Checked(r)' /\ Told(r)'
    BY <1>1, <1>2, <2>2, <2>3 DEF Checked, Told, Placed
  <2>8. Behaves(r)'
    BY <2>5, <2>6, <2>7 DEF Behaves
  <2> QED BY <1>1, <1>2, <2>3, <2>4, <2>8, OthersUnmoved DEF tables
<1>5. CASE req' = [req EXCEPT ![r].at = "insert"]
  <2>1. "insert" \in Statements /\ Goto(r, "insert")
    BY <1>2, <1>5 DEF Statements, Goto, tables
  <2>2. /\ req'[r].at = "insert" /\ req'[r].op = req[r].op /\ req'[r].target = req[r].target
        /\ req'[r].key = req[r].key /\ req'[r].site = req[r].site /\ req'[r].answer = req[r].answer
    BY <1>1, <1>5, <2>1, GotoFields
  <2>3. Placed(r)' /\ Checked(r)'
    BY <1>1, <1>2, <2>2 DEF Placed, Checked
  <2>4. /\ HoldsUser(r)' => HoldsUser(r)
        /\ \A w \in Sites : (HoldsSite(r, w)' <=> HoldsSite(r, w)) /\ ~Inserted(r, w)
    BY <1>1, <2>2 DEF HoldsUser, HoldsSite, Inserted
  <2> QED BY <1>1, <2>1, <2>3, <2>4, GotoKeeps
<1> QED BY <1>4, <1>5 DEF Resolve

LEMMA InsertSiteKeeps ==
    ASSUME AdmissionInv, NEW r \in Requests, InsertSite(r)
    PROVE  AdmissionInv'
<1>1. /\ AdmissionTypes /\ Placed(r) /\ Locked(r) /\ Checked(r) /\ Told(r)
      /\ req[r].at = "insert" /\ req[r].op = "clone" /\ req[r].target \in Urls
  BY DEF AdmissionInv, Behaves, InsertSite, Placed
<1>2. CASE Refused(r, "CONFLICT")
  BY <1>1, <1>2, RefusedKeeps DEF Answers
<1>3. \A w \in Sites : siteLock[w] # r
  BY <1>1 DEF Locked, HoldsSite, Inserted
<1>4. ASSUME NEW w \in Sites, site[w].status = "ABSENT", siteLock[w] = Nobody,
             siteLock' = [siteLock EXCEPT ![w] = r], urlLock' = [urlLock EXCEPT ![req[r].target] = r],
             req' = [req EXCEPT ![r].at = "site", ![r].site = w], UNCHANGED <<tables, userLock>>
      PROVE  AdmissionInv'
  <2> DEFINE q == [req[r] EXCEPT !.at = "site", !.site = w]
  <2>1. req' = [req EXCEPT ![r] = q]
    BY <1>1, <1>4 DEF AdmissionTypes
  <2>2. /\ q \in RequestRow /\ q.op = req[r].op /\ q.target = req[r].target /\ q.key = req[r].key
        /\ q.at = "site" /\ q.site = w /\ q.answer = req[r].answer /\ q.of = req[r].of
    BY <1>1, RequestFields DEF RequestRow, Statements
  <2> HIDE DEF q
  <2>3. req'[r] = q /\ (\A s \in Requests \ {r} : req'[s] = req[s]) /\ req' \in [Requests -> RequestRow]
    BY <1>1, <2>1, <2>2 DEF AdmissionTypes, RequestRow
  <2>4. UNCHANGED <<site, scan, clone, capture, userLock>>
    BY <1>4 DEF tables
  <2>5. \A x \in Sites : siteLock'[x] = IF x = w THEN r ELSE siteLock[x]
    BY <1>1, <1>4 DEF AdmissionTypes
  <2>6. AdmissionTypes'
    BY <1>1, <1>4, <2>3, <2>4 DEF AdmissionTypes, RequestRow
  <2>7. Placed(r)'
    BY <1>1, <2>2, <2>3 DEF Placed
  <2>8. Locked(r)'
    <3>1. \A x \in Sites : ~HoldsSite(r, x)'
      BY <1>1, <2>2, <2>3 DEF HoldsSite
    <3>2. userLock = r
      BY <1>1 DEF Locked, HoldsUser
    <3>3. \A x \in Sites : siteLock'[x] = r => Inserted(r, x)'
      BY <1>1, <1>3, <1>4, <2>2, <2>3, <2>4, <2>5 DEF Inserted
    <3> QED BY <2>4, <3>1, <3>2, <3>3 DEF Locked
  <2>9. Checked(r)' /\ Told(r)'
    BY <1>1, <2>2, <2>3, <2>4 DEF Checked, Told, Placed
  <2>10. Behaves(r)'
    BY <2>7, <2>8, <2>9 DEF Behaves
  <2>11. \A s \in Requests \ {r} : \A x \in Sites : siteLock'[x] = s <=> siteLock[x] = s
    BY <1>4, <2>5, RequestsAssumption
  <2> QED BY <1>1, <1>4, <2>3, <2>4, <2>6, <2>10, <2>11, OthersUnmoved
<1> QED BY <1>2, <1>4 DEF InsertSite

LEMMA SiteExistsKeeps ==
    ASSUME AdmissionInv, NEW r \in Requests, SiteExists(r)
    PROVE  AdmissionInv'
<1>1. AdmissionTypes /\ Placed(r) /\ Locked(r) /\ req[r].at = "exists" /\ req[r].op = "website"
  BY RequestFields DEF AdmissionInv, Behaves, SiteExists, Placed
<1>2. CASE Refused(r, "DUPLICATE")
  BY <1>1, <1>2, RefusedKeeps DEF Answers
<1>3. CASE Goto(r, "insert")
  <2>1. req' = [req EXCEPT ![r].at = "insert"] /\ "insert" \in Statements
    BY <1>3 DEF Goto, Statements
  <2>2. /\ req'[r].at = "insert" /\ req'[r].op = req[r].op /\ req'[r].target = req[r].target
        /\ req'[r].key = req[r].key /\ req'[r].site = req[r].site /\ req'[r].answer = req[r].answer
    BY <1>1, <2>1, GotoFields
  <2>3. Placed(r)' /\ Checked(r)'
    BY <1>1, <2>2 DEF Placed, Checked
  <2>4. /\ HoldsUser(r)' => HoldsUser(r)
        /\ \A w \in Sites : (HoldsSite(r, w)' <=> HoldsSite(r, w)) /\ ~Inserted(r, w)
    BY <1>1, <2>2 DEF HoldsUser, HoldsSite, Inserted
  <2> QED BY <1>1, <1>3, <2>1, <2>3, <2>4, GotoKeeps
<1> QED BY <1>2, <1>3 DEF SiteExists

LEMMA LockToArchiveKeeps ==
    ASSUME AdmissionInv, NEW r \in Requests, LockToArchive(r)
    PROVE  AdmissionInv'
<1>1. /\ AdmissionTypes /\ Placed(r) /\ Locked(r) /\ Told(r)
      /\ req[r].at = "lock" /\ req[r].op = "archive" /\ req[r].target \in Sites
  BY RequestFields DEF AdmissionInv, Behaves, LockToArchive, Placed
<1> DEFINE w == req[r].target
<1>2. CASE Refused(r, "NOT_FOUND")
  BY <1>1, <1>2, RefusedKeeps DEF Answers
<1>3. CASE /\ site[w].status = "ACTIVE" /\ siteLock[w] = Nobody /\ siteLock' = [siteLock EXCEPT ![w] = r]
           /\ req' = [req EXCEPT ![r].at = "check"] /\ UNCHANGED <<tables, userLock, urlLock>>
  <2>1. UNCHANGED <<site, scan, clone, capture, userLock, urlLock>>
    BY <1>3 DEF tables
  <2>2. /\ req'[r].at = "check" /\ req'[r].op = req[r].op /\ req'[r].target = w
        /\ req'[r].key = req[r].key /\ req'[r].site = req[r].site /\ req'[r].of = req[r].of
        /\ req'[r].answer = req[r].answer
        /\ \A s \in Requests \ {r} : req'[s] = req[s]
        /\ req' \in [Requests -> RequestRow]
    BY <1>1, <1>3, GotoFields DEF Statements
  <2>3. \A x \in Sites : siteLock'[x] = IF x = w THEN r ELSE siteLock[x]
    BY <1>1, <1>3 DEF AdmissionTypes
  <2>4. AdmissionTypes'
    BY <1>1, <1>3, <2>1, <2>2 DEF AdmissionTypes, RequestRow
  <2>5. Placed(r)'
    BY <1>1, <2>2 DEF Placed
  <2>6. Locked(r)'
    <3>1. \A x \in Sites : HoldsSite(r, x)' <=> x = w
      BY <1>1, <2>2 DEF HoldsSite
    <3>2. \A x \in Sites : siteLock'[x] = r => x = w
      BY <1>1, <2>3 DEF Locked, HoldsSite, Inserted
    <3>3. ~HoldsUser(r)'
      BY <1>1, <2>2 DEF HoldsUser
    <3> QED BY <1>1, <1>3, <2>1, <2>2, <2>3, <3>1, <3>2, <3>3 DEF Locked
  <2>7. Checked(r)' /\ Told(r)'
    BY <1>1, <2>1, <2>2 DEF Checked, Told, Placed
  <2>8. Behaves(r)'
    BY <2>5, <2>6, <2>7 DEF Behaves
  <2>9. \A s \in Requests \ {r} : \A x \in Sites : siteLock'[x] = s <=> siteLock[x] = s
    BY <1>1, <1>3, <2>3, RequestsAssumption
  <2> QED BY <1>1, <1>3, <2>1, <2>2, <2>4, <2>8, <2>9, OthersUnmoved DEF tables
<1> QED BY <1>2, <1>3 DEF LockToArchive

LEMMA CheckToArchiveKeeps ==
    ASSUME AdmissionInv, NEW r \in Requests, CheckToArchive(r)
    PROVE  AdmissionInv'
<1>1. AdmissionTypes /\ Placed(r) /\ Locked(r) /\ req[r].at = "check" /\ req[r].op = "archive"
  BY RequestFields DEF AdmissionInv, Behaves, CheckToArchive, Placed
<1>2. CASE Refused(r, "ALREADY_ACTIVE")
  BY <1>1, <1>2, RefusedKeeps DEF Answers
<1>3. CASE (\A s \in ActiveScans : scan[s].site # req[r].target) /\ Goto(r, "save")
  <2>1. req' = [req EXCEPT ![r].at = "save"] /\ UNCHANGED <<site, scan, clone, capture, userLock, siteLock, urlLock>>
    BY <1>3 DEF Goto, tables
  <2>2. "save" \in Statements
    BY DEF Statements
  <2>3. /\ req'[r].at = "save" /\ req'[r].op = req[r].op /\ req'[r].target = req[r].target
        /\ req'[r].key = req[r].key /\ req'[r].site = req[r].site /\ req'[r].answer = req[r].answer
    BY <1>1, <2>1, <2>2, GotoFields
  <2>4. Placed(r)'
    BY <1>1, <2>3 DEF Placed
  <2>5. ActiveScans' = ActiveScans
    BY <2>1 DEF ActiveScans
  <2>6. Checked(r)'
    BY <1>1, <1>3, <2>1, <2>3, <2>5 DEF Checked
  <2>7. /\ HoldsUser(r)' => HoldsUser(r)
        /\ \A w \in Sites : (HoldsSite(r, w)' <=> HoldsSite(r, w)) /\ ~Inserted(r, w)
    BY <1>1, <2>3 DEF HoldsUser, HoldsSite, Inserted
  <2> QED BY <1>1, <1>3, <2>2, <2>4, <2>6, <2>7, GotoKeeps
<1> QED BY <1>2, <1>3 DEF CheckToArchive

LEMMA LookupCaptureKeyKeeps ==
    ASSUME AdmissionInv, NEW r \in Requests, LookupCaptureKey(r)
    PROVE  AdmissionInv'
<1>1. /\ AdmissionTypes /\ Placed(r) /\ Locked(r) /\ req[r].at \in {"peek", "key"} /\ req[r].op = "capture"
  BY DEF AdmissionInv, Behaves, LookupCaptureKey
<1> DEFINE found == {c \in Requests : capture[c].there /\ req[r].key # NoKey /\ capture[c].key = req[r].key}
           a == IF req[r].at = "peek" THEN "user" ELSE "active"
<1>2. CASE found = {} /\ Goto(r, a)
  <2>1. req' = [req EXCEPT ![r].at = a] /\ UNCHANGED <<site, scan, clone, capture, userLock, siteLock, urlLock>>
    BY <1>2 DEF Goto, tables
  <2>2. a \in Statements /\ (a = "user" \/ (a = "active" /\ req[r].at = "key"))
    BY <1>1 DEF Statements
  <2> HIDE DEF a
  <2>3. /\ req'[r].at = a /\ req'[r].op = req[r].op /\ req'[r].target = req[r].target
        /\ req'[r].key = req[r].key /\ req'[r].site = req[r].site /\ req'[r].answer = req[r].answer
    BY <1>1, <2>1, <2>2, GotoFields
  <2>4. Placed(r)'
    BY <1>1, <2>2, <2>3 DEF Placed
  <2>5. Checked(r)'
    BY <1>1, <1>2, <2>1, <2>2, <2>3 DEF Checked
  <2>6. /\ HoldsUser(r)' => HoldsUser(r)
        /\ \A w \in Sites : (HoldsSite(r, w)' <=> HoldsSite(r, w)) /\ ~Inserted(r, w)
    BY <1>1, <2>2, <2>3 DEF HoldsUser, HoldsSite, Inserted
  <2> QED BY <1>1, <1>2, <2>2, <2>4, <2>5, <2>6, GotoKeeps
<1>3. ASSUME NEW c \in found, Replay(r, c, capture[c].page = req[r].target) PROVE AdmissionInv'
  <2>1. CASE capture[c].page = req[r].target
    BY <1>1, <1>3, <2>1, ReplayedKeeps DEF Replay
  <2>2. CASE capture[c].page # req[r].target
    <3>1. Refused(r, "KEY_REUSED")
      BY <1>3, <2>2 DEF Replay, Refused
    <3> QED BY <1>1, <3>1, RefusedKeeps DEF Answers
  <2> QED BY <2>1, <2>2
<1> QED BY <1>2, <1>3 DEF LookupCaptureKey

LEMMA CheckActiveCaptureKeeps ==
    ASSUME AdmissionInv, NEW r \in Requests, CheckActiveCapture(r)
    PROVE  AdmissionInv'
<1>1. AdmissionTypes /\ Placed(r) /\ Locked(r) /\ Checked(r) /\ req[r].at = "active" /\ req[r].op = "capture"
  BY DEF AdmissionInv, Behaves, CheckActiveCapture
<1>2. CASE Refused(r, "ALREADY_ACTIVE")
  BY <1>1, <1>2, RefusedKeeps DEF Answers
<1>3. CASE /\ ~\E c \in Requests : capture[c].there /\ capture[c].active /\ capture[c].page = req[r].target
           /\ Goto(r, "save")
  <2>1. req' = [req EXCEPT ![r].at = "save"] /\ UNCHANGED <<site, scan, clone, capture, userLock, siteLock, urlLock>>
    BY <1>3 DEF Goto, tables
  <2>2. "save" \in Statements
    BY DEF Statements
  <2>3. /\ req'[r].at = "save" /\ req'[r].op = req[r].op /\ req'[r].target = req[r].target
        /\ req'[r].key = req[r].key /\ req'[r].site = req[r].site /\ req'[r].answer = req[r].answer
    BY <1>1, <2>1, <2>2, GotoFields
  <2>4. Placed(r)'
    BY <1>1, <2>3 DEF Placed
  <2>5. Checked(r)'
    BY <1>1, <1>3, <2>1, <2>3 DEF Checked
  <2>6. /\ HoldsUser(r)' => HoldsUser(r)
        /\ \A w \in Sites : (HoldsSite(r, w)' <=> HoldsSite(r, w)) /\ ~Inserted(r, w)
    BY <1>1, <2>3 DEF HoldsUser, HoldsSite, Inserted
  <2> QED BY <1>1, <1>3, <2>2, <2>4, <2>5, <2>6, GotoKeeps
<1> QED BY <1>2, <1>3 DEF CheckActiveCapture

-----------------------------------------------------------------------------
\* A transaction that writes touches only what it has locked, and so disturbs
\* nothing that another request has locked, checked or been told.
LEMMA OthersUndisturbed ==
    ASSUME AdmissionInv, NEW r \in Requests, req[r].at # "done",
           \A s \in Requests \ {r} : /\ req'[s] = req[s]
                                     /\ userLock = s => userLock' = s
                                     /\ \A w \in Sites : siteLock'[w] = s <=> siteLock[w] = s
                                     /\ scan'[s] = scan[s] /\ clone'[s] = clone[s] /\ capture'[s] = capture[s],
           HoldsUser(r) \/ (scan' = scan /\ clone' = clone /\ capture' = capture),
           scan'[r].there /\ scan'[r].active => scan'[r].site \in Sites /\ HoldsSite(r, scan'[r].site),
           \A w \in Sites : site'[w] = site[w] \/ siteLock[w] \in {r, Nobody},
           NEW s \in Requests \ {r}
    PROVE  Behaves(s)'
<1>1. /\ AdmissionTypes /\ Placed(s) /\ Locked(s) /\ Checked(s) /\ Told(s) /\ Locked(r) /\ Rows
      /\ req'[s] = req[s] /\ s # Nobody /\ r # s
  BY RequestFields DEF AdmissionInv, Behaves
<1>2. Placed(s)'
  BY <1>1 DEF Placed
<1>3. Locked(s)'
  <2>1. \A w \in Sites : siteLock[w] = s => site'[w] = site[w]
    BY <1>1
  <2>2. HoldsUser(s)' <=> HoldsUser(s)
    BY <1>1 DEF HoldsUser
  <2>3. \A w \in Sites : HoldsSite(s, w)' <=> HoldsSite(s, w)
    BY <1>1 DEF HoldsSite
  <2>4. \A w \in Sites : siteLock[w] = s => (Inserted(s, w) => Inserted(s, w)')
    BY <1>1, <2>1 DEF Inserted
  <2> QED BY <1>1, <2>1, <2>2, <2>3, <2>4 DEF Locked
<1>4. Checked(s)'
  <2>1. CASE HoldsUser(r)
    <3>1. ~HoldsUser(s)
      BY <1>1, <2>1 DEF Locked
    <3>2. ASSUME req[s].op = "archive", req[s].at = "save", NEW x \in ActiveScans'
          PROVE  scan'[x].site # req[s].target
      <4>1. x \in Requests /\ scan'[x].there /\ scan'[x].active
        BY DEF ActiveScans
      <4>2. CASE x = r
        <5>1. HoldsSite(s, req[s].target) /\ req[s].target \in Sites
          BY <1>1, <3>2 DEF HoldsSite, Placed
        <5>2. scan'[r].site \in Sites /\ HoldsSite(r, scan'[r].site)
          BY <4>1, <4>2
        <5> QED BY <1>1, <4>2, <5>1, <5>2 DEF Locked
      <4>3. CASE x # r
        <5>1. x \in ActiveScans /\ scan'[x] = scan[x]
          BY <4>1, <4>3 DEF ActiveScans
        <5> QED BY <1>1, <3>2, <5>1 DEF Checked
      <4> QED BY <4>2, <4>3
    <3>3. req[s].op \in {"scan", "clone", "capture"} => req[s].at \in {"user", "peek", "done"}
      BY <3>1 DEF HoldsUser
    <3> QED BY <1>1, <3>2, <3>3 DEF Checked
  <2>2. CASE scan' = scan /\ clone' = clone /\ capture' = capture
    <3>1. ActiveScans' = ActiveScans /\ \A k : ScansWith(k)' = ScansWith(k)
      BY <2>2 DEF ActiveScans, ScansWith
    <3> QED BY <1>1, <2>2, <3>1 DEF Checked, ScanKey
  <2> QED BY <2>1, <2>2
<1>5. Told(s)'
  <2>1. ~scan[r].there /\ ~clone[r].there /\ ~capture[r].there
    BY <1>1 DEF Rows
  <2>2. \A x \in Requests : /\ scan[x].there => scan'[x] = scan[x]
                            /\ clone[x].there => clone'[x] = clone[x]
                            /\ capture[x].there => capture'[x] = capture[x]
    BY <2>1
  <2> QED BY <1>1, <2>2 DEF Told, ScanKey
<1> QED BY <1>2, <1>3, <1>4, <1>5 DEF Behaves

\* An accepted scan or clone.
LEMMA SaveScanKeeps ==
    ASSUME AdmissionInv, NEW r \in Requests, SaveScan(r)
    PROVE  AdmissionInv'
<1> DEFINE q == req[r]
           w == q.site
           row == [there |-> TRUE, site |-> w, key |-> ScanKey(q), active |-> TRUE]
<1>1. /\ AdmissionTypes /\ Rows /\ Placed(r) /\ Locked(r) /\ Checked(r) /\ Told(r)
      /\ q.at = "save" /\ q.op \in {"scan", "clone"}
  BY DEF AdmissionInv, Behaves, SaveScan
<1>2. /\ w \in Sites /\ HoldsSite(r, w) /\ HoldsUser(r) /\ siteLock[w] = r /\ site[w].status # "ARCHIVED"
      /\ q.op = "scan" => site[w].status = "ACTIVE" /\ w = q.target
      /\ q.op = "clone" => q.target \in Urls /\ q.key \in Keys
  BY <1>1 DEF HoldsSite, HoldsUser, Locked, Placed
<1>3. ~(\/ \E s \in ActiveScans : scan[s].site = q.site
        \/ q.key # NoKey /\ \E s \in Requests : scan[s].there /\ scan[s].key = ScanKey(q)
        \/ q.op = "clone" /\ \E c \in Requests : clone[c].there /\ clone[c].key = q.key)
  BY <1>1 DEF Checked, ScansWith
<1>4. /\ Answered(r, "CREATED", r) /\ capture' = capture
      /\ scan' = [scan EXCEPT ![r] = row]
      /\ clone' = IF q.op = "clone" THEN [clone EXCEPT ![r] = [there |-> TRUE, url |-> q.target,
                                                              key |-> q.key, scan |-> r]] ELSE clone
      /\ site' = IF site[w].status = "ABSENT"
                 THEN [site EXCEPT ![w] = [url |-> q.target, status |-> "ACTIVE"]] ELSE site
  BY <1>3 DEF SaveScan
<1>5. row \in [there : BOOLEAN, site : Sites \cup {Nobody},
               key : [by : {"scan", "clone"}, key : Keys \cup {NoKey}], active : BOOLEAN]
  BY <1>1, <1>2, RequestFields DEF ScanKey, RequestRow
<1>6. /\ row.there /\ row.active /\ row.site = w /\ row.key = ScanKey(q)
      /\ ScanKey(q).by = q.op /\ ScanKey(q).key = q.key
  BY DEF ScanKey
<1> HIDE DEF row
<1>7. scan'[r] = row /\ \A s \in Requests \ {r} : scan'[s] = scan[s]
  BY <1>1, <1>4 DEF AdmissionTypes
<1>8. /\ \A s \in Requests \ {r} : clone'[s] = clone[s]
      /\ q.op = "clone" => clone'[r].there /\ clone'[r].url = q.target /\ clone'[r].key = q.key
      /\ q.op = "scan" => clone' = clone
  BY <1>1, <1>4 DEF AdmissionTypes
<1>9. /\ \A x \in Sites \ {w} : site'[x] = site[x]
      /\ site'[w].status = "ACTIVE"
  BY <1>1, <1>2, <1>4 DEF AdmissionTypes
<1>10. "CREATED" \in Answers
  BY DEF Answers
<1>11. ~scan[r].there /\ ~clone[r].there /\ ~capture[r].there
  BY <1>1 DEF Rows
<1>12. AdmissionTypes'
  <2>1. scan' \in [Requests -> [there : BOOLEAN, site : Sites \cup {Nobody},
                                key : [by : {"scan", "clone"}, key : Keys \cup {NoKey}], active : BOOLEAN]]
    BY <1>1, <1>4, <1>5 DEF AdmissionTypes
  <2>2. clone' \in [Requests -> [there : BOOLEAN, url : Urls \cup {Nobody},
                                 key : Keys \cup {NoKey}, scan : Requests \cup {Nobody}]]
    <3>1. q.op = "clone" => [there |-> TRUE, url |-> q.target, key |-> q.key, scan |-> r] \in
             [there : BOOLEAN, url : Urls \cup {Nobody}, key : Keys \cup {NoKey}, scan : Requests \cup {Nobody}]
      BY <1>2
    <3> QED BY <1>1, <1>4, <3>1 DEF AdmissionTypes
  <2>3. site' \in [Sites -> [url : Urls \cup {Nobody}, status : {"ABSENT", "ACTIVE", "ARCHIVED"}]]
    <3>1. site[w].status = "ABSENT" => [url |-> q.target, status |-> "ACTIVE"] \in
             [url : Urls \cup {Nobody}, status : {"ABSENT", "ACTIVE", "ARCHIVED"}]
      BY <1>1, <1>2
    <3> QED BY <1>1, <1>4, <3>1 DEF AdmissionTypes
  <2> QED BY <1>1, <1>4, <1>10, <2>1, <2>2, <2>3, AnsweredFields DEF AdmissionTypes, RequestRow
<1>13. Rows'
  <2>1. /\ req'[r].at = "done" /\ \A s \in Requests \ {r} : req'[s] = req[s]
    BY <1>1, <1>4, <1>10, AnsweredFields
  <2>2. \A s \in Requests : scan'[s].there \/ clone'[s].there \/ capture'[s].there => req'[s].at = "done"
    BY <1>1, <1>4, <1>7, <1>8, <2>1 DEF Rows
  <2>3. \A s \in Requests : scan'[s].there => scan'[s].site \in Sites
    BY <1>1, <1>2, <1>6, <1>7 DEF Rows
  <2>4. \A s \in Requests : scan'[s].there /\ scan'[s].key.by = "clone" =>
           clone'[s].there /\ clone'[s].key = scan'[s].key.key
    BY <1>1, <1>6, <1>7, <1>8 DEF Rows
  <2>5. \A s, t \in Requests : scan'[s].there /\ scan'[t].there /\ scan'[s].key = scan'[t].key
           /\ scan'[s].key.key # NoKey => s = t
    BY <1>1, <1>3, <1>6, <1>7 DEF Rows
  <2>6. \A s, t \in Requests : clone'[s].there /\ clone'[t].there /\ clone'[s].key = clone'[t].key => s = t
    BY <1>1, <1>3, <1>8 DEF Rows
  <2> QED BY <1>1, <1>4, <2>2, <2>3, <2>4, <2>5, <2>6 DEF Rows
<1>14. ActiveScans' = ActiveScans \cup {r} /\ r \notin ActiveScans
  BY <1>6, <1>7, <1>11 DEF ActiveScans
<1>15. QuotaHeld'
  <2>1. IsFiniteSet(ActiveScans)
    BY RequestsAssumption, FS_Subset DEF ActiveScans
  <2>2. Cardinality(ActiveScans') = Cardinality(ActiveScans) + 1 /\ Cardinality(ActiveScans) \in Nat
    BY <1>14, <2>1, FS_AddElement, FS_CardinalityType
  <2>3. Cardinality(ActiveScans) < MaxActive
    BY <1>1 DEF Checked
  <2> QED BY <2>2, <2>3, QuotaAssumption DEF QuotaHeld
<1>16. NothingActiveArchived'
  <2> SUFFICES ASSUME NEW s \in ActiveScans' PROVE site'[scan'[s].site].status = "ACTIVE"
    BY DEF NothingActiveArchived
  <2>1. CASE s = r
    BY <1>6, <1>7, <1>9, <2>1
  <2>2. CASE s # r
    <3>1. s \in ActiveScans /\ s \in Requests /\ scan[s].there /\ scan'[s] = scan[s]
      BY <1>7, <1>14, <2>2 DEF ActiveScans
    <3>2. scan[s].site \in Sites /\ site[scan[s].site].status = "ACTIVE"
      BY <1>1, <3>1 DEF Rows, AdmissionInv, NothingActiveArchived
    <3> QED BY <1>9, <3>1, <3>2
  <2> QED BY <2>1, <2>2
<1>17. Behaves(r)'
  <2>1. Placed(r)' /\ Locked(r)' /\ Checked(r)'
    BY <1>1, <1>4, <1>10, AnsweredFields, DoneIsFree
  <2>2. ScanKey(req[r])' = ScanKey(q)
    BY <1>1, <1>4, <1>10, AnsweredFields DEF ScanKey
  <2>3. Told(r)'
    BY <1>1, <1>4, <1>6, <1>7, <1>8, <1>10, <1>2, <2>2, AnsweredFields DEF Told
  <2> QED BY <2>1, <2>3 DEF Behaves
<1>18. ASSUME NEW s \in Requests \ {r} PROVE Behaves(s)'
  <2>1. \A t \in Requests \ {r} : /\ req'[t] = req[t]
                                  /\ userLock = t => userLock' = t
                                  /\ \A x \in Sites : siteLock'[x] = t <=> siteLock[x] = t
                                  /\ scan'[t] = scan[t] /\ clone'[t] = clone[t] /\ capture'[t] = capture[t]
    BY <1>1, <1>4, <1>7, <1>8, <1>10, AnsweredFields
  <2>2. \A x \in Sites : site'[x] = site[x] \/ siteLock[x] \in {r, Nobody}
    BY <1>2, <1>9
  <2> QED BY <1>1, <1>2, <1>6, <1>7, <1>18, <2>1, <2>2, OthersUndisturbed
<1> QED BY <1>12, <1>13, <1>15, <1>16, <1>17, <1>18 DEF AdmissionInv

\* An accepted capture.
LEMMA SaveCaptureKeeps ==
    ASSUME AdmissionInv, NEW r \in Requests, SaveCapture(r)
    PROVE  AdmissionInv'
<1> DEFINE q == req[r]
           row == [there |-> TRUE, page |-> q.target, key |-> q.key, active |-> TRUE]
<1>1. /\ AdmissionTypes /\ Rows /\ Placed(r) /\ Locked(r) /\ Checked(r) /\ Told(r)
      /\ q.at = "save" /\ q.op = "capture" /\ q.target \in Pages /\ q.key \in Keys \cup {NoKey}
  BY RequestFields DEF AdmissionInv, Behaves, SaveCapture, Placed, RequestRow
<1>2. HoldsUser(r)
  BY <1>1 DEF HoldsUser
<1>3. ~\E c \in Requests : /\ capture[c].there
                           /\ \/ capture[c].active /\ capture[c].page = q.target
                              \/ q.key # NoKey /\ capture[c].key = q.key
  BY <1>1 DEF Checked
<1>4. /\ Answered(r, "CREATED", r) /\ UNCHANGED <<site, scan, clone>> /\ capture' = [capture EXCEPT ![r] = row]
  BY <1>3 DEF SaveCapture
<1>5. row \in [there : BOOLEAN, page : Pages \cup {Nobody}, key : Keys \cup {NoKey}, active : BOOLEAN]
  BY <1>1
<1>6. row.there /\ row.page = q.target /\ row.key = q.key
  OBVIOUS
<1> HIDE DEF row
<1>7. capture'[r] = row /\ \A s \in Requests \ {r} : capture'[s] = capture[s]
  BY <1>1, <1>4 DEF AdmissionTypes
<1>8. "CREATED" \in Answers
  BY DEF Answers
<1>9. AdmissionTypes'
  BY <1>1, <1>4, <1>5, <1>8, AnsweredFields DEF AdmissionTypes, RequestRow
<1>10. Rows'
  <2>1. /\ req'[r].at = "done" /\ \A s \in Requests \ {r} : req'[s] = req[s]
    BY <1>1, <1>4, <1>8, AnsweredFields
  <2>2. \A s \in Requests : scan'[s].there \/ clone'[s].there \/ capture'[s].there => req'[s].at = "done"
    BY <1>1, <1>4, <1>7, <2>1 DEF Rows
  <2>3. \A s, t \in Requests : capture'[s].there /\ capture'[t].there /\ capture'[s].key = capture'[t].key
           /\ capture'[s].key # NoKey => s = t
    BY <1>1, <1>3, <1>6, <1>7 DEF Rows
  <2> QED BY <1>1, <1>4, <2>2, <2>3 DEF Rows
<1>11. QuotaHeld' /\ NothingActiveArchived'
  BY <1>4 DEF AdmissionInv, QuotaHeld, NothingActiveArchived, ActiveScans
<1>12. Behaves(r)'
  <2>1. Placed(r)' /\ Locked(r)' /\ Checked(r)'
    BY <1>1, <1>4, <1>8, AnsweredFields, DoneIsFree
  <2>2. Told(r)'
    BY <1>1, <1>4, <1>6, <1>7, <1>8, AnsweredFields DEF Told
  <2> QED BY <2>1, <2>2 DEF Behaves
<1>13. ASSUME NEW s \in Requests \ {r} PROVE Behaves(s)'
  <2>1. \A t \in Requests \ {r} : /\ req'[t] = req[t]
                                  /\ userLock = t => userLock' = t
                                  /\ \A x \in Sites : siteLock'[x] = t <=> siteLock[x] = t
                                  /\ scan'[t] = scan[t] /\ clone'[t] = clone[t] /\ capture'[t] = capture[t]
    BY <1>1, <1>4, <1>7, <1>8, AnsweredFields
  <2>2. \A x \in Sites : site'[x] = site[x] \/ siteLock[x] \in {r, Nobody}
    BY <1>4
  <2>3. ~scan'[r].there
    BY <1>1, <1>4 DEF Rows
  <2> QED BY <1>1, <1>2, <1>13, <2>1, <2>2, <2>3, OthersUndisturbed
<1> QED BY <1>9, <1>10, <1>11, <1>12, <1>13 DEF AdmissionInv

\* A website that is registered, or archived.
LEMMA SiteStepKeeps ==
    ASSUME AdmissionInv, NEW r \in Requests, NEW w \in Sites, NEW a \in {"CREATED", "ARCHIVED"},
           NEW of \in Requests \cup {Nobody}, a = "CREATED" => of = r,
           NEW row \in [url : Urls \cup {Nobody}, status : {"ABSENT", "ACTIVE", "ARCHIVED"}],
           req[r].at \notin {"idle", "done"}, req[r].op \in {"website", "archive"},
           a = "CREATED" => req[r].op = "website",
           Answered(r, a, of), site' = [site EXCEPT ![w] = row], UNCHANGED <<scan, clone, capture>>,
           siteLock[w] \in {r, Nobody}, \A s \in ActiveScans : scan[s].site # w
    PROVE  AdmissionInv'
<1>1. AdmissionTypes /\ Rows /\ Placed(r) /\ a \in Answers
  BY DEF AdmissionInv, Behaves, Answers
<1>2. \A x \in Sites : x # w => site'[x] = site[x]
  BY <1>1 DEF AdmissionTypes
<1>3. AdmissionTypes'
  BY <1>1, AnsweredFields DEF AdmissionTypes, RequestRow
<1>4. req'[r].at = "done" /\ \A s \in Requests \ {r} : req'[s] = req[s]
  BY <1>1, AnsweredFields
<1>5. Rows'
  BY <1>1, <1>4 DEF Rows
<1>6. ActiveScans' = ActiveScans
  BY DEF ActiveScans
<1>7. QuotaHeld' /\ NothingActiveArchived'
  <2>1. \A s \in ActiveScans : scan[s].site \in Sites /\ site[scan[s].site].status = "ACTIVE"
    BY <1>1 DEF AdmissionInv, NothingActiveArchived, Rows, ActiveScans
  <2> QED BY <1>2, <1>6, <2>1 DEF AdmissionInv, QuotaHeld, NothingActiveArchived
<1>8. Behaves(r)'
  <2>1. Placed(r)' /\ Locked(r)' /\ Checked(r)'
    BY <1>1, AnsweredFields, DoneIsFree
  <2>2. Told(r)'
    BY <1>1, AnsweredFields DEF Told
  <2> QED BY <2>1, <2>2 DEF Behaves
<1>9. ASSUME NEW s \in Requests \ {r} PROVE Behaves(s)'
  <2>1. \A t \in Requests \ {r} : /\ req'[t] = req[t]
                                  /\ userLock = t => userLock' = t
                                  /\ \A x \in Sites : siteLock'[x] = t <=> siteLock[x] = t
                                  /\ scan'[t] = scan[t] /\ clone'[t] = clone[t] /\ capture'[t] = capture[t]
    BY <1>1, AnsweredFields
  <2>2. ~scan'[r].there
    BY <1>1 DEF Rows
  <2> QED BY <1>2, <1>9, <2>1, <2>2, OthersUndisturbed
<1> QED BY <1>3, <1>5, <1>7, <1>8, <1>9 DEF AdmissionInv

LEMMA CreateSiteKeeps ==
    ASSUME AdmissionInv, NEW r \in Requests, CreateSite(r)
    PROVE  AdmissionInv'
<1>1. /\ AdmissionTypes /\ Placed(r) /\ req[r].at = "insert" /\ req[r].op = "website" /\ req[r].target \in Urls
  BY DEF AdmissionInv, Behaves, CreateSite, Placed
<1>2. CASE Refused(r, "DUPLICATE")
  BY <1>1, <1>2, RefusedKeeps DEF Answers
<1>3. ASSUME NEW w \in Sites, site[w].status = "ABSENT", siteLock[w] = Nobody, Answered(r, "CREATED", r),
             site' = [site EXCEPT ![w] = [url |-> req[r].target, status |-> "ACTIVE"]],
             UNCHANGED <<scan, clone, capture>>
      PROVE  AdmissionInv'
  <2>1. \A s \in ActiveScans : scan[s].site # w
    BY <1>3 DEF AdmissionInv, NothingActiveArchived
  <2>2. [url |-> req[r].target, status |-> "ACTIVE"] \in
           [url : Urls \cup {Nobody}, status : {"ABSENT", "ACTIVE", "ARCHIVED"}]
    BY <1>1
  <2> QED BY <1>1, <1>3, <2>1, <2>2, SiteStepKeeps
<1> QED BY <1>2, <1>3 DEF CreateSite

LEMMA ArchiveKeeps ==
    ASSUME AdmissionInv, NEW r \in Requests, Archive(r)
    PROVE  AdmissionInv'
<1> DEFINE w == req[r].target
           row == [site[w] EXCEPT !.status = "ARCHIVED"]
<1>1. /\ AdmissionTypes /\ Placed(r) /\ Locked(r) /\ Checked(r)
      /\ req[r].at = "save" /\ req[r].op = "archive" /\ w \in Sites
  BY DEF AdmissionInv, Behaves, Archive, Placed
<1>2. siteLock[w] = r /\ \A s \in ActiveScans : scan[s].site # w
  BY <1>1 DEF Locked, Checked, HoldsSite
<1>3. /\ Answered(r, "ARCHIVED", Nobody) /\ UNCHANGED <<scan, clone, capture>>
      /\ site' = [site EXCEPT ![w] = row]
  BY <1>1 DEF Archive, AdmissionTypes
<1>4. row \in [url : Urls \cup {Nobody}, status : {"ABSENT", "ACTIVE", "ARCHIVED"}]
  <2>1. site[w] \in [url : Urls \cup {Nobody}, status : {"ABSENT", "ACTIVE", "ARCHIVED"}]
    BY <1>1 DEF AdmissionTypes
  <2> QED BY <2>1
<1> HIDE DEF row
<1> QED BY <1>1, <1>2, <1>3, <1>4, SiteStepKeeps

\* A scan or a capture ends.
LEMMA EndKeeps ==
    ASSUME AdmissionInv, NEW r \in Requests, End(r)
    PROVE  AdmissionInv'
<1>1. /\ AdmissionTypes /\ Rows /\ UNCHANGED <<site, clone, userLock, siteLock, urlLock, req>>
  BY DEF AdmissionInv, End
<1>2. /\ \A s \in Requests : /\ scan'[s].there = scan[s].there /\ scan'[s].site = scan[s].site
                             /\ scan'[s].key = scan[s].key /\ (scan'[s].active => scan[s].active)
      /\ scan' \in [Requests -> [there : BOOLEAN, site : Sites \cup {Nobody},
                                 key : [by : {"scan", "clone"}, key : Keys \cup {NoKey}], active : BOOLEAN]]
  <2>1. CASE scan' = scan
    BY <1>1, <2>1 DEF AdmissionTypes
  <2>2. CASE scan' = [scan EXCEPT ![r].active = FALSE]
    <3>1. scan' = [scan EXCEPT ![r] = [scan[r] EXCEPT !.active = FALSE]]
      BY <2>2
    <3>2. scan[r] \in [there : BOOLEAN, site : Sites \cup {Nobody},
                       key : [by : {"scan", "clone"}, key : Keys \cup {NoKey}], active : BOOLEAN]
      BY <1>1 DEF AdmissionTypes
    <3>3. [scan[r] EXCEPT !.active = FALSE] \in
             [there : BOOLEAN, site : Sites \cup {Nobody},
              key : [by : {"scan", "clone"}, key : Keys \cup {NoKey}], active : BOOLEAN]
      BY <3>2
    <3> QED BY <1>1, <3>1, <3>2, <3>3 DEF AdmissionTypes
  <2> QED BY <2>1, <2>2 DEF End
<1>3. /\ \A s \in Requests : /\ capture'[s].there = capture[s].there /\ capture'[s].page = capture[s].page
                             /\ capture'[s].key = capture[s].key /\ (capture'[s].active => capture[s].active)
      /\ capture' \in [Requests -> [there : BOOLEAN, page : Pages \cup {Nobody},
                                    key : Keys \cup {NoKey}, active : BOOLEAN]]
  <2>1. CASE capture' = capture
    BY <1>1, <2>1 DEF AdmissionTypes
  <2>2. CASE capture' = [capture EXCEPT ![r].active = FALSE]
    <3>1. capture' = [capture EXCEPT ![r] = [capture[r] EXCEPT !.active = FALSE]]
      BY <2>2
    <3>2. capture[r] \in [there : BOOLEAN, page : Pages \cup {Nobody}, key : Keys \cup {NoKey}, active : BOOLEAN]
      BY <1>1 DEF AdmissionTypes
    <3>3. [capture[r] EXCEPT !.active = FALSE] \in
             [there : BOOLEAN, page : Pages \cup {Nobody}, key : Keys \cup {NoKey}, active : BOOLEAN]
      BY <3>2
    <3> QED BY <1>1, <3>1, <3>2, <3>3 DEF AdmissionTypes
  <2> QED BY <2>1, <2>2 DEF End
<1>4. AdmissionTypes'
  BY <1>1, <1>2, <1>3 DEF AdmissionTypes
<1>5. Rows'
  <2>1. \A s \in Requests : (scan'[s].there <=> scan[s].there) /\ (capture'[s].there <=> capture[s].there)
    BY <1>2, <1>3
  <2>2. \A s \in Requests : scan'[s].there \/ clone'[s].there \/ capture'[s].there => req'[s].at = "done"
    BY <1>1, <2>1 DEF Rows
  <2>3. \A s \in Requests : scan'[s].there => scan'[s].site \in Sites
    BY <1>1, <1>2, <2>1 DEF Rows
  <2>4. \A s \in Requests : scan'[s].there /\ scan'[s].key.by = "clone" =>
           clone'[s].there /\ clone'[s].key = scan'[s].key.key
    BY <1>1, <1>2, <2>1 DEF Rows
  <2>5. \A s, t \in Requests : scan'[s].there /\ scan'[t].there /\ scan'[s].key = scan'[t].key
           /\ scan'[s].key.key # NoKey => s = t
    BY <1>1, <1>2, <2>1 DEF Rows
  <2>6. \A s, t \in Requests : capture'[s].there /\ capture'[t].there /\ capture'[s].key = capture'[t].key
           /\ capture'[s].key # NoKey => s = t
    BY <1>1, <1>3, <2>1 DEF Rows
  <2> QED BY <1>1, <2>2, <2>3, <2>4, <2>5, <2>6 DEF Rows
<1>6. ActiveScans' \subseteq ActiveScans /\ \A k : ScansWith(k)' = ScansWith(k)
  BY <1>2 DEF ActiveScans, ScansWith
<1>7. IsFiniteSet(ActiveScans) /\ IsFiniteSet(ActiveScans')
  BY RequestsAssumption, FS_Subset DEF ActiveScans
<1>8. Cardinality(ActiveScans') <= Cardinality(ActiveScans)
      /\ Cardinality(ActiveScans) \in Nat /\ Cardinality(ActiveScans') \in Nat
  BY <1>6, <1>7, FS_Subset, FS_CardinalityType
<1>9. QuotaHeld'
  BY <1>8, QuotaAssumption DEF AdmissionInv, QuotaHeld
<1>10. \A s \in ActiveScans' : s \in ActiveScans /\ scan'[s].site = scan[s].site
  BY <1>2, <1>6 DEF ActiveScans
<1>11. NothingActiveArchived'
  BY <1>1, <1>10 DEF AdmissionInv, NothingActiveArchived
<1>12. ASSUME NEW s \in Requests PROVE Behaves(s)'
  <2>1. Placed(s) /\ Locked(s) /\ Checked(s) /\ Told(s)
    BY DEF AdmissionInv, Behaves
  <2>2. Placed(s)' /\ Locked(s)'
    BY <1>1, <2>1 DEF Placed, Locked, HoldsUser, HoldsSite, Inserted
  <2>3. Checked(s)'
    BY <1>1, <1>3, <1>6, <1>8, <1>10, <2>1, QuotaAssumption DEF Checked, ScanKey
  <2>4. Told(s)'
    BY <1>1, <1>2, <1>3, <2>1 DEF Told, ScanKey
  <2> QED BY <2>2, <2>3, <2>4 DEF Behaves
<1> QED BY <1>4, <1>5, <1>9, <1>11, <1>12 DEF AdmissionInv

LEMMA AdmissionStep == AdmissionInv /\ [AdmissionNext]_admissionVars => AdmissionInv'
<1> SUFFICES ASSUME AdmissionInv, [AdmissionNext]_admissionVars PROVE AdmissionInv'
  OBVIOUS
<1>1. ASSUME NEW r \in Requests, Fail(r) PROVE AdmissionInv'
  BY <1>1, RefusedKeeps DEF Fail, Answers
<1>2. CASE UNCHANGED admissionVars
  <2>1. UNCHANGED <<site, scan, clone, capture, userLock, siteLock, urlLock, req>>
    BY <1>2 DEF admissionVars
  <2>2. AdmissionTypes' /\ Rows' /\ QuotaHeld' /\ NothingActiveArchived'
    BY <2>1 DEF AdmissionInv, AdmissionTypes, Rows, QuotaHeld, NothingActiveArchived, ActiveScans
  <2>3. ASSUME NEW r \in Requests PROVE Behaves(r)'
    BY <2>1 DEF AdmissionInv, Behaves, Placed, Locked, Checked, Told, HoldsUser, HoldsSite, Inserted,
                ActiveScans, ScansWith, ScanKey
  <2> QED BY <2>2, <2>3 DEF AdmissionInv
<1>3. ASSUME NEW r \in Requests, Step(r) PROVE AdmissionInv'
  BY <1>3, LockUserKeeps, LockSiteKeeps, LookupScanKeyKeeps, CheckActiveScanKeeps, CheckQuotaKeeps,
     SaveScanKeeps, LookupCloneKeyKeeps, ResolveKeeps, InsertSiteKeeps, SiteExistsKeeps, CreateSiteKeeps,
     LockToArchiveKeeps, CheckToArchiveKeeps, ArchiveKeeps, LookupCaptureKeyKeeps,
     CheckActiveCaptureKeeps, SaveCaptureKeeps
     DEF Step, ScanStep, CloneStep, SiteStep, CaptureStep
<1> QED BY <1>1, <1>2, <1>3, ArriveKeeps, EndKeeps DEF AdmissionNext

\* What each request has been told agrees with the others.
LEMMA ToldAgree == AdmissionInv => AdmissionConsistent
<1> SUFFICES ASSUME AdmissionInv PROVE AdmissionConsistent
  OBVIOUS
<1>1. ChecksSuffice
  BY DEF AdmissionInv, Behaves, Told, ChecksSuffice
<1>2. RepeatsAgree
  <2> SUFFICES ASSUME NEW r \in Requests, req[r].answer \in {"CREATED", "REPLAYED"}
               PROVE  /\ CASE req[r].op = "scan" -> /\ scan[req[r].of].site = req[r].target
                                                    /\ scan[req[r].of].key = ScanKey(req[r])
                           [] req[r].op = "clone" -> /\ clone[req[r].of].url = req[r].target
                                                     /\ clone[req[r].of].key = req[r].key
                           [] req[r].op = "capture" -> /\ capture[req[r].of].page = req[r].target
                                                       /\ capture[req[r].of].key = req[r].key
                           [] OTHER -> TRUE
                      /\ req[r].key # NoKey =>
                           \A s \in Requests : (/\ req[s].op = req[r].op /\ req[s].key = req[r].key
                                                /\ req[s].answer = "CREATED" /\ req[r].answer = "CREATED")
                                                => s = r
    BY DEF RepeatsAgree
  <2>1. Told(r) /\ Placed(r) /\ Rows
    BY DEF AdmissionInv, Behaves
  <2>2. CASE req[r].op = "scan"
    <3>1. ASSUME NEW s \in Requests, req[s].op = req[r].op, req[s].key = req[r].key, req[r].key # NoKey,
                 req[s].answer = "CREATED", req[r].answer = "CREATED" PROVE s = r
      <4>1. Told(s)
        BY DEF AdmissionInv, Behaves
      <4>2. /\ scan[s].there /\ scan[s].key = ScanKey(req[s]) /\ scan[r].there
            /\ scan[r].key = ScanKey(req[r]) /\ ScanKey(req[s]) = ScanKey(req[r])
            /\ ScanKey(req[r]).key = req[r].key
        BY <2>1, <2>2, <3>1, <4>1 DEF Told, ScanKey
      <4> QED BY <2>1, <3>1, <4>2 DEF Rows
    <3> QED BY <2>1, <2>2, <3>1 DEF Told
  <2>3. CASE req[r].op = "clone"
    <3>1. ASSUME NEW s \in Requests, req[s].op = req[r].op, req[s].key = req[r].key, req[r].key # NoKey,
                 req[s].answer = "CREATED", req[r].answer = "CREATED" PROVE s = r
      <4>1. Told(s)
        BY DEF AdmissionInv, Behaves
      <4>2. clone[s].there /\ clone[s].key = req[s].key /\ clone[r].there /\ clone[r].key = req[r].key
        BY <2>1, <2>3, <3>1, <4>1 DEF Told
      <4> QED BY <2>1, <3>1, <4>2 DEF Rows
    <3> QED BY <2>1, <2>3, <3>1 DEF Told
  <2>4. CASE req[r].op = "capture"
    <3>1. ASSUME NEW s \in Requests, req[s].op = req[r].op, req[s].key = req[r].key, req[r].key # NoKey,
                 req[s].answer = "CREATED", req[r].answer = "CREATED" PROVE s = r
      <4>1. Told(s)
        BY DEF AdmissionInv, Behaves
      <4>2. capture[s].there /\ capture[s].key = req[s].key /\ capture[r].there /\ capture[r].key = req[r].key
        BY <2>1, <2>4, <3>1, <4>1 DEF Told
      <4> QED BY <2>1, <3>1, <4>2 DEF Rows
    <3> QED BY <2>1, <2>4, <3>1 DEF Told
  <2>5. CASE req[r].op \notin {"scan", "clone", "capture"}
    <3>1. req[r].op = "website" /\ req[r].key = NoKey
      BY <2>1, <2>5 DEF Told, Placed
    <3> QED BY <2>5, <3>1
  <2> QED BY <2>2, <2>3, <2>4, <2>5
<1> QED BY <1>1, <1>2 DEF AdmissionInv, AdmissionConsistent

\* However requests interleave: the quota holds, an archived website has no active
\* scan, answers agree, and no request is refused by a unique index alone.
THEOREM AdmissionAlwaysConsistent == AdmissionSpec => []AdmissionConsistent
BY AdmissionInitHolds, AdmissionStep, ToldAgree, PTL DEF AdmissionSpec

\* A step of one request's transaction leaves the other requests as they are.
LEMMA OnlyItsOwn ==
    ASSUME AdmissionTypes, NEW t \in Requests, NEW r \in Requests, r # t, Arrive(t) \/ Step(t) \/ Fail(t)
    PROVE  req'[r] = req[r]
<1>1. ASSUME NEW a, NEW of, Answered(t, a, of) PROVE req'[r] = req[r]
  BY <1>1 DEF Answered, AdmissionTypes
<1>2. ASSUME NEW a, Refused(t, a) PROVE req'[r] = req[r]
  BY <1>1, <1>2 DEF Refused
<1>3. ASSUME NEW a, Goto(t, a) PROVE req'[r] = req[r]
  BY <1>3 DEF Goto, AdmissionTypes
<1>4. ASSUME NEW x, NEW same, Replay(t, x, same) PROVE req'[r] = req[r]
  BY <1>1, <1>4 DEF Replay
<1>5. CASE Arrive(t)
  BY <1>5 DEF Arrive, AdmissionTypes
<1>6. CASE LockUser(t)
  BY <1>6 DEF LockUser, AdmissionTypes
<1>7. CASE LockSite(t)
  BY <1>2, <1>7 DEF LockSite, AdmissionTypes
<1>8. CASE LookupScanKey(t)
  BY <1>2, <1>3, <1>4, <1>8 DEF LookupScanKey
<1>9. CASE CheckActiveScan(t) \/ CheckQuota(t)
  BY <1>2, <1>3, <1>9 DEF CheckActiveScan, CheckQuota
<1>10. CASE SaveScan(t)
  BY <1>1, <1>2, <1>10 DEF SaveScan
<1>11. CASE LookupCloneKey(t)
  BY <1>3, <1>4, <1>11 DEF LookupCloneKey
<1>12. CASE Resolve(t)
  BY <1>12 DEF Resolve, AdmissionTypes
<1>13. CASE InsertSite(t)
  BY <1>2, <1>13 DEF InsertSite, AdmissionTypes
<1>14. CASE SiteExists(t) \/ CreateSite(t)
  BY <1>1, <1>2, <1>3, <1>14 DEF SiteExists, CreateSite
<1>15. CASE LockToArchive(t)
  BY <1>2, <1>15 DEF LockToArchive, AdmissionTypes
<1>16. CASE CheckToArchive(t) \/ Archive(t)
  BY <1>1, <1>2, <1>3, <1>16 DEF CheckToArchive, Archive
<1>17. CASE LookupCaptureKey(t)
  BY <1>3, <1>4, <1>17 DEF LookupCaptureKey
<1>18. CASE CheckActiveCapture(t) \/ SaveCapture(t)
  BY <1>1, <1>2, <1>3, <1>18 DEF CheckActiveCapture, SaveCapture
<1>19. CASE Fail(t)
  BY <1>2, <1>19 DEF Fail
<1> QED BY <1>5, <1>6, <1>7, <1>8, <1>9, <1>10, <1>11, <1>12, <1>13, <1>14, <1>15, <1>16, <1>17, <1>18, <1>19
        DEF Step, ScanStep, CloneStep, SiteStep, CaptureStep

\* A request whose operation, key and target were accepted before is not answered
\* by a conflict.
LEMMA RepeatsStep ==
    AdmissionInv /\ [AdmissionNext]_admissionVars =>
        \A r, s \in Requests :
          (/\ req[r].answer = "none" /\ req'[r].answer \in Conflicts
           /\ req[s].answer = "CREATED" /\ req[s].key # NoKey)
          => <<req[r].op, req[r].key>> # <<req[s].op, req[s].key>>
             \/ req[r].target # req[s].target
<1> SUFFICES ASSUME AdmissionInv, [AdmissionNext]_admissionVars, NEW r \in Requests, NEW s \in Requests,
                    req[r].answer = "none", req'[r].answer \in Conflicts,
                    req[s].answer = "CREATED", req[s].key # NoKey,
                    req[r].op = req[s].op, req[r].key = req[s].key, req[r].target = req[s].target
             PROVE  FALSE
  OBVIOUS
<1>1. /\ AdmissionTypes /\ Placed(r) /\ Checked(r) /\ Placed(s) /\ Told(s) /\ Rows
      /\ req[s].of = s
  BY DEF AdmissionInv, Behaves, Told
<1>2. /\ req[r].op \in {"scan", "clone", "capture"}
      /\ req[r].op = "scan" => /\ scan[s].there /\ scan[s].site = req[r].target
                               /\ scan[s].key = ScanKey(req[r]) /\ s \in ScansWith(ScanKey(req[r]))
      /\ req[r].op = "clone" => clone[s].there /\ clone[s].url = req[r].target /\ clone[s].key = req[r].key
      /\ req[r].op = "capture" => capture[s].there /\ capture[s].page = req[r].target
                                  /\ capture[s].key = req[r].key
  BY <1>1 DEF Told, Placed, ScanKey, ScansWith
\* So none of its checks can have been passed, and its key finds the one row.
<1>3. /\ req[r].op = "scan" => req[r].at \notin {"active", "quota", "save"}
      /\ req[r].op = "clone" => req[r].at \notin {"resolve", "insert", "site", "key", "active", "quota", "save"}
      /\ req[r].op = "capture" => req[r].at \notin {"active", "save"}
  BY <1>1, <1>2 DEF Checked
<1>4. /\ ScanKey(req[r]).key = req[r].key
      /\ req[r].op = "scan" => \A t \in ScansWith(ScanKey(req[r])) : t = s
      /\ req[r].op = "clone" => \A t \in Requests : clone[t].there /\ clone[t].key = req[r].key => t = s
      /\ req[r].op = "capture" => \A t \in Requests : capture[t].there /\ capture[t].key = req[r].key => t = s
  BY <1>1, <1>2 DEF Rows, ScansWith, ScanKey
<1>5. ASSUME NEW a, Goto(r, a) PROVE FALSE
  <2>1. req'[r].answer = req[r].answer
    BY <1>1, <1>5 DEF Goto, AdmissionTypes
  <2> QED BY <2>1 DEF Conflicts
<1>6. ASSUME NEW a, NEW of, Answered(r, a, of), a \notin Conflicts PROVE FALSE
  <2>1. req'[r].answer = a
    BY <1>1, <1>6 DEF Answered, AdmissionTypes
  <2> QED BY <1>6, <2>1
<1>7. ASSUME NEW t \in Requests, t # r, req'[r] = req[r] PROVE FALSE
  BY <1>7 DEF Conflicts
<1>8. ASSUME UNCHANGED req PROVE FALSE
  BY <1>8 DEF Conflicts
<1>9. ASSUME NEW t \in Requests, t # r, Arrive(t) \/ Step(t) \/ Fail(t) PROVE FALSE
  BY <1>1, <1>7, <1>9, OnlyItsOwn
<1>10. ASSUME NEW a, Refused(r, a), a \notin Conflicts PROVE FALSE
  BY <1>6, <1>10 DEF Refused
<1>11. ASSUME NEW x, Replay(r, x, TRUE) PROVE FALSE
  BY <1>6, <1>11 DEF Replay, Conflicts
<1>12. CASE LockUser(r)
  <2>1. req'[r].answer = req[r].answer
    BY <1>1, <1>12 DEF LockUser, AdmissionTypes
  <2> QED BY <2>1 DEF Conflicts
<1>13. CASE LockSite(r)
  <2>1. CASE Refused(r, "NOT_FOUND")
    BY <1>10, <2>1 DEF Conflicts
  <2>2. CASE req' = [req EXCEPT ![r].at = "key"]
    <3>1. req'[r].answer = req[r].answer
      BY <1>1, <2>2 DEF AdmissionTypes
    <3> QED BY <3>1 DEF Conflicts
  <2> QED BY <1>13, <2>1, <2>2 DEF LockSite
<1>14. CASE LookupScanKey(r)
  <2>1. req[r].op = "scan" /\ req[r].at = "key"
    BY <1>2, <1>3, <1>14 DEF LookupScanKey
  <2>2. scan[s].site = req[r].site /\ req[r].key # NoKey /\ ScansWith(ScanKey(req[r])) # {}
    BY <1>1, <1>2, <2>1 DEF Placed
  <2>3. Replay(r, s, scan[s].site = req[r].site)
    BY <1>4, <1>14, <2>1, <2>2 DEF LookupScanKey
  <2> QED BY <1>6, <2>2, <2>3 DEF Replay, Conflicts
<1>15. CASE LookupCloneKey(r)
  <2>1. req[r].op = "clone" /\ req[r].at = "cloneKey"
    BY <1>1, <1>2, <1>15 DEF LookupCloneKey, Placed
  <2>2. Replay(r, s, clone[s].url = req[r].target)
    BY <1>2, <1>4, <1>15, <2>1 DEF LookupCloneKey
  <2> QED BY <1>2, <1>6, <2>1, <2>2 DEF Replay, Conflicts
<1>16. CASE LookupCaptureKey(r)
  <2>1. req[r].op = "capture" /\ s \in Requests
    BY <1>16 DEF LookupCaptureKey
  <2>2. Replay(r, s, capture[s].page = req[r].target)
    BY <1>2, <1>4, <1>16, <2>1 DEF LookupCaptureKey
  <2> QED BY <1>2, <1>6, <2>1, <2>2 DEF Replay, Conflicts
<1>17. CASE CheckActiveScan(r) \/ SaveScan(r) \/ CheckQuota(r)
  BY <1>1, <1>2, <1>3, <1>17 DEF CheckActiveScan, SaveScan, CheckQuota, Placed
<1>18. CASE Resolve(r) \/ InsertSite(r)
  BY <1>1, <1>2, <1>3, <1>18 DEF Resolve, InsertSite, Placed
<1>19. CASE SiteStep(r)
  BY <1>1, <1>2, <1>19 DEF SiteStep, SiteExists, CreateSite, LockToArchive, CheckToArchive, Archive, Placed
<1>20. CASE CheckActiveCapture(r) \/ SaveCapture(r)
  BY <1>3, <1>20 DEF CheckActiveCapture, SaveCapture
<1>21. CASE Arrive(r)
  BY <1>1, <1>2, <1>21 DEF Arrive, Placed
<1>22. CASE Fail(r)
  BY <1>10, <1>22 DEF Fail, Conflicts
<1>23. ASSUME NEW t \in Requests, End(t) PROVE FALSE
  BY <1>8, <1>23 DEF End
<1>24. CASE UNCHANGED admissionVars
  BY <1>8, <1>24 DEF admissionVars
<1>25. Step(r) => FALSE
  BY <1>12, <1>13, <1>14, <1>15, <1>16, <1>17, <1>18, <1>19, <1>20 DEF Step, ScanStep, CloneStep, CaptureStep
<1> QED BY <1>9, <1>21, <1>22, <1>23, <1>24, <1>25 DEF AdmissionNext

\* Once a request was accepted, its repetition is never answered by a conflict.
THEOREM RepeatsAlwaysReplay == AdmissionSpec => RepeatsReplay
<1>1. AdmissionInv /\ [AdmissionNext]_admissionVars =>
        [\A r, s \in Requests :
          (/\ req[r].answer = "none" /\ req'[r].answer \in Conflicts
           /\ req[s].answer = "CREATED" /\ req[s].key # NoKey)
          => <<req[r].op, req[r].key>> # <<req[s].op, req[s].key>>
             \/ req[r].target # req[s].target]_admissionVars
  BY RepeatsStep
<1> QED BY <1>1, AdmissionInitHolds, AdmissionStep, PTL DEF AdmissionSpec, RepeatsReplay

-----------------------------------------------------------------------------
(* The panel                                                                *)

\* An answer that would still be looked at.
Counting(c) == c.gen = generation /\ (c.op \in Operations \/ c.seq = sequence)

\* The panel's part: nothing is sent after the last generation, every call is of
\* this generation and sequence or an earlier one, a call of this generation is for
\* the panel's clone, at most one call counts, and an operation's call that counts
\* keeps the buttons disabled.
PanelCalls ==
    /\ mounted => generation <= MaxGeneration + 1
    /\ mounted /\ generation > MaxGeneration => session.value = NoSession
    /\ \A c \in panelCalls : c.gen <= generation /\ c.seq <= sequence
    /\ \A c \in panelCalls : c.gen = generation => c.clone = siteCloneId
    /\ \A c, d \in panelCalls : Counting(c) /\ Counting(d) => c = d
    /\ mounted => \A c \in panelCalls : c.op \in Operations /\ c.gen = generation => acting

\* The worker's part: what is shown, and what an answer says, is not ahead of the
\* worker, and an answer that counts is not behind what is shown.
PanelVersions ==
    /\ session.value.version <= remote[siteCloneId].version
    /\ \A c \in panelCalls : c.value.version <= remote[c.clone].version
    /\ \A c \in panelCalls : Counting(c) /\ c.answer = "session" =>
          c.value.version >= session.value.version

PanelInv == PanelConsistent /\ PanelCalls /\ PanelVersions

\* What a call under way looks like.
LEMMA CallFields ==
    ASSUME PanelTypes, NEW c \in panelCalls
    PROVE  /\ c \in Call /\ c.op \in Operations \cup {"refresh"} /\ c.clone \in Clones
           /\ c.gen \in 1 .. MaxGeneration /\ c.gen \in Nat /\ c.seq \in 0 .. MaxSequence /\ c.seq \in Nat
           /\ c.answer \in {"none", "session", "gone", "error"}
           /\ c.value \in SessionStates /\ c.value.version \in Nat
BY PanelLimits DEF PanelTypes, Call, SessionStates

\* What the panel and the worker know are numbers.
LEMMA PanelNumbers ==
    ASSUME PanelTypes
    PROVE  /\ MaxGeneration \in Nat /\ MaxSequence \in Nat /\ MaxVersion \in Nat
           /\ generation \in Nat /\ generation >= 1 /\ sequence \in Nat
           /\ NoSession \in SessionStates /\ NoSession.version = 0 /\ NoSession.status = "NONE"
           /\ session.clone \in Clones /\ session.value \in SessionStates
           /\ session.value.version \in Nat
           /\ \A d \in Clones : remote[d] \in SessionStates /\ remote[d].version \in Nat
<1>1. MaxGeneration \in Nat /\ MaxSequence \in Nat /\ MaxVersion \in Nat
  BY PanelLimits
<1>2. \A v \in SessionStates : v.version \in Nat
  BY <1>1 DEF SessionStates
<1>3. NoSession \in SessionStates /\ NoSession.version = 0 /\ NoSession.status = "NONE"
  BY <1>1 DEF SessionStates, NoSession
<1> QED BY <1>1, <1>2, <1>3 DEF PanelTypes

\* A call that is sent.
LEMMA SentFields ==
    ASSUME PanelTypes, NEW op \in Operations \cup {"refresh"}, NEW g \in 1 .. MaxGeneration,
           NEW q \in 0 .. MaxSequence
    PROVE  /\ Send(op, g, q) \in Call /\ Send(op, g, q).op = op
           /\ Send(op, g, q).clone = siteCloneId /\ Send(op, g, q).gen = g
           /\ Send(op, g, q).seq = q /\ Send(op, g, q).answer = "none"
           /\ Send(op, g, q).value.version = 0
BY PanelNumbers DEF PanelTypes, Send, Call

LEMMA PanelInitHolds == PanelInit => PanelInv
<1> SUFFICES ASSUME PanelInit PROVE PanelInv
  OBVIOUS
<1>1. PanelTypes
  <2>1. MaxGeneration \in Nat /\ MaxSequence \in Nat /\ NoSession \in SessionStates
    BY PanelLimits DEF NoSession, SessionStates
  <2>2. /\ generation \in 1 .. MaxGeneration + 2 /\ sequence \in 0 .. MaxSequence /\ urls \in 0 .. 1
    BY <2>1 DEF PanelInit
  <2>3. /\ session \in [clone : Clones, value : SessionStates] /\ remote \in [Clones -> SessionStates]
    BY <2>1 DEF PanelInit
  <2> QED BY <2>2, <2>3 DEF PanelInit, PanelTypes
<1>2. PanelConsistent
  BY <1>1 DEF PanelInit, PanelConsistent, ShowsItsClone, NeverStuck, ScreenshotsRevoked
<1>3. PanelCalls /\ PanelVersions
  BY <1>1, PanelNumbers DEF PanelInit, PanelCalls, PanelVersions
<1> QED BY <1>2, <1>3 DEF PanelInv

\* The panel does not go back in a step.
StaysForward ==
    siteCloneId' = siteCloneId /\ session.value # NoSession /\ session'.value # NoSession
        => session'.value.version >= session.value.version

LEMMA ChangeSessionStep ==
    ASSUME PanelInv, NEW op \in Operations, ChangeSession(op)
    PROVE  PanelInv' /\ StaysForward
<1> DEFINE n == Send(op, generation + 1, sequence)
<1>1. PanelTypes
  BY DEF PanelInv, PanelConsistent
<1>2. /\ panelCalls' = panelCalls \cup {n} /\ generation' = generation + 1 /\ generation < MaxGeneration
      /\ acting' = TRUE /\ busy' = TRUE /\ mounted
      /\ UNCHANGED <<siteCloneId, mounted, sequence, refreshing, session, screenshot, urls, remote>>
  BY DEF ChangeSession, shown
<1>3. /\ n \in Call /\ n.op = op /\ n.clone = siteCloneId /\ n.gen = generation + 1
      /\ n.seq = sequence /\ n.answer = "none" /\ n.value.version = 0
  BY <1>1, <1>2, PanelNumbers, SentFields DEF PanelTypes
<1> HIDE DEF n
<1>4. \A c \in panelCalls : c.gen \in Nat /\ c.gen <= generation /\ c.seq \in Nat /\ c.seq <= sequence
  BY <1>1, CallFields DEF PanelInv, PanelCalls
<1>5. PanelTypes'
  BY <1>1, <1>2, <1>3, PanelNumbers DEF PanelTypes
<1>6. PanelConsistent'
  <2>1. NeverStuck'
    BY <1>2, <1>3 DEF NeverStuck, PanelInv, PanelConsistent
  <2> QED BY <1>2, <1>5, <2>1 DEF PanelInv, PanelConsistent, ShowsItsClone, ScreenshotsRevoked
<1>7. PanelCalls'
  <2>1. \A c, d \in panelCalls' : Counting(c)' /\ Counting(d)' => c = d
    BY <1>1, <1>2, <1>3, <1>4, PanelNumbers DEF Counting
  <2>2. \A c \in panelCalls' : c.gen <= generation' /\ c.seq <= sequence'
    BY <1>1, <1>2, <1>3, <1>4, PanelNumbers
  <2>3. \A c \in panelCalls' : c.gen = generation' => c.clone = siteCloneId'
    BY <1>1, <1>2, <1>3, <1>4, PanelNumbers
  <2>4. /\ mounted' => generation' <= MaxGeneration + 1
        /\ mounted' /\ generation' > MaxGeneration => session'.value = NoSession
    BY <1>1, <1>2, PanelNumbers
  <2> QED BY <1>2, <2>1, <2>2, <2>3, <2>4 DEF PanelCalls
<1>8. PanelVersions'
  <2>1. siteCloneId \in Clones /\ n.value.version <= remote[n.clone].version
    BY <1>1, <1>3, PanelNumbers DEF PanelTypes
  <2>2. \A c \in panelCalls' : Counting(c)' => c = n
    BY <1>1, <1>2, <1>3, <1>4, PanelNumbers DEF Counting
  <2> QED BY <1>2, <1>3, <2>1, <2>2 DEF PanelVersions, PanelInv
<1>9. StaysForward
  BY <1>1, <1>2, PanelNumbers DEF StaysForward
<1> QED BY <1>6, <1>7, <1>8, <1>9 DEF PanelInv

LEMMA PollStep ==
    ASSUME PanelInv, Poll
    PROVE  PanelInv' /\ StaysForward
<1> DEFINE n == Send("refresh", generation, sequence + 1)
<1>1. PanelTypes
  BY DEF PanelInv, PanelConsistent
<1>2. /\ panelCalls' = panelCalls \cup {n} /\ sequence' = sequence + 1 /\ sequence < MaxSequence
      /\ refreshing' = TRUE /\ ~acting /\ mounted /\ session.value.status = "OPEN"
      /\ UNCHANGED <<siteCloneId, mounted, generation, acting, busy, session, screenshot, urls, remote>>
  BY DEF Poll, shown
<1>3. generation <= MaxGeneration
  BY <1>1, <1>2, PanelNumbers DEF PanelInv, PanelCalls
<1>4. /\ n \in Call /\ n.op = "refresh" /\ n.clone = siteCloneId /\ n.gen = generation
      /\ n.seq = sequence + 1 /\ n.answer = "none" /\ n.value.version = 0
  BY <1>1, <1>2, <1>3, PanelNumbers, SentFields DEF PanelTypes
<1> HIDE DEF n
<1>5. \A c \in panelCalls : c.gen \in Nat /\ c.gen <= generation /\ c.seq \in Nat /\ c.seq <= sequence
  BY <1>1, CallFields DEF PanelInv, PanelCalls
<1>6. \A c \in panelCalls : c.op \in Operations => c.gen # generation
  BY <1>2 DEF PanelInv, PanelCalls
<1>7. PanelTypes'
  BY <1>1, <1>2, <1>4, PanelNumbers DEF PanelTypes
<1>8. PanelConsistent'
  <2>1. NeverStuck'
    BY <1>2, <1>4 DEF NeverStuck, PanelInv, PanelConsistent
  <2> QED BY <1>2, <1>7, <2>1 DEF PanelInv, PanelConsistent, ShowsItsClone, ScreenshotsRevoked
<1>9. \A c \in panelCalls' : Counting(c)' => c = n
  BY <1>1, <1>2, <1>4, <1>5, <1>6, PanelNumbers DEF Counting
<1>10. PanelCalls'
  <2>1. \A c \in panelCalls' : c.gen <= generation' /\ c.seq <= sequence'
    BY <1>1, <1>2, <1>4, <1>5, PanelNumbers
  <2>2. \A c \in panelCalls' : c.gen = generation' => c.clone = siteCloneId'
    BY <1>2, <1>4 DEF PanelInv, PanelCalls
  <2>3. \A c \in panelCalls' : c.op \in Operations /\ c.gen = generation' => acting'
    BY <1>2, <1>4, <1>6 DEF Operations
  <2> QED BY <1>2, <1>9, <2>1, <2>2, <2>3 DEF PanelCalls, PanelInv
<1>11. PanelVersions'
  <2>1. siteCloneId \in Clones /\ n.value.version <= remote[n.clone].version
    BY <1>1, <1>4, PanelNumbers DEF PanelTypes
  <2> QED BY <1>2, <1>4, <1>9, <2>1 DEF PanelVersions, PanelInv
<1>12. StaysForward
  BY <1>1, <1>2, PanelNumbers DEF StaysForward
<1> QED BY <1>8, <1>10, <1>11, <1>12 DEF PanelInv

LEMMA UnmountStep ==
    ASSUME PanelInv, Unmount
    PROVE  PanelInv' /\ StaysForward
<1>1. PanelTypes
  BY DEF PanelInv, PanelConsistent
<1>2. /\ mounted /\ mounted' = FALSE /\ generation' = generation + 1 /\ screenshot' = FALSE
      /\ urls' = IF screenshot THEN urls - 1 ELSE urls
      /\ UNCHANGED <<siteCloneId, sequence, refreshing, acting, busy, session, panelCalls, remote>>
  BY DEF Unmount
<1>3. \A c \in panelCalls : c.gen \in Nat /\ c.gen <= generation /\ c.seq \in Nat /\ c.seq <= sequence
  BY <1>1, CallFields DEF PanelInv, PanelCalls
<1>4. urls' = 0
  BY <1>1, <1>2 DEF PanelInv, PanelConsistent, ScreenshotsRevoked
<1>5. PanelTypes'
  <2>1. generation <= MaxGeneration + 1
    BY <1>2 DEF PanelInv, PanelCalls
  <2>2. generation' \in 1 .. MaxGeneration + 2 /\ urls' \in 0 .. 1
    BY <1>1, <1>2, <1>4, <2>1, PanelNumbers
  <2> QED BY <1>1, <1>2, <2>2 DEF PanelTypes
<1>6. PanelConsistent'
  BY <1>2, <1>4, <1>5 DEF PanelInv, PanelConsistent, ShowsItsClone, ScreenshotsRevoked, NeverStuck
<1>7. \A c \in panelCalls' : ~Counting(c)'
  BY <1>1, <1>2, <1>3, PanelNumbers DEF Counting
<1>8. PanelCalls'
  BY <1>1, <1>2, <1>3, <1>7, PanelNumbers DEF PanelCalls
<1>9. PanelVersions' /\ StaysForward
  BY <1>1, <1>2, <1>7, PanelNumbers DEF PanelVersions, PanelInv, StaysForward
<1> QED BY <1>6, <1>8, <1>9 DEF PanelInv

LEMMA ShowCloneStep ==
    ASSUME PanelInv, NEW to \in Clones, ShowClone(to)
    PROVE  PanelInv' /\ StaysForward
<1>1. PanelTypes
  BY DEF PanelInv, PanelConsistent
<1>2. /\ mounted /\ to # siteCloneId /\ siteCloneId' = to /\ generation < MaxGeneration
      /\ generation' = generation + 2 /\ sequence' = sequence + 1 /\ sequence < MaxSequence
      /\ refreshing' = FALSE /\ acting' = FALSE /\ busy' = FALSE /\ screenshot' = FALSE
      /\ session' = [clone |-> to, value |-> NoSession]
      /\ urls' = IF screenshot THEN urls - 1 ELSE urls
      /\ UNCHANGED <<mounted, panelCalls, remote>>
  BY DEF ShowClone, Clear
<1>3. \A c \in panelCalls : c.gen \in Nat /\ c.gen <= generation /\ c.seq \in Nat /\ c.seq <= sequence
  BY <1>1, CallFields DEF PanelInv, PanelCalls
<1>4. urls' = 0
  BY <1>1, <1>2 DEF PanelInv, PanelConsistent, ScreenshotsRevoked
<1>5. PanelTypes'
  <2>1. generation' \in 1 .. MaxGeneration + 2 /\ sequence' \in 0 .. MaxSequence /\ urls' \in 0 .. 1
    BY <1>1, <1>2, <1>4, PanelNumbers DEF PanelTypes
  <2>2. session' \in [clone : Clones, value : SessionStates]
    BY <1>1, <1>2, PanelNumbers
  <2> QED BY <1>1, <1>2, <2>1, <2>2 DEF PanelTypes
<1>6. PanelConsistent'
  BY <1>2, <1>4, <1>5 DEF PanelInv, PanelConsistent, ShowsItsClone, ScreenshotsRevoked, NeverStuck
<1>7. \A c \in panelCalls' : c.gen # generation'
  BY <1>1, <1>2, <1>3, PanelNumbers
<1>8. PanelCalls'
  BY <1>1, <1>2, <1>3, <1>7, PanelNumbers DEF PanelCalls, Counting
<1>9. PanelVersions'
  BY <1>1, <1>2, <1>7, PanelNumbers DEF PanelVersions, PanelInv, Counting
<1> QED BY <1>2, <1>6, <1>8, <1>9 DEF PanelInv, StaysForward

LEMMA RefreshedStep ==
    ASSUME PanelInv, NEW c \in panelCalls, Refreshed(c)
    PROVE  PanelInv' /\ StaysForward
<1>1. PanelTypes /\ c.op = "refresh" /\ c.op \notin Operations
  BY DEF PanelInv, PanelConsistent, Refreshed, Operations
<1>2. /\ panelCalls' = panelCalls \ {c} /\ c.answer # "none"
      /\ refreshing' = IF c.seq = sequence THEN FALSE ELSE refreshing
      /\ UNCHANGED <<siteCloneId, mounted, generation, sequence, remote>>
  BY DEF Refreshed
<1>3. CASE ~Counts(c)
  <2>1. UNCHANGED <<session, screenshot, urls, acting, busy>>
    BY <1>3 DEF Refreshed, shown
  <2>2. PanelTypes'
    BY <1>1, <1>2, <2>1 DEF PanelTypes
  <2>3. NeverStuck'
    <3>1. mounted => ~Counting(c)
      BY <1>1, <1>3 DEF Counts, Counting
    <3>2. mounted /\ acting => \E d \in panelCalls' : d.gen = generation /\ (d.op \in Operations \/ d.seq = sequence)
      BY <1>2, <3>1 DEF PanelInv, PanelConsistent, NeverStuck, Counting
    <3>3. mounted /\ refreshing' => \E d \in panelCalls' : d.op = "refresh" /\ d.seq = sequence
      BY <1>2 DEF PanelInv, PanelConsistent, NeverStuck
    <3> QED BY <1>2, <2>1, <3>2, <3>3 DEF PanelInv, PanelConsistent, NeverStuck
  <2>4. PanelConsistent'
    BY <1>2, <2>1, <2>2, <2>3 DEF PanelInv, PanelConsistent, ShowsItsClone, ScreenshotsRevoked
  <2>5. PanelCalls' /\ PanelVersions'
    BY <1>2, <2>1 DEF PanelInv, PanelCalls, PanelVersions, Counting
  <2> QED BY <1>1, <2>1, <2>4, <2>5, PanelNumbers DEF PanelInv, StaysForward
<1>4. CASE Counts(c)
  <2>1. Counting(c) /\ mounted /\ c.clone = siteCloneId /\ c.seq = sequence /\ c.gen = generation
    BY <1>4 DEF Counts, Counting, PanelInv, PanelCalls
  <2>2. acting' = FALSE /\ busy' = FALSE /\ refreshing' = FALSE
    BY <1>2, <1>4, <2>1 DEF Refreshed
  <2>3. \/ /\ c.answer = "session" /\ session' = [clone |-> c.clone, value |-> c.value]
           /\ screenshot' = TRUE /\ urls' = IF screenshot THEN urls ELSE urls + 1
        \/ /\ session' = [clone |-> siteCloneId, value |-> NoSession]
           /\ screenshot' = FALSE /\ urls' = IF screenshot THEN urls - 1 ELSE urls
        \/ UNCHANGED <<session, screenshot, urls>>
    BY <1>1, <1>2, <1>4, CallFields DEF Refreshed, Clear, shown
  <2>4. c.value \in SessionStates /\ c.clone \in Clones /\ c.value.version \in Nat /\ c.gen <= MaxGeneration
    BY <1>1, CallFields, PanelNumbers
  <2>5. /\ session' \in [clone : Clones, value : SessionStates] /\ session'.clone = siteCloneId
        /\ session'.value.version \in Nat
    BY <1>1, <2>1, <2>3, <2>4, PanelNumbers DEF PanelTypes, PanelInv, PanelConsistent, ShowsItsClone
  <2>6. urls' = (IF screenshot' THEN 1 ELSE 0) /\ screenshot' \in BOOLEAN /\ urls' \in 0 .. 1
    <3>1. urls = (IF screenshot THEN 1 ELSE 0) /\ screenshot \in BOOLEAN
      BY <1>1 DEF PanelTypes, PanelInv, PanelConsistent, ScreenshotsRevoked
    <3>2. screenshot' \in BOOLEAN
      BY <2>3, <3>1
    <3>3. \/ screenshot' /\ (screenshot => urls' = urls) /\ (~screenshot => urls' = urls + 1)
          \/ ~screenshot' /\ (screenshot => urls' = urls - 1) /\ (~screenshot => urls' = urls)
          \/ (screenshot' <=> screenshot) /\ urls' = urls
      BY <2>3, <3>1, <3>2
    <3> QED BY <3>1, <3>2, <3>3
  <2>7. PanelTypes'
    <3>1. refreshing' \in BOOLEAN /\ acting' \in BOOLEAN /\ busy' \in BOOLEAN /\ panelCalls' \subseteq Call
      BY <1>1, <1>2, <2>2 DEF PanelTypes
    <3> QED BY <1>1, <1>2, <2>5, <2>6, <3>1 DEF PanelTypes
  <2>8. PanelConsistent'
    BY <1>2, <2>1, <2>2, <2>5, <2>6, <2>7 DEF PanelConsistent, ShowsItsClone, ScreenshotsRevoked, NeverStuck
  <2>9. \A d \in panelCalls' : ~Counting(d)'
    BY <1>2, <2>1 DEF PanelInv, PanelCalls, Counting
  <2>10. PanelCalls'
    <3>1. ~(generation > MaxGeneration)
      BY <1>1, <2>1, <2>4, PanelNumbers
    <3> QED BY <1>2, <2>9, <3>1 DEF PanelInv, PanelCalls, Counting
  <2>11. PanelVersions'
    <3>1. session'.value.version <= remote[siteCloneId].version
      BY <1>1, <1>2, <2>1, <2>3, PanelNumbers DEF PanelInv, PanelVersions, PanelTypes
    <3> QED BY <1>2, <2>9, <3>1 DEF PanelInv, PanelVersions
  <2>12. StaysForward
    BY <1>1, <2>1, <2>3, PanelNumbers DEF StaysForward, PanelInv, PanelVersions
  <2> QED BY <2>8, <2>10, <2>11, <2>12 DEF PanelInv
<1> QED BY <1>3, <1>4

LEMMA ChangedStep ==
    ASSUME PanelInv, NEW c \in panelCalls, Changed(c)
    PROVE  PanelInv' /\ StaysForward
<1>1. PanelTypes /\ c.op \in Operations /\ c.op # "refresh"
  BY DEF PanelInv, PanelConsistent, Changed, Operations
<1>2. UNCHANGED <<siteCloneId, mounted, remote, generation>> /\ c.answer # "none"
  BY DEF Changed, refs
<1>3. CASE ~mounted \/ c.gen # generation
  <2>1. panelCalls' = panelCalls \ {c} /\ UNCHANGED <<session, screenshot, urls, acting, busy, sequence, refreshing>>
    BY <1>3 DEF Changed, shown, refs
  <2>2. PanelTypes'
    BY <1>1, <1>2, <2>1 DEF PanelTypes
  <2>3. NeverStuck'
    BY <1>1, <1>2, <1>3, <2>1 DEF PanelInv, PanelConsistent, NeverStuck
  <2>4. PanelConsistent'
    BY <1>2, <2>1, <2>2, <2>3 DEF PanelInv, PanelConsistent, ShowsItsClone, ScreenshotsRevoked
  <2>5. PanelCalls' /\ PanelVersions'
    BY <1>2, <2>1 DEF PanelInv, PanelCalls, PanelVersions, Counting
  <2> QED BY <1>1, <2>1, <2>4, <2>5, PanelNumbers DEF PanelInv, StaysForward
<1>4. CASE mounted /\ c.gen = generation
  <2>1. Counting(c) /\ c.clone = siteCloneId
    BY <1>1, <1>4 DEF Counting, PanelInv, PanelCalls
  <2>2. c.value \in SessionStates /\ c.value.version \in Nat /\ generation <= MaxGeneration
    BY <1>1, <1>4, CallFields, PanelNumbers
  <2>3. \/ /\ c.answer = "session" /\ session' = [clone |-> siteCloneId, value |-> c.value]
           /\ UNCHANGED <<screenshot, urls>>
        \/ /\ session' = [clone |-> siteCloneId, value |-> NoSession]
           /\ screenshot' = FALSE /\ urls' = IF screenshot THEN urls - 1 ELSE urls
        \/ UNCHANGED <<session, screenshot, urls>>
    BY <1>1, <1>2, <1>4, CallFields DEF Changed, Clear, shown
  <2>4. /\ session' \in [clone : Clones, value : SessionStates] /\ session'.clone = siteCloneId
        /\ session'.value.version \in Nat
    BY <1>1, <2>1, <2>2, <2>3, PanelNumbers DEF PanelTypes, PanelInv, PanelConsistent, ShowsItsClone
  <2>5. /\ urls' = (IF screenshot' THEN 1 ELSE 0) /\ screenshot' \in BOOLEAN /\ urls' \in 0 .. 1
    <3>1. urls = (IF screenshot THEN 1 ELSE 0) /\ screenshot \in BOOLEAN
      BY <1>1 DEF PanelTypes, PanelInv, PanelConsistent, ScreenshotsRevoked
    <3>2. screenshot' \in BOOLEAN
      BY <2>3, <3>1
    <3>3. \/ ~screenshot' /\ (screenshot => urls' = urls - 1) /\ (~screenshot => urls' = urls)
          \/ (screenshot' <=> screenshot) /\ urls' = urls
      BY <2>3, <3>1, <3>2
    <3> QED BY <3>1, <3>2, <3>3
  <2>6. session'.value.version <= remote[siteCloneId].version
    BY <1>1, <1>2, <2>1, <2>3, PanelNumbers DEF PanelInv, PanelVersions, PanelTypes
  <2>7. StaysForward
    BY <1>1, <2>1, <2>3, PanelNumbers DEF StaysForward, PanelInv, PanelVersions
  <2>8. \A d \in panelCalls \ {c} : ~Counting(d)
    BY <2>1 DEF PanelInv, PanelCalls
  <2>9. \A d \in panelCalls : d.gen \in Nat /\ d.gen <= generation /\ d.seq \in Nat /\ d.seq <= sequence
    BY <1>1, CallFields DEF PanelInv, PanelCalls
  <2>10. CASE c.answer = "session" /\ c.op \in {"start", "act"}
    <3> DEFINE n == Send("refresh", generation, sequence + 1)
    <3>1. /\ sequence < MaxSequence /\ sequence' = sequence + 1 /\ refreshing' = TRUE
          /\ panelCalls' = (panelCalls \ {c}) \cup {n} /\ UNCHANGED <<acting, busy>>
      BY <1>4, <2>10 DEF Changed
    <3>2. /\ n \in Call /\ n.op = "refresh" /\ n.clone = siteCloneId /\ n.gen = generation
          /\ n.seq = sequence + 1 /\ n.answer = "none" /\ n.value.version = 0
      <4>1. generation \in 1 .. MaxGeneration /\ sequence + 1 \in 0 .. MaxSequence
        BY <1>1, <2>2, <3>1, PanelNumbers DEF PanelTypes
      <4> QED BY <1>1, <4>1, SentFields
    <3> HIDE DEF n
    <3>3. PanelTypes'
      BY <1>1, <1>2, <2>4, <2>5, <3>1, <3>2, PanelNumbers DEF PanelTypes
    <3>4. NeverStuck'
      BY <1>2, <1>4, <3>1, <3>2 DEF PanelInv, PanelConsistent, NeverStuck
    <3>5. PanelConsistent'
      BY <1>2, <1>4, <2>4, <2>5, <3>3, <3>4 DEF PanelConsistent, ShowsItsClone, ScreenshotsRevoked
    <3>6. \A d \in panelCalls' : Counting(d)' => d = n
      BY <1>1, <1>2, <2>8, <2>9, <3>1, <3>2, PanelNumbers DEF Counting
    <3>7. PanelCalls'
      <4>1. \A d \in panelCalls' : d.gen <= generation' /\ d.seq <= sequence'
        BY <1>1, <1>2, <2>9, <3>1, <3>2, PanelNumbers
      <4>2. \A d \in panelCalls' : d.gen = generation' => d.clone = siteCloneId'
        BY <1>2, <3>1, <3>2 DEF PanelInv, PanelCalls
      <4>3. \A d \in panelCalls' : d.op \in Operations => d.gen # generation'
        BY <1>2, <2>8, <3>1, <3>2 DEF Operations, Counting
      <4> QED BY <1>1, <1>2, <2>2, <3>6, <4>1, <4>2, <4>3, PanelNumbers DEF PanelCalls
    <3>8. PanelVersions'
      <4>1. siteCloneId \in Clones /\ n.value.version <= remote[n.clone].version
        BY <1>1, <3>2, PanelNumbers DEF PanelTypes
      <4> QED BY <1>2, <2>6, <3>1, <3>2, <3>6, <4>1 DEF PanelVersions, PanelInv
    <3> QED BY <2>7, <3>5, <3>7, <3>8 DEF PanelInv
  <2>11. CASE ~(c.answer = "session" /\ c.op \in {"start", "act"})
    <3>1. /\ acting' = FALSE /\ busy' = FALSE /\ panelCalls' = panelCalls \ {c}
          /\ UNCHANGED <<sequence, refreshing>>
      BY <1>4, <2>11 DEF Changed
    <3>2. PanelTypes'
      <4>1. acting' \in BOOLEAN /\ busy' \in BOOLEAN /\ panelCalls' \subseteq Call
        BY <1>1, <3>1 DEF PanelTypes
      <4> QED BY <1>1, <1>2, <2>4, <2>5, <3>1, <4>1 DEF PanelTypes
    <3>3. NeverStuck'
      BY <1>1, <1>2, <3>1 DEF PanelInv, PanelConsistent, NeverStuck
    <3>4. PanelConsistent'
      BY <1>2, <1>4, <2>4, <2>5, <3>2, <3>3 DEF PanelConsistent, ShowsItsClone, ScreenshotsRevoked
    <3>5. \A d \in panelCalls' : ~Counting(d)'
      BY <1>2, <2>8, <3>1 DEF Counting
    <3>6. PanelCalls'
      <4>1. ~(generation > MaxGeneration) /\ generation <= MaxGeneration + 1
        BY <1>1, <2>2, PanelNumbers
      <4> QED BY <1>2, <3>1, <3>5, <4>1 DEF PanelCalls, PanelInv, Counting
    <3>7. PanelVersions'
      BY <1>2, <2>6, <3>1, <3>5 DEF PanelVersions, PanelInv
    <3> QED BY <2>7, <3>4, <3>6, <3>7 DEF PanelInv
  <2> QED BY <2>10, <2>11
<1> QED BY <1>3, <1>4

\* The worker's sessions only get newer.
LEMMA AfterIsNewer ==
    ASSUME PanelTypes, NEW c \in panelCalls, After(c)[c.clone].version <= MaxVersion
    PROVE  /\ After(c) \in [Clones -> SessionStates]
           /\ \A d \in Clones : After(c)[d].version >= remote[d].version
<1>1. c.clone \in Clones /\ remote \in [Clones -> SessionStates] /\ c.op \in Operations \cup {"refresh"}
  BY CallFields DEF PanelTypes
<1>2. ASSUME NEW st \in {"NONE", "OPEN", "READY"}, Bumped(c.clone, st)[c.clone].version <= MaxVersion
      PROVE  /\ Bumped(c.clone, st) \in [Clones -> SessionStates]
             /\ \A d \in Clones : Bumped(c.clone, st)[d].version >= remote[d].version
  <2>1. remote[c.clone].version \in Nat /\ \A d \in Clones : remote[d].version \in Nat
    BY <1>1, PanelNumbers
  <2>2. Bumped(c.clone, st)[c.clone] = [status |-> st, version |-> remote[c.clone].version + 1]
    BY <1>1 DEF Bumped
  <2>3. [status |-> st, version |-> remote[c.clone].version + 1] \in SessionStates
    BY <1>2, <2>1, <2>2, PanelNumbers DEF SessionStates
  <2> QED BY <1>1, <2>1, <2>2, <2>3 DEF Bumped
<1>3. \/ After(c) = remote
      \/ \E st \in {"NONE", "OPEN", "READY"} : After(c) = Bumped(c.clone, st)
  BY <1>1 DEF After, Operations
<1>4. \A d \in Clones : remote[d].version >= remote[d].version
  BY PanelNumbers
<1> QED BY <1>1, <1>2, <1>3, <1>4

\* A step of the worker that answers one call with a session as new as its own, or
\* with none, or that answers nothing.
LEMMA WorkerStep ==
    ASSUME PanelInv, UNCHANGED <<siteCloneId, mounted, refs, shown>>,
           remote' \in [Clones -> SessionStates],
           \A d \in Clones : remote'[d].version >= remote[d].version,
           \/ UNCHANGED panelCalls
           \/ \E c \in panelCalls : \E n \in Call :
                 /\ c.answer = "none"
                 /\ panelCalls' = (panelCalls \ {c}) \cup {n}
                 /\ n.op = c.op /\ n.clone = c.clone /\ n.gen = c.gen /\ n.seq = c.seq
                 /\ n.value.version <= remote'[c.clone].version
                 /\ n.answer = "session" => n.value = remote'[c.clone]
    PROVE  PanelInv' /\ StaysForward
<1>1. PanelTypes
  BY DEF PanelInv, PanelConsistent
<1>2. /\ UNCHANGED <<siteCloneId, mounted, session, screenshot, urls>>
      /\ UNCHANGED <<generation, sequence, refreshing, acting, busy>>
  BY DEF refs, shown
<1>3. \A d \in Clones : remote[d].version \in Nat /\ remote'[d].version \in Nat
  BY <1>1, PanelNumbers DEF SessionStates
<1>4. /\ session'.value.version <= remote'[siteCloneId'].version
      /\ StaysForward
  BY <1>1, <1>2, <1>3, PanelNumbers DEF PanelInv, PanelVersions, PanelTypes, StaysForward
<1>5. CASE UNCHANGED panelCalls
  <2>1. PanelTypes'
    BY <1>1, <1>2, <1>5 DEF PanelTypes
  <2>2. PanelConsistent' /\ PanelCalls'
    BY <1>2, <1>5, <2>1 DEF PanelInv, PanelConsistent, PanelCalls, Counting, ShowsItsClone, NeverStuck, ScreenshotsRevoked
  <2>3. \A d \in panelCalls' : d.value.version <= remote'[d.clone].version
    <3> SUFFICES ASSUME NEW d \in panelCalls
                 PROVE  d.value.version <= remote'[d.clone].version
      BY <1>5
    <3>1. d.value.version <= remote[d.clone].version /\ d.clone \in Clones /\ d.value.version \in Nat
      BY <1>1, CallFields DEF PanelInv, PanelVersions
    <3> QED BY <1>3, <3>1
  <2>4. PanelVersions'
    BY <1>2, <1>4, <1>5, <2>3 DEF PanelInv, PanelVersions, Counting
  <2> QED BY <1>4, <2>2, <2>4 DEF PanelInv
<1>6. ASSUME NEW c \in panelCalls, NEW n \in Call, c.answer = "none",
             panelCalls' = (panelCalls \ {c}) \cup {n},
             n.op = c.op /\ n.clone = c.clone /\ n.gen = c.gen /\ n.seq = c.seq,
             n.value.version <= remote'[c.clone].version,
             n.answer = "session" => n.value = remote'[c.clone]
      PROVE  PanelInv'
  <2>1. n.op = c.op /\ n.clone = c.clone /\ n.gen = c.gen /\ n.seq = c.seq
    BY <1>6
  <2>2. panelCalls' = (panelCalls \ {c}) \cup {n}
    BY <1>6
  <2>3. PanelTypes'
    BY <1>1, <1>2, <2>1, <2>2 DEF PanelTypes
  <2>4. NeverStuck'
    BY <1>2, <2>1, <2>2 DEF PanelInv, PanelConsistent, NeverStuck
  <2>5. PanelConsistent'
    BY <1>2, <2>3, <2>4 DEF PanelInv, PanelConsistent, ShowsItsClone, ScreenshotsRevoked
  <2>6. \A d \in panelCalls' : d = n \/ d \in panelCalls
    BY <2>2
  <2>7. \A d \in panelCalls' : Counting(d)' => (d = n /\ Counting(c)) \/ (d \in panelCalls \ {c} /\ Counting(d))
    BY <1>2, <2>1, <2>2 DEF Counting
  <2>8. PanelCalls'
    <3>1. \A d, e \in panelCalls' : Counting(d)' /\ Counting(e)' => d = e
      BY <2>7 DEF PanelInv, PanelCalls
    <3>2. \A d \in panelCalls' : d.gen <= generation' /\ d.seq <= sequence'
      BY <1>2, <2>1, <2>6 DEF PanelInv, PanelCalls
    <3>3. \A d \in panelCalls' : d.gen = generation' => d.clone = siteCloneId'
      BY <1>2, <2>1, <2>6 DEF PanelInv, PanelCalls
    <3>4. mounted' => \A d \in panelCalls' : d.op \in Operations /\ d.gen = generation' => acting'
      BY <1>2, <2>1, <2>6 DEF PanelInv, PanelCalls
    <3> QED BY <1>2, <3>1, <3>2, <3>3, <3>4 DEF PanelInv, PanelCalls
  <2>9. \A d \in panelCalls' : d.value.version <= remote'[d.clone].version
    <3> SUFFICES ASSUME NEW d \in panelCalls'
                 PROVE  d.value.version <= remote'[d.clone].version
      OBVIOUS
    <3>1. CASE d = n
      BY <1>6, <2>1, <3>1
    <3>2. CASE d \in panelCalls
      <4>1. d.value.version <= remote[d.clone].version /\ d.clone \in Clones /\ d.value.version \in Nat
        BY <1>1, <3>2, CallFields DEF PanelInv, PanelVersions
      <4> QED BY <1>3, <4>1
    <3> QED BY <2>6, <3>1, <3>2
  <2>10. \A d \in panelCalls' : Counting(d)' /\ d.answer = "session" =>
            d.value.version >= session'.value.version
    <3> SUFFICES ASSUME NEW d \in panelCalls', Counting(d)', d.answer = "session"
                 PROVE  d.value.version >= session'.value.version
      OBVIOUS
    <3>1. CASE d = n /\ Counting(c)
      <4>1. c.clone = siteCloneId
        BY <3>1 DEF PanelInv, PanelCalls, Counting
      <4>2. n.value = remote'[siteCloneId]
        BY <1>6, <2>1, <3>1, <4>1
      <4>3. remote'[siteCloneId].version \in Nat /\ session'.value.version \in Nat
        BY <1>1, <1>2, <1>3, PanelNumbers DEF PanelTypes
      <4> QED BY <1>2, <1>4, <3>1, <4>2, <4>3
    <3>2. CASE d \in panelCalls /\ Counting(d)
      BY <1>2, <3>2 DEF PanelInv, PanelVersions
    <3> QED BY <2>7, <3>1, <3>2
  <2>11. PanelVersions'
    BY <1>4, <2>9, <2>10 DEF PanelVersions
  <2> QED BY <2>5, <2>8, <2>11 DEF PanelInv
<1> QED BY <1>4, <1>5, <1>6

LEMMA PanelStep == PanelInv /\ [PanelNext]_panelVars => PanelInv' /\ StaysForward
<1> SUFFICES ASSUME PanelInv, [PanelNext]_panelVars PROVE PanelInv' /\ StaysForward
  OBVIOUS
<1>1. PanelTypes
  BY DEF PanelInv, PanelConsistent
<1>2. ASSUME NEW c \in panelCalls, Reply(c) PROVE PanelInv' /\ StaysForward
  <2>1. /\ remote' = After(c) /\ c.answer = "none" /\ After(c)[c.clone].version <= MaxVersion
        /\ UNCHANGED <<siteCloneId, mounted, refs, shown>>
        /\ panelCalls' = (panelCalls \ {c}) \cup
              {[c EXCEPT !.value = remote'[c.clone], !.answer = Verdict(c.op, remote[c.clone].status)]}
    BY <1>2 DEF Reply
  <2>2. remote' \in [Clones -> SessionStates] /\ \A d \in Clones : remote'[d].version >= remote[d].version
    BY <1>1, <2>1, AfterIsNewer
  <2>3. c.clone \in Clones /\ remote'[c.clone] \in SessionStates /\ remote'[c.clone].version \in Nat
    BY <1>1, <2>2, CallFields DEF SessionStates
  <2>4. Verdict(c.op, remote[c.clone].status) \in {"session", "gone", "error"}
    BY DEF Verdict
  <2> DEFINE n == [c EXCEPT !.value = remote'[c.clone], !.answer = Verdict(c.op, remote[c.clone].status)]
  <2>5. /\ n \in Call /\ n.op = c.op /\ n.clone = c.clone /\ n.gen = c.gen /\ n.seq = c.seq
        /\ n.value = remote'[c.clone]
    BY <1>1, <2>3, <2>4, CallFields DEF Call
  <2>6. panelCalls' = (panelCalls \ {c}) \cup {n} /\ n.value.version <= remote'[c.clone].version
    BY <2>1, <2>3, <2>5
  <2> HIDE DEF n
  <2> QED BY <2>1, <2>2, <2>5, <2>6, WorkerStep
<1>3. ASSUME NEW c \in panelCalls, ReplyFails(c) PROVE PanelInv' /\ StaysForward
  <2>1. PICK st \in {remote, After(c)} : st[c.clone].version <= MaxVersion /\ remote' = st
    BY <1>3 DEF ReplyFails
  <2>2. remote' \in [Clones -> SessionStates] /\ \A d \in Clones : remote'[d].version >= remote[d].version
    <3>1. \A d \in Clones : remote[d].version >= remote[d].version
      BY <1>1, PanelNumbers
    <3> QED BY <1>1, <2>1, <3>1, AfterIsNewer DEF PanelTypes
  <2> DEFINE n == [c EXCEPT !.answer = "error"]
  <2>3. /\ c.answer = "none" /\ UNCHANGED <<siteCloneId, mounted, refs, shown>>
        /\ panelCalls' = (panelCalls \ {c}) \cup {n}
    BY <1>3 DEF ReplyFails
  <2>4. /\ n \in Call /\ n.op = c.op /\ n.clone = c.clone /\ n.gen = c.gen /\ n.seq = c.seq
        /\ n.value = c.value /\ n.answer = "error"
    BY <1>1, CallFields DEF Call
  <2>5. n.value.version <= remote'[c.clone].version
    <3>1. /\ c.value.version \in Nat /\ remote[c.clone].version \in Nat
          /\ remote'[c.clone].version \in Nat /\ c.clone \in Clones
      BY <1>1, <2>2, CallFields, PanelNumbers DEF SessionStates
    <3>2. c.value.version <= remote[c.clone].version
      BY DEF PanelInv, PanelVersions
    <3> QED BY <2>2, <2>4, <3>1, <3>2
  <2> HIDE DEF n
  <2> QED BY <2>2, <2>3, <2>4, <2>5, WorkerStep
<1>4. ASSUME NEW d \in Clones, SessionEnds(d) PROVE PanelInv' /\ StaysForward
  <2>1. /\ UNCHANGED <<siteCloneId, mounted, refs, shown, panelCalls>> /\ remote' = Bumped(d, "NONE")
        /\ remote[d].version < MaxVersion /\ remote \in [Clones -> SessionStates]
    BY <1>1, <1>4 DEF SessionEnds, PanelTypes
  <2>2. [status |-> "NONE", version |-> remote[d].version + 1] \in SessionStates
    BY <1>1, <2>1, PanelNumbers DEF SessionStates
  <2>3. /\ remote' \in [Clones -> SessionStates]
        /\ \A e \in Clones : remote'[e].version >= remote[e].version
    BY <1>1, <2>1, <2>2, PanelNumbers DEF Bumped
  <2> QED BY <2>1, <2>3, WorkerStep
<1>5. CASE UNCHANGED panelVars
  <2>1. /\ UNCHANGED <<siteCloneId, mounted, session, screenshot, urls, panelCalls, remote>>
        /\ UNCHANGED <<generation, sequence, refreshing, acting, busy>>
    BY <1>5 DEF panelVars, refs, shown
  <2>2. PanelConsistent'
    BY <2>1 DEF PanelInv, PanelConsistent, PanelTypes, ShowsItsClone, NeverStuck, ScreenshotsRevoked
  <2>3. PanelCalls' /\ PanelVersions'
    BY <2>1 DEF PanelInv, PanelCalls, PanelVersions, Counting
  <2> QED BY <1>1, <2>1, <2>2, <2>3, PanelNumbers DEF PanelInv, StaysForward
<1> QED BY <1>2, <1>3, <1>4, <1>5, ChangeSessionStep, PollStep, UnmountStep, RefreshedStep,
           ChangedStep, ShowCloneStep DEF PanelNext

\* The panel shows its clone's session, is never left disabled or silent without a
\* call under way, and keeps exactly the object URL it shows.
THEOREM PanelAlwaysConsistent == PanelSpec => []PanelConsistent
<1>1. PanelInv => PanelConsistent
  BY DEF PanelInv
<1> QED BY <1>1, PanelInitHolds, PanelStep, PTL DEF PanelSpec

\* What the panel shows never goes back to an earlier state of the session.
THEOREM PanelNeverGoesBack == PanelSpec => NeverGoesBack
<1>1. PanelInv /\ [PanelNext]_panelVars => [StaysForward]_panelVars
  BY PanelStep
<1>2. [StaysForward]_panelVars <=>
        [siteCloneId' = siteCloneId /\ session.value # NoSession /\ session'.value # NoSession
          => session'.value.version >= session.value.version]_panelVars
  BY DEF StaysForward
<1> QED BY <1>1, <1>2, PanelInitHolds, PanelStep, PTL DEF PanelSpec, NeverGoesBack

-----------------------------------------------------------------------------
(* All of it                                                                *)

\* A step of Access is a step of each part, or leaves it alone.
LEMMA AccessSteps ==
    [AccessNext]_accessVars =>
        [Next]_vars /\ [AdmissionNext]_admissionVars /\ [PanelNext]_panelVars
BY DEF AccessNext, accessVars

\* Nothing is undone by what comes late: no credential after a revocation, no
\* conflict for a request that was accepted, no earlier state of the browser shown.
THEOREM NothingEverComesBack == AccessSpec => NothingComesBack
<1>1. AccessSpec => Spec /\ AdmissionSpec /\ PanelSpec
  BY AccessSteps, PTL DEF AccessSpec, AccessInit, Spec, AdmissionSpec, PanelSpec
<1> QED BY <1>1, NothingIsIssuedAfterRevocation, RepeatsAlwaysReplay, PanelNeverGoesBack
        DEF NothingComesBack

\* What the user meets is consistent throughout: the sessions, what is admitted, and
\* what the panel shows.
THEOREM AccessAlwaysConsistent ==
    AccessSpec => [](ExchangedOnce /\ SessionsUsable /\ AdmissionConsistent /\ PanelConsistent)
<1>1. AccessSpec => Spec /\ AdmissionSpec /\ PanelSpec
  BY AccessSteps, PTL DEF AccessSpec, AccessInit, Spec, AdmissionSpec, PanelSpec
<1> QED BY <1>1, EachIsExchangedOnce, SessionsAlwaysUsable, AdmissionAlwaysConsistent,
           PanelAlwaysConsistent, PTL
=============================================================================
