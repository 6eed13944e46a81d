----------------------------- MODULE SafeProxy ------------------------------
(***************************************************************************)
(* The proxies through which browsers reach the web (safe-proxy.ts), one   *)
(* per capture.  A proxy tracks the sockets of its clients and upstreams,  *)
(* counts the bytes of its upstreams, and drops every socket it tracks     *)
(* when the budget is exceeded or it is closed.  A tunnel (CONNECT or an   *)
(* upgrade) opens a socket of its own; a plain request takes one from the  *)
(* agent of the process, which keeps sockets for reuse and which all       *)
(* proxies share.                                                          *)
(***************************************************************************)
EXTENDS Integers

CONSTANTS
    Proxies, Requests, Sockets,
    NoSocket, NoRequest,
    ProxyOf,       \* the proxy a request is made to
    Tunnels,       \* the requests that are tunnels; the others are plain
    MaxBytes,      \* maxBytes, in chunks
    MaxChunks      \* bound: the chunks the model's upstreams send

ASSUME BudgetAssumption ==
    /\ MaxBytes \in Nat /\ MaxChunks \in Nat
    /\ NoSocket \notin Sockets /\ NoRequest \notin Requests
    /\ ProxyOf \in [Requests -> Proxies] /\ Tunnels \subseteq Requests

VARIABLES
    closed, exhausted, received,  \* fields of a proxy
    charged,                      \* the chunks a proxy's own requests received
    client,      \* the client's socket of a request
    wired,       \* whether the request's close handlers are attached
    upstream,    \* the upstream socket of a request
    sock,        \* the state of an upstream socket
    tracked,     \* the proxies that track an upstream socket
    user,        \* the request that uses an upstream socket
    chunks

proxyVars == <<closed, exhausted, received, charged>>
vars == <<proxyVars, client, wired, upstream, sock, tracked, user, chunks>>

TypeOK ==
    /\ closed \in [Proxies -> BOOLEAN] /\ exhausted \in [Proxies -> BOOLEAN]
    /\ received \in [Proxies -> 0 .. MaxBytes + 1]
    /\ charged \in [Proxies -> 0 .. MaxChunks]
    /\ client \in [Requests -> {"none", "open", "gone"}]
    /\ wired \in [Requests -> BOOLEAN]
    /\ upstream \in [Requests -> Sockets \cup {NoSocket}]
    /\ sock \in [Sockets -> {"unused", "connecting", "open", "idle", "dead"}]
    /\ tracked \in [Sockets -> SUBSET Proxies]
    /\ user \in [Sockets -> Requests \cup {NoRequest}]
    /\ chunks \in 0 .. MaxChunks

Init ==
    /\ closed = [p \in Proxies |-> FALSE] /\ exhausted = [p \in Proxies |-> FALSE]
    /\ received = [p \in Proxies |-> 0] /\ charged = [p \in Proxies |-> 0]
    /\ client = [r \in Requests |-> "none"] /\ wired = [r \in Requests |-> FALSE]
    /\ upstream = [r \in Requests |-> NoSocket]
    /\ sock = [s \in Sockets |-> "unused"] /\ tracked = [s \in Sockets |-> {}]
    /\ user = [s \in Sockets |-> NoRequest]
    /\ chunks = 0

-----------------------------------------------------------------------------

Live(s) == sock[s] \in {"connecting", "open", "idle"}

\* Upstream sockets and clients are destroyed.  Of a wired tunnel each end takes
\* the other with it; the client of a plain request stays until its own timeout.
Destroy(dead, gone) ==
    LET lost == dead \cup {upstream[r] : r \in {q \in gone : wired[q] /\ upstream[q] # NoSocket}}
        hung == gone \cup {r \in Requests : wired[r] /\ client[r] = "open" /\ upstream[r] \in dead}
    IN /\ sock' = [s \in Sockets |-> IF s \in lost /\ Live(s) THEN "dead" ELSE sock[s]]
       /\ client' = [r \in Requests |-> IF r \in hung THEN "gone" ELSE client[r]]

\* What a proxy tracks.
UpstreamsOf(ps) == {s \in Sockets : Live(s) /\ tracked[s] \cap ps # {}}
ClientsOf(ps) == {r \in Requests : client[r] = "open" /\ ProxyOf[r] \in ps}

\* For mutation only: whether track lets a new socket of the proxy live, without
\* the flags.
AdmitsAll(p) == TRUE

\* Whether track lets a new socket of the proxy live.
Admits(p) == ~exhausted[p] /\ ~closed[p]

\* A browser connects; after close the server no longer listens.
Accept(r) ==
    /\ client[r] = "none" /\ ~closed[ProxyOf[r]]
    /\ client' = [client EXCEPT ![r] = IF Admits(ProxyOf[r]) THEN "open" ELSE "gone"]
    /\ UNCHANGED <<proxyVars, wired, upstream, sock, tracked, user, chunks>>

\* The address of a tunnel is resolved and its socket opened; nobody looks at
\* the client, or at the flags, before it is connected.
OpenTunnel(r) ==
    /\ r \in Tunnels /\ client[r] # "none" /\ upstream[r] = NoSocket
    /\ \E s \in Sockets :
          /\ sock[s] = "unused"
          /\ sock' = [sock EXCEPT ![s] = "connecting"]
          /\ user' = [user EXCEPT ![s] = r]
          /\ upstream' = [upstream EXCEPT ![r] = s]
    /\ UNCHANGED <<proxyVars, client, wired, tracked, chunks>>

\* The tunnel's socket is connected: track, then the close handlers, whose
\* events a client that is already gone no longer emits.
Connected(r) ==
    LET s == upstream[r] IN
    /\ r \in Tunnels /\ s # NoSocket /\ sock[s] = "connecting"
    /\ tracked' = [tracked EXCEPT ![s] = {ProxyOf[r]}]
    /\ sock' = [sock EXCEPT ![s] = IF Admits(ProxyOf[r]) THEN "open" ELSE "dead"]
    /\ wired' = [wired EXCEPT ![r] = client[r] = "open"]
    /\ client' = [client EXCEPT ![r] = IF Admits(ProxyOf[r]) THEN @ ELSE "gone"]
    /\ UNCHANGED <<proxyVars, upstream, user, chunks>>

\* A socket that did not connect in ten seconds, or was refused.
ConnectFails(r) ==
    LET s == upstream[r] IN
    /\ r \in Tunnels /\ s # NoSocket /\ sock[s] = "connecting"
    /\ sock' = [sock EXCEPT ![s] = "dead"]
    /\ client' = [client EXCEPT ![r] = "gone"]
    /\ UNCHANGED <<proxyVars, wired, upstream, tracked, user, chunks>>

\* The agent gives a plain request an idle socket or a new one; track adds the
\* proxy to those that already listen to it.
SendRequest(r) ==
    /\ r \notin Tunnels /\ client[r] # "none" /\ upstream[r] = NoSocket
    /\ \E s \in Sockets :
          /\ \/ sock[s] = "idle"
             \/ sock[s] = "unused" /\ \A t \in Sockets : sock[t] # "idle"
          /\ upstream' = [upstream EXCEPT ![r] = s]
          /\ user' = [user EXCEPT ![s] = r]
          /\ tracked' = [tracked EXCEPT ![s] = @ \cup {ProxyOf[r]}]
          /\ sock' = [sock EXCEPT ![s] = IF Admits(ProxyOf[r]) THEN "open" ELSE "dead"]
    /\ UNCHANGED <<proxyVars, client, wired, chunks>>

\* The proxies whose budget is exceeded by one chunk more.
Over(ps) == {p \in ps : received[p] + 1 > MaxBytes}

\* A chunk arrives: every proxy that tracks the socket counts it, and one that
\* is over its budget destroys all it tracks.
Receive(s) ==
    /\ sock[s] = "open" /\ chunks < MaxChunks
    /\ chunks' = chunks + 1
    /\ charged' = [charged EXCEPT ![ProxyOf[user[s]]] = @ + 1]
    /\ received' = [p \in Proxies |-> IF p \in tracked[s] THEN received[p] + 1 ELSE received[p]]
    /\ exhausted' = [p \in Proxies |-> exhausted[p] \/ p \in Over(tracked[s])]
    /\ Destroy(UpstreamsOf(Over(tracked[s])), ClientsOf(Over(tracked[s])))
    /\ UNCHANGED <<closed, wired, upstream, tracked, user>>

\* The answer to a plain request is complete: the agent keeps the socket, and
\* with it the listeners of the proxies that used it.
Answered(s) ==
    /\ sock[s] = "open" /\ user[s] \notin Tunnels
    /\ sock' = [sock EXCEPT ![s] = "idle"]
    /\ client' = [client EXCEPT ![user[s]] = "gone"]
    /\ UNCHANGED <<proxyVars, wired, upstream, tracked, user, chunks>>

\* An upstream ends, fails or is idle for ten seconds.
UpstreamEnds(s) ==
    /\ sock[s] \in {"open", "idle"}
    /\ Destroy({s}, {})
    /\ UNCHANGED <<proxyVars, wired, upstream, tracked, user, chunks>>

\* A browser goes, or is idle for ten seconds.
ClientEnds(r) ==
    /\ client[r] = "open"
    /\ Destroy({}, {r})
    /\ UNCHANGED <<proxyVars, wired, upstream, tracked, user, chunks>>

Close(p) ==
    /\ ~closed[p]
    /\ closed' = [closed EXCEPT ![p] = TRUE]
    /\ Destroy(UpstreamsOf({p}), ClientsOf({p}))
    /\ UNCHANGED <<exhausted, received, charged, wired, upstream, tracked, user, chunks>>

Step(r) == Accept(r) \/ OpenTunnel(r) \/ Connected(r) \/ ConnectFails(r) \/ SendRequest(r)

Next ==
    \/ \E r \in Requests : Step(r) \/ ClientEnds(r)
    \/ \E s \in Sockets : Receive(s) \/ Answered(s) \/ UpstreamEnds(s)
    \/ \E p \in Proxies : Close(p)

\* A connection attempt ends: openSocket has a timer of ten seconds.
Fairness == \A r \in Requests : WF_vars(Connected(r) \/ ConnectFails(r))

Spec == Init /\ [][Next]_vars
FairSpec == Spec /\ Fairness

-----------------------------------------------------------------------------

\* A proxy that is closed or over its budget has no socket left, the ones that
\* were being connected when it happened included (the flags in track).
NothingAfterTheEnd ==
    \A p \in Proxies : (closed[p] \/ exhausted[p]) =>
        UpstreamsOf({p}) = {} /\ ClientsOf({p}) = {}

\* A proxy takes at most one chunk over its budget, over all its sockets: the
\* capture that asks assertWithinBudget has not downloaded more than that.
OvershootBounded ==
    \A p \in Proxies : charged[p] <= MaxBytes + 1 /\ (charged[p] > MaxBytes => exhausted[p])

\* A tunnel whose handlers are attached never outlives its client, nor its
\* client the tunnel.
TunnelsEndTogether ==
    \A r \in Requests : wired[r] => (client[r] = "open") = (sock[upstream[r]] = "open")

\* What a proxy owes its capture: nothing open after its end, a bounded overshoot,
\* and tunnels whose two ends go together.
ConnectionsAccounted == NothingAfterTheEnd /\ OvershootBounded /\ TunnelsEndTogether

\* After close the proxy's clients and connections are gone for good, also those
\* whose address was still being resolved or whose connection was being opened.
ClosingEnds ==
    \A p \in Proxies : closed[p] ~>
        [](\A r \in Requests : ProxyOf[r] = p =>
              /\ client[r] # "open"
              /\ \A s \in Sockets : user[s] = r => ~Live(s) \/ p \notin tracked[s])

=============================================================================
