----------------------------- MODULE MCEndings ------------------------------
(***************************************************************************)
(* What must come to an end, for TLC: downloads, login browsers, a proxy's *)
(* connections, the calls of a signed-in tab, admitted requests, and the   *)
(* browser and the page of a capture.  The models share no state, so a     *)
(* behaviour is one of a single part; the others rest in states in which   *)
(* none of their fair actions is enabled.                                  *)
(***************************************************************************)
EXTENDS ArtifactServer, TLC

CONSTANTS
  r1, r2, r3,                       \* requests
  c1, o1, w1,                       \* a clone, its owner, a page worker
  proxyP, proxyQ, s1, s2, s3,                 \* proxies and sockets
  NoSocket, NoRequest,
  t1, t2, k1, k2,                   \* tabs and their calls
  x1, x2, u1, p1, key, NoKey, Nobody

VARIABLES
  part,   \* what this behaviour is of
  attempt, made, browsers, pending, starting, worker, stopping,
  closed, exhausted, received, charged, client, wired, upstream, sock, tracked, user, chunks,
  sessions, issued, parent, jar, access, fresh, inFlight, calls, token, net, lost,
  logouts,
  site, scan, clone, capture, userLock, siteLock, urlLock, req,
  managed, pc, late, resource, held

browserVars == <<attempt, made, browsers, pending, starting, worker, stopping>>
proxyVars == <<closed, exhausted, received, charged, client, wired, upstream, sock, tracked, user,
               chunks>>
sessionVars == <<sessions, issued, parent, jar, access, fresh, inFlight, calls, token, net, lost,
                 logouts>>
admissionVars == <<site, scan, clone, capture, userLock, siteLock, urlLock, req>>
resourceVars == <<managed, pc, late, resource, held>>
all == <<part, vars, browserVars, proxyVars, sessionVars, admissionVars, resourceVars>>

\* Two login browsers of a clone, one after the other.
Browser == INSTANCE BrowserSession WITH
  Clones <- {c1}, Owners <- {o1}, OwnerOf <- (c1 :> o1), Workers <- {w1},
  MaxSessions <- 1, MaxStarts <- 2, sessions <- browsers

\* A plain request and a tunnel of one proxy, a plain request of another.
Proxy == INSTANCE SafeProxy WITH
  Proxies <- {proxyP, proxyQ}, Requests <- {r1, r2, r3}, Sockets <- {s1, s2, s3},
  ProxyOf <- (r1 :> proxyP) @@ (r2 :> proxyP) @@ (r3 :> proxyQ), Tunnels <- {r2}, MaxBytes <- 1, MaxChunks <- 2

\* Two calls of one tab; either tab may sign in.
Session == INSTANCE SessionRotation WITH
  Tabs <- {t1, t2}, Calls <- {k1, k2}, TabOf <- (k1 :> t1) @@ (k2 :> t1),
  MaxSessions <- 2, MaxCreds <- 3, MaxLogouts <- 0

\* Two requests of any kind.
Gate == INSTANCE Admission WITH
  Requests <- {r1, r2}, Sites <- {x1, x2}, Urls <- {u1}, Pages <- {p1}, Keys <- {key},
  Ops <- {"scan", "clone", "website", "archive", "capture"}, MaxActive <- 1

Resources == INSTANCE CaptureResources

-----------------------------------------------------------------------------

AllInit ==
  /\ part \in {"download", "browser", "proxy", "session", "admission", "resources"}
  /\ Init /\ Browser!BrowserInit /\ Proxy!Init /\ Session!Init
  /\ Gate!AdmissionInit
  /\ part # "download" => row = "NONE" /\ object = "intact"
  /\ part # "admission" => \A x \in {x1, x2} : site[x].status = "ABSENT"
  /\ \/ part = "resources" /\ Resources!Init
     \/ /\ part # "resources" /\ managed = FALSE /\ pc = "over" /\ late = TRUE
        /\ resource = [k \in Resources!Kinds |-> "none"] /\ held = {}

AllNext ==
  \/ /\ part = "download" /\ Next
     /\ UNCHANGED <<part, browserVars, proxyVars, sessionVars, admissionVars, resourceVars>>
  \/ /\ part = "browser" /\ Browser!BrowserNext
     /\ UNCHANGED <<part, vars, proxyVars, sessionVars, admissionVars, resourceVars>>
  \/ /\ part = "proxy" /\ Proxy!Next
     /\ UNCHANGED <<part, vars, browserVars, sessionVars, admissionVars, resourceVars>>
  \/ /\ part = "session" /\ Session!Next
     /\ UNCHANGED <<part, vars, browserVars, proxyVars, admissionVars, resourceVars>>
  \/ /\ part = "admission" /\ Gate!AdmissionNext
     /\ UNCHANGED <<part, vars, browserVars, proxyVars, sessionVars, resourceVars>>
  \/ /\ part = "resources" /\ Resources!Next
     /\ UNCHANGED <<part, vars, browserVars, proxyVars, sessionVars, admissionVars>>

AllSpec == AllInit /\ [][AllNext]_all

\* The fairness of every part, which asks nothing of a part that rests.
FairAllSpec ==
  /\ AllSpec
  /\ Fairness /\ Browser!BrowserFairness /\ Proxy!Fairness /\ Session!Fairness /\ Gate!AdmissionFairness
  /\ Resources!Fairness

-----------------------------------------------------------------------------

\* Whatever is asked is answered: download slots return, every call that apiRequest
\* sent is answered or fails, and so is every request the Control Plane's
\* transactions began.
RequestsAnswered == SlotsReturn /\ Session!CallsEnd /\ Gate!RequestsEnd

\* Whatever is opened is closed, and nothing else: every login browser that
\* startSession launched, a closed proxy's clients and connections, and a capture's
\* own browser and page, also one whose launch capturePage abandoned at the
\* deadline; but never the context a managed session lent it.
ResourcesReturned ==
  /\ Browser!BrowsersClose /\ Proxy!ClosingEnds
  /\ Resources!BrowserReturned /\ Resources!PageReturned /\ Resources!SessionSurvives
=============================================================================
