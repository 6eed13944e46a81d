--------------------------- MODULE BrowserSession ---------------------------
(***************************************************************************)
(* The managed login browsers of the capture worker                       *)
(* (capture-worker/src/browser-session.ts), as the HTTP server, the page   *)
(* renderer, the cancellation loop and the process's shutdown use them.    *)
(*                                                                         *)
(* A start is a chain of awaits - launch, open a page, navigate - that any *)
(* other call may interleave with; a session is registered before it has   *)
(* navigated.  An attempt is one run of startSession together with the     *)
(* session it makes: its browser (which stands for the browser, its        *)
(* context and its proxy), its timer and its expiry.  Time is abstracted   *)
(* to the one event that matters: the session's ten minutes are over.      *)
(***************************************************************************)
EXTENDS Naturals, FiniteSets

CONSTANTS
    Clones,        \* site clone ids
    Owners,        \* owner ids
    OwnerOf,       \* the owner of each clone's job
    Workers,       \* page workers that may wait for a session
    MaxSessions,   \* MAX_SESSIONS
    MaxStarts      \* bound: attempts that get past startSession's checks

\* A job's clone has an owner, and there are finitely many of them.
ASSUME ClonesAssumption == IsFiniteSet(Clones) /\ Clones # {} /\ OwnerOf \in [Clones -> Owners]
ASSUME BrowserLimits == MaxSessions \in Nat /\ MaxStarts \in Nat

Attempts == 1 .. MaxStarts
NoAttempt == 0

VARIABLES
    attempt,    \* the attempts, in the order they were made
    made,       \* how many were made
    sessions,   \* the sessions map: clone -> attempt, or NoAttempt
    pending,    \* the pendingStarts map: clone -> attempt, or NoAttempt
    starting,   \* the counter of starts under way
    worker,     \* what each page worker does about a session
    stopping    \* shutdown has begun

browserVars == <<attempt, made, sessions, pending, starting, worker, stopping>>

StartSteps == {"none", "launching", "launched", "navigating",
               "unwinding", "unwound", "over"}

\* A page worker renders in a session's context, or in a browser of its own.
Worker == [step : {"idle", "waiting", "rendering"}, clone : Clones,
           on : Attempts \cup {NoAttempt}]

Blank(c) == [step |-> "none", clone |-> c, owner |-> OwnerOf[c], ready |-> FALSE,
             browser |-> "none", page |-> FALSE, armed |-> FALSE,
             due |-> FALSE, closing |-> FALSE]

BrowserInit ==
    /\ attempt = [a \in Attempts |-> Blank(CHOOSE c \in Clones : TRUE)]
    /\ made = 0
    /\ sessions = [c \in Clones |-> NoAttempt]
    /\ pending = [c \in Clones |-> NoAttempt]
    /\ starting = 0
    /\ worker = [w \in Workers |-> [step |-> "idle", on |-> NoAttempt,
                                    clone |-> CHOOSE c \in Clones : TRUE]]
    /\ stopping = FALSE

Open == {c \in Clones : sessions[c] # NoAttempt}

\* owned(): the session of a clone as its owner sees it.  A dead one is closed
\* on the way, which the callers do by Torn, Freed and Released below.
Seen(o, c) == sessions[c] # NoAttempt /\ attempt[sessions[c]].owner = o
Dead(a) == attempt[a].due \/ attempt[a].browser # "up" \/ ~attempt[a].page
Owned(o, c) == Seen(o, c) /\ ~Dead(sessions[c])
Stale(o, c) == Seen(o, c) /\ Dead(sessions[c])

-----------------------------------------------------------------------------
(* closeById: the entry goes, the timer is cleared and the waiters get null *)
(* at once; the browser is closed afterwards, in an await of its own.       *)

Torn(S) == [a \in Attempts |->
    IF \E c \in S : sessions[c] = a
    THEN [attempt[a] EXCEPT !.armed = FALSE, !.closing = TRUE] ELSE attempt[a]]
Freed(S) == [c \in Clones |-> IF c \in S THEN NoAttempt ELSE sessions[c]]

Released(S) == [w \in Workers |->
    IF worker[w].step = "waiting" /\ \E c \in S : sessions[c] = worker[w].on
    THEN [worker[w] EXCEPT !.step = "idle", !.on = NoAttempt] ELSE worker[w]]

CloseById(S) ==
    /\ attempt' = Torn(S)
    /\ sessions' = Freed(S)
    /\ worker' = Released(S)

\* The browser's own close ends: its disconnected event finds no entry.
FinishClose(a) ==
    /\ attempt[a].closing /\ attempt[a].browser = "up"
    /\ attempt' = [attempt EXCEPT ![a].browser = "down", ![a].page = FALSE]
    /\ UNCHANGED <<made, sessions, pending, starting, worker, stopping>>

-----------------------------------------------------------------------------
(* start() and the chain of awaits of startSession().                       *)

\* The synchronous part.  A pending start is joined, a live session returned
\* and another owner's refused, all without a change; a dead session of the
\* caller is closed, and then the capacity decides.
Start(o, c) ==
    LET closed == IF Stale(o, c) THEN {c} ELSE {}
        fits == Cardinality(Open \ closed) + starting < MaxSessions
        n == made + 1
    IN  /\ ~stopping /\ n \in Attempts
        /\ pending[c] = NoAttempt /\ ~Owned(o, c)
        /\ closed # {} \/ (fits /\ sessions[c] = NoAttempt)
        /\ sessions' = Freed(closed)
        /\ worker' = Released(closed)
        /\ IF fits
           THEN /\ made' = n
                /\ attempt' = [Torn(closed) EXCEPT ![n] =
                        [Blank(c) EXCEPT !.owner = o, !.step = "launching"]]
                /\ pending' = [pending EXCEPT ![c] = n]
                /\ starting' = starting + 1
           ELSE /\ attempt' = Torn(closed)
                /\ UNCHANGED <<made, pending, starting>>
        /\ UNCHANGED stopping

Launch(a) ==
    /\ attempt[a].step = "launching"
    /\ attempt' = [attempt EXCEPT ![a].step = "launched", ![a].browser = "up"]
    /\ UNCHANGED <<made, sessions, pending, starting, worker, stopping>>

\* The page is open: the timer is armed and the session registered.
Register(a) ==
    /\ attempt[a].step = "launched" /\ attempt[a].browser = "up"
    /\ attempt' = [attempt EXCEPT ![a].step = "navigating", ![a].page = TRUE,
                                  ![a].armed = TRUE]
    /\ sessions' = [sessions EXCEPT ![attempt[a].clone] = a]
    /\ UNCHANGED <<made, pending, starting, worker, stopping>>

\* The start resolves, even when the session was closed under it.
Navigated(a) ==
    /\ attempt[a].step = "navigating"
    /\ attempt[a].browser = "up" /\ attempt[a].page
    /\ attempt' = [attempt EXCEPT ![a].step = "over"]
    /\ starting' = starting - 1
    /\ pending' = [pending EXCEPT ![attempt[a].clone] = NoAttempt]
    /\ UNCHANGED <<made, sessions, worker, stopping>>

\* A rejected await: the URL is not public, the launch or the page fails, the
\* page is still blank after the navigation, or the session's pages are gone.
StartFails(a) ==
    /\ attempt[a].step \in {"launching", "launched", "navigating"}
    /\ attempt' = [attempt EXCEPT ![a].step = "unwinding", ![a].page = FALSE]
    /\ UNCHANGED <<made, sessions, pending, starting, worker, stopping>>

\* For mutation only: the disconnected event does not close the session of a
\* failing start.
UnwindBrowserDeaf(a) ==
    /\ attempt[a].step = "unwinding"
    /\ attempt' = [attempt EXCEPT ![a].step = "unwound", ![a].browser = "down"]
    /\ UNCHANGED <<made, sessions, pending, starting, worker, stopping>>

\* The catch block closes the browser; a registered session's disconnected
\* event then closes the session, timer and waiters included.
UnwindBrowser(a) ==
    /\ attempt[a].step = "unwinding"
    /\ LET S == {c \in Clones : sessions[c] = a}
       IN  /\ attempt' = [Torn(S) EXCEPT ![a].step = "unwound",
                                         ![a].browser = "down"]
           /\ sessions' = Freed(S)
           /\ worker' = Released(S)
    /\ UNCHANGED <<made, pending, starting, stopping>>

\* ... and its last line and the finally blocks.
UnwindEnd(a) ==
    /\ attempt[a].step = "unwound"
    /\ attempt' = [attempt EXCEPT ![a].step = "over"]
    /\ sessions' = [sessions EXCEPT ![attempt[a].clone] = NoAttempt]
    /\ pending' = [pending EXCEPT ![attempt[a].clone] = NoAttempt]
    /\ starting' = starting - 1
    /\ UNCHANGED <<made, worker, stopping>>

-----------------------------------------------------------------------------
(* The owner's requests, each through owned().                              *)

\* status, screenshot and act change nothing but the session they find dead.
Look(o, c) ==
    /\ ~stopping /\ Stale(o, c)
    /\ CloseById({c})
    /\ UNCHANGED <<made, pending, starting, stopping>>

\* ready(): the user has logged in; the waiting workers get the handle.
Ready(o, c) ==
    LET a == sessions[c]
    IN  /\ ~stopping /\ Owned(o, c)
        /\ attempt' = [attempt EXCEPT ![a].ready = TRUE]
        /\ worker' = [w \in Workers |->
               IF worker[w].step = "waiting" /\ worker[w].on = a
               THEN [worker[w] EXCEPT !.step = "rendering"] ELSE worker[w]]
        /\ UNCHANGED <<made, sessions, pending, starting, stopping>>

\* close(): by the owner, after publication, or for a cancelled job.
CloseSession(o, c) ==
    /\ Seen(o, c)
    /\ CloseById({c})
    /\ UNCHANGED <<made, pending, starting, stopping>>

\* shutdown(): closeAll, with no request or page claimed after it.
Shutdown ==
    /\ ~stopping /\ stopping' = TRUE
    /\ CloseById(Open)
    /\ UNCHANGED <<made, pending, starting>>

-----------------------------------------------------------------------------
(* A page worker before it renders a page of clone c.                       *)

\* No session of the clone is known: the page is rendered without one.
RenderAnonymous(w, c) ==
    /\ ~stopping /\ worker[w].step = "idle" /\ ~Owned(OwnerOf[c], c)
    /\ LET S == IF Stale(OwnerOf[c], c) THEN {c} ELSE {}
       IN  /\ attempt' = Torn(S)
           /\ sessions' = Freed(S)
           /\ worker' = [Released(S) EXCEPT ![w] =
                  [step |-> "rendering", clone |-> c, on |-> NoAttempt]]
    /\ UNCHANGED <<made, pending, starting, stopping>>

\* waitForReady(): at once when the user is done, else as one more waiter.
AwaitSession(w, c) ==
    LET a == sessions[c]
    IN  /\ ~stopping /\ worker[w].step = "idle" /\ Owned(OwnerOf[c], c)
        /\ worker' = [worker EXCEPT ![w] =
               [step |-> IF attempt[a].ready THEN "rendering" ELSE "waiting",
                clone |-> c, on |-> a]]
        /\ UNCHANGED <<attempt, made, sessions, pending, starting, stopping>>

\* The waiter's own timer, set for the rest of the session's time; the page's
\* attempt fails with BROWSER_SESSION_NOT_READY.
WaiterTimesOut(w) ==
    /\ worker[w].step = "waiting" /\ attempt[worker[w].on].due
    /\ worker' = [worker EXCEPT ![w].step = "idle", ![w].on = NoAttempt]
    /\ UNCHANGED <<attempt, made, sessions, pending, starting, stopping>>

RenderEnds(w) ==
    /\ worker[w].step = "rendering"
    /\ worker' = [worker EXCEPT ![w].step = "idle", ![w].on = NoAttempt]
    /\ UNCHANGED <<attempt, made, sessions, pending, starting, stopping>>

-----------------------------------------------------------------------------
(* The browser and the clock.                                               *)

\* Ten minutes have passed since the session was registered.
Elapse(a) ==
    /\ attempt[a].armed /\ ~attempt[a].due
    /\ attempt' = [attempt EXCEPT ![a].due = TRUE]
    /\ UNCHANGED <<made, sessions, pending, starting, worker, stopping>>

\* The session's timer closes whatever session the clone has by then.
Timer(a) ==
    /\ attempt[a].armed /\ attempt[a].due
    /\ LET S == {attempt[a].clone} \cap Open
       IN  /\ attempt' = [Torn(S) EXCEPT ![a].armed = FALSE]
           /\ sessions' = Freed(S)
           /\ worker' = Released(S)
    /\ UNCHANGED <<made, pending, starting, stopping>>

\* The browser dies; the handler is there only once the session is registered.
Disconnect(a) ==
    /\ attempt[a].browser = "up"
    /\ LET S == {c \in Clones : sessions[c] = a}
       IN  /\ attempt' = [Torn(S) EXCEPT ![a].browser = "down", ![a].page = FALSE]
           /\ sessions' = Freed(S)
           /\ worker' = Released(S)
    /\ UNCHANGED <<made, pending, starting, stopping>>

\* The site closes its last page; only owned() notices.
PageGone(a) ==
    /\ attempt[a].page
    /\ attempt' = [attempt EXCEPT ![a].page = FALSE]
    /\ UNCHANGED <<made, sessions, pending, starting, worker, stopping>>

-----------------------------------------------------------------------------

\* The server's routes, and the workers' calls of close() for a clone's owner.
Request(o, c) == Start(o, c) \/ Look(o, c) \/ Ready(o, c) \/ CloseSession(o, c)

BrowserNext ==
    \/ \E o \in Owners, c \in Clones : Request(o, c)
    \/ \E a \in Attempts : \/ Launch(a) \/ Register(a) \/ Navigated(a)
                           \/ StartFails(a) \/ UnwindBrowser(a) \/ UnwindEnd(a)
                           \/ FinishClose(a) \/ Elapse(a) \/ Timer(a)
                           \/ Disconnect(a) \/ PageGone(a)
    \/ \E w \in Workers : \/ \E c \in Clones : \/ RenderAnonymous(w, c)
                                               \/ AwaitSession(w, c)
                          \/ WaiterTimesOut(w) \/ RenderEnds(w)
    \/ Shutdown

BrowserSpec == BrowserInit /\ [][BrowserNext]_browserVars

\* Time passes, timers fire, a browser call resolves or rejects, a close ends.
BrowserFairness ==
    \A a \in Attempts :
        /\ WF_browserVars(Launch(a) \/ Register(a) \/ Navigated(a) \/ StartFails(a))
        /\ WF_browserVars(UnwindBrowser(a) \/ UnwindEnd(a))
        /\ WF_browserVars(FinishClose(a))
        /\ WF_browserVars(Elapse(a) \/ Timer(a))

BrowserFairSpec == BrowserSpec /\ BrowserFairness

-----------------------------------------------------------------------------

\* Every variable has its type; only the clones' own attempts are registered.
BrowserTypes ==
    /\ attempt \in [Attempts -> [step : StartSteps, clone : Clones,
           owner : Owners, ready : BOOLEAN, browser : {"none", "up", "down"},
           page : BOOLEAN, armed : BOOLEAN, due : BOOLEAN, closing : BOOLEAN]]
    /\ made \in 0 .. MaxStarts
    /\ sessions \in [Clones -> 0 .. MaxStarts]
    /\ pending \in [Clones -> 0 .. MaxStarts]
    /\ starting \in Nat
    /\ worker \in [Workers -> Worker]
    /\ stopping \in BOOLEAN

UnderWay(a) == attempt[a].step \notin {"none", "over"}

\* The process never has more than MAX_SESSIONS clones with a session or a
\* start of one, although a session being started is counted in both places
\* and one closed while it navigates in only one.
CapacityHeld ==
    /\ Cardinality(Open \cup {c \in Clones : pending[c] # NoAttempt}) <= MaxSessions
    /\ starting = Cardinality({a \in Attempts : UnderWay(a)})

\* An armed timer is that of the session now registered: the timer of a start
\* that failed, or of a session closed early, never ends a later session of the
\* same clone, although timers name the clone and not the session.
TimersAreOwn ==
    \A a \in Attempts : attempt[a].armed => sessions[attempt[a].clone] = a

\* While an attempt is under way no other attempt of the clone is registered,
\* so the failure path's deletion by clone id removes its own session only.
UnwindsItself ==
    \A a \in Attempts : UnderWay(a) =>
        /\ pending[attempt[a].clone] = a
        /\ sessions[attempt[a].clone] \in {NoAttempt, a}

\* A worker waits only for a registered session that the user has not finished
\* with: one that a confirmation, a close or its timer will release.
NoWaiterStranded ==
    \A w \in Workers : worker[w].step = "waiting" =>
        /\ sessions[worker[w].clone] = worker[w].on
        /\ ~attempt[worker[w].on].ready

\* A worker renders in a session only if its owner confirmed the login, and
\* the session is that of the clone it renders.
RendersConfirmed ==
    \A w \in Workers : (worker[w].step = "rendering" /\ worker[w].on # NoAttempt) =>
        /\ attempt[worker[w].on].ready
        /\ attempt[worker[w].on].clone = worker[w].clone
        /\ attempt[worker[w].on].owner = OwnerOf[worker[w].clone]

\* The login browsers' books: never more than MAX_SESSIONS clones with a session or
\* a start of one; an armed expiry timer is that of the session now registered; a
\* failing startSession finds no other attempt's session to remove; a page worker
\* waits only for a session that something will release, and renders only in one
\* that the owner of its own clone confirmed (browser-session.ts).
BrowsersConsistent ==
    /\ BrowserTypes /\ CapacityHeld /\ TimersAreOwn /\ UnwindsItself
    /\ NoWaiterStranded /\ RendersConfirmed

\* Every login browser that was launched is closed in the end, whichever way
\* its start or its session ended.
BrowsersClose ==
    \A a \in Attempts : (attempt[a].browser = "up") ~> (attempt[a].browser = "down")

=============================================================================
