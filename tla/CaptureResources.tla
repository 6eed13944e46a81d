-------------------------- MODULE CaptureResources --------------------------
(***************************************************************************)
(* What a capture acquires and gives back (capturePage of                  *)
(* capture-worker/src/capture.ts): a proxy, a browser, a context and a     *)
(* page, each behind an await that withinDeadline abandons when the time   *)
(* is up, while the abandoned call still goes on and may still succeed.    *)
(* In a managed session the context is the session's, not the capture's.   *)
(***************************************************************************)
EXTENDS Naturals

VARIABLES
    managed,    \* the capture was given a session's context
    pc,         \* where capturePage is
    late,       \* the deadline has passed
    resource,   \* the state of each of the four
    held        \* those capturePage has a variable for

vars == <<managed, pc, late, resource, held>>

Kinds == {"proxy", "browser", "context", "page"}
States == {"none", "opening", "open", "closing", "closed"}
Steps == {"proxy", "browser", "context", "page", "work",
          "closePage", "closeContext", "closeBrowser", "closeProxy", "over"}

\* The next thing to acquire, and the next to give back.
After == [proxy |-> "browser", browser |-> "context", context |-> "page",
          page |-> "work"]
Closing == [closePage |-> "page", closeContext |-> "context",
            closeBrowser |-> "browser", closeProxy |-> "proxy"]
AfterClose == [closePage |-> "closeContext", closeContext |-> "closeBrowser",
               closeBrowser |-> "closeProxy", closeProxy |-> "over"]

Init ==
    /\ managed \in BOOLEAN
    /\ pc = IF managed THEN "page" ELSE "proxy"
    /\ late = FALSE
    /\ resource = [k \in Kinds |->
           IF managed /\ k \in {"browser", "context"} THEN "open" ELSE "none"]
    /\ held = {}

\* A rejection inside the try block leads to the finally block; the proxy is
\* started before it.
Rejected == IF pc = "proxy" THEN "over" ELSE "closePage"

DeadlinePasses == ~late /\ late' = TRUE /\ UNCHANGED <<managed, pc, resource, held>>

\* The call is made.
Open(k) ==
    /\ pc = k /\ resource[k] = "none"
    /\ resource' = [resource EXCEPT ![k] = "opening"]
    /\ UNCHANGED <<managed, pc, late, held>>

\* For mutation only: the launch is not looked at again once it was given up.
ArrivesLost(k) ==
    /\ resource[k] = "opening"
    /\ resource' = [resource EXCEPT ![k] = "open"]
    /\ IF pc = k
       THEN pc' = After[k] /\ held' = held \cup {k}
       ELSE UNCHANGED <<pc, held>>
    /\ UNCHANGED <<managed, late>>

\* The call succeeds.  A browser that comes too late is closed on arrival,
\* whether or not the launch is still awaited; a context or a page opened in
\* a browser that is gone fails instead.
Arrives(k) ==
    /\ resource[k] = "opening"
    /\ k \in {"context", "page"} => resource["browser"] = "open"
    /\ IF k = "browser" /\ late
       THEN /\ resource' = [resource EXCEPT ![k] = "closing"]
            /\ pc' = IF pc = k THEN Rejected ELSE pc
            /\ UNCHANGED held
       ELSE /\ resource' = [resource EXCEPT ![k] = "open"]
            /\ IF pc = k
               THEN pc' = After[k] /\ held' = held \cup {k}
               ELSE UNCHANGED <<pc, held>>
    /\ UNCHANGED <<managed, late>>

\* The call fails.
Fails(k) ==
    /\ resource[k] = "opening"
    /\ resource' = [resource EXCEPT ![k] = "closed"]
    /\ pc' = IF pc = k THEN Rejected ELSE pc
    /\ UNCHANGED <<managed, late, held>>

\* withinDeadline gives the call up, which it makes however late it is.
TimesOut(k) ==
    /\ pc = k /\ late /\ resource[k] = "opening"
    /\ pc' = Rejected
    /\ UNCHANGED <<managed, late, resource, held>>

\* The capture itself ends, one way or the other.
WorkEnds == pc = "work" /\ pc' = "closePage" /\ UNCHANGED <<managed, late, resource, held>>

\* One line of the finally block: the close is asked for even when the time
\* for the cleanup is over, and the next line follows when it is done or late.
GiveBack(s) ==
    /\ pc = s
    /\ LET k == Closing[s]
           owned == IF k = "proxy" THEN ~managed ELSE k \in held
       IN  resource' = IF owned /\ resource[k] = "open"
                       THEN [resource EXCEPT ![k] = "closing"] ELSE resource
    /\ pc' = AfterClose[s]
    /\ UNCHANGED <<managed, late, held>>

\* A close is done; a browser takes its contexts and pages with it.
Closed(k) ==
    /\ resource[k] = "closing"
    /\ resource' = [j \in Kinds |->
           IF j = k \/ (k = "browser" /\ j \in {"context", "page"}
                                      /\ resource[j] \in {"open", "closing"})
           THEN "closed" ELSE resource[j]]
    /\ UNCHANGED <<managed, pc, late, held>>

\* The session that lent its context ends.
SessionEnds ==
    /\ managed /\ resource["browser"] = "open"
    /\ resource' = [resource EXCEPT !["browser"] = "closing"]
    /\ UNCHANGED <<managed, pc, late, held>>

Next ==
    \/ DeadlinePasses \/ WorkEnds \/ SessionEnds
    \/ \E k \in Kinds : \/ Open(k) \/ Arrives(k) \/ Fails(k) \/ TimesOut(k)
                        \/ Closed(k)
    \/ \E s \in DOMAIN Closing : GiveBack(s)

Spec == Init /\ [][Next]_vars

\* Time passes, every call returns and every close ends; a managed session
\* need not end, nor an abandoned call succeed.
Fairness ==
    /\ WF_vars(DeadlinePasses) /\ WF_vars(WorkEnds)
    /\ \A k \in Kinds : /\ WF_vars(Open(k) \/ TimesOut(k))
                         /\ WF_vars(Arrives(k) \/ Fails(k))
                         /\ WF_vars(Closed(k))
    /\ \A s \in DOMAIN Closing : WF_vars(GiveBack(s))

FairSpec == Spec /\ Fairness

-----------------------------------------------------------------------------

\* Types; and nothing is held that was not opened.
TypeOK ==
    /\ managed \in BOOLEAN /\ late \in BOOLEAN
    /\ pc \in Steps
    /\ resource \in [Kinds -> States]
    /\ held \subseteq {k \in Kinds : resource[k] \notin {"none", "opening"}}

\* A capture never closes the context of the session that lent it: the user's
\* login serves the clone's other pages.
SessionSurvives ==
    [][managed /\ resource.context = "open" /\ ~Closed("browser")
           => resource.context' = "open"]_vars

Gone(k) == resource[k] \in {"none", "closed"}

\* A capture's own browser is gone in the end, even one whose launch was
\* abandoned at the deadline and succeeded afterwards.
BrowserReturned == (pc = "over" /\ ~managed) ~> Gone("browser")

\* So is its page, in a managed session too if the capture ever had it.
PageReturned == (pc = "over" /\ (~managed \/ "page" \in held)) ~> Gone("page")
=============================================================================
