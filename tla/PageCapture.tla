---------------------------- MODULE PageCapture ----------------------------
(***************************************************************************)
(* What capturePage (capture-worker/src/capture.ts) records of a page's    *)
(* requests: the network log, the response bodies and the inputs of the    *)
(* static clone.  The browser's events arrive at any time, also while the  *)
(* bodies are collected one by one, each behind an await with a deadline.  *)
(* A capture that succeeds must account for every request it tracked, once.*)
(***************************************************************************)
EXTENDS Integers, FiniteSets, SequencesExt

CONSTANTS
    PageRequests,        \* the requests the page may make
    Hops,                \* those among them that a redirect may make
    BodyTyped,           \* those whose resource type may have a body
    Sizes,               \* lengths a response may announce, or a body have
    PageSizes,           \* bytes of HTML and screenshot
    MaxNetworkRequests, MaxResourceBodies, MaxResourceBytes, MaxTotalBytes

\* The limits are positive, and lengths are numbers.
ASSUME PageAssumption ==
    /\ MaxNetworkRequests \in Nat \ {0} /\ MaxResourceBodies \in Nat
    /\ MaxResourceBytes \in Nat \ {0} /\ MaxTotalBytes \in Nat \ {0}
    /\ Sizes \subseteq Nat /\ PageSizes \subseteq Nat

VARIABLES
    request,      \* the browser's view of each request
    admitted,     \* admittedRequests; past the budget it stays there
    started,      \* requestStarted: the tracked requests, in order
    network,      \* the network log
    candidates,   \* responses whose bodies may be read, in order of arrival
    failedInputs, \* failedCloneInputs
    transfer,     \* totalTransferBytes
    progress,
    todo,         \* the copy of candidates still to collect
    remaining,    \* byte budget left for bodies
    inputs,       \* cloneInputs
    early,        \* history: the requests made before the HTML was taken
    hopped        \* history: a redirect has made a request

captureVars == <<request, admitted, started, network, candidates, failedInputs,
          transfer, progress, todo, remaining, inputs, early, hopped>>
events == <<request, admitted, started, network, candidates, failedInputs,
            transfer, early, hopped>>

Stages == {"loading", "collecting", "checking", "captured", "thrown"}
Running == progress \in {"loading", "collecting", "checking"}
Settled(r) == request[r] \in {"finished", "failed"}

CaptureInit ==
    /\ request = [r \in PageRequests |-> "none"]
    /\ admitted = 0 /\ transfer = 0 /\ remaining = 0
    /\ started = <<>> /\ network = <<>> /\ candidates = <<>>
    /\ failedInputs = <<>> /\ todo = <<>> /\ inputs = <<>>
    /\ progress = "loading"
    /\ early = {} /\ hopped = FALSE

Tracked(r) == r \in Range(started)
Logged(r) == \E i \in DOMAIN network : network[i].of = r
Candidate(r) == \E i \in DOMAIN candidates : candidates[i].of = r
Input(r, size, truncated, reason) ==
    [of |-> r, size |-> size, truncated |-> truncated, skip |-> reason]

-----------------------------------------------------------------------------
(* The page's event handlers.                                               *)

\* The route handler counts a request that no redirect made and aborts it
\* past the budget; the request event tracks it while there is room.  The
\* browser reports the two together.
RequestEvent(r, hop) ==
    /\ Running /\ request[r] = "none"
    /\ hop => r \in Hops /\ \E q \in PageRequests : request[q] = "finished"
    /\ request' = [request EXCEPT ![r] = "pending"]
    /\ admitted' = IF hop \/ admitted > MaxNetworkRequests
                   THEN admitted ELSE admitted + 1
    /\ hopped' = (hopped \/ hop)
    /\ started' = IF Len(started) >= MaxNetworkRequests
                  THEN started ELSE Append(started, r)
    /\ early' = IF progress = "loading" THEN early \cup {r} ELSE early
    /\ UNCHANGED <<network, candidates, failedInputs, transfer, progress, todo,
                   remaining, inputs>>

BodyCount == Cardinality({i \in DOMAIN candidates : candidates[i].captureBody})

\* The response event of a tracked request, with or without a usable status.
Response(r, length, bad) ==
    /\ Running /\ request[r] = "pending"
    /\ request' = [request EXCEPT ![r] = "responded"]
    /\ IF Tracked(r) /\ Len(network) < MaxNetworkRequests
       THEN /\ network' = Append(network, [of |-> r, failed |-> FALSE])
            /\ transfer' = transfer + length
            /\ candidates' =
                 IF r \in BodyTyped /\ Len(candidates) < MaxNetworkRequests
                 THEN Append(candidates,
                        [of |-> r, skip |-> IF bad THEN "HTTP_FAILURE" ELSE "",
                         captureBody |-> ~bad /\ BodyCount < MaxResourceBodies])
                 ELSE candidates
       ELSE UNCHANGED <<network, transfer, candidates>>
    /\ UNCHANGED <<admitted, started, failedInputs, progress, todo, remaining,
                   inputs, early, hopped>>

RequestFinished(r) ==
    /\ Running /\ request[r] = "responded"
    /\ request' = [request EXCEPT ![r] = "finished"]
    /\ UNCHANGED <<admitted, started, network, candidates, failedInputs,
                   transfer, progress, todo, remaining, inputs, early, hopped>>

\* A request fails before or after its response.
RequestFailed(r) ==
    /\ Running /\ request[r] \in {"pending", "responded"}
    /\ request' = [request EXCEPT ![r] = "failed"]
    /\ IF ~Tracked(r)
       THEN UNCHANGED <<network, candidates, failedInputs, todo>>
       ELSE LET marked(s) == [i \in DOMAIN s |-> IF s[i].of = r
                                THEN [s[i] EXCEPT !.skip = "REQUEST_FAILED"]
                                ELSE s[i]]
            IN  /\ candidates' = marked(candidates)
                /\ todo' = marked(todo)     \* the copy shares its elements
                /\ network' =
                     IF Logged(r)
                     THEN [i \in DOMAIN network |->
                             IF network[i].of = r
                             THEN [network[i] EXCEPT !.failed = TRUE]
                             ELSE network[i]]
                     ELSE IF Len(network) < MaxNetworkRequests
                     THEN Append(network, [of |-> r, failed |-> TRUE])
                     ELSE network
                /\ failedInputs' =
                     IF ~Candidate(r) /\ r \in BodyTyped
                        /\ Len(failedInputs) < MaxNetworkRequests
                     THEN Append(failedInputs, r) ELSE failedInputs
    /\ UNCHANGED <<admitted, started, transfer, progress, remaining, inputs, early,
                   hopped>>

-----------------------------------------------------------------------------
(* The capture itself.                                                      *)

\* Navigation, settling, the deadline or an evaluation fails.
Throw ==
    /\ Running /\ progress' = "thrown"
    /\ UNCHANGED <<todo, remaining, inputs, events>>

\* The HTML and the screenshot are taken; the bodies get what is left.
Snapshot(bytes) ==
    /\ progress = "loading"
    /\ IF bytes > MaxTotalBytes
       THEN progress' = "thrown" /\ UNCHANGED <<todo, remaining>>
       ELSE /\ progress' = "collecting"
            /\ todo' = candidates
            /\ remaining' = MaxTotalBytes - bytes
    /\ UNCHANGED <<inputs, events>>

Collected(input) ==
    /\ inputs' = Append(inputs, input)
    /\ todo' = Tail(todo)

\* The next candidate needs no wait.
SkipCandidate ==
    /\ progress = "collecting" /\ todo # <<>>
    /\ LET c == Head(todo)
       IN  /\ c.skip # "" \/ ~c.captureBody \/ remaining <= 0
           /\ Collected(Input(c.of, 0, FALSE,
                IF c.skip # "" THEN c.skip
                ELSE IF ~c.captureBody THEN "RESOURCE_BODY_COUNT_LIMIT"
                ELSE "CAPTURE_BYTE_BUDGET_EXCEEDED"))
    /\ UNCHANGED <<progress, remaining, events>>

Waits == /\ progress = "collecting" /\ todo # <<>>
         /\ Head(todo).skip = "" /\ Head(todo).captureBody /\ remaining > 0

\* The bytes of a body that are kept.
Allowed(size) == CHOOSE n \in {size, MaxResourceBytes, remaining} :
                     n <= size /\ n <= MaxResourceBytes /\ n <= remaining

\* The body is there; it is cut to what its own and the total limit allow.
TakeBody(size) ==
    /\ Waits /\ request[Head(todo).of] = "finished"
    /\ Collected(IF size = 0
                 THEN Input(Head(todo).of, 0, FALSE, "EMPTY_BODY")
                 ELSE Input(Head(todo).of, Allowed(size), size > Allowed(size), ""))
    /\ remaining' = remaining - Allowed(size)
    /\ UNCHANGED <<progress, events>>

\* The wait ends without a body.  A failure during the wait marks the
\* candidate and is SkipCandidate's.
NoBody(reason) ==
    /\ Waits
    /\ Collected(Input(Head(todo).of, 0, FALSE, reason))
    /\ UNCHANGED <<progress, remaining, events>>

\* The budgets are checked once the bodies are in, before one more await.
CheckBudgets ==
    /\ progress = "collecting" /\ todo = <<>>
    /\ progress' = IF admitted > MaxNetworkRequests \/ transfer > MaxTotalBytes
                THEN "thrown" ELSE "checking"
    /\ UNCHANGED <<todo, remaining, inputs, events>>

Known == {inputs[i].of : i \in DOMAIN inputs} \cup Range(failedInputs)

\* For mutation only: only candidates that were still waiting when the
\* collection began are added.
MissingPending ==
    SetToSeq({r \in Range(started) : r \in BodyTyped \ Known /\ ~Settled(r)})

\* The tracked requests that neither a candidate nor a failure accounts for, one
\* after the other; nothing depends on which comes first.
Missing == SetToSeq({r \in Range(started) : r \in BodyTyped \ Known})

\* The clone's inputs are put together; the page goes on, unobserved.
Assemble ==
    /\ progress = "checking" /\ progress' = "captured"
    /\ inputs' = inputs
         \o [i \in DOMAIN failedInputs |->
                Input(failedInputs[i], 0, FALSE, "REQUEST_FAILED")]
         \o [i \in DOMAIN Missing |->
                Input(Missing[i], 0, FALSE,
                      IF Settled(Missing[i]) THEN "BODY_UNAVAILABLE" ELSE "RESOURCE_TIMEOUT")]
    /\ UNCHANGED <<todo, remaining, events>>

CaptureNext ==
    \/ \E r \in PageRequests :
          \/ \E hop \in BOOLEAN : RequestEvent(r, hop)
          \/ RequestFinished(r) \/ RequestFailed(r)
          \/ \E length \in Sizes, bad \in BOOLEAN : Response(r, length, bad)
    \/ \E bytes \in PageSizes : Snapshot(bytes)
    \/ \E size \in Sizes : TakeBody(size)
    \/ \E reason \in {"RESOURCE_TIMEOUT", "BODY_UNAVAILABLE"} : NoBody(reason)
    \/ SkipCandidate \/ CheckBudgets \/ Assemble \/ Throw

CaptureSpec == CaptureInit /\ [][CaptureNext]_captureVars

-----------------------------------------------------------------------------

Reasons == {"", "HTTP_FAILURE", "REQUEST_FAILED", "RESOURCE_BODY_COUNT_LIMIT",
            "CAPTURE_BYTE_BUDGET_EXCEEDED", "RESOURCE_TIMEOUT",
            "BODY_UNAVAILABLE", "EMPTY_BODY"}

\* Types, and the log never outgrows its budget.
CaptureTypes ==
    /\ request \in [PageRequests -> {"none", "pending", "responded", "finished", "failed"}]
    /\ admitted \in 0 .. MaxNetworkRequests + 1
    /\ started \in Seq(PageRequests) /\ failedInputs \in Seq(PageRequests)
    /\ network \in Seq([of : PageRequests, failed : BOOLEAN])
    /\ Len(network) <= MaxNetworkRequests
    /\ candidates \in Seq([of : PageRequests, skip : Reasons, captureBody : BOOLEAN])
    /\ todo \in Seq([of : PageRequests, skip : Reasons, captureBody : BOOLEAN])
    /\ transfer \in Nat /\ remaining \in Int
    /\ progress \in Stages
    /\ inputs \in Seq([of : PageRequests, size : Nat, truncated : BOOLEAN, skip : Reasons])
    /\ early \subseteq PageRequests /\ hopped \in BOOLEAN

\* The bytes of the bodies among the inputs s.
Total(s) ==
    LET upTo[n \in 0 .. Len(s)] == IF n = 0 THEN 0 ELSE upTo[n - 1] + s[n].size
    IN  upTo[Len(s)]

\* Every tracked request that may have a body is an input of the clone exactly
\* once, and nothing else is, although responses and failures arrive while the
\* bodies are collected, before or after the collection took its copy.
InputsExactlyOnce ==
    progress = "captured" =>
        /\ {inputs[i].of : i \in DOMAIN inputs} = Range(started) \cap BodyTyped
        /\ Len(inputs) = Cardinality({inputs[i].of : i \in DOMAIN inputs})

\* A request made before the HTML was taken is an input, body or gap, of every
\* capture that succeeds, unless a redirect made one: past the limit of what is
\* tracked the capture fails, but the limit does not count what redirects make.
GapsRecorded ==
    progress = "captured" /\ ~hopped => early \cap BodyTyped \subseteq {inputs[i].of : i \in DOMAIN inputs}

\* The bodies kept stay within the count and the byte budgets.
BodiesWithinBudget ==
    /\ remaining >= 0 /\ Total(inputs) + remaining <= MaxTotalBytes
    /\ Cardinality({i \in DOMAIN inputs : inputs[i].size > 0}) <= MaxResourceBodies
    /\ \A i \in DOMAIN inputs : inputs[i].size <= MaxResourceBytes

\* A kept body is that of a request that finished; an input has a body or a
\* reason, never both and never neither.
BodiesAreWhole ==
    \A i \in DOMAIN inputs :
        /\ (inputs[i].size > 0) <=> (inputs[i].skip = "")
        /\ inputs[i].size > 0 => request[inputs[i].of] = "finished"

\* The network log has one record of each tracked request that was answered or
\* failed, and the record says which.
LogAccurate ==
    /\ \A i, j \in DOMAIN network : network[i].of = network[j].of => i = j
    /\ \A r \in PageRequests : Tracked(r) =>
          (Logged(r) <=> request[r] \in {"responded", "finished", "failed"})
    /\ \A i \in DOMAIN network :
          network[i].failed <=> request[network[i].of] = "failed"

\* Every tracked request that may have a body is an input of the clone exactly
\* once, as a body that is whole or as a gap, within the budgets, although answers
\* and failures arrive while capturePage collects bodies; the network log says
\* which were answered. Only a redirect's requests may be left out unrecorded.
CaptureAccounts ==
    /\ CaptureTypes /\ InputsExactlyOnce /\ GapsRecorded
    /\ BodiesWithinBudget /\ BodiesAreWhole /\ LogAccurate
=============================================================================
