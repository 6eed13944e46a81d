--------------------------- MODULE ArtifactServer ---------------------------
(***************************************************************************)
(* Downloads of one stored artifact from the capture worker's HTTP server  *)
(* (capture-worker/src/server.ts): a request takes one of MaxDownloads     *)
(* slots, looks its row up, copies the object to a temporary file, checks  *)
(* it and sends it.  The client may go at any time, the artifact expires   *)
(* and the collector (database.ts, site-database.ts) deletes the object.   *)
(***************************************************************************)
EXTENDS Integers, FiniteSets

CONSTANTS Requests, MaxDownloads

ASSUME RequestsAssumption == IsFiniteSet(Requests)
ASSUME MaxDownloadsAssumption == MaxDownloads \in Nat \ {0}

VARIABLES
    downloads,   \* the server's counter
    phase,       \* where each request's handler is
    open,        \* requests whose response is neither finished nor closed
    slot,        \* requests that counted and have not released
    temporary,   \* requests with a temporary file on disk
    status,      \* HTTP status that each request was answered with
    row,         \* the artifact's state
    expired,     \* whether delete_after has passed
    object       \* what is stored under its key

vars == <<downloads, phase, open, slot, temporary, status, row, expired, object>>
artifact == <<row, expired, object>>

Phases == {"new", "looking", "fetching", "sending", "done"}
Statuses == {0, 200, 404, 410, 503}

TypeOK ==
    /\ downloads \in 0 .. MaxDownloads
    /\ phase \in [Requests -> Phases]
    /\ open \subseteq Requests /\ slot \subseteq Requests /\ temporary \subseteq Requests
    /\ status \in [Requests -> Statuses]
    /\ row \in {"NONE", "STAGED", "PUBLISHED", "DELETE_PENDING", "DELETED"}
    /\ expired \in BOOLEAN
    /\ object \in {"intact", "damaged", "missing"}

Init ==
    /\ downloads = 0
    /\ phase = [r \in Requests |-> "new"]
    /\ open = {} /\ slot = {} /\ temporary = {}
    /\ status = [r \in Requests |-> 0]
    /\ row \in {"NONE", "STAGED"} /\ expired = FALSE /\ object \in {"intact", "damaged"}

-----------------------------------------------------------------------------
(* The request handler                                                      *)

\* For mutation only: the finish and the close event of one response both
\* release.
ReleaseTwice(r) ==
    /\ downloads' = IF downloads > 0 THEN downloads - 1 ELSE 0
    /\ slot' = slot \ {r}

\* release: once for each request that counted.
Release(r) ==
    /\ downloads' = IF r \in slot THEN downloads - 1 ELSE downloads
    /\ slot' = slot \ {r}

\* problem(...): the response finishes; a response that is gone gets none.
Answer(r, code) ==
    /\ phase' = [phase EXCEPT ![r] = "done"]
    /\ status' = [status EXCEPT ![r] = IF r \in open THEN code ELSE @]
    /\ open' = open \ {r}
    /\ Release(r)

Admit(r) ==
    /\ phase[r] = "new" /\ downloads < MaxDownloads
    /\ phase' = [phase EXCEPT ![r] = "looking"]
    /\ open' = open \cup {r} /\ slot' = slot \cup {r}
    /\ downloads' = downloads + 1
    /\ UNCHANGED <<temporary, status, artifact>>

Refuse(r) ==
    /\ phase[r] = "new" /\ downloads >= MaxDownloads
    /\ phase' = [phase EXCEPT ![r] = "done"]
    /\ status' = [status EXCEPT ![r] = 503]
    /\ UNCHANGED <<downloads, open, slot, temporary, artifact>>

\* getArtifact, getReconstructionArchiveReference: the row, in any state.
Found == row # "NONE"

Available == row = "PUBLISHED" /\ ~expired

\* The row is read: 404 without one, 410 unless it is published and not expired.
Lookup(r) ==
    /\ phase[r] = "looking"
    /\ \/ /\ ~Found /\ Answer(r, 404) /\ UNCHANGED temporary
       \/ /\ Found /\ ~Available /\ Answer(r, 410) /\ UNCHANGED temporary
       \/ /\ Found /\ Available
          /\ phase' = [phase EXCEPT ![r] = "fetching"]
          /\ temporary' = temporary \cup {r}
          /\ UNCHANGED <<downloads, open, slot, status>>
    /\ UNCHANGED artifact

\* downloadFile and the checks of length and hash; storage may fail as well.
Fetch(r) ==
    /\ phase[r] = "fetching"
    /\ \/ /\ object = "intact"
          /\ phase' = [phase EXCEPT ![r] = "sending"]
          /\ UNCHANGED <<downloads, open, slot, temporary, status>>
       \/ /\ object = "missing" /\ Answer(r, 410) /\ temporary' = temporary \ {r}
       \/ /\ Answer(r, 503) /\ temporary' = temporary \ {r}
    /\ UNCHANGED artifact

\* The pipeline to the response ends or fails; finally removes the file.
Send(r) ==
    /\ phase[r] = "sending"
    /\ Answer(r, 200)
    /\ temporary' = temporary \ {r}
    /\ UNCHANGED artifact

\* The client closes the connection, or 120 seconds pass without traffic; the
\* handler is not told.
Close(r) ==
    /\ r \in open
    /\ open' = open \ {r}
    /\ Release(r)
    /\ UNCHANGED <<phase, temporary, status, artifact>>

-----------------------------------------------------------------------------
(* The artifact                                                             *)

requests == <<downloads, phase, open, slot, temporary, status>>

Stage == row = "NONE" /\ row' = "STAGED" /\ UNCHANGED <<expired, object, requests>>

Publish == row = "STAGED" /\ row' = "PUBLISHED" /\ UNCHANGED <<expired, object, requests>>

Expire == row # "NONE" /\ ~expired /\ expired' = TRUE /\ UNCHANGED <<row, object, requests>>

ClaimForDeletion ==
    /\ row = "PUBLISHED" /\ expired /\ row' = "DELETE_PENDING"
    /\ UNCHANGED <<expired, object, requests>>

\* A staged artifact that was never published is deleted as it is.
Collected == row = "DELETE_PENDING" \/ (row = "STAGED" /\ expired)

DeleteObject ==
    /\ Collected /\ object # "missing" /\ object' = "missing"
    /\ UNCHANGED <<row, expired, requests>>

CompleteDeletion ==
    /\ Collected /\ object = "missing" /\ row' = "DELETED"
    /\ UNCHANGED <<expired, object, requests>>

Next ==
    \/ \E r \in Requests : Admit(r) \/ Refuse(r) \/ Lookup(r) \/ Fetch(r) \/ Send(r) \/ Close(r)
    \/ Stage \/ Publish \/ Expire \/ ClaimForDeletion \/ DeleteObject \/ CompleteDeletion

Spec == Init /\ [][Next]_vars

\* Database and storage answer or time out, and so does a response's client.
Fairness == \A r \in Requests : WF_vars(Lookup(r)) /\ WF_vars(Fetch(r)) /\ WF_vars(Send(r))
FairSpec == Spec /\ Fairness

-----------------------------------------------------------------------------

\* The counter is exactly the number of requests that hold a slot, and these
\* are the admitted ones whose response is open: finish and close of a response
\* may come in any order, or both, and release once.
SlotsExact == downloads = Cardinality(slot) /\ slot = open

\* A handler that is through has left no file on the disk, and no slot taken.
NothingLeftBehind ==
    /\ \A r \in temporary : phase[r] \in {"fetching", "sending"}
    /\ \A r \in slot : phase[r] \in {"looking", "fetching", "sending"}

\* Only the intact content of an artifact that was published is ever sent with
\* success, whatever the collector did after the row was read.
OnlyIntactSent ==
    \A r \in Requests : phase[r] = "sending" \/ status[r] = 200 =>
        row \in {"PUBLISHED", "DELETE_PENDING", "DELETED"} /\ object # "damaged"

\* What serveArtifact owes the process and the user: exact slots, no file left, and
\* no content but the intact one.
DownloadsAccounted == SlotsExact /\ NothingLeftBehind /\ OnlyIntactSent

\* Every request that was admitted gives its slot and its file back.
SlotsReturn == \A r \in Requests : phase[r] = "looking" ~> (r \notin slot /\ r \notin temporary)

=============================================================================
