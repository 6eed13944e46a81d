------------------------------ MODULE Admission ------------------------------
(***************************************************************************)
(* What the Control Plane admits for one user: scans (ScanService.create), *)
(* site clones with the scan they need (SiteCloneService.create), captures *)
(* (CaptureService.create) and the websites they are about (WebsiteService *)
(* create, archive).  Requests run at once, each in a READ COMMITTED       *)
(* transaction of several statements: what a statement reads may be stale  *)
(* at the next one unless a row lock keeps it, and what a transaction      *)
(* wrote is seen by the others when it commits.  A transaction may fail at *)
(* any statement, and the client may send the request again with its key.  *)
(***************************************************************************)
EXTENDS Naturals, FiniteSets

CONSTANTS
    Requests,   \* requests of the user, the repeated ones included
    Sites,      \* rows of the websites table
    Urls,       \* canonical URLs
    Pages,      \* crawled pages a capture may be asked for
    Keys,       \* values of the Idempotency-Key header
    NoKey,      \* the header is absent
    Nobody,     \* no request
    Ops,        \* operations requested in this instance
    MaxActive   \* MAX_ACTIVE_SCANS_PER_USER (three in the code)

ASSUME RequestsAssumption == IsFiniteSet(Requests) /\ Nobody \notin Requests
ASSUME KeysAssumption == NoKey \notin Keys
ASSUME OpsAssumption == Ops \subseteq {"scan", "clone", "website", "archive", "capture"}
ASSUME QuotaAssumption == MaxActive \in Nat

VARIABLES
    site,       \* websites: canonical_url and status of each row
    scan,       \* scans: the row each request committed
    clone,      \* site_clone_requests: likewise
    capture,    \* capture_requests: likewise
    userLock,   \* who holds the user's row (findByIdForUpdate)
    siteLock,   \* who holds each website's row (findForUpdate)
    urlLock,    \* who has an uncommitted entry in uq_websites_owner_active_url
    req         \* each request: its operation, parameters, next statement, answer

admissionVars == <<site, scan, clone, capture, userLock, siteLock, urlLock, req>>
tables == <<site, scan, clone, capture>>

\* The scan of a clone is created under a key of its own ("site-clone-scan:" + hash).
ScanKey(q) == [by |-> q.op, key |-> q.key]

NoScan == [there |-> FALSE, site |-> Nobody, key |-> [by |-> "scan", key |-> NoKey],
           active |-> FALSE]
NoClone == [there |-> FALSE, url |-> Nobody, key |-> NoKey, scan |-> Nobody]
NoCapture == [there |-> FALSE, page |-> Nobody, key |-> NoKey, active |-> FALSE]

Idle == [op |-> "none", target |-> Nobody, key |-> NoKey, at |-> "idle",
         site |-> Nobody, of |-> Nobody, answer |-> "none"]

Statements == {"idle", "peek", "user", "cloneKey", "resolve", "site", "key", "active",
               "quota", "save", "exists", "insert", "lock", "check", "done"}
Answers == {"none", "CREATED", "REPLAYED", "NOT_FOUND", "KEY_REUSED", "ALREADY_ACTIVE",
            "QUOTA_EXCEEDED", "DUPLICATE", "CONFLICT", "INTEGRITY", "ARCHIVED", "FAILED"}

AdmissionTypes ==
    /\ site \in [Sites -> [url : Urls \cup {Nobody},
                           status : {"ABSENT", "ACTIVE", "ARCHIVED"}]]
    /\ scan \in [Requests -> [there : BOOLEAN, site : Sites \cup {Nobody},
                              key : [by : {"scan", "clone"}, key : Keys \cup {NoKey}],
                              active : BOOLEAN]]
    /\ clone \in [Requests -> [there : BOOLEAN, url : Urls \cup {Nobody},
                               key : Keys \cup {NoKey}, scan : Requests \cup {Nobody}]]
    /\ capture \in [Requests -> [there : BOOLEAN, page : Pages \cup {Nobody},
                                 key : Keys \cup {NoKey}, active : BOOLEAN]]
    /\ userLock \in Requests \cup {Nobody}
    /\ siteLock \in [Sites -> Requests \cup {Nobody}]
    /\ urlLock \in [Urls -> Requests \cup {Nobody}]
    /\ req \in [Requests -> [op : Ops \cup {"none"},
                             target : Sites \cup Urls \cup Pages \cup {Nobody},
                             key : Keys \cup {NoKey}, at : Statements,
                             site : Sites \cup {Nobody}, of : Requests \cup {Nobody},
                             answer : Answers]]

\* The user starts with registered websites or without, and nothing admitted.
AdmissionInit ==
    /\ site \in {s \in [Sites -> [url : Urls \cup {Nobody}, status : {"ABSENT", "ACTIVE"}]] :
                    /\ \A w \in Sites : s[w].url = Nobody <=> s[w].status = "ABSENT"
                    /\ \A w, x \in Sites : s[w].url = s[x].url /\ s[w].url /= Nobody => w = x}
    /\ scan = [r \in Requests |-> NoScan]
    /\ clone = [r \in Requests |-> NoClone]
    /\ capture = [r \in Requests |-> NoCapture]
    /\ userLock = Nobody
    /\ siteLock = [w \in Sites |-> Nobody]
    /\ urlLock = [u \in Urls |-> Nobody]
    /\ req = [r \in Requests |-> Idle]

-----------------------------------------------------------------------------
ActiveScans == {r \in Requests : scan[r].there /\ scan[r].active}

\* The operation's next statement is a; nothing is locked or written by it.
Goto(r, a) == /\ req' = [req EXCEPT ![r].at = a]
              /\ UNCHANGED <<tables, userLock, siteLock, urlLock>>

\* The end of r's transaction: its locks go, and the answer (about of) is sent.
Answered(r, a, of) ==
    /\ req' = [req EXCEPT ![r].at = "done", ![r].answer = a, ![r].of = of]
    /\ userLock' = IF userLock = r THEN Nobody ELSE userLock
    /\ siteLock' = [w \in Sites |-> IF siteLock[w] = r THEN Nobody ELSE siteLock[w]]
    /\ urlLock' = [u \in Urls |-> IF urlLock[u] = r THEN Nobody ELSE urlLock[u]]

\* The transaction is rolled back, or had nothing to write.
Refused(r, a) == Answered(r, a, Nobody) /\ UNCHANGED tables

\* A repeated request is answered with what the first one made, if it asks the same.
Replay(r, existing, same) ==
    /\ Answered(r, IF same THEN "REPLAYED" ELSE "KEY_REUSED",
                IF same THEN existing ELSE Nobody)
    /\ UNCHANGED tables

\* The first statement of each operation.
First(op) == CASE op = "scan" -> "user"
               [] op = "clone" -> "user"
               [] op = "capture" -> "peek"
               [] op = "website" -> "exists"
               [] op = "archive" -> "lock"

Targets(op) == CASE op \in {"scan", "archive"} -> Sites
                 [] op \in {"clone", "website"} -> Urls
                 [] op = "capture" -> Pages

KeysFor(op) == CASE op = "clone" -> Keys
                 [] op \in {"scan", "capture"} -> Keys \cup {NoKey}
                 [] OTHER -> {NoKey}

\* A request arrives.
Arrive(r) ==
    /\ req[r].at = "idle"
    /\ \E op \in Ops : \E t \in Targets(op), k \in KeysFor(op) :
          req' = [req EXCEPT ![r] = [Idle EXCEPT !.op = op, !.target = t, !.key = k,
                                                !.at = First(op)]]
    /\ UNCHANGED <<tables, userLock, siteLock, urlLock>>

\* For mutation only: the user's row is not locked, only read.
LockUserDropped(r) ==
    /\ req[r].at = "user"
    /\ req' = [req EXCEPT ![r].at = CASE req[r].op = "scan" -> "site"
                                      [] req[r].op = "clone" -> "cloneKey"
                                      [] req[r].op = "capture" -> "key",
                          ![r].site = IF req[r].op = "scan" THEN req[r].target ELSE Nobody]
    /\ UNCHANGED <<tables, userLock, siteLock, urlLock>>

\* CurrentUserService.lockActive: select ... for update on the user's row.
LockUser(r) ==
    /\ req[r].at = "user"
    /\ userLock = Nobody
    /\ userLock' = r
    /\ req' = [req EXCEPT ![r].at = CASE req[r].op = "scan" -> "site"
                                      [] req[r].op = "clone" -> "cloneKey"
                                      [] req[r].op = "capture" -> "key",
                          ![r].site = IF req[r].op = "scan" THEN req[r].target ELSE Nobody]
    /\ UNCHANGED <<tables, siteLock, urlLock>>

\* WebsiteAccessService.lockOwnedActive: the website is locked if it is active, and
\* the condition is looked at again when the lock was waited for; a row that is not
\* active or not committed is not waited for.  A row inserted by this transaction
\* (InsertSite) is its own already.
LockSite(r) ==
    /\ req[r].at = "site"
    /\ LET w == req[r].site IN
         \/ /\ siteLock[w] \in {Nobody, r}
            /\ site[w].status = "ACTIVE" \/ siteLock[w] = r
            /\ siteLock' = [siteLock EXCEPT ![w] = r]
            /\ req' = [req EXCEPT ![r].at = "key"]
            /\ UNCHANGED <<tables, userLock, urlLock>>
         \/ /\ siteLock[w] /= r
            /\ site[w].status /= "ACTIVE"
            /\ Refused(r, "NOT_FOUND")

\* The scan of this user with this key, ended ones included.
ScansWith(k) == {s \in Requests : scan[s].there /\ scan[s].key = k}

\* findByRequestedByUserIdAndIdempotencyKeyHash, and replay.  A scan found by a clone's
\* key is another clone's: uq_site_clone_scan would refuse the clone.
LookupScanKey(r) ==
    /\ req[r].at = "key" /\ req[r].op \in {"scan", "clone"}
    /\ LET found == ScansWith(ScanKey(req[r])) IN
       IF req[r].key = NoKey \/ found = {}
       THEN Goto(r, "active")
       ELSE \E s \in found :
              IF req[r].op = "scan"
              THEN Replay(r, s, scan[s].site = req[r].site)
              ELSE Refused(r, IF scan[s].site = req[r].site
                              THEN "INTEGRITY" ELSE "KEY_REUSED")

\* One active scan per website.
CheckActiveScan(r) ==
    /\ req[r].at = "active" /\ req[r].op \in {"scan", "clone"}
    /\ IF \E s \in ActiveScans : scan[s].site = req[r].site
       THEN Refused(r, "ALREADY_ACTIVE")
       ELSE Goto(r, "quota")

\* At most MaxActive active scans of the user.
CheckQuota(r) ==
    /\ req[r].at = "quota"
    /\ IF Cardinality(ActiveScans) >= MaxActive
       THEN Refused(r, "QUOTA_EXCEEDED")
       ELSE Goto(r, "save")

\* saveAndFlush, enqueue and the commit.  Two unique indexes stand behind the checks:
\* uq_scans_one_active_per_website and uq_scans_user_idempotency_key (and those of the
\* clone).  A website the transaction inserted becomes visible with the rest.
SaveScan(r) ==
    /\ req[r].at = "save" /\ req[r].op \in {"scan", "clone"}
    /\ LET q == req[r]
           mine == site[q.site].status = "ABSENT" IN
       IF \/ \E s \in ActiveScans : scan[s].site = q.site
          \/ q.key /= NoKey /\ \E s \in Requests : scan[s].there /\ scan[s].key = ScanKey(q)
          \/ q.op = "clone" /\ \E c \in Requests : clone[c].there /\ clone[c].key = q.key
       THEN Refused(r, "INTEGRITY")
       ELSE /\ Answered(r, "CREATED", r)
            /\ scan' = [scan EXCEPT ![r] = [there |-> TRUE, site |-> q.site,
                                            key |-> ScanKey(q), active |-> TRUE]]
            /\ clone' = IF q.op = "clone"
                        THEN [clone EXCEPT ![r] = [there |-> TRUE, url |-> q.target,
                                                   key |-> q.key, scan |-> r]]
                        ELSE clone
            /\ site' = IF mine
                       THEN [site EXCEPT ![q.site] = [url |-> q.target, status |-> "ACTIVE"]]
                       ELSE site
            /\ UNCHANGED capture

-----------------------------------------------------------------------------
\* SiteCloneService.create: the clone of this key, or on with it.
LookupCloneKey(r) ==
    /\ req[r].at = "cloneKey"
    /\ LET found == {c \in Requests : clone[c].there /\ clone[c].key = req[r].key} IN
         \/ /\ found = {}
            /\ Goto(r, "resolve")
         \/ \E c \in found : Replay(r, c, clone[c].url = req[r].target)

\* resolveOrCreateForSiteClone: the active website of this URL, read without a lock, or
\* a new row.  Its entry in the index waits for an uncommitted one of the same URL; what
\* was committed meanwhile makes the insert fail (GlobalExceptionHandler: 409).
Resolve(r) ==
    /\ req[r].at = "resolve"
    /\ LET u == req[r].target
           found == {w \in Sites : site[w].url = u /\ site[w].status = "ACTIVE"} IN
         \/ \E w \in found :
              /\ req' = [req EXCEPT ![r].at = "site", ![r].site = w]
              /\ UNCHANGED <<tables, userLock, siteLock, urlLock>>
         \/ /\ found = {}
            /\ req' = [req EXCEPT ![r].at = "insert"]
            /\ UNCHANGED <<tables, userLock, siteLock, urlLock>>

InsertSite(r) ==
    /\ req[r].at = "insert" /\ req[r].op = "clone"
    /\ LET u == req[r].target IN
       /\ urlLock[u] = Nobody
       /\ IF \E w \in Sites : site[w].url = u /\ site[w].status = "ACTIVE"
          THEN Refused(r, "CONFLICT")
          ELSE \E w \in Sites :
                 /\ site[w].status = "ABSENT" /\ siteLock[w] = Nobody
                 /\ siteLock' = [siteLock EXCEPT ![w] = r]
                 /\ urlLock' = [urlLock EXCEPT ![u] = r]
                 /\ req' = [req EXCEPT ![r].at = "site", ![r].site = w]
                 /\ UNCHANGED <<tables, userLock>>

\* WebsiteService.create: looks first, and lets the index decide.
SiteExists(r) ==
    /\ req[r].at = "exists"
    /\ IF \E w \in Sites : site[w].url = req[r].target /\ site[w].status = "ACTIVE"
       THEN Refused(r, "DUPLICATE")
       ELSE Goto(r, "insert")

CreateSite(r) ==
    /\ req[r].at = "insert" /\ req[r].op = "website"
    /\ LET u == req[r].target IN
       /\ urlLock[u] = Nobody
       /\ IF \E w \in Sites : site[w].url = u /\ site[w].status = "ACTIVE"
          THEN Refused(r, "DUPLICATE")
          ELSE \E w \in Sites :
                 /\ site[w].status = "ABSENT" /\ siteLock[w] = Nobody
                 /\ Answered(r, "CREATED", r)
                 /\ site' = [site EXCEPT ![w] = [url |-> u, status |-> "ACTIVE"]]
                 /\ UNCHANGED <<scan, clone, capture>>

\* WebsiteService.archive: the website is locked if it is active.
LockToArchive(r) ==
    /\ req[r].at = "lock"
    /\ IF site[req[r].target].status = "ACTIVE"
       THEN /\ siteLock[req[r].target] = Nobody
            /\ siteLock' = [siteLock EXCEPT ![req[r].target] = r]
            /\ req' = [req EXCEPT ![r].at = "check"]
            /\ UNCHANGED <<tables, userLock, urlLock>>
       ELSE Refused(r, "NOT_FOUND")

\* hasActiveScan, then the update and the commit.
CheckToArchive(r) ==
    /\ req[r].at = "check"
    /\ IF \E s \in ActiveScans : scan[s].site = req[r].target
       THEN Refused(r, "ALREADY_ACTIVE")
       ELSE Goto(r, "save")

Archive(r) ==
    /\ req[r].at = "save" /\ req[r].op = "archive"
    /\ Answered(r, "ARCHIVED", Nobody)
    /\ site' = [site EXCEPT ![req[r].target].status = "ARCHIVED"]
    /\ UNCHANGED <<scan, clone, capture>>

-----------------------------------------------------------------------------
\* CaptureService.create looks for its key once without a lock, asks the crawler for
\* the page, and looks again under the user's lock (persistCapture).
LookupCaptureKey(r) ==
    /\ req[r].at \in {"peek", "key"} /\ req[r].op = "capture"
    /\ LET found == {c \in Requests : /\ capture[c].there
                                      /\ req[r].key /= NoKey
                                      /\ capture[c].key = req[r].key} IN
         \/ /\ found = {}
            /\ Goto(r, IF req[r].at = "peek" THEN "user" ELSE "active")
         \/ \E c \in found : Replay(r, c, capture[c].page = req[r].target)

CheckActiveCapture(r) ==
    /\ req[r].at = "active" /\ req[r].op = "capture"
    /\ IF \E c \in Requests : /\ capture[c].there /\ capture[c].active
                              /\ capture[c].page = req[r].target
       THEN Refused(r, "ALREADY_ACTIVE")
       ELSE Goto(r, "save")

\* The indexes: uq_capture_requests_one_active_page, uq_capture_requests_owner_idempotency.
SaveCapture(r) ==
    /\ req[r].at = "save" /\ req[r].op = "capture"
    /\ IF \E c \in Requests :
             /\ capture[c].there
             /\ \/ capture[c].active /\ capture[c].page = req[r].target
                \/ req[r].key /= NoKey /\ capture[c].key = req[r].key
       THEN Refused(r, "INTEGRITY")
       ELSE /\ Answered(r, "CREATED", r)
            /\ capture' = [capture EXCEPT ![r] = [there |-> TRUE, page |-> req[r].target,
                                                  key |-> req[r].key, active |-> TRUE]]
            /\ UNCHANGED <<site, scan, clone>>

-----------------------------------------------------------------------------
\* The connection or the process fails, a statement times out, the target is private
\* (requirePublicTarget) or the page not eligible: the transaction is rolled back.
Fail(r) == req[r].at \notin {"idle", "done"} /\ Refused(r, "FAILED")

\* The event that ends a scan or a capture is applied.
End(r) ==
    /\ \/ /\ scan[r].there /\ scan[r].active
          /\ scan' = [scan EXCEPT ![r].active = FALSE]
          /\ UNCHANGED capture
       \/ /\ capture[r].there /\ capture[r].active
          /\ capture' = [capture EXCEPT ![r].active = FALSE]
          /\ UNCHANGED scan
    /\ UNCHANGED <<site, clone, userLock, siteLock, urlLock, req>>

ScanStep(r) == \/ LockSite(r) \/ LookupScanKey(r) \/ CheckActiveScan(r)
               \/ CheckQuota(r) \/ SaveScan(r)
CloneStep(r) == LookupCloneKey(r) \/ Resolve(r) \/ InsertSite(r)
SiteStep(r) == \/ SiteExists(r) \/ CreateSite(r) \/ LockToArchive(r)
               \/ CheckToArchive(r) \/ Archive(r)
CaptureStep(r) == LookupCaptureKey(r) \/ CheckActiveCapture(r) \/ SaveCapture(r)

Step(r) == LockUser(r) \/ ScanStep(r) \/ CloneStep(r) \/ SiteStep(r) \/ CaptureStep(r)

AdmissionNext == \E r \in Requests : Arrive(r) \/ Step(r) \/ Fail(r) \/ End(r)

\* A transaction goes on by itself; a row lock is handed on when it is free.
AdmissionFairness == \A r \in Requests : WF_admissionVars(Step(r))

AdmissionSpec == AdmissionInit /\ [][AdmissionNext]_admissionVars
AdmissionFairSpec == AdmissionSpec /\ AdmissionFairness

-----------------------------------------------------------------------------
\* A user never has more active scans than the quota (ScanService.java:127), however many
\* requests, clones included, count them at the same time: the count is taken some
\* statements before the insert, and no index stands behind it.
QuotaHeld == Cardinality(ActiveScans) <= MaxActive

\* An archived website has no active scan (WebsiteService.archive:148): a scan admitted
\* while the website is being archived is refused, or the archiving is, in whichever
\* order their statements come.  The two share only the website's row lock.
NothingActiveArchived ==
    \A s \in ActiveScans : site[scan[s].site].status = "ACTIVE"

\* An answer names what was asked for: every request that was accepted, or answered with
\* an earlier one's result, is told of a row with its own key and target, and no two
\* requests with one key both made something.
RepeatsAgree ==
    \A r \in Requests : req[r].answer \in {"CREATED", "REPLAYED"} =>
        LET q == req[r] IN
        /\ CASE q.op = "scan" -> /\ scan[q.of].site = q.target
                                 /\ scan[q.of].key = ScanKey(q)
             [] q.op = "clone" -> /\ clone[q.of].url = q.target
                                  /\ clone[q.of].key = q.key
             [] q.op = "capture" -> /\ capture[q.of].page = q.target
                                    /\ capture[q.of].key = q.key
             [] OTHER -> TRUE
        /\ q.key /= NoKey =>
             \A s \in Requests : (/\ req[s].op = q.op /\ req[s].key = q.key
                                  /\ req[s].answer = "CREATED" /\ q.answer = "CREATED")
                                  => s = r

\* Once a request has been accepted, its repetition (same operation, key and target) is
\* never answered by a conflict, whether what it made is still active or has ended, and
\* whatever else the user has running (ScanService.java:106, CaptureService.java:98,
\* SiteCloneService.java:94).
Conflicts == {"KEY_REUSED", "ALREADY_ACTIVE", "QUOTA_EXCEEDED", "CONFLICT", "INTEGRITY"}
RepeatsReplay ==
    [][\A r, s \in Requests :
          (/\ req[r].answer = "none" /\ req'[r].answer \in Conflicts
           /\ req[s].answer = "CREATED" /\ req[s].key /= NoKey)
          => <<req[r].op, req[r].key>> /= <<req[s].op, req[s].key>>
             \/ req[r].target /= req[s].target]_admissionVars

\* The checks and locks alone keep the rows apart: no scan, clone or capture reaches its
\* insert only to be refused by a unique index, which would be answered as an
\* integrity error and not by the conflict or the replay the code prepares.
ChecksSuffice == \A r \in Requests : req[r].answer /= "INTEGRITY"

\* What the transactions say together: however requests interleave, a user never has
\* more active scans than the quota, an archived website has none, a repeated request is
\* told of the row with its own key and target and one key makes one row, and nothing
\* passes the services' checks only to be refused by a unique index at its insert.
AdmissionConsistent ==
    AdmissionTypes /\ QuotaHeld /\ NothingActiveArchived /\ RepeatsAgree /\ ChecksSuffice

\* Every request is answered: users, websites and index entries are locked in orders
\* that never make transactions wait for one another.
RequestsEnd == \A r \in Requests : req[r].at /= "idle" ~> req[r].at = "done"
=============================================================================
