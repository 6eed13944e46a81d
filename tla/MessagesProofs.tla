--------------------------- MODULE MessagesProofs ---------------------------
(***************************************************************************)
(* The messages between the Control Plane and its workers, for every       *)
(* number of scans, pages, captures, attempts and events.                  *)
(***************************************************************************)
EXTENDS Messages, FiniteSetTheorems, TLAPS

Row == [status : {"NONE"} \cup Actives \cup Finals, remote : Nat, view : Snapshot]
CommandState == {"NONE", "PENDING", "DELIVERED"}
CloneStatus == {"NONE", "WAITING_FOR_SCAN", "QUEUED", "FAILED", "CANCELLED"}

\* The tables are total, whatever the rows refer to.
TypeInv ==
  /\ scan \in [Scans -> Row]
  /\ command \in [Scans -> [Commands -> CommandState]]
  /\ inbox \in [Scans -> SUBSET Commands]
  /\ exec \in [Scans -> Snapshot]
  /\ events \in [Scans -> Seq(Event)]
  /\ posted \in [Scans -> SUBSET Nat]
  /\ consumed \in [Scans -> SUBSET Nat]
  /\ clone \in [Scans -> CloneStatus]
  /\ order \in [Scans -> SUBSET Commands]

\* What progress events report.
Reported == {"RUNNING", "CANCEL_REQUESTED"} \cup Finals
Cancelling == {"CANCEL_REQUESTED", "CANCELLED"}

\* Nothing is known of a scan that was not created, and nothing was written for
\* one the crawler has not accepted.
Fresh(s) ==
  /\ scan[s].status = "NONE" =>
       /\ scan[s] = NoScan /\ command[s]["REQUEST"] = "NONE" /\ command[s]["CANCEL"] = "NONE"
       /\ exec[s] = NotStarted /\ clone[s] = "NONE" /\ order[s] = {}
  /\ exec[s].status = "NONE" => exec[s] = NotStarted /\ events[s] = << >>

\* The crawler's record adds up, and its events leave room for the last ones.
Recorded(s) ==
  /\ Balanced(exec[s])
  /\ exec[s].status \in {"NONE", "QUEUED", "RUNNING"} => Len(events[s]) <= MaxEvents
  /\ exec[s].status = "CANCEL_REQUESTED" => Len(events[s]) <= MaxEvents + 1
  /\ Len(events[s]) <= MaxEvents + 2

\* Every event adds up and says no more than the record; a terminal one is the last.
Written(s) ==
  /\ \A v \in DOMAIN events[s] :
       /\ events[s][v].snap.status \in Reported
       /\ Balanced(events[s][v].snap) /\ Forward(events[s][v].snap, exec[s])
       /\ Terminal(events[s][v].snap.status) => v = Len(events[s]) /\ events[s][v].snap = exec[s]
       /\ events[s][v].snap.status \in Cancelling => command[s]["CANCEL"] # "NONE"
  /\ \A u, v \in DOMAIN events[s] : u <= v => Forward(events[s][u].snap, events[s][v].snap)

\* The lane: an event that is or was on its way has only delivered ones before it.
Lane(s) ==
  \A u, v \in DOMAIN events[s] :
    u < v /\ events[s][v].state # "PENDING" => events[s][u].state = "DELIVERED"

\* What the Control Plane has handled is a prefix of the events, and what is on its
\* way is at most the one after it.
Arrived(s) ==
  /\ scan[s].remote <= Len(events[s])
  /\ consumed[s] = 1 .. scan[s].remote
  /\ consumed[s] \subseteq posted[s]
  /\ \A v \in posted[s] : v \in DOMAIN events[s] /\ v <= scan[s].remote + 1
  /\ \A v \in DOMAIN events[s] :
       /\ events[s][v].state = "DELIVERED" => v <= scan[s].remote
  /\ scan[s].view = IF scan[s].remote = 0 THEN NotStarted ELSE events[s][scan[s].remote].snap

\* A scan is terminal for the user with the last event alone.
Ended(s) ==
  Terminal(scan[s].status) =>
    /\ scan[s].remote = Len(events[s])
    /\ scan[s].view = exec[s] /\ scan[s].status = exec[s].status

\* A cancellation was asked for by the user and is on its way or handled.
Requested(s) ==
  /\ command[s]["CANCEL"] # "NONE" => scan[s].status = "CANCEL_REQUESTED" \/ Terminal(scan[s].status)
  /\ "CANCEL" \in inbox[s] => command[s]["CANCEL"] # "NONE"
  /\ exec[s].status \in Cancelling => command[s]["CANCEL"] # "NONE"
  /\ scan[s].status = "CANCEL_REQUESTED" => command[s]["CANCEL"] = "PENDING" \/ "CANCEL" \in inbox[s]

\* A clone waits for an active scan, and its worker was asked once, for a scan that
\* ended uncancelled.
Owned(s) ==
  /\ clone[s] = "WAITING_FOR_SCAN" => scan[s].status \in Actives /\ order[s] = {}
  /\ clone[s] = "QUEUED" => Terminal(scan[s].status) /\ order[s] = {"REQUEST"}
  /\ "REQUEST" \in order[s] => Terminal(exec[s].status) /\ exec[s].status # "CANCELLED"
  /\ clone[s] = "CANCELLED" => ("REQUEST" \in order[s] <=> "CANCEL" \in order[s])

Parts(s) ==
  /\ Fresh(s) /\ Recorded(s) /\ Written(s) /\ Lane(s) /\ Arrived(s) /\ Ended(s)
  /\ Requested(s) /\ Owned(s)

ScanInv == TypeInv /\ \A s \in Scans : Parts(s)

-----------------------------------------------------------------------------
(* The crawler's record: lemmas about the operators of ExecutionRecord.    *)

\* The counters of a record are numbers.
LEMMA SnapshotNumbers ==
  ASSUME NEW x \in Snapshot
  PROVE  /\ x.discovered \in Nat /\ x.open \in Nat /\ x.succeeded \in Nat /\ x.failed \in Nat
         /\ x.expected \in Nat /\ x.published \in Nat
  BY ScanLimitsAssumption DEF Snapshot

\* Every record follows itself, the record of an execution that has not started is
\* behind every other, and what is ahead of a record ahead is ahead.
LEMMA ForwardOrder ==
  /\ \A x \in Snapshot : Forward(x, x) /\ Forward(NotStarted, x)
  /\ \A x, y, z \in Snapshot : Forward(x, y) /\ Forward(y, z) => Forward(x, z)
<1>1. \A x \in Snapshot : Forward(x, x) /\ Forward(NotStarted, x)
  BY SnapshotNumbers DEF Forward, NotStarted
<1>2. ASSUME NEW x \in Snapshot, NEW y \in Snapshot, NEW z \in Snapshot, Forward(x, y), Forward(y, z)
      PROVE  Forward(x, z)
  <2>1. /\ x.discovered \in Nat /\ x.succeeded \in Nat /\ x.failed \in Nat
        /\ x.expected \in Nat /\ x.published \in Nat
        /\ y.discovered \in Nat /\ y.succeeded \in Nat /\ y.failed \in Nat
        /\ y.expected \in Nat /\ y.published \in Nat
        /\ z.discovered \in Nat /\ z.succeeded \in Nat /\ z.failed \in Nat
        /\ z.expected \in Nat /\ z.published \in Nat
    BY SnapshotNumbers
  <2> QED BY <1>2, <2>1 DEF Forward
<1> QED BY <1>1, <1>2

\* The records before and at the start add up.
LEMMA FirstRecords ==
  /\ NotStarted \in Snapshot /\ Balanced(NotStarted) /\ NotStarted.status = "NONE"
  /\ Accepted \in Snapshot /\ Balanced(Accepted) /\ Accepted.status = "QUEUED"
<1>1. NotStarted \in Snapshot /\ Balanced(NotStarted) /\ NotStarted.status = "NONE"
  BY ScanLimitsAssumption DEF Snapshot, NotStarted, Balanced
<1>2. Accepted \in Snapshot /\ Balanced(Accepted) /\ Accepted.status = "QUEUED"
  BY ScanLimitsAssumption DEF Snapshot, Accepted, Balanced, Actives
<1> QED BY <1>1, <1>2

\* What Ahead offers.
LEMMA AheadIs ==
  ASSUME NEW x \in Snapshot, NEW st \in {"NONE"} \cup Actives \cup Finals, NEW y \in Ahead(x, st)
  PROVE  y \in Snapshot /\ y.status = st /\ Balanced(y) /\ Forward(x, y)
<1>1. Balanced(y) /\ Forward(x, y)
  BY DEF Ahead
<1>2. PICK o \in 0 .. MaxPages, s \in x.succeeded .. MaxPages, f \in x.failed .. MaxPages,
           e \in x.expected .. MaxPages, p \in x.published .. MaxPages :
        y = [status |-> st, discovered |-> o + s + f, open |-> o, succeeded |-> s,
             failed |-> f, expected |-> e, published |-> p]
  BY DEF Ahead
<1>3. o \in Nat /\ s \in 0 .. MaxPages /\ f \in 0 .. MaxPages /\ e \in 0 .. MaxPages /\ p \in 0 .. MaxPages
  BY SnapshotNumbers, ScanLimitsAssumption
<1>4. o + s + f \in 0 .. MaxPages
  BY <1>1, <1>2, <1>3, ScanLimitsAssumption DEF Balanced
<1>5. y \in Snapshot
  BY <1>2, <1>3, <1>4 DEF Snapshot
<1> QED BY <1>1, <1>2, <1>5

\* A cancellation keeps the books: the pages it drops count as failed.
LEMMA CancelledIs ==
  ASSUME NEW x \in Snapshot, Balanced(x)
  PROVE  /\ Cancelled(x) \in Snapshot /\ Balanced(Cancelled(x)) /\ Forward(x, Cancelled(x))
         /\ Cancelled(x).status \in Cancelling
<1> DEFINE left == x.expected - x.published
           y == Cancelled(x)
<1>1. /\ x.discovered \in Nat /\ x.open \in Nat /\ x.succeeded \in Nat /\ x.failed \in Nat
      /\ x.expected \in Nat /\ x.published \in Nat
  BY SnapshotNumbers
<1>2. left \in Nat /\ left <= x.open /\ x.failed + x.open - left \in Nat
  BY <1>1 DEF Balanced
<1>3. /\ y.discovered = x.discovered /\ y.open = left /\ y.succeeded = x.succeeded
      /\ y.failed = x.failed + x.open - left /\ y.expected = x.expected /\ y.published = x.published
      /\ y.status \in Cancelling
  BY DEF Cancelled, Cancelling
<1>4. Balanced(y)
  BY <1>1, <1>2, <1>3 DEF Balanced
<1>5. Forward(x, y)
  BY <1>1, <1>2, <1>3 DEF Forward
<1>6. /\ x.discovered <= MaxPages /\ left \in 0 .. MaxPages
      /\ x.failed + x.open - left \in 0 .. MaxPages
  BY <1>1, <1>2, ScanLimitsAssumption DEF Balanced
<1>7. y \in Snapshot
  BY <1>1, <1>6 DEF Cancelled, Snapshot, Actives, Finals
<1> QED BY <1>3, <1>4, <1>5, <1>7

-----------------------------------------------------------------------------
(* A step is about one scan.                                               *)

Same(s) ==
  /\ scan'[s] = scan[s] /\ command'[s] = command[s] /\ inbox'[s] = inbox[s] /\ exec'[s] = exec[s]
  /\ events'[s] = events[s] /\ posted'[s] = posted[s] /\ consumed'[s] = consumed[s]
  /\ clone'[s] = clone[s] /\ order'[s] = order[s]

\* A scan the step is not about keeps what holds of it.
LEMMA SameKeeps ==
  ASSUME NEW s \in Scans, Parts(s), Same(s)
  PROVE  Parts(s)'
<1>1. Fresh(s)'
  BY DEF Parts, Same, Fresh
<1>2. Recorded(s)'
  BY DEF Parts, Same, Recorded
<1>3. Written(s)'
  BY DEF Parts, Same, Written
<1>4. Lane(s)'
  BY DEF Parts, Same, Lane
<1>5. Arrived(s)'
  BY DEF Parts, Same, Arrived
<1>6. Ended(s)'
  BY DEF Parts, Same, Ended
<1>7. Requested(s)' /\ Owned(s)'
  BY DEF Parts, Same, Requested, Owned
<1> QED BY <1>1, <1>2, <1>3, <1>4, <1>5, <1>6, <1>7 DEF Parts

\* So a step keeps the invariant if it does for its own scan.
LEMMA OwnScan ==
  ASSUME ScanInv, NEW s \in Scans, \A x \in Scans : x # s => Same(x), TypeInv', Parts(s)'
  PROVE  ScanInv'
<1>1. ASSUME NEW x \in Scans PROVE Parts(x)'
  <2>1. CASE x = s
    BY <2>1
  <2>2. CASE x # s
    BY <2>2, SameKeeps DEF ScanInv
  <2> QED BY <2>1, <2>2
<1> QED BY <1>1 DEF ScanInv

-----------------------------------------------------------------------------
(* The Control Plane's steps.                                              *)

\* The tables hold their types at one scan.
LEMMA TypesAt ==
  ASSUME TypeInv, NEW s \in Scans
  PROVE  /\ scan[s] \in Row /\ command[s] \in [Commands -> CommandState] /\ inbox[s] \subseteq Commands
         /\ exec[s] \in Snapshot /\ events[s] \in Seq(Event)
         /\ posted[s] \subseteq Nat /\ consumed[s] \subseteq Nat
         /\ clone[s] \in CloneStatus /\ order[s] \subseteq Commands
         /\ "REQUEST" \in Commands /\ "CANCEL" \in Commands
         /\ scan[s].remote \in Nat /\ scan[s].view \in Snapshot
  BY DEF TypeInv, Commands, Row

\* create() keeps the invariant: nothing is known of the scan yet.
LEMMA CreateKeeps ==
  ASSUME ScanInv, NEW s \in Scans, NEW waiting \in {"NONE", "WAITING_FOR_SCAN"}, CreateScan(s, waiting)
  PROVE  ScanInv'
<1>t. TypeInv /\ Parts(s)
  BY DEF ScanInv
<1>1. /\ scan[s] = NoScan /\ scan' = [scan EXCEPT ![s].status = "QUEUED"]
      /\ command' = [command EXCEPT ![s]["REQUEST"] = "PENDING"]
      /\ clone' = [clone EXCEPT ![s] = waiting]
      /\ UNCHANGED <<inbox, exec, events, posted, consumed, order>>
  BY DEF CreateScan
<1>2. /\ scan'[s] \in Row /\ scan'[s].status = "QUEUED" /\ scan'[s].remote = scan[s].remote
      /\ scan'[s].view = scan[s].view /\ \A x \in Scans : x # s => scan'[x] = scan[x]
  BY <1>t, <1>1, TypesAt DEF TypeInv, Row, Actives
<1>3. /\ command'[s] \in [Commands -> CommandState] /\ command'[s]["REQUEST"] = "PENDING"
      /\ command'[s]["CANCEL"] = command[s]["CANCEL"]
      /\ \A x \in Scans : x # s => command'[x] = command[x]
  BY <1>t, <1>1, TypesAt DEF TypeInv, CommandState
<1>4. clone'[s] = waiting /\ \A x \in Scans : x # s => clone'[x] = clone[x]
  BY <1>t, <1>1 DEF TypeInv
<1>5. TypeInv'
  <2>1. scan' \in [Scans -> Row]
    BY <1>t, <1>1, <1>2 DEF TypeInv
  <2>2. command' \in [Scans -> [Commands -> CommandState]]
    BY <1>t, <1>1, <1>3 DEF TypeInv
  <2>3. clone' \in [Scans -> CloneStatus]
    BY <1>t, <1>1 DEF TypeInv, CloneStatus
  <2> QED BY <1>t, <1>1, <2>1, <2>2, <2>3 DEF TypeInv
<1>6. /\ scan[s].status = "NONE" /\ exec[s] = NotStarted /\ events[s] = << >> /\ order[s] = {}
      /\ command[s]["CANCEL"] = "NONE" /\ exec[s].status = "NONE"
  BY <1>t, <1>1, FirstRecords DEF Parts, Fresh, NoScan
<1>7. Fresh(s)' /\ Recorded(s)'
  BY <1>t, <1>1, <1>2, <1>6 DEF Parts, Fresh, Recorded
<1>8. Written(s)' /\ Lane(s)' /\ Arrived(s)'
  BY <1>t, <1>1, <1>2, <1>6 DEF Parts, Written, Lane, Arrived
<1>9. Ended(s)' /\ Requested(s)' /\ Owned(s)'
  BY <1>t, <1>1, <1>2, <1>3, <1>4, <1>6 DEF Parts, Ended, Requested, Owned, Terminal, Finals, Actives, Cancelling
<1>10. \A x \in Scans : x # s => Same(x)
  BY <1>1, <1>2, <1>3, <1>4 DEF Same
<1> QED BY <1>5, <1>7, <1>8, <1>9, <1>10, OwnScan DEF Parts

\* A cancellation of the user's keeps it: the row says so and the command is written
\* in one transaction.
LEMMA CancelKeeps ==
  ASSUME ScanInv, NEW s \in Scans, CancelScan(s) \/ CancelSiteClone(s)
  PROVE  ScanInv'
<1>t. TypeInv /\ Parts(s)
  BY DEF ScanInv
<1>0. UNCHANGED <<inbox, exec, events, posted, consumed>>
  BY DEF CancelScan, CancelSiteClone
<1>1. /\ scan'[s] \in Row /\ scan'[s].remote = scan[s].remote /\ scan'[s].view = scan[s].view
      /\ scan' \in [Scans -> Row] /\ \A x \in Scans : x # s => scan'[x] = scan[x]
      /\ command' \in [Scans -> [Commands -> CommandState]]
      /\ \A x \in Scans : x # s => command'[x] = command[x]
      /\ \/ scan'[s] = scan[s] /\ command'[s] = command[s]
         \/ /\ scan[s].status \in {"QUEUED", "RUNNING"} /\ scan'[s].status = "CANCEL_REQUESTED"
            /\ command'[s]["CANCEL"] = "PENDING"
  <2>1. CASE scan' = scan /\ command' = command
    BY <1>t, <2>1, TypesAt DEF TypeInv
  <2>2. CASE scan[s].status \in {"QUEUED", "RUNNING"} /\ RequestCancellation(s)
    <3>1. /\ scan'[s] \in Row /\ scan'[s].status = "CANCEL_REQUESTED" /\ scan'[s].remote = scan[s].remote
          /\ scan'[s].view = scan[s].view /\ \A x \in Scans : x # s => scan'[x] = scan[x]
      BY <1>t, <2>2, TypesAt DEF RequestCancellation, TypeInv, Row, Actives
    <3>2. /\ command'[s] \in [Commands -> CommandState] /\ command'[s]["CANCEL"] = "PENDING"
          /\ \A x \in Scans : x # s => command'[x] = command[x]
      BY <1>t, <2>2, TypesAt DEF RequestCancellation, TypeInv, CommandState
    <3>3. scan' \in [Scans -> Row]
      BY <1>t, <2>2, <3>1 DEF RequestCancellation, TypeInv
    <3>4. command' \in [Scans -> [Commands -> CommandState]]
      BY <1>t, <2>2, <3>2 DEF RequestCancellation, TypeInv
    <3> QED BY <2>2, <3>1, <3>2, <3>3, <3>4
  <2> QED BY <2>1, <2>2 DEF CancelScan, CancelSiteClone
<1>2. /\ clone' \in [Scans -> CloneStatus] /\ order' \in [Scans -> SUBSET Commands]
      /\ \A x \in Scans : x # s => clone'[x] = clone[x] /\ order'[x] = order[x]
      /\ \/ clone'[s] = clone[s] /\ order'[s] = order[s]
         \/ clone[s] = "WAITING_FOR_SCAN" /\ clone'[s] = "CANCELLED" /\ order'[s] = order[s]
         \/ clone[s] = "QUEUED" /\ clone'[s] = "CANCELLED" /\ order'[s] = order[s] \cup {"CANCEL"}
  <2>1. CASE CancelScan(s)
    BY <1>t, <2>1 DEF CancelScan, cloneVars, TypeInv
  <2>2. CASE CancelSiteClone(s)
    BY <1>t, <2>2 DEF CancelSiteClone, TypeInv, CloneStatus, Commands
  <2> QED BY <2>1, <2>2
<1>3. TypeInv'
  BY <1>t, <1>0, <1>1, <1>2 DEF TypeInv
<1>4. Fresh(s)'
  <2>1. scan'[s].status = "NONE" => scan'[s] = scan[s] /\ command'[s] = command[s] /\ clone[s] = "NONE"
    BY <1>t, <1>1 DEF Parts, Fresh
  <2> QED BY <1>t, <1>0, <1>1, <1>2, <2>1 DEF Parts, Fresh
<1>5. Recorded(s)' /\ Lane(s)'
  BY <1>t, <1>0 DEF Parts, Recorded, Lane
<1>6. Written(s)'
  <2>1. command'[s]["CANCEL"] = command[s]["CANCEL"] \/ command'[s]["CANCEL"] # "NONE"
    BY <1>1
  <2> QED BY <1>t, <1>0, <2>1 DEF Parts, Written
<1>7. Arrived(s)'
  BY <1>t, <1>0, <1>1 DEF Parts, Arrived
<1>8. Ended(s)' /\ Requested(s)'
  BY <1>t, <1>0, <1>1 DEF Parts, Ended, Requested, Terminal, Finals, Cancelling
<1>9. Owned(s)'
  BY <1>t, <1>0, <1>1, <1>2 DEF Parts, Owned, Terminal, Finals, Actives
<1>10. \A x \in Scans : x # s => Same(x)
  BY <1>0, <1>1, <1>2 DEF Same
<1> QED BY <1>3, <1>4, <1>5, <1>6, <1>7, <1>8, <1>9, <1>10, OwnScan DEF Parts

\* The dispatcher marks a command only when the crawler's inbox holds it.
LEMMA CompleteCommandKeeps ==
  ASSUME ScanInv, NEW s \in Scans, NEW m \in Commands, CompleteCommand(s, m)
  PROVE  ScanInv'
<1>t. TypeInv /\ Parts(s)
  BY DEF ScanInv
<1>0. UNCHANGED <<scan, inbox, exec, events, posted, consumed, clone, order>> /\ m \in inbox[s]
  BY DEF CompleteCommand, cloneVars
<1>1. /\ command' \in [Scans -> [Commands -> CommandState]]
      /\ \A x \in Scans : x # s => command'[x] = command[x]
      /\ \A n \in Commands : \/ command'[s][n] = command[s][n]
                             \/ n \in inbox[s] /\ command[s][n] = "PENDING" /\ command'[s][n] = "DELIVERED"
  BY <1>t DEF CompleteCommand, TypeInv, CommandState
<1>2. TypeInv'
  BY <1>t, <1>0, <1>1 DEF TypeInv
<1>3. \A n \in Commands : command'[s][n] = "NONE" <=> command[s][n] = "NONE"
  BY <1>1
<1>4. "REQUEST" \in Commands /\ "CANCEL" \in Commands
  BY DEF Commands
<1>5. Fresh(s)'
  BY <1>t, <1>0, <1>3, <1>4 DEF Parts, Fresh
<1>6. Recorded(s)' /\ Lane(s)' /\ Arrived(s)' /\ Ended(s)' /\ Owned(s)'
  BY <1>t, <1>0 DEF Parts, Recorded, Lane, Arrived, Ended, Owned
<1>7. Written(s)'
  BY <1>t, <1>0, <1>3, <1>4 DEF Parts, Written
<1>8. Requested(s)'
  BY <1>t, <1>0, <1>1, <1>3, <1>4 DEF Parts, Requested
<1>9. \A x \in Scans : x # s => Same(x)
  BY <1>0, <1>1 DEF Same
<1> QED BY <1>2, <1>5, <1>6, <1>7, <1>8, <1>9, OwnScan DEF Parts

-----------------------------------------------------------------------------
(* The crawler's steps.                                                    *)

\* Accepting a scan writes no event.
LEMMA AcceptKeeps ==
  ASSUME ScanInv, NEW s \in Scans, AcceptCommand(s)
  PROVE  ScanInv'
<1>t. TypeInv /\ Parts(s)
  BY DEF ScanInv
<1>0. UNCHANGED <<scan, command, events, posted, consumed, clone, order>>
  BY DEF AcceptCommand, cloneVars
<1>1. /\ command[s]["REQUEST"] # "NONE" /\ exec[s].status = "NONE"
      /\ exec' = [exec EXCEPT ![s] = Accepted] /\ inbox' = [inbox EXCEPT ![s] = inbox[s] \cup {"REQUEST"}]
  BY FirstRecords DEF AcceptCommand
<1>2. /\ exec'[s] = Accepted /\ inbox'[s] = inbox[s] \cup {"REQUEST"}
      /\ \A x \in Scans : x # s => exec'[x] = exec[x] /\ inbox'[x] = inbox[x]
  BY <1>t, <1>1 DEF TypeInv
<1>3. TypeInv'
  BY <1>t, <1>0, <1>1, FirstRecords DEF TypeInv, Commands
<1>4. Accepted.status = "QUEUED" /\ Balanced(Accepted) /\ events[s] = << >> /\ Len(events[s]) = 0
  BY <1>t, <1>1, FirstRecords DEF Parts, Fresh
<1>5. Fresh(s)'
  BY <1>t, <1>0, <1>1, <1>2, <1>4 DEF Parts, Fresh
<1>6. Recorded(s)'
  BY <1>0, <1>2, <1>4, ScanLimitsAssumption DEF Recorded
<1>7. Written(s)' /\ Lane(s)' /\ Arrived(s)'
  <2>1. DOMAIN events'[s] = {}
    BY <1>0, <1>4
  <2>2. Written(s)'
    BY <2>1 DEF Written
  <2>3. Lane(s)' /\ Arrived(s)'
    BY <1>t, <1>0 DEF Parts, Lane, Arrived
  <2> QED BY <2>2, <2>3
<1>8. Ended(s)'
  BY <1>t, <1>0, <1>1 DEF Parts, Ended, Terminal, Finals
<1>9. Requested(s)'
  BY <1>t, <1>0, <1>2, <1>4 DEF Parts, Requested, Cancelling
<1>10. Owned(s)'
  BY <1>t, <1>0, <1>1 DEF Parts, Owned, Terminal, Finals
<1>11. \A x \in Scans : x # s => Same(x)
  BY <1>0, <1>2 DEF Same
<1> QED BY <1>3, <1>5, <1>6, <1>7, <1>8, <1>9, <1>10, <1>11, OwnScan DEF Parts

\* What Emit leaves: the events there were, and the new one at the end unless it is
\* held back, which no terminal one is.
Appended(s, y) ==
  /\ events' = [events EXCEPT ![s] = Append(events[s], [snap |-> y, state |-> "PENDING"])]
HeldBack(s, y) == ~Terminal(y.status) /\ events' = events

\* A sequence and what Append makes of it.
LEMMA AppendIs ==
  ASSUME NEW S, NEW q \in Seq(S), NEW e \in S
  PROVE  /\ Append(q, e) \in Seq(S) /\ Len(q) \in Nat /\ Len(Append(q, e)) = Len(q) + 1
         /\ DOMAIN q = 1 .. Len(q) /\ DOMAIN Append(q, e) = 1 .. (Len(q) + 1)
         /\ Append(q, e)[Len(q) + 1] = e
         /\ \A v \in 1 .. Len(q) : Append(q, e)[v] = q[v]
  OBVIOUS

\* An index of a sequence that may have grown by one is an old one or the last.
LEMMA IndexIs ==
  ASSUME NEW n \in Nat, NEW m \in Nat, m = n \/ m = n + 1
  PROVE  /\ n <= m /\ 1 .. n \subseteq 1 .. m
         /\ \A v \in 1 .. m : v \in Nat /\ (v \in 1 .. n \/ (v = n + 1 /\ m = n + 1))
         /\ \A u \in 1 .. m : \A v \in 1 .. n : u <= v => u \in 1 .. n
         /\ \A u, v \in 1 .. m : u < v => u \in 1 .. n
  OBVIOUS

\* The record of an execution that is going on moves forward, the event of that move
\* is written or held back, and the inbox may take the cancellation.
LEMMA MoveKeeps ==
  ASSUME ScanInv, NEW s \in Scans, exec[s].status \in Actives,
         NEW y \in Snapshot, Balanced(y), Forward(exec[s], y), y.status \in Reported,
         exec' = [exec EXCEPT ![s] = y], Appended(s, y) \/ HeldBack(s, y),
         y.status \in Cancelling => command[s]["CANCEL"] # "NONE",
         y.status = "RUNNING" => Len(events[s]) < MaxEvents,
         y.status = "CANCEL_REQUESTED" => Len(events[s]) <= MaxEvents,
         inbox' = inbox \/ (command[s]["CANCEL"] # "NONE"
                            /\ inbox' = [inbox EXCEPT ![s] = inbox[s] \cup {"CANCEL"}]),
         UNCHANGED <<scan, command, posted, consumed, clone, order>>
  PROVE  ScanInv'
<1> USE ScanLimitsAssumption
<1>p. PICK old, new, n, event :
        old = events[s] /\ new = events'[s] /\ n = Len(old) /\ event = [snap |-> y, state |-> "PENDING"]
  OBVIOUS
<1>t. TypeInv /\ Parts(s)
  BY DEF ScanInv
<1>a. /\ exec[s].status \in {"QUEUED", "RUNNING", "CANCEL_REQUESTED"} /\ ~Terminal(exec[s].status)
      /\ y.status \notin {"NONE", "QUEUED"}
  BY DEF Actives, Terminal, Finals, Reported
<1>b. n \in Nat /\ DOMAIN old = 1 .. n /\ old \in Seq(Event)
  BY <1>t, <1>p, TypesAt
<1>c. event \in Event /\ event.snap = y /\ event.state = "PENDING"
  BY <1>p DEF Event
<1>d. \/ new = Append(old, event) /\ events' = [events EXCEPT ![s] = Append(old, event)]
      \/ ~Terminal(y.status) /\ new = old /\ events' = events
  BY <1>t, <1>p DEF Appended, HeldBack, TypeInv
<1>e. /\ exec'[s] = y /\ \A x \in Scans : x # s => exec'[x] = exec[x]
      /\ \A x \in Scans : x # s => inbox'[x] = inbox[x] /\ events'[x] = events[x]
      /\ inbox' \in [Scans -> SUBSET Commands]
      /\ "CANCEL" \in inbox'[s] => "CANCEL" \in inbox[s] \/ command[s]["CANCEL"] # "NONE"
      /\ "CANCEL" \in inbox[s] => "CANCEL" \in inbox'[s]
  <2>1. /\ inbox' \in [Scans -> SUBSET Commands] /\ \A x \in Scans : x # s => inbox'[x] = inbox[x]
        /\ "CANCEL" \in inbox'[s] => "CANCEL" \in inbox[s] \/ command[s]["CANCEL"] # "NONE"
        /\ "CANCEL" \in inbox[s] => "CANCEL" \in inbox'[s]
    <3>1. CASE inbox' = inbox
      BY <1>t, <3>1 DEF TypeInv
    <3>2. CASE /\ command[s]["CANCEL"] # "NONE"
               /\ inbox' = [inbox EXCEPT ![s] = inbox[s] \cup {"CANCEL"}]
      BY <1>t, <3>2 DEF TypeInv, Commands
    <3> QED BY <3>1, <3>2
  <2>2. \A x \in Scans : x # s => events'[x] = events[x]
    BY <1>t, <1>d DEF TypeInv
  <2>3. exec'[s] = y /\ \A x \in Scans : x # s => exec'[x] = exec[x]
    BY <1>t DEF TypeInv
  <2> QED BY <2>1, <2>2, <2>3
<1>f. /\ Len(new) \in Nat /\ DOMAIN new = 1 .. Len(new) /\ new \in Seq(Event)
      /\ \/ Len(new) = n + 1 /\ new[n + 1] = event
         \/ Len(new) = n /\ ~Terminal(y.status)
      /\ \A v \in 1 .. n : new[v] = old[v]
  <2>1. CASE new = Append(old, event)
    <3>1. /\ Append(old, event) \in Seq(Event) /\ Len(Append(old, event)) = n + 1
          /\ DOMAIN Append(old, event) = 1 .. (n + 1)
          /\ Append(old, event)[n + 1] = event
          /\ \A v \in 1 .. n : Append(old, event)[v] = old[v]
      BY <1>b, <1>c, <1>p, AppendIs
    <3> QED BY <1>b, <2>1, <3>1
  <2>2. CASE ~Terminal(y.status) /\ new = old
    BY <1>b, <1>p, <2>2
  <2> QED BY <1>d, <2>1, <2>2
<1>g. /\ n <= Len(new) /\ 1 .. n \subseteq DOMAIN new
      /\ \A v \in DOMAIN new : v \in Nat /\ (v \in 1 .. n \/ (v = n + 1 /\ Len(new) = n + 1 /\ new[v] = event))
      /\ \A u \in DOMAIN new : \A v \in 1 .. n : u <= v => u \in 1 .. n
      /\ \A u, v \in DOMAIN new : u < v => u \in 1 .. n
  <2>1. PICK m : m = Len(new)
    OBVIOUS
  <2>2. m \in Nat /\ (m = n \/ m = n + 1) /\ DOMAIN new = 1 .. m /\ (m = n + 1 => new[n + 1] = event)
    <3>1. CASE Len(new) = n + 1 /\ new[n + 1] = event
      BY <1>f, <2>1, <3>1
    <3>2. CASE Len(new) = n /\ ~Terminal(y.status)
      <4>1. m # n + 1
        BY <1>b, <2>1, <3>2
      <4> QED BY <1>f, <2>1, <3>2, <4>1
    <3> QED BY <1>f, <3>1, <3>2
  <2>3. /\ n <= m /\ 1 .. n \subseteq 1 .. m
        /\ \A v \in 1 .. m : v \in Nat /\ (v \in 1 .. n \/ (v = n + 1 /\ m = n + 1))
        /\ \A u \in 1 .. m : \A v \in 1 .. n : u <= v => u \in 1 .. n
        /\ \A u, v \in 1 .. m : u < v => u \in 1 .. n
    BY <1>b, <2>2, IndexIs
  <2> QED BY <2>1, <2>2, <2>3
<1>3. TypeInv'
  <2>1. events' \in [Scans -> Seq(Event)]
    <3>1. Append(old, event) \in Seq(Event)
      BY <1>b, <1>c, AppendIs
    <3>2. [events EXCEPT ![s] = Append(old, event)] \in [Scans -> Seq(Event)]
      BY <1>t, <3>1 DEF TypeInv
    <3> QED BY <1>t, <1>d, <3>2 DEF TypeInv
  <2>2. exec' \in [Scans -> Snapshot]
    BY <1>t DEF TypeInv
  <2> QED BY <1>t, <1>e, <2>1, <2>2 DEF TypeInv
<1>4. Fresh(s)'
  <2>1. scan[s].status # "NONE"
    BY <1>t, <1>a, FirstRecords DEF Parts, Fresh
  <2> QED BY <1>a, <1>e, <2>1 DEF Fresh
<1>5. Recorded(s)'
  <2>1. /\ exec[s].status \in {"QUEUED", "RUNNING"} => n <= MaxEvents
        /\ n <= MaxEvents + 1
    BY <1>t, <1>a, <1>p DEF Parts, Recorded
  <2>2. Len(new) <= n + 1
    BY <1>b, <1>f
  <2>3. /\ y.status = "RUNNING" => Len(new) <= MaxEvents
        /\ y.status = "CANCEL_REQUESTED" => Len(new) <= MaxEvents + 1
        /\ Len(new) <= MaxEvents + 2
    BY <1>b, <1>f, <1>p, <2>1, <2>2
  <2> QED BY <1>a, <1>e, <2>3, <1>p DEF Recorded
<1>6. Written(s)'
  <2>1. ASSUME NEW v \in 1 .. n
        PROVE  /\ old[v].snap \in Snapshot /\ old[v].snap.status \in Reported
               /\ Balanced(old[v].snap) /\ Forward(old[v].snap, exec[s])
               /\ ~Terminal(old[v].snap.status)
               /\ old[v].snap.status \in Cancelling => command[s]["CANCEL"] # "NONE"
    <3>1. old[v] \in Event
      BY <1>b
    <3>2. /\ old[v].snap.status \in Reported
          /\ Balanced(old[v].snap) /\ Forward(old[v].snap, exec[s])
          /\ Terminal(old[v].snap.status) => old[v].snap = exec[s]
          /\ old[v].snap.status \in Cancelling => command[s]["CANCEL"] # "NONE"
      BY <1>t, <1>b, <1>p DEF Parts, Written
    <3> QED BY <1>a, <3>1, <3>2 DEF Event
  <2>2. \A v \in 1 .. n : Forward(old[v].snap, y)
    BY <1>t, <2>1, ForwardOrder, TypesAt
  <2>3. Forward(y, y)
    BY ForwardOrder
  <2>4. event.snap = y
    BY <1>c
  <2>5. ASSUME NEW v \in DOMAIN new
        PROVE  /\ new[v].snap.status \in Reported
               /\ Balanced(new[v].snap) /\ Forward(new[v].snap, y)
               /\ Terminal(new[v].snap.status) => v = Len(new) /\ new[v].snap = y
               /\ new[v].snap.status \in Cancelling => command[s]["CANCEL"] # "NONE"
    <3>1. CASE v \in 1 .. n
      BY <1>f, <2>1, <2>2, <3>1
    <3>2. CASE v \notin 1 .. n
      <4>1. v = n + 1 /\ Len(new) = n + 1 /\ new[v] = event
        BY <1>g, <3>2
      <4> QED BY <2>3, <2>4, <4>1
    <3> QED BY <3>1, <3>2
  <2>6. ASSUME NEW u \in DOMAIN new, NEW v \in DOMAIN new, u <= v
        PROVE  Forward(new[u].snap, new[v].snap)
    <3>1. CASE v \in 1 .. n
      <4>1. u \in 1 .. n
        BY <1>g, <2>6, <3>1
      <4>2. Forward(old[u].snap, old[v].snap)
        BY <1>t, <1>b, <2>6, <3>1, <4>1, <1>p DEF Parts, Written
      <4> QED BY <1>f, <3>1, <4>1, <4>2
    <3>2. CASE v \notin 1 .. n
      <4>1. new[v].snap = y
        BY <1>g, <2>4, <3>2
      <4> QED BY <2>5, <4>1
    <3> QED BY <3>1, <3>2
  <2> QED BY <1>e, <2>5, <2>6, <1>p DEF Written
<1>7. Lane(s)'
  <2>1. ASSUME NEW u \in DOMAIN new, NEW v \in DOMAIN new, u < v, new[v].state # "PENDING"
        PROVE  new[u].state = "DELIVERED"
    <3>1. event.state = "PENDING"
      BY <1>c
    <3>2. v \in 1 .. n
      BY <1>g, <2>1, <3>1
    <3>3. u \in 1 .. n
      BY <1>g, <2>1, <3>2
    <3>4. old[u].state = "DELIVERED"
      BY <1>t, <1>b, <1>f, <2>1, <3>2, <3>3, <1>p DEF Parts, Lane
    <3> QED BY <1>f, <3>3, <3>4
  <2> QED BY <2>1, <1>p DEF Lane
<1>8. Arrived(s)'
  <2>1. /\ scan[s].remote \in Nat /\ scan[s].remote <= n /\ consumed[s] = 1 .. scan[s].remote
        /\ consumed[s] \subseteq posted[s]
        /\ \A v \in posted[s] : v \in 1 .. n /\ v <= scan[s].remote + 1
        /\ \A v \in 1 .. n : old[v].state = "DELIVERED" => v <= scan[s].remote
        /\ scan[s].view = IF scan[s].remote = 0 THEN NotStarted ELSE old[scan[s].remote].snap
    BY <1>t, <1>b, TypesAt, <1>p DEF Parts, Arrived
  <2>2. event.state = "PENDING" /\ Len(new) >= n
    BY <1>c, <1>g
  <2>3. \A v \in DOMAIN new : new[v].state = "DELIVERED" => v <= scan[s].remote
    BY <1>f, <1>g, <2>1, <2>2
  <2>4. scan[s].remote # 0 => scan[s].remote \in 1 .. n
    BY <1>b, <2>1
  <2>5. scan[s].view = IF scan[s].remote = 0 THEN NotStarted ELSE new[scan[s].remote].snap
    BY <1>f, <2>1, <2>4
  <2>6. scan[s].remote <= Len(new) /\ \A v \in posted[s] : v \in DOMAIN new /\ v <= scan[s].remote + 1
    <3>1. scan[s].remote <= Len(new)
      <4>1. PICK r, m : r = scan[s].remote /\ m = Len(new)
        OBVIOUS
      <4>2. r \in Nat /\ r <= n /\ m \in Nat /\ n <= m
        BY <1>f, <1>g, <2>1, <4>1
      <4>3. r <= m
        BY <1>b, <4>2
      <4> QED BY <4>1, <4>3
    <3>2. \A v \in posted[s] : v \in DOMAIN new /\ v <= scan[s].remote + 1
      BY <1>g, <2>1
    <3> QED BY <3>1, <3>2
  <2> QED BY <2>1, <2>3, <2>5, <2>6, <1>p DEF Arrived
<1>9. Ended(s)'
  BY <1>t, <1>a DEF Parts, Ended
<1>10. Requested(s)'
  BY <1>t, <1>e DEF Parts, Requested
<1>11. Owned(s)'
  BY <1>t, <1>a DEF Parts, Owned
<1>12. \A x \in Scans : x # s => Same(x)
  BY <1>e DEF Same
<1> QED BY <1>3, <1>4, <1>5, <1>6, <1>7, <1>8, <1>9, <1>10, <1>11, <1>12, OwnScan DEF Parts

\* insertProgressEvent writes the event or holds it back.
LEMMA EmitIs ==
  ASSUME NEW s \in Scans, NEW y, Emit(s, y)
  PROVE  Appended(s, y) \/ HeldBack(s, y)
  BY DEF Emit, Appended, HeldBack

\* AcceptCancellation keeps the invariant.
LEMMA ApplyCancellationKeeps ==
  ASSUME ScanInv, NEW s \in Scans, ApplyCancellation(s)
  PROVE  ScanInv'
<1>t. TypeInv /\ Parts(s)
  BY DEF ScanInv
<1>1. /\ command[s]["CANCEL"] # "NONE" /\ exec[s].status \in {"QUEUED", "RUNNING"}
      /\ exec' = [exec EXCEPT ![s] = Cancelled(exec[s])] /\ Emit(s, Cancelled(exec[s]))
      /\ inbox' = [inbox EXCEPT ![s] = inbox[s] \cup {"CANCEL"}]
      /\ UNCHANGED <<scan, command, posted, consumed, clone, order>>
  BY DEF ApplyCancellation, cloneVars
<1>p. PICK y : y = Cancelled(exec[s])
  OBVIOUS
<1>2. y \in Snapshot /\ Balanced(y) /\ Forward(exec[s], y) /\ y.status \in Cancelling
  BY <1>t, <1>p, TypesAt, CancelledIs DEF Parts, Recorded
<1>3. /\ exec[s].status \in Actives /\ y.status \in Reported /\ y.status # "RUNNING"
  BY <1>1, <1>2 DEF Actives, Reported, Cancelling, Finals
<1>4. Len(events[s]) <= MaxEvents
  BY <1>t, <1>1 DEF Parts, Recorded
<1>5. Appended(s, y) \/ HeldBack(s, y)
  BY <1>1, <1>p, EmitIs
<1> QED BY <1>1, <1>p, <1>2, <1>3, <1>4, <1>5, MoveKeeps

\* The work of the frontier keeps it.
LEMMA CrawlWorksKeeps ==
  ASSUME ScanInv, NEW s \in Scans, CrawlWorks(s)
  PROVE  ScanInv'
<1>t. TypeInv /\ Parts(s)
  BY DEF ScanInv
<1>1. PICK y \in Ahead(exec[s], WorkingStatus(exec[s])) :
        /\ exec' = [exec EXCEPT ![s] = y] /\ Emit(s, y)
  BY DEF CrawlWorks
<1>2. /\ exec[s].status \in Actives /\ Len(events[s]) < MaxEvents
      /\ inbox' = inbox /\ UNCHANGED <<scan, command, posted, consumed, clone, order>>
  BY DEF CrawlWorks, cloneVars
<1>3. /\ WorkingStatus(exec[s]) \in {"RUNNING", "CANCEL_REQUESTED"}
      /\ WorkingStatus(exec[s]) = "CANCEL_REQUESTED" => exec[s].status = "CANCEL_REQUESTED"
  BY DEF WorkingStatus
<1>4. WorkingStatus(exec[s]) \in {"NONE"} \cup Actives \cup Finals
  BY <1>3 DEF Actives
<1>5. y \in Snapshot /\ y.status = WorkingStatus(exec[s]) /\ Balanced(y) /\ Forward(exec[s], y)
  BY <1>t, <1>4, TypesAt, AheadIs
<1>6. /\ y.status \in Reported
      /\ y.status \in Cancelling => command[s]["CANCEL"] # "NONE"
  BY <1>t, <1>3, <1>5 DEF Reported, Cancelling, Parts, Requested
<1>7. Len(events[s]) <= MaxEvents
  BY <1>t, <1>2, TypesAt, ScanLimitsAssumption
<1>8. Appended(s, y) \/ HeldBack(s, y)
  BY <1>1, EmitIs
<1> QED BY <1>1, <1>2, <1>5, <1>6, <1>7, <1>8, MoveKeeps

\* The end of the execution keeps it.
LEMMA CrawlEndsKeeps ==
  ASSUME ScanInv, NEW s \in Scans, CrawlEnds(s)
  PROVE  ScanInv'
<1>t. TypeInv /\ Parts(s)
  BY DEF ScanInv
<1>1. PICK st \in Finals : \E y \in Ahead(exec[s], st) :
        Ends(exec[s], y) /\ exec' = [exec EXCEPT ![s] = y] /\ Emit(s, y)
  BY DEF CrawlEnds
<1>2. PICK y \in Ahead(exec[s], st) :
        Ends(exec[s], y) /\ exec' = [exec EXCEPT ![s] = y] /\ Emit(s, y)
  BY <1>1
<1>3. /\ exec[s].status \in Actives
      /\ inbox' = inbox /\ UNCHANGED <<scan, command, posted, consumed, clone, order>>
  BY DEF CrawlEnds, cloneVars
<1>4. y \in Snapshot /\ y.status = st /\ Balanced(y) /\ Forward(exec[s], y)
  BY <1>t, TypesAt, AheadIs
<1>5. y.status = "CANCELLED" => exec[s].status = "CANCEL_REQUESTED"
  BY <1>2 DEF Ends, EndStatus
<1>6. /\ y.status \in Reported /\ y.status \notin {"RUNNING", "CANCEL_REQUESTED"}
      /\ y.status \in Cancelling => command[s]["CANCEL"] # "NONE"
  BY <1>t, <1>4, <1>5 DEF Reported, Cancelling, Finals, Parts, Requested
<1>7. Appended(s, y) \/ HeldBack(s, y)
  BY <1>2, EmitIs
<1> QED BY <1>2, <1>3, <1>4, <1>6, <1>7, MoveKeeps

\* A cancellation that comes too late is only noted.
LEMMA IgnoreCancellationKeeps ==
  ASSUME ScanInv, NEW s \in Scans, IgnoreCancellation(s)
  PROVE  ScanInv'
<1>t. TypeInv /\ Parts(s)
  BY DEF ScanInv
<1>1. /\ command[s]["CANCEL"] # "NONE"
      /\ inbox' = [inbox EXCEPT ![s] = inbox[s] \cup {"CANCEL"}]
      /\ UNCHANGED <<scan, command, exec, events, posted, consumed, clone, order>>
  BY DEF IgnoreCancellation, cloneVars
<1>2. /\ inbox' \in [Scans -> SUBSET Commands] /\ "CANCEL" \in inbox'[s]
      /\ \A x \in Scans : x # s => inbox'[x] = inbox[x]
  BY <1>t, <1>1 DEF TypeInv, Commands
<1>3. TypeInv'
  BY <1>t, <1>1, <1>2 DEF TypeInv
<1>4. Fresh(s)' /\ Recorded(s)' /\ Ended(s)' /\ Owned(s)'
  BY <1>t, <1>1 DEF Parts, Fresh, Recorded, Ended, Owned
<1>5. Written(s)' /\ Lane(s)'
  BY <1>t, <1>1 DEF Parts, Written, Lane
<1>6. Arrived(s)'
  BY <1>t, <1>1 DEF Parts, Arrived
<1>7. Requested(s)'
  BY <1>t, <1>1, <1>2 DEF Parts, Requested
<1>8. \A x \in Scans : x # s => Same(x)
  BY <1>1, <1>2 DEF Same
<1> QED BY <1>3, <1>4, <1>5, <1>6, <1>7, <1>8, OwnScan DEF Parts

-----------------------------------------------------------------------------
(* The event outbox and its deliveries.                                    *)

\* A step of the publisher keeps the invariant if it keeps the lane in order and
\* sends and acknowledges no more than the next event.
LEMMA PublishKeeps ==
  ASSUME ScanInv, NEW s \in Scans, NEW v \in DOMAIN events[s],
         NEW st \in {"PENDING", "CLAIMED", "DELIVERED"},
         events' = [events EXCEPT ![s][v].state = st],
         UNCHANGED <<scan, command, inbox, exec, consumed, clone, order>>,
         posted' = posted \/ (v <= scan[s].remote + 1 /\ posted' = [posted EXCEPT ![s] = posted[s] \cup {v}]),
         st = "DELIVERED" => v <= scan[s].remote,
         events[s][v].state # "DELIVERED",
         st # "PENDING" => \A u \in DOMAIN events[s] : u < v => events[s][u].state = "DELIVERED"
  PROVE  ScanInv'
<1>t. TypeInv /\ Parts(s)
  BY DEF ScanInv
<1>p. PICK old, new : old = events[s] /\ new = events'[s]
  OBVIOUS
<1>a. old \in Seq(Event) /\ v \in DOMAIN old
  BY <1>t, <1>p, TypesAt
<1>b. new = [old EXCEPT ![v].state = st] /\ \A x \in Scans : x # s => events'[x] = events[x]
  BY <1>t, <1>a, <1>p DEF TypeInv
<1>c. /\ new \in Seq(Event) /\ Len(new) = Len(old) /\ DOMAIN new = DOMAIN old
      /\ \A u \in DOMAIN old : new[u].snap = old[u].snap
      /\ \A u \in DOMAIN old : u # v => new[u] = old[u]
      /\ new[v].state = st
  <2>p. PICK e : e = [old[v] EXCEPT !.state = st]
    OBVIOUS
  <2>1. old[v] \in Event
    BY <1>a
  <2>2. e \in Event /\ e.snap = old[v].snap /\ e.state = st
    BY <2>p, <2>1 DEF Event
  <2>3. new = [old EXCEPT ![v] = e]
    BY <1>b, <2>p
  <2>4. new \in Seq(Event) /\ Len(new) = Len(old) /\ DOMAIN new = DOMAIN old
    BY <1>a, <2>2, <2>3
  <2>5. new[v] = e /\ \A u \in DOMAIN old : u # v => new[u] = old[u]
    BY <1>a, <2>3
  <2> QED BY <2>2, <2>4, <2>5
<1>d. /\ posted' \in [Scans -> SUBSET Nat] /\ \A x \in Scans : x # s => posted'[x] = posted[x]
      /\ posted[s] \subseteq posted'[s]
      /\ \A u \in posted'[s] : u \in posted[s] \/ (u = v /\ v <= scan[s].remote + 1)
  <2>1. CASE posted' = posted
    BY <1>t, <2>1 DEF TypeInv
  <2>2. CASE v <= scan[s].remote + 1 /\ posted' = [posted EXCEPT ![s] = posted[s] \cup {v}]
    <3>1. v \in Nat
      BY <1>a
    <3> QED BY <1>t, <2>2, <3>1 DEF TypeInv
  <2> QED BY <2>1, <2>2
<1>3. TypeInv'
  <2>1. events' \in [Scans -> Seq(Event)]
    <3>1. events' = [events EXCEPT ![s] = [old EXCEPT ![v].state = st]]
      BY <1>p
    <3> QED BY <1>t, <1>b, <1>c, <3>1 DEF TypeInv
  <2> QED BY <1>t, <1>d, <2>1 DEF TypeInv
<1>4. Fresh(s)'
  <2>1. exec[s].status # "NONE"
    BY <1>t, <1>a, <1>p DEF Parts, Fresh
  <2> QED BY <1>t, <2>1 DEF Parts, Fresh
<1>5. Recorded(s)'
  BY <1>t, <1>c, <1>p DEF Parts, Recorded
<1>6. Written(s)'
  <2>1. \A u \in DOMAIN new :
          /\ new[u].snap.status \in Reported
          /\ Balanced(new[u].snap) /\ Forward(new[u].snap, exec[s])
          /\ Terminal(new[u].snap.status) => u = Len(new) /\ new[u].snap = exec[s]
          /\ new[u].snap.status \in Cancelling => command[s]["CANCEL"] # "NONE"
    BY <1>t, <1>c, <1>p DEF Parts, Written
  <2>2. \A u, w \in DOMAIN new : u <= w => Forward(new[u].snap, new[w].snap)
    BY <1>t, <1>c, <1>p DEF Parts, Written
  <2> QED BY <2>1, <2>2, <1>p DEF Written
<1>7. Lane(s)'
  <2>1. ASSUME NEW u \in DOMAIN new, NEW w \in DOMAIN new, u < w, new[w].state # "PENDING"
        PROVE  new[u].state = "DELIVERED"
    <3>1. CASE w = v
      BY <1>a, <1>c, <1>p, <2>1, <3>1
    <3>2. CASE w # v
      <4>1. old[u].state = "DELIVERED"
        BY <1>t, <1>c, <1>p, <2>1, <3>2 DEF Parts, Lane
      <4>2. u # v
        BY <4>1, <1>p
      <4> QED BY <1>c, <4>1, <4>2
    <3> QED BY <3>1, <3>2
  <2> QED BY <2>1, <1>p DEF Lane
<1>8. Arrived(s)'
  <2>1. /\ scan[s].remote <= Len(old) /\ consumed[s] = 1 .. scan[s].remote
        /\ consumed[s] \subseteq posted[s]
        /\ \A u \in posted[s] : u \in DOMAIN old /\ u <= scan[s].remote + 1
        /\ \A u \in DOMAIN old : old[u].state = "DELIVERED" => u <= scan[s].remote
        /\ scan[s].view = IF scan[s].remote = 0 THEN NotStarted ELSE old[scan[s].remote].snap
    BY <1>t, <1>p DEF Parts, Arrived
  <2>2. scan[s].remote # 0 => scan[s].remote \in DOMAIN old
    BY <1>t, <1>a, <2>1, TypesAt
  <2>3. scan[s].view = IF scan[s].remote = 0 THEN NotStarted ELSE new[scan[s].remote].snap
    BY <1>c, <2>1, <2>2
  <2>4. \A u \in DOMAIN new : new[u].state = "DELIVERED" => u <= scan[s].remote
    BY <1>c, <2>1
  <2>5. \A u \in posted'[s] : u \in DOMAIN new /\ u <= scan[s].remote + 1
    BY <1>a, <1>c, <1>d, <2>1
  <2> QED BY <1>c, <1>d, <1>p, <2>1, <2>3, <2>4, <2>5 DEF Arrived
<1>9. Ended(s)'
  BY <1>t, <1>c, <1>p DEF Parts, Ended
<1>10. Requested(s)' /\ Owned(s)'
  BY <1>t DEF Parts, Requested, Owned
<1>11. \A x \in Scans : x # s => Same(x)
  BY <1>b, <1>d DEF Same
<1> QED BY <1>3, <1>4, <1>5, <1>6, <1>7, <1>8, <1>9, <1>10, <1>11, OwnScan DEF Parts

\* ClaimEvents: every event before the next in the lane is delivered, so it is the one
\* the Control Plane expects.
LEMMA ClaimEventKeeps ==
  ASSUME ScanInv, NEW s \in Scans, NEW v \in DOMAIN events[s], ClaimEvent(s, v)
  PROVE  ScanInv'
<1>t. TypeInv /\ Parts(s)
  BY DEF ScanInv
<1>1. /\ events[s][v].state = "PENDING" /\ NextInLane(s, v)
      /\ events' = [events EXCEPT ![s][v].state = "CLAIMED"]
      /\ posted' = [posted EXCEPT ![s] = posted[s] \cup {v}]
      /\ UNCHANGED <<scan, command, inbox, exec, consumed, clone, order>>
  BY DEF ClaimEvent, cloneVars
<1>p. PICK n : n = Len(events[s])
  OBVIOUS
<1>2. n \in Nat /\ DOMAIN events[s] = 1 .. n /\ events[s] \in Seq(Event) /\ scan[s].remote \in Nat
  BY <1>t, <1>p, TypesAt
<1>3. ASSUME NEW u \in DOMAIN events[s], u < v
      PROVE  events[s][u].state = "DELIVERED"
  <2>1. ~(u >= v)
    BY <1>2, <1>3
  <2>2. events[s][u].state \notin {"PENDING", "CLAIMED"}
    BY <1>1, <2>1 DEF NextInLane
  <2>3. events[s][u] \in Event
    BY <1>2
  <2> QED BY <2>2, <2>3 DEF Event
<1>4. v <= scan[s].remote + 1
  <2>1. CASE v = 1
    BY <1>2, <2>1
  <2>2. CASE v # 1
    <3>1. v - 1 \in DOMAIN events[s] /\ v - 1 < v /\ v \in Nat
      BY <1>2, <2>2
    <3>2. v - 1 <= scan[s].remote
      BY <1>t, <1>3, <3>1 DEF Parts, Arrived
    <3> QED BY <1>2, <3>1, <3>2
  <2> QED BY <2>1, <2>2
<1> QED BY <1>1, <1>3, <1>4, PublishKeeps

\* RetryEvent and ReclaimExpired.
LEMMA ReleaseEventKeeps ==
  ASSUME ScanInv, NEW s \in Scans, NEW v \in DOMAIN events[s], ReleaseEvent(s, v)
  PROVE  ScanInv'
<1>1. /\ events[s][v].state = "CLAIMED" /\ events' = [events EXCEPT ![s][v].state = "PENDING"]
      /\ posted' = posted /\ UNCHANGED <<scan, command, inbox, exec, consumed, clone, order>>
  BY DEF ReleaseEvent, cloneVars
<1> QED BY <1>1, PublishKeeps

\* CompleteEvent: the Control Plane has handled the event, and the lane before it.
LEMMA CompleteEventKeeps ==
  ASSUME ScanInv, NEW s \in Scans, NEW v \in DOMAIN events[s], CompleteEvent(s, v)
  PROVE  ScanInv'
<1>t. TypeInv /\ Parts(s)
  BY DEF ScanInv
<1>1. /\ events[s][v].state = "CLAIMED" /\ v \in consumed[s]
      /\ events' = [events EXCEPT ![s][v].state = "DELIVERED"]
      /\ posted' = posted /\ UNCHANGED <<scan, command, inbox, exec, consumed, clone, order>>
  BY DEF CompleteEvent, cloneVars
<1>2. v <= scan[s].remote
  BY <1>t, <1>1, TypesAt DEF Parts, Arrived
<1>3. \A u \in DOMAIN events[s] : u < v => events[s][u].state = "DELIVERED"
  BY <1>t, <1>1 DEF Parts, Lane
<1> QED BY <1>1, <1>2, <1>3, PublishKeeps

\* What is on its way is the event after the last one applied, of a scan that is not
\* terminal for the user.
LEMMA NextArrives ==
  ASSUME ScanInv, NEW s \in Scans, NEW v \in posted[s] \ consumed[s]
  PROVE  /\ v \in DOMAIN events[s] /\ v \in Nat /\ v = scan[s].remote + 1 /\ scan[s].remote \in Nat
         /\ scan[s].status # "NONE" /\ ~Terminal(scan[s].status)
         /\ events[s][v].snap \in Snapshot /\ events[s][v].snap.status \in Reported
         /\ Balanced(events[s][v].snap)
         /\ Terminal(events[s][v].snap.status) => v = Len(events[s]) /\ events[s][v].snap = exec[s]
         /\ events[s][v].snap.status \in Cancelling => scan[s].status = "CANCEL_REQUESTED"
<1>t. TypeInv /\ Parts(s)
  BY DEF ScanInv
<1>p. PICK n, r : n = Len(events[s]) /\ r = scan[s].remote
  OBVIOUS
<1>1. n \in Nat /\ DOMAIN events[s] = 1 .. n /\ events[s] \in Seq(Event) /\ r \in Nat
  BY <1>t, <1>p, TypesAt
<1>2. v \in 1 .. n /\ v <= r + 1 /\ v \notin 1 .. r
  BY <1>t, <1>p, <1>1 DEF Parts, Arrived
<1>3. v \in Nat /\ v = r + 1 /\ v <= n
  BY <1>1, <1>2
<1>4. ~Terminal(scan[s].status)
  <2>1. r # n
    BY <1>1, <1>3
  <2> QED BY <1>t, <1>p, <2>1 DEF Parts, Ended
<1>5. scan[s].status # "NONE"
  <2>1. events[s] # << >>
    BY <1>1, <1>2
  <2> QED BY <1>t, <2>1, FirstRecords DEF Parts, Fresh
<1>6. events[s][v] \in Event
  BY <1>1, <1>2
<1>7. /\ events[s][v].snap.status \in Reported /\ Balanced(events[s][v].snap)
      /\ Terminal(events[s][v].snap.status) => v = Len(events[s]) /\ events[s][v].snap = exec[s]
      /\ events[s][v].snap.status \in Cancelling => command[s]["CANCEL"] # "NONE"
  BY <1>t, <1>1, <1>2 DEF Parts, Written
<1>8. events[s][v].snap.status \in Cancelling => scan[s].status = "CANCEL_REQUESTED"
  BY <1>t, <1>4, <1>7 DEF Parts, Requested
<1> QED BY <1>p, <1>1, <1>2, <1>3, <1>4, <1>5, <1>6, <1>7, <1>8 DEF Event

\* What consume() does with it: the row takes the event's status, unless a cancellation
\* the user asked for stands, and the event's counters; the clone and its worker hear
\* of the end of the scan.
LEMMA ConsumeIs ==
  ASSUME ScanInv, NEW s \in Scans, NEW v \in DOMAIN events[s], ConsumeEvent(s, v)
  PROVE  /\ v \in posted[s] \ consumed[s]
         /\ scan' = [scan EXCEPT ![s] = [status |-> IF /\ scan[s].status = "CANCEL_REQUESTED"
                                                       /\ ~Terminal(events[s][v].snap.status)
                                                    THEN scan[s].status ELSE events[s][v].snap.status,
                                         remote |-> v, view |-> events[s][v].snap]]
         /\ clone' = [clone EXCEPT ![s] = CloneAfter(clone[s], scan'[s].status)]
         /\ order' = [order EXCEPT ![s] = IF clone'[s] = "QUEUED" /\ clone[s] # "QUEUED"
                                          THEN order[s] \cup {"REQUEST"} ELSE order[s]]
         /\ consumed' = [consumed EXCEPT ![s] = consumed[s] \cup {v}]
         /\ UNCHANGED <<command, inbox, exec, events, posted>>
<1>p. PICK x : x = events[s][v].snap
  OBVIOUS
<1>1. v \in posted[s] \ consumed[s]
  BY DEF ConsumeEvent
<1>2. ~(v <= scan[s].remote \/ Terminal(scan[s].status)) /\ x.status # "QUEUED"
  BY <1>1, <1>p, NextArrives DEF Reported, Finals
<1>3. /\ scan' = [scan EXCEPT ![s] = Projected(scan[s], v, x)]
      /\ clone' = [clone EXCEPT ![s] = CloneAfter(clone[s], scan'[s].status)]
      /\ order' = [order EXCEPT ![s] = IF clone'[s] = "QUEUED" /\ clone[s] # "QUEUED"
                                       THEN order[s] \cup {"REQUEST"} ELSE order[s]]
      /\ consumed' = [consumed EXCEPT ![s] = consumed[s] \cup {v}]
      /\ UNCHANGED <<command, inbox, exec, events, posted>>
  BY <1>2, <1>p DEF ConsumeEvent
<1>4. Projected(scan[s], v, x) =
        [status |-> IF scan[s].status = "CANCEL_REQUESTED" /\ ~Terminal(x.status)
                    THEN scan[s].status ELSE x.status,
         remote |-> v, view |-> x]
  BY <1>2 DEF Projected
<1> QED BY <1>1, <1>3, <1>4, <1>p

\* consume() keeps the invariant.
LEMMA ConsumeEventKeeps ==
  ASSUME ScanInv, NEW s \in Scans, NEW v \in DOMAIN events[s], ConsumeEvent(s, v)
  PROVE  ScanInv'
<1>t. TypeInv /\ Parts(s)
  BY DEF ScanInv
<1>p. PICK x, r, n, row, c, o :
        /\ x = events[s][v].snap /\ r = scan[s].remote /\ n = Len(events[s])
        /\ row = scan'[s] /\ c = clone[s] /\ o = order[s]
  OBVIOUS
<1>1. v \in posted[s] \ consumed[s]
  BY ConsumeIs
<1>2. /\ v \in Nat /\ v = r + 1 /\ r \in Nat /\ v \in DOMAIN events[s]
      /\ scan[s].status # "NONE" /\ ~Terminal(scan[s].status)
      /\ x \in Snapshot /\ x.status \in Reported
      /\ Terminal(x.status) => v = n /\ x = exec[s]
      /\ x.status \in Cancelling => scan[s].status = "CANCEL_REQUESTED"
  BY <1>1, <1>p, NextArrives
<1>3. scan' = [scan EXCEPT ![s] = [status |-> IF scan[s].status = "CANCEL_REQUESTED" /\ ~Terminal(x.status)
                                              THEN scan[s].status ELSE x.status,
                                   remote |-> v, view |-> x]]
  BY <1>p, ConsumeIs
<1>4. /\ row.remote = v /\ row.view = x
      /\ row.status = IF scan[s].status = "CANCEL_REQUESTED" /\ ~Terminal(x.status)
                      THEN scan[s].status ELSE x.status
      /\ \A y \in Scans : y # s => scan'[y] = scan[y]
  BY <1>t, <1>p, <1>3 DEF TypeInv
<1>5. /\ row.status \in Reported /\ (Terminal(row.status) <=> Terminal(x.status))
      /\ Terminal(row.status) => v = n /\ row.view = exec[s] /\ row.status = exec[s].status
      /\ row.status = "CANCEL_REQUESTED" => scan[s].status = "CANCEL_REQUESTED"
      /\ scan[s].status = "CANCEL_REQUESTED" => row.status = "CANCEL_REQUESTED" \/ Terminal(row.status)
  BY <1>2, <1>4 DEF Reported, Terminal, Finals, Cancelling
<1>6. row \in Row
  <2>1. row.status \in {"NONE"} \cup Actives \cup Finals
    BY <1>5 DEF Reported, Actives, Finals
  <2>2. row = [status |-> IF scan[s].status = "CANCEL_REQUESTED" /\ ~Terminal(x.status)
                          THEN scan[s].status ELSE x.status,
               remote |-> v, view |-> x]
    BY <1>t, <1>p, <1>3 DEF TypeInv
  <2> QED BY <1>2, <1>4, <2>1, <2>2 DEF Row
<1>7. /\ clone' = [clone EXCEPT ![s] = CloneAfter(c, row.status)]
      /\ order' = [order EXCEPT ![s] = IF clone'[s] = "QUEUED" /\ c # "QUEUED" THEN o \cup {"REQUEST"} ELSE o]
      /\ consumed' = [consumed EXCEPT ![s] = consumed[s] \cup {v}]
      /\ UNCHANGED <<command, inbox, exec, events, posted>>
  BY <1>p, ConsumeIs
<1>8. /\ clone'[s] = CloneAfter(c, row.status) /\ \A y \in Scans : y # s => clone'[y] = clone[y]
      /\ order'[s] = IF clone'[s] = "QUEUED" /\ c # "QUEUED" THEN o \cup {"REQUEST"} ELSE o
      /\ \A y \in Scans : y # s => order'[y] = order[y]
      /\ consumed'[s] = consumed[s] \cup {v} /\ \A y \in Scans : y # s => consumed'[y] = consumed[y]
  BY <1>t, <1>7 DEF TypeInv
<1>9. /\ c \in CloneStatus /\ c # "QUEUED" /\ o \subseteq Commands
      /\ c = "WAITING_FOR_SCAN" => o = {}
      /\ "REQUEST" \in o => Terminal(exec[s].status) /\ exec[s].status # "CANCELLED"
      /\ c = "CANCELLED" => ("REQUEST" \in o <=> "CANCEL" \in o)
  BY <1>t, <1>2, <1>p, TypesAt DEF Parts, Owned
<1>10. TypeInv'
  <2>1. scan' \in [Scans -> Row]
    BY <1>t, <1>3, <1>4, <1>6, <1>p DEF TypeInv
  <2>2. clone'[s] \in CloneStatus /\ order'[s] \subseteq Commands
    BY <1>8, <1>9 DEF CloneAfter, CloneStatus, Commands
  <2>3. clone' \in [Scans -> CloneStatus] /\ order' \in [Scans -> SUBSET Commands]
    BY <1>t, <1>7, <1>8, <2>2 DEF TypeInv
  <2>4. consumed' \in [Scans -> SUBSET Nat]
    BY <1>t, <1>2, <1>7 DEF TypeInv
  <2> QED BY <1>t, <1>7, <2>1, <2>3, <2>4 DEF TypeInv
<1>11. Fresh(s)'
  <2>1. row.status # "NONE"
    BY <1>5 DEF Reported, Finals
  <2> QED BY <1>t, <1>7, <1>p, <2>1 DEF Parts, Fresh
<1>12. Recorded(s)' /\ Written(s)' /\ Lane(s)'
  BY <1>t, <1>7 DEF Parts, Recorded, Written, Lane
<1>13. Arrived(s)'
  <2>1. /\ n \in Nat /\ DOMAIN events[s] = 1 .. n
    BY <1>t, <1>p, TypesAt
  <2>2. /\ consumed[s] = 1 .. r /\ consumed[s] \subseteq posted[s]
        /\ \A u \in posted[s] : u \in DOMAIN events[s] /\ u <= r + 1
        /\ \A u \in DOMAIN events[s] : events[s][u].state = "DELIVERED" => u <= r
    BY <1>t, <1>p DEF Parts, Arrived
  <2>3. v <= n /\ v # 0
    BY <1>2, <2>1
  <2>4. (1 .. r) \cup {v} = 1 .. v
    BY <1>2
  <2>5. \A u \in DOMAIN events[s] : (u <= r + 1 => u <= v + 1) /\ (u <= r => u <= v)
    BY <1>2, <2>1
  <2>6. /\ consumed'[s] = 1 .. v /\ consumed'[s] \subseteq posted[s]
    BY <1>1, <1>8, <2>2, <2>4
  <2>7. /\ \A u \in posted[s] : u \in DOMAIN events[s] /\ u <= v + 1
        /\ \A u \in DOMAIN events[s] : events[s][u].state = "DELIVERED" => u <= v
    BY <2>2, <2>5
  <2> QED BY <1>4, <1>7, <1>p, <2>3, <2>6, <2>7 DEF Arrived
<1>14. Ended(s)'
  BY <1>4, <1>5, <1>7, <1>p DEF Ended
<1>15. Requested(s)'
  BY <1>t, <1>2, <1>5, <1>7, <1>p DEF Parts, Requested
<1>16. Owned(s)'
  <2>1. CASE ~Terminal(row.status)
    <3>1. clone'[s] = c /\ order'[s] = o
      BY <1>8, <1>9, <2>1 DEF CloneAfter
    <3>2. row.status \in Actives
      BY <1>5, <2>1 DEF Reported, Terminal, Actives
    <3> QED BY <1>7, <1>9, <1>p, <3>1, <3>2 DEF Owned
  <2>2. CASE Terminal(row.status)
    <3>1. /\ clone'[s] # "WAITING_FOR_SCAN"
          /\ clone'[s] = "QUEUED" => c = "WAITING_FOR_SCAN" /\ row.status # "CANCELLED"
          /\ clone'[s] = "CANCELLED" => c = "CANCELLED"
      BY <1>8, <1>9, <2>2 DEF CloneAfter, CloneStatus
    <3>2. /\ clone'[s] = "QUEUED" => order'[s] = {"REQUEST"}
          /\ clone'[s] # "QUEUED" => order'[s] = o
      BY <1>8, <1>9, <3>1
    <3>3. Terminal(exec[s].status) /\ (clone'[s] = "QUEUED" => exec[s].status # "CANCELLED")
      BY <1>5, <2>2, <3>1
    <3> QED BY <1>7, <1>9, <1>p, <2>2, <3>1, <3>2, <3>3 DEF Owned
  <2> QED BY <2>1, <2>2
<1>17. \A y \in Scans : y # s => Same(y)
  BY <1>4, <1>7, <1>8 DEF Same
<1> QED BY <1>10, <1>11, <1>12, <1>13, <1>14, <1>15, <1>16, <1>17, OwnScan DEF Parts

-----------------------------------------------------------------------------
(* The invariant.                                                          *)

\* It holds when nothing was created yet.
LEMMA InitScans ==
  Init => ScanInv
<1> SUFFICES ASSUME Init PROVE ScanInv
  OBVIOUS
<1> USE ScanLimitsAssumption
<1>1. NoScan \in Row /\ NoScan.status = "NONE" /\ NoScan.remote = 0 /\ NoScan.view = NotStarted
  BY FirstRecords DEF NoScan, Row
<1>2. << >> \in Seq(Event) /\ Len(<< >>) = 0 /\ DOMAIN << >> = {}
  OBVIOUS
<1>3. TypeInv
  BY <1>1, <1>2, FirstRecords DEF Init, TypeInv, CommandState, CloneStatus
<1>4. ASSUME NEW s \in Scans PROVE Parts(s)
  <2>1. /\ scan[s] = NoScan /\ command[s] = [m \in Commands |-> "NONE"] /\ inbox[s] = {}
        /\ exec[s] = NotStarted /\ events[s] = << >> /\ posted[s] = {} /\ consumed[s] = {}
        /\ clone[s] = "NONE" /\ order[s] = {}
    BY DEF Init
  <2>2. command[s]["REQUEST"] = "NONE" /\ command[s]["CANCEL"] = "NONE"
    BY <2>1 DEF Commands
  <2>3. Fresh(s)
    BY <2>1, <2>2 DEF Fresh
  <2>4. Recorded(s)
    BY <1>2, <2>1, FirstRecords DEF Recorded
  <2>5. Written(s) /\ Lane(s)
    BY <1>2, <2>1 DEF Written, Lane
  <2>6. Arrived(s)
    <3>1. 1 .. 0 = {}
      OBVIOUS
    <3> QED BY <1>1, <1>2, <2>1, <3>1 DEF Arrived
  <2>7. Ended(s) /\ Requested(s) /\ Owned(s)
    <3>1. scan[s].status = "NONE" /\ exec[s].status = "NONE"
      BY <1>1, <2>1, FirstRecords
    <3>2. Ended(s)
      BY <3>1 DEF Ended, Terminal, Finals
    <3>3. Requested(s)
      BY <2>1, <2>2, <3>1 DEF Requested, Cancelling
    <3>4. Owned(s)
      BY <2>1 DEF Owned
    <3> QED BY <3>2, <3>3, <3>4
  <2> QED BY <2>3, <2>4, <2>5, <2>6, <2>7 DEF Parts
<1> QED BY <1>3, <1>4 DEF ScanInv

\* Every step keeps it.
LEMMA NextScans ==
  ScanInv /\ [Next]_vars => ScanInv'
<1> SUFFICES ASSUME ScanInv, [Next]_vars PROVE ScanInv'
  OBVIOUS
<1>1. CASE UNCHANGED vars
  <2>1. UNCHANGED <<scan, command, inbox, exec, events, posted, consumed, clone, order>>
    BY <1>1 DEF vars
  <2>2. TypeInv'
    BY <2>1 DEF ScanInv, TypeInv
  <2>3. \A s \in Scans : Same(s)
    BY <2>1 DEF Same
  <2> QED BY <2>2, <2>3, SameKeeps DEF ScanInv
<1>2. CASE Next
  <2>1. PICK s \in Scans : ControlStep(s) \/ CrawlerStep(s) \/ EventStep(s)
    BY <1>2 DEF Next
  <2>2. CASE ControlStep(s)
    BY <2>2, CreateKeeps, CancelKeeps, CompleteCommandKeeps DEF ControlStep
  <2>3. CASE CrawlerStep(s)
    BY <2>3, AcceptKeeps, ApplyCancellationKeeps, IgnoreCancellationKeeps, CrawlWorksKeeps, CrawlEndsKeeps
       DEF CrawlerStep
  <2>4. CASE EventStep(s)
    BY <2>4, ClaimEventKeeps, ReleaseEventKeeps, CompleteEventKeeps, ConsumeEventKeeps DEF EventStep
  <2> QED BY <2>1, <2>2, <2>3, <2>4
<1> QED BY <1>1, <1>2

\* So it holds throughout.
THEOREM ScanInvariant == Spec => []ScanInv
  BY InitScans, NextScans, PTL DEF Spec

-----------------------------------------------------------------------------
(* What the two services agree on.                                         *)

\* The Control Plane refuses no event on its way: its counters fit together, and it
\* reports a cancellation only after the user asked for one.
LEMMA NoneRejected ==
  ASSUME ScanInv
  PROVE  NoEventRejected
<1> SUFFICES ASSUME NEW s \in Scans, NEW v \in posted[s] \ consumed[s]
             PROVE  scan[s].status # "NONE" /\ ~Rejects(scan[s], events[s][v].snap)
  BY DEF NoEventRejected
<1>p. PICK x : x = events[s][v].snap
  OBVIOUS
<1>1. /\ scan[s].status # "NONE" /\ ~Terminal(scan[s].status)
      /\ x \in Snapshot /\ x.status \in Reported /\ Balanced(x)
      /\ x.status \in Cancelling => scan[s].status = "CANCEL_REQUESTED"
  BY <1>p, NextArrives
<1>2. /\ ~(x.open > x.discovered) /\ ~(x.succeeded + x.failed > x.discovered)
      /\ ~(x.discovered > MaxPages) /\ ~(x.open + x.succeeded + x.failed > x.discovered)
      /\ ~(x.published > x.expected) /\ ~(x.expected > x.discovered)
  <2>1. /\ x.discovered \in Nat /\ x.open \in Nat /\ x.succeeded \in Nat /\ x.failed \in Nat
        /\ x.expected \in Nat /\ x.published \in Nat
    BY <1>1, SnapshotNumbers
  <2> QED BY <1>1, <2>1, ScanLimitsAssumption DEF Balanced
<1>3. ~ /\ ~Terminal(scan[s].status) /\ ~Terminal(x.status) /\ x.status # "QUEUED"
        /\ \/ scan[s].status = "QUEUED" /\ x.status # "RUNNING"
           \/ scan[s].status = "RUNNING" /\ x.status \notin {"RUNNING", "CANCEL_REQUESTED"}
  BY <1>1 DEF Reported, Terminal, Cancelling
<1> QED BY <1>1, <1>2, <1>3, <1>p DEF Rejects

\* The rows are well formed, with room for every event.
LEMMA WellFormed ==
  ASSUME ScanInv
  PROVE  RowsOK
<1>t. TypeInv /\ \A s \in Scans : Parts(s)
  BY DEF ScanInv
<1>1. ASSUME NEW s \in Scans
      PROVE  /\ Len(events[s]) <= MaxEvents + 2 /\ \A v \in DOMAIN events[s] : events[s][v] \in Event
             /\ posted[s] \subseteq DOMAIN events[s] /\ consumed[s] \subseteq posted[s]
             /\ scan[s] \in [status : {"NONE"} \cup Actives \cup Finals,
                             remote : 0 .. MaxEvents + 2, view : Snapshot]
  <2>1. scan[s] \in Row /\ events[s] \in Seq(Event)
    BY <1>t, TypesAt
  <2>2. /\ Len(events[s]) <= MaxEvents + 2 /\ scan[s].remote <= Len(events[s])
        /\ posted[s] \subseteq DOMAIN events[s] /\ consumed[s] \subseteq posted[s]
    BY <1>t DEF Parts, Recorded, Arrived
  <2>3. scan[s].remote \in Nat /\ Len(events[s]) \in Nat
    BY <2>1 DEF Row
  <2>4. scan[s].remote \in 0 .. MaxEvents + 2
    BY <2>2, <2>3, ScanLimitsAssumption
  <2>5. \A v \in DOMAIN events[s] : events[s][v] \in Event
    BY <2>1
  <2> QED BY <2>1, <2>2, <2>4, <2>5 DEF Row
<1>2. scan \in [Scans -> [status : {"NONE"} \cup Actives \cup Finals,
                          remote : 0 .. MaxEvents + 2, view : Snapshot]]
  BY <1>t, <1>1 DEF TypeInv
<1> QED BY <1>t, <1>1, <1>2 DEF RowsOK, TypeInv, CommandState, CloneStatus

\* Every event is applied, once and in the order the crawler wrote them, and none is
\* refused: a lost, late or repeated delivery never makes one stale, skips one or
\* holds back the terminal one behind it.
THEOREM EventsAlwaysApplied == Spec => []EventsApplied
<1>1. ASSUME ScanInv PROVE AppliedInOrder
  BY <1>1 DEF ScanInv, Parts, Arrived, AppliedInOrder
<1>2. ScanInv => EventsApplied
  BY <1>1, NoneRejected, WellFormed DEF EventsApplied
<1> QED BY <1>2, ScanInvariant, PTL

\* The Control Plane, the crawler and the clone that waits agree: a scan that is
\* terminal for the user is so for the crawler with the same counters, the crawler
\* stops only for a cancellation that was asked for, none is forgotten, and the
\* capture worker is asked only for a scan that ended uncancelled.
THEOREM ScanAlwaysAgrees == Spec => []ScanAgrees
<1>1. ASSUME ScanInv PROVE TerminalAgrees
  BY <1>1 DEF ScanInv, Parts, Ended, TerminalAgrees
<1>2. ASSUME ScanInv PROVE CancellationAgrees
  <2> SUFFICES ASSUME NEW s \in Scans
               PROVE  /\ exec[s].status = "CANCEL_REQUESTED" => scan[s].status = "CANCEL_REQUESTED"
                      /\ exec[s].status = "CANCELLED" => scan[s].status \in {"CANCEL_REQUESTED", "CANCELLED"}
                      /\ scan[s].status = "CANCEL_REQUESTED"
                           => command[s]["CANCEL"] = "PENDING" \/ "CANCEL" \in inbox[s]
    BY DEF CancellationAgrees
  <2>1. /\ exec[s].status \in Cancelling => scan[s].status = "CANCEL_REQUESTED" \/ Terminal(scan[s].status)
        /\ scan[s].status = "CANCEL_REQUESTED" => command[s]["CANCEL"] = "PENDING" \/ "CANCEL" \in inbox[s]
        /\ Terminal(scan[s].status) => scan[s].status = exec[s].status
    BY <1>2 DEF ScanInv, Parts, Requested, Ended
  <2> QED BY <2>1 DEF Cancelling, Terminal, Finals
<1>3. ASSUME ScanInv PROVE CloneFollowsScan
  BY <1>3 DEF ScanInv, Parts, Owned, CloneFollowsScan
<1>4. ScanInv => ScanAgrees
  BY <1>1, <1>2, <1>3 DEF ScanAgrees
<1> QED BY <1>4, ScanInvariant, PTL

\* What a step does to what the user sees of a scan, and to its clone.
Moves(x) ==
  /\ Forward(scan[x].view, scan'[x].view)
  /\ Terminal(scan[x].status) => scan'[x] = scan[x]
  /\ scan[x].status = "CANCEL_REQUESTED"
       => scan'[x].status = "CANCEL_REQUESTED" \/ Terminal(scan'[x].status)
Stays(x) == clone[x] \in {"FAILED", "CANCELLED"} => clone'[x] = clone[x] /\ order'[x] = order[x]

\* A row a step leaves alone does not go back.
LEMMA UntouchedMoves ==
  ASSUME TypeInv, NEW x \in Scans, scan'[x] = scan[x]
  PROVE  Moves(x)
  BY TypesAt, ForwardOrder DEF Moves

\* Every step moves every scan forward and leaves a closed clone alone.
LEMMA StepMoves ==
  ASSUME ScanInv, Next, NEW x \in Scans
  PROVE  Moves(x) /\ Stays(x)
<1>t. TypeInv /\ Parts(x)
  BY DEF ScanInv
<1>0. ASSUME UNCHANGED <<scan, clone, order>> PROVE Moves(x) /\ Stays(x)
  BY <1>t, <1>0, UntouchedMoves DEF Stays
<1>1. PICK s \in Scans : ControlStep(s) \/ CrawlerStep(s) \/ EventStep(s)
  BY DEF Next
<1>2. CASE CrawlerStep(s)
  <2>1. UNCHANGED <<scan, clone, order>>
    BY <1>2 DEF CrawlerStep, AcceptCommand, ApplyCancellation, IgnoreCancellation, CrawlWorks, CrawlEnds,
                cloneVars
  <2> QED BY <1>0, <2>1
<1>3. CASE ControlStep(s)
  <2>1. ASSUME NEW waiting \in {"NONE", "WAITING_FOR_SCAN"}, CreateScan(s, waiting)
        PROVE  Moves(x) /\ Stays(x)
    <3>1. CASE x # s
      <4>1. scan'[x] = scan[x] /\ clone'[x] = clone[x] /\ order'[x] = order[x]
        BY <1>t, <2>1, <3>1 DEF CreateScan, TypeInv
      <4> QED BY <1>t, <4>1, UntouchedMoves DEF Stays
    <3>2. CASE x = s
      <4>1. /\ scan[x] = NoScan /\ scan'[x].view = scan[x].view /\ order'[x] = order[x]
        BY <1>t, <2>1, <3>2 DEF CreateScan, TypeInv
      <4>2. scan[x].status = "NONE" /\ clone[x] = "NONE"
        BY <1>t, <4>1 DEF NoScan, Parts, Fresh
      <4>3. Forward(scan[x].view, scan'[x].view)
        BY <1>t, <4>1, TypesAt, ForwardOrder
      <4> QED BY <4>2, <4>3 DEF Moves, Stays, Terminal, Finals
    <3> QED BY <3>1, <3>2
  <2>2. CASE CancelScan(s) \/ CancelSiteClone(s)
    <3>1. \/ scan'[x] = scan[x]
          \/ /\ scan[x].status \in {"QUEUED", "RUNNING"} /\ scan'[x].view = scan[x].view
      <4>1. \/ scan' = scan
            \/ /\ scan[s].status \in {"QUEUED", "RUNNING"}
               /\ scan' = [scan EXCEPT ![s].status = "CANCEL_REQUESTED"]
        BY <2>2 DEF CancelScan, CancelSiteClone, RequestCancellation
      <4>2. CASE scan' = scan
        BY <4>2
      <4>3. CASE /\ scan[s].status \in {"QUEUED", "RUNNING"}
                 /\ scan' = [scan EXCEPT ![s].status = "CANCEL_REQUESTED"]
        <5>1. CASE x # s
          BY <1>t, <4>3, <5>1 DEF TypeInv
        <5>2. CASE x = s
          <6>1. scan[s] \in Row
            BY <1>t, TypesAt
          <6>2. scan'[s] = [scan[s] EXCEPT !.status = "CANCEL_REQUESTED"]
            BY <1>t, <4>3 DEF TypeInv
          <6>3. scan'[s].view = scan[s].view
            BY <6>1, <6>2 DEF Row
          <6> QED BY <4>3, <5>2, <6>3
        <5> QED BY <5>1, <5>2
      <4> QED BY <4>1, <4>2, <4>3
    <3>2. Moves(x)
      <4>1. CASE scan'[x] = scan[x]
        BY <1>t, <4>1, UntouchedMoves
      <4>2. CASE scan[x].status \in {"QUEUED", "RUNNING"} /\ scan'[x].view = scan[x].view
        <5>1. Forward(scan[x].view, scan'[x].view)
          BY <1>t, <4>2, TypesAt, ForwardOrder
        <5> QED BY <4>2, <5>1 DEF Moves, Terminal, Finals
      <4> QED BY <3>1, <4>1, <4>2
    <3>3. Stays(x)
      <4>1. CASE CancelScan(s)
        BY <4>1 DEF CancelScan, cloneVars, Stays
      <4>2. CASE CancelSiteClone(s)
        BY <1>t, <4>2 DEF CancelSiteClone, Stays, TypeInv
      <4> QED BY <2>2, <4>1, <4>2
    <3> QED BY <3>2, <3>3
  <2>3. ASSUME NEW m \in Commands, CompleteCommand(s, m) PROVE Moves(x) /\ Stays(x)
    <3>1. UNCHANGED <<scan, clone, order>>
      BY <2>3 DEF CompleteCommand, cloneVars
    <3> QED BY <1>0, <3>1
  <2> QED BY <1>3, <2>1, <2>2, <2>3 DEF ControlStep
<1>4. CASE EventStep(s)
  <2>1. PICK v \in DOMAIN events[s] :
          ClaimEvent(s, v) \/ ReleaseEvent(s, v) \/ CompleteEvent(s, v) \/ ConsumeEvent(s, v)
    BY <1>4 DEF EventStep
  <2>2. CASE ClaimEvent(s, v) \/ ReleaseEvent(s, v) \/ CompleteEvent(s, v)
    <3>1. UNCHANGED <<scan, clone, order>>
      BY <2>2 DEF ClaimEvent, ReleaseEvent, CompleteEvent, cloneVars
    <3> QED BY <1>0, <3>1
  <2>3. CASE ConsumeEvent(s, v)
    <3>p. PICK e, r : e = events[s][v].snap /\ r = scan[s].remote
      OBVIOUS
    <3>1. /\ v \in posted[s] \ consumed[s]
          /\ scan' = [scan EXCEPT ![s] = [status |-> IF scan[s].status = "CANCEL_REQUESTED" /\ ~Terminal(e.status)
                                                     THEN scan[s].status ELSE e.status,
                                          remote |-> v, view |-> e]]
          /\ clone' = [clone EXCEPT ![s] = CloneAfter(clone[s], scan'[s].status)]
          /\ order' = [order EXCEPT ![s] = IF clone'[s] = "QUEUED" /\ clone[s] # "QUEUED"
                                           THEN order[s] \cup {"REQUEST"} ELSE order[s]]
      BY <2>3, <3>p, ConsumeIs
    <3>2. CASE x # s
      <4>1. scan'[x] = scan[x] /\ clone'[x] = clone[x] /\ order'[x] = order[x]
        BY <1>t, <3>1, <3>2 DEF TypeInv
      <4> QED BY <1>t, <4>1, UntouchedMoves DEF Stays
    <3>3. CASE x = s
      <4>1. /\ v \in Nat /\ v = r + 1 /\ r \in Nat /\ ~Terminal(scan[s].status) /\ e \in Snapshot
        BY <3>1, <3>p, NextArrives
      <4>2. /\ scan'[s].view = e
            /\ scan'[s].status = IF scan[s].status = "CANCEL_REQUESTED" /\ ~Terminal(e.status)
                                 THEN scan[s].status ELSE e.status
            /\ clone'[s] = CloneAfter(clone[s], scan'[s].status)
            /\ order'[s] = IF clone'[s] = "QUEUED" /\ clone[s] # "QUEUED"
                           THEN order[s] \cup {"REQUEST"} ELSE order[s]
        BY <1>t, <3>1 DEF TypeInv
      <4>3. Forward(scan[s].view, e)
        <5>1. CASE r = 0
          <6>1. scan[s].view = NotStarted
            BY <1>t, <3>3, <3>p, <5>1 DEF Parts, Arrived
          <6> QED BY <4>1, <6>1, ForwardOrder
        <5>2. CASE r # 0
          <6>1. scan[s].view = events[s][r].snap /\ r <= Len(events[s])
            BY <1>t, <3>3, <3>p, <5>2 DEF Parts, Arrived
          <6>2. r \in DOMAIN events[s] /\ r <= v
            BY <1>t, <3>3, <4>1, <5>2, <6>1, TypesAt
          <6>3. Forward(events[s][r].snap, events[s][v].snap)
            BY <1>t, <3>3, <6>2 DEF Parts, Written
          <6> QED BY <3>p, <6>1, <6>3
        <5> QED BY <5>1, <5>2
      <4>4. Moves(x)
        BY <3>3, <4>1, <4>2, <4>3 DEF Moves
      <4>5. Stays(x)
        BY <3>3, <4>2 DEF Stays, CloneAfter
      <4> QED BY <4>4, <4>5
    <3> QED BY <3>2, <3>3
  <2> QED BY <2>1, <2>2, <2>3
<1> QED BY <1>1, <1>2, <1>3, <1>4

\* The progress the user sees never goes back, and a terminal or cancelling scan never
\* looks active again, in whatever order deliveries arrive.
THEOREM ProjectionAlwaysForward == Spec => ProjectionMovesForward
<1>1. ScanInv /\ [Next]_vars =>
        [\A s \in Scans :
           /\ Forward(scan[s].view, scan'[s].view)
           /\ Terminal(scan[s].status) => scan'[s] = scan[s]
           /\ scan[s].status = "CANCEL_REQUESTED"
                => scan'[s].status = "CANCEL_REQUESTED" \/ Terminal(scan'[s].status)]_vars
  BY StepMoves DEF Moves
<1> QED BY <1>1, ScanInvariant, PTL DEF Spec, ProjectionMovesForward

\* A clone that was cancelled or failed stays so and its worker hears nothing more,
\* also when the event of its scan's end arrives afterwards.
THEOREM ClosedCloneAlwaysStays == Spec => ClosedCloneStays
<1>1. ScanInv /\ [Next]_vars =>
        [\A s \in Scans : clone[s] \in {"FAILED", "CANCELLED"}
           => clone'[s] = clone[s] /\ order'[s] = order[s]]_vars
  BY StepMoves DEF Stays
<1> QED BY <1>1, ScanInvariant, PTL DEF Spec, ClosedCloneStays

-----------------------------------------------------------------------------
(* Captures.                                                               *)

\* The events q of a capture that is at s: a RUNNING for each claim, then INDEXING,
\* then its end.
Announces(s, q) ==
  /\ s = "NONE" => q = << >>
  /\ s \in {"NONE", "QUEUED", "RENDERING"} =>
       Len(q) <= MaxAttempts /\ \A i \in DOMAIN q : q[i] = "RUNNING"
  /\ s = "PERSISTING" => Len(q) <= MaxAttempts + 1
  /\ Len(q) <= MaxAttempts + 2
  /\ \A i \in DOMAIN q : q[i] \in {"COMPLETED", "FAILED"} => i = Len(q) /\ q[i] = s

\* What the Control Plane shows is an event that was written, and the newest of
\* those it has processed.
Shows(c) ==
  /\ cp[c].version = 0 => cp[c].status \in {"NONE", "QUEUED"}
  /\ cp[c].version > 0 => cp[c].version \in DOMAIN sent[c] /\ cp[c].status = sent[c][cp[c].version]
  /\ \A v : <<c, v>> \in capturePosted => v \in DOMAIN sent[c]
  /\ \A v : <<c, v>> \in captureInbox => v <= cp[c].version

CaptureInv ==
  /\ Capture!MsgTypeOK /\ sent \in [Captures -> Seq(Capture!EventStatuses)]
  /\ captureInbox \subseteq capturePosted /\ captureDelivered \subseteq captureInbox
  /\ \A c \in Captures : Announces(captureStatus[c], sent[c]) /\ Shows(c)

\* As many claims as events, while there are no others.
LEMMA ClaimsAreCounted ==
  ASSUME NEW q \in Seq(Capture!EventStatuses), \A i \in DOMAIN q : q[i] = "RUNNING"
  PROVE  Capture!Claims(q) = Len(q)
<1>1. {i \in DOMAIN q : q[i] = "RUNNING"} = 1 .. Len(q)
  OBVIOUS
<1>2. Len(q) \in Nat
  OBVIOUS
<1>3. Cardinality(1 .. Len(q)) = Len(q)
  BY <1>2, FS_Interval, SMTT(20)
<1>4. Capture!Cardinality(1 .. Len(q)) = Cardinality(1 .. Len(q))
  BY DEF Capture!Cardinality, Cardinality
<1> QED BY <1>1, <1>3, <1>4 DEF Capture!Claims

\* A step of the worker writes at most one event, and the right one.
LEMMA WorkerAnnounces ==
  ASSUME NEW s \in Capture!Statuses, NEW q \in Seq(Capture!EventStatuses), NEW t, NEW r,
         Announces(s, q), s # "NONE", Capture!Advances(s, q, t, r)
  PROVE  /\ r \in Seq(Capture!EventStatuses) /\ t \in Capture!Statuses /\ Announces(t, r)
         /\ DOMAIN q \subseteq DOMAIN r /\ \A i \in DOMAIN q : r[i] = q[i]
         /\ q = r \/ s \notin Capture!Terminal
<1> USE MessagesAssumption
<1>1. s \in {"NONE", "QUEUED", "RENDERING"} => Capture!Claims(q) = Len(q)
  BY ClaimsAreCounted DEF Announces
<1>2. CASE t = "QUEUED" /\ r = q /\ s = "RENDERING"
  BY <1>2 DEF Announces, Capture!Statuses
<1>3. CASE s \in {"QUEUED", "RENDERING"} /\ t = "RENDERING" /\ r = Append(q, "RUNNING") /\ Capture!Claims(q) < MaxAttempts
  BY <1>1, <1>3 DEF Announces, Capture!Statuses, Capture!EventStatuses, Capture!Terminal
<1>4. CASE s = "RENDERING" /\ t = "FAILED" /\ r = Append(q, "FAILED")
  BY <1>4 DEF Announces, Capture!Statuses, Capture!EventStatuses, Capture!Terminal
<1>5. CASE s = "RENDERING" /\ t = "PERSISTING" /\ r = Append(q, "INDEXING")
  BY <1>5 DEF Announces, Capture!Statuses, Capture!EventStatuses, Capture!Terminal
<1>6. CASE s = "PERSISTING" /\ t = "COMPLETED" /\ r = Append(q, "COMPLETED")
  BY <1>6 DEF Announces, Capture!Statuses, Capture!EventStatuses, Capture!Terminal
<1> QED BY <1>2, <1>3, <1>4, <1>5, <1>6 DEF Capture!Advances

LEMMA CaptureStarts == Capture!MsgInit => CaptureInv
BY MessagesAssumption
   DEF Capture!MsgInit, Capture!Init, CaptureInv, Announces, Shows, Capture!MsgTypeOK,
       Capture!Statuses, Capture!EventStatuses, Capture!Event, Capture!MaxVersion

\* Rows of the Control Plane.
CaptureRow == [status : {"NONE", "QUEUED"} \cup Capture!EventStatuses, version : 0 .. Capture!MaxVersion]

LEMMA CaptureStep == ASSUME CaptureInv, Capture!MsgNext PROVE CaptureInv'
<1> USE MessagesAssumption
<1>0. /\ captureStatus \in [Captures -> Capture!Statuses]
      /\ sent \in [Captures -> Seq(Capture!EventStatuses)]
      /\ cp \in [Captures -> CaptureRow]
      /\ captureCommand \in [Captures -> {"NONE", "PENDING", "DELIVERED"}]
      /\ capturePosted \subseteq Capture!Event /\ captureInbox \subseteq capturePosted
      /\ captureDelivered \subseteq captureInbox
      /\ \A c \in Captures : Announces(captureStatus[c], sent[c]) /\ Shows(c)
  BY DEF CaptureInv, Capture!MsgTypeOK, CaptureRow
\* What the types and the parts amount to.
<1> DEFINE Types ==
      /\ captureStatus \in [Captures -> Capture!Statuses]
      /\ sent \in [Captures -> Seq(Capture!EventStatuses)]
      /\ cp \in [Captures -> CaptureRow]
      /\ captureCommand \in [Captures -> {"NONE", "PENDING", "DELIVERED"}]
      /\ capturePosted \subseteq Capture!Event /\ captureInbox \subseteq capturePosted
      /\ captureDelivered \subseteq captureInbox
<1>00. Types' /\ (\A c \in Captures : Announces(captureStatus[c], sent[c])' /\ Shows(c)') => CaptureInv'
  <2> SUFFICES ASSUME Types', \A c \in Captures : Announces(captureStatus[c], sent[c])' /\ Shows(c)'
               PROVE  CaptureInv'
    OBVIOUS
  <2>1. \A c \in Captures : Len(sent'[c]) <= Capture!MaxVersion
    BY DEF Announces, Capture!MaxVersion
  <2>2. captureInbox' \subseteq Capture!Event /\ captureDelivered' \subseteq Capture!Event
    OBVIOUS
  <2> QED BY <2>1, <2>2 DEF CaptureInv, Capture!MsgTypeOK, CaptureRow
<1> HIDE DEF Types
<1>1. ASSUME NEW c \in Captures, Capture!Create(c) PROVE CaptureInv'
  <2>1. /\ cp[c].status = "NONE" /\ cp' = [cp EXCEPT ![c] = [status |-> "QUEUED", version |-> 0]]
        /\ captureCommand' = [captureCommand EXCEPT ![c] = "PENDING"]
        /\ UNCHANGED <<captureStatus, sent, capturePosted, captureInbox, captureDelivered>>
    BY <1>1 DEF Capture!Create
  <2>2. [status |-> "QUEUED", version |-> 0] \in CaptureRow
    BY DEF CaptureRow, Capture!MaxVersion
  <2>3. Types'
    BY <1>0, <2>1, <2>2 DEF Types
  <2>4. cp[c].version = 0
    <3>1. cp[c].version > 0 => cp[c].status \in Capture!EventStatuses
      BY <1>0 DEF Shows
    <3>2. cp[c].version \in Nat
      BY <1>0 DEF CaptureRow
    <3> QED BY <2>1, <3>1, <3>2 DEF Capture!EventStatuses
  <2>5. ASSUME NEW d \in Captures PROVE Announces(captureStatus[d], sent[d])' /\ Shows(d)'
    <3>1. cp'[d].version = cp[d].version /\ (d # c => cp'[d] = cp[d]) /\ cp'[c].status = "QUEUED"
      BY <1>0, <2>1, <2>4
    <3> QED BY <1>0, <2>1, <2>4, <3>1 DEF Shows, Announces
  <2> QED BY <1>00, <2>3, <2>5
<1>2. ASSUME NEW c \in Captures, Capture!DeliverCommand(c) PROVE CaptureInv'
  <2>1. /\ captureStatus[c] = "NONE" /\ captureStatus' = [captureStatus EXCEPT ![c] = "QUEUED"]
        /\ UNCHANGED <<sent, cp, captureCommand, capturePosted, captureInbox, captureDelivered>>
    BY <1>2 DEF Capture!DeliverCommand
  <2>2. Types'
    BY <1>0, <2>1 DEF Types, Capture!Statuses
  <2>3. ASSUME NEW d \in Captures PROVE Announces(captureStatus[d], sent[d])' /\ Shows(d)'
    BY <1>0, <2>1 DEF Shows, Announces
  <2> QED BY <1>00, <2>2, <2>3
<1>3. ASSUME NEW c \in Captures, Capture!CommandAcknowledged(c) PROVE CaptureInv'
  <2>1. /\ captureCommand' = [captureCommand EXCEPT ![c] = "DELIVERED"]
        /\ UNCHANGED <<captureStatus, sent, cp, capturePosted, captureInbox, captureDelivered>>
    BY <1>3 DEF Capture!CommandAcknowledged
  <2>2. Types'
    BY <1>0, <2>1 DEF Types
  <2>3. ASSUME NEW d \in Captures PROVE Announces(captureStatus[d], sent[d])' /\ Shows(d)'
    BY <1>0, <2>1 DEF Shows, Announces
  <2> QED BY <1>00, <2>2, <2>3
<1>4. ASSUME NEW c \in Captures, Capture!WorkerStep(c) PROVE CaptureInv'
  <2>1. PICK t \in Capture!Statuses,
             r \in {sent[c]} \cup {Append(sent[c], e) : e \in Capture!EventStatuses} :
           /\ captureStatus[c] # "NONE" /\ Capture!Advances(captureStatus[c], sent[c], t, r)
           /\ captureStatus' = [captureStatus EXCEPT ![c] = t] /\ sent' = [sent EXCEPT ![c] = r]
    BY <1>4 DEF Capture!WorkerStep
  <2>2. UNCHANGED <<cp, captureCommand, capturePosted, captureInbox, captureDelivered>>
    BY <1>4 DEF Capture!WorkerStep
  <2>3. /\ r \in Seq(Capture!EventStatuses) /\ Announces(t, r)
        /\ DOMAIN sent[c] \subseteq DOMAIN r /\ \A i \in DOMAIN sent[c] : r[i] = sent[c][i]
    BY <1>0, <2>1, WorkerAnnounces
  <2>4. Types'
    BY <1>0, <2>1, <2>2, <2>3 DEF Types
  <2>5. ASSUME NEW d \in Captures PROVE Announces(captureStatus[d], sent[d])' /\ Shows(d)'
    <3>1. /\ captureStatus'[d] = IF d = c THEN t ELSE captureStatus[d]
          /\ sent'[d] = IF d = c THEN r ELSE sent[d]
      BY <1>0, <2>1
    <3>2. Announces(captureStatus'[d], sent'[d])
      BY <1>0, <2>3, <3>1
    <3>3. DOMAIN sent[d] \subseteq DOMAIN sent'[d] /\ \A i \in DOMAIN sent[d] : sent'[d][i] = sent[d][i]
      BY <2>3, <3>1
    <3>4. Shows(d)'
      BY <1>0, <2>2, <3>3 DEF Shows
    <3> QED BY <3>2, <3>4
  <2> QED BY <1>00, <2>4, <2>5
<1>5. ASSUME NEW c \in Captures, NEW v \in 1 .. Capture!MaxVersion, Capture!PostEvent(c, v) PROVE CaptureInv'
  <2>1. /\ v \in DOMAIN sent[c] /\ capturePosted' = capturePosted \cup {<<c, v>>}
        /\ UNCHANGED <<captureStatus, sent, cp, captureCommand, captureInbox, captureDelivered>>
    BY <1>5 DEF Capture!PostEvent
  <2>2. Types'
    BY <1>0, <2>1 DEF Types, Capture!Event
  <2>3. ASSUME NEW d \in Captures PROVE Announces(captureStatus[d], sent[d])' /\ Shows(d)'
    BY <1>0, <2>1 DEF Shows, Announces
  <2> QED BY <1>00, <2>2, <2>3
<1>6. ASSUME NEW c \in Captures, NEW v \in 1 .. Capture!MaxVersion, Capture!RequestLost(c, v) PROVE CaptureInv'
  <2>1. /\ <<c, v>> \notin captureInbox /\ capturePosted' = capturePosted \ {<<c, v>>}
        /\ UNCHANGED <<captureStatus, sent, cp, captureCommand, captureInbox, captureDelivered>>
    BY <1>6 DEF Capture!RequestLost
  <2>2. Types'
    BY <1>0, <2>1 DEF Types
  <2>3. ASSUME NEW d \in Captures PROVE Announces(captureStatus[d], sent[d])' /\ Shows(d)'
    BY <1>0, <2>1 DEF Shows, Announces
  <2> QED BY <1>00, <2>2, <2>3
<1>7. ASSUME NEW c \in Captures, NEW v \in 1 .. Capture!MaxVersion, Capture!Consume(c, v) PROVE CaptureInv'
  <2>1. /\ <<c, v>> \in capturePosted /\ <<c, v>> \notin captureInbox
        /\ cp' = IF Capture!Applies(c, v) THEN [cp EXCEPT ![c] = [status |-> sent[c][v], version |-> v]] ELSE cp
        /\ captureInbox' = captureInbox \cup {<<c, v>>}
        /\ UNCHANGED <<captureStatus, sent, captureCommand, capturePosted, captureDelivered>>
    BY <1>7 DEF Capture!Consume
  <2>2. v \in DOMAIN sent[c] /\ sent[c][v] \in Capture!EventStatuses /\ v \in Nat /\ v > 0
    BY <1>0, <2>1 DEF Shows
  <2>3. [status |-> sent[c][v], version |-> v] \in CaptureRow
    BY <2>2 DEF CaptureRow, Capture!MaxVersion
  <2>4. Types'
    BY <1>0, <2>1, <2>3 DEF Types
  <2>5. cp[c].version \in Nat
    BY <1>0 DEF CaptureRow, Capture!MaxVersion
  <2>6. ~Capture!Applies(c, v) => v <= cp[c].version
    <3> SUFFICES ASSUME cp[c].status \in Capture!Terminal PROVE v <= cp[c].version
      BY <2>2, <2>5 DEF Capture!Applies
    <3>0. Shows(c) /\ cp[c].version # 0
      BY <1>0 DEF Shows, Capture!Terminal
    <3>1. cp[c].version \in DOMAIN sent[c] /\ sent[c][cp[c].version] \in {"COMPLETED", "FAILED"}
      <4>1. cp[c].version > 0
        BY <2>5, <3>0
      <4> QED BY <3>0, <4>1 DEF Shows, Capture!Terminal
    <3>2. cp[c].version = Len(sent[c])
      BY <1>0, <3>1 DEF Announces
    <3> QED BY <1>0, <2>2, <3>2
  <2>7. ASSUME NEW d \in Captures PROVE Announces(captureStatus[d], sent[d])' /\ Shows(d)'
    <3>1. Announces(captureStatus[d], sent[d])'
      BY <1>0, <2>1
    <3>2. CASE d # c
      <4>1. cp'[d] = cp[d] /\ \A u : <<d, u>> \in captureInbox' => <<d, u>> \in captureInbox
        BY <1>0, <2>1, <3>2
      <4> QED BY <1>0, <2>1, <3>1, <4>1 DEF Shows
    <3>3. CASE d = c /\ Capture!Applies(c, v)
      <4>1. cp'[c] = [status |-> sent[c][v], version |-> v] /\ v > cp[c].version
        BY <1>0, <2>1, <3>3 DEF Capture!Applies
      <4>2. \A u : <<c, u>> \in captureInbox' => u <= v
        <5>1. \A u : <<c, u>> \in captureInbox => u \in Nat /\ u <= cp[c].version
          BY <1>0 DEF Shows
        <5> QED BY <2>1, <2>2, <2>5, <4>1, <5>1
      <4>3. \A u : <<c, u>> \in capturePosted => u \in DOMAIN sent[c]
        BY <1>0 DEF Shows
      <4> QED BY <2>1, <2>2, <3>1, <3>3, <4>1, <4>2, <4>3 DEF Shows
    <3>4. CASE d = c /\ ~Capture!Applies(c, v)
      <4>1. cp' = cp /\ \A u : <<c, u>> \in captureInbox' => u <= cp[c].version
        BY <1>0, <2>1, <2>6, <3>4 DEF Shows
      <4> QED BY <1>0, <2>1, <3>1, <3>4, <4>1 DEF Shows
    <3> QED BY <3>2, <3>3, <3>4
  <2> QED BY <1>00, <2>4, <2>7
<1>8. ASSUME NEW c \in Captures, NEW v \in 1 .. Capture!MaxVersion, Capture!EventAcknowledged(c, v) PROVE CaptureInv'
  <2>1. /\ <<c, v>> \in captureInbox /\ captureDelivered' = captureDelivered \cup {<<c, v>>}
        /\ UNCHANGED <<captureStatus, sent, cp, captureCommand, capturePosted, captureInbox>>
    BY <1>8 DEF Capture!EventAcknowledged
  <2>2. Types'
    BY <1>0, <2>1 DEF Types
  <2>3. ASSUME NEW d \in Captures PROVE Announces(captureStatus[d], sent[d])' /\ Shows(d)'
    BY <1>0, <2>1 DEF Shows, Announces
  <2> QED BY <1>00, <2>2, <2>3
<1> QED BY <1>1, <1>2, <1>3, <1>4, <1>5, <1>6, <1>7, <1>8 DEF Capture!MsgNext

\* What the invariant says of what is shown of a capture.
LEMMA CaptureShown == ASSUME CaptureInv PROVE Capture!MsgTypeOK /\ Capture!NewestEventWins /\ Capture!EndIsReal
<1>1. Capture!NewestEventWins
  BY DEF CaptureInv, Shows, Capture!NewestEventWins
<1>2. ASSUME NEW c \in Captures, cp[c].status \in Capture!Terminal PROVE cp[c].status = captureStatus[c]
  <2>1. cp[c].version \in Nat
    BY DEF CaptureInv, Capture!MsgTypeOK
  <2>2. cp[c].version \in DOMAIN sent[c] /\ sent[c][cp[c].version] = cp[c].status
    BY <1>2, <2>1 DEF CaptureInv, Shows, Capture!Terminal
  <2> QED BY <1>2, <2>2 DEF CaptureInv, Announces, Capture!Terminal
<1> QED BY <1>1, <1>2 DEF CaptureInv, Capture!EndIsReal

\* No step takes what is shown of a capture back.
LEMMA CaptureForward ==
  ASSUME CaptureInv, Capture!MsgNext, NEW c \in Captures
  PROVE  (cp[c].status \in Capture!Terminal => cp'[c] = cp[c]) /\ cp'[c].version >= cp[c].version
<1>1. cp[c].version \in Nat /\ cp \in [Captures -> CaptureRow]
  BY MessagesAssumption DEF CaptureInv, Capture!MsgTypeOK, CaptureRow, Capture!MaxVersion
<1>2. ASSUME NEW d \in Captures, Capture!Create(d)
      PROVE  (cp[c].status \in Capture!Terminal => cp'[c] = cp[c]) /\ cp'[c].version >= cp[c].version
  <2>1. cp[d].status = "NONE" /\ cp' = [cp EXCEPT ![d] = [status |-> "QUEUED", version |-> 0]]
    BY <1>2 DEF Capture!Create
  <2>2. cp[d].version = 0
    <3>1. cp[d].version > 0 => cp[d].status \in Capture!EventStatuses
      BY DEF CaptureInv, Shows
    <3>2. cp[d].version \in Nat
      BY MessagesAssumption DEF CaptureInv, Capture!MsgTypeOK, Capture!MaxVersion
    <3> QED BY <2>1, <3>1, <3>2 DEF Capture!EventStatuses
  <2> QED BY <1>1, <2>1, <2>2 DEF Capture!Terminal
<1>3. ASSUME NEW d \in Captures, NEW v \in 1 .. Capture!MaxVersion, Capture!Consume(d, v)
      PROVE  (cp[c].status \in Capture!Terminal => cp'[c] = cp[c]) /\ cp'[c].version >= cp[c].version
  <2>1. CASE Capture!Applies(d, v) /\ c = d
    <3>1. cp'[c].version = v /\ v > cp[c].version /\ cp[c].status \notin Capture!Terminal
      BY <1>1, <1>3, <2>1 DEF Capture!Consume, Capture!Applies
    <3> QED BY <1>1, <3>1
  <2>2. CASE ~(Capture!Applies(d, v) /\ c = d)
    <3>1. cp'[c] = cp[c]
      BY <1>1, <1>3, <2>2 DEF Capture!Consume
    <3> QED BY <1>1, <3>1
  <2> QED BY <2>1, <2>2
<1>4. CASE cp' = cp
  BY <1>1, <1>4
<1> QED
  BY <1>2, <1>3, <1>4
     DEF Capture!MsgNext, Capture!DeliverCommand, Capture!CommandAcknowledged, Capture!WorkerStep,
         Capture!PostEvent, Capture!RequestLost, Capture!EventAcknowledged

-----------------------------------------------------------------------------
(* A site clone.                                                           *)

\* The events q of a clone's job that is at s: an end is the last, unless what was
\* published expired afterwards.
EndsLast(s, q) ==
  \A v \in DOMAIN q : q[v] \in Site!Ended =>
    \/ v = Len(q) /\ q[v] = s
    \/ v = Len(q) - 1 /\ q[v] \in {"PUBLISHED", "PARTIAL"} /\ s = "EXPIRED"

JobStatus == {"NONE", "CANCEL_REQUESTED"} \cup Site!Active \cup Site!Ended
JobEvent == Site!Ended \cup {"RUNNING", "ASSEMBLING"}
CloneRow == [status : {"WAITING_FOR_SCAN", "QUEUED", "RUNNING", "ASSEMBLING", "CANCEL_REQUESTED"}
                      \cup Site!Ended,
             version : 0 .. MaxSiteEvents]

\* The tables.
SiteTypes ==
  /\ siteStatus \in JobStatus /\ asked \in BOOLEAN /\ siteClone \in CloneRow
  /\ siteEvents \in Seq(JobEvent) /\ Len(siteEvents) <= MaxSiteEvents
  /\ siteCommand \in [Site!Commands -> {"NONE", "PENDING", "DELIVERED"}]
  /\ siteDelivered \subseteq siteInbox /\ siteInbox \subseteq sitePosted
  /\ sitePosted \subseteq DOMAIN siteEvents

\* What the Control Plane shows is an event that was written, unless its owner
\* cancelled it.
ShowsClone ==
  /\ siteClone.version = 0 =>
       \/ siteClone.status \in {"WAITING_FOR_SCAN", "QUEUED"}
       \/ siteClone.status = "CANCELLED" /\ siteCommand["CANCEL"] # "NONE"
  /\ siteClone.version > 0 =>
       /\ siteClone.version \in DOMAIN siteEvents
       /\ siteClone.status \in {siteEvents[siteClone.version], "CANCEL_REQUESTED"}

\* A cancellation is acknowledged by a worker that has taken it for its job.
CancellationTaken ==
  /\ asked => siteStatus # "NONE"
  /\ siteCommand["CANCEL"] = "DELIVERED" => asked

SiteInv == SiteTypes /\ EndsLast(siteStatus, siteEvents) /\ ShowsClone /\ CancellationTaken

LEMMA SiteStarts == Site!MsgInit => SiteInv
<1> SUFFICES ASSUME Site!MsgInit PROVE SiteInv
  OBVIOUS
<1> USE MessagesAssumption
<1>1. /\ siteStatus = "NONE" /\ siteEvents = << >> /\ asked = FALSE
      /\ siteClone = [status |-> "WAITING_FOR_SCAN", version |-> 0]
      /\ siteCommand = [m \in Site!Commands |-> "NONE"]
      /\ sitePosted = {} /\ siteInbox = {} /\ siteDelivered = {}
  BY DEF Site!MsgInit, Site!Init
<1>2. siteClone \in CloneRow
  BY <1>1 DEF CloneRow
<1>3. SiteTypes
  <2>1. siteStatus \in JobStatus /\ asked \in BOOLEAN
    BY <1>1 DEF JobStatus
  <2>2. siteEvents \in Seq(JobEvent) /\ Len(siteEvents) = 0
    BY <1>1
  <2> QED BY <1>1, <1>2, <2>1, <2>2 DEF SiteTypes
<1>4. EndsLast(siteStatus, siteEvents) /\ ShowsClone
  BY <1>1 DEF EndsLast, ShowsClone
<1>5. siteCommand["CANCEL"] = "NONE"
  BY <1>1 DEF Site!Commands
<1> QED BY <1>1, <1>3, <1>4, <1>5 DEF SiteInv, CancellationTaken

\* A job that has not ended has announced no end.
LEMMA NoEndBefore ==
  ASSUME NEW s, NEW q, EndsLast(s, q), s \notin Site!Ended
  PROVE  \A v \in DOMAIN q : q[v] \notin Site!Ended
BY DEF EndsLast, Site!Ended

\* An event is written after the others.
LEMMA EventWritten ==
  ASSUME SiteInv, NEW e \in JobEvent, NEW t \in JobStatus,
         siteEvents' = Append(siteEvents, e), siteStatus' = t,
         Len(siteEvents) < MaxSiteEvents, t # "NONE",
         UNCHANGED <<asked, siteClone, siteCommand, sitePosted, siteInbox, siteDelivered>>,
         \/ siteStatus \notin Site!Ended /\ (e \in Site!Ended => t = e)
         \/ siteStatus \in {"PUBLISHED", "PARTIAL"} /\ e = "EXPIRED" /\ t = "EXPIRED"
  PROVE  SiteInv'
<1>1. /\ siteEvents \in Seq(JobEvent) /\ Len(siteEvents) \in Nat
      /\ EndsLast(siteStatus, siteEvents) /\ MaxSiteEvents \in Nat
  BY MessagesAssumption DEF SiteInv, SiteTypes
<1>2. /\ Len(siteEvents') = Len(siteEvents) + 1 /\ siteEvents' \in Seq(JobEvent)
      /\ DOMAIN siteEvents' = 1 .. Len(siteEvents) + 1 /\ DOMAIN siteEvents = 1 .. Len(siteEvents)
      /\ siteEvents'[Len(siteEvents) + 1] = e
      /\ \A v \in DOMAIN siteEvents : siteEvents'[v] = siteEvents[v]
  BY <1>1
<1>3. SiteTypes'
  BY <1>1, <1>2 DEF SiteInv, SiteTypes
<1>4. EndsLast(siteStatus', siteEvents')
  <2>1. CASE siteStatus \notin Site!Ended /\ (e \in Site!Ended => t = e)
    <3>1. \A v \in DOMAIN siteEvents : siteEvents[v] \notin Site!Ended
      BY <1>1, <2>1, NoEndBefore
    <3>2. ASSUME NEW v \in DOMAIN siteEvents', siteEvents'[v] \in Site!Ended
          PROVE  v = Len(siteEvents') /\ siteEvents'[v] = siteStatus'
      BY <1>1, <1>2, <2>1, <3>1, <3>2
    <3> QED BY <3>2 DEF EndsLast
  <2>2. CASE siteStatus \in {"PUBLISHED", "PARTIAL"} /\ e = "EXPIRED" /\ t = "EXPIRED"
    <3>1. \A v \in DOMAIN siteEvents : siteEvents[v] \in Site!Ended =>
             v = Len(siteEvents) /\ siteEvents[v] \in {"PUBLISHED", "PARTIAL"}
      BY <1>1, <2>2 DEF EndsLast
    <3> QED BY <1>1, <1>2, <2>2, <3>1 DEF EndsLast
  <2> QED BY <2>1, <2>2
<1>5. ShowsClone'
  BY <1>1, <1>2 DEF SiteInv, ShowsClone
<1>6. CancellationTaken'
  BY DEF SiteInv, CancellationTaken
<1> QED BY <1>3, <1>4, <1>5, <1>6 DEF SiteInv

\* The status moves on without an event.
LEMMA StatusMoves ==
  ASSUME SiteInv, NEW t \in JobStatus \ {"NONE"}, siteStatus' = t, UNCHANGED siteEvents,
         siteStatus \notin Site!Ended \/ t = siteStatus,
         siteCommand["CANCEL"] = "PENDING" \/ asked' = asked, asked' \in BOOLEAN,
         UNCHANGED <<siteClone, siteCommand, sitePosted, siteInbox, siteDelivered>>
  PROVE  SiteInv'
<1>1. EndsLast(siteStatus', siteEvents')
  <2>1. CASE siteStatus \notin Site!Ended
    <3>1. \A v \in DOMAIN siteEvents : siteEvents[v] \notin Site!Ended
      BY <2>1, NoEndBefore DEF SiteInv
    <3> QED BY <3>1 DEF EndsLast
  <2>2. CASE t = siteStatus
    BY <2>2 DEF SiteInv, EndsLast
  <2> QED BY <2>1, <2>2
<1>2. SiteTypes'
  BY DEF SiteInv, SiteTypes
<1>3. ShowsClone'
  BY DEF SiteInv, ShowsClone
<1>4. CancellationTaken'
  BY DEF SiteInv, CancellationTaken
<1> QED BY <1>1, <1>2, <1>3, <1>4 DEF SiteInv

LEMMA SiteStep == ASSUME SiteInv, Site!MsgNext PROVE SiteInv'
<1> USE MessagesAssumption
<1>0. /\ SiteTypes /\ EndsLast(siteStatus, siteEvents) /\ ShowsClone /\ CancellationTaken
      /\ siteClone.version \in Nat /\ siteClone \in CloneRow
  BY DEF SiteInv, SiteTypes, CloneRow
<1>1. CASE Site!MarkReadyForDispatch
  <2>1. /\ siteClone.status = "WAITING_FOR_SCAN" /\ siteClone' = [siteClone EXCEPT !.status = "QUEUED"]
        /\ siteCommand' = [siteCommand EXCEPT !["REQUEST"] = "PENDING"]
        /\ UNCHANGED <<siteStatus, siteEvents, asked, sitePosted, siteInbox, siteDelivered>>
    BY <1>1 DEF Site!MarkReadyForDispatch
  <2>2. siteClone.version = 0
    <3>1. siteClone.version > 0 => siteEvents[siteClone.version] \in JobEvent
      BY <1>0 DEF ShowsClone, SiteTypes
    <3> QED BY <1>0, <2>1, <3>1 DEF ShowsClone, JobEvent, Site!Ended
  <2>3. siteClone' \in CloneRow /\ siteClone'.version = 0 /\ siteClone'.status = "QUEUED"
    BY <1>0, <2>1, <2>2 DEF CloneRow
  <2>4. siteCommand' \in [Site!Commands -> {"NONE", "PENDING", "DELIVERED"}] /\ siteCommand'["CANCEL"] = siteCommand["CANCEL"]
    BY <1>0, <2>1 DEF SiteTypes, Site!Commands
  <2>5. SiteTypes'
    BY <1>0, <2>1, <2>3, <2>4 DEF SiteTypes
  <2>6. ShowsClone' /\ CancellationTaken'
    BY <1>0, <2>1, <2>3, <2>4 DEF ShowsClone, CancellationTaken
  <2> QED BY <1>0, <2>1, <2>5, <2>6 DEF SiteInv
<1>2. CASE Site!Cancel
  <2>1. /\ siteClone.status \notin Site!Ended \cup {"WAITING_FOR_SCAN", "CANCEL_REQUESTED"}
        /\ siteClone' = [siteClone EXCEPT !.status = IF siteClone.status = "QUEUED" THEN "CANCELLED" ELSE "CANCEL_REQUESTED"]
        /\ siteCommand' = [siteCommand EXCEPT !["CANCEL"] = "PENDING"]
        /\ UNCHANGED <<siteStatus, siteEvents, asked, sitePosted, siteInbox, siteDelivered>>
    BY <1>2 DEF Site!Cancel
  <2>2. siteClone.version = 0 <=> siteClone.status = "QUEUED"
    <3>1. siteClone.version > 0 => siteEvents[siteClone.version] \in JobEvent
      BY <1>0 DEF ShowsClone, SiteTypes
    <3> QED BY <1>0, <2>1, <3>1 DEF ShowsClone, JobEvent, Site!Ended
  <2>3. /\ siteClone' \in CloneRow /\ siteClone'.version = siteClone.version
        /\ siteClone'.status = IF siteClone.status = "QUEUED" THEN "CANCELLED" ELSE "CANCEL_REQUESTED"
    BY <1>0, <2>1 DEF CloneRow, Site!Ended
  <2>4. siteCommand' \in [Site!Commands -> {"NONE", "PENDING", "DELIVERED"}] /\ siteCommand'["CANCEL"] = "PENDING"
    BY <1>0, <2>1 DEF SiteTypes, Site!Commands
  <2>5. SiteTypes'
    BY <1>0, <2>1, <2>3, <2>4 DEF SiteTypes
  <2>6. ShowsClone' /\ CancellationTaken'
    BY <1>0, <2>1, <2>2, <2>3, <2>4 DEF ShowsClone, CancellationTaken
  <2> QED BY <1>0, <2>1, <2>5, <2>6 DEF SiteInv
<1>3. CASE Site!DeliverRequest
  <2>1. siteStatus = "NONE" /\ siteStatus' = "INGESTING"
        /\ UNCHANGED <<siteEvents, asked, siteClone, siteCommand, sitePosted, siteInbox, siteDelivered>>
    BY <1>3 DEF Site!DeliverRequest
  <2>2. "INGESTING" \in JobStatus \ {"NONE"} /\ siteStatus \notin Site!Ended
    BY <2>1 DEF JobStatus, Site!Active, Site!Ended
  <2> QED BY <1>0, <2>1, <2>2, StatusMoves DEF SiteTypes
<1>4. CASE Site!DeliverCancellation
  <2>1. /\ siteCommand["CANCEL"] = "PENDING" /\ siteStatus # "NONE" /\ asked' = TRUE
        /\ siteStatus' = IF siteStatus \in Site!Ended THEN siteStatus ELSE "CANCEL_REQUESTED"
        /\ UNCHANGED <<siteEvents, siteClone, siteCommand, sitePosted, siteInbox, siteDelivered>>
    BY <1>4 DEF Site!DeliverCancellation
  <2>2. siteStatus' \in JobStatus \ {"NONE"} /\ (siteStatus \notin Site!Ended \/ siteStatus' = siteStatus)
    BY <1>0, <2>1 DEF SiteTypes, JobStatus, Site!Ended
  <2> QED BY <2>1, <2>2, StatusMoves
<1>5. CASE Site!JobAdvances
  <2>1. PICK t \in {"RUNNING", "ASSEMBLING"} :
          /\ <<siteStatus, t>> \in (Site!Moves \ {<<"ASSEMBLING", "RUNNING">>}) \cup {<<"ASSEMBLING", "ASSEMBLING">>}
          /\ Site!Announced(siteStatus, t) => Len(siteEvents) < MaxSiteEvents - 2
          /\ siteStatus' = t
          /\ siteEvents' = IF Site!Announced(siteStatus, t) THEN Append(siteEvents, t) ELSE siteEvents
    BY <1>5 DEF Site!JobAdvances
  <2>2. UNCHANGED <<asked, siteClone, siteCommand, sitePosted, siteInbox, siteDelivered>>
    BY <1>5 DEF Site!JobAdvances
  <2>3. siteStatus \notin Site!Ended
    BY <2>1 DEF Site!Moves, Site!Active, Site!Ended
  <2>4. t \in JobEvent /\ t \in JobStatus \ {"NONE"} /\ t \notin Site!Ended
    BY DEF JobEvent, JobStatus, Site!Active, Site!Ended
  <2>5. CASE Site!Announced(siteStatus, t)
    <3>1. Len(siteEvents) < MaxSiteEvents /\ siteEvents' = Append(siteEvents, t)
      BY <1>0, <2>1, <2>5 DEF SiteTypes
    <3> QED BY <2>1, <2>2, <2>3, <2>4, <3>1, EventWritten
  <2>6. CASE ~Site!Announced(siteStatus, t)
    BY <1>0, <2>1, <2>2, <2>3, <2>4, <2>6, StatusMoves DEF SiteTypes
  <2> QED BY <2>5, <2>6
<1>6. CASE Site!JobOverdue
  <2>1. siteStatus \in Site!Active /\ siteStatus' \in {"CANCEL_REQUESTED", "RUNNING"}
        /\ UNCHANGED <<siteEvents, asked, siteClone, siteCommand, sitePosted, siteInbox, siteDelivered>>
    BY <1>6 DEF Site!JobOverdue, Site!Active
  <2>2. siteStatus' \in JobStatus \ {"NONE"} /\ siteStatus \notin Site!Ended
    BY <2>1 DEF JobStatus, Site!Active, Site!Ended
  <2> QED BY <1>0, <2>1, <2>2, StatusMoves DEF SiteTypes
<1>7. CASE Site!Progress
  <2>1. /\ siteStatus \in {"RUNNING", "CANCEL_REQUESTED"} /\ Len(siteEvents) < MaxSiteEvents - 2
        /\ siteEvents' = Append(siteEvents, "RUNNING")
        /\ UNCHANGED <<siteStatus, asked, siteClone, siteCommand, sitePosted, siteInbox, siteDelivered>>
    BY <1>7 DEF Site!Progress
  <2>2. /\ "RUNNING" \in JobEvent /\ siteStatus \in JobStatus \ {"NONE"} /\ siteStatus \notin Site!Ended
        /\ "RUNNING" \notin Site!Ended
    BY <2>1 DEF JobEvent, JobStatus, Site!Active, Site!Ended
  <2>3. Len(siteEvents) < MaxSiteEvents /\ siteStatus' = siteStatus
    BY <1>0, <2>1 DEF SiteTypes
  <2> QED BY <2>1, <2>2, <2>3, EventWritten
<1>8. CASE Site!JobEnds
  <2>1. PICK t \in Site!Ended : /\ <<siteStatus, t>> \in Site!Moves /\ Len(siteEvents) < MaxSiteEvents
                                /\ siteStatus' = t /\ siteEvents' = Append(siteEvents, t)
    BY <1>8 DEF Site!JobEnds
  <2>2. UNCHANGED <<asked, siteClone, siteCommand, sitePosted, siteInbox, siteDelivered>>
    BY <1>8 DEF Site!JobEnds
  <2>3. \/ siteStatus \notin Site!Ended
        \/ siteStatus \in {"PUBLISHED", "PARTIAL"} /\ t = "EXPIRED"
    BY <2>1 DEF Site!Moves, Site!Active, Site!Ended
  <2>4. t \in JobEvent /\ t \in JobStatus /\ t # "NONE"
    BY DEF JobEvent, JobStatus, Site!Active, Site!Ended
  <2> QED BY <2>1, <2>2, <2>3, <2>4, EventWritten
<1>9. ASSUME NEW m \in Site!Commands, Site!CommandAcknowledged(m) PROVE SiteInv'
  <2>1. /\ siteCommand[m] = "PENDING" /\ (m = "CANCEL" => asked)
        /\ siteCommand' = [siteCommand EXCEPT ![m] = "DELIVERED"]
        /\ UNCHANGED <<siteStatus, siteEvents, asked, siteClone, sitePosted, siteInbox, siteDelivered>>
    BY <1>9 DEF Site!CommandAcknowledged, Site!Answered
  <2>2. /\ siteCommand' \in [Site!Commands -> {"NONE", "PENDING", "DELIVERED"}]
        /\ siteCommand["CANCEL"] # "NONE" => siteCommand'["CANCEL"] # "NONE"
        /\ siteCommand'["CANCEL"] = "DELIVERED" => asked
    BY <1>0, <2>1 DEF SiteTypes, CancellationTaken, Site!Commands
  <2>3. SiteTypes'
    BY <1>0, <2>1, <2>2 DEF SiteTypes
  <2>4. ShowsClone' /\ CancellationTaken'
    BY <1>0, <2>1, <2>2 DEF ShowsClone, CancellationTaken
  <2> QED BY <1>0, <2>1, <2>3, <2>4 DEF SiteInv
<1>10. ASSUME NEW v \in Site!Versions, Site!Consume(v) PROVE SiteInv'
  <2>1. /\ v \in sitePosted \ siteInbox /\ siteInbox' = siteInbox \cup {v}
        /\ siteClone' = IF Site!Applies(v) THEN [status |-> siteEvents[v], version |-> v] ELSE siteClone
        /\ UNCHANGED <<siteStatus, siteEvents, asked, siteCommand, sitePosted, siteDelivered>>
    BY <1>10 DEF Site!Consume
  <2>2. v \in DOMAIN siteEvents /\ siteEvents[v] \in JobEvent /\ v \in 1 .. MaxSiteEvents
    BY <1>0, <2>1 DEF SiteTypes
  <2>3. [status |-> siteEvents[v], version |-> v] \in CloneRow
    BY <2>2 DEF CloneRow, JobEvent
  <2>4. SiteTypes'
    BY <1>0, <2>1, <2>3 DEF SiteTypes
  <2>5. ShowsClone'
    <3>1. CASE Site!Applies(v)
      <4>1. siteClone'.version = v /\ siteClone'.status = siteEvents[v]
        BY <2>1, <3>1
      <4> QED BY <2>1, <2>2, <4>1 DEF ShowsClone
    <3>2. CASE ~Site!Applies(v)
      BY <1>0, <2>1, <3>2 DEF ShowsClone
    <3> QED BY <3>1, <3>2
  <2>6. CancellationTaken'
    BY <1>0, <2>1 DEF CancellationTaken
  <2> QED BY <1>0, <2>1, <2>4, <2>5, <2>6 DEF SiteInv
<1>11. ASSUME NEW v \in Site!Versions, Site!PostEvent(v) \/ Site!RequestLost(v) \/ Site!EventAcknowledged(v)
       PROVE  SiteInv'
  <2>1. /\ UNCHANGED <<siteStatus, siteEvents, asked, siteClone, siteCommand, siteInbox>>
        /\ siteDelivered' \subseteq siteInbox /\ siteInbox \subseteq sitePosted' /\ sitePosted' \subseteq DOMAIN siteEvents
    BY <1>0, <1>11 DEF Site!PostEvent, Site!RequestLost, Site!EventAcknowledged, SiteTypes
  <2>2. SiteTypes'
    BY <1>0, <2>1 DEF SiteTypes
  <2>3. ShowsClone' /\ CancellationTaken'
    BY <1>0, <2>1 DEF ShowsClone, CancellationTaken
  <2> QED BY <1>0, <2>1, <2>2, <2>3 DEF SiteInv
<1> QED BY <1>1, <1>2, <1>3, <1>4, <1>5, <1>6, <1>7, <1>8, <1>9, <1>10, <1>11 DEF Site!MsgNext

\* What the invariant says of what is shown of a clone.
LEMMA CloneShown == ASSUME SiteInv PROVE Site!MsgTypeOK /\ Site!EndIsReal /\ Site!CancellationReachesJob
<1>1. Site!MsgTypeOK
  <2>0. DOMAIN siteEvents = 1 .. Len(siteEvents) /\ Len(siteEvents) \in Nat /\ Len(siteEvents) <= MaxSiteEvents
    BY DEF SiteInv, SiteTypes
  <2>1. DOMAIN siteEvents \subseteq Site!Versions
    BY MessagesAssumption, <2>0 DEF Site!Versions
  <2>2. \A v \in DOMAIN siteEvents : siteEvents[v] \in JobEvent
    BY DEF SiteInv, SiteTypes
  <2> QED BY <2>1, <2>2 DEF SiteInv, SiteTypes, Site!MsgTypeOK, JobStatus, JobEvent, CloneRow
<1>2. Site!EndIsReal
  <2> SUFFICES ASSUME siteClone.status \in Site!Ended
               PROVE  \/ siteClone.status = siteStatus
                      \/ siteClone.status \in {"PUBLISHED", "PARTIAL"} /\ siteStatus = "EXPIRED"
                      \/ siteClone.status = "CANCELLED" /\ siteClone.version = 0 /\ siteCommand["CANCEL"] # "NONE"
    BY DEF Site!EndIsReal
  <2>1. siteClone.version \in Nat
    BY DEF SiteInv, SiteTypes, CloneRow
  <2>2. CASE siteClone.version = 0
    BY <2>2 DEF SiteInv, ShowsClone, Site!Ended
  <2>3. CASE siteClone.version > 0
    <3>1. siteClone.version \in DOMAIN siteEvents /\ siteEvents[siteClone.version] = siteClone.status
      BY <2>3 DEF SiteInv, ShowsClone, Site!Ended
    <3> QED BY <3>1 DEF SiteInv, EndsLast
  <2> QED BY <2>1, <2>2, <2>3
<1>3. Site!CancellationReachesJob
  BY DEF SiteInv, CancellationTaken, Site!CancellationReachesJob
<1> QED BY <1>1, <1>2, <1>3

\* No step takes what is shown of a clone back.
LEMMA CloneForward ==
  ASSUME SiteInv, Site!MsgNext
  PROVE  /\ siteClone.status = "CANCEL_REQUESTED" => siteClone'.status \in Site!Ended \cup {"CANCEL_REQUESTED"}
         /\ siteClone'.version >= siteClone.version
         /\ siteClone.status \in Site!Ended => siteClone' = siteClone
<1>1. siteClone \in CloneRow /\ siteClone.version \in Nat
  BY DEF SiteInv, SiteTypes, CloneRow
<1> DEFINE Forwards ==
         /\ siteClone.status = "CANCEL_REQUESTED" => siteClone'.status \in Site!Ended \cup {"CANCEL_REQUESTED"}
         /\ siteClone'.version >= siteClone.version
         /\ siteClone.status \in Site!Ended => siteClone' = siteClone
<1>2. CASE siteClone' = siteClone
  BY <1>1, <1>2
<1>3. CASE Site!MarkReadyForDispatch
  <2>1. siteClone.status = "WAITING_FOR_SCAN" /\ siteClone' = [siteClone EXCEPT !.status = "QUEUED"]
    BY <1>3 DEF Site!MarkReadyForDispatch
  <2>2. siteClone'.version = siteClone.version
    BY <1>1, <2>1 DEF CloneRow
  <2> QED BY <1>1, <2>1, <2>2 DEF Site!Ended
<1>4. CASE Site!Cancel
  <2>1. /\ siteClone.status \notin Site!Ended \cup {"WAITING_FOR_SCAN", "CANCEL_REQUESTED"}
        /\ siteClone' = [siteClone EXCEPT !.status = IF siteClone.status = "QUEUED" THEN "CANCELLED" ELSE "CANCEL_REQUESTED"]
    BY <1>4 DEF Site!Cancel
  <2>2. siteClone'.version = siteClone.version
    BY <1>1, <2>1 DEF CloneRow
  <2> QED BY <1>1, <2>1, <2>2
<1>5. ASSUME NEW v \in Site!Versions, Site!Consume(v), Site!Applies(v) PROVE Forwards
  <2>1. siteClone' = [status |-> siteEvents[v], version |-> v]
    BY <1>5 DEF Site!Consume
  <2>2. siteClone'.status = siteEvents[v] /\ siteClone'.version = v
    BY <2>1
  <2>3. v \in Nat
    BY MessagesAssumption DEF Site!Versions
  <2> QED BY <1>1, <1>5, <2>2, <2>3 DEF Site!Applies
<1>6. ASSUME NEW v \in Site!Versions, Site!Consume(v), ~Site!Applies(v) PROVE siteClone' = siteClone
  BY <1>6 DEF Site!Consume
<1> QED
  BY <1>2, <1>3, <1>4, <1>5, <1>6
     DEF Site!MsgNext, Site!DeliverRequest, Site!DeliverCancellation, Site!JobAdvances, Site!JobOverdue,
         Site!Progress, Site!JobEnds, Site!CommandAcknowledged, Site!PostEvent, Site!RequestLost,
         Site!EventAcknowledged

-----------------------------------------------------------------------------
(* Both.                                                                   *)

WorkersInv == CaptureInv /\ SiteInv

LEMMA UntouchedCapture == ASSUME CaptureInv, UNCHANGED captureVars PROVE CaptureInv'
<1>1. \A c \in Captures : (Announces(captureStatus[c], sent[c]) <=> Announces(captureStatus[c], sent[c])')
                          /\ (Shows(c) <=> Shows(c)')
  BY DEF captureVars, Announces, Shows
<1> QED BY <1>1 DEF CaptureInv, captureVars, Capture!MsgTypeOK

LEMMA UntouchedSite == ASSUME SiteInv, UNCHANGED siteVars PROVE SiteInv'
<1>1. SiteTypes' /\ ShowsClone' /\ CancellationTaken' /\ EndsLast(siteStatus', siteEvents')
  BY DEF SiteInv, siteVars, SiteTypes, ShowsClone, CancellationTaken, EndsLast
<1> QED BY <1>1 DEF SiteInv

\* What is known of captures and clones holds in every reachable state.
THEOREM WorkersInvariant == MessagesSpec => []WorkersInv
<1>1. MessagesInit => WorkersInv
  BY CaptureStarts, SiteStarts DEF MessagesInit, WorkersInv
<1>2. WorkersInv /\ [MessagesNext]_messageVars => WorkersInv'
  <2> SUFFICES ASSUME WorkersInv, [MessagesNext]_messageVars PROVE WorkersInv'
    OBVIOUS
  <2>1. Capture!MsgNext \/ UNCHANGED captureVars
    BY DEF MessagesNext, messageVars
  <2>2. Site!MsgNext \/ UNCHANGED siteVars
    BY DEF MessagesNext, messageVars
  <2> QED BY <2>1, <2>2, CaptureStep, SiteStep, UntouchedCapture, UntouchedSite DEF WorkersInv
<1> QED BY <1>1, <1>2, PTL DEF MessagesSpec

\* For any number of captures and attempts, and events lost, late, repeated and in
\* any order: what the Control Plane shows of a capture or a clone is the newest
\* event it was told, its end is how the worker ended it, and an acknowledged
\* cancellation is in the worker's inbox.
THEOREM WorkersAlwaysAgree == MessagesSpec => []WorkersAgree
<1>1. WorkersInv => WorkersAgree
  BY CaptureShown, CloneShown DEF WorkersInv, WorkersAgree
<1> QED BY <1>1, WorkersInvariant, PTL

\* The scans among the messages are those of ScanMessaging.
LEMMA ScansOfMessages == MessagesSpec => Spec
<1>1. MessagesInit => Init
  BY DEF MessagesInit
<1>2. [MessagesNext]_messageVars => [Next]_vars
  BY DEF MessagesNext, messageVars
<1> QED BY <1>1, <1>2, PTL DEF MessagesSpec, Spec

\* Whatever is lost, late or repeated, and in whatever order: the progress the user
\* sees of a scan, a capture or a clone never goes back, an end or a cancellation
\* stays, and a closed clone hears nothing more.
THEOREM ProjectionsAlwaysForward == MessagesSpec => ProjectionsMoveForward
<1>1. WorkersInv /\ [MessagesNext]_messageVars =>
        [\A c \in Captures :
            /\ cp[c].status \in Capture!Terminal => cp'[c] = cp[c]
            /\ cp'[c].version >= cp[c].version]_captureVars
  BY CaptureForward DEF WorkersInv, MessagesNext, messageVars
<1>2. WorkersInv /\ [MessagesNext]_messageVars =>
        [/\ siteClone.status = "CANCEL_REQUESTED" => siteClone'.status \in Site!Ended \cup {"CANCEL_REQUESTED"}
         /\ siteClone'.version >= siteClone.version
         /\ siteClone.status \in Site!Ended => siteClone' = siteClone]_siteVars
  BY CloneForward DEF WorkersInv, MessagesNext, messageVars
<1>3. MessagesSpec => Capture!ProjectionAdvances
  BY <1>1, WorkersInvariant, PTL DEF MessagesSpec, Capture!ProjectionAdvances, Capture!allvars, captureVars
<1>4. MessagesSpec => Site!CancellationStays
  BY <1>2, WorkersInvariant, PTL DEF MessagesSpec, Site!CancellationStays, Site!all, siteVars
<1>5. MessagesSpec => ProjectionMovesForward /\ ClosedCloneStays
  BY ScansOfMessages, ProjectionAlwaysForward, ClosedCloneAlwaysStays, PTL
<1> QED BY <1>3, <1>4, <1>5 DEF ProjectionsMoveForward

=============================================================================
