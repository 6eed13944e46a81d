------------------------ MODULE ArtifactServerProofs ------------------------
(***************************************************************************)
(* The safety properties of ArtifactServer, for any number of requests and *)
(* slots.  Inv strengthens them by what a request in the middle of a copy  *)
(* knows of the row it has read.                                           *)
(***************************************************************************)
EXTENDS ArtifactServer, FiniteSetTheorems, TLAPS

\* A copy is made of a published artifact only, whatever becomes of it later.
CopiesOfPublished ==
    \A r \in Requests : phase[r] = "fetching" => row \in {"PUBLISHED", "DELETE_PENDING", "DELETED"}

Inv == TypeOK /\ SlotsExact /\ NothingLeftBehind /\ OnlyIntactSent /\ CopiesOfPublished

\* Taking a slot adds one to their number.
LEMMA SlotAdded ==
    ASSUME NEW S \in SUBSET Requests, NEW r \in Requests, r \notin S
    PROVE  Cardinality(S \cup {r}) = Cardinality(S) + 1 /\ Cardinality(S) \in Nat
<1>1. IsFiniteSet(S)
  BY RequestsAssumption, FS_Subset
<1> QED
  BY <1>1, FS_AddElement, FS_CardinalityType

\* Returning one takes one away, and there was one.
LEMMA SlotRemoved ==
    ASSUME NEW S \in SUBSET Requests, NEW r \in S
    PROVE  Cardinality(S \ {r}) = Cardinality(S) - 1 /\ Cardinality(S) \in Nat \ {0}
<1>1. IsFiniteSet(S)
  BY RequestsAssumption, FS_Subset
<1>2. Cardinality(S \ {r}) = Cardinality(S) - 1 /\ Cardinality(S) \in Nat
  BY <1>1, FS_RemoveElement, FS_CardinalityType
<1>3. Cardinality(S) # 0
  BY <1>1, FS_EmptySet
<1> QED
  BY <1>2, <1>3

\* What release leaves of the counter and of the slots, given that the response
\* is no longer open.
LEMMA ReleaseKeeps ==
    ASSUME TypeOK, SlotsExact, NEW r \in Requests, Release(r), open' = open \ {r}
    PROVE  /\ downloads' \in 0 .. MaxDownloads
           /\ downloads' = Cardinality(slot')
           /\ slot' = open' /\ slot' = slot \ {r} /\ slot' \subseteq Requests
<1>1. CASE r \in slot
  <2>1. slot' = slot \ {r} /\ downloads' = downloads - 1
    BY <1>1 DEF Release
  <2>2. Cardinality(slot \ {r}) = Cardinality(slot) - 1 /\ Cardinality(slot) \in Nat \ {0}
    BY <1>1, SlotRemoved DEF TypeOK
  <2>3. downloads - 1 = Cardinality(slot \ {r}) /\ downloads - 1 \in 0 .. MaxDownloads
    BY <2>2, MaxDownloadsAssumption DEF TypeOK, SlotsExact
  <2> QED
    BY <2>1, <2>3 DEF TypeOK, SlotsExact
<1>2. CASE r \notin slot
  <2>1. slot' = slot /\ downloads' = downloads
    BY <1>2 DEF Release
  <2> QED
    BY <2>1, <1>2 DEF TypeOK, SlotsExact, Release
<1> QED
  BY <1>1, <1>2

\* An answer ends the request and changes no other one's phase or status.
LEMMA AnswerKeeps ==
    ASSUME Inv, NEW r \in Requests, NEW code \in Statuses, Answer(r, code),
           temporary' = temporary \ {r}, UNCHANGED artifact,
           code = 200 => phase[r] = "sending"
    PROVE  Inv'
<1> USE DEF Inv
<1>1. Release(r) /\ open' = open \ {r}
  BY DEF Answer
<1>2. /\ downloads' \in 0 .. MaxDownloads /\ downloads' = Cardinality(slot')
      /\ slot' = open' /\ slot' = slot \ {r} /\ slot' \subseteq Requests
  BY <1>1, ReleaseKeeps
<1>3. phase' = [phase EXCEPT ![r] = "done"] /\ phase' \in [Requests -> Phases]
  BY DEF Answer, TypeOK, Phases
<1>4. /\ status' \in [Requests -> Statuses]
      /\ \A q \in Requests : status'[q] = 200 => status[q] = 200 \/ (q = r /\ code = 200)
  BY DEF Answer, TypeOK
<1>5. TypeOK'
  BY <1>1, <1>2, <1>3, <1>4, ZenonT(20) DEF TypeOK, artifact
<1>6. SlotsExact'
  BY <1>2 DEF SlotsExact
<1>7. NothingLeftBehind'
  BY <1>2, <1>3 DEF NothingLeftBehind, TypeOK
<1>8. OnlyIntactSent' /\ CopiesOfPublished'
  BY <1>3, <1>4 DEF OnlyIntactSent, CopiesOfPublished, artifact, TypeOK
<1> QED
  BY <1>5, <1>6, <1>7, <1>8

LEMMA InitInv == Init => Inv
<1> SUFFICES ASSUME Init PROVE Inv
  OBVIOUS
<1>1. TypeOK
  <2>1. 0 \in 0 .. MaxDownloads
    BY MaxDownloadsAssumption
  <2>2. phase \in [Requests -> Phases] /\ status \in [Requests -> Statuses]
    BY DEF Init, Phases, Statuses
  <2>3. expired \in BOOLEAN
    BY DEF Init
  <2> QED
    BY <2>1, <2>2, <2>3 DEF Init, TypeOK
<1>2. SlotsExact
  BY FS_EmptySet DEF Init, SlotsExact
<1> QED
  BY <1>1, <1>2 DEF Init, Inv, NothingLeftBehind, OnlyIntactSent, CopiesOfPublished

LEMMA NextInv == Inv /\ [Next]_vars => Inv'
<1> SUFFICES ASSUME Inv, [Next]_vars PROVE Inv'
  OBVIOUS
<1>1. ASSUME NEW r \in Requests, Admit(r) PROVE Inv'
  <2>1. r \notin slot
    BY <1>1 DEF Inv, NothingLeftBehind, Admit
  <2>2. Cardinality(slot \cup {r}) = Cardinality(slot) + 1
    BY <2>1, SlotAdded DEF Inv, TypeOK
  <2>3. downloads' \in 0 .. MaxDownloads /\ downloads' = Cardinality(slot')
    BY <1>1, <2>2, MaxDownloadsAssumption DEF Admit, Inv, TypeOK, SlotsExact
  <2>4. TypeOK'
    BY <1>1, <2>3 DEF Admit, Inv, TypeOK, Phases, artifact
  <2>5. SlotsExact'
    BY <1>1, <2>3 DEF Admit, Inv, SlotsExact
  <2>6. NothingLeftBehind' /\ OnlyIntactSent' /\ CopiesOfPublished'
    BY <1>1 DEF Admit, Inv, TypeOK, NothingLeftBehind, OnlyIntactSent, CopiesOfPublished, artifact
  <2> QED
    BY <2>4, <2>5, <2>6 DEF Inv
<1>2. ASSUME NEW r \in Requests, Refuse(r) PROVE Inv'
  <2>1. TypeOK' /\ SlotsExact'
    BY <1>2 DEF Refuse, Inv, TypeOK, SlotsExact, Phases, Statuses, artifact
  <2>2. NothingLeftBehind' /\ OnlyIntactSent' /\ CopiesOfPublished'
    BY <1>2 DEF Refuse, Inv, TypeOK, NothingLeftBehind, OnlyIntactSent, CopiesOfPublished, artifact
  <2> QED
    BY <2>1, <2>2 DEF Inv
<1>3. ASSUME NEW r \in Requests, Lookup(r) PROVE Inv'
  <2>1. r \notin temporary
    BY <1>3 DEF Lookup, Inv, NothingLeftBehind
  <2>2. ASSUME NEW code \in {404, 410}, Answer(r, code), UNCHANGED temporary PROVE Inv'
    BY <1>3, <2>1, <2>2, AnswerKeeps DEF Lookup, Statuses
  <2>3. CASE Found /\ Available /\ phase' = [phase EXCEPT ![r] = "fetching"]
             /\ temporary' = temporary \cup {r} /\ UNCHANGED <<downloads, open, slot, status>>
    <3>1. TypeOK' /\ SlotsExact'
      BY <1>3, <2>3 DEF Lookup, Inv, TypeOK, SlotsExact, Phases, artifact
    <3>2. NothingLeftBehind' /\ OnlyIntactSent' /\ CopiesOfPublished'
      BY <1>3, <2>3 DEF Lookup, Available, Inv, TypeOK, NothingLeftBehind, OnlyIntactSent,
                        CopiesOfPublished, artifact
    <3> QED
      BY <3>1, <3>2 DEF Inv
  <2> QED
    BY <1>3, <2>2, <2>3 DEF Lookup
<1>4. ASSUME NEW r \in Requests, Fetch(r) PROVE Inv'
  <2>1. ASSUME NEW code \in {410, 503}, Answer(r, code), temporary' = temporary \ {r} PROVE Inv'
    BY <1>4, <2>1, AnswerKeeps DEF Fetch, Statuses
  <2>2. CASE object = "intact" /\ phase' = [phase EXCEPT ![r] = "sending"]
             /\ UNCHANGED <<downloads, open, slot, temporary, status>>
    <3>1. TypeOK' /\ SlotsExact'
      BY <1>4, <2>2 DEF Fetch, Inv, TypeOK, SlotsExact, Phases, artifact
    <3>2. NothingLeftBehind' /\ OnlyIntactSent' /\ CopiesOfPublished'
      BY <1>4, <2>2 DEF Fetch, Inv, TypeOK, NothingLeftBehind, OnlyIntactSent,
                        CopiesOfPublished, artifact
    <3> QED
      BY <3>1, <3>2 DEF Inv
  <2> QED
    BY <1>4, <2>1, <2>2 DEF Fetch
<1>5. ASSUME NEW r \in Requests, Send(r) PROVE Inv'
  BY <1>5, AnswerKeeps DEF Send, Statuses
<1>6. ASSUME NEW r \in Requests, Close(r) PROVE Inv'
  <2>1. /\ downloads' \in 0 .. MaxDownloads /\ downloads' = Cardinality(slot')
        /\ slot' = open' /\ slot' = slot \ {r} /\ slot' \subseteq Requests
    BY <1>6, ReleaseKeeps DEF Close, Inv
  <2>2. TypeOK' /\ SlotsExact'
    BY <1>6, <2>1 DEF Close, Inv, TypeOK, SlotsExact, artifact
  <2>3. NothingLeftBehind' /\ OnlyIntactSent' /\ CopiesOfPublished'
    BY <1>6, <2>1 DEF Close, Inv, TypeOK, NothingLeftBehind, OnlyIntactSent, CopiesOfPublished, artifact
  <2> QED
    BY <2>2, <2>3 DEF Inv
<1>7. ASSUME Stage \/ Publish \/ Expire \/ ClaimForDeletion PROVE Inv'
  <2>1. TypeOK' /\ SlotsExact'
    BY <1>7 DEF Stage, Publish, Expire, ClaimForDeletion, Inv, TypeOK, SlotsExact, requests
  <2>2. NothingLeftBehind' /\ OnlyIntactSent' /\ CopiesOfPublished'
    BY <1>7 DEF Stage, Publish, Expire, ClaimForDeletion, Inv, NothingLeftBehind,
                OnlyIntactSent, CopiesOfPublished, requests
  <2> QED
    BY <2>1, <2>2 DEF Inv
<1>8. ASSUME DeleteObject \/ CompleteDeletion PROVE Inv'
  <2>1. TypeOK' /\ SlotsExact'
    BY <1>8 DEF DeleteObject, CompleteDeletion, Inv, TypeOK, SlotsExact, requests
  <2>2. NothingLeftBehind' /\ OnlyIntactSent' /\ CopiesOfPublished'
    BY <1>8 DEF DeleteObject, CompleteDeletion, Collected, Inv, NothingLeftBehind,
                OnlyIntactSent, CopiesOfPublished, requests
  <2> QED
    BY <2>1, <2>2 DEF Inv
<1>9. CASE UNCHANGED vars
  BY <1>9 DEF vars, Inv, TypeOK, SlotsExact, NothingLeftBehind, OnlyIntactSent, CopiesOfPublished
<1> QED
  BY <1>1, <1>2, <1>3, <1>4, <1>5, <1>6, <1>7, <1>8, <1>9 DEF Next

\* The invariant holds of every behaviour of the server.
THEOREM Invariance == Spec => []Inv
<1> QED
  BY InitInv, NextInv, PTL DEF Spec

\* The download counter is the number of open admitted responses and never
\* exceeds its limit, however finish and close events interleave.
THEOREM SlotsAreExact == Spec => [](TypeOK /\ SlotsExact)
<1>1. Inv => TypeOK /\ SlotsExact
  BY DEF Inv
<1> QED
  BY <1>1, Invariance, PTL

\* Handlers that ended have left no temporary file and no slot taken.
THEOREM NothingIsLeftBehind == Spec => []NothingLeftBehind
<1>1. Inv => NothingLeftBehind
  BY DEF Inv
<1> QED
  BY <1>1, Invariance, PTL

\* No damaged or unpublished artifact is sent, whenever it is collected.
THEOREM OnlyIntactIsSent == Spec => []OnlyIntactSent
<1>1. Inv => OnlyIntactSent
  BY DEF Inv
<1> QED
  BY <1>1, Invariance, PTL

\* The three together, for every run of the server.
THEOREM DownloadsAreAccounted == Spec => []DownloadsAccounted
BY SlotsAreExact, NothingIsLeftBehind, OnlyIntactIsSent, PTL DEF DownloadsAccounted
=============================================================================
