--------------------------- MODULE CloningProofs ----------------------------
(***************************************************************************)
(* Proofs about what the capture worker clones pages with, for every value *)
(* of the constants: the proxies of SafeProxy, the login browsers of       *)
(* BrowserSession, the selection of pages of DesignSelection, the captures *)
(* of PageCapture and the static clones of StaticClone.                    *)
(***************************************************************************)
EXTENDS SafeProxy, BrowserSession, PageCapture, StaticClone, DesignSelection,
        FiniteSetTheorems, WellFoundedInduction, TLAPS

-----------------------------------------------------------------------------
(* The proxies.                                                            *)

\* Who uses a socket: a tunnel has one of its own, an idle one belonged to a
\* plain request, and an open one is tracked by its user's proxy.
Ownership ==
    /\ \A r \in Requests : upstream[r] # NoSocket => sock[upstream[r]] # "unused"
    /\ \A r \in Tunnels : upstream[r] # NoSocket => user[upstream[r]] = r
    /\ \A s \in Sockets : sock[s] = "idle" => user[s] \in Requests \ Tunnels
    /\ \A s \in Sockets : sock[s] = "open" => user[s] \in Requests /\ ProxyOf[user[s]] \in tracked[s]
    /\ \A s \in Sockets : sock[s] \in {"unused", "connecting"} => tracked[s] = {}
    /\ \A r \in Requests : wired[r] => r \in Tunnels /\ upstream[r] # NoSocket /\ client[r] # "none"

\* The byte counts.
Counts ==
    \A p \in Proxies :
        /\ exhausted[p] <=> received[p] > MaxBytes
        /\ charged[p] <= received[p] /\ charged[p] <= chunks

ProxyInv == TypeOK /\ Ownership /\ Counts /\ NothingAfterTheEnd /\ TunnelsEndTogether

LEMMA ProxyInit_Holds == Init => ProxyInv
<1> SUFFICES ASSUME Init PROVE ProxyInv
  OBVIOUS
<1> USE BudgetAssumption
<1>1. TypeOK
  <2>1. closed \in [Proxies -> BOOLEAN] /\ exhausted \in [Proxies -> BOOLEAN] /\ wired \in [Requests -> BOOLEAN]
    BY DEF Init
  <2>2. received \in [Proxies -> 0 .. MaxBytes + 1] /\ charged \in [Proxies -> 0 .. MaxChunks] /\ chunks \in 0 .. MaxChunks
    BY DEF Init
  <2>3. /\ client \in [Requests -> {"none", "open", "gone"}]
        /\ upstream \in [Requests -> Sockets \cup {NoSocket}]
        /\ sock \in [Sockets -> {"unused", "connecting", "open", "idle", "dead"}]
        /\ tracked \in [Sockets -> SUBSET Proxies]
        /\ user \in [Sockets -> Requests \cup {NoRequest}]
    BY DEF Init
  <2> QED BY <2>1, <2>2, <2>3 DEF TypeOK
<1>2. Ownership
  BY DEF Init, Ownership
<1>3. Counts
  <2> SUFFICES ASSUME NEW p \in Proxies
               PROVE  /\ exhausted[p] <=> received[p] > MaxBytes
                      /\ charged[p] <= received[p] /\ charged[p] <= chunks
    BY DEF Counts
  <2>1. exhausted[p] = FALSE
    BY DEF Init
  <2>2. received[p] = 0 /\ charged[p] = 0 /\ chunks = 0
    BY DEF Init
  <2>3. ~(received[p] > MaxBytes) /\ charged[p] <= received[p] /\ charged[p] <= chunks
    BY <2>2
  <2> QED BY <2>1, <2>3
<1>4. NothingAfterTheEnd
  <2>1. \A p \in Proxies : ~closed[p] /\ ~exhausted[p]
    BY DEF Init
  <2> QED BY <2>1 DEF NothingAfterTheEnd
<1>5. TunnelsEndTogether
  <2>1. \A r \in Requests : ~wired[r]
    BY DEF Init
  <2> QED BY <2>1 DEF TunnelsEndTogether
<1> QED BY <1>1, <1>2, <1>3, <1>4, <1>5 DEF ProxyInv

\* What destroying sockets does: it only ends sockets and clients, at least the
\* given ones, and keeps the ends of a tunnel together.
LEMMA Destroying ==
    ASSUME ProxyInv, NEW dead \in SUBSET Sockets, NEW gone \in SUBSET Requests,
           \A r \in gone : client[r] = "open",
           Destroy(dead, gone), UNCHANGED <<upstream, user, wired, tracked>>
    PROVE  /\ sock' \in [Sockets -> {"unused", "connecting", "open", "idle", "dead"}]
           /\ client' \in [Requests -> {"none", "open", "gone"}]
           /\ \A s \in Sockets : sock'[s] # sock[s] => sock'[s] = "dead" /\ Live(s)
           /\ \A s \in dead : Live(s) => sock'[s] = "dead"
           /\ \A r \in Requests : client'[r] # client[r] => client'[r] = "gone" /\ client[r] = "open"
           /\ \A r \in gone : client'[r] = "gone"
           /\ Ownership' /\ TunnelsEndTogether'
<1> DEFINE lost == dead \cup {upstream[r] : r \in {q \in gone : wired[q] /\ upstream[q] # NoSocket}}
           hung == gone \cup {r \in Requests : wired[r] /\ client[r] = "open" /\ upstream[r] \in dead}
<1> USE BudgetAssumption
<1>1. /\ sock \in [Sockets -> {"unused", "connecting", "open", "idle", "dead"}]
      /\ client \in [Requests -> {"none", "open", "gone"}]
      /\ upstream \in [Requests -> Sockets \cup {NoSocket}]
  BY DEF ProxyInv, TypeOK
<1>2. /\ sock' = [s \in Sockets |-> IF s \in lost /\ Live(s) THEN "dead" ELSE sock[s]]
      /\ client' = [r \in Requests |-> IF r \in hung THEN "gone" ELSE client[r]]
  BY DEF Destroy
<1>3. /\ sock' \in [Sockets -> {"unused", "connecting", "open", "idle", "dead"}]
      /\ client' \in [Requests -> {"none", "open", "gone"}]
  BY <1>1, <1>2
<1>4. \A s \in Sockets : sock'[s] # sock[s] => sock'[s] = "dead" /\ Live(s)
  BY <1>2
<1>5. \A s \in dead : Live(s) => sock'[s] = "dead"
  BY <1>2
<1>6. \A r \in Requests : client'[r] # client[r] => client'[r] = "gone" /\ client[r] = "open"
  BY <1>2
<1>7. \A r \in gone : client'[r] = "gone"
  BY <1>2
<1>8. Ownership'
  BY <1>1, <1>4, <1>6 DEF ProxyInv, Ownership, Live
<1>9. TunnelsEndTogether'
  <2> SUFFICES ASSUME NEW r \in Requests, wired[r]
               PROVE  (client'[r] = "open") = (sock'[upstream[r]] = "open")
    BY DEF TunnelsEndTogether
  <2>1. /\ r \in Tunnels /\ upstream[r] \in Sockets /\ user[upstream[r]] = r
        /\ (client[r] = "open") = (sock[upstream[r]] = "open")
    BY <1>1 DEF ProxyInv, Ownership, TunnelsEndTogether
  <2>2. \A q \in Requests : (wired[q] /\ upstream[q] = upstream[r]) => q = r
    BY <2>1 DEF ProxyInv, Ownership
  <2>3. client'[r] = "open" <=> (client[r] = "open" /\ r \notin gone /\ upstream[r] \notin dead)
    BY <1>1, <1>2
  <2>4. upstream[r] \in lost <=> (upstream[r] \in dead \/ r \in gone)
    BY <2>1, <2>2
  <2>5. sock'[upstream[r]] = "open" <=> (sock[upstream[r]] = "open" /\ upstream[r] \notin lost)
    BY <2>1, <1>2 DEF Live
  <2> QED BY <2>1, <2>3, <2>4, <2>5
<1> QED BY <1>3, <1>4, <1>5, <1>6, <1>7, <1>8, <1>9

\* A step that opens no socket and no client of a proxy that has ended, and ends
\* no proxy, leaves ended proxies without any.
LEMMA EndedStay ==
    ASSUME ProxyInv, UNCHANGED <<closed, exhausted>>,
           \A s \in Sockets : sock'[s] \in {"connecting", "open", "idle"} =>
               \/ Live(s) /\ tracked'[s] = tracked[s]
               \/ \A p \in tracked'[s] : Admits(p) \/ (Live(s) /\ p \in tracked[s]),
           \A r \in Requests : client'[r] = "open" => client[r] = "open" \/ Admits(ProxyOf[r])
    PROVE  NothingAfterTheEnd'
BY DEF ProxyInv, NothingAfterTheEnd, UpstreamsOf, ClientsOf, Live, Admits

\* Steps that leave the proxies' fields alone keep the counts.
LEMMA CountsIdle == ASSUME ProxyInv, UNCHANGED <<proxyVars, chunks>> PROVE Counts'
BY DEF ProxyInv, Counts, proxyVars

LEMMA StepHolds == ProxyInv /\ [Next]_vars => ProxyInv'
<1> SUFFICES ASSUME ProxyInv, [Next]_vars PROVE ProxyInv'
  OBVIOUS
<1> USE BudgetAssumption
<1>1. ASSUME NEW r \in Requests, Accept(r) PROVE ProxyInv'
  <2>1. UNCHANGED <<proxyVars, chunks, wired, upstream, sock, tracked, user>>
    BY <1>1 DEF Accept
  <2>2. client[r] = "none" /\ client' = [client EXCEPT ![r] = IF Admits(ProxyOf[r]) THEN "open" ELSE "gone"]
    BY <1>1 DEF Accept
  <2>3. TypeOK'
    BY <2>1, <2>2 DEF ProxyInv, TypeOK, proxyVars
  <2>4. Ownership'
    BY <2>1, <2>2 DEF ProxyInv, Ownership, TypeOK
  <2>5. \A q \in Requests : wired[q] => q # r
    BY <2>2 DEF ProxyInv, Ownership
  <2>6. TunnelsEndTogether'
    BY <2>1, <2>2, <2>5 DEF ProxyInv, TunnelsEndTogether, TypeOK
  <2>7. NothingAfterTheEnd'
    <3>1. \A s \in Sockets : sock'[s] \in {"connecting", "open", "idle"} => Live(s) /\ tracked'[s] = tracked[s]
      BY <2>1 DEF Live
    <3>2. \A q \in Requests : client'[q] = "open" => client[q] = "open" \/ Admits(ProxyOf[q])
      BY <2>2 DEF ProxyInv, TypeOK
    <3> QED BY <2>1, <3>1, <3>2, EndedStay DEF proxyVars
  <2> QED BY <2>1, <2>3, <2>4, <2>6, <2>7, CountsIdle DEF ProxyInv
<1>2. ASSUME NEW r \in Requests, OpenTunnel(r) PROVE ProxyInv'
  <2>1. UNCHANGED <<proxyVars, client, wired, tracked, chunks>> /\ r \in Tunnels /\ upstream[r] = NoSocket
    BY <1>2 DEF OpenTunnel
  <2>2. PICK s \in Sockets : /\ sock[s] = "unused"
                             /\ sock' = [sock EXCEPT ![s] = "connecting"]
                             /\ user' = [user EXCEPT ![s] = r]
                             /\ upstream' = [upstream EXCEPT ![r] = s]
    BY <1>2 DEF OpenTunnel
  <2>3. TypeOK'
    BY <2>1, <2>2 DEF ProxyInv, TypeOK, proxyVars
  <2>4. Ownership'
    BY <2>1, <2>2 DEF ProxyInv, Ownership, TypeOK
  <2>5. TunnelsEndTogether'
    BY <2>1, <2>2 DEF ProxyInv, TunnelsEndTogether, TypeOK, Ownership
  <2>6. NothingAfterTheEnd'
    BY <2>1, <2>2 DEF ProxyInv, NothingAfterTheEnd, UpstreamsOf, ClientsOf, Live, TypeOK, Ownership, proxyVars
  <2> QED BY <2>1, <2>3, <2>4, <2>5, <2>6, CountsIdle DEF ProxyInv
<1>3. ASSUME NEW r \in Requests, Connected(r) PROVE ProxyInv'
  <2> DEFINE t == upstream[r]
  <2>1. /\ UNCHANGED <<proxyVars, upstream, user, chunks>>
        /\ r \in Tunnels /\ t \in Sockets /\ sock[t] = "connecting" /\ user[t] = r
        /\ tracked' = [tracked EXCEPT ![t] = {ProxyOf[r]}]
        /\ sock' = [sock EXCEPT ![t] = IF Admits(ProxyOf[r]) THEN "open" ELSE "dead"]
        /\ wired' = [wired EXCEPT ![r] = client[r] = "open"]
        /\ client' = [client EXCEPT ![r] = IF Admits(ProxyOf[r]) THEN @ ELSE "gone"]
    BY <1>3 DEF Connected, ProxyInv, TypeOK, Ownership
  <2>2. TypeOK'
    <3>1. wired' \in [Requests -> BOOLEAN]
      BY <2>1 DEF ProxyInv, TypeOK
    <3>2. tracked' \in [Sockets -> SUBSET Proxies]
      BY <2>1 DEF ProxyInv, TypeOK
    <3> QED BY <2>1, <3>1, <3>2 DEF ProxyInv, TypeOK, proxyVars
  <2>3. \A q \in Requests : (q # r /\ wired[q]) => upstream[q] # t
    BY <2>1 DEF ProxyInv, Ownership
  <2>4. \A q \in Requests : wired'[q] => (q # r /\ wired[q]) \/ (q = r /\ client[r] = "open")
    BY <2>1 DEF ProxyInv, TypeOK
  <2>5. Ownership'
    <3>1. \A s \in Sockets : sock'[s] = "open" => user'[s] \in Requests /\ ProxyOf[user'[s]] \in tracked'[s]
      BY <2>1 DEF ProxyInv, Ownership, TypeOK
    <3>2. \A q \in Requests : wired'[q] => q \in Tunnels /\ upstream'[q] # NoSocket /\ client'[q] # "none"
      BY <2>1, <2>4 DEF ProxyInv, Ownership, TypeOK
    <3> QED BY <2>1, <3>1, <3>2 DEF ProxyInv, Ownership, TypeOK
  <2>6. TunnelsEndTogether'
    <3> SUFFICES ASSUME NEW q \in Requests, wired'[q]
                 PROVE  (client'[q] = "open") = (sock'[upstream'[q]] = "open")
      BY DEF TunnelsEndTogether
    <3>1. CASE q = r
      BY <3>1, <2>1, <2>4 DEF ProxyInv, TypeOK
    <3>2. CASE q # r
      <4>1. wired[q] /\ upstream[q] \in Sockets /\ upstream[q] # t
        BY <3>2, <2>3, <2>4 DEF ProxyInv, Ownership, TypeOK
      <4>2. client'[q] = client[q] /\ sock'[upstream'[q]] = sock[upstream[q]]
        BY <3>2, <4>1, <2>1 DEF ProxyInv, TypeOK
      <4> QED BY <4>1, <4>2 DEF ProxyInv, TunnelsEndTogether
    <3> QED BY <3>1, <3>2
  <2>7. NothingAfterTheEnd'
    <3>1. \A s \in Sockets : sock'[s] \in {"connecting", "open", "idle"} =>
            \/ Live(s) /\ tracked'[s] = tracked[s]
            \/ \A p \in tracked'[s] : Admits(p) \/ (Live(s) /\ p \in tracked[s])
      BY <2>1 DEF Live, ProxyInv, TypeOK
    <3>2. \A q \in Requests : client'[q] = "open" => client[q] = "open" \/ Admits(ProxyOf[q])
      BY <2>1 DEF ProxyInv, TypeOK
    <3> QED BY <2>1, <3>1, <3>2, EndedStay DEF proxyVars
  <2> QED BY <2>1, <2>2, <2>5, <2>6, <2>7, CountsIdle DEF ProxyInv
<1>4. ASSUME NEW r \in Requests, ConnectFails(r) PROVE ProxyInv'
  <2> DEFINE t == upstream[r]
  <2>1. /\ UNCHANGED <<proxyVars, wired, upstream, tracked, user, chunks>>
        /\ r \in Tunnels /\ t \in Sockets /\ sock[t] = "connecting" /\ user[t] = r
        /\ sock' = [sock EXCEPT ![t] = "dead"]
        /\ client' = [client EXCEPT ![r] = "gone"]
    BY <1>4 DEF ConnectFails, ProxyInv, TypeOK, Ownership
  <2>2. TypeOK'
    BY <2>1 DEF ProxyInv, TypeOK, proxyVars
  <2>3. Ownership'
    BY <2>1 DEF ProxyInv, Ownership, TypeOK
  <2>4. TunnelsEndTogether'
    <3> SUFFICES ASSUME NEW q \in Requests, wired[q]
                 PROVE  (client'[q] = "open") = (sock'[upstream[q]] = "open")
      BY <2>1 DEF TunnelsEndTogether
    <3>1. upstream[q] \in Sockets /\ user[upstream[q]] = q
      BY DEF ProxyInv, Ownership, TypeOK
    <3>2. CASE q = r
      BY <3>2, <2>1 DEF ProxyInv, TypeOK
    <3>3. CASE q # r
      BY <3>1, <3>3, <2>1 DEF ProxyInv, TypeOK, TunnelsEndTogether
    <3> QED BY <3>2, <3>3
  <2>5. NothingAfterTheEnd'
    <3>1. \A s \in Sockets : sock'[s] \in {"connecting", "open", "idle"} => Live(s) /\ tracked'[s] = tracked[s]
      BY <2>1 DEF Live, ProxyInv, TypeOK
    <3>2. \A q \in Requests : client'[q] = "open" => client[q] = "open" \/ Admits(ProxyOf[q])
      BY <2>1 DEF ProxyInv, TypeOK
    <3> QED BY <2>1, <3>1, <3>2, EndedStay DEF proxyVars
  <2> QED BY <2>1, <2>2, <2>3, <2>4, <2>5, CountsIdle DEF ProxyInv
<1>5. ASSUME NEW r \in Requests, SendRequest(r) PROVE ProxyInv'
  <2>1. UNCHANGED <<proxyVars, client, wired, chunks>> /\ r \notin Tunnels /\ upstream[r] = NoSocket
    BY <1>5 DEF SendRequest
  <2>2. PICK s \in Sockets :
          /\ sock[s] \in {"idle", "unused"}
          /\ upstream' = [upstream EXCEPT ![r] = s]
          /\ user' = [user EXCEPT ![s] = r]
          /\ tracked' = [tracked EXCEPT ![s] = @ \cup {ProxyOf[r]}]
          /\ sock' = [sock EXCEPT ![s] = IF Admits(ProxyOf[r]) THEN "open" ELSE "dead"]
    BY <1>5 DEF SendRequest
  <2>3. TypeOK'
    <3>1. tracked' \in [Sockets -> SUBSET Proxies]
      BY <2>2 DEF ProxyInv, TypeOK
    <3> QED BY <2>1, <2>2, <3>1 DEF ProxyInv, TypeOK, proxyVars
  <2>4. \A q \in Tunnels : upstream[q] # s
    BY <2>2 DEF ProxyInv, Ownership
  <2>5. Ownership'
    <3>1. \A q \in Tunnels : upstream'[q] = upstream[q]
      BY <2>1, <2>2 DEF ProxyInv, TypeOK
    <3>2. \A q \in Tunnels : upstream'[q] # NoSocket => user'[upstream'[q]] = q
      BY <2>1, <2>2, <2>4, <3>1 DEF ProxyInv, Ownership, TypeOK
    <3>3. \A u \in Sockets : sock'[u] = "open" => user'[u] \in Requests /\ ProxyOf[user'[u]] \in tracked'[u]
      BY <2>1, <2>2 DEF ProxyInv, Ownership, TypeOK
    <3>4. \A u \in Sockets : sock'[u] \in {"unused", "connecting"} => tracked'[u] = {}
      BY <2>1, <2>2 DEF ProxyInv, Ownership, TypeOK
    <3>5. \A u \in Sockets : sock'[u] = "idle" => user'[u] \in Requests \ Tunnels
      BY <2>1, <2>2 DEF ProxyInv, Ownership, TypeOK
    <3>6. \A q \in Requests : upstream'[q] # NoSocket => sock'[upstream'[q]] # "unused"
      BY <2>1, <2>2 DEF ProxyInv, Ownership, TypeOK
    <3>7. \A q \in Requests : wired'[q] => q \in Tunnels /\ upstream'[q] # NoSocket /\ client'[q] # "none"
      BY <2>1, <3>1 DEF ProxyInv, Ownership
    <3> QED BY <3>2, <3>3, <3>4, <3>5, <3>6, <3>7 DEF Ownership
  <2>6. TunnelsEndTogether'
    <3> SUFFICES ASSUME NEW q \in Requests, wired[q]
                 PROVE  (client[q] = "open") = (sock'[upstream'[q]] = "open")
      BY <2>1 DEF TunnelsEndTogether
    <3>1. q \in Tunnels /\ q # r /\ upstream[q] \in Sockets /\ upstream[q] # s
      BY <2>1, <2>4 DEF ProxyInv, Ownership, TypeOK
    <3>2. upstream'[q] = upstream[q] /\ sock'[upstream[q]] = sock[upstream[q]]
      BY <3>1, <2>2 DEF ProxyInv, TypeOK
    <3> QED BY <3>2 DEF ProxyInv, TunnelsEndTogether
  <2>7. NothingAfterTheEnd'
    <3>1. \A u \in Sockets : sock'[u] \in {"connecting", "open", "idle"} =>
            \/ Live(u) /\ tracked'[u] = tracked[u]
            \/ \A p \in tracked'[u] : Admits(p) \/ (Live(u) /\ p \in tracked[u])
      BY <2>2 DEF Live, ProxyInv, TypeOK, Ownership
    <3>2. \A q \in Requests : client'[q] = "open" => client[q] = "open" \/ Admits(ProxyOf[q])
      BY <2>1
    <3> QED BY <2>1, <3>1, <3>2, EndedStay DEF proxyVars
  <2> QED BY <2>1, <2>3, <2>5, <2>6, <2>7, CountsIdle DEF ProxyInv
<1>6. ASSUME NEW dead \in SUBSET Sockets, NEW gone \in SUBSET Requests,
             \A q \in gone : client[q] = "open", Destroy(dead, gone),
             UNCHANGED <<proxyVars, wired, upstream, tracked, user, chunks>>
      PROVE  ProxyInv'
  <2>1. /\ sock' \in [Sockets -> {"unused", "connecting", "open", "idle", "dead"}]
        /\ client' \in [Requests -> {"none", "open", "gone"}]
        /\ \A s \in Sockets : sock'[s] # sock[s] => sock'[s] = "dead" /\ Live(s)
        /\ \A q \in Requests : client'[q] # client[q] => client'[q] = "gone" /\ client[q] = "open"
        /\ Ownership' /\ TunnelsEndTogether'
    BY <1>6, Destroying
  <2>2. TypeOK'
    BY <1>6, <2>1 DEF ProxyInv, TypeOK, proxyVars
  <2>3. NothingAfterTheEnd'
    <3>1. \A s \in Sockets : sock'[s] \in {"connecting", "open", "idle"} => Live(s) /\ tracked'[s] = tracked[s]
      BY <1>6, <2>1 DEF Live
    <3>2. \A q \in Requests : client'[q] = "open" => client[q] = "open" \/ Admits(ProxyOf[q])
      BY <2>1
    <3> QED BY <1>6, <3>1, <3>2, EndedStay DEF proxyVars
  <2> QED BY <1>6, <2>1, <2>2, <2>3, CountsIdle DEF ProxyInv
<1>7. ASSUME NEW s \in Sockets, Receive(s) PROVE ProxyInv'
  <2> DEFINE over == Over(tracked[s])
             me == ProxyOf[user[s]]
  <2>1. /\ UNCHANGED <<closed, wired, upstream, tracked, user>>
        /\ sock[s] = "open" /\ chunks' = chunks + 1 /\ chunks < MaxChunks
        /\ charged' = [charged EXCEPT ![me] = @ + 1]
        /\ received' = [p \in Proxies |-> IF p \in tracked[s] THEN received[p] + 1 ELSE received[p]]
        /\ exhausted' = [p \in Proxies |-> exhausted[p] \/ p \in over]
        /\ Destroy(UpstreamsOf(over), ClientsOf(over))
    BY <1>7 DEF Receive
  <2>2. user[s] \in Requests /\ me \in tracked[s] /\ me \in Proxies /\ tracked[s] \in SUBSET Proxies
    BY <2>1 DEF ProxyInv, Ownership, TypeOK
  <2>3. \A p \in tracked[s] : ~exhausted[p] /\ received[p] \in Nat /\ received[p] <= MaxBytes
    <3>1. \A p \in tracked[s] : s \in UpstreamsOf({p})
      BY <2>1 DEF UpstreamsOf, Live
    <3>2. \A p \in tracked[s] : ~exhausted[p]
      BY <3>1, <2>2 DEF ProxyInv, NothingAfterTheEnd
    <3> QED BY <3>2, <2>2 DEF ProxyInv, Counts, TypeOK
  <2>4. /\ sock' \in [Sockets -> {"unused", "connecting", "open", "idle", "dead"}]
        /\ client' \in [Requests -> {"none", "open", "gone"}]
        /\ \A u \in Sockets : sock'[u] # sock[u] => sock'[u] = "dead" /\ Live(u)
        /\ \A u \in UpstreamsOf(over) : Live(u) => sock'[u] = "dead"
        /\ \A q \in Requests : client'[q] # client[q] => client'[q] = "gone" /\ client[q] = "open"
        /\ \A q \in ClientsOf(over) : client'[q] = "gone"
        /\ Ownership' /\ TunnelsEndTogether'
    <3>1. UpstreamsOf(over) \in SUBSET Sockets /\ ClientsOf(over) \in SUBSET Requests
          /\ \A q \in ClientsOf(over) : client[q] = "open"
      BY DEF UpstreamsOf, ClientsOf
    <3> QED BY <2>1, <3>1, Destroying
  <2>5. Counts'
    <3> SUFFICES ASSUME NEW p \in Proxies
                 PROVE  /\ exhausted'[p] <=> received'[p] > MaxBytes
                        /\ charged'[p] <= received'[p] /\ charged'[p] <= chunks'
      BY DEF Counts
    <3>1. /\ exhausted[p] <=> received[p] > MaxBytes
          /\ charged[p] <= received[p] /\ charged[p] <= chunks
          /\ received[p] \in Nat /\ charged[p] \in Nat /\ chunks \in Nat
      BY DEF ProxyInv, Counts, TypeOK
    <3>2. exhausted'[p] <=> (exhausted[p] \/ p \in over)
      BY <2>1
    <3>3. p \in over <=> (p \in tracked[s] /\ received[p] + 1 > MaxBytes)
      BY DEF Over
    <3>4. received'[p] = IF p \in tracked[s] THEN received[p] + 1 ELSE received[p]
      BY <2>1
    <3>5. charged'[p] = IF p = me THEN charged[p] + 1 ELSE charged[p]
      BY <2>1, <2>2 DEF ProxyInv, TypeOK
    <3>6. exhausted'[p] <=> received'[p] > MaxBytes
      BY <3>1, <3>2, <3>3, <3>4
    <3>7. charged'[p] <= received'[p] /\ charged'[p] <= chunks'
      BY <2>1, <2>2, <3>1, <3>4, <3>5
    <3> QED BY <3>6, <3>7
  <2>6. TypeOK'
    <3>1. received' \in [Proxies -> 0 .. MaxBytes + 1]
      BY <2>1, <2>3 DEF ProxyInv, TypeOK
    <3>2. charged' \in [Proxies -> 0 .. MaxChunks] /\ chunks' \in 0 .. MaxChunks
      <4>1. chunks' \in 0 .. MaxChunks /\ charged[me] + 1 \in 0 .. MaxChunks
        BY <2>1, <2>2 DEF ProxyInv, TypeOK, Counts
      <4> QED BY <4>1, <2>1, <2>2 DEF ProxyInv, TypeOK
    <3>3. exhausted' \in [Proxies -> BOOLEAN]
      BY <2>1 DEF ProxyInv, TypeOK
    <3> QED BY <2>1, <2>4, <3>1, <3>2, <3>3 DEF ProxyInv, TypeOK
  <2>7. NothingAfterTheEnd'
    <3> SUFFICES ASSUME NEW p \in Proxies, closed'[p] \/ exhausted'[p]
                 PROVE  UpstreamsOf({p})' = {} /\ ClientsOf({p})' = {}
      BY DEF NothingAfterTheEnd
    <3>1. /\ \A u \in Sockets : (sock'[u] \in {"connecting", "open", "idle"}) => Live(u) /\ sock'[u] = sock[u]
          /\ \A q \in Requests : client'[q] = "open" => client[q] = "open"
      BY <2>4 DEF Live
    <3>2. closed[p] \/ exhausted[p] \/ p \in over
      BY <2>1
    <3>3. CASE closed[p] \/ exhausted[p]
      <4>1. UpstreamsOf({p}) = {} /\ ClientsOf({p}) = {}
        BY <3>3 DEF ProxyInv, NothingAfterTheEnd
      <4> QED BY <4>1, <3>1, <2>1 DEF UpstreamsOf, ClientsOf, Live
    <3>4. CASE p \in over
      BY <3>4, <3>1, <2>1, <2>4 DEF UpstreamsOf, ClientsOf, Live
    <3> QED BY <3>2, <3>3, <3>4
  <2> QED BY <2>4, <2>5, <2>6, <2>7 DEF ProxyInv
<1>8. ASSUME NEW s \in Sockets, Answered(s) PROVE ProxyInv'
  <2>1. /\ UNCHANGED <<proxyVars, wired, upstream, tracked, user, chunks>>
        /\ sock[s] = "open" /\ user[s] \notin Tunnels
        /\ sock' = [sock EXCEPT ![s] = "idle"]
        /\ client' = [client EXCEPT ![user[s]] = "gone"]
    BY <1>8 DEF Answered
  <2>2. user[s] \in Requests
    BY <2>1 DEF ProxyInv, Ownership
  <2>3. TypeOK'
    BY <2>1, <2>2 DEF ProxyInv, TypeOK, proxyVars
  <2>4. Ownership'
    BY <2>1, <2>2 DEF ProxyInv, Ownership, TypeOK
  <2>5. TunnelsEndTogether'
    <3> SUFFICES ASSUME NEW q \in Requests, wired[q]
                 PROVE  (client'[q] = "open") = (sock'[upstream[q]] = "open")
      BY <2>1 DEF TunnelsEndTogether
    <3>1. q \in Tunnels /\ upstream[q] \in Sockets /\ user[upstream[q]] = q
      BY DEF ProxyInv, Ownership, TypeOK
    <3>2. client'[q] = client[q] /\ sock'[upstream[q]] = sock[upstream[q]]
      BY <3>1, <2>1, <2>2 DEF ProxyInv, TypeOK
    <3> QED BY <3>2 DEF ProxyInv, TunnelsEndTogether
  <2>6. NothingAfterTheEnd'
    <3>1. \A u \in Sockets : sock'[u] \in {"connecting", "open", "idle"} => Live(u) /\ tracked'[u] = tracked[u]
      BY <2>1 DEF Live, ProxyInv, TypeOK
    <3>2. \A q \in Requests : client'[q] = "open" => client[q] = "open" \/ Admits(ProxyOf[q])
      BY <2>1 DEF ProxyInv, TypeOK
    <3> QED BY <2>1, <3>1, <3>2, EndedStay DEF proxyVars
  <2> QED BY <2>1, <2>3, <2>4, <2>5, <2>6, CountsIdle DEF ProxyInv
<1>9. ASSUME NEW s \in Sockets, UpstreamEnds(s) PROVE ProxyInv'
  BY <1>6, <1>9 DEF UpstreamEnds
<1>10. ASSUME NEW r \in Requests, ClientEnds(r) PROVE ProxyInv'
  BY <1>6, <1>10 DEF ClientEnds
<1>11. ASSUME NEW p \in Proxies, Close(p) PROVE ProxyInv'
  <2>1. /\ UNCHANGED <<exhausted, received, charged, wired, upstream, tracked, user, chunks>>
        /\ closed' = [closed EXCEPT ![p] = TRUE]
        /\ Destroy(UpstreamsOf({p}), ClientsOf({p}))
    BY <1>11 DEF Close
  <2>2. /\ sock' \in [Sockets -> {"unused", "connecting", "open", "idle", "dead"}]
        /\ client' \in [Requests -> {"none", "open", "gone"}]
        /\ \A u \in Sockets : sock'[u] # sock[u] => sock'[u] = "dead" /\ Live(u)
        /\ \A u \in UpstreamsOf({p}) : Live(u) => sock'[u] = "dead"
        /\ \A q \in Requests : client'[q] # client[q] => client'[q] = "gone" /\ client[q] = "open"
        /\ \A q \in ClientsOf({p}) : client'[q] = "gone"
        /\ Ownership' /\ TunnelsEndTogether'
    <3>1. UpstreamsOf({p}) \in SUBSET Sockets /\ ClientsOf({p}) \in SUBSET Requests
          /\ \A q \in ClientsOf({p}) : client[q] = "open"
      BY DEF UpstreamsOf, ClientsOf
    <3> QED BY <2>1, <3>1, Destroying
  <2>3. TypeOK'
    <3>1. closed' \in [Proxies -> BOOLEAN]
      BY <2>1 DEF ProxyInv, TypeOK
    <3> QED BY <2>1, <2>2, <3>1 DEF ProxyInv, TypeOK
  <2>4. Counts'
    BY <2>1 DEF ProxyInv, Counts
  <2>5. NothingAfterTheEnd'
    <3> SUFFICES ASSUME NEW o \in Proxies, closed'[o] \/ exhausted'[o]
                 PROVE  UpstreamsOf({o})' = {} /\ ClientsOf({o})' = {}
      BY DEF NothingAfterTheEnd
    <3>1. /\ \A u \in Sockets : (sock'[u] \in {"connecting", "open", "idle"}) => Live(u) /\ sock'[u] = sock[u]
          /\ \A q \in Requests : client'[q] = "open" => client[q] = "open"
      BY <2>2 DEF Live
    <3>2. closed[o] \/ exhausted[o] \/ o = p
      BY <2>1 DEF ProxyInv, TypeOK
    <3>3. CASE closed[o] \/ exhausted[o]
      <4>1. UpstreamsOf({o}) = {} /\ ClientsOf({o}) = {}
        BY <3>3 DEF ProxyInv, NothingAfterTheEnd
      <4> QED BY <4>1, <3>1, <2>1 DEF UpstreamsOf, ClientsOf, Live
    <3>4. CASE o = p
      BY <3>4, <3>1, <2>1, <2>2 DEF UpstreamsOf, ClientsOf, Live
    <3> QED BY <3>2, <3>3, <3>4
  <2> QED BY <2>2, <2>3, <2>4, <2>5 DEF ProxyInv
<1>12. CASE UNCHANGED vars
  <2>1. TypeOK' /\ Ownership' /\ Counts' /\ TunnelsEndTogether'
    BY <1>12 DEF vars, proxyVars, ProxyInv, TypeOK, Ownership, Counts, TunnelsEndTogether
  <2>2. NothingAfterTheEnd'
    BY <1>12 DEF vars, proxyVars, ProxyInv, NothingAfterTheEnd, UpstreamsOf, ClientsOf, Live
  <2> QED BY <2>1, <2>2 DEF ProxyInv
<1> QED BY <1>1, <1>2, <1>3, <1>4, <1>5, <1>7, <1>8, <1>9, <1>10, <1>11, <1>12 DEF Next, Step

\* TypeOK, the owners of sockets and the counts hold in every reachable state.
THEOREM Invariance == Spec => []ProxyInv
BY ProxyInit_Holds, StepHolds, PTL DEF Spec

\* For any number of proxies and connections: a proxy that was closed, or is over
\* its budget, has no socket left (the flags in track).
THEOREM NothingIsLeftAfterTheEnd == Spec => []NothingAfterTheEnd
<1>1. ProxyInv => NothingAfterTheEnd
  BY DEF ProxyInv
<1> QED BY <1>1, Invariance, PTL

\* For every budget and any number of downloads at once: a proxy receives at most
\* one chunk over its budget, and then says so (assertWithinBudget).
THEOREM OvershootIsBounded == Spec => []OvershootBounded
<1>1. ProxyInv => OvershootBounded
  <2> SUFFICES ASSUME ProxyInv, NEW p \in Proxies
               PROVE  charged[p] <= MaxBytes + 1 /\ (charged[p] > MaxBytes => exhausted[p])
    BY DEF OvershootBounded
  <2>1. received[p] \in 0 .. MaxBytes + 1 /\ charged[p] \in Nat /\ MaxBytes \in Nat
    BY BudgetAssumption DEF ProxyInv, TypeOK
  <2>2. charged[p] <= received[p] /\ (received[p] > MaxBytes => exhausted[p])
    BY DEF ProxyInv, Counts
  <2>3. charged[p] <= MaxBytes + 1 /\ (charged[p] > MaxBytes => received[p] > MaxBytes)
    BY <2>1, <2>2
  <2> QED BY <2>2, <2>3
<1> QED BY <1>1, Invariance, PTL

\* For any number of tunnels: an end of an established tunnel never outlives the
\* other (the close handlers of forwardConnect and forwardUpgrade).
THEOREM TunnelsEndAsOne == Spec => []TunnelsEndTogether
<1>1. ProxyInv => TunnelsEndTogether
  BY DEF ProxyInv
<1> QED BY <1>1, Invariance, PTL

\* The three together, for every run of the proxies.
THEOREM ConnectionsAreAccounted == Spec => []ConnectionsAccounted
BY NothingIsLeftAfterTheEnd, OvershootIsBounded, TunnelsEndAsOne, PTL DEF ConnectionsAccounted

-----------------------------------------------------------------------------
(* The login browsers.                                                     *)

\* Steps of a start whose session may have been registered.
Entered == {"navigating", "unwinding", "over"}

\* Attempts are made in order; the rest are blank.
Made == \A a \in Attempts : attempt[a].step = "none" <=> a > made

\* A pending start is an attempt under way of its clone.
Starts == \A c \in Clones : pending[c] # NoAttempt =>
            UnderWay(pending[c]) /\ attempt[pending[c]].clone = c

\* A registered session is one of its clone that has got as far as that.
Registered == \A c \in Clones : sessions[c] # NoAttempt =>
            attempt[sessions[c]].clone = c /\ attempt[sessions[c]].step \in Entered

\* A worker's session is one of the owner of the clone it renders.
Attached == \A w \in Workers :
    /\ worker[w].step = "waiting" => worker[w].on # NoAttempt
    /\ worker[w].on # NoAttempt =>
         /\ worker[w].on <= made
         /\ attempt[worker[w].on].clone = worker[w].clone
         /\ attempt[worker[w].on].owner = OwnerOf[worker[w].clone]

BrowserBooks == /\ Made /\ Starts /\ Registered /\ Attached /\ CapacityHeld /\ TimersAreOwn
                /\ UnwindsItself /\ NoWaiterStranded /\ RendersConfirmed

BrowserInv == BrowserTypes /\ BrowserBooks

\* What a step that makes and registers no attempt does to the attempts' rows when
\* it closes the sessions of the clones in S.
RowsKept(S) == \A b \in Attempts :
    /\ attempt'[b].clone = attempt[b].clone /\ attempt'[b].owner = attempt[b].owner
    /\ attempt'[b].ready <=> attempt[b].ready
    /\ attempt'[b].armed => attempt[b].armed /\ \A c \in S : sessions[c] # b
    /\ attempt'[b].step = "none" <=> attempt[b].step = "none"
    /\ attempt'[b].step = "over" <=> attempt[b].step = "over"
    /\ (attempt[b].step \in Entered /\ \E c \in Clones \ S : sessions[c] = b)
         => attempt'[b].step \in Entered

\* ... and to the workers.
WorkersKept(S) == \A w \in Workers :
    \/ worker'[w] = Released(S)[w]
    \/ worker'[w].step \in {"idle", "rendering"} /\ worker'[w].on = NoAttempt

\* A worker's row after the release of S.
LEMMA ReleasedRow ==
    ASSUME BrowserTypes, NEW S \in SUBSET Clones, NEW w \in Workers
    PROVE  /\ Released(S)[w].clone = worker[w].clone
           /\ \/ /\ worker[w].step = "waiting" /\ \E c \in S : sessions[c] = worker[w].on
                 /\ Released(S)[w].step = "idle" /\ Released(S)[w].on = NoAttempt
              \/ /\ ~(worker[w].step = "waiting" /\ \E c \in S : sessions[c] = worker[w].on)
                 /\ Released(S)[w] = worker[w]
           /\ Released(S) \in [Workers -> Worker]
<1>1. worker[w] \in Worker
  BY DEF BrowserTypes
<1>2. Released(S)[w] = IF worker[w].step = "waiting" /\ \E c \in S : sessions[c] = worker[w].on
                       THEN [worker[w] EXCEPT !.step = "idle", !.on = NoAttempt] ELSE worker[w]
  BY DEF Released
<1>3. Released(S) \in [Workers -> Worker]
  <2> SUFFICES ASSUME NEW v \in Workers
               PROVE  (IF worker[v].step = "waiting" /\ \E c \in S : sessions[c] = worker[v].on
                       THEN [worker[v] EXCEPT !.step = "idle", !.on = NoAttempt] ELSE worker[v]) \in Worker
    BY DEF Released
  <2>1. worker[v] \in Worker
    BY DEF BrowserTypes
  <2>2. [worker[v] EXCEPT !.step = "idle", !.on = NoAttempt] \in Worker
    BY <2>1 DEF Worker
  <2> QED BY <2>1, <2>2
<1> QED BY <1>1, <1>2, <1>3 DEF Worker

\* An attempt's row after the sessions of S were torn down.
LEMMA TornRow ==
    ASSUME BrowserTypes, NEW S \in SUBSET Clones, NEW a \in Attempts
    PROVE  /\ Torn(S)[a].step = attempt[a].step /\ Torn(S)[a].clone = attempt[a].clone
           /\ Torn(S)[a].owner = attempt[a].owner /\ Torn(S)[a].ready = attempt[a].ready
           /\ Torn(S)[a].armed => attempt[a].armed /\ \A c \in S : sessions[c] # a
           /\ DOMAIN Torn(S) = Attempts
<1>1. attempt[a] \in [step : StartSteps, clone : Clones,
           owner : Owners, ready : BOOLEAN, browser : {"none", "up", "down"},
           page : BOOLEAN, armed : BOOLEAN, due : BOOLEAN, closing : BOOLEAN]
  BY DEF BrowserTypes
<1>2. Torn(S)[a] = IF \E c \in S : sessions[c] = a
                   THEN [attempt[a] EXCEPT !.armed = FALSE, !.closing = TRUE] ELSE attempt[a]
  BY DEF Torn
<1>3. DOMAIN Torn(S) = Attempts
  BY DEF Torn
<1>4. CASE \E c \in S : sessions[c] = a
  <2>1. Torn(S)[a] = [attempt[a] EXCEPT !.armed = FALSE, !.closing = TRUE]
    BY <1>2, <1>4
  <2>2. ~Torn(S)[a].armed
    BY <1>1, <2>1
  <2> QED BY <1>1, <1>3, <2>1, <2>2
<1>5. CASE ~\E c \in S : sessions[c] = a
  BY <1>2, <1>3, <1>5
<1> QED BY <1>4, <1>5

\* A step that makes and registers no attempt, and ends no start, keeps the books.
LEMMA ClosingKeepsBooks ==
    ASSUME BrowserInv, BrowserTypes', NEW S \in SUBSET Clones,
           RowsKept(S), WorkersKept(S), sessions' = Freed(S), UNCHANGED <<made, pending, starting>>
    PROVE  BrowserBooks'
<1>1. \A c \in Clones : sessions'[c] = IF c \in S THEN NoAttempt ELSE sessions[c]
  BY DEF Freed
<1>2. \A c \in Clones : sessions[c] # NoAttempt => sessions[c] \in Attempts
  BY DEF BrowserInv, BrowserTypes, Attempts, NoAttempt
<1>3. \A c \in Clones : pending[c] # NoAttempt => pending[c] \in Attempts
  BY DEF BrowserInv, BrowserTypes, Attempts, NoAttempt
<1>4. \A b \in Attempts : UnderWay(b)' <=> UnderWay(b)
  BY DEF RowsKept, UnderWay
<1>5. \A b \in Attempts : attempt'[b].clone = attempt[b].clone /\ attempt[b].clone \in Clones
  BY DEF RowsKept, BrowserInv, BrowserTypes
<1>6. Made'
  <2>1. \A b \in Attempts : attempt'[b].step = "none" <=> attempt[b].step = "none"
    BY DEF RowsKept
  <2>2. \A b \in Attempts : attempt[b].step = "none" <=> b > made
    BY DEF BrowserInv, BrowserBooks, Made
  <2> QED BY <2>1, <2>2 DEF Made, Attempts
<1>7. Starts'
  BY <1>3, <1>4, <1>5 DEF BrowserInv, BrowserBooks, Starts
<1>8. Registered'
  <2> SUFFICES ASSUME NEW c \in Clones, sessions'[c] # NoAttempt
               PROVE  attempt'[sessions'[c]].clone = c /\ attempt'[sessions'[c]].step \in Entered
    BY DEF Registered, Entered
  <2>1. c \notin S /\ sessions'[c] = sessions[c] /\ sessions[c] \in Attempts
    BY <1>1, <1>2
  <2>2. attempt[sessions[c]].clone = c /\ attempt[sessions[c]].step \in Entered
    BY <2>1 DEF BrowserInv, BrowserBooks, Registered
  <2> QED BY <2>1, <2>2 DEF RowsKept
<1>9. Attached' /\ NoWaiterStranded' /\ RendersConfirmed'
  <2> SUFFICES ASSUME NEW w \in Workers
               PROVE  /\ worker'[w].step = "waiting" => worker'[w].on # NoAttempt
                      /\ worker'[w].on # NoAttempt =>
                           /\ worker'[w].on <= made
                           /\ attempt'[worker'[w].on].clone = worker'[w].clone
                           /\ attempt'[worker'[w].on].owner = OwnerOf[worker'[w].clone]
                      /\ worker'[w].step = "waiting" =>
                           /\ sessions'[worker'[w].clone] = worker'[w].on
                           /\ ~attempt'[worker'[w].on].ready
                      /\ (worker'[w].step = "rendering" /\ worker'[w].on # NoAttempt) =>
                           /\ attempt'[worker'[w].on].ready
                           /\ attempt'[worker'[w].on].clone = worker'[w].clone
                           /\ attempt'[worker'[w].on].owner = OwnerOf[worker'[w].clone]
    BY DEF Attached, NoWaiterStranded, RendersConfirmed
  <2>1. CASE worker'[w].step \in {"idle", "rendering"} /\ worker'[w].on = NoAttempt
    BY <2>1
  <2>2. CASE worker'[w] = Released(S)[w]
    <3>1. CASE Released(S)[w].step = "idle" /\ Released(S)[w].on = NoAttempt
      BY <2>2, <3>1
    <3>2. CASE /\ ~(worker[w].step = "waiting" /\ \E c \in S : sessions[c] = worker[w].on)
               /\ Released(S)[w] = worker[w]
      <4>1. worker'[w] = worker[w]
        BY <2>2, <3>2
      <4>2. worker[w].clone \in Clones /\ (worker[w].on # NoAttempt => worker[w].on \in Attempts)
        BY DEF BrowserInv, BrowserTypes, Worker
      <4>3. worker[w].on # NoAttempt =>
              /\ attempt'[worker[w].on].clone = attempt[worker[w].on].clone
              /\ attempt'[worker[w].on].owner = attempt[worker[w].on].owner
              /\ attempt'[worker[w].on].ready <=> attempt[worker[w].on].ready
        BY <4>2 DEF RowsKept
      <4>4. Attached /\ NoWaiterStranded /\ RendersConfirmed
        BY DEF BrowserInv, BrowserBooks
      <4>5. worker[w].step = "waiting" => sessions'[worker[w].clone] = sessions[worker[w].clone]
        BY <1>1, <3>2, <4>2, <4>4 DEF NoWaiterStranded
      <4> QED BY <4>1, <4>3, <4>4, <4>5 DEF Attached, NoWaiterStranded, RendersConfirmed
    <3> QED BY <3>1, <3>2, ReleasedRow DEF BrowserInv
  <2> QED BY <2>1, <2>2 DEF WorkersKept
<1>10. CapacityHeld'
  <2>1. {a \in Attempts : UnderWay(a)'} = {a \in Attempts : UnderWay(a)}
    BY <1>4
  <2>2. starting' = Cardinality({a \in Attempts : UnderWay(a)'})
    BY <2>1 DEF BrowserInv, BrowserBooks, CapacityHeld
  <2> DEFINE All == Open \cup {c \in Clones : pending[c] # NoAttempt}
             Now == {c \in Clones : sessions'[c] # NoAttempt} \cup {c \in Clones : pending'[c] # NoAttempt}
  <2>3. IsFiniteSet(All) /\ Now \in SUBSET All
    <3>1. IsFiniteSet(All)
      BY ClonesAssumption, FS_Subset DEF Open
    <3> QED BY <1>1, <3>1 DEF Open
  <2>4. Cardinality(Now) <= Cardinality(All) /\ Cardinality(Now) \in Nat /\ Cardinality(All) \in Nat
    BY <2>3, FS_Subset, FS_CardinalityType
  <2>5. Cardinality(All) <= MaxSessions
    BY DEF BrowserInv, BrowserBooks, CapacityHeld
  <2>6. Cardinality(Now) <= MaxSessions
    <3> HIDE DEF All, Now
    <3> QED BY <2>4, <2>5, BrowserLimits
  <2> QED BY <2>2, <2>6 DEF CapacityHeld, Open
<1>11. TimersAreOwn'
  <2> SUFFICES ASSUME NEW a \in Attempts, attempt'[a].armed
               PROVE  sessions'[attempt'[a].clone] = a
    BY DEF TimersAreOwn
  <2>1. attempt[a].armed /\ \A c \in S : sessions[c] # a
    BY DEF RowsKept
  <2>2. sessions[attempt[a].clone] = a
    BY <2>1 DEF BrowserInv, BrowserBooks, TimersAreOwn
  <2> QED BY <1>1, <1>5, <2>1, <2>2
<1>12. UnwindsItself'
  <2> SUFFICES ASSUME NEW a \in Attempts, UnderWay(a)'
               PROVE  /\ pending'[attempt'[a].clone] = a
                      /\ sessions'[attempt'[a].clone] \in {NoAttempt, a}
    BY DEF UnwindsItself
  <2>1. pending[attempt[a].clone] = a /\ sessions[attempt[a].clone] \in {NoAttempt, a}
    BY <1>4 DEF BrowserInv, BrowserBooks, UnwindsItself
  <2> QED BY <1>1, <1>5, <2>1
<1> QED BY <1>6, <1>7, <1>8, <1>9, <1>10, <1>11, <1>12 DEF BrowserBooks

LEMMA BrowserInit_Holds == BrowserInit => BrowserInv
<1> SUFFICES ASSUME BrowserInit PROVE BrowserInv
  OBVIOUS
<1> DEFINE first == CHOOSE c \in Clones : TRUE
<1>1. first \in Clones
  BY ClonesAssumption
<1>2. \A a \in Attempts : /\ attempt[a].step = "none" /\ attempt[a].clone = first
                          /\ attempt[a].armed = FALSE /\ a > made
  BY DEF BrowserInit, Blank, Attempts
<1>3. BrowserTypes
  <2>1. \A a \in Attempts : attempt[a] = Blank(first)
    BY DEF BrowserInit
  <2>2. Blank(first) \in [step : StartSteps, clone : Clones,
           owner : Owners, ready : BOOLEAN, browser : {"none", "up", "down"},
           page : BOOLEAN, armed : BOOLEAN, due : BOOLEAN, closing : BOOLEAN]
    <3> HIDE DEF first
    <3>1. OwnerOf[first] \in Owners
      BY <1>1, ClonesAssumption
    <3> QED BY <1>1, <3>1 DEF Blank, StartSteps
  <2>3. \A w \in Workers : worker[w] = [step |-> "idle", on |-> NoAttempt, clone |-> first]
    BY DEF BrowserInit
  <2>4. [step |-> "idle", on |-> NoAttempt, clone |-> first] \in Worker
    <3> HIDE DEF first
    <3> QED BY <1>1 DEF Worker
  <2>5. worker \in [Workers -> Worker]
    <3> HIDE DEF first
    <3>1. worker = [w \in Workers |-> worker[w]]
      BY DEF BrowserInit
    <3> QED BY <2>3, <2>4, <3>1
  <2>6. attempt \in [Attempts -> [step : StartSteps, clone : Clones,
           owner : Owners, ready : BOOLEAN, browser : {"none", "up", "down"},
           page : BOOLEAN, armed : BOOLEAN, due : BOOLEAN, closing : BOOLEAN]]
    <3> HIDE DEF first
    <3>1. attempt = [a \in Attempts |-> attempt[a]]
      BY DEF BrowserInit
    <3> QED BY <2>1, <2>2, <3>1
  <2>7. made \in 0 .. MaxStarts /\ sessions \in [Clones -> 0 .. MaxStarts]
        /\ pending \in [Clones -> 0 .. MaxStarts] /\ starting \in Nat /\ stopping \in BOOLEAN
    <3> HIDE DEF first
    <3>1. 0 \in 0 .. MaxStarts
      BY BrowserLimits
    <3>2. made = 0 /\ starting = 0 /\ ~stopping /\ stopping \in BOOLEAN
      BY DEF BrowserInit
    <3>3. sessions = [c \in Clones |-> 0] /\ pending = [c \in Clones |-> 0]
      BY DEF BrowserInit, NoAttempt
    <3> QED BY <3>1, <3>2, <3>3
  <2> QED BY <2>5, <2>6, <2>7 DEF BrowserTypes
<1>4. \A w \in Workers : worker[w].step = "idle" /\ worker[w].on = NoAttempt
  BY DEF BrowserInit
<1>5. \A c \in Clones : sessions[c] = NoAttempt /\ pending[c] = NoAttempt
  BY DEF BrowserInit
<1>6. \A a \in Attempts : ~UnderWay(a)
  BY <1>2 DEF UnderWay
<1>7. CapacityHeld
  <2>1. Open \cup {c \in Clones : pending[c] # NoAttempt} = {} /\ {a \in Attempts : UnderWay(a)} = {}
    BY <1>5, <1>6 DEF Open
  <2>2. Cardinality({}) = 0 /\ starting = 0 /\ 0 <= MaxSessions
    BY FS_EmptySet, BrowserLimits DEF BrowserInit
  <2> QED BY <2>1, <2>2, Zenon DEF CapacityHeld
<1> QED BY <1>2, <1>3, <1>4, <1>5, <1>6, <1>7
        DEF BrowserInv, BrowserBooks, Made, Starts, Registered, Attached, TimersAreOwn,
            UnwindsItself, NoWaiterStranded, RendersConfirmed

\* The types of an attempt's row.
AttemptRow == [step : StartSteps, clone : Clones,
           owner : Owners, ready : BOOLEAN, browser : {"none", "up", "down"},
           page : BOOLEAN, armed : BOOLEAN, due : BOOLEAN, closing : BOOLEAN]

\* Closing sessions keeps the types.
LEMMA ClosingKeepsTypes ==
    ASSUME BrowserTypes, NEW S \in SUBSET Clones
    PROVE  /\ Torn(S) \in [Attempts -> AttemptRow]
           /\ Freed(S) \in [Clones -> 0 .. MaxStarts]
           /\ Released(S) \in [Workers -> Worker]
<1>1. \A a \in Attempts : attempt[a] \in AttemptRow
  BY DEF BrowserTypes, AttemptRow
<1>2. \A a \in Attempts : [attempt[a] EXCEPT !.armed = FALSE, !.closing = TRUE] \in AttemptRow
  BY <1>1 DEF AttemptRow
<1>3. Torn(S) \in [Attempts -> AttemptRow]
  BY <1>1, <1>2 DEF Torn
<1>4. Freed(S) \in [Clones -> 0 .. MaxStarts]
  BY BrowserLimits DEF Freed, BrowserTypes, NoAttempt
<1>5. CASE Workers = {}
  BY <1>3, <1>4, <1>5 DEF Released
<1>6. CASE Workers # {}
  BY <1>3, <1>4, <1>6, ReleasedRow
<1> QED BY <1>5, <1>6

\* Every step keeps the types.
LEMMA BrowserTypesKept == ASSUME BrowserInv, BrowserNext PROVE BrowserTypes'
<1> USE DEF BrowserInv
<1>0. BrowserTypes /\ attempt \in [Attempts -> AttemptRow] /\ \A a \in Attempts : attempt[a] \in AttemptRow
  BY DEF BrowserTypes, AttemptRow
<1>s. SUFFICES /\ attempt' \in [Attempts -> AttemptRow]
               /\ made' \in 0 .. MaxStarts /\ sessions' \in [Clones -> 0 .. MaxStarts]
               /\ pending' \in [Clones -> 0 .. MaxStarts] /\ starting' \in Nat
               /\ worker' \in [Workers -> Worker] /\ stopping' \in BOOLEAN
  BY DEF BrowserTypes, AttemptRow
<1>c. ASSUME NEW S \in SUBSET Clones, CloseById(S), UNCHANGED <<made, pending, starting>>, stopping' \in BOOLEAN
      PROVE  /\ attempt' \in [Attempts -> AttemptRow]
             /\ made' \in 0 .. MaxStarts /\ sessions' \in [Clones -> 0 .. MaxStarts]
             /\ pending' \in [Clones -> 0 .. MaxStarts] /\ starting' \in Nat
             /\ worker' \in [Workers -> Worker] /\ stopping' \in BOOLEAN
  BY <1>0, <1>c, ClosingKeepsTypes DEF CloseById, BrowserTypes
<1>n. NoAttempt \in 0 .. MaxStarts /\ MaxStarts \in Nat
  BY BrowserLimits DEF NoAttempt
<1>r. ASSUME NEW a \in Attempts
      PROVE  starting - 1 \in Nat \/ ~UnderWay(a)
  <2> SUFFICES ASSUME UnderWay(a) PROVE starting - 1 \in Nat
    OBVIOUS
  <2> DEFINE W == {b \in Attempts : UnderWay(b)}
  <2>1. IsFiniteSet(W) /\ a \in W
    <3>1. IsFiniteSet(Attempts)
      BY FS_Interval, BrowserLimits DEF Attempts
    <3> QED BY <3>1, FS_Subset
  <2>2. starting = Cardinality(W)
    BY DEF BrowserBooks, CapacityHeld
  <2>3. Cardinality(W \ {a}) = Cardinality(W) - 1 /\ IsFiniteSet(W \ {a})
    BY <2>1, FS_RemoveElement
  <2> QED BY <2>2, <2>3, FS_CardinalityType
<1>1. ASSUME NEW o \in Owners, NEW c \in Clones, Start(o, c)
      PROVE  /\ attempt' \in [Attempts -> AttemptRow]
             /\ made' \in 0 .. MaxStarts /\ sessions' \in [Clones -> 0 .. MaxStarts]
             /\ pending' \in [Clones -> 0 .. MaxStarts] /\ starting' \in Nat
             /\ worker' \in [Workers -> Worker] /\ stopping' \in BOOLEAN
  <2> DEFINE shut == IF Stale(o, c) THEN {c} ELSE {}
             n == made + 1
             row == [Blank(c) EXCEPT !.owner = o, !.step = "launching"]
  <2>1. shut \in SUBSET Clones
    OBVIOUS
  <2>2. /\ sessions' = Freed(shut) /\ worker' = Released(shut) /\ stopping' = stopping
        /\ n \in Attempts
        /\ \/ /\ made' = n /\ pending' = [pending EXCEPT ![c] = n] /\ starting' = starting + 1
              /\ attempt' = [Torn(shut) EXCEPT ![n] = row]
           \/ attempt' = Torn(shut) /\ UNCHANGED <<made, pending, starting>>
    BY <1>1 DEF Start
  <2>3. row \in AttemptRow
    BY ClonesAssumption DEF Blank, AttemptRow, StartSteps
  <2> HIDE DEF shut, row
  <2>4. Torn(shut) \in [Attempts -> AttemptRow] /\ [Torn(shut) EXCEPT ![n] = row] \in [Attempts -> AttemptRow]
    BY <1>0, <2>1, <2>2, <2>3, ClosingKeepsTypes
  <2>5. sessions' \in [Clones -> 0 .. MaxStarts] /\ worker' \in [Workers -> Worker]
    BY <1>0, <2>1, <2>2, ClosingKeepsTypes
  <2>6. attempt' \in [Attempts -> AttemptRow]
    BY <2>2, <2>4
  <2>7. n \in 0 .. MaxStarts /\ made \in 0 .. MaxStarts /\ starting \in Nat /\ starting + 1 \in Nat
        /\ pending \in [Clones -> 0 .. MaxStarts] /\ stopping \in BOOLEAN
    BY <1>0, <1>n, <2>2 DEF BrowserTypes, Attempts
  <2>8. [pending EXCEPT ![c] = n] \in [Clones -> 0 .. MaxStarts]
    BY <2>7
  <2> QED BY <2>2, <2>5, <2>6, <2>7, <2>8
<1>2. ASSUME NEW o \in Owners, NEW c \in Clones, Look(o, c) \/ CloseSession(o, c)
      PROVE  /\ attempt' \in [Attempts -> AttemptRow]
             /\ made' \in 0 .. MaxStarts /\ sessions' \in [Clones -> 0 .. MaxStarts]
             /\ pending' \in [Clones -> 0 .. MaxStarts] /\ starting' \in Nat
             /\ worker' \in [Workers -> Worker] /\ stopping' \in BOOLEAN
  BY <1>0, <1>2, <1>c DEF Look, CloseSession, BrowserTypes
<1>3. ASSUME NEW o \in Owners, NEW c \in Clones, Ready(o, c)
      PROVE  /\ attempt' \in [Attempts -> AttemptRow]
             /\ made' \in 0 .. MaxStarts /\ sessions' \in [Clones -> 0 .. MaxStarts]
             /\ pending' \in [Clones -> 0 .. MaxStarts] /\ starting' \in Nat
             /\ worker' \in [Workers -> Worker] /\ stopping' \in BOOLEAN
  <2>1. sessions[c] \in Attempts
    BY <1>0, <1>3 DEF Ready, Owned, Seen, BrowserTypes, NoAttempt, Attempts
  <2>2. [attempt[sessions[c]] EXCEPT !.ready = TRUE] \in AttemptRow
    BY <1>0, <2>1 DEF AttemptRow
  <2>3. attempt' = [attempt EXCEPT ![sessions[c]] = [attempt[sessions[c]] EXCEPT !.ready = TRUE]]
    BY <1>3 DEF Ready
  <2>4. \A w \in Workers : worker[w] \in Worker /\ [worker[w] EXCEPT !.step = "rendering"] \in Worker
    BY <1>0 DEF BrowserTypes, Worker
  <2>5. worker' \in [Workers -> Worker]
    BY <1>3, <2>4 DEF Ready
  <2> QED BY <1>0, <1>3, <2>1, <2>2, <2>3, <2>5 DEF Ready, BrowserTypes
<1>4. ASSUME NEW a \in Attempts,
             \/ Launch(a) \/ Register(a) \/ Navigated(a) \/ StartFails(a) \/ UnwindEnd(a)
             \/ FinishClose(a) \/ Elapse(a) \/ PageGone(a)
      PROVE  /\ attempt' \in [Attempts -> AttemptRow]
             /\ made' \in 0 .. MaxStarts /\ sessions' \in [Clones -> 0 .. MaxStarts]
             /\ pending' \in [Clones -> 0 .. MaxStarts] /\ starting' \in Nat
             /\ worker' \in [Workers -> Worker] /\ stopping' \in BOOLEAN
  <2>1. attempt[a] \in AttemptRow /\ attempt[a].clone \in Clones /\ a \in 0 .. MaxStarts
    BY <1>0 DEF AttemptRow, Attempts
  <2>2. /\ [attempt[a] EXCEPT !.step = "launched", !.browser = "up"] \in AttemptRow
        /\ [attempt[a] EXCEPT !.step = "navigating", !.page = TRUE, !.armed = TRUE] \in AttemptRow
        /\ [attempt[a] EXCEPT !.step = "over"] \in AttemptRow
        /\ [attempt[a] EXCEPT !.step = "unwinding", !.page = FALSE] \in AttemptRow
        /\ [attempt[a] EXCEPT !.browser = "down", !.page = FALSE] \in AttemptRow
        /\ [attempt[a] EXCEPT !.due = TRUE] \in AttemptRow
        /\ [attempt[a] EXCEPT !.page = FALSE] \in AttemptRow
    BY <2>1 DEF AttemptRow, StartSteps
  <2>3. \E r \in AttemptRow : attempt' = [attempt EXCEPT ![a] = r]
    <3>1. CASE Launch(a)
      BY <2>2, <3>1 DEF Launch
    <3>2. CASE Register(a)
      BY <2>2, <3>2 DEF Register
    <3>3. CASE Navigated(a) \/ UnwindEnd(a)
      BY <2>2, <3>3 DEF Navigated, UnwindEnd
    <3>4. CASE StartFails(a)
      BY <2>2, <3>4 DEF StartFails
    <3>5. CASE FinishClose(a)
      BY <2>2, <3>5 DEF FinishClose
    <3>6. CASE Elapse(a)
      BY <2>2, <3>6 DEF Elapse
    <3>7. CASE PageGone(a)
      BY <2>2, <3>7 DEF PageGone
    <3> QED BY <1>4, <3>1, <3>2, <3>3, <3>4, <3>5, <3>6, <3>7
  <2>4. attempt' \in [Attempts -> AttemptRow]
    BY <1>0, <2>3
  <2>5. starting' \in Nat
    <3>1. CASE Navigated(a) \/ UnwindEnd(a)
      <4>1. UnderWay(a) /\ starting' = starting - 1
        BY <3>1 DEF Navigated, UnwindEnd, UnderWay
      <4> QED BY <1>r, <4>1
    <3>2. CASE ~(Navigated(a) \/ UnwindEnd(a))
      BY <1>0, <1>4, <3>2 DEF Launch, Register, StartFails, FinishClose, Elapse, PageGone, BrowserTypes
    <3> QED BY <3>1, <3>2
  <2>6. sessions' \in [Clones -> 0 .. MaxStarts] /\ pending' \in [Clones -> 0 .. MaxStarts]
    BY <1>0, <1>4, <1>n, <2>1
       DEF Launch, Register, Navigated, StartFails, UnwindEnd, FinishClose, Elapse, PageGone, BrowserTypes
  <2>7. made' = made /\ worker' = worker /\ stopping' = stopping
    BY <1>4 DEF Launch, Register, Navigated, StartFails, UnwindEnd, FinishClose, Elapse, PageGone
  <2> QED BY <1>0, <2>4, <2>5, <2>6, <2>7 DEF BrowserTypes
<1>5. ASSUME NEW a \in Attempts, UnwindBrowser(a) \/ Timer(a) \/ Disconnect(a)
      PROVE  /\ attempt' \in [Attempts -> AttemptRow]
             /\ made' \in 0 .. MaxStarts /\ sessions' \in [Clones -> 0 .. MaxStarts]
             /\ pending' \in [Clones -> 0 .. MaxStarts] /\ starting' \in Nat
             /\ worker' \in [Workers -> Worker] /\ stopping' \in BOOLEAN
  <2>1. PICK S \in SUBSET Clones :
          /\ sessions' = Freed(S) /\ worker' = Released(S) /\ UNCHANGED <<made, pending, starting, stopping>>
          /\ \/ attempt' = [Torn(S) EXCEPT ![a].step = "unwound", ![a].browser = "down"]
             \/ attempt' = [Torn(S) EXCEPT ![a].armed = FALSE]
             \/ attempt' = [Torn(S) EXCEPT ![a].browser = "down", ![a].page = FALSE]
    <3>1. CASE UnwindBrowser(a)
      BY <3>1 DEF UnwindBrowser
    <3>2. CASE Timer(a)
      BY <3>2 DEF Timer, Open
    <3>3. CASE Disconnect(a)
      BY <3>3 DEF Disconnect
    <3> QED BY <1>5, <3>1, <3>2, <3>3
  <2>2. Torn(S) \in [Attempts -> AttemptRow] /\ Freed(S) \in [Clones -> 0 .. MaxStarts]
        /\ Released(S) \in [Workers -> Worker]
    BY <1>0, ClosingKeepsTypes
  <2>3. \A r \in AttemptRow : /\ [r EXCEPT !.step = "unwound", !.browser = "down"] \in AttemptRow
                              /\ [r EXCEPT !.armed = FALSE] \in AttemptRow
                              /\ [r EXCEPT !.browser = "down", !.page = FALSE] \in AttemptRow
    BY DEF AttemptRow, StartSteps
  <2>4. \E r \in AttemptRow : attempt' = [Torn(S) EXCEPT ![a] = r]
    <3>1. Torn(S)[a] \in AttemptRow
      BY <2>2
    <3>2. CASE attempt' = [Torn(S) EXCEPT ![a].step = "unwound", ![a].browser = "down"]
      <4>1. attempt' = [Torn(S) EXCEPT ![a] = [Torn(S)[a] EXCEPT !.step = "unwound", !.browser = "down"]]
        BY <3>2
      <4> QED BY <2>3, <3>1, <4>1
    <3>3. CASE attempt' = [Torn(S) EXCEPT ![a].armed = FALSE]
      <4>1. attempt' = [Torn(S) EXCEPT ![a] = [Torn(S)[a] EXCEPT !.armed = FALSE]]
        BY <3>3
      <4> QED BY <2>3, <3>1, <4>1
    <3>4. CASE attempt' = [Torn(S) EXCEPT ![a].browser = "down", ![a].page = FALSE]
      <4>1. attempt' = [Torn(S) EXCEPT ![a] = [Torn(S)[a] EXCEPT !.browser = "down", !.page = FALSE]]
        BY <3>4
      <4> QED BY <2>3, <3>1, <4>1
    <3> QED BY <2>1, <3>2, <3>3, <3>4
  <2>5. attempt' \in [Attempts -> AttemptRow]
    BY <2>2, <2>4
  <2> QED BY <1>0, <2>1, <2>2, <2>5 DEF BrowserTypes
<1>6. ASSUME NEW w \in Workers, NEW c \in Clones, RenderAnonymous(w, c)
      PROVE  /\ attempt' \in [Attempts -> AttemptRow]
             /\ made' \in 0 .. MaxStarts /\ sessions' \in [Clones -> 0 .. MaxStarts]
             /\ pending' \in [Clones -> 0 .. MaxStarts] /\ starting' \in Nat
             /\ worker' \in [Workers -> Worker] /\ stopping' \in BOOLEAN
  <2>1. PICK S \in SUBSET Clones :
          /\ attempt' = Torn(S) /\ sessions' = Freed(S) /\ UNCHANGED <<made, pending, starting, stopping>>
          /\ worker' = [Released(S) EXCEPT ![w] = [step |-> "rendering", clone |-> c, on |-> NoAttempt]]
    BY <1>6 DEF RenderAnonymous
  <2>2. [step |-> "rendering", clone |-> c, on |-> NoAttempt] \in Worker
    BY DEF Worker
  <2>3. worker' \in [Workers -> Worker]
    BY <1>0, <2>1, <2>2, ClosingKeepsTypes
  <2> QED BY <1>0, <2>1, <2>3, ClosingKeepsTypes DEF BrowserTypes
<1>7. ASSUME NEW w \in Workers, \/ \E c \in Clones : AwaitSession(w, c)
                                \/ WaiterTimesOut(w) \/ RenderEnds(w)
      PROVE  /\ attempt' \in [Attempts -> AttemptRow]
             /\ made' \in 0 .. MaxStarts /\ sessions' \in [Clones -> 0 .. MaxStarts]
             /\ pending' \in [Clones -> 0 .. MaxStarts] /\ starting' \in Nat
             /\ worker' \in [Workers -> Worker] /\ stopping' \in BOOLEAN
  <2>1. UNCHANGED <<attempt, made, sessions, pending, starting, stopping>>
    BY <1>7 DEF AwaitSession, WaiterTimesOut, RenderEnds
  <2>2. worker[w] \in Worker /\ [worker[w] EXCEPT !.step = "idle", !.on = NoAttempt] \in Worker
    BY <1>0 DEF BrowserTypes, Worker
  <2>3. \E r \in Worker : worker' = [worker EXCEPT ![w] = r]
    <3>1. CASE WaiterTimesOut(w) \/ RenderEnds(w)
      BY <2>2, <3>1, ZenonT(20) DEF WaiterTimesOut, RenderEnds
    <3>2. ASSUME NEW c \in Clones, AwaitSession(w, c) PROVE \E r \in Worker : worker' = [worker EXCEPT ![w] = r]
      <4>1. sessions[c] \in Attempts
        BY <1>0, <3>2 DEF AwaitSession, Owned, Seen, BrowserTypes, NoAttempt, Attempts
      <4>2. [step |-> IF attempt[sessions[c]].ready THEN "rendering" ELSE "waiting", clone |-> c, on |-> sessions[c]] \in Worker
        BY <4>1 DEF Worker
      <4> QED BY <3>2, <4>2 DEF AwaitSession
    <3> QED BY <1>7, <3>1, <3>2
  <2>4. worker' \in [Workers -> Worker]
    BY <1>0, <2>3 DEF BrowserTypes
  <2> QED BY <1>0, <2>1, <2>4 DEF BrowserTypes
<1>8. CASE Shutdown
  <2>1. Open \in SUBSET Clones
    BY DEF Open
  <2> QED BY <1>8, <1>c, <2>1 DEF Shutdown
<1> QED BY <1>1, <1>2, <1>3, <1>4, <1>5, <1>6, <1>7, <1>8 DEF BrowserNext, Request

\* Nobody is shut with no clone.
LEMMA NobodyClosed ==
    ASSUME BrowserTypes
    PROVE  sessions = Freed({}) /\ (worker' = worker => WorkersKept({}))
<1>1. sessions = Freed({})
  BY DEF Freed, BrowserTypes
<1>2. ASSUME worker' = worker, NEW w \in Workers PROVE worker'[w] = Released({})[w]
  BY <1>2, ReleasedRow
<1> QED BY <1>1, <1>2 DEF WorkersKept

\* The steps that make and register no attempt and end no start.
LEMMA QuietSteps ==
    ASSUME BrowserInv, BrowserTypes',
           \/ \E o \in Owners, c \in Clones : Look(o, c) \/ CloseSession(o, c)
           \/ \E a \in Attempts : \/ Launch(a) \/ StartFails(a) \/ UnwindBrowser(a) \/ FinishClose(a)
                                  \/ Elapse(a) \/ Timer(a) \/ Disconnect(a) \/ PageGone(a)
           \/ \E w \in Workers : \/ \E c \in Clones : RenderAnonymous(w, c)
                                 \/ WaiterTimesOut(w) \/ RenderEnds(w)
           \/ Shutdown \/ UNCHANGED browserVars
    PROVE  BrowserBooks'
<1>0. BrowserTypes /\ \A a \in Attempts : attempt[a] \in AttemptRow
  BY DEF BrowserInv, BrowserTypes, AttemptRow
<1>d. DOMAIN attempt = Attempts
  BY <1>0 DEF BrowserTypes
<1>c. ASSUME NEW S \in SUBSET Clones, CloseById(S), UNCHANGED <<made, pending, starting>>
      PROVE BrowserBooks'
  <2>1. RowsKept(S)
    BY <1>0, <1>c, TornRow DEF RowsKept, CloseById
  <2>2. WorkersKept(S)
    BY <1>c DEF WorkersKept, CloseById
  <2> QED BY <1>c, <2>1, <2>2, ClosingKeepsBooks DEF CloseById
<1>1. ASSUME NEW o \in Owners, NEW c \in Clones, Look(o, c) \/ CloseSession(o, c) PROVE BrowserBooks'
  BY <1>1, <1>c DEF Look, CloseSession
<1>2. CASE Shutdown
  BY <1>2, <1>c DEF Shutdown, Open
<1>3. CASE UNCHANGED browserVars
  <2>1. RowsKept({})
    BY <1>0, <1>3 DEF browserVars, RowsKept, AttemptRow
  <2>2. WorkersKept({}) /\ sessions' = Freed({})
    BY <1>0, <1>3, NobodyClosed DEF browserVars
  <2> QED BY <1>3, <2>1, <2>2, ClosingKeepsBooks DEF browserVars
<1>4. ASSUME NEW a \in Attempts, Launch(a) \/ StartFails(a) \/ FinishClose(a) \/ Elapse(a) \/ PageGone(a)
      PROVE BrowserBooks'
  <2>1. UNCHANGED <<made, sessions, pending, starting, worker, stopping>>
    BY <1>4 DEF Launch, StartFails, FinishClose, Elapse, PageGone
  <2>2. \A b \in Attempts : b # a => attempt'[b] = attempt[b]
    BY <1>0, <1>4, <1>d DEF Launch, StartFails, FinishClose, Elapse, PageGone
  <2>3. /\ attempt'[a].clone = attempt[a].clone /\ attempt'[a].owner = attempt[a].owner
        /\ attempt'[a].ready = attempt[a].ready /\ attempt'[a].armed = attempt[a].armed
        /\ \/ attempt'[a].step = attempt[a].step
           \/ attempt[a].step = "launching" /\ attempt'[a].step = "launched"
           \/ attempt[a].step \in {"launching", "launched", "navigating"} /\ attempt'[a].step = "unwinding"
    <3>1. CASE Launch(a)
      BY <1>0, <1>d, <3>1 DEF Launch, AttemptRow
    <3>2. CASE StartFails(a)
      BY <1>0, <1>d, <3>2 DEF StartFails, AttemptRow
    <3>3. CASE FinishClose(a)
      BY <1>0, <1>d, <3>3 DEF FinishClose, AttemptRow
    <3>4. CASE Elapse(a)
      BY <1>0, <1>d, <3>4 DEF Elapse, AttemptRow
    <3>5. CASE PageGone(a)
      BY <1>0, <1>d, <3>5 DEF PageGone, AttemptRow
    <3> QED BY <1>4, <3>1, <3>2, <3>3, <3>4, <3>5
  <2>4. RowsKept({})
    BY <2>2, <2>3 DEF RowsKept, Entered
  <2>5. WorkersKept({}) /\ sessions' = Freed({})
    BY <1>0, <2>1, NobodyClosed
  <2> QED BY <2>1, <2>4, <2>5, ClosingKeepsBooks
<1>5. ASSUME NEW a \in Attempts, UnwindBrowser(a) \/ Timer(a) \/ Disconnect(a) PROVE BrowserBooks'
  <2>1. PICK S \in SUBSET Clones :
          /\ sessions' = Freed(S) /\ worker' = Released(S) /\ UNCHANGED <<made, pending, starting, stopping>>
          /\ \A b \in Attempts : b # a => attempt'[b] = Torn(S)[b]
          /\ attempt'[a].clone = Torn(S)[a].clone /\ attempt'[a].owner = Torn(S)[a].owner
          /\ attempt'[a].ready = Torn(S)[a].ready /\ (attempt'[a].armed => Torn(S)[a].armed)
          /\ \/ attempt'[a].step = attempt[a].step
             \/ /\ attempt[a].step = "unwinding" /\ attempt'[a].step = "unwound"
                /\ \A c \in Clones \ S : sessions[c] # a
    <3>1. ASSUME NEW S \in SUBSET Clones
          PROVE  DOMAIN Torn(S) = Attempts /\ Torn(S)[a] \in AttemptRow /\ Torn(S)[a].step = attempt[a].step
      BY <1>0, ClosingKeepsTypes, TornRow
    <3>2. CASE UnwindBrowser(a)
      <4> DEFINE S == {c \in Clones : sessions[c] = a}
      <4>1. /\ attempt' = [Torn(S) EXCEPT ![a].step = "unwound", ![a].browser = "down"]
            /\ sessions' = Freed(S) /\ worker' = Released(S) /\ UNCHANGED <<made, pending, starting, stopping>>
            /\ attempt[a].step = "unwinding"
        BY <3>2 DEF UnwindBrowser
      <4>2. S \in SUBSET Clones /\ \A c \in Clones \ S : sessions[c] # a
        OBVIOUS
      <4> HIDE DEF S
      <4>3. /\ \A b \in Attempts : b # a => attempt'[b] = Torn(S)[b]
            /\ attempt'[a].clone = Torn(S)[a].clone /\ attempt'[a].owner = Torn(S)[a].owner
            /\ attempt'[a].ready = Torn(S)[a].ready /\ attempt'[a].armed = Torn(S)[a].armed
            /\ attempt'[a].step = "unwound"
        BY <3>1, <4>1, <4>2 DEF AttemptRow
      <4> QED BY <4>1, <4>2, <4>3
    <3>3. CASE Timer(a)
      <4> DEFINE S == {attempt[a].clone} \cap Open
      <4>1. /\ attempt' = [Torn(S) EXCEPT ![a].armed = FALSE]
            /\ sessions' = Freed(S) /\ worker' = Released(S) /\ UNCHANGED <<made, pending, starting, stopping>>
        BY <3>3 DEF Timer
      <4>2. S \in SUBSET Clones
        BY DEF Open
      <4> HIDE DEF S
      <4>3. /\ \A b \in Attempts : b # a => attempt'[b] = Torn(S)[b]
            /\ attempt'[a].clone = Torn(S)[a].clone /\ attempt'[a].owner = Torn(S)[a].owner
            /\ attempt'[a].ready = Torn(S)[a].ready /\ ~attempt'[a].armed
            /\ attempt'[a].step = attempt[a].step
        BY <3>1, <4>1, <4>2 DEF AttemptRow
      <4> QED BY <4>1, <4>2, <4>3
    <3>4. CASE Disconnect(a)
      <4> DEFINE S == {c \in Clones : sessions[c] = a}
      <4>1. /\ attempt' = [Torn(S) EXCEPT ![a].browser = "down", ![a].page = FALSE]
            /\ sessions' = Freed(S) /\ worker' = Released(S) /\ UNCHANGED <<made, pending, starting, stopping>>
        BY <3>4 DEF Disconnect
      <4>2. S \in SUBSET Clones
        OBVIOUS
      <4> HIDE DEF S
      <4>3. /\ \A b \in Attempts : b # a => attempt'[b] = Torn(S)[b]
            /\ attempt'[a].clone = Torn(S)[a].clone /\ attempt'[a].owner = Torn(S)[a].owner
            /\ attempt'[a].ready = Torn(S)[a].ready /\ attempt'[a].armed = Torn(S)[a].armed
            /\ attempt'[a].step = attempt[a].step
        BY <3>1, <4>1, <4>2 DEF AttemptRow
      <4> QED BY <4>1, <4>2, <4>3
    <3> QED BY <1>5, <3>2, <3>3, <3>4
  <2>2. RowsKept(S)
    <3> SUFFICES ASSUME NEW b \in Attempts
                 PROVE /\ attempt'[b].clone = attempt[b].clone /\ attempt'[b].owner = attempt[b].owner
                       /\ attempt'[b].ready <=> attempt[b].ready
                       /\ attempt'[b].armed => attempt[b].armed /\ \A c \in S : sessions[c] # b
                       /\ attempt'[b].step = "none" <=> attempt[b].step = "none"
                       /\ attempt'[b].step = "over" <=> attempt[b].step = "over"
                       /\ (attempt[b].step \in Entered /\ \E c \in Clones \ S : sessions[c] = b)
                            => attempt'[b].step \in Entered
      BY DEF RowsKept
    <3>1. CASE b # a
      BY <1>0, <2>1, <3>1, TornRow
    <3>2. CASE b = a
      BY <1>0, <2>1, <3>2, TornRow DEF Entered
    <3> QED BY <3>1, <3>2
  <2>3. WorkersKept(S)
    BY <2>1 DEF WorkersKept
  <2> QED BY <2>1, <2>2, <2>3, ClosingKeepsBooks
<1>6. ASSUME NEW w \in Workers, NEW c \in Clones, RenderAnonymous(w, c) PROVE BrowserBooks'
  <2>1. PICK S \in SUBSET Clones :
          /\ attempt' = Torn(S) /\ sessions' = Freed(S) /\ UNCHANGED <<made, pending, starting, stopping>>
          /\ worker' = [Released(S) EXCEPT ![w] = [step |-> "rendering", clone |-> c, on |-> NoAttempt]]
    BY <1>6 DEF RenderAnonymous
  <2>2. RowsKept(S)
    BY <1>0, <2>1, TornRow DEF RowsKept
  <2>3. DOMAIN Released(S) = Workers
    BY DEF Released
  <2>4. WorkersKept(S)
    BY <2>1, <2>3 DEF WorkersKept
  <2> QED BY <2>1, <2>2, <2>4, ClosingKeepsBooks
<1>7. ASSUME NEW w \in Workers, WaiterTimesOut(w) \/ RenderEnds(w) PROVE BrowserBooks'
  <2>1. UNCHANGED <<attempt, made, sessions, pending, starting, stopping>>
    BY <1>7 DEF WaiterTimesOut, RenderEnds
  <2>2. \A v \in Workers : worker'[v] = worker[v] \/ (worker'[v].step = "idle" /\ worker'[v].on = NoAttempt)
    <3>1. \A v \in Workers : worker[v] \in Worker
      BY <1>0 DEF BrowserTypes
    <3>2. worker' = [worker EXCEPT ![w].step = "idle", ![w].on = NoAttempt] /\ DOMAIN worker = Workers
      BY <1>0, <1>7 DEF WaiterTimesOut, RenderEnds, BrowserTypes
    <3> QED BY <3>1, <3>2 DEF Worker
  <2>3. WorkersKept({})
    BY <1>0, <2>2, ReleasedRow DEF WorkersKept
  <2>4. RowsKept({})
    BY <1>0, <2>1 DEF RowsKept, AttemptRow
  <2>5. sessions' = Freed({})
    BY <1>0, <2>1, NobodyClosed
  <2> QED BY <2>1, <2>3, <2>4, <2>5, ClosingKeepsBooks
<1> QED BY <1>1, <1>2, <1>3, <1>4, <1>5, <1>6, <1>7

\* An attempt of a registered session is none's but its clone's.
LEMMA RegisteredOnce ==
    ASSUME BrowserInv, NEW c \in Clones, sessions[c] # NoAttempt
    PROVE  /\ sessions[c] \in Attempts /\ attempt[sessions[c]].clone = c
           /\ sessions[c] <= made /\ attempt[sessions[c]].step \in Entered
<1>1. sessions[c] \in Attempts
  BY DEF BrowserInv, BrowserTypes, Attempts, NoAttempt
<1>2. attempt[sessions[c]].clone = c /\ attempt[sessions[c]].step \in Entered
  BY DEF BrowserInv, BrowserBooks, Registered
<1>3. attempt[sessions[c]].step # "none"
  BY <1>2 DEF Entered
<1>4. sessions[c] <= made
  BY <1>1, <1>3 DEF BrowserInv, BrowserBooks, Made, BrowserTypes, Attempts
<1> QED BY <1>1, <1>2, <1>4

\* A worker takes the session it is offered, or waits for its confirmation.
LEMMA AwaitKeepsBooks ==
    ASSUME BrowserInv, BrowserTypes', NEW w \in Workers, NEW c \in Clones, AwaitSession(w, c)
    PROVE  BrowserBooks'
<1> DEFINE a == sessions[c]
<1>1. /\ UNCHANGED <<attempt, made, sessions, pending, starting, stopping>>
      /\ sessions[c] # NoAttempt /\ attempt[a].owner = OwnerOf[c]
      /\ worker' = [worker EXCEPT ![w] = [step |-> IF attempt[a].ready THEN "rendering" ELSE "waiting",
                                          clone |-> c, on |-> a]]
  BY DEF AwaitSession, Owned, Seen
<1>2. a \in Attempts /\ attempt[a].clone = c /\ a <= made /\ a # NoAttempt
  BY <1>1, RegisteredOnce
<1>3. /\ worker'[w].clone = c /\ worker'[w].on = a
      /\ worker'[w].step = "rendering" => attempt[a].ready
      /\ worker'[w].step = "waiting" => ~attempt[a].ready
      /\ \A v \in Workers : v # w => worker'[v] = worker[v]
  BY <1>1 DEF BrowserInv, BrowserTypes
<1> HIDE DEF a
<1>4. Made' /\ Starts' /\ Registered' /\ CapacityHeld' /\ TimersAreOwn' /\ UnwindsItself'
  <2>1. Made /\ Starts /\ Registered /\ CapacityHeld /\ TimersAreOwn /\ UnwindsItself
    BY DEF BrowserInv, BrowserBooks
  <2> QED BY <1>1, <2>1 DEF Made, Starts, Registered, CapacityHeld, TimersAreOwn, UnwindsItself, UnderWay, Open
<1>5. Attached' /\ NoWaiterStranded' /\ RendersConfirmed'
  <2>1. Attached /\ NoWaiterStranded /\ RendersConfirmed
    BY DEF BrowserInv, BrowserBooks
  <2>2. a = sessions[c]
    BY DEF a
  <2>3. Attached'
    BY <1>1, <1>2, <1>3, <2>1, <2>2 DEF Attached
  <2>4. NoWaiterStranded'
    BY <1>1, <1>2, <1>3, <2>1, <2>2 DEF NoWaiterStranded
  <2>5. RendersConfirmed'
    BY <1>1, <1>2, <1>3, <2>1, <2>2 DEF RendersConfirmed
  <2> QED BY <2>3, <2>4, <2>5
<1> QED BY <1>4, <1>5 DEF BrowserBooks

\* The user's confirmation releases all who wait for it.
LEMMA ReadyKeepsBooks ==
    ASSUME BrowserInv, BrowserTypes', NEW o \in Owners, NEW c \in Clones, Ready(o, c)
    PROVE  BrowserBooks'
<1> DEFINE a == sessions[c]
<1>0. \A b \in Attempts : attempt[b] \in AttemptRow
  BY DEF BrowserInv, BrowserTypes, AttemptRow
<1>1. /\ UNCHANGED <<made, sessions, pending, starting, stopping>>
      /\ sessions[c] # NoAttempt
      /\ attempt' = [attempt EXCEPT ![a].ready = TRUE]
      /\ worker' = [w \in Workers |-> IF worker[w].step = "waiting" /\ worker[w].on = a
                                      THEN [worker[w] EXCEPT !.step = "rendering"] ELSE worker[w]]
  BY DEF Ready, Owned, Seen
<1>2. a \in Attempts /\ attempt[a].clone = c /\ a <= made
  BY <1>1, RegisteredOnce
<1> HIDE DEF a
<1>3. \A b \in Attempts : /\ attempt'[b].clone = attempt[b].clone /\ attempt'[b].owner = attempt[b].owner
                          /\ attempt'[b].armed = attempt[b].armed /\ attempt'[b].step = attempt[b].step
                          /\ attempt[b].clone \in Clones
                          /\ b = a => attempt'[b].ready
                          /\ b # a => (attempt'[b].ready <=> attempt[b].ready)
  BY <1>0, <1>1, <1>2 DEF BrowserInv, BrowserTypes, AttemptRow
<1>4. \A w \in Workers : /\ worker'[w].clone = worker[w].clone /\ worker'[w].on = worker[w].on
                         /\ \/ worker[w].step = "waiting" /\ worker[w].on = a /\ worker'[w].step = "rendering"
                            \/ ~(worker[w].step = "waiting" /\ worker[w].on = a) /\ worker'[w].step = worker[w].step
  <2>1. \A w \in Workers : worker[w] \in Worker
    BY DEF BrowserInv, BrowserTypes
  <2> QED BY <1>1, <2>1 DEF Worker
<1>5. \A b \in Attempts : UnderWay(b)' <=> UnderWay(b)
  BY <1>3 DEF UnderWay
<1>6. /\ \A d \in Clones : sessions[d] # NoAttempt => sessions[d] \in Attempts
      /\ \A d \in Clones : pending[d] # NoAttempt => pending[d] \in Attempts
      /\ \A w \in Workers : worker[w].on # NoAttempt => worker[w].on \in Attempts
  BY DEF BrowserInv, BrowserTypes, Attempts, NoAttempt, Worker
<1>7. Made' /\ Starts' /\ Registered' /\ TimersAreOwn' /\ UnwindsItself'
  <2>1. Made /\ Starts /\ Registered /\ TimersAreOwn /\ UnwindsItself
    BY DEF BrowserInv, BrowserBooks
  <2>2. Made'
    BY <1>1, <1>3, <2>1 DEF Made, Attempts
  <2>3. Starts'
    BY <1>1, <1>3, <1>5, <1>6, <2>1 DEF Starts
  <2>4. Registered'
    BY <1>1, <1>3, <1>6, <2>1 DEF Registered
  <2>5. TimersAreOwn' /\ UnwindsItself'
    BY <1>1, <1>3, <1>5, <2>1 DEF TimersAreOwn, UnwindsItself
  <2> QED BY <2>2, <2>3, <2>4, <2>5
<1>8. CapacityHeld'
  <2>1. {b \in Attempts : UnderWay(b)'} = {b \in Attempts : UnderWay(b)}
    BY <1>5
  <2>2. CapacityHeld
    BY DEF BrowserInv, BrowserBooks
  <2> QED BY <1>1, <2>1, <2>2 DEF CapacityHeld, Open
<1>9. Attached' /\ NoWaiterStranded' /\ RendersConfirmed'
  <2>1. Attached /\ NoWaiterStranded /\ RendersConfirmed
    BY DEF BrowserInv, BrowserBooks
  <2>2. Attached'
    BY <1>1, <1>3, <1>4, <1>6, <2>1 DEF Attached
  <2>3. NoWaiterStranded'
    BY <1>1, <1>3, <1>4, <1>6, <2>1 DEF NoWaiterStranded, Attached
  <2>4. RendersConfirmed'
    BY <1>1, <1>3, <1>4, <1>6, <2>1 DEF RendersConfirmed, Attached
  <2> QED BY <2>2, <2>3, <2>4
<1> QED BY <1>7, <1>8, <1>9 DEF BrowserBooks

\* The page is open: the only start of its clone registers its session.
LEMMA RegisterKeepsBooks ==
    ASSUME BrowserInv, BrowserTypes', NEW a \in Attempts, Register(a)
    PROVE  BrowserBooks'
<1> DEFINE c == attempt[a].clone
<1>0. \A b \in Attempts : attempt[b] \in AttemptRow
  BY DEF BrowserInv, BrowserTypes, AttemptRow
<1>1. /\ UNCHANGED <<made, pending, starting, worker, stopping>>
      /\ attempt[a].step = "launched"
      /\ sessions' = [sessions EXCEPT ![c] = a]
      /\ attempt' = [attempt EXCEPT ![a].step = "navigating", ![a].page = TRUE, ![a].armed = TRUE]
  BY DEF Register
<1>2. /\ Made /\ Starts /\ Registered /\ TimersAreOwn /\ UnwindsItself /\ CapacityHeld
      /\ Attached /\ NoWaiterStranded /\ RendersConfirmed
  BY DEF BrowserInv, BrowserBooks
<1>3. c \in Clones
  BY <1>0 DEF AttemptRow
<1>4. pending[c] = a /\ sessions[c] = NoAttempt
  <2>1. UnderWay(a)
    BY <1>1 DEF UnderWay
  <2>2. pending[c] = a /\ sessions[c] \in {NoAttempt, a}
    BY <1>2, <2>1 DEF UnwindsItself
  <2>3. sessions[c] # a
    BY <1>1, <1>2, <1>3 DEF Registered, Entered, Attempts, NoAttempt
  <2> QED BY <2>2, <2>3
<1>5. \A b \in Attempts : /\ attempt'[b].clone = attempt[b].clone /\ attempt'[b].owner = attempt[b].owner
                          /\ (attempt'[b].ready <=> attempt[b].ready) /\ attempt[b].clone \in Clones
                          /\ b # a => attempt'[b].step = attempt[b].step /\ (attempt'[b].armed <=> attempt[b].armed)
                          /\ b = a => attempt'[b].step = "navigating"
  BY <1>0, <1>1 DEF BrowserInv, BrowserTypes, AttemptRow
<1>6. \A b \in Attempts : UnderWay(b)' <=> UnderWay(b)
  BY <1>1, <1>5 DEF UnderWay
<1>7. \A d \in Clones : sessions'[d] = IF d = c THEN a ELSE sessions[d]
  BY <1>1, <1>3 DEF BrowserInv, BrowserTypes
<1>8. /\ \A d \in Clones : sessions[d] # NoAttempt => sessions[d] \in Attempts
      /\ \A d \in Clones : pending[d] # NoAttempt => pending[d] \in Attempts
      /\ \A w \in Workers : worker[w].clone \in Clones /\ (worker[w].on # NoAttempt => worker[w].on \in Attempts)
      /\ a # NoAttempt
  BY DEF BrowserInv, BrowserTypes, Attempts, NoAttempt, Worker
<1>c. c = attempt[a].clone
  OBVIOUS
<1> HIDE DEF c
<1>9. Made' /\ Starts'
  <2>1. \A b \in Attempts : attempt'[b].step = "none" <=> attempt[b].step = "none"
    BY <1>1, <1>5
  <2>2. Made'
    BY <1>1, <1>2, <2>1 DEF Made, Attempts
  <2>3. Starts'
    <3> SUFFICES ASSUME NEW d \in Clones, pending[d] # NoAttempt
                 PROVE  attempt'[pending[d]].step \notin {"none", "over"} /\ attempt'[pending[d]].clone = d
      BY <1>1 DEF Starts, UnderWay
    <3>1. pending[d] \in Attempts /\ attempt[pending[d]].step \notin {"none", "over"} /\ attempt[pending[d]].clone = d
      BY <1>2, <1>8 DEF Starts, UnderWay
    <3> QED BY <1>5, <3>1
  <2> QED BY <2>2, <2>3
<1>10. Registered'
  <2> SUFFICES ASSUME NEW d \in Clones, sessions'[d] # NoAttempt
               PROVE  attempt'[sessions'[d]].clone = d /\ attempt'[sessions'[d]].step \in Entered
    BY DEF Registered
  <2>1. CASE d = c
    BY <1>5, <1>7, <1>c, <2>1 DEF Entered
  <2>2. CASE d # c
    <3>1. sessions'[d] = sessions[d] /\ sessions[d] \in Attempts /\ sessions[d] # NoAttempt
      BY <1>7, <1>8, <2>2
    <3>2. attempt[sessions[d]].clone = d /\ attempt[sessions[d]].step \in Entered
      BY <1>2, <3>1 DEF Registered
    <3>3. sessions[d] # a
      BY <1>c, <2>2, <3>2
    <3> QED BY <1>5, <3>1, <3>2, <3>3
  <2> QED BY <2>1, <2>2
<1>11. TimersAreOwn'
  <2> SUFFICES ASSUME NEW b \in Attempts, attempt'[b].armed PROVE sessions'[attempt'[b].clone] = b
    BY DEF TimersAreOwn
  <2>1. CASE b = a
    BY <1>5, <1>7, <1>c, <2>1
  <2>2. CASE b # a
    <3>1. sessions[attempt[b].clone] = b
      BY <1>2, <1>5, <2>2 DEF TimersAreOwn
    <3>2. attempt[b].clone # c
      BY <1>4, <3>1 DEF Attempts, NoAttempt
    <3> QED BY <1>5, <1>7, <3>1, <3>2
  <2> QED BY <2>1, <2>2
<1>12. UnwindsItself'
  <2> SUFFICES ASSUME NEW b \in Attempts, UnderWay(b)'
               PROVE  pending'[attempt'[b].clone] = b /\ sessions'[attempt'[b].clone] \in {NoAttempt, b}
    BY DEF UnwindsItself
  <2>1. pending[attempt[b].clone] = b /\ sessions[attempt[b].clone] \in {NoAttempt, b}
    BY <1>2, <1>6 DEF UnwindsItself
  <2>2. attempt[b].clone = c => b = a
    BY <1>4, <2>1
  <2>3. attempt'[b].clone = attempt[b].clone /\ attempt[b].clone \in Clones /\ pending' = pending
    BY <1>1, <1>5
  <2>4. sessions'[attempt[b].clone] \in {NoAttempt, b}
    <3>1. CASE attempt[b].clone = c
      BY <1>7, <2>2, <2>3, <3>1
    <3>2. CASE attempt[b].clone # c
      BY <1>7, <2>1, <2>3, <3>2
    <3> QED BY <3>1, <3>2
  <2> QED BY <2>1, <2>3, <2>4
<1>13. CapacityHeld'
  <2>1. {b \in Attempts : UnderWay(b)'} = {b \in Attempts : UnderWay(b)}
    BY <1>6
  <2>2. {d \in Clones : sessions'[d] # NoAttempt} \cup {d \in Clones : pending'[d] # NoAttempt}
        = Open \cup {d \in Clones : pending[d] # NoAttempt}
    BY <1>1, <1>4, <1>7, <1>8 DEF Open
  <2> QED BY <1>1, <1>2, <2>1, <2>2 DEF CapacityHeld, Open
<1>14. Attached' /\ NoWaiterStranded' /\ RendersConfirmed'
  <2>0. /\ worker' = worker /\ made' = made
        /\ \A w \in Workers : worker[w].on # NoAttempt =>
             /\ attempt'[worker[w].on].clone = attempt[worker[w].on].clone
             /\ attempt'[worker[w].on].owner = attempt[worker[w].on].owner
             /\ attempt'[worker[w].on].ready <=> attempt[worker[w].on].ready
    BY <1>1, <1>5, <1>8
  <2>1. Attached'
    BY <1>2, <2>0 DEF Attached
  <2>2. RendersConfirmed'
    BY <1>2, <2>0 DEF RendersConfirmed
  <2>3. NoWaiterStranded'
    <3> SUFFICES ASSUME NEW w \in Workers, worker[w].step = "waiting"
                 PROVE  sessions'[worker[w].clone] = worker[w].on /\ ~attempt'[worker[w].on].ready
      BY <1>1 DEF NoWaiterStranded
    <3>1. sessions[worker[w].clone] = worker[w].on /\ ~attempt[worker[w].on].ready /\ worker[w].on # NoAttempt
      BY <1>2 DEF NoWaiterStranded, Attached
    <3>2. worker[w].clone # c
      BY <1>4, <3>1
    <3> QED BY <1>5, <1>7, <1>8, <3>1, <3>2
  <2> QED BY <2>1, <2>2, <2>3
<1> QED BY <1>9, <1>10, <1>11, <1>12, <1>13, <1>14 DEF BrowserBooks

\* A start ends, well or not: its clone has no other, and after a failure no session.
LEMMA EndKeepsBooks ==
    ASSUME BrowserInv, BrowserTypes', NEW a \in Attempts, Navigated(a) \/ UnwindEnd(a)
    PROVE  BrowserBooks'
<1> DEFINE c == attempt[a].clone
<1>0. \A b \in Attempts : attempt[b] \in AttemptRow
  BY DEF BrowserInv, BrowserTypes, AttemptRow
<1>1. /\ UNCHANGED <<made, worker, stopping>> /\ UnderWay(a)
      /\ attempt' = [attempt EXCEPT ![a].step = "over"]
      /\ pending' = [pending EXCEPT ![c] = NoAttempt]
      /\ starting' = starting - 1
      /\ \/ sessions' = sessions
         \/ attempt[a].step = "unwound" /\ sessions' = [sessions EXCEPT ![c] = NoAttempt]
  BY DEF Navigated, UnwindEnd, UnderWay
<1>2. /\ Made /\ Starts /\ Registered /\ TimersAreOwn /\ UnwindsItself /\ CapacityHeld
      /\ Attached /\ NoWaiterStranded /\ RendersConfirmed
  BY DEF BrowserInv, BrowserBooks
<1>3. c \in Clones /\ pending[c] = a /\ sessions[c] \in {NoAttempt, a}
  BY <1>0, <1>1, <1>2 DEF AttemptRow, UnwindsItself
<1>4. sessions' = sessions
  <2>1. CASE attempt[a].step = "unwound" /\ sessions' = [sessions EXCEPT ![c] = NoAttempt]
    <3>1. sessions[c] # a
      BY <1>2, <1>3, <2>1 DEF Registered, Entered, Attempts, NoAttempt
    <3>2. sessions[c] = NoAttempt
      BY <1>3, <3>1
    <3> QED BY <1>3, <2>1, <3>2 DEF BrowserInv, BrowserTypes
  <2> QED BY <1>1, <2>1
<1>5. \A b \in Attempts : /\ attempt'[b].clone = attempt[b].clone /\ attempt'[b].owner = attempt[b].owner
                          /\ (attempt'[b].ready <=> attempt[b].ready) /\ (attempt'[b].armed <=> attempt[b].armed)
                          /\ attempt[b].clone \in Clones
                          /\ b # a => attempt'[b].step = attempt[b].step
                          /\ b = a => attempt'[b].step = "over"
  BY <1>0, <1>1 DEF BrowserInv, BrowserTypes, AttemptRow
<1>6. \A b \in Attempts : UnderWay(b)' <=> UnderWay(b) /\ b # a
  BY <1>1, <1>5 DEF UnderWay
<1>7. \A d \in Clones : pending'[d] = IF d = c THEN NoAttempt ELSE pending[d]
  BY <1>1, <1>3 DEF BrowserInv, BrowserTypes
<1>8. /\ \A d \in Clones : sessions[d] # NoAttempt => sessions[d] \in Attempts
      /\ \A d \in Clones : pending[d] # NoAttempt => pending[d] \in Attempts
      /\ \A w \in Workers : worker[w].clone \in Clones /\ (worker[w].on # NoAttempt => worker[w].on \in Attempts)
  BY DEF BrowserInv, BrowserTypes, Attempts, NoAttempt, Worker
<1>c. c = attempt[a].clone
  OBVIOUS
<1> HIDE DEF c
<1>9. Made'
  <2>1. attempt[a].step # "none"
    BY <1>1 DEF UnderWay
  <2>2. \A b \in Attempts : attempt'[b].step = "none" <=> attempt[b].step = "none"
    BY <1>5, <2>1
  <2> QED BY <1>1, <1>2, <2>2 DEF Made, Attempts
<1>10. Starts'
  <2> SUFFICES ASSUME NEW d \in Clones, pending'[d] # NoAttempt
               PROVE  attempt'[pending'[d]].step \notin {"none", "over"} /\ attempt'[pending'[d]].clone = d
    BY DEF Starts, UnderWay
  <2>1. d # c /\ pending'[d] = pending[d] /\ pending[d] \in Attempts
    BY <1>7, <1>8
  <2>2. attempt[pending[d]].step \notin {"none", "over"} /\ attempt[pending[d]].clone = d
    BY <1>2, <2>1 DEF Starts, UnderWay
  <2>3. pending[d] # a
    BY <1>c, <2>1, <2>2
  <2> QED BY <1>5, <2>1, <2>2, <2>3
<1>11. Registered'
  <2> SUFFICES ASSUME NEW d \in Clones, sessions[d] # NoAttempt
               PROVE  attempt'[sessions[d]].clone = d /\ attempt'[sessions[d]].step \in Entered
    BY <1>4 DEF Registered
  <2>1. sessions[d] \in Attempts /\ attempt[sessions[d]].clone = d /\ attempt[sessions[d]].step \in Entered
    BY <1>2, <1>8 DEF Registered
  <2> QED BY <1>5, <2>1 DEF Entered
<1>12. TimersAreOwn'
  BY <1>2, <1>4, <1>5 DEF TimersAreOwn
<1>13. UnwindsItself'
  <2> SUFFICES ASSUME NEW b \in Attempts, UnderWay(b)'
               PROVE  pending'[attempt'[b].clone] = b /\ sessions'[attempt'[b].clone] \in {NoAttempt, b}
    BY DEF UnwindsItself
  <2>1. b # a /\ pending[attempt[b].clone] = b /\ sessions[attempt[b].clone] \in {NoAttempt, b}
    BY <1>2, <1>6 DEF UnwindsItself
  <2>2. attempt[b].clone # c
    BY <1>3, <2>1
  <2> QED BY <1>4, <1>5, <1>7, <2>1, <2>2
<1>14. Attached' /\ NoWaiterStranded' /\ RendersConfirmed'
  <2>1. Attached'
    BY <1>1, <1>2, <1>5, <1>8 DEF Attached
  <2>2. RendersConfirmed'
    BY <1>1, <1>2, <1>5, <1>8 DEF RendersConfirmed
  <2>3. NoWaiterStranded'
    BY <1>1, <1>2, <1>4, <1>5, <1>8 DEF NoWaiterStranded, Attached
  <2> QED BY <2>1, <2>2, <2>3
<1>15. CapacityHeld'
  <2> DEFINE W == {b \in Attempts : UnderWay(b)}
             All == Open \cup {d \in Clones : pending[d] # NoAttempt}
             Now == {d \in Clones : sessions'[d] # NoAttempt} \cup {d \in Clones : pending'[d] # NoAttempt}
  <2>1. {b \in Attempts : UnderWay(b)'} = W \ {a}
    BY <1>6
  <2>2. IsFiniteSet(W) /\ a \in W
    <3>1. IsFiniteSet(Attempts)
      BY FS_Interval, BrowserLimits DEF Attempts
    <3> QED BY <1>1, <3>1, FS_Subset
  <2>3. Cardinality(W \ {a}) = Cardinality(W) - 1
    BY <2>2, FS_RemoveElement
  <2>4. starting' = Cardinality({b \in Attempts : UnderWay(b)'})
    BY <1>1, <1>2, <2>1, <2>3 DEF CapacityHeld
  <2>5. IsFiniteSet(All) /\ Now \in SUBSET All
    <3>1. IsFiniteSet(All)
      BY ClonesAssumption, FS_Subset DEF Open
    <3> QED BY <1>4, <1>7, <3>1 DEF Open
  <2>6. Cardinality(Now) <= Cardinality(All) /\ Cardinality(Now) \in Nat /\ Cardinality(All) \in Nat
    BY <2>5, FS_Subset, FS_CardinalityType
  <2>7. Cardinality(All) <= MaxSessions
    BY <1>2 DEF CapacityHeld
  <2>8. Cardinality(Now) <= MaxSessions
    <3> HIDE DEF All, Now
    <3> QED BY <2>6, <2>7, BrowserLimits
  <2> QED BY <2>4, <2>8 DEF CapacityHeld, Open
<1> QED BY <1>9, <1>10, <1>11, <1>12, <1>13, <1>14, <1>15 DEF BrowserBooks

\* A new attempt: it takes the place of a session that its owner saw dead, if any.
LEMMA StartKeepsBooks ==
    ASSUME BrowserInv, BrowserTypes', NEW o \in Owners, NEW c \in Clones, Start(o, c)
    PROVE  BrowserBooks'
<1> DEFINE S == IF Stale(o, c) THEN {c} ELSE {}
           n == made + 1
           row == [Blank(c) EXCEPT !.owner = o, !.step = "launching"]
           fits == Cardinality(Open \ S) + starting < MaxSessions
<1>0. BrowserTypes /\ \A b \in Attempts : attempt[b] \in AttemptRow
  BY DEF BrowserInv, BrowserTypes, AttemptRow
<1>1. /\ sessions' = Freed(S) /\ worker' = Released(S) /\ stopping' = stopping
      /\ n \in Attempts /\ pending[c] = NoAttempt
      /\ S # {} \/ sessions[c] = NoAttempt
      /\ \/ /\ fits /\ made' = n /\ pending' = [pending EXCEPT ![c] = n] /\ starting' = starting + 1
            /\ attempt' = [Torn(S) EXCEPT ![n] = row]
         \/ attempt' = Torn(S) /\ UNCHANGED <<made, pending, starting>>
  BY DEF Start
<1>2. S \in SUBSET Clones /\ (S # {} => c \in S)
  OBVIOUS
<1>3. row.step = "launching" /\ row.clone = c /\ row.owner = o /\ ~row.armed
  BY DEF Blank
<1> HIDE DEF S, row, n
<1>4. CASE attempt' = Torn(S) /\ UNCHANGED <<made, pending, starting>>
  <2>1. RowsKept(S)
    BY <1>0, <1>2, <1>4, TornRow DEF RowsKept
  <2>2. WorkersKept(S)
    BY <1>1 DEF WorkersKept
  <2> QED BY <1>1, <1>2, <1>4, <2>1, <2>2, ClosingKeepsBooks
<1>5. CASE /\ fits /\ made' = n /\ pending' = [pending EXCEPT ![c] = n] /\ starting' = starting + 1
           /\ attempt' = [Torn(S) EXCEPT ![n] = row]
  <2>1. /\ Made /\ Starts /\ Registered /\ TimersAreOwn /\ UnwindsItself /\ CapacityHeld
        /\ Attached /\ NoWaiterStranded /\ RendersConfirmed
    BY DEF BrowserInv, BrowserBooks
  <2>2. \A b \in Attempts : b <= made => b # n
    BY <1>0, <1>1 DEF n, BrowserTypes, Attempts
  <2>3. attempt[n].step = "none" /\ n # NoAttempt
    BY <1>0, <1>1, <2>1 DEF n, Made, BrowserTypes, Attempts, NoAttempt
  <2>4. \A b \in Attempts : b # n =>
           /\ attempt'[b].step = attempt[b].step /\ attempt'[b].clone = attempt[b].clone
           /\ attempt'[b].owner = attempt[b].owner /\ (attempt'[b].ready <=> attempt[b].ready)
           /\ (attempt'[b].armed => attempt[b].armed /\ \A d \in S : sessions[d] # b)
    <3> SUFFICES ASSUME NEW b \in Attempts, b # n
                 PROVE  /\ attempt'[b].step = attempt[b].step /\ attempt'[b].clone = attempt[b].clone
                        /\ attempt'[b].owner = attempt[b].owner /\ (attempt'[b].ready <=> attempt[b].ready)
                        /\ (attempt'[b].armed => attempt[b].armed /\ \A d \in S : sessions[d] # b)
      OBVIOUS
    <3>1. attempt'[b] = Torn(S)[b]
      BY <1>0, <1>2, <1>5, TornRow
    <3> QED BY <1>0, <1>2, <3>1, TornRow
  <2>5. attempt'[n] = row
    BY <1>0, <1>1, <1>2, <1>5, TornRow
  <2>6. \A b \in Attempts : attempt[b].clone \in Clones
    BY <1>0 DEF AttemptRow
  <2>7. \A d \in Clones : /\ sessions'[d] = (IF d \in S THEN NoAttempt ELSE sessions[d])
                          /\ pending'[d] = (IF d = c THEN n ELSE pending[d])
    BY <1>0, <1>1, <1>5 DEF Freed, BrowserTypes
  <2>8. /\ \A d \in Clones : sessions[d] # NoAttempt => sessions[d] \in Attempts /\ sessions[d] # n
        /\ \A d \in Clones : pending[d] # NoAttempt => pending[d] \in Attempts /\ pending[d] # n
    <3>1. \A d \in Clones : sessions[d] # NoAttempt => sessions[d] \in Attempts
      BY <1>0 DEF BrowserTypes, Attempts, NoAttempt
    <3>2. \A d \in Clones : pending[d] # NoAttempt => pending[d] \in Attempts
      BY <1>0 DEF BrowserTypes, Attempts, NoAttempt
    <3> QED BY <2>1, <2>3, <3>1, <3>2 DEF Registered, Starts, UnderWay, Entered
  <2>9. Made'
    <3> SUFFICES ASSUME NEW b \in Attempts PROVE attempt'[b].step = "none" <=> b > n
      BY <1>5 DEF Made
    <3>1. CASE b = n
      BY <1>1, <1>3, <2>5, <3>1 DEF Attempts
    <3>2. CASE b # n
      <4>1. attempt[b].step = "none" <=> b > made
        BY <2>1 DEF Made
      <4>2. b > n <=> b > made
        BY <1>0, <3>2 DEF n, BrowserTypes, Attempts
      <4> QED BY <2>4, <3>2, <4>1, <4>2
    <3> QED BY <3>1, <3>2
  <2>10. Starts'
    <3> SUFFICES ASSUME NEW d \in Clones, pending'[d] # NoAttempt
                 PROVE  attempt'[pending'[d]].step \notin {"none", "over"} /\ attempt'[pending'[d]].clone = d
      BY DEF Starts, UnderWay
    <3>1. CASE d = c
      BY <1>3, <2>5, <2>7, <3>1
    <3>2. CASE d # c
      <4>1. pending'[d] = pending[d] /\ pending[d] \in Attempts /\ pending[d] # n /\ pending[d] # NoAttempt
        BY <2>7, <2>8, <3>2
      <4>2. attempt[pending[d]].step \notin {"none", "over"} /\ attempt[pending[d]].clone = d
        BY <2>1, <4>1 DEF Starts, UnderWay
      <4> QED BY <2>4, <4>1, <4>2
    <3> QED BY <3>1, <3>2
  <2>11. Registered'
    <3> SUFFICES ASSUME NEW d \in Clones, sessions'[d] # NoAttempt
                 PROVE  attempt'[sessions'[d]].clone = d /\ attempt'[sessions'[d]].step \in Entered
      BY DEF Registered
    <3>1. sessions'[d] = sessions[d] /\ sessions[d] \in Attempts /\ sessions[d] # n /\ sessions[d] # NoAttempt
      BY <2>7, <2>8
    <3>2. attempt[sessions[d]].clone = d /\ attempt[sessions[d]].step \in Entered
      BY <2>1, <3>1 DEF Registered
    <3> QED BY <2>4, <3>1, <3>2
  <2>12. TimersAreOwn'
    <3> SUFFICES ASSUME NEW b \in Attempts, attempt'[b].armed PROVE sessions'[attempt'[b].clone] = b
      BY DEF TimersAreOwn
    <3>1. b # n
      BY <1>3, <2>5
    <3>2. attempt[b].armed /\ (\A d \in S : sessions[d] # b) /\ attempt'[b].clone = attempt[b].clone
      BY <2>4, <3>1
    <3>3. sessions[attempt[b].clone] = b
      BY <2>1, <3>2 DEF TimersAreOwn
    <3>4. attempt[b].clone \notin S /\ attempt[b].clone \in Clones
      BY <2>6, <3>2, <3>3
    <3> QED BY <2>7, <3>2, <3>3, <3>4
  <2>13. UnwindsItself'
    <3> SUFFICES ASSUME NEW b \in Attempts, attempt'[b].step \notin {"none", "over"}
                 PROVE  pending'[attempt'[b].clone] = b /\ sessions'[attempt'[b].clone] \in {NoAttempt, b}
      BY DEF UnwindsItself, UnderWay
    <3>1. CASE b = n
      <4>1. attempt'[b].clone = c /\ pending'[c] = n
        BY <1>3, <2>5, <2>7, <3>1
      <4>2. sessions'[c] = NoAttempt
        BY <1>1, <1>2, <2>7
      <4> QED BY <3>1, <4>1, <4>2
    <3>2. CASE b # n
      <4>1. attempt[b].step \notin {"none", "over"} /\ attempt'[b].clone = attempt[b].clone
        BY <2>4, <3>2
      <4>2. pending[attempt[b].clone] = b /\ sessions[attempt[b].clone] \in {NoAttempt, b}
        BY <2>1, <4>1 DEF UnwindsItself, UnderWay
      <4>3. attempt[b].clone # c /\ attempt[b].clone \in Clones
        BY <1>1, <2>6, <4>2 DEF Attempts, NoAttempt
      <4> QED BY <2>7, <4>1, <4>2, <4>3
    <3> QED BY <3>1, <3>2
  <2>14. Attached' /\ NoWaiterStranded' /\ RendersConfirmed'
    <3> SUFFICES ASSUME NEW w \in Workers
                 PROVE  /\ worker'[w].step = "waiting" => worker'[w].on # NoAttempt
                        /\ worker'[w].on # NoAttempt =>
                             /\ worker'[w].on <= n
                             /\ attempt'[worker'[w].on].clone = worker'[w].clone
                             /\ attempt'[worker'[w].on].owner = OwnerOf[worker'[w].clone]
                        /\ worker'[w].step = "waiting" =>
                             /\ sessions'[worker'[w].clone] = worker'[w].on
                             /\ ~attempt'[worker'[w].on].ready
                        /\ (worker'[w].step = "rendering" /\ worker'[w].on # NoAttempt) =>
                             attempt'[worker'[w].on].ready
      BY <1>5 DEF Attached, NoWaiterStranded, RendersConfirmed
    <3>1. CASE Released(S)[w].step = "idle" /\ Released(S)[w].on = NoAttempt
      BY <1>1, <3>1
    <3>2. CASE /\ ~(worker[w].step = "waiting" /\ \E d \in S : sessions[d] = worker[w].on)
               /\ Released(S)[w] = worker[w]
      <4>1. worker'[w] = worker[w] /\ worker[w].clone \in Clones
        BY <1>0, <1>1, <3>2 DEF BrowserTypes, Worker
      <4>2. worker[w].on # NoAttempt => worker[w].on \in Attempts /\ worker[w].on <= made /\ worker[w].on # n
        BY <1>0, <2>1, <2>2 DEF Attached, BrowserTypes, Worker
      <4>3. worker[w].on # NoAttempt =>
               /\ attempt'[worker[w].on].clone = attempt[worker[w].on].clone
               /\ attempt'[worker[w].on].owner = attempt[worker[w].on].owner
               /\ attempt'[worker[w].on].ready <=> attempt[worker[w].on].ready
        BY <2>4, <4>2
      <4>4. worker[w].on # NoAttempt => worker[w].on <= n
        BY <1>0, <4>2 DEF n, BrowserTypes, Attempts
      <4>5. worker[w].step = "waiting" => sessions'[worker[w].clone] = sessions[worker[w].clone]
        BY <2>1, <2>7, <3>2, <4>1 DEF NoWaiterStranded
      <4> QED BY <2>1, <4>1, <4>3, <4>4, <4>5 DEF Attached, NoWaiterStranded, RendersConfirmed
    <3> QED BY <1>0, <1>2, <3>1, <3>2, ReleasedRow
  <2>15. starting' = Cardinality({b \in Attempts : UnderWay(b)'})
    <3> DEFINE W == {b \in Attempts : UnderWay(b)}
    <3>1. {b \in Attempts : UnderWay(b)'} = W \cup {n}
      <4>1. \A b \in Attempts : UnderWay(b)' <=> UnderWay(b) \/ b = n
        <5> SUFFICES ASSUME NEW b \in Attempts
                     PROVE  attempt'[b].step \notin {"none", "over"} <=> attempt[b].step \notin {"none", "over"} \/ b = n
          BY DEF UnderWay
        <5> QED BY <1>3, <2>4, <2>5
      <4> QED BY <1>1, <4>1
    <3>2. IsFiniteSet(W) /\ n \notin W
      <4>1. IsFiniteSet(Attempts)
        BY FS_Interval, BrowserLimits DEF Attempts
      <4>2. n \notin W
        BY <2>3 DEF UnderWay
      <4> QED BY <4>1, <4>2, FS_Subset
    <3>3. Cardinality(W \cup {n}) = Cardinality(W) + 1
      BY <3>2, FS_AddElement
    <3>4. starting = Cardinality(W)
      BY <2>1 DEF CapacityHeld
    <3> QED BY <1>5, <3>1, <3>3, <3>4
  <2>16. Cardinality({d \in Clones : sessions'[d] # NoAttempt} \cup {d \in Clones : pending'[d] # NoAttempt}) <= MaxSessions
    <3> DEFINE P == {d \in Clones : pending[d] # NoAttempt}
               Kept == Open \ S
               Now == {d \in Clones : sessions'[d] # NoAttempt} \cup {d \in Clones : pending'[d] # NoAttempt}
               W == {b \in Attempts : UnderWay(b)}
               f == [d \in P |-> pending[d]]
    <3>1. Now = (Kept \cup P) \cup {c}
      BY <1>1, <2>3, <2>7 DEF Open
    <3>2. IsFiniteSet(W)
      <4>1. IsFiniteSet(Attempts)
        BY FS_Interval, BrowserLimits DEF Attempts
      <4> QED BY <4>1, FS_Subset
    <3>3. f \in Injection(P, W)
      <4>1. \A d \in P : pending[d] \in W /\ attempt[pending[d]].clone = d
        BY <2>1, <2>8 DEF Starts
      <4>2. f \in [P -> W]
        BY <4>1
      <4>3. \A d, e \in P : f[d] = f[e] => d = e
        BY <4>1
      <4> HIDE DEF f
      <4> QED BY <4>2, <4>3 DEF Injection, IsInjective
    <3>4. IsFiniteSet(P) /\ Cardinality(P) <= Cardinality(W)
      BY <3>2, <3>3, FS_Injection
    <3>5. starting = Cardinality(W)
      BY <2>1 DEF CapacityHeld
    <3>6. IsFiniteSet(Kept)
      BY ClonesAssumption, FS_Subset DEF Open
    <3>7. fits /\ Kept = Open \ S
      BY <1>5
    <3>8. Cardinality(Kept) + starting < MaxSessions
      BY <3>7
    <3> HIDE DEF P, Kept, Now, W, fits
    <3>9. IsFiniteSet(Kept \cup P) /\ Cardinality(Kept \cup P) <= Cardinality(Kept) + Cardinality(P)
      <4>1. /\ IsFiniteSet(Kept \cup P)
            /\ Cardinality(Kept \cup P) = Cardinality(Kept) + Cardinality(P) - Cardinality(Kept \cap P)
        BY <3>4, <3>6, FS_Union
      <4>2. IsFiniteSet(Kept \cap P)
        BY <3>6, FS_Subset
      <4> QED BY <3>4, <3>6, <4>1, <4>2, FS_CardinalityType
    <3>10. Cardinality(Now) <= Cardinality(Kept \cup P) + 1 /\ IsFiniteSet(Now)
      <4>1. /\ IsFiniteSet((Kept \cup P) \cup {c})
            /\ Cardinality((Kept \cup P) \cup {c})
                 = (IF c \in Kept \cup P THEN Cardinality(Kept \cup P) ELSE Cardinality(Kept \cup P) + 1)
        BY <3>9, FS_AddElement
      <4>2. Cardinality(Kept \cup P) \in Nat
        BY <3>9, FS_CardinalityType
      <4> QED BY <3>1, <4>1, <4>2
    <3>11. /\ Cardinality(Now) \in Nat /\ Cardinality(Kept) \in Nat /\ Cardinality(P) \in Nat
           /\ Cardinality(Kept \cup P) \in Nat /\ Cardinality(W) \in Nat
      BY <3>2, <3>4, <3>6, <3>9, <3>10, FS_CardinalityType
    <3>12. Cardinality(Now) <= MaxSessions
      BY <3>4, <3>5, <3>8, <3>9, <3>10, <3>11, BrowserLimits
    <3> QED BY <3>12 DEF Now
  <2> QED BY <2>9, <2>10, <2>11, <2>12, <2>13, <2>14, <2>15, <2>16 DEF BrowserBooks, CapacityHeld, Open
<1> QED BY <1>1, <1>4, <1>5

\* The books hold in every reachable state.
THEOREM BrowserInvariance == BrowserSpec => []BrowserInv
<1>1. BrowserInit => BrowserInv
  BY BrowserInit_Holds
<1>2. BrowserInv /\ [BrowserNext]_browserVars => BrowserInv'
  <2> SUFFICES ASSUME BrowserInv, [BrowserNext]_browserVars PROVE BrowserInv'
    OBVIOUS
  <2>1. BrowserTypes'
    <3>1. CASE UNCHANGED browserVars
      BY <3>1 DEF browserVars, BrowserInv, BrowserTypes
    <3> QED BY <3>1, BrowserTypesKept
  <2>2. BrowserBooks'
    BY <2>1, QuietSteps, AwaitKeepsBooks, ReadyKeepsBooks, RegisterKeepsBooks, EndKeepsBooks, StartKeepsBooks
       DEF BrowserNext, Request
  <2> QED BY <2>1, <2>2 DEF BrowserInv
<1> QED BY <1>1, <1>2, PTL DEF BrowserSpec

\* For any clones, owners and limits the login browsers' books are consistent: the
\* capacity holds through starts that are under way, a timer or a failing start ends
\* nobody else's session, and workers wait for and render in what their owners confirm.
THEOREM BrowsersAlwaysConsistent == BrowserSpec => []BrowsersConsistent
<1>1. BrowserInv => BrowsersConsistent
  BY DEF BrowserInv, BrowserBooks, BrowsersConsistent
<1> QED BY <1>1, BrowserInvariance, PTL

-----------------------------------------------------------------------------
(* The selection of pages.                                                 *)

\* Those of T for which f is least.
Least(T, f) == {x \in T : \A y \in T : f[x] <= f[y]}

\* There are some, and any other has a greater value.
LEMMA LeastExist ==
    ASSUME NEW T, T # {}, NEW f, \A x \in T : f[x] \in Nat
    PROVE  /\ Least(T, f) # {} /\ Least(T, f) \subseteq T
           /\ \A x \in Least(T, f) : \A y \in T : f[x] < f[y] \/ (f[x] = f[y] /\ y \in Least(T, f))
<1>1. {f[x] : x \in T} \in SUBSET Nat /\ {f[x] : x \in T} # {}
  OBVIOUS
<1> DEFINE V == {f[x] : x \in T}
<1> HIDE DEF V
<1>2. PICK n \in V : \A m \in V : n <= m
  <2>1. V \in SUBSET Nat /\ V # {}
    BY <1>1 DEF V
  <2> DEFINE R == OpToRel(<, Nat)
  <2>2. \A x, y \in Nat : x < y => <<x, y>> \in R
    BY DEF OpToRel
  <2>3. IsWellFoundedOn(R, Nat)
    BY NatLessThanWellFounded
  <2> HIDE DEF R
  <2>4. PICK n \in V : \A m \in V : ~(<<m, n>> \in R)
    BY <2>1, <2>3, WFMin
  <2>5. ASSUME NEW m \in V PROVE n <= m
    <3>1. m \in Nat /\ n \in Nat /\ ~(<<m, n>> \in R)
      BY <2>1, <2>4
    <3>2. ~(m < n)
      BY <2>2, <3>1
    <3> QED BY <3>1, <3>2
  <2> QED BY <2>4, <2>5
<1>3. PICK x \in T : n = f[x]
  BY <1>2 DEF V
<1>4. x \in Least(T, f)
  BY <1>2, <1>3 DEF Least, V
<1>5. \A v \in Least(T, f) : \A y \in T : f[v] < f[y] \/ (f[v] = f[y] /\ y \in Least(T, f))
  <2> SUFFICES ASSUME NEW v \in Least(T, f), NEW y \in T, ~(f[v] < f[y])
               PROVE  f[v] = f[y] /\ y \in Least(T, f)
    OBVIOUS
  <2>1. v \in T /\ \A u \in T : f[v] <= f[u]
    BY DEF Least
  <2>2. f[v] = f[y]
    BY <2>1
  <2> QED BY <2>1, <2>2 DEF Least
<1> QED BY <1>4, <1>5 DEF Least

\* Keys are compared at the first place where they differ.
LEMMA BeforeAt ==
    ASSUME NEW a, NEW b, NEW k \in DOMAIN a, a[k] < b[k], \A j \in 1 .. k - 1 : a[j] = b[j]
    PROVE  Before(a, b)
BY DEF Before

\* What the crawler reported, in the order of its URLs.
SelectionTypes ==
    /\ \E n \in 1 .. MaxDiscovered : pages \in [1 .. n -> Inputs]
    /\ \A i, j \in Ids : i < j => pages[i].url <= pages[j].url
    /\ budget \in BOOLEAN

LEMMA PageTypes ==
    ASSUME SelectionTypes
    PROVE  /\ Ids \subseteq Nat \ {0} /\ IsFiniteSet(Ids)
           /\ \E n \in Nat \ {0} : Ids = 1 .. n
           /\ \A i \in Ids : /\ pages[i].url \in Urls /\ pages[i].url \in Nat
                             /\ Normal[pages[i].url] \in Urls /\ Normal[pages[i].url] \in Nat
                             /\ LengthOf[Normal[pages[i].url]] \in Nat
<1>1. PICK n \in 1 .. MaxDiscovered : pages \in [1 .. n -> Inputs]
  BY DEF SelectionTypes
<1>2. Ids = 1 .. n /\ n \in Nat \ {0}
  BY <1>1, InputsAssumption DEF Ids
<1>3. IsFiniteSet(Ids)
  BY <1>2, FS_Interval
<1>4. \A i \in Ids : pages[i] \in Inputs
  BY <1>1, <1>2
<1>5. \A u \in Urls : u \in Nat /\ Normal[u] \in Urls /\ LengthOf[u] \in Nat
  BY UrlsAssumption
<1>6. \A i \in Ids : pages[i].url \in Urls
  BY <1>4, InputsAssumption
<1>7. Ids \subseteq Nat \ {0}
  BY <1>2
<1> QED BY <1>2, <1>3, <1>5, <1>6, <1>7

\* The order of the pages is total.
LEMMA PagesOrdered ==
    ASSUME SelectionTypes, NEW i \in Ids, NEW j \in Ids, i # j
    PROVE  Before(PageKey(i), PageKey(j)) \/ Before(PageKey(j), PageKey(i))
<1>1. i \in Nat /\ j \in Nat /\ pages[i].url \in Nat /\ pages[j].url \in Nat
  BY PageTypes
<1>2. ASSUME NEW a \in Ids, NEW b \in Ids, a \in Nat, b \in Nat, pages[a].url \in Nat, pages[b].url \in Nat,
             \/ pages[a].url < pages[b].url
             \/ pages[a].url = pages[b].url /\ a < b
      PROVE  Before(PageKey(a), PageKey(b))
  <2>1. /\ DOMAIN PageKey(a) = 1 .. 2
        /\ PageKey(a)[1] = pages[a].url /\ PageKey(b)[1] = pages[b].url
        /\ PageKey(a)[2] = a /\ PageKey(b)[2] = b
    BY DEF PageKey
  <2>2. CASE pages[a].url < pages[b].url
    BY <2>1, <2>2, BeforeAt
  <2>3. CASE pages[a].url = pages[b].url /\ a < b
    <3>1. \A k \in 1 .. 2 - 1 : PageKey(a)[k] = PageKey(b)[k]
      BY <2>1, <2>3
    <3> QED BY <2>1, <2>3, <3>1, BeforeAt
  <2> QED BY <1>2, <2>2, <2>3
<1>3. \/ pages[i].url < pages[j].url \/ (pages[i].url = pages[j].url /\ i < j)
      \/ pages[j].url < pages[i].url \/ (pages[i].url = pages[j].url /\ j < i)
  BY <1>1
<1> QED BY <1>1, <1>2, <1>3

\* Every set of pages has a first one.
LEMMA FirstPage ==
    ASSUME SelectionTypes, NEW T \in SUBSET Ids, T # {}
    PROVE  \E i \in T : \A j \in T : ~Before(PageKey(j), PageKey(i))
<1> DEFINE f == [i \in Ids |-> pages[i].url]
           g == [i \in Ids |-> i]
           U == Least(T, f)
<1>1. \A x \in T : f[x] \in Nat /\ g[x] \in Nat /\ f[x] = pages[x].url /\ g[x] = x
  BY PageTypes
<1> HIDE DEF f, g
<1>2. /\ U # {} /\ U \subseteq T
      /\ \A x \in U : \A y \in T : f[x] < f[y] \/ (f[x] = f[y] /\ y \in U)
  BY <1>1, LeastExist
<1> HIDE DEF U
<1>3. /\ Least(U, g) # {} /\ Least(U, g) \subseteq U
      /\ \A x \in Least(U, g) : \A y \in U : g[x] < g[y] \/ (g[x] = g[y] /\ y \in Least(U, g))
  BY <1>1, <1>2, LeastExist
<1>4. PICK i \in Least(U, g) : TRUE
  BY <1>3
<1>5. ASSUME NEW j \in T, Before(PageKey(j), PageKey(i)) PROVE FALSE
  <2>1. /\ DOMAIN PageKey(j) = 1 .. 2
        /\ PageKey(j)[1] = pages[j].url /\ PageKey(i)[1] = pages[i].url
        /\ PageKey(j)[2] = j /\ PageKey(i)[2] = i
    BY DEF PageKey
  <2>2. \/ pages[j].url < pages[i].url
        \/ pages[j].url = pages[i].url /\ j < i
    <3>1. PICK k \in 1 .. 2 : PageKey(j)[k] < PageKey(i)[k] /\ \A m \in 1 .. k - 1 : PageKey(j)[m] = PageKey(i)[m]
      BY <1>5, <2>1 DEF Before
    <3>2. CASE k = 1
      BY <2>1, <3>1, <3>2
    <3>3. CASE k = 2
      <4>1. PageKey(j)[1] = PageKey(i)[1]
        BY <3>1, <3>3
      <4> QED BY <2>1, <3>1, <3>3, <4>1
    <3> QED BY <3>1, <3>2, <3>3
  <2>3. i \in T /\ i \in U /\ i \in Nat /\ j \in Nat /\ pages[i].url \in Nat /\ pages[j].url \in Nat
    BY <1>1, <1>2, <1>3, <1>4
  <2>4. pages[i].url < pages[j].url \/ (pages[i].url = pages[j].url /\ j \in U)
    BY <1>1, <1>2, <2>3
  <2>5. CASE pages[i].url = pages[j].url /\ j \in U
    <3>1. i < j \/ i = j
      BY <1>1, <1>3, <1>4, <2>3, <2>5
    <3> QED BY <2>2, <2>3, <2>5, <3>1
  <2> QED BY <2>2, <2>3, <2>4, <2>5
<1> QED BY <1>2, <1>3, <1>4, <1>5

\* The candidates' keys are six numbers, the last of them the page's own.
LEMMA CandidateKeys ==
    ASSUME SelectionTypes, NEW i \in Ids
    PROVE  /\ DOMAIN CandidateKey(i) = 1 .. 6 /\ CandidateKey(i)[6] = i
           /\ \A k \in 1 .. 6 : CandidateKey(i)[k] \in Nat
<1> DEFINE p == pages[i]
           k1 == Number(p.url \in HasQuery)
           k2 == 1 - Number(SelfReference(p))
           k3 == StatusRank(p.status)
           k4 == LengthOf[Normal[p.url]]
           k5 == Normal[p.url]
<1>1. k1 \in Nat /\ k2 \in Nat /\ k3 \in Nat
  <2>1. \A b : Number(b) \in {0, 1}
    BY DEF Number
  <2> QED BY <2>1 DEF StatusRank
<1>2. k4 \in Nat /\ k5 \in Nat /\ i \in Nat
  BY PageTypes
<1>3. CandidateKey(i) = <<k1, k2, k3, k4, k5, i>>
  BY DEF CandidateKey
<1> HIDE DEF k1, k2, k3, k4, k5
<1> QED BY <1>1, <1>2, <1>3

\* Every set of candidates has one that comes before all others.
LEMMA FirstCandidate ==
    ASSUME SelectionTypes, NEW T \in SUBSET Ids, T # {}
    PROVE  First(T, CandidateKey) \in T
<1> DEFINE f(k) == [i \in Ids |-> CandidateKey(i)[k]]
           T1 == Least(T, f(1))
           T2 == Least(T1, f(2))
           T3 == Least(T2, f(3))
           T4 == Least(T3, f(4))
           T5 == Least(T4, f(5))
           T6 == Least(T5, f(6))
<1>1. \A k \in 1 .. 6 : \A x \in Ids : f(k)[x] = CandidateKey(x)[k] /\ f(k)[x] \in Nat
  BY CandidateKeys
<1> HIDE DEF f
<1>2. /\ T1 # {} /\ T1 \subseteq T
      /\ \A x \in T1 : \A y \in T : f(1)[x] < f(1)[y] \/ (f(1)[x] = f(1)[y] /\ y \in T1)
  BY <1>1, LeastExist
<1> HIDE DEF T1
<1>3. /\ T2 # {} /\ T2 \subseteq T1
      /\ \A x \in T2 : \A y \in T1 : f(2)[x] < f(2)[y] \/ (f(2)[x] = f(2)[y] /\ y \in T2)
  BY <1>1, <1>2, LeastExist
<1> HIDE DEF T2
<1>4. /\ T3 # {} /\ T3 \subseteq T2
      /\ \A x \in T3 : \A y \in T2 : f(3)[x] < f(3)[y] \/ (f(3)[x] = f(3)[y] /\ y \in T3)
  BY <1>1, <1>2, <1>3, LeastExist
<1> HIDE DEF T3
<1>5. /\ T4 # {} /\ T4 \subseteq T3
      /\ \A x \in T4 : \A y \in T3 : f(4)[x] < f(4)[y] \/ (f(4)[x] = f(4)[y] /\ y \in T4)
  BY <1>1, <1>2, <1>3, <1>4, LeastExist
<1> HIDE DEF T4
<1>6. /\ T5 # {} /\ T5 \subseteq T4
      /\ \A x \in T5 : \A y \in T4 : f(5)[x] < f(5)[y] \/ (f(5)[x] = f(5)[y] /\ y \in T5)
  BY <1>1, <1>2, <1>3, <1>4, <1>5, LeastExist
<1> HIDE DEF T5
<1>7. /\ T6 # {} /\ T6 \subseteq T5
      /\ \A x \in T6 : \A y \in T5 : f(6)[x] < f(6)[y] \/ (f(6)[x] = f(6)[y] /\ y \in T6)
  BY <1>1, <1>2, <1>3, <1>4, <1>5, <1>6, LeastExist
<1> HIDE DEF T6
<1>8. PICK x \in T6 : TRUE
  BY <1>7
<1>9. x \in Ids /\ x \in T /\ x \in T1 /\ x \in T2 /\ x \in T3 /\ x \in T4 /\ x \in T5
  BY <1>2, <1>3, <1>4, <1>5, <1>6, <1>7, <1>8
<1>10. ASSUME NEW y \in T \ {x} PROVE Before(CandidateKey(x), CandidateKey(y))
  <2> DEFINE a == CandidateKey(x)
             b == CandidateKey(y)
  <2>1. /\ DOMAIN a = 1 .. 6 /\ a[6] = x /\ b[6] = y
        /\ \A k \in 1 .. 6 : a[k] \in Nat /\ b[k] \in Nat /\ f(k)[x] = a[k] /\ f(k)[y] = b[k]
    BY <1>1, <1>9, CandidateKeys
  <2> HIDE DEF a, b
  <2>2. a[1] < b[1] \/ (a[1] = b[1] /\ y \in T1)
    BY <1>2, <1>9, <2>1
  <2>3. y \in T1 => a[2] < b[2] \/ (a[2] = b[2] /\ y \in T2)
    BY <1>3, <1>9, <2>1
  <2>4. y \in T2 => a[3] < b[3] \/ (a[3] = b[3] /\ y \in T3)
    BY <1>4, <1>9, <2>1
  <2>5. y \in T3 => a[4] < b[4] \/ (a[4] = b[4] /\ y \in T4)
    BY <1>5, <1>9, <2>1
  <2>6. y \in T4 => a[5] < b[5] \/ (a[5] = b[5] /\ y \in T5)
    BY <1>6, <1>9, <2>1
  <2>7. y \in T5 => a[6] < b[6]
    BY <1>7, <1>8, <1>9, <2>1
  <2>8. \E k \in DOMAIN a : a[k] < b[k] /\ \A j \in 1 .. k - 1 : a[j] = b[j]
    <3>1. CASE a[1] < b[1]
      BY <2>1, <3>1
    <3>2. CASE a[1] = b[1] /\ a[2] < b[2]
      <4>1. \A j \in 1 .. 2 - 1 : j = 1
        OBVIOUS
      <4> QED BY <2>1, <3>2, <4>1
    <3>3. CASE a[1] = b[1] /\ a[2] = b[2] /\ a[3] < b[3]
      <4>1. \A j \in 1 .. 3 - 1 : j = 1 \/ j = 2
        OBVIOUS
      <4> QED BY <2>1, <3>3, <4>1
    <3>4. CASE a[1] = b[1] /\ a[2] = b[2] /\ a[3] = b[3] /\ a[4] < b[4]
      <4>1. \A j \in 1 .. 4 - 1 : j = 1 \/ j = 2 \/ j = 3
        OBVIOUS
      <4> QED BY <2>1, <3>4, <4>1
    <3>5. CASE a[1] = b[1] /\ a[2] = b[2] /\ a[3] = b[3] /\ a[4] = b[4] /\ a[5] < b[5]
      <4>1. \A j \in 1 .. 5 - 1 : j = 1 \/ j = 2 \/ j = 3 \/ j = 4
        OBVIOUS
      <4> QED BY <2>1, <3>5, <4>1
    <3>6. CASE a[1] = b[1] /\ a[2] = b[2] /\ a[3] = b[3] /\ a[4] = b[4] /\ a[5] = b[5] /\ a[6] < b[6]
      <4>1. \A j \in 1 .. 6 - 1 : j = 1 \/ j = 2 \/ j = 3 \/ j = 4 \/ j = 5
        OBVIOUS
      <4> QED BY <2>1, <3>6, <4>1
    <3> QED BY <2>2, <2>3, <2>4, <2>5, <2>6, <2>7, <3>1, <3>2, <3>3, <3>4, <3>5, <3>6
  <2>9. Before(a, b)
    BY <2>8 DEF Before
  <2> QED BY <2>9 DEF a, b
<1>11. \E i \in T : \A j \in T \ {i} : Before(CandidateKey(i), CandidateKey(j))
  BY <1>9, <1>10
<1> QED BY <1>11 DEF First

\* Every class keeps a page.
LEMMA BestExist ==
    ASSUME SelectionTypes, NEW S \in SUBSET Ids, NEW class, NEW i \in S
    PROVE  Best(S, class) \subseteq S /\ \E j \in Best(S, class) : class[j] = class[i]
<1> DEFINE T == {j \in S : class[j] = class[i]}
           b == First(T, CandidateKey)
<1>1. T \in SUBSET Ids /\ T # {}
  OBVIOUS
<1>2. b \in T
  BY <1>1, FirstCandidate
<1>3. {j \in S : class[j] = class[b]} = T
  BY <1>2
<1>4. b \in Best(S, class)
  BY <1>2, <1>3 DEF Best
<1> QED BY <1>2, <1>4 DEF Best

Variants == {"CANONICAL_DUPLICATE", "TRACKING_OR_QUERY_VARIANT"}

\* A page of its role, route template and layout is in the selection.
StandsIn(i) == \E j \in winners : GroupKey(j) = GroupKey(i)

\* What is rejected as a duplicate has a page that stands for it.
Represented == \A i \in DOMAIN rejected :
    /\ rejected[i] = "SEMANTIC_TEMPLATE_DUPLICATE" => StandsIn(i)
    /\ rejected[i] \in Variants => \E j \in Candidates : Identity(j) = Identity(i) /\ j # i /\ StandsIn(j)

\* Where the selection is after each step.
Progress ==
    /\ stage \in {"classify", "canonical", "group", "budget", "targets", "done"}
    /\ winners \subseteq Ids
    /\ stage # "classify" => winners \cup DOMAIN rejected = Ids /\ winners \cap DOMAIN rejected = {}
    /\ stage = "canonical" =>
         /\ winners = Candidates
         /\ \A i \in DOMAIN rejected : rejected[i] \notin Variants \cup {"SEMANTIC_TEMPLATE_DUPLICATE"}
    /\ stage = "group" =>
         /\ winners \subseteq Candidates
         /\ \A i \in DOMAIN rejected :
              /\ rejected[i] # "SEMANTIC_TEMPLATE_DUPLICATE"
              /\ rejected[i] \in Variants => \E j \in winners : Identity(j) = Identity(i) /\ j # i
    /\ stage = "budget" \/ (stage \in {"targets", "done"} /\ ~budget) => Represented

SelectionInv == SelectionTypes /\ Progress /\ TargetsRight

\* What depends on the crawl alone stays.
LEMMA CrawlStays ==
    ASSUME SelectionTypes, UNCHANGED <<pages, budget>>
    PROVE  /\ SelectionTypes' /\ Ids' = Ids /\ Candidates' = Candidates
           /\ \A i : Identity(i)' = Identity(i) /\ GroupKey(i)' = GroupKey(i)
<1>1. SelectionTypes'
  BY DEF SelectionTypes, Ids
<1>2. Ids' = Ids
  BY DEF Ids
<1>3. RootLocale' = RootLocale
  BY DEF RootLocale, RootPages, PageLocale, FirstOf, First, PageKey, Ids, Before
<1>4. \A p : RejectionOf(p)' = RejectionOf(p)
  BY <1>3 DEF RejectionOf, PageLocale, FirstOf, IsError
<1>5. Candidates' = Candidates
  BY <1>2, <1>4 DEF Candidates
<1>6. \A i : Identity(i)' = Identity(i) /\ GroupKey(i)' = GroupKey(i)
  BY DEF Identity, GroupKey, Role
<1> QED BY <1>1, <1>2, <1>5, <1>6

\* A page is not rejected as a duplicate when it is classified.
LEMMA NoDuplicateYet ==
    ASSUME NEW p PROVE RejectionOf(p) \notin Variants \cup {"SEMANTIC_TEMPLATE_DUPLICATE"}
BY DEF RejectionOf, Variants

LEMMA SelectionInit_Holds == SelectionInit => SelectionInv
<1> SUFFICES ASSUME SelectionInit PROVE SelectionInv
  OBVIOUS
<1>1. SelectionTypes
  <2>1. PICK n \in 1 .. MaxDiscovered : pages \in [1 .. n -> Inputs]
    <3>1. pages \in UNION {[1 .. n -> Inputs] : n \in 1 .. MaxDiscovered}
      BY DEF SelectionInit
    <3> QED BY <3>1
  <2> QED BY <2>1 DEF SelectionInit, SelectionTypes
<1>2. Progress /\ TargetsRight
  BY DEF SelectionInit, Progress, TargetsRight
<1> QED BY <1>1, <1>2 DEF SelectionInv

\* Merging keeps every page accounted for, and the reasons given before.
LEMMA MergeAccounts ==
    ASSUME NEW keep, NEW reason, keep \subseteq winners, Merge(keep, reason),
           winners \cup DOMAIN rejected = Ids, winners \cap DOMAIN rejected = {}
    PROVE  /\ winners' = keep
           /\ winners' \cup DOMAIN rejected' = Ids /\ winners' \cap DOMAIN rejected' = {}
           /\ DOMAIN rejected' = DOMAIN rejected \cup (winners \ keep)
           /\ \A i \in DOMAIN rejected : rejected'[i] = rejected[i]
           /\ \A i \in winners \ keep : rejected'[i] = reason[i]
BY DEF Merge

LEMMA ClassifyKeeps == ASSUME SelectionInv, Classify PROVE SelectionInv'
<1>1. /\ stage' = "canonical" /\ winners' = Candidates /\ UNCHANGED <<pages, budget, targets>>
      /\ rejected' = [i \in Ids \ Candidates |-> RejectionOf(pages[i])]
  BY DEF Classify
<1>2. SelectionTypes' /\ Ids' = Ids /\ Candidates' = Candidates
  BY <1>1, CrawlStays DEF SelectionInv
<1>3. Candidates \subseteq Ids
  BY DEF Candidates
<1>4. \A i \in DOMAIN rejected' : rejected'[i] \notin Variants \cup {"SEMANTIC_TEMPLATE_DUPLICATE"}
  BY <1>1, NoDuplicateYet
<1>5. Progress'
  BY <1>1, <1>2, <1>3, <1>4 DEF Progress
<1>6. TargetsRight'
  BY <1>1 DEF TargetsRight
<1> QED BY <1>2, <1>5, <1>6 DEF SelectionInv

LEMMA CanonicalKeeps == ASSUME SelectionInv, KeepCanonical PROVE SelectionInv'
<1> DEFINE class == [i \in Ids |-> Identity(i)]
           reason == [i \in Ids |-> IF pages[i].canonical # None THEN "CANONICAL_DUPLICATE"
                                    ELSE "TRACKING_OR_QUERY_VARIANT"]
           keep == Best(winners, class)
<1>1. /\ stage = "canonical" /\ stage' = "group" /\ Merge(keep, reason) /\ UNCHANGED <<pages, budget, targets>>
  BY DEF KeepCanonical
<1>2. /\ SelectionTypes' /\ Ids' = Ids /\ Candidates' = Candidates
      /\ \A i : Identity(i)' = Identity(i)
  BY <1>1, CrawlStays DEF SelectionInv
<1>3. /\ winners = Candidates /\ winners \subseteq Ids
      /\ winners \cup DOMAIN rejected = Ids /\ winners \cap DOMAIN rejected = {}
      /\ \A i \in DOMAIN rejected : rejected[i] \notin Variants \cup {"SEMANTIC_TEMPLATE_DUPLICATE"}
  BY <1>1 DEF SelectionInv, Progress
<1>4. keep \subseteq winners /\ \A i \in winners : \E j \in keep : class[j] = class[i]
  <2>1. keep \subseteq winners
    BY DEF Best
  <2>2. ASSUME NEW i \in winners PROVE \E j \in Best(winners, class) : class[j] = class[i]
    BY <1>3, <2>2, BestExist DEF SelectionInv
  <2> QED BY <2>1, <2>2
<1>5. \A i \in Ids : class[i] = Identity(i) /\ reason[i] \in Variants
  BY DEF Variants
<1> HIDE DEF class, reason, keep
<1>6. /\ winners' = keep
      /\ winners' \cup DOMAIN rejected' = Ids /\ winners' \cap DOMAIN rejected' = {}
      /\ DOMAIN rejected' = DOMAIN rejected \cup (winners \ keep)
      /\ \A i \in DOMAIN rejected : rejected'[i] = rejected[i]
      /\ \A i \in winners \ keep : rejected'[i] = reason[i]
  BY <1>1, <1>3, <1>4, MergeAccounts
<1>7. ASSUME NEW i \in DOMAIN rejected'
      PROVE  /\ rejected'[i] # "SEMANTIC_TEMPLATE_DUPLICATE"
             /\ rejected'[i] \in Variants => \E j \in winners' : Identity(j) = Identity(i) /\ j # i
  <2>1. CASE i \in DOMAIN rejected
    BY <1>3, <1>6, <2>1
  <2>2. CASE i \in winners \ keep
    <3>1. PICK j \in keep : class[j] = class[i]
      BY <1>4, <2>2
    <3>2. Identity(j) = Identity(i) /\ j # i
      BY <1>3, <1>4, <1>5, <2>2, <3>1
    <3>3. rejected'[i] \in Variants
      BY <1>3, <1>5, <1>6, <2>2
    <3> QED BY <1>6, <3>1, <3>2, <3>3 DEF Variants
  <2> QED BY <1>6, <2>1, <2>2
<1>8. Progress'
  BY <1>1, <1>2, <1>3, <1>4, <1>6, <1>7 DEF Progress
<1>9. TargetsRight'
  BY <1>1 DEF TargetsRight
<1> QED BY <1>2, <1>8, <1>9 DEF SelectionInv

LEMMA GroupKeeps == ASSUME SelectionInv, KeepOneOfGroup PROVE SelectionInv'
<1> DEFINE class == [i \in Ids |-> GroupKey(i)]
           reason == [i \in Ids |-> "SEMANTIC_TEMPLATE_DUPLICATE"]
           keep == Best(winners, class)
<1>1. /\ stage = "group" /\ stage' = "budget" /\ Merge(keep, reason) /\ UNCHANGED <<pages, budget, targets>>
  BY DEF KeepOneOfGroup
<1>2. /\ SelectionTypes' /\ Ids' = Ids /\ Candidates' = Candidates
      /\ \A i : Identity(i)' = Identity(i) /\ GroupKey(i)' = GroupKey(i)
  BY <1>1, CrawlStays DEF SelectionInv
<1>3. /\ winners \subseteq Candidates /\ winners \subseteq Ids
      /\ winners \cup DOMAIN rejected = Ids /\ winners \cap DOMAIN rejected = {}
      /\ \A i \in DOMAIN rejected :
              /\ rejected[i] # "SEMANTIC_TEMPLATE_DUPLICATE"
              /\ rejected[i] \in Variants => \E j \in winners : Identity(j) = Identity(i) /\ j # i
  BY <1>1 DEF SelectionInv, Progress
<1>4. keep \subseteq winners /\ \A i \in winners : \E j \in keep : class[j] = class[i]
  <2>1. keep \subseteq winners
    BY DEF Best
  <2>2. ASSUME NEW i \in winners PROVE \E j \in Best(winners, class) : class[j] = class[i]
    BY <1>3, <2>2, BestExist DEF SelectionInv
  <2> QED BY <2>1, <2>2
<1>5. \A i \in Ids : class[i] = GroupKey(i) /\ reason[i] = "SEMANTIC_TEMPLATE_DUPLICATE"
  OBVIOUS
<1> HIDE DEF class, reason, keep
<1>6. /\ winners' = keep
      /\ winners' \cup DOMAIN rejected' = Ids /\ winners' \cap DOMAIN rejected' = {}
      /\ DOMAIN rejected' = DOMAIN rejected \cup (winners \ keep)
      /\ \A i \in DOMAIN rejected : rejected'[i] = rejected[i]
      /\ \A i \in winners \ keep : rejected'[i] = reason[i]
  BY <1>1, <1>3, <1>4, MergeAccounts
<1>7. \A i \in winners : \E j \in winners' : GroupKey(j) = GroupKey(i)
  BY <1>3, <1>4, <1>5, <1>6
<1>8. ASSUME NEW i \in DOMAIN rejected'
      PROVE  /\ rejected'[i] = "SEMANTIC_TEMPLATE_DUPLICATE" => \E j \in winners' : GroupKey(j) = GroupKey(i)
             /\ rejected'[i] \in Variants =>
                  \E j \in Candidates : /\ Identity(j) = Identity(i) /\ j # i
                                        /\ \E k \in winners' : GroupKey(k) = GroupKey(j)
  <2>1. CASE i \in DOMAIN rejected
    BY <1>3, <1>6, <1>7, <2>1
  <2>2. CASE i \in winners \ keep
    <3>1. rejected'[i] = "SEMANTIC_TEMPLATE_DUPLICATE"
      BY <1>3, <1>5, <1>6, <2>2
    <3> QED BY <1>7, <2>2, <3>1 DEF Variants
  <2> QED BY <1>6, <2>1, <2>2
<1>9. Represented'
  BY <1>2, <1>8 DEF Represented, StandsIn
<1>10. Progress'
  BY <1>1, <1>2, <1>3, <1>4, <1>6, <1>9 DEF Progress
<1>11. TargetsRight'
  BY <1>1 DEF TargetsRight
<1> QED BY <1>2, <1>10, <1>11 DEF SelectionInv

\* The last page is there.
LEMMA LastPage == ASSUME SelectionTypes PROVE LastRanked \in Ids
<1>1. PICK n \in Nat \ {0} : Ids = 1 .. n
  BY PageTypes
<1>2. n \in Ids /\ \A j \in Ids \ {n} : j < n /\ pages[j].url <= pages[n].url
  BY <1>1 DEF SelectionTypes
<1>3. ASSUME NEW j \in Ids \ {n} PROVE Before(PageKey(j), PageKey(n))
  <2>1. /\ DOMAIN PageKey(j) = 1 .. 2
        /\ PageKey(j)[1] = pages[j].url /\ PageKey(n)[1] = pages[n].url
        /\ PageKey(j)[2] = j /\ PageKey(n)[2] = n
    BY DEF PageKey
  <2>2. pages[j].url \in Nat /\ pages[n].url \in Nat
    BY <1>2, PageTypes
  <2>3. CASE pages[j].url < pages[n].url
    BY <2>1, <2>3, BeforeAt
  <2>4. CASE pages[j].url = pages[n].url
    <3>1. \A k \in 1 .. 2 - 1 : PageKey(j)[k] = PageKey(n)[k]
      BY <2>1, <2>4
    <3> QED BY <1>2, <2>1, <3>1, BeforeAt
  <2>5. pages[j].url <= pages[n].url
    BY <1>2
  <2>6. pages[j].url < pages[n].url \/ pages[j].url = pages[n].url
    BY <2>2, <2>5
  <2> QED BY <2>3, <2>4, <2>6
<1> QED BY <1>2, <1>3 DEF LastRanked

LEMMA MarkKeeps == ASSUME SelectionInv, MarkBound PROVE SelectionInv'
<1>1. /\ stage = "budget" /\ stage' = "targets" /\ UNCHANGED <<pages, budget, targets>>
      /\ \/ /\ budget /\ winners' = winners \ {LastRanked}
            /\ rejected' = [i \in DOMAIN rejected \cup {LastRanked} |-> IF i = LastRanked THEN "BUDGET_LIMITED" ELSE rejected[i]]
         \/ winners' = winners /\ rejected' = rejected
  BY DEF MarkBound
<1>2. /\ SelectionTypes' /\ Ids' = Ids /\ Candidates' = Candidates
      /\ \A i : Identity(i)' = Identity(i) /\ GroupKey(i)' = GroupKey(i)
  BY <1>1, CrawlStays DEF SelectionInv
<1>3. /\ winners \subseteq Ids /\ LastRanked \in Ids /\ Represented
      /\ winners \cup DOMAIN rejected = Ids /\ winners \cap DOMAIN rejected = {}
  BY <1>1, LastPage DEF SelectionInv, Progress
<1>4. winners' \cup DOMAIN rejected' = Ids /\ winners' \cap DOMAIN rejected' = {} /\ winners' \subseteq Ids
  <2>1. CASE winners' = winners /\ rejected' = rejected
    BY <1>3, <2>1
  <2>2. CASE /\ winners' = winners \ {LastRanked}
             /\ rejected' = [i \in DOMAIN rejected \cup {LastRanked} |-> IF i = LastRanked THEN "BUDGET_LIMITED" ELSE rejected[i]]
    <3>1. DOMAIN rejected' = DOMAIN rejected \cup {LastRanked}
      BY <2>2
    <3> QED BY <1>3, <2>2, <3>1
  <2> QED BY <1>1, <2>1, <2>2
<1>5. ~budget => Represented'
  <2> SUFFICES ASSUME ~budget PROVE Represented'
    OBVIOUS
  <2>1. winners' = winners /\ rejected' = rejected
    BY <1>1
  <2> QED BY <1>2, <1>3, <2>1 DEF Represented, StandsIn
<1>6. Progress'
  BY <1>1, <1>2, <1>4, <1>5 DEF Progress
<1>7. TargetsRight'
  BY <1>1 DEF TargetsRight
<1> QED BY <1>2, <1>6, <1>7 DEF SelectionInv

\* Of several selected pages at one URL one is inserted.
LEMMA OneIsInserted ==
    ASSUME SelectionTypes, winners \subseteq Ids, NEW i \in winners
    PROVE  \E j \in Inserted : Normal[pages[j].url] = Normal[pages[i].url]
<1> DEFINE T == {j \in winners : Normal[pages[j].url] = Normal[pages[i].url]}
<1>1. PICK j \in T : \A k \in T : ~Before(PageKey(k), PageKey(j))
  <2>1. T \in SUBSET Ids /\ T # {}
    OBVIOUS
  <2> HIDE DEF T
  <2> QED BY <2>1, FirstPage
<1>2. j \in Inserted
  BY <1>1 DEF Inserted
<1> QED BY <1>1, <1>2

\* The paths of two rows differ.
LEMMA PathsDiffer ==
    ASSUME SelectionTypes, winners \subseteq Ids, NEW i \in winners, NEW j \in winners, i # j
    PROVE  TargetPath(i) # TargetPath(j)
<1> DEFINE again(k) == \E m \in winners : Normal[pages[m].url] = Root /\ Before(PageKey(m), PageKey(k))
           root(k) == Normal[pages[k].url] = Root
<1>1. \A k \in winners : \/ ~root(k) /\ TargetPath(k) = <<"page", k>>
                         \/ root(k) /\ again(k) /\ TargetPath(k) = <<"page", k, "again">>
                         \/ root(k) /\ ~again(k) /\ TargetPath(k) = <<"index">>
  BY DEF TargetPath
<1>2. ~(root(i) /\ root(j) /\ ~again(i) /\ ~again(j))
  <2>1. Before(PageKey(i), PageKey(j)) \/ Before(PageKey(j), PageKey(i))
    BY PagesOrdered
  <2> QED BY <2>1
<1>3. /\ <<"page", i>> # <<"page", j>> /\ <<"page", i, "again">> # <<"page", j, "again">>
      /\ <<"page", i>> # <<"page", j, "again">> /\ <<"page", i, "again">> # <<"page", j>>
      /\ <<"index">> # <<"page", i>> /\ <<"index">> # <<"page", i, "again">>
      /\ <<"index">> # <<"page", j>> /\ <<"index">> # <<"page", j, "again">>
  OBVIOUS
<1> HIDE DEF again, root
<1> QED BY <1>1, <1>2, <1>3

\* The two columns of a row.
LEMMA RowFields == ASSUME NEW p, NEW c, NEW r, r = [path |-> p, code |-> c] PROVE r.path = p /\ r.code = c
OBVIOUS

LEMMA TargetsKeep == ASSUME SelectionInv, AddTargets PROVE SelectionInv'
<1> DEFINE row(i) == IF i \in DOMAIN rejected THEN [path |-> <<"rejected", i>>, code |-> rejected[i]]
                     ELSE [path |-> TargetPath(i), code |-> ""]
<1>1. /\ stage = "targets" /\ stage' = "done" /\ UNCHANGED <<pages, budget, rejected, winners>>
      /\ winners = {} => targets' = [i \in {None} |-> [path |-> <<"index">>, code |-> ""]]
      /\ winners # {} => targets' = [i \in Inserted \cup DOMAIN rejected |-> row(i)]
  <2>1. CASE winners = {}
    BY <2>1 DEF AddTargets
  <2>2. CASE winners # {}
    BY <2>2 DEF AddTargets
  <2> QED BY <2>1, <2>2
<1>2. /\ SelectionTypes' /\ Ids' = Ids /\ Candidates' = Candidates
      /\ \A i : Identity(i)' = Identity(i) /\ GroupKey(i)' = GroupKey(i)
  BY <1>1, CrawlStays DEF SelectionInv
<1>3. /\ SelectionTypes /\ winners \subseteq Ids /\ (~budget => Represented)
      /\ winners \cup DOMAIN rejected = Ids /\ winners \cap DOMAIN rejected = {}
  BY <1>1 DEF SelectionInv, Progress
<1>4. Progress'
  <2>1. winners' = winners /\ rejected' = rejected /\ budget' = budget
    BY <1>1
  <2>2. Represented' <=> Represented
    BY <1>2, <2>1 DEF Represented, StandsIn
  <2>3. ~budget' => Represented'
    BY <1>3, <2>1, <2>2
  <2> HIDE DEF row
  <2>4. /\ stage' = "done" /\ winners' \subseteq Ids'
        /\ winners' \cup DOMAIN rejected' = Ids' /\ winners' \cap DOMAIN rejected' = {}
    BY <1>1, <1>2, <1>3, <2>1
  <2> QED BY <2>3, <2>4 DEF Progress
<1>5. TargetsRight'
  <2>1. CASE winners = {}
    <3>1. targets' = [i \in {None} |-> [path |-> <<"index">>, code |-> ""]]
      BY <1>1, <2>1
    <3>2. DOMAIN targets' = {None}
      BY <3>1
    <3>3. winners' = {}
      BY <1>1, <2>1
    <3> QED BY <3>2, <3>3 DEF TargetsRight
  <2>2. CASE winners # {}
    <3>1. DOMAIN targets' = Inserted \cup DOMAIN rejected
      BY <1>1, <2>2
    <3>2. Inserted \subseteq winners
      BY DEF Inserted
    <3>3. \A i \in DOMAIN targets' : targets'[i] = row(i)
      BY <1>1, <2>2, <3>1
    <3>4. ASSUME NEW i \in DOMAIN rejected
          PROVE  targets'[i].path = <<"rejected", i>> /\ targets'[i].code = rejected[i]
      <4>1. row(i) = [path |-> <<"rejected", i>>, code |-> rejected[i]]
        OBVIOUS
      <4>2. targets'[i] = row(i)
        BY <3>1, <3>3
      <4> HIDE DEF row
      <4> QED BY <4>1, <4>2
    <3>5. ASSUME NEW i \in Inserted
          PROVE  targets'[i].path = TargetPath(i) /\ targets'[i].code = ""
      <4>1. i \notin DOMAIN rejected
        BY <1>3, <3>2
      <4>2. row(i) = [path |-> TargetPath(i), code |-> ""]
        BY <4>1
      <4>3. targets'[i] = row(i)
        BY <3>1, <3>3
      <4> HIDE DEF row
      <4>4. PICK p : p = TargetPath(i)
        OBVIOUS
      <4>5. PICK r : r = targets'[i]
        OBVIOUS
      <4>6. r = [path |-> p, code |-> ""]
        BY <4>2, <4>3, <4>4, <4>5
      <4>7. r.path = p /\ r.code = ""
        BY ONLY <4>6, RowFields
      <4> QED BY ONLY <4>4, <4>5, <4>7
    <3>6. ASSUME NEW i \in DOMAIN targets', NEW j \in DOMAIN targets', targets'[i].path = targets'[j].path PROVE i = j
      <4>1. CASE i \in Inserted /\ j \in Inserted
        BY <1>3, <3>2, <3>5, <3>6, <4>1, PathsDiffer
      <4>2. CASE i \in DOMAIN rejected /\ j \in DOMAIN rejected
        <5>1. <<"rejected", i>> = <<"rejected", j>>
          BY <3>4, <3>6, <4>2
        <5> QED BY <5>1
      <4>3. \A k, m : <<"rejected", k>> # TargetPath(m)
        <5>1. \A k, m : /\ <<"rejected", k>> # <<"page", m>> /\ <<"rejected", k>> # <<"index">>
                        /\ <<"rejected", k>> # <<"page", m, "again">>
          OBVIOUS
        <5> QED BY <5>1 DEF TargetPath
      <4> QED BY <3>1, <3>4, <3>5, <3>6, <4>1, <4>2, <4>3, ZenonT(20)
    <3>7. \A i \in winners : \E j \in DOMAIN targets' : targets'[j].code = "" /\ Normal[pages[j].url] = Normal[pages[i].url]
      BY <1>3, <3>1, <3>5, OneIsInserted
    <3>8. \A i \in DOMAIN rejected : i \in DOMAIN targets' /\ targets'[i].code = rejected[i]
      BY <3>1, <3>4
    <3>9. pages' = pages /\ winners' = winners /\ rejected' = rejected
      BY <1>1
    <3> HIDE DEF row
    <3> QED BY <3>6, <3>7, <3>8, <3>9 DEF TargetsRight
  <2> QED BY <2>1, <2>2
<1> QED BY <1>2, <1>4, <1>5 DEF SelectionInv

\* Where the selection is, in every reachable state.
THEOREM SelectionInvariance == SelectionSpec => []SelectionInv
<1>1. SelectionInit => SelectionInv
  BY SelectionInit_Holds
<1>2. SelectionInv /\ [SelectionNext]_selectionVars => SelectionInv'
  <2> SUFFICES ASSUME SelectionInv, [SelectionNext]_selectionVars PROVE SelectionInv'
    OBVIOUS
  <2>1. CASE UNCHANGED selectionVars
    <3>1. /\ SelectionTypes' /\ Ids' = Ids /\ Candidates' = Candidates
          /\ \A i : Identity(i)' = Identity(i) /\ GroupKey(i)' = GroupKey(i)
      BY <2>1, CrawlStays DEF SelectionInv, selectionVars
    <3>2. Represented' <=> Represented
      BY <2>1, <3>1 DEF Represented, StandsIn, selectionVars
    <3>3. Progress'
      BY <2>1, <3>1, <3>2 DEF SelectionInv, Progress, selectionVars
    <3>4. TargetsRight'
      BY <2>1 DEF SelectionInv, TargetsRight, selectionVars
    <3> QED BY <3>1, <3>3, <3>4 DEF SelectionInv
  <2> QED BY <2>1, ClassifyKeeps, CanonicalKeeps, GroupKeeps, MarkKeeps, TargetsKeep DEF SelectionNext
<1> QED BY <1>1, <1>2, PTL DEF SelectionSpec

\* For any crawl, and whatever the URL functions return: every page is selected or
\* rejected, a duplicate has a page that stands for it, and the rows stored have
\* different paths and leave no selected URL and no rejection out.
THEOREM SelectionAlwaysAccounts == SelectionSpec => []SelectionAccounts
<1>1. SelectionInv => SelectionAccounts
  <2> SUFFICES ASSUME SelectionInv PROVE SelectionAccounts
    OBVIOUS
  <2>1. AccountedOnce
    BY DEF SelectionInv, Progress, AccountedOnce, Selected
  <2>2. DuplicatesRepresented
    <3> SUFFICES ASSUME Selected, ~budget PROVE Represented
      BY DEF DuplicatesRepresented, Represented, StandsIn, Variants
    <3> QED BY DEF SelectionInv, Progress, Selected
  <2> QED BY <2>1, <2>2 DEF SelectionAccounts, SelectionInv
<1> QED BY <1>1, SelectionInvariance, PTL

-----------------------------------------------------------------------------
(* The captures.                                                           *)

\* What the tables of a capture say of each other: what was answered was tracked,
\* and a request is in one table of bodies, once.
CaptureTables ==
    /\ Len(started) <= MaxNetworkRequests
    /\ \A i \in DOMAIN network : network[i].of \in Range(started)
    /\ \A i \in DOMAIN candidates :
          /\ candidates[i].of \in Range(started) \cap BodyTyped
          /\ request[candidates[i].of] \in {"responded", "finished", "failed"}
    /\ \A i, j \in DOMAIN candidates : candidates[i].of = candidates[j].of => i = j
    /\ \A i \in DOMAIN failedInputs :
          /\ failedInputs[i] \in Range(started) \cap BodyTyped
          /\ request[failedInputs[i]] = "failed" /\ ~Candidate(failedInputs[i])
    /\ \A i, j \in DOMAIN failedInputs : failedInputs[i] = failedInputs[j] => i = j
    /\ BodyCount <= MaxResourceBodies

\* The bodies are collected in the order of the candidates, the copy being what is
\* left of those there were at first; candidates may have been added since.
Collecting ==
    /\ progress = "loading" => inputs = <<>> /\ todo = <<>>
    /\ progress = "collecting" =>
          /\ Len(inputs) + Len(todo) <= Len(candidates)
          /\ \A k \in DOMAIN todo : todo[k] = candidates[Len(inputs) + k]
    /\ progress # "captured" =>
          \A i \in DOMAIN inputs : i \in DOMAIN candidates /\ inputs[i].of = candidates[i].of
    /\ \A i \in DOMAIN inputs :
          inputs[i].size > 0 => i \in DOMAIN candidates /\ candidates[i].captureBody

\* f counts the bytes of the inputs s up to each of them.
Sums(f, s) ==
    /\ f \in [0 .. Len(s) -> Nat] /\ f[0] = 0
    /\ \A n \in 1 .. Len(s) : f[n] = f[n - 1] + s[n].size

WithinBytes ==
    /\ remaining \in Nat
    /\ \E f \in [0 .. Len(inputs) -> Nat] :
          Sums(f, inputs) /\ f[Len(inputs)] + remaining <= MaxTotalBytes

\* While no redirect has made a request, the two counters agree until one request
\* more than the limit has been made.
Requested ==
    /\ ~hopped => \/ admitted > MaxNetworkRequests
                  \/ /\ admitted = Len(started)
                     /\ \A r \in PageRequests : request[r] # "none" => Tracked(r)
    /\ \A r \in early : request[r] # "none"
    /\ progress \in {"checking", "captured"} /\ ~hopped => early \subseteq Range(started)

CaptureInv == CaptureAccounts /\ CaptureTables /\ Collecting /\ WithinBytes /\ Requested

\* What Append does.
LEMMA Appending ==
  ASSUME NEW S, NEW s \in Seq(S), NEW e \in S
  PROVE  /\ Append(s, e) \in Seq(S) /\ Len(Append(s, e)) = Len(s) + 1
         /\ DOMAIN Append(s, e) = 1 .. Len(s) + 1 /\ DOMAIN s = 1 .. Len(s) /\ Len(s) \in Nat
         /\ \A i \in 1 .. Len(s) : Append(s, e)[i] = s[i]
         /\ Append(s, e)[Len(s) + 1] = e
         /\ Range(Append(s, e)) = Range(s) \cup {e}
<1>1. /\ Append(s, e) \in Seq(S) /\ Len(Append(s, e)) = Len(s) + 1
      /\ DOMAIN Append(s, e) = 1 .. Len(s) + 1 /\ DOMAIN s = 1 .. Len(s) /\ Len(s) \in Nat
      /\ \A i \in 1 .. Len(s) : Append(s, e)[i] = s[i]
      /\ Append(s, e)[Len(s) + 1] = e
  OBVIOUS
<1>2. Range(Append(s, e)) = Range(s) \cup {e}
  BY <1>1 DEF Range
<1> QED BY <1>1, <1>2

\* What Tail does.
LEMMA Dropping ==
  ASSUME NEW S, NEW s \in Seq(S), s # <<>>
  PROVE  /\ Tail(s) \in Seq(S) /\ Len(s) \in Nat \ {0} /\ Len(Tail(s)) = Len(s) - 1
         /\ DOMAIN s = 1 .. Len(s) /\ DOMAIN Tail(s) = 1 .. Len(s) - 1
         /\ \A i \in 1 .. Len(s) - 1 : Tail(s)[i] = s[i + 1]
         /\ Head(s) = s[1] /\ s[1] \in S
OBVIOUS

\* A table of values is a sequence.
LEMMA Listing ==
  ASSUME NEW S, NEW n \in Nat, NEW f \in [1 .. n -> S]
  PROVE  f \in Seq(S) /\ Len(f) = n
OBVIOUS

\* What concatenation does.
LEMMA Joining ==
  ASSUME NEW S, NEW s \in Seq(S), NEW t \in Seq(S)
  PROVE  /\ s \o t \in Seq(S) /\ Len(s \o t) = Len(s) + Len(t)
         /\ DOMAIN (s \o t) = 1 .. Len(s) + Len(t)
         /\ Len(s) \in Nat /\ Len(t) \in Nat /\ DOMAIN s = 1 .. Len(s) /\ DOMAIN t = 1 .. Len(t)
         /\ \A i \in 1 .. Len(s) : (s \o t)[i] = s[i]
         /\ \A i \in 1 .. Len(t) : (s \o t)[Len(s) + i] = t[i]
OBVIOUS

\* A set of finitely many elements is listed once each.
LEMMA ListedOnce ==
  ASSUME NEW S, IsFiniteSet(S)
  PROVE  /\ SetToSeq(S) \in Seq(S) /\ Range(SetToSeq(S)) = S /\ Len(SetToSeq(S)) = Cardinality(S)
         /\ \A i, j \in DOMAIN SetToSeq(S) : SetToSeq(S)[i] = SetToSeq(S)[j] => i = j
<1> DEFINE n == Cardinality(S)
<1>1. n \in Nat /\ ExistsBijection(1 .. n, S)
  BY FS_CardinalityType
<1>2. \E f \in [1 .. n -> S] : IsInjective(f)
  BY <1>1 DEF ExistsBijection, Bijection, Injection
<1>3. SetToSeq(S) \in [1 .. n -> S] /\ IsInjective(SetToSeq(S))
  BY <1>2 DEF SetToSeq
<1>4. SetToSeq(S) \in Injection(1 .. n, S)
  BY <1>3 DEF Injection
<1>5. IsFiniteSet(1 .. n) /\ Cardinality(1 .. n) = n
  BY <1>1, FS_Interval
<1>6. SetToSeq(S) \in Surjection(1 .. n, S)
  BY <1>4, <1>5, FS_Injection
<1>7. Range(SetToSeq(S)) = S
  BY <1>6, <1>3 DEF Surjection, Range
<1>8. SetToSeq(S) \in Seq(S) /\ Len(SetToSeq(S)) = n
  BY <1>1, <1>3, Listing
<1> QED BY <1>3, <1>7, <1>8 DEF IsInjective

\* What Total counts, from any count of it.
LEMMA TotalOfSums ==
  ASSUME NEW s, Len(s) \in Nat, NEW f, Sums(f, s)
  PROVE  Total(s) = f[Len(s)]
<1> DEFINE upTo[n \in 0 .. Len(s)] == IF n = 0 THEN 0 ELSE upTo[n - 1] + s[n].size
<1>1. Total(s) = upTo[Len(s)]
  BY DEF Total
<1>2. f = [n \in 0 .. Len(s) |-> IF n = 0 THEN 0 ELSE f[n - 1] + s[n].size]
  BY DEF Sums
<1>3. upTo = CHOOSE g : g = [n \in 0 .. Len(s) |-> IF n = 0 THEN 0 ELSE g[n - 1] + s[n].size]
  BY DEF upTo
<1>4. upTo = [n \in 0 .. Len(s) |-> IF n = 0 THEN 0 ELSE upTo[n - 1] + s[n].size]
  BY <1>2, <1>3
<1> HIDE DEF upTo
<1> DEFINE Wrong == {n \in 0 .. Len(s) : upTo[n] # f[n]}
<1>5. Wrong = {}
  <2> SUFFICES ASSUME Wrong # {} PROVE FALSE
    OBVIOUS
  <2> DEFINE R == OpToRel(<, Nat)
  <2>1. IsWellFoundedOn(R, Nat)
    BY NatLessThanWellFounded
  <2>2. Wrong \subseteq Nat
    OBVIOUS
  <2> HIDE DEF R
  <2>3. PICK n \in Wrong : \A m \in Wrong : <<m, n>> \notin R
    BY <2>1, <2>2, WFMin
  <2> USE DEF R
  <2>4. n \in 0 .. Len(s) /\ upTo[n] # f[n]
    OBVIOUS
  <2>5. n = 0 => upTo[n] = f[n]
    BY <1>4, <2>4 DEF Sums
  <2>6. n # 0 => n - 1 \notin Wrong
    <3> SUFFICES ASSUME n - 1 \in Wrong PROVE FALSE
      OBVIOUS
    <3>1. n - 1 \in Nat /\ n \in Nat /\ n - 1 < n
      BY <2>4
    <3>2. <<n - 1, n>> \in R
      BY <3>1 DEF OpToRel
    <3> QED BY <2>3, <3>2
  <2>7. n # 0 => upTo[n - 1] = f[n - 1]
    BY <2>4, <2>6
  <2> QED BY <1>2, <1>4, <2>4, <2>5, <2>7
<1> QED BY <1>1, <1>5

\* The rows of the tables.
States == {"none", "pending", "responded", "finished", "failed"}
Logs == [of : PageRequests, failed : BOOLEAN]
Responses == [of : PageRequests, skip : Reasons, captureBody : BOOLEAN]
Entries == [of : PageRequests, size : Nat, truncated : BOOLEAN, skip : Reasons]

\* The rows the browser's events write.
EventTypes ==
    /\ request \in [PageRequests -> States]
    /\ started \in Seq(PageRequests) /\ failedInputs \in Seq(PageRequests)
    /\ network \in Seq(Logs) /\ Len(network) <= MaxNetworkRequests
    /\ candidates \in Seq(Responses)
    /\ transfer \in Nat /\ early \subseteq PageRequests /\ hopped \in BOOLEAN
    /\ admitted \in 0 .. MaxNetworkRequests + 1

\* The types, those of the rows the events write apart.
LEMMA CaptureTypesSplit ==
  CaptureTypes <=> /\ EventTypes /\ todo \in Seq(Responses) /\ remaining \in Int
                   /\ progress \in Stages /\ inputs \in Seq(Entries)
BY DEF CaptureTypes, EventTypes, States, Logs, Responses, Entries

\* A failure marks the responses of one request and leaves all else of them.
Marked(s, r) ==
    [i \in DOMAIN s |-> IF s[i].of = r THEN [s[i] EXCEPT !.skip = "REQUEST_FAILED"] ELSE s[i]]

\* A marked row keeps its request and whether its body may be read.
LEMMA Marking ==
  ASSUME NEW s \in Seq(Responses), NEW r
  PROVE  /\ Marked(s, r) \in Seq(Responses) /\ Len(Marked(s, r)) = Len(s)
         /\ DOMAIN Marked(s, r) = DOMAIN s /\ DOMAIN s = 1 .. Len(s) /\ Len(s) \in Nat
         /\ \A i \in DOMAIN s : /\ Marked(s, r)[i].of = s[i].of
                                /\ Marked(s, r)[i].captureBody = s[i].captureBody
<1> DEFINE t == Marked(s, r)
<1>1. DOMAIN s = 1 .. Len(s) /\ Len(s) \in Nat
  OBVIOUS
<1>2. \A i \in DOMAIN s : s[i] \in Responses
  OBVIOUS
<1>3. \A i \in DOMAIN s : t[i] = IF s[i].of = r THEN [s[i] EXCEPT !.skip = "REQUEST_FAILED"] ELSE s[i]
  BY DEF Marked
<1>4. \A i \in DOMAIN s :
         t[i] \in Responses /\ t[i].of = s[i].of /\ t[i].captureBody = s[i].captureBody
  <2> SUFFICES ASSUME NEW i \in DOMAIN s
               PROVE  t[i] \in Responses /\ t[i].of = s[i].of /\ t[i].captureBody = s[i].captureBody
    OBVIOUS
  <2>1. s[i] \in Responses
    BY <1>2
  <2>2. "REQUEST_FAILED" \in Reasons
    BY DEF Reasons
  <2> QED BY <1>3, <2>1, <2>2 DEF Responses
<1>5. t \in [1 .. Len(s) -> Responses]
  BY <1>1, <1>4 DEF Marked
<1> HIDE DEF t
<1>6. t \in Seq(Responses) /\ Len(t) = Len(s)
  BY <1>1, <1>5, Listing
<1> QED BY <1>1, <1>4, <1>5, <1>6 DEF t

\* A capture begins within its invariant.
LEMMA CaptureInit_Holds == CaptureInit => CaptureInv
<1> SUFFICES ASSUME CaptureInit PROVE CaptureInv
  OBVIOUS
<1> USE PageAssumption
<1>0. Len(<<>>) = 0 /\ DOMAIN <<>> = {} /\ Range(<<>>) = {}
  BY DEF Range
<1>1. EventTypes
  <2>1. network \in Seq(Logs) /\ candidates \in Seq(Responses) /\ started \in Seq(PageRequests)
        /\ failedInputs \in Seq(PageRequests)
    BY DEF CaptureInit
  <2>2. request \in [PageRequests -> States]
    BY DEF CaptureInit, States
  <2>3. admitted \in 0 .. MaxNetworkRequests + 1 /\ Len(network) <= MaxNetworkRequests
    BY <1>0 DEF CaptureInit
  <2> QED BY <2>1, <2>2, <2>3 DEF CaptureInit, EventTypes
<1>2. CaptureTypes
  BY <1>1, CaptureTypesSplit DEF CaptureInit, Stages
<1>3. BodyCount = 0
  <2>1. {i \in DOMAIN candidates : candidates[i].captureBody} = {}
    BY <1>0 DEF CaptureInit
  <2> QED BY <2>1, FS_EmptySet DEF BodyCount
<1>4. CaptureTables
  BY <1>0, <1>3 DEF CaptureInit, CaptureTables
<1>5. Collecting
  BY <1>0 DEF CaptureInit, Collecting
<1>6. WithinBytes
  <2>1. inputs = <<>> /\ remaining = 0
    BY DEF CaptureInit
  <2> DEFINE f == [n \in 0 .. 0 |-> 0]
  <2>2. f \in [0 .. Len(inputs) -> Nat] /\ Sums(f, inputs) /\ f[Len(inputs)] = 0
    BY <2>1, <1>0 DEF Sums
  <2> HIDE DEF f
  <2> QED BY <2>1, <2>2 DEF WithinBytes
<1>7. Requested
  BY <1>0 DEF CaptureInit, Requested
<1>8. CaptureAccounts
  <2>1. InputsExactlyOnce /\ GapsRecorded
    BY DEF CaptureInit, InputsExactlyOnce, GapsRecorded
  <2>2. BodiesWithinBudget
    <3>1. Total(inputs) = 0
      <4> DEFINE f == [n \in 0 .. 0 |-> 0]
      <4>1. Sums(f, <<>>) /\ f[Len(<<>>)] = 0
        BY <1>0 DEF Sums
      <4> HIDE DEF f
      <4> QED BY <1>0, <4>1, TotalOfSums DEF CaptureInit
    <3>2. {i \in DOMAIN inputs : inputs[i].size > 0} = {}
      BY <1>0 DEF CaptureInit
    <3> QED BY <1>0, <3>1, <3>2, FS_EmptySet DEF BodiesWithinBudget, CaptureInit
  <2>3. BodiesAreWhole
    BY <1>0 DEF BodiesAreWhole, CaptureInit
  <2>4. LogAccurate
    BY <1>0 DEF LogAccurate, CaptureInit, Tracked, Logged
  <2> QED BY <1>2, <2>1, <2>2, <2>3, <2>4 DEF CaptureAccounts
<1> QED BY <1>4, <1>5, <1>6, <1>7, <1>8 DEF CaptureInv

\* Row numbers can be counted.
LEMMA IntervalCounted == ASSUME NEW k \in Nat PROVE IsFiniteSet(1 .. k) /\ Cardinality(1 .. k) = k
<1>1. IsFiniteSet(1 .. k) /\ Cardinality(1 .. k) = IF 1 > k THEN 0 ELSE k - 1 + 1
  BY FS_Interval
<1> QED BY <1>1

\* The fields of the rows.
LEMMA RowsOfRequests ==
  ASSUME EventTypes
  PROVE  /\ DOMAIN candidates = 1 .. Len(candidates) /\ Len(candidates) \in Nat
         /\ DOMAIN network = 1 .. Len(network) /\ Len(network) \in Nat
         /\ DOMAIN failedInputs = 1 .. Len(failedInputs) /\ Len(failedInputs) \in Nat
         /\ \A i \in DOMAIN candidates :
               /\ candidates[i] \in Responses /\ candidates[i].of \in PageRequests
               /\ candidates[i].skip \in Reasons /\ candidates[i].captureBody \in BOOLEAN
         /\ \A i \in DOMAIN network :
               /\ network[i] \in Logs /\ network[i].of \in PageRequests
               /\ network[i].failed \in BOOLEAN
         /\ \A i \in DOMAIN failedInputs : failedInputs[i] \in PageRequests
<1>1. candidates \in Seq(Responses) /\ network \in Seq(Logs) /\ failedInputs \in Seq(PageRequests)
  BY DEF EventTypes
<1>2. /\ \A i \in DOMAIN candidates : candidates[i] \in Responses
      /\ \A i \in DOMAIN network : network[i] \in Logs
      /\ \A i \in DOMAIN failedInputs : failedInputs[i] \in PageRequests
  BY <1>1
<1>3. \A c \in Responses : c.of \in PageRequests /\ c.skip \in Reasons /\ c.captureBody \in BOOLEAN
  BY DEF Responses
<1>4. \A c \in Logs : c.of \in PageRequests /\ c.failed \in BOOLEAN
  BY DEF Logs
<1>5. /\ DOMAIN candidates = 1 .. Len(candidates) /\ Len(candidates) \in Nat
      /\ DOMAIN network = 1 .. Len(network) /\ Len(network) \in Nat
      /\ DOMAIN failedInputs = 1 .. Len(failedInputs) /\ Len(failedInputs) \in Nat
  BY <1>1
<1> QED BY <1>2, <1>3, <1>4, <1>5

\* A tracked request that is not in the log finds room in it.
LEMMA RoomToLog ==
  ASSUME EventTypes, CaptureTables, LogAccurate, NEW r \in Range(started), ~Logged(r)
  PROVE  Len(network) < Len(started) /\ Len(network) < MaxNetworkRequests
<1> USE PageAssumption
<1> DEFINE n == Len(started)
           m == Len(network)
           log == [i \in 1 .. m |-> network[i].of]
<1>1. started \in [1 .. n -> PageRequests] /\ n \in Nat /\ m \in Nat /\ DOMAIN network = 1 .. m
      /\ DOMAIN started = 1 .. n
  BY DEF EventTypes
<1>2. started \in Surjection(1 .. n, Range(started))
  BY <1>1 DEF Surjection, Range
<1>3. IsFiniteSet(1 .. n) /\ Cardinality(1 .. n) = n /\ IsFiniteSet(1 .. m) /\ Cardinality(1 .. m) = m
  <2>1. \A k \in Nat : IsFiniteSet(1 .. k) /\ Cardinality(1 .. k) = k
    BY IntervalCounted
  <2> QED BY <1>1, <2>1
<1>4. IsFiniteSet(Range(started)) /\ Cardinality(Range(started)) <= n
  BY <1>2, <1>3, FS_Surjection
<1>5. IsFiniteSet(Range(started) \ {r}) /\ Cardinality(Range(started) \ {r}) = Cardinality(Range(started)) - 1
  BY <1>4, FS_RemoveElement
<1>6. log \in [1 .. m -> Range(started) \ {r}]
  BY <1>1 DEF CaptureTables, Logged
<1>7. IsInjective(log)
  BY <1>1 DEF IsInjective, LogAccurate
<1>8. log \in Injection(1 .. m, Range(started) \ {r})
  BY <1>6, <1>7 DEF Injection
<1> HIDE DEF log
<1>9. m <= Cardinality(Range(started) \ {r})
  BY <1>3, <1>5, <1>8, FS_Injection
<1>10. Cardinality(Range(started)) \in Nat
  BY <1>4, FS_CardinalityType
<1>11. n <= MaxNetworkRequests
  BY DEF CaptureTables
<1> QED BY <1>1, <1>4, <1>5, <1>9, <1>10, <1>11

\* The states of a request that is in the network log.
Answers == {"responded", "finished", "failed"}

\* What an event of the page does not do: it takes nothing back, and the copy of the
\* candidates goes with the candidates.
EventStep ==
    /\ Running /\ UNCHANGED <<progress, remaining, inputs>>
    /\ progress # "loading" => early' = early
    /\ hopped => hopped'
    /\ \A r \in PageRequests :
          /\ request[r] # "none" => request'[r] # "none"
          /\ request[r] \in {"finished", "failed"} => request'[r] = request[r]
          /\ request[r] \in Answers => request'[r] \in Answers
    /\ Len(candidates') \in Nat /\ DOMAIN candidates' = 1 .. Len(candidates')
    /\ Len(candidates) <= Len(candidates')
    /\ \A i \in DOMAIN candidates : /\ candidates'[i].of = candidates[i].of
                                    /\ candidates'[i].captureBody = candidates[i].captureBody
    /\ todo' \in Seq(Responses) /\ Len(todo') = Len(todo)
    /\ \A k \in DOMAIN todo : \A i \in DOMAIN candidates :
          todo[k] = candidates[i] => todo'[k] = candidates'[i]

\* The first two parts of Requested, which the events decide.
Counted ==
    /\ ~hopped => \/ admitted > MaxNetworkRequests
                  \/ /\ admitted = Len(started)
                     /\ \A r \in PageRequests : request[r] # "none" => Tracked(r)
    /\ \A r \in early : request[r] # "none"

\* What the events write.
EventBooks == EventTypes /\ CaptureTables /\ LogAccurate /\ Counted

\* A request that is made is tracked while there is room.
LEMMA RequestEvent_Books ==
  ASSUME CaptureInv, NEW r \in PageRequests, NEW hop \in BOOLEAN, RequestEvent(r, hop)
  PROVE  EventBooks' /\ EventStep /\ Range(started) \subseteq Range(started')
<1> USE PageAssumption
<1>1. EventTypes /\ todo \in Seq(Responses) /\ CaptureTables /\ LogAccurate /\ Counted
  BY CaptureTypesSplit DEF CaptureInv, CaptureAccounts, Requested, Counted
<1>2. /\ Running /\ request[r] = "none" /\ request' = [request EXCEPT ![r] = "pending"]
      /\ UNCHANGED <<network, candidates, failedInputs, transfer, progress, todo, remaining, inputs>>
      /\ admitted' = IF hop \/ admitted > MaxNetworkRequests THEN admitted ELSE admitted + 1
      /\ hopped' = (hopped \/ hop)
      /\ early' = IF progress = "loading" THEN early \cup {r} ELSE early
  BY DEF RequestEvent
<1>3. /\ Len(started) \in Nat /\ started' \in Seq(PageRequests) /\ Range(started) \subseteq Range(started')
      /\ \/ Len(started) >= MaxNetworkRequests /\ started' = started
         \/ /\ Len(started) < MaxNetworkRequests /\ Len(started') = Len(started) + 1
            /\ Range(started') = Range(started) \cup {r}
  BY <1>1, Appending DEF EventTypes, RequestEvent
<1>4. /\ \A q \in PageRequests : request'[q] = IF q = r THEN "pending" ELSE request[q]
      /\ request' \in [PageRequests -> States]
  BY <1>1, <1>2 DEF EventTypes, States
<1>5. EventTypes'
  <2>1. admitted' \in 0 .. MaxNetworkRequests + 1
    BY <1>1, <1>2 DEF EventTypes
  <2>2. hopped' \in BOOLEAN /\ early' \subseteq PageRequests
    BY <1>1, <1>2 DEF EventTypes
  <2> QED BY <1>1, <1>2, <1>3, <1>4, <2>1, <2>2 DEF EventTypes
<1>6. CaptureTables'
  <2>1. \A i \in DOMAIN candidates : candidates[i].of \in PageRequests
    BY <1>1, RowsOfRequests
  <2>2. \A i \in DOMAIN failedInputs : failedInputs[i] \in PageRequests
    BY <1>1 DEF EventTypes
  <2>3. BodyCount' = BodyCount
    BY <1>2 DEF BodyCount
  <2>4. \A q : Candidate(q)' = Candidate(q)
    BY <1>2 DEF Candidate
  <2>5. Len(started') <= MaxNetworkRequests
    BY <1>1, <1>3 DEF CaptureTables
  <2>6. CaptureTables /\ UNCHANGED <<network, candidates, failedInputs>>
    BY <1>1, <1>2
  <2>7. \A i \in DOMAIN candidates : request'[candidates[i].of] = request[candidates[i].of]
    BY <2>1, <2>6, <1>2, <1>4 DEF CaptureTables
  <2>8. \A i \in DOMAIN failedInputs : request'[failedInputs[i]] = request[failedInputs[i]]
    BY <2>2, <2>6, <1>2, <1>4 DEF CaptureTables
  <2> QED BY <1>3, <2>3, <2>4, <2>5, <2>6, <2>7, <2>8 DEF CaptureTables
<1>7. LogAccurate'
  <2>1. \A q : Logged(q)' = Logged(q)
    BY <1>2 DEF Logged
  <2>2. \A i \in DOMAIN network : network[i].of \in PageRequests /\ network[i].of \in Range(started)
    BY <1>1, RowsOfRequests DEF CaptureTables
  <2>3. ~Logged(r)
    BY <1>1, <1>2, <2>2 DEF LogAccurate, Logged, Tracked
  <2>4. \A i \in DOMAIN network : network[i].of # r
    BY <2>3 DEF Logged
  <2>5. \A q \in PageRequests : Tracked(q)' => (Logged(q)' <=> request'[q] \in Answers)
    <3> SUFFICES ASSUME NEW q \in PageRequests, Tracked(q)'
                 PROVE  Logged(q) <=> request'[q] \in Answers
      BY <2>1
    <3>1. CASE q = r
      BY <3>1, <2>3, <1>4 DEF Answers
    <3>2. CASE q # r
      BY <3>2, <1>1, <1>3, <1>4 DEF LogAccurate, Tracked, Answers
    <3> QED BY <3>1, <3>2
  <2> QED BY <1>1, <1>2, <1>4, <2>2, <2>4, <2>5 DEF LogAccurate, Answers
<1>8. Counted'
  <2>1. \A q \in early' : request'[q] # "none"
    BY <1>1, <1>2, <1>4 DEF Counted, EventTypes
  <2>2. ASSUME ~hopped'
        PROVE  \/ admitted' > MaxNetworkRequests
               \/ /\ admitted' = Len(started')
                  /\ \A q \in PageRequests : request'[q] # "none" => Tracked(q)'
    <3>1. ~hopped /\ ~hop
      BY <1>2, <2>2
    <3>2. admitted \in 0 .. MaxNetworkRequests + 1
      BY <1>1 DEF EventTypes
    <3>3. CASE admitted > MaxNetworkRequests
      BY <3>2, <3>3, <1>2
    <3>4. CASE ~(admitted > MaxNetworkRequests)
      <4>1. admitted' = admitted + 1 /\ admitted = Len(started)
            /\ \A q \in PageRequests : request[q] # "none" => Tracked(q)
        BY <3>1, <3>4, <1>1, <1>2 DEF Counted
      <4>2. CASE Len(started) >= MaxNetworkRequests
        BY <4>1, <4>2, <3>2, <1>3
      <4>3. CASE Len(started) < MaxNetworkRequests
        BY <4>1, <4>3, <1>3, <1>4 DEF Tracked
      <4> QED BY <4>2, <4>3, <1>3
    <3> QED BY <3>3, <3>4
  <2> QED BY <2>1, <2>2 DEF Counted
<1>9. EventStep
  <2>1. Len(candidates) \in Nat /\ DOMAIN candidates = 1 .. Len(candidates)
    BY <1>1 DEF EventTypes
  <2>2. \A q \in PageRequests :
          /\ request[q] # "none" => request'[q] # "none"
          /\ request[q] \in {"finished", "failed"} => request'[q] = request[q]
          /\ request[q] \in Answers => request'[q] \in Answers
    BY <1>2, <1>4 DEF Answers
  <2>3. (progress # "loading" => early' = early) /\ (hopped => hopped')
    BY <1>2
  <2> QED BY <1>1, <1>2, <2>1, <2>2, <2>3 DEF EventStep
<1> QED BY <1>3, <1>5, <1>6, <1>7, <1>8, <1>9 DEF EventBooks

\* One more row raises a count by one at most.
LEMMA OneMore ==
  ASSUME NEW S, NEW x, IsFiniteSet(S)
  PROVE  IsFiniteSet(S \cup {x}) /\ Cardinality(S \cup {x}) <= Cardinality(S) + 1
<1>1. /\ IsFiniteSet(S \cup {x})
      /\ Cardinality(S \cup {x}) = IF x \in S THEN Cardinality(S) ELSE Cardinality(S) + 1
  BY FS_AddElement
<1>2. Cardinality(S) \in Nat
  BY FS_CardinalityType
<1> QED BY <1>1, <1>2

\* What request an event leaves behind, whatever it is.
LEMMA Answering ==
  ASSUME EventTypes, NEW r \in PageRequests, NEW to \in {"responded", "finished", "failed"},
         request' = [request EXCEPT ![r] = to],
         \/ request[r] = "pending"
         \/ request[r] = "responded"
  PROVE  /\ request' \in [PageRequests -> States]
         /\ \A q \in PageRequests : request'[q] = IF q = r THEN to ELSE request[q]
         /\ \A q \in PageRequests :
               /\ request[q] # "none" => request'[q] # "none"
               /\ request[q] \in {"finished", "failed"} => request'[q] = request[q]
               /\ request[q] \in Answers => request'[q] \in Answers
         /\ \A q \in PageRequests : request'[q] # "none" => request[q] # "none"
<1>1. request \in [PageRequests -> States] /\ to \in States
  BY DEF EventTypes, States
<1>2. \A q \in PageRequests : request'[q] = IF q = r THEN to ELSE request[q]
  BY <1>1
<1>3. request' \in [PageRequests -> States]
  BY <1>1
<1> QED BY <1>2, <1>3 DEF Answers

\* Where the requests that have been made are tracked, they still are.
LEMMA StillCounted ==
  ASSUME EventTypes, Counted, UNCHANGED <<admitted, hopped, started, early>>,
         \A q \in PageRequests : (request'[q] # "none") <=> (request[q] # "none")
  PROVE  Counted'
<1>1. early \subseteq PageRequests
  BY DEF EventTypes
<1> QED BY <1>1 DEF Counted, Tracked

\* An answer is logged, and may become a candidate.
LEMMA Response_Books ==
  ASSUME CaptureInv, NEW r \in PageRequests, NEW length \in Sizes, NEW bad \in BOOLEAN,
         Response(r, length, bad)
  PROVE  EventBooks' /\ EventStep /\ started' = started
<1>1. EventTypes /\ todo \in Seq(Responses) /\ CaptureTables /\ LogAccurate /\ Counted
  BY CaptureTypesSplit DEF CaptureInv, CaptureAccounts, Requested, Counted
<1>2. /\ Running /\ request[r] = "pending" /\ request' = [request EXCEPT ![r] = "responded"]
      /\ UNCHANGED <<admitted, started, failedInputs, progress, todo, remaining, inputs, early, hopped>>
  BY DEF Response
<1>3. /\ request' \in [PageRequests -> States]
      /\ \A q \in PageRequests : request'[q] = IF q = r THEN "responded" ELSE request[q]
      /\ \A q \in PageRequests :
               /\ request[q] # "none" => request'[q] # "none"
               /\ request[q] \in {"finished", "failed"} => request'[q] = request[q]
               /\ request[q] \in Answers => request'[q] \in Answers
      /\ \A q \in PageRequests : request'[q] # "none" => request[q] # "none"
  BY <1>1, <1>2, Answering
<1>4. ~Logged(r) \/ ~Tracked(r)
  BY <1>1, <1>2 DEF LogAccurate
<1>5. ~Logged(r)
  BY <1>1, <1>4 DEF Logged, Tracked, CaptureTables
<1>6. Tracked(r) => Len(network) < MaxNetworkRequests
  BY <1>1, <1>5, RoomToLog DEF Tracked
<1> DEFINE row == [of |-> r, failed |-> FALSE]
           candidate == [of |-> r, skip |-> IF bad THEN "HTTP_FAILURE" ELSE "",
                         captureBody |-> ~bad /\ BodyCount < MaxResourceBodies]
<1>7. \/ /\ Tracked(r) /\ Len(network) < MaxNetworkRequests /\ network' = Append(network, row)
         /\ transfer' = transfer + length
         /\ \/ r \in BodyTyped /\ candidates' = Append(candidates, candidate)
            \/ candidates' = candidates
      \/ ~Tracked(r) /\ UNCHANGED <<network, transfer, candidates>>
  BY <1>6 DEF Response
<1>8. row \in Logs /\ row.of = r /\ row.failed = FALSE
  BY DEF Logs
<1>20. candidate.captureBody => BodyCount < MaxResourceBodies
  OBVIOUS
<1>9. candidate \in Responses /\ candidate.of = r
  <2>1. (IF bad THEN "HTTP_FAILURE" ELSE "") \in Reasons
    BY DEF Reasons
  <2>2. (~bad /\ BodyCount < MaxResourceBodies) \in BOOLEAN
    OBVIOUS
  <2> QED BY <2>1, <2>2 DEF Responses
<1> HIDE DEF row, candidate
<1>10. network' \in Seq(Logs) /\ Len(network') <= MaxNetworkRequests
  <2>1. network \in Seq(Logs) /\ Len(network) <= MaxNetworkRequests
    BY <1>1 DEF EventTypes
  <2>2. CASE Tracked(r)
    <3>1. network' = Append(network, row) /\ Len(network) < MaxNetworkRequests
      BY <2>2, <1>7
    <3>2. MaxNetworkRequests \in Nat
      BY PageAssumption
    <3> QED BY <2>1, <3>1, <3>2, <1>8, Appending
  <2>3. CASE ~Tracked(r)
    BY <2>1, <2>3, <1>7
  <2> QED BY <2>2, <2>3
<1>18. PICK m \in Nat : /\ m = Len(network) /\ DOMAIN network = 1 .. m
                        /\ \A i \in 1 .. m : network'[i] = network[i]
                        /\ \/ Tracked(r) /\ DOMAIN network' = 1 .. m + 1 /\ network'[m + 1] = row
                           \/ ~Tracked(r) /\ DOMAIN network' = 1 .. m
  <2>1. network \in Seq(Logs)
    BY <1>1 DEF EventTypes
  <2>2. CASE Tracked(r)
    <3>1. network' = Append(network, row)
      BY <2>2, <1>7
    <3> QED BY <2>1, <2>2, <3>1, <1>8, Appending
  <2>3. CASE ~Tracked(r)
    BY <2>1, <2>3, <1>7
  <2> QED BY <2>2, <2>3
<1>11. transfer' \in Nat
  <2>1. length \in Nat /\ transfer \in Nat
    BY <1>1, PageAssumption DEF EventTypes
  <2> QED BY <1>7, <2>1
<1>12. candidates' \in Seq(Responses)
  <2>1. candidates \in Seq(Responses)
    BY <1>1 DEF EventTypes
  <2> QED BY <2>1, <1>7, <1>9, Appending
<1>19. PICK n \in Nat :
         /\ n = Len(candidates) /\ DOMAIN candidates = 1 .. n
         /\ \A i \in 1 .. n : candidates'[i] = candidates[i]
         /\ \/ /\ Tracked(r) /\ r \in BodyTyped /\ DOMAIN candidates' = 1 .. n + 1
               /\ Len(candidates') = n + 1 /\ candidates'[n + 1] = candidate
            \/ DOMAIN candidates' = 1 .. n /\ Len(candidates') = n
  <2>1. candidates \in Seq(Responses)
    BY <1>1 DEF EventTypes
  <2>2. CASE Tracked(r) /\ r \in BodyTyped /\ candidates' = Append(candidates, candidate)
    BY <2>1, <2>2, <1>9, Appending
  <2>3. CASE candidates' = candidates
    BY <2>1, <2>3
  <2> QED BY <2>2, <2>3, <1>7
<1>13. EventTypes'
  BY <1>1, <1>2, <1>3, <1>10, <1>11, <1>12 DEF EventTypes
<1>14. CaptureTables'
  <2>1. /\ \A i \in DOMAIN candidates : candidates[i].of # r /\ candidates[i].of \in PageRequests
        /\ \A i \in DOMAIN failedInputs : failedInputs[i] # r /\ failedInputs[i] \in PageRequests
    BY <1>1, <1>2, RowsOfRequests DEF CaptureTables
  <2>2. \A i \in DOMAIN network' : network'[i].of \in Range(started')
    <3>1. \A i \in 1 .. m : network[i].of \in Range(started)
      BY <1>1, <1>18 DEF CaptureTables
    <3>2. r \in Range(started) \/ ~Tracked(r)
      BY DEF Tracked
    <3>3. started' = started
      BY <1>2
    <3> QED BY <3>1, <3>2, <3>3, <1>8, <1>18
  <2>3. \A i \in DOMAIN candidates' :
          /\ candidates'[i].of \in Range(started') \cap BodyTyped
          /\ request'[candidates'[i].of] \in {"responded", "finished", "failed"}
    <3> SUFFICES ASSUME NEW i \in DOMAIN candidates'
                 PROVE  /\ candidates'[i].of \in Range(started) \cap BodyTyped
                        /\ request'[candidates'[i].of] \in {"responded", "finished", "failed"}
      BY <1>2
    <3>1. CASE i \in 1 .. n
      <4>1. /\ candidates[i].of \in Range(started) \cap BodyTyped
            /\ request[candidates[i].of] \in {"responded", "finished", "failed"}
        BY <3>1, <1>1, <1>19 DEF CaptureTables
      <4>2. candidates'[i] = candidates[i] /\ candidates[i].of # r /\ candidates[i].of \in PageRequests
        BY <3>1, <2>1, <1>19
      <4> QED BY <4>1, <4>2, <1>3
    <3>2. CASE i \notin 1 .. n
      <4>1. i = n + 1 /\ candidates'[i] = candidate /\ Tracked(r) /\ r \in BodyTyped
        BY <3>2, <1>19
      <4>2. candidates'[i].of = r
        BY <4>1, <1>9
      <4> QED BY <4>1, <4>2, <1>3 DEF Tracked
    <3> QED BY <3>1, <3>2
  <2>4. \A i, j \in DOMAIN candidates' : candidates'[i].of = candidates'[j].of => i = j
    <3>1. \A i \in DOMAIN candidates' : i \notin 1 .. n => i = n + 1 /\ candidates'[i].of = r
      BY <1>9, <1>19
    <3>2. \A i \in 1 .. n : candidates'[i].of = candidates[i].of /\ candidates[i].of # r
      BY <1>19, <2>1
    <3>3. \A i, j \in 1 .. n : candidates[i].of = candidates[j].of => i = j
      BY <1>1, <1>19 DEF CaptureTables
    <3> QED BY <3>1, <3>2, <3>3
  <2>5. \A i \in DOMAIN failedInputs :
          /\ failedInputs[i] \in Range(started) \cap BodyTyped
          /\ request'[failedInputs[i]] = "failed" /\ ~Candidate(failedInputs[i])'
    <3> SUFFICES ASSUME NEW i \in DOMAIN failedInputs
                 PROVE  /\ failedInputs[i] \in Range(started) \cap BodyTyped
                        /\ request'[failedInputs[i]] = "failed" /\ ~Candidate(failedInputs[i])'
      OBVIOUS
    <3>1. /\ failedInputs[i] \in Range(started) \cap BodyTyped
          /\ request[failedInputs[i]] = "failed" /\ ~Candidate(failedInputs[i])
      BY <1>1 DEF CaptureTables
    <3>2. \A j \in DOMAIN candidates' : candidates'[j].of # failedInputs[i]
      <4>1. \A j \in 1 .. n : candidates'[j].of # failedInputs[i]
        BY <3>1, <1>19 DEF Candidate
      <4>2. \A j \in DOMAIN candidates' : j \notin 1 .. n => candidates'[j].of = r
        BY <1>9, <1>19
      <4> QED BY <4>1, <4>2, <2>1
    <3>3. ~Candidate(failedInputs[i])'
      <4>1. failedInputs' = failedInputs
        BY <1>2
      <4> QED BY <3>2, <4>1 DEF Candidate
    <3> QED BY <3>1, <3>3, <2>1, <1>3
  <2>6. BodyCount' <= MaxResourceBodies
    <3> DEFINE B == {i \in 1 .. n : candidates[i].captureBody}
               C == {i \in DOMAIN candidates' : candidates'[i].captureBody}
    <3>1. IsFiniteSet(B) /\ BodyCount = Cardinality(B) /\ Cardinality(B) \in Nat /\ BodyCount' = Cardinality(C)
      <4>1. IsFiniteSet(1 .. n)
        BY <1>19, IntervalCounted
      <4>2. BodyCount = Cardinality(B) /\ BodyCount' = Cardinality(C)
        BY <1>19 DEF BodyCount
      <4>3. IsFiniteSet(B)
        BY <4>1, FS_Subset
      <4> QED BY <4>2, <4>3, FS_CardinalityType
    <3>2. BodyCount <= MaxResourceBodies /\ MaxResourceBodies \in Nat
      BY <1>1, PageAssumption DEF CaptureTables
    <3>5. C \subseteq B \cup {n + 1} /\ (BodyCount < MaxResourceBodies \/ C \subseteq B)
      <4>1. \A i \in 1 .. n : candidates'[i].captureBody = candidates[i].captureBody
        BY <1>19
      <4>2. \A i \in DOMAIN candidates' : i \notin 1 .. n => i = n + 1 /\ candidates'[i] = candidate
        BY <1>19
      <4> QED BY <4>1, <4>2, <1>19, <1>20
    <3> HIDE DEF B, C
    <3>3. CASE BodyCount < MaxResourceBodies
      <4>1. C \subseteq B \cup {n + 1}
        BY <3>5
      <4>2. IsFiniteSet(B \cup {n + 1})
            /\ Cardinality(B \cup {n + 1}) <= Cardinality(B) + 1
        BY <3>1, OneMore
      <4>3. IsFiniteSet(C) /\ Cardinality(C) <= Cardinality(B \cup {n + 1})
        BY <4>1, <4>2, FS_Subset
      <4>4. Cardinality(C) \in Nat /\ Cardinality(B \cup {n + 1}) \in Nat
        BY <4>2, <4>3, FS_CardinalityType
      <4> QED BY <3>1, <3>2, <3>3, <4>2, <4>3, <4>4
    <3>4. CASE ~(BodyCount < MaxResourceBodies)
      <4>1. C \subseteq B
        BY <3>4, <3>5
      <4>2. IsFiniteSet(C) /\ Cardinality(C) <= Cardinality(B)
        BY <3>1, <4>1, FS_Subset
      <4>3. Cardinality(C) \in Nat
        BY <4>2, FS_CardinalityType
      <4> QED BY <3>1, <3>2, <4>2, <4>3
    <3> QED BY <3>3, <3>4
  <2>7. /\ Len(started) <= MaxNetworkRequests /\ started' = started /\ failedInputs' = failedInputs
        /\ \A i, j \in DOMAIN failedInputs : failedInputs[i] = failedInputs[j] => i = j
    BY <1>1, <1>2 DEF CaptureTables
  <2> HIDE DEF candidate
  <2> QED BY ONLY <2>2, <2>3, <2>4, <2>5, <2>6, <2>7 DEF CaptureTables
<1>15. LogAccurate'
  <2>1. \A i \in 1 .. m : network[i].of # r /\ network[i].of \in PageRequests
    BY <1>1, <1>5, <1>18, RowsOfRequests DEF Logged
  <2>2. \A i \in DOMAIN network' : i \notin 1 .. m => i = m + 1 /\ network'[i] = row /\ Tracked(r)
    BY <1>18
  <2>3. \A i, j \in DOMAIN network' : network'[i].of = network'[j].of => i = j
    <3>1. \A i, j \in 1 .. m : network[i].of = network[j].of => i = j
      BY <1>1, <1>18 DEF LogAccurate
    <3> QED BY <2>1, <2>2, <3>1, <1>8, <1>18
  <2>4. \A i \in DOMAIN network' : network'[i].failed <=> request'[network'[i].of] = "failed"
    <3>1. \A i \in 1 .. m : network[i].failed <=> request[network[i].of] = "failed"
      BY <1>1, <1>18 DEF LogAccurate
    <3>2. \A i \in 1 .. m : network'[i] = network[i] /\ request'[network[i].of] = request[network[i].of]
      BY <2>1, <1>3, <1>18
    <3>3. row.failed = FALSE /\ request'[row.of] = "responded"
      BY <1>3, <1>8
    <3> QED BY <3>1, <3>2, <3>3, <2>2
  <2>5. \A q \in PageRequests : Tracked(q)' => (Logged(q)' <=> request'[q] \in Answers)
    <3> SUFFICES ASSUME NEW q \in PageRequests, Tracked(q)
                 PROVE  Logged(q)' <=> request'[q] \in Answers
      BY <1>2 DEF Tracked
    <3>1. CASE q = r
      <4>1. m + 1 \in DOMAIN network' /\ network'[m + 1].of = r
        <5>1. Tracked(r)
          BY <3>1
        <5> QED BY <5>1, <1>8, <1>18
      <4> QED BY <3>1, <4>1, <1>3 DEF Logged, Answers
    <3>2. CASE q # r
      <4>1. Logged(q)' <=> Logged(q)
        <5>1. 1 .. m \subseteq DOMAIN network'
          BY <1>18
        <5>2. \A i \in DOMAIN network' : network'[i].of = q => i \in 1 .. m
          BY <2>2, <1>8, <3>2
        <5> QED BY <5>1, <5>2, <1>18 DEF Logged
      <4>2. Logged(q) <=> request[q] \in Answers
        BY <1>1 DEF LogAccurate, Answers
      <4> QED BY <3>2, <4>1, <4>2, <1>3
    <3> QED BY <3>1, <3>2
  <2> QED BY <2>3, <2>4, <2>5 DEF LogAccurate, Answers
<1>16. Counted'
  <2>1. \A q \in PageRequests : (request'[q] # "none") <=> (request[q] # "none")
    BY <1>3
  <2> QED BY <2>1, <1>1, <1>2, StillCounted
<1>17. EventStep
  <2>1. \A k \in DOMAIN todo : \A i \in DOMAIN candidates :
           todo[k] = candidates[i] => todo'[k] = candidates'[i]
    BY <1>2, <1>19
  <2> QED BY <1>1, <1>2, <1>3, <1>19, <2>1 DEF EventStep
<1> QED BY <1>2, <1>13, <1>14, <1>15, <1>16, <1>17 DEF EventBooks

\* A request that finishes writes no table.
LEMMA RequestFinished_Books ==
  ASSUME CaptureInv, NEW r \in PageRequests, RequestFinished(r)
  PROVE  EventBooks' /\ EventStep /\ started' = started
<1>1. EventTypes /\ todo \in Seq(Responses) /\ CaptureTables /\ LogAccurate /\ Counted
  BY CaptureTypesSplit DEF CaptureInv, CaptureAccounts, Requested, Counted
<1>2. /\ Running /\ request[r] = "responded" /\ request' = [request EXCEPT ![r] = "finished"]
      /\ UNCHANGED <<admitted, started, network, candidates, failedInputs, transfer, progress, todo,
                     remaining, inputs, early, hopped>>
  BY DEF RequestFinished
<1>3. /\ request' \in [PageRequests -> States]
      /\ \A q \in PageRequests : request'[q] = IF q = r THEN "finished" ELSE request[q]
      /\ \A q \in PageRequests :
               /\ request[q] # "none" => request'[q] # "none"
               /\ request[q] \in {"finished", "failed"} => request'[q] = request[q]
               /\ request[q] \in Answers => request'[q] \in Answers
      /\ \A q \in PageRequests : request'[q] # "none" => request[q] # "none"
  BY <1>1, <1>2, Answering
<1>4. /\ \A i \in DOMAIN candidates : candidates[i].of \in PageRequests
      /\ \A i \in DOMAIN failedInputs : failedInputs[i] \in PageRequests
      /\ \A i \in DOMAIN network : network[i].of \in PageRequests
      /\ DOMAIN candidates = 1 .. Len(candidates) /\ Len(candidates) \in Nat
  BY <1>1, RowsOfRequests
<1>5. EventTypes'
  BY <1>1, <1>2, <1>3 DEF EventTypes
<1>6. CaptureTables'
  <2>1. BodyCount' = BodyCount /\ \A q : Candidate(q)' = Candidate(q)
    BY <1>2 DEF BodyCount, Candidate
  <2>2. \A i \in DOMAIN candidates : request'[candidates[i].of] \in Answers
    BY <1>1, <1>3, <1>4 DEF CaptureTables, Answers
  <2>3. \A i \in DOMAIN failedInputs : request'[failedInputs[i]] = "failed"
    BY <1>1, <1>3, <1>4 DEF CaptureTables
  <2> QED BY <2>1, <2>2, <2>3, <1>1, <1>2 DEF CaptureTables, Answers
<1>7. LogAccurate'
  <2>1. \A q \in PageRequests : (request'[q] \in Answers <=> request[q] \in Answers)
                                /\ (request'[q] = "failed" <=> request[q] = "failed")
    BY <1>2, <1>3 DEF Answers
  <2>2. \A q : Logged(q)' = Logged(q) /\ Tracked(q)' = Tracked(q)
    BY <1>2 DEF Logged, Tracked
  <2> QED BY <2>1, <2>2, <1>1, <1>2, <1>4 DEF LogAccurate, Answers
<1>8. Counted'
  <2>1. \A q \in PageRequests : (request'[q] # "none") <=> (request[q] # "none")
    BY <1>3
  <2> QED BY <2>1, <1>1, <1>2, StillCounted
<1>9. EventStep
  BY <1>1, <1>2, <1>3, <1>4 DEF EventStep
<1> QED BY <1>2, <1>5, <1>6, <1>7, <1>8, <1>9 DEF EventBooks

\* The log of a failure: the record is marked, or added.
LEMMA FailureLogged ==
  ASSUME EventTypes, CaptureTables, LogAccurate, NEW r \in PageRequests,
         request[r] \in {"pending", "responded"},
         request' = [request EXCEPT ![r] = "failed"], started' = started,
         \/ ~Tracked(r) /\ network' = network
         \/ /\ Tracked(r)
            /\ network' = IF Logged(r)
                          THEN [i \in DOMAIN network |->
                                  IF network[i].of = r THEN [network[i] EXCEPT !.failed = TRUE]
                                  ELSE network[i]]
                          ELSE IF Len(network) < MaxNetworkRequests
                          THEN Append(network, [of |-> r, failed |-> TRUE])
                          ELSE network
  PROVE  /\ network' \in Seq(Logs) /\ Len(network') <= MaxNetworkRequests
         /\ \A i \in DOMAIN network' : network'[i].of \in Range(started)
         /\ LogAccurate'
<1> DEFINE row == [of |-> r, failed |-> TRUE]
           mark(i) == IF network[i].of = r THEN [network[i] EXCEPT !.failed = TRUE] ELSE network[i]
           m == Len(network)
<1>0. network \in Seq(Logs) /\ Len(network) = m
  BY DEF EventTypes
<1>1. /\ DOMAIN network = 1 .. m /\ m \in Nat /\ m <= MaxNetworkRequests
      /\ \A i \in 1 .. m : network[i] \in Logs /\ network[i].of \in PageRequests
      /\ \A i \in 1 .. m : network[i].of \in Range(started)
      /\ \A i, j \in 1 .. m : network[i].of = network[j].of => i = j
      /\ \A i \in 1 .. m : network[i].failed <=> request[network[i].of] = "failed"
      /\ \A q \in PageRequests : Tracked(q) => (Logged(q) <=> request[q] \in Answers)
  BY RowsOfRequests DEF EventTypes, CaptureTables, LogAccurate, Answers
<1>2. /\ \A q \in PageRequests : request'[q] = IF q = r THEN "failed" ELSE request[q]
  BY DEF EventTypes
<1>3. \A q : Logged(q) <=> \E i \in 1 .. m : network[i].of = q
  BY <1>1 DEF Logged
<1>4. row \in Logs /\ row.of = r /\ row.failed = TRUE
  BY DEF Logs
<1> HIDE DEF row
<1>5. \A q : Tracked(q)' <=> Tracked(q)
  BY DEF Tracked
<1>6. ASSUME NEW n \in Nat, n <= MaxNetworkRequests, network' \in Seq(Logs), DOMAIN network' = 1 .. n, Len(network') = n,
             \A i \in 1 .. n : network'[i].of \in Range(started) /\ network'[i].of \in PageRequests,
             \A i, j \in 1 .. n : network'[i].of = network'[j].of => i = j,
             \A i \in 1 .. n : network'[i].failed <=> request'[network'[i].of] = "failed",
             \A q \in PageRequests : Tracked(q) =>
                ((\E i \in 1 .. n : network'[i].of = q) <=> request'[q] \in Answers)
      PROVE  /\ network' \in Seq(Logs) /\ Len(network') <= MaxNetworkRequests
             /\ \A i \in DOMAIN network' : network'[i].of \in Range(started)
             /\ LogAccurate'
  <2>1. \A q : Logged(q)' <=> \E i \in 1 .. n : network'[i].of = q
    BY <1>6 DEF Logged
  <2> QED BY <1>5, <1>6, <2>1 DEF LogAccurate, Answers
<1>7. CASE ~Tracked(r)
  <2>1. network' = network
    BY <1>7
  <2>2. \A i \in 1 .. m : network[i].of # r
    BY <1>1, <1>7 DEF Tracked
  <2>3. \A i \in 1 .. m : network[i].failed <=> request'[network[i].of] = "failed"
    BY <1>1, <1>2, <2>2
  <2>4. \A q \in PageRequests : Tracked(q) =>
                ((\E i \in 1 .. m : network[i].of = q) <=> request'[q] \in Answers)
    BY <1>1, <1>2, <1>3, <1>7
  <2> HIDE DEF m
  <2> QED BY <1>0, <1>1, <1>6, <2>1, <2>3, <2>4
<1>8. CASE Tracked(r) /\ Logged(r)
  <2>1. network' = [i \in 1 .. m |-> mark(i)]
    BY <1>1, <1>8
  <2>2. \A i \in 1 .. m : network'[i] = mark(i)
    BY <2>1
  <2>3. \A i \in 1 .. m :
           mark(i) \in Logs /\ mark(i).of = network[i].of
           /\ (mark(i).failed <=> request'[network[i].of] = "failed")
    <3> SUFFICES ASSUME NEW i \in 1 .. m
                 PROVE  mark(i) \in Logs /\ mark(i).of = network[i].of
                        /\ (mark(i).failed <=> request'[network[i].of] = "failed")
      OBVIOUS
    <3>1. CASE network[i].of = r
      <4>1. network[i] \in Logs
        BY <1>1
      <4>2. PICK x \in Logs : x = network[i]
        BY <4>1
      <4>3. mark(i) = [x EXCEPT !.failed = TRUE]
        BY <3>1, <4>2
      <4>4. mark(i) \in Logs /\ mark(i).of = x.of /\ mark(i).failed = TRUE
        BY ONLY <4>3, x \in Logs DEF Logs
      <4>5. request'[network[i].of] = "failed"
        BY <3>1, <1>2
      <4> HIDE DEF mark
      <4> QED BY <4>2, <4>4, <4>5
    <3>2. CASE network[i].of # r
      <4>1. mark(i) = network[i]
        BY <3>2
      <4>2. request'[network[i].of] = request[network[i].of]
        BY <3>2, <1>1, <1>2
      <4> HIDE DEF mark
      <4> QED BY <4>1, <4>2, <1>1
    <3> QED BY <3>1, <3>2
  <2>4. \A q \in PageRequests : Tracked(q) =>
                ((\E i \in 1 .. m : network[i].of = q) <=> request'[q] \in Answers)
    BY <1>1, <1>2, <1>3, <1>8 DEF Answers
  <2> HIDE DEF mark
  <2>5. network' \in [1 .. m -> Logs]
    BY <2>1, <2>3
  <2>6. network' \in Seq(Logs) /\ Len(network') = m /\ DOMAIN network' = 1 .. m
    BY <1>1, <2>5, Listing
  <2>7. \A i \in 1 .. m : network'[i].of = network[i].of
    BY <2>2, <2>3
  <2>8. \A i \in 1 .. m : network'[i].failed <=> request'[network'[i].of] = "failed"
    BY <2>2, <2>3
  <2>9. \A i \in 1 .. m : network'[i].of \in Range(started) /\ network'[i].of \in PageRequests
    BY <2>7, <1>1
  <2>10. \A i, j \in 1 .. m : network'[i].of = network'[j].of => i = j
    BY <2>7, <1>1
  <2>11. \A q \in PageRequests : Tracked(q) =>
                ((\E i \in 1 .. m : network'[i].of = q) <=> request'[q] \in Answers)
    BY <2>4, <2>7
  <2>12. m \in Nat /\ m <= MaxNetworkRequests
    BY <1>1
  <2> HIDE DEF m
  <2> QED BY ONLY <1>6, <2>6, <2>8, <2>9, <2>10, <2>11, <2>12
<1>9. CASE Tracked(r) /\ ~Logged(r)
  <2>1. m < MaxNetworkRequests
    BY <1>9, RoomToLog DEF Tracked
  <2>2. network' = Append(network, row)
    BY <1>9, <2>1 DEF row
  <2>0. network' \in Seq(Logs) /\ Len(network') = m + 1
    BY <1>0, <1>4, <2>2, Appending
  <2>3. /\ DOMAIN network' = 1 .. m + 1
        /\ \A i \in 1 .. m : network'[i] = network[i]
        /\ network'[m + 1] = row
    BY <1>0, <1>4, <2>2, Appending
  <2>11. m \in Nat /\ m + 1 \in 1 .. m + 1
    BY <1>1
  <2>12. \A i \in 1 .. m : network'[i].of = network[i].of /\ network'[i].failed = network[i].failed
    BY <2>3
  <2>13. network'[m + 1].of = r /\ network'[m + 1].failed = TRUE
    BY <2>3, <1>4
  <2>14. \A i, j \in 1 .. m : network[i].of = network[j].of => i = j
    BY <1>1
  <2> HIDE DEF m
  <2>4. \A i \in 1 .. m : network[i].of # r
    BY <1>3, <1>9
  <2>5. \A i \in 1 .. m + 1 : i \in 1 .. m \/ i = m + 1
    BY <1>1
  <2>6. \A i \in 1 .. m + 1 : network'[i].of \in Range(started) /\ network'[i].of \in PageRequests
    BY <1>1, <1>4, <1>9, <2>3, <2>5 DEF Tracked
  <2>7. \A i, j \in 1 .. m + 1 : network'[i].of = network'[j].of => i = j
    BY <2>4, <2>5, <2>12, <2>13, <2>14
  <2>8. \A i \in 1 .. m + 1 : network'[i].failed <=> request'[network'[i].of] = "failed"
    <3>1. \A i \in 1 .. m : request'[network[i].of] = request[network[i].of]
      BY <1>1, <1>2, <2>4
    <3>2. request'[r] = "failed"
      BY <1>2
    <3>3. \A i \in 1 .. m : network[i].failed <=> request[network[i].of] = "failed"
      BY <1>1
    <3>4. \A i \in 1 .. m : network'[i].failed <=> request'[network'[i].of] = "failed"
      BY <3>1, <3>3, <2>12
    <3>5. network'[m + 1].failed <=> request'[network'[m + 1].of] = "failed"
      BY <3>2, <2>13
    <3> QED BY <3>4, <3>5, <2>5
  <2>9. \A q \in PageRequests : Tracked(q) =>
                ((\E i \in 1 .. m + 1 : network'[i].of = q) <=> request'[q] \in Answers)
    <3> SUFFICES ASSUME NEW q \in PageRequests, Tracked(q)
                 PROVE  (\E i \in 1 .. m + 1 : network'[i].of = q) <=> request'[q] \in Answers
      OBVIOUS
    <3>1. CASE q = r
      <4>1. m + 1 \in 1 .. m + 1 /\ network'[m + 1].of = q
        BY <3>1, <2>11, <2>13
      <4> QED BY <3>1, <4>1, <1>2 DEF Answers
    <3>2. CASE q # r
      <4>1. (\E i \in 1 .. m + 1 : network'[i].of = q) <=> \E i \in 1 .. m : network[i].of = q
        BY <3>2, <2>5, <2>11, <2>12, <2>13, SMTT(20)
      <4>2. Logged(q) <=> request[q] \in Answers
        BY <1>1
      <4> QED BY <3>2, <4>1, <4>2, <1>2, <1>3
    <3> QED BY <3>1, <3>2
  <2>10. m + 1 \in Nat /\ m + 1 <= MaxNetworkRequests
    BY <1>1, <2>1, PageAssumption
  <2> QED BY ONLY <1>6, <2>0, <2>3, <2>6, <2>7, <2>8, <2>9, <2>10
<1> QED BY <1>7, <1>8, <1>9

\* A failure marks its response, or becomes an input of its own.
LEMMA RequestFailed_Books ==
  ASSUME CaptureInv, NEW r \in PageRequests, RequestFailed(r)
  PROVE  EventBooks' /\ EventStep /\ started' = started
<1>1. EventTypes /\ todo \in Seq(Responses) /\ CaptureTables /\ LogAccurate /\ Counted
  BY CaptureTypesSplit DEF CaptureInv, CaptureAccounts, Requested, Counted
<1>2. /\ Running /\ request[r] \in {"pending", "responded"} /\ request' = [request EXCEPT ![r] = "failed"]
      /\ UNCHANGED <<admitted, started, transfer, progress, remaining, inputs, early, hopped>>
  BY DEF RequestFailed
<1>3. /\ request' \in [PageRequests -> States]
      /\ \A q \in PageRequests : request'[q] = IF q = r THEN "failed" ELSE request[q]
      /\ \A q \in PageRequests :
               /\ request[q] # "none" => request'[q] # "none"
               /\ request[q] \in {"finished", "failed"} => request'[q] = request[q]
               /\ request[q] \in Answers => request'[q] \in Answers
      /\ \A q \in PageRequests : request'[q] # "none" => request[q] # "none"
  BY <1>1, <1>2, Answering
<1>4. /\ network' \in Seq(Logs) /\ Len(network') <= MaxNetworkRequests
      /\ \A i \in DOMAIN network' : network'[i].of \in Range(started)
      /\ LogAccurate'
  <2>1. \/ ~Tracked(r) /\ network' = network
        \/ /\ Tracked(r)
           /\ network' = IF Logged(r)
                         THEN [i \in DOMAIN network |->
                                 IF network[i].of = r THEN [network[i] EXCEPT !.failed = TRUE]
                                 ELSE network[i]]
                         ELSE IF Len(network) < MaxNetworkRequests
                         THEN Append(network, [of |-> r, failed |-> TRUE])
                         ELSE network
    BY DEF RequestFailed
  <2>2. started' = started
    BY <1>2
  <2> QED BY <1>1, <1>2, <2>1, <2>2, FailureLogged
<1>5. \/ UNCHANGED <<candidates, todo>>
      \/ candidates' = Marked(candidates, r) /\ todo' = Marked(todo, r)
  BY DEF RequestFailed, Marked
<1>6. candidates \in Seq(Responses)
  BY <1>1 DEF EventTypes
<1>7. /\ candidates' \in Seq(Responses) /\ todo' \in Seq(Responses)
      /\ Len(candidates') = Len(candidates) /\ Len(todo') = Len(todo)
      /\ Len(candidates) \in Nat /\ DOMAIN candidates = 1 .. Len(candidates)
      /\ DOMAIN candidates' = DOMAIN candidates
      /\ \A i \in DOMAIN candidates : /\ candidates'[i].of = candidates[i].of
                                      /\ candidates'[i].captureBody = candidates[i].captureBody
      /\ \A k \in DOMAIN todo : \A i \in DOMAIN candidates :
            todo[k] = candidates[i] => todo'[k] = candidates'[i]
  <2>1. CASE UNCHANGED <<candidates, todo>>
    BY <1>1, <1>6, <2>1
  <2>2. CASE candidates' = Marked(candidates, r) /\ todo' = Marked(todo, r)
    <3>1. /\ candidates' \in Seq(Responses) /\ Len(candidates') = Len(candidates)
          /\ Len(candidates) \in Nat /\ DOMAIN candidates = 1 .. Len(candidates)
          /\ DOMAIN candidates' = DOMAIN candidates
          /\ \A i \in DOMAIN candidates :
                /\ candidates'[i].of = candidates[i].of
                /\ candidates'[i].captureBody = candidates[i].captureBody
      BY <1>6, <2>2, Marking
    <3>2. todo' \in Seq(Responses) /\ Len(todo') = Len(todo)
      BY <1>1, <2>2, Marking
    <3>3. \A k \in DOMAIN todo : \A i \in DOMAIN candidates :
            todo[k] = candidates[i] => todo'[k] = candidates'[i]
      <4> SUFFICES ASSUME NEW k \in DOMAIN todo, NEW i \in DOMAIN candidates, todo[k] = candidates[i]
                   PROVE  todo'[k] = candidates'[i]
        OBVIOUS
      <4> DEFINE marked(c) == IF c.of = r THEN [c EXCEPT !.skip = "REQUEST_FAILED"] ELSE c
      <4>1. todo'[k] = marked(todo[k]) /\ candidates'[i] = marked(candidates[i])
        BY <2>2 DEF Marked
      <4> HIDE DEF marked
      <4> QED BY <4>1
    <3> QED BY <3>1, <3>2, <3>3
  <2> QED BY <1>5, <2>1, <2>2
<1>8. \/ failedInputs' = failedInputs
      \/ /\ Tracked(r) /\ ~Candidate(r) /\ r \in BodyTyped
         /\ failedInputs' = Append(failedInputs, r)
  BY DEF RequestFailed
<1>9. /\ failedInputs' \in Seq(PageRequests)
      /\ \A i \in DOMAIN failedInputs : failedInputs'[i] = failedInputs[i]
      /\ \E new : \A i \in DOMAIN failedInputs' :
                     i \in DOMAIN failedInputs \/ (i = new /\ failedInputs'[i] = r)
  <2>1. failedInputs \in Seq(PageRequests)
    BY <1>1 DEF EventTypes
  <2>2. CASE failedInputs' = failedInputs
    BY <2>1, <2>2
  <2>3. CASE /\ Tracked(r) /\ ~Candidate(r) /\ r \in BodyTyped
             /\ failedInputs' = Append(failedInputs, r)
    <3>1. /\ failedInputs' \in Seq(PageRequests) /\ DOMAIN failedInputs' = 1 .. Len(failedInputs) + 1
          /\ DOMAIN failedInputs = 1 .. Len(failedInputs) /\ Len(failedInputs) \in Nat
          /\ \A i \in 1 .. Len(failedInputs) : failedInputs'[i] = failedInputs[i]
          /\ failedInputs'[Len(failedInputs) + 1] = r
      BY <2>1, <2>3, Appending
    <3>2. \A i \in DOMAIN failedInputs' : i \in 1 .. Len(failedInputs) \/ i = Len(failedInputs) + 1
      BY <3>1
    <3> QED BY <2>3, <3>1, <3>2
  <2> QED BY <1>8, <2>2, <2>3
<1>14. failedInputs' = failedInputs \/ (r \in Range(started) \cap BodyTyped /\ ~Candidate(r))
  BY <1>8 DEF Tracked
<1>10. EventTypes'
  BY <1>1, <1>2, <1>3, <1>4, <1>7, <1>9 DEF EventTypes
<1>11. CaptureTables'
  <2>0. \A i \in DOMAIN failedInputs : failedInputs'[i] = failedInputs[i]
    BY <1>9
  <2>1. PICK new : \A i \in DOMAIN failedInputs' :
                     i \in DOMAIN failedInputs \/ (i = new /\ failedInputs'[i] = r)
    BY <1>9
  <2>2. /\ \A i \in DOMAIN failedInputs : /\ failedInputs[i] \in Range(started) \cap BodyTyped
                             /\ request[failedInputs[i]] = "failed" /\ ~Candidate(failedInputs[i])
                             /\ failedInputs[i] \in PageRequests
        /\ \A i, j \in DOMAIN failedInputs : failedInputs[i] = failedInputs[j] => i = j
    BY <1>1, <2>1, RowsOfRequests DEF CaptureTables
  <2>4. \A i \in DOMAIN failedInputs : failedInputs[i] # r
    BY <1>2, <2>2
  <2>6. \A i \in DOMAIN failedInputs' :
          /\ failedInputs'[i] \in Range(started) \cap BodyTyped
          /\ request'[failedInputs'[i]] = "failed" /\ ~Candidate(failedInputs'[i])
    <3> SUFFICES ASSUME NEW i \in DOMAIN failedInputs'
                 PROVE  /\ failedInputs'[i] \in Range(started) \cap BodyTyped
                        /\ request'[failedInputs'[i]] = "failed" /\ ~Candidate(failedInputs'[i])
      OBVIOUS
    <3>1. CASE i \in DOMAIN failedInputs
      BY <3>1, <1>3, <2>0, <2>2
    <3>2. CASE i \notin DOMAIN failedInputs
      <4>1. failedInputs'[i] = r
        BY <3>2, <2>1
      <4>2. failedInputs' # failedInputs
        BY <3>2, <2>1
      <4>3. r \in Range(started) \cap BodyTyped /\ ~Candidate(r)
        BY <4>2, <1>14
      <4> QED BY <4>1, <4>3, <1>3
    <3> QED BY <3>1, <3>2
  <2>7. \A i, j \in DOMAIN failedInputs' : failedInputs'[i] = failedInputs'[j] => i = j
    BY <2>0, <2>1, <2>2, <2>4
  <2>8. \A i \in DOMAIN candidates' :
          /\ candidates'[i].of \in Range(started) \cap BodyTyped
          /\ request'[candidates'[i].of] \in {"responded", "finished", "failed"}
    <3>1. \A i \in DOMAIN candidates : candidates[i].of \in PageRequests
      BY <1>1, RowsOfRequests
    <3>2. \A i \in DOMAIN candidates :
          /\ candidates[i].of \in Range(started) \cap BodyTyped
          /\ request[candidates[i].of] \in Answers
      BY <1>1 DEF CaptureTables, Answers
    <3> QED BY <3>1, <3>2, <1>3, <1>7 DEF Answers
  <2>9. \A i, j \in DOMAIN candidates' : candidates'[i].of = candidates'[j].of => i = j
    BY <1>1, <1>7 DEF CaptureTables
  <2>10. BodyCount' <= MaxResourceBodies
    <3>1. {i \in DOMAIN candidates' : candidates'[i].captureBody} = {i \in DOMAIN candidates : candidates[i].captureBody}
      BY <1>7
    <3>2. BodyCount' = BodyCount
      BY <3>1 DEF BodyCount
    <3> QED BY <3>2, <1>1 DEF CaptureTables
  <2>11. Len(started) <= MaxNetworkRequests /\ started' = started
    BY <1>1, <1>2 DEF CaptureTables
  <2>13. \A i \in DOMAIN failedInputs' : (~Candidate(failedInputs[i]))'
    <3> SUFFICES ASSUME NEW i \in DOMAIN failedInputs'
                 PROVE  ~\E j \in DOMAIN candidates' : candidates'[j].of = failedInputs'[i]
      BY DEF Candidate
    <3>1. ~Candidate(failedInputs'[i])
      BY <2>6
    <3> QED BY <3>1, <1>7 DEF Candidate
  <2> QED BY ONLY <1>4, <2>6, <2>7, <2>8, <2>9, <2>10, <2>11, <2>13 DEF CaptureTables
<1>12. Counted'
  <2>1. \A q \in PageRequests : (request'[q] # "none") <=> (request[q] # "none")
    BY <1>3
  <2> QED BY <2>1, <1>1, <1>2, StillCounted
<1>13. EventStep
  <2>1. Len(candidates') \in Nat /\ DOMAIN candidates' = 1 .. Len(candidates')
    BY <1>7
  <2> QED BY <1>2, <1>3, <1>7, <2>1 DEF EventStep
<1> QED BY <1>2, <1>4, <1>10, <1>11, <1>12, <1>13 DEF EventBooks

\* What the collection keeps of the tables it does not write.
LEMMA BooksKept == ASSUME EventBooks, UNCHANGED events PROVE EventBooks'
<1>1. UNCHANGED <<request, admitted, started, network, candidates, failedInputs, transfer, early, hopped>>
  BY DEF events
<1>2. EventTypes'
  BY <1>1 DEF EventBooks, EventTypes
<1>3. /\ BodyCount' = BodyCount /\ \A q : Candidate(q)' = Candidate(q)
      /\ \A q : Logged(q)' = Logged(q) /\ Tracked(q)' = Tracked(q)
  BY <1>1 DEF BodyCount, Candidate, Logged, Tracked
<1>4. CaptureTables'
  BY <1>1, <1>3 DEF EventBooks, CaptureTables
<1>5. LogAccurate'
  BY <1>1, <1>3 DEF EventBooks, LogAccurate
<1>6. Counted'
  BY <1>1, <1>3 DEF EventBooks, Counted
<1> QED BY <1>2, <1>4, <1>5, <1>6 DEF EventBooks

\* The part of the invariant that is about the collection.
Kept ==
    /\ todo \in Seq(Responses) /\ progress \in Stages /\ inputs \in Seq(Entries)
    /\ InputsExactlyOnce /\ GapsRecorded /\ BodiesAreWhole
    /\ \A i \in DOMAIN inputs : inputs[i].size <= MaxResourceBytes
    /\ Collecting /\ WithinBytes
    /\ progress \in {"checking", "captured"} /\ ~hopped => early \subseteq Range(started)

\* No more bodies are kept than candidates may have one.
LEMMA BudgetHolds == ASSUME EventBooks, Kept PROVE BodiesWithinBudget
<1>1. PICK f \in [0 .. Len(inputs) -> Nat] : Sums(f, inputs) /\ f[Len(inputs)] + remaining <= MaxTotalBytes
  BY DEF Kept, WithinBytes
<1>2. Len(inputs) \in Nat
  BY DEF Kept
<1>3. Total(inputs) = f[Len(inputs)]
  BY <1>1, <1>2, TotalOfSums
<1>4. remaining \in Nat
  BY DEF Kept, WithinBytes
<1> DEFINE B == {i \in DOMAIN candidates : candidates[i].captureBody}
           K == {i \in DOMAIN inputs : inputs[i].size > 0}
<1>5. K \subseteq B
  BY DEF Kept, Collecting
<1>6. IsFiniteSet(B)
  <2>1. DOMAIN candidates = 1 .. Len(candidates) /\ Len(candidates) \in Nat
    BY RowsOfRequests DEF EventBooks
  <2>2. IsFiniteSet(1 .. Len(candidates))
    BY <2>1, IntervalCounted
  <2> QED BY <2>1, <2>2, FS_Subset
<1>7. Cardinality(B) <= MaxResourceBodies
  BY DEF EventBooks, CaptureTables, BodyCount
<1> HIDE DEF B, K
<1>8. IsFiniteSet(K) /\ Cardinality(K) <= Cardinality(B)
  BY <1>5, <1>6, FS_Subset
<1>9. Cardinality(K) \in Nat /\ Cardinality(B) \in Nat /\ MaxResourceBodies \in Nat
  BY <1>6, <1>8, FS_CardinalityType, PageAssumption
<1>10. Cardinality(K) <= MaxResourceBodies
  BY <1>7, <1>8, <1>9
<1>11. \A i \in DOMAIN inputs : inputs[i].size <= MaxResourceBytes
  BY DEF Kept
<1>12. remaining >= 0
  BY <1>4
<1> QED BY <1>1, <1>3, <1>10, <1>11, <1>12 DEF BodiesWithinBudget, K

\* The invariant, from what the events write and what the collection does.
LEMMA InvFromParts == ASSUME EventBooks, Kept PROVE CaptureInv
<1>1. BodiesWithinBudget
  BY BudgetHolds
<1>2. CaptureTypes
  <2>1. remaining \in Int
    BY DEF Kept, WithinBytes
  <2> QED BY <2>1, CaptureTypesSplit DEF EventBooks, Kept
<1> QED BY <1>1, <1>2 DEF CaptureInv, CaptureAccounts, EventBooks, Kept, Requested, Counted

\* The same, the other way round.
LEMMA PartsFromInv == ASSUME CaptureInv PROVE EventBooks /\ Kept
<1>1. EventTypes /\ todo \in Seq(Responses) /\ progress \in Stages /\ inputs \in Seq(Entries)
  BY CaptureTypesSplit DEF CaptureInv, CaptureAccounts
<1>2. \A i \in DOMAIN inputs : inputs[i].size <= MaxResourceBytes
  BY DEF CaptureInv, CaptureAccounts, BodiesWithinBudget
<1> QED BY <1>1, <1>2 DEF CaptureInv, CaptureAccounts, EventBooks, Kept, Requested, Counted

\* The fields of the inputs.
LEMMA EntryTypes ==
  ASSUME inputs \in Seq(Entries)
  PROVE  /\ DOMAIN inputs = 1 .. Len(inputs) /\ Len(inputs) \in Nat
         /\ \A i \in DOMAIN inputs : /\ inputs[i] \in Entries /\ inputs[i].of \in PageRequests
                                     /\ inputs[i].size \in Nat /\ inputs[i].skip \in Reasons
<1>1. DOMAIN inputs = 1 .. Len(inputs) /\ Len(inputs) \in Nat /\ \A i \in DOMAIN inputs : inputs[i] \in Entries
  OBVIOUS
<1>2. \A e \in Entries : e.of \in PageRequests /\ e.size \in Nat /\ e.skip \in Reasons
  BY DEF Entries
<1> QED BY <1>1, <1>2

\* An event of the page disturbs nothing that has been collected.
LEMMA EventKeeps ==
  ASSUME CaptureInv, EventBooks', EventStep, Range(started) \subseteq Range(started')
  PROVE  CaptureInv'
<1>1. EventBooks /\ Kept
  BY PartsFromInv
<1>2. progress' = progress /\ progress \in {"loading", "collecting", "checking"}
      /\ remaining' = remaining /\ inputs' = inputs
  BY DEF EventStep, Running
<1>3. todo' \in Seq(Responses) /\ progress' \in Stages /\ inputs' \in Seq(Entries)
  BY <1>1, <1>2 DEF EventStep, Kept
<1>4. InputsExactlyOnce' /\ GapsRecorded'
  BY <1>2 DEF InputsExactlyOnce, GapsRecorded
<1>5. BodiesAreWhole'
  <2>1. \A i \in DOMAIN inputs : inputs[i].of \in PageRequests
    BY <1>1, EntryTypes DEF Kept
  <2>2. \A i \in DOMAIN inputs :
           /\ (inputs[i].size > 0) <=> (inputs[i].skip = "")
           /\ inputs[i].size > 0 => request[inputs[i].of] = "finished"
    BY <1>1 DEF Kept, BodiesAreWhole
  <2>3. \A q \in PageRequests : request[q] = "finished" => request'[q] = "finished"
    BY DEF EventStep
  <2> QED BY <1>2, <2>1, <2>2, <2>3 DEF BodiesAreWhole
<1>6. \A i \in DOMAIN inputs' : inputs'[i].size <= MaxResourceBytes
  BY <1>1, <1>2 DEF Kept
<1>7. Collecting'
  <2>1. DOMAIN candidates = 1 .. Len(candidates) /\ Len(candidates) \in Nat
    BY <1>1, RowsOfRequests DEF EventBooks
  <2>2. DOMAIN todo = 1 .. Len(todo) /\ Len(todo) \in Nat /\ DOMAIN todo' = DOMAIN todo
        /\ Len(todo') = Len(todo)
    BY <1>1, <1>3 DEF Kept, EventStep
  <2>3. Len(inputs) \in Nat
    BY <1>1, EntryTypes DEF Kept
  <2>4. DOMAIN candidates \subseteq DOMAIN candidates' /\ Len(candidates) <= Len(candidates')
        /\ Len(candidates') \in Nat
    BY <2>1 DEF EventStep
  <2>5. \A i \in DOMAIN candidates : /\ candidates'[i].of = candidates[i].of
                                    /\ candidates'[i].captureBody = candidates[i].captureBody
    BY DEF EventStep
  <2>6. progress = "loading" => inputs = <<>> /\ todo' = <<>>
    <3>1. progress = "loading" => inputs = <<>> /\ todo = <<>>
      BY <1>1 DEF Kept, Collecting
    <3>2. todo = <<>> => Len(todo') = 0
      BY DEF EventStep
    <3> QED BY <3>1, <3>2, <1>3
  <2>7. progress = "collecting" =>
          /\ Len(inputs) + Len(todo') <= Len(candidates')
          /\ \A k \in DOMAIN todo' : todo'[k] = candidates'[Len(inputs) + k]
    <3> SUFFICES ASSUME progress = "collecting"
                 PROVE  /\ Len(inputs) + Len(todo') <= Len(candidates')
                        /\ \A k \in DOMAIN todo : todo'[k] = candidates'[Len(inputs) + k]
      BY <2>2
    <3>1. /\ Len(inputs) + Len(todo) <= Len(candidates)
          /\ \A k \in DOMAIN todo : todo[k] = candidates[Len(inputs) + k]
      BY <1>1 DEF Kept, Collecting
    <3>2. \A k \in DOMAIN todo : Len(inputs) + k \in DOMAIN candidates
      BY <2>1, <2>2, <2>3, <3>1
    <3>3. \A k \in DOMAIN todo : \A i \in DOMAIN candidates :
             todo[k] = candidates[i] => todo'[k] = candidates'[i]
      BY DEF EventStep
    <3>4. \A k \in DOMAIN todo : todo'[k] = candidates'[Len(inputs) + k]
      BY <3>1, <3>2, <3>3
    <3> QED BY <2>1, <2>2, <2>3, <2>4, <3>1, <3>4
  <2>8. \A i \in DOMAIN inputs : i \in DOMAIN candidates' /\ inputs[i].of = candidates'[i].of
    <3>1. \A i \in DOMAIN inputs : i \in DOMAIN candidates /\ inputs[i].of = candidates[i].of
      BY <1>1, <1>2 DEF Kept, Collecting
    <3> QED BY <3>1, <2>4, <2>5
  <2>9. \A i \in DOMAIN inputs : inputs[i].size > 0 => i \in DOMAIN candidates' /\ candidates'[i].captureBody
    <3>1. \A i \in DOMAIN inputs : inputs[i].size > 0 => i \in DOMAIN candidates /\ candidates[i].captureBody
      BY <1>1 DEF Kept, Collecting
    <3> QED BY <3>1, <2>4, <2>5
  <2> QED BY ONLY <1>2, <2>6, <2>7, <2>8, <2>9 DEF Collecting
<1>8. WithinBytes'
  BY <1>1, <1>2 DEF Kept, WithinBytes, Sums
<1>9. progress' \in {"checking", "captured"} /\ ~hopped' => early' \subseteq Range(started')
  <2> SUFFICES ASSUME progress = "checking", ~hopped' PROVE early' \subseteq Range(started')
    BY <1>2
  <2>1. early' = early
    BY DEF EventStep
  <2>2. ~hopped
    BY DEF EventStep
  <2>3. early \subseteq Range(started)
    BY <1>1, <2>2 DEF Kept
  <2> QED BY <2>1, <2>3
<1>10. Kept'
  BY <1>3, <1>4, <1>5, <1>6, <1>7, <1>8, <1>9 DEF Kept
<1>11. (EventBooks /\ Kept => CaptureInv)'
  BY InvFromParts, PTL
<1> QED BY <1>10, <1>11

\* The entry e, of the next candidate, is added to the inputs.
Addition(e) ==
    /\ UNCHANGED events /\ progress = "collecting" /\ progress' = progress /\ todo # <<>>
    /\ e \in Entries /\ Collected(e) /\ e.of = Head(todo).of
    /\ (e.size > 0) <=> (e.skip = "")
    /\ e.size <= MaxResourceBytes /\ e.size <= remaining /\ remaining' = remaining - e.size
    /\ e.size > 0 => Head(todo).captureBody /\ request[e.of] = "finished"

\* One more candidate has been dealt with.
LEMMA CollectedKeeps ==
  ASSUME CaptureInv, NEW e, Addition(e)
  PROVE  CaptureInv'
<1>1. EventBooks /\ Kept
  BY PartsFromInv
<1>2. EventBooks'
  BY <1>1, BooksKept DEF Addition
<1>3. UNCHANGED <<request, candidates, early, hopped, started>>
  BY DEF events, Addition
<1>4. inputs \in Seq(Entries) /\ inputs' = Append(inputs, e) /\ e \in Entries
  BY <1>1 DEF Kept, Collected, Addition
<1>20. todo' = Tail(todo) /\ todo \in Seq(Responses) /\ todo # <<>>
  BY <1>1 DEF Kept, Collected, Addition
<1>21. e.of = Head(todo).of /\ (e.size > 0 => Head(todo).captureBody)
  BY DEF Addition
<1>22. e.size <= MaxResourceBytes /\ e.size <= remaining /\ remaining' = remaining - e.size
  BY DEF Addition
<1>23. ((e.size > 0) <=> (e.skip = "")) /\ (e.size > 0 => request[e.of] = "finished")
  BY DEF Addition
<1>24. progress = "collecting" /\ progress' = "collecting"
  BY DEF Addition
<1>0. PICK n \in Nat : n = Len(inputs)
  BY <1>4
<1>5. inputs' \in Seq(Entries) /\ Len(inputs') = n + 1
  BY <1>0, <1>4, Appending
<1>6. /\ DOMAIN inputs = 1 .. n /\ DOMAIN inputs' = 1 .. n + 1
      /\ \A i \in 1 .. n : inputs'[i] = inputs[i]
      /\ inputs'[n + 1] = e
  BY <1>0, <1>4, Appending
<1>7. todo' \in Seq(Responses)
  BY <1>20, Dropping
<1>8. /\ Len(todo) \in Nat \ {0} /\ Len(todo') = Len(todo) - 1
      /\ DOMAIN todo = 1 .. Len(todo) /\ DOMAIN todo' = 1 .. Len(todo) - 1
      /\ \A i \in 1 .. Len(todo) - 1 : todo'[i] = todo[i + 1]
      /\ Head(todo) = todo[1]
  BY <1>20, Dropping
<1>9. DOMAIN candidates = 1 .. Len(candidates) /\ Len(candidates) \in Nat
  BY <1>1, RowsOfRequests DEF EventBooks
<1>10. /\ n + Len(todo) <= Len(candidates)
       /\ \A k \in DOMAIN todo : todo[k] = candidates[n + k]
       /\ \A i \in 1 .. n : i \in DOMAIN candidates /\ inputs[i].of = candidates[i].of
       /\ \A i \in 1 .. n : inputs[i].size > 0 => i \in DOMAIN candidates /\ candidates[i].captureBody
  BY <1>0, <1>1, <1>6, <1>24 DEF Kept, Collecting
<1>11. \A i \in DOMAIN inputs' : i \in 1 .. n \/ i = n + 1
  BY <1>6
<1>12. n + 1 \in DOMAIN candidates /\ candidates[n + 1] = Head(todo)
  BY <1>6, <1>8, <1>9, <1>10
<1>13. Collecting'
  <2>1. /\ Len(inputs') + Len(todo') <= Len(candidates)
        /\ \A k \in DOMAIN todo' : todo'[k] = candidates[Len(inputs') + k]
    <3>1. Len(inputs') + Len(todo') <= Len(candidates)
      BY <1>5, <1>6, <1>8, <1>9, <1>10
    <3>2. ASSUME NEW k \in DOMAIN todo' PROVE todo'[k] = candidates[Len(inputs') + k]
      <4>1. k \in 1 .. Len(todo) - 1 /\ k + 1 \in DOMAIN todo /\ n + (k + 1) = Len(inputs') + k
        BY <1>5, <1>6, <1>8
      <4>2. todo'[k] = todo[k + 1]
        BY <4>1, <1>8
      <4>3. todo[k + 1] = candidates[n + (k + 1)]
        BY <4>1, <1>10
      <4> QED BY <4>1, <4>2, <4>3
    <3> QED BY <3>1, <3>2
  <2>2. \A i \in DOMAIN inputs' : i \in DOMAIN candidates /\ inputs'[i].of = candidates[i].of
    BY <1>6, <1>10, <1>11, <1>12, <1>21
  <2>3. \A i \in DOMAIN inputs' : inputs'[i].size > 0 => i \in DOMAIN candidates /\ candidates[i].captureBody
    BY <1>6, <1>10, <1>11, <1>12, <1>21
  <2> QED BY ONLY <1>3, <2>1, <2>2, <2>3, <1>24 DEF Collecting
<1>14. BodiesAreWhole'
  <2>1. \A i \in 1 .. n :
           /\ (inputs[i].size > 0) <=> (inputs[i].skip = "")
           /\ inputs[i].size > 0 => request[inputs[i].of] = "finished"
    BY <1>1, <1>6 DEF Kept, BodiesAreWhole
  <2>2. \A i \in DOMAIN inputs' :
           /\ (inputs'[i].size > 0) <=> (inputs'[i].skip = "")
           /\ inputs'[i].size > 0 => request[inputs'[i].of] = "finished"
    BY <2>1, <1>6, <1>11, <1>23
  <2> QED BY <2>2, <1>3 DEF BodiesAreWhole
<1>15. \A i \in DOMAIN inputs' : inputs'[i].size <= MaxResourceBytes
  <2>1. \A i \in 1 .. n : inputs[i].size <= MaxResourceBytes
    BY <1>1, <1>6 DEF Kept
  <2> QED BY <2>1, <1>6, <1>11, <1>22
<1>16. WithinBytes'
  <2>1. remaining \in Nat /\ remaining' \in Nat /\ e.size \in Nat
    <3>1. remaining \in Nat
      BY <1>1 DEF Kept, WithinBytes
    <3>2. e.size \in Nat
      BY <1>4 DEF Entries
    <3> QED BY <3>1, <3>2, <1>22
  <2>2. PICK f \in [0 .. n -> Nat] : Sums(f, inputs) /\ f[n] + remaining <= MaxTotalBytes
    BY <1>0, <1>1 DEF Kept, WithinBytes
  <2> DEFINE g == [k \in 0 .. n + 1 |-> IF k = n + 1 THEN f[n] + e.size ELSE f[k]]
  <2>3. f[0] = 0 /\ \A k \in 1 .. n : f[k] = f[k - 1] + inputs[k].size
    BY <1>0, <2>2 DEF Sums
  <2>4. /\ g \in [0 .. n + 1 -> Nat] /\ g[n + 1] = f[n] + e.size
        /\ \A k \in 0 .. n : g[k] = f[k]
    BY <2>1, <2>2, <1>6
  <2> HIDE DEF g
  <2>5. g[0] = 0
    BY <2>3, <2>4, <1>6
  <2>6. ASSUME NEW k \in 1 .. n + 1 PROVE g[k] = g[k - 1] + inputs'[k].size
    <3>1. CASE k \in 1 .. n
      BY <3>1, <2>3, <2>4, <1>6
    <3>2. CASE k = n + 1
      <4>1. k - 1 = n /\ n \in 0 .. n
        BY <3>2, <1>6
      <4> QED BY <3>2, <4>1, <2>4, <1>6
    <3> QED BY <3>1, <3>2, <1>6
  <2>7. Sums(g, inputs')
    BY <1>5, <2>4, <2>5, <2>6 DEF Sums
  <2>8. f[n] \in Nat /\ MaxTotalBytes \in Nat
    BY <2>2, <1>6, PageAssumption
  <2>9. g[n + 1] + remaining' <= MaxTotalBytes
    BY <1>22, <2>1, <2>2, <2>4, <2>8
  <2> QED BY <1>5, <2>1, <2>4, <2>7, <2>9 DEF WithinBytes
<1>17. InputsExactlyOnce' /\ GapsRecorded' /\ progress' \in Stages
       /\ (progress' \in {"checking", "captured"} /\ ~hopped' => early' \subseteq Range(started'))
  BY <1>24 DEF InputsExactlyOnce, GapsRecorded, Stages
<1>18. Kept'
  BY <1>5, <1>7, <1>13, <1>14, <1>15, <1>16, <1>17 DEF Kept
<1>19. (EventBooks /\ Kept => CaptureInv)'
  BY InvFromParts, PTL
<1> QED BY <1>2, <1>18, <1>19

\* What an input records.
LEMMA InputFields ==
  ASSUME NEW r \in PageRequests, NEW n \in Nat, NEW cut \in BOOLEAN, NEW reason \in Reasons
  PROVE  /\ Input(r, n, cut, reason) \in Entries
         /\ Input(r, n, cut, reason).of = r /\ Input(r, n, cut, reason).size = n
         /\ Input(r, n, cut, reason).skip = reason
BY DEF Input, Entries

\* The fields of the next candidate.
LEMMA NextCandidate ==
  ASSUME CaptureInv, progress = "collecting", todo # <<>>
  PROVE  /\ Head(todo) \in Responses /\ Head(todo).of \in PageRequests
         /\ Head(todo).skip \in Reasons /\ Head(todo).captureBody \in BOOLEAN
<1>1. todo \in Seq(Responses)
  BY PartsFromInv DEF Kept
<1>2. Head(todo) \in Responses
  BY <1>1, Dropping
<1> QED BY <1>2 DEF Responses

\* Why an input has no body.
GapReasons == Reasons \ {""}

\* An input without a body.
LEMMA GapAdded ==
  ASSUME CaptureInv, UNCHANGED events, progress = "collecting", progress' = progress, todo # <<>>,
         remaining' = remaining, NEW reason \in GapReasons,
         Collected(Input(Head(todo).of, 0, FALSE, reason))
  PROVE  CaptureInv'
<1> DEFINE e == Input(Head(todo).of, 0, FALSE, reason)
<1>1. Head(todo).of \in PageRequests
  BY NextCandidate
<1>2. reason \in Reasons /\ reason # ""
  BY DEF GapReasons
<1>3. e \in Entries
  BY <1>1, <1>2, InputFields
<1>4. e.of = Head(todo).of /\ e.size = 0 /\ e.skip = reason
  <2>1. PICK q \in PageRequests : q = Head(todo).of
    BY <1>1
  <2>2. e = Input(q, 0, FALSE, reason)
    BY <2>1
  <2>3. /\ Input(q, 0, FALSE, reason).of = q /\ Input(q, 0, FALSE, reason).size = 0
        /\ Input(q, 0, FALSE, reason).skip = reason
    BY ONLY TRUE DEF Input
  <2> HIDE DEF e
  <2> QED BY ONLY <2>1, <2>2, <2>3
<1> HIDE DEF e
<1>5. e.skip # ""
  BY <1>2, <1>4
<1>6. remaining \in Nat /\ 0 \in Nat
  BY PartsFromInv DEF Kept, WithinBytes
<1>7. e.size <= remaining /\ remaining' = remaining - e.size /\ e.size <= MaxResourceBytes /\ ~(e.size > 0)
  <2>1. remaining' = remaining /\ e.size = 0 /\ remaining \in Nat /\ MaxResourceBytes \in Nat
    BY <1>4, <1>6, PageAssumption
  <2> QED BY <2>1
<1>8. Collected(e)
  BY DEF e
<1>9. Addition(e)
  BY <1>3, <1>4, <1>5, <1>7, <1>8 DEF Addition
<1> QED BY <1>9, CollectedKeeps

\* A candidate that needs no wait.
LEMMA SkipCandidate_Keeps == ASSUME CaptureInv, SkipCandidate PROVE CaptureInv'
<1> DEFINE c == Head(todo)
           reason == IF c.skip # "" THEN c.skip
                     ELSE IF ~c.captureBody THEN "RESOURCE_BODY_COUNT_LIMIT"
                     ELSE "CAPTURE_BYTE_BUDGET_EXCEEDED"
<1>1. /\ progress = "collecting" /\ todo # <<>> /\ progress' = progress /\ remaining' = remaining
      /\ UNCHANGED events
  BY DEF SkipCandidate
<1>2. Collected(Input(Head(todo).of, 0, FALSE, reason))
  BY DEF SkipCandidate
<1>3. c.skip \in Reasons
  BY <1>1, NextCandidate
<1> HIDE DEF c
<1>4. reason \in GapReasons
  BY <1>3 DEF Reasons, GapReasons
<1> HIDE DEF reason
<1> QED BY <1>1, <1>2, <1>4, GapAdded

\* A wait without a body.
LEMMA NoBody_Keeps ==
  ASSUME CaptureInv, NEW reason \in {"RESOURCE_TIMEOUT", "BODY_UNAVAILABLE"}, NoBody(reason)
  PROVE  CaptureInv'
<1>1. /\ progress = "collecting" /\ todo # <<>> /\ progress' = progress /\ remaining' = remaining
      /\ UNCHANGED events
  BY DEF NoBody, Waits
<1>2. Collected(Input(Head(todo).of, 0, FALSE, reason))
  BY DEF NoBody
<1>3. reason \in GapReasons
  BY DEF Reasons, GapReasons
<1> QED BY <1>1, <1>2, <1>3, GapAdded

\* The bytes kept are the least of the three.
LEMMA AllowedLeast ==
  ASSUME NEW size \in Nat, remaining \in Nat
  PROVE  /\ Allowed(size) \in {size, MaxResourceBytes, remaining} /\ Allowed(size) \in Nat
         /\ Allowed(size) <= size /\ Allowed(size) <= MaxResourceBytes /\ Allowed(size) <= remaining
<1>1. MaxResourceBytes \in Nat
  BY PageAssumption
<1>2. \E n \in {size, MaxResourceBytes, remaining} :
         n <= size /\ n <= MaxResourceBytes /\ n <= remaining
  BY <1>1
<1>3. /\ Allowed(size) \in {size, MaxResourceBytes, remaining}
      /\ Allowed(size) <= size /\ Allowed(size) <= MaxResourceBytes /\ Allowed(size) <= remaining
  BY <1>2 DEF Allowed
<1> QED BY <1>1, <1>3

\* A body is kept, cut to what is left.
LEMMA TakeBody_Keeps == ASSUME CaptureInv, NEW size \in Sizes, TakeBody(size) PROVE CaptureInv'
<1>1. /\ progress = "collecting" /\ todo # <<>> /\ progress' = progress
      /\ UNCHANGED events /\ Head(todo).captureBody /\ request[Head(todo).of] = "finished"
      /\ remaining > 0 /\ remaining' = remaining - Allowed(size)
  BY DEF TakeBody, Waits
<1>2. size \in Nat /\ MaxResourceBytes \in Nat \ {0}
  BY PageAssumption
<1>3. remaining \in Nat
  BY PartsFromInv DEF Kept, WithinBytes
<1>4. /\ Allowed(size) \in {size, MaxResourceBytes, remaining} /\ Allowed(size) \in Nat
      /\ Allowed(size) <= size /\ Allowed(size) <= MaxResourceBytes /\ Allowed(size) <= remaining
  BY <1>2, <1>3, AllowedLeast
<1>5. CASE size = 0
  <2>1. Allowed(size) = 0
    BY <1>4, <1>5
  <2>2. Collected(Input(Head(todo).of, 0, FALSE, "EMPTY_BODY"))
    BY <1>5 DEF TakeBody
  <2>3. "EMPTY_BODY" \in GapReasons
    BY DEF Reasons, GapReasons
  <2>4. remaining' = remaining
    BY <1>1, <1>3, <2>1
  <2> QED BY <1>1, <2>2, <2>3, <2>4, GapAdded
<1>6. CASE size # 0
  <2> DEFINE e == Input(Head(todo).of, Allowed(size), size > Allowed(size), "")
  <2>1. Collected(e)
    BY <1>6 DEF TakeBody
  <2>3. Head(todo).of \in PageRequests
    BY <1>1, NextCandidate
  <2>4. (size > Allowed(size)) \in BOOLEAN /\ "" \in Reasons
    BY DEF Reasons
  <2>5. e \in Entries
    BY <1>4, <2>3, <2>4, InputFields
  <2>6. e.of = Head(todo).of /\ e.size = Allowed(size) /\ e.skip = ""
    <3>1. PICK q \in PageRequests, a \in Nat, b \in BOOLEAN :
            q = Head(todo).of /\ a = Allowed(size) /\ b = (size > Allowed(size))
      BY <1>4, <2>3, <2>4
    <3>2. e = Input(q, a, b, "")
      BY <3>1
    <3>3. Input(q, a, b, "").of = q /\ Input(q, a, b, "").size = a /\ Input(q, a, b, "").skip = ""
      BY ONLY TRUE DEF Input
    <3> HIDE DEF e
    <3> QED BY ONLY <3>1, <3>2, <3>3
  <2> HIDE DEF e
  <2>7. Allowed(size) > 0
    BY <1>1, <1>2, <1>3, <1>4, <1>6
  <2>8. e.size <= remaining /\ remaining' = remaining - e.size /\ e.size <= MaxResourceBytes /\ e.size > 0
    BY <1>1, <1>4, <2>6, <2>7
  <2>9. e.size > 0 => Head(todo).captureBody /\ request[e.of] = "finished"
    BY <1>1, <2>6
  <2>10. (e.size > 0) <=> (e.skip = "")
    BY <2>6, <2>8
  <2>11. e.of = Head(todo).of
    BY <2>6
  <2>12. progress = "collecting" /\ todo # <<>> /\ progress' = progress /\ UNCHANGED events
    BY <1>1
  <2>13. Addition(e)
    BY ONLY <2>1, <2>5, <2>8, <2>9, <2>10, <2>11, <2>12 DEF Addition
  <2> QED BY <2>13, CollectedKeeps
<1> QED BY <1>5, <1>6

\* A capture that fails.
LEMMA Throw_Keeps == ASSUME CaptureInv, Throw PROVE CaptureInv'
<1>1. EventBooks /\ Kept
  BY PartsFromInv
<1>2. progress \in {"loading", "collecting", "checking"} /\ progress' = "thrown"
      /\ UNCHANGED <<todo, remaining, inputs>> /\ UNCHANGED events
  BY DEF Throw, Running
<1>3. UNCHANGED <<request, candidates, early, hopped, started>>
  BY <1>2 DEF events
<1>4. EventBooks'
  BY <1>1, <1>2, BooksKept
<1>5. Collecting'
  BY <1>1, <1>2, <1>3 DEF Kept, Collecting
<1>6. WithinBytes'
  BY <1>1, <1>2 DEF Kept, WithinBytes, Sums
<1>7. BodiesAreWhole'
  BY <1>1, <1>2, <1>3 DEF Kept, BodiesAreWhole
<1>8. InputsExactlyOnce' /\ GapsRecorded'
  BY <1>2 DEF InputsExactlyOnce, GapsRecorded
<1>9. Kept'
  BY <1>1, <1>2, <1>5, <1>6, <1>7, <1>8 DEF Kept, Stages
<1>10. (EventBooks /\ Kept => CaptureInv)'
  BY InvFromParts, PTL
<1> QED BY <1>4, <1>9, <1>10

\* A capture within its budgets has tracked all that was asked for.
LEMMA CheckBudgets_Keeps == ASSUME CaptureInv, CheckBudgets PROVE CaptureInv'
<1>1. EventBooks /\ Kept
  BY PartsFromInv
<1>2. progress = "collecting" /\ todo = <<>>
      /\ progress' = (IF admitted > MaxNetworkRequests \/ transfer > MaxTotalBytes
                      THEN "thrown" ELSE "checking")
      /\ UNCHANGED <<todo, remaining, inputs>> /\ UNCHANGED events
  BY DEF CheckBudgets
<1>3. UNCHANGED <<request, candidates, early, hopped, started>>
  BY <1>2 DEF events
<1>4. EventBooks'
  BY <1>1, <1>2, BooksKept
<1>5. progress' \in {"thrown", "checking"}
  BY <1>2
<1>6. Collecting'
  BY <1>1, <1>2, <1>3, <1>5 DEF Kept, Collecting
<1>7. WithinBytes'
  BY <1>1, <1>2 DEF Kept, WithinBytes, Sums
<1>8. BodiesAreWhole'
  BY <1>1, <1>2, <1>3 DEF Kept, BodiesAreWhole
<1>9. InputsExactlyOnce' /\ GapsRecorded'
  BY <1>5 DEF InputsExactlyOnce, GapsRecorded
<1>10. progress' \in {"checking", "captured"} /\ ~hopped' => early' \subseteq Range(started')
  <2> SUFFICES ASSUME progress' = "checking", ~hopped PROVE early \subseteq Range(started)
    BY <1>3, <1>5
  <2>1. ~(admitted > MaxNetworkRequests)
    BY <1>2
  <2>2. \A r \in PageRequests : request[r] # "none" => Tracked(r)
    BY <1>1, <2>1 DEF EventBooks, Counted
  <2>3. early \subseteq PageRequests /\ \A r \in early : request[r] # "none"
    BY <1>1 DEF EventBooks, Counted, EventTypes
  <2> QED BY <2>2, <2>3 DEF Tracked
<1>11. progress' \in Stages
  BY <1>5 DEF Stages
<1>12. Kept'
  BY <1>1, <1>2, <1>6, <1>7, <1>8, <1>9, <1>10, <1>11 DEF Kept
<1>13. (EventBooks /\ Kept => CaptureInv)'
  BY InvFromParts, PTL
<1> QED BY <1>4, <1>12, <1>13

\* The collection begins with a copy of the candidates.
LEMMA Snapshot_Keeps == ASSUME CaptureInv, NEW bytes \in PageSizes, Snapshot(bytes) PROVE CaptureInv'
<1>1. EventBooks /\ Kept
  BY PartsFromInv
<1>2. /\ progress = "loading" /\ UNCHANGED inputs /\ UNCHANGED events
      /\ \/ progress' = "thrown" /\ UNCHANGED <<todo, remaining>>
         \/ /\ ~(bytes > MaxTotalBytes) /\ progress' = "collecting"
            /\ todo' = candidates /\ remaining' = MaxTotalBytes - bytes
  BY DEF Snapshot
<1>3. UNCHANGED <<request, candidates, early, hopped, started>>
  BY <1>2 DEF events
<1>4. EventBooks'
  BY <1>1, <1>2, BooksKept
<1>5. inputs = <<>> /\ todo = <<>> /\ Len(inputs) = 0 /\ DOMAIN inputs = {}
  BY <1>1, <1>2 DEF Kept, Collecting
<1>6. candidates \in Seq(Responses) /\ DOMAIN candidates = 1 .. Len(candidates) /\ Len(candidates) \in Nat
  BY <1>1 DEF EventBooks, EventTypes
<1>7. Collecting'
  <2>1. CASE progress' = "thrown" /\ UNCHANGED <<todo, remaining>>
    BY <2>1, <1>2, <1>5 DEF Collecting
  <2>2. CASE progress' = "collecting" /\ todo' = candidates
    <3>1. Len(inputs') + Len(todo') <= Len(candidates')
      BY <2>2, <1>2, <1>3, <1>5, <1>6
    <3>2. \A k \in DOMAIN todo' : todo'[k] = candidates'[Len(inputs') + k]
      BY <2>2, <1>2, <1>3, <1>5, <1>6
    <3>3. DOMAIN inputs' = {}
      BY <1>2, <1>5
    <3> QED BY <2>2, <3>1, <3>2, <3>3 DEF Collecting
  <2> QED BY <1>2, <2>1, <2>2
<1>8. WithinBytes'
  <2>1. PICK f \in [0 .. Len(inputs) -> Nat] : Sums(f, inputs) /\ f[Len(inputs)] + remaining <= MaxTotalBytes
    BY <1>1 DEF Kept, WithinBytes
  <2>2. f[Len(inputs)] = 0 /\ remaining \in Nat
    BY <1>1, <1>5, <2>1 DEF Sums, Kept, WithinBytes
  <2>3. bytes \in Nat /\ MaxTotalBytes \in Nat
    BY PageAssumption
  <2>4. remaining' \in Nat /\ remaining' <= MaxTotalBytes
    BY <1>2, <2>1, <2>2, <2>3
  <2>5. inputs' = inputs /\ f[Len(inputs)] + remaining' <= MaxTotalBytes
    BY <1>2, <2>2, <2>4
  <2> QED BY <2>1, <2>4, <2>5 DEF WithinBytes
<1>9. InputsExactlyOnce' /\ GapsRecorded' /\ progress' \in Stages /\ todo' \in Seq(Responses)
  BY <1>1, <1>2, <1>6 DEF InputsExactlyOnce, GapsRecorded, Stages, Kept
<1>10. BodiesAreWhole'
  BY <1>2, <1>5 DEF BodiesAreWhole
<1>11. ~(progress' \in {"checking", "captured"})
  BY <1>2
<1>12. Kept'
  BY <1>1, <1>2, <1>5, <1>7, <1>8, <1>9, <1>10, <1>11 DEF Kept
<1>13. (EventBooks /\ Kept => CaptureInv)'
  BY InvFromParts, PTL
<1> QED BY <1>4, <1>12, <1>13

\* What the tables say the inputs of an assembled clone are: those collected, a gap
\* for each failure, and a gap for each of what is missing.
Assembly(n, m, k) ==
    /\ inputs' \in Seq(Entries) /\ Len(inputs') = n + m + k /\ DOMAIN inputs' = 1 .. n + m + k
    /\ \A i \in 1 .. n : inputs'[i] = inputs[i]
    /\ \A j \in 1 .. m : /\ inputs'[n + j].of = failedInputs[j] /\ inputs'[n + j].size = 0
                         /\ inputs'[n + j].skip # ""
    /\ \A j \in 1 .. k : /\ inputs'[n + m + j].of = Missing[j] /\ inputs'[n + m + j].size = 0
                         /\ inputs'[n + m + j].skip # ""

\* What a gap records.
LEMMA GapFields ==
  ASSUME NEW r \in PageRequests, NEW reason \in GapReasons
  PROVE  /\ Input(r, 0, FALSE, reason) \in Entries
         /\ Input(r, 0, FALSE, reason).of = r /\ Input(r, 0, FALSE, reason).size = 0
         /\ Input(r, 0, FALSE, reason).skip # ""
<1>1. reason \in Reasons /\ reason # ""
  BY DEF GapReasons
<1>2. Input(r, 0, FALSE, reason) \in Entries
  BY <1>1, InputFields
<1>3. /\ Input(r, 0, FALSE, reason).of = r /\ Input(r, 0, FALSE, reason).size = 0
      /\ Input(r, 0, FALSE, reason).skip = reason
  BY ONLY TRUE DEF Input
<1> QED BY <1>1, <1>2, <1>3

\* The tracked requests nothing accounts for, once each.
LEMMA MissingOnce ==
  ASSUME CaptureInv
  PROVE  /\ Missing \in Seq(PageRequests)
         /\ Range(Missing) = {r \in Range(started) : r \in BodyTyped \ Known}
         /\ \A i, j \in DOMAIN Missing : Missing[i] = Missing[j] => i = j
<1> DEFINE M == {r \in Range(started) : r \in BodyTyped \ Known}
<1>1. started \in Seq(PageRequests)
  BY PartsFromInv DEF EventBooks, EventTypes
<1>2. Range(started) \subseteq PageRequests
  BY <1>1 DEF Range
<1>3. IsFiniteSet(Range(started))
  <2>1. DOMAIN started = 1 .. Len(started) /\ Len(started) \in Nat
    BY <1>1
  <2>2. IsFiniteSet(DOMAIN started)
    BY <2>1, IntervalCounted
  <2>3. started \in Surjection(DOMAIN started, Range(started))
    BY <1>1, <2>1 DEF Surjection, Range
  <2> QED BY <2>2, <2>3, FS_Surjection
<1>4. IsFiniteSet(M) /\ M \subseteq PageRequests
  BY <1>2, <1>3, FS_Subset
<1>5. Missing = SetToSeq(M)
  BY DEF Missing
<1> HIDE DEF M
<1>6. /\ SetToSeq(M) \in Seq(M) /\ Range(SetToSeq(M)) = M
      /\ \A i, j \in DOMAIN SetToSeq(M) : SetToSeq(M)[i] = SetToSeq(M)[j] => i = j
  BY <1>4, ListedOnce
<1>7. SetToSeq(M) \in Seq(PageRequests)
  BY <1>4, <1>6
<1> QED BY <1>5, <1>6, <1>7 DEF M

\* The inputs, one list after the other.
LEMMA AssembleLists ==
  ASSUME CaptureInv, Assemble
  PROVE  \E n, m, k \in Nat :
            /\ n = Len(inputs) /\ m = Len(failedInputs) /\ k = Len(Missing)
            /\ DOMAIN inputs = 1 .. n /\ DOMAIN failedInputs = 1 .. m /\ DOMAIN Missing = 1 .. k
            /\ Assembly(n, m, k)
<1>1. inputs \in Seq(Entries) /\ failedInputs \in Seq(PageRequests) /\ Missing \in Seq(PageRequests)
  BY PartsFromInv, MissingOnce DEF Kept, EventBooks, EventTypes
<1>2. PICK n \in Nat, m \in Nat, k \in Nat :
         /\ n = Len(inputs) /\ m = Len(failedInputs) /\ k = Len(Missing)
         /\ DOMAIN inputs = 1 .. n /\ DOMAIN failedInputs = 1 .. m /\ DOMAIN Missing = 1 .. k
         /\ \A j \in 1 .. m : failedInputs[j] \in PageRequests
         /\ \A j \in 1 .. k : Missing[j] \in PageRequests
  BY <1>1
<1> DEFINE whyMissing(j) == IF Settled(Missing[j]) THEN "BODY_UNAVAILABLE" ELSE "RESOURCE_TIMEOUT"
           A == [i \in DOMAIN failedInputs |-> Input(failedInputs[i], 0, FALSE, "REQUEST_FAILED")]
           B == [i \in DOMAIN Missing |-> Input(Missing[i], 0, FALSE, whyMissing(i))]
<1>3. inputs' = (inputs \o A) \o B
  BY DEF Assemble
<1>4. "REQUEST_FAILED" \in GapReasons /\ \A j : whyMissing(j) \in GapReasons
  BY DEF GapReasons, Reasons
<1>5. ASSUME NEW j \in 1 .. m
      PROVE  A[j] \in Entries /\ A[j].of = failedInputs[j] /\ A[j].size = 0 /\ A[j].skip # ""
  <2>1. PICK q \in PageRequests, why \in GapReasons : q = failedInputs[j] /\ why = "REQUEST_FAILED"
    BY <1>2, <1>4
  <2>2. A[j] = Input(q, 0, FALSE, why)
    BY <1>2, <2>1
  <2>3. /\ Input(q, 0, FALSE, why) \in Entries
        /\ Input(q, 0, FALSE, why).of = q /\ Input(q, 0, FALSE, why).size = 0
        /\ Input(q, 0, FALSE, why).skip # ""
    BY GapFields
  <2>4. q = failedInputs[j]
    BY <2>1
  <2> HIDE DEF A
  <2> QED BY ONLY <2>2, <2>3, <2>4
<1>6. ASSUME NEW j \in 1 .. k
      PROVE  B[j] \in Entries /\ B[j].of = Missing[j] /\ B[j].size = 0 /\ B[j].skip # ""
  <2>1. PICK q \in PageRequests, why \in GapReasons : q = Missing[j] /\ why = whyMissing(j)
    BY <1>2, <1>4
  <2>2. B[j] = Input(q, 0, FALSE, why)
    BY <1>2, <2>1
  <2>3. /\ Input(q, 0, FALSE, why) \in Entries
        /\ Input(q, 0, FALSE, why).of = q /\ Input(q, 0, FALSE, why).size = 0
        /\ Input(q, 0, FALSE, why).skip # ""
    BY GapFields
  <2>4. q = Missing[j]
    BY <2>1
  <2> HIDE DEF B, whyMissing
  <2> QED BY ONLY <2>2, <2>3, <2>4
<1>7. A \in [1 .. m -> Entries] /\ B \in [1 .. k -> Entries]
  BY <1>2, <1>5, <1>6
<1> HIDE DEF A, B
<1>8. A \in Seq(Entries) /\ Len(A) = m /\ B \in Seq(Entries) /\ Len(B) = k
  BY <1>7, Listing
<1>9. /\ inputs \o A \in Seq(Entries) /\ Len(inputs \o A) = n + m
      /\ \A i \in 1 .. n : (inputs \o A)[i] = inputs[i]
      /\ \A j \in 1 .. m : (inputs \o A)[n + j] = A[j]
  <2>1. /\ inputs \o A \in Seq(Entries) /\ Len(inputs \o A) = Len(inputs) + Len(A)
        /\ \A i \in 1 .. Len(inputs) : (inputs \o A)[i] = inputs[i]
        /\ \A i \in 1 .. Len(A) : (inputs \o A)[Len(inputs) + i] = A[i]
    <3>1. PICK a \in Seq(Entries), b \in Seq(Entries) : a = inputs /\ b = A
      BY <1>1, <1>8
    <3>2. a \o b \in Seq(Entries) /\ Len(a \o b) = Len(a) + Len(b)
      BY ONLY <3>1, Joining
    <3>3. \A i \in 1 .. Len(a) : (a \o b)[i] = a[i]
      BY ONLY <3>1, Joining
    <3>4. \A i \in 1 .. Len(b) : (a \o b)[Len(a) + i] = b[i]
      BY ONLY <3>1, Joining
    <3> QED BY ONLY <3>1, <3>2, <3>3, <3>4, Zenon
  <2>2. n = Len(inputs) /\ m = Len(A)
    BY <1>2, <1>8
  <2> QED BY ONLY <2>1, <2>2
<1>14. PICK s \in Seq(Entries) : s = inputs \o A
  BY <1>9
<1>10. /\ inputs' \in Seq(Entries) /\ Len(inputs') = n + m + k /\ DOMAIN inputs' = 1 .. n + m + k
       /\ \A i \in 1 .. n + m : inputs'[i] = (inputs \o A)[i]
       /\ \A j \in 1 .. k : inputs'[n + m + j] = B[j]
  <2>1. /\ s \o B \in Seq(Entries) /\ Len(s \o B) = Len(s) + Len(B)
        /\ DOMAIN (s \o B) = 1 .. Len(s) + Len(B)
        /\ \A i \in 1 .. Len(s) : (s \o B)[i] = s[i]
        /\ \A i \in 1 .. Len(B) : (s \o B)[Len(s) + i] = B[i]
    <3>1. PICK b \in Seq(Entries) : b = B
      BY <1>8
    <3>2. s \o b \in Seq(Entries) /\ Len(s \o b) = Len(s) + Len(b)
      BY ONLY <3>1, Joining
    <3>3. \A i \in 1 .. Len(s) : (s \o b)[i] = s[i]
      BY ONLY <3>1, Joining
    <3>4. \A i \in 1 .. Len(b) : (s \o b)[Len(s) + i] = b[i]
      BY ONLY <3>1, Joining
    <3>5. DOMAIN (s \o b) = 1 .. Len(s) + Len(b)
      BY ONLY <3>1, Joining
    <3> QED BY ONLY <3>1, <3>2, <3>3, <3>4, <3>5, Zenon
  <2>2. n + m = Len(s) /\ k = Len(B) /\ inputs' = s \o B /\ s = inputs \o A
    BY <1>3, <1>8, <1>9, <1>14
  <2> QED BY ONLY <2>1, <2>2
<1>11. \A i \in 1 .. n : i \in 1 .. n + m
  OBVIOUS
<1>12. \A j \in 1 .. m : n + j \in 1 .. n + m
  OBVIOUS
<1>15. \A i \in 1 .. n : inputs'[i] = inputs[i]
  BY <1>9, <1>10, <1>11
<1>16. ASSUME NEW j \in 1 .. m
       PROVE  inputs'[n + j].of = failedInputs[j] /\ inputs'[n + j].size = 0 /\ inputs'[n + j].skip # ""
  <2>1. inputs'[n + j] = A[j]
    BY <1>9, <1>10, <1>12
  <2> QED BY ONLY <2>1, <1>5
<1>17. ASSUME NEW j \in 1 .. k
       PROVE  /\ inputs'[n + m + j].of = Missing[j] /\ inputs'[n + m + j].size = 0
              /\ inputs'[n + m + j].skip # ""
  BY ONLY <1>6, <1>10
<1>13. Assembly(n, m, k)
  BY ONLY <1>10, <1>15, <1>16, <1>17 DEF Assembly
<1> QED BY <1>2, <1>13

\* An assembled clone has each tracked request that may have a body once.
LEMMA AssembledOnce ==
  ASSUME CaptureInv, progress = "checking", NEW n \in Nat, NEW m \in Nat, NEW k \in Nat,
         DOMAIN inputs = 1 .. n, DOMAIN failedInputs = 1 .. m, DOMAIN Missing = 1 .. k,
         Assembly(n, m, k)
  PROVE  /\ {inputs'[i].of : i \in 1 .. n + m + k} = Range(started) \cap BodyTyped
         /\ \A i, j \in 1 .. n + m + k : inputs'[i].of = inputs'[j].of => i = j
         /\ \A i \in 1 .. n + m + k :
               i \in 1 .. n \/ (i \notin 1 .. n /\ inputs'[i].size = 0 /\ inputs'[i].skip # "")
<1> DEFINE T == Range(started) \cap BodyTyped
           U == {inputs[i].of : i \in 1 .. n}
           V == {failedInputs[j] : j \in 1 .. m}
           W == {Missing[j] : j \in 1 .. k}
           of(i) == inputs'[i].of
<1>1. /\ \A i \in 1 .. n : i \in DOMAIN candidates /\ inputs[i].of = candidates[i].of
      /\ \A i \in DOMAIN candidates : candidates[i].of \in T
      /\ \A i, j \in DOMAIN candidates : candidates[i].of = candidates[j].of => i = j
      /\ \A j \in 1 .. m : failedInputs[j] \in T /\ ~Candidate(failedInputs[j])
      /\ \A i, j \in 1 .. m : failedInputs[i] = failedInputs[j] => i = j
  <2>1. Collecting /\ CaptureTables
    BY DEF CaptureInv
  <2>2. \A i \in 1 .. n : i \in DOMAIN candidates /\ inputs[i].of = candidates[i].of
    BY <2>1 DEF Collecting
  <2> QED BY <2>1, <2>2 DEF CaptureTables
<1>2. U \subseteq T /\ \A i, j \in 1 .. n : inputs[i].of = inputs[j].of => i = j
  BY <1>1
<1>3. V \subseteq T /\ U \cap V = {}
  BY <1>1 DEF Candidate
<1>4. /\ W = {r \in Range(started) : r \in BodyTyped \ Known}
      /\ \A i, j \in 1 .. k : Missing[i] = Missing[j] => i = j
  BY MissingOnce DEF Range
<1>5. Known = U \cup V
  BY DEF Known, Range
<1>6. T = U \cup V \cup W /\ W \cap (U \cup V) = {}
  BY <1>2, <1>3, <1>4, <1>5
<1>7. /\ \A i \in 1 .. n : of(i) = inputs[i].of
      /\ \A j \in 1 .. m : /\ of(n + j) = failedInputs[j]
                           /\ inputs'[n + j].size = 0 /\ inputs'[n + j].skip # ""
      /\ \A j \in 1 .. k : /\ of(n + m + j) = Missing[j]
                           /\ inputs'[n + m + j].size = 0 /\ inputs'[n + m + j].skip # ""
  BY DEF Assembly
<1>8. ASSUME NEW i \in 1 .. n + m + k
      PROVE  i \in 1 .. n \/ (\E j \in 1 .. m : i = n + j) \/ (\E j \in 1 .. k : i = n + m + j)
  <2>1. i \in 1 .. n \/ i - n \in 1 .. m \/ i - n - m \in 1 .. k
    OBVIOUS
  <2>2. i = n + (i - n) /\ i = n + m + (i - n - m)
    OBVIOUS
  <2> QED BY <2>1, <2>2
<1>9. /\ \A i \in 1 .. n : i \in 1 .. n + m + k
      /\ \A j \in 1 .. m : n + j \in 1 .. n + m + k /\ n + j \notin 1 .. n
      /\ \A j \in 1 .. k : n + m + j \in 1 .. n + m + k /\ n + m + j \notin 1 .. n
  OBVIOUS
<1> HIDE DEF T, of
<1>10. ASSUME NEW i \in 1 .. n + m + k
       PROVE  \/ i \in 1 .. n /\ of(i) \in U /\ of(i) = inputs[i].of
              \/ /\ \E j \in 1 .. m : i = n + j /\ of(i) = failedInputs[j]
                 /\ of(i) \in V
              \/ /\ \E j \in 1 .. k : i = n + m + j /\ of(i) = Missing[j]
                 /\ of(i) \in W
  <2>1. CASE i \in 1 .. n
    BY <2>1, <1>7
  <2>2. ASSUME NEW j \in 1 .. m, i = n + j
        PROVE  of(i) = failedInputs[j] /\ of(i) \in V
    BY <2>2, <1>7
  <2>3. ASSUME NEW j \in 1 .. k, i = n + m + j
        PROVE  of(i) = Missing[j] /\ of(i) \in W
    BY <2>3, <1>7
  <2> QED BY <1>8, <2>1, <2>2, <2>3
<1>11. {of(i) : i \in 1 .. n + m + k} = T
  <2>1. \A i \in 1 .. n + m + k : of(i) \in T
    BY <1>6, <1>10
  <2>2. ASSUME NEW q \in U PROVE \E i \in 1 .. n + m + k : q = of(i)
    <3>1. PICK j \in 1 .. n : q = inputs[j].of
      OBVIOUS
    <3>2. j \in 1 .. n + m + k
      BY <3>1, <1>9
    <3>3. q = of(j)
      BY <3>1, <1>7
    <3> QED BY <3>2, <3>3
  <2>3. ASSUME NEW q \in V PROVE \E i \in 1 .. n + m + k : q = of(i)
    <3>1. PICK j \in 1 .. m : q = failedInputs[j]
      OBVIOUS
    <3>2. n + j \in 1 .. n + m + k
      BY <3>1, <1>9
    <3>3. q = of(n + j)
      BY <3>1, <1>7
    <3> QED BY <3>2, <3>3
  <2>4. ASSUME NEW q \in W PROVE \E i \in 1 .. n + m + k : q = of(i)
    <3>1. PICK j \in 1 .. k : q = Missing[j]
      OBVIOUS
    <3>2. n + m + j \in 1 .. n + m + k
      BY <3>1, <1>9
    <3>3. q = of(n + m + j)
      BY <3>1, <1>7
    <3> QED BY <3>2, <3>3
  <2> HIDE DEF U, V, W
  <2> QED BY <1>6, <2>1, <2>2, <2>3, <2>4
<1>12. ASSUME NEW i \in 1 .. n + m + k, NEW j \in 1 .. n + m + k, of(i) = of(j) PROVE i = j
  <2>0. U \cap V = {} /\ W \cap U = {} /\ W \cap V = {}
    BY <1>3, <1>6
  <2> HIDE DEF U, V, W
  <2>1. CASE of(i) \in U
    <3>1. /\ i \in 1 .. n /\ of(i) = inputs[i].of
          /\ j \in 1 .. n /\ of(j) = inputs[j].of
      BY <1>10, <1>12, <2>0, <2>1
    <3> QED BY <3>1, <1>2, <1>12
  <2>2. CASE of(i) \in V
    <3>1. /\ \E a \in 1 .. m : i = n + a /\ of(i) = failedInputs[a]
          /\ \E b \in 1 .. m : j = n + b /\ of(j) = failedInputs[b]
      BY <1>10, <1>12, <2>0, <2>2
    <3> QED BY <3>1, <1>1, <1>12
  <2>3. CASE of(i) \in W
    <3>1. /\ \E a \in 1 .. k : i = n + m + a /\ of(i) = Missing[a]
          /\ \E b \in 1 .. k : j = n + m + b /\ of(j) = Missing[b]
      BY <1>10, <1>12, <2>0, <2>3
    <3> QED BY <3>1, <1>4, <1>12
  <2> QED BY <1>10, <2>1, <2>2, <2>3
<1>13. ASSUME NEW i \in 1 .. n + m + k
       PROVE  i \in 1 .. n \/ (i \notin 1 .. n /\ inputs'[i].size = 0 /\ inputs'[i].skip # "")
  <2>1. ASSUME NEW j \in 1 .. m, i = n + j
        PROVE  i \notin 1 .. n /\ inputs'[i].size = 0 /\ inputs'[i].skip # ""
    BY ONLY <2>1, <1>7, <1>9
  <2>2. ASSUME NEW j \in 1 .. k, i = n + m + j
        PROVE  i \notin 1 .. n /\ inputs'[i].size = 0 /\ inputs'[i].skip # ""
    BY ONLY <2>2, <1>7, <1>9
  <2> QED BY ONLY <1>8, <2>1, <2>2
<1> QED BY <1>11, <1>12, <1>13 DEF T, of

\* The clone is put together, each request once.
LEMMA Assemble_Keeps == ASSUME CaptureInv, Assemble PROVE CaptureInv'
<1>1. EventBooks /\ Kept
  BY PartsFromInv
<1>2. progress = "checking" /\ progress' = "captured" /\ UNCHANGED <<todo, remaining>> /\ UNCHANGED events
  BY DEF Assemble
<1>3. UNCHANGED <<request, candidates, early, hopped, started>>
  BY <1>2 DEF events
<1>4. EventBooks'
  BY <1>1, <1>2, BooksKept
<1>5. PICK n \in Nat, m \in Nat, k \in Nat :
         /\ n = Len(inputs) /\ m = Len(failedInputs) /\ k = Len(Missing)
         /\ DOMAIN inputs = 1 .. n /\ DOMAIN failedInputs = 1 .. m /\ DOMAIN Missing = 1 .. k
         /\ Assembly(n, m, k)
  BY AssembleLists
<1>6. PICK l \in Nat : l = n + m + k
  OBVIOUS
<1>7. /\ inputs' \in Seq(Entries) /\ Len(inputs') = l /\ DOMAIN inputs' = 1 .. l
      /\ \A i \in 1 .. n : inputs'[i] = inputs[i]
  BY <1>5, <1>6 DEF Assembly
<1>8. /\ {inputs'[i].of : i \in 1 .. l} = Range(started) \cap BodyTyped
      /\ \A i, j \in 1 .. l : inputs'[i].of = inputs'[j].of => i = j
      /\ \A i \in 1 .. l : i \in 1 .. n \/ (i \notin 1 .. n /\ inputs'[i].size = 0 /\ inputs'[i].skip # "")
  <2>1. /\ {inputs'[i].of : i \in 1 .. n + m + k} = Range(started) \cap BodyTyped
        /\ \A i, j \in 1 .. n + m + k : inputs'[i].of = inputs'[j].of => i = j
        /\ \A i \in 1 .. n + m + k :
              i \in 1 .. n \/ (i \notin 1 .. n /\ inputs'[i].size = 0 /\ inputs'[i].skip # "")
    BY ONLY CaptureInv, <1>2, <1>5, AssembledOnce, ZenonT(60)
  <2> QED BY ONLY <1>6, <2>1, Zenon
<1>9. \A i \in 1 .. n : i \in 1 .. l
  BY <1>6
<1>10. InputsExactlyOnce'
  <2> DEFINE of == [i \in 1 .. l |-> inputs'[i].of]
             O == {inputs'[i].of : i \in 1 .. l}
  <2>1. of \in [1 .. l -> O] /\ IsInjective(of) /\ \A q \in O : \E i \in 1 .. l : of[i] = q
    BY <1>8 DEF IsInjective
  <2>2. of \in Bijection(1 .. l, O)
    BY <2>1 DEF Bijection, Injection, Surjection
  <2>3. IsFiniteSet(1 .. l) /\ Cardinality(1 .. l) = l
    BY IntervalCounted
  <2> HIDE DEF of, O
  <2>4. Cardinality(O) = l
    BY ONLY <2>2, <2>3, FS_Bijection DEF ExistsBijection
  <2>5. Len(inputs') = Cardinality({inputs'[i].of : i \in DOMAIN inputs'})
    BY <1>7, <2>4 DEF O
  <2>6. {inputs'[i].of : i \in DOMAIN inputs'} = Range(started') \cap BodyTyped
    BY <1>3, <1>7, <1>8
  <2> QED BY <2>5, <2>6 DEF InputsExactlyOnce
<1>11. ~hopped => early \subseteq Range(started)
  BY <1>1, <1>2 DEF Kept
<1>12. GapsRecorded'
  <2>1. {inputs'[i].of : i \in DOMAIN inputs'} = Range(started) \cap BodyTyped
    BY <1>7, <1>8
  <2> QED BY <1>3, <1>11, <2>1 DEF GapsRecorded
<1>13. \A i \in 1 .. l : inputs'[i].size > 0 => i \in 1 .. n
  <2>1. \A i \in 1 .. l : i \in 1 .. n \/ inputs'[i].size = 0
    BY ONLY <1>8, Zenon
  <2> QED BY ONLY <2>1
<1>14. BodiesAreWhole'
  <2>1. \A i \in 1 .. n :
           /\ (inputs[i].size > 0) <=> (inputs[i].skip = "")
           /\ inputs[i].size > 0 => request[inputs[i].of] = "finished"
    BY <1>1, <1>5 DEF Kept, BodiesAreWhole
  <2>2. ASSUME NEW i \in 1 .. l
        PROVE  /\ (inputs'[i].size > 0) <=> (inputs'[i].skip = "")
               /\ inputs'[i].size > 0 => request'[inputs'[i].of] = "finished"
    <3>1. CASE i \in 1 .. n
      BY <1>3, <1>7, <2>1, <3>1
    <3>2. CASE inputs'[i].size = 0 /\ inputs'[i].skip # ""
      <4>1. PICK size : size = inputs'[i].size
        OBVIOUS
      <4>2. size = 0
        BY ONLY <3>2, <4>1, Zenon
      <4>3. ~(size > 0)
        BY ONLY <4>2
      <4> QED BY ONLY <3>2, <4>1, <4>3, Zenon
    <3> QED BY <1>8, <3>1, <3>2
  <2> QED BY <1>7, <2>2 DEF BodiesAreWhole
<1>15. \A i \in DOMAIN inputs' : inputs'[i].size <= MaxResourceBytes
  <2>1. \A i \in 1 .. n : inputs[i].size <= MaxResourceBytes
    BY <1>1, <1>5 DEF Kept
  <2>2. MaxResourceBytes \in Nat
    BY PageAssumption
  <2>3. ASSUME NEW i \in 1 .. l PROVE inputs'[i].size <= MaxResourceBytes
    <3>1. CASE i \in 1 .. n
      BY <1>7, <2>1, <3>1
    <3>2. CASE inputs'[i].size = 0
      BY <2>2, <3>2
    <3> QED BY <1>8, <3>1, <3>2
  <2> QED BY <1>7, <2>3
<1>16. Collecting'
  <2>1. \A i \in 1 .. n : inputs[i].size > 0 => i \in DOMAIN candidates /\ candidates[i].captureBody
    BY <1>1, <1>5 DEF Kept, Collecting
  <2>2. \A i \in 1 .. l : inputs'[i].size > 0 => i \in DOMAIN candidates' /\ candidates'[i].captureBody
    BY <1>3, <1>7, <1>13, <2>1
  <2> QED BY <1>2, <1>7, <2>2 DEF Collecting
<1>17. WithinBytes'
  <2>1. PICK f \in [0 .. n -> Nat] : Sums(f, inputs) /\ f[n] + remaining <= MaxTotalBytes
    BY <1>1, <1>5 DEF Kept, WithinBytes
  <2>2. f[0] = 0 /\ \A i \in 1 .. n : f[i] = f[i - 1] + inputs[i].size
    BY <1>5, <2>1 DEF Sums
  <2> DEFINE g == [i \in 0 .. l |-> IF i \in 0 .. n THEN f[i] ELSE f[n]]
  <2>3. /\ g \in [0 .. l -> Nat] /\ g[l] = f[n] /\ g[0] = 0
        /\ \A i \in 0 .. n : g[i] = f[i]
        /\ \A i \in 0 .. l : i \notin 0 .. n => g[i] = f[n]
    BY <1>6, <2>1, <2>2
  <2> HIDE DEF g
  <2>4. ASSUME NEW i \in 1 .. l PROVE g[i] = g[i - 1] + inputs'[i].size
    <3>1. CASE i \in 1 .. n
      <4>1. i \in 0 .. n /\ i - 1 \in 0 .. n
        BY <3>1
      <4> QED BY <1>7, <2>2, <2>3, <3>1, <4>1
    <3>2. CASE i \notin 1 .. n /\ inputs'[i].size = 0
      <4>1. i \in 0 .. l /\ i \notin 0 .. n /\ i - 1 \in 0 .. l
        BY <3>2
      <4>2. g[i] = f[n]
        BY <2>3, <4>1
      <4>3. g[i - 1] = f[n]
        <5>1. CASE i - 1 \notin 0 .. n
          BY <2>3, <4>1, <5>1
        <5>2. CASE i - 1 \in 0 .. n
          <6>1. i - 1 = n
            BY <4>1, <5>2
          <6> QED BY <2>3, <5>2, <6>1
        <5> QED BY <5>1, <5>2
      <4>4. f[n] \in Nat
        BY <2>1
      <4> QED BY <3>2, <4>2, <4>3, <4>4
    <3> QED BY <1>8, <3>1, <3>2
  <2>5. Sums(g, inputs')
    BY <1>7, <2>3, <2>4 DEF Sums
  <2>6. remaining \in Nat
    BY <1>1 DEF Kept, WithinBytes
  <2> QED BY <1>2, <1>7, <2>1, <2>3, <2>5, <2>6 DEF WithinBytes
<1>18. Kept'
  <2>1. progress' \in {"checking", "captured"} /\ ~hopped' => early' \subseteq Range(started')
    BY <1>3, <1>11
  <2>2. todo' \in Seq(Responses) /\ progress' \in Stages
    BY <1>1, <1>2 DEF Kept, Stages
  <2> QED BY <1>7, <1>10, <1>12, <1>14, <1>15, <1>16, <1>17, <2>1, <2>2 DEF Kept
<1>19. (EventBooks /\ Kept => CaptureInv)'
  BY InvFromParts, PTL
<1> QED BY <1>4, <1>18, <1>19

\* Every step keeps the invariant.
LEMMA CaptureStep == ASSUME CaptureInv, [CaptureNext]_captureVars PROVE CaptureInv'
<1>1. ASSUME NEW r \in PageRequests, NEW hop \in BOOLEAN, RequestEvent(r, hop) PROVE CaptureInv'
  BY <1>1, RequestEvent_Books, EventKeeps
<1>2. ASSUME NEW r \in PageRequests, RequestFinished(r) PROVE CaptureInv'
  BY <1>2, RequestFinished_Books, EventKeeps
<1>3. ASSUME NEW r \in PageRequests, RequestFailed(r) PROVE CaptureInv'
  BY <1>3, RequestFailed_Books, EventKeeps
<1>4. ASSUME NEW r \in PageRequests, NEW length \in Sizes, NEW bad \in BOOLEAN, Response(r, length, bad)
      PROVE  CaptureInv'
  BY <1>4, Response_Books, EventKeeps
<1>5. CASE UNCHANGED captureVars
  <2>1. UNCHANGED <<todo, progress, remaining, inputs, request, candidates, early, hopped, started>>
        /\ UNCHANGED events
    BY <1>5 DEF captureVars, events
  <2>2. EventBooks /\ Kept
    BY PartsFromInv
  <2>3. EventBooks'
    BY <2>1, <2>2, BooksKept
  <2>4. InputsExactlyOnce' /\ GapsRecorded' /\ BodiesAreWhole' /\ WithinBytes'
    BY <2>1, <2>2, ZenonT(20) DEF Kept, InputsExactlyOnce, GapsRecorded, BodiesAreWhole, WithinBytes, Sums
  <2>7. Collecting'
    BY <2>1, <2>2 DEF Kept, Collecting
  <2>5. Kept'
    BY <2>1, <2>2, <2>4, <2>7 DEF Kept
  <2>6. (EventBooks /\ Kept => CaptureInv)'
    BY InvFromParts, PTL
  <2> QED BY <2>3, <2>5, <2>6
<1>6. CASE CaptureNext
  BY <1>1, <1>2, <1>3, <1>4, <1>6, Snapshot_Keeps, TakeBody_Keeps, NoBody_Keeps, SkipCandidate_Keeps,
     CheckBudgets_Keeps, Assemble_Keeps, Throw_Keeps DEF CaptureNext
<1> QED BY <1>5, <1>6

\* Every tracked request that may have a body is an input of the clone exactly once,
\* whole or as a gap with its reason, within the budgets, whatever the order in which
\* the page's requests, answers and failures arrive while capturePage collects.
THEOREM CaptureAlwaysAccounts == CaptureSpec => []CaptureAccounts
<1>1. CaptureInv /\ [CaptureNext]_captureVars => CaptureInv'
  BY CaptureStep
<1>2. CaptureInv => CaptureAccounts
  BY DEF CaptureInv
<1> QED BY <1>1, <1>2, CaptureInit_Holds, PTL DEF CaptureSpec

-----------------------------------------------------------------------------
(* The static clones.                                                      *)

\* The plans after each resource, and what the build has packed after each.
Plans(f) ==
    f = [n \in 0 .. Len(captured) |-> IF n = 0 THEN PlanStart ELSE PlanOne(f[n - 1], captured[n])]
Builds(f) ==
    f = [n \in 0 .. Len(captured) |-> IF n = 0 THEN BuildStart ELSE BuildOne(f[n - 1], n)]

\* A recursive function that has a value for each number has all its values: at the
\* least number for which there is none, there is one more value.
LEMMA PlansExist == ASSUME Len(captured) \in Nat PROVE \E f : Plans(f) /\ Plan = f[Len(captured)]
<1> DEFINE N == Len(captured)
           upTo[n \in 0 .. N] == IF n = 0 THEN PlanStart ELSE PlanOne(upTo[n - 1], captured[n])
           Until(n, f) == f = [k \in 0 .. n |-> IF k = 0 THEN PlanStart ELSE PlanOne(f[k - 1], captured[k])]
           Without == {n \in 0 .. N : ~\E f : Until(n, f)}
<1>1. Without = {}
  <2> SUFFICES ASSUME Without # {} PROVE FALSE
    OBVIOUS
  <2> DEFINE R == OpToRel(<, Nat)
  <2>1. IsWellFoundedOn(R, Nat)
    BY NatLessThanWellFounded
  <2>2. Without \subseteq Nat
    OBVIOUS
  <2> HIDE DEF R, Until
  <2>3. PICK n \in Without : \A m \in Without : <<m, n>> \notin R
    BY <2>1, <2>2, WFMin
  <2> USE DEF R
  <2>4. n \in 0 .. N /\ ~\E f : Until(n, f)
    OBVIOUS
  <2>5. n # 0
    <3> SUFFICES ASSUME n = 0 PROVE \E f : Until(n, f)
      BY <2>4
    <3> DEFINE g == [k \in 0 .. 0 |-> PlanStart]
    <3>1. g = [k \in 0 .. 0 |-> IF k = 0 THEN PlanStart ELSE PlanOne(g[k - 1], captured[k])]
      OBVIOUS
    <3>2. Until(n, g)
      BY <3>1 DEF Until
    <3> QED BY <3>2
  <2>6. n - 1 \in 0 .. N /\ n - 1 \notin Without
    <3>1. n - 1 \in Nat /\ n \in Nat /\ n - 1 < n /\ n - 1 \in 0 .. N
      BY <2>4, <2>5
    <3>2. <<n - 1, n>> \in R
      BY <3>1 DEF OpToRel
    <3> QED BY <2>3, <3>1, <3>2
  <2>7. PICK f : Until(n - 1, f)
    BY <2>6
  <2> DEFINE g == [k \in 0 .. n |-> IF k = n THEN PlanOne(f[n - 1], captured[n]) ELSE f[k]]
             h == [k \in 0 .. n |-> IF k = 0 THEN PlanStart ELSE PlanOne(g[k - 1], captured[k])]
  <2>8. f = [k \in 0 .. n - 1 |-> IF k = 0 THEN PlanStart ELSE PlanOne(f[k - 1], captured[k])]
    BY <2>7 DEF Until
  <2>9. \A k \in 0 .. n - 1 : f[k] = IF k = 0 THEN PlanStart ELSE PlanOne(f[k - 1], captured[k])
    BY ONLY <2>8
  <2>10. \A k \in 0 .. n : g[k] = h[k]
    <3> SUFFICES ASSUME NEW k \in 0 .. n PROVE g[k] = h[k]
      OBVIOUS
    <3>1. k = n => g[k] = PlanOne(f[n - 1], captured[n]) /\ g[n - 1] = f[n - 1] /\ k # 0
      BY <2>4, <2>5
    <3>2. k # n => k \in 0 .. n - 1 /\ g[k] = f[k]
      BY <2>4, <2>5
    <3>3. k # n /\ k # 0 => k - 1 \in 0 .. n /\ k - 1 # n /\ g[k - 1] = f[k - 1]
      BY <2>4, <2>5
    <3>4. h[k] = IF k = 0 THEN PlanStart ELSE PlanOne(g[k - 1], captured[k])
      OBVIOUS
    <3> HIDE DEF g, h
    <3> QED BY <3>1, <3>2, <3>3, <3>4, <2>9
  <2>11. g = h
    BY <2>10
  <2> HIDE DEF g
  <2>12. Until(n, g)
    BY <2>11 DEF Until
  <2> QED BY <2>4, <2>12
<1>2. PICK f : Until(N, f)
  BY <1>1
<1>3. Plans(f)
  BY <1>2 DEF Plans
<1>4. Plan = upTo[N]
  BY DEF Plan
<1>5. upTo = CHOOSE g : g = [n \in 0 .. N |-> IF n = 0 THEN PlanStart ELSE PlanOne(g[n - 1], captured[n])]
  BY DEF upTo
<1>6. upTo = [n \in 0 .. N |-> IF n = 0 THEN PlanStart ELSE PlanOne(upTo[n - 1], captured[n])]
  BY <1>3, <1>5 DEF Plans
<1> HIDE DEF upTo
<1>7. Plans(upTo)
  BY <1>6 DEF Plans
<1> QED BY <1>4, <1>7

\* The same for the build.
LEMMA BuildsExist == ASSUME Len(captured) \in Nat PROVE \E f : Builds(f) /\ Packed = f[Len(captured)]
<1> DEFINE N == Len(captured)
           upTo[n \in 0 .. N] == IF n = 0 THEN BuildStart ELSE BuildOne(upTo[n - 1], n)
           Until(n, f) == f = [k \in 0 .. n |-> IF k = 0 THEN BuildStart ELSE BuildOne(f[k - 1], k)]
           Without == {n \in 0 .. N : ~\E f : Until(n, f)}
<1>1. Without = {}
  <2> SUFFICES ASSUME Without # {} PROVE FALSE
    OBVIOUS
  <2> DEFINE R == OpToRel(<, Nat)
  <2>1. IsWellFoundedOn(R, Nat)
    BY NatLessThanWellFounded
  <2>2. Without \subseteq Nat
    OBVIOUS
  <2> HIDE DEF R, Until
  <2>3. PICK n \in Without : \A m \in Without : <<m, n>> \notin R
    BY <2>1, <2>2, WFMin
  <2> USE DEF R
  <2>4. n \in 0 .. N /\ ~\E f : Until(n, f)
    OBVIOUS
  <2>5. n # 0
    <3> SUFFICES ASSUME n = 0 PROVE \E f : Until(n, f)
      BY <2>4
    <3> DEFINE g == [k \in 0 .. 0 |-> BuildStart]
    <3>1. g = [k \in 0 .. 0 |-> IF k = 0 THEN BuildStart ELSE BuildOne(g[k - 1], k)]
      OBVIOUS
    <3>2. Until(n, g)
      BY <3>1 DEF Until
    <3> QED BY <3>2
  <2>6. n - 1 \in 0 .. N /\ n - 1 \notin Without
    <3>1. n - 1 \in Nat /\ n \in Nat /\ n - 1 < n /\ n - 1 \in 0 .. N
      BY <2>4, <2>5
    <3>2. <<n - 1, n>> \in R
      BY <3>1 DEF OpToRel
    <3> QED BY <2>3, <3>1, <3>2
  <2>7. PICK f : Until(n - 1, f)
    BY <2>6
  <2> DEFINE g == [k \in 0 .. n |-> IF k = n THEN BuildOne(f[n - 1], n) ELSE f[k]]
             h == [k \in 0 .. n |-> IF k = 0 THEN BuildStart ELSE BuildOne(g[k - 1], k)]
  <2>8. f = [k \in 0 .. n - 1 |-> IF k = 0 THEN BuildStart ELSE BuildOne(f[k - 1], k)]
    BY <2>7 DEF Until
  <2>9. \A k \in 0 .. n - 1 : f[k] = IF k = 0 THEN BuildStart ELSE BuildOne(f[k - 1], k)
    BY ONLY <2>8
  <2>10. \A k \in 0 .. n : g[k] = h[k]
    <3> SUFFICES ASSUME NEW k \in 0 .. n PROVE g[k] = h[k]
      OBVIOUS
    <3>1. k = n => g[k] = BuildOne(f[n - 1], n) /\ g[n - 1] = f[n - 1] /\ k # 0
      BY <2>4, <2>5
    <3>2. k # n => k \in 0 .. n - 1 /\ g[k] = f[k]
      BY <2>4, <2>5
    <3>3. k # n /\ k # 0 => k - 1 \in 0 .. n /\ k - 1 # n /\ g[k - 1] = f[k - 1]
      BY <2>4, <2>5
    <3>4. h[k] = IF k = 0 THEN BuildStart ELSE BuildOne(g[k - 1], k)
      OBVIOUS
    <3> HIDE DEF g, h
    <3> QED BY <3>1, <3>2, <3>3, <3>4, <2>9
  <2>11. g = h
    BY <2>10
  <2> HIDE DEF g
  <2>12. Until(n, g)
    BY <2>11 DEF Until
  <2> QED BY <2>4, <2>12
<1>2. PICK f : Until(N, f)
  BY <1>1
<1>3. Builds(f)
  BY <1>2 DEF Builds
<1>4. Packed = upTo[N]
  BY DEF Packed
<1>5. upTo = CHOOSE g : g = [n \in 0 .. N |-> IF n = 0 THEN BuildStart ELSE BuildOne(g[n - 1], n)]
  BY DEF upTo
<1>6. upTo = [n \in 0 .. N |-> IF n = 0 THEN BuildStart ELSE BuildOne(upTo[n - 1], n)]
  BY <1>3, <1>5 DEF Builds
<1> HIDE DEF upTo
<1>7. Builds(upTo)
  BY <1>6 DEF Builds
<1> QED BY <1>4, <1>7

\* Paths, and the rows of the plan.
Names == PathParts \cup {"assets"} \cup Bodies \cup BOOLEAN \cup Nat
Paths == Seq(Names) \ {<<>>}
SkipReasons == {"", "BODY_UNAVAILABLE", "EXTERNAL_ORIGIN", "FILE_COUNT_BUDGET_EXCEEDED",
                "CLONE_INPUT_BUDGET_EXCEEDED"}
Gaps == SkipReasons \ {""}
PlanRows == [url : ResourceUrls, body : Bodies \cup {Absent}, truncated : BOOLEAN,
             path : Paths \cup {NoPath}, skip : SkipReasons]

LEMMA NoPathIsEmpty == NoPath \notin Paths
BY DEF NoPath, Paths

\* What a path may be made of.
LEMMA DesiredPath ==
  ASSUME NEW r, r.url \in ResourceUrls, r.body \in Bodies
  PROVE  Desired(r) \in Paths
<1>1. CASE addressed
  <2>5. (r.url \in StyleSheets) \in BOOLEAN
    OBVIOUS
  <2>6. PICK c \in BOOLEAN : c = (r.url \in StyleSheets)
    BY <2>5, Zenon
  <2>1. PICK b \in Bodies : b = r.body
    OBVIOUS
  <2>2. "assets" \in Names /\ b \in Names /\ c \in Names
    BY <2>1 DEF Names
  <2>3. <<"assets", b, c>> \in Seq(Names) /\ <<"assets", b, c>> # <<>>
    BY <2>2
  <2>4. Desired(r) = <<"assets", b, c>>
    BY <1>1, <2>1, <2>6, Zenon DEF Desired
  <2> QED BY <2>3, <2>4 DEF Paths
<1>2. CASE ~addressed
  <2>1. Desired(r) = PathOf[r.url]
    BY <1>2 DEF Desired
  <2>2. PathOf[r.url] \in Seq(PathParts) \ {<<>>}
    BY CloneAssumption
  <2>3. PathParts \subseteq Names
    BY DEF Names
  <2>4. PathOf[r.url] \in Seq(Names)
    BY <2>2, <2>3
  <2> QED BY <2>1, <2>2, <2>4 DEF Paths
<1> QED BY <1>1, <1>2

LEMMA SuffixesDiffer ==
  ASSUME NEW p \in Paths
  PROVE  /\ \A k \in Nat : Suffixed(p, k) \in Paths
         /\ \A j, k \in Nat : Suffixed(p, j) = Suffixed(p, k) => j = k
<1>1. p \in Seq(Names)
  BY DEF Paths
<1>2. ASSUME NEW k \in Nat, k # 0
      PROVE  /\ Suffixed(p, k) = Append(p, k) /\ Append(p, k) \in Seq(Names)
             /\ Len(Append(p, k)) = Len(p) + 1 /\ Append(p, k)[Len(p) + 1] = k
  <2>1. k \in Names
    BY DEF Names
  <2>2. /\ Append(p, k) \in Seq(Names)
        /\ Len(Append(p, k)) = Len(p) + 1 /\ Append(p, k)[Len(p) + 1] = k
    BY <1>1, <2>1, Appending
  <2> QED BY <1>2, <2>2 DEF Suffixed
<1>3. Suffixed(p, 0) = p /\ Len(p) \in Nat
  BY <1>1 DEF Suffixed
<1>4. ASSUME NEW k \in Nat PROVE Suffixed(p, k) \in Paths
  <2>1. CASE k = 0
    BY <1>3, <2>1
  <2>2. CASE k # 0
    <3>1. Len(<<>>) = 0
      OBVIOUS
    <3>2. Append(p, k) # <<>>
      BY <1>2, <1>3, <2>2, <3>1
    <3> QED BY <1>2, <2>2, <3>2 DEF Paths
  <2> QED BY <2>1, <2>2
<1>5. ASSUME NEW j \in Nat, NEW k \in Nat, Suffixed(p, j) = Suffixed(p, k) PROVE j = k
  <2>1. CASE j # 0 /\ k # 0
    BY <1>2, <1>5, <2>1
  <2>2. CASE j = 0 /\ k # 0
    BY <1>2, <1>3, <1>5, <2>2
  <2>3. CASE j # 0 /\ k = 0
    BY <1>2, <1>3, <1>5, <2>3
  <2> QED BY <2>1, <2>2, <2>3
<1> QED BY <1>4, <1>5

\* One of p, p_1, p_2, ... is free, for there are more of them than files.
LEMMA FreshPath ==
  ASSUME NEW p \in Paths, NEW used, IsFiniteSet(used)
  PROVE  DeduplicatePath(p, used) \in Paths \ used
<1> DEFINE c == Cardinality(used)
           free == {k \in 0 .. c : Suffixed(p, k) \notin used}
<1>1. c \in Nat
  BY FS_CardinalityType
<1>2. free # {}
  <2> SUFFICES ASSUME free = {} PROVE FALSE
    OBVIOUS
  <2> DEFINE g == [k \in 0 .. c |-> Suffixed(p, k)]
  <2>1. g \in [0 .. c -> used]
    OBVIOUS
  <2>2. \A j, k \in 0 .. c : g[j] = g[k] => j = k
    BY <1>1, SuffixesDiffer
  <2>3. g \in Injection(0 .. c, used)
    BY <2>1, <2>2 DEF Injection, IsInjective
  <2>4. IsFiniteSet(0 .. c) /\ Cardinality(0 .. c) = c + 1
    <3>1. IsFiniteSet(0 .. c) /\ Cardinality(0 .. c) = IF 0 > c THEN 0 ELSE c - 0 + 1
      BY <1>1, FS_Interval
    <3> QED BY <1>1, <3>1
  <2> HIDE DEF g
  <2>5. Cardinality(0 .. c) <= Cardinality(used)
    BY <2>3, <2>4, FS_Injection
  <2> QED BY <1>1, <2>4, <2>5
<1>3. \E k \in free : \A j \in free : k <= j
  <2> DEFINE R == OpToRel(<, Nat)
  <2>1. IsWellFoundedOn(R, Nat)
    BY NatLessThanWellFounded
  <2>2. free \subseteq Nat
    BY <1>1
  <2> HIDE DEF R, free
  <2>3. PICK k \in free : \A m \in free : <<m, k>> \notin R
    BY <1>2, <2>1, <2>2, WFMin
  <2>4. \A m \in free : ~(m < k)
    BY <2>2, <2>3 DEF R, OpToRel
  <2>5. \A m \in free : k <= m
    BY <2>2, <2>4
  <2> QED BY <2>5
<1>4. PICK k : k = (CHOOSE l \in free : \A j \in free : l <= j) /\ k \in free
  BY <1>3
<1>5. DeduplicatePath(p, used) = Suffixed(p, k)
  BY <1>4 DEF DeduplicatePath
<1> QED BY <1>1, <1>4, <1>5, SuffixesDiffer

\* A plan in the making has these fields.
Shaped(p) == \E resources, replacements, used, contentPaths, files, bytes :
    p = [resources |-> resources, replacements |-> replacements, used |-> used,
         contentPaths |-> contentPaths, files |-> files, bytes |-> bytes]

\* A resource is left out.
LeavesOut(p, r, q) ==
    /\ \E reason \in Gaps : q.resources = Append(p.resources, Planned(r, NoPath, reason))
    /\ q.used = p.used /\ q.contentPaths = p.contentPaths /\ q.replacements = p.replacements

\* It shares the file of an equal one.
Shares(p, r, q) ==
    /\ addressed /\ r.body # Absent /\ ContentKey(r) \in DOMAIN p.contentPaths
    /\ q.resources = Append(p.resources, Planned(r, p.contentPaths[ContentKey(r)], ""))
    /\ q.used = p.used /\ q.contentPaths = p.contentPaths
    /\ q.replacements = Mapped(p.replacements, r.url, p.contentPaths[ContentKey(r)])

\* It has a file of its own, at path.
Adds(p, r, q, path) ==
    /\ r.body # Absent /\ path = DeduplicatePath(Desired(r), p.used)
    /\ addressed => ContentKey(r) \notin DOMAIN p.contentPaths
    /\ q.resources = Append(p.resources, Planned(r, path, ""))
    /\ q.used = p.used \cup {path} /\ q.contentPaths = Mapped(p.contentPaths, ContentKey(r), path)
    /\ q.replacements = Mapped(p.replacements, r.url, path)

\* Fields that are replaced.
LEMMA PointedShape ==
  ASSUME NEW a, NEW b, NEW c, NEW d, NEW e, NEW f, NEW x, NEW y, NEW p, NEW q,
         p = [resources |-> a, replacements |-> b, used |-> c, contentPaths |-> d, files |-> e, bytes |-> f],
         q = [p EXCEPT !.replacements = x, !.resources = y]
  PROVE  q = [resources |-> y, replacements |-> x, used |-> c, contentPaths |-> d, files |-> e, bytes |-> f]
OBVIOUS

LEMMA AddedShape ==
  ASSUME NEW a, NEW b, NEW c, NEW d, NEW e, NEW f, NEW x, NEW y, NEW z, NEW w, NEW p, NEW q,
         p = [resources |-> a, replacements |-> b, used |-> c, contentPaths |-> d, files |-> e, bytes |-> f],
         q = [p EXCEPT !.used = x, !.files = y, !.contentPaths = z, !.bytes = w]
  PROVE  q = [resources |-> a, replacements |-> b, used |-> x, contentPaths |-> z, files |-> y, bytes |-> w]
OBVIOUS

LEMMA PlanMoves ==
  ASSUME NEW p, NEW r, Shaped(p)
  PROVE  /\ Shaped(PlanOne(p, r))
         /\ \/ LeavesOut(p, r, PlanOne(p, r)) \/ Shares(p, r, PlanOne(p, r))
            \/ \E path : Adds(p, r, PlanOne(p, r), path)
<1>1. PICK resources, replacements, used, contentPaths, files, bytes :
    p = [resources |-> resources, replacements |-> replacements, used |-> used,
         contentPaths |-> contentPaths, files |-> files, bytes |-> bytes]
  BY DEF Shaped
<1> DEFINE key == ContentKey(r)
           new == DeduplicatePath(Desired(r), p.used)
           skip(reason) == [p EXCEPT !.resources = Append(@, Planned(r, NoPath, reason))]
           point(q, path) == [q EXCEPT !.replacements = Mapped(@, r.url, path),
                                       !.resources = Append(@, Planned(r, path, ""))]
           added == [p EXCEPT !.used = @ \cup {new}, !.files = @ + 1,
                              !.contentPaths = Mapped(@, key, new), !.bytes = @ + SizeOf[r.body]]
           share == r.body # Absent /\ addressed /\ key \in DOMAIN p.contentPaths
           add == r.body # Absent /\ ~(addressed /\ key \in DOMAIN p.contentPaths)
<1>2. \/ \E reason \in Gaps : PlanOne(p, r) = skip(reason)
      \/ share /\ PlanOne(p, r) = point(p, p.contentPaths[key])
      \/ add /\ PlanOne(p, r) = point(added, new)
  <2>1. /\ "BODY_UNAVAILABLE" \in Gaps /\ "EXTERNAL_ORIGIN" \in Gaps
        /\ "FILE_COUNT_BUDGET_EXCEEDED" \in Gaps /\ "CLONE_INPUT_BUDGET_EXCEEDED" \in Gaps
    BY DEF Gaps, SkipReasons
  <2>2. PlanOne(p, r) =
          IF r.body = Absent THEN skip("BODY_UNAVAILABLE")
          ELSE IF r.url \in Foreign THEN skip("EXTERNAL_ORIGIN")
          ELSE IF addressed /\ key \in DOMAIN p.contentPaths THEN point(p, p.contentPaths[key])
          ELSE IF p.files >= MaxFiles THEN skip("FILE_COUNT_BUDGET_EXCEEDED")
          ELSE IF p.bytes + SizeOf[r.body] > MaxInputBytes THEN skip("CLONE_INPUT_BUDGET_EXCEEDED")
          ELSE point(added, new)
    BY DEF PlanOne
  <2> HIDE DEF key, new, skip, point, added
  <2> QED BY <2>1, <2>2
<1>3. ASSUME NEW reason \in Gaps PROVE Shaped(skip(reason)) /\ LeavesOut(p, r, skip(reason))
  <2>1. skip(reason) = [resources |-> Append(resources, Planned(r, NoPath, reason)),
           replacements |-> replacements, used |-> used, contentPaths |-> contentPaths,
           files |-> files, bytes |-> bytes]
    BY <1>1
  <2> HIDE DEF skip
  <2>2. Shaped(skip(reason))
    BY <2>1 DEF Shaped
  <2>3. /\ skip(reason).resources = Append(p.resources, Planned(r, NoPath, reason))
        /\ skip(reason).used = p.used /\ skip(reason).contentPaths = p.contentPaths
        /\ skip(reason).replacements = p.replacements
    BY <1>1, <2>1
  <2> QED BY <2>2, <2>3 DEF LeavesOut
<1>4. ASSUME share
      PROVE  Shaped(point(p, p.contentPaths[key])) /\ Shares(p, r, point(p, p.contentPaths[key]))
  <2> DEFINE q == point(p, p.contentPaths[key])
  <2>1. q = [resources |-> Append(resources, Planned(r, contentPaths[key], "")),
           replacements |-> Mapped(replacements, r.url, contentPaths[key]), used |-> used,
           contentPaths |-> contentPaths, files |-> files, bytes |-> bytes]
    <3>1. q = [p EXCEPT !.replacements = Mapped(replacements, r.url, contentPaths[key]),
                        !.resources = Append(resources, Planned(r, contentPaths[key], ""))]
      BY <1>1
    <3> HIDE DEF q, key
    <3> QED BY <1>1, <3>1, PointedShape
  <2> HIDE DEF q, key
  <2>2. Shaped(q)
    BY <2>1 DEF Shaped
  <2>3. /\ q.resources = Append(p.resources, Planned(r, p.contentPaths[key], ""))
        /\ q.used = p.used /\ q.contentPaths = p.contentPaths
        /\ q.replacements = Mapped(p.replacements, r.url, p.contentPaths[key])
    BY <1>1, <2>1
  <2>4. Shares(p, r, q)
    BY <1>4, <2>3 DEF Shares, key
  <2> QED BY <2>2, <2>4 DEF q
<1>5. ASSUME add
      PROVE  Shaped(point(added, new)) /\ \E path : Adds(p, r, point(added, new), path)
  <2> DEFINE q == point(added, new)
  <2>1. q = [resources |-> Append(resources, Planned(r, new, "")),
           replacements |-> Mapped(replacements, r.url, new), used |-> used \cup {new},
           contentPaths |-> Mapped(contentPaths, key, new), files |-> files + 1,
           bytes |-> bytes + SizeOf[r.body]]
    <3>1. added = [p EXCEPT !.used = used \cup {new}, !.files = files + 1,
                            !.contentPaths = Mapped(contentPaths, key, new),
                            !.bytes = bytes + SizeOf[r.body]]
      BY <1>1
    <3>2. q = [added EXCEPT !.replacements = Mapped(added.replacements, r.url, new),
                            !.resources = Append(added.resources, Planned(r, new, ""))]
      OBVIOUS
    <3> HIDE DEF q, key, new, added
    <3>3. added = [resources |-> resources, replacements |-> replacements, used |-> used \cup {new},
             contentPaths |-> Mapped(contentPaths, key, new), files |-> files + 1,
             bytes |-> bytes + SizeOf[r.body]]
      BY <1>1, <3>1, AddedShape
    <3>4. added.replacements = replacements /\ added.resources = resources
      BY <3>3
    <3> QED BY <3>2, <3>3, <3>4, PointedShape
  <2> HIDE DEF q, key, new
  <2>2. Shaped(q)
    BY <2>1 DEF Shaped
  <2>3. /\ q.resources = Append(p.resources, Planned(r, new, ""))
        /\ q.used = p.used \cup {new} /\ q.contentPaths = Mapped(p.contentPaths, key, new)
        /\ q.replacements = Mapped(p.replacements, r.url, new)
    BY <1>1, <2>1
  <2>4. Adds(p, r, q, new)
    BY <1>5, <2>3 DEF Adds, key, new
  <2> QED BY <2>2, <2>4 DEF q
<1> HIDE DEF key, new, skip, point, added, share, add
<1> QED BY <1>2, <1>3, <1>4, <1>5

\* A function with one more value.
LEMMA WithOne ==
  ASSUME NEW f, NEW x, NEW y
  PROVE  /\ DOMAIN Mapped(f, x, y) = {x} \cup DOMAIN f
         /\ Mapped(f, x, y)[x] = y
         /\ \A z \in DOMAIN f : z # x => Mapped(f, x, y)[z] = f[z]
BY DEF Mapped

\* Equal keys mean equal bodies, and one style sheet.
LEMMA KeysDiffer ==
  ASSUME NEW r, NEW q, addressed, ContentKey(r) = ContentKey(q)
  PROVE  /\ r.body = q.body
         /\ r.url \in StyleSheets \/ q.url \in StyleSheets => r.url = q.url
<1>1. /\ Desired(r) = Desired(q)
      /\ (IF r.url \in StyleSheets THEN r.url ELSE NoPath) = (IF q.url \in StyleSheets THEN q.url ELSE NoPath)
  <2> DEFINE a == Desired(r)
             b == Desired(q)
             c == IF r.url \in StyleSheets THEN r.url ELSE NoPath
             d == IF q.url \in StyleSheets THEN q.url ELSE NoPath
  <2>1. <<a, c>> = <<b, d>>
    BY DEF ContentKey
  <2> HIDE DEF a, b, c, d
  <2>2. a = b /\ c = d
    BY <2>1
  <2> QED BY <2>2 DEF a, b, c, d
<1>2. Desired(r) = <<"assets", r.body, r.url \in StyleSheets>> /\ Desired(q) = <<"assets", q.body, q.url \in StyleSheets>>
  BY Zenon DEF Desired
<1>3. r.body = q.body /\ (r.url \in StyleSheets) = (q.url \in StyleSheets)
  <2> DEFINE a == r.url \in StyleSheets
             b == q.url \in StyleSheets
             s == "assets"
             v == r.body
             w == q.body
  <2>1. <<s, v, a>> = <<s, w, b>>
    BY <1>1, <1>2, Zenon
  <2> HIDE DEF a, b, s, v, w
  <2>2. v = w /\ a = b
    BY <2>1
  <2> QED BY <2>2 DEF a, b, v, w
<1> QED BY <1>1, <1>3, Zenon

\* What a plan's rows say: each is of the resource at its place, and it has either
\* a path that is not the document's, and a body for it, or a reason for the gap.
Rowed(rows, n) ==
    /\ rows \in Seq(PlanRows) /\ Len(rows) = n
    /\ \A i \in 1 .. n :
        /\ rows[i].url = captured[i].url /\ rows[i].body = captured[i].body
        /\ rows[i].truncated = captured[i].truncated
        /\ rows[i].path = NoPath => rows[i].skip \in Gaps
        /\ rows[i].path # NoPath => rows[i].skip = "" /\ rows[i].body # Absent /\ rows[i].path # MainPath

\* Two resources may share a file.
Alike(r, q) == r.body = q.body /\ (r.url \in StyleSheets \/ q.url \in StyleSheets => r.url = q.url)

Shared(rows, n) ==
    \A i, j \in 1 .. n : rows[i].path # NoPath /\ rows[i].path = rows[j].path => Alike(rows[i], rows[j])

\* A redirected URL is that of a resource with a path, to which it is redirected.
Redirected(rows, n, replacements) ==
    \A u \in DOMAIN replacements : \E i \in 1 .. n :
        rows[i].url = u /\ rows[i].path = replacements[u] /\ rows[i].path # NoPath

\* The paths that are taken, and those that a content has.
Taken(rows, n, used) ==
    /\ IsFiniteSet(used) /\ MainPath \in used
    /\ \A i \in 1 .. n : rows[i].path # NoPath => rows[i].path \in used
Addressing(rows, n, contentPaths) ==
    addressed => \A key \in DOMAIN contentPaths : \E i \in 1 .. n :
        ContentKey(rows[i]) = key /\ rows[i].path = contentPaths[key] /\ rows[i].path # NoPath

PlanBooks(p, n) ==
    /\ Shaped(p) /\ Rowed(p.resources, n) /\ Shared(p.resources, n)
    /\ Redirected(p.resources, n, p.replacements) /\ Taken(p.resources, n, p.used)
    /\ Addressing(p.resources, n, p.contentPaths)

LEMMA PlanStartBooks == PlanBooks(PlanStart, 0)
<1>1. Shaped(PlanStart)
  BY DEF Shaped, PlanStart
<1>2. /\ PlanStart.resources = <<>> /\ PlanStart.replacements = <<>> /\ PlanStart.used = {MainPath}
      /\ PlanStart.contentPaths = <<>>
  BY DEF PlanStart
<1>3. DOMAIN <<>> = {} /\ IsFiniteSet({MainPath}) /\ \A i : i \notin 1 .. 0
  BY FS_Singleton
<1>4. <<>> \in Seq(PlanRows) /\ Len(<<>>) = 0
  OBVIOUS
<1>5. Rowed(PlanStart.resources, 0)
  BY <1>2, <1>3, <1>4 DEF Rowed
<1> QED BY <1>1, <1>2, <1>3, <1>5 DEF PlanBooks, Shared, Redirected, Taken, Addressing

\* A row more.
RowOf(row, i) ==
    /\ row.url = captured[i].url /\ row.body = captured[i].body /\ row.truncated = captured[i].truncated
    /\ row.path = NoPath => row.skip \in Gaps
    /\ row.path # NoPath => row.skip = "" /\ row.body # Absent /\ row.path # MainPath

\* Rows that were there stay what they are.
Extends(new, rows, n) ==
    /\ \A i \in 1 .. n : new[i] = rows[i]
    /\ \A i \in 1 .. n : i \in 1 .. n + 1
    /\ \A i \in 1 .. n + 1 : i \in 1 .. n \/ i = n + 1
    /\ n + 1 \in 1 .. n + 1

LEMMA RowMore ==
  ASSUME NEW n, NEW rows, NEW row, NEW new,
         n \in Nat, Rowed(rows, n), row \in PlanRows, RowOf(row, n + 1), new = Append(rows, row)
  PROVE  Rowed(new, n + 1) /\ Extends(new, rows, n) /\ new[n + 1] = row
<1>1. /\ new \in Seq(PlanRows) /\ Len(new) = n + 1
      /\ \A i \in 1 .. n : new[i] = rows[i]
      /\ new[n + 1] = row
  <2>1. rows \in Seq(PlanRows) /\ Len(rows) = n
    BY DEF Rowed
  <2> QED BY <2>1, Appending
<1>2. /\ \A i \in 1 .. n + 1 : i \in 1 .. n \/ i = n + 1
      /\ \A i \in 1 .. n : i \in 1 .. n + 1
      /\ n + 1 \in 1 .. n + 1
  OBVIOUS
<1>3. \A i \in 1 .. n : RowOf(rows[i], i)
  BY Zenon DEF Rowed, RowOf
<1>4. \A i \in 1 .. n + 1 : RowOf(new[i], i)
  BY <1>1, <1>2, <1>3, Zenon
<1>5. Rowed(new, n + 1)
  BY <1>1, <1>4, Zenon DEF Rowed, RowOf
<1> QED BY <1>1, <1>2, <1>5 DEF Extends

LEMMA PlannedGap ==
  ASSUME NEW r, NEW i, NEW reason, NEW row,
         r \in Resources, r = captured[i], reason \in Gaps, row = Planned(r, NoPath, reason)
  PROVE  row \in PlanRows /\ RowOf(row, i) /\ row.path = NoPath
<1>1. reason \in SkipReasons
  BY DEF Gaps
<1>2. r.url \in ResourceUrls /\ r.body \in Bodies \cup {Absent} /\ r.truncated \in BOOLEAN
  BY DEF Resources
<1>3. row = [url |-> r.url, body |-> r.body, truncated |-> r.truncated, path |-> NoPath, skip |-> reason]
  BY DEF Planned
<1>4. row \in PlanRows
  BY <1>1, <1>2, <1>3 DEF PlanRows
<1>5. /\ row.url = r.url /\ row.body = r.body /\ row.truncated = r.truncated
      /\ row.path = NoPath /\ row.skip = reason
  BY <1>3
<1> QED BY <1>4, <1>5, Zenon DEF RowOf

\* The row of the i-th resource, with a file.
FileRow(row, r, i, path) ==
    /\ r \in Resources /\ r = captured[i] /\ r.body # Absent
    /\ path \in Paths /\ path # MainPath /\ row = Planned(r, path, "")

LEMMA PlannedFile ==
  ASSUME NEW r, NEW i, NEW path, NEW row, FileRow(row, r, i, path)
  PROVE  row \in PlanRows /\ RowOf(row, i) /\ row.path = path /\ row.url = r.url /\ row.body = r.body
<1> USE DEF FileRow
<1>1. PICK none \in SkipReasons : none = ""
  BY DEF SkipReasons
<1>2. r.url \in ResourceUrls /\ r.body \in Bodies \cup {Absent} /\ r.truncated \in BOOLEAN
  BY DEF Resources
<1>3. row = Planned(r, path, none)
  BY <1>1, Zenon
<1>4. row = [url |-> r.url, body |-> r.body, truncated |-> r.truncated, path |-> path, skip |-> none]
  BY ONLY <1>3 DEF Planned
<1>5. row \in PlanRows
  BY ONLY none \in SkipReasons, <1>2, <1>4, path \in Paths DEF PlanRows
<1>6. /\ row.url = r.url /\ row.body = r.body /\ row.truncated = r.truncated
      /\ row.path = path /\ row.skip = none
  BY ONLY <1>4
<1>7. path # NoPath
  BY NoPathIsEmpty
<1> QED BY <1>1, <1>5, <1>6, <1>7, Zenon DEF RowOf

LEMMA StillRedirected ==
  ASSUME NEW n, NEW rows, NEW new, NEW f, Extends(new, rows, n), Redirected(rows, n, f)
  PROVE  Redirected(new, n + 1, f)
<1> SUFFICES ASSUME NEW u \in DOMAIN f
             PROVE  \E i \in 1 .. n + 1 : new[i].url = u /\ new[i].path = f[u] /\ new[i].path # NoPath
  BY DEF Redirected
<1>1. PICK i \in 1 .. n : rows[i].url = u /\ rows[i].path = f[u] /\ rows[i].path # NoPath
  BY DEF Redirected
<1> QED BY <1>1, Zenon DEF Extends

LEMMA NowRedirected ==
  ASSUME NEW n, NEW rows, NEW new, NEW f, NEW g, NEW u, NEW path,
         Extends(new, rows, n), Redirected(rows, n, f), g = Mapped(f, u, path),
         new[n + 1].url = u, new[n + 1].path = path, path # NoPath
  PROVE  Redirected(new, n + 1, g)
<1> SUFFICES ASSUME NEW v \in DOMAIN g
             PROVE  \E i \in 1 .. n + 1 : new[i].url = v /\ new[i].path = g[v] /\ new[i].path # NoPath
  BY DEF Redirected
<1>1. DOMAIN g = DOMAIN f \cup {u} /\ g[v] = IF v = u THEN path ELSE f[v]
  BY DEF Mapped
<1>2. CASE v = u
  BY <1>1, <1>2, Zenon DEF Extends
<1>3. CASE v # u
  <2>1. v \in DOMAIN f /\ g[v] = f[v]
    BY <1>1, <1>3
  <2>2. PICK i \in 1 .. n : rows[i].url = v /\ rows[i].path = f[v] /\ rows[i].path # NoPath
    BY <2>1 DEF Redirected
  <2> QED BY <2>1, <2>2, Zenon DEF Extends
<1> QED BY <1>2, <1>3

LEMMA StillAddressing ==
  ASSUME NEW n, NEW rows, NEW new, NEW f, Extends(new, rows, n), Addressing(rows, n, f)
  PROVE  Addressing(new, n + 1, f)
<1> SUFFICES ASSUME addressed, NEW key \in DOMAIN f
             PROVE  \E i \in 1 .. n + 1 : /\ ContentKey(new[i]) = key
                                         /\ new[i].path = f[key] /\ new[i].path # NoPath
  BY DEF Addressing
<1>1. PICK i \in 1 .. n : ContentKey(rows[i]) = key /\ rows[i].path = f[key] /\ rows[i].path # NoPath
  BY DEF Addressing
<1> QED BY <1>1, Zenon DEF Extends

LEMMA NowAddressing ==
  ASSUME NEW n, NEW rows, NEW new, NEW f, NEW g, NEW k, NEW path,
         Extends(new, rows, n), Addressing(rows, n, f), g = Mapped(f, k, path),
         ContentKey(new[n + 1]) = k, new[n + 1].path = path, path # NoPath
  PROVE  Addressing(new, n + 1, g)
<1> SUFFICES ASSUME addressed, NEW key \in DOMAIN g
             PROVE  \E i \in 1 .. n + 1 : /\ ContentKey(new[i]) = key
                                         /\ new[i].path = g[key] /\ new[i].path # NoPath
  BY DEF Addressing
<1>1. DOMAIN g = DOMAIN f \cup {k} /\ g[key] = IF key = k THEN path ELSE f[key]
  BY DEF Mapped
<1>2. CASE key = k
  BY <1>1, <1>2, Zenon DEF Extends
<1>3. CASE key # k
  <2>1. key \in DOMAIN f /\ g[key] = f[key]
    BY <1>1, <1>3
  <2>2. PICK i \in 1 .. n : ContentKey(rows[i]) = key /\ rows[i].path = f[key] /\ rows[i].path # NoPath
    BY <2>1 DEF Addressing
  <2> QED BY <2>1, <2>2, Zenon DEF Extends
<1> QED BY <1>2, <1>3

LEMMA NowShared ==
  ASSUME NEW n, NEW rows, NEW new, NEW row,
         Extends(new, rows, n), Shared(rows, n), new[n + 1] = row,
         \A i \in 1 .. n : rows[i].path = row.path => Alike(rows[i], row) /\ Alike(row, rows[i])
  PROVE  Shared(new, n + 1)
<1>1. Alike(row, row)
  BY DEF Alike
<1>2. ASSUME NEW i \in 1 .. n + 1, NEW j \in 1 .. n + 1,
             new[i].path # NoPath, new[i].path = new[j].path
      PROVE  Alike(new[i], new[j])
  <2>1. CASE i \in 1 .. n /\ j \in 1 .. n
    BY <1>2, <2>1, Zenon DEF Shared, Extends
  <2>2. CASE i \in 1 .. n /\ j = n + 1
    BY <1>2, <2>2, Zenon DEF Extends
  <2>3. CASE i = n + 1 /\ j \in 1 .. n
    BY <1>2, <2>3, Zenon DEF Extends
  <2>4. CASE i = n + 1 /\ j = n + 1
    BY <1>1, <2>4, Zenon
  <2> QED BY <2>1, <2>2, <2>3, <2>4, Zenon DEF Extends
<1> QED BY <1>2 DEF Shared

LEMMA SameKey ==
  ASSUME NEW r, NEW q, r.url = q.url, r.body = q.body
  PROVE  ContentKey(r) = ContentKey(q)
BY Zenon DEF ContentKey, Desired

LEMMA PlanStep ==
  ASSUME NEW n \in Nat, NEW p, PlanBooks(p, n), NEW r \in Resources, r = captured[n + 1]
  PROVE  PlanBooks(PlanOne(p, r), n + 1)
<1> DEFINE q == PlanOne(p, r)
<1>1. /\ Shaped(p) /\ Rowed(p.resources, n) /\ Shared(p.resources, n)
      /\ Redirected(p.resources, n, p.replacements) /\ Taken(p.resources, n, p.used)
      /\ Addressing(p.resources, n, p.contentPaths)
  BY DEF PlanBooks
<1>2. Shaped(q) /\ (LeavesOut(p, r, q) \/ Shares(p, r, q) \/ \E path : Adds(p, r, q, path))
  BY <1>1, PlanMoves
<1> HIDE DEF q
<1>3. ASSUME LeavesOut(p, r, q) PROVE PlanBooks(q, n + 1)
  <2>1. PICK reason \in Gaps : q.resources = Append(p.resources, Planned(r, NoPath, reason))
    BY <1>3 DEF LeavesOut
  <2>2. PICK row : row = Planned(r, NoPath, reason)
    OBVIOUS
  <2>3. row \in PlanRows /\ RowOf(row, n + 1) /\ row.path = NoPath
    BY <2>2, PlannedGap
  <2>4. q.resources = Append(p.resources, row)
    BY <2>1, <2>2
  <2>5. Rowed(q.resources, n + 1) /\ Extends(q.resources, p.resources, n) /\ q.resources[n + 1] = row
    <3>1. PICK rows : rows = p.resources /\ Rowed(rows, n)
      BY <1>1
    <3>2. PICK new : new = q.resources /\ new = Append(rows, row)
      BY <2>4, <3>1
    <3>3. row \in PlanRows /\ RowOf(row, n + 1)
      BY <2>3
    <3>4. Rowed(new, n + 1) /\ Extends(new, rows, n) /\ new[n + 1] = row
      BY ONLY <3>1, <3>2, <3>3, n \in Nat, RowMore, ZenonT(20)
    <3> QED BY <3>1, <3>2, <3>4
  <2>6. q.used = p.used /\ q.contentPaths = p.contentPaths /\ q.replacements = p.replacements
    BY <1>3 DEF LeavesOut
  <2>7. Shared(q.resources, n + 1)
    BY <1>1, <2>3, <2>5, Zenon DEF Shared, Extends
  <2>8. Redirected(q.resources, n + 1, q.replacements)
    BY <1>1, <2>5, <2>6, StillRedirected
  <2>9. Taken(q.resources, n + 1, q.used)
    BY <1>1, <2>3, <2>5, <2>6, Zenon DEF Taken, Extends
  <2>10. Addressing(q.resources, n + 1, q.contentPaths)
    BY <1>1, <2>5, <2>6, StillAddressing
  <2> QED BY <1>2, <2>5, <2>7, <2>8, <2>9, <2>10 DEF PlanBooks
<1>4. ASSUME Shares(p, r, q) PROVE PlanBooks(q, n + 1)
  <2>1. PICK path : path = p.contentPaths[ContentKey(r)]
    OBVIOUS
  <2>2. PICK row : row = Planned(r, path, "")
    OBVIOUS
  <2>3. /\ addressed /\ r.body # Absent /\ ContentKey(r) \in DOMAIN p.contentPaths
        /\ q.resources = Append(p.resources, row)
        /\ q.used = p.used /\ q.contentPaths = p.contentPaths
        /\ q.replacements = Mapped(p.replacements, r.url, path)
    BY <1>4, <2>1, <2>2, Zenon DEF Shares
  <2>4. PICK k \in 1 .. n : /\ ContentKey(p.resources[k]) = ContentKey(r)
                            /\ p.resources[k].path = path /\ path # NoPath
    BY <1>1, <2>1, <2>3 DEF Addressing
  <2>5. path \in Paths /\ path # MainPath /\ path \in p.used
    <3>1. p.resources \in Seq(PlanRows) /\ Len(p.resources) = n /\ p.resources[k].path # MainPath
      BY <1>1, <2>4, Zenon DEF Rowed
    <3>2. p.resources[k] \in PlanRows
      BY <3>1
    <3>3. p.resources[k].path \in Paths \cup {NoPath}
      BY <3>2 DEF PlanRows
    <3>4. p.resources[k].path \in p.used
      BY <1>1, <2>4, Zenon DEF Taken
    <3> QED BY <2>4, <3>1, <3>3, <3>4
  <2>6. row \in PlanRows /\ RowOf(row, n + 1) /\ row.path = path /\ row.url = r.url /\ row.body = r.body
    <3>1. FileRow(row, r, n + 1, path)
      BY <2>2, <2>3, <2>5, Zenon DEF FileRow
    <3> QED BY ONLY <3>1, PlannedFile
  <2>7. Rowed(q.resources, n + 1) /\ Extends(q.resources, p.resources, n) /\ q.resources[n + 1] = row
    <3>1. PICK rows : rows = p.resources /\ Rowed(rows, n)
      BY <1>1
    <3>2. PICK new : new = q.resources /\ new = Append(rows, row)
      BY <2>3, <3>1
    <3>3. row \in PlanRows /\ RowOf(row, n + 1)
      BY <2>6
    <3>4. Rowed(new, n + 1) /\ Extends(new, rows, n) /\ new[n + 1] = row
      BY ONLY <3>1, <3>2, <3>3, n \in Nat, RowMore, ZenonT(20)
    <3> QED BY <3>1, <3>2, <3>4
  <2>8. Alike(p.resources[k], row)
    <3>1. ContentKey(row) = ContentKey(r)
      BY <2>6, SameKey
    <3> QED BY <2>3, <2>4, <3>1, KeysDiffer DEF Alike
  <2>9. \A i \in 1 .. n : p.resources[i].path = path => Alike(p.resources[i], row) /\ Alike(row, p.resources[i])
    <3> SUFFICES ASSUME NEW i \in 1 .. n, p.resources[i].path = path
                 PROVE  Alike(p.resources[i], row) /\ Alike(row, p.resources[i])
      OBVIOUS
    <3>1. Alike(p.resources[i], p.resources[k])
      BY <1>1, <2>4, Zenon DEF Shared
    <3> QED BY <2>8, <3>1 DEF Alike
  <2>10. Shared(q.resources, n + 1)
    BY <1>1, <2>6, <2>7, <2>9, NowShared
  <2>11. Redirected(q.resources, n + 1, q.replacements)
    BY <1>1, <2>3, <2>4, <2>6, <2>7, NowRedirected
  <2>12. Taken(q.resources, n + 1, q.used)
    BY <1>1, <2>3, <2>5, <2>6, <2>7, Zenon DEF Taken, Extends
  <2>13. Addressing(q.resources, n + 1, q.contentPaths)
    BY <1>1, <2>3, <2>7, StillAddressing
  <2> QED BY <1>2, <2>7, <2>10, <2>11, <2>12, <2>13 DEF PlanBooks
<1>5. ASSUME NEW path, Adds(p, r, q, path) PROVE PlanBooks(q, n + 1)
  <2>1. PICK row : row = Planned(r, path, "")
    OBVIOUS
  <2>2. /\ r.body # Absent /\ path = DeduplicatePath(Desired(r), p.used)
        /\ q.resources = Append(p.resources, row)
        /\ q.used = p.used \cup {path} /\ q.contentPaths = Mapped(p.contentPaths, ContentKey(r), path)
        /\ q.replacements = Mapped(p.replacements, r.url, path)
    BY <1>5, <2>1, Zenon DEF Adds
  <2>3. path \in Paths /\ path \notin p.used /\ path # MainPath /\ path # NoPath
    <3>1. Desired(r) \in Paths
      BY <2>2, DesiredPath DEF Resources
    <3>2. IsFiniteSet(p.used) /\ MainPath \in p.used
      BY <1>1 DEF Taken
    <3>3. path \in Paths \ p.used
      BY <2>2, <3>1, <3>2, FreshPath
    <3> QED BY <3>2, <3>3, NoPathIsEmpty
  <2>4. row \in PlanRows /\ RowOf(row, n + 1) /\ row.path = path /\ row.url = r.url /\ row.body = r.body
    <3>1. FileRow(row, r, n + 1, path)
      BY <2>1, <2>2, <2>3, Zenon DEF FileRow
    <3> QED BY ONLY <3>1, PlannedFile
  <2>5. Rowed(q.resources, n + 1) /\ Extends(q.resources, p.resources, n) /\ q.resources[n + 1] = row
    <3>1. PICK rows : rows = p.resources /\ Rowed(rows, n)
      BY <1>1
    <3>2. PICK new : new = q.resources /\ new = Append(rows, row)
      BY <2>2, <3>1
    <3>3. row \in PlanRows /\ RowOf(row, n + 1)
      BY <2>4
    <3>4. Rowed(new, n + 1) /\ Extends(new, rows, n) /\ new[n + 1] = row
      BY ONLY <3>1, <3>2, <3>3, n \in Nat, RowMore, ZenonT(20)
    <3> QED BY <3>1, <3>2, <3>4
  <2>6. \A i \in 1 .. n : p.resources[i].path # NoPath => p.resources[i].path \in p.used /\ p.resources[i].path # path
    BY <1>1, <2>3, Zenon DEF Taken
  <2>7. \A i \in 1 .. n : p.resources[i].path = path => Alike(p.resources[i], row) /\ Alike(row, p.resources[i])
    BY <2>3, <2>6
  <2>8. Shared(q.resources, n + 1)
    BY <1>1, <2>4, <2>5, <2>7, NowShared
  <2>9. Redirected(q.resources, n + 1, q.replacements)
    BY <1>1, <2>2, <2>3, <2>4, <2>5, NowRedirected
  <2>10. Taken(q.resources, n + 1, q.used)
    <3>1. IsFiniteSet(q.used) /\ MainPath \in q.used
      <4>1. IsFiniteSet(p.used) /\ MainPath \in p.used
        BY <1>1 DEF Taken
      <4> QED BY <2>2, <4>1, FS_AddElement
    <3>2. \A i \in 1 .. n + 1 : q.resources[i].path # NoPath => q.resources[i].path \in q.used
      <4>1. path \in q.used /\ \A x \in p.used : x \in q.used
        BY <2>2
      <4> QED BY <2>4, <2>5, <2>6, <4>1, Zenon DEF Extends
    <3> QED BY <3>1, <3>2 DEF Taken
  <2>11. Addressing(q.resources, n + 1, q.contentPaths)
    <3>1. ContentKey(row) = ContentKey(r)
      BY <2>4, SameKey
    <3> QED BY <1>1, <2>2, <2>3, <2>4, <2>5, <3>1, NowAddressing
  <2> QED BY <1>2, <2>5, <2>8, <2>9, <2>10, <2>11 DEF PlanBooks
<1>6. PlanBooks(q, n + 1)
  BY <1>2, <1>3, <1>4, <1>5
<1> QED BY <1>6 DEF q

\* What the plan promises to the build.
PlanKept ==
    /\ Rowed(plan.resources, Len(captured)) /\ Shared(plan.resources, Len(captured))
    /\ Redirected(plan.resources, Len(captured), plan.replacements)

\* A build in the making has these fields.
Formed(b) == \E resources, bytes, count, files, limited :
    b = [resources |-> resources, bytes |-> bytes, count |-> count, files |-> files, limited |-> limited]

\* A resource that loses its path, and one that has a file.
Dropped(row, r) ==
    /\ row.url = r.url /\ row.body = r.body /\ row.truncated = r.truncated
    /\ row.path = NoPath /\ row.skip \in Gaps

Drops(b, i, c) ==
    /\ c.limited /\ c.bytes = b.bytes /\ c.count = b.count /\ c.files = b.files
    /\ \E row : Dropped(row, b.resources[i]) /\ c.resources = [b.resources EXCEPT ![i] = row]

FileOf(b, r) == [path |-> r.path, url |-> r.url, body |-> r.body,
    refs |-> IF r.url \in StyleSheets THEN CssReferences(b.resources, r.url) ELSE {}]

Packs(b, i, c) ==
    /\ c.resources = b.resources /\ c.limited = b.limited
    /\ ~\E f \in Range(b.files) : f.path = b.resources[i].path
    /\ b.count < MaxFiles /\ c.count = b.count + 1
    /\ c.bytes \in Int /\ c.bytes <= MaxInputBytes
    /\ c.files = Append(b.files, FileOf(b, b.resources[i]))

LEMMA DroppedForm ==
  ASSUME NEW a, NEW s, NEW t, NEW d, NEW e, NEW x, NEW b, NEW c,
         b = [resources |-> a, bytes |-> s, count |-> t, files |-> d, limited |-> e],
         c = [b EXCEPT !.limited = TRUE, !.resources = x]
  PROVE  c = [resources |-> x, bytes |-> s, count |-> t, files |-> d, limited |-> TRUE]
OBVIOUS

LEMMA PackedForm ==
  ASSUME NEW a, NEW s, NEW t, NEW d, NEW e, NEW x, NEW y, NEW z, NEW b, NEW c,
         b = [resources |-> a, bytes |-> s, count |-> t, files |-> d, limited |-> e],
         c = [b EXCEPT !.bytes = x, !.count = y, !.files = z]
  PROVE  c = [resources |-> a, bytes |-> x, count |-> y, files |-> z, limited |-> e]
OBVIOUS

LEMMA DroppedRow ==
  ASSUME NEW r, NEW x, NEW row, r \in PlanRows, x \in Gaps,
         row = [r EXCEPT !.path = NoPath, !.skip = x]
  PROVE  Dropped(row, r)
<1>1. PICK u, b, t, p, s : r = [url |-> u, body |-> b, truncated |-> t, path |-> p, skip |-> s]
  BY DEF PlanRows
<1>2. row = [url |-> u, body |-> b, truncated |-> t, path |-> NoPath, skip |-> x]
  BY <1>1
<1>3. /\ row.url = r.url /\ row.body = r.body /\ row.truncated = r.truncated
      /\ row.path = NoPath /\ row.skip = x
  BY ONLY <1>1, <1>2
<1> QED BY <1>3 DEF Dropped

LEMMA BuildMoves ==
  ASSUME NEW b, NEW i, Formed(b), b.resources[i] \in PlanRows,
         b.bytes \in Int, b.count \in Nat, growth \in Int,
         b.resources[i].path # NoPath => b.resources[i].skip = "" /\ b.resources[i].body # Absent
  PROVE  /\ Formed(BuildOne(b, i))
         /\ \/ /\ BuildOne(b, i) = b
               /\ b.resources[i].path = NoPath \/ \E f \in Range(b.files) : f.path = b.resources[i].path
            \/ b.resources[i].path # NoPath /\ Drops(b, i, BuildOne(b, i))
            \/ b.resources[i].path # NoPath /\ Packs(b, i, BuildOne(b, i))
<1>1. PICK resources, bytes, count, files, limited :
    b = [resources |-> resources, bytes |-> bytes, count |-> count, files |-> files, limited |-> limited]
  BY DEF Formed
<1> DEFINE r == b.resources[i]
           css == r.url \in StyleSheets
           length == SizeOf[r.body] + IF css THEN growth ELSE 0
           reason == IF b.count >= MaxFiles THEN "FILE_COUNT_BUDGET_EXCEEDED" ELSE "CLONE_INPUT_BUDGET_EXCEEDED"
           there == \E f \in Range(b.files) : f.path = r.path
           drop == [b EXCEPT !.limited = TRUE, !.resources[i] = [@ EXCEPT !.path = NoPath, !.skip = reason]]
           add == [b EXCEPT !.bytes = @ + length, !.count = @ + 1, !.files = Append(@, FileOf(b, r))]
<1>2. BuildOne(b, i) =
        IF r.body = Absent \/ r.path = NoPath \/ r.skip # "" THEN b
        ELSE IF b.count >= MaxFiles \/ b.bytes + SizeOf[r.body] > MaxInputBytes THEN drop
        ELSE IF there THEN b
        ELSE IF b.bytes + length > MaxInputBytes THEN drop
        ELSE add
  BY DEF BuildOne, FileOf
<1>3. Formed(drop) /\ Drops(b, i, drop)
  <2>1. PICK x : x = reason
    OBVIOUS
  <2>2. x \in Gaps
    BY <2>1 DEF Gaps, SkipReasons
  <2>3. PICK row : row = [r EXCEPT !.path = NoPath, !.skip = x]
    OBVIOUS
  <2>4. Dropped(row, r)
    BY <2>2, <2>3, DroppedRow
  <2>5. drop = [b EXCEPT !.limited = TRUE, !.resources = [b.resources EXCEPT ![i] = row]]
    BY <2>1, <2>3
  <2> HIDE DEF drop, r
  <2>6. PICK all : all = [b.resources EXCEPT ![i] = row]
    OBVIOUS
  <2>7. drop = [resources |-> all, bytes |-> bytes, count |-> count, files |-> files, limited |-> TRUE]
    BY <1>1, <2>5, <2>6, DroppedForm
  <2>8. Formed(drop)
    BY <2>7 DEF Formed
  <2>9. drop.limited /\ drop.bytes = b.bytes /\ drop.count = b.count /\ drop.files = b.files /\ drop.resources = all
    BY <1>1, <2>7
  <2> QED BY <2>4, <2>6, <2>8, <2>9 DEF Drops, r
<1>4. ASSUME r.path # NoPath, r.body # Absent, ~(b.count >= MaxFiles), ~there, ~(b.bytes + length > MaxInputBytes)
      PROVE  Formed(add) /\ Packs(b, i, add)
  <2>1. length \in Int
    <3>1. r.body \in Bodies
      BY <1>4 DEF PlanRows
    <3>2. SizeOf[r.body] \in Nat
      BY <3>1, CloneAssumption
    <3>3. CASE css
      <4>1. length = SizeOf[r.body] + growth
        BY <3>3
      <4> QED BY ONLY <3>2, <4>1, growth \in Int
    <3>4. CASE ~css
      <4>1. length = SizeOf[r.body] + 0
        BY <3>4
      <4> QED BY ONLY <3>2, <4>1
    <3> QED BY <3>3, <3>4
  <2>2. PICK more, one, grown : more = b.bytes + length /\ one = b.count + 1 /\ grown = Append(b.files, FileOf(b, r))
    OBVIOUS
  <2>3. add = [b EXCEPT !.bytes = more, !.count = one, !.files = grown]
    BY <2>2
  <2>4. more \in Int /\ more <= MaxInputBytes /\ b.count < MaxFiles
    <3>1. MaxFiles \in Nat /\ MaxInputBytes \in Nat
      BY CloneAssumption
    <3>2. ~(b.count >= MaxFiles) /\ ~(more > MaxInputBytes)
      BY <1>4, <2>2
    <3>3. more = b.bytes + length
      BY <2>2
    <3> QED BY ONLY <2>1, <3>1, <3>2, <3>3, b.bytes \in Int, b.count \in Nat
  <2> HIDE DEF add, r
  <2>5. add = [resources |-> resources, bytes |-> more, count |-> one, files |-> grown, limited |-> limited]
    BY <1>1, <2>3, PackedForm
  <2>6. Formed(add)
    BY <2>5 DEF Formed
  <2>7. /\ add.resources = b.resources /\ add.limited = b.limited /\ add.count = one
        /\ add.bytes = more /\ add.files = grown
    BY <1>1, <2>5
  <2> QED BY <1>4, <2>2, <2>4, <2>6, <2>7 DEF Packs, r
<1>5. r.path # NoPath => r.skip = "" /\ r.body # Absent
  OBVIOUS
<1> DEFINE big == b.bytes + SizeOf[r.body] > MaxInputBytes
           bigger == b.bytes + length > MaxInputBytes
           full == b.count >= MaxFiles
<1> HIDE DEF r, length, reason, there, drop, add, css, big, bigger, full
<1>6. BuildOne(b, i) = b \/ BuildOne(b, i) = drop \/ BuildOne(b, i) = add
  BY <1>2
<1>7. BuildOne(b, i) = IF r.body = Absent \/ r.path = NoPath \/ r.skip # "" THEN b
        ELSE IF full \/ big THEN drop ELSE IF there THEN b ELSE IF bigger THEN drop ELSE add
  BY <1>2 DEF full, big, bigger
<1>8. r.path = NoPath => BuildOne(b, i) = b
  BY <1>7
<1>9. r.path # NoPath => \/ BuildOne(b, i) = drop
                         \/ there /\ BuildOne(b, i) = b
                         \/ ~full /\ ~there /\ ~bigger /\ BuildOne(b, i) = add
  <2>1. r.path # NoPath => BuildOne(b, i) = IF full \/ big THEN drop ELSE IF there THEN b
                                           ELSE IF bigger THEN drop ELSE add
    BY <1>5, <1>7, Zenon
  <2> QED BY ONLY <2>1
<1> QED BY <1>3, <1>4, <1>5, <1>8, <1>9, Zenon DEF r, there, full, bigger

\* A resource in the build is the plan's, until it loses its path; then the build is limited.
RowsLeft(rows, n, limited) ==
    /\ DOMAIN rows = 1 .. Len(captured)
    /\ \A i \in 1 .. Len(captured) :
        rows[i] = plan.resources[i] \/ (i <= n /\ limited /\ Dropped(rows[i], plan.resources[i]))
    /\ limited => \E i \in 1 .. Len(captured) : rows[i].path = NoPath

\* A URL that was redirected, and where to.
Named(ref) == \E i \in 1 .. Len(captured) :
    /\ plan.resources[i].url = ref.url
    /\ plan.resources[i].path = ref.path /\ plan.resources[i].path # NoPath

Files == [path : Paths, url : ResourceUrls, body : Bodies,
          refs : SUBSET [url : ResourceUrls, path : Paths]]

\* A file is that of a resource with its path, whose references are to planned paths.
FromRow(f, rows, i) ==
    /\ rows[i] = plan.resources[i] /\ rows[i].path = f.path /\ rows[i].path # NoPath
    /\ rows[i].url = f.url /\ rows[i].body = f.body /\ \A ref \in f.refs : Named(ref)
FilesFrom(files, rows, n) ==
    /\ files \in Seq(Files)
    /\ \A j \in 1 .. Len(files) : \E i \in 1 .. n : FromRow(files[j], rows, i)
    /\ \A j, k \in 1 .. Len(files) : files[j].path = files[k].path => j = k

Filled(rows, files, n) ==
    \A i \in 1 .. n : rows[i].path # NoPath => \E f \in Range(files) : f.path = rows[i].path

Tallied(b) ==
    /\ b.count = 1 + Len(b.files) /\ b.count <= MaxFiles
    /\ b.bytes \in Int /\ b.bytes <= MaxInputBytes

BuildBooks(b, n) ==
    /\ Formed(b) /\ RowsLeft(b.resources, n, b.limited) /\ FilesFrom(b.files, b.resources, n)
    /\ Filled(b.resources, b.files, n) /\ Tallied(b)

LEMMA BuildStartBooks ==
  ASSUME PlanKept, Len(captured) \in Nat, htmlSize \in Nat, htmlSize <= MaxInputBytes
  PROVE  BuildBooks(BuildStart, 0)
<1>1. Formed(BuildStart)
  BY DEF Formed, BuildStart
<1>2. /\ BuildStart.resources = plan.resources /\ BuildStart.bytes = htmlSize /\ BuildStart.count = 1
      /\ BuildStart.files = <<>> /\ BuildStart.limited = FALSE
  BY DEF BuildStart
<1>3. Len(<<>>) = 0 /\ \A i : i \notin 1 .. 0
  OBVIOUS
<1>4. DOMAIN plan.resources = 1 .. Len(captured)
  <2>1. plan.resources \in Seq(PlanRows) /\ Len(plan.resources) = Len(captured)
    BY DEF PlanKept, Rowed
  <2> QED BY <2>1
<1>5. RowsLeft(BuildStart.resources, 0, BuildStart.limited)
  BY <1>2, <1>4, Zenon DEF RowsLeft
<1>6. FilesFrom(BuildStart.files, BuildStart.resources, 0)
  <2>1. <<>> \in Seq(Files)
    OBVIOUS
  <2> QED BY <1>2, <1>3, <2>1 DEF FilesFrom
<1>7. Filled(BuildStart.resources, BuildStart.files, 0)
  BY <1>3 DEF Filled
<1>8. Tallied(BuildStart)
  <2>1. MaxFiles \in Nat \ {0} /\ MaxInputBytes \in Nat
    BY CloneAssumption
  <2> QED BY <1>2, <1>3, <2>1 DEF Tallied
<1> QED BY <1>1, <1>5, <1>6, <1>7, <1>8 DEF BuildBooks

\* rewriteCss redirects only to planned paths.
LEMMA CssNamed ==
  ASSUME NEW rows, NEW n, NEW limited, NEW u, NEW ref \in CssReferences(rows, u),
         PlanKept, Len(captured) \in Nat, RowsLeft(rows, n, limited)
  PROVE  ref \in [url : ResourceUrls, path : Paths] /\ Named(ref)
<1>1. PICK v : /\ ref = [url |-> v, path |-> CssTarget(rows, v)]
               /\ \E j \in DOMAIN rows : rows[j].url = v /\ rows[j].path # NoPath
  <2> DEFINE Found == {v \in RefersTo[u] : \E i \in DOMAIN rows : rows[i].url = v /\ rows[i].path # NoPath}
  <2>1. ref \in {[url |-> v, path |-> CssTarget(rows, v)] : v \in Found}
    BY DEF CssReferences
  <2>2. \A v \in Found : \E i \in DOMAIN rows : rows[i].url = v /\ rows[i].path # NoPath
    OBVIOUS
  <2> HIDE DEF Found
  <2>3. PICK v \in Found : ref = [url |-> v, path |-> CssTarget(rows, v)]
    BY <2>1
  <2> QED BY <2>2, <2>3
<1> DEFINE at == {i \in DOMAIN rows : rows[i].url = v /\ rows[i].path # NoPath}
<1>2. DOMAIN rows = 1 .. Len(captured)
  BY DEF RowsLeft
<1>3. \E i \in at : \A k \in at : i <= k
  <2> DEFINE R == OpToRel(<, Nat)
  <2>1. IsWellFoundedOn(R, Nat)
    BY NatLessThanWellFounded
  <2>2. at \subseteq Nat /\ at # {}
    BY <1>1, <1>2
  <2> HIDE DEF R, at
  <2>3. PICK i \in at : \A m \in at : <<m, i>> \notin R
    BY <2>1, <2>2, WFMin
  <2>4. \A m \in at : ~(m < i)
    BY <2>2, <2>3 DEF R, OpToRel
  <2>5. \A m \in at : i <= m
    BY <2>2, <2>4
  <2> QED BY <2>5
<1>4. PICK i : i = (CHOOSE l \in at : \A k \in at : l <= k) /\ i \in at
  BY <1>3
<1>5. CssTarget(rows, v) = rows[i].path
  BY <1>4 DEF CssTarget
<1>6. i \in 1 .. Len(captured) /\ rows[i].url = v /\ rows[i].path # NoPath
  BY <1>2, <1>4
<1>7. rows[i] = plan.resources[i]
  BY <1>6, Zenon DEF RowsLeft, Dropped
<1>8. plan.resources[i] \in PlanRows
  <2>1. plan.resources \in Seq(PlanRows) /\ Len(plan.resources) = Len(captured)
    BY DEF PlanKept, Rowed
  <2> QED BY <1>6, <2>1
<1>9. v \in ResourceUrls /\ rows[i].path \in Paths
  <2>1. rows[i].url \in ResourceUrls /\ rows[i].path \in Paths \cup {NoPath}
    BY <1>7, <1>8 DEF PlanRows
  <2> QED BY <1>6, <2>1
<1>10. ref.url = v /\ ref.path = rows[i].path
  BY <1>1, <1>5
<1> HIDE DEF at
<1>11. ref \in [url : ResourceUrls, path : Paths]
  BY <1>1, <1>5, <1>9
<1>12. Named(ref)
  BY <1>6, <1>7, <1>10, Zenon DEF Named
<1> QED BY <1>11, <1>12

LEMMA PlanRow ==
  ASSUME NEW i \in 1 .. Len(captured), PlanKept, Len(captured) \in Nat
  PROVE  /\ plan.resources[i] \in PlanRows
         /\ plan.resources[i].path = NoPath => plan.resources[i].skip \in Gaps
         /\ plan.resources[i].path # NoPath =>
                plan.resources[i].skip = "" /\ plan.resources[i].body # Absent /\ plan.resources[i].path # MainPath
         /\ plan.resources[i].url = captured[i].url /\ plan.resources[i].body = captured[i].body
         /\ plan.resources[i].truncated = captured[i].truncated
<1>1. plan.resources \in Seq(PlanRows) /\ Len(plan.resources) = Len(captured)
  BY DEF PlanKept, Rowed
<1>2. plan.resources[i] \in PlanRows
  BY <1>1
<1> QED BY <1>2, Zenon DEF PlanKept, Rowed

LEMMA BuildStep ==
  ASSUME NEW n \in Nat, NEW b, n + 1 \in 1 .. Len(captured), PlanKept, Len(captured) \in Nat,
         growth \in Int, BuildBooks(b, n)
  PROVE  BuildBooks(BuildOne(b, n + 1), n + 1)
<1> DEFINE c == BuildOne(b, n + 1)
           m == n + 1
<1>1. /\ Formed(b) /\ RowsLeft(b.resources, n, b.limited) /\ FilesFrom(b.files, b.resources, n)
      /\ Filled(b.resources, b.files, n) /\ Tallied(b)
  BY DEF BuildBooks
<1>2. m \in 1 .. Len(captured) /\ ~(m <= n)
  OBVIOUS
<1>3. /\ \A i \in 1 .. n : i \in 1 .. m /\ i # m
      /\ \A i \in 1 .. m : i \in 1 .. n \/ i = m
      /\ \A i \in 1 .. Len(captured) : i <= n => i <= m
      /\ \A i \in 1 .. Len(captured) : i <= n => i # m
      /\ m \in 1 .. m /\ m <= m
  OBVIOUS
<1> HIDE DEF m
<1>4. b.resources[m] = plan.resources[m]
  BY <1>1, <1>2, Zenon DEF RowsLeft
<1>5. /\ b.resources[m] \in PlanRows
      /\ b.resources[m].path # NoPath => b.resources[m].skip = "" /\ b.resources[m].body # Absent
  BY <1>2, <1>4, PlanRow
<1>6. b.files \in Seq(Files) /\ Len(b.files) \in Nat /\ b.count \in Nat /\ b.bytes \in Int
  <2>1. b.files \in Seq(Files)
    BY <1>1 DEF FilesFrom
  <2>2. Len(b.files) \in Nat
    BY <2>1
  <2> QED BY <1>1, <2>1, <2>2 DEF Tallied
<1>7. /\ Formed(c)
      /\ \/ c = b /\ (b.resources[m].path = NoPath \/ \E f \in Range(b.files) : f.path = b.resources[m].path)
         \/ b.resources[m].path # NoPath /\ Drops(b, m, c)
         \/ b.resources[m].path # NoPath /\ Packs(b, m, c)
  BY <1>1, <1>5, <1>6, BuildMoves DEF m
<1> HIDE DEF c
<1>8. ASSUME c = b, b.resources[m].path = NoPath \/ \E f \in Range(b.files) : f.path = b.resources[m].path
      PROVE  BuildBooks(c, m)
  <2>1. RowsLeft(b.resources, m, b.limited)
    BY <1>1, <1>3, Zenon DEF RowsLeft
  <2>2. FilesFrom(b.files, b.resources, m)
    BY <1>1, <1>3, Zenon DEF FilesFrom
  <2>3. Filled(b.resources, b.files, m)
    BY <1>1, <1>3, <1>8, Zenon DEF Filled
  <2> QED BY <1>1, <1>8, <2>1, <2>2, <2>3 DEF BuildBooks
<1>9. ASSUME Drops(b, m, c) PROVE BuildBooks(c, m)
  <2>1. c.limited /\ c.bytes = b.bytes /\ c.count = b.count /\ c.files = b.files
    BY <1>9 DEF Drops
  <2>2. PICK row : Dropped(row, b.resources[m]) /\ c.resources = [b.resources EXCEPT ![m] = row]
    BY <1>9 DEF Drops
  <2>3. /\ DOMAIN c.resources = 1 .. Len(captured) /\ c.resources[m] = row
        /\ \A i \in 1 .. Len(captured) : i # m => c.resources[i] = b.resources[i]
    <3>1. DOMAIN b.resources = 1 .. Len(captured)
      BY <1>1 DEF RowsLeft
    <3> QED BY <1>2, <2>2, <3>1
  <2>4. Dropped(row, plan.resources[m]) /\ row.path = NoPath
    BY <1>4, <2>2 DEF Dropped
  <2>5. \A i \in 1 .. n : i \in 1 .. Len(captured) /\ c.resources[i] = b.resources[i]
    <3>1. \A i \in 1 .. n : i \in 1 .. Len(captured)
      BY <1>2 DEF m
    <3> QED BY <1>3, <2>3, <3>1
  <2>6. RowsLeft(c.resources, m, c.limited)
    <3>1. ASSUME NEW i \in 1 .. Len(captured)
          PROVE  c.resources[i] = plan.resources[i] \/ (i <= m /\ c.limited /\ Dropped(c.resources[i], plan.resources[i]))
      <4>1. CASE i = m
        BY <1>3, <2>1, <2>3, <2>4, <4>1, Zenon
      <4>2. CASE i # m
        <5>1. c.resources[i] = b.resources[i]
          BY <2>3, <4>2
        <5>2. b.resources[i] = plan.resources[i] \/ (i <= n /\ Dropped(b.resources[i], plan.resources[i]))
          BY <1>1, Zenon DEF RowsLeft
        <5> QED BY <1>3, <2>1, <5>1, <5>2, Zenon
      <4> QED BY <4>1, <4>2
    <3> QED BY <1>2, <2>3, <2>4, <3>1, Zenon DEF RowsLeft
  <2>7. FilesFrom(c.files, c.resources, m)
    <3>1. ASSUME NEW j \in 1 .. Len(b.files) PROVE \E i \in 1 .. m : FromRow(b.files[j], c.resources, i)
      <4>1. PICK i \in 1 .. n : FromRow(b.files[j], b.resources, i)
        BY <1>1 DEF FilesFrom
      <4> QED BY <1>3, <2>5, <4>1, Zenon DEF FromRow
    <3> QED BY <1>1, <2>1, <3>1, Zenon DEF FilesFrom
  <2>8. Filled(c.resources, c.files, m)
    <3> SUFFICES ASSUME NEW i \in 1 .. m, c.resources[i].path # NoPath
                 PROVE  \E f \in Range(b.files) : f.path = c.resources[i].path
      BY <2>1, Zenon DEF Filled
    <3>1. i \in 1 .. n
      BY <1>3, <2>3, <2>4, Zenon
    <3>2. c.resources[i] = b.resources[i]
      BY <2>5, <3>1
    <3> QED BY <1>1, <3>1, <3>2, Zenon DEF Filled
  <2>9. Tallied(c)
    BY <1>1, <2>1 DEF Tallied
  <2> QED BY <1>7, <2>6, <2>7, <2>8, <2>9 DEF BuildBooks
<1>10. ASSUME b.resources[m].path # NoPath, Packs(b, m, c) PROVE BuildBooks(c, m)
  <2> DEFINE r == b.resources[m]
             refs == IF r.url \in StyleSheets THEN CssReferences(b.resources, r.url) ELSE {}
  <2>1. PICK f : f = FileOf(b, r)
    OBVIOUS
  <2>2. /\ c.resources = b.resources /\ c.limited = b.limited /\ c.files = Append(b.files, f)
        /\ ~\E g \in Range(b.files) : g.path = r.path
        /\ b.count < MaxFiles /\ c.count = b.count + 1 /\ c.bytes \in Int /\ c.bytes <= MaxInputBytes
    BY <1>10, <2>1, Zenon DEF Packs
  <2>3. f.path = r.path /\ f.url = r.url /\ f.body = r.body /\ f.refs = refs
    <3> HIDE DEF r
    <3> QED BY <2>1 DEF FileOf
  <2>4. \A ref \in refs : ref \in [url : ResourceUrls, path : Paths] /\ Named(ref)
    BY <1>1, CssNamed
  <2>5. r.path \in Paths /\ r.url \in ResourceUrls /\ r.body \in Bodies
    BY <1>5, <1>10 DEF PlanRows
  <2> HIDE DEF r, refs
  <2>6. f \in Files
    <3>1. f = [path |-> r.path, url |-> r.url, body |-> r.body, refs |-> refs]
      BY <2>1 DEF FileOf, refs
    <3>2. refs \in SUBSET [url : ResourceUrls, path : Paths]
      BY <2>4
    <3> QED BY ONLY <2>5, <3>1, <3>2 DEF Files
  <2>7. /\ c.files \in Seq(Files) /\ Len(c.files) = Len(b.files) + 1
        /\ \A i \in 1 .. Len(b.files) : c.files[i] = b.files[i]
        /\ c.files[Len(b.files) + 1] = f
        /\ Range(c.files) = Range(b.files) \cup {f}
    BY <1>6, <2>2, <2>6, Appending
  <2>8. \A j \in 1 .. Len(c.files) : j \in 1 .. Len(b.files) \/ j = Len(b.files) + 1
    BY <1>6, <2>7
  <2>9. RowsLeft(c.resources, m, c.limited)
    BY <1>1, <1>3, <2>2, Zenon DEF RowsLeft
  <2>10. FromRow(f, c.resources, m)
    BY <1>4, <1>10, <2>2, <2>3, <2>4, Zenon DEF FromRow, r
  <2>11. \A j \in 1 .. Len(b.files) : b.files[j].path # f.path
    <3>1. \A j \in 1 .. Len(b.files) : b.files[j] \in Range(b.files)
      BY <1>6 DEF Range
    <3> QED BY <2>2, <2>3, <3>1, Zenon
  <2>12. FilesFrom(c.files, c.resources, m)
    <3>1. ASSUME NEW j \in 1 .. Len(c.files) PROVE \E i \in 1 .. m : FromRow(c.files[j], c.resources, i)
      <4>1. CASE j \in 1 .. Len(b.files)
        <5>1. PICK i \in 1 .. n : FromRow(b.files[j], b.resources, i)
          BY <1>1, <4>1 DEF FilesFrom
        <5> QED BY <1>3, <2>2, <2>7, <4>1, <5>1, Zenon
      <4>2. CASE j = Len(b.files) + 1
        BY <1>3, <2>7, <2>10, <4>2, Zenon
      <4> QED BY <2>8, <4>1, <4>2
    <3>2. ASSUME NEW j \in 1 .. Len(c.files), NEW k \in 1 .. Len(c.files), c.files[j].path = c.files[k].path
          PROVE  j = k
      <4>1. CASE j \in 1 .. Len(b.files) /\ k \in 1 .. Len(b.files)
        BY <1>1, <2>7, <3>2, <4>1, Zenon DEF FilesFrom
      <4>2. CASE j \in 1 .. Len(b.files) /\ k = Len(b.files) + 1
        BY <2>7, <2>11, <3>2, <4>2, Zenon
      <4>3. CASE j = Len(b.files) + 1 /\ k \in 1 .. Len(b.files)
        BY <2>7, <2>11, <3>2, <4>3, Zenon
      <4>4. CASE j = Len(b.files) + 1 /\ k = Len(b.files) + 1
        BY <4>4
      <4> QED BY <2>8, <4>1, <4>2, <4>3, <4>4, Zenon
    <3> QED BY <2>7, <3>1, <3>2 DEF FilesFrom
  <2>13. Filled(c.resources, c.files, m)
    <3>1. f \in Range(c.files) /\ \A g \in Range(b.files) : g \in Range(c.files)
      BY <2>7
    <3> QED BY <1>1, <1>3, <2>2, <2>3, <3>1, Zenon DEF Filled, r
  <2>14. Tallied(c)
    <3>1. MaxFiles \in Nat
      BY CloneAssumption
    <3>2. b.count = 1 + Len(b.files)
      BY <1>1 DEF Tallied
    <3> QED BY <1>6, <2>2, <2>7, <3>1, <3>2 DEF Tallied
  <2> QED BY <1>7, <2>9, <2>12, <2>13, <2>14 DEF BuildBooks
<1>11. BuildBooks(c, m)
  BY <1>7, <1>8, <1>9, <1>10
<1> QED BY <1>11 DEF c, m

\* The plan and the build keep their books to the end.
LEMMA PlanHolds ==
  ASSUME captured \in Seq(Resources)
  PROVE  PlanBooks(Plan, Len(captured))
<1> DEFINE N == Len(captured)
<1>1. N \in Nat
  OBVIOUS
<1>2. PICK f : Plans(f) /\ Plan = f[N]
  BY <1>1, PlansExist
<1>3. /\ f[0] = PlanStart
      /\ \A n \in 1 .. N : f[n] = PlanOne(f[n - 1], captured[n])
  <2>1. f = [n \in 0 .. N |-> IF n = 0 THEN PlanStart ELSE PlanOne(f[n - 1], captured[n])]
    BY <1>2 DEF Plans
  <2>2. \A n \in 0 .. N : f[n] = IF n = 0 THEN PlanStart ELSE PlanOne(f[n - 1], captured[n])
    BY ONLY <2>1
  <2>3. 0 \in 0 .. N /\ \A n \in 1 .. N : n \in 0 .. N /\ n # 0
    BY <1>1
  <2> HIDE DEF N
  <2> QED BY <2>2, <2>3
<1> DEFINE Bad == {n \in 0 .. N : ~PlanBooks(f[n], n)}
<1>4. Bad = {}
  <2> SUFFICES ASSUME Bad # {} PROVE FALSE
    OBVIOUS
  <2> DEFINE R == OpToRel(<, Nat)
  <2>1. IsWellFoundedOn(R, Nat)
    BY NatLessThanWellFounded
  <2>2. Bad \subseteq Nat
    OBVIOUS
  <2> HIDE DEF R
  <2>3. PICK n \in Bad : \A m \in Bad : <<m, n>> \notin R
    BY <2>1, <2>2, WFMin
  <2>4. n \in 0 .. N /\ ~PlanBooks(f[n], n)
    OBVIOUS
  <2>5. n # 0
    BY <1>3, <2>4, PlanStartBooks
  <2>6. n \in 1 .. N /\ n - 1 \in Nat /\ n - 1 \in 0 .. N /\ n - 1 < n /\ n - 1 + 1 = n /\ n \in Nat
    BY <1>1, <2>4, <2>5
  <2>7. <<n - 1, n>> \in R
    BY <2>6 DEF R, OpToRel
  <2>8. n - 1 \notin Bad
    BY <2>3, <2>7
  <2>9. PlanBooks(f[n - 1], n - 1)
    BY <2>6, <2>8
  <2>10. captured[n] \in Resources
    BY <2>6
  <2>11. PICK k \in Nat : k = n - 1
    BY <2>6
  <2>12. PICK r \in Resources : r = captured[k + 1]
    BY <2>6, <2>10, <2>11
  <2>13. PlanBooks(PlanOne(f[k], r), k + 1)
    BY <2>9, <2>11, <2>12, PlanStep
  <2>14. k + 1 = n /\ f[n] = PlanOne(f[k], r)
    BY <1>3, <2>6, <2>11, <2>12
  <2> QED BY <2>4, <2>13, <2>14
<1>5. PlanBooks(f[N], N)
  <2>1. N \in 0 .. N
    BY <1>1
  <2> QED BY <1>4, <2>1
<1> QED BY <1>2, <1>5

LEMMA BuildHolds ==
  ASSUME captured \in Seq(Resources), PlanKept, growth \in Int, htmlSize \in Nat, htmlSize <= MaxInputBytes
  PROVE  BuildBooks(Packed, Len(captured))
<1> DEFINE N == Len(captured)
<1>1. N \in Nat
  OBVIOUS
<1>2. PICK f : Builds(f) /\ Packed = f[N]
  BY <1>1, BuildsExist
<1>3. /\ f[0] = BuildStart
      /\ \A n \in 1 .. N : f[n] = BuildOne(f[n - 1], n)
  <2>1. f = [n \in 0 .. N |-> IF n = 0 THEN BuildStart ELSE BuildOne(f[n - 1], n)]
    BY <1>2 DEF Builds
  <2>2. \A n \in 0 .. N : f[n] = IF n = 0 THEN BuildStart ELSE BuildOne(f[n - 1], n)
    BY ONLY <2>1
  <2>3. 0 \in 0 .. N /\ \A n \in 1 .. N : n \in 0 .. N /\ n # 0
    BY <1>1
  <2> HIDE DEF N
  <2> QED BY <2>2, <2>3
<1> DEFINE Bad == {n \in 0 .. N : ~BuildBooks(f[n], n)}
<1>4. Bad = {}
  <2> SUFFICES ASSUME Bad # {} PROVE FALSE
    OBVIOUS
  <2> DEFINE R == OpToRel(<, Nat)
  <2>1. IsWellFoundedOn(R, Nat)
    BY NatLessThanWellFounded
  <2>2. Bad \subseteq Nat
    OBVIOUS
  <2> HIDE DEF R
  <2>3. PICK n \in Bad : \A m \in Bad : <<m, n>> \notin R
    BY <2>1, <2>2, WFMin
  <2>4. n \in 0 .. N /\ ~BuildBooks(f[n], n)
    OBVIOUS
  <2>5. n # 0
    <3>1. BuildBooks(BuildStart, 0)
      BY <1>1, BuildStartBooks
    <3> QED BY <1>3, <2>4, <3>1
  <2>6. n \in 1 .. N /\ n - 1 \in Nat /\ n - 1 \in 0 .. N /\ n - 1 < n /\ n - 1 + 1 = n /\ n \in Nat
    BY <1>1, <2>4, <2>5
  <2>7. <<n - 1, n>> \in R
    BY <2>6 DEF R, OpToRel
  <2>8. n - 1 \notin Bad
    BY <2>3, <2>7
  <2>9. BuildBooks(f[n - 1], n - 1)
    BY <2>6, <2>8
  <2>10. PICK k \in Nat : k = n - 1
    BY <2>6
  <2>11. k + 1 = n /\ k + 1 \in 1 .. N /\ f[n] = BuildOne(f[k], k + 1)
    BY <1>3, <2>6, <2>10
  <2>12. BuildBooks(f[k], k)
    BY <2>9, <2>10
  <2>13. BuildBooks(BuildOne(f[k], k + 1), k + 1)
    BY <1>1, <2>11, <2>12, BuildStep
  <2> QED BY <2>4, <2>11, <2>13
<1>5. BuildBooks(f[N], N)
  <2>1. N \in 0 .. N
    BY <1>1
  <2> QED BY <1>4, <2>1
<1> QED BY <1>2, <1>5

LEMMA CodeOf ==
  ASSUME NEW s, NEW t, NEW l
  PROVE  /\ Code(s, t, l) = "COMPLETE" <=> s = 0 /\ ~t
         /\ s # 0 /\ l => Code(s, t, l) = "BUDGET_LIMITED"
BY DEF Code

\* What the archive of a finished build says.
EntriesSay(b, B) == \A i \in 1 .. Len(captured) :
    /\ B.manifest[i].packed <=> b.resources[i].path # NoPath
    /\ B.manifest[i].packed <=> B.manifest[i].reason = ""
CodeSays(b, B) ==
    /\ B.code = "COMPLETE" <=> \A i \in 1 .. Len(captured) : B.manifest[i].packed /\ ~captured[i].truncated
    /\ b.limited => B.code = "BUDGET_LIMITED"
CountsSay(b, B) ==
    /\ B.files = b.files /\ B.packaged = b.count /\ B.bytes = b.bytes /\ B.status # "FAILED"
    /\ B.skipped \in Nat /\ B.skipped + Len(b.files) <= Len(captured)

LEMMA OutcomeSays ==
  ASSUME NEW b, PlanKept, captured \in Seq(Resources), BuildBooks(b, Len(captured))
  PROVE  EntriesSay(b, Outcome(b)) /\ CodeSays(b, Outcome(b)) /\ CountsSay(b, Outcome(b))
<1> DEFINE N == Len(captured)
           manifest == [i \in DOMAIN captured |-> Entry(b, b.resources[i])]
           Out == {i \in DOMAIN manifest : ~manifest[i].packed}
           skipped == Cardinality(Out)
           cut == \E i \in DOMAIN manifest : manifest[i].truncated
           code == Code(skipped, cut, b.limited)
           status == IF code = "COMPLETE" THEN "PUBLISHED" ELSE "PARTIAL"
           B == Outcome(b)
<1>1. B = [status |-> status, code |-> code, packaged |-> b.count, skipped |-> skipped,
           bytes |-> b.bytes, files |-> b.files, manifest |-> manifest]
  BY DEF Outcome
<1>2. /\ B.files = b.files /\ B.packaged = b.count /\ B.bytes = b.bytes /\ B.status = status
      /\ B.code = code /\ B.skipped = skipped /\ B.manifest = manifest
  <2> HIDE DEF B, status, code, skipped, manifest
  <2> QED BY <1>1
<1>3. status # "FAILED"
  <2> HIDE DEF code
  <2> QED OBVIOUS
<1>4. N \in Nat /\ DOMAIN captured = 1 .. N /\ DOMAIN manifest = 1 .. N
  OBVIOUS
<1>5. /\ RowsLeft(b.resources, N, b.limited) /\ FilesFrom(b.files, b.resources, N)
      /\ Filled(b.resources, b.files, N)
  BY DEF BuildBooks
<1>6. ASSUME NEW i \in 1 .. N
      PROVE  /\ manifest[i].packed <=> b.resources[i].path # NoPath
             /\ manifest[i].packed <=> manifest[i].reason = ""
             /\ manifest[i].truncated = captured[i].truncated
  <2> DEFINE row == b.resources[i]
  <2>1. manifest[i] = Entry(b, row)
    BY <1>4
  <2>2. row.path = NoPath => row.skip \in Gaps
    BY <1>4, <1>5, PlanRow, Zenon DEF RowsLeft, Dropped
  <2>3. row.truncated = captured[i].truncated
    BY <1>4, <1>5, PlanRow, Zenon DEF RowsLeft, Dropped
  <2>4. row.path # NoPath => \E f \in Range(b.files) : f.path = row.path
    BY <1>5, Zenon DEF Filled
  <2> HIDE DEF row, manifest
  <2>5. CASE row.path # NoPath
    <3>1. PICK none : none = ""
      OBVIOUS
    <3>2. Entry(b, row) = [url |-> row.url, packed |-> TRUE, truncated |-> row.truncated, reason |-> none]
      BY <2>4, <2>5, <3>1, Zenon DEF Entry
    <3>3. manifest[i].packed = TRUE /\ manifest[i].reason = none /\ manifest[i].truncated = row.truncated
      BY ONLY <2>1, <3>2
    <3> QED BY <2>3, <2>5, <3>1, <3>3, Zenon DEF row
  <2>6. CASE row.path = NoPath
    <3>1. row.skip # ""
      BY <2>2, <2>6 DEF Gaps
    <3>2. Entry(b, row) = [url |-> row.url, packed |-> FALSE, truncated |-> row.truncated, reason |-> row.skip]
      BY <2>6, <3>1, Zenon DEF Entry
    <3>3. manifest[i].packed = FALSE /\ manifest[i].reason = row.skip /\ manifest[i].truncated = row.truncated
      BY ONLY <2>1, <3>2
    <3> QED BY <2>3, <2>6, <3>1, <3>3, Zenon DEF row
  <2> QED BY <2>5, <2>6
<1> HIDE DEF manifest, B, N
<1>7. \A i : i \in Out <=> i \in 1 .. N /\ ~manifest[i].packed
  BY <1>4
<1>8. IsFiniteSet(1 .. N) /\ Cardinality(1 .. N) = N /\ Out \subseteq 1 .. N
  BY <1>4, <1>7, IntervalCounted
<1>9. IsFiniteSet(Out) /\ skipped \in Nat /\ (skipped = 0 <=> Out = {})
  <2>1. IsFiniteSet(Out)
    BY <1>8, FS_Subset
  <2> HIDE DEF Out
  <2> QED BY <2>1, FS_CardinalityType, FS_EmptySet
<1> HIDE DEF Out, skipped
<1>10. code = "COMPLETE" <=> \A i \in 1 .. N : manifest[i].packed /\ ~captured[i].truncated
  <2>1. code = "COMPLETE" <=> skipped = 0 /\ ~cut
    BY CodeOf
  <2>2. skipped = 0 <=> \A i \in 1 .. N : manifest[i].packed
    BY <1>7, <1>9, Zenon
  <2>3. cut <=> \E i \in 1 .. N : captured[i].truncated
    BY <1>4, <1>6, Zenon
  <2> HIDE DEF code, cut
  <2> QED BY <2>1, <2>2, <2>3, Zenon
<1>11. b.limited => code = "BUDGET_LIMITED"
  <2> SUFFICES ASSUME b.limited PROVE code = "BUDGET_LIMITED"
    OBVIOUS
  <2>1. PICK i \in 1 .. N : b.resources[i].path = NoPath
    BY <1>5, Zenon DEF RowsLeft, N
  <2>2. i \in Out
    BY <1>6, <1>7, <2>1, Zenon
  <2>3. skipped # 0
    BY <1>9, <2>2
  <2> HIDE DEF cut
  <2> QED BY <2>3, CodeOf
<1>12. skipped + Len(b.files) <= N
  <2> DEFINE L == Len(b.files)
             In == (1 .. N) \ Out
             Source(j) == CHOOSE i \in 1 .. N : FromRow(b.files[j], b.resources, i)
             g == [j \in 1 .. L |-> Source(j)]
  <2>1. L \in Nat
    <3>1. b.files \in Seq(Files)
      BY <1>5 DEF FilesFrom
    <3> QED BY <3>1
  <2>2. ASSUME NEW j \in 1 .. L PROVE Source(j) \in In /\ FromRow(b.files[j], b.resources, Source(j))
    <3>1. \E i \in 1 .. N : FromRow(b.files[j], b.resources, i)
      BY <1>5, Zenon DEF FilesFrom
    <3>2. Source(j) \in 1 .. N /\ FromRow(b.files[j], b.resources, Source(j))
      BY <3>1, Zenon
    <3> HIDE DEF Source
    <3>3. b.resources[Source(j)].path # NoPath
      BY <3>2 DEF FromRow
    <3>4. Source(j) \notin Out
      BY <1>6, <1>7, <3>2, <3>3, Zenon
    <3> QED BY <3>2, <3>4
  <2>3. ASSUME NEW j \in 1 .. L, NEW k \in 1 .. L, Source(j) = Source(k) PROVE j = k
    <3> HIDE DEF Source
    <3>1. b.files[j].path = b.files[k].path
      BY <2>2, <2>3, Zenon DEF FromRow
    <3> QED BY <1>5, <3>1, Zenon DEF FilesFrom
  <2> HIDE DEF Source
  <2>4. g \in Injection(1 .. L, In)
    <3>1. g \in [1 .. L -> In]
      BY <2>2
    <3>2. \A j, k \in 1 .. L : g[j] = g[k] => j = k
      BY <2>3
    <3> HIDE DEF g
    <3> QED BY <3>1, <3>2 DEF Injection, IsInjective
  <2>5. IsFiniteSet(1 .. L) /\ Cardinality(1 .. L) = L
    BY <2>1, IntervalCounted
  <2>6. IsFiniteSet(In) /\ Cardinality(In) = N - skipped
    <3>1. (1 .. N) \cap Out = Out
      BY <1>8
    <3>2. IsFiniteSet(In) /\ Cardinality(In) = Cardinality(1 .. N) - Cardinality((1 .. N) \cap Out)
      BY <1>8, FS_Difference
    <3> QED BY <1>8, <3>1, <3>2 DEF skipped
  <2> HIDE DEF g, In
  <2>7. Cardinality(1 .. L) <= Cardinality(In)
    BY <2>4, <2>5, <2>6, FS_Injection
  <2> HIDE DEF L
  <2>8. L <= N - skipped
    BY <2>5, <2>6, <2>7
  <2>9. skipped + L <= N
    BY <1>4, <1>9, <2>1, <2>8
  <2> QED BY <2>9 DEF L
<1> HIDE DEF code, status, cut
<1>13. \A i \in 1 .. N : /\ B.manifest[i].packed <=> b.resources[i].path # NoPath
                         /\ B.manifest[i].packed <=> B.manifest[i].reason = ""
  BY <1>2, <1>6, Zenon
<1>14. B.code = "COMPLETE" <=> \A i \in 1 .. N : B.manifest[i].packed /\ ~captured[i].truncated
  BY <1>2, <1>10, Zenon
<1>15. b.limited => B.code = "BUDGET_LIMITED"
  BY <1>2, <1>11, Zenon
<1>16. B.skipped \in Nat /\ B.skipped + Len(b.files) <= N
  BY <1>2, <1>9, <1>12
<1>17. B.files = b.files /\ B.packaged = b.count /\ B.bytes = b.bytes /\ B.status # "FAILED"
  BY <1>2, <1>3, Zenon
<1>18. EntriesSay(b, B)
  <2>1. \A i \in 1 .. Len(captured) : /\ B.manifest[i].packed <=> b.resources[i].path # NoPath
                                      /\ B.manifest[i].packed <=> B.manifest[i].reason = ""
    BY <1>13, Zenon DEF N
  <2> QED BY ONLY <2>1, Zenon DEF EntriesSay
<1>19. CodeSays(b, B)
  <2>1. B.code = "COMPLETE" <=> \A i \in 1 .. Len(captured) : B.manifest[i].packed /\ ~captured[i].truncated
    BY <1>14, Zenon DEF N
  <2> QED BY ONLY <1>15, <2>1, Zenon DEF CodeSays
<1>20. CountsSay(b, B)
  <2>1. B.skipped \in Nat /\ B.skipped + Len(b.files) <= Len(captured)
    BY <1>16, Zenon DEF N
  <2> QED BY ONLY <1>17, <2>1, Zenon DEF CountsSay
<1> QED BY <1>18, <1>19, <1>20 DEF B

\* A clone's plan and its build, phase by phase.
BuildKept == build = Failed \/ \E b : BuildBooks(b, Len(captured)) /\ build = Outcome(b)

CloneInv ==
    /\ captured \in Seq(Resources) /\ htmlSize \in Nat /\ growth \in Int
    /\ phase = "captured" => plan = Nothing
    /\ phase # "captured" => PlanKept
    /\ phase = "built" => BuildKept

LEMMA PlanStays ==
  ASSUME captured' = captured, plan' = plan, PlanKept
  PROVE  PlanKept'
BY DEF PlanKept, Rowed, Shared, Redirected

LEMMA BooksStay ==
  ASSUME NEW b, NEW n, captured' = captured, plan' = plan, BuildBooks(b, n)
  PROVE  BuildBooks(b, n)' /\ Outcome(b)' = Outcome(b)
<1>1. RowsLeft(b.resources, n, b.limited)'
  BY DEF BuildBooks, RowsLeft
<1>2. \A f, i : FromRow(f, b.resources, i)' <=> FromRow(f, b.resources, i)
  BY DEF FromRow, Named
<1>3. FilesFrom(b.files, b.resources, n)'
  BY <1>2, Zenon DEF BuildBooks, FilesFrom
<1>4. BuildBooks(b, n)'
  BY <1>1, <1>3 DEF BuildBooks
<1>5. Outcome(b)' = Outcome(b)
  BY DEF Outcome
<1> QED BY <1>4, <1>5

LEMMA CloneStarts == CloneInit => CloneInv
<1> SUFFICES ASSUME CloneInit PROVE CloneInv
  OBVIOUS
<1>1. captured \in Seq(Resources)
  <2>1. PICK n \in 0 .. MaxResources : captured \in [1 .. n -> Resources]
    BY DEF CloneInit
  <2>2. n \in Nat
    BY <2>1, CloneAssumption
  <2> QED BY <2>1, <2>2, Listing
<1>2. htmlSize \in Nat /\ growth \in Int
  <2>1. htmlSize \in HtmlSizes /\ growth = 0
    BY DEF CloneInit
  <2> QED BY <2>1, CloneAssumption
<1>3. phase = "captured" /\ plan = Nothing
  BY DEF CloneInit
<1> QED BY <1>1, <1>2, <1>3 DEF CloneInv

LEMMA CloneGoes == CloneInv /\ [CloneNext]_cloneVars => CloneInv'
<1> SUFFICES ASSUME CloneInv, [CloneNext]_cloneVars PROVE CloneInv'
  OBVIOUS
<1>0. /\ captured \in Seq(Resources) /\ htmlSize \in Nat /\ growth \in Int
      /\ phase = "captured" => plan = Nothing
      /\ phase # "captured" => PlanKept
      /\ phase = "built" => BuildKept
  BY DEF CloneInv
<1>1. ASSUME PlanStaticClone PROVE CloneInv'
  <2>1. /\ phase' = "planned" /\ captured' = captured /\ htmlSize' = htmlSize /\ growth' = growth
        /\ plan' = [resources |-> Plan.resources, replacements |-> Plan.replacements]
    BY <1>1 DEF PlanStaticClone
  <2>2. /\ Rowed(Plan.resources, Len(captured)) /\ Shared(Plan.resources, Len(captured))
        /\ Redirected(Plan.resources, Len(captured), Plan.replacements)
    BY <1>0, PlanHolds DEF PlanBooks
  <2>3. PICK rows, replacements : rows = Plan.resources /\ replacements = Plan.replacements
    OBVIOUS
  <2>4. plan'.resources = rows /\ plan'.replacements = replacements
    BY <2>1, <2>3
  <2>5. Rowed(rows, Len(captured)) /\ Shared(rows, Len(captured)) /\ Redirected(rows, Len(captured), replacements)
    BY <2>2, <2>3
  <2>6. Rowed(rows, Len(captured))' /\ Shared(rows, Len(captured))' /\ Redirected(rows, Len(captured), replacements)'
    BY <2>1, <2>5, Zenon DEF Rowed, Shared, Redirected
  <2>7. PlanKept'
    BY <2>4, <2>6, Zenon DEF PlanKept
  <2> QED BY <1>0, <2>1, <2>7 DEF CloneInv
<1>2. ASSUME RewriteHtml PROVE CloneInv'
  <2>1. /\ phase = "planned" /\ phase' = "rewritten" /\ captured' = captured /\ plan' = plan
        /\ htmlSize' \in HtmlSizes /\ growth' \in Growth
    BY <1>2 DEF RewriteHtml
  <2>2. htmlSize' \in Nat /\ growth' \in Int
    BY <2>1, CloneAssumption
  <2>3. PlanKept'
    BY <1>0, <2>1, PlanStays
  <2> QED BY <1>0, <2>1, <2>2, <2>3 DEF CloneInv
<1>3. ASSUME RewriteFails \/ ArchiveFails PROVE CloneInv'
  <2>1. /\ phase \in {"planned", "rewritten"} /\ phase' = "built" /\ captured' = captured /\ plan' = plan
        /\ htmlSize' = htmlSize /\ growth' = growth /\ build' = Failed
    BY <1>3 DEF RewriteFails, ArchiveFails
  <2>2. PlanKept'
    BY <1>0, <2>1, PlanStays
  <2>3. BuildKept'
    BY <2>1 DEF BuildKept, Failed
  <2> QED BY <1>0, <2>1, <2>2, <2>3 DEF CloneInv
<1>4. ASSUME Build PROVE CloneInv'
  <2>1. /\ phase = "rewritten" /\ phase' = "built" /\ captured' = captured /\ plan' = plan
        /\ htmlSize' = htmlSize /\ growth' = growth
        /\ build' = IF htmlSize > MaxInputBytes THEN Failed ELSE Outcome(Packed)
    BY <1>4 DEF Build
  <2>2. PlanKept /\ PlanKept'
    BY <1>0, <2>1, PlanStays
  <2>3. BuildKept'
    <3>1. CASE htmlSize > MaxInputBytes
      <4>1. build' = Failed
        BY <2>1, <3>1
      <4> QED BY <2>1, <4>1 DEF BuildKept, Failed
    <3>2. CASE ~(htmlSize > MaxInputBytes)
      <4>1. PICK b : b = Packed
        OBVIOUS
      <4>2. build' = Outcome(b)
        BY <2>1, <3>2, <4>1
      <4>3. htmlSize <= MaxInputBytes
        BY <1>0, <3>2, CloneAssumption
      <4>4. BuildBooks(b, Len(captured))
        BY <1>0, <2>2, <4>1, <4>3, BuildHolds
      <4>5. PICK n : n = Len(captured)
        OBVIOUS
      <4>6. BuildBooks(b, n)' /\ Outcome(b)' = Outcome(b)
        BY <2>1, <4>4, <4>5, BooksStay
      <4>7. Len(captured)' = n
        BY <2>1, <4>5
      <4> QED BY <4>2, <4>6, <4>7, Zenon DEF BuildKept
    <3> QED BY <3>1, <3>2
  <2> QED BY <1>0, <2>1, <2>2, <2>3 DEF CloneInv
<1>5. ASSUME UNCHANGED cloneVars PROVE CloneInv'
  <2>1. /\ phase' = phase /\ captured' = captured /\ plan' = plan /\ build' = build
        /\ htmlSize' = htmlSize /\ growth' = growth
    BY <1>5 DEF cloneVars
  <2>2. phase # "captured" => PlanKept'
    BY <1>0, <2>1, PlanStays
  <2>3. phase = "built" => BuildKept'
    <3>1. Failed' = Failed
      BY <2>1 DEF Failed
    <3>2. ASSUME NEW b, BuildBooks(b, Len(captured)), build = Outcome(b) PROVE BuildKept'
      <4>1. PICK n : n = Len(captured)
        OBVIOUS
      <4>2. BuildBooks(b, n)' /\ Outcome(b)' = Outcome(b)
        BY <2>1, <3>2, <4>1, BooksStay
      <4>3. Len(captured)' = n
        BY <2>1, <4>1
      <4> QED BY <2>1, <3>2, <4>2, <4>3, Zenon DEF BuildKept
    <3>3. build = Failed => BuildKept'
      BY <2>1, <3>1, Zenon DEF BuildKept
    <3> QED BY <1>0, <3>2, <3>3 DEF BuildKept
  <2> QED BY <1>0, <2>1, <2>2, <2>3 DEF CloneInv
<1> QED BY <1>1, <1>2, <1>3, <1>4, <1>5 DEF CloneNext

\* Resources of a plan that share a path share a body.
LEMMA PathsAreUnique == CloneInv => PathsUnique
<1> SUFFICES ASSUME CloneInv PROVE PathsUnique
  OBVIOUS
<1>1. CASE phase = "captured"
  <2>1. plan.resources = <<>>
    BY <1>1 DEF CloneInv, Nothing
  <2>2. Range(plan.resources) = {}
    BY <2>1 DEF Range
  <2> QED BY <2>2 DEF PathsUnique
<1>2. CASE phase # "captured"
  <2>1. PlanKept /\ Len(captured) \in Nat
    BY <1>2 DEF CloneInv
  <2>2. plan.resources \in Seq(PlanRows) /\ Len(plan.resources) = Len(captured)
    BY <2>1 DEF PlanKept, Rowed
  <2> SUFFICES ASSUME NEW r \in Range(plan.resources), NEW q \in Range(plan.resources),
                      r.path # NoPath, q.path # NoPath
               PROVE  /\ r.path # MainPath
                      /\ r.path = q.path => r.body = q.body
                      /\ r.path = q.path /\ r.url \in StyleSheets => r.url = q.url
    BY DEF PathsUnique
  <2>3. PICK i \in 1 .. Len(captured) : r = plan.resources[i]
    BY <2>2 DEF Range
  <2>4. PICK j \in 1 .. Len(captured) : q = plan.resources[j]
    BY <2>2 DEF Range
  <2>5. r.path # MainPath
    BY <2>1, <2>3, PlanRow
  <2>6. r.path = q.path => Alike(r, q)
    BY <2>1, <2>3, <2>4, Zenon DEF PlanKept, Shared
  <2> QED BY <2>5, <2>6 DEF Alike
<1> QED BY <1>1, <1>2

\* What is said of an archive that was built.
LEMMA BuiltIsHonest ==
  ASSUME CloneInv, phase = "built", NEW b, BuildBooks(b, Len(captured)), build = Outcome(b)
  PROVE  ReferencesRight /\ DanglingDeclared /\ ManifestHonest /\ CountsFit
<1> DEFINE N == Len(captured)
<1>1. PlanKept /\ captured \in Seq(Resources) /\ N \in Nat /\ DOMAIN captured = 1 .. N
  BY DEF CloneInv
<1>2. EntriesSay(b, build) /\ CodeSays(b, build) /\ CountsSay(b, build)
  BY <1>1, OutcomeSays
<1>3. /\ RowsLeft(b.resources, N, b.limited) /\ FilesFrom(b.files, b.resources, N)
      /\ Filled(b.resources, b.files, N) /\ Tallied(b)
  BY DEF BuildBooks
<1>4. build.files = b.files
  BY <1>2 DEF CountsSay
<1>5. ASSUME NEW f \in Range(b.files) PROVE \E i \in 1 .. N : FromRow(f, b.resources, i)
  <2>1. b.files \in Seq(Files)
    BY <1>3 DEF FilesFrom
  <2>2. PICK j \in 1 .. Len(b.files) : f = b.files[j]
    BY <2>1 DEF Range
  <2> QED BY <1>3, <2>2, Zenon DEF FilesFrom
<1> HIDE DEF N
<1>6. ASSUME NEW i \in 1 .. N, NEW j \in 1 .. N,
             plan.resources[i].path # NoPath, plan.resources[i].path = plan.resources[j].path
      PROVE  Alike(plan.resources[i], plan.resources[j])
  BY <1>1, <1>6, Zenon DEF PlanKept, Shared, N
<1>7. ASSUME NEW i \in 1 .. N PROVE plan.resources[i].url = captured[i].url /\ plan.resources[i].body = captured[i].body
  BY <1>1, PlanRow DEF N
<1>8. ASSUME NEW ref \in References PROVE Named(ref)
  <2>1. CASE ref \in {[url |-> u, path |-> plan.replacements[u]] : u \in DOMAIN plan.replacements}
    <3>1. PICK u \in DOMAIN plan.replacements : ref = [url |-> u, path |-> plan.replacements[u]]
      BY <2>1
    <3>2. ref.url = u /\ ref.path = plan.replacements[u]
      BY <3>1
    <3>3. PICK i \in 1 .. N : /\ plan.resources[i].url = u /\ plan.resources[i].path = plan.replacements[u]
                              /\ plan.resources[i].path # NoPath
      BY <1>1, Zenon DEF PlanKept, Redirected, N
    <3> QED BY <3>2, <3>3, Zenon DEF Named, N
  <2>2. CASE ref \in UNION {f.refs : f \in Range(build.files)}
    <3>1. PICK f \in Range(b.files) : ref \in f.refs
      BY <1>4, <2>2
    <3>2. PICK i \in 1 .. N : FromRow(f, b.resources, i)
      BY <1>5
    <3> QED BY <3>1, <3>2 DEF FromRow
  <2> QED BY <2>1, <2>2 DEF References
<1>9. ReferencesRight
  <2> SUFFICES ASSUME NEW ref \in References, NEW f \in Range(b.files), f.path = ref.path
               PROVE  /\ \E i \in DOMAIN captured : captured[i].url = ref.url /\ captured[i].body = f.body
                      /\ ref.url \in StyleSheets => f.url = ref.url
    BY <1>4 DEF ReferencesRight
  <2>1. PICK i \in 1 .. N : /\ plan.resources[i].url = ref.url
                            /\ plan.resources[i].path = ref.path /\ plan.resources[i].path # NoPath
    BY <1>8, Zenon DEF Named, N
  <2>2. PICK j \in 1 .. N : FromRow(f, b.resources, j)
    BY <1>5
  <2>3. /\ plan.resources[j].path = f.path /\ plan.resources[j].url = f.url /\ plan.resources[j].body = f.body
    BY <2>2, Zenon DEF FromRow
  <2>4. Alike(plan.resources[i], plan.resources[j])
    BY <1>6, <2>1, <2>3
  <2>5. captured[i].url = ref.url /\ captured[i].body = f.body
    BY <1>7, <2>1, <2>3, <2>4, Zenon DEF Alike
  <2>6. ref.url \in StyleSheets => f.url = ref.url
    BY <2>1, <2>3, <2>4, Zenon DEF Alike
  <2> QED BY <1>1, <2>5, <2>6, Zenon
<1>10. DanglingDeclared
  <2> SUFFICES ASSUME build.code # "BUDGET_LIMITED", NEW ref \in References
               PROVE  Resolves(ref)
    BY Zenon DEF DanglingDeclared
  <2>1. ~b.limited
    BY <1>2 DEF CodeSays
  <2>2. PICK i \in 1 .. N : plan.resources[i].path = ref.path /\ plan.resources[i].path # NoPath
    BY <1>8, Zenon DEF Named, N
  <2>3. b.resources[i] = plan.resources[i]
    BY <1>3, <2>1, Zenon DEF RowsLeft, N
  <2>4. \E f \in Range(b.files) : f.path = ref.path
    BY <1>3, <2>2, <2>3, Zenon DEF Filled
  <2> QED BY <1>4, <2>4, Zenon DEF Resolves
<1>11. ASSUME NEW i \in 1 .. N, b.resources[i].path # NoPath PROVE \E f \in Range(b.files) : f.body = captured[i].body
  <2>1. PICK f \in Range(b.files) : f.path = b.resources[i].path
    BY <1>3, <1>11, Zenon DEF Filled
  <2>2. b.resources[i] = plan.resources[i]
    BY <1>3, <1>11, Zenon DEF RowsLeft, Dropped, N
  <2>3. PICK j \in 1 .. N : FromRow(f, b.resources, j)
    BY <1>5
  <2>4. plan.resources[j].path = f.path /\ plan.resources[j].body = f.body
    BY <2>3, Zenon DEF FromRow
  <2>5. Alike(plan.resources[i], plan.resources[j])
    BY <1>6, <1>11, <2>1, <2>2, <2>4, Zenon
  <2> QED BY <1>7, <2>4, <2>5, Zenon DEF Alike
<1>12. ManifestHonest
  <2>1. \A i \in 1 .. N : build.manifest[i].packed => \E f \in Range(build.files) : f.body = captured[i].body
    BY <1>2, <1>4, <1>11, Zenon DEF EntriesSay, N
  <2>2. build.code = "COMPLETE" <=> \A i \in 1 .. N : build.manifest[i].packed /\ ~captured[i].truncated
    BY <1>2, Zenon DEF CodeSays, N
  <2>3. \A i \in 1 .. N : build.manifest[i].packed <=> build.manifest[i].reason = ""
    BY <1>2, Zenon DEF EntriesSay, N
  <2>4. build.code = "COMPLETE" <=> \A i \in DOMAIN captured :
            /\ ~captured[i].truncated
            /\ \E f \in Range(build.files) : f.body = captured[i].body
            /\ build.manifest[i].packed
    BY <1>1, <2>1, <2>2, Zenon
  <2> QED BY ONLY <1>1, <2>1, <2>3, <2>4, Zenon DEF ManifestHonest
<1>13. CountsFit
  <2>1. b.count = 1 + Len(b.files) /\ b.count <= MaxFiles /\ b.bytes <= MaxInputBytes
    BY <1>3 DEF Tallied
  <2>2. /\ build.files = b.files /\ build.packaged = b.count /\ build.bytes = b.bytes
        /\ build.skipped \in Nat /\ build.skipped + Len(b.files) <= N
    BY <1>2, Zenon DEF CountsSay, N
  <2>3. Len(b.files) \in Nat
    <3>1. b.files \in Seq(Files)
      BY <1>3 DEF FilesFrom
    <3> QED BY <3>1
  <2>4. build.packaged + build.skipped <= 1 + N
    BY ONLY <1>1, <2>1, <2>2, <2>3
  <2> QED BY <2>1, <2>2, <2>4 DEF CountsFit, N
<1> QED BY <1>9, <1>10, <1>12, <1>13

LEMMA CloneIsHonest == CloneInv => CloneHonest
<1> SUFFICES ASSUME CloneInv PROVE CloneHonest
  OBVIOUS
<1>1. PathsUnique
  BY PathsAreUnique
<1>2. ReferencesRight /\ DanglingDeclared /\ ManifestHonest /\ CountsFit
  <2>1. CASE phase # "built"
    BY <2>1 DEF ReferencesRight, DanglingDeclared, ManifestHonest, CountsFit, Built
  <2>2. CASE phase = "built" /\ build = Failed
    <3>1. /\ build.status = "FAILED" /\ build.packaged = 0 /\ build.skipped = Len(captured)
      BY <2>2 DEF Failed, NotBuilt
    <3>2. Len(captured) \in Nat /\ MaxFiles \in Nat
      BY CloneAssumption DEF CloneInv
    <3>3. CountsFit
      <4>1. build.packaged + build.skipped <= 1 + Len(captured) /\ build.packaged <= MaxFiles
        BY ONLY <3>1, <3>2
      <4> QED BY <3>1, <4>1 DEF CountsFit
    <3> QED BY <3>1, <3>3 DEF ReferencesRight, DanglingDeclared, ManifestHonest, Built
  <2>3. CASE phase = "built" /\ build # Failed
    <3>1. PICK b : BuildBooks(b, Len(captured)) /\ build = Outcome(b)
      BY <2>3 DEF CloneInv, BuildKept
    <3> QED BY <2>3, <3>1, BuiltIsHonest
  <2> QED BY <2>1, <2>2, <2>3
<1> QED BY <1>1, <1>2 DEF CloneHonest

\* A page's clone is always what it says (planStaticClone and buildStaticClone of
\* static-clone.ts): paths mean one content, redirected references lead to bodies of
\* the URLs they named, what is missing is declared, and the counters fit their table.
THEOREM CloneAlwaysHonest == CloneSpec => []CloneHonest
<1>1. CloneInit => CloneInv
  BY CloneStarts
<1>2. CloneInv /\ [CloneNext]_cloneVars => CloneInv'
  BY CloneGoes
<1>3. CloneInv => CloneHonest
  BY CloneIsHonest
<1> QED BY <1>1, <1>2, <1>3, PTL DEF CloneSpec
=============================================================================
