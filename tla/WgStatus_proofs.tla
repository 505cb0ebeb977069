-------------------------- MODULE WgStatus_proofs --------------------------
(***************************************************************************)
(* Proofs about WgStatus, for any number of students, keys, polls and      *)
(* loads, any clock and any durations.                                     *)
(*                                                                         *)
(* TypeOK is inductive.  What the pages show needs more: what a poll read  *)
(* and when (PollsInv), what an entry of the cache is worth (CacheInv) and *)
(* which box a validated row of the manifest means (BoxesInv).             *)
(***************************************************************************)
EXTENDS WgStatus, TLAPS

\* A poll has run for MaxPoll at most, and a key it read for a student is still the
\* peer's, or the peer was written since.
PollInv(q) ==
  /\ pc[q] # "idle" =>
       /\ got[q] \in Dump
       /\ got[q].began =< now /\ now =< got[q].began + MaxPoll
  /\ pc[q] = "write" =>
       /\ got[q].at \in Nat /\ got[q].began =< got[q].at /\ got[q].at =< now
       /\ \A s \in todo[q] :
            /\ peer[s] # NoVal /\ got[q].keys[s] \in Key
            /\ got[q].keys[s] # peer[s].key => got[q].at =< peer[s].updated
PollsInv == \A q \in Poll : PollInv(q)

\* An entry expires MaxPoll and a TTL after the clock it was judged by, it is
\* connected only when the handshake was fresh then, and its key is the peer's,
\* or the peer was written since.
CacheInv ==
  \A s \in Student :
    cache[s] # NoVal =>
      /\ peer[s] # NoVal /\ cache[s].at =< now
      /\ cache[s].until =< cache[s].at + MaxPoll + Ttl
      /\ cache[s].connected => cache[s].at - cache[s].hs =< Freshness
      /\ cache[s].key # peer[s].key => cache[s].at =< peer[s].updated

\* vm is s's box, if it is still there, and has the address i.
Means(vm, s, i) ==
  /\ vm[1] = s
  /\ vm[2] =< built[s]
  /\ box[s] # NoVal /\ box[s].nr = vm[2] => box[s].ip = i

BoxesInv ==
  /\ \A s \in Student : box[s] # NoVal => box[s].nr =< built[s]
  /\ plan # NoVal => \A s \in Student : Means(plan[s].vm, s, plan[s].ip)

PointersInv ==
  \A s \in Student :
    peer[s] # NoVal /\ peer[s].vm # NoVal =>
      Means(peer[s].vm, s, peer[s].ip) /\ box[s] # NoVal /\ box[s].nr = peer[s].vm[2]

-----------------------------------------------------------------------------
(* Type correctness *)

\* Every step keeps the types; a poll's write needs what the poll read (wgstatus.py:117-160).
LEMMA TypeStep == TypeOK /\ PollsInv /\ [Next]_vars => TypeOK'
<1> USE WgSizes, WgNull
<1> SUFFICES ASSUME TypeOK, PollsInv, [Next]_vars PROVE TypeOK'
  OBVIOUS
<1>a. bound.now \in Nat /\ bound.builds \in Nat /\ bound.loads \in Nat /\ Ttl \in Nat /\ now \in Nat
  BY DEF TypeOK
<1>1. CASE Tick
  <2>1. now' = now + 1 /\ now < bound.now
    BY <1>1 DEF Tick
  <2>2. \A s \in Student : cache[s] # NoVal => cache[s].until \in Nat
    BY DEF TypeOK, Entry
  <2>3. handshake \in [Key -> 0 .. now']
    BY <1>a, <2>1 DEF TypeOK
  <2> QED
    BY <1>1, <1>a, <2>1, <2>2, <2>3 DEF Tick, TypeOK, boxes, loader, polls
<1>2. CASE NewManifest
  <2>1. ASSUME NEW s \in Student, box[s] # NoVal
        PROVE [manifest[s] EXCEPT !.ip = box[s].ip] \in [key : Key, ip : Ip]
    <3>1. box[s].ip \in Ip
      BY <2>1 DEF TypeOK, BoxRow
    <3>2. manifest[s] \in [key : Key, ip : Ip]
      BY DEF TypeOK
    <3> QED
      BY <3>1, <3>2
  <2>2. manifest' \in [Student -> [key : Key, ip : Ip]]
    <3>1. CASE manifest' = [s \in Student |->
                IF box[s] = NoVal THEN manifest[s] ELSE [manifest[s] EXCEPT !.ip = box[s].ip]]
      BY <2>1, <3>1 DEF TypeOK
    <3>2. ASSUME NEW s \in Student, NEW t \in Student,
                 manifest' = [manifest EXCEPT ![s].key = manifest[t].key,
                                              ![t].key = manifest[s].key]
          PROVE manifest' \in [Student -> [key : Key, ip : Ip]]
      <4>1. [manifest EXCEPT ![s].key = manifest[t].key] \in [Student -> [key : Key, ip : Ip]]
        BY DEF TypeOK
      <4> QED
        BY <3>2, <4>1 DEF TypeOK
    <3> QED
      BY <1>2, <3>1, <3>2 DEF NewManifest
  <2> QED
    BY <1>2, <2>2 DEF NewManifest, TypeOK, boxes, loader, polls
<1>3. CASE Validate
  BY <1>3, <1>a DEF Validate, TypeOK, boxes, polls, OwnBox, BoxRow, PlanRow
<1>4. CASE WritePeers
  BY <1>4, <1>a DEF WritePeers, TypeOK, boxes, polls, PlanRow, PeerRow
<1>5. ASSUME NEW k \in Client, Connect(k) PROVE TypeOK'
  BY <1>5, <1>a, WgKeys DEF Connect, TypeOK, boxes, loader, polls
<1>6. ASSUME NEW s \in Student, DropBox(s) PROVE TypeOK'
  <2>1. peer[s] # NoVal => [peer[s] EXCEPT !.vm = NoVal] \in PeerRow
    BY DEF TypeOK, PeerRow
  <2>2. peer' \in [Student -> PeerRow \cup {NoVal}]
    BY <1>6, <2>1 DEF DropBox, ClearPointer, TypeOK
  <2> QED
    BY <1>6, <2>2 DEF DropBox, TypeOK, loader, polls
<1>7. ASSUME NEW s \in Student, NEW i \in Ip, BuildBox(s, i) PROVE TypeOK'
  BY <1>7, <1>a DEF BuildBox, TypeOK, loader, polls, BoxRow
<1>8. ASSUME NEW q \in Poll, Fetch(q) PROVE TypeOK'
  BY <1>8, <1>a DEF Fetch, Goto, TypeOK, boxes, loader, Dump
<1>9. ASSUME NEW q \in Poll, ReadPeers(q) PROVE TypeOK'
  <2>1. got[q] \in Dump
    BY <1>9 DEF ReadPeers, PollsInv, PollInv
  <2>2. Peers \subseteq Student /\ [s \in Peers |-> peer[s].key] \in [Peers -> Key]
    BY DEF Peers, TypeOK, PeerRow
  <2>3. [s \in Peers |-> peer[s].key] \in KeyMap
    BY <2>2 DEF KeyMap
  <2>4. [got[q] EXCEPT !.keys = [s \in Peers |-> peer[s].key], !.at = now] \in Dump
    BY <1>a, <2>1, <2>3 DEF Dump
  <2>5. got' \in [Poll -> Dump \cup {NoVal}]
    BY <1>9, <2>4 DEF ReadPeers, TypeOK
  <2> QED
    BY <1>9, <2>2, <2>5 DEF ReadPeers, Goto, TypeOK, boxes, loader
<1>10. ASSUME NEW q \in Poll, EndPoll(q) PROVE TypeOK'
  BY <1>10, <1>a DEF EndPoll, Goto, TypeOK, boxes, loader
<1>11. ASSUME NEW q \in Poll, NEW s \in Student, WriteStatus(q, s) PROVE TypeOK'
  <2>1. got[q] \in Dump /\ got[q].keys[s] \in Key /\ got[q].at \in Nat
    BY <1>11 DEF WriteStatus, PollsInv, PollInv
  <2> DEFINE hs == got[q].dump[got[q].keys[s]]
             e == [key |-> got[q].keys[s], hs |-> hs, at |-> got[q].at,
                   connected |-> ComputeConnected(hs, got[q].at), until |-> now + Ttl]
  <2>2. hs \in Nat
    BY <2>1 DEF Dump
  <2>3. ComputeConnected(hs, got[q].at) \in BOOLEAN
    BY DEF ComputeConnected
  <2>4. e \in Entry
    BY <1>a, <2>1, <2>2, <2>3 DEF Entry
  <2>5. cache' = [cache EXCEPT ![s] = e]
    BY <1>11 DEF WriteStatus, Expiry
  <2>6. cache' \in [Student -> Entry \cup {NoVal}]
    BY <2>4, <2>5 DEF TypeOK
  <2>7. \A t \in Student : cache'[t] # NoVal => cache'[t].until =< now + Ttl
    BY <1>a, <2>5 DEF TypeOK
  <2> QED
    BY <1>11, <2>6, <2>7 DEF WriteStatus, TypeOK, boxes, loader
<1>12. CASE UNCHANGED vars
  BY <1>12 DEF vars, TypeOK
<1> QED
  BY <1>1, <1>2, <1>3, <1>4, <1>5, <1>6, <1>7, <1>8, <1>9, <1>10, <1>11, <1>12 DEF Next

-----------------------------------------------------------------------------
(* The two writers of the peers *)

\* A load of the manifest leaves a row as it is or stamps it (load_wireguard_peers.py:
\* 123-135).
LEMMA LoadStamps ==
  ASSUME TypeOK, WritePeers, NEW s \in Student
  PROVE  peer'[s] = peer[s] \/ (peer'[s] # NoVal /\ peer'[s].updated = now)
<1>1. plan[s] \in PlanRow /\ now \in Nat
  BY WgSizes DEF WritePeers, TypeOK
<1>2. [key |-> plan[s].key, ip |-> plan[s].ip, vm |-> plan[s].vm, updated |-> now] \in PeerRow
  BY <1>1 DEF PlanRow, PeerRow
<1> QED
  BY <1>2, WgNull DEF WritePeers

\* A box that goes clears a pointer and no more (models.py:169-172).
LEMMA DropKeepsKey ==
  ASSUME TypeOK, NEW s \in Student, DropBox(s), NEW t \in Student, peer[t] # NoVal
  PROVE  peer'[t] # NoVal /\ peer'[t].key = peer[t].key /\ peer'[t].updated = peer[t].updated
<1>1. [peer[s] EXCEPT !.vm = NoVal] \in PeerRow \/ peer[s] = NoVal
  BY DEF TypeOK, PeerRow
<1> QED
  BY <1>1, WgNull DEF DropBox, ClearPointer, TypeOK, PeerRow

-----------------------------------------------------------------------------
(* What the polls read *)

\* Only the poll itself changes what it holds; a Tick waits for it, and a load of
\* the manifest stamps the rows it writes (wgstatus.py:117-160).
LEMMA PollsStep == TypeOK /\ PollsInv /\ [Next]_vars => PollsInv'
<1> USE WgSizes, WgNull
<1> SUFFICES ASSUME TypeOK, PollsInv, [Next]_vars PROVE PollsInv'
  OBVIOUS
<1>a. now \in Nat /\ MaxPoll \in Nat
  BY DEF TypeOK
<1>1. CASE Tick
  <2>1. now' = now + 1 /\ UNCHANGED <<peer, pc, got, todo>>
    BY <1>1 DEF Tick, polls
  <2>2. ASSUME NEW q \in Poll, pc[q] # "idle"
        PROVE got[q].began \in Nat /\ now - got[q].began < MaxPoll
    BY <1>1, <2>2 DEF Tick, PollsInv, PollInv, Dump
  <2> QED
    BY <1>a, <2>1, <2>2 DEF PollsInv, PollInv
<1>2. CASE WritePeers
  <2>1. UNCHANGED <<now, pc, got, todo>>
    BY <1>2 DEF WritePeers, polls
  <2>2. ASSUME NEW s \in Student
        PROVE \/ peer'[s] = peer[s]
              \/ peer'[s] # NoVal /\ peer'[s].updated = now
    BY <1>2, LoadStamps
  <2>3. \A q \in Poll : todo[q] \subseteq Student
    BY DEF TypeOK
  <2> QED
    BY <1>a, <2>1, <2>2, <2>3 DEF PollsInv, PollInv
<1>3. ASSUME NEW s \in Student, DropBox(s) PROVE PollsInv'
  <2>1. UNCHANGED <<now, pc, got, todo>>
    BY <1>3 DEF DropBox, polls
  <2>2. ASSUME NEW t \in Student, peer[t] # NoVal
        PROVE peer'[t] # NoVal /\ peer'[t].key = peer[t].key /\ peer'[t].updated = peer[t].updated
    BY <1>3, <2>2, DropKeepsKey
  <2>3. \A q \in Poll : todo[q] \subseteq Student
    BY DEF TypeOK
  <2> QED
    BY <2>1, <2>2, <2>3 DEF PollsInv, PollInv
<1>4. ASSUME NEW q \in Poll, Fetch(q) PROVE PollsInv'
  <2>1. got'[q] = [began |-> now, dump |-> handshake, keys |-> NoVal, at |-> NoVal]
    BY <1>4 DEF Fetch, TypeOK
  <2>2. got'[q] \in Dump
    BY <1>a, <2>1 DEF Dump, TypeOK
  <2> QED
    BY <1>4, <1>a, <2>1, <2>2 DEF Fetch, Goto, PollsInv, PollInv, TypeOK
<1>5. ASSUME NEW q \in Poll, ReadPeers(q) PROVE PollsInv'
  <2>1. /\ got[q] \in Dump /\ got[q].began =< now /\ now =< got[q].began + MaxPoll
        /\ UNCHANGED <<now, peer>>
        /\ pc' = [pc EXCEPT ![q] = "write"] /\ todo' = [todo EXCEPT ![q] = Peers]
    BY <1>5 DEF ReadPeers, PollsInv, PollInv, Goto
  <2>2. got' = [got EXCEPT ![q] = [got[q] EXCEPT !.keys = [s \in Peers |-> peer[s].key], !.at = now]]
    BY <1>5 DEF ReadPeers, TypeOK, Dump
  <2>3. /\ got'[q].keys = [s \in Peers |-> peer[s].key] /\ got'[q].at = now
        /\ got'[q].began = got[q].began /\ got'[q] = [got[q] EXCEPT !.keys = [s \in Peers |-> peer[s].key], !.at = now]
    BY <2>1, <2>2 DEF TypeOK, Dump
  <2>4. \A s \in Peers : s \in Student /\ peer[s] # NoVal /\ peer[s].key \in Key
    BY DEF Peers, TypeOK, PeerRow
  <2>5. [s \in Peers |-> peer[s].key] \in KeyMap
    <3>1. Peers \subseteq Student /\ [s \in Peers |-> peer[s].key] \in [Peers -> Key]
      BY <2>4 DEF Peers
    <3> QED
      BY <3>1 DEF KeyMap
  <2>6. got'[q] \in Dump
    BY <1>a, <2>1, <2>3, <2>5 DEF Dump
  <2>7. \A r \in Poll : r # q => got'[r] = got[r] /\ pc'[r] = pc[r] /\ todo'[r] = todo[r]
    BY <2>1, <2>2 DEF TypeOK
  <2>8. todo'[q] = Peers /\ got'[q].began \in Nat
    BY <2>1, <2>6 DEF TypeOK, Dump
  <2>9. \A s \in todo'[q] : peer'[s] # NoVal /\ got'[q].keys[s] = peer'[s].key
                            /\ got'[q].keys[s] \in Key
    BY <2>1, <2>3, <2>4, <2>8
  <2>10. /\ got'[q].at = now' /\ now' \in Nat /\ got'[q].began =< now'
         /\ now' =< got'[q].began + MaxPoll
    BY <1>a, <2>1, <2>3
  <2>12. PollInv(q)'
    BY <2>6, <2>9, <2>10 DEF PollInv
  <2>11. ASSUME NEW r \in Poll, r # q PROVE PollInv(r)'
    BY <2>1, <2>7, <2>11 DEF PollsInv, PollInv
  <2> QED
    BY <2>11, <2>12 DEF PollsInv
<1>6. ASSUME NEW q \in Poll, EndPoll(q) PROVE PollsInv'
  BY <1>6 DEF EndPoll, Goto, PollsInv, PollInv, TypeOK
<1>7. ASSUME NEW q \in Poll, NEW s \in Student, WriteStatus(q, s) PROVE PollsInv'
  BY <1>7 DEF WriteStatus, PollsInv, PollInv, TypeOK
<1>8. CASE UNCHANGED <<now, peer, pc, got, todo>>
  BY <1>8 DEF PollsInv, PollInv
<1> QED
  BY <1>1, <1>2, <1>3, <1>4, <1>5, <1>6, <1>7, <1>8
     DEF Next, vars, NewManifest, Validate, Connect, BuildBox, polls

\* The variables keep their types, and no entry outlives a TTL (wgstatus.py:136-159).
THEOREM WgTypeCorrect == Spec => [](TypeOK /\ PollsInv)
<1>1. Init => TypeOK /\ PollsInv
  <2> SUFFICES ASSUME Init PROVE TypeOK /\ PollsInv
    OBVIOUS
  <2>1. PollsInv
    BY DEF Init, PollsInv, PollInv
  <2>2. box \in [Student -> BoxRow \cup {NoVal}]
    BY DEF Init, BoxRow
  <2> QED
    BY <2>1, <2>2, WgSizes DEF Init, TypeOK
<1> QED
  BY <1>1, TypeStep, PollsStep, PTL DEF Spec

-----------------------------------------------------------------------------
(* What the cache is worth *)

\* An entry is written from what a poll holds, and a load after it stamps the peer
\* (wgstatus.py:101-108, 136-160).
LEMMA CacheStep == TypeOK /\ PollsInv /\ CacheInv /\ [Next]_vars => CacheInv'
<1> USE WgSizes, WgNull
<1> SUFFICES ASSUME TypeOK, PollsInv, CacheInv, [Next]_vars PROVE CacheInv'
  OBVIOUS
<1>a. /\ now \in Nat /\ MaxPoll \in Nat /\ Ttl \in Nat /\ Freshness \in Nat
      /\ \A s \in Student : cache[s] # NoVal =>
           cache[s].at \in Nat /\ cache[s].until \in Nat /\ cache[s].hs \in Nat
  BY DEF TypeOK, Entry
<1>1. CASE Tick
  <2>1. now' = now + 1 /\ UNCHANGED <<peer, cache>>
    BY <1>1 DEF Tick, polls
  <2> QED
    BY <1>a, <2>1 DEF CacheInv
<1>2. CASE WritePeers
  <2>1. UNCHANGED <<now, cache>>
    BY <1>2 DEF WritePeers, polls
  <2>2. ASSUME NEW s \in Student
        PROVE \/ peer'[s] = peer[s]
              \/ peer'[s] # NoVal /\ peer'[s].updated = now
    BY <1>2, LoadStamps
  <2> QED
    BY <1>a, <2>1, <2>2 DEF CacheInv
<1>3. ASSUME NEW s \in Student, DropBox(s) PROVE CacheInv'
  <2>1. UNCHANGED <<now, cache>>
    BY <1>3 DEF DropBox, polls
  <2>2. ASSUME NEW t \in Student, peer[t] # NoVal
        PROVE peer'[t] # NoVal /\ peer'[t].key = peer[t].key /\ peer'[t].updated = peer[t].updated
    BY <1>3, <2>2, DropKeepsKey
  <2> QED
    BY <2>1, <2>2 DEF CacheInv
<1>4. ASSUME NEW q \in Poll, NEW s \in Student, WriteStatus(q, s) PROVE CacheInv'
  <2> DEFINE k == got[q].keys[s]
             hs == got[q].dump[k]
  <2>1. /\ s \in todo[q] /\ UNCHANGED <<now, peer>>
        /\ cache' = [cache EXCEPT ![s] = [key |-> k, hs |-> hs, at |-> got[q].at,
                        connected |-> ComputeConnected(hs, got[q].at), until |-> now + Ttl]]
    BY <1>4 DEF WriteStatus, Expiry
  <2>2. /\ got[q] \in Dump /\ got[q].at \in Nat /\ got[q].began =< got[q].at
        /\ got[q].at =< now /\ now =< got[q].began + MaxPoll
        /\ peer[s] # NoVal /\ k \in Key
        /\ k # peer[s].key => got[q].at =< peer[s].updated
    BY <1>4, <2>1 DEF WriteStatus, PollsInv, PollInv
  <2>3. hs \in Nat /\ got[q].began \in Nat
    BY <2>2 DEF Dump
  <2> HIDE DEF k, hs
  <2>4. /\ cache'[s].key = k /\ cache'[s].hs = hs /\ cache'[s].at = got[q].at
        /\ cache'[s].connected = ComputeConnected(hs, got[q].at)
        /\ cache'[s].until = now + Ttl
    BY <2>1 DEF TypeOK
  <2>5. \A t \in Student : t # s => cache'[t] = cache[t]
    BY <2>1 DEF TypeOK
  <2>6. cache'[s].connected => cache'[s].at - cache'[s].hs =< Freshness
    BY <2>4 DEF ComputeConnected
  <2>7. cache'[s].until =< cache'[s].at + MaxPoll + Ttl
    BY <1>a, <2>2, <2>3, <2>4
  <2> QED
    BY <2>1, <2>2, <2>4, <2>5, <2>6, <2>7 DEF CacheInv
<1>5. CASE UNCHANGED <<now, peer, cache>>
  BY <1>5 DEF CacheInv
<1> QED
  BY <1>1, <1>2, <1>3, <1>4, <1>5
     DEF Next, vars, NewManifest, Validate, Connect, BuildBox, Fetch, ReadPeers, EndPoll, polls

\* No entry outlives the poll that wrote it and a TTL, says connected of a stale
\* handshake, or is of a key the peer lost before the poll read the table
\* (wgstatus.py:136-160).
THEOREM CacheIsWorth == Spec => []CacheInv
<1>1. Init => CacheInv
  BY DEF Init, CacheInv
<1> QED
  BY <1>1, CacheStep, WgTypeCorrect, PTL DEF Spec

\* However polls overlap, fail or stop, "connected" is not shown of a client whose last
\* handshake is older than the freshness window, one poll and the TTL together
\* (wgstatus.py:101-108, 117-160).
THEOREM ConnectedIsAlwaysRecent == Spec => []ConnectedIsRecent
<1>1. TypeOK /\ CacheInv => ConnectedIsRecent
  <2> SUFFICES ASSUME TypeOK, CacheInv, NEW s \in Student,
                      Status(s) # NoVal, Status(s).connected
               PROVE now - Status(s).hs < Freshness + MaxPoll + Ttl
    BY DEF ConnectedIsRecent
  <2>1. cache[s] # NoVal /\ now < cache[s].until /\ Status(s) = cache[s]
    BY DEF Status
  <2>2. cache[s].at \in Nat /\ cache[s].until \in Nat /\ cache[s].hs \in Nat /\ now \in Nat
    BY <2>1 DEF TypeOK, Entry
  <2>3. cache[s].until =< cache[s].at + MaxPoll + Ttl /\ cache[s].at - cache[s].hs =< Freshness
    BY <2>1 DEF CacheInv
  <2> QED
    BY <2>1, <2>2, <2>3, WgSizes
<1> QED
  BY <1>1, WgTypeCorrect, CacheIsWorth, PTL

\* A poll that read the table before two students' keys changed hands shows one the
\* other's tunnel for a poll and a TTL at most (wgstatus.py:130-160).
THEOREM StatusIsOfOwnTunnel == Spec => []StatusOfOwnTunnel
<1>1. TypeOK /\ CacheInv => StatusOfOwnTunnel
  <2> SUFFICES ASSUME TypeOK, CacheInv, NEW s \in Student,
                      Status(s) # NoVal, Status(s).key # peer[s].key
               PROVE now - peer[s].updated < MaxPoll + Ttl
    BY DEF StatusOfOwnTunnel
  <2>1. cache[s] # NoVal /\ now < cache[s].until /\ Status(s) = cache[s]
    BY DEF Status
  <2>2. cache[s].at \in Nat /\ cache[s].until \in Nat /\ now \in Nat
    BY <2>1 DEF TypeOK, Entry
  <2>3. /\ cache[s].until =< cache[s].at + MaxPoll + Ttl
        /\ cache[s].at =< peer[s].updated /\ peer[s] # NoVal
    BY <2>1 DEF CacheInv
  <2>4. peer[s].updated \in Nat
    BY <2>3 DEF TypeOK, PeerRow
  <2> QED
    BY <2>1, <2>2, <2>3, <2>4, WgSizes
<1> QED
  BY <1>1, WgTypeCorrect, CacheIsWorth, PTL

-----------------------------------------------------------------------------
(* Whose box a peer points at *)

\* A row that was validated for a box of s keeps meaning that box or none: a box
\* built later has a number of its own, and the loader asks for an address of
\* this very student (load_wireguard_peers.py:88-104).
LEMMA BoxesStep == TypeOK /\ BoxesInv /\ [Next]_vars => BoxesInv'
<1> USE WgSizes, WgNull
<1> SUFFICES ASSUME TypeOK, BoxesInv, [Next]_vars PROVE BoxesInv'
  OBVIOUS
<1>a. /\ \A s \in Student : built[s] \in Nat
      /\ \A s \in Student : box[s] # NoVal => box[s] \in BoxRow
      /\ plan # NoVal => \A s \in Student : plan[s] \in PlanRow
  BY DEF TypeOK
<1>1. CASE Validate
  <2>1. UNCHANGED <<box, built>>
    BY <1>1 DEF Validate, boxes
  <2>2. ASSUME NEW s \in Student
        PROVE  /\ box[s] # NoVal /\ box[s].ip = manifest[s].ip
               /\ (CHOOSE x \in OwnBox(s) : TRUE) = s
    <3>1. OwnBox(s) # {} /\ OwnBox(s) \subseteq {s}
      BY <1>1 DEF Validate, OwnBox
    <3>2. OwnBox(s) = {s}
      BY <3>1
    <3> QED
      BY <3>2 DEF OwnBox
  <2>3. ASSUME NEW s \in Student
        PROVE  plan'[s].ip = manifest[s].ip /\ plan'[s].vm = <<s, box[s].nr>>
    BY <1>1, <2>2 DEF Validate
  <2>4. ASSUME NEW s \in Student PROVE Means(plan[s].vm, s, plan[s].ip)'
    <3>1. box[s].nr =< built[s]
      BY <2>2 DEF BoxesInv
    <3> QED
      BY <2>1, <2>2, <2>3, <3>1 DEF Means
  <2> QED
    BY <2>1, <2>4 DEF BoxesInv
<1>2. CASE WritePeers
  BY <1>2 DEF WritePeers, BoxesInv, boxes
<1>3. ASSUME NEW s \in Student, DropBox(s) PROVE BoxesInv'
  <2>1. UNCHANGED <<built, plan>> /\ box' = [box EXCEPT ![s] = NoVal]
    BY <1>3 DEF DropBox, loader
  <2> QED
    BY <2>1 DEF BoxesInv, Means, TypeOK
<1>4. ASSUME NEW s \in Student, NEW i \in Ip, BuildBox(s, i) PROVE BoxesInv'
  <2>1. /\ UNCHANGED plan
        /\ box' = [box EXCEPT ![s] = [nr |-> built[s] + 1, ip |-> i]]
        /\ built' = [built EXCEPT ![s] = @ + 1]
    BY <1>4 DEF BuildBox, loader
  <2>2. /\ box'[s].nr = built[s] + 1 /\ built'[s] = built[s] + 1
        /\ \A t \in Student : t # s => box'[t] = box[t] /\ built'[t] = built[t]
    BY <2>1 DEF TypeOK
  <2>3. ASSUME plan # NoVal, NEW t \in Student PROVE Means(plan[t].vm, t, plan[t].ip)'
    <3>1. /\ plan[t].vm[1] = t /\ plan[t].vm[2] =< built[t] /\ plan[t].vm[2] \in Nat
          /\ (box[t] # NoVal /\ box[t].nr = plan[t].vm[2] => box[t].ip = plan[t].ip)
      BY <1>a, <2>3 DEF BoxesInv, Means, PlanRow
    <3>2. CASE t = s
      BY <1>a, <2>1, <2>2, <3>1, <3>2 DEF Means
    <3>3. CASE t # s
      BY <2>1, <2>2, <3>1, <3>3 DEF Means
    <3> QED
      BY <3>2, <3>3
  <2>4. \A t \in Student : box'[t] # NoVal => box'[t].nr =< built'[t]
    BY <1>a, <2>2 DEF BoxesInv
  <2> QED
    BY <2>1, <2>3, <2>4 DEF BoxesInv
<1>5. CASE UNCHANGED <<box, built, plan>>
  BY <1>5 DEF BoxesInv, Means
<1> QED
  BY <1>1, <1>2, <1>3, <1>4, <1>5
     DEF Next, vars, Tick, NewManifest, Connect, Fetch, ReadPeers, EndPoll, WriteStatus, boxes, loader

\* A pointer is to a box that is there: deleting the box clears it, a load writes it
\* only when the foreign key holds, and nothing is built beside it
\* (models.py:169-172, load_wireguard_peers.py:123-135).
LEMMA PointersStep == TypeOK /\ BoxesInv /\ PointersInv /\ [Next]_vars => PointersInv'
<1> USE WgSizes, WgNull
<1> SUFFICES ASSUME TypeOK, BoxesInv, PointersInv, [Next]_vars PROVE PointersInv'
  OBVIOUS
<1>1. CASE WritePeers
  <2>1. UNCHANGED <<box, built>> /\ plan # NoVal
    BY <1>1 DEF WritePeers, boxes
  <2>2. CASE UNCHANGED peer
    BY <2>1, <2>2 DEF PointersInv, Means
  <2>3. CASE /\ ForeignKeysHold
             /\ peer' = [s \in Student |-> [key |-> plan[s].key, ip |-> plan[s].ip,
                                            vm |-> plan[s].vm, updated |-> now]]
    <3>1. ASSUME NEW s \in Student
          PROVE  /\ peer'[s].vm = plan[s].vm /\ peer'[s].ip = plan[s].ip
                 /\ Means(plan[s].vm, s, plan[s].ip)
                 /\ box[s] # NoVal /\ box[s].nr = plan[s].vm[2]
      BY <2>1, <2>3 DEF ForeignKeysHold, StillThere, BoxesInv, Means
    <3> QED
      BY <2>1, <3>1 DEF PointersInv, Means
  <2> QED
    BY <1>1, <2>2, <2>3 DEF WritePeers
<1>2. ASSUME NEW s \in Student, DropBox(s) PROVE PointersInv'
  <2>1. UNCHANGED built /\ box' = [box EXCEPT ![s] = NoVal]
    BY <1>2 DEF DropBox
  <2>2. peer'[s] = NoVal \/ peer'[s].vm = NoVal
    <3>1. peer[s] # NoVal => peer[s] \in PeerRow
      BY DEF TypeOK
    <3> QED
      BY <1>2, <3>1 DEF DropBox, ClearPointer, TypeOK, PeerRow
  <2>3. \A t \in Student : t # s => peer'[t] = peer[t] /\ box'[t] = box[t]
    BY <1>2, <2>1 DEF DropBox, ClearPointer, TypeOK
  <2> QED
    BY <2>1, <2>2, <2>3 DEF PointersInv, Means
<1>3. ASSUME NEW s \in Student, NEW i \in Ip, BuildBox(s, i) PROVE PointersInv'
  <2>1. UNCHANGED peer /\ box[s] = NoVal
    BY <1>3 DEF BuildBox
  <2>2. \A t \in Student : t # s => box'[t] = box[t] /\ built'[t] = built[t]
    BY <1>3 DEF BuildBox, TypeOK
  <2> QED
    BY <2>1, <2>2 DEF PointersInv, Means
<1>4. CASE UNCHANGED <<box, built, peer>>
  BY <1>4 DEF PointersInv, Means
<1> QED
  BY <1>1, <1>2, <1>3, <1>4
     DEF Next, vars, Tick, NewManifest, Validate, Connect, Fetch, ReadPeers, EndPoll,
         WriteStatus, boxes, loader

\* As long as a peer points at a box, the address a student is shown is that of the
\* student's own box, whatever is torn down and built while the manifest is loaded
\* (mylab.py:52-59, load_wireguard_peers.py:88-135).
THEOREM MachineIsTheirOwn == Spec => []MachineIsOwn
<1>1. Init => BoxesInv /\ PointersInv
  BY DEF Init, BoxesInv, PointersInv
<1>2. PointersInv => MachineIsOwn
  BY DEF PointersInv, MachineIsOwn, Means, StillThere, MachineIp
<1> QED
  BY <1>1, <1>2, BoxesStep, PointersStep, WgTypeCorrect, PTL DEF Spec

=============================================================================
