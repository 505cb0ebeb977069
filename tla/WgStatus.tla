------------------------------ MODULE WgStatus ------------------------------
(***************************************************************************)
(* The students' WireGuard peers: the rows load_wireguard_peers writes from*)
(* the manifest, the boxes they point at, and the connection pill that     *)
(* poll_and_cache (wgstatus.py:117-171) writes to a cache with an expiry   *)
(* and every page reads from there.                                        *)
(*                                                                         *)
(* Time passes in ticks of about one poll interval.  Polls may overlap: a  *)
(* poll reads the gateway, then the table and the clock, and writes the    *)
(* peers one by one.                                                       *)
(***************************************************************************)
EXTENDS Naturals

CONSTANTS
  Student,
  Key,          \* client public keys
  Client,       \* the keys whose owner ever connects
  Ip,           \* addresses of boxes
  Poll,         \* polls that may run at once
  Freshness,    \* WG_STATUS_FRESHNESS_SECONDS, in ticks
  Ttl,          \* WG_STATUS_CACHE_TTL, in ticks
  MaxPoll,      \* the ticks a poll may take from its answer to its last write
  Bounds,       \* a behaviour keeps to one of these bounds on the clock, on the
                \* boxes built for a student and on the runs of the loader
  NoVal

\* A VMInstance row, a WireGuardPeer row, a validated row of the manifest, what a
\* poll holds, and an entry of the cache.
BoxRow == [nr : Nat, ip : Ip]
PeerRow == [key : Key, ip : Ip, vm : (Student \X Nat) \cup {NoVal}, updated : Nat]
PlanRow == [key : Key, ip : Ip, vm : Student \X Nat]
KeyMap == UNION {[P -> Key] : P \in SUBSET Student}
Dump == [began : Nat, dump : [Key -> Nat], keys : KeyMap \cup {NoVal}, at : Nat \cup {NoVal}]
Entry == [key : Key, hs : Nat, at : Nat, connected : BOOLEAN, until : Nat]

ASSUME WgSizes ==
  /\ {Freshness, Ttl, MaxPoll} \subseteq Nat
  /\ \A b \in Bounds : b.now \in Nat \ {0} /\ b.builds \in Nat \ {0} /\ b.loads \in Nat
ASSUME WgKeys == Client \subseteq Key
ASSUME WgNull ==
  NoVal \notin Student \cup Key \cup Ip \cup BoxRow \cup PeerRow \cup Entry \cup (Student \X Nat)

VARIABLES
  bound,      \* the bounds of this behaviour
  now,
  handshake,  \* handshake[k]: when the gateway last shook hands with k, 0 for never
  box,        \* box[s]: the student's VMInstance row, its number and address
  built,      \* built[s]: boxes built for s so far
  manifest,   \* manifest[s]: the key and the box address manifest.tsv names
  peer,       \* peer[s]: the WireGuardPeer row
  plan,       \* the row the loader has validated of each student
  loads,      \* runs of the loader so far
  pc,         \* where each poll is
  got,        \* got[q]: the dump, the keys of the peers, the clock the poll read
  todo,       \* todo[q]: the students it has yet to write
  cache       \* cache[s]: the cache entry of s's peer

boxes == <<box, built>>
loader == <<plan, loads>>
polls == <<pc, got, todo, cache>>
vars == <<bound, now, handshake, box, built, manifest, peer, plan, loads, pc, got, todo, cache>>

Init ==
  /\ bound \in Bounds
  /\ now = 1
  /\ handshake = [k \in Key |-> 0]
  /\ box \in [Student -> {[nr |-> 1, ip |-> i] : i \in Ip}]
  /\ \A s, t \in Student : s # t => box[s].ip # box[t].ip
  /\ built = [s \in Student |-> 1]
  /\ manifest \in [Student -> [key : Key, ip : Ip]]
  /\ \A s, t \in Student : manifest[s].key = manifest[t].key => s = t
  /\ \A s \in Student : manifest[s].ip = box[s].ip
  /\ peer = [s \in Student |-> NoVal]
  /\ plan = NoVal
  /\ loads = 0
  /\ pc = [q \in Poll |-> "idle"]
  /\ got = [q \in Poll |-> NoVal]
  /\ todo = [q \in Poll |-> {}]
  /\ cache = [s \in Student |-> NoVal]

-----------------------------------------------------------------------------
(* The world outside *)

Tick ==
  /\ now < bound.now
  /\ \A q \in Poll : pc[q] # "idle" => now - got[q].began < MaxPoll
  /\ now' = now + 1
  /\ UNCHANGED <<bound, handshake, boxes, manifest, peer, loader, polls>>

Connect(k) ==
  /\ handshake[k] # now
  /\ handshake' = [handshake EXCEPT ![k] = now]
  /\ UNCHANGED <<bound, now, boxes, manifest, peer, loader, polls>>

\* The VMInstance row is deleted; vm_instance is SET_NULL, kali_ip stays.
ClearPointer(s) ==
  peer' = IF peer[s] = NoVal THEN peer ELSE [peer EXCEPT ![s].vm = NoVal]

DropBox(s) ==
  /\ box[s] # NoVal /\ built[s] < bound.builds
  /\ box' = [box EXCEPT ![s] = NoVal]
  /\ ClearPointer(s)
  /\ UNCHANGED <<bound, now, handshake, built, manifest, loader, polls>>

\* A new box gets whatever address is free.
BuildBox(s, i) ==
  /\ box[s] = NoVal /\ built[s] < bound.builds
  /\ \A t \in Student : box[t] # NoVal => box[t].ip # i
  /\ box' = [box EXCEPT ![s] = [nr |-> built[s] + 1, ip |-> i]]
  /\ built' = [built EXCEPT ![s] = @ + 1]
  /\ UNCHANGED <<bound, now, handshake, manifest, peer, loader, polls>>

\* The manifest is generated anew: for the boxes of now, or with two students'
\* keys exchanged.
NewManifest ==
  /\ plan = NoVal
  /\ \/ manifest' = [s \in Student |->
                       IF box[s] = NoVal THEN manifest[s] ELSE [manifest[s] EXCEPT !.ip = box[s].ip]]
     \/ \E s, t \in Student :
          manifest' = [manifest EXCEPT ![s].key = manifest[t].key, ![t].key = manifest[s].key]
  /\ UNCHANGED <<bound, now, handshake, boxes, peer, loader, polls>>

-----------------------------------------------------------------------------
(* load_wireguard_peers *)

\* kali_ip must be the address of a live box of this very student.
\* (bug: of some student's box)
AnyBox(s) == {t \in Student : box[t] # NoVal /\ box[t].ip = manifest[s].ip}
OwnBox(s) == {t \in {s} : box[t] # NoVal /\ box[t].ip = manifest[s].ip}

\* Every row is validated before the first is written; one that fails ends the run.
Validate ==
  /\ plan = NoVal /\ loads < bound.loads
  /\ \A s \in Student : OwnBox(s) # {}
  /\ plan' = [s \in Student |->
       LET t == CHOOSE x \in OwnBox(s) : TRUE
       IN [key |-> manifest[s].key, ip |-> manifest[s].ip, vm |-> <<t, box[t].nr>>]]
  /\ loads' = loads + 1
  /\ UNCHANGED <<bound, now, handshake, boxes, manifest, peer, polls>>

StillThere(vm) == box[vm[1]] # NoVal /\ box[vm[1]].nr = vm[2]

\* One transaction for all rows.  A box deleted since it was validated breaks the
\* foreign key and nothing is written.
ForeignKeysHold == \A s \in Student : StillThere(plan[s].vm)

WritePeers ==
  /\ plan # NoVal
  /\ \/ /\ ForeignKeysHold
        /\ peer' = [s \in Student |-> [key |-> plan[s].key, ip |-> plan[s].ip,
                                       vm |-> plan[s].vm, updated |-> now]]
     \/ ~ForeignKeysHold /\ UNCHANGED peer
  /\ plan' = NoVal
  /\ UNCHANGED <<bound, now, handshake, boxes, manifest, loads, polls>>

-----------------------------------------------------------------------------
(* poll_and_cache *)

Goto(q, label) == pc' = [pc EXCEPT ![q] = label]

\* The gateway answers.  When it does not, or the poll is disabled, nothing is
\* written at all.
Fetch(q) ==
  /\ pc[q] = "idle"
  /\ got' = [got EXCEPT ![q] = [began |-> now, dump |-> handshake, keys |-> NoVal, at |-> NoVal]]
  /\ Goto(q, "peers")
  /\ UNCHANGED <<bound, now, handshake, boxes, manifest, peer, loader, todo, cache>>

Peers == {s \in Student : peer[s] # NoVal}

\* The table and the clock are read.  A key the table does not know is ignored.
ReadPeers(q) ==
  /\ pc[q] = "peers"
  /\ got' = [got EXCEPT ![q].keys = [s \in Peers |-> peer[s].key], ![q].at = now]
  /\ todo' = [todo EXCEPT ![q] = Peers]
  /\ Goto(q, "write")
  /\ UNCHANGED <<bound, now, handshake, boxes, manifest, peer, loader, cache>>

\* (bug: whoever ever shook hands is connected)
EverConnected(hs, at) == hs > 0
ComputeConnected(hs, at) == hs > 0 /\ at - hs =< Freshness

\* (bug: the entry is set without an expiry)
NoExpiry(t) == bound.now + Ttl + 1
Expiry(t) == t + Ttl

WriteStatus(q, s) ==
  /\ pc[q] = "write" /\ s \in todo[q]
  /\ LET k == got[q].keys[s]
         hs == got[q].dump[k]
     IN cache' = [cache EXCEPT ![s] =
          [key |-> k, hs |-> hs, at |-> got[q].at,
           connected |-> ComputeConnected(hs, got[q].at), until |-> Expiry(now)]]
  /\ todo' = [todo EXCEPT ![q] = @ \ {s}]
  /\ UNCHANGED <<bound, now, handshake, boxes, manifest, peer, loader, pc, got>>

EndPoll(q) ==
  /\ pc[q] = "write" /\ todo[q] = {}
  /\ got' = [got EXCEPT ![q] = NoVal]
  /\ Goto(q, "idle")
  /\ UNCHANGED <<bound, now, handshake, boxes, manifest, peer, loader, todo, cache>>

-----------------------------------------------------------------------------
(* What the pages show *)

\* get_status and get_status_many: a miss, or an entry that has expired, is unknown.
Status(s) == IF cache[s] # NoVal /\ now < cache[s].until THEN cache[s] ELSE NoVal

\* my_lab_context: kali_ip of the peer, else the address of the box.
MachineIp(s) ==
  IF peer[s] # NoVal THEN peer[s].ip ELSE IF box[s] # NoVal THEN box[s].ip ELSE NoVal

-----------------------------------------------------------------------------
Next ==
  \/ Tick \/ NewManifest \/ Validate \/ WritePeers
  \/ \E k \in Client : Connect(k)
  \/ \E s \in Student : DropBox(s) \/ \E i \in Ip : BuildBox(s, i)
  \/ \E q \in Poll : Fetch(q) \/ ReadPeers(q) \/ EndPoll(q)
  \/ \E q \in Poll, s \in Student : WriteStatus(q, s)

Spec == Init /\ [][Next]_vars

-----------------------------------------------------------------------------
\* Every variable has its type, and no cache entry is set to outlive the TTL.
TypeOK ==
  /\ bound \in Bounds /\ now \in 1 .. bound.now /\ handshake \in [Key -> 0 .. now]
  /\ box \in [Student -> BoxRow \cup {NoVal}]
  /\ built \in [Student -> 0 .. bound.builds] /\ loads \in 0 .. bound.loads
  /\ manifest \in [Student -> [key : Key, ip : Ip]]
  /\ peer \in [Student -> PeerRow \cup {NoVal}]
  /\ plan \in [Student -> PlanRow] \cup {NoVal}
  /\ pc \in [Poll -> {"idle", "peers", "write"}]
  /\ got \in [Poll -> Dump \cup {NoVal}]
  /\ todo \in [Poll -> SUBSET Student]
  /\ cache \in [Student -> Entry \cup {NoVal}]
  /\ \A s \in Student : cache[s] # NoVal => cache[s].until =< now + Ttl

\* However polls overlap, fail or stop, "connected" is never shown of a client whose
\* last handshake is older than the freshness window, the TTL and one poll together
\* (wgstatus.py:8-11, 117-121, base.py:300-304): a dead poller leads to "unknown".
ConnectedIsRecent ==
  \A s \in Student :
    Status(s) # NoVal /\ Status(s).connected => now - Status(s).hs < Freshness + MaxPoll + Ttl

\* A status shown of a student is that of the key the student's peer has, or the
\* peer was reloaded less than a TTL and a poll ago (wgstatus.py:130-160): a poll
\* that read the table before the keys were exchanged does not show one student
\* the other's tunnel for longer.
StatusOfOwnTunnel ==
  \A s \in Student :
    Status(s) # NoVal /\ Status(s).key # peer[s].key => now - peer[s].updated < MaxPoll + Ttl

\* The address a student is shown is that of the student's own box as long as the
\* peer points at a box (mylab.py:52-59, load_wireguard_peers.py:88-104), whatever
\* is torn down and built between the validation of the manifest and its writing.
\* A box rebuilt after the load leaves the pointer NULL and the address behind.
MachineIsOwn ==
  \A s \in Student :
    peer[s] # NoVal /\ peer[s].vm # NoVal =>
      /\ StillThere(peer[s].vm) /\ peer[s].vm[1] = s
      /\ MachineIp(s) = box[s].ip

=============================================================================
