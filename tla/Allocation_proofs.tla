-------------------------- MODULE Allocation_proofs --------------------------
(***************************************************************************)
(* Proofs about Allocation, for every number of reservations, every VMID   *)
(* range and every address pool.                                           *)
(*                                                                         *)
(* SlotsExclusive needs no assumption on the reaper: the UNIQUE column     *)
(* alone decides it.  The address properties need OneSweep: they fail when *)
(* two sweeps overlap (Sweep = {s1, s2} in Allocation.cfg shows it).       *)
(***************************************************************************)
EXTENDS Allocation, TLAPS

-----------------------------------------------------------------------------
(* Type correctness *)

\* What each statement of a call may rely on is kept by every step: rows and
\* hands match the program counter (allocation.py:148-214).
LEMMA TypeStep == TypeOK /\ Phases /\ [Next]_vars => TypeOK' /\ Phases'
<1> USE RangeAssumption, NoValAssumption
    DEF TypeOK, Phases, VmidSlots, PcSet, FreeLease, LocalsDropped, LocalsKept
<1> SUFFICES ASSUME TypeOK, Phases, [Next]_vars PROVE TypeOK' /\ Phases'
  OBVIOUS
<1>1. ASSUME NEW r \in Req, ReadLive(r) PROVE TypeOK' /\ Phases'
  BY <1>1 DEF ReadLive
<1>2. ASSUME NEW r \in Req, PickVmid(r) PROVE TypeOK' /\ Phases'
  BY <1>2 DEF PickVmid, AttemptsLeft, NextAttempt
<1>3. ASSUME NEW r \in Req, GiveUp(r) PROVE TypeOK' /\ Phases'
  BY <1>3 DEF GiveUp
<1>4. ASSUME NEW r \in Req, InsertRow(r) PROVE TypeOK' /\ Phases'
  <2>1. CASE UniqueVmid(pick[r])
    <3>1. /\ row' = [row EXCEPT ![r] = pick[r]]
          /\ pc' = [pc EXCEPT ![r] = "lease"]
          /\ LocalsDropped(r)
      BY <1>4, <2>1 DEF InsertRow
    <3>2. pick[r] \in Vmid /\ UNCHANGED <<rowIp, lease, node, hand, listed>>
      BY <1>4 DEF InsertRow
    <3> HIDE DEF LocalsDropped
    <3>3. TypeOK'
      BY <3>1, <3>2 DEF LocalsDropped
    <3>4. Phases'
      BY <1>4, <3>1, <3>2 DEF InsertRow, LocalsDropped
    <3> QED
      BY <3>3, <3>4
  <2>2. CASE ~UniqueVmid(pick[r])
    BY <1>4, <2>2 DEF InsertRow
  <2> QED
    BY <2>1, <2>2
<1>5. ASSUME NEW r \in Req, LeaseIp(r) PROVE TypeOK' /\ Phases'
  BY <1>5 DEF LeaseIp, FreeLeases
<1>6. ASSUME NEW r \in Req, BindLease(r) PROVE TypeOK' /\ Phases'
  BY <1>6 DEF BindLease
<1>7. ASSUME NEW r \in Req, Raise(r) PROVE TypeOK' /\ Phases'
  BY <1>7 DEF Raise
<1>8. ASSUME NEW r \in Req, Crash(r) PROVE TypeOK' /\ Phases'
  BY <1>8 DEF Crash
<1>9. ASSUME NEW r \in Req, ReleaseReservation(r) PROVE TypeOK' /\ Phases'
  BY <1>9 DEF ReleaseReservation, LeasesWithout
<1>10. ASSUME NEW r \in Req, CloneInto(r) PROVE TypeOK' /\ Phases'
  BY <1>10 DEF CloneInto
<1>11. ASSUME NEW v \in Vmid, Destroyed(v) PROVE TypeOK' /\ Phases'
  BY <1>11 DEF Destroyed
<1>12. ASSUME NEW s \in Sweep, SweepFetch(s) PROVE TypeOK' /\ Phases'
  BY <1>12 DEF SweepFetch, AgedUnbound
<1>13. ASSUME NEW s \in Sweep, SweepRelease(s) PROVE TypeOK' /\ Phases'
  BY <1>13 DEF SweepRelease, ReleaseLease
<1>14. CASE UNCHANGED vars
  BY <1>14 DEF vars
<1> QED
  BY <1>1, <1>2, <1>3, <1>4, <1>5, <1>6, <1>7, <1>8, <1>9, <1>10, <1>11,
     <1>12, <1>13, <1>14 DEF Next, Call

\* The variables keep their types, and a call never makes more attempts than
\* there are VMID slots (allocation.py:161-164).
THEOREM TypeCorrect == Spec => [](TypeOK /\ Phases)
<1>1. Init => TypeOK /\ Phases
  BY RangeAssumption, NoValAssumption
     DEF Init, TypeOK, Phases, VmidSlots, PcSet, FreeLease
<1> QED
  BY <1>1, TypeStep, PTL DEF Spec

-----------------------------------------------------------------------------
(* No two reservations hold one VMID *)

\* Only InsertRow writes a vmid, and it does so only when no row has it.
LEMMA SlotsStep ==
  TypeOK /\ Phases /\ SlotsExclusive /\ [Next]_vars => SlotsExclusive'
<1> SUFFICES ASSUME TypeOK, Phases, SlotsExclusive, [Next]_vars
             PROVE SlotsExclusive'
  OBVIOUS
<1> USE DEF TypeOK, SlotsExclusive
<1>1. ASSUME NEW r \in Req, InsertRow(r) PROVE SlotsExclusive'
  <2>1. pick[r] \in Vmid /\ pick[r] # NoVal
    BY <1>1 DEF InsertRow, Phases
  <2> QED
    BY <1>1, <2>1 DEF InsertRow, UniqueVmid
<1>2. ASSUME NEW r \in Req, ReleaseReservation(r) PROVE SlotsExclusive'
  BY <1>2 DEF ReleaseReservation
<1>3. CASE UNCHANGED row
  BY <1>3
<1>4. \/ UNCHANGED row
      \/ \E r \in Req : InsertRow(r) \/ ReleaseReservation(r)
  BY DEF Next, Call, vars, ReadLive, PickVmid, GiveUp, LeaseIp, BindLease, Raise,
         Crash, CloneInto, Destroyed, SweepFetch, SweepRelease
<1> QED
  BY <1>1, <1>2, <1>3, <1>4

\* Two provisions never hold the same VMID, whatever the sweeps do
\* (allocation.py:3-11).
THEOREM SlotsAreExclusive == Spec => []SlotsExclusive
<1>1. Init => SlotsExclusive
  BY DEF Init, SlotsExclusive
<1> QED
  BY <1>1, SlotsStep, TypeCorrect, PTL DEF Spec

-----------------------------------------------------------------------------
(* Leases and rows stay linked both ways *)

\* With one sweep at most, every step keeps the two foreign keys in agreement
\* and leaves an unbound lease to the call or to the sweep that has it.
LEMMA LeaseStep ==
  OneSweep /\ TypeOK /\ Phases /\ LeaseInv /\ [Next]_vars => LeaseInv'
<1> SUFFICES ASSUME OneSweep, TypeOK, Phases, LeaseInv, [Next]_vars
             PROVE LeaseInv'
  OBVIOUS
<1> USE NoValAssumption
    DEF TypeOK, LeaseInv, LeaseBookkeeping, UnboundLeasesOwned, Unbound, FreeLease
<1>1. ASSUME NEW r \in Req, LeaseIp(r) PROVE LeaseInv'
  <2>1. UNCHANGED <<rowIp, listed>> /\ hand[r] = NoVal
    BY <1>1 DEF LeaseIp, Phases
  <2>2. CASE FreeLeases = {}
    BY <1>1, <2>1, <2>2 DEF LeaseIp
  <2>3. CASE FreeLeases # {}
    <3>1. PICK i \in Ip : /\ lease[i].state = "free"
                          /\ lease' = [lease EXCEPT ![i].state = "leased"]
                          /\ hand' = [hand EXCEPT ![r] = i]
      BY <1>1, <2>3 DEF LeaseIp, FreeLeases
    <3>2. lease[i].vm = NoVal /\ \A q \in Req : hand[q] # i
      BY <3>1
    <3>3. \A t \in Sweep : i \notin listed[t]
      BY <3>1
    <3>4. LeaseBookkeeping'
      BY <2>1, <3>1, <3>2
    <3>5. UnboundLeasesOwned'
      BY <2>1, <3>1, <3>2, <3>3
    <3> QED
      BY <3>4, <3>5
  <2> QED
    BY <2>2, <2>3
<1>2. ASSUME NEW r \in Req, BindLease(r) PROVE LeaseInv'
  <2> DEFINE i == hand[r]
  <2>1. i \in Ip /\ Unbound(i) /\ rowIp[r] = NoVal
    BY <1>2 DEF BindLease, Phases
  <2>2. /\ rowIp' = [rowIp EXCEPT ![r] = i]
        /\ lease' = [lease EXCEPT ![i].vm = r]
        /\ hand' = [hand EXCEPT ![r] = NoVal]
        /\ UNCHANGED listed
    BY <1>2 DEF BindLease
  <2>3. \A q \in Req : rowIp[q] # i /\ (q # r => hand[q] # i)
    BY <2>1
  <2>4. \A t \in Sweep : i \notin listed[t]
    BY <2>1
  <2> HIDE DEF i
  <2>5. LeaseBookkeeping'
    BY <2>1, <2>2, <2>3
  <2>6. UnboundLeasesOwned'
    <3>1. \A j \in Ip : j # i => lease'[j] = lease[j]
      BY <2>1, <2>2
    <3>2. \A q \in Req : q # r => hand'[q] = hand[q]
      BY <2>2
    <3>3. hand'[r] = NoVal
      BY <2>2
    <3> QED
      BY <3>1, <3>2, <3>3, <2>2, <2>3, <2>4
  <2> QED
    BY <2>5, <2>6
<1>3. ASSUME NEW r \in Req, Raise(r) \/ Crash(r) PROVE LeaseInv'
  BY <1>3 DEF Raise, Crash
<1>4. ASSUME NEW r \in Req, ReleaseReservation(r) PROVE LeaseInv'
  BY <1>4 DEF ReleaseReservation, LeasesWithout
<1>5. ASSUME NEW s \in Sweep, SweepFetch(s) PROVE LeaseInv'
  BY <1>5 DEF SweepFetch, AgedUnbound
<1>6. ASSUME NEW s \in Sweep, SweepRelease(s) PROVE LeaseInv'
  <2>1. PICK i \in listed[s] : /\ lease' = [lease EXCEPT ![i] = FreeLease]
                               /\ listed' = [listed EXCEPT ![s] = @ \ {i}]
    BY <1>6 DEF SweepRelease, ReleaseLease
  <2>2. UNCHANGED <<rowIp, hand>> /\ i \in Ip
    BY <1>6 DEF SweepRelease
  <2>3. \A t \in Sweep : t = s
    BY DEF OneSweep
  <2> QED
    BY <2>1, <2>2, <2>3
<1>7. CASE UNCHANGED <<rowIp, lease, hand, listed>>
  BY <1>7
<1>8. \/ UNCHANGED <<rowIp, lease, hand, listed>>
      \/ \E r \in Req : \/ LeaseIp(r) \/ BindLease(r) \/ Raise(r) \/ Crash(r)
                       \/ ReleaseReservation(r)
      \/ \E s \in Sweep : SweepFetch(s) \/ SweepRelease(s)
  BY DEF Next, Call, vars, ReadLive, PickVmid, GiveUp, InsertRow, CloneInto, Destroyed
<1> QED
  BY <1>1, <1>2, <1>3, <1>4, <1>5, <1>6, <1>7, <1>8

\* The invariant is established and kept.
LEMMA LeaseInvariance == OneSweep /\ Spec => []LeaseInv
<1>1. Init => LeaseInv
  BY NoValAssumption
     DEF Init, LeaseInv, LeaseBookkeeping, UnboundLeasesOwned, Unbound, FreeLease
<1>2. SUFFICES ASSUME OneSweep PROVE Spec => []LeaseInv
  OBVIOUS
<1> QED
  BY <1>1, <1>2, LeaseStep, TypeCorrect, PTL DEF Spec

\* VMInstance.ip and IPLease.vm_instance agree in every state, as long as one
\* sweep runs at a time.
THEOREM LeasesStayBooked == OneSweep /\ Spec => []LeaseBookkeeping
<1>1. LeaseInv => LeaseBookkeeping
  BY DEF LeaseInv
<1> QED
  BY <1>1, LeaseInvariance, PTL

\* Two provisions never hold the same IP (allocation.py:3-4), as long as one
\* sweep runs at a time.
THEOREM AddressesAreExclusive == OneSweep /\ Spec => []AddressesExclusive
<1>1. TypeOK /\ LeaseInv => AddressesExclusive
  <2> SUFFICES ASSUME TypeOK, LeaseInv, NEW r \in Req, NEW q \in Req, r # q,
                      NEW i \in Holds(r), i \in Holds(q)
               PROVE FALSE
    BY DEF AddressesExclusive
  <2>1. i \in Ip /\ i # NoVal /\ i \in {hand[r], rowIp[r]} /\ i \in {hand[q], rowIp[q]}
    BY DEF Holds, TypeOK
  <2> QED
    BY <2>1, NoValAssumption
       DEF LeaseInv, LeaseBookkeeping, UnboundLeasesOwned, Unbound
<1> QED
  BY <1>1, LeaseInvariance, TypeCorrect, PTL

\* A sweep never takes an address a provision holds (reaper.py:233), as long
\* as one sweep runs at a time.
THEOREM SweepsAreSafe == OneSweep /\ Spec => SweepFreesOnlyOrphans
<1> DEFINE Safe == \A s \in Sweep : SweepRelease(s) =>
                     \A i \in Ip : lease'[i] # lease[i] => \A r \in Req : i \notin Holds(r)
<1>1. TypeOK /\ LeaseInv => Safe
  <2> SUFFICES ASSUME TypeOK, LeaseInv, NEW s \in Sweep, SweepRelease(s),
                      NEW i \in Ip, lease'[i] # lease[i], NEW r \in Req
               PROVE i \notin Holds(r)
    OBVIOUS
  <2>1. i \in listed[s]
    BY DEF SweepRelease, ReleaseLease, TypeOK
  <2>2. Unbound(i) /\ hand[r] # i
    BY <2>1 DEF LeaseInv, UnboundLeasesOwned
  <2>3. rowIp[r] # i
    BY <2>2, NoValAssumption DEF LeaseInv, LeaseBookkeeping, Unbound, TypeOK
  <2> QED
    BY <2>2, <2>3 DEF Holds
<1>2. TypeOK /\ LeaseInv => [Safe]_vars
  BY <1>1
<1>3. [](TypeOK /\ LeaseInv) => [][Safe]_vars
  BY <1>2, PTL
<1>4. OneSweep /\ Spec => [](TypeOK /\ LeaseInv)
  BY LeaseInvariance, TypeCorrect, PTL
<1> QED
  BY <1>3, <1>4 DEF SweepFreesOnlyOrphans

-----------------------------------------------------------------------------
(* The allocator implements the atomic pool *)

\* Every step of the allocator is a step of the pool or leaves it alone.
LEMMA PoolStep ==
  TypeOK /\ Phases /\ LeaseInv /\ [Next]_vars => [Pool!Next]_(Pool!vars)
<1> DEFINE taken == {i \in Ip : lease[i].state = "leased"}
<1> SUFFICES ASSUME TypeOK, Phases, LeaseInv, [Next]_vars
             PROVE Pool!Next \/ UNCHANGED <<row, rowIp, taken>>
  BY DEF Pool!vars
<1> USE NoValAssumption DEF TypeOK, FreeLease
<1>1. ASSUME NEW r \in Req, InsertRow(r)
      PROVE Pool!Reserve(r) \/ UNCHANGED <<row, rowIp, taken>>
  BY <1>1 DEF InsertRow, UniqueVmid, Phases, Pool!Reserve
<1>2. ASSUME NEW r \in Req, LeaseIp(r)
      PROVE Pool!TakeOut \/ UNCHANGED <<row, rowIp, taken>>
  <2>1. CASE FreeLeases = {}
    BY <1>2, <2>1 DEF LeaseIp
  <2>2. CASE FreeLeases # {}
    <3>1. PICK i \in Ip : /\ lease[i].state = "free"
                          /\ lease' = [lease EXCEPT ![i].state = "leased"]
      BY <1>2, <2>2 DEF LeaseIp, FreeLeases
    <3>2. taken' = taken \cup {i} /\ i \in Ip \ taken
      BY <3>1
    <3> QED
      BY <1>2, <3>2 DEF LeaseIp, Pool!TakeOut
  <2> QED
    BY <2>1, <2>2
<1>3. ASSUME NEW r \in Req, BindLease(r) PROVE Pool!Assign(r)
  <2>1. /\ hand[r] \in Ip /\ Unbound(hand[r])
        /\ row[r] # NoVal /\ rowIp[r] = NoVal
    BY <1>3 DEF BindLease, Phases, LeaseInv, UnboundLeasesOwned
  <2>2. hand[r] \in taken /\ taken' = taken
    BY <1>3, <2>1 DEF BindLease, Unbound
  <2>3. \A q \in Req : rowIp[q] # hand[r]
    BY <2>1 DEF LeaseInv, LeaseBookkeeping, Unbound
  <2>4. hand[r] \in taken \ Pool!Assigned
    BY <2>2, <2>3 DEF Pool!Assigned
  <2>5. rowIp' = [rowIp EXCEPT ![r] = hand[r]] /\ UNCHANGED <<row, taken>>
    BY <1>3, <2>2 DEF BindLease
  <2> HIDE DEF taken
  <2> QED
    BY <2>1, <2>4, <2>5 DEF Pool!Assign, taken
<1>4. ASSUME NEW r \in Req, ReleaseReservation(r) PROVE Pool!GiveBack(r)
  <2>1. \A i \in Ip : rowIp[r] = i <=> lease[i].vm = r
    BY DEF LeaseInv, LeaseBookkeeping
  <2>2. taken' = taken \ {rowIp[r]}
    BY <1>4, <2>1 DEF ReleaseReservation, LeasesWithout
  <2> QED
    BY <1>4, <2>2 DEF ReleaseReservation, Pool!GiveBack
<1>5. ASSUME NEW s \in Sweep, SweepRelease(s) PROVE Pool!Reclaim
  <2>1. PICK i \in listed[s] : lease' = [lease EXCEPT ![i] = FreeLease]
    BY <1>5 DEF SweepRelease, ReleaseLease
  <2>2. i \in Ip /\ Unbound(i)
    BY <2>1 DEF LeaseInv, UnboundLeasesOwned
  <2>3. i \in taken /\ taken' = taken \ {i}
    BY <2>1, <2>2 DEF Unbound
  <2>4. \A q \in Req : rowIp[q] # i
    BY <2>2 DEF LeaseInv, LeaseBookkeeping, Unbound
  <2> QED
    BY <1>5, <2>3, <2>4 DEF SweepRelease, Pool!Reclaim, Pool!Assigned
<1>6. \/ UNCHANGED <<row, rowIp, lease>>
      \/ \E r \in Req : InsertRow(r) \/ LeaseIp(r) \/ BindLease(r) \/ ReleaseReservation(r)
      \/ \E s \in Sweep : SweepRelease(s)
  BY DEF Next, Call, vars, ReadLive, PickVmid, GiveUp, Raise, Crash, CloneInto,
         Destroyed, SweepFetch
<1> QED
  BY <1>1, <1>2, <1>3, <1>4, <1>5, <1>6 DEF Pool!Next

\* The racy allocator implements the atomic pool (allocation.py:1-18), as long
\* as one sweep runs at a time.
THEOREM AllocationImplementsPool == OneSweep /\ Spec => PoolSpec
<1>1. Init => Pool!Init
  BY DEF Init, Pool!Init, FreeLease
<1>2. OneSweep /\ Spec => [](TypeOK /\ Phases /\ LeaseInv)
  BY LeaseInvariance, TypeCorrect, PTL
<1> QED
  BY <1>1, <1>2, PoolStep, PTL DEF Spec, PoolSpec, Pool!Spec

=============================================================================
