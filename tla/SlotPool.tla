------------------------------ MODULE SlotPool ------------------------------
(***************************************************************************)
(* What the allocator promises (allocation.py:1-18): a pool of VMIDs and a *)
(* pool of addresses, each handed to at most one reservation at a time.    *)
(* Every operation is one atomic step; the races the code has to survive   *)
(* live in Allocation, which implements this module.                       *)
(***************************************************************************)

CONSTANTS
  Req,    \* reservations (VMInstance rows)
  Vmid,   \* the VMID slots
  Ip,     \* the addresses of the IPLease pool
  NoVal   \* "nothing held"

VARIABLES
  slot,   \* slot[r]: the VMID reservation r holds
  addr,   \* addr[r]: the address assigned to reservation r
  out     \* the addresses that have left the pool

vars == <<slot, addr, out>>

Assigned == {addr[r] : r \in Req}

Init ==
  /\ slot = [r \in Req |-> NoVal]
  /\ addr = [r \in Req |-> NoVal]
  /\ out = {}

\* A reservation takes a VMID nobody holds.
Reserve(r) ==
  /\ slot[r] = NoVal
  /\ \E v \in Vmid :
       /\ \A q \in Req : slot[q] # v
       /\ slot' = [slot EXCEPT ![r] = v]
  /\ UNCHANGED <<addr, out>>

\* An address leaves the pool before anybody is named as its holder.
TakeOut ==
  /\ \E i \in Ip \ out : out' = out \cup {i}
  /\ UNCHANGED <<slot, addr>>

\* An address that is out and unassigned is given to a reservation.
Assign(r) ==
  /\ slot[r] # NoVal
  /\ addr[r] = NoVal
  /\ \E i \in out \ Assigned : addr' = [addr EXCEPT ![r] = i]
  /\ UNCHANGED <<slot, out>>

\* A reservation ends: its VMID and its address return together.
GiveBack(r) ==
  /\ slot' = [slot EXCEPT ![r] = NoVal]
  /\ addr' = [addr EXCEPT ![r] = NoVal]
  /\ out' = out \ {addr[r]}

\* An address that is out but assigned to nobody returns to the pool.
Reclaim ==
  /\ \E i \in out \ Assigned : out' = out \ {i}
  /\ UNCHANGED <<slot, addr>>

Next ==
  \/ TakeOut
  \/ Reclaim
  \/ \E r \in Req : Reserve(r) \/ Assign(r) \/ GiveBack(r)

Spec == Init /\ [][Next]_vars

=============================================================================
