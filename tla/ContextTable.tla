---------------------------- MODULE ContextTable ----------------------------
(***************************************************************************)
(* What a driver's table of per-device contexts promises its callbacks: a  *)
(* device owns one entry from the moment it is given one until it gives it *)
(* back, an entry is given only when it is free, and only an owner is      *)
(* served to user space.                                                   *)
(***************************************************************************)
CONSTANTS Devices, Slots, NULL

VARIABLES
  owner,   (* the device that owns each entry, or NULL *)
  served   (* the devices user space can reach         *)

vars == <<owner, served>>

Owns(d) == \E i \in Slots : owner[i] = d

Init ==
  /\ owner = [i \in Slots |-> NULL]
  /\ served = {}

Claim(d) ==
  /\ ~Owns(d)
  /\ \E i \in Slots : owner[i] = NULL /\ owner' = [owner EXCEPT ![i] = d]
  /\ UNCHANGED served

Serve(d) ==
  /\ Owns(d)
  /\ served' = served \cup {d}
  /\ UNCHANGED owner

Withdraw(d) ==
  /\ d \in served
  /\ served' = served \ {d}
  /\ UNCHANGED owner

Release(d) ==
  /\ d \notin served
  /\ \E i \in Slots : owner[i] = d /\ owner' = [owner EXCEPT ![i] = NULL]
  /\ UNCHANGED served

Next == \E d \in Devices : Claim(d) \/ Serve(d) \/ Withdraw(d) \/ Release(d)

Spec == Init /\ [][Next]_vars

=============================================================================
