------------------------------ MODULE Mailbox ------------------------------
(***************************************************************************)
(* What the buffer and the tag of each chip are to give the driver that    *)
(* asks it something, whether the driver polls the tag (FakeCard) or       *)
(* sleeps until the interrupt (PciIrq): one request at a time, and what is *)
(* read as its answer is its answer.                                       *)
(***************************************************************************)
CONSTANTS
  Boxes,      (* the chips                                                  *)
  Requests,   (* the numbers that tell a chip's requests apart              *)
  NULL

VARIABLES
  asked,      (* the request a box waits for, or NULL                       *)
  got         (* the request whose answer was read last, or NULL            *)

vars == <<asked, got>>

Init == asked = [b \in Boxes |-> NULL] /\ got = [b \in Boxes |-> NULL]

Ask(b) ==
  /\ asked[b] = NULL
  /\ \E r \in Requests : asked' = [asked EXCEPT ![b] = r]
  /\ got' = [got EXCEPT ![b] = NULL]

Reply(b) ==
  /\ asked[b] # NULL
  /\ got' = [got EXCEPT ![b] = asked[b]]
  /\ asked' = [asked EXCEPT ![b] = NULL]

GiveUp(b) ==
  /\ asked[b] # NULL
  /\ asked' = [asked EXCEPT ![b] = NULL]
  /\ UNCHANGED got

(* The reader of an answer is done with it.                                *)
Forget(b) ==
  /\ asked[b] = NULL
  /\ got' = [got EXCEPT ![b] = NULL]
  /\ UNCHANGED asked

Next == \E b \in Boxes : Ask(b) \/ Reply(b) \/ GiveUp(b) \/ Forget(b)

Spec == Init /\ [][Next]_vars

=============================================================================
