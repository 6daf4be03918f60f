------------------------------ MODULE MCFakeCard ------------------------------
(* The cards are as the driver expects them, but that one, whichever it is, *)
(* may have a memory too small for the tags, or lack one of the two BARs.   *)
EXTENDS FakeCard

Odd == CHOOSE d \in Devices : TRUE

MCCards ==
  {[d \in Devices |-> IF d = Odd THEN kind ELSE [io |-> TRUE, mem |-> 8192]] :
     kind \in {[io |-> TRUE, mem |-> 8192], [io |-> TRUE, mem |-> 4096],
               [io |-> TRUE, mem |-> 0], [io |-> FALSE, mem |-> 8192]}}
=============================================================================
