------------------------ MODULE WorkerLayout_proofs ------------------------
(***************************************************************************)
(* The areas of the chips are apart, and a memory of the size the FIXMEs   *)
(* would ask for has room for all of them, whatever the number and the     *)
(* sizes are, as long as the messages fit in the window                    *)
(* (LayoutAssumption).  The products of two constants are dealt with in    *)
(* Steps; everything else is linear.                                       *)
(***************************************************************************)
EXTENDS WorkerLayout, TLAPS

(* Of two chips the later begins where the earlier has ended, or after.    *)
LEMMA Steps ==
  ASSUME NEW size \in Nat, NEW i \in Nat, NEW j \in Nat, i < j
  PROVE  /\ i * size \in Nat /\ j * size \in Nat
         /\ i * size + size <= j * size
<1>1. i * size \in Nat /\ j * size \in Nat
  BY SMT
<1>2. (i + 1) * size = i * size + size
  BY SMT
<1>3. (i + 1) * size <= j * size
  <2>1. PICK k \in Nat : j = (i + 1) + k
    <3>1. j - (i + 1) \in Nat /\ j = (i + 1) + (j - (i + 1))
      BY SMT
    <3> QED
      BY <3>1
  <2>2. ((i + 1) + k) * size = (i + 1) * size + k * size
    BY SMT
  <2>3. k * size \in Nat /\ (i + 1) * size \in Nat
    BY SMT
  <2> QED
    BY <2>1, <2>2, <2>3, SMT
<1> QED
  BY <1>1, <1>2, <1>3, SMT

(* Every buffer ends within the window and every tag before the end of the *)
(* tags.                                                                   *)
LEMMA Bounds ==
  ASSUME NEW i \in Chips
  PROVE  /\ buff_ptr(i) \in Nat /\ buff_ptr(i) + MESSAGE_SIZE <= WINDOW
         /\ tag_ptr(i) \in Nat /\ WINDOW <= tag_ptr(i)
         /\ MAX_CHIP_IN_DEVICE * TAG_SIZE \in Nat
         /\ tag_ptr(i) + TAG_SIZE <= WINDOW + MAX_CHIP_IN_DEVICE * TAG_SIZE
<1>1. i \in Nat /\ i < MAX_CHIP_IN_DEVICE
  BY LayoutAssumption, SMT DEF Chips
<1>2. /\ i * MESSAGE_SIZE \in Nat /\ MAX_CHIP_IN_DEVICE * MESSAGE_SIZE \in Nat
      /\ i * MESSAGE_SIZE + MESSAGE_SIZE <= MAX_CHIP_IN_DEVICE * MESSAGE_SIZE
  BY <1>1, Steps, LayoutAssumption
<1>3. /\ i * TAG_SIZE \in Nat /\ MAX_CHIP_IN_DEVICE * TAG_SIZE \in Nat
      /\ i * TAG_SIZE + TAG_SIZE <= MAX_CHIP_IN_DEVICE * TAG_SIZE
  BY <1>1, Steps, LayoutAssumption
<1>4. buff_ptr(i) \in Nat /\ buff_ptr(i) + MESSAGE_SIZE <= WINDOW
  BY <1>2, LayoutAssumption, SMT DEF buff_ptr
<1>5. /\ tag_ptr(i) \in Nat /\ WINDOW <= tag_ptr(i)
      /\ tag_ptr(i) + TAG_SIZE <= WINDOW + MAX_CHIP_IN_DEVICE * TAG_SIZE
  BY <1>3, LayoutAssumption, SMT DEF tag_ptr
<1> QED
  BY <1>3, <1>4, <1>5

(* No two areas share a byte (pcidev-02/pcidev.c:226-227).                 *)
THEOREM ChipsNeverOverlap == ChipsApart
<1>1. SUFFICES ASSUME NEW i \in Chips, NEW j \in Chips
      PROVE  /\ Apart(buff_ptr(i), MESSAGE_SIZE, tag_ptr(j), TAG_SIZE)
             /\ i # j => /\ Apart(buff_ptr(i), MESSAGE_SIZE, buff_ptr(j), MESSAGE_SIZE)
                         /\ Apart(tag_ptr(i), TAG_SIZE, tag_ptr(j), TAG_SIZE)
  BY DEF ChipsApart
<1>2. Apart(buff_ptr(i), MESSAGE_SIZE, tag_ptr(j), TAG_SIZE)
  <2>1. /\ buff_ptr(i) \in Nat /\ buff_ptr(i) + MESSAGE_SIZE <= WINDOW
        /\ tag_ptr(j) \in Nat /\ WINDOW <= tag_ptr(j)
    BY Bounds
  <2> QED
    BY <2>1, LayoutAssumption, SMT DEF Apart
<1>3. ASSUME NEW a \in Chips, NEW b \in Chips, a < b
      PROVE  /\ Apart(buff_ptr(a), MESSAGE_SIZE, buff_ptr(b), MESSAGE_SIZE)
             /\ Apart(buff_ptr(b), MESSAGE_SIZE, buff_ptr(a), MESSAGE_SIZE)
             /\ Apart(tag_ptr(a), TAG_SIZE, tag_ptr(b), TAG_SIZE)
             /\ Apart(tag_ptr(b), TAG_SIZE, tag_ptr(a), TAG_SIZE)
  <2>1. a \in Nat /\ b \in Nat
    BY LayoutAssumption, SMT DEF Chips
  <2>2. /\ a * MESSAGE_SIZE \in Nat /\ b * MESSAGE_SIZE \in Nat
        /\ a * MESSAGE_SIZE + MESSAGE_SIZE <= b * MESSAGE_SIZE
    BY <1>3, <2>1, Steps, LayoutAssumption
  <2>3. /\ a * TAG_SIZE \in Nat /\ b * TAG_SIZE \in Nat
        /\ a * TAG_SIZE + TAG_SIZE <= b * TAG_SIZE
    BY <1>3, <2>1, Steps, LayoutAssumption
  <2>4. /\ Apart(buff_ptr(a), MESSAGE_SIZE, buff_ptr(b), MESSAGE_SIZE)
        /\ Apart(buff_ptr(b), MESSAGE_SIZE, buff_ptr(a), MESSAGE_SIZE)
    BY <2>2 DEF Apart, buff_ptr
  <2>5. /\ Apart(tag_ptr(a), TAG_SIZE, tag_ptr(b), TAG_SIZE)
        /\ Apart(tag_ptr(b), TAG_SIZE, tag_ptr(a), TAG_SIZE)
    BY <2>3, LayoutAssumption, SMT DEF Apart, tag_ptr
  <2> QED
    BY <2>4, <2>5
<1>4. i # j => i < j \/ j < i
  BY LayoutAssumption, SMT DEF Chips
<1> QED
  BY <1>2, <1>3, <1>4

(* A memory with room for the window and the tags has room for whatever    *)
(* reset_io writes: the size the FIXMEs of pcidev-02/pcidev.c:166, 170 and *)
(* 228 would have to ask for is enough.                                    *)
THEOREM EnoughFits ==
  ASSUME NEW len \in Nat, Enough(len)
  PROVE  Fits(len)
<1>1. SUFFICES ASSUME NEW i \in Chips
      PROVE  buff_ptr(i) + MESSAGE_SIZE <= len /\ tag_ptr(i) + TAG_SIZE <= len
  BY DEF Fits
<1>2. /\ buff_ptr(i) \in Nat /\ buff_ptr(i) + MESSAGE_SIZE <= WINDOW
      /\ tag_ptr(i) \in Nat
      /\ MAX_CHIP_IN_DEVICE * TAG_SIZE \in Nat
      /\ tag_ptr(i) + TAG_SIZE <= WINDOW + MAX_CHIP_IN_DEVICE * TAG_SIZE
  BY Bounds
<1>3. len >= WINDOW + MAX_CHIP_IN_DEVICE * TAG_SIZE
  BY DEF Enough
<1> QED
  BY <1>2, <1>3, LayoutAssumption, SMT

=============================================================================
