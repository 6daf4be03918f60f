------------------------- MODULE SsxaMessage_proofs -------------------------
(***************************************************************************)
(* Proofs about SsxaMessage: for every size of byte, header and data field *)
(* that MessageAssumption allows, the checksum is the weighted sum of the  *)
(* bytes, it is stored inside the message, and it tells a message from one *)
(* with a byte changed or with two bytes exchanged.                        *)
(*                                                                         *)
(* The argument follows the two runs of the loop side by side.  When the   *)
(* messages are of one length and differ at p and q only, the sums for the *)
(* copy are those for msg plus the differences seen so far, up to          *)
(* multiples of Word.  At the end the difference is n * d for a distance n *)
(* and a byte difference d, and MessageAssumption keeps that strictly      *)
(* between -Word and Word.                                                 *)
(***************************************************************************)
EXTENDS SsxaMessage, TLAPS, WellFoundedInduction

(* a and b differ by a multiple of Word.                                   *)
Congruent(a, b) == \E k \in Int : a = b + k * Word

(* By how much the copy's byte at x is larger.                             *)
Gap(x) == copy[x] - msg[x]

(* The messages agree on what is summed, except at p and q.                *)
AgreeBut(p, q) == \A j \in SummedPositions : j \notin {p, q} => copy[j] = msg[j]

(* What the difference at x has added to Q and to S after n bytes.         *)
AddedToQ(x, n) == IF n > x THEN Gap(x) ELSE 0
AddedToS(x, n) == IF n > x THEN (n - x) * Gap(x) ELSE 0

(* The strengthening the two theorems need.  q may be Summed, one past the *)
(* bytes summed, for messages that differ at p alone.                      *)
ApartInv ==
  pc \in {"check", "sum"} /\ SummedCopy = Summed =>
    \A p \in SummedPositions : \A q \in p + 1 .. Summed :
      AgreeBut(p, q) =>
        /\ Congruent(Qc, Q + AddedToQ(p, i) + AddedToQ(q, i))
        /\ Congruent(Sc, S + AddedToS(p, i) + AddedToS(q, i))

RoomInv == pc = "sum" => /\ Summed <= HeaderLen + DataLen - 2
                         /\ SummedCopy <= HeaderLen + DataLen - 2

MsgInv == TypeOK /\ RoomInv

-----------------------------------------------------------------------------
(* Arithmetic *)

LEMMA ConstantFacts ==
  /\ ByteSize \in Nat /\ ByteSize > 1
  /\ HeaderLen \in Nat /\ HeaderLen > 0 /\ DataLen \in Nat /\ DataLen >= 2
  /\ Word \in Nat /\ Word > 0
BY MessageAssumption, SMT

(* The byte that holds datalen is one of those summed.                     *)
LEMMA LengthFacts ==
  ASSUME NEW m \in Message
  PROVE  /\ LengthAt \in Positions /\ LengthAt \in Nat /\ LengthAt < HeaderLen
         /\ m[LengthAt] \in Nat /\ m[LengthAt] < ByteSize
         /\ Length(m) = HeaderLen + m[LengthAt]
         /\ Length(m) \in Nat /\ HeaderLen <= Length(m) /\ LengthAt < Length(m)
<1>1. LengthAt \in Positions /\ LengthAt \in Nat /\ LengthAt < HeaderLen
  BY ConstantFacts, SMT DEF LengthAt, Positions
<1>2. m[LengthAt] \in Byte
  BY <1>1, Zenon DEF Message
<1>3. m[LengthAt] \in Nat /\ m[LengthAt] < ByteSize
  BY <1>2, ConstantFacts, SMT DEF Byte
<1>4. Length(m) = HeaderLen + m[LengthAt]
  BY DEF Length
<1> QED BY <1>1, <1>3, <1>4, ConstantFacts, SMT

LEMMA SummedFacts ==
  ASSUME TypeOK
  PROVE  /\ Summed \in Nat /\ SummedCopy \in Nat /\ LengthAt \in SummedPositions
         /\ HeaderLen <= Summed /\ HeaderLen <= SummedCopy
<1>1. msg \in Message /\ copy \in Message
  BY DEF TypeOK
<1> QED BY <1>1, LengthFacts DEF Summed, SummedCopy, SummedPositions

LEMMA CutInRange == ASSUME NEW a \in Int PROVE Cut(a) \in 0 .. Word - 1
BY ConstantFacts, SMT DEF Cut

(* Cutting a sum to 16 bits takes a multiple of Word off it.               *)
LEMMA CutCongruent == ASSUME NEW a \in Int PROVE Congruent(Cut(a), a)
<1>1. Word \in Nat /\ Word > 0
  BY ConstantFacts
<1>2. a \div Word \in Int /\ a % Word = a - (a \div Word) * Word
  BY <1>1, SMT
<1>3. a % Word = a + (- (a \div Word)) * Word /\ - (a \div Word) \in Int
  BY <1>1, <1>2, SMT
<1> QED BY <1>3, Zenon DEF Congruent, Cut

LEMMA CongruentRefl == ASSUME NEW a \in Int PROVE Congruent(a, a)
<1>1. Word \in Nat
  BY ConstantFacts
<1>2. a = a + 0 * Word /\ 0 \in Int
  BY <1>1, SMT
<1> QED BY <1>2, Zenon DEF Congruent

LEMMA CongruentTrans ==
  ASSUME NEW a \in Int, NEW b \in Int, NEW c \in Int, Congruent(a, b), Congruent(b, c)
  PROVE  Congruent(a, c)
<1>1. Word \in Nat
  BY ConstantFacts
<1>2. PICK k \in Int : a = b + k * Word
  BY Zenon DEF Congruent
<1>3. PICK m \in Int : b = c + m * Word
  BY Zenon DEF Congruent
<1>4. a = c + (m + k) * Word /\ m + k \in Int
  BY <1>1, <1>2, <1>3, SMT
<1> QED BY <1>4, Zenon DEF Congruent

LEMMA CongruentSym ==
  ASSUME NEW a \in Int, NEW b \in Int, Congruent(a, b)
  PROVE  Congruent(b, a)
<1>1. Word \in Nat
  BY ConstantFacts
<1>2. PICK k \in Int : a = b + k * Word
  BY Zenon DEF Congruent
<1>3. b = a + (- k) * Word /\ - k \in Int
  BY <1>1, <1>2, SMT
<1> QED BY <1>3, Zenon DEF Congruent

LEMMA CongruentAdd ==
  ASSUME NEW a \in Int, NEW b \in Int, NEW c \in Int, NEW d \in Int,
         Congruent(a, b), Congruent(c, d)
  PROVE  Congruent(a + c, b + d)
<1>1. Word \in Nat
  BY ConstantFacts
<1>2. PICK k \in Int : a = b + k * Word
  BY Zenon DEF Congruent
<1>3. PICK m \in Int : c = d + m * Word
  BY Zenon DEF Congruent
<1>4. a + c = b + d + (k + m) * Word /\ k + m \in Int
  BY <1>1, <1>2, <1>3, SMT
<1> QED BY <1>4, Zenon DEF Congruent

(* Two cut sums of numbers that are congruent up to x are congruent up to  *)
(* x: what one round of the loop does to a sum.                            *)
LEMMA CutBoth ==
  ASSUME NEW a \in Int, NEW b \in Int, NEW x \in Int, Congruent(a, b + x)
  PROVE  Congruent(Cut(a), Cut(b) + x)
<1>1. Cut(a) \in Int /\ Cut(b) \in Int
  BY CutInRange, ConstantFacts, SMT
<1>2. Congruent(Cut(a), a)
  BY CutCongruent
<1>3. Congruent(Cut(a), b + x)
  BY <1>1, <1>2, CongruentTrans
<1>4. Congruent(b, Cut(b))
  BY <1>1, CutCongruent, CongruentSym
<1>5. Congruent(b + x, Cut(b) + x)
  BY <1>1, <1>4, CongruentRefl, CongruentAdd
<1> QED BY <1>1, <1>3, <1>5, CongruentTrans

(* A difference n * d that is not 0 and less than Word does not vanish     *)
(* when the sums are cut.                                                  *)
LEMMA NotHidden ==
  ASSUME NEW a \in Int, NEW n \in Nat, NEW d \in Int,
         n > 0, n <= HeaderLen + DataLen - 2,
         d # 0, d < ByteSize, - ByteSize < d
  PROVE  ~ Congruent(a, a + n * d)
<1> DEFINE N == HeaderLen + DataLen - 2
<1>1. N \in Nat /\ n <= N /\ ByteSize \in Nat /\ Word \in Nat /\ ByteSize > 1
  BY ConstantFacts, SMT
<1>2. N * (ByteSize - 1) < Word
  BY MessageAssumption
<1>3. n * d < Word /\ - Word < n * d
  <2> HIDE DEF N
  <2>1. n * d <= n * (ByteSize - 1) /\ - (n * (ByteSize - 1)) <= n * d
    BY <1>1, SMT
  <2>2. n * (ByteSize - 1) <= N * (ByteSize - 1)
    BY <1>1, SMT
  <2>3. n * (ByteSize - 1) \in Int /\ N * (ByteSize - 1) \in Int /\ n * d \in Int
    BY <1>1, SMT
  <2> QED BY <1>1, <1>2, <2>1, <2>2, <2>3, SMT
<1>4. n * d # 0
  BY SMT
<1>5. SUFFICES ASSUME NEW k \in Int, a = a + n * d + k * Word
      PROVE FALSE
  BY Zenon DEF Congruent
<1>6. n * d = - (k * Word) /\ n * d \in Int /\ k * Word \in Int
  BY <1>1, <1>5, SMT
<1>7. k * Word < Word /\ - Word < k * Word
  BY <1>1, <1>3, <1>6, SMT
<1>8. k = 0
  BY <1>1, <1>7, SMT
<1> QED BY <1>1, <1>4, <1>6, <1>8, SMT

-----------------------------------------------------------------------------
(* The type invariant, and the room BUG_ON leaves for the checksum *)

LEMMA NextSumsInRange ==
  ASSUME NEW s \in Int, NEW q \in Int, NEW b \in Int
  PROVE  NextQ(q, b) \in 0 .. Word - 1 /\ NextS(s, q, b) \in 0 .. Word - 1
<1>1. NextQ(q, b) \in 0 .. Word - 1
  BY CutInRange, SMT DEF NextQ
<1>2. s + NextQ(q, b) \in Int
  BY <1>1, ConstantFacts, SMT
<1> QED BY <1>1, <1>2, CutInRange DEF NextS

LEMMA CrcBytes == ASSUME NEW s \in 0 .. Word - 1
                  PROVE  s % ByteSize \in Byte /\ s \div ByteSize \in Byte
<1>1. ByteSize \in Nat /\ ByteSize > 1 /\ Word = ByteSize * ByteSize
  BY MessageAssumption
<1>2. s \in Nat /\ s < ByteSize * ByteSize
  BY <1>1, ConstantFacts, SMT
<1>3. s % ByteSize \in Byte
  BY <1>1, <1>2, SMT DEF Byte
<1>4. s \div ByteSize \in Nat
  BY <1>1, <1>2, SMT
<1>5. (s \div ByteSize) * ByteSize <= s
  BY <1>1, <1>2, SMT
<1>6. s \div ByteSize < ByteSize
  <2> SUFFICES ASSUME s \div ByteSize >= ByteSize PROVE FALSE
    BY <1>1, <1>4, SMT
  <2>1. (s \div ByteSize) * ByteSize >= ByteSize * ByteSize
    BY <1>1, <1>4, SMT
  <2> QED BY <1>1, <1>2, <1>4, <1>5, <2>1, SMT
<1> QED BY <1>1, <1>3, <1>4, <1>6, SMT DEF Byte

LEMMA InitMsgInv == Init => MsgInv
<1> SUFFICES ASSUME Init PROVE MsgInv
  OBVIOUS
<1>2. msg \in Message
  BY DEF Init
<1>3. copy \in Message
  <2>1. CASE copy \in Replaced
    <3>1. PICK p \in SummedPositions, b \in Byte : copy = [msg EXCEPT ![p] = b]
      BY <2>1, SMT DEF Replaced
    <3> QED BY <1>2, <3>1, Zenon DEF Message
  <2>2. CASE copy \in Exchanged
    <3>1. PICK p \in SummedPositions, q \in SummedPositions :
            copy = [msg EXCEPT ![p] = msg[q], ![q] = msg[p]]
      BY <2>2, SMT DEF Exchanged
    <3>2. msg[p] \in Byte /\ msg[q] \in Byte
      BY <1>2, <3>1, SMT DEF Message, SummedPositions
    <3> QED BY <1>2, <3>1, <3>2, Zenon DEF Message
  <2> QED BY <2>1, <2>2, Zenon DEF Init
<1>4. Summed \in Nat
  BY <1>2, LengthFacts DEF Summed
<1>5. /\ i = 0 /\ Q = 0 /\ S = 0 /\ Qc = 0 /\ Sc = 0 /\ pc = "check"
  BY DEF Init
<1>6. TypeOK
  BY <1>2, <1>3, <1>4, <1>5, ConstantFacts, SMT DEF TypeOK
<1> QED BY <1>5, <1>6 DEF MsgInv, RoomInv

LEMMA NextMsgInv == MsgInv /\ [Next]_vars => MsgInv'
<1> SUFFICES ASSUME MsgInv, [Next]_vars PROVE MsgInv'
  OBVIOUS
<1> USE DEF MsgInv, TypeOK
<1>s. Summed \in Nat /\ SummedCopy \in Nat /\ i \in Nat
  BY SummedFacts
<1>q. Q \in Int /\ S \in Int /\ Qc \in Int /\ Sc \in Int
  BY ConstantFacts, SMT
<1>1. CASE put_crc
  <2>1. UNCHANGED <<msg, copy, i, Q, S, Qc, Sc>> /\ pc' \in {"bug", "sum"}
    BY <1>1 DEF put_crc
  <2>2. UNCHANGED <<Summed, SummedCopy>>
    BY <2>1 DEF Summed, SummedCopy
  <2>3. TypeOK'
    BY <2>1, <2>2
  <2>4. ASSUME pc' = "sum"
        PROVE  Summed <= HeaderLen + DataLen - 2 /\ SummedCopy <= HeaderLen + DataLen - 2
    <3>1. ~ (msg[LengthAt] > DataLen - 2) /\ ~ (copy[LengthAt] > DataLen - 2)
      BY <1>1, <2>4 DEF put_crc, TooLong
    <3> QED BY <3>1, LengthFacts, ConstantFacts, SMT DEF Summed, SummedCopy
  <2> QED BY <2>2, <2>3, <2>4 DEF RoomInv
<1>2. CASE ssxa_checksum
  <2>1. /\ pc = "sum" /\ (i < Summed \/ i < SummedCopy) /\ i' = i + 1
        /\ SumMsg /\ SumCopy /\ UNCHANGED <<msg, copy, pc>>
    BY <1>2 DEF ssxa_checksum
  <2>2. i \in Positions
    BY <2>1, <1>s, ConstantFacts, SMT DEF RoomInv, Positions
  <2>3. msg[i] \in Int /\ copy[i] \in Int
    BY <2>2, SMT DEF Message, Byte
  <2>4. Q' \in 0 .. Word - 1 /\ S' \in 0 .. Word - 1
    BY <2>1, <2>3, <1>q, NextSumsInRange DEF SumMsg
  <2>5. Qc' \in 0 .. Word - 1 /\ Sc' \in 0 .. Word - 1
    BY <2>1, <2>3, <1>q, NextSumsInRange DEF SumCopy
  <2>6. UNCHANGED <<Summed, SummedCopy>>
    BY <2>1 DEF Summed, SummedCopy
  <2>7. i' \in Nat /\ (i' <= Summed' \/ i' <= SummedCopy')
    BY <2>1, <2>6, <1>s, SMT
  <2>8. RoomInv'
    BY <2>1, <2>6 DEF RoomInv
  <2> QED BY <2>1, <2>4, <2>5, <2>7, <2>8
<1>3. CASE store_crc
  <2>1. /\ pc' = "done" /\ UNCHANGED <<copy, i, Q, S, Qc, Sc>>
        /\ msg' = [msg EXCEPT ![Summed] = S % ByteSize, ![Summed + 1] = S \div ByteSize]
    BY <1>3 DEF store_crc
  <2>2. S % ByteSize \in Byte /\ S \div ByteSize \in Byte
    BY CrcBytes
  <2>3. msg' \in Message
    BY <2>1, <2>2, Zenon DEF Message
  <2>4. msg'[LengthAt] = msg[LengthAt]
    BY <2>1, <1>s, LengthFacts, SMT DEF Summed, Message
  <2>5. UNCHANGED <<Summed, SummedCopy>>
    BY <2>1, <2>4 DEF Summed, SummedCopy, Length
  <2> QED BY <2>1, <2>3, <2>5 DEF RoomInv
<1>4. CASE UNCHANGED vars
  <2>1. UNCHANGED <<Summed, SummedCopy>>
    BY <1>4 DEF vars, Summed, SummedCopy
  <2> QED BY <1>4, <2>1 DEF vars, RoomInv
<1> QED BY <1>1, <1>2, <1>3, <1>4, Zenon DEF Next, Finished

(* Bytes stay bytes and the sums stay within 16 bits.                      *)
THEOREM TypeCorrect == Spec => []TypeOK
<1>1. MsgInv => TypeOK
  BY DEF MsgInv
<1> QED BY <1>1, InitMsgInv, NextMsgInv, PTL DEF Spec

-----------------------------------------------------------------------------
(* The two sums run side by side *)

LEMMA InitApart == Init => ApartInv
<1> SUFFICES ASSUME Init, NEW p \in SummedPositions, NEW q \in p + 1 .. Summed
    PROVE  /\ Congruent(Qc, Q + AddedToQ(p, i) + AddedToQ(q, i))
           /\ Congruent(Sc, S + AddedToS(p, i) + AddedToS(q, i))
  BY Zenon DEF ApartInv
<1>1. p \in Nat /\ q \in Nat /\ i = 0
  <2>1. Summed \in Nat
    BY InitMsgInv, SummedFacts DEF MsgInv
  <2> QED BY <2>1, ConstantFacts, SMT DEF Init, SummedPositions, Positions
<1>2. /\ AddedToQ(p, i) = 0 /\ AddedToQ(q, i) = 0
      /\ AddedToS(p, i) = 0 /\ AddedToS(q, i) = 0
  BY <1>1, SMT DEF AddedToQ, AddedToS
<1>3. Q + AddedToQ(p, i) + AddedToQ(q, i) = 0 /\ S + AddedToS(p, i) + AddedToS(q, i) = 0
  BY <1>2, SMT DEF Init
<1>4. Qc = 0 /\ Sc = 0
  BY DEF Init
<1> QED BY <1>3, <1>4, CongruentRefl

LEMMA AddedStep ==
  ASSUME NEW x \in Nat, NEW n \in Nat, Gap(x) \in Int
  PROVE  /\ AddedToQ(x, n) \in Int /\ AddedToS(x, n) \in Int
         /\ AddedToQ(x, n + 1) = AddedToQ(x, n) + (IF n = x THEN Gap(x) ELSE 0)
         /\ AddedToS(x, n + 1) = AddedToS(x, n) + AddedToQ(x, n + 1)
<1>1. CASE n > x
  <2>1. (n + 1 - x) * Gap(x) = (n - x) * Gap(x) + Gap(x)
    BY SMT
  <2>2. (n - x) * Gap(x) \in Int
    BY SMT
  <2> QED BY <1>1, <2>1, <2>2, SMT DEF AddedToQ, AddedToS
<1>2. CASE n = x
  <2>1. (n + 1 - x) * Gap(x) = Gap(x)
    BY <1>2, SMT
  <2> QED BY <1>2, <2>1, SMT DEF AddedToQ, AddedToS
<1>3. CASE n < x
  BY <1>3, SMT DEF AddedToQ, AddedToS
<1> QED BY <1>1, <1>2, <1>3, SMT

(* One round: the byte at i adds Gap(i), and S takes the new Q.            *)
LEMMA RoundKeepsApart ==
  ASSUME MsgInv, ApartInv, ssxa_checksum
  PROVE  ApartInv'
<1> USE DEF MsgInv, TypeOK
<1>0. /\ pc = "sum" /\ pc' = "sum" /\ (i < Summed \/ i < SummedCopy) /\ i' = i + 1
      /\ SumMsg /\ SumCopy /\ UNCHANGED <<msg, copy>>
  BY DEF ssxa_checksum
<1>u. UNCHANGED <<Summed, SummedCopy, SummedPositions>>
  BY <1>0 DEF Summed, SummedCopy, SummedPositions
<1> SUFFICES ASSUME SummedCopy = Summed PROVE ApartInv'
  BY <1>0, <1>u DEF ApartInv
<1>s. Summed \in Nat /\ i \in Nat /\ i < Summed /\ i \in SummedPositions
  BY <1>0, SummedFacts, ConstantFacts, SMT DEF RoomInv, SummedPositions, Positions
<1> SUFFICES ASSUME NEW p \in SummedPositions, NEW q \in p + 1 .. Summed, AgreeBut(p, q)
    PROVE  /\ Congruent(Qc', Q' + AddedToQ(p, i)' + AddedToQ(q, i)')
           /\ Congruent(Sc', S' + AddedToS(p, i)' + AddedToS(q, i)')
  BY <1>0, <1>u, Zenon DEF ApartInv, AgreeBut
<1>1. p \in Nat /\ q \in Nat /\ p < q /\ q <= Summed
  BY <1>s, SMT DEF SummedPositions, Positions
<1>2. /\ Congruent(Qc, Q + AddedToQ(p, i) + AddedToQ(q, i))
      /\ Congruent(Sc, S + AddedToS(p, i) + AddedToS(q, i))
  BY <1>0 DEF ApartInv
<1>3. msg[i] \in Int /\ copy[i] \in Int
  BY <1>s, SMT DEF Message, Byte, SummedPositions
<1>4. p \in Positions /\ q \in Positions
  <2>1. Summed <= HeaderLen + DataLen - 2
    BY <1>0 DEF RoomInv
  <2> QED BY <1>s, <1>1, <2>1, ConstantFacts, SMT DEF Positions
<1>5. Gap(p) \in Int /\ Gap(q) \in Int
  BY <1>4, SMT DEF Gap, Message, Byte
<1> DEFINE x == AddedToQ(p, i) + AddedToQ(q, i)
           y == AddedToS(p, i) + AddedToS(q, i)
           x1 == AddedToQ(p, i + 1) + AddedToQ(q, i + 1)
           y1 == AddedToS(p, i + 1) + AddedToS(q, i + 1)
           g == copy[i] - msg[i]
<1>a. /\ AddedToQ(p, i) \in Int /\ AddedToS(p, i) \in Int
      /\ AddedToQ(q, i) \in Int /\ AddedToS(q, i) \in Int
  BY <1>1, <1>5, <1>s, AddedStep, Zenon
<1>6. x \in Int /\ y \in Int
  BY ONLY <1>a, SMT
<1>7. g = (IF i = p THEN Gap(p) ELSE 0) + (IF i = q THEN Gap(q) ELSE 0)
  <2>1. CASE i \in {p, q}
    BY <2>1, <1>1, <1>3, <1>5, SMT DEF Gap
  <2>2. CASE i \notin {p, q}
    BY <2>2, <1>s, <1>3, SMT DEF AgreeBut
  <2> QED BY <2>1, <2>2
<1>8. x1 = x + g /\ y1 = y + x1
  <2>1. /\ AddedToQ(p, i + 1) = AddedToQ(p, i) + (IF i = p THEN Gap(p) ELSE 0)
        /\ AddedToS(p, i + 1) = AddedToS(p, i) + AddedToQ(p, i + 1)
        /\ AddedToQ(p, i) \in Int /\ AddedToS(p, i) \in Int
    BY <1>1, <1>5, <1>s, AddedStep
  <2>2. /\ AddedToQ(q, i + 1) = AddedToQ(q, i) + (IF i = q THEN Gap(q) ELSE 0)
        /\ AddedToS(q, i + 1) = AddedToS(q, i) + AddedToQ(q, i + 1)
        /\ AddedToQ(q, i) \in Int /\ AddedToS(q, i) \in Int
    BY <1>1, <1>5, <1>s, AddedStep
  <2>3. AddedToQ(p, i + 1) \in Int /\ AddedToQ(q, i + 1) \in Int
    BY <1>5, <2>1, <2>2, SMT
  <2> QED BY <1>5, <1>7, <2>1, <2>2, <2>3, SMT
<1>9. x1 \in Int /\ y1 \in Int /\ g \in Int
  BY <1>3, <1>6, <1>8, SMT
<1>10. Q \in Int /\ S \in Int /\ Qc \in Int /\ Sc \in Int
  BY ConstantFacts, SMT
<1>11. /\ Q' = Cut(Q + msg[i]) /\ Qc' = Cut(Qc + copy[i])
       /\ S' = Cut(S + Q') /\ Sc' = Cut(Sc + Qc')
  BY <1>0, <1>s DEF SumMsg, SumCopy, NextS, NextQ
<1> HIDE DEF x, y, x1, y1, g
<1>12. Congruent(Qc, Q + x) /\ Congruent(Sc, S + y)
  <2>1. Q + AddedToQ(p, i) + AddedToQ(q, i) = Q + x
    BY ONLY <1>a, <1>10, SMT DEF x
  <2>2. S + AddedToS(p, i) + AddedToS(q, i) = S + y
    BY ONLY <1>a, <1>10, SMT DEF y
  <2> QED BY <1>2, <2>1, <2>2
<1>13. Congruent(Qc', Q' + x1)
  <2>1. Congruent(Qc + copy[i], Q + x + copy[i])
    <3>1. Congruent(copy[i], copy[i]) /\ Q + x \in Int
      BY <1>3, <1>6, <1>10, CongruentRefl, SMT
    <3> QED BY <1>3, <1>10, <1>12, <3>1, CongruentAdd
  <2>2. Q + x + copy[i] = (Q + msg[i]) + x1
    BY <1>3, <1>6, <1>8, <1>9, <1>10, SMT DEF g
  <2>3. Qc + copy[i] \in Int /\ Q + msg[i] \in Int
    BY <1>3, <1>10, SMT
  <2> QED BY <1>9, <1>11, <2>1, <2>2, <2>3, CutBoth
<1>14. Q' \in Int /\ Qc' \in Int
  BY <1>3, <1>10, <1>11, CutInRange, ConstantFacts, SMT
<1>15. Congruent(Sc', S' + y1)
  <2>1. S + y \in Int /\ Q' + x1 \in Int
    BY <1>6, <1>9, <1>10, <1>14, SMT
  <2>2. Congruent(Sc + Qc', S + y + (Q' + x1))
    BY <1>10, <1>12, <1>13, <1>14, <2>1, CongruentAdd
  <2>3. S + y + (Q' + x1) = (S + Q') + y1
    BY <1>6, <1>8, <1>9, <1>10, <1>14, SMT
  <2>4. Sc + Qc' \in Int /\ S + Q' \in Int
    BY <1>10, <1>14, SMT
  <2> QED BY <1>9, <1>11, <2>2, <2>3, <2>4, CutBoth
<1>16. /\ AddedToQ(p, i)' = AddedToQ(p, i + 1) /\ AddedToQ(q, i)' = AddedToQ(q, i + 1)
       /\ AddedToS(p, i)' = AddedToS(p, i + 1) /\ AddedToS(q, i)' = AddedToS(q, i + 1)
  BY <1>0 DEF AddedToQ, AddedToS, Gap
<1>17. /\ Q' + AddedToQ(p, i)' + AddedToQ(q, i)' = Q' + x1
       /\ S' + AddedToS(p, i)' + AddedToS(q, i)' = S' + y1
  <2>1. S' \in Int
    BY <1>10, <1>11, <1>14, CutInRange, ConstantFacts, SMT
  <2>2. i + 1 \in Nat
    BY <1>s, SMT
  <2>3. /\ AddedToQ(p, i + 1) \in Int /\ AddedToQ(q, i + 1) \in Int
        /\ AddedToS(p, i + 1) \in Int /\ AddedToS(q, i + 1) \in Int
    BY <1>1, <1>5, <2>2, AddedStep
  <2> QED BY <1>14, <1>16, <2>1, <2>3, SMT DEF x1, y1
<1> QED BY <1>13, <1>15, <1>17

LEMMA NextApart == MsgInv /\ ApartInv /\ [Next]_vars => ApartInv'
<1> SUFFICES ASSUME MsgInv, ApartInv, [Next]_vars PROVE ApartInv'
  OBVIOUS
<1>1. CASE put_crc
  BY <1>1 DEF put_crc, ApartInv, SummedPositions, Summed, SummedCopy, AgreeBut, AddedToQ, AddedToS,
              Gap, Congruent
<1>2. CASE ssxa_checksum
  BY <1>2, RoundKeepsApart
<1>3. CASE store_crc
  BY <1>3 DEF store_crc, ApartInv
<1>4. CASE UNCHANGED vars
  BY <1>4 DEF vars, ApartInv, SummedPositions, Summed, SummedCopy, AgreeBut, AddedToQ, AddedToS,
              Gap, Congruent
<1> QED BY <1>1, <1>2, <1>3, <1>4, Zenon DEF Next, Finished

-----------------------------------------------------------------------------
(* The theorems *)

(* At the end of the loop, what the two sums for S differ by.              *)
LEMMA AtTheEnd ==
  ASSUME MsgInv, ApartInv, AllSummed, SummedCopy = Summed,
         NEW p \in SummedPositions, NEW q \in p + 1 .. Summed, AgreeBut(p, q)
  PROVE  /\ p \in Nat /\ q \in Nat /\ Summed \in Nat
         /\ Summed <= HeaderLen + DataLen - 2 /\ p < q /\ q <= Summed
         /\ p \in Positions /\ q \in Positions /\ S \in Int
         /\ Congruent(Sc, S + (Summed - p) * Gap(p) + (Summed - q) * Gap(q))
<1>0. /\ TypeOK /\ RoomInv /\ pc = "sum" /\ i >= Summed
  BY DEF MsgInv, AllSummed
<1>i. Summed \in Nat /\ i = Summed
  <2>1. i \in Nat /\ i <= Summed
    BY <1>0 DEF TypeOK
  <2> QED BY <2>1, <1>0, SummedFacts, SMT
<1>1. /\ p \in Nat /\ q \in Nat /\ Summed \in Nat /\ S \in Int
      /\ Summed <= HeaderLen + DataLen - 2 /\ p < q /\ q <= Summed
  BY <1>0, <1>i, ConstantFacts, SMT DEF TypeOK, RoomInv, SummedPositions, Positions
<1>2. p \in Positions /\ q \in Positions
  BY <1>1, ConstantFacts, SMT DEF Positions
<1>3. Gap(p) \in Int /\ Gap(q) \in Int
  BY <1>2, SMT DEF Gap, MsgInv, TypeOK, Message, Byte
<1>4. Congruent(Sc, S + AddedToS(p, Summed) + AddedToS(q, Summed))
  BY <1>0, <1>i DEF ApartInv
<1>5. AddedToS(p, Summed) = (Summed - p) * Gap(p)
  BY <1>1, SMT DEF AddedToS
<1>6. AddedToS(q, Summed) = (Summed - q) * Gap(q)
  <2>1. CASE q < Summed
    BY <1>1, <2>1, SMT DEF AddedToS
  <2>2. CASE q = Summed
    BY <1>1, <1>3, <2>2, SMT DEF AddedToS
  <2> QED BY <1>1, <2>1, <2>2, SMT
<1> QED BY <1>1, <1>2, <1>4, <1>5, <1>6

LEMMA GapBounds ==
  ASSUME MsgInv, NEW x \in Positions
  PROVE  Gap(x) \in Int /\ Gap(x) < ByteSize /\ - ByteSize < Gap(x)
BY ConstantFacts, SMT DEF Gap, MsgInv, TypeOK, Message, Byte

LEMMA OneByteApart == MsgInv /\ ApartInv => OneByteDetected
<1> SUFFICES ASSUME MsgInv, ApartInv, AllSummed,
                    NEW p \in SummedPositions \ {LengthAt}, DifferAt(p), S = Sc
    PROVE FALSE
  BY Zenon DEF OneByteDetected
<1>0. SummedCopy = Summed
  BY SummedFacts DEF MsgInv, DifferAt, Summed, SummedCopy, Length
<1> DEFINE n == Summed - p
           d == Gap(p)
<1>1. Summed \in Nat /\ p \in Nat /\ p < Summed /\ p + 1 \in p + 1 .. Summed
  <2>1. Summed \in Nat
    BY SummedFacts DEF MsgInv
  <2> QED BY <2>1, ConstantFacts, SMT DEF SummedPositions, Positions
<1>2. AgreeBut(p, p + 1)
  BY SMT DEF AgreeBut, DifferAt
<1>3. /\ Summed <= HeaderLen + DataLen - 2 /\ S \in Int
      /\ p \in Positions /\ p + 1 \in Positions
      /\ Congruent(Sc, S + (Summed - p) * Gap(p) + (Summed - (p + 1)) * Gap(p + 1))
  BY <1>0, <1>1, <1>2, AtTheEnd
<1>4. Gap(p) \in Int /\ Gap(p) < ByteSize /\ - ByteSize < Gap(p) /\ Gap(p + 1) \in Int
  BY <1>3, GapBounds
<1>5. (Summed - (p + 1)) * Gap(p + 1) = 0
  <2>1. CASE p + 1 = Summed
    BY <1>4, <2>1, <1>1, SMT
  <2>2. CASE p + 1 < Summed
    <3>1. p + 1 \in SummedPositions
      BY <1>3, <2>2, SMT DEF SummedPositions
    <3>2. p + 1 # p
      BY <1>1, SMT
    <3>3. msg[p + 1] = copy[p + 1]
      BY <3>1, <3>2, Zenon DEF DifferAt
    <3>4. Gap(p + 1) = 0
      BY <1>3, <3>3, SMT DEF Gap, MsgInv, TypeOK, Message, Byte
    <3> QED BY <1>1, <3>4, SMT
  <2> QED BY <1>1, <2>1, <2>2, SMT
<1>6. Gap(p) # 0
  BY <1>3, SMT DEF Gap, DifferAt, MsgInv, TypeOK, Message, Byte
<1>7. n \in Nat /\ n > 0 /\ n <= HeaderLen + DataLen - 2
  BY <1>1, <1>3, ConstantFacts, SMT
<1>8. S + (Summed - p) * Gap(p) + (Summed - (p + 1)) * Gap(p + 1) = S + n * d
  BY <1>1, <1>3, <1>4, <1>5, SMT
<1>9. Congruent(S, S + n * d)
  BY <1>3, <1>8
<1> HIDE DEF n, d
<1> QED BY <1>3, <1>4, <1>6, <1>7, <1>9, NotHidden DEF d

LEMMA ExchangeApart == MsgInv /\ ApartInv => ExchangeDetected
<1>1. ASSUME MsgInv, ApartInv, AllSummed,
             NEW p \in SummedPositions \ {LengthAt}, NEW q \in SummedPositions \ {LengthAt},
             ExchangedAt(p, q), p < q, S = Sc
      PROVE  FALSE
  <2> DEFINE n == q - p
             d == Gap(p)
  <2>0. SummedCopy = Summed
    BY <1>1, SummedFacts DEF MsgInv, ExchangedAt, Summed, SummedCopy, Length
  <2>1. q \in p + 1 .. Summed
    <3>1. Summed \in Nat
      BY <1>1, SummedFacts DEF MsgInv
    <3> QED BY <1>1, <3>1, ConstantFacts, SMT DEF SummedPositions, Positions
  <2>2. AgreeBut(p, q)
    BY <1>1, SMT DEF AgreeBut, ExchangedAt
  <2>3. /\ p \in Nat /\ q \in Nat /\ Summed \in Nat
        /\ Summed <= HeaderLen + DataLen - 2 /\ q <= Summed /\ S \in Int
        /\ p \in Positions /\ q \in Positions
        /\ Congruent(Sc, S + (Summed - p) * Gap(p) + (Summed - q) * Gap(q))
    BY <1>1, <2>0, <2>1, <2>2, AtTheEnd
  <2>4. Gap(p) \in Int /\ Gap(p) < ByteSize /\ - ByteSize < Gap(p)
    BY <1>1, <2>3, GapBounds
  <2>5. Gap(q) = - Gap(p) /\ Gap(p) # 0
    <3>1. msg[p] # msg[q] /\ msg[p] = copy[q] /\ msg[q] = copy[p]
      BY <1>1, Zenon DEF ExchangedAt
    <3>2. msg[p] \in Int /\ msg[q] \in Int
      BY <1>1, <2>3, ConstantFacts, SMT DEF MsgInv, TypeOK, Message, Byte
    <3> QED BY <3>1, <3>2, SMT DEF Gap
  <2>6. n \in Nat /\ n > 0 /\ n <= HeaderLen + DataLen - 2
    BY <1>1, <2>3, ConstantFacts, SMT
  <2>7. S + (Summed - p) * Gap(p) + (Summed - q) * Gap(q) = S + n * d
    <3>1. (Summed - q) * Gap(q) = - ((Summed - q) * d)
      BY <2>3, <2>4, <2>5, SMT
    <3>2. n * d = (Summed - p) * d - (Summed - q) * d
      BY <2>3, <2>4, SMT
    <3>3. (Summed - p) * d \in Int /\ (Summed - q) * d \in Int
      BY <2>3, <2>4, SMT
    <3> HIDE DEF n, d
    <3> QED BY <2>3, <3>1, <3>2, <3>3, SMT DEF d
  <2>8. Congruent(S, S + n * d)
    BY <1>1, <2>3, <2>7
  <2> HIDE DEF n, d
  <2> QED BY <2>3, <2>4, <2>5, <2>6, <2>8, NotHidden DEF d
<1> SUFFICES ASSUME MsgInv, ApartInv, AllSummed,
                    NEW p \in SummedPositions \ {LengthAt},
                    NEW q \in SummedPositions \ {LengthAt}, ExchangedAt(p, q), S = Sc
    PROVE FALSE
  BY Zenon DEF ExchangeDetected
<1>2. ExchangedAt(q, p)
  BY Zenon DEF ExchangedAt
<1>3. p < q \/ q < p
  BY ConstantFacts, SMT DEF ExchangedAt, SummedPositions, Positions
<1> QED BY <1>1, <1>2, <1>3

(* ApartInv is an invariant.                                               *)
THEOREM SumsStayApart == Spec => [](MsgInv /\ ApartInv)
<1>1. Init => MsgInv /\ ApartInv
  BY InitMsgInv, InitApart
<1>2. (MsgInv /\ ApartInv) /\ [Next]_vars => (MsgInv /\ ApartInv)'
  BY NextMsgInv, NextApart
<1> QED BY <1>1, <1>2, PTL DEF Spec

(* A message with any one byte changed has another checksum, whatever the  *)
(* message, the position and the new value.                                *)
THEOREM OneByteAlwaysDetected == Spec => []OneByteDetected
BY SumsStayApart, OneByteApart, PTL

(* So has a message with any two different bytes exchanged.                *)
THEOREM ExchangeAlwaysDetected == Spec => []ExchangeDetected
BY SumsStayApart, ExchangeApart, PTL

-----------------------------------------------------------------------------
(* Sums over the bytes *)

(* Induction over the natural numbers, for a set.                          *)
LEMMA NatSetInduction ==
  ASSUME NEW A \in SUBSET Nat, 0 \in A, \A k \in A : k + 1 \in A
  PROVE  A = Nat
<1> DEFINE R == OpToRel(<, Nat)
           T == Nat \ A
<1>1. SUFFICES ASSUME T # {} PROVE FALSE
  BY Zenon
<1>2. T \subseteq Nat /\ IsWellFoundedOn(R, Nat)
  BY NatLessThanWellFounded, Zenon
<1>3. PICK x \in T : \A y \in T : ~ (<<y, x>> \in R)
  <2> HIDE DEF T, R
  <2> QED BY <1>1, <1>2, WFMin, Zenon
<1>4. x \in Nat /\ x # 0 /\ x - 1 \in Nat /\ x - 1 < x /\ x = (x - 1) + 1
  BY SMT
<1>5. <<x - 1, x>> \in R
  BY <1>4, SMT DEF OpToRel
<1>6. x - 1 \in A
  <2> HIDE DEF R
  <2> QED BY <1>3, <1>4, <1>5, Zenon
<1> QED BY <1>4, <1>6, SMT

(* The equation Totals is defined by.                                      *)
IsTotals(g, f, n) == g = [k \in 0 .. n |-> IF k = 0 THEN 0 ELSE g[k - 1] + f[k - 1]]

(* It has a solution, which Totals therefore is.                           *)
LEMMA SomeTotals == ASSUME NEW f, NEW n \in Nat PROVE \E g : IsTotals(g, f, n)
<1> DEFINE A == {k \in Nat : \E g : IsTotals(g, f, k)}
<1>1. 0 \in A
  <2> DEFINE g == [k \in 0 .. 0 |-> 0]
  <2>1. IsTotals(g, f, 0)
    BY SMT DEF IsTotals
  <2> QED BY <2>1, Zenon
<1>2. ASSUME NEW k \in A PROVE k + 1 \in A
  <2>1. PICK g : IsTotals(g, f, k)
    BY Zenon
  <2> DEFINE h == [j \in 0 .. k + 1 |-> IF j <= k THEN g[j] ELSE g[k] + f[k]]
  <2>2. IsTotals(h, f, k + 1)
    BY <2>1, SMT DEF IsTotals
  <2>3. k + 1 \in Nat
    OBVIOUS
  <2> HIDE DEF h
  <2> QED BY <2>2, <2>3, Zenon
<1>3. A = Nat
  <2> A \in SUBSET Nat
    OBVIOUS
  <2> HIDE DEF A
  <2> QED BY <1>1, <1>2, NatSetInduction, Zenon
<1> QED BY <1>3, Zenon

LEMMA TotalsAre == ASSUME NEW f, NEW n \in Nat PROVE IsTotals(Totals(f, n), f, n)
<1>1. \E g : g = [k \in 0 .. n |-> IF k = 0 THEN 0 ELSE g[k - 1] + f[k - 1]]
  BY SomeTotals, Zenon DEF IsTotals
<1>2. Totals(f, n) = CHOOSE g : g = [k \in 0 .. n |-> IF k = 0 THEN 0 ELSE g[k - 1] + f[k - 1]]
  BY Zenon DEF Totals
<1> QED BY <1>1, <1>2, Zenon DEF IsTotals

LEMMA TotalsRound ==
  ASSUME NEW f, NEW n \in Nat
  PROVE  /\ Totals(f, n)[0] = 0
         /\ \A k \in 0 .. n - 1 : Totals(f, n)[k + 1] = Totals(f, n)[k] + f[k]
<1>1. Totals(f, n) = [k \in 0 .. n |-> IF k = 0 THEN 0 ELSE Totals(f, n)[k - 1] + f[k - 1]]
  BY TotalsAre DEF IsTotals
<1> DEFINE g == Totals(f, n)
<1> HIDE DEF g
<1>2. g = [k \in 0 .. n |-> IF k = 0 THEN 0 ELSE g[k - 1] + f[k - 1]]
  BY <1>1 DEF g
<1>3. g[0] = 0 /\ \A k \in 0 .. n - 1 : g[k + 1] = g[k] + f[k]
  BY <1>2, SMT
<1> QED BY <1>3 DEF g

(* An induction up to n, for a set.                                        *)
LEMMA UpTo ==
  ASSUME NEW n \in Nat, NEW A, 0 \in A, \A k \in 0 .. n - 1 : k \in A => k + 1 \in A
  PROVE  \A k \in 0 .. n : k \in A
<1> DEFINE B == {k \in Nat : k <= n => k \in A}
<1>1. 0 \in B
  BY Zenon
<1>2. ASSUME NEW k \in B PROVE k + 1 \in B
  <2>1. k \in Nat /\ (k <= n => k \in A)
    OBVIOUS
  <2>2. k + 1 <= n => k + 1 \in A
    BY <2>1, SMT
  <2> QED BY <2>1, <2>2, SMT
<1>3. B = Nat
  <2> B \in SUBSET Nat
    OBVIOUS
  <2> HIDE DEF B
  <2> QED BY <1>1, <1>2, NatSetInduction, Zenon
<1> QED BY <1>3, SMT

(* Totals of numbers are numbers, and depend on what is summed only.       *)
LEMMA TotalsTyped ==
  ASSUME NEW f, NEW n \in Nat, \A k \in 0 .. n - 1 : f[k] \in Int
  PROVE  \A k \in 0 .. n : Totals(f, n)[k] \in Int
<1> DEFINE g == Totals(f, n)
           A == {k \in 0 .. n : g[k] \in Int}
<1>1. g[0] = 0 /\ \A k \in 0 .. n - 1 : g[k + 1] = g[k] + f[k]
  BY TotalsRound
<1> HIDE DEF g
<1>2. 0 \in A
  BY <1>1, SMT
<1>3. \A k \in 0 .. n - 1 : k \in A => k + 1 \in A
  BY <1>1, SMT
<1>4. \A k \in 0 .. n : k \in A
  <2> HIDE DEF A
  <2> QED BY <1>2, <1>3, UpTo, Zenon
<1> QED BY <1>4 DEF g

LEMMA TotalsAgree ==
  ASSUME NEW f, NEW h, NEW n \in Nat, NEW l \in Nat,
         \A k \in 0 .. n - 1 : f[k] = h[k], n <= l
  PROVE  \A k \in 0 .. n : Totals(f, n)[k] = Totals(h, l)[k]
<1> DEFINE x == Totals(f, n)
           y == Totals(h, l)
           A == {k \in 0 .. n : x[k] = y[k]}
<1>1. x[0] = 0 /\ \A k \in 0 .. n - 1 : x[k + 1] = x[k] + f[k]
  BY TotalsRound
<1>2. y[0] = 0 /\ \A k \in 0 .. l - 1 : y[k + 1] = y[k] + h[k]
  BY TotalsRound
<1> HIDE DEF x, y
<1>3. 0 \in A
  BY <1>1, <1>2, SMT
<1>4. \A k \in 0 .. n - 1 : k \in A => k + 1 \in A
  BY <1>1, <1>2, SMT
<1>5. \A k \in 0 .. n : k \in A
  <2> HIDE DEF A
  <2> QED BY <1>3, <1>4, UpTo, Zenon
<1> QED BY <1>5 DEF x, y

(* One more byte adds itself to the total, and the new total to the        *)
(* weighted sum: the loop of ssxa_checksum, without the cuts.              *)
LEMMA TotalStep ==
  ASSUME NEW m, NEW n \in Nat, \A k \in 0 .. n : m[k] \in Int
  PROVE  /\ Total(m, n) \in Int
         /\ Total(m, n + 1) = Total(m, n) + m[n]
<1>1. Totals(m, n + 1)[n + 1] = Totals(m, n + 1)[n] + m[n]
  BY TotalsRound, SMT
<1>2. Totals(m, n)[n] = Totals(m, n + 1)[n]
  BY TotalsAgree, SMT
<1>3. Totals(m, n)[n] \in Int
  BY TotalsTyped, SMT
<1> QED BY <1>1, <1>2, <1>3 DEF Total

LEMMA WeightedStep ==
  ASSUME NEW m, NEW n \in Nat, \A k \in 0 .. n : m[k] \in Int
  PROVE  /\ WeightedSum(m, n) \in Int
         /\ WeightedSum(m, n + 1) = WeightedSum(m, n) + Total(m, n + 1)
<1> DEFINE w == Weighted(m, n)
           v == Weighted(m, n + 1)
           x == Totals(w, n)
           y == Totals(v, n + 1)
           t == Totals(m, n + 1)
           A == {k \in 0 .. n : y[k] = x[k] + t[k]}
<1>1. \A k \in 0 .. n - 1 : w[k] = (n - k) * m[k] /\ w[k] \in Int
  BY SMT DEF Weighted
<1>2. \A k \in 0 .. n : v[k] = (n + 1 - k) * m[k] /\ v[k] \in Int
  BY SMT DEF Weighted
<1>3. \A k \in 0 .. n - 1 : v[k] = w[k] + m[k]
  BY <1>1, <1>2, SMT
<1>4. v[n] = m[n]
  BY <1>2, SMT
<1> HIDE DEF w, v
<1>5. x[0] = 0 /\ \A k \in 0 .. n - 1 : x[k + 1] = x[k] + w[k]
  BY TotalsRound
<1>6. y[0] = 0 /\ \A k \in 0 .. n : y[k + 1] = y[k] + v[k]
  BY TotalsRound, SMT
<1>7. t[0] = 0 /\ \A k \in 0 .. n : t[k + 1] = t[k] + m[k]
  BY TotalsRound, SMT
<1>8. \A k \in 0 .. n : x[k] \in Int
  BY <1>1, TotalsTyped
<1>9. \A k \in 0 .. n : t[k] \in Int
  BY TotalsTyped, SMT
<1> HIDE DEF x, y, t
<1>10. 0 \in A
  BY <1>5, <1>6, <1>7, SMT
<1>11. \A k \in 0 .. n - 1 : k \in A => k + 1 \in A
  BY <1>1, <1>3, <1>5, <1>6, <1>7, <1>8, <1>9, SMT
<1>12. \A k \in 0 .. n : k \in A
  <2> HIDE DEF A
  <2> QED BY <1>10, <1>11, UpTo, Zenon
<1>13. y[n + 1] = x[n] + t[n + 1]
  BY <1>4, <1>6, <1>7, <1>8, <1>9, <1>12, SMT
<1> QED BY <1>8, <1>13 DEF x, y, t, w, v, WeightedSum, Total

LEMMA EmptySums == ASSUME NEW m PROVE Total(m, 0) = 0 /\ WeightedSum(m, 0) = 0
BY TotalsRound DEF Total, WeightedSum

(* Bytes past the end do not count.                                        *)
LEMMA SumsAgree ==
  ASSUME NEW m, NEW l, NEW n \in Nat, \A k \in 0 .. n - 1 : m[k] = l[k]
  PROVE  Total(m, n) = Total(l, n) /\ WeightedSum(m, n) = WeightedSum(l, n)
<1>1. \A k \in 0 .. n - 1 : Weighted(m, n)[k] = Weighted(l, n)[k]
  BY SMT DEF Weighted
<1>2. Totals(m, n)[n] = Totals(l, n)[n]
  BY TotalsAgree, SMT
<1>3. Totals(Weighted(m, n), n)[n] = Totals(Weighted(l, n), n)[n]
  BY <1>1, TotalsAgree, SMT
<1> QED BY <1>2, <1>3 DEF Total, WeightedSum

(* Numbers that differ by a multiple of Word are cut alike.                *)
LEMMA CutAlike ==
  ASSUME NEW a \in Int, NEW b \in Int, Congruent(a, b)
  PROVE  Cut(a) = Cut(b)
<1>1. Congruent(Cut(a), Cut(b))
  <2>1. Cut(a) \in Int /\ Cut(b) \in Int
    BY CutInRange, ConstantFacts, SMT
  <2>2. Congruent(Cut(a), a) /\ Congruent(Cut(b), b)
    BY CutCongruent
  <2>3. Congruent(b, Cut(b))
    BY <2>1, <2>2, CongruentSym
  <2>4. Congruent(Cut(a), b)
    BY <2>1, <2>2, CongruentTrans
  <2> QED BY <2>1, <2>3, <2>4, CongruentTrans
<1>2. PICK k \in Int : Cut(a) = Cut(b) + k * Word
  BY <1>1, Zenon DEF Congruent
<1>3. Cut(a) \in 0 .. Word - 1 /\ Cut(b) \in 0 .. Word - 1
  BY CutInRange
<1> DEFINE x == Cut(a)
           y == Cut(b)
<1> HIDE DEF x, y
<1>4. x = y + k * Word /\ x \in 0 .. Word - 1 /\ y \in 0 .. Word - 1
  BY <1>2, <1>3 DEF x, y
<1>5. k * Word < Word /\ - Word < k * Word
  BY <1>4, ConstantFacts, SMT
<1>6. k = 0
  BY <1>5, ConstantFacts, SMT
<1>7. x = y
  BY <1>4, <1>6, ConstantFacts, SMT
<1> QED BY <1>7 DEF x, y

(* Cutting after every round is as good as cutting once.                   *)
LEMMA CutSum ==
  ASSUME NEW a \in Int, NEW b \in Int, NEW c \in Int, Congruent(c, b)
  PROVE  Cut(Cut(a) + c) = Cut(a + b)
<1>1. Cut(a) \in Int
  BY CutInRange, ConstantFacts, SMT
<1>2. Congruent(Cut(a), a)
  BY CutCongruent
<1>3. Congruent(Cut(a) + c, a + b)
  BY <1>1, <1>2, CongruentAdd
<1> QED BY <1>1, <1>3, CutAlike

-----------------------------------------------------------------------------
(* What the loop computes, and where it is stored *)

(* The two sums, of the bytes so far; store_crc leaves these alone.        *)
SumsInv ==
  /\ pc = "check" => i = 0
  /\ pc = "done" => /\ i >= Summed /\ Summed <= HeaderLen + DataLen - 2
                    /\ msg[Summed] = S % ByteSize /\ msg[Summed + 1] = S \div ByteSize
  /\ pc # "bug" => Q = Cut(Total(msg, Done)) /\ S = Cut(WeightedSum(msg, Done))

LEMMA InitSums == Init => SumsInv
<1> SUFFICES ASSUME Init PROVE SumsInv
  OBVIOUS
<1>1. pc = "check" /\ i = 0 /\ Q = 0 /\ S = 0
  BY DEF Init
<1>d. Done = 0
  BY <1>1, InitMsgInv, SummedFacts, ConstantFacts, SMT DEF Done, MsgInv
<1>2. Total(msg, Done) = 0 /\ WeightedSum(msg, Done) = 0
  BY <1>d, EmptySums
<1>3. Cut(0) = 0
  BY ConstantFacts, SMT DEF Cut
<1> QED BY <1>1, <1>2, <1>3 DEF SumsInv

LEMMA RoundKeepsSums ==
  ASSUME MsgInv, SumsInv, ssxa_checksum
  PROVE  SumsInv'
<1>0. /\ pc = "sum" /\ pc' = "sum" /\ i' = i + 1 /\ SumMsg /\ UNCHANGED msg
  BY DEF ssxa_checksum
<1>1. msg \in [Positions -> Byte] /\ i \in Nat /\ Summed \in Nat /\ Summed' = Summed
      /\ Summed <= HeaderLen + DataLen - 2
  BY <1>0, SummedFacts DEF MsgInv, TypeOK, RoomInv, Message, Summed
<1>a. CASE ~(i < Summed)
  <2>1. UNCHANGED <<Q, S>>
    BY <1>0, <1>a DEF SumMsg
  <2>2. Done' = Done
    BY <1>0, <1>1, <1>a, SMT DEF Done
  <2> QED BY <1>0, <2>1, <2>2 DEF SumsInv
<1>b. CASE i < Summed
  <2>d. Done = i /\ Done' = i + 1
    BY <1>0, <1>1, <1>b, SMT DEF Done
  <2>3. \A k \in 0 .. i : msg[k] \in Int
    BY <1>b, <1>1, ConstantFacts, SMT DEF Positions, Byte
  <2>4. Q' = Cut(Q + msg[i]) /\ S' = Cut(S + Q')
    BY <1>0, <1>b DEF SumMsg, NextQ, NextS
  <2>5. Q = Cut(Total(msg, i)) /\ S = Cut(WeightedSum(msg, i))
    BY <1>0, <2>d DEF SumsInv
  <2>6. Total(msg, i) \in Int /\ Total(msg, i + 1) = Total(msg, i) + msg[i]
    BY <1>1, <2>3, TotalStep
  <2>7. /\ WeightedSum(msg, i) \in Int
        /\ WeightedSum(msg, i + 1) = WeightedSum(msg, i) + Total(msg, i + 1)
    BY <1>1, <2>3, WeightedStep
  <2>8. msg[i] \in Int /\ Total(msg, i + 1) \in Int
    <3>1. msg[i] \in Int
      BY <1>1, <2>3, SMT
    <3> QED BY <2>6, <3>1, SMT
  <2>9. Q' = Cut(Total(msg, i + 1))
    BY <2>4, <2>5, <2>6, <2>8, CongruentRefl, CutSum
  <2>10. S' = Cut(WeightedSum(msg, i + 1))
    <3>1. Q' \in Int
      BY <2>8, <2>9, CutInRange, ConstantFacts, SMT
    <3>2. Congruent(Q', Total(msg, i + 1))
      BY <2>8, <2>9, CutCongruent
    <3> QED BY <2>4, <2>5, <2>7, <2>8, <3>1, <3>2, CutSum
  <2> QED BY <1>0, <2>d, <2>9, <2>10 DEF SumsInv
<1> QED BY <1>a, <1>b

LEMMA StoreKeepsSums ==
  ASSUME MsgInv, SumsInv, store_crc
  PROVE  SumsInv'
<1>0. /\ pc = "sum" /\ pc' = "done" /\ i >= Summed /\ UNCHANGED <<i, Q, S>>
      /\ msg' = [msg EXCEPT ![Summed] = S % ByteSize, ![Summed + 1] = S \div ByteSize]
  BY DEF store_crc, AllSummed
<1>1. /\ msg \in [Positions -> Byte] /\ msg \in Message /\ i \in Nat
      /\ Summed \in Nat /\ Summed <= HeaderLen + DataLen - 2 /\ HeaderLen <= Summed
  BY <1>0, SummedFacts DEF MsgInv, TypeOK, RoomInv, Message
<1>2. Summed \in Positions /\ Summed + 1 \in Positions
  BY <1>1, ConstantFacts, SMT DEF Positions
<1>3. msg'[Summed] = S % ByteSize /\ msg'[Summed + 1] = S \div ByteSize
  BY <1>0, <1>1, <1>2, SMT
<1>4. \A k \in 0 .. Summed - 1 : msg'[k] = msg[k]
  BY <1>0, <1>1, <1>2, ConstantFacts, SMT DEF Positions
<1>5. Summed' = Summed
  <2>1. LengthAt \in 0 .. Summed - 1
    <3>1. LengthAt \in Nat /\ LengthAt < HeaderLen
      BY <1>1, LengthFacts
    <3> QED BY <1>1, <3>1, ConstantFacts, SMT
  <2>2. msg'[LengthAt] = msg[LengthAt]
    BY <2>1, <1>4
  <2> QED BY <2>2 DEF Summed, Length
<1>6. Done = Summed /\ Done' = Summed
  BY <1>0, <1>1, <1>5, SMT DEF Done
<1>7. Total(msg', Summed) = Total(msg, Summed) /\ WeightedSum(msg', Summed) = WeightedSum(msg, Summed)
  BY <1>1, <1>4, SumsAgree, Zenon
<1>8. Q = Cut(Total(msg, Summed)) /\ S = Cut(WeightedSum(msg, Summed))
  BY <1>0, <1>6 DEF SumsInv
<1>9. /\ msg'[Summed'] = S' % ByteSize /\ msg'[Summed' + 1] = S' \div ByteSize
      /\ i' >= Summed' /\ Summed' <= HeaderLen + DataLen - 2
  BY <1>0, <1>1, <1>3, <1>5
<1>10. Q' = Cut(Total(msg', Done')) /\ S' = Cut(WeightedSum(msg', Done'))
  BY <1>0, <1>6, <1>7, <1>8
<1> QED BY <1>0, <1>9, <1>10 DEF SumsInv

LEMMA NextSums == MsgInv /\ SumsInv /\ [Next]_vars => SumsInv'
<1> SUFFICES ASSUME MsgInv, SumsInv, [Next]_vars PROVE SumsInv'
  OBVIOUS
<1>1. CASE put_crc
  BY <1>1 DEF put_crc, SumsInv, Summed, Done
<1>2. CASE ssxa_checksum
  BY <1>2, RoundKeepsSums
<1>3. CASE store_crc
  BY <1>3, StoreKeepsSums
<1>4. CASE UNCHANGED vars
  BY <1>4 DEF vars, SumsInv, Summed, Done
<1> QED BY <1>1, <1>2, <1>3, <1>4, Zenon DEF Next, Finished

THEOREM SumsAreKept == Spec => [](MsgInv /\ SumsInv)
BY InitMsgInv, InitSums, NextMsgInv, NextSums, PTL DEF Spec

(* However often it wraps, S is the sum of the bytes, each as often as     *)
(* there are bytes from it on, cut once.                                   *)
THEOREM ChecksumIsWeightedSum == Spec => []SumIsWeighted
<1>1. SumsInv => SumIsWeighted
  BY DEF SumsInv, SumIsWeighted, Cut
<1> QED BY <1>1, SumsAreKept, PTL

(* The checksum put_crc leaves in a message is inside the message, can be  *)
(* read back, and is still that of the bytes before it.                    *)
THEOREM ChecksumIsInPlace == Spec => []CrcInPlace
<1>1. MsgInv /\ SumsInv => CrcInPlace
  <2> SUFFICES ASSUME MsgInv, SumsInv, pc = "done" PROVE CrcInPlace
    BY DEF CrcInPlace
  <2>1. Summed \in Nat /\ i \in Nat /\ i >= Summed /\ Summed <= HeaderLen + DataLen - 2
    BY SummedFacts DEF MsgInv, TypeOK, SumsInv
  <2>2. Summed + 1 \in Positions
    BY <2>1, ConstantFacts, SMT DEF Positions
  <2>3. msg[Summed] = S % ByteSize /\ msg[Summed + 1] = S \div ByteSize
    BY DEF SumsInv
  <2>4. S \in Int
    BY ConstantFacts, SMT DEF MsgInv, TypeOK
  <2>5. (S % ByteSize) + ByteSize * (S \div ByteSize) = S
    BY <2>4, ConstantFacts, SMT
  <2>6. S = WeightedSum(msg, Summed) % Word
    <3>1. Done = Summed
      BY <2>1, SMT DEF Done
    <3> QED BY <3>1 DEF SumsInv, Cut
  <2> QED BY <2>2, <2>3, <2>5, <2>6 DEF CrcInPlace
<1> QED BY <1>1, SumsAreKept, PTL

=============================================================================
