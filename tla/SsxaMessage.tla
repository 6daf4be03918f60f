----------------------------- MODULE SsxaMessage -----------------------------
(***************************************************************************)
(* The checksum of a message to the SSX10A card: put_crc and               *)
(* ssxa_checksum of src/src/pcidev-02/utils.h.                             *)
(*                                                                         *)
(* A message is a header and a data field; the first datalen bytes of data *)
(* are used and the checksum of everything before goes into the two after  *)
(* them.  ssxa_checksum keeps a sum Q of the bytes and a sum S of the Qs   *)
(* and returns S, both cut to 16 bits.  Here put_crc runs over a message   *)
(* and, in step with it, over a garbled copy, so that the two checksums    *)
(* can be compared.  datalen is one of the bytes summed: a copy whose      *)
(* datalen is another is summed over another length.                       *)
(***************************************************************************)
EXTENDS Integers

CONSTANTS
  ByteSize,   (* the values of a byte: 256                                  *)
  Word,       (* the values of an unsigned short: 65536                     *)
  HeaderLen,  (* processor_id, cmd and, last, datalen: 6                    *)
  DataLen     (* SSX10A_PROTO_DATA_LEN: 250                                 *)

ASSUME MessageAssumption ==
  /\ ByteSize \in Nat /\ ByteSize > 1
  /\ HeaderLen \in Nat \ {0} /\ DataLen \in Nat /\ DataLen >= 2
  /\ Word = ByteSize * ByteSize
  /\ (HeaderLen + DataLen - 2) * (ByteSize - 1) < Word

VARIABLES
  msg,      (* the message put_crc was given                                *)
  copy,     (* a message that differs from it                               *)
  i,        (* the rounds of the loop, for the longer of the two            *)
  Q, S,     (* the sums for msg                                             *)
  Qc, Sc,   (* the sums for copy                                            *)
  pc

vars == <<msg, copy, i, Q, S, Qc, Sc, pc>>

Byte == 0 .. ByteSize - 1
Positions == 0 .. HeaderLen + DataLen - 1
Message == [Positions -> Byte]

(* Where the header keeps datalen, and how many bytes of a message the     *)
(* checksum is taken of.                                                   *)
LengthAt == HeaderLen - 1
Length(m) == HeaderLen + m[LengthAt]
Summed == Length(msg)
SummedCopy == Length(copy)

SummedPositions == {p \in Positions : p < Summed}

(* The copies of msg with one byte replaced, or two different bytes        *)
(* exchanged, among those summed; the byte may be datalen.                 *)
Replaced == {[msg EXCEPT ![p] = b] : p \in SummedPositions, b \in Byte} \ {msg}
Exchanged == {[msg EXCEPT ![p] = msg[q], ![q] = msg[p]] : p, q \in SummedPositions} \ {msg}

-----------------------------------------------------------------------------
Init ==
  /\ msg \in {m \in Message : \A p \in Positions : p >= Length(m) => m[p] = 0}
  /\ copy \in Replaced \cup Exchanged
  /\ i = 0 /\ Q = 0 /\ S = 0 /\ Qc = 0 /\ Sc = 0
  /\ pc = "check"

(* Fault for the mutation runs: the test leaves no room for the checksum.  *)
TooLong_NoRoom(n) == n > DataLen

TooLong(n) == n > DataLen - 2

(* BUG_ON, for either message.                                             *)
put_crc ==
  /\ pc = "check"
  /\ pc' = IF TooLong(msg[LengthAt]) \/ TooLong(copy[LengthAt]) THEN "bug" ELSE "sum"
  /\ UNCHANGED <<msg, copy, i, Q, S, Qc, Sc>>

(* Fault for the mutation runs: the sums are kept in wider variables.      *)
Cut_Missing(n) == n

Cut(n) == n % Word

(* Fault for the mutation runs: the sums are cut to fewer bits.            *)
NextQ_Narrow(q, byte) == (q + byte) % ByteSize

NextQ(q, byte) == Cut(q + byte)

(* Fault for the mutation runs: S takes the sum as it was before the byte. *)
NextS_Late(s, q, byte) == Cut(s + q)

NextS(s, q, byte) == Cut(s + NextQ(q, byte))

(* One round of the loop in ssxa_checksum, for each message that has bytes *)
(* left to sum.                                                            *)
SumMsg ==
  IF i < Summed THEN Q' = NextQ(Q, msg[i]) /\ S' = NextS(S, Q, msg[i])
                ELSE UNCHANGED <<Q, S>>

SumCopy ==
  IF i < SummedCopy THEN Qc' = NextQ(Qc, copy[i]) /\ Sc' = NextS(Sc, Qc, copy[i])
                    ELSE UNCHANGED <<Qc, Sc>>

ssxa_checksum ==
  /\ pc = "sum" /\ (i < Summed \/ i < SummedCopy)
  /\ i' = i + 1
  /\ SumMsg /\ SumCopy
  /\ UNCHANGED <<msg, copy, pc>>

(* Both loops have run to their end.                                       *)
AllSummed == pc = "sum" /\ i >= Summed /\ i >= SummedCopy

(* The result goes into the message, least significant byte first.         *)
store_crc ==
  /\ AllSummed
  /\ msg' = [msg EXCEPT ![Summed] = S % ByteSize, ![Summed + 1] = S \div ByteSize]
  /\ pc' = "done"
  /\ UNCHANGED <<copy, i, Q, S, Qc, Sc>>

Finished == pc \in {"bug", "done"} /\ UNCHANGED vars

Next == put_crc \/ ssxa_checksum \/ store_crc \/ Finished

Spec == Init /\ [][Next]_vars

-----------------------------------------------------------------------------
(* Properties *)

TypeOK ==
  /\ msg \in Message /\ copy \in Message
  /\ i \in Nat /\ (i <= Summed \/ i <= SummedCopy)
  /\ Q \in 0 .. Word - 1 /\ S \in 0 .. Word - 1
  /\ Qc \in 0 .. Word - 1 /\ Sc \in 0 .. Word - 1
  /\ pc \in {"check", "bug", "sum", "done"}

(* f[0] + ... + f[k - 1], for every k up to n.                             *)
Totals(f, n) ==
  LET sum[k \in 0 .. n] == IF k = 0 THEN 0 ELSE sum[k - 1] + f[k - 1]
  IN  sum

Total(f, n) == Totals(f, n)[n]

Weighted(m, n) == [p \in 0 .. n - 1 |-> (n - p) * m[p]]

(* ssxa_checksum returns the sum of the bytes, each as often as there are  *)
(* bytes from it to the end.                                               *)
WeightedSum(m, n) == Total(Weighted(m, n), n)

(* How many bytes of msg have been summed.                                 *)
Done == IF i < Summed THEN i ELSE Summed

SumIsWeighted ==
  pc = "sum" => S = WeightedSum(msg, Done) % Word

(* The messages differ at position p only, among those summed.             *)
DifferAt(p) == msg[p] # copy[p] /\ \A j \in SummedPositions : j # p => msg[j] = copy[j]

(* No message with one byte changed has the checksum of the original,      *)
(* unless the byte is datalen: that changes how many bytes are summed      *)
(* (utils.h:31), and the two sums may then be the same.                    *)
OneByteDetected ==
  AllSummed => \A p \in SummedPositions \ {LengthAt} : DifferAt(p) => S # Sc

ExchangedAt(p, q) ==
  /\ msg[p] # msg[q] /\ msg[p] = copy[q] /\ msg[q] = copy[p]
  /\ \A j \in SummedPositions : j \notin {p, q} => msg[j] = copy[j]

(* No message with two different bytes exchanged has it either, unless one *)
(* of them is datalen.                                                     *)
ExchangeDetected ==
  AllSummed => \A p, q \in SummedPositions \ {LengthAt} : ExchangedAt(p, q) => S # Sc

(* The checksum lies within the message, where the card finds it, and the  *)
(* bytes it was taken of are as they were.                                 *)
CrcInPlace ==
  pc = "done" =>
    /\ Summed + 1 \in Positions
    /\ msg[Summed] + ByteSize * msg[Summed + 1] = S
    /\ S = WeightedSum(msg, Summed) % Word

=============================================================================
