------------------------- MODULE MessageFormatProofs -------------------------
(***************************************************************************)
(* What the byte representation of lengths and numbers keeps, for every    *)
(* header, every length and every size of a data area.                     *)
(***************************************************************************)
EXTENDS MessageFormat, WellFoundedInduction, TLAPS

(* A byte as a range of integers.                                          *)
LEMMA ByteRange == \A x : x \in Byte <=> x \in Int /\ 0 <= x /\ x < 256
  BY DEF Byte

(* The two length bytes take an int modulo 65536. *)
LEMMA TwoBytes ==
  ASSUME NEW l \in Int
  PROVE  /\ l % 256 \in Byte /\ (l \div 256) % 256 \in Byte
         /\ (l % 256) + 256 * ((l \div 256) % 256) = l % 65536
  BY ByteRange

(* Message_setData stores the low 16 bits of its length and leaves the     *)
(* other bytes of the header alone.                                        *)
THEOREM LengthStored ==
  ASSUME NEW h \in Headers, NEW l \in Int
  PROVE  /\ SetLength(h, l) \in Headers
         /\ Message_dataLen(SetLength(h, l)) = l % 65536
         /\ \A i \in (1 .. MSG_HDR_LEN) \ {dlenHI, dlenLO} : SetLength(h, l)[i] = h[i]
  <1> DEFINE lo == l % 256
             hi == (l \div 256) % 256
  <1>1. lo \in Byte /\ hi \in Byte /\ lo + 256 * hi = l % 65536
    BY TwoBytes
  <1>2. SetLength(h, l) = [h EXCEPT ![4] = lo, ![3] = hi]
    BY DEF SetLength, dlenHI, dlenLO
  <1> HIDE DEF lo, hi
  <1>3. h \in [1 .. 8 -> Byte]
    BY DEF Headers, MSG_HDR_LEN
  <1>4. SetLength(h, l) \in [1 .. 8 -> Byte]
    BY <1>1, <1>2, <1>3
  <1>5. SetLength(h, l)[4] = lo /\ SetLength(h, l)[3] = hi
    BY <1>1, <1>2, <1>3
  <1>6. \A i \in (1 .. 8) \ {3, 4} : SetLength(h, l)[i] = h[i]
    BY <1>2, <1>3
  <1> QED
    BY <1>1, <1>4, <1>5, <1>6 DEF Message_dataLen, Headers, MSG_HDR_LEN, dlenHI, dlenLO

(* A header that gets the length it has does not change.                   *)
LEMMA SameLength ==
  ASSUME NEW h \in Headers
  PROVE  SetLength(h, Message_dataLen(h)) = h
<1> DEFINE l == Message_dataLen(h)
<1>1. h \in [1 .. 8 -> Byte] /\ h[4] \in Byte /\ h[3] \in Byte
  BY DEF Headers, MSG_HDR_LEN
<1>2. l % 256 = h[4] /\ (l \div 256) % 256 = h[3]
  BY <1>1, ByteRange DEF Message_dataLen, dlenHI, dlenLO
<1>3. SetLength(h, l) = [h EXCEPT ![4] = h[4], ![3] = h[3]]
  BY <1>2 DEF SetLength, dlenHI, dlenLO
<1> HIDE DEF l
<1>4. [h EXCEPT ![4] = h[4], ![3] = h[3]] = h
  BY <1>1
<1> QED
  BY <1>3, <1>4 DEF l

(* A length that Message_setDataLen is given comes back as it was or as    *)
(* the size of the data area, whichever is less: no reply of the handler   *)
(* has a length its data area does not hold.                               *)
THEOREM DataLenClamped ==
  ASSUME NEW h \in Headers, NEW l \in Nat
  PROVE  /\ Message_dataLen(Message_setDataLen(h, l)) = SetDataLen(l)
         /\ SetDataLen(l) \in 0 .. MAXDATA_VALUE
         /\ l <= MAXDATA_VALUE => SetDataLen(l) = l
  <1>1. /\ SetDataLen(l) \in Nat /\ SetDataLen(l) <= MAXDATA_VALUE
        /\ l <= MAXDATA_VALUE => SetDataLen(l) = l
    BY MaxDataAssumption DEF SetDataLen
  <1>2. Message_dataLen(SetLength(h, SetDataLen(l))) = SetDataLen(l) % 65536
    BY <1>1, LengthStored
  <1>3. SetDataLen(l) % 65536 = SetDataLen(l)
    BY <1>1, MaxDataAssumption
  <1> QED
    BY <1>1, <1>2, <1>3, MaxDataAssumption DEF Message_setDataLen

(* A device read of fewer bytes than a header: the length that             *)
(* gmsr_recvMessageFromFile stores, nread - MSG_HDR_LEN, is negative, and  *)
(* what its callers read is larger than every data area of this code.      *)
THEOREM ShortReadTooLong ==
  ASSUME NEW h \in Headers, NEW nread \in 1 .. MSG_HDR_LEN - 1, MAXDATA_VALUE < 65529
  PROVE  Message_dataLen(SetLength(h, nread - MSG_HDR_LEN)) > MAXDATA_VALUE
  <1> DEFINE l == nread - MSG_HDR_LEN
  <1>1. l \in Int /\ -7 <= l /\ l <= -1
    BY DEF MSG_HDR_LEN
  <1> HIDE DEF l
  <1>2. l % 65536 \in Int /\ l % 65536 >= 65529
    BY <1>1
  <1>3. Message_dataLen(SetLength(h, l)) = l % 65536
    BY <1>1, LengthStored
  <1>4. Message_dataLen(SetLength(h, l)) > MAXDATA_VALUE
    BY <1>2, <1>3, MaxDataAssumption
  <1> QED
    BY <1>4 DEF l

(* What formatLong writes unformatLong reads back, and the other way       *)
(* round: the four bytes hold every ULONG.                                 *)
THEOREM LongRoundTrip ==
  /\ \A v \in Nat : v < 65536 * 65536 =>
       formatLong(v) \in Byte \X Byte \X Byte \X Byte /\ unformatLong(formatLong(v)) = v
  /\ \A b \in Byte \X Byte \X Byte \X Byte :
       /\ unformatLong(b) \in Nat /\ unformatLong(b) < 65536 * 65536
       /\ formatLong(unformatLong(b)) = b
  <1>1. ASSUME NEW v \in Nat, v < 65536 * 65536
        PROVE  formatLong(v) \in Byte \X Byte \X Byte \X Byte
               /\ unformatLong(formatLong(v)) = v
    BY <1>1, ByteRange DEF formatLong, unformatLong
  <1>2. ASSUME NEW b1 \in Byte, NEW b2 \in Byte, NEW b3 \in Byte, NEW b4 \in Byte
        PROVE  LET v == unformatLong(<<b1, b2, b3, b4>>)
               IN  v \in Nat /\ v < 65536 * 65536 /\ formatLong(v) = <<b1, b2, b3, b4>>
    BY ByteRange DEF formatLong, unformatLong
  <1>3. ASSUME NEW b \in Byte \X Byte \X Byte \X Byte
        PROVE  /\ unformatLong(b) \in Nat /\ unformatLong(b) < 65536 * 65536
               /\ formatLong(unformatLong(b)) = b
    <2>1. PICK b1 \in Byte, b2 \in Byte, b3 \in Byte, b4 \in Byte :
            b = <<b1, b2, b3, b4>>
      OBVIOUS
    <2> QED
      BY <1>2, <2>1
  <1> QED
    BY <1>1, <1>3

(* The same of the two bytes of a USHORT. *)
THEOREM ShortRoundTrip ==
  /\ \A v \in Nat : v < 65536 =>
       formatShort(v) \in Byte \X Byte /\ unformatShort(formatShort(v)) = v
  /\ \A b \in Byte \X Byte :
       /\ unformatShort(b) \in Nat /\ unformatShort(b) < 65536
       /\ formatShort(unformatShort(b)) = b
  <1>1. ASSUME NEW v \in Nat, v < 65536
        PROVE  formatShort(v) \in Byte \X Byte /\ unformatShort(formatShort(v)) = v
    BY <1>1, ByteRange DEF formatShort, unformatShort
  <1>2. ASSUME NEW b1 \in Byte, NEW b2 \in Byte
        PROVE  LET v == unformatShort(<<b1, b2>>)
               IN  v \in Nat /\ v < 65536 /\ formatShort(v) = <<b1, b2>>
    BY ByteRange DEF formatShort, unformatShort
  <1> QED
    BY <1>1, <1>2
-----------------------------------------------------------------------------
(* Induction over the natural numbers, with a set for the property: what   *)
(* the proofs about sequences of messages and sums of lengths rest on.     *)
LEMMA Least ==
  ASSUME NEW T \in SUBSET Nat, T # {}
  PROVE  \E m \in T : \A k \in T : m <= k
<1> DEFINE R == OpToRel(<, Nat)
<1>1. IsWellFoundedOn(R, Nat)
  BY NatLessThanWellFounded
<1>2. \A x, y \in Nat : <<y, x>> \in R <=> y < x
  BY DEF OpToRel
<1> HIDE DEF R
<1>3. PICK m \in T : \A k \in T : ~ (<<k, m>> \in R)
  BY <1>1, WFMin
<1>4. \A k \in T : ~ (k < m)
  BY <1>2, <1>3
<1>5. \A k, n \in Nat : ~ (k < n) => n <= k
  OBVIOUS
<1> QED
  BY <1>3, <1>4, <1>5

LEMMA Induct ==
  ASSUME NEW P \in SUBSET Nat, 0 \in P, \A n \in P : n + 1 \in P
  PROVE  P = Nat
<1> SUFFICES ASSUME Nat \ P # {}
             PROVE  FALSE
  OBVIOUS
<1>1. PICK m \in Nat \ P : \A k \in Nat \ P : m <= k
  BY Least
<1>2. m - 1 \in Nat /\ ~ (m <= m - 1) /\ (m - 1) + 1 = m
  BY <1>1
<1>3. m - 1 \in P
  BY <1>1, <1>2
<1> QED
  BY <1>1, <1>2, <1>3

=============================================================================
