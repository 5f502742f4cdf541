--------------------------- MODULE MessageFormat ---------------------------
(***************************************************************************)
(* Messages and numbers as bytes: the header of public/message/message.h   *)
(* with the accessors of private/message/message.c that do more than copy  *)
(* one field, and the conversions of private/domapp_common/                *)
(* commonServices.c.                                                       *)
(***************************************************************************)
EXTENDS Integers, Sequences

CONSTANTS
  MAXDATA_VALUE   (* size of a data area, 4088 in the code *)

(* The largest data area whose length the header's two bytes can hold. *)
ASSUME MaxDataAssumption == MAXDATA_VALUE \in Nat /\ MAXDATA_VALUE < 65536

Byte == 0 .. 255

USHORT == {n \in Nat : n < 65536}

MSG_HDR_LEN == 8

(* A header is its bytes: mt, mst, dlenHI, dlenLO, two reserved, msgID,    *)
(* status.                                                                 *)
Headers == [1 .. MSG_HDR_LEN -> Byte]

dlenHI == 3
dlenLO == 4

Message_dataLen(h) == h[dlenLO] + 256 * h[dlenHI]

(* Bug: the high byte is not masked. *)
SetLengthUnmasked(h, l) == [h EXCEPT ![dlenLO] = l % 256, ![dlenHI] = l \div 256]

(* The length part of Message_setData: whatever the int l is, the header   *)
(* gets its low 16 bits (an int is in two's complement, >> keeps its sign).*)
SetLength(h, l) == [h EXCEPT ![dlenLO] = l % 256, ![dlenHI] = (l \div 256) % 256]

(* Message_setDataLen clamps at the size of the data area. *)
SetDataLen(l) == IF l > MAXDATA_VALUE THEN MAXDATA_VALUE ELSE l

Message_setDataLen(h, l) == SetLength(h, SetDataLen(l))

(* A ULONG, most significant byte first. *)
formatLong(v) ==
  <<(v \div (256 * 65536)) % 256, (v \div 65536) % 256, (v \div 256) % 256, v % 256>>

unformatLong(b) == 256 * (256 * (256 * b[1] + b[2]) + b[3]) + b[4]

(* A USHORT, most significant byte first. *)
formatShort(v) == <<(v \div 256) % 256, v % 256>>

unformatShort(b) == 256 * b[1] + b[2]

=============================================================================
