----------------------------- MODULE RtpPacket ------------------------------
(***************************************************************************)
(* serialize and parse: the twelve bytes before a payload.  Every number   *)
(* but the first two bytes is written in digits, the most significant one  *)
(* first; FieldBase is 256 in the code, and small instances use less.      *)
(***************************************************************************)
EXTENDS Integers, Sequences

CONSTANT FieldBase

ASSUME FieldAssumption == FieldBase \in 2 .. 256

SeqMod == FieldBase * FieldBase           \* uint16_t
TimestampMod == SeqMod * SeqMod           \* uint32_t, and of ssrc

HeaderBytes == 12
Version == 2
PayloadTypePcmu == 0
PayloadTypeAdpcm == 96
PayloadTypePcm == 97
PayloadTypes == {PayloadTypePcmu, PayloadTypeAdpcm, PayloadTypePcm}

Headers == [marker : BOOLEAN, payload_type : PayloadTypes, sequence_number : 0 .. (SeqMod - 1),
            timestamp : 0 .. (TimestampMod - 1), ssrc : 0 .. (TimestampMod - 1)]
-----------------------------------------------------------------------------
WriteU16(value) == <<value \div FieldBase, value % FieldBase>>
WriteU32(value) == WriteU16(value \div SeqMod) \o WriteU16(value % SeqMod)

\* Fault: the bytes taken in the host's order.
HostU16(data, i) == data[i + 1] * FieldBase + data[i]

\* The number whose first digit is data[i].
ReadU16(data, i) == data[i] * FieldBase + data[i + 1]
ReadU32(data, i) == ReadU16(data, i) * SeqMod + ReadU16(data, i + 2)

\* <<>> where the code returns 0: the buffer is too small.
Serialize(header, payload, room) ==
  IF room < HeaderBytes + Len(payload) THEN <<>>
  ELSE <<Version * 64, (IF header.marker THEN 128 ELSE 0) + header.payload_type>>
         \o WriteU16(header.sequence_number) \o WriteU32(header.timestamp)
         \o WriteU32(header.ssrc) \o payload

\* What parse refuses: short, another version, padding, extension or sources, an
\* unknown payload type.
WellFormed(data) ==
  /\ Len(data) >= HeaderBytes
  /\ data[1] \div 64 = Version /\ data[1] % 64 = 0
  /\ data[2] % 128 \in PayloadTypes

Parse(data) ==
  [header |-> [marker |-> data[2] \div 128 = 1, payload_type |-> data[2] % 128,
               sequence_number |-> ReadU16(data, 3), timestamp |-> ReadU32(data, 5),
               ssrc |-> ReadU32(data, 9)],
   payload |-> SubSeq(data, HeaderBytes + 1, Len(data))]
=============================================================================
