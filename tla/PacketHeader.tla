---------------------------- MODULE PacketHeader ----------------------------
(***************************************************************************)
(* The public header B: the capsule's length as a canonical unsigned       *)
(* LEB128 number (protocol/varint.py, protocol/packet.py).  The number is  *)
(* cut into groups of GroupBits bits, one to a byte, and a byte below Base *)
(* is the last one.                                                        *)
(***************************************************************************)
EXTENDS Integers, Sequences, FiniteSetsExt

CONSTANTS
  GroupBits,    \* 7: a byte has one bit more, the mark that others follow
  MinCapsule,   \* MIN_CAPSULE_BYTES
  MaxCapsule,   \* MAX_CAPSULE_BYTES
  MaxHeader     \* MAX_HEADER_BYTES

ASSUME HeaderAssumption ==
  /\ GroupBits \in Nat \ {0}
  /\ MinCapsule \in Nat \ {0}
  /\ MaxCapsule \in Nat /\ MinCapsule <= MaxCapsule
  /\ MaxHeader \in Nat \ {0}
  /\ MaxCapsule < 2 ^ (GroupBits * MaxHeader)

Base == 2 ^ GroupBits
Byte == 0..2 * Base - 1
CapsuleLengths == MinCapsule..MaxCapsule

(* The i-th group of a number, from the low end: value & 0x7F, shifted.    *)
Group(v, i) == (v \div 2 ^ (GroupBits * (i - 1))) % Base

(* encode_uvarint: as many groups as the value needs (bound: a header has  *)
(* at most MaxHeader bytes), all but the last one marked.                  *)
Digits(v) == Min({n \in 1..MaxHeader : v < 2 ^ (GroupBits * n)})
EncodeUvarint(v) ==
  [i \in 1..Digits(v) |-> Group(v, i) + (IF i < Digits(v) THEN Base ELSE 0)]

(* decode_uvarint over the first bytes of a stream: a number and how many  *)
(* bytes it took, or nothing yet, or an error.                             *)
Parsed(v, n) == [kind |-> "length", value |-> v, bytes |-> n]
Incomplete == [kind |-> "incomplete", value |-> 0, bytes |-> 0]
Malformed  == [kind |-> "error", value |-> 0, bytes |-> 0]

DecodeUvarint(data, max) ==
  LET last  == {i \in 1..Len(data) : i <= max /\ data[i] < Base}
      n     == Min(last)
      value == CHOOSE v \in 0..2 ^ (GroupBits * n) - 1 :
                 \A i \in 1..n : Group(v, i) = data[i] % Base
  IN  IF last = {} THEN IF Len(data) < max THEN Incomplete ELSE Malformed
      ELSE IF SubSeq(data, 1, n) = EncodeUvarint(value) THEN Parsed(value, n)
      ELSE Malformed

(* pack_header and parse_header: the number is a length within bounds. *)
PackHeader(length) == EncodeUvarint(length)

ParseHeader(data) ==
  LET parsed == DecodeUvarint(data, MaxHeader)
  IN  IF parsed.kind = "length" /\ parsed.value \notin CapsuleLengths
      THEN Malformed ELSE parsed
=============================================================================
