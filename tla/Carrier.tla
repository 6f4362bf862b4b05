------------------------------- MODULE Carrier -------------------------------
(***************************************************************************)
(* One message through a carrier: codec/generative.py and codec/carrier.py *)
(* with both ends, and the copy of the text in between.  The sender draws  *)
(* a prefix A, encrypts the secret bound to it, and turns the bits of the  *)
(* header B and the capsule C into tokens by decoding them arithmetically, *)
(* while a mirror encoder tells which bits the receiver will have; then it *)
(* adds a finish D.  The receiver encodes the tokens back into bits.       *)
(*                                                                         *)
(* A token is its place in the table it was drawn from.  The model gives   *)
(* the same table for the same visible prefix on both ends: the tables the *)
(* sender met are kept in asked, a text that was changed may meet others.  *)
(***************************************************************************)
EXTENDS ArithmeticCoder, PacketHeader, SequencesExt

CONSTANTS
  Precision,      \* PRECISION: the width of the registers
  ByteBits,       \* 8
  Tables,         \* the tables the model may return
  PrefixTokens,   \* codec.prefix_tokens
  FinishTokens,   \* finish_tokens
  TokenGuard,     \* token_guard
  Changes,        \* bound: how often the model changes its table
  Damages         \* what may happen to the text on its way

ASSUME CarrierAssumption ==
  /\ Precision \in Nat \ {0} /\ 2 ^ Precision = Full
  /\ ByteBits = GroupBits + 1
  /\ \A c \in Tables : IsTable(c)
  /\ PrefixTokens \in Nat \ {0} /\ FinishTokens \in Nat /\ TokenGuard \in Nat
  /\ Changes \in Nat
  /\ Damages \subseteq {"none", "cut", "changed"}

VARIABLES
  pc,        \* where encode_carrier, and then decode_carrier, is
  header,    \* packet.header, as bits
  capsule,   \* packet.capsule, as bits
  bits,      \* FramedBitSource: the real bits and the suffix drawn so far
  coder,     \* ArithmeticSymbolDecoder of the sender, and its last symbol
  offset,    \* read_offset
  mirror,    \* ArithmeticBitEncoder of the sender
  confirmed, \* confirmed
  desynchronized,
  asked,     \* the tables of the payload tokens so far
  tokens,    \* token_ids
  copy,      \* observed: the tokens of the text the receiver has
  damage,    \* what happened to the text on its way
  reader,    \* the receiver: its encoder, its place, what it knows of B
  collected  \* BitCollector

packetVars == <<header, capsule>>
coderVars  == <<bits, coder, offset>>
mirrorVars == <<mirror, confirmed, desynchronized>>
textVars   == <<asked, tokens>>
readerVars == <<copy, damage, reader, collected>>
vars == <<pc, packetVars, coderVars, mirrorVars, textVars, readerVars>>

-----------------------------------------------------------------------------
Tokens == UNION {Symbols(c) : c \in Tables}

(* A byte's bits, the highest first; FramedBitSource reads the bytes of    *)
(* the packet in this order, BitCollector puts the bits back into bytes.   *)
BitsOf(byte) == [i \in 1..ByteBits |-> (byte \div 2 ^ (ByteBits - i)) % 2]
AsBits(data) ==
  [i \in 1..Len(data) * ByteBits |->
     BitsOf(data[(i - 1) \div ByteBits + 1])[((i - 1) % ByteBits) + 1]]
CompleteBytes(s) ==
  [k \in 1..Len(s) \div ByteBits |->
     CHOOSE byte \in Byte :
       BitsOf(byte) = SubSeq(s, (k - 1) * ByteBits + 1, k * ByteBits)]

RealBits == Len(header) + Len(capsule)

Init ==
  /\ pc = "prefix"
  /\ header = <<>> /\ capsule = <<>> /\ bits = <<>>
  /\ coder = [r |-> Whole, code |-> 0, symbol |-> 0]
  /\ offset = 0
  /\ mirror = Fresh /\ confirmed = 0 /\ desynchronized = FALSE
  /\ asked = <<>> /\ tokens = <<>>
  /\ copy = <<>> /\ damage = "none"
  /\ reader = [encoder |-> Fresh, at |-> 0, headerBits |-> 0, target |-> 0]
  /\ collected = <<>>

-----------------------------------------------------------------------------
(* The sender *)

(* generate_prefix_tokens: tokens drawn at random from the model's tables. *)
Prefix(t) ==
  /\ pc = "prefix"
  /\ tokens' = Append(tokens, t)
  /\ pc' = IF Len(tokens) + 1 = PrefixTokens THEN "encrypt" ELSE "prefix"
  /\ UNCHANGED <<packetVars, coderVars, mirrorVars, asked, readerVars>>

(* encrypt_message: the capsule may be any bits, its length is in B. *)
Encrypt(length) ==
  /\ pc = "encrypt"
  /\ header' = AsBits(PackHeader(length))
  /\ capsule' \in [1..length * ByteBits -> Bit]
  /\ bits' = header' \o capsule'
  /\ pc' = "load"
  /\ UNCHANGED <<coder, offset, mirrorVars, textVars, readerVars>>

(* FramedBitSource.bit at the offset: past the real bits it is drawn at    *)
(* random, and kept.                                                       *)
ReadBit(bit) ==
  /\ offset' = offset + 1
  /\ IF offset < Len(bits) THEN bit = bits[offset + 1] /\ bits' = bits
                           ELSE bits' = Append(bits, bit)

(* ArithmeticSymbolDecoder.__init__ fills its register. *)
Load ==
  /\ pc = "load"
  /\ \E bit \in Bit :
       /\ ReadBit(bit)
       /\ coder' = [coder EXCEPT !.code = Shift(coder.code, bit)]
  /\ pc' = IF offset + 1 = Precision THEN "choose" ELSE "load"
  /\ UNCHANGED <<packetVars, mirrorVars, textVars, readerVars>>

(* The model may return any table (bound: it changes Changes times).       *)
Switched(s) == {i \in 1..Len(s) - 1 : s[i] # s[i + 1]}
Offered(c)  == Cardinality(Switched(Append(asked, c))) <= Changes

(* The payload loop asks the model for a table and selects the symbol that *)
(* holds the code...                                                       *)
Choose(c) ==
  /\ pc = "choose"
  /\ Offered(c)
  /\ LET s == SymbolOf(coder.r, coder.code, c)
     IN  IF s \in Symbols(c)
         THEN /\ coder' = [coder EXCEPT !.r = Narrow(coder.r, c, s),
                                        !.symbol = s]
              /\ asked' = Append(asked, c)
              /\ pc' = "decode"
         ELSE pc' = "refused" /\ UNCHANGED <<coder, asked>>
  /\ UNCHANGED <<packetVars, bits, offset, mirrorVars, tokens, readerVars>>

(* ... renormalises, reading a bit of the source each time...              *)
DecodeShift ==
  /\ pc = "decode"
  /\ Narrowed(coder.r)
  /\ \E bit \in Bit :
       /\ ReadBit(bit)
       /\ coder' = [coder EXCEPT
            !.r = Widen(coder.r),
            !.code = Shift(coder.code - Offset(coder.r), bit)]
  /\ UNCHANGED <<pc, packetVars, mirrorVars, textVars, readerVars>>

(* ... and gives the symbol to the mirror, ... *)
DecodeEnd ==
  /\ pc = "decode"
  /\ ~Narrowed(coder.r)
  /\ mirror' = [mirror EXCEPT
                  !.r = Narrow(mirror.r, Last(asked), coder.symbol)]
  /\ pc' = "mirror"
  /\ UNCHANGED <<packetVars, coderVars, confirmed, desynchronized, textVars,
                 readerVars>>

(* ... which confirms the bits the receiver will have: the source's own.   *)
MirrorShift ==
  /\ pc = "mirror"
  /\ Narrowed(mirror.r)
  /\ LET out == Emitted(mirror)
     IN  /\ confirmed' = confirmed + Len(out)
         /\ desynchronized' = (desynchronized
              \/ SubSeq(bits, confirmed + 1, confirmed + Len(out)) # out)
  /\ mirror' = Encode(mirror)
  /\ UNCHANGED <<pc, packetVars, coderVars, textVars, readerVars>>

(* The token is written and the loop goes on until every real bit is       *)
(* confirmed, or the guard is passed.                                      *)
Token ==
  /\ pc = "mirror"
  /\ ~Narrowed(mirror.r)
  /\ IF desynchronized
     THEN pc' = "refused" /\ UNCHANGED tokens
     ELSE /\ tokens' = Append(tokens, coder.symbol)
          /\ pc' = IF Len(asked) > TokenGuard THEN "refused"
                   ELSE IF confirmed < RealBits THEN "choose" ELSE "finish"
  /\ UNCHANGED <<packetVars, coderVars, mirrorVars, asked, readerVars>>

(* The finish: greedy tokens until the end-of-sequence token or the budget. *)
Finish(t) ==
  /\ pc = "finish"
  /\ Len(tokens) - PrefixTokens - Len(asked) < FinishTokens
  /\ tokens' = Append(tokens, t)
  /\ UNCHANGED <<pc, packetVars, coderVars, mirrorVars, asked, readerVars>>

(* The text must tokenize back into the tokens, or the carrier is refused; *)
(* so it is when the finish finds no copy-safe token.                      *)
Check ==
  /\ pc = "finish"
  /\ pc' \in {"sent", "refused"}
  /\ UNCHANGED <<packetVars, coderVars, mirrorVars, textVars, readerVars>>

-----------------------------------------------------------------------------
(* The text on its way (external): intact, cut short, or one token changed. *)
Arrivals(how) ==
  CASE how = "none"    -> {tokens}
    [] how = "cut"     -> {SubSeq(tokens, 1, n) : n \in 0..Len(tokens) - 1}
    [] how = "changed" -> {[tokens EXCEPT ![i] = t] :
                             i \in 1..Len(tokens), t \in Tokens} \ {tokens}

(* decode_carrier_sections needs more than the prefix. *)
Deliver(how, observed) ==
  /\ pc = "sent"
  /\ observed \in Arrivals(how)
  /\ damage' = how
  /\ copy' = observed
  /\ reader' = [reader EXCEPT !.at = PrefixTokens]
  /\ pc' = IF Len(observed) <= PrefixTokens THEN "rejected" ELSE "read"
  /\ UNCHANGED <<packetVars, coderVars, mirrorVars, textVars, collected>>

-----------------------------------------------------------------------------
(* The receiver *)

(* As long as the visible prefix is the sender's, so is the model's table. *)
SamePrefix(n) == SubSeq(copy, 1, n) = SubSeq(tokens, 1, n)
TableHere(c) ==
  LET n == reader.at - PrefixTokens + 1
  IN  SamePrefix(reader.at) /\ n <= Len(asked) => c = asked[n]

ReadToken(c) ==
  /\ pc = "read"
  /\ reader.at < Len(copy)
  /\ TableHere(c)
  /\ LET t == copy[reader.at + 1]
     IN  IF t \in Symbols(c)
         THEN /\ reader' = [reader EXCEPT
                   !.at = @ + 1,
                   !.encoder.r = Narrow(reader.encoder.r, c, t)]
              /\ pc' = "encode"
         ELSE pc' = "rejected" /\ UNCHANGED reader
  /\ UNCHANGED <<packetVars, coderVars, mirrorVars, textVars, copy, damage,
                 collected>>

(* Mutant of ReadEnd: what was read is taken once B is known. *)
ReadEndPartial ==
  /\ pc = "read"
  /\ reader.at = Len(copy)
  /\ pc' = IF reader.target > 0 THEN "open" ELSE "rejected"
  /\ UNCHANGED <<packetVars, coderVars, mirrorVars, textVars, readerVars>>

ReadEnd ==
  /\ pc = "read"
  /\ reader.at = Len(copy)
  /\ pc' = "rejected"
  /\ UNCHANGED <<packetVars, coderVars, mirrorVars, textVars, readerVars>>

(* Mutant of EncodeShift: the pending bits are lost. *)
EncodeShiftBare ==
  /\ pc = "encode"
  /\ Narrowed(reader.encoder.r)
  /\ collected' = collected
       \o SubSeq(Emitted(reader.encoder), 1, Min({1, Len(Emitted(reader.encoder))}))
  /\ reader' = [reader EXCEPT !.encoder = Encode(reader.encoder)]
  /\ UNCHANGED <<pc, packetVars, coderVars, mirrorVars, textVars, copy, damage>>

EncodeShift ==
  /\ pc = "encode"
  /\ Narrowed(reader.encoder.r)
  /\ collected' = collected \o Emitted(reader.encoder)
  /\ reader' = [reader EXCEPT !.encoder = Encode(reader.encoder)]
  /\ UNCHANGED <<pc, packetVars, coderVars, mirrorVars, textVars, copy, damage>>

(* Until B is known, the complete bytes are parsed after every token.      *)
Layout ==
  IF reader.target = 0 /\ Len(collected) >= ByteBits
  THEN ParseHeader(CompleteBytes(collected)) ELSE Incomplete

Learned ==
  IF Layout.kind = "length"
  THEN [reader EXCEPT !.headerBits = Layout.bytes * ByteBits,
                      !.target = (Layout.bytes + Layout.value) * ByteBits]
  ELSE reader

(* Mutant of Enough: a bit more than the packet is waited for. *)
EnoughMore(target) == target > 0 /\ Len(collected) > target

Enough(target) == target > 0 /\ Len(collected) >= target

EncodeEnd ==
  /\ pc = "encode"
  /\ ~Narrowed(reader.encoder.r)
  /\ reader' = Learned
  /\ pc' = IF Layout.kind = "error" THEN "rejected"
           ELSE IF Enough(Learned.target) THEN "open" ELSE "read"
  /\ UNCHANGED <<packetVars, coderVars, mirrorVars, textVars, copy, damage,
                 collected>>

ReadHeader  == SubSeq(collected, 1, reader.headerBits)
ReadCapsule == SubSeq(collected, reader.headerBits + 1, reader.target)

(* decrypt_message: only the sender's capsule, with its header and prefix, *)
(* opens (external: HPKE authenticates all three).                         *)
Open ==
  /\ pc = "open"
  /\ pc' = IF /\ ReadHeader = header /\ ReadCapsule = capsule
              /\ SamePrefix(PrefixTokens)
           THEN "received" ELSE "rejected"
  /\ UNCHANGED <<packetVars, coderVars, mirrorVars, textVars, readerVars>>

-----------------------------------------------------------------------------
Send ==
  \/ \E t \in Tokens : Prefix(t) \/ Finish(t)
  \/ \E length \in CapsuleLengths : Encrypt(length)
  \/ \E c \in Tables : Choose(c)
  \/ Load \/ DecodeShift \/ DecodeEnd \/ MirrorShift \/ Token \/ Check

Receive ==
  \/ \E c \in Tables : ReadToken(c)
  \/ ReadEnd \/ EncodeShift \/ EncodeEnd \/ Open

Next ==
  \/ Send
  \/ \E how \in Damages : \E observed \in Arrivals(how) : Deliver(how, observed)
  \/ Receive

Spec == Init /\ [][Next]_vars

-----------------------------------------------------------------------------
Places == {"prefix", "encrypt", "load", "choose", "decode", "mirror", "finish",
           "sent", "refused", "read", "encode", "open", "received", "rejected"}
Encoders == [r : Intervals, pending : Nat]

TypeOK ==
  /\ pc \in Places
  /\ header \in Seq(Bit) /\ capsule \in Seq(Bit) /\ bits \in Seq(Bit)
  /\ coder \in [r : Intervals, code : 0..Mask, symbol : Nat]
  /\ offset \in Nat
  /\ mirror \in Encoders /\ confirmed \in Nat /\ desynchronized \in BOOLEAN
  /\ asked \in Seq(Tables) /\ tokens \in Seq(Tokens) /\ copy \in Seq(Tokens)
  /\ damage \in Damages \cup {"none"}
  /\ reader \in [encoder : Encoders, at : Nat, headerBits : Nat, target : Nat]
  /\ collected \in Seq(Bit)

(* The code never leaves the interval, so every table has a symbol for it: *)
(* "arithmetic symbol outside table" is never raised.                      *)
CodeInside ==
  pc \in {"choose", "decode"} => coder.code \in coder.r.low..coder.r.high

(* Decoder and mirror are in step at every token: the same interval, and   *)
(* the decoder has read exactly the bits the mirror has confirmed or holds *)
(* pending, and one register more.                                         *)
InStep ==
  pc = "choose" =>
    /\ mirror.r = coder.r
    /\ offset = confirmed + mirror.pending + Precision

(* The mirror confirms the source's own bits, those of the random suffix   *)
(* included: "payload arithmetic mirror desynchronized" is never raised.   *)
Synchronized == ~desynchronized

(* What the receiver has collected is what the sender confirmed, token by  *)
(* token, as long as the copy is the sender's text: a continuous stream    *)
(* that the end of B does not interrupt.                                   *)
ReaderFollows ==
  pc \in {"read", "encode", "open", "received"} /\ SamePrefix(reader.at) =>
    IsPrefix(collected, bits)

(* An intact carrier always yields the packet, and the receiver stops at   *)
(* the token that completed it for the sender: D is ignored, all of it.    *)
RoundTrip ==
  damage = "none" =>
    /\ pc # "rejected"
    /\ pc \in {"open", "received"} =>
         /\ ReadHeader = header /\ ReadCapsule = capsule
         /\ reader.at = PrefixTokens + Len(asked)

(* A carrier that was cut is read when only D was cut, and refused when    *)
(* anything of A, B or C is missing: never a shorter packet.               *)
CutFailsClosed ==
  damage = "cut" =>
    /\ pc \in {"open", "received"} => Len(copy) >= PrefixTokens + Len(asked)
    /\ pc = "rejected" => Len(copy) < PrefixTokens + Len(asked)

(* "Any mismatch inside A/B/C fails closed" (docs/protocol.md).  The last  *)
(* token of C also spells random suffix bits that nobody checks: another   *)
(* token that confirms the same real bits is accepted in its place.        *)
MismatchFailsClosed ==
  pc = "received" => SamePrefix(PrefixTokens + Len(asked))
=============================================================================
