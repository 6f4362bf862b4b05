---------------------------- MODULE SectionLabels ----------------------------
(***************************************************************************)
(* The token callback of encode_work (web/app.py): while the carrier is    *)
(* written, each token is labelled with the section it belongs to and the  *)
(* packet bits it confirmed, for the page to colour and count.             *)
(***************************************************************************)
EXTENDS Carrier

VARIABLES
  previous_confirmed,
  header_bits,
  annotation   \* the last of annotations

labelVars == <<previous_confirmed, header_bits, annotation>>

Annotate(section, from, to) ==
  annotation' = [section |-> section, from |-> from, to |-> to]

LabelInit ==
  /\ Init
  /\ previous_confirmed = 0 /\ header_bits = 0
  /\ annotation = [section |-> "none", from |-> 0, to |-> 0]

LabelPrefix(t) ==
  /\ Prefix(t)
  /\ Annotate("A", 0, 0)
  /\ UNCHANGED <<previous_confirmed, header_bits>>

LabelFinish(t) ==
  /\ Finish(t)
  /\ Annotate("D", previous_confirmed, previous_confirmed)
  /\ UNCHANGED <<previous_confirmed, header_bits>>

(* _encode_payload calls a token's phase "header" while no more than the   *)
(* header's bits are confirmed.                                            *)
InHeader == confirmed <= Len(header)

(* Mutant of PayloadSection: a token that confirms nothing counts for B. *)
PayloadSectionEmpty(from, to) ==
  IF InHeader \/ from = to THEN "B"
  ELSE IF from < header_bits /\ header_bits < to THEN "BC"
  ELSE "C"

PayloadSection(from, to) ==
  IF InHeader THEN "B"
  ELSE IF from < header_bits /\ header_bits < to THEN "BC"
  ELSE "C"

(* Mutant of LabelToken: the confirmed bits are not limited to the packet. *)
LabelTokenAll ==
  /\ Token
  /\ ~desynchronized
  /\ Annotate(PayloadSection(previous_confirmed, confirmed),
              previous_confirmed, confirmed)
  /\ header_bits' = IF InHeader THEN Max({header_bits, confirmed})
                    ELSE header_bits
  /\ previous_confirmed' = confirmed

LabelToken ==
  /\ Token
  /\ ~desynchronized
  /\ LET to == Min({confirmed, RealBits})
     IN  /\ Annotate(PayloadSection(previous_confirmed, to),
                     previous_confirmed, to)
         /\ header_bits' = IF InHeader THEN Max({header_bits, to})
                           ELSE header_bits
         /\ previous_confirmed' = to

(* No other step of the sender, and none of the receiver, makes a label. *)
LabelNothing ==
  /\ \/ \E length \in CapsuleLengths : Encrypt(length)
     \/ \E c \in Tables : Choose(c)
     \/ Load \/ DecodeShift \/ DecodeEnd \/ MirrorShift \/ Check
     \/ Token /\ desynchronized
     \/ \E how \in Damages : \E observed \in Arrivals(how) :
          Deliver(how, observed)
     \/ Receive
  /\ UNCHANGED labelVars

LabelNext ==
  \/ \E t \in Tokens : LabelPrefix(t) \/ LabelFinish(t)
  \/ LabelToken
  \/ LabelNothing

LabelSpec == LabelInit /\ [][LabelNext]_<<vars, labelVars>>

-----------------------------------------------------------------------------
Rank == [none |-> 0, A |-> 1, B |-> 2, BC |-> 3, C |-> 4, D |-> 5]

(* The sections follow one another, and so do their bits: no token is      *)
(* labelled with an earlier section than the token before it, and its bits *)
(* begin where those of the token before ended, nothing twice or left out. *)
SectionsInOrder ==
  [][/\ Rank[annotation.section] <= Rank[annotation'.section]
     /\ annotation'.from = annotation.to]_labelVars

(* What the labels say of the packet: a B token confirms header bits only, *)
(* a C token reaches into the capsule (and the first one may begin in the  *)
(* header), and when the text is finished the labels have come to the last *)
(* bit of the packet, and not past it.                                     *)
BitsAttributed ==
  /\ annotation.section = "B" => annotation.to <= Len(header)
  /\ annotation.section \in {"BC", "C"} => annotation.to > Len(header)
  /\ pc \in {"finish", "sent"} => annotation.to = RealBits

(* "One token may confirm bits on both sides of the logical B/C boundary"  *)
(* (docs/protocol.md); the page has a style and a counter for such tokens, *)
(* section BC.  The callback never gives it: header_bits is what the last  *)
(* token in B confirmed, which is where the next one starts.               *)
SpanningTokenIsBC ==
  annotation.section \in {"B", "BC", "C"}
      /\ annotation.from < Len(header) /\ Len(header) < annotation.to
    => annotation.section = "BC"
=============================================================================
