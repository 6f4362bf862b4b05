------------------------- MODULE Qualification_proofs -------------------------
(***************************************************************************)
(* For every number of cases, trials and tokens: a trial's budget is one   *)
(* for its models together, a bundle says of its cases what happened, and  *)
(* its verification accepts what it should.                                *)
(***************************************************************************)
EXTENDS Qualification, SequenceTheorems, TLAPS

Trials     == [case : Nat, number : Nat, asked : [Sections -> Nat]]
Rejections == [attempt : Nat, steps : Nat]
Packets    == Nat \X Nat
Carriers   == [abc : Packets, d : {"own", "other", "unfit"}]
Entries    == [about : Nat, encoded : BOOLEAN, attempts : Nat,
               rejected : Seq(Rejections), packet : Packets, carrier : Carriers]

Typed ==
  /\ trial \in Trials /\ counter \in Nat
  /\ rejected \in Seq(Rejections) /\ bundle \in Seq(Entries)

Working == Sections \cup {"load", "decode"}

(* The rejected trials are all the trials before this one. *)
Tried ==
  /\ trial.number \in 1..MaxTrials
  /\ \A n \in 1..Len(rejected) :
       rejected[n].attempt = n /\ rejected[n].steps <= Budget
  /\ at = "load" => trial.number = 1
  /\ at \in Sections \cup {"decode"} => Len(rejected) = trial.number - 1
  /\ at \in Working => trial.case = Len(bundle) + 1

(* The case as the corpus has it, with a packet that its carrier gives. *)
Made ==
  \A k \in 1..Len(bundle) :
    /\ bundle[k].about = k /\ bundle[k].encoded
    /\ bundle[k].carrier = [abc |-> bundle[k].packet, d |-> "own"]

Inv == Typed /\ OneBudget /\ Tried /\ BundleHonest /\ Made

-----------------------------------------------------------------------------
LEMMA InitInv == Init => Inv
<1> SUFFICES ASSUME Init
             PROVE  Inv
  OBVIOUS
<1>1. /\ Len(<<>>) = 0 /\ <<>> \in Seq(Rejections) /\ <<>> \in Seq(Entries)
  BY EmptySeq
<1>2. trial \in Trials /\ Total = 0
  BY DEF Init, Trials, Unasked, Sections, Total
<1>3. Typed /\ OneBudget
  BY <1>1, <1>2, QualificationAssumption DEF Init, Typed, OneBudget
<1>4. Tried /\ BundleHonest /\ Made
  BY <1>1, QualificationAssumption
     DEF Init, Tried, BundleHonest, Made, Working, Sections
<1> QED BY <1>3, <1>4 DEF Inv

(* A fresh trial has asked nothing. *)
LEMMA FreshTrial ==
  ASSUME NEW c \in Nat, NEW n \in Nat
  PROVE  /\ Trial(c, n) \in Trials
         /\ Trial(c, n).case = c /\ Trial(c, n).number = n
         /\ trial' = Trial(c, n) => Total' = 0
BY DEF Trial, Trials, Unasked, Sections, Total

LEMMA RejectInv ==
  ASSUME Inv, Reject, at \in Sections, UNCHANGED bundle
  PROVE  Inv'
<1>1. /\ Typed /\ OneBudget /\ Tried /\ BundleHonest /\ Made
  BY DEF Inv
<1> DEFINE r == [attempt |-> trial.number, steps |-> counter]
<1>2. /\ trial.number \in Nat /\ trial.case \in Nat
      /\ r \in Rejections /\ r.attempt = trial.number /\ r.steps = counter
  BY <1>1 DEF Typed, Trials, Rejections
<1>3. /\ rejected' = Append(rejected, r) /\ rejected' \in Seq(Rejections)
      /\ Len(rejected') = trial.number
      /\ rejected'[trial.number] = r
      /\ \A n \in 1..Len(rejected) : rejected'[n] = rejected[n]
  BY <1>1, <1>2, AppendProperties DEF Reject, Typed, Tried
<1>4. counter <= Budget
  BY <1>1 DEF OneBudget
<1>5. \A n \in 1..Len(rejected') :
        rejected'[n].attempt = n /\ rejected'[n].steps <= Budget
  BY <1>1, <1>2, <1>3, <1>4 DEF Tried
<1>6. CASE trial.number = MaxTrials
  <2>1. at' = "failed" /\ UNCHANGED <<trial, counter>>
    BY <1>6 DEF Reject, trialVars
  <2>2. Typed'
    BY <1>1, <1>3, <2>1 DEF Typed
  <2>3. OneBudget' /\ BundleHonest' /\ Made'
    BY <1>1, <2>1 DEF OneBudget, Total, BundleHonest, Made
  <2>4. Tried'
    BY <1>1, <1>3, <1>5, <2>1 DEF Tried, Working, Sections
  <2> QED BY <2>2, <2>3, <2>4 DEF Inv
<1>7. CASE trial.number # MaxTrials
  <2>1. /\ trial' = Trial(trial.case, trial.number + 1)
        /\ counter' = 0 /\ at' = "prefix"
    BY <1>7 DEF Reject
  <2>2. /\ trial' \in Trials /\ Total' = 0
        /\ trial'.case = trial.case /\ trial'.number = trial.number + 1
    BY <1>2, <2>1, FreshTrial
  <2>3. trial'.number \in 1..MaxTrials
    BY <1>1, <1>7, <2>2, QualificationAssumption DEF Tried
  <2>4. Typed' /\ OneBudget'
    BY <1>1, <1>3, <2>1, <2>2, QualificationAssumption DEF Typed, OneBudget
  <2>5. BundleHonest' /\ Made'
    BY <1>1 DEF BundleHonest, Made
  <2>6. Tried'
    BY <1>1, <1>2, <1>3, <1>5, <2>1, <2>2, <2>3 DEF Tried, Working, Sections
  <2> QED BY <2>4, <2>5, <2>6 DEF Inv
<1> QED BY <1>6, <1>7

LEMMA LoadInv ==
  ASSUME Inv, NEW test \in SelfTests, LoadCase(test)
  PROVE  Inv'
<1>1. Len(<<>>) = 0 /\ <<>> \in Seq(Rejections)
  BY EmptySeq
<1>2. /\ at = "load" /\ at' \in {"prefix", "failed"}
      /\ rejected' = <<>> /\ UNCHANGED <<trial, counter, bundle>>
  BY DEF LoadCase, trialVars
<1>3. Typed'
  BY <1>1, <1>2 DEF Inv, Typed
<1>4. OneBudget' /\ BundleHonest' /\ Made'
  BY <1>2 DEF Inv, OneBudget, Total, BundleHonest, Made
<1>5. Tried'
  BY <1>1, <1>2 DEF Inv, Typed, Tried, Working, Sections
<1> QED BY <1>3, <1>4, <1>5 DEF Inv

LEMMA StepInv ==
  ASSUME Inv, NEW s \in Sections, Step(s)
  PROVE  Inv'
<1>1. at = s /\ UNCHANGED bundle
  BY DEF Step
<1>2. CASE Consumed(s)
  <2>1. /\ counter' = counter + 1 /\ counter < Budget
        /\ trial' = [trial EXCEPT !.asked[s] = @ + 1]
        /\ UNCHANGED <<at, rejected>>
    BY <1>2 DEF Step, Consumed
  <2>2. /\ trial \in Trials /\ trial' \in Trials
        /\ trial'.case = trial.case /\ trial'.number = trial.number
    <3>1. trial \in Trials
      BY DEF Inv, Typed
    <3>2. [trial.asked EXCEPT ![s] = @ + 1] \in [Sections -> Nat]
      BY <3>1 DEF Trials
    <3> QED BY <2>1, <3>1, <3>2 DEF Trials
  <2>3. Total' = Total + 1
    BY <2>1, <2>2 DEF Total, Sections, Trials
  <2>4. Typed' /\ OneBudget'
    BY <1>1, <2>1, <2>2, <2>3, QualificationAssumption
       DEF Inv, Typed, OneBudget
  <2>5. Tried' /\ BundleHonest' /\ Made'
    BY <1>1, <2>1, <2>2 DEF Inv, Tried, BundleHonest, Made
  <2> QED BY <2>4, <2>5 DEF Inv
<1>3. CASE ~Consumed(s)
  BY <1>1, <1>3, RejectInv DEF Step
<1> QED BY <1>2, <1>3

LEMMA DecodeInv ==
  ASSUME Inv, NEW match \in BOOLEAN, Decode(match)
  PROVE  Inv'
<1>1. /\ Typed /\ OneBudget /\ Tried /\ BundleHonest /\ Made
      /\ at = "decode" /\ UNCHANGED rejected
  BY DEF Inv, Decode
<1>2. CASE ~match
  <2>1. at' = "failed" /\ UNCHANGED <<trial, counter, bundle>>
    BY <1>2 DEF Decode, trialVars
  <2> QED BY <1>1, <2>1
         DEF Inv, Typed, OneBudget, Total, Tried, BundleHonest, Made,
             Working, Sections
<1>3. CASE match
  <2> DEFINE c == [about |-> trial.case, encoded |-> TRUE,
                   attempts |-> trial.number, rejected |-> rejected,
                   packet |-> Carrier.abc, carrier |-> Carrier]
  <2>1. bundle' = Append(bundle, c)
    BY <1>3 DEF Decode, Record
  <2>2. trial.case \in Nat /\ trial.number \in Nat
    BY <1>1 DEF Typed, Trials
  <2>3. Carrier \in Carriers /\ Carrier.abc = <<trial.case, trial.number>>
    BY <2>2 DEF Carrier, Carriers, Packets
  <2>4. /\ c \in Entries /\ c.attempts = trial.number /\ c.rejected = rejected
        /\ c.packet = <<trial.case, trial.number>>
        /\ c.about = trial.case /\ c.encoded
        /\ c.carrier = [abc |-> c.packet, d |-> "own"]
    BY <1>1, <2>2, <2>3 DEF Entries, Carriers, Carrier, Typed
  <2> HIDE DEF c
  <2>5. /\ bundle' \in Seq(Entries) /\ Len(bundle') = Len(bundle) + 1
        /\ bundle'[Len(bundle) + 1] = c
        /\ \A k \in 1..Len(bundle) : bundle'[k] = bundle[k]
    BY <1>1, <2>1, <2>4, AppendProperties DEF Typed
  <2>6. /\ Len(rejected) = trial.number - 1 /\ trial.case = Len(bundle) + 1
        /\ trial.number \in 1..MaxTrials /\ Len(bundle) \in Nat
    BY <1>1, LenProperties DEF Tried, Working, Typed
  <2>7. BundleHonest'
    <3> SUFFICES ASSUME NEW k \in 1..Len(bundle')
                 PROVE  /\ bundle'[k].attempts \in 1..MaxTrials
                        /\ Len(bundle'[k].rejected) = bundle'[k].attempts - 1
                        /\ \A n \in 1..Len(bundle'[k].rejected) :
                             /\ bundle'[k].rejected[n].attempt = n
                             /\ bundle'[k].rejected[n].steps <= Budget
                        /\ bundle'[k].packet = <<k, bundle'[k].attempts>>
      BY DEF BundleHonest
    <3>1. CASE k \in 1..Len(bundle)
      BY <1>1, <2>5, <3>1 DEF BundleHonest
    <3>2. CASE k = Len(bundle) + 1
      BY <1>1, <2>4, <2>5, <2>6, <3>2 DEF Tried
    <3> QED BY <2>5, <2>6, <3>1, <3>2
  <2>10. Made'
    <3> SUFFICES ASSUME NEW k \in 1..Len(bundle')
                 PROVE  /\ bundle'[k].about = k /\ bundle'[k].encoded
                        /\ bundle'[k].carrier =
                             [abc |-> bundle'[k].packet, d |-> "own"]
      BY DEF Made
    <3>1. CASE k \in 1..Len(bundle)
      BY <1>1, <2>5, <3>1 DEF Made
    <3>2. CASE k = Len(bundle) + 1
      BY <2>4, <2>5, <2>6, <3>2
    <3> QED BY <2>5, <2>6, <3>1, <3>2
  <2>8. CASE trial.case = Cases
    <3>1. at' = "done" /\ UNCHANGED <<trial, counter>>
      BY <1>3, <2>8 DEF Decode, trialVars
    <3> QED BY <1>1, <2>5, <2>7, <2>10, <3>1
           DEF Inv, Typed, OneBudget, Total, Tried, Working, Sections
  <2>9. CASE trial.case # Cases
    <3>1. trial' = Trial(trial.case + 1, 1) /\ counter' = 0 /\ at' = "load"
      BY <1>3, <2>9 DEF Decode
    <3>2. /\ trial' \in Trials /\ Total' = 0
          /\ trial'.case = trial.case + 1 /\ trial'.number = 1
      BY <2>2, <3>1, FreshTrial
    <3> QED BY <1>1, <2>5, <2>6, <2>7, <2>10, <3>1, <3>2,
               QualificationAssumption
           DEF Inv, Typed, OneBudget, Tried, Working, Sections
  <2> QED BY <2>8, <2>9
<1> QED BY <1>2, <1>3

(* What happens to a bundle that was sent leaves its generation alone. *)
LEMMA OtherInv ==
  ASSUME Inv, UNCHANGED <<trialVars, rejected, bundle>>,
         \/ at' = at \/ at' = "failed"
         \/ \E s \in Sections : at = s /\ at' = Following(s)
  PROVE  Inv'
<1>1. UNCHANGED <<trial, counter>>
  BY DEF trialVars
<1>2. Typed' /\ OneBudget' /\ BundleHonest' /\ Made'
  BY <1>1 DEF Inv, Typed, OneBudget, Total, BundleHonest, Made
<1>3. Tried'
  BY <1>1 DEF Inv, Tried, Working, Sections, Following
<1> QED BY <1>2, <1>3 DEF Inv

LEMMA NextInv ==
  ASSUME Inv, [Next]_vars
  PROVE  Inv'
<1>1. CASE \E test \in SelfTests : LoadCase(test)
  BY <1>1, LoadInv
<1>2. CASE \E s \in Sections : Step(s)
  BY <1>2, StepInv
<1>3. CASE \E s \in Sections : SectionEnds(s)
  BY <1>3, OtherInv DEF SectionEnds
<1>4. CASE TrialFails
  BY <1>4, RejectInv DEF TrialFails
<1>5. CASE Abort
  BY <1>5, OtherInv DEF Abort
<1>6. CASE \E match \in BOOLEAN : Decode(match)
  BY <1>6, DecodeInv
<1>7. CASE \E arrival \in Arrivals : Deliver(arrival)
  BY <1>7, OtherInv DEF Deliver
<1>8. CASE Verify
  BY <1>8, OtherInv DEF Verify, VerifyLoad, VerifyCase, VerifyAborts
<1>9. CASE UNCHANGED vars
  BY <1>9, OtherInv DEF vars
<1> QED BY <1>1, <1>2, <1>3, <1>4, <1>5, <1>6, <1>7, <1>8, <1>9
       DEF Next, Generate

THEOREM AlwaysInv == Spec => []Inv
<1>1. Init => Inv
  BY InitInv
<1>2. Inv /\ [Next]_vars => Inv'
  BY NextInv
<1> QED BY <1>1, <1>2, PTL DEF Spec

(* models/qualification.py:92-100: the three models of a trial draw on one *)
(* counter, and no trial draws more than the budget.                       *)
THEOREM SharedBudget == Spec => []OneBudget
<1>1. Inv => OneBudget
  BY DEF Inv
<1> QED BY <1>1, AlwaysInv, PTL

(* However many trials of however many cases failed, and how, the bundle   *)
(* names each of them, in its order, with the steps it took.               *)
THEOREM HonestBundle == Spec => []BundleHonest
<1>1. Inv => BundleHonest
  BY DEF Inv
<1> QED BY <1>1, AlwaysInv, PTL

-----------------------------------------------------------------------------
Tests == SelfTests \cup {NoTest}
Open  == {"load", "decode"}

Changes == {"none", "head", "missing", "D", "unfit D", "A/B/C", "packet",
            "corpus", "encoding"}

(* A case that the verification has nothing to say against. *)
Fits(case, k) == case.about = k /\ case.encoded /\ Recovers(case)

(* Where the verification of a received bundle is, and what it has found.  *)
Checking ==
  /\ received \in [at : Open \cup {"waiting", "accepted", "refused"},
                   change : Changes, cases : Seq(Entries), self_test : Tests,
                   observed : Tests, checked : Nat]
  /\ observed \in Tests
  /\ at = "done" => Len(bundle) = Cases
  /\ received.at # "waiting" => at = "done" /\ received.self_test = observed
  /\ received.at \in Open =>
       /\ Len(received.cases) = Cases /\ received.checked < Cases
       /\ received.change \in Harmless <=>
            \A k \in 1..Cases : Fits(received.cases[k], k)
       /\ \A k \in 1..received.checked : Fits(received.cases[k], k)
       /\ received.at = "decode" => OfCorpus(received.checked + 1)

VInv == Inv /\ Checking /\ VerdictRight

(* What may be changed of one case, and whether it fits after that. *)
OtherD(e) == [e EXCEPT !.carrier.d = "other"]
Spoilt(e, k) ==
  {[e EXCEPT !.carrier.d = "unfit"], [e EXCEPT !.carrier.abc = <<k, 0>>],
   [e EXCEPT !.packet = <<k, 0>>], [e EXCEPT !.about = 0],
   [e EXCEPT !.encoded = FALSE]}

LEMMA ChangedCase ==
  ASSUME NEW k \in Nat \ {0}, NEW p \in Nat \ {0}, NEW e \in Entries,
         e.about = k, e.encoded, e.packet = <<k, p>>,
         e.carrier = [abc |-> e.packet, d |-> "own"]
  PROVE  /\ Fits(e, k) /\ OtherD(e) \in Entries /\ Fits(OtherD(e), k)
         /\ \A c \in Spoilt(e, k) : c \in Entries /\ ~Fits(c, k)
<1> DEFINE q == <<k, 0>>
<1>1. q \in Packets /\ e.packet # q /\ e.packet \in Packets
  BY DEF Packets
<1> HIDE DEF q
<1>2. e.carrier \in Carriers
  BY DEF Entries
<1>3. Fits(e, k)
  BY DEF Fits, Recovers
<1>4. LET c == [e EXCEPT !.carrier.d = "other"]
      IN  c \in Entries /\ Fits(c, k)
  <2> DEFINE c == [e EXCEPT !.carrier.d = "other"]
         w == [e.carrier EXCEPT !.d = "other"]
  <2>4. w = [abc |-> e.packet, d |-> "other"]
    OBVIOUS
  <2>5. c = [e EXCEPT !.carrier = w]
    OBVIOUS
  <2> HIDE DEF w
  <2>1. /\ c.carrier = [abc |-> e.packet, d |-> "other"]
        /\ c.about = e.about /\ c.encoded = e.encoded /\ c.packet = e.packet
    BY <2>4, <2>5 DEF Entries
  <2>2. c \in Entries
    BY <1>1 DEF Entries, Carriers
  <2> HIDE DEF c
  <2>3. Fits(c, k)
    BY <2>1 DEF Fits, Recovers
  <2> QED BY <2>2, <2>3 DEF c
<1>5. LET c == [e EXCEPT !.carrier.d = "unfit"]
      IN  c \in Entries /\ ~Fits(c, k)
  BY <1>1 DEF Fits, Recovers, Entries, Carriers
<1>6. LET c == [e EXCEPT !.carrier.abc = q]
      IN  c \in Entries /\ ~Fits(c, k)
  BY <1>1 DEF Fits, Recovers, Entries, Carriers
<1>7. LET c == [e EXCEPT !.packet = q]
      IN  c \in Entries /\ ~Fits(c, k)
  <2> DEFINE c == [e EXCEPT !.packet = q]
  <2>1. c.carrier = e.carrier /\ c.packet = q
    BY DEF Entries
  <2>2. c \in Entries
    BY <1>1 DEF Entries, Carriers
  <2> HIDE DEF c
  <2>3. ~Fits(c, k)
    BY <1>1, <2>1 DEF Fits, Recovers
  <2> QED BY <2>2, <2>3 DEF c
<1>8. LET c == [e EXCEPT !.about = 0]
      IN  c \in Entries /\ ~Fits(c, k)
  BY DEF Fits, Entries
<1>9. LET c == [e EXCEPT !.encoded = FALSE]
      IN  c \in Entries /\ ~Fits(c, k)
  BY DEF Fits, Entries
<1> QED BY <1>3, <1>4, <1>5, <1>6, <1>7, <1>8, <1>9 DEF q, OtherD, Spoilt

(* A bundle that arrives is harmless when it is complete, has the right    *)
(* head and all of its cases fit, and only then.                           *)
LEMMA Arrived ==
  ASSUME Inv, Len(bundle) = Cases, NEW arrival \in Arrivals
  PROVE  /\ arrival.cases \in Seq(Entries) /\ arrival.change \in Changes
         /\ arrival.change \in Harmless <=>
              /\ Expected(arrival)
              /\ \A k \in 1..Cases : Fits(arrival.cases[k], k)
<1>1. /\ bundle \in Seq(Entries) /\ Cases \in Nat \ {0}
      /\ \A k \in 1..Cases : bundle[k] \in Entries
  BY QualificationAssumption, ElementOfSeq DEF Inv, Typed
<1>2. ASSUME NEW k \in 1..Cases, NEW e, e = bundle[k]
      PROVE  /\ Fits(e, k) /\ OtherD(e) \in Entries /\ Fits(OtherD(e), k)
             /\ \A c \in Spoilt(e, k) : c \in Entries /\ ~Fits(c, k)
  <2>1. bundle[k].attempts \in 1..MaxTrials /\ k \in Nat /\ k # 0
    BY <1>1 DEF Inv, BundleHonest
  <2>2. bundle[k].packet = <<k, bundle[k].attempts>>
    BY <1>1 DEF Inv, BundleHonest
  <2>3. /\ bundle[k].about = k /\ bundle[k].encoded
        /\ bundle[k].carrier = [abc |-> bundle[k].packet, d |-> "own"]
    BY <1>1 DEF Inv, Made
  <2>4. bundle[k] \in Entries /\ bundle[k].attempts \in Nat \ {0}
    BY <1>1, <2>1, QualificationAssumption
  <2> DEFINE p == e.attempts
  <2>5. /\ k \in Nat /\ k # 0 /\ p \in Nat \ {0} /\ e \in Entries
        /\ e.packet = <<k, p>> /\ e.about = k /\ e.encoded
        /\ e.carrier = [abc |-> e.packet, d |-> "own"]
    BY <1>2, <2>1, <2>2, <2>3, <2>4
  <2> HIDE DEF p
  <2> QED BY <2>5, ChangedCase
<1>3. ASSUME NEW k \in 1..Cases, NEW e \in Entries, NEW change \in Changes,
             arrival = Changed(change, k, e)
      PROVE  /\ arrival.cases \in Seq(Entries) /\ arrival.change = change
             /\ Expected(arrival)
             /\ Fits(e, k) <=> \A n \in 1..Cases : Fits(arrival.cases[n], n)
  <2>1. /\ arrival.change = change /\ arrival.head = "own"
        /\ arrival.cases = [bundle EXCEPT ![k] = e]
    BY <1>3 DEF Changed, Sent
  <2>2. /\ arrival.cases \in Seq(Entries) /\ Len(arrival.cases) = Cases
        /\ arrival.cases[k] = e
        /\ \A n \in 1..Cases : n # k => arrival.cases[n] = bundle[n]
    BY <1>1, <2>1, ExceptSeq
  <2>3. \A n \in 1..Cases : n # k => Fits(arrival.cases[n], n)
    BY <1>2, <2>2
  <2> QED BY <2>1, <2>2, <2>3 DEF Expected
<1>4. CASE arrival = Sent("none", "own", bundle)
  <2>1. \A k \in 1..Cases : Fits(bundle[k], k)
    BY <1>2
  <2> QED BY <1>1, <1>4, <2>1 DEF Sent, Expected, Harmless, Changes
<1>5. CASE arrival = Sent("head", "other", bundle)
  BY <1>1, <1>5 DEF Sent, Expected, Harmless, Changes
<1>6. CASE arrival = Sent("missing", "own", SubSeq(bundle, 1, Len(bundle) - 1))
  <2> DEFINE m == Cases - 1
  <2>1. m \in Nat /\ m # Cases /\ \A i \in 1..m : bundle[i] \in Entries
    BY <1>1
  <2>2. arrival.cases = SubSeq(bundle, 1, m) /\ arrival.change = "missing"
    BY <1>6 DEF Sent
  <2> HIDE DEF m
  <2>3. SubSeq(bundle, 1, m) \in Seq(Entries)
    BY <1>1, <2>1, SubSeqProperties
  <2>4. Len(SubSeq(bundle, 1, m)) = IF 1 <= m THEN m - 1 + 1 ELSE 0
    BY <1>1, <2>1, SubSeqProperties
  <2>5. Len(arrival.cases) # Cases
    BY <1>1, <2>1, <2>2, <2>4
  <2> QED BY <2>2, <2>3, <2>5 DEF Expected, Harmless, Changes
<1>7. ASSUME NEW k \in 1..Len(bundle),
             arrival = Changed("D", k, [bundle[k] EXCEPT !.carrier.d = "other"])
      PROVE  /\ arrival.cases \in Seq(Entries) /\ arrival.change = "D"
             /\ Expected(arrival)
             /\ \A n \in 1..Cases : Fits(arrival.cases[n], n)
  <2> DEFINE e == [bundle[k] EXCEPT !.carrier.d = "other"]
  <2>1. e \in Entries /\ Fits(e, k) /\ arrival = Changed("D", k, e)
    BY <1>2, <1>7 DEF OtherD
  <2> HIDE DEF e
  <2>2. k \in 1..Cases /\ "D" \in Changes
    BY DEF Changes
  <2> QED BY <1>3, <2>1, <2>2
<1>8. ASSUME NEW k \in 1..Len(bundle), NEW change \in Changes, NEW e,
             e \in Spoilt(bundle[k], k),
             arrival = Changed(change, k, e)
      PROVE  /\ arrival.cases \in Seq(Entries) /\ arrival.change = change
             /\ ~\A n \in 1..Cases : Fits(arrival.cases[n], n)
  <2>1. k \in 1..Cases /\ e \in Entries /\ ~Fits(e, k)
    BY <1>2, <1>8
  <2> QED BY <1>3, <1>8, <2>1
<1>9. ASSUME NEW k \in 1..Len(bundle),
             arrival \in
               {Changed("unfit D", k, [bundle[k] EXCEPT !.carrier.d = "unfit"]),
                Changed("A/B/C", k, [bundle[k] EXCEPT !.carrier.abc = <<k, 0>>]),
                Changed("packet", k, [bundle[k] EXCEPT !.packet = <<k, 0>>]),
                Changed("corpus", k, [bundle[k] EXCEPT !.about = 0]),
                Changed("encoding", k, [bundle[k] EXCEPT !.encoded = FALSE])}
      PROVE  /\ arrival.cases \in Seq(Entries)
             /\ arrival.change \in Changes \ Harmless
             /\ ~\A n \in 1..Cases : Fits(arrival.cases[n], n)
  <2>1. PICK change \in {"unfit D", "A/B/C", "packet", "corpus", "encoding"},
             e \in Spoilt(bundle[k], k) :
               arrival = Changed(change, k, e)
    BY <1>9 DEF Spoilt
  <2>2. change \in Changes /\ change \notin Harmless
    BY DEF Harmless, Changes
  <2> QED BY <1>8, <2>1, <2>2
<1>10. CASE \E k \in 1..Len(bundle) :
              arrival = Changed("D", k, [bundle[k] EXCEPT !.carrier.d = "other"])
  BY <1>7, <1>10 DEF Harmless, Changes
<1> QED BY <1>4, <1>5, <1>6, <1>9, <1>10 DEF Arrivals

LEMMA InitVInv == Init => VInv
<1> SUFFICES ASSUME Init
             PROVE  VInv
  OBVIOUS
<1>1. Inv
  BY InitInv
<1>2. Checking
  BY EmptySeq DEF Init, Checking, NotYet, Tests, Open, Changes
<1>3. VerdictRight
  BY DEF Init, VerdictRight, NotYet
<1> QED BY <1>1, <1>2, <1>3 DEF VInv

(* While a bundle is being made, none has been received. *)
LEMMA GenerateVInv ==
  ASSUME VInv, Generate
  PROVE  VInv'
<1>1. Inv /\ Inv' /\ Checking /\ VerdictRight
  BY NextInv DEF VInv, Next
<1>2. /\ at \in Working /\ UNCHANGED received
      /\ observed' \in Tests
      /\ at' = "done" => Len(bundle') = Cases
  <2>1. CASE \E test \in SelfTests : LoadCase(test)
    BY <1>1, <2>1 DEF LoadCase, Checking, Tests, Working
  <2>2. CASE \E s \in Sections : Step(s) \/ SectionEnds(s)
    BY <1>1, <2>2
       DEF Step, SectionEnds, Reject, Following, Checking, Working, Sections
  <2>3. CASE TrialFails \/ Abort
    BY <1>1, <2>3 DEF TrialFails, Abort, Reject, Checking, Working, Sections
  <2>4. CASE \E match \in BOOLEAN : Decode(match)
    <3>1. at = "decode" /\ UNCHANGED <<received, observed>>
      BY <2>4 DEF Decode
    <3>2. trial.case = Len(bundle) + 1 /\ bundle \in Seq(Entries)
      BY <1>1, <3>1 DEF Inv, Tried, Working, Typed
    <3>3. ASSUME at' = "done"
          PROVE  Len(bundle') = Cases
      <4>1. bundle' = Record /\ trial.case = Cases
        BY <2>4, <3>3 DEF Decode
      <4>2. Len(bundle') = Len(bundle) + 1
        BY <3>2, <4>1 DEF Record
      <4> QED BY <3>2, <4>1, <4>2
    <3> QED BY <1>1, <3>1, <3>3 DEF Checking, Working
  <2> QED BY <2>1, <2>2, <2>3, <2>4 DEF Generate
<1>3. received.at = "waiting"
  BY <1>1, <1>2 DEF Checking, Working, Sections
<1>4. Checking' /\ VerdictRight'
  BY <1>1, <1>2, <1>3 DEF Checking, VerdictRight, Open
<1> QED BY <1>1, <1>4 DEF VInv

LEMMA DeliverVInv ==
  ASSUME VInv, NEW arrival \in Arrivals, Deliver(arrival)
  PROVE  VInv'
<1>1. Inv /\ Inv' /\ Checking
  BY NextInv DEF VInv, Next
<1>2. /\ at = "done" /\ UNCHANGED <<at, bundle, observed>>
      /\ received' = [NotYet EXCEPT
           !.at = IF Expected(arrival) THEN "load" ELSE "refused",
           !.change = arrival.change, !.cases = arrival.cases,
           !.self_test = observed]
  BY DEF Deliver
<1>3. /\ Len(bundle) = Cases /\ Cases \in Nat \ {0}
  BY <1>1, <1>2, QualificationAssumption DEF Checking
<1>4. /\ arrival.cases \in Seq(Entries) /\ arrival.change \in Changes
      /\ arrival.change \in Harmless <=>
           /\ Expected(arrival)
           /\ \A k \in 1..Cases : Fits(arrival.cases[k], k)
  BY <1>1, <1>3, Arrived
<1>5. /\ received'.at = (IF Expected(arrival) THEN "load" ELSE "refused")
      /\ received'.change = arrival.change /\ received'.cases = arrival.cases
      /\ received'.self_test = observed
      /\ received'.observed = NoTest /\ received'.checked = 0
  BY <1>2 DEF NotYet
<1>6. received' \in [at : Open \cup {"waiting", "accepted", "refused"},
                     change : Changes, cases : Seq(Entries), self_test : Tests,
                     observed : Tests, checked : Nat]
  BY <1>1, <1>2, <1>4 DEF NotYet, Checking, Open, Tests
<1>7. Checking'
  <2>1. Expected(arrival) =>
          /\ Len(received'.cases) = Cases /\ received'.checked < Cases
          /\ received'.change \in Harmless <=>
               \A k \in 1..Cases : Fits(received'.cases[k], k)
          /\ \A k \in 1..received'.checked : Fits(received'.cases[k], k)
    BY <1>3, <1>4, <1>5 DEF Expected
  <2> QED BY <1>1, <1>2, <1>5, <1>6, <2>1 DEF Checking, Open, Fits, Recovers
<1>8. VerdictRight'
  BY <1>4, <1>5 DEF VerdictRight
<1> QED BY <1>1, <1>7, <1>8 DEF VInv

LEMMA VerifyVInv ==
  ASSUME VInv, Verify
  PROVE  VInv'
<1>1. Inv /\ Inv' /\ Checking /\ VerdictRight
  BY NextInv DEF VInv, Next
<1>2. /\ received.at \in Open /\ UNCHANGED <<at, bundle, observed>>
      /\ received'.cases = received.cases
      /\ received'.change = received.change
      /\ received'.self_test = received.self_test
  BY <1>1 DEF Verify, VerifyLoad, VerifyCase, VerifyAborts, Open, Checking
<1>3. /\ at = "done" /\ received.self_test = observed
      /\ Len(received.cases) = Cases /\ Cases \in Nat
      /\ received.change \in Harmless <=>
           \A k \in 1..Cases : Fits(received.cases[k], k)
      /\ \A k \in 1..received.checked : Fits(received.cases[k], k)
      /\ received.checked < Cases /\ received.checked \in Nat
  BY <1>1, <1>2, QualificationAssumption DEF Checking, Open
<1> DEFINE k == received.checked + 1
<1>4. k \in 1..Cases
  BY <1>3
<1>5. CASE \E test \in SelfTests : VerifyLoad(test)
  <2>1. PICK test \in SelfTests : VerifyLoad(test)
    BY <1>5
  <2>2. CASE OfCorpus(k) /\ received.observed \in {NoTest, test}
    <3>1. received' = [received EXCEPT !.at = "decode", !.observed = test]
      BY <2>1, <2>2 DEF VerifyLoad
    <3>2. /\ received'.at = "decode" /\ received'.checked = received.checked
          /\ received' \in [at : Open \cup {"waiting", "accepted", "refused"},
                           change : Changes, cases : Seq(Entries),
                           self_test : Tests, observed : Tests, checked : Nat]
      BY <1>1, <3>1 DEF Checking, Open, Tests
    <3>3. /\ OfCorpus(k)'
          /\ \A n : Fits(received.cases[n], n)' = Fits(received.cases[n], n)
      BY <1>2, <2>2, <3>2 DEF OfCorpus, Fits, Recovers
    <3>4. Checking'
      BY <1>1, <1>2, <1>3, <3>2, <3>3 DEF Checking, Open
    <3> QED BY <1>1, <3>2, <3>4 DEF VInv, VerdictRight
  <2>3. CASE ~(OfCorpus(k) /\ received.observed \in {NoTest, test})
    <3>1. /\ received' = [received EXCEPT !.at = "refused"]
          /\ OfCorpus(k) => disturbed'
      BY <2>1, <2>3 DEF VerifyLoad
    <3>2. Checking'
      BY <1>1, <1>2, <1>3, <3>1 DEF Checking, Open
    <3>3. disturbed' \/ received'.change \notin Harmless
      BY <1>2, <1>3, <1>4, <3>1 DEF OfCorpus, Fits
    <3> QED BY <1>1, <3>1, <3>2, <3>3 DEF VInv, VerdictRight, Checking
  <2> QED BY <2>2, <2>3
<1>6. CASE VerifyAborts
  <2>1. Checking'
    BY <1>1, <1>2, <1>3, <1>6 DEF VerifyAborts, Checking, Open
  <2>2. VerdictRight'
    BY <1>1, <1>6 DEF VerifyAborts, VerdictRight, Checking
  <2> QED BY <1>1, <2>1, <2>2 DEF VInv
<1>7. CASE VerifyCase
  <2>1. OfCorpus(k)
    BY <1>1, <1>7 DEF VerifyCase, Checking, Open
  <2>2. CASE ~Recovers(received.cases[k])
    <3>1. received' = [received EXCEPT !.at = "refused"]
      BY <1>7, <2>2 DEF VerifyCase
    <3>2. Checking'
      BY <1>1, <1>2, <1>3, <3>1 DEF Checking, Open
    <3>3. received'.change \notin Harmless
      BY <1>2, <1>3, <1>4, <2>2 DEF Fits
    <3> QED BY <1>1, <3>1, <3>2, <3>3 DEF VInv, VerdictRight, Checking
  <2>3. CASE Recovers(received.cases[k])
    <3> DEFINE place == IF k < Cases THEN "load" ELSE Verdict
    <3>1. received' = [received EXCEPT !.checked = k, !.at = place]
      BY <1>7, <2>3 DEF VerifyCase
    <3>2. /\ received'.checked = k /\ received'.observed = received.observed
          /\ received'.at = place
      BY <1>1, <3>1 DEF Checking
    <3>3. \A n \in 1..k : Fits(received.cases[n], n)
      BY <1>3, <2>1, <2>3 DEF OfCorpus, Fits
    <3>4. place \in {"load", "accepted", "refused"}
      BY DEF Verdict
    <3>5. received' \in [at : Open \cup {"waiting", "accepted", "refused"},
                         change : Changes, cases : Seq(Entries),
                         self_test : Tests, observed : Tests, checked : Nat]
      <4>1. k \in Nat
        BY <1>4
      <4> HIDE DEF place, k
      <4> QED BY <1>1, <3>1, <3>4, <4>1 DEF Checking, Open
    <3>6. place = "load" => k < Cases
      BY DEF Verdict
    <3>7. Checking'
      <4>1. \A n : Fits(received.cases[n], n)' = Fits(received.cases[n], n)
        BY <1>2 DEF Fits, Recovers
      <4>2. \A n \in 1..received'.checked : Fits(received.cases[n], n)'
        BY <3>2, <3>3, <4>1
      <4>3. received'.at \in Open => received'.checked < Cases
        BY <3>2, <3>4, <3>6 DEF Open
      <4>4. received'.at # "decode" /\ observed' \in Tests
        BY <1>1, <1>2, <3>2, <3>4 DEF Checking
      <4>5. at' = "done" => Len(bundle') = Cases
        BY <1>1, <1>2 DEF Checking
      <4>6. received'.change \in Harmless <=>
              \A n \in 1..Cases : Fits(received.cases[n], n)'
        BY <1>2, <1>3, <4>1
      <4>7. /\ at' = "done" /\ received'.self_test = observed'
            /\ Len(received'.cases) = Cases
        BY <1>2, <1>3
      <4> HIDE DEF place, k
      <4> QED BY <3>5, <4>2, <4>3, <4>4, <4>5, <4>6, <4>7 DEF Checking
    <3>8. k = Cases => received.change \in Harmless
      BY <1>3, <3>3
    <3>9. VerdictRight'
      BY <1>2, <1>3, <1>4, <3>2, <3>8 DEF VerdictRight, Verdict
    <3> QED BY <1>1, <3>7, <3>9 DEF VInv
  <2> QED BY <2>2, <2>3
<1> QED BY <1>5, <1>6, <1>7 DEF Verify

(* The inductive invariant of the verification: a bundle's change is       *)
(* harmless when all of its cases fit, and those checked so far do         *)
(* (models/qualification.py:308-351).                                      *)
THEOREM AlwaysVInv == Spec => []VInv
<1>1. Init => VInv
  BY InitVInv
<1>2. VInv /\ [Next]_vars => VInv'
  <2> SUFFICES ASSUME VInv, [Next]_vars
               PROVE  VInv'
    OBVIOUS
  <2>1. CASE UNCHANGED vars
    BY <2>1, NextInv
       DEF vars, VInv, Checking, VerdictRight, Fits, Recovers, OfCorpus
  <2> QED BY <2>1, GenerateVInv, DeliverVInv, VerifyVInv DEF Next
<1> QED BY <1>1, <1>2, PTL DEF Spec

(* models/qualification.py:286-372: a bundle is only accepted when nothing *)
(* of it was changed, or only a D that leaves its text fit, and the        *)
(* self-tests agree; without a failing call it is then not refused.        *)
THEOREM RightVerdict == Spec => []VerdictRight
<1>1. VInv => VerdictRight
  BY DEF VInv
<1> QED BY <1>1, AlwaysVInv, PTL
=============================================================================
