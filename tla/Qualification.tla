----------------------------- MODULE Qualification -----------------------------
(***************************************************************************)
(* models/qualification.py: one installation generates a carrier for each  *)
(* case of a fixed corpus, with a few trials each and a budget of model    *)
(* steps for a trial, decodes it, and bundles the results; another one     *)
(* verifies the bundle it was given.  What a trial asks of its three       *)
(* models, one step at a time, is codec/generative.py.                     *)
(*                                                                         *)
(* A carrier is the trial its A/B/C come from and the state of its D: its  *)
(* own, another, or one that makes the whole text unfit.                   *)
(***************************************************************************)
EXTENDS Integers, Sequences

CONSTANTS
  Cases,         \* QUALIFICATION_CASES
  MaxTrials,     \* MAX_QUALIFICATION_TRIALS
  Budget,        \* MAX_QUALIFICATION_GENERATED_TOKENS
  PrefixTokens,  \* codec.prefix_tokens
  FinishTokens,  \* DEFAULT_FINISH_TOKENS
  SelfTests      \* the self-test results an installation may have

ASSUME QualificationAssumption ==
  /\ Cases \in Nat \ {0} /\ MaxTrials \in Nat \ {0} /\ Budget \in Nat \ {0}
  /\ PrefixTokens \in Nat \ {0} /\ FinishTokens \in Nat

VARIABLES
  at,        \* where generate_qualification_bundle is
  trial,     \* [case, number, asked]: the steps of each model in the trial
  counter,   \* counter: what its three models share
  observed,  \* observed_self_test
  rejected,  \* rejected trials of the case: their number and model steps
  bundle,    \* the cases so far, and then the bundle
  received,  \* the bundle that was received, and where its verification is
  disturbed  \* a call failed that had no reason in the bundle

trialVars == <<trial, counter>>
vars == <<at, trialVars, observed, rejected, bundle, received, disturbed>>

-----------------------------------------------------------------------------
Sections == {"prefix", "payload", "finish"}
Unasked  == [x \in Sections |-> 0]
NoTest   == "none"
NotYet   == [at |-> "waiting", change |-> "none", cases |-> <<>>,
             self_test |-> NoTest, observed |-> NoTest, checked |-> 0]

Init ==
  /\ at = "load"
  /\ trial = [case |-> 1, number |-> 1, asked |-> Unasked]
  /\ counter = 0
  /\ observed = NoTest /\ rejected = <<>> /\ bundle = <<>>
  /\ received = NotYet /\ disturbed = FALSE

(* load_profile, and a self-test that must be that of the case before.     *)
LoadCase(test) ==
  /\ at = "load"
  /\ IF observed \in {NoTest, test}
     THEN observed' = test /\ at' = "prefix"
     ELSE at' = "failed" /\ UNCHANGED observed
  /\ rejected' = <<>>
  /\ UNCHANGED <<trialVars, bundle, received, disturbed>>

(* Mutant of Consumed: each model has a counter of its own. *)
ConsumedEach(s) == trial.asked[s] < Budget

(* _consume, before the model is asked. *)
Consumed(s) == counter < Budget

Trial(c, n) == [case |-> c, number |-> n, asked |-> Unasked]

(* Mutant of Reject: a case that has used its trials is begun again. *)
RejectRestart ==
  /\ rejected' = Append(rejected, [attempt |-> trial.number, steps |-> counter])
  /\ counter' = 0
  /\ IF trial.number = MaxTrials
     THEN at' = "load" /\ trial' = Trial(trial.case, 1)
     ELSE at' = "prefix" /\ trial' = Trial(trial.case, trial.number + 1)

(* The trial's error is one that a trial may end with: the next one begins *)
(* with a fresh budget, if there is one.                                   *)
Reject ==
  /\ rejected' = Append(rejected, [attempt |-> trial.number, steps |-> counter])
  /\ IF trial.number = MaxTrials
     THEN at' = "failed" /\ UNCHANGED trialVars
     ELSE /\ trial' = Trial(trial.case, trial.number + 1)
          /\ counter' = 0 /\ at' = "prefix"

(* How far encode_carrier goes in a section: the prefix has a fixed length, *)
(* the payload at least one token, the finish none or more.                *)
Enough(s) ==
  \/ s = "prefix" /\ trial.asked[s] = PrefixTokens
  \/ s = "payload" /\ trial.asked[s] > 0
  \/ s = "finish"
More(s) ==
  \/ s = "prefix" /\ trial.asked[s] < PrefixTokens
  \/ s = "payload"
  \/ s = "finish" /\ trial.asked[s] < FinishTokens

(* Every next_table and next_greedy_token of the trial. *)
Step(s) ==
  /\ at = s /\ More(s)
  /\ IF Consumed(s)
     THEN /\ counter' = counter + 1
          /\ trial' = [trial EXCEPT !.asked[s] = @ + 1]
          /\ UNCHANGED <<at, rejected>>
     ELSE Reject
  /\ UNCHANGED <<observed, bundle, received, disturbed>>

(* CarrierGenerationError from the model or from the codec. *)
TrialFails ==
  /\ at \in Sections
  /\ Reject
  /\ UNCHANGED <<observed, bundle, received, disturbed>>

Following(s) ==
  CASE s = "prefix" -> "payload" [] s = "payload" -> "finish"
    [] s = "finish" -> "decode"

SectionEnds(s) ==
  /\ at = s /\ Enough(s)
  /\ at' = Following(s)
  /\ UNCHANGED <<trialVars, observed, rejected, bundle, received, disturbed>>

(* Any other error ends the qualification. *)
Abort ==
  /\ at \in Sections \cup {"load", "decode"}
  /\ at' = "failed"
  /\ UNCHANGED <<trialVars, observed, rejected, bundle, received, disturbed>>

Carrier == [abc |-> <<trial.case, trial.number>>, d |-> "own"]

(* Mutant of Record: the number of rejected trials is recorded. *)
RecordRejected ==
  Append(bundle, [about |-> trial.case, encoded |-> TRUE,
                  attempts |-> Len(rejected), rejected |-> rejected,
                  packet |-> Carrier.abc, carrier |-> Carrier])

(* What the case is about (its id and brief), whether its fields are well  *)
(* encoded, and what became of its trials.                                 *)
Record ==
  Append(bundle, [about |-> trial.case, encoded |-> TRUE,
                  attempts |-> trial.number, rejected |-> rejected,
                  packet |-> Carrier.abc, carrier |-> Carrier])

(* The carrier is decoded with the unwrapped model and must give the same  *)
(* packet; the next case begins, or the bundle is complete.                *)
Decode(match) ==
  /\ at = "decode"
  /\ IF match
     THEN /\ bundle' = Record
          /\ IF trial.case = Cases
             THEN at' = "done" /\ UNCHANGED trialVars
             ELSE /\ trial' = Trial(trial.case + 1, 1)
                  /\ counter' = 0 /\ at' = "load"
     ELSE at' = "failed" /\ UNCHANGED <<trialVars, bundle>>
  /\ UNCHANGED <<observed, rejected, received, disturbed>>

-----------------------------------------------------------------------------
(* A bundle on its way (external): as it was, or with one thing changed.   *)
(* It may have another head (format, version, address, model or revision), *)
(* it may lack a case, or one of its cases may have another D, a D with    *)
(* which the text is too long, has a CR or a NUL or tokenises to another   *)
(* text, other A/B/C (a D may do this too, where its text joins that of C  *)
(* in one token), another packet, another id or brief, or a bad encoding.  *)
Sent(change, head, cases) == [change |-> change, head |-> head, cases |-> cases]

Changed(change, k, case) == Sent(change, "own", [bundle EXCEPT ![k] = case])

Arrivals ==
  {Sent("none", "own", bundle),
   Sent("head", "other", bundle),
   Sent("missing", "own", SubSeq(bundle, 1, Len(bundle) - 1))}
  \cup UNION {
    {Changed("D", k, [bundle[k] EXCEPT !.carrier.d = "other"]),
     Changed("unfit D", k, [bundle[k] EXCEPT !.carrier.d = "unfit"]),
     Changed("A/B/C", k, [bundle[k] EXCEPT !.carrier.abc = <<k, 0>>]),
     Changed("packet", k, [bundle[k] EXCEPT !.packet = <<k, 0>>]),
     Changed("corpus", k, [bundle[k] EXCEPT !.about = 0]),
     Changed("encoding", k, [bundle[k] EXCEPT !.encoded = FALSE])} :
      k \in 1..Len(bundle)}

(* The head, and a case for each of the corpus. *)
Expected(arrival) == arrival.head = "own" /\ Len(arrival.cases) = Cases

Deliver(arrival) ==
  /\ at = "done" /\ received.at = "waiting"
  /\ received' = [NotYet EXCEPT
       !.at = IF Expected(arrival) THEN "load" ELSE "refused",
       !.change = arrival.change, !.cases = arrival.cases,
       !.self_test = observed]
  /\ UNCHANGED <<at, trialVars, observed, rejected, bundle, disturbed>>

(* The case that is next has the id and brief of the corpus, and its       *)
(* fields can be decoded.                                                  *)
OfCorpus(k) == received.cases[k].about = k /\ received.cases[k].encoded

(* An iteration looks at the case before it loads the profile. *)
VerifyLoad(test) ==
  /\ received.at = "load"
  /\ LET stable == received.observed \in {NoTest, test}
         known  == OfCorpus(received.checked + 1)
     IN  /\ received' = IF known /\ stable
                        THEN [received EXCEPT !.at = "decode", !.observed = test]
                        ELSE [received EXCEPT !.at = "refused"]
         /\ disturbed' = (known /\ ~stable)
  /\ UNCHANGED <<at, trialVars, observed, rejected, bundle>>

(* Mutant of Recovers: the whole carrier is compared. *)
RecoversAll(case) == case.carrier = [abc |-> case.packet, d |-> "own"]

(* decode_carrier_sections looks at the whole text, D included, before it  *)
(* tokenises it and then ignores D; the packet is compared.                *)
Recovers(case) == case.carrier.d # "unfit" /\ case.carrier.abc = case.packet

Verdict ==
  IF received.self_test = received.observed THEN "accepted" ELSE "refused"

VerifyCase ==
  /\ received.at = "decode"
  /\ LET k == received.checked + 1
     IN  received' =
           IF ~Recovers(received.cases[k])
           THEN [received EXCEPT !.at = "refused"]
           ELSE [received EXCEPT
                   !.checked = k,
                   !.at = IF k < Cases THEN "load" ELSE Verdict]
  /\ UNCHANGED <<at, trialVars, observed, rejected, bundle, disturbed>>

VerifyAborts ==
  /\ received.at \in {"load", "decode"}
  /\ received' = [received EXCEPT !.at = "refused"]
  /\ disturbed' = TRUE
  /\ UNCHANGED <<at, trialVars, observed, rejected, bundle>>

Generate ==
  \/ \E test \in SelfTests : LoadCase(test)
  \/ \E s \in Sections : Step(s) \/ SectionEnds(s)
  \/ TrialFails \/ Abort
  \/ \E match \in BOOLEAN : Decode(match)

Verify ==
  \/ \E test \in SelfTests : VerifyLoad(test)
  \/ VerifyCase \/ VerifyAborts

Next == Generate \/ (\E arrival \in Arrivals : Deliver(arrival)) \/ Verify

Spec == Init /\ [][Next]_vars

(* The command runs to its end. *)
FairSpec == Spec /\ WF_vars(Generate)

-----------------------------------------------------------------------------
Total == trial.asked["prefix"] + trial.asked["payload"] + trial.asked["finish"]

(* A trial's budget is one for all of its models together, and each trial  *)
(* has all of it.                                                          *)
OneBudget == Total <= Budget /\ counter = Total

(* Every case of a bundle was rejected as often as it says, and says how   *)
(* far each trial went; its attempts are within the limit.                 *)
BundleHonest ==
  \A k \in 1..Len(bundle) :
    LET c == bundle[k]
    IN  /\ c.attempts \in 1..MaxTrials
        /\ Len(c.rejected) = c.attempts - 1
        /\ \A n \in 1..Len(c.rejected) :
             c.rejected[n].attempt = n /\ c.rejected[n].steps <= Budget
        /\ c.packet = <<k, c.attempts>>

(* Of all that may become of a bundle, another D that leaves the text fit  *)
(* is the only change that goes unseen; any other is refused, in whichever *)
(* case it is.  And when nothing else was changed and no call failed, it   *)
(* is refused only because, all cases recovered, the self-tests differ.    *)
Harmless == {"none", "D"}
VerdictRight ==
  /\ received.at = "accepted" =>
       received.change \in Harmless /\ received.observed = observed
  /\ received.at = "refused" =>
       \/ disturbed \/ received.change \notin Harmless
       \/ received.checked = Cases /\ received.observed # observed

(* The budget ends what the codec's own limits would let go on: however    *)
(* long a payload grows, the generation comes to an end.                   *)
GenerationEnds == <>(at \in {"done", "failed"})
=============================================================================
