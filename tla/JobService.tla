----------------------------- MODULE JobService -----------------------------
(***************************************************************************)
(* What the web application promises about a job, whatever the threads do: *)
(* a job is accepted once, at most one runs at a time, it settles once and *)
(* for good, and the service forgets settled jobs only.                    *)
(***************************************************************************)
EXTENDS FiniteSets, Integers

CONSTANTS Jobs, MaxJobs, MaxPending

VARIABLES
  status,   \* a job's life: absent, waiting, running, or its outcome
  known     \* the jobs the service answers for

serviceVars == <<status, known>>

Outcomes == {"complete", "failed", "cancelled"}
Unsettled == {j \in known : status[j] \notin Outcomes}

ServiceInit == status = [j \in Jobs |-> "absent"] /\ known = {}

(* A new job is taken while fewer than MaxPending are unsettled; settled   *)
(* ones may be forgotten to keep at most MaxJobs.                          *)
Accept(j) ==
  /\ status[j] = "absent"
  /\ Cardinality(Unsettled) < MaxPending
  /\ status' = [status EXCEPT ![j] = "waiting"]
  /\ \E gone \in SUBSET (known \ Unsettled) : known' = (known \ gone) \cup {j}
  /\ Cardinality(known') <= MaxJobs

Begin(j) ==
  /\ status[j] = "waiting"
  /\ \A i \in Jobs : status[i] # "running"
  /\ status' = [status EXCEPT ![j] = "running"]
  /\ UNCHANGED known

Settle(j) ==
  /\ \/ /\ status[j] = "running"
        /\ \E o \in Outcomes : status' = [status EXCEPT ![j] = o]
     \/ /\ status[j] = "waiting"
        /\ status' = [status EXCEPT ![j] = "cancelled"]
  /\ UNCHANGED known

Forget(gone) ==
  /\ gone \subseteq known \ Unsettled
  /\ known' = known \ gone
  /\ UNCHANGED status

ServiceNext ==
  \/ \E j \in Jobs : Accept(j) \/ Begin(j) \/ Settle(j)
  \/ \E gone \in SUBSET known : Forget(gone)

ServiceSpec == ServiceInit /\ [][ServiceNext]_serviceVars
=============================================================================
