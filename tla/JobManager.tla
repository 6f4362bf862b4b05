----------------------------- MODULE JobManager -----------------------------
(***************************************************************************)
(* The job manager of the local web application (web/jobs.py) and the work *)
(* functions it runs (web/app.py).  Three threads touch a Job: the event   *)
(* loop that calls submit, cancel, discard and shutdown under the          *)
(* manager's lock, and the single thread of the executor that runs _run.   *)
(* The threads that read the event log are in module JobStream.            *)
(*                                                                         *)
(* A job's state is written before its event is appended and outside the   *)
(* job's condition (Job.transition), so both steps are actions here.       *)
(***************************************************************************)
EXTENDS Integers, Sequences, FiniteSets

CONSTANTS
  Jobs,         \* job identifiers: uuid4 values, never used twice
  NoJob,        \* no job
  MaxJobs,      \* maximum_jobs: how many jobs the history keeps
  MaxPending,   \* maximum_pending: how many of them may be unsettled
  MaxEvents     \* bound: a job's log grows by tokens or cancels up to here

ASSUME JobAssumption ==
  /\ IsFiniteSet(Jobs)
  /\ NoJob \notin Jobs
  /\ MaxJobs \in Nat \ {0}
  /\ MaxPending \in Nat \ {0}
  /\ MaxEvents \in Nat

VARIABLES
  retained,   \* the keys of JobManager._jobs
  submitted,  \* how many jobs were created so far
  born,       \* the place of a job in the dictionary's order; 0: not created
  kind,       \* Job.kind
  state,      \* Job.state
  cancelled,  \* the jobs whose Job.cancelled is set
  result,     \* the jobs whose Job.result is set
  error,      \* the jobs whose Job.error is set
  events,     \* Job.events, each by its type (a "state" event by its state)
  future,     \* Job.future, as the executor sees it
  pool,       \* whether the executor accepts work
  worker,     \* the executor's thread, inside _run
  loop        \* the caller that holds JobManager._lock

jobVars  == <<kind, state, cancelled, result, error, events, future>>
poolVars == <<pool, worker>>
vars == <<retained, submitted, born, jobVars, poolVars, loop>>

-----------------------------------------------------------------------------
Terminal == {"complete", "failed", "cancelled"}
Kinds    == {"encode", "decode"}

(* The calls of the work functions on their job, in order: job.transition   *)
(* for a state, job.emit for "self_test", the loop of the token or progress *)
(* callback for "token" and "progress".                                     *)
Program == [encode |-> <<"loading_model", "self_test", "generating", "token",
                         "validating">>,
            decode |-> <<"unlocking", "loading_model", "self_test",
                         "decoding", "progress">>]
Working  == {"unlocking", "loading_model", "generating", "decoding",
             "validating"}
Callback == {"token", "progress"}
States     == {"queued"} \cup Working \cup Terminal
EventTypes == States \cup {"self_test"} \cup Callback

Futures    == {"none", "pending", "running", "finished", "cancelled"}

Settled(j) == state[j] \in Terminal
Active     == {j \in retained : ~Settled(j)}

Idle == [pc |-> "idle", job |-> NoJob, at |-> 1, outcome |-> "none"]
Calling(p, j) == [pc |-> p, job |-> j]
Free == Calling("free", NoJob)

Places == [pc : {"idle", "check", "work", "announce", "callback", "recheck",
                 "settle", "publish"},
           job : Jobs \cup {NoJob}, at : 1..6, outcome : Terminal \cup {"none"}]
Calls  == [pc : {"free", "insert", "cancel", "emit", "closing"},
           job : Jobs \cup {NoJob}]

TypeOK ==
  /\ retained \subseteq Jobs
  /\ submitted \in Nat
  /\ born \in [Jobs -> Nat]
  /\ kind \in [Jobs -> Kinds]
  /\ state \in [Jobs -> States]
  /\ cancelled \subseteq Jobs
  /\ result \subseteq Jobs
  /\ error \subseteq Jobs
  /\ events \in [Jobs -> Seq(EventTypes)]
  /\ future \in [Jobs -> Futures]
  /\ pool \in {"open", "closed"}
  /\ worker \in Places
  /\ loop \in Calls

Init ==
  /\ retained = {}
  /\ submitted = 0
  /\ born = [j \in Jobs |-> 0]
  /\ kind = [j \in Jobs |-> "encode"]
  /\ state = [j \in Jobs |-> "queued"]
  /\ cancelled = {}
  /\ result = {}
  /\ error = {}
  /\ events = [j \in Jobs |-> <<>>]
  /\ future = [j \in Jobs |-> "none"]
  /\ pool = "open"
  /\ worker = Idle
  /\ loop = Free

Emit(j, e) == events' = [events EXCEPT ![j] = Append(@, e)]

-----------------------------------------------------------------------------
(* JobManager, called by the event loop under the lock *)

(* Mutants of Evicted: one job too few is trimmed; unsettled jobs go too. *)
EvictedTooFew ==
  LET done == {j \in retained : Settled(j)}
      older(j) == {i \in done : born[i] < born[j]}
  IN  {j \in done : Cardinality(older(j)) < Cardinality(retained) - MaxJobs}
EvictedAny ==
  LET older(j) == {i \in retained : born[i] < born[j]}
  IN  {j \in retained : Cardinality(older(j)) <= Cardinality(retained) - MaxJobs}

(* _trim_locked: settled jobs, oldest first, until one place is free. *)
Evicted ==
  LET done == {j \in retained : Settled(j)}
      older(j) == {i \in done : born[i] < born[j]}
  IN  {j \in done : Cardinality(older(j)) <= Cardinality(retained) - MaxJobs}

(* submit counts the unsettled jobs: too many, and it raises...  (Bound:   *)
(* Jobs has a fresh name, or unsettled jobs fill the history and none is   *)
(* needed.  Should the worker settle one of these before the insertion,    *)
(* that is beyond the bound and not followed.)                             *)
Asked ==
  /\ loop = Free
  /\ Cardinality(Active) >= MaxJobs \/ \E j \in Jobs : born[j] = 0

SubmitFull ==
  /\ Asked
  /\ Cardinality(Active) >= MaxPending
  /\ UNCHANGED <<retained, submitted, born, jobVars, poolVars, loop>>

SubmitCount ==
  /\ Asked
  /\ Cardinality(Active) < MaxPending
  /\ loop' = Calling("insert", NoJob)
  /\ UNCHANGED <<retained, submitted, born, jobVars, poolVars>>

(* ... otherwise, still under the lock, it trims the history, while the    *)
(* worker may have settled a job since.  No place: _trim_locked raises.    *)
SubmitNoRoom ==
  /\ loop.pc = "insert"
  /\ Cardinality(retained \ Evicted) >= MaxJobs
  /\ retained' = retained \ Evicted
  /\ loop' = Free
  /\ UNCHANGED <<submitted, born, jobVars, poolVars>>

(* Mutant of Create: the trimmed jobs stay in the history. *)
CreateUntrimmed(j, k) ==
  /\ loop.pc = "insert"
  /\ Cardinality(retained \ Evicted) < MaxJobs
  /\ born[j] = 0
  /\ submitted' = submitted + 1
  /\ born' = [born EXCEPT ![j] = submitted + 1]
  /\ retained' = retained \cup {j}
  /\ kind' = [kind EXCEPT ![j] = k]
  /\ Emit(j, "queued")
  /\ loop' = Free
  /\ UNCHANGED <<state, cancelled, result, error, poolVars>>

(* Otherwise the job is created and handed to the executor... *)
Create(j, k) ==
  /\ loop.pc = "insert"
  /\ Cardinality(retained \ Evicted) < MaxJobs
  /\ born[j] = 0
  /\ submitted' = submitted + 1
  /\ born' = [born EXCEPT ![j] = submitted + 1]
  /\ retained' = (retained \ Evicted) \cup {j}
  /\ kind' = [kind EXCEPT ![j] = k]
  /\ Emit(j, "queued")
  /\ loop' = Free
  /\ UNCHANGED <<state, cancelled, result, error, poolVars>>

SubmitAccept(j, k) ==
  /\ pool = "open"
  /\ Create(j, k)
  /\ future' = [future EXCEPT ![j] = "pending"]

(* ... which raises after shutdown, when the job is already in the history. *)
SubmitClosed(j, k) ==
  /\ pool = "closed"
  /\ Create(j, k)
  /\ UNCHANGED future

(* cancel raises the flag, then tries to cancel the future.  When the       *)
(* worker has not started it (or it is cancelled already) the caller        *)
(* settles the job in its place, state first and then the event.            *)
CancelFlag(j) ==
  /\ loop = Free
  /\ j \in retained
  /\ Len(events[j]) < MaxEvents
  /\ cancelled' = cancelled \cup {j}
  /\ loop' = Calling("cancel", j)
  /\ UNCHANGED <<retained, submitted, born, kind, state, result, error,
                 events, future, poolVars>>

CancelTooLate ==
  /\ loop.pc = "cancel"
  /\ future[loop.job] \notin {"pending", "cancelled"}
  /\ loop' = Free
  /\ UNCHANGED <<retained, submitted, born, jobVars, poolVars>>

(* Mutant of CancelSettle: the answer of future.cancel() is ignored. *)
CancelSettleAlways ==
  /\ loop.pc = "cancel"
  /\ state' = [state EXCEPT ![loop.job] = "cancelled"]
  /\ loop' = Calling("emit", loop.job)
  /\ UNCHANGED <<retained, submitted, born, kind, cancelled, result, error,
                 events, future, poolVars>>

CancelSettle ==
  /\ loop.pc = "cancel"
  /\ future[loop.job] \in {"pending", "cancelled"}
  /\ future' = [future EXCEPT ![loop.job] = "cancelled"]
  /\ state' = [state EXCEPT ![loop.job] = "cancelled"]
  /\ loop' = Calling("emit", loop.job)
  /\ UNCHANGED <<retained, submitted, born, kind, cancelled, result, error,
                 events, poolVars>>

CancelEmit ==
  /\ loop.pc = "emit"
  /\ Emit(loop.job, "cancelled")
  /\ loop' = Free
  /\ UNCHANGED <<retained, submitted, born, kind, state, cancelled, result,
                 error, future, poolVars>>

(* discard only flags a job that is not settled, and forgets a settled one. *)
DiscardActive(j) ==
  /\ loop = Free
  /\ j \in retained /\ ~Settled(j)
  /\ cancelled' = cancelled \cup {j}
  /\ UNCHANGED <<retained, submitted, born, kind, state, result, error,
                 events, future, poolVars, loop>>

DiscardSettled(j) ==
  /\ loop = Free
  /\ j \in retained /\ Settled(j)
  /\ retained' = retained \ {j}
  /\ UNCHANGED <<submitted, born, jobVars, poolVars, loop>>

(* shutdown flags every job under the lock, then closes the executor, which *)
(* cancels the futures its thread has not taken.                            *)
ShutdownFlag ==
  /\ loop = Free
  /\ pool = "open"
  /\ cancelled' = cancelled \cup retained
  /\ loop' = Calling("closing", NoJob)
  /\ UNCHANGED <<retained, submitted, born, kind, state, result, error,
                 events, future, poolVars>>

ShutdownPool ==
  /\ loop.pc = "closing"
  /\ pool' = "closed"
  /\ future' = [j \in Jobs |->
                  IF future[j] = "pending" THEN "cancelled" ELSE future[j]]
  /\ loop' = Free
  /\ UNCHANGED <<retained, submitted, born, kind, state, cancelled, result,
                 error, events, worker>>

-----------------------------------------------------------------------------
(* _run, in the executor's only thread *)

Unseen == <<retained, submitted, born, kind, pool, loop>>
Doing(p) == worker.pc = p
Place(p, i, o) == [pc |-> p, job |-> worker.job, at |-> i, outcome |-> o]
Goto(p) == worker' = Place(p, worker.at, worker.outcome)
Step    == worker' = Place("work", worker.at + 1, worker.outcome)
End(o)  == worker' = Place("settle", worker.at, o)

(* Mutant of WorkerTake: a second thread takes a job while one is running  *)
(* (what becomes of that one is not followed).                             *)
WorkerTakeSecond(j) ==
  /\ future[j] = "pending"
  /\ \A i \in Jobs : future[i] = "pending" => born[j] <= born[i]
  /\ future' = [future EXCEPT ![j] = "running"]
  /\ worker' = [pc |-> "check", job |-> j, at |-> 1, outcome |-> "none"]
  /\ UNCHANGED <<Unseen, state, cancelled, result, error, events>>

(* The executor starts the oldest future that is still pending. *)
WorkerTake(j) ==
  /\ Doing("idle")
  /\ future[j] = "pending"
  /\ \A i \in Jobs : future[i] = "pending" => born[j] <= born[i]
  /\ future' = [future EXCEPT ![j] = "running"]
  /\ worker' = [pc |-> "check", job |-> j, at |-> 1, outcome |-> "none"]
  /\ UNCHANGED <<Unseen, state, cancelled, result, error, events>>

Here == Program[kind[worker.job]][worker.at]
AtStep(S) ==
  /\ Doing("work")
  /\ worker.at <= Len(Program[kind[worker.job]])
  /\ Here \in S

(* check_cancelled: before the work, at the start of every callback, and    *)
(* when the work has returned.                                              *)
CheckPoint == Doing("check") \/ AtStep(Callback) \/ Doing("recheck")

WorkerCancelled ==
  /\ CheckPoint
  /\ worker.job \in cancelled
  /\ End("cancelled")
  /\ UNCHANGED <<Unseen, state, cancelled, result, error, events, future>>

WorkerBegin ==
  /\ Doing("check")
  /\ worker.job \notin cancelled
  /\ Goto("work")
  /\ UNCHANGED <<Unseen, state, cancelled, result, error, events, future>>

(* job.transition in the work function: the state... *)
WorkerWrite ==
  /\ AtStep(Working)
  /\ state' = [state EXCEPT ![worker.job] = Here]
  /\ Goto("announce")
  /\ UNCHANGED <<Unseen, cancelled, result, error, events, future>>

(* ... then its event. *)
WorkerAnnounce ==
  /\ Doing("announce")
  /\ Emit(worker.job, Here)
  /\ Step
  /\ UNCHANGED <<Unseen, state, cancelled, result, error, future>>

WorkerSelfTest ==
  /\ AtStep({"self_test"})
  /\ Emit(worker.job, Here)
  /\ Step
  /\ UNCHANGED <<Unseen, state, cancelled, result, error, future>>

(* Mutant of CallbackCheck: the callback does not check. *)
CallbackUnchecked ==
  /\ AtStep(Callback)
  /\ Len(events[worker.job]) < MaxEvents
  /\ Goto("callback")
  /\ UNCHANGED <<Unseen, state, cancelled, result, error, events, future>>

(* A callback that is not cancelled...  *)
CallbackCheck ==
  /\ AtStep(Callback)
  /\ Len(events[worker.job]) < MaxEvents
  /\ worker.job \notin cancelled
  /\ Goto("callback")
  /\ UNCHANGED <<Unseen, state, cancelled, result, error, events, future>>

(* ... emits its event; the codec may call it again. *)
CallbackEmit ==
  /\ Doing("callback")
  /\ Emit(worker.job, Here)
  /\ Goto("work")
  /\ UNCHANGED <<Unseen, state, cancelled, result, error, future>>

CallbackLast ==
  /\ AtStep(Callback)
  /\ Step
  /\ UNCHANGED <<Unseen, state, cancelled, result, error, events, future>>

(* Mutants of WorkerRaise: an outcome that no client knows; the exception  *)
(* escapes _run.                                                           *)
WorkerRaiseUnknown ==
  /\ Doing("work")
  /\ worker.at > 1
  /\ error' = error \cup {worker.job}
  /\ End("error")
  /\ UNCHANGED <<Unseen, state, cancelled, result, events, future>>
WorkerRaiseOut ==
  /\ Doing("work")
  /\ worker.at > 1
  /\ future' = [future EXCEPT ![worker.job] = "finished"]
  /\ worker' = Idle
  /\ UNCHANGED <<Unseen, state, cancelled, result, error, events>>

(* Whatever follows the first transition may raise: a wrong passphrase, a  *)
(* model that does not load, a carrier that does not decode.               *)
WorkerRaise ==
  /\ Doing("work")
  /\ worker.at > 1
  /\ error' = error \cup {worker.job}
  /\ End("failed")
  /\ UNCHANGED <<Unseen, state, cancelled, result, events, future>>

WorkerReturn ==
  /\ Doing("work")
  /\ worker.at > Len(Program[kind[worker.job]])
  /\ Goto("recheck")
  /\ UNCHANGED <<Unseen, state, cancelled, result, error, events, future>>

(* Mutant of WorkerComplete: the transition comes before the result. *)
WorkerCompleteEmpty ==
  /\ Doing("recheck")
  /\ worker.job \notin cancelled
  /\ End("complete")
  /\ UNCHANGED <<Unseen, state, cancelled, result, error, events, future>>

(* Past the last check the job completes. *)
WorkerComplete ==
  /\ Doing("recheck")
  /\ worker.job \notin cancelled
  /\ result' = result \cup {worker.job}
  /\ End("complete")
  /\ UNCHANGED <<Unseen, state, cancelled, error, events, future>>

(* The last transition, in its two steps. *)
WorkerSettle ==
  /\ Doing("settle")
  /\ state' = [state EXCEPT ![worker.job] = worker.outcome]
  /\ Goto("publish")
  /\ UNCHANGED <<Unseen, cancelled, result, error, events, future>>

WorkerPublish ==
  /\ Doing("publish")
  /\ Emit(worker.job, worker.outcome)
  /\ future' = [future EXCEPT ![worker.job] = "finished"]
  /\ worker' = Idle
  /\ UNCHANGED <<Unseen, state, cancelled, result, error>>

-----------------------------------------------------------------------------
Insert == SubmitNoRoom
          \/ \E j \in Jobs, k \in Kinds : SubmitAccept(j, k) \/ SubmitClosed(j, k)
Locked == Insert \/ CancelTooLate \/ CancelSettle \/ CancelEmit
          \/ ShutdownPool
Caller ==
  \/ SubmitFull \/ SubmitCount
  \/ \E j \in Jobs : CancelFlag(j) \/ DiscardActive(j) \/ DiscardSettled(j)
  \/ ShutdownFlag
  \/ Locked
Worker ==
  \/ \E j \in Jobs : WorkerTake(j)
  \/ WorkerCancelled \/ WorkerBegin
  \/ WorkerWrite \/ WorkerAnnounce \/ WorkerSelfTest
  \/ CallbackCheck \/ CallbackEmit \/ CallbackLast
  \/ WorkerRaise \/ WorkerReturn \/ WorkerComplete
  \/ WorkerSettle \/ WorkerPublish

Next == Caller \/ Worker

Spec == Init /\ [][Next]_vars

(* The executor's thread keeps running and its calls return (the codec     *)
(* bounds its loops), and a caller that holds the lock reaches the end of  *)
(* its call.  Nobody is obliged to submit, cancel, discard or shut down.   *)
Fairness == WF_vars(Worker) /\ WF_vars(Locked)
FairSpec == Spec /\ Fairness

-----------------------------------------------------------------------------
(* The history never outgrows maximum_jobs and never holds more unsettled  *)
(* jobs than maximum_pending, although submit counts the unsettled jobs    *)
(* before it inserts one and the worker settles jobs without the lock.     *)
HistoryBounded ==
  /\ Cardinality(retained) <= MaxJobs
  /\ Cardinality(Active) <= MaxPending

(* With limits as in __init__ (4 and 24), _trim_locked never raises "local *)
(* job history is full": whenever the count let a submission through, a    *)
(* place is free or made by trimming, and the job enters the history.      *)
HistoryNeverFull ==
  [][MaxPending <= MaxJobs /\ loop.pc = "insert" /\ loop' = Free
       => retained' \ retained # {}]_vars

(* "Serialize MLX access": a job in a working state is the one the single  *)
(* thread of the executor is running, so two never use the model at once.  *)
ModelSerialised ==
  \A j \in Jobs : state[j] \in Working => worker.pc # "idle" /\ worker.job = j

(* What public() returns fits the state it reports: a complete job has its *)
(* result, a failed one its error, and a cancelled one neither, and was    *)
(* flagged or never started.                                               *)
OutcomeBacked ==
  \A j \in Jobs :
    /\ state[j] = "complete"  => j \in result \ error
    /\ state[j] = "failed"    => j \in error \ result
    /\ state[j] = "cancelled" => j \in cancelled \ (result \cup error)

(* What a step leaves of a job. *)
Unchanging(j) ==
  /\ state'[j] = state[j]
  /\ (j \in result) = (j \in result')
  /\ (j \in error) = (j \in error')
(* A settled job stays as it is: its state, its result and its error never *)
(* change again, whoever calls cancel or discard and whenever.             *)
TerminalStable == [][\A j \in Jobs : Settled(j) => Unchanging(j)]_vars

(* Trimming and discarding only ever forget settled jobs: an unsettled job *)
(* keeps its place in the history, so its client can still follow it.  And *)
(* a submission trims only a full history, from its oldest settled job on: *)
(* a client has the longest possible time to fetch an outcome.             *)
ActiveKept ==
  [][\A j \in retained \ retained' :
       /\ Settled(j)
       /\ loop.pc = "insert" =>
            /\ Cardinality(retained) >= MaxJobs
            /\ \A i \in retained \cap retained' :
                 Settled(i) => born[j] < born[i]]_vars

(* The tokens, or progress, a job has reported. *)
Reported(j) == Cardinality({i \in DOMAIN events[j] : events[j][i] \in Callback})

(* Cooperative cancellation: once a job is flagged, at most the token whose *)
(* check had passed is still reported, and a job flagged before the worker *)
(* took it never enters a working state.  (Four events precede the tokens, *)
(* so the bound leaves no room for two more after MaxEvents - 6.)          *)
CancelBites ==
  \A j \in Jobs :
    /\ [](j \in cancelled /\ future[j] = "pending" => [](state[j] \notin Working))
    /\ \A n \in 0..MaxEvents - 6 :
         [](j \in cancelled /\ Reported(j) = n => [](Reported(j) <= n + 1))

(* Every job the executor accepted settles, unless the server shuts down:  *)
(* no job waits for ever behind the others, cancelled or failing ones      *)
(* included.                                                               *)
JobSettles ==
  \A j \in Jobs : future[j] = "pending" ~> Settled(j) \/ pool = "closed"

(* The service's view of a job: its life told by its state. *)
Status == [j \in Jobs |->
             IF born[j] = 0 THEN "absent"
             ELSE IF state[j] = "queued" THEN "waiting"
             ELSE IF state[j] \in Working THEN "running"
             ELSE state[j]]

Service == INSTANCE JobService WITH status <- Status, known <- retained

(* The manager with its threads implements the service: no interleaving    *)
(* of submit, trim, cancel, discard, shutdown and the worker shows a       *)
(* client anything else.                                                   *)
ImplementsService == Service!ServiceSpec
=============================================================================
