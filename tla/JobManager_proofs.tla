-------------------------- MODULE JobManager_proofs --------------------------
(***************************************************************************)
(* The job manager's safety for any number of jobs and any limits.  The    *)
(* inductive invariant ties a job's state to its future (who may settle    *)
(* it), to the worker's place in _run and to the caller inside the lock.   *)
(***************************************************************************)
EXTENDS JobManager, FiniteSetTheorems, SequenceTheorems, WellFoundedInduction,
        TLAPS

(* Who owns a job: nobody before the executor takes its future, the worker *)
(* while the future runs, nobody again after it settled.                   *)
FutureInv ==
  \A j \in Jobs :
    /\ born[j] = 0 => future[j] = "none" /\ j \notin retained \cup cancelled
    /\ future[j] \in {"none", "pending"} => state[j] = "queued"
    /\ future[j] = "cancelled" => state[j] \in {"queued", "cancelled"}
    /\ future[j] = "finished" => state[j] \in Terminal
    /\ future[j] = "running" => worker.pc # "idle" /\ worker.job = j
    /\ future[j] \in {"none", "pending", "cancelled"}
         => j \notin result \cup error

(* What the worker knows of its job at each place of _run. *)
WorkerInv ==
  worker.pc # "idle" =>
    /\ worker.job \in Jobs
    /\ future[worker.job] = "running"
    /\ worker.pc # "publish" => state[worker.job] \notin Terminal
    /\ worker.pc = "check" => state[worker.job] = "queued"
    /\ worker.pc = "publish" => state[worker.job] = worker.outcome
    /\ worker.pc \in {"settle", "publish"} =>
         /\ worker.outcome \in Terminal
         /\ worker.outcome = "complete"  <=> worker.job \in result
         /\ worker.outcome = "failed"    <=> worker.job \in error
         /\ worker.outcome = "cancelled" => worker.job \in cancelled
    /\ worker.pc \notin {"settle", "publish"} =>
         worker.job \notin result \cup error
    /\ worker.pc \in {"announce", "callback"} => worker.at <= 5

(* What a caller inside cancel knows of the job it was called for. *)
CallerInv ==
  /\ loop.pc \in {"cancel", "emit"} =>
       loop.job \in retained /\ loop.job \in cancelled
  /\ loop.pc = "emit" => future[loop.job] = "cancelled"

Owned == TypeOK /\ FutureInv /\ WorkerInv /\ CallerInv /\ OutcomeBacked

LEMMA ProgramType ==
  ASSUME NEW k \in Kinds
  PROVE  /\ Len(Program[k]) = 5
         /\ \A i \in 1..5 : Program[k][i] \in
              Working \cup Callback \cup {"self_test"}
<1>1. CASE k = "encode"
  BY <1>1 DEF Program, Working, Callback
<1>2. CASE k = "decode"
  BY <1>2 DEF Program, Working, Callback
<1> QED
  BY <1>1, <1>2 DEF Kinds

LEMMA EmitType ==
  ASSUME TypeOK, NEW j \in Jobs, NEW e \in EventTypes, Emit(j, e)
  PROVE  events' \in [Jobs -> Seq(EventTypes)]
<1>1. Append(events[j], e) \in Seq(EventTypes)
  BY AppendProperties DEF TypeOK
<1> QED
  BY <1>1 DEF TypeOK, Emit

(* What creating a job changes, apart from its future. *)
Created(j) ==
  /\ submitted' \in Nat
  /\ born' \in [Jobs -> Nat] /\ born'[j] # 0
  /\ retained' \subseteq Jobs /\ j \in retained'
  /\ kind' \in [Jobs -> Kinds]
  /\ events' \in [Jobs -> Seq(EventTypes)]
  /\ \A i \in Jobs \ {j} : /\ born'[i] = born[i]
                           /\ i \in retained' => i \in retained
                           /\ kind'[i] = kind[i]

LEMMA CreateType ==
  ASSUME TypeOK, NEW j \in Jobs, NEW k \in Kinds, Create(j, k)
  PROVE  Created(j)
<1>1. submitted + 1 \in Nat \ {0}
  <2>1. submitted \in Nat
    BY DEF TypeOK
  <2> QED
    BY <2>1
<1>2. /\ submitted' = submitted + 1
      /\ born' = [born EXCEPT ![j] = submitted + 1]
      /\ retained' = (retained \ Evicted) \cup {j}
      /\ kind' = [kind EXCEPT ![j] = k]
      /\ Emit(j, "queued")
  BY DEF Create
<1>3. born' \in [Jobs -> Nat] /\ born'[j] # 0
      /\ \A i \in Jobs \ {j} : born'[i] = born[i]
  BY <1>1, <1>2 DEF TypeOK
<1>4. events' \in [Jobs -> Seq(EventTypes)]
  BY <1>2, EmitType DEF EventTypes, States
<1>5. kind' \in [Jobs -> Kinds]
      /\ \A i \in Jobs \ {j} : kind'[i] = kind[i]
  BY <1>2 DEF TypeOK
<1> QED
  BY <1>1, <1>2, <1>3, <1>4, <1>5 DEF TypeOK, Created

LEMMA StepType ==
  ASSUME worker \in Places, worker.at <= 5, Step
  PROVE  worker' \in Places
BY DEF Step, Place, Places

LEMMA OwnedInit == Init => Owned
BY JobAssumption DEF Init, Owned, TypeOK, FutureInv, WorkerInv, CallerInv,
   OutcomeBacked, Idle, Free, Calling, Kinds, States, Terminal, Places, Calls, Futures

(* The callers' steps. *)
LEMMA CallerOwned == Owned /\ Caller => Owned'
<1> SUFFICES ASSUME Owned, Caller PROVE Owned'
  OBVIOUS
<1> USE JobAssumption DEF Owned, jobVars, poolVars, Free, Calling
<1>1. CASE SubmitFull
  <2>1. TypeOK'
    BY <1>1 DEF SubmitFull, Asked, TypeOK, Calls, Futures, Terminal, States
  <2>2. FutureInv'
    BY <1>1 DEF SubmitFull, Asked, TypeOK, FutureInv, WorkerInv, CallerInv, Terminal
  <2>3. WorkerInv'
    BY <1>1 DEF SubmitFull, Asked, TypeOK, FutureInv, WorkerInv, CallerInv, Terminal
  <2>4. CallerInv'
    BY <1>1 DEF SubmitFull, Asked, TypeOK, FutureInv, CallerInv
  <2>5. OutcomeBacked'
    BY <1>1 DEF SubmitFull, Asked, TypeOK, FutureInv, CallerInv, OutcomeBacked
  <2> QED
    BY <2>1, <2>2, <2>3, <2>4, <2>5
<1>2. CASE SubmitCount
  <2>1. TypeOK'
    BY <1>2 DEF SubmitCount, Asked, TypeOK, Calls, Futures, Terminal, States
  <2>2. FutureInv'
    BY <1>2 DEF SubmitCount, Asked, TypeOK, FutureInv, WorkerInv, CallerInv, Terminal
  <2>3. WorkerInv'
    BY <1>2 DEF SubmitCount, Asked, TypeOK, FutureInv, WorkerInv, CallerInv, Terminal
  <2>4. CallerInv'
    BY <1>2 DEF SubmitCount, Asked, TypeOK, FutureInv, CallerInv
  <2>5. OutcomeBacked'
    BY <1>2 DEF SubmitCount, Asked, TypeOK, FutureInv, CallerInv, OutcomeBacked
  <2> QED
    BY <2>1, <2>2, <2>3, <2>4, <2>5
<1>3. CASE SubmitNoRoom
  <2>1. TypeOK'
    BY <1>3 DEF SubmitNoRoom, Evicted, TypeOK, Calls, Futures, Terminal, States
  <2>2. FutureInv'
    BY <1>3 DEF SubmitNoRoom, Evicted, TypeOK, FutureInv, WorkerInv, CallerInv, Terminal
  <2>3. WorkerInv'
    BY <1>3 DEF SubmitNoRoom, Evicted, TypeOK, FutureInv, WorkerInv, CallerInv, Terminal
  <2>4. CallerInv'
    BY <1>3 DEF SubmitNoRoom, Evicted, TypeOK, FutureInv, CallerInv
  <2>5. OutcomeBacked'
    BY <1>3 DEF SubmitNoRoom, Evicted, TypeOK, FutureInv, CallerInv, OutcomeBacked
  <2> QED
    BY <2>1, <2>2, <2>3, <2>4, <2>5
<1>4. ASSUME NEW j \in Jobs, NEW k \in Kinds, SubmitAccept(j, k) PROVE Owned'
  <2>a. Create(j, k)
    BY <1>4 DEF SubmitAccept
  <2>b. state[j] = "queued" /\ future[j] = "none"
    BY <2>a DEF Create, FutureInv
  <2>c. future' \in [Jobs -> Futures] /\ future'[j] = "pending"
          /\ \A i \in Jobs \ {j} : future'[i] = future[i]
    BY <1>4, <2>b DEF SubmitAccept, TypeOK, Futures
  <2>d. Created(j)
    BY <2>a, CreateType
  <2>e. loop' = Free /\ UNCHANGED <<state, cancelled, result, error, poolVars>>
    BY <2>a DEF Create
  <2>1. TypeOK'
    BY <2>c, <2>d, <2>e DEF Created, TypeOK, Calls
  <2>2. FutureInv'
    <3> SUFFICES ASSUME NEW i \in Jobs PROVE FutureInv!(i)'
      BY DEF FutureInv
    <3>1. CASE i = j
      BY <3>1, <2>b, <2>c, <2>d, <2>e DEF Created, FutureInv
    <3>2. CASE i # j
      <4>1. /\ born'[i] = born[i] /\ future'[i] = future[i]
            /\ i \in retained' => i \in retained
        BY <3>2, <2>c, <2>d DEF Created
      <4> QED
        BY <4>1, <2>e DEF FutureInv, poolVars
    <3> QED
      BY <3>1, <3>2
  <2>3. WorkerInv'
    BY <2>a, <2>b, <2>c, <2>d DEF Create, Created, FutureInv, WorkerInv
  <2>4. CallerInv'
    BY <2>a DEF Create, CallerInv
  <2>5. OutcomeBacked'
    BY <2>a DEF Create, OutcomeBacked
  <2> QED
    BY <2>1, <2>2, <2>3, <2>4, <2>5
<1>5. ASSUME NEW j \in Jobs, NEW k \in Kinds, SubmitClosed(j, k) PROVE Owned'
  <2>a. Create(j, k)
    BY <1>5 DEF SubmitClosed
  <2>b. state[j] = "queued" /\ future[j] = "none"
    BY <2>a DEF Create, FutureInv
  <2>c. future' \in [Jobs -> Futures] /\ future'[j] = "none"
          /\ \A i \in Jobs \ {j} : future'[i] = future[i]
    BY <1>5, <2>b DEF SubmitClosed, TypeOK, Futures
  <2>d. Created(j)
    BY <2>a, CreateType
  <2>e. loop' = Free /\ UNCHANGED <<state, cancelled, result, error, poolVars>>
    BY <2>a DEF Create
  <2>1. TypeOK'
    BY <2>c, <2>d, <2>e DEF Created, TypeOK, Calls
  <2>2. FutureInv'
    <3> SUFFICES ASSUME NEW i \in Jobs PROVE FutureInv!(i)'
      BY DEF FutureInv
    <3>1. CASE i = j
      BY <3>1, <2>b, <2>c, <2>d, <2>e DEF Created, FutureInv
    <3>2. CASE i # j
      <4>1. /\ born'[i] = born[i] /\ future'[i] = future[i]
            /\ i \in retained' => i \in retained
        BY <3>2, <2>c, <2>d DEF Created
      <4> QED
        BY <4>1, <2>e DEF FutureInv, poolVars
    <3> QED
      BY <3>1, <3>2
  <2>3. WorkerInv'
    BY <2>a, <2>b, <2>c, <2>d DEF Create, Created, FutureInv, WorkerInv
  <2>4. CallerInv'
    BY <2>a DEF Create, CallerInv
  <2>5. OutcomeBacked'
    BY <2>a DEF Create, OutcomeBacked
  <2> QED
    BY <2>1, <2>2, <2>3, <2>4, <2>5
<1>6. ASSUME NEW j \in Jobs, CancelFlag(j) PROVE Owned'
  <2>1. TypeOK'
    BY <1>6 DEF CancelFlag, TypeOK, Calls, Futures, Terminal, States
  <2>2. FutureInv'
    BY <1>6 DEF CancelFlag, TypeOK, FutureInv, WorkerInv, CallerInv, Terminal
  <2>3. WorkerInv'
    BY <1>6 DEF CancelFlag, TypeOK, FutureInv, WorkerInv, CallerInv, Terminal
  <2>4. CallerInv'
    BY <1>6 DEF CancelFlag, TypeOK, FutureInv, CallerInv
  <2>5. OutcomeBacked'
    BY <1>6 DEF CancelFlag, TypeOK, FutureInv, CallerInv, OutcomeBacked
  <2> QED
    BY <2>1, <2>2, <2>3, <2>4, <2>5
<1>7. CASE CancelTooLate
  <2>1. TypeOK'
    BY <1>7 DEF CancelTooLate, TypeOK, Calls, Futures, Terminal, States
  <2>2. FutureInv'
    BY <1>7 DEF CancelTooLate, TypeOK, FutureInv, WorkerInv, CallerInv, Terminal
  <2>3. WorkerInv'
    BY <1>7 DEF CancelTooLate, TypeOK, FutureInv, WorkerInv, CallerInv, Terminal
  <2>4. CallerInv'
    BY <1>7 DEF CancelTooLate, TypeOK, FutureInv, CallerInv
  <2>5. OutcomeBacked'
    BY <1>7 DEF CancelTooLate, TypeOK, FutureInv, CallerInv, OutcomeBacked
  <2> QED
    BY <2>1, <2>2, <2>3, <2>4, <2>5
<1>8. CASE CancelSettle
  <2>1. TypeOK'
    BY <1>8 DEF CancelSettle, TypeOK, Calls, Futures, Terminal, States
  <2>2. FutureInv'
    BY <1>8 DEF CancelSettle, TypeOK, FutureInv, WorkerInv, CallerInv, Terminal
  <2>3. WorkerInv'
    BY <1>8 DEF CancelSettle, TypeOK, FutureInv, WorkerInv, CallerInv, Terminal
  <2>4. CallerInv'
    BY <1>8 DEF CancelSettle, TypeOK, FutureInv, CallerInv
  <2>5. OutcomeBacked'
    <3>1. /\ loop.job \in cancelled /\ loop.job \notin result \cup error
          /\ UNCHANGED <<cancelled, result, error>>
          /\ state' = [state EXCEPT ![loop.job] = "cancelled"]
      BY <1>8 DEF CancelSettle, TypeOK, FutureInv, CallerInv
    <3>2. \A i \in Jobs : i # loop.job => state'[i] = state[i]
      BY <3>1 DEF TypeOK
    <3>3. loop.job \in Jobs => state'[loop.job] = "cancelled"
      BY <3>1 DEF TypeOK
    <3> QED
      BY <3>1, <3>2, <3>3 DEF OutcomeBacked
  <2> QED
    BY <2>1, <2>2, <2>3, <2>4, <2>5
<1>9. CASE CancelEmit
  <2>a. loop.job \in Jobs /\ "cancelled" \in EventTypes
    BY <1>9 DEF CancelEmit, TypeOK, CallerInv, EventTypes, States, Terminal
  <2>b. events' \in [Jobs -> Seq(EventTypes)]
    BY <1>9, <2>a, EmitType DEF CancelEmit
  <2>1. TypeOK'
    BY <1>9, <2>b DEF CancelEmit, TypeOK, Calls, Futures, Terminal, States
  <2>2. FutureInv'
    BY <1>9 DEF CancelEmit, TypeOK, FutureInv, WorkerInv, CallerInv, Terminal
  <2>3. WorkerInv'
    BY <1>9 DEF CancelEmit, TypeOK, FutureInv, WorkerInv, CallerInv, Terminal
  <2>4. CallerInv'
    BY <1>9 DEF CancelEmit, TypeOK, FutureInv, CallerInv
  <2>5. OutcomeBacked'
    BY <1>9 DEF CancelEmit, TypeOK, FutureInv, CallerInv, OutcomeBacked
  <2> QED
    BY <2>1, <2>2, <2>3, <2>4, <2>5
<1>10. ASSUME NEW j \in Jobs, DiscardActive(j) PROVE Owned'
  <2>1. TypeOK'
    BY <1>10 DEF DiscardActive, Settled, TypeOK, Calls, Futures, Terminal, States
  <2>2. FutureInv'
    BY <1>10 DEF DiscardActive, Settled, TypeOK, FutureInv, WorkerInv, CallerInv, Terminal
  <2>3. WorkerInv'
    BY <1>10 DEF DiscardActive, Settled, TypeOK, FutureInv, WorkerInv, CallerInv, Terminal
  <2>4. CallerInv'
    BY <1>10 DEF DiscardActive, Settled, TypeOK, FutureInv, CallerInv
  <2>5. OutcomeBacked'
    BY <1>10 DEF DiscardActive, Settled, TypeOK, FutureInv, CallerInv, OutcomeBacked
  <2> QED
    BY <2>1, <2>2, <2>3, <2>4, <2>5
<1>11. ASSUME NEW j \in Jobs, DiscardSettled(j) PROVE Owned'
  <2>1. TypeOK'
    BY <1>11 DEF DiscardSettled, Settled, TypeOK, Calls, Futures, Terminal, States
  <2>2. FutureInv'
    BY <1>11 DEF DiscardSettled, Settled, TypeOK, FutureInv, WorkerInv, CallerInv, Terminal
  <2>3. WorkerInv'
    BY <1>11 DEF DiscardSettled, Settled, TypeOK, FutureInv, WorkerInv, CallerInv, Terminal
  <2>4. CallerInv'
    BY <1>11 DEF DiscardSettled, Settled, TypeOK, FutureInv, CallerInv
  <2>5. OutcomeBacked'
    BY <1>11 DEF DiscardSettled, Settled, TypeOK, FutureInv, CallerInv, OutcomeBacked
  <2> QED
    BY <2>1, <2>2, <2>3, <2>4, <2>5
<1>12. CASE ShutdownFlag
  <2>1. TypeOK'
    BY <1>12 DEF ShutdownFlag, TypeOK, Calls, Futures, Terminal, States
  <2>2. FutureInv'
    BY <1>12 DEF ShutdownFlag, TypeOK, FutureInv, WorkerInv, CallerInv, Terminal
  <2>3. WorkerInv'
    BY <1>12 DEF ShutdownFlag, TypeOK, FutureInv, WorkerInv, CallerInv, Terminal
  <2>4. CallerInv'
    BY <1>12 DEF ShutdownFlag, TypeOK, FutureInv, CallerInv
  <2>5. OutcomeBacked'
    BY <1>12 DEF ShutdownFlag, TypeOK, FutureInv, CallerInv, OutcomeBacked
  <2> QED
    BY <2>1, <2>2, <2>3, <2>4, <2>5
<1>13. CASE ShutdownPool
  <2>1. TypeOK'
    BY <1>13 DEF ShutdownPool, TypeOK, Calls, Futures, Terminal, States
  <2>2. FutureInv'
    BY <1>13 DEF ShutdownPool, TypeOK, FutureInv, WorkerInv, CallerInv, Terminal
  <2>3. WorkerInv'
    BY <1>13 DEF ShutdownPool, TypeOK, FutureInv, WorkerInv, CallerInv, Terminal
  <2>4. CallerInv'
    BY <1>13 DEF ShutdownPool, TypeOK, FutureInv, CallerInv
  <2>5. OutcomeBacked'
    BY <1>13 DEF ShutdownPool, TypeOK, FutureInv, CallerInv, OutcomeBacked
  <2> QED
    BY <2>1, <2>2, <2>3, <2>4, <2>5
<1> QED
  BY <1>1, <1>2, <1>3, <1>4, <1>5, <1>6, <1>7, <1>8, <1>9, <1>10, <1>11, <1>12, <1>13 DEF Caller, Locked, Insert

(* The worker's steps. *)
LEMMA WorkerOwned == Owned /\ Worker => Owned'
<1> SUFFICES ASSUME Owned, Worker PROVE Owned'
  OBVIOUS
<1> USE JobAssumption DEF Owned, Unseen
<1>0. worker.pc # "idle" =>
        /\ Len(Program[kind[worker.job]]) = 5
        /\ worker.at <= 5 => Here \in Working \cup Callback \cup {"self_test"}
  <2> SUFFICES ASSUME worker.pc # "idle"
               PROVE  /\ Len(Program[kind[worker.job]]) = 5
                      /\ worker.at <= 5 =>
                           Here \in Working \cup Callback \cup {"self_test"}
    OBVIOUS
  <2>1. kind[worker.job] \in Kinds /\ worker.at \in 1..6
    BY DEF TypeOK, WorkerInv, Places
  <2> QED
    BY <2>1, ProgramType DEF Here
<1>1. ASSUME NEW j \in Jobs, WorkerTake(j) PROVE Owned'
  <2>c. worker' \in Places
    BY <1>1 DEF WorkerTake, Doing, Places, Terminal
  <2>1. TypeOK'
    BY <1>0, <1>1, <2>c DEF WorkerTake, Doing, TypeOK, Futures, WorkerInv, Terminal, States
  <2>2. FutureInv'
    BY <1>0, <1>1 DEF WorkerTake, Doing, TypeOK, Futures, Places, FutureInv, WorkerInv, Terminal
  <2>3. WorkerInv'
    BY <1>0, <1>1, <2>c DEF WorkerTake, Doing, TypeOK, Futures, Places, FutureInv, WorkerInv, Working, Terminal
  <2>4. CallerInv'
    BY <1>0, <1>1 DEF WorkerTake, Doing, TypeOK, CallerInv, WorkerInv
  <2>5. OutcomeBacked'
    BY <1>0, <1>1 DEF WorkerTake, Doing, TypeOK, FutureInv, WorkerInv, OutcomeBacked, Working, Terminal
  <2> QED
    BY <2>1, <2>2, <2>3, <2>4, <2>5
<1>2. CASE WorkerCancelled
  <2>c. worker' \in Places
    BY <1>2 DEF WorkerCancelled, CheckPoint, AtStep, Doing, End, Place, Places, Terminal, TypeOK
  <2>1. TypeOK'
    BY <1>0, <1>2, <2>c DEF WorkerCancelled, CheckPoint, AtStep, Doing, End, Place, TypeOK, Futures, WorkerInv, Terminal, States
  <2>2. FutureInv'
    BY <1>0, <1>2 DEF WorkerCancelled, CheckPoint, AtStep, Doing, End, Place, TypeOK, Futures, Places, FutureInv, WorkerInv, Terminal
  <2>3. WorkerInv'
    BY <1>0, <1>2, <2>c DEF WorkerCancelled, CheckPoint, AtStep, Doing, End, Place, TypeOK, Futures, Places, FutureInv, WorkerInv, Working, Terminal
  <2>4. CallerInv'
    BY <1>0, <1>2 DEF WorkerCancelled, CheckPoint, AtStep, Doing, End, Place, TypeOK, CallerInv, WorkerInv
  <2>5. OutcomeBacked'
    BY <1>0, <1>2 DEF WorkerCancelled, CheckPoint, AtStep, Doing, End, Place, TypeOK, FutureInv, WorkerInv, OutcomeBacked, Working, Terminal
  <2> QED
    BY <2>1, <2>2, <2>3, <2>4, <2>5
<1>3. CASE WorkerBegin
  <2>c. worker' \in Places
    BY <1>3 DEF WorkerBegin, Doing, Goto, Place, Places, Terminal, TypeOK
  <2>1. TypeOK'
    BY <1>0, <1>3, <2>c DEF WorkerBegin, Doing, Goto, Place, TypeOK, Futures, WorkerInv, Terminal, States
  <2>2. FutureInv'
    BY <1>0, <1>3 DEF WorkerBegin, Doing, Goto, Place, TypeOK, Futures, Places, FutureInv, WorkerInv, Terminal
  <2>3. WorkerInv'
    BY <1>0, <1>3, <2>c DEF WorkerBegin, Doing, Goto, Place, TypeOK, Futures, Places, FutureInv, WorkerInv, Working, Terminal
  <2>4. CallerInv'
    BY <1>0, <1>3 DEF WorkerBegin, Doing, Goto, Place, TypeOK, CallerInv, WorkerInv
  <2>5. OutcomeBacked'
    BY <1>0, <1>3 DEF WorkerBegin, Doing, Goto, Place, TypeOK, FutureInv, WorkerInv, OutcomeBacked, Working, Terminal
  <2> QED
    BY <2>1, <2>2, <2>3, <2>4, <2>5
<1>4. CASE WorkerWrite
  <2>c. worker' \in Places
    BY <1>4 DEF WorkerWrite, AtStep, Doing, Goto, Place, Places, Terminal, TypeOK
  <2>1. TypeOK'
    BY <1>0, <1>4, <2>c DEF WorkerWrite, AtStep, Doing, Goto, Place, TypeOK, Futures, WorkerInv, Terminal, States
  <2>2. FutureInv'
    BY <1>0, <1>4 DEF WorkerWrite, AtStep, Doing, Goto, Place, TypeOK, Futures, Places, FutureInv, WorkerInv, Terminal
  <2>3. WorkerInv'
    <3>1. /\ worker.pc = "work" /\ worker.job \in Jobs /\ worker.at <= 5
          /\ Here \in Working /\ worker.job \notin result \cup error
          /\ future[worker.job] = "running"
      BY <1>0, <1>4 DEF WorkerWrite, AtStep, Doing, WorkerInv
    <3>2. /\ state' = [state EXCEPT ![worker.job] = Here]
          /\ worker' = [pc |-> "announce", job |-> worker.job, at |-> worker.at,
                         outcome |-> worker.outcome]
          /\ UNCHANGED <<result, error, future>>
      BY <1>4 DEF WorkerWrite, Goto, Place
    <3>3. worker'.pc = "announce" /\ worker'.job = worker.job /\ worker'.at = worker.at
      BY <3>2
    <3>4. state'[worker.job] \notin Terminal
      BY <3>1, <3>2 DEF TypeOK, Working, Terminal
    <3> QED
      BY <3>1, <3>2, <3>3, <3>4 DEF WorkerInv
  <2>4. CallerInv'
    BY <1>0, <1>4 DEF WorkerWrite, AtStep, Doing, Goto, Place, TypeOK, CallerInv, WorkerInv
  <2>5. OutcomeBacked'
    BY <1>0, <1>4 DEF WorkerWrite, AtStep, Doing, Goto, Place, TypeOK, FutureInv, WorkerInv, OutcomeBacked, Working, Terminal
  <2> QED
    BY <2>1, <2>2, <2>3, <2>4, <2>5
<1>5. CASE WorkerAnnounce
  <2>a. worker.job \in Jobs /\ Here \in EventTypes
    BY <1>0, <1>5 DEF WorkerAnnounce, Doing, Step, Place, WorkerInv, EventTypes, States
  <2>b. events' \in [Jobs -> Seq(EventTypes)]
    BY <1>5, <2>a, EmitType DEF WorkerAnnounce, Doing, Step, Place
  <2>d. worker \in Places /\ worker.at <= 5 /\ Step
    BY <1>0, <1>5 DEF WorkerAnnounce, Doing, TypeOK, WorkerInv
  <2>c. worker' \in Places
    BY <2>d, StepType
  <2>1. TypeOK'
    BY <1>0, <1>5, <2>b, <2>c DEF WorkerAnnounce, Doing, Step, Place, TypeOK, Futures, WorkerInv, Terminal, States
  <2>2. FutureInv'
    BY <1>0, <1>5 DEF WorkerAnnounce, Doing, Step, Place, TypeOK, Futures, Places, FutureInv, WorkerInv, Terminal
  <2>3. WorkerInv'
    BY <1>0, <1>5, <2>c DEF WorkerAnnounce, Doing, Step, Place, TypeOK, Futures, Places, FutureInv, WorkerInv, Working, Terminal
  <2>4. CallerInv'
    BY <1>0, <1>5 DEF WorkerAnnounce, Doing, Step, Place, TypeOK, CallerInv, WorkerInv
  <2>5. OutcomeBacked'
    BY <1>0, <1>5 DEF WorkerAnnounce, Doing, Step, Place, TypeOK, FutureInv, WorkerInv, OutcomeBacked, Working, Terminal
  <2> QED
    BY <2>1, <2>2, <2>3, <2>4, <2>5
<1>6. CASE WorkerSelfTest
  <2>a. worker.job \in Jobs /\ Here \in EventTypes
    BY <1>0, <1>6 DEF WorkerSelfTest, AtStep, Doing, Step, Place, WorkerInv, EventTypes, States
  <2>b. events' \in [Jobs -> Seq(EventTypes)]
    BY <1>6, <2>a, EmitType DEF WorkerSelfTest, AtStep, Doing, Step, Place
  <2>d. worker \in Places /\ worker.at <= 5 /\ Step
    BY <1>0, <1>6 DEF WorkerSelfTest, AtStep, Doing, TypeOK, WorkerInv
  <2>c. worker' \in Places
    BY <2>d, StepType
  <2>1. TypeOK'
    BY <1>0, <1>6, <2>b, <2>c DEF WorkerSelfTest, AtStep, Doing, Step, Place, TypeOK, Futures, WorkerInv, Terminal, States
  <2>2. FutureInv'
    BY <1>0, <1>6 DEF WorkerSelfTest, AtStep, Doing, Step, Place, TypeOK, Futures, Places, FutureInv, WorkerInv, Terminal
  <2>3. WorkerInv'
    BY <1>0, <1>6, <2>c DEF WorkerSelfTest, AtStep, Doing, Step, Place, TypeOK, Futures, Places, FutureInv, WorkerInv, Working, Terminal
  <2>4. CallerInv'
    BY <1>0, <1>6 DEF WorkerSelfTest, AtStep, Doing, Step, Place, TypeOK, CallerInv, WorkerInv
  <2>5. OutcomeBacked'
    BY <1>0, <1>6 DEF WorkerSelfTest, AtStep, Doing, Step, Place, TypeOK, FutureInv, WorkerInv, OutcomeBacked, Working, Terminal
  <2> QED
    BY <2>1, <2>2, <2>3, <2>4, <2>5
<1>7. CASE CallbackCheck
  <2>c. worker' \in Places
    BY <1>7 DEF CallbackCheck, AtStep, Doing, Goto, Place, Places, Terminal, TypeOK
  <2>1. TypeOK'
    BY <1>0, <1>7, <2>c DEF CallbackCheck, AtStep, Doing, Goto, Place, TypeOK, Futures, WorkerInv, Terminal, States
  <2>2. FutureInv'
    BY <1>0, <1>7 DEF CallbackCheck, AtStep, Doing, Goto, Place, TypeOK, Futures, Places, FutureInv, WorkerInv, Terminal
  <2>3. WorkerInv'
    BY <1>0, <1>7, <2>c DEF CallbackCheck, AtStep, Doing, Goto, Place, TypeOK, Futures, Places, FutureInv, WorkerInv, Working, Terminal
  <2>4. CallerInv'
    BY <1>0, <1>7 DEF CallbackCheck, AtStep, Doing, Goto, Place, TypeOK, CallerInv, WorkerInv
  <2>5. OutcomeBacked'
    BY <1>0, <1>7 DEF CallbackCheck, AtStep, Doing, Goto, Place, TypeOK, FutureInv, WorkerInv, OutcomeBacked, Working, Terminal
  <2> QED
    BY <2>1, <2>2, <2>3, <2>4, <2>5
<1>8. CASE CallbackEmit
  <2>a. worker.job \in Jobs /\ Here \in EventTypes
    BY <1>0, <1>8 DEF CallbackEmit, Doing, Goto, Place, WorkerInv, EventTypes, States
  <2>b. events' \in [Jobs -> Seq(EventTypes)]
    BY <1>8, <2>a, EmitType DEF CallbackEmit, Doing, Goto, Place
  <2>c. worker' \in Places
    BY <1>8 DEF CallbackEmit, Doing, Goto, Place, Places, Terminal, TypeOK
  <2>1. TypeOK'
    BY <1>0, <1>8, <2>b, <2>c DEF CallbackEmit, Doing, Goto, Place, TypeOK, Futures, WorkerInv, Terminal, States
  <2>2. FutureInv'
    BY <1>0, <1>8 DEF CallbackEmit, Doing, Goto, Place, TypeOK, Futures, Places, FutureInv, WorkerInv, Terminal
  <2>3. WorkerInv'
    BY <1>0, <1>8, <2>c DEF CallbackEmit, Doing, Goto, Place, TypeOK, Futures, Places, FutureInv, WorkerInv, Working, Terminal
  <2>4. CallerInv'
    BY <1>0, <1>8 DEF CallbackEmit, Doing, Goto, Place, TypeOK, CallerInv, WorkerInv
  <2>5. OutcomeBacked'
    BY <1>0, <1>8 DEF CallbackEmit, Doing, Goto, Place, TypeOK, FutureInv, WorkerInv, OutcomeBacked, Working, Terminal
  <2> QED
    BY <2>1, <2>2, <2>3, <2>4, <2>5
<1>9. CASE CallbackLast
  <2>d. worker \in Places /\ worker.at <= 5 /\ Step
    BY <1>0, <1>9 DEF CallbackLast, AtStep, Doing, TypeOK, WorkerInv
  <2>c. worker' \in Places
    BY <2>d, StepType
  <2>1. TypeOK'
    BY <1>0, <1>9, <2>c DEF CallbackLast, AtStep, Doing, Step, Place, TypeOK, Futures, WorkerInv, Terminal, States
  <2>2. FutureInv'
    BY <1>0, <1>9 DEF CallbackLast, AtStep, Doing, Step, Place, TypeOK, Futures, Places, FutureInv, WorkerInv, Terminal
  <2>3. WorkerInv'
    BY <1>0, <1>9, <2>c DEF CallbackLast, AtStep, Doing, Step, Place, TypeOK, Futures, Places, FutureInv, WorkerInv, Working, Terminal
  <2>4. CallerInv'
    BY <1>0, <1>9 DEF CallbackLast, AtStep, Doing, Step, Place, TypeOK, CallerInv, WorkerInv
  <2>5. OutcomeBacked'
    BY <1>0, <1>9 DEF CallbackLast, AtStep, Doing, Step, Place, TypeOK, FutureInv, WorkerInv, OutcomeBacked, Working, Terminal
  <2> QED
    BY <2>1, <2>2, <2>3, <2>4, <2>5
<1>10. CASE WorkerRaise
  <2>c. worker' \in Places
    BY <1>10 DEF WorkerRaise, Doing, End, Place, Places, Terminal, TypeOK
  <2>1. TypeOK'
    BY <1>0, <1>10, <2>c DEF WorkerRaise, Doing, End, Place, TypeOK, Futures, WorkerInv, Terminal, States
  <2>2. FutureInv'
    BY <1>0, <1>10 DEF WorkerRaise, Doing, End, Place, TypeOK, Futures, Places, FutureInv, WorkerInv, Terminal
  <2>3. WorkerInv'
    BY <1>0, <1>10, <2>c DEF WorkerRaise, Doing, End, Place, TypeOK, Futures, Places, FutureInv, WorkerInv, Working, Terminal
  <2>4. CallerInv'
    BY <1>0, <1>10 DEF WorkerRaise, Doing, End, Place, TypeOK, CallerInv, WorkerInv
  <2>5. OutcomeBacked'
    BY <1>0, <1>10 DEF WorkerRaise, Doing, End, Place, TypeOK, FutureInv, WorkerInv, OutcomeBacked, Working, Terminal
  <2> QED
    BY <2>1, <2>2, <2>3, <2>4, <2>5
<1>11. CASE WorkerReturn
  <2>c. worker' \in Places
    BY <1>11 DEF WorkerReturn, Doing, Goto, Place, Places, Terminal, TypeOK
  <2>1. TypeOK'
    BY <1>0, <1>11, <2>c DEF WorkerReturn, Doing, Goto, Place, TypeOK, Futures, WorkerInv, Terminal, States
  <2>2. FutureInv'
    BY <1>0, <1>11 DEF WorkerReturn, Doing, Goto, Place, TypeOK, Futures, Places, FutureInv, WorkerInv, Terminal
  <2>3. WorkerInv'
    BY <1>0, <1>11, <2>c DEF WorkerReturn, Doing, Goto, Place, TypeOK, Futures, Places, FutureInv, WorkerInv, Working, Terminal
  <2>4. CallerInv'
    BY <1>0, <1>11 DEF WorkerReturn, Doing, Goto, Place, TypeOK, CallerInv, WorkerInv
  <2>5. OutcomeBacked'
    BY <1>0, <1>11 DEF WorkerReturn, Doing, Goto, Place, TypeOK, FutureInv, WorkerInv, OutcomeBacked, Working, Terminal
  <2> QED
    BY <2>1, <2>2, <2>3, <2>4, <2>5
<1>12. CASE WorkerComplete
  <2>c. worker' \in Places
    BY <1>12 DEF WorkerComplete, Doing, End, Place, Places, Terminal, TypeOK
  <2>1. TypeOK'
    BY <1>0, <1>12, <2>c DEF WorkerComplete, Doing, End, Place, TypeOK, Futures, WorkerInv, Terminal, States
  <2>2. FutureInv'
    BY <1>0, <1>12 DEF WorkerComplete, Doing, End, Place, TypeOK, Futures, Places, FutureInv, WorkerInv, Terminal
  <2>3. WorkerInv'
    BY <1>0, <1>12, <2>c DEF WorkerComplete, Doing, End, Place, TypeOK, Futures, Places, FutureInv, WorkerInv, Working, Terminal
  <2>4. CallerInv'
    BY <1>0, <1>12 DEF WorkerComplete, Doing, End, Place, TypeOK, CallerInv, WorkerInv
  <2>5. OutcomeBacked'
    BY <1>0, <1>12 DEF WorkerComplete, Doing, End, Place, TypeOK, FutureInv, WorkerInv, OutcomeBacked, Working, Terminal
  <2> QED
    BY <2>1, <2>2, <2>3, <2>4, <2>5
<1>13. CASE WorkerSettle
  <2>c. worker' \in Places
    BY <1>13 DEF WorkerSettle, Doing, Goto, Place, Places, Terminal, TypeOK
  <2>1. TypeOK'
    BY <1>0, <1>13, <2>c DEF WorkerSettle, Doing, Goto, Place, TypeOK, Futures, WorkerInv, Terminal, States
  <2>2. FutureInv'
    BY <1>0, <1>13 DEF WorkerSettle, Doing, Goto, Place, TypeOK, Futures, Places, FutureInv, WorkerInv, Terminal
  <2>3. WorkerInv'
    BY <1>0, <1>13, <2>c DEF WorkerSettle, Doing, Goto, Place, TypeOK, Futures, Places, FutureInv, WorkerInv, Working, Terminal
  <2>4. CallerInv'
    BY <1>0, <1>13 DEF WorkerSettle, Doing, Goto, Place, TypeOK, CallerInv, WorkerInv
  <2>5. OutcomeBacked'
    BY <1>0, <1>13 DEF WorkerSettle, Doing, Goto, Place, TypeOK, FutureInv, WorkerInv, OutcomeBacked, Working, Terminal
  <2> QED
    BY <2>1, <2>2, <2>3, <2>4, <2>5
<1>14. CASE WorkerPublish
  <2>a. worker.job \in Jobs /\ worker.outcome \in EventTypes
    BY <1>14 DEF WorkerPublish, Doing, Idle, WorkerInv, EventTypes, States
  <2>b. events' \in [Jobs -> Seq(EventTypes)]
    BY <1>14, <2>a, EmitType DEF WorkerPublish, Doing, Idle
  <2>c. worker' \in Places
    BY <1>14 DEF WorkerPublish, Doing, Idle, Places, Terminal
  <2>1. TypeOK'
    BY <1>0, <1>14, <2>b, <2>c DEF WorkerPublish, Doing, Idle, TypeOK, Futures, WorkerInv, Terminal, States
  <2>2. FutureInv'
    <3>1. /\ worker.job \in Jobs /\ future[worker.job] = "running"
          /\ state[worker.job] \in Terminal
      BY <1>0, <1>14 DEF WorkerPublish, Doing, WorkerInv
    <3>2. /\ UNCHANGED <<born, retained, cancelled, state, result, error>>
          /\ future'[worker.job] = "finished"
          /\ \A i \in Jobs \ {worker.job} : future'[i] = future[i]
      BY <1>14, <3>1 DEF WorkerPublish, Unseen, TypeOK
    <3>3. \A i \in Jobs \ {worker.job} : future[i] # "running"
      BY <1>0, <1>14 DEF WorkerPublish, Doing, FutureInv
    <3>4. born[worker.job] # 0
      BY <3>1 DEF FutureInv
    <3> QED
      BY <3>1, <3>2, <3>3, <3>4 DEF FutureInv
  <2>3. WorkerInv'
    BY <1>0, <1>14, <2>c DEF WorkerPublish, Doing, Idle, TypeOK, Futures, Places, FutureInv, WorkerInv, Working, Terminal
  <2>4. CallerInv'
    BY <1>0, <1>14 DEF WorkerPublish, Doing, Idle, TypeOK, CallerInv, WorkerInv
  <2>5. OutcomeBacked'
    BY <1>0, <1>14 DEF WorkerPublish, Doing, Idle, TypeOK, FutureInv, WorkerInv, OutcomeBacked, Working, Terminal
  <2> QED
    BY <2>1, <2>2, <2>3, <2>4, <2>5
<1> QED
  BY <1>1, <1>2, <1>3, <1>4, <1>5, <1>6, <1>7, <1>8, <1>9, <1>10, <1>11, <1>12, <1>13, <1>14 DEF Worker

LEMMA NextOwned == Owned /\ [Next]_vars => Owned'
<1> SUFFICES ASSUME Owned, [Next]_vars PROVE Owned'
  OBVIOUS
<1>1. CASE UNCHANGED vars
  <2>1. TypeOK'
    BY <1>1 DEF vars, jobVars, poolVars, Owned, TypeOK
  <2>2. FutureInv'
    BY <1>1 DEF vars, jobVars, poolVars, Owned, FutureInv
  <2>3. WorkerInv'
    BY <1>1 DEF vars, jobVars, poolVars, Owned, WorkerInv
  <2>4. CallerInv' /\ OutcomeBacked'
    BY <1>1 DEF vars, jobVars, poolVars, Owned, CallerInv, OutcomeBacked
  <2> QED
    BY <2>1, <2>2, <2>3, <2>4 DEF Owned
<1> QED
  BY <1>1, CallerOwned, WorkerOwned DEF Next

(* The job manager's state is always well formed: the strengthening Owned  *)
(* is inductive (web/jobs.py as a whole).                                  *)
THEOREM TypeCorrect == Spec => []TypeOK
<1>1. Init => Owned
  BY OwnedInit
<1>2. Owned /\ [Next]_vars => Owned'
  BY NextOwned
<1>3. Owned => TypeOK
  BY DEF Owned
<1> QED
  BY <1>1, <1>2, <1>3, PTL DEF Spec

(* Owned holds of every reachable state; the theorems below rest on it. *)
THEOREM AlwaysOwned == Spec => []Owned
BY OwnedInit, NextOwned, PTL DEF Spec

(* A reported outcome is backed, whatever raced with it: a complete job    *)
(* has its result, a failed one its error, a cancelled one was flagged     *)
(* (_run, cancel and public of web/jobs.py).                               *)
THEOREM OutcomesBacked == Spec => []OutcomeBacked
<1>1. Owned => OutcomeBacked
  BY DEF Owned
<1> QED
  BY <1>1, AlwaysOwned, PTL

(* MLX access is serialised for any number of jobs: a job in a working     *)
(* state is the one the executor's single thread is running.               *)
THEOREM MLXSerialised == Spec => []ModelSerialised
<1>1. Owned => ModelSerialised
  <2> SUFFICES ASSUME Owned, NEW j \in Jobs, state[j] \in Working
               PROVE  worker.pc # "idle" /\ worker.job = j
    BY DEF ModelSerialised
  <2>1. future[j] = "running"
    BY DEF Owned, FutureInv, TypeOK, Futures, Working, Terminal
  <2> QED
    BY <2>1 DEF Owned, FutureInv
<1> QED
  BY <1>1, AlwaysOwned, PTL

-----------------------------------------------------------------------------
(* What a step may never do *)

(* Cancel finds the future of a settled job finished or cancelled, and the *)
(* worker only writes the job it owns, which is not settled before its     *)
(* last transition.                                                        *)
LEMMA SettledStep ==
  Owned /\ [Next]_vars => \A j \in Jobs : Settled(j) => Unchanging(j)
<1> SUFFICES ASSUME Owned, [Next]_vars, NEW j \in Jobs, Settled(j)
             PROVE  /\ state'[j] = state[j]
                    /\ (j \in result) = (j \in result')
                    /\ (j \in error) = (j \in error')
  BY DEF Unchanging
<1>1. CASE UNCHANGED <<state, result, error>>
  BY <1>1
<1>2. CASE CancelSettle
  <2>1. state[loop.job] \in {"queued", "cancelled"} /\ loop.job \in Jobs
    BY <1>2 DEF CancelSettle, Owned, CallerInv, FutureInv, TypeOK
  <2> QED
    BY <1>2, <2>1 DEF CancelSettle, Owned, TypeOK, Settled, Terminal
<1>3. CASE WorkerWrite \/ WorkerRaise \/ WorkerComplete \/ WorkerSettle
  <2>1. worker.job # j
    BY <1>3 DEF WorkerWrite, WorkerRaise, WorkerComplete, WorkerSettle,
       AtStep, Doing, Owned, WorkerInv, Settled
  <2> QED
    <3>1. /\ \/ state' = state
             \/ \E s : state' = [state EXCEPT ![worker.job] = s]
          /\ result' \in {result, result \cup {worker.job}}
          /\ error' \in {error, error \cup {worker.job}}
      BY <1>3 DEF WorkerWrite, WorkerRaise, WorkerComplete, WorkerSettle
    <3>2. state'[j] = state[j]
      BY <2>1, <3>1 DEF Owned, TypeOK
    <3>3. (j \in result) = (j \in result')
      BY <2>1, <3>1
    <3>4. (j \in error) = (j \in error')
      BY <2>1, <3>1
    <3> QED
      BY <3>2, <3>3, <3>4
<1>4. CASE Caller
  BY <1>1, <1>2, <1>4 DEF Caller, Locked, Insert, SubmitFull, SubmitCount,
     SubmitNoRoom, SubmitAccept, SubmitClosed, Create, CancelFlag,
     CancelTooLate, CancelEmit, DiscardActive, DiscardSettled, ShutdownFlag,
     ShutdownPool, jobVars
<1>5. CASE Worker
  BY <1>1, <1>3, <1>5 DEF Worker, WorkerTake, WorkerCancelled, WorkerBegin,
     WorkerAnnounce, WorkerSelfTest, CallbackCheck, CallbackEmit,
     CallbackLast, WorkerReturn, WorkerPublish
<1> QED
  BY <1>1, <1>4, <1>5 DEF Next, vars, jobVars

(* A settled job never changes again, whoever calls cancel or discard and  *)
(* whenever (cancel, discard and _run of web/jobs.py).                     *)
THEOREM SettledForGood == Spec => TerminalStable
<1>1. Owned /\ [Next]_vars =>
        [\A j \in Jobs : Settled(j) => Unchanging(j)]_vars
  BY SettledStep
<1> QED
  BY <1>1, AlwaysOwned, PTL DEF Spec, TerminalStable

(* What trimming takes is settled and older than the settled jobs it       *)
(* leaves, and it takes nothing from a history with room.                  *)
LEMMA OldestGo ==
  ASSUME TypeOK, NEW j \in Evicted
  PROVE  /\ Settled(j)
         /\ Cardinality(retained) >= MaxJobs
         /\ \A i \in retained \ Evicted : Settled(i) => born[j] < born[i]
<1> DEFINE done == {i \in retained : Settled(i)}
           older(i) == {x \in done : born[x] < born[i]}
<1>1. /\ j \in done
      /\ Cardinality(older(j)) <= Cardinality(retained) - MaxJobs
  BY DEF Evicted
<1>2. /\ IsFiniteSet(retained) /\ Cardinality(retained) \in Nat
      /\ MaxJobs \in Nat
  BY JobAssumption, FS_Subset, FS_CardinalityType DEF TypeOK
<1>3. \A i \in done : IsFiniteSet(older(i)) /\ Cardinality(older(i)) \in Nat
  <2> SUFFICES ASSUME NEW i \in done
               PROVE  IsFiniteSet(older(i)) /\ Cardinality(older(i)) \in Nat
    OBVIOUS
  <2>1. older(i) \subseteq retained
    OBVIOUS
  <2> QED
    BY <2>1, <1>2, FS_Subset, FS_CardinalityType
<1>4. Cardinality(retained) >= MaxJobs
  <2> HIDE DEF older, done
  <2>1. PICK n \in Nat, m \in Nat, k \in Nat :
          n = Cardinality(older(j)) /\ m = Cardinality(retained) /\ k = MaxJobs
    BY <1>1, <1>2, <1>3
  <2>2. n <= m - k
    BY <1>1, <2>1
  <2> QED
    BY <2>1, <2>2
<1>5. ASSUME NEW i \in retained \ Evicted, Settled(i), ~(born[j] < born[i])
      PROVE  FALSE
  <2>1. i \in done
    BY <1>5
  <2>2. older(i) \subseteq older(j)
    <3> SUFFICES ASSUME NEW x \in done, born[x] < born[i]
                 PROVE  born[x] < born[j]
      OBVIOUS
    <3>1. born[x] \in Nat /\ born[i] \in Nat /\ born[j] \in Nat
      BY <1>1, <2>1 DEF TypeOK
    <3> QED
      BY <3>1, <1>5
  <2>3. Cardinality(older(i)) <= Cardinality(older(j))
    BY <2>2, <1>1, <1>3, FS_Subset
  <2>4. ~(Cardinality(older(i)) <= Cardinality(retained) - MaxJobs)
    BY <2>1, <1>5 DEF Evicted
  <2> HIDE DEF older, done
  <2>5. PICK n \in Nat, o \in Nat, m \in Nat, k \in Nat :
          /\ n = Cardinality(older(j)) /\ o = Cardinality(older(i))
          /\ m = Cardinality(retained) /\ k = MaxJobs
    BY <1>1, <1>2, <1>3, <2>1
  <2>6. n <= m - k /\ o <= n /\ ~(o <= m - k)
    BY <1>1, <2>3, <2>4, <2>5
  <2> QED
    BY <2>5, <2>6
<1> QED
  BY <1>1, <1>4, <1>5

(* Trimming and discarding only ever forget settled jobs, and trimming the *)
(* oldest of them in a full history (_trim_locked and discard).            *)
THEOREM UnsettledKept == Spec => ActiveKept
<1> DEFINE Forgotten(j) ==
             /\ Settled(j)
             /\ loop.pc = "insert" =>
                  /\ Cardinality(retained) >= MaxJobs
                  /\ \A i \in retained \cap retained' :
                       Settled(i) => born[j] < born[i]
<1>1. Owned /\ [Next]_vars => [\A j \in retained \ retained' : Forgotten(j)]_vars
  <2> SUFFICES ASSUME Owned, Next, NEW j \in retained \ retained'
               PROVE  Forgotten(j)
    OBVIOUS
  <2>0. TypeOK /\ FutureInv
    BY DEF Owned
  <2>1. ASSUME j \in Evicted, retained \cap retained' \subseteq retained \ Evicted
        PROVE  Forgotten(j)
    BY <2>0, <2>1, OldestGo
  <2>2. CASE SubmitNoRoom
    BY <2>1, <2>2 DEF SubmitNoRoom
  <2>3. ASSUME NEW i \in Jobs, NEW k \in Kinds, Create(i, k)
        PROVE  Forgotten(j)
    <3>1. retained' = (retained \ Evicted) \cup {i} /\ i \notin retained
      BY <2>0, <2>3 DEF Create, FutureInv
    <3> QED
      BY <3>1, <2>1
  <2>4. CASE \E i \in Jobs, k \in Kinds : SubmitAccept(i, k) \/ SubmitClosed(i, k)
    BY <2>3, <2>4 DEF SubmitAccept, SubmitClosed
  <2>5. CASE \E i \in Jobs : DiscardSettled(i)
    BY <2>5 DEF DiscardSettled, Free, Calling
  <2>6. CASE retained' = retained
    BY <2>6
  <2>7. CASE Worker
    BY <2>6, <2>7 DEF Worker, WorkerTake, WorkerCancelled, WorkerBegin, WorkerWrite,
       WorkerAnnounce, WorkerSelfTest, CallbackCheck, CallbackEmit,
       CallbackLast, WorkerRaise, WorkerReturn, WorkerComplete, WorkerSettle,
       WorkerPublish, Unseen
  <2>8. CASE Caller
    BY <2>2, <2>4, <2>5, <2>6, <2>8 DEF Caller, Locked, Insert, SubmitFull,
       SubmitCount, CancelFlag, CancelTooLate, CancelSettle, CancelEmit,
       DiscardActive, ShutdownFlag, ShutdownPool
  <2> QED
    BY <2>7, <2>8 DEF Next
<1> QED
  BY <1>1, AlwaysOwned, PTL DEF Spec, ActiveKept

-----------------------------------------------------------------------------
(* The limits of the history *)

(* submit has counted fewer than MaxPending unsettled jobs, and until it   *)
(* inserts the new one the worker can only settle more of them.            *)
Limited ==
  /\ TypeOK
  /\ HistoryBounded
  /\ loop.pc = "insert" => Cardinality(Active) < MaxPending

LEMMA FiniteHistory ==
  ASSUME TypeOK
  PROVE  /\ IsFiniteSet(retained) /\ Cardinality(retained) \in Nat
         /\ IsFiniteSet(Active) /\ Cardinality(Active) \in Nat
         /\ Cardinality(Active) <= Cardinality(retained)
<1>1. IsFiniteSet(retained)
  BY FS_Subset, JobAssumption DEF TypeOK
<1> QED
  BY <1>1, FS_Subset, FS_CardinalityType DEF Active

LEMMA OneMore ==
  ASSUME NEW S, IsFiniteSet(S), NEW x
  PROVE  /\ Cardinality(S \cup {x}) \in Nat /\ Cardinality(S) \in Nat
         /\ Cardinality(S \cup {x}) <= Cardinality(S) + 1
         /\ IsFiniteSet(S \cup {x})
<1>1. /\ Cardinality(S) \in Nat
      /\ IsFiniteSet(S \cup {x})
      /\ Cardinality(S \cup {x}) \in Nat
  BY FS_AddElement, FS_CardinalityType
<1>2. \/ Cardinality(S \cup {x}) = Cardinality(S)
      \/ Cardinality(S \cup {x}) = Cardinality(S) + 1
  BY FS_AddElement
<1> QED
  BY <1>1, <1>2

(* A step that retains no more jobs and unsettles none keeps the limits. *)
LEMMA LimitsKept ==
  ASSUME Limited, TypeOK', retained' \subseteq retained,
         \A j \in retained : Settled(j) => Settled(j)',
         loop'.pc = "insert" => Cardinality(Active) < MaxPending
  PROVE  Limited'
<1>1. Active' \subseteq Active
  BY DEF Active
<1>2. /\ Cardinality(Active') <= Cardinality(Active)
      /\ Cardinality(retained') <= Cardinality(retained)
  BY <1>1, FiniteHistory, FS_Subset DEF Limited
<1>3. /\ Cardinality(Active) \in Nat /\ Cardinality(retained) \in Nat
      /\ Cardinality(Active') \in Nat /\ Cardinality(retained') \in Nat
  BY <1>1, FiniteHistory, FS_Subset, FS_CardinalityType DEF Limited
<1>4. HistoryBounded'
  <2>1. Cardinality(retained') <= MaxJobs
    BY <1>2, <1>3, JobAssumption DEF Limited, HistoryBounded
  <2>2. Cardinality(Active') <= MaxPending
    BY <1>2, <1>3, JobAssumption DEF Limited, HistoryBounded
  <2> QED
    BY <2>1, <2>2 DEF HistoryBounded
<1>5. ASSUME loop'.pc = "insert" PROVE Cardinality(Active') < MaxPending
  <2>1. Cardinality(Active) < MaxPending
    BY <1>5
  <2> QED
    BY <2>1, <1>2, <1>3, JobAssumption
<1> QED
  BY <1>4, <1>5 DEF Limited

(* Creating a job fills the place that the count and the trim left free. *)
LEMMA LimitsCreate ==
  ASSUME Limited, TypeOK', NEW j \in Jobs, NEW k \in Kinds, Create(j, k)
  PROVE  Limited'
<1>1. /\ retained' = (retained \ Evicted) \cup {j}
      /\ Cardinality(retained \ Evicted) < MaxJobs
      /\ Cardinality(Active) < MaxPending
      /\ state' = state /\ loop'.pc # "insert"
  BY DEF Create, Limited, Free, Calling
<1>2. Active' \subseteq Active \cup {j}
  BY <1>1 DEF Active, Settled, Evicted
<1>3. IsFiniteSet(retained \ Evicted) /\ IsFiniteSet(Active)
  BY FiniteHistory, FS_Subset DEF Limited
<1>4. /\ Cardinality(retained \ Evicted) \in Nat
      /\ Cardinality(Active) \in Nat
  BY <1>3, FS_CardinalityType
<1>5. Cardinality(retained') <= Cardinality(retained \ Evicted) + 1
      /\ Cardinality(retained') \in Nat
  BY <1>1, <1>3, OneMore
<1>6. Cardinality(Active \cup {j}) <= Cardinality(Active) + 1
      /\ Cardinality(Active \cup {j}) \in Nat
      /\ IsFiniteSet(Active \cup {j})
  BY <1>3, OneMore
<1>7. Cardinality(Active') <= Cardinality(Active \cup {j})
      /\ Cardinality(Active') \in Nat
  BY <1>2, <1>6, FS_Subset, FS_CardinalityType
<1>8. Cardinality(retained') <= MaxJobs
  BY <1>1, <1>4, <1>5, JobAssumption
<1>9. Cardinality(Active') <= MaxPending
  BY <1>1, <1>4, <1>6, <1>7, JobAssumption
<1> QED
  BY <1>1, <1>8, <1>9 DEF Limited, HistoryBounded

LEMMA LimitsNext == Owned /\ Limited /\ [Next]_vars => Limited'
<1> SUFFICES ASSUME Owned, Limited, [Next]_vars PROVE Limited'
  OBVIOUS
<1>1. TypeOK'
  BY NextOwned DEF Owned
<1>2. \A j \in Jobs : Settled(j) => Settled(j)'
  BY SettledStep DEF Settled, Unchanging, Owned, TypeOK, States
<1>3. CASE /\ retained' \subseteq retained
           /\ loop'.pc = "insert" => Cardinality(Active) < MaxPending
  BY <1>1, <1>2, <1>3, LimitsKept DEF Limited, TypeOK
<1>4. CASE UNCHANGED vars
  BY <1>3, <1>4 DEF vars, Limited
<1>5. CASE Caller
  <2>1. ASSUME NEW j \in Jobs, NEW k \in Kinds, Create(j, k) PROVE Limited'
    BY <1>1, <2>1, LimitsCreate
  <2> QED
    <3>1. CASE Insert
      BY <1>3, <2>1, <3>1 DEF Insert, SubmitNoRoom, SubmitAccept,
         SubmitClosed, Limited
    <3>2. CASE SubmitFull
      BY <1>3, <3>2 DEF SubmitFull, Asked, Free, Calling
    <3>5. CASE SubmitCount
      <4>1. retained' = retained /\ Cardinality(Active) < MaxPending
        BY <3>5 DEF SubmitCount
      <4> QED
        BY <4>1, <1>3
    <3>3. ASSUME NEW j \in Jobs,
                 CancelFlag(j) \/ DiscardActive(j) \/ DiscardSettled(j)
          PROVE  Limited'
      BY <1>3, <3>3 DEF CancelFlag, DiscardActive, DiscardSettled, Free, Calling
    <3>4. CASE \/ CancelTooLate \/ CancelSettle \/ CancelEmit
               \/ ShutdownFlag \/ ShutdownPool
      BY <1>3, <3>4 DEF CancelTooLate, CancelSettle, CancelEmit,
         ShutdownFlag, ShutdownPool, Free, Calling
    <3> QED
      BY <1>5, <3>1, <3>2, <3>3, <3>4, <3>5 DEF Caller, Locked
<1>6. CASE Worker
  BY <1>3, <1>6 DEF Worker, WorkerTake, WorkerCancelled, WorkerBegin,
     WorkerWrite, WorkerAnnounce, WorkerSelfTest, CallbackCheck, CallbackEmit,
     CallbackLast, WorkerRaise, WorkerReturn, WorkerComplete, WorkerSettle,
     WorkerPublish, Unseen, Limited
<1> QED
  BY <1>4, <1>5, <1>6 DEF Next

LEMMA LimitsInit == Init => Limited
<1>1. ASSUME Init PROVE Active = {} /\ retained = {} /\ loop.pc = "free"
  BY <1>1 DEF Init, Active, Free, Calling
<1> QED
  BY <1>1, OwnedInit, FS_EmptySet, JobAssumption
     DEF Limited, HistoryBounded, Owned

(* The history keeps at most MaxJobs jobs, at most MaxPending of them      *)
(* unsettled, for every value of the two limits (submit, _trim_locked).    *)
THEOREM HistoryLimits == Spec => []HistoryBounded
<1>1. Limited => HistoryBounded
  BY DEF Limited
<1> QED
  BY <1>1, LimitsInit, LimitsNext, AlwaysOwned, PTL DEF Spec

(* Among settled jobs there is an oldest: one with no older job. *)
LEMMA Oldest ==
  ASSUME TypeOK, NEW done, done \subseteq retained, done # {}
  PROVE  \E j \in done : {i \in done : born[i] < born[j]} = {}
<1> DEFINE older(j) == {i \in done : born[i] < born[j]}
           T == {older(j) : j \in done}
           R == StrictSubsetOrdering(done)
<1>1. IsFiniteSet(done)
  BY FiniteHistory, FS_Subset
<1>2. T \subseteq FiniteSubsetsOf(done) /\ T # {}
  <2>1. \A j \in done : older(j) \in SUBSET done
    OBVIOUS
  <2>2. \A j \in done : IsFiniteSet(older(j))
    BY <1>1, <2>1, FS_Subset
  <2> QED
    BY <2>1, <2>2 DEF FiniteSubsetsOf
<1>3. IsWellFoundedOn(R, FiniteSubsetsOf(done))
  BY FS_StrictSubsetOrderingWellFounded
<1>4. PICK x \in T : \A y \in T : ~ (<<y, x>> \in R)
  <2> HIDE DEF T, R
  <2> QED
    BY <1>2, <1>3, WFMin
<1>5. PICK j \in done : x = older(j)
  BY <1>4
<1>6. ASSUME NEW i \in older(j) PROVE FALSE
  <2>1. older(i) \subseteq older(j) /\ i \in older(j) /\ i \notin older(i)
    <3>1. \A k \in done : born[k] \in Nat
      BY DEF TypeOK
    <3>2. i \in done /\ born[i] < born[j]
      BY <1>6
    <3> QED
      BY <3>1, <3>2, <1>5
  <2>2. <<older(i), older(j)>> \in R
    BY <2>1 DEF StrictSubsetOrdering
  <2> QED
    BY <2>2, <1>4, <1>5, <1>6
<1> QED
  BY <1>5, <1>6

(* When the count let a submission through, trimming finds it a place. *)
LEMMA RoomLeft ==
  ASSUME Limited, loop.pc = "insert", MaxPending <= MaxJobs
  PROVE  Cardinality(retained \ Evicted) < MaxJobs
<1> DEFINE done == {j \in retained : Settled(j)}
<1>1. /\ Cardinality(retained) \in Nat /\ IsFiniteSet(retained)
      /\ Cardinality(Active) \in Nat
      /\ Cardinality(Active) < MaxPending
      /\ Cardinality(retained) <= MaxJobs
  BY FiniteHistory DEF Limited, HistoryBounded
<1>2. /\ Cardinality(retained \ Evicted) <= Cardinality(retained)
      /\ Cardinality(retained \ Evicted) \in Nat
  BY <1>1, FS_Subset, FS_CardinalityType
<1>3. CASE Cardinality(retained) < MaxJobs
  BY <1>1, <1>2, <1>3, JobAssumption
<1>4. CASE Cardinality(retained) = MaxJobs
  <2>1. done # {}
    <3> SUFFICES ASSUME done = {} PROVE FALSE
      OBVIOUS
    <3>1. Active = retained
      BY DEF Active
    <3> QED
      BY <3>1, <1>1, <1>4, JobAssumption
  <2>2. PICK j \in done : {i \in done : born[i] < born[j]} = {}
    BY <2>1, Oldest DEF Limited
  <2>3. j \in Evicted
    BY <2>2, <1>4, FS_EmptySet, JobAssumption DEF Evicted
  <2>4. retained \ Evicted \subseteq retained \ {j} /\ j \in retained
    BY <2>3
  <2>5. /\ Cardinality(retained \ {j}) = Cardinality(retained) - 1
        /\ IsFiniteSet(retained \ {j})
    BY <2>4, <1>1, FS_RemoveElement
  <2>6. Cardinality(retained \ Evicted) <= Cardinality(retained \ {j})
    BY <2>4, <2>5, FS_Subset
  <2> QED
    BY <2>5, <2>6, <1>1, <1>2, <1>4, JobAssumption
<1> QED
  BY <1>1, <1>3, <1>4, JobAssumption

(* "local job history is full" is never raised when maximum_pending is at  *)
(* most maximum_jobs, as in __init__ (4 and 24).                           *)
THEOREM NeverFull == Spec => HistoryNeverFull
<1> DEFINE Entered == MaxPending <= MaxJobs /\ loop.pc = "insert" /\ loop' = Free
                        => retained' \ retained # {}
<1>1. Owned /\ Limited /\ [Next]_vars => [Entered]_vars
  <2> SUFFICES ASSUME Owned, Limited, Next, MaxPending <= MaxJobs,
                      loop.pc = "insert", loop' = Free
               PROVE  retained' \ retained # {}
    OBVIOUS
  <2>1. ~SubmitNoRoom
    <3> SUFFICES ASSUME SubmitNoRoom PROVE FALSE
      OBVIOUS
    <3>1. /\ IsFiniteSet(retained \ Evicted)
          /\ Cardinality(retained \ Evicted) \in Nat
      BY FiniteHistory, FS_Subset, FS_CardinalityType DEF Limited
    <3> QED
      <4>1. Cardinality(retained \ Evicted) < MaxJobs
        BY RoomLeft DEF SubmitNoRoom
      <4>2. Cardinality(retained \ Evicted) >= MaxJobs
        BY DEF SubmitNoRoom
      <4> QED
        BY <3>1, <4>1, <4>2, JobAssumption
  <2>2. ASSUME NEW j \in Jobs, NEW k \in Kinds, Create(j, k)
        PROVE  retained' \ retained # {}
    BY <2>2 DEF Create, Owned, TypeOK, FutureInv
  <2>3. loop # Free /\ loop # loop'
    BY DEF Free, Calling
  <2>4. CASE Worker
    BY <2>3, <2>4 DEF Worker, WorkerTake, WorkerCancelled, WorkerBegin,
       WorkerWrite, WorkerAnnounce, WorkerSelfTest, CallbackCheck,
       CallbackEmit, CallbackLast, WorkerRaise, WorkerReturn, WorkerComplete,
       WorkerSettle, WorkerPublish, Unseen
  <2>5. CASE Caller
    BY <2>1, <2>2, <2>3, <2>5 DEF Caller, Locked, Insert, SubmitFull, SubmitCount,
       Asked, SubmitAccept, SubmitClosed, CancelFlag, CancelTooLate, CancelSettle,
       CancelEmit, DiscardActive, DiscardSettled, ShutdownFlag, ShutdownPool, vars
  <2> QED
    BY <2>4, <2>5 DEF Next
<1>2. Init => Limited
  BY LimitsInit
<1> QED
  BY <1>1, <1>2, LimitsNext, AlwaysOwned, PTL DEF Spec, HistoryNeverFull

-----------------------------------------------------------------------------
(* The refinement of JobService *)

(* A job that the worker holds and that still waits has not been reported  *)
(* as anything else: the first call of a work function writes its state,   *)
(* and before that it can only be cancelled.                               *)
Begun ==
  /\ worker.pc = "check" => worker.at = 1
  /\ worker.pc # "idle" /\ state[worker.job] = "queued" =>
       \/ worker.pc = "check"
       \/ worker.pc = "work" /\ worker.at = 1
       \/ worker.pc = "settle" /\ worker.outcome = "cancelled"

LEMMA FirstCall ==
  ASSUME Owned, worker.pc # "idle", worker.at = 1
  PROVE  Here \in Working /\ Len(Program[kind[worker.job]]) = 5
<1>1. kind[worker.job] \in Kinds
  BY DEF Owned, TypeOK, WorkerInv
<1>2. \A k \in Kinds : Program[k][1] \in Working
  BY DEF Kinds, Program, Working
<1> QED
  BY <1>1, <1>2, ProgramType DEF Here

LEMMA BegunNext == Owned /\ Begun /\ [Next]_vars => Begun'
<1> SUFFICES ASSUME Owned, Begun, [Next]_vars PROVE Begun'
  OBVIOUS
<1>1. CASE UNCHANGED <<worker, state>>
  BY <1>1 DEF Begun
<1>2. CASE CancelSettle
  <2>1. worker' = worker /\ loop.job \in Jobs
        /\ state' = [state EXCEPT ![loop.job] = "cancelled"]
    BY <1>2 DEF CancelSettle, poolVars, Owned, TypeOK, CallerInv
  <2> QED
    BY <2>1 DEF Begun, Owned, TypeOK, WorkerInv
<1>3. CASE Worker
  <2> USE DEF Owned, WorkerInv, Begun, Doing, Place, Goto, Step, End
  <2>1. worker \in Places /\ state \in [Jobs -> States]
    BY DEF TypeOK
  <2>2. ASSUME NEW j \in Jobs, WorkerTake(j) PROVE Begun'
    BY <2>2 DEF WorkerTake
  <2>3. CASE WorkerCancelled
    BY <2>1, <2>3 DEF WorkerCancelled, Places
  <2>4. CASE WorkerBegin
    BY <2>1, <2>4 DEF WorkerBegin, Places
  <2>5. CASE WorkerWrite
    BY <2>1, <2>5 DEF WorkerWrite, AtStep, Working, Places
  <2>6. CASE WorkerAnnounce
    BY <2>1, <2>6 DEF WorkerAnnounce, Places
  <2>7. CASE WorkerSelfTest \/ CallbackCheck \/ CallbackLast
    <3>1. worker.pc = "work" /\ Here \notin Working
      BY <2>7 DEF WorkerSelfTest, CallbackCheck, CallbackLast, AtStep, Working, Callback
    <3>2. worker.at # 1
      BY <3>1, FirstCall
    <3>3. state[worker.job] # "queued"
      BY <3>1, <3>2
    <3>4. state' = state /\ worker'.job = worker.job
          /\ worker'.pc \in {"work", "callback"}
      BY <2>7 DEF WorkerSelfTest, CallbackCheck, CallbackLast
    <3> QED
      BY <3>3, <3>4
  <2>8. CASE CallbackEmit
    BY <2>1, <2>8 DEF CallbackEmit, Places
  <2>9. CASE WorkerRaise
    BY <2>1, <2>9 DEF WorkerRaise, Places
  <2>10. CASE WorkerReturn
    <3>1. /\ worker.pc = "work"
          /\ worker.at > Len(Program[kind[worker.job]])
      BY <2>10 DEF WorkerReturn
    <3>2. worker.at = 1 => Len(Program[kind[worker.job]]) = 5
      BY <3>1, FirstCall
    <3>3. worker.at # 1
      <4>1. ASSUME worker.at = 1 PROVE 1 > 5
        <5>1. Len(Program[kind[worker.job]]) = 5
          BY <4>1, <3>2
        <5> QED
          BY <3>1, <4>1, <5>1
      <4> QED
        BY <4>1
    <3> QED
      BY <2>10, <3>1, <3>3 DEF WorkerReturn
  <2>11. CASE WorkerComplete
    BY <2>1, <2>11 DEF WorkerComplete, Places
  <2>12. CASE WorkerSettle
    BY <2>1, <2>12 DEF WorkerSettle, Terminal, Places
  <2>13. CASE WorkerPublish
    BY <2>1, <2>13 DEF WorkerPublish, Idle
  <2> QED
    BY <1>3, <2>2, <2>3, <2>4, <2>5, <2>6, <2>7, <2>8, <2>9, <2>10, <2>11,
       <2>12, <2>13 DEF Worker
<1>4. CASE Caller /\ ~CancelSettle
  <2>1. UNCHANGED <<worker, state>>
    BY <1>4 DEF Caller, Locked, Insert, SubmitFull, SubmitCount, SubmitNoRoom,
       SubmitAccept, SubmitClosed, Create, CancelFlag, CancelTooLate, CancelEmit,
       DiscardActive, DiscardSettled, ShutdownFlag, ShutdownPool, jobVars, poolVars
  <2> QED
    BY <1>1, <2>1
<1> QED
  BY <1>1, <1>2, <1>3, <1>4 DEF Next, vars, jobVars, poolVars

(* What the service calls unsettled is what submit counts. *)
LEMMA SameUnsettled ==
  ASSUME Owned
  PROVE  /\ Service!Unsettled = Active
         /\ \A j \in retained : born[j] # 0
<1>1. \A j \in retained : born[j] # 0 /\ j \in Jobs /\ state[j] \in States
  BY DEF Owned, TypeOK, FutureInv
<1>2. \A j \in retained : Status[j] \in Service!Outcomes <=> Settled(j)
  BY <1>1 DEF Status, Service!Outcomes, Settled, Terminal, Working, States
<1> QED
  BY <1>1, <1>2 DEF Service!Unsettled, Active

(* A step that leaves states, births and history alone is a stutter. *)
LEMMA Stutters ==
  ASSUME state' = state, born' = born, retained' = retained
  PROVE  UNCHANGED Service!serviceVars
BY DEF Service!serviceVars, Status

(* One that changes the state of one job, which was born. *)
LEMMA OneStatus ==
  ASSUME Owned, NEW j \in Jobs, NEW new \in States, born[j] # 0, born' = born,
         state' = [state EXCEPT ![j] = new]
  PROVE  Status' = [Status EXCEPT ![j] =
           IF new = "queued" THEN "waiting"
           ELSE IF new \in Working THEN "running" ELSE new]
BY DEF Status, Owned, TypeOK

LEMMA CreateAccepts ==
  ASSUME Owned, Limited, Limited', NEW j \in Jobs, NEW k \in Kinds, Create(j, k)
  PROVE  Service!Accept(j)
<1>1. /\ retained' = (retained \ Evicted) \cup {j}
      /\ born' = [born EXCEPT ![j] = submitted + 1]
      /\ born[j] = 0 /\ state' = state
  BY DEF Create
<1>2. submitted + 1 # 0 /\ state[j] = "queued"
  <2>1. submitted \in Nat
    BY DEF Owned, TypeOK
  <2>2. state[j] = "queued"
    BY <1>1 DEF Owned, FutureInv
  <2> QED
    BY <2>1, <2>2
<1>3. Status[j] = "absent"
  BY <1>1 DEF Status
<1>4. Status' = [Status EXCEPT ![j] = "waiting"]
  BY <1>1, <1>2 DEF Status, Owned, TypeOK
<1>5. Cardinality(Service!Unsettled) < MaxPending
  BY SameUnsettled DEF Limited, Create
<1>6. Evicted \in SUBSET (retained \ Service!Unsettled)
  BY SameUnsettled DEF Evicted, Active
<1>7. Cardinality(retained') <= MaxJobs
  BY DEF Limited, HistoryBounded
<1>8. \A S : Service!Cardinality(S) = Cardinality(S)
  BY DEF Cardinality, Service!Cardinality
<1> QED
  BY <1>1, <1>3, <1>4, <1>5, <1>6, <1>7, <1>8 DEF Service!Accept

LEMMA Forgets ==
  ASSUME Owned, NEW gone \in SUBSET retained, \A j \in gone : Settled(j),
         retained' = retained \ gone, state' = state, born' = born
  PROVE  Service!Forget(gone)
<1>1. gone \subseteq retained \ Service!Unsettled
  BY SameUnsettled DEF Active
<1>2. Status' = Status
  BY DEF Status
<1> QED
  BY <1>1, <1>2 DEF Service!Forget

LEMMA CancelSettles ==
  ASSUME Owned, CancelSettle
  PROVE  [Service!ServiceNext]_(Service!serviceVars)
<1> DEFINE j == loop.job
<1>1. /\ j \in Jobs /\ j \in retained /\ born[j] # 0
      /\ future[j] \in {"pending", "cancelled"}
      /\ state' = [state EXCEPT ![j] = "cancelled"]
      /\ born' = born /\ retained' = retained
  BY SameUnsettled DEF CancelSettle, Owned, TypeOK, CallerInv
<1> HIDE DEF j
<1>2. state[j] \in {"queued", "cancelled"}
  BY <1>1 DEF Owned, FutureInv
<1>3. CASE state[j] = "cancelled"
  <2>1. state' = state
    BY <1>1, <1>3 DEF Owned, TypeOK
  <2> QED
    BY <1>1, <2>1, Stutters
<1>4. CASE state[j] = "queued"
  <2>1. Status' = [Status EXCEPT ![j] = "cancelled"]
    BY <1>1, OneStatus DEF States, Terminal, Working
  <2>2. Status[j] = "waiting"
    BY <1>1, <1>4 DEF Status
  <2> QED
    BY <1>1, <2>1, <2>2 DEF Service!ServiceNext, Service!Settle
<1> QED
  BY <1>2, <1>3, <1>4

LEMMA WriteBegins ==
  ASSUME Owned, WorkerWrite
  PROVE  [Service!ServiceNext]_(Service!serviceVars)
<1> DEFINE j == worker.job
<1>1. /\ j \in Jobs /\ future[j] = "running" /\ state[j] \notin Terminal
      /\ Here \in Working /\ state' = [state EXCEPT ![j] = Here]
      /\ born' = born /\ retained' = retained
  BY DEF WorkerWrite, AtStep, Doing, Owned, WorkerInv, Unseen
<1>2. /\ born[j] # 0
      /\ \A i \in Jobs : state[i] \in Working => i = j
  BY <1>1 DEF Owned, TypeOK, FutureInv, Futures, Working, Terminal
<1> HIDE DEF j
<1>3. Status' = [Status EXCEPT ![j] = "running"]
  BY <1>1, <1>2, OneStatus DEF States, Working
<1>4. CASE state[j] = "queued"
  <2>1. \A i \in Jobs : Status[i] # "running"
    BY <1>2, <1>4 DEF Status, Working, Owned, TypeOK, States, Terminal
  <2>2. Status[j] = "waiting"
    BY <1>1, <1>2, <1>4 DEF Status
  <2> QED
    BY <1>1, <1>3, <2>1, <2>2 DEF Service!ServiceNext, Service!Begin
<1>5. CASE state[j] \in Working
  <2>1. Status[j] = "running"
    BY <1>1, <1>2, <1>5 DEF Status, Working
  <2>2. Status' = Status
    BY <1>1, <1>3, <2>1 DEF Status
  <2> QED
    BY <1>1, <2>2 DEF Service!serviceVars
<1> QED
  BY <1>1, <1>4, <1>5 DEF Owned, TypeOK, States

LEMMA SettleSettles ==
  ASSUME Owned, Begun, WorkerSettle
  PROVE  Service!ServiceNext
<1> DEFINE j == worker.job
<1> DEFINE o == worker.outcome
<1>1. /\ j \in Jobs /\ future[j] = "running" /\ state[j] \notin Terminal
      /\ o \in Terminal /\ state' = [state EXCEPT ![j] = o]
      /\ state[j] = "queued" => o = "cancelled"
      /\ born' = born /\ retained' = retained
  BY DEF WorkerSettle, Doing, Owned, WorkerInv, Unseen, Begun
<1> HIDE DEF j, o
<1>2. born[j] # 0
  BY <1>1 DEF Owned, FutureInv
<1>3. Status' = [Status EXCEPT ![j] = o]
  BY <1>1, <1>2, OneStatus DEF States, Working, Terminal
<1>4. CASE state[j] = "queued"
  <2>1. Status[j] = "waiting"
    BY <1>1, <1>2, <1>4 DEF Status
  <2> QED
    BY <1>1, <1>3, <1>4, <2>1 DEF Service!ServiceNext, Service!Settle
<1>5. CASE state[j] \in Working
  <2>1. Status[j] = "running"
    BY <1>1, <1>2, <1>5 DEF Status, Working
  <2> QED
    BY <1>1, <1>3, <2>1
       DEF Service!ServiceNext, Service!Settle, Service!Outcomes, Terminal
<1> QED
  BY <1>1, <1>4, <1>5 DEF Owned, TypeOK, States

(* Whatever the threads do, a client of web/jobs.py sees the service: jobs *)
(* are accepted within the limits, run one at a time, settle once, and     *)
(* only settled ones are forgotten.                                        *)
THEOREM ManagerImplements == Spec => ImplementsService
<1>1. Init => Service!ServiceInit
  BY DEF Init, Service!ServiceInit, Status
<1>2. Owned /\ Begun /\ Limited /\ Limited' /\ [Next]_vars
        => [Service!ServiceNext]_(Service!serviceVars)
  <2> SUFFICES ASSUME Owned, Begun, Limited, Limited', [Next]_vars
               PROVE  [Service!ServiceNext]_(Service!serviceVars)
    OBVIOUS
  <2>1. CASE Insert
    <3>1. ASSUME NEW j \in Jobs, NEW k \in Kinds, Create(j, k)
          PROVE  Service!ServiceNext
      BY <3>1, CreateAccepts DEF Service!ServiceNext
    <3>2. CASE SubmitNoRoom
      <4>1. Service!Forget(Evicted)
        BY <3>2, Forgets DEF SubmitNoRoom, Evicted, jobVars
      <4> QED
        BY <4>1 DEF Service!ServiceNext, Evicted
    <3> QED
      BY <2>1, <3>1, <3>2 DEF Insert, SubmitAccept, SubmitClosed
  <2>2. ASSUME NEW j \in Jobs, DiscardSettled(j)
        PROVE  Service!ServiceNext
    <3>1. Service!Forget({j}) /\ {j} \in SUBSET retained
      BY <2>2, Forgets DEF DiscardSettled, jobVars
    <3> QED
      BY <3>1 DEF Service!ServiceNext
  <2>3. CASE CancelSettle
    BY <2>3, CancelSettles
  <2>4. CASE Caller /\ ~Insert /\ ~CancelSettle
             /\ ~ \E j \in Jobs : DiscardSettled(j)
    <3>1. state' = state /\ born' = born /\ retained' = retained
      BY <2>4 DEF Caller, Locked, SubmitFull, SubmitCount, CancelFlag,
         CancelTooLate, CancelEmit, DiscardActive, ShutdownFlag, ShutdownPool,
         jobVars
    <3> QED
      BY <3>1, Stutters
  <2>5. CASE WorkerWrite
    BY <2>5, WriteBegins
  <2>6. CASE WorkerSettle
    BY <2>6, SettleSettles
  <2>7. CASE Worker /\ ~WorkerWrite /\ ~WorkerSettle
    <3>1. state' = state /\ born' = born /\ retained' = retained
      BY <2>7 DEF Worker, WorkerTake, WorkerCancelled, WorkerBegin,
         WorkerAnnounce, WorkerSelfTest, CallbackCheck, CallbackEmit,
         CallbackLast, WorkerRaise, WorkerReturn, WorkerComplete,
         WorkerPublish, Unseen
    <3> QED
      BY <3>1, Stutters
  <2>8. CASE UNCHANGED vars
    BY <2>8, Stutters DEF vars, jobVars
  <2> QED
    BY <2>1, <2>2, <2>3, <2>4, <2>5, <2>6, <2>7, <2>8 DEF Next
<1>3. Init => Begun
  BY DEF Init, Begun, Idle
<1> QED
  BY <1>1, <1>2, <1>3, BegunNext, LimitsInit, LimitsNext, AlwaysOwned, PTL
     DEF Spec, ImplementsService, Service!ServiceSpec

-----------------------------------------------------------------------------
(* Cooperative cancellation *)

(* A job flagged before the worker took it: the check that comes first in  *)
(* _run sends it past all its work.                                        *)
NeverWorks(j) ==
  /\ j \in cancelled
  /\ state[j] \notin Working
  /\ \/ future[j] \in {"pending", "cancelled", "finished"}
     \/ future[j] = "running" /\ worker.pc \in {"check", "settle", "publish"}

LEMMA NeverWorksNext ==
  ASSUME Owned, [Next]_vars, NEW j \in Jobs, NeverWorks(j)
  PROVE  NeverWorks(j)'
<1> USE DEF NeverWorks
<1>1. /\ future[j] = "running" => worker.pc # "idle" /\ worker.job = j
      /\ future[j] # "running" => worker.pc = "idle" \/ worker.job # j
      /\ future[j] = "finished" => Settled(j)
      /\ born[j] # 0
  BY DEF Owned, FutureInv, WorkerInv, Settled
<1>2. CASE UNCHANGED <<state, cancelled, future, worker>>
  BY <1>2
<1>3. ASSUME NEW i \in Jobs, NEW k \in Kinds,
             SubmitAccept(i, k) \/ SubmitClosed(i, k)
      PROVE  NeverWorks(j)'
  BY <1>1, <1>3 DEF SubmitAccept, SubmitClosed, Create, poolVars, Owned, TypeOK
<1>4. CASE \/ \E i \in Jobs : CancelFlag(i) \/ DiscardActive(i)
           \/ ShutdownFlag
  BY <1>4 DEF CancelFlag, DiscardActive, ShutdownFlag, poolVars
<1>5. CASE CancelSettle
  <2>1. loop.job \in Jobs /\ "cancelled" \notin Working
    BY <1>5 DEF CancelSettle, Owned, CallerInv, TypeOK, Working
  <2>2. /\ state' = [state EXCEPT ![loop.job] = "cancelled"]
        /\ future' = [future EXCEPT ![loop.job] = "cancelled"]
        /\ UNCHANGED <<cancelled, worker>>
    BY <1>5 DEF CancelSettle, poolVars
  <2> QED
    BY <2>1, <2>2 DEF Owned, TypeOK
<1>6. CASE ShutdownPool
  BY <1>6 DEF ShutdownPool
<1>7. ASSUME NEW i \in Jobs, WorkerTake(i) PROVE NeverWorks(j)'
  BY <1>1, <1>7 DEF WorkerTake, Doing, Owned, TypeOK
<1>8. CASE Worker /\ ~ \E i \in Jobs : WorkerTake(i)
  <2>1. CASE worker.job # j
    <3>1. future[worker.job] = "running" /\ worker.job \in Jobs
      BY <1>8 DEF Owned, WorkerInv, Worker, WorkerCancelled, WorkerBegin,
         WorkerWrite, WorkerAnnounce, WorkerSelfTest, CallbackCheck,
         CallbackEmit, CallbackLast, WorkerRaise, WorkerReturn,
         WorkerComplete, WorkerSettle, WorkerPublish, CheckPoint, AtStep,
         Doing
    <3>2. /\ \/ state' = state
             \/ \E s : state' = [state EXCEPT ![worker.job] = s]
          /\ \/ future' = future
             \/ future' = [future EXCEPT ![worker.job] = "finished"]
          /\ cancelled' = cancelled
      BY <1>8 DEF Worker, WorkerCancelled, WorkerBegin,
         WorkerWrite, WorkerAnnounce, WorkerSelfTest, CallbackCheck,
         CallbackEmit, CallbackLast, WorkerRaise, WorkerReturn,
         WorkerComplete, WorkerSettle, WorkerPublish
    <3>3. state'[j] = state[j] /\ future'[j] = future[j]
      BY <2>1, <3>2 DEF Owned, TypeOK
    <3>4. future[j] # "running"
      BY <2>1, <1>1
    <3> QED
      BY <3>2, <3>3, <3>4
  <2>2. CASE worker.job = j /\ worker.pc \in {"check", "settle", "publish"}
    <3>1. WorkerCancelled \/ WorkerSettle \/ WorkerPublish
      BY <1>8, <2>2 DEF Worker, WorkerBegin, WorkerWrite, WorkerAnnounce,
         WorkerSelfTest, CallbackCheck, CallbackEmit, CallbackLast,
         WorkerRaise, WorkerReturn, WorkerComplete, AtStep, Doing
    <3>2. /\ future[j] = "running" /\ state \in [Jobs -> States]
          /\ future \in [Jobs -> Futures]
          /\ worker.pc \in {"settle", "publish"} =>
               worker.outcome \in Terminal
      BY <2>2 DEF Owned, WorkerInv, TypeOK
    <3>3. Terminal \cap Working = {}
      BY DEF Terminal, Working
    <3>4. CASE WorkerCancelled
      BY <3>2, <3>4, <2>2 DEF WorkerCancelled, End, Place
    <3>5. CASE WorkerSettle
      BY <3>2, <3>3, <3>5, <2>2 DEF WorkerSettle, Goto, Place, Doing
    <3>6. CASE WorkerPublish
      BY <3>2, <3>6, <2>2 DEF WorkerPublish
    <3> QED
      BY <3>1, <3>4, <3>5, <3>6
  <2>3. CASE worker.job = j /\ worker.pc \notin {"check", "settle", "publish"}
    <3>1. worker.pc = "idle"
      BY <2>3, <1>1
    <3> QED
      BY <1>8, <3>1 DEF Worker, WorkerCancelled, WorkerBegin, WorkerWrite,
         WorkerAnnounce, WorkerSelfTest, CallbackCheck, CallbackEmit,
         CallbackLast, WorkerRaise, WorkerReturn, WorkerComplete,
         WorkerSettle, WorkerPublish, CheckPoint, AtStep, Doing
  <2> QED
    BY <2>1, <2>2, <2>3
<1>9. CASE Caller
  BY <1>2, <1>3, <1>4, <1>5, <1>6, <1>9 DEF Caller, Locked, Insert,
     SubmitFull, SubmitCount, SubmitNoRoom, CancelTooLate, CancelEmit,
     DiscardSettled, jobVars, poolVars
<1> QED
  BY <1>2, <1>7, <1>8, <1>9 DEF Next, vars, jobVars, poolVars

(* A flagged job has at most one event of a callback to come: the one whose *)
(* check had passed before the flag was raised.                            *)
Passed(j) == worker.pc = "callback" /\ worker.job = j
Bounded(j, n) == /\ j \in cancelled
                 /\ Reported(j) <= n + 1
                 /\ Passed(j) => Reported(j) <= n

(* A job announces the state it has written, not the event of a callback. *)
Announced == worker.pc = "announce" => Here \in Working

LEMMA AnnouncedNext == Owned /\ Announced /\ [Next]_vars => Announced'
<1> SUFFICES ASSUME Owned, Announced, [Next]_vars, worker'.pc = "announce"
             PROVE  Here' \in Working
  BY DEF Announced
<1>1. CASE WorkerWrite
  BY <1>1 DEF WorkerWrite, AtStep, Goto, Place, Here, Unseen
<1>2. CASE worker' = worker
  <2>1. worker.pc = "announce" /\ worker.job \in Jobs
        /\ future[worker.job] = "running" /\ Here \in Working
    BY <1>2 DEF Announced, Owned, WorkerInv
  <2>2. born[worker.job] # 0
    BY <2>1 DEF Owned, FutureInv
  <2>3. kind'[worker.job] = kind[worker.job]
    <3>1. CASE kind' = kind
      BY <3>1
    <3>2. ASSUME NEW i \in Jobs, NEW k \in Kinds, Create(i, k)
          PROVE  kind'[worker.job] = kind[worker.job]
      <4>1. kind' = [kind EXCEPT ![i] = k] /\ born[i] = 0
        BY <3>2 DEF Create
      <4>2. i # worker.job /\ worker.job \in DOMAIN kind
        BY <4>1, <2>1, <2>2 DEF Owned, TypeOK
      <4> QED
        BY <4>1, <4>2
    <3>3. CASE Caller
      BY <3>1, <3>2, <3>3 DEF Caller, Locked, Insert, SubmitFull, SubmitCount,
         SubmitNoRoom, SubmitAccept, SubmitClosed, CancelFlag, CancelTooLate,
         CancelSettle, CancelEmit, DiscardActive, DiscardSettled,
         ShutdownFlag, ShutdownPool, jobVars
    <3>4. CASE Worker
      BY <3>1, <3>4 DEF Worker, WorkerTake, WorkerCancelled, WorkerBegin,
         WorkerWrite, WorkerAnnounce, WorkerSelfTest, CallbackCheck,
         CallbackEmit, CallbackLast, WorkerRaise, WorkerReturn,
         WorkerComplete, WorkerSettle, WorkerPublish, Unseen
    <3> QED
      BY <3>1, <3>3, <3>4 DEF Next, vars, jobVars
  <2> QED
    BY <1>2, <2>1, <2>3 DEF Here
<1>3. CASE Caller
  BY <1>2, <1>3 DEF Caller, Locked, Insert, SubmitFull, SubmitCount,
     SubmitNoRoom, SubmitAccept, SubmitClosed, Create, CancelFlag,
     CancelTooLate, CancelSettle, CancelEmit, DiscardActive, DiscardSettled,
     ShutdownFlag, ShutdownPool, poolVars
<1>4. CASE Worker
  BY <1>1, <1>4 DEF Worker, WorkerTake, WorkerCancelled, WorkerBegin,
     WorkerAnnounce, WorkerSelfTest, CallbackCheck, CallbackEmit,
     CallbackLast, WorkerRaise, WorkerReturn, WorkerComplete, WorkerSettle,
     WorkerPublish, Goto, Step, End, Place, Idle
<1> QED
  BY <1>2, <1>3, <1>4 DEF Next, vars, poolVars

(* What an appended event adds to the count. *)
LEMMA ReportedType ==
  ASSUME TypeOK, NEW j \in Jobs
  PROVE  /\ Reported(j) \in Nat
         /\ IsFiniteSet({i \in DOMAIN events[j] : events[j][i] \in Callback})
<1> DEFINE S == {i \in DOMAIN events[j] : events[j][i] \in Callback}
<1>1. events[j] \in Seq(EventTypes)
  BY DEF TypeOK
<1>2. DOMAIN events[j] = 1 .. Len(events[j]) /\ Len(events[j]) \in Nat
  BY <1>1, LenProperties
<1>3. IsFiniteSet(1 .. Len(events[j]))
  BY <1>2, FS_Interval
<1>4. IsFiniteSet(S)
  BY <1>2, <1>3, FS_Subset, S \subseteq 1 .. Len(events[j])
<1> QED
  BY <1>4, FS_CardinalityType DEF Reported

LEMMA ReportedAppend ==
  ASSUME TypeOK, NEW j \in Jobs, NEW e \in EventTypes,
         events'[j] = Append(events[j], e)
  PROVE  Reported(j)' = Reported(j) + (IF e \in Callback THEN 1 ELSE 0)
<1> DEFINE s == events[j]
           S == {i \in DOMAIN s : s[i] \in Callback}
           T == {i \in DOMAIN events'[j] : events'[j][i] \in Callback}
<1>1. s \in Seq(EventTypes) /\ Len(s) \in Nat /\ DOMAIN s = 1 .. Len(s)
  BY LenProperties DEF TypeOK
<1>2. /\ events'[j] \in Seq(EventTypes) /\ Len(events'[j]) = Len(s) + 1
      /\ \A i \in 1 .. Len(s) : events'[j][i] = s[i]
      /\ events'[j][Len(s) + 1] = e
  BY <1>1, AppendProperties
<1>3. DOMAIN events'[j] = 1 .. Len(s) + 1
  BY <1>2, LenProperties
<1>4. T = IF e \in Callback THEN S \cup {Len(s) + 1} ELSE S
  <2> HIDE DEF s
  <2> QED
    BY <1>1, <1>2, <1>3
<1>5. IsFiniteSet(S) /\ Len(s) + 1 \notin S
  <2>1. IsFiniteSet(S)
    BY ReportedType
  <2>2. S \subseteq 1 .. Len(s)
    BY <1>1
  <2>3. Len(s) + 1 \notin 1 .. Len(s)
    BY <1>1
  <2> QED
    BY <2>1, <2>2, <2>3
<1>6. Cardinality(T) = Cardinality(S) + (IF e \in Callback THEN 1 ELSE 0)
  <2>1. Cardinality(S) \in Nat
    BY ReportedType DEF Reported
  <2>2. PICK x : x = Len(s) + 1
    OBVIOUS
  <2>3. IsFiniteSet(S) /\ x \notin S /\ T = IF e \in Callback THEN S \cup {x} ELSE S
    BY <1>4, <1>5, <2>2
  <2> HIDE DEF S, T
  <2>4. CASE e \in Callback
    BY <2>3, <2>4, FS_AddElement
  <2>5. CASE e \notin Callback
    BY <2>1, <2>3, <2>5
  <2> QED
    BY <2>4, <2>5
<1> QED
  BY <1>6 DEF Reported

LEMMA EmitCount ==
  ASSUME TypeOK, NEW j \in Jobs, NEW i \in Jobs, NEW e \in EventTypes,
         Emit(i, e)
  PROVE  Reported(j)' = Reported(j) + (IF i = j /\ e \in Callback THEN 1 ELSE 0)
<1>1. events' = [events EXCEPT ![i] = Append(events[i], e)]
      /\ DOMAIN events = Jobs
  BY DEF Emit, TypeOK
<1>2. CASE i = j
  <2>1. events'[j] = Append(events[j], e)
    BY <1>1, <1>2
  <2> QED
    BY <2>1, <1>2, ReportedAppend
<1>3. CASE i # j
  <2>1. events'[j] = events[j]
    BY <1>1, <1>3
  <2>2. Reported(j)' = Reported(j) /\ Reported(j) \in Nat
    BY <2>1, ReportedType DEF Reported
  <2> QED
    BY <2>2, <1>3
<1> QED
  BY <1>2, <1>3

(* Only the event of a callback counts, and a flagged job passes no check. *)
LEMMA BoundedNext ==
  ASSUME NEW j \in Jobs, NEW n \in Nat, Owned, Announced, Bounded(j, n),
         [Next]_vars
  PROVE  Bounded(j, n)'
<1> USE DEF Bounded
<1>1. TypeOK /\ Reported(j) \in Nat
  BY ReportedType DEF Owned
<1>2. ASSUME events' = events, cancelled \subseteq cancelled',
             Passed(j)' => Passed(j)
      PROVE  Bounded(j, n)'
  <2>1. Reported(j)' = Reported(j)
    BY <1>2 DEF Reported
  <2> QED
    BY <2>1, <1>2
<1>3. ASSUME NEW i \in Jobs, NEW e \in EventTypes \ Callback, Emit(i, e),
             cancelled' = cancelled, Passed(j)' => Passed(j)
      PROVE  Bounded(j, n)'
  <2>1. Reported(j)' = Reported(j)
    BY <1>1, <1>3, EmitCount
  <2> QED
    BY <2>1, <1>3
<1>4. (Working \cup Terminal \cup {"queued", "self_test"})
        \subseteq EventTypes \ Callback
  BY DEF EventTypes, States, Working, Terminal, Callback
<1>5. CASE Caller /\ worker' = worker
  <2>1. Passed(j)' => Passed(j)
    BY <1>5 DEF Passed
  <2>2. ASSUME NEW i \in Jobs, NEW k \in Kinds, Create(i, k)
        PROVE  Bounded(j, n)'
    <3>1. Emit(i, "queued") /\ cancelled' = cancelled
      BY <2>2 DEF Create
    <3> QED
      BY <3>1, <2>1, <1>3, <1>4
  <2>3. CASE CancelEmit
    <3>1. loop.job \in Jobs /\ Emit(loop.job, "cancelled")
          /\ cancelled' = cancelled
      BY <2>3, <1>1 DEF CancelEmit, Owned, CallerInv, TypeOK
    <3> QED
      BY <3>1, <2>1, <1>3, <1>4 DEF Terminal
  <2>4. CASE events' = events /\ cancelled \subseteq cancelled'
    BY <2>1, <2>4, <1>2
  <2> QED
    BY <1>5, <2>2, <2>3, <2>4 DEF Caller, Locked, Insert, SubmitFull,
       SubmitCount, SubmitNoRoom, SubmitAccept, SubmitClosed, CancelFlag,
       CancelTooLate, CancelSettle, DiscardActive, DiscardSettled,
       ShutdownFlag, ShutdownPool, jobVars
<1>6. CASE Worker
  <2>1. cancelled' = cancelled
    BY <1>6 DEF Worker, WorkerTake, WorkerCancelled, WorkerBegin, WorkerWrite,
       WorkerAnnounce, WorkerSelfTest, CallbackCheck, CallbackEmit,
       CallbackLast, WorkerRaise, WorkerReturn, WorkerComplete,
       WorkerSettle, WorkerPublish
  <2>2. worker.pc # "idle" => worker.job \in Jobs
    BY DEF Owned, WorkerInv
  <2>3. CASE WorkerAnnounce
    <3>1. worker.pc = "announce" /\ Emit(worker.job, Here)
          /\ worker'.pc = "work"
      BY <2>3 DEF WorkerAnnounce, Doing, Step, Place
    <3>2. Here \in Working
      BY <3>1 DEF Announced
    <3> QED
      BY <3>1, <3>2, <2>1, <2>2, <1>3, <1>4 DEF Passed
  <2>4. CASE WorkerSelfTest
    <3>1. worker.pc = "work" /\ Emit(worker.job, "self_test")
          /\ worker'.pc = "work"
      BY <2>4 DEF WorkerSelfTest, AtStep, Doing, Step, Place
    <3> QED
      BY <3>1, <2>1, <2>2, <1>3, <1>4 DEF Passed
  <2>5. CASE WorkerPublish
    <3>1. worker.pc = "publish" /\ Emit(worker.job, worker.outcome)
          /\ worker'.pc = "idle"
      BY <2>5 DEF WorkerPublish, Doing, Idle
    <3>2. worker.outcome \in Terminal
      BY <3>1 DEF Owned, WorkerInv
    <3> QED
      BY <3>1, <3>2, <2>1, <2>2, <1>3, <1>4 DEF Passed
  <2>6. CASE CallbackEmit
    <3>1. worker.pc = "callback" /\ Emit(worker.job, Here)
          /\ worker'.pc = "work"
      BY <2>6 DEF CallbackEmit, Doing, Goto, Place
    <3>2. Here \in EventTypes
      <4>1. worker.at <= 5 /\ worker.at \in 1 .. 6
            /\ kind[worker.job] \in Kinds
        BY <3>1, <2>2, <1>1 DEF Owned, WorkerInv, TypeOK, Places
      <4>2. Here \in Working \cup Callback \cup {"self_test"}
        BY <4>1, ProgramType DEF Here
      <4> QED
        BY <4>2 DEF EventTypes, States
    <3>3. Reported(j)' =
            Reported(j) + (IF worker.job = j /\ Here \in Callback THEN 1 ELSE 0)
      BY <3>1, <3>2, <2>2, <1>1, EmitCount
    <3>4. ~Passed(j)'
      BY <3>1 DEF Passed
    <3>5. worker.job = j => Reported(j) <= n
      BY <3>1 DEF Passed
    <3> QED
      BY <3>3, <3>4, <3>5, <2>1, <1>1
  <2>7. CASE CallbackCheck
    <3>1. events' = events /\ worker.job \notin cancelled
          /\ worker'.job = worker.job
      BY <2>7 DEF CallbackCheck, Goto, Place
    <3> QED
      BY <3>1, <2>1, <1>2 DEF Passed
  <2>8. ASSUME NEW i \in Jobs, WorkerTake(i) PROVE Bounded(j, n)'
    <3>1. events' = events /\ worker'.pc = "check"
      BY <2>8 DEF WorkerTake
    <3> QED
      BY <3>1, <2>1, <1>2 DEF Passed
  <2>9. CASE \/ WorkerCancelled \/ WorkerBegin \/ WorkerWrite \/ CallbackLast
             \/ WorkerRaise \/ WorkerReturn \/ WorkerComplete \/ WorkerSettle
    <3>1. events' = events /\ worker'.pc # "callback"
      BY <2>9 DEF WorkerCancelled, WorkerBegin, WorkerWrite, CallbackLast,
         WorkerRaise, WorkerReturn, WorkerComplete, WorkerSettle, End, Goto,
         Step, Place
    <3> QED
      BY <3>1, <2>1, <1>2 DEF Passed
  <2> QED
    BY <1>6, <2>3, <2>4, <2>5, <2>6, <2>7, <2>8, <2>9 DEF Worker
<1>7. CASE UNCHANGED vars
  BY <1>7, <1>2 DEF vars, jobVars, poolVars, Passed
<1>8. Caller => worker' = worker
  BY DEF Caller, Locked, Insert, SubmitFull, SubmitCount, SubmitNoRoom,
     SubmitAccept, SubmitClosed, Create, CancelFlag, CancelTooLate,
     CancelSettle, CancelEmit, DiscardActive, DiscardSettled, ShutdownFlag,
     ShutdownPool, poolVars
<1> QED
  BY <1>5, <1>6, <1>7, <1>8 DEF Next

(* Cancellation is cooperative but it bites, for any number of jobs and     *)
(* any interleaving: a flagged job reports at most the token whose check   *)
(* had passed, and one flagged in the queue never works (_run, cancel and  *)
(* check_cancelled of web/jobs.py, the callbacks of web/app.py).           *)
THEOREM CancelEffective == Spec => CancelBites
<1>1. SUFFICES ASSUME NEW j \in Jobs
      PROVE  Spec =>
        /\ [](j \in cancelled /\ future[j] = "pending"
                => [](state[j] \notin Working))
        /\ \A n \in 0 .. MaxEvents - 6 :
             [](j \in cancelled /\ Reported(j) = n => [](Reported(j) <= n + 1))
  BY DEF CancelBites
<1>2. Spec => [](j \in cancelled /\ future[j] = "pending"
                   => [](state[j] \notin Working))
  <2>1. Owned /\ j \in cancelled /\ future[j] = "pending" => NeverWorks(j)
    BY DEF Owned, FutureInv, NeverWorks, Working
  <2>2. Owned /\ NeverWorks(j) /\ [Next]_vars => NeverWorks(j)'
    BY NeverWorksNext
  <2>3. NeverWorks(j) => state[j] \notin Working
    BY DEF NeverWorks
  <2> QED
    BY <2>1, <2>2, <2>3, AlwaysOwned, PTL DEF Spec
<1>3. ASSUME NEW n \in 0 .. MaxEvents - 6
      PROVE  Spec => [](j \in cancelled /\ Reported(j) = n
                          => [](Reported(j) <= n + 1))
  <2>1. Init => Announced
    BY DEF Init, Announced, Idle
  <2>2. Owned /\ Announced /\ j \in cancelled /\ Reported(j) = n => Bounded(j, n)
    BY DEF Bounded
  <2>3. Owned /\ Announced /\ Bounded(j, n) /\ [Next]_vars => Bounded(j, n)'
    BY BoundedNext, JobAssumption
  <2>4. Bounded(j, n) => Reported(j) <= n + 1
    BY DEF Bounded
  <2> QED
    BY <2>1, <2>2, <2>3, <2>4, AlwaysOwned, AnnouncedNext, PTL DEF Spec
<1> QED
  BY <1>2, <1>3
=============================================================================
