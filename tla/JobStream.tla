----------------------------- MODULE JobStream ------------------------------
(***************************************************************************)
(* The readers of a job: the server-sent event stream of web/app.py, whose *)
(* calls of Job.wait run in threads of their own, and the GET that reads   *)
(* the public view of a job.  The module composes them with JobManager:    *)
(* whatever appends an event notifies the readers blocked on that job.     *)
(***************************************************************************)
EXTENDS JobManager

CONSTANTS
  Clients,    \* the readers
  Cursors     \* the cursors a client may ask for

ASSUME CursorAssumption == Cursors \subseteq Nat

VARIABLE stream   \* a reader: its place, its job, what it holds and received

streamVars == <<vars, stream>>

Steps == {"none", "wait", "blocked", "woken", "yield", "test", "ended",
          "body", "answered"}

NoView  == [state |-> "none", result |-> FALSE, error |-> FALSE]
Unread  == [pc |-> "none", job |-> NoJob, cursor |-> 0, pos |-> 0,
            batch |-> <<>>, terminal |-> FALSE, sent |-> <<>>,
            view |-> NoView, streamed |-> FALSE]

StreamInit == Init /\ stream = [c \in Clients |-> Unread]

At(c, p) == stream[c].pc = p
Log(c)   == events[stream[c].job]

-----------------------------------------------------------------------------
(* Mutant of Open: the cursor is taken for the last event seen. *)
OpenAfter(c, j, cursor) ==
  /\ At(c, "none") /\ loop = Free /\ j \in retained
  /\ stream' = [stream EXCEPT ![c] = [Unread EXCEPT
                  !.pc = "wait", !.job = j, !.cursor = cursor,
                  !.pos = cursor - 1, !.streamed = TRUE]]

(* GET /jobs/{id}/events: require_job, then the generator starts at cursor. *)
Open(c, j, cursor) ==
  /\ At(c, "none") /\ loop = Free /\ j \in retained
  /\ stream' = [stream EXCEPT ![c] = [Unread EXCEPT
                  !.pc = "wait", !.job = j, !.cursor = cursor, !.pos = cursor,
                  !.streamed = TRUE]]

(* Job.wait blocks when it has nothing to return and the job is not settled. *)
Block(c) ==
  /\ At(c, "wait")
  /\ stream[c].pos >= Len(Log(c)) /\ ~Settled(stream[c].job)
  /\ stream' = [stream EXCEPT ![c].pc = "blocked"]

(* The 15 second limit of Condition.wait. *)
Timeout(c) ==
  /\ At(c, "blocked")
  /\ stream' = [stream EXCEPT ![c].pc = "woken"]

(* Mutant of Collect: an empty batch ends the stream. *)
CollectOnce(c) ==
  /\ At(c, "woken") \/ (At(c, "wait") /\ stream[c].pos < Len(Log(c)))
  /\ LET batch == SubSeq(Log(c), stream[c].pos + 1, Len(Log(c)))
     IN  stream' = [stream EXCEPT
           ![c].batch = batch, ![c].terminal = Settled(stream[c].job),
           ![c].pc = IF batch # <<>> THEN "yield" ELSE "ended"]

(* Job.wait returns a copy of the log from the position on, and whether the *)
(* job is settled.  Nothing and settled: the stream ends.  Nothing and not  *)
(* settled: a keepalive is sent and the loop goes on.                       *)
Collect(c) ==
  /\ \/ At(c, "woken")
     \/ At(c, "wait") /\ ~ (stream[c].pos >= Len(Log(c))
                            /\ ~Settled(stream[c].job))
  /\ LET batch == SubSeq(Log(c), stream[c].pos + 1, Len(Log(c)))
         done  == Settled(stream[c].job)
     IN  stream' = [stream EXCEPT
           ![c].batch = batch, ![c].terminal = done,
           ![c].pc = IF batch # <<>> THEN "yield"
                     ELSE IF done THEN "ended" ELSE "wait"]

(* Mutant of Yield: the position jumps to the end of the log. *)
YieldJump(c) ==
  /\ At(c, "yield")
  /\ stream' = [stream EXCEPT ![c].sent = @ \o stream[c].batch,
                              ![c].pos = Len(Log(c)),
                              ![c].batch = <<>>, ![c].pc = "test"]

Yield(c) ==
  /\ At(c, "yield")
  /\ stream' = [stream EXCEPT ![c].sent = @ \o stream[c].batch,
                              ![c].pos = @ + Len(stream[c].batch),
                              ![c].batch = <<>>, ![c].pc = "test"]

(* Mutant of Test: the stream ends when it has caught up. *)
TestCaughtUp(c) ==
  /\ At(c, "test")
  /\ stream' = [stream EXCEPT
       ![c].pc = IF stream[c].pos >= Len(Log(c)) THEN "ended" ELSE "wait"]

(* The log may have grown, and the job settled, since the batch was taken. *)
Test(c) ==
  /\ At(c, "test")
  /\ stream' = [stream EXCEPT
       ![c].pc = IF stream[c].terminal /\ stream[c].pos >= Len(Log(c))
                 THEN "ended" ELSE "wait"]

(* GET /jobs/{id}: 404 for a job that left the history, or its public view, *)
(* which reads the state once for "state"...                               *)
Fetch(c, j) ==
  /\ loop = Free
  /\ At(c, "none") \/ (At(c, "ended") /\ stream[c].job = j)
  /\ stream' = [stream EXCEPT
       ![c].job = j,
       ![c].view.state = IF j \in retained THEN state[j] ELSE "missing",
       ![c].pc = IF j \in retained THEN "body" ELSE "answered"]

(* ... and again for the result and for the error. *)
FetchBody(c) ==
  /\ At(c, "body")
  /\ LET j == stream[c].job
     IN  stream' = [stream EXCEPT
           ![c].view.result = state[j] = "complete" /\ j \in result,
           ![c].view.error = state[j] = "failed" /\ j \in error,
           ![c].pc = "answered"]

-----------------------------------------------------------------------------
(* Mutant of Notify: nobody is notified. *)
NotifyNobody == UNCHANGED stream

(* Job.emit ends with notify_all. *)
Notify ==
  stream' = [c \in Clients |->
    IF At(c, "blocked") /\ events'[stream[c].job] # Log(c)
    THEN [stream[c] EXCEPT !.pc = "woken"] ELSE stream[c]]

Serve(c) == Block(c) \/ Collect(c) \/ Yield(c) \/ Test(c) \/ FetchBody(c)

Read(c) ==
  /\ \/ Serve(c)
     \/ Timeout(c)
     \/ \E j \in Jobs : Fetch(c, j) \/ \E k \in Cursors : Open(c, j, k)
  /\ UNCHANGED vars

StreamNext == (Next /\ Notify) \/ \E c \in Clients : Read(c)

StreamSpec == StreamInit /\ [][StreamNext]_streamVars

(* The stream's threads run; its 15 second timeout is not relied on. *)
StreamFairSpec ==
  /\ StreamSpec
  /\ WF_streamVars(Worker /\ Notify)
  /\ WF_streamVars(Locked /\ Notify)
  /\ \A c \in Clients : WF_streamVars(Serve(c) /\ UNCHANGED vars)

-----------------------------------------------------------------------------
StreamTypeOK ==
  stream \in [Clients ->
    [pc : Steps, job : Jobs \cup {NoJob}, cursor : Nat, pos : Nat,
     batch : Seq(EventTypes), terminal : BOOLEAN, sent : Seq(EventTypes),
     view : [state : {"none", "missing"} \cup States,
             result : BOOLEAN, error : BOOLEAN],
     streamed : BOOLEAN]]

(* A stream is faithful: what a client has received is exactly the job's   *)
(* log from its cursor to its position, in order, without gap or repeat.   *)
StreamFaithful ==
  \A c \in Clients :
    stream[c].streamed =>
      stream[c].sent = SubSeq(Log(c), stream[c].cursor + 1, stream[c].pos)

(* A stream that ends has told everything that happened before the job     *)
(* settled.  Only the announcement of the outcome may be missing, as       *)
(* transition writes the state before it appends the event; the job is     *)
(* settled by then, so the GET that follows tells the outcome.             *)
EndMissesOnlyOutcome ==
  \A c \in Clients :
    At(c, "ended") =>
      /\ Settled(stream[c].job)
      /\ \A i \in stream[c].pos + 1 .. Len(Log(c)) : Log(c)[i] \in Terminal

(* The page reads the job once its stream ended and takes any state but    *)
(* complete for a failure: the view is never that of a job still running,  *)
(* and a view that says complete or failed carries the result or error.    *)
ViewTells ==
  \A c \in Clients :
    At(c, "answered") =>
      /\ stream[c].streamed => stream[c].view.state \in Terminal \cup {"missing"}
      /\ stream[c].view.state = "complete" => stream[c].view.result
      /\ stream[c].view.state = "failed" => stream[c].view.error

(* Every stream ends, unless the server shuts down: no notification is lost *)
(* between the moment Job.wait looks at the log and the moment it blocks.  *)
StreamEnds ==
  \A c \in Clients : At(c, "wait") ~> At(c, "ended") \/ pool = "closed"
=============================================================================
