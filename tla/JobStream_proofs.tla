--------------------------- MODULE JobStream_proofs ---------------------------
(***************************************************************************)
(* The readers of a job, for any number of readers, jobs and cursors: what *)
(* a reader knows at each place of its loop stays true while the log grows *)
(* under it, because a log only grows and a settled job's log only by the  *)
(* announcement of its outcome.                                            *)
(***************************************************************************)
EXTENDS JobStream, JobManager_proofs

(* The log past n tells nothing but the outcome. *)
OnlyOutcome(s, n) == \A i \in n + 1 .. Len(s) : s[i] \in Terminal

(* What the thread of one reader knows at each place of its loop. *)
ReaderInv(c) ==
  LET s == stream[c]
  IN  /\ s.pc # "none" => s.job \in Jobs
      /\ s.pc \in {"wait", "blocked", "woken", "yield", "test"} => s.streamed
      /\ s.pc = "none" => ~s.streamed
      /\ s.streamed => /\ s.cursor <= s.pos
                       /\ s.pos = s.cursor \/ s.pos <= Len(Log(c))
                       /\ s.sent = SubSeq(Log(c), s.cursor + 1, s.pos)
      /\ s.pc = "yield" =>
           /\ s.pos + Len(s.batch) <= Len(Log(c))
           /\ s.batch = SubSeq(Log(c), s.pos + 1, s.pos + Len(s.batch))
           /\ s.terminal => /\ Settled(s.job)
                            /\ OnlyOutcome(Log(c), s.pos + Len(s.batch))
      /\ (s.pc = "test" /\ s.terminal) \/ s.pc = "ended" =>
           Settled(s.job) /\ OnlyOutcome(Log(c), s.pos)
      /\ s.pc = "body" =>
           /\ s.streamed => s.view.state \in Terminal
           /\ s.view.state \in Terminal => s.view.state = state[s.job]
      /\ s.pc = "answered" =>
           /\ s.streamed => s.view.state \in Terminal \cup {"missing"}
           /\ s.view.state = "complete" => s.view.result
           /\ s.view.state = "failed" => s.view.error

ReadersInv == \A c \in Clients : ReaderInv(c)

StreamOwned == Owned /\ StreamTypeOK /\ ReadersInv

-----------------------------------------------------------------------------
(* The log *)

(* A step leaves a log as it is or appends to it, and to the log of a      *)
(* settled job only the event that tells the outcome.                      *)
Grows(j) ==
  \/ events'[j] = events[j]
  \/ \E e \in EventTypes : /\ events'[j] = Append(events[j], e)
                           /\ Settled(j) => e \in Terminal

LEMMA EmitGrows ==
  ASSUME TypeOK, NEW i \in Jobs, NEW e \in EventTypes, Emit(i, e),
         Settled(i) => e \in Terminal, NEW j \in Jobs
  PROVE  Grows(j)
BY DEF TypeOK, Emit, Grows

(* Create is for a job that is still queued, and the worker's job is not   *)
(* settled before it publishes.                                            *)
LEMMA LogGrows == Owned /\ [Next]_vars => \A j \in Jobs : Grows(j)
<1> SUFFICES ASSUME Owned, [Next]_vars, NEW j \in Jobs PROVE Grows(j)
  OBVIOUS
<1>0. CASE events' = events
  BY <1>0 DEF Grows
<1>1. ASSUME NEW i \in Jobs, NEW k \in Kinds, Create(i, k) PROVE Grows(j)
  <2>1. state[i] = "queued"
    BY <1>1 DEF Create, Owned, FutureInv
  <2>2. ~Settled(i) /\ "queued" \in EventTypes
    BY <2>1 DEF Settled, Terminal, EventTypes, States
  <2>3. Emit(i, "queued")
    BY <1>1 DEF Create
  <2> QED
    BY <2>2, <2>3, EmitGrows DEF Owned
<1>2. CASE CancelEmit
  <2>1. loop.job \in Jobs /\ Emit(loop.job, "cancelled")
    BY <1>2 DEF CancelEmit, Owned, CallerInv, TypeOK
  <2>2. "cancelled" \in EventTypes \cap Terminal
    BY DEF EventTypes, States, Terminal
  <2> QED
    BY <2>1, <2>2, EmitGrows DEF Owned
<1>3. CASE WorkerAnnounce \/ WorkerSelfTest \/ CallbackEmit
  <2>1. /\ worker.job \in Jobs /\ ~Settled(worker.job) /\ worker.at \in 1..6
        /\ Emit(worker.job, Here)
    BY <1>3 DEF WorkerAnnounce, WorkerSelfTest, CallbackEmit, AtStep, Doing,
       Owned, WorkerInv, Settled, TypeOK, Places
  <2>2. kind[worker.job] \in Kinds
    BY <2>1 DEF Owned, TypeOK
  <2>3. worker.at <= 5
    BY <1>3, <2>1, <2>2, ProgramType DEF WorkerAnnounce, WorkerSelfTest,
       CallbackEmit, AtStep, Doing, Owned, WorkerInv
  <2>4. Here \in EventTypes
    BY <2>1, <2>2, <2>3, ProgramType DEF Here, EventTypes, States
  <2> QED
    BY <2>1, <2>4, EmitGrows DEF Owned
<1>4. CASE WorkerPublish
  <2>1. /\ worker.job \in Jobs /\ worker.outcome \in Terminal
        /\ Emit(worker.job, worker.outcome)
    BY <1>4 DEF WorkerPublish, Doing, Owned, WorkerInv
  <2>2. worker.outcome \in EventTypes
    BY <2>1 DEF EventTypes, States
  <2> QED
    BY <2>1, <2>2, EmitGrows DEF Owned
<1>5. CASE Caller
  BY <1>0, <1>1, <1>2, <1>5 DEF Caller, Locked, Insert, SubmitFull,
     SubmitCount, SubmitNoRoom, SubmitAccept, SubmitClosed, CancelFlag,
     CancelTooLate, CancelSettle, DiscardActive, DiscardSettled,
     ShutdownFlag, ShutdownPool, jobVars
<1>6. CASE Worker
  BY <1>0, <1>3, <1>4, <1>6 DEF Worker, WorkerTake, WorkerCancelled,
     WorkerBegin, WorkerWrite, CallbackCheck, CallbackLast, WorkerRaise,
     WorkerReturn, WorkerComplete, WorkerSettle
<1> QED
  BY <1>0, <1>5, <1>6 DEF Next, vars, jobVars

(* What was read of a log stays what it was. *)
LEMMA GrownSubSeq ==
  ASSUME NEW S, NEW s \in Seq(S), NEW e \in S,
         NEW m \in Nat, NEW n \in Nat, n <= m \/ n <= Len(s)
  PROVE  SubSeq(Append(s, e), m + 1, n) = SubSeq(s, m + 1, n)
<1> DEFINE t == Append(s, e)
<1>1. t \in Seq(S) /\ Len(t) = Len(s) + 1 /\ \A i \in 1..Len(s) : t[i] = s[i]
  BY AppendProperties
<1>2. CASE n <= m
  BY <1>2, SubSeqEmpty
<1>3. CASE n <= Len(s)
  <2> HIDE DEF t
  <2>1. \A i \in m + 1 .. n : s[i] \in S /\ t[i] = s[i]
    BY <1>1, <1>3
  <2>2. /\ SubSeq(t, m + 1, n) \in Seq(S) /\ SubSeq(s, m + 1, n) \in Seq(S)
        /\ Len(SubSeq(t, m + 1, n)) = Len(SubSeq(s, m + 1, n))
        /\ \A i \in 1 .. Len(SubSeq(s, m + 1, n)) :
             SubSeq(t, m + 1, n)[i] = SubSeq(s, m + 1, n)[i]
    BY <2>1, SubSeqProperties
  <2> QED
    BY <2>2, SeqEqual DEF t
<1> QED
  BY <1>2, <1>3

-----------------------------------------------------------------------------
(* The readers *)

Readers ==
  [pc : Steps, job : Jobs \cup {NoJob}, cursor : Nat, pos : Nat,
   batch : Seq(EventTypes), terminal : BOOLEAN, sent : Seq(EventTypes),
   view : [state : {"none", "missing"} \cup States,
           result : BOOLEAN, error : BOOLEAN],
   streamed : BOOLEAN]

LEMMA UnreadType == Unread \in Readers
<1>1. <<>> \in Seq(EventTypes)
  BY EmptySeq
<1> QED
  BY <1>1 DEF Unread, NoView, Readers, Steps

LEMMA StreamOwnedInit == StreamInit => StreamOwned
<1> SUFFICES ASSUME StreamInit PROVE StreamTypeOK /\ ReadersInv
  BY OwnedInit DEF StreamOwned, StreamInit
<1>1. \A c \in Clients : stream[c] = Unread /\ Unread \in Readers
  BY UnreadType DEF StreamInit
<1>2. StreamTypeOK
  BY UnreadType DEF StreamInit, StreamTypeOK, Readers
<1>3. ReadersInv
  BY <1>1 DEF ReadersInv, ReaderInv, Unread
<1> QED
  BY <1>2, <1>3

(* A reader's step is its own. *)
LEMMA OneReader ==
  ASSUME StreamTypeOK, ReadersInv, UNCHANGED vars, NEW c \in Clients,
         NEW v \in Readers, stream' = [stream EXCEPT ![c] = v], ReaderInv(c)'
  PROVE  StreamTypeOK' /\ ReadersInv'
<1>1. StreamTypeOK'
  BY DEF StreamTypeOK, Readers
<1>2. ASSUME NEW d \in Clients \ {c} PROVE ReaderInv(d)'
  <2>1. stream'[d] = stream[d]
    BY DEF StreamTypeOK
  <2> QED
    BY <2>1 DEF ReadersInv, ReaderInv, Log, Settled, vars, jobVars
<1> QED
  BY <1>1, <1>2 DEF ReadersInv

LEMMA Blocks ==
  ASSUME Owned, StreamTypeOK, ReadersInv, UNCHANGED vars, NEW c \in Clients,
         Block(c) \/ Timeout(c)
  PROVE  StreamTypeOK' /\ ReadersInv'
<1>1. PICK p \in {"blocked", "woken"} :
        /\ stream[c].pc \in {"wait", "blocked"}
        /\ stream' = [stream EXCEPT ![c].pc = p]
  BY DEF Block, Timeout, At
<1> DEFINE v == [stream[c] EXCEPT !.pc = p]
<1>2. stream[c] \in Readers
  BY DEF StreamTypeOK, Readers
<1>3. v \in Readers /\ stream' = [stream EXCEPT ![c] = v] /\ stream'[c] = v
  BY <1>1, <1>2 DEF StreamTypeOK, Readers, Steps
<1>4. ReaderInv(c)
  BY DEF ReadersInv
<1>5. ReaderInv(c)'
  BY <1>1, <1>2, <1>3, <1>4 DEF ReaderInv, Log, Readers, vars, jobVars
<1> QED
  BY <1>3, <1>5, OneReader

LEMMA Opens ==
  ASSUME Owned, StreamTypeOK, ReadersInv, UNCHANGED vars, NEW c \in Clients,
         NEW j \in Jobs, NEW k \in Cursors, Open(c, j, k)
  PROVE  StreamTypeOK' /\ ReadersInv'
<1> DEFINE v == [Unread EXCEPT !.pc = "wait", !.job = j, !.cursor = k,
                               !.pos = k, !.streamed = TRUE]
<1>1. stream' = [stream EXCEPT ![c] = v] /\ k \in Nat
  BY CursorAssumption DEF Open
<1>2. v \in Readers /\ stream'[c] = v
  BY <1>1, UnreadType DEF StreamTypeOK, Readers, Steps
<1>3. SubSeq(events[j], k + 1, k) = <<>>
  BY <1>1, SubSeqEmpty
<1>4. /\ stream'[c].pc = "wait" /\ stream'[c].job = j
      /\ stream'[c].cursor = k /\ stream'[c].pos = k
      /\ stream'[c].streamed = TRUE /\ stream'[c].sent = <<>>
  BY <1>2 DEF Unread
<1>5. ReaderInv(c)'
  <2> HIDE DEF v
  <2> QED
    <3>1. events' = events /\ k <= k
      BY <1>1 DEF vars, jobVars
    <3> QED
      BY <3>1, <1>3, <1>4 DEF ReaderInv, Log
<1> QED
  BY <1>1, <1>2, <1>5, OneReader

(* The reader c takes the batch b, finds the job settled or not, goes to p. *)
Takes(c, b, d, p) ==
  stream' = [stream EXCEPT ![c].batch = b, ![c].terminal = d, ![c].pc = p]

LEMMA BatchTaken ==
  ASSUME StreamTypeOK, NEW c \in Clients, NEW b \in Seq(EventTypes),
         NEW d \in BOOLEAN, NEW p \in Steps, Takes(c, b, d, p)
  PROVE  \E v \in Readers :
           /\ stream' = [stream EXCEPT ![c] = v] /\ stream'[c] = v
           /\ v.pc = p /\ v.batch = b /\ v.terminal = d
           /\ v.job = stream[c].job /\ v.cursor = stream[c].cursor
           /\ v.pos = stream[c].pos /\ v.sent = stream[c].sent
           /\ v.streamed = stream[c].streamed
<1> DEFINE s == stream[c]
           v == [s EXCEPT !.batch = b, !.terminal = d, !.pc = p]
<1>1. s \in Readers /\ c \in DOMAIN stream
  BY DEF StreamTypeOK, Readers
<1>2. stream' = [stream EXCEPT ![c] = v]
  BY DEF Takes
<1>3. v \in Readers
  BY <1>1 DEF Readers
<1>4. /\ v.pc = p /\ v.batch = b /\ v.terminal = d
      /\ v.job = stream[c].job /\ v.cursor = stream[c].cursor
      /\ v.pos = stream[c].pos /\ v.sent = stream[c].sent
      /\ v.streamed = stream[c].streamed
  BY <1>1 DEF Readers
<1>5. stream'[c] = v
  <2> HIDE DEF v
  <2> QED
    BY <1>1, <1>2
<1> QED
  <2> HIDE DEF v
  <2> QED
    BY <1>2, <1>3, <1>4, <1>5

(* What Collect takes is the log from the position to its end, so nothing  *)
(* is left of it at that moment.                                           *)
LEMMA Collects ==
  ASSUME Owned, StreamTypeOK, ReadersInv, UNCHANGED vars, NEW c \in Clients,
         Collect(c)
  PROVE  StreamTypeOK' /\ ReadersInv'
<1> DEFINE s == stream[c]
           log == events[s.job]
           done == Settled(s.job)
           batch == SubSeq(log, s.pos + 1, Len(log))
           p == IF batch # <<>> THEN "yield" ELSE IF done THEN "ended" ELSE "wait"
<1>1. /\ stream' = [stream EXCEPT ![c].batch = batch, ![c].terminal = done,
                                  ![c].pc = p]
      /\ s.pc \in {"wait", "woken"}
  BY DEF Collect, Log, At
<1>2. s \in Readers /\ ReaderInv(c)
  BY DEF StreamTypeOK, Readers, ReadersInv
<1>3. s.job \in Jobs /\ s.streamed /\ s.pos \in Nat
  BY <1>1, <1>2 DEF ReaderInv, Readers
<1>4. log \in Seq(EventTypes) /\ Len(log) \in Nat
  BY <1>3, LenProperties DEF Owned, TypeOK
<1>5. /\ batch \in Seq(EventTypes) /\ Len(batch) \in Nat
      /\ s.pos >= Len(log) => Len(batch) = 0
      /\ s.pos < Len(log) => s.pos + Len(batch) = Len(log)
  <2>1. \A i \in s.pos + 1 .. Len(log) : log[i] \in EventTypes
    BY <1>3, <1>4, ElementOfSeq
  <2>2. /\ batch \in Seq(EventTypes)
        /\ Len(batch) = IF s.pos + 1 <= Len(log)
                        THEN Len(log) - (s.pos + 1) + 1 ELSE 0
    BY <2>1, <1>3, <1>4, SubSeqProperties
  <2> HIDE DEF batch, log, s
  <2> QED
    BY <2>2, <1>3, <1>4
<1>6. IF s.pos < Len(log) THEN p = "yield" ELSE p = IF done THEN "ended" ELSE "wait"
  <2>1. Len(batch) = 0 <=> batch = <<>>
    <3> HIDE DEF batch
    <3> QED
      BY <1>5, EmptySeq
  <2> HIDE DEF batch, log, s
  <2> QED
    BY <2>1, <1>3, <1>4, <1>5
<1>7. PICK v \in Readers :
        /\ stream' = [stream EXCEPT ![c] = v] /\ stream'[c] = v
        /\ v.pc = p /\ v.batch = batch /\ v.terminal = done
        /\ v.job = s.job /\ v.cursor = s.cursor
        /\ v.pos = s.pos /\ v.sent = s.sent
        /\ v.streamed = s.streamed
  <2>1. PICK b \in Seq(EventTypes), d \in BOOLEAN, q \in Steps :
          b = batch /\ d = done /\ q = p
    <3>1. done \in BOOLEAN /\ p \in Steps
      BY DEF Settled, Steps
    <3> HIDE DEF batch, done, p
    <3> QED
      BY <3>1, <1>5
  <2>2. Takes(c, b, d, q)
    BY <2>1, <1>1 DEF Takes
  <2>3. \E v \in Readers :
          /\ stream' = [stream EXCEPT ![c] = v] /\ stream'[c] = v
          /\ v.pc = q /\ v.batch = b /\ v.terminal = d
          /\ v.job = stream[c].job /\ v.cursor = stream[c].cursor
          /\ v.pos = stream[c].pos /\ v.sent = stream[c].sent
          /\ v.streamed = stream[c].streamed
    BY <2>2, BatchTaken
  <2> HIDE DEF batch, done, p
  <2> QED
    BY <2>1, <2>3
<1>8. events' = events /\ state' = state
  BY DEF vars, jobVars
<1>9. ReaderInv(c)'
  <2> SUFFICES /\ v.pc = "yield" =>
                    /\ v.pos + Len(v.batch) <= Len(log)
                    /\ v.batch = SubSeq(log, v.pos + 1, v.pos + Len(v.batch))
                    /\ v.terminal => OnlyOutcome(log, v.pos + Len(v.batch))
               /\ v.pc = "ended" => done /\ OnlyOutcome(log, v.pos)
    <3>1. v.pc \in {"yield", "ended", "wait"}
      BY <1>7
    <3> HIDE DEF batch, p
    <3> QED
      BY <3>1, <1>2, <1>3, <1>7, <1>8 DEF ReaderInv, Log, Settled
  <2>1. ASSUME v.pc = "yield"
        PROVE  /\ v.pos + Len(v.batch) <= Len(log)
               /\ v.batch = SubSeq(log, v.pos + 1, v.pos + Len(v.batch))
               /\ OnlyOutcome(log, v.pos + Len(v.batch))
    <3>1. v.pos + Len(v.batch) = Len(log)
      <4> HIDE DEF batch, log, done
      <4> QED
        BY <2>1, <1>5, <1>6, <1>7
    <3>2. v.batch = SubSeq(log, v.pos + 1, v.pos + Len(v.batch))
      BY <3>1, <1>7
    <3> QED
      BY <3>1, <3>2, <1>4 DEF OnlyOutcome
  <2>2. ASSUME v.pc = "ended" PROVE done /\ OnlyOutcome(log, v.pos)
    <3>1. done /\ s.pos >= Len(log)
      <4> HIDE DEF log, done, batch
      <4> QED
        BY <2>2, <1>3, <1>4, <1>6, <1>7
    <3> QED
      BY <3>1, <1>3, <1>4, <1>7 DEF OnlyOutcome
  <2> QED
    BY <2>1, <2>2
<1> QED
  BY <1>7, <1>9, OneReader

LEMMA Yields ==
  ASSUME Owned, StreamTypeOK, ReadersInv, UNCHANGED vars, NEW c \in Clients,
         Yield(c)
  PROVE  StreamTypeOK' /\ ReadersInv'
<1> DEFINE s == stream[c]
           log == events[s.job]
           n == s.pos + Len(s.batch)
           v == [s EXCEPT !.sent = s.sent \o s.batch, !.pos = n,
                          !.batch = <<>>, !.pc = "test"]
<1>1. stream' = [stream EXCEPT ![c] = v] /\ s.pc = "yield"
  BY DEF Yield, At
<1>2. s \in Readers /\ ReaderInv(c)
  BY DEF StreamTypeOK, Readers, ReadersInv
<1>3. /\ s.job \in Jobs /\ s.streamed /\ s.pos \in Nat /\ s.cursor \in Nat
      /\ s.batch \in Seq(EventTypes) /\ s.sent \in Seq(EventTypes)
      /\ Len(s.batch) \in Nat
  BY <1>1, <1>2, LenProperties DEF ReaderInv, Readers
<1>4. log \in Seq(EventTypes) /\ Len(log) \in Nat
  BY <1>3, LenProperties DEF Owned, TypeOK
<1>5. /\ s.cursor <= s.pos
      /\ s.sent = SubSeq(log, s.cursor + 1, s.pos)
      /\ n <= Len(log) /\ s.batch = SubSeq(log, s.pos + 1, n)
      /\ s.terminal => Settled(s.job) /\ OnlyOutcome(log, n)
  BY <1>1, <1>2, <1>3 DEF ReaderInv, Log
<1>6. s.sent \o s.batch = SubSeq(log, s.cursor + 1, n)
  <2>1. /\ s.cursor + 1 \in 1 .. Len(log) + 1
        /\ s.pos \in (s.cursor + 1) - 1 .. Len(log)
        /\ n \in s.pos .. Len(log)
    <3>1. s.pos <= n
      BY <1>3
    <3> HIDE DEF log, n
    <3>2. PICK a \in Nat, b \in Nat, l \in Nat :
            a = s.cursor /\ b = s.pos /\ l = Len(log)
      BY <1>3, <1>4
    <3>3. PICK m \in Nat : m = n
      BY <1>3 DEF n
    <3>4. a <= b /\ b <= m /\ m <= l
      BY <3>1, <3>2, <3>3, <1>5
    <3>5. a + 1 \in 1 .. l + 1 /\ b \in (a + 1) - 1 .. l /\ m \in b .. l
      BY <3>4
    <3> QED
      BY <3>2, <3>3, <3>5
  <2> HIDE DEF log, n
  <2> QED
    BY <2>1, <1>4, <1>5, ConcatAdjacentSubSeq
<1>7. v \in Readers /\ stream'[c] = v
  <2>1. <<>> \in Seq(EventTypes) /\ s.sent \o s.batch \in Seq(EventTypes)
    BY <1>3, EmptySeq, ConcatProperties
  <2>2. n \in Nat
    BY <1>3
  <2> HIDE DEF n
  <2> QED
    BY <2>1, <2>2, <1>1, <1>2 DEF StreamTypeOK, Readers, Steps
<1>8. /\ v.pc = "test" /\ v.job = s.job /\ v.pos = n /\ v.cursor = s.cursor
      /\ v.sent = s.sent \o s.batch /\ v.streamed = s.streamed
      /\ v.terminal = s.terminal
  BY <1>2 DEF Readers
<1>9. events' = events /\ state' = state
  BY DEF vars, jobVars
<1>10. ReaderInv(c)'
  <2>1. s.cursor <= n
    <3> HIDE DEF log
    <3> QED
      BY <1>3, <1>5
  <2> HIDE DEF v, n
  <2> QED
    BY <1>3, <1>5, <1>6, <1>7, <1>8, <1>9, <2>1 DEF ReaderInv, Log, Settled
<1> QED
  BY <1>1, <1>7, <1>10, OneReader

(* The log may have grown since the batch was taken, but a job that was    *)
(* settled then has only told its outcome.                                 *)
LEMMA Tests ==
  ASSUME Owned, StreamTypeOK, ReadersInv, UNCHANGED vars, NEW c \in Clients,
         Test(c)
  PROVE  StreamTypeOK' /\ ReadersInv'
<1>1. PICK p \in {"ended", "wait"} :
        /\ stream[c].pc = "test"
        /\ p = "ended" => stream[c].terminal
        /\ stream' = [stream EXCEPT ![c].pc = p]
  BY DEF Test, At
<1> DEFINE v == [stream[c] EXCEPT !.pc = p]
<1>2. stream[c] \in Readers
  BY DEF StreamTypeOK, Readers
<1>3. v \in Readers /\ stream' = [stream EXCEPT ![c] = v] /\ stream'[c] = v
  BY <1>1, <1>2 DEF StreamTypeOK, Readers, Steps
<1>4. ReaderInv(c)
  BY DEF ReadersInv
<1>5. ReaderInv(c)'
  BY <1>1, <1>2, <1>3, <1>4 DEF ReaderInv, Log, Settled, Readers, vars, jobVars
<1> QED
  BY <1>3, <1>5, OneReader

LEMMA Fetches ==
  ASSUME Owned, StreamTypeOK, ReadersInv, UNCHANGED vars, NEW c \in Clients,
         NEW j \in Jobs, Fetch(c, j)
  PROVE  StreamTypeOK' /\ ReadersInv'
<1> DEFINE s == stream[c]
<1>1. PICK p \in {"body", "answered"}, x \in States \cup {"missing"} :
        /\ s.pc = "none" \/ (s.pc = "ended" /\ s.job = j)
        /\ p = "body" => x = state[j]
        /\ p = "answered" => x = "missing"
        /\ stream' = [stream EXCEPT ![c].job = j, ![c].view.state = x,
                                    ![c].pc = p]
  BY DEF Fetch, At, Owned, TypeOK
<1> DEFINE v == [s EXCEPT !.job = j, !.view = [s.view EXCEPT !.state = x],
                          !.pc = p]
<1>2. s \in Readers /\ ReaderInv(c)
  BY DEF StreamTypeOK, Readers, ReadersInv
<1>3. v \in Readers /\ stream' = [stream EXCEPT ![c] = v] /\ stream'[c] = v
  BY <1>1, <1>2 DEF StreamTypeOK, Readers, Steps
<1>4. /\ v.pc = p /\ v.job = j /\ v.view.state = x /\ v.cursor = s.cursor
      /\ v.pos = s.pos /\ v.sent = s.sent /\ v.streamed = s.streamed
  BY <1>2 DEF Readers
<1>5. events' = events /\ state' = state
  BY DEF vars, jobVars
<1>6. s.streamed => s.job = j /\ Settled(j)
  BY <1>1, <1>2 DEF ReaderInv
<1>7. "missing" \notin Terminal
  BY DEF Terminal
<1>8. ReaderInv(c)'
  <2> HIDE DEF v
  <2>1. CASE p = "body"
    BY <2>1, <1>1, <1>2, <1>3, <1>4, <1>5, <1>6 DEF ReaderInv, Log, Settled
  <2>2. CASE p = "answered"
    BY <2>2, <1>1, <1>2, <1>3, <1>4, <1>5, <1>6, <1>7 DEF ReaderInv, Log, Settled
  <2> QED
    BY <2>1, <2>2
<1> QED
  BY <1>3, <1>8, OneReader

(* The state read by Fetch is still the job's if it was final, and then    *)
(* what public() adds to it is there.                                      *)
LEMMA FetchesBody ==
  ASSUME Owned, StreamTypeOK, ReadersInv, UNCHANGED vars, NEW c \in Clients,
         FetchBody(c)
  PROVE  StreamTypeOK' /\ ReadersInv'
<1> DEFINE s == stream[c]
           j == s.job
<1>1. PICK x \in BOOLEAN, y \in BOOLEAN :
        /\ s.pc = "body"
        /\ x = (state[j] = "complete" /\ j \in result)
        /\ y = (state[j] = "failed" /\ j \in error)
        /\ stream' = [stream EXCEPT ![c].view.result = x,
                                    ![c].view.error = y, ![c].pc = "answered"]
  BY DEF FetchBody, At
<1> DEFINE v == [s EXCEPT !.view = [s.view EXCEPT !.result = x, !.error = y],
                          !.pc = "answered"]
<1>2. s \in Readers /\ ReaderInv(c)
  BY DEF StreamTypeOK, Readers, ReadersInv
<1>3. v \in Readers /\ stream' = [stream EXCEPT ![c] = v] /\ stream'[c] = v
  <2>1. [s.view EXCEPT !.result = x, !.error = y] \in
          [state : {"none", "missing"} \cup States,
           result : BOOLEAN, error : BOOLEAN]
    BY <1>2 DEF Readers
  <2>2. v \in Readers
    BY <2>1, <1>2 DEF Readers, Steps
  <2>3. [[[s EXCEPT !.view.result = x] EXCEPT !.view.error = y]
           EXCEPT !.pc = "answered"] = v
    BY <1>2 DEF Readers
  <2>4. stream' = [stream EXCEPT ![c] = v]
    <3>1. DOMAIN stream = Clients
      BY DEF StreamTypeOK
    <3>2. stream' = [stream EXCEPT
            ![c] = [[[s EXCEPT !.view.result = x] EXCEPT !.view.error = y]
                      EXCEPT !.pc = "answered"]]
      BY <1>1
    <3> HIDE DEF v
    <3> QED
      BY <2>3, <3>2
  <2> HIDE DEF v
  <2> QED
    BY <2>2, <2>4 DEF StreamTypeOK
<1>4. /\ v.pc = "answered" /\ v.job = s.job /\ v.view.state = s.view.state
      /\ v.view.result = x /\ v.view.error = y /\ v.cursor = s.cursor
      /\ v.pos = s.pos /\ v.sent = s.sent /\ v.streamed = s.streamed
  BY <1>2 DEF Readers
<1>5. events' = events /\ state' = state
  BY DEF vars, jobVars
<1>6. /\ s.streamed => s.view.state \in Terminal
      /\ s.view.state = "complete" => x
      /\ s.view.state = "failed" => y
  <2>1. s.job \in Jobs /\ (s.streamed => s.view.state \in Terminal)
        /\ (s.view.state \in Terminal => s.view.state = state[j])
    BY <1>1, <1>2 DEF ReaderInv
  <2>2. /\ state[j] = "complete" => j \in result
        /\ state[j] = "failed" => j \in error
    BY <2>1 DEF Owned, OutcomeBacked
  <2> QED
    BY <2>1, <2>2, <1>1 DEF Terminal
<1>7. ReaderInv(c)'
  <2> HIDE DEF v
  <2> QED
    BY <1>1, <1>2, <1>3, <1>4, <1>5, <1>6 DEF ReaderInv, Log, Settled
<1> QED
  BY <1>3, <1>7, OneReader

LEMMA ReadKeeps ==
  ASSUME Owned, StreamTypeOK, ReadersInv, NEW c \in Clients, Read(c)
  PROVE  StreamOwned'
<1>1. UNCHANGED vars
  BY DEF Read
<1>2. StreamTypeOK' /\ ReadersInv'
  BY <1>1, Blocks, Opens, Collects, Yields, Tests, Fetches, FetchesBody
     DEF Read, Serve
<1>3. Owned'
  BY <1>1, NextOwned
<1> QED
  BY <1>2, <1>3 DEF StreamOwned

-----------------------------------------------------------------------------
(* The job's own steps, under the readers *)

(* What was read, and the silence after it, survive the growth of the log. *)
LEMMA LogKept ==
  ASSUME TypeOK, NEW j \in Jobs, Grows(j), NEW m \in Nat, NEW n \in Nat
  PROVE  /\ n <= m \/ n <= Len(events[j]) =>
              SubSeq(events'[j], m + 1, n) = SubSeq(events[j], m + 1, n)
         /\ n <= Len(events[j]) => n <= Len(events'[j])
         /\ Settled(j) /\ OnlyOutcome(events[j], n) => OnlyOutcome(events'[j], n)
<1> DEFINE s == events[j]
<1>1. s \in Seq(EventTypes) /\ Len(s) \in Nat
  BY LenProperties DEF TypeOK
<1>2. CASE events'[j] = events[j]
  BY <1>2
<1>3. ASSUME NEW e \in EventTypes, events'[j] = Append(s, e),
             Settled(j) => e \in Terminal
      PROVE  /\ n <= m \/ n <= Len(s) =>
                  SubSeq(events'[j], m + 1, n) = SubSeq(s, m + 1, n)
             /\ n <= Len(s) => n <= Len(events'[j])
             /\ Settled(j) /\ OnlyOutcome(s, n) => OnlyOutcome(events'[j], n)
  <2>1. /\ Len(Append(s, e)) = Len(s) + 1
        /\ \A i \in 1 .. Len(s) : Append(s, e)[i] = s[i]
        /\ Append(s, e)[Len(s) + 1] = e
    BY <1>1, AppendProperties
  <2>2. n <= m \/ n <= Len(s) =>
          SubSeq(events'[j], m + 1, n) = SubSeq(s, m + 1, n)
    <3> HIDE DEF s
    <3> QED
      BY <1>1, <1>3, GrownSubSeq
  <2>3. ASSUME Settled(j), OnlyOutcome(s, n)
        PROVE  OnlyOutcome(events'[j], n)
    <3> SUFFICES ASSUME NEW i \in n + 1 .. Len(s) + 1
                 PROVE  Append(s, e)[i] \in Terminal
      BY <1>3, <2>1 DEF OnlyOutcome
    <3>1. CASE i = Len(s) + 1
      BY <3>1, <2>1, <2>3, <1>3
    <3>2. CASE i # Len(s) + 1
      <4>1. i \in n + 1 .. Len(s) /\ i \in 1 .. Len(s)
        <5> HIDE DEF s
        <5> QED
          BY <3>2, <1>1
      <4> QED
        BY <4>1, <2>1, <2>3 DEF OnlyOutcome
    <3> QED
      BY <3>1, <3>2
  <2>4. n <= Len(s) => n <= Len(events'[j])
    <3> HIDE DEF s
    <3> QED
      BY <1>1, <1>3, <2>1
  <2> QED
    BY <2>2, <2>3, <2>4
<1> QED
  BY <1>2, <1>3 DEF Grows

LEMMA NotifyKeeps ==
  ASSUME StreamOwned, Next, Notify
  PROVE  StreamOwned'
<1> USE DEF StreamOwned
<1>1. Owned'
  BY NextOwned
<1>2. ASSUME NEW c \in Clients
      PROVE  stream'[c] \in Readers /\ ReaderInv(c)'
  <2> DEFINE s == stream[c]
  <2>1. s \in Readers /\ ReaderInv(c)
    BY DEF StreamTypeOK, Readers, ReadersInv
  <2>2. PICK p \in Steps :
          /\ p = s.pc \/ (s.pc = "blocked" /\ p = "woken")
          /\ stream'[c] = [s EXCEPT !.pc = p]
    <3>1. s.pc \in Steps /\ s = [s EXCEPT !.pc = s.pc] /\ "woken" \in Steps
      BY <2>1 DEF Readers, Steps
    <3>2. CASE At(c, "blocked") /\ events'[s.job] # Log(c)
      <4>1. stream'[c] = [s EXCEPT !.pc = "woken"]
        BY <3>2 DEF Notify
      <4> QED
        BY <4>1, <3>1, <3>2 DEF At
    <3>3. CASE ~(At(c, "blocked") /\ events'[s.job] # Log(c))
      <4>1. stream'[c] = s
        BY <3>3 DEF Notify
      <4> QED
        BY <4>1, <3>1
    <3> QED
      BY <3>2, <3>3
  <2> DEFINE v == [s EXCEPT !.pc = p]
  <2>3. v \in Readers
    BY <2>1 DEF Readers
  <2>4. /\ v.pc = p /\ v.job = s.job /\ v.view = s.view /\ v.cursor = s.cursor
        /\ v.pos = s.pos /\ v.sent = s.sent /\ v.streamed = s.streamed
        /\ v.batch = s.batch /\ v.terminal = s.terminal
    BY <2>1 DEF Readers
  <2>5. s.pos \in Nat /\ s.cursor \in Nat /\ Len(s.batch) \in Nat
    BY <2>1, LenProperties DEF Readers
  <2>6. CASE s.pc = "none"
    <3>1. v.pc = "none" /\ ~s.streamed /\ stream'[c] = v
      BY <2>1, <2>2, <2>4, <2>6 DEF ReaderInv
    <3> HIDE DEF v
    <3> QED
      BY <2>3, <2>4, <3>1 DEF ReaderInv
  <2>7. CASE s.pc # "none"
    <3>1. s.job \in Jobs
      BY <2>1, <2>7 DEF ReaderInv
    <3>2. Grows(s.job) /\ (Settled(s.job) => state'[s.job] = state[s.job])
      BY <3>1, LogGrows, SettledStep DEF Unchanging
    <3> DEFINE log == events[s.job]
               n == s.pos + Len(s.batch)
    <3>3. Log(c)' = events'[s.job]
      BY <2>2, <2>4 DEF Log
    <3>4. Settled(s.job) => state'[s.job] = state[s.job]
      BY <3>2
    <3>5. n \in Nat
      BY <2>5
    <3>6. /\ s.pos <= s.cursor \/ s.pos <= Len(log) =>
               SubSeq(events'[s.job], s.cursor + 1, s.pos)
                 = SubSeq(log, s.cursor + 1, s.pos)
          /\ n <= Len(log) => SubSeq(events'[s.job], s.pos + 1, n)
                                = SubSeq(log, s.pos + 1, n)
          /\ s.pos <= Len(log) => s.pos <= Len(events'[s.job])
          /\ n <= Len(log) => n <= Len(events'[s.job])
          /\ Settled(s.job) /\ OnlyOutcome(log, n) =>
               OnlyOutcome(events'[s.job], n)
          /\ Settled(s.job) /\ OnlyOutcome(log, s.pos) =>
               OnlyOutcome(events'[s.job], s.pos)
      <4> HIDE DEF n
      <4> QED
        BY <2>5, <3>1, <3>2, <3>5, LogKept DEF Owned
    <3>7. s.streamed =>
            /\ s.pos = s.cursor \/ s.pos <= Len(events'[s.job])
            /\ s.sent = SubSeq(events'[s.job], s.cursor + 1, s.pos)
      <4> HIDE DEF n
      <4> QED
        BY <2>1, <2>5, <3>6 DEF ReaderInv, Log
    <3>8. s.pc = "yield" =>
            /\ n <= Len(events'[s.job])
            /\ s.batch = SubSeq(events'[s.job], s.pos + 1, n)
            /\ s.terminal => Settled(s.job) /\ OnlyOutcome(events'[s.job], n)
      BY <2>1, <3>6 DEF ReaderInv, Log
    <3>9. (s.pc = "test" /\ s.terminal) \/ s.pc = "ended" =>
            Settled(s.job) /\ OnlyOutcome(events'[s.job], s.pos)
      <4> HIDE DEF n
      <4> QED
        BY <2>1, <3>6 DEF ReaderInv, Log
    <3>10. s.pc = "body" =>
             /\ s.streamed => s.view.state \in Terminal
             /\ s.view.state \in Terminal => s.view.state = state'[s.job]
      BY <2>1, <3>4 DEF ReaderInv, Settled
    <3>11. ReaderInv(c)'
      <4> HIDE DEF v
      <4> QED
        BY <2>1, <2>2, <2>4, <3>1, <3>3, <3>4, <3>7, <3>8, <3>9, <3>10
           DEF ReaderInv, Settled
    <3> QED
      BY <3>11, <2>2, <2>3
  <2> QED
    BY <2>6, <2>7
<1>3. StreamTypeOK' /\ ReadersInv'
  <2>1. DOMAIN stream' = Clients /\ stream' = [c \in Clients |-> stream'[c]]
    BY DEF Notify
  <2> QED
    BY <2>1, <1>2 DEF StreamTypeOK, Readers, ReadersInv
<1> QED
  BY <1>1, <1>3

LEMMA StreamOwnedNext == StreamOwned /\ [StreamNext]_streamVars => StreamOwned'
<1> SUFFICES ASSUME StreamOwned, [StreamNext]_streamVars PROVE StreamOwned'
  OBVIOUS
<1>1. CASE Next /\ Notify
  BY <1>1, NotifyKeeps
<1>2. ASSUME NEW c \in Clients, Read(c) PROVE StreamOwned'
  BY <1>2, ReadKeeps DEF StreamOwned
<1>3. CASE UNCHANGED streamVars
  <2>1. UNCHANGED vars /\ stream' = stream
    BY <1>3 DEF streamVars
  <2>2. Owned'
    BY <2>1, NextOwned DEF StreamOwned
  <2>3. StreamTypeOK'
    BY <2>1 DEF StreamOwned, StreamTypeOK
  <2>4. ReadersInv'
    BY <2>1 DEF StreamOwned, ReadersInv, ReaderInv, Log, Settled, vars, jobVars
  <2> QED
    BY <2>2, <2>3, <2>4 DEF StreamOwned
<1> QED
  BY <1>1, <1>2, <1>3 DEF StreamNext

-----------------------------------------------------------------------------

(* Every reachable state of the manager and its readers keeps StreamOwned. *)
THEOREM AlwaysStreamOwned == StreamSpec => []StreamOwned
BY StreamOwnedInit, StreamOwnedNext, PTL DEF StreamSpec

(* The readers' state is well formed, whatever cursors the clients ask for *)
(* (the generator of web/app.py and Job.wait).                             *)
THEOREM StreamTypeCorrect == StreamSpec => []StreamTypeOK
<1>1. StreamOwned => StreamTypeOK
  BY DEF StreamOwned
<1> QED
  BY <1>1, AlwaysStreamOwned, PTL

(* A client receives the log from its cursor on, in order, without gap or  *)
(* repeat, however the reads of the log interleave with its growth.        *)
THEOREM StreamsFaithful == StreamSpec => []StreamFaithful
<1>1. StreamOwned => StreamFaithful
  BY DEF StreamOwned, ReadersInv, ReaderInv, StreamFaithful
<1> QED
  BY <1>1, AlwaysStreamOwned, PTL

(* A stream that ended belongs to a settled job and missed nothing but the *)
(* announcement of the outcome (Job.wait and Job.transition).              *)
THEOREM EndsMissOnlyOutcome == StreamSpec => []EndMissesOnlyOutcome
<1>1. StreamOwned => EndMissesOnlyOutcome
  <2> SUFFICES ASSUME StreamOwned, NEW c \in Clients, At(c, "ended")
               PROVE  /\ Settled(stream[c].job)
                      /\ OnlyOutcome(Log(c), stream[c].pos)
    BY DEF EndMissesOnlyOutcome, OnlyOutcome
  <2> QED
    BY DEF StreamOwned, ReadersInv, ReaderInv, At
<1> QED
  BY <1>1, AlwaysStreamOwned, PTL

(* The view a page reads after its stream is that of a settled job, with   *)
(* the result or the error that goes with it, although public() reads the  *)
(* state more than once and nothing locks the job meanwhile.               *)
THEOREM ViewsTell == StreamSpec => []ViewTells
<1>1. StreamOwned => ViewTells
  BY DEF StreamOwned, ReadersInv, ReaderInv, ViewTells, At
<1> QED
  BY <1>1, AlwaysStreamOwned, PTL
=============================================================================
