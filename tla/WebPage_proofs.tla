---------------------------- MODULE WebPage_proofs ----------------------------
(***************************************************************************)
(* For any number of submissions, inspections and tokens: no carrier for   *)
(* an address that was not confirmed, and no carrier that is said to be    *)
(* ready and is not whole.                                                 *)
(***************************************************************************)
EXTENDS WebPage, SequenceTheorems, TLAPS

Places  == {"idle", "inspect", "posted", "stream", "result", "done"}
Waiting == {"idle", "inspect", "posted"}
Known   == Addresses \cup {None}
Forms   == [at : Places, address : Known, seen : Known, live : BOOLEAN,
            shown : Nat]
Servers == [queue : Seq(Submits), sent : [Submits -> Nat],
            outcome : [Submits -> {None, "complete", "failed"}]]

Typed ==
  /\ field \in Known /\ current \in Known
  /\ inspects \subseteq [address : Addresses, by : Submits \cup {Click}]
  /\ submit \in [Submits -> Forms] /\ server \in Servers

(* The box says of the address on the card that it was confirmed, and each *)
(* request what it said when it was made.                                  *)
BoxCurrent == box \in {None, current}
SeenSent ==
  \A s \in Submits :
    /\ submit[s].seen \in {None, submit[s].address}
    /\ submit[s].at \in {"stream", "result"} => submit[s].seen # None

(* A job that is not accepted, or waits, has no end; each is queued once.  *)
Queued ==
  /\ \A s \in Submits : submit[s].at \in Waiting => server.outcome[s] = None
  /\ \A i \in 1..Len(server.queue) :
       /\ server.outcome[server.queue[i]] = None
       /\ submit[server.queue[i]].at \notin Waiting
       /\ \A j \in 1..Len(server.queue) :
            server.queue[i] = server.queue[j] => i = j

(* A submission that inspects has one inspection under way, no other has.  *)
Asked ==
  \A q \in inspects : q.by \in Submits =>
    /\ submit[q.by].at = "inspect"
    /\ \A r \in inspects : r.by = q.by => r = q

Inv == Typed /\ BoxCurrent /\ SeenSent /\ Queued /\ Asked /\ ReadyAtRest

-----------------------------------------------------------------------------
LEMMA InitInv == Init => Inv
<1> SUFFICES ASSUME Init
             PROVE  Inv
  OBVIOUS
<1>1. Typed
  BY EmptySeq, PageAssumption
     DEF Init, Typed, Known, Forms, Servers, Unused, Places
<1>2. BoxCurrent /\ SeenSent /\ ReadyAtRest
  BY DEF Init, BoxCurrent, SeenSent, ReadyAtRest, Unused
<1>3. Queued /\ Asked
  BY EmptySeq DEF Init, Queued, Unused, Asked
<1> QED BY <1>1, <1>2, <1>3 DEF Inv

(* What is on the card changes, no submission does. *)
LEMMA CardInv ==
  ASSUME Inv, Typed', BoxCurrent', Asked', UNCHANGED <<submit, output, server>>,
         status' \in {status, "error"}
  PROVE  Inv'
<1>1. SeenSent' /\ Queued'
  BY DEF Inv, SeenSent, Queued
<1>2. ReadyAtRest'
  BY DEF Inv, ReadyAtRest, Whole
<1> QED BY <1>1, <1>2 DEF Inv

(* A submission moves, with what it knows; the server is left alone.       *)
LEMMA FormInv ==
  ASSUME Inv, NEW s \in Submits, NEW f \in Forms,
         submit' = [submit EXCEPT ![s] = f], UNCHANGED server,
         Typed', BoxCurrent', Asked', ReadyAtRest',
         f.seen \in {None, f.address},
         f.at \in {"stream", "result"} => f.seen # None,
         submit[s].at \in Waiting \/ f.at \notin Waiting
  PROVE  Inv'
<1>1. \A t \in Submits : submit'[t] = IF t = s THEN f ELSE submit[t]
  BY DEF Inv, Typed
<1>2. SeenSent'
  BY <1>1 DEF Inv, SeenSent
<1>3. \A i \in 1..Len(server.queue) : server.queue[i] \in Submits
  BY ElementOfSeq DEF Inv, Typed, Servers
<1>4. Queued'
  BY <1>1, <1>3 DEF Inv, Queued
<1> QED BY <1>2, <1>4 DEF Inv

LEMMA UserInv ==
  ASSUME Inv,
         (\E a \in Addresses \cup {None} : Type(a)) \/ Tick \/ Inspect
  PROVE  Inv'
<1>1. CASE (\E a \in Addresses \cup {None} : Type(a)) \/ Tick
  <2>1. Typed' /\ BoxCurrent' /\ Asked'
    BY <1>1 DEF Inv, Typed, BoxCurrent, Asked, Type, Tick, Known
  <2> QED BY <1>1, <2>1, CardInv DEF Type, Tick, page
<1>2. CASE Inspect
  <2>1. BoxCurrent' /\ UNCHANGED <<submit, output, server>>
    BY <1>2 DEF Inv, BoxCurrent, Inspect, card
  <2>2. Typed' /\ status' \in {status, "error"}
    BY <1>2 DEF Inv, Typed, Inspect, card, Known
  <2>3. Asked'
    BY <1>2, <2>1, PageAssumption DEF Inv, Asked, Inspect
  <2> QED BY <2>1, <2>2, <2>3, CardInv
<1> QED BY <1>1, <1>2

LEMMA KeepsAsked ==
  ASSUME Inv, NEW s \in Submits, NEW f, submit' = [submit EXCEPT ![s] = f],
         UNCHANGED inspects, submit[s].at # "inspect"
  PROVE  Asked'
BY DEF Inv, Typed, Asked

LEMMA Moved ==
  ASSUME Inv, NEW s \in Submits, NEW p \in Places
  PROVE  LET f == [submit[s] EXCEPT !.at = p]
         IN  /\ f \in Forms /\ f.at = p
             /\ f.seen = submit[s].seen /\ f.address = submit[s].address
BY DEF Inv, Typed, Forms

(* What a request is made of. *)
LEMMA PostForm ==
  ASSUME NEW a \in Known, NEW b \in {None, a}, NEW live \in BOOLEAN
  PROVE  [at |-> "posted", address |-> a, seen |-> b, live |-> live,
          shown |-> 0] \in Forms
BY DEF Forms, Places, Known

LEMMA InspectedInv ==
  ASSUME Inv, NEW q \in inspects, NEW ok \in BOOLEAN, NEW live \in BOOLEAN,
         Inspected(q, ok, live)
  PROVE  Inv'
<1>1. q.address \in Addresses /\ q.by \in Submits \cup {Click}
  BY DEF Inv, Typed
<1>2. /\ UNCHANGED <<field, output, server>> /\ inspects' = inspects \ {q}
      /\ current' \in Known /\ BoxCurrent'
      /\ status' = IF ok THEN status ELSE "error"
  BY <1>1 DEF Inv, Inspected, InspectShown, Typed, Known, BoxCurrent
<1>3. CASE q.by = Click
  <2>1. UNCHANGED submit /\ status' \in {status, "error"}
    BY <1>2, <1>3 DEF Inspected
  <2>2. Typed' /\ Asked'
    BY <1>2, <2>1 DEF Inv, Typed, Asked
  <2> QED BY <1>2, <2>1, <2>2, CardInv
<1>4. CASE q.by # Click
  <2> DEFINE s == q.by
  <2>1. s \in Submits
    BY <1>1, <1>4
  <2>2. submit[s].at = "inspect" /\ \A r \in inspects' : r.by # s
    BY <1>2, <2>1 DEF Inv, Asked
  <2>3. PICK f \in Forms :
          /\ submit' = [submit EXCEPT ![s] = f]
          /\ f.at = IF ok THEN "posted" ELSE "done"
          /\ f.seen \in {None, f.address}
    <3>1. CASE ok
      <4> DEFINE f == [at |-> "posted", address |-> current', seen |-> box',
                       live |-> live, shown |-> 0]
      <4>1. f \in Forms
        BY <1>2, PostForm DEF BoxCurrent
      <4>2. submit' = [submit EXCEPT ![s] = f]
        BY <1>4, <3>1 DEF Inspected, Post
      <4>3. f.seen \in {None, f.address}
        BY <1>2 DEF BoxCurrent
      <4> QED BY <3>1, <4>1, <4>2, <4>3
    <3>2. CASE ~ok
      <4>1. submit' = [submit EXCEPT ![s] = [submit[s] EXCEPT !.at = "done"]]
        BY <1>4, <3>2 DEF Inspected, Go
      <4>2. submit[s].seen \in {None, submit[s].address}
        BY <2>1 DEF Inv, SeenSent
      <4>3. "done" \in Places
        BY DEF Places
      <4> HIDE DEF s
      <4>4. /\ [submit[s] EXCEPT !.at = "done"] \in Forms
            /\ [submit[s] EXCEPT !.at = "done"].at = "done"
            /\ [submit[s] EXCEPT !.at = "done"].seen = submit[s].seen
            /\ [submit[s] EXCEPT !.at = "done"].address = submit[s].address
        BY <2>1, <4>3, Moved
      <4> QED BY <3>2, <4>1, <4>2, <4>4
    <3> QED BY <3>1, <3>2
  <2> HIDE DEF s
  <2>4. Typed'
    BY <1>2, <2>1, <2>3 DEF Inv, Typed
  <2>5. \A t \in Submits : submit'[t] = IF t = s THEN f ELSE submit[t]
    BY <2>1, <2>3 DEF Inv, Typed
  <2>6. Asked'
    BY <1>2, <2>2, <2>5 DEF Inv, Asked
  <2>7. ReadyAtRest'
    BY <1>2, <2>1, <2>3, <2>5 DEF ReadyAtRest
  <2> QED BY <1>2, <2>1, <2>2, <2>3, <2>4, <2>6, <2>7, FormInv DEF Waiting
<1> QED BY <1>3, <1>4

LEMMA SubmitInv ==
  ASSUME Inv, NEW s \in Submits, NEW live \in BOOLEAN, Submit(s, live)
  PROVE  Inv'
<1>1. /\ submit[s].at = "idle" /\ UNCHANGED <<field, current, box, server>>
      /\ output' = <<>> /\ status' \in {"empty", "error"}
  BY DEF Submit, At, card
<1>2. /\ submit[s] \in Forms /\ submit[s].seen \in {None, submit[s].address}
      /\ current \in Known /\ box \in {None, current}
  BY DEF Inv, Typed, SeenSent, BoxCurrent
<1>3. PICK f \in Forms :
        /\ submit' = [submit EXCEPT ![s] = f]
        /\ f.at \in {"posted", "done", "inspect"}
        /\ f.seen \in {None, f.address}
        /\ IF f.at = "inspect"
           THEN /\ field # None
                /\ inspects' = inspects \cup {[address |-> field, by |-> s]}
           ELSE UNCHANGED inspects
  <2>1. CASE current # None
    <3> DEFINE f == [at |-> "posted", address |-> current, seen |-> box,
                     live |-> live, shown |-> 0]
    <3>1. f \in Forms
      BY <1>2, PostForm
    <3>2. submit' = [submit EXCEPT ![s] = f] /\ UNCHANGED inspects
      BY <2>1 DEF Submit, Post
    <3> QED BY <1>2, <3>1, <3>2
  <2>2. CASE current = None
    <3>1. PICK p \in {"done", "inspect"} :
            /\ submit' = [submit EXCEPT ![s] = [submit[s] EXCEPT !.at = p]]
            /\ IF p = "inspect"
               THEN /\ field # None
                    /\ inspects' = inspects \cup {[address |-> field, by |-> s]}
               ELSE UNCHANGED inspects
      BY <2>2 DEF Submit, Go
    <3>2. p \in Places
      BY DEF Places
    <3>3. /\ [submit[s] EXCEPT !.at = p] \in Forms
          /\ [submit[s] EXCEPT !.at = p].at = p
          /\ [submit[s] EXCEPT !.at = p].seen = submit[s].seen
          /\ [submit[s] EXCEPT !.at = p].address = submit[s].address
      BY <3>2, Moved
    <3> QED BY <1>2, <3>1, <3>3
  <2> QED BY <2>1, <2>2
<1>4. \A t \in Submits : submit'[t] = IF t = s THEN f ELSE submit[t]
  BY <1>3 DEF Inv, Typed
<1>5. \A r \in inspects : r.by # s
  BY <1>1 DEF Inv, Asked
<1>6. Typed'
  BY <1>1, <1>3 DEF Inv, Typed, Known
<1>7. Asked'
  BY <1>3, <1>4, <1>5 DEF Inv, Asked
<1>8. BoxCurrent' /\ ReadyAtRest'
  BY <1>1 DEF Inv, BoxCurrent, ReadyAtRest
<1> QED BY <1>1, <1>3, <1>6, <1>7, <1>8, FormInv DEF Waiting

LEMMA AcceptInv ==
  ASSUME Inv, NEW s \in Submits, Accept(s)
  PROVE  Inv'
<1> DEFINE f == [submit[s] EXCEPT !.at = "stream"]
<1>1. /\ submit[s].at = "posted" /\ submit[s].seen # None
      /\ submit' = [submit EXCEPT ![s] = f]
      /\ server' = [server EXCEPT !.queue = Append(server.queue, s)]
      /\ UNCHANGED <<field, current, box, inspects, output, status>>
  BY DEF Accept, At, Go, card, page
<1>2. /\ f \in Forms /\ f.at = "stream" /\ f.seen = submit[s].seen
      /\ f.address = submit[s].address
  BY Moved DEF Places
<1> HIDE DEF f
<1>3. \A t \in Submits : submit'[t] = IF t = s THEN f ELSE submit[t]
  BY <1>1 DEF Inv, Typed
<1>4. /\ server \in Servers /\ server.queue \in Seq(Submits)
      /\ Len(server.queue) \in Nat
  BY LenProperties DEF Inv, Typed, Servers
<1>5. /\ server'.queue \in Seq(Submits)
      /\ Len(server'.queue) = Len(server.queue) + 1
      /\ server'.queue[Len(server.queue) + 1] = s
      /\ \A i \in 1..Len(server.queue) :
           server'.queue[i] = server.queue[i] /\ server.queue[i] \in Submits
      /\ server'.outcome = server.outcome
  BY <1>1, <1>4, AppendProperties, ElementOfSeq DEF Servers
<1>6. server' \in Servers
  BY <1>1, <1>4, <1>5 DEF Servers
<1>7. Typed'
  BY <1>1, <1>2, <1>6 DEF Inv, Typed
<1>8. BoxCurrent' /\ Asked'
  BY <1>1, KeepsAsked DEF Inv, BoxCurrent
<1>9. SeenSent'
  BY <1>1, <1>2, <1>3 DEF Inv, SeenSent
<1>10. ReadyAtRest'
  BY <1>2, <1>3 DEF ReadyAtRest
<1>11. Queued'
  <2>1. \A t \in Submits :
          submit'[t].at \in Waiting => server'.outcome[t] = None
    BY <1>1, <1>2, <1>3, <1>5 DEF Inv, Queued, Waiting
  <2>2. \A i \in 1..Len(server.queue) :
          /\ server.outcome[server.queue[i]] = None
          /\ server.queue[i] # s
          /\ submit'[server.queue[i]].at \notin Waiting
    BY <1>1, <1>2, <1>3, <1>5 DEF Inv, Queued, Waiting
  <2>3. server.outcome[s] = None /\ submit'[s].at \notin Waiting
    BY <1>1, <1>2, <1>3 DEF Inv, Queued, Waiting
  <2>4. ASSUME NEW i \in 1..Len(server'.queue)
        PROVE  /\ server'.outcome[server'.queue[i]] = None
               /\ submit'[server'.queue[i]].at \notin Waiting
    <3>1. CASE i \in 1..Len(server.queue)
      BY <1>5, <2>2, <3>1
    <3>2. CASE i = Len(server.queue) + 1
      BY <1>5, <2>3, <3>2
    <3> QED BY <1>4, <1>5, <3>1, <3>2
  <2>5. ASSUME NEW i \in 1..Len(server'.queue), NEW j \in 1..Len(server'.queue),
               server'.queue[i] = server'.queue[j]
        PROVE  i = j
    <3>1. CASE i \in 1..Len(server.queue) /\ j \in 1..Len(server.queue)
      BY <1>5, <2>5, <3>1 DEF Inv, Queued
    <3>2. \A k \in 1..Len(server'.queue) :
            k \in 1..Len(server.queue) \/ k = Len(server.queue) + 1
      BY <1>4, <1>5
    <3>3. \A k \in 1..Len(server.queue) : server'.queue[k] # s
      BY <1>5, <2>2
    <3>4. CASE i = Len(server.queue) + 1 \/ j = Len(server.queue) + 1
      BY <1>5, <2>5, <3>2, <3>3, <3>4
    <3> QED BY <3>1, <3>2, <3>4
  <2> QED BY <2>1, <2>4, <2>5 DEF Queued
<1> QED BY <1>7, <1>8, <1>9, <1>10, <1>11 DEF Inv

(* A handler of an accepted submission goes on, or ends.                   *)
LEMMA StreamInv ==
  ASSUME Inv, NEW s \in Submits,
         Catch(s) \/ Show(s) \/ Streamed(s) \/ Finish(s)
  PROVE  Inv'
<1>1. /\ submit[s].at \in {"posted", "stream", "result"}
      /\ UNCHANGED <<field, current, box, inspects, server>>
  BY DEF Catch, Show, Streamed, Finish, At, card
<1>2. PICK f \in Forms :
        /\ submit' = [submit EXCEPT ![s] = f] /\ f.at \notin Waiting
        /\ f.seen = submit[s].seen /\ f.address = submit[s].address
        /\ f.at \in {"stream", "result"} => submit[s].at \in {"stream", "result"}
        /\ \/ f.at # "done"
           \/ f.at = "done" /\ status' = "error"
           \/ /\ f.at = "done" /\ status' = "ready" /\ Shown(s)
              /\ server.outcome[s] = "complete"
  <2>1. CASE Catch(s)
    BY <2>1, Moved DEF Catch, Go, Places, Waiting
  <2>2. CASE Show(s)
    <3> DEFINE f == [submit[s] EXCEPT !.shown = submit[s].shown + 1]
    <3>1. /\ f \in Forms /\ f.at = "stream" /\ submit[s].at = "stream"
          /\ f.seen = submit[s].seen /\ f.address = submit[s].address
      BY <2>2 DEF Inv, Typed, Forms, Show, At
    <3>2. submit' = [submit EXCEPT ![s] = f]
      BY <2>2 DEF Show
    <3> HIDE DEF f
    <3> QED BY <3>1, <3>2 DEF Waiting
  <2>3. CASE Streamed(s)
    BY <2>3, Moved DEF Streamed, At, Go, Places, Waiting
  <2>4. CASE Finish(s)
    BY <2>4, Moved DEF Finish, At, Go, Places, Waiting
  <2> QED BY <2>1, <2>2, <2>3, <2>4
<1>3. \A t \in Submits : submit'[t] = IF t = s THEN f ELSE submit[t]
  BY <1>2 DEF Inv, Typed
<1>4. Typed' /\ BoxCurrent'
  BY <1>1, <1>2 DEF Inv, Typed, BoxCurrent
<1>5. Asked'
  BY <1>1, <1>2, KeepsAsked
<1>6. ReadyAtRest'
  <2>1. CASE f.at # "done"
    BY <1>2, <1>3, <2>1 DEF ReadyAtRest, Waiting
  <2>2. CASE status' = "error"
    BY <2>2 DEF ReadyAtRest
  <2>3. CASE server.outcome[s] = "complete" /\ Shown(s)
    BY <1>1, <2>3 DEF ReadyAtRest, Shown, Whole
  <2> QED BY <1>2, <2>1, <2>2, <2>3
<1> QED BY <1>1, <1>2, <1>4, <1>5, <1>6, FormInv DEF Inv, SeenSent, Waiting

LEMMA ServerInv ==
  ASSUME Inv, Emit \/ \E outcome \in {"complete", "failed"} : End(outcome)
  PROVE  Inv'
<1>1. UNCHANGED <<field, current, box, inspects, submit, output, status>>
  BY DEF Emit, End, card, page
<1>2. BoxCurrent' /\ SeenSent' /\ Asked'
  BY <1>1 DEF Inv, BoxCurrent, SeenSent, Asked
<1> DEFINE s == Head(server.queue)
<1>3. /\ server \in Servers /\ server.queue \in Seq(Submits)
      /\ server.queue # <<>> /\ Len(server.queue) \in Nat \ {0}
      /\ s = server.queue[1] /\ s \in Submits
      /\ Tail(server.queue) \in Seq(Submits)
      /\ Len(Tail(server.queue)) = Len(server.queue) - 1
      /\ \A i \in 1..Len(Tail(server.queue)) :
           Tail(server.queue)[i] = server.queue[i + 1]
  <2>1. server \in Servers /\ server.queue \in Seq(Submits)
    BY DEF Inv, Typed, Servers
  <2>2. server.queue # <<>>
    BY DEF Emit, End
  <2> QED BY <2>1, <2>2, HeadTailProperties, EmptySeq, ElementOfSeq
<1> HIDE DEF s
<1>4. CASE Emit
  <2>1. server' = [server EXCEPT !.sent[s] = server.sent[s] + 1]
    BY <1>4 DEF Emit, s
  <2>2. /\ server' \in Servers /\ server'.queue = server.queue
        /\ server'.outcome = server.outcome
    <3>1. [server.sent EXCEPT ![s] = server.sent[s] + 1] \in [Submits -> Nat]
      BY <1>3 DEF Servers
    <3>2. server' = [server EXCEPT !.sent =
                       [server.sent EXCEPT ![s] = server.sent[s] + 1]]
      BY <2>1
    <3> QED BY <1>3, <3>1, <3>2 DEF Servers
  <2> QED BY <1>1, <1>2, <2>2 DEF Inv, Typed, Queued, ReadyAtRest, Whole
<1>5. ASSUME NEW outcome \in {"complete", "failed"}, End(outcome)
      PROVE  Inv'
  <2>1. server' = [server EXCEPT !.queue = Tail(server.queue),
                                 !.outcome[s] = outcome]
    BY <1>5 DEF End, s
  <2>2. /\ server' \in Servers /\ server'.queue = Tail(server.queue)
        /\ \A t \in Submits : server'.outcome[t] =
             IF t = s THEN outcome ELSE server.outcome[t]
    BY <1>3, <2>1 DEF Servers
  <2>3. /\ server.outcome[s] = None /\ submit[s].at \notin Waiting
        /\ \A i \in 1..Len(server.queue) : server.queue[i] = s => i = 1
    BY <1>3 DEF Inv, Queued
  <2>4. \A i \in 1..Len(server.queue) : server.queue[i] \in Submits
    BY <1>3, ElementOfSeq
  <2>5. Queued'
    <3>1. \A i \in 1..Len(server'.queue) :
            /\ i + 1 \in 1..Len(server.queue) /\ i + 1 # 1
            /\ server'.queue[i] = server.queue[i + 1]
      BY <1>3, <2>2
    <3>2. \A t \in Submits :
            submit'[t].at \in Waiting => server'.outcome[t] = None
      BY <1>1, <2>2, <2>3 DEF Inv, Queued
    <3>3. ASSUME NEW i \in 1..Len(server'.queue)
          PROVE  /\ server'.outcome[server'.queue[i]] = None
                 /\ submit'[server'.queue[i]].at \notin Waiting
      <4>1. server'.queue[i] \in Submits /\ server'.queue[i] # s
        BY <2>3, <2>4, <3>1
      <4> QED BY <1>1, <2>2, <3>1, <4>1 DEF Inv, Queued
    <3>4. ASSUME NEW i \in 1..Len(server'.queue),
                 NEW j \in 1..Len(server'.queue),
                 server'.queue[i] = server'.queue[j]
          PROVE  i = j
      <4>1. i + 1 = j + 1
        BY <3>1, <3>4 DEF Inv, Queued
      <4> QED BY <4>1
    <3> QED BY <3>2, <3>3, <3>4 DEF Queued
  <2>6. ReadyAtRest'
    <3>1. \A t \in Submits : server.outcome[t] = "complete" =>
                               server'.outcome[t] = "complete"
      BY <1>3, <2>2, <2>3, PageAssumption
    <3> QED BY <1>1, <3>1 DEF Inv, ReadyAtRest, Whole
  <2> QED BY <1>1, <1>2, <2>2, <2>5, <2>6 DEF Inv, Typed
<1> QED BY <1>4, <1>5

LEMMA NextInv ==
  ASSUME Inv, [Next]_vars
  PROVE  Inv'
<1>1. CASE UNCHANGED vars
  BY <1>1 DEF vars, card, page, Inv, Typed, BoxCurrent, SeenSent, Queued,
              Asked, ReadyAtRest, Whole
<1> QED BY <1>1, UserInv, InspectedInv, SubmitInv, AcceptInv,
           StreamInv, ServerInv DEF Next

THEOREM AlwaysInv == Spec => []Inv
<1>1. Init => Inv
  BY InitInv
<1>2. Inv /\ [Next]_vars => Inv'
  BY NextInv
<1> QED BY <1>1, <1>2, PTL DEF Spec

(* web/static/app.js:91-102, 223-228: an answer that comes late takes the  *)
(* tick with it, so no carrier is made for an address nobody confirmed.    *)
THEOREM OnlyConfirmed == Spec => []ConfirmedSent
<1>1. Inv => ConfirmedSent
  BY DEF Inv, SeenSent, ConfirmedSent
<1> QED BY <1>1, AlwaysInv, PTL

(* web/static/app.js:217-262: however many submissions mixed their         *)
(* previews, what the page leaves as ready is whole.                       *)
THEOREM WholeAtRest == Spec => []ReadyAtRest
<1>1. Inv => ReadyAtRest
  BY DEF Inv
<1> QED BY <1>1, AlwaysInv, PTL
=============================================================================
