------------------------------- MODULE WebPage -------------------------------
(***************************************************************************)
(* web/static/app.js, the writing form: its event handlers run one at a    *)
(* time, but each gives way at every await, so a click, a submission and   *)
(* the answers to earlier ones come in any order.  Several submissions may *)
(* be under way; the server (external here, web/app.py and web/jobs.py)    *)
(* runs their jobs one after the other.                                    *)
(***************************************************************************)
EXTENDS Integers, Sequences

CONSTANTS
  Addresses,  \* what the address field may hold and the server accepts
  Submits,    \* submissions of the form
  Click,      \* the "inspect" button
  Tokens,     \* tokens of a carrier
  None

ASSUME PageAssumption ==
  /\ Click \notin Submits /\ None \notin Addresses \cup {"complete", "failed"}
  /\ Tokens \in Nat \ {0}

VARIABLES
  field,     \* write-address: an address, or None for what is not one
  current,   \* currentAddress, with its fingerprint on the card
  box,       \* fingerprint-confirmed: the address whose fingerprint the user
             \* saw when the box was ticked; None when it is not ticked
  inspects,  \* inspections under way: [address, by]
  submit,    \* each submission: [at, address, seen, live, shown]
  output,    \* carrier-output
  status,    \* write-status
  server     \* [queue, sent, outcome]: the jobs, their tokens, their ends

card == <<field, current, box>>
page == <<output, status>>
vars == <<card, inspects, submit, page, server>>

-----------------------------------------------------------------------------
Unused == [at |-> "idle", address |-> None, seen |-> None, live |-> FALSE,
           shown |-> 0]

Init ==
  /\ field = None /\ current = None /\ box = None
  /\ inspects = {}
  /\ submit = [s \in Submits |-> Unused]
  /\ output = <<>> /\ status = "empty"
  /\ server = [queue |-> <<>>, sent |-> [s \in Submits |-> 0],
               outcome |-> [s \in Submits |-> None]]

At(s, place) == submit[s].at = place
Go(s, place) == submit' = [submit EXCEPT ![s].at = place]

(* The user types or loads an address, and ticks a box that is shown. *)
Type(a) ==
  /\ field' = a
  /\ UNCHANGED <<current, box, inspects, submit, page, server>>

Tick ==
  /\ current # None
  /\ box' = IF box = None THEN current ELSE None
  /\ UNCHANGED <<field, current, inspects, submit, page, server>>

(* inspectAddress, by the button: what is not JSON is an error at once.    *)
Inspect ==
  /\ IF field = None THEN status' = "error" /\ UNCHANGED inspects
     ELSE /\ inspects' = inspects \cup {[address |-> field, by |-> Click]}
          /\ UNCHANGED status
  /\ UNCHANGED <<card, submit, output, server>>

(* Mutant of InspectShown: the box stays as it is. *)
InspectShownTicked(a) == current' = a /\ UNCHANGED box

(* What an answer puts on the card. *)
InspectShown(a) == current' = a /\ box' = None

(* The request of a submission: what the card and the boxes hold. *)
Post(s, address, seen, live) ==
  submit' = [submit EXCEPT ![s] =
    [at |-> "posted", address |-> address, seen |-> seen, live |-> live,
     shown |-> 0]]

(* The answer, or an error; a submission that asked goes on with it.       *)
Inspected(q, ok, live) ==
  /\ q \in inspects
  /\ inspects' = inspects \ {q}
  /\ IF ok THEN InspectShown(q.address) /\ UNCHANGED status
     ELSE UNCHANGED <<current, box>> /\ status' = "error"
  /\ IF q.by = Click THEN UNCHANGED submit
     ELSE IF ok THEN Post(q.by, current', box', live)
     ELSE Go(q.by, "done")
  /\ UNCHANGED <<field, output, server>>

(* The write form is submitted: at once when an address was inspected.     *)
Submit(s, live) ==
  /\ At(s, "idle")
  /\ output' = <<>>
  /\ \/ /\ current # None
        /\ Post(s, current, box, live)
        /\ status' = "empty" /\ UNCHANGED inspects
     \/ /\ current = None /\ field = None
        /\ Go(s, "done")
        /\ status' = "error" /\ UNCHANGED inspects
     \/ /\ current = None /\ field # None
        /\ Go(s, "inspect")
        /\ inspects' = inspects \cup {[address |-> field, by |-> s]}
        /\ status' = "empty"
  /\ UNCHANGED <<card, server>>

(* encode accepts it when the box was ticked. *)
Accept(s) ==
  /\ At(s, "posted") /\ submit[s].seen # None
  /\ server' = [server EXCEPT !.queue = Append(@, s)]
  /\ Go(s, "stream")
  /\ UNCHANGED <<card, inspects, page>>

(* A handler throws: a refusal, a failed job, a connection that broke.     *)
Catch(s) ==
  /\ submit[s].at \in {"posted", "stream", "result"}
  /\ Go(s, "done")
  /\ status' = "error"
  /\ UNCHANGED <<card, inspects, output, server>>

(* The server: a token of the running job, or its end. *)
Emit ==
  /\ server.queue # <<>>
  /\ LET s == Head(server.queue)
     IN  /\ server.sent[s] < Tokens
         /\ server' = [server EXCEPT !.sent[s] = @ + 1]
  /\ UNCHANGED <<card, inspects, submit, page>>

End(outcome) ==
  /\ server.queue # <<>>
  /\ LET s == Head(server.queue)
     IN  /\ outcome = "complete" => server.sent[s] = Tokens
         /\ server' = [server EXCEPT !.queue = Tail(@), !.outcome[s] = outcome]
  /\ UNCHANGED <<card, inspects, submit, page>>

(* streamJob: a token of a live preview is appended; any is counted.       *)
Show(s) ==
  /\ At(s, "stream") /\ submit[s].shown < server.sent[s]
  /\ submit' = [submit EXCEPT ![s].shown = @ + 1]
  /\ output' = IF submit[s].live
               THEN Append(output, <<s, submit[s].shown + 1>>) ELSE output
  /\ UNCHANGED <<card, inspects, status, server>>

(* The stream ends, and the job is asked for. *)
Streamed(s) ==
  /\ At(s, "stream")
  /\ server.outcome[s] # None /\ submit[s].shown = server.sent[s]
  /\ Go(s, "result")
  /\ UNCHANGED <<card, inspects, page, server>>

Whole(s) == [n \in 1..Tokens |-> <<s, n>>]

(* Mutant of Shown: the output is left to the live preview. *)
ShownLive(s) == UNCHANGED output

(* result.carrier takes the place of what was shown. *)
Shown(s) == output' = Whole(s)

Finish(s) ==
  /\ At(s, "result") /\ server.outcome[s] = "complete"
  /\ Shown(s)
  /\ status' = "ready"
  /\ Go(s, "done")
  /\ UNCHANGED <<card, inspects, server>>

Next ==
  \/ \E a \in Addresses \cup {None} : Type(a)
  \/ Tick \/ Inspect
  \/ \E q \in inspects, ok, live \in BOOLEAN : Inspected(q, ok, live)
  \/ \E s \in Submits :
       \/ \E live \in BOOLEAN : Submit(s, live)
       \/ Accept(s) \/ Catch(s) \/ Show(s) \/ Streamed(s) \/ Finish(s)
  \/ Emit \/ \E outcome \in {"complete", "failed"} : End(outcome)

Spec == Init /\ [][Next]_vars

-----------------------------------------------------------------------------
(* Whatever was typed, inspected and answered late: a carrier is only made *)
(* for the address whose fingerprint was on the card when the user said    *)
(* that it is the recipient's.                                             *)
ConfirmedSent ==
  \A s \in Submits :
    submit[s].at \in {"stream", "result"} => submit[s].seen = submit[s].address

(* When no submission is under way and the page says that the carrier is   *)
(* ready to copy, the output is one whole carrier, although the previews   *)
(* of several may have been mixed in it before.                            *)
ReadyAtRest ==
  /\ status = "ready"
  /\ \A s \in Submits : submit[s].at \in {"idle", "done"}
  => \E s \in Submits :
       server.outcome[s] = "complete" /\ output = Whole(s)
=============================================================================
