------------------------------ MODULE LocalModel ------------------------------
(***************************************************************************)
(* LocalModel of web/app.py, which keeps one loaded adapter resident, and  *)
(* the jobs that use it one after the other (JobManager: one worker).  A   *)
(* job binds the model of its address (models/profile.py): the resident    *)
(* adapter, or a new one, loaded from files that were verified one by one  *)
(* and are read again.  The self-test, which compares one digest of a few  *)
(* tables, is run in either case.  Then an encoding asks the model for the *)
(* prefix, the payload and the finish, each with its own prompt, and a     *)
(* decoding for the payload.  Any call may fail.                           *)
(***************************************************************************)
EXTENDS ModelAdapter, FiniteSets

CONSTANTS
  Files,         \* the paths of the artifacts
  Versions,      \* what a file may hold
  Addresses,     \* [artifacts, cover, expected]: validated addresses
  Briefs,        \* writing_brief
  Steps,         \* SELF_TEST_STEPS
  Transcript(_, _),  \* what a model's tables are after a payload prompt,
                     \* on the path of the self-test, as a digest
  PrefixTokens,  \* codec.prefix_tokens
  MaxVisible,    \* bound: visible tokens
  None

Models == [Files -> Versions]

Prompt(address, phase, brief) == <<address.cover, phase, brief>>

ASSUME LocalModelAssumption ==
  /\ \A a \in Addresses : a.artifacts \in Models
  /\ \A a \in Addresses, b \in Briefs, p \in {"prefix", "payload", "finish"} :
       Prompt(a, p, b) \in Prompts
  /\ "" \in Briefs
  /\ Steps \in Nat \ {0} /\ PrefixTokens \in Nat \ {0} /\ MaxVisible \in Nat
  /\ None \notin Models \cup Adapters(Models)

VARIABLES
  disk,      \* model_root: the files of the model tree
  resident,  \* LocalModel.adapter
  key,       \* LocalModel.artifact_key
  job,       \* the work function that runs
  verified,  \* the artifacts verify_artifact_manifest has passed
  loaded,    \* an adapter that load_profile has made and not yet returned
  swapped,   \* history: "tree", a file changed after this bind verified it;
             \* "resident", the adapter was loaded from such a tree
  answer     \* the last answer: what was asked, computed and fed

memory == <<resident, key>>
vars   == <<disk, memory, job, verified, loaded, swapped, answer>>

-----------------------------------------------------------------------------
Idle     == [at |-> "idle"]
NoAnswer == [asked |-> NoContext, computed |-> NoContext, fed |-> "context",
             begun |-> FALSE]
Calling  == {"self_test", "prefix", "payload", "finish"}

Init ==
  /\ disk \in Models
  /\ resident = None /\ key = None
  /\ job = Idle /\ verified = {} /\ loaded = None /\ swapped = {}
  /\ answer = NoAnswer

(* The user changes a file of the tree (external). *)
Replace(f, v) ==
  /\ disk' = [disk EXCEPT ![f] = v]
  /\ swapped' = IF job.at = "bind" /\ f \in verified /\ v # disk[f]
                THEN swapped \cup {"tree"} ELSE swapped
  /\ UNCHANGED <<memory, job, verified, loaded, answer>>

(* encode_work or decode_work begins; only an encoding has a brief. *)
Start(kind, address, brief) ==
  /\ job.at = "idle"
  /\ kind = "decode" => brief = ""
  /\ job' = [at |-> "bind", kind |-> kind, address |-> address,
             brief |-> brief, visible |-> <<>>, begun |-> FALSE,
             exact |-> TRUE]
  /\ UNCHANGED <<disk, memory, verified, loaded, swapped, answer>>

(* The work function is left: nothing refers to its adapter any more,      *)
(* unless it is the resident one.                                          *)
Leave ==
  /\ job' = Idle /\ verified' = {} /\ loaded' = None
  /\ swapped' = swapped \ {"tree"}
  /\ answer' = NoAnswer

-----------------------------------------------------------------------------
(* LocalModel.bind: the resident adapter is handed over when its artifacts *)
(* are the address's own.                                                  *)
Reusable == resident # None /\ key = job.address.artifacts

Reuse ==
  /\ job.at = "bind" /\ Reusable
  /\ job' = [job EXCEPT !.at = "self_test"]
  /\ UNCHANGED <<disk, memory, verified, loaded, swapped, answer>>

(* verify_artifact_manifest: a file has the size and digest of the address. *)
Verify(f) ==
  /\ job.at = "bind" /\ ~Reusable
  /\ f \notin verified
  /\ IF disk[f] = job.address.artifacts[f]
     THEN verified' = verified \cup {f}
          /\ UNCHANGED <<job, loaded, swapped, answer>>
     ELSE Leave
  /\ UNCHANGED <<disk, memory>>

(* MlxLanguageModel.load reads the files once more. *)
Load ==
  /\ job.at = "bind" /\ ~Reusable
  /\ verified = Files
  /\ loaded' = NewAdapter(disk)
  /\ job' = [job EXCEPT !.at = "self_test"]
  /\ UNCHANGED <<disk, memory, verified, swapped, answer>>

-----------------------------------------------------------------------------
Adapter == IF loaded # None THEN loaded ELSE resident

(* The cache is changed in the adapter that both may refer to. *)
Keep(adapter) ==
  IF loaded # None THEN loaded' = adapter /\ UNCHANGED resident
                   ELSE resident' = adapter /\ UNCHANGED loaded

(* The self-test asks the payload model; only the prefix has the brief. *)
Asked ==
  [prompt  |-> Prompt(job.address,
                 IF job.at = "self_test" THEN "payload" ELSE job.at,
                 IF job.at = "prefix" THEN job.brief ELSE ""),
   visible |-> job.visible]

(* The table of a model and a context is fixed: a self-test has the digest *)
(* of the address when every answer was for the context and the model that *)
(* gave it has these tables, be it the address's or another one.           *)
Expected ==
  /\ Transcript(Adapter.model, Asked.prompt) = job.address.expected
  /\ Filled(Adapter, Asked) = Asked

More ==
  /\ Len(job.visible) < MaxVisible
  /\ job.at = "self_test" => Len(job.visible) < Steps
  /\ job.at = "prefix" => Len(job.visible) < PrefixTokens

(* next_table or next_greedy_token, and the token t chosen from the answer. *)
Call(t) ==
  /\ job.at \in Calling /\ More
  /\ Keep(Forward(Adapter, Asked))
  /\ answer' = [asked |-> Asked, computed |-> Filled(Adapter, Asked),
                fed |-> Fed(Adapter, Asked), begun |-> job.begun]
  /\ job' = [job EXCEPT
               !.visible = Append(@, t),
               !.begun = TRUE,
               !.exact = @ /\ (job.at = "self_test" => Expected)]
  /\ UNCHANGED <<disk, key, verified, swapped>>

(* A call raises, and the work function with it. *)
CallFails ==
  /\ job.at \in Calling /\ More
  /\ \E a \in Failures(Adapter, Asked) :
       IF loaded # None THEN UNCHANGED resident ELSE resident' = a
  /\ Leave
  /\ UNCHANGED <<disk, key>>

(* The sections that follow a bind: an encoding starts with nothing        *)
(* visible, a decoding with the observed prefix.                           *)
Begin(observed) ==
  IF job.kind = "encode"
  THEN [job EXCEPT !.at = "prefix", !.visible = <<>>, !.begun = FALSE]
  ELSE [job EXCEPT !.at = "payload", !.visible = observed, !.begun = FALSE]

(* What becomes of the adapter becomes of its history. *)
KeepHistory ==
  swapped' = IF loaded = None THEN swapped
             ELSE IF "tree" \in swapped THEN {"resident"} ELSE {}

(* Mutant of Bound: the digest of the self-test is not compared. *)
BoundUntested ==
  /\ job.at = "self_test" /\ Len(job.visible) = Steps
  /\ resident' = Adapter /\ key' = job.address.artifacts
  /\ \E observed \in [1..PrefixTokens -> Words] : job' = Begin(observed)
  /\ loaded' = None /\ KeepHistory
  /\ UNCHANGED <<disk, verified, answer>>

(* verify_self_test; bind keeps the adapter only when it has passed. *)
Bound ==
  /\ job.at = "self_test" /\ Len(job.visible) = Steps
  /\ IF job.exact
     THEN /\ resident' = Adapter /\ key' = job.address.artifacts
          /\ \E observed \in [1..PrefixTokens -> Words] : job' = Begin(observed)
          /\ loaded' = None /\ KeepHistory
          /\ UNCHANGED <<verified, answer>>
     ELSE Leave /\ UNCHANGED memory
  /\ UNCHANGED disk

(* The next section goes on with the same text under its own prompt. *)
Section ==
  /\ \/ /\ job.at = "prefix" /\ Len(job.visible) = PrefixTokens
        /\ job' = [job EXCEPT !.at = "payload", !.begun = FALSE]
     \/ /\ job.at = "payload" /\ Len(job.visible) > PrefixTokens
        /\ job.kind = "encode"
        /\ job' = [job EXCEPT !.at = "finish", !.begun = FALSE]
  /\ UNCHANGED <<disk, memory, verified, loaded, swapped, answer>>

(* The job returns, is cancelled, or is refused by the codec. *)
End ==
  /\ job.at # "idle"
  /\ Leave
  /\ UNCHANGED <<disk, memory>>

Next ==
  \/ \E f \in Files, v \in Versions : Replace(f, v)
  \/ \E kind \in {"encode", "decode"}, a \in Addresses, b \in Briefs :
       Start(kind, a, b)
  \/ Reuse \/ (\E f \in Files : Verify(f)) \/ Load
  \/ (\E t \in Words : Call(t)) \/ CallFails
  \/ Bound \/ Section \/ End

Spec == Init /\ [][Next]_vars

-----------------------------------------------------------------------------
(* Every answer is for the context that was asked, whatever the jobs       *)
(* before, their failures and the sections of this one left in the cache:  *)
(* "Before encoding B, the sender resets the model context"                *)
(* (docs/protocol.md), and it is reset before every self-test.             *)
FreshLogits == answer.computed = answer.asked

(* Inside a section the cache is used: after the first call only the new   *)
(* token is fed.                                                           *)
OneTokenFed == answer.begun => answer.fed = "token"

(* A section's model has the tables that its address expects of a          *)
(* self-test, whichever job loaded it.  And it is the one its address      *)
(* names, file by file, as the resident adapter is what its key says,      *)
(* unless a file was changed after it was verified and before it was       *)
(* loaded: what such a change does to other tables goes unseen.            *)
RightModel ==
  /\ job.at \in Calling \ {"self_test"} =>
       /\ resident # None /\ key = job.address.artifacts
       /\ Transcript(resident.model, Prompt(job.address, "payload", ""))
            = job.address.expected
  /\ resident # None /\ "resident" \notin swapped => resident.model = key
=============================================================================
