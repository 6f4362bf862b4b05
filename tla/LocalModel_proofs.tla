--------------------------- MODULE LocalModel_proofs ---------------------------
(***************************************************************************)
(* One resident adapter behind many jobs, for any models, addresses,       *)
(* prompts and lengths of text: every answer is computed from the context  *)
(* that was asked, by a model with the address's self-test tables, which   *)
(* is the address's file by file when no verified file was changed.        *)
(***************************************************************************)
EXTENDS LocalModel, SequenceTheorems, TLAPS

Texts == Seq(Words)
Busy  == [at : Calling \cup {"bind"}, kind : {"encode", "decode"},
          address : Addresses, brief : Briefs, visible : Texts,
          begun : BOOLEAN, exact : BOOLEAN]

Typed ==
  /\ disk \in Models
  /\ resident \in Adapters(Models) \cup {None}
  /\ loaded \in Adapters(Models) \cup {None}
  /\ job \in Busy \cup {Idle}
  /\ verified \subseteq Files
  /\ swapped \subseteq {"tree", "resident"}

(* A job that calls has an adapter, after the self-test the resident one,  *)
(* and a bind starts with no text.                                         *)
Bracketed ==
  /\ job.at \in Calling => Adapter # None
  /\ job.at \in Calling \ {"self_test"} => loaded = None
  /\ job.at = "bind" => loaded = None /\ job.visible = <<>> /\ ~job.begun
  /\ job.at = "idle" => loaded = None /\ verified = {}
  /\ job.at = "self_test" /\ ~job.begun => job.visible = <<>>

(* From its first call on, a job's adapter holds what it was last asked,   *)
(* and inside a section that is the text without its newest token.         *)
Warm ==
  job.at \in Calling =>
    /\ job.begun \/ job.at # "self_test" => Adapter.cache = Adapter.last
    /\ job.begun =>
         /\ job.visible # <<>>
         /\ Adapter.last =
              [prompt  |-> Asked.prompt,
               visible |-> SubSeq(job.visible, 1, Len(job.visible) - 1)]

(* The tables of a model that the address of the job expects. *)
Answering(model) ==
  Transcript(model, Prompt(job.address, "payload", "")) = job.address.expected

(* Unless the history tells of a change: the key stands for the resident   *)
(* model, a verified file is the address's, and so is a loaded model.      *)
Unswapped ==
  /\ resident # None /\ "resident" \notin swapped => key = resident.model
  /\ job.at = "bind" /\ "tree" \notin swapped =>
       \A f \in verified : disk[f] = job.address.artifacts[f]
  /\ job.at = "self_test" /\ loaded # None /\ "tree" \notin swapped =>
       loaded.model = job.address.artifacts

(* A self-test whose answers were as expected so far was answered by a     *)
(* model with the address's tables, whatever happened to the files.        *)
Named ==
  /\ job.at = "self_test" /\ loaded = None => key = job.address.artifacts
  /\ job.at = "self_test" /\ job.begun /\ job.exact => Answering(Adapter.model)
  /\ job.at \in Calling \ {"self_test"} =>
       Answering(Adapter.model) /\ key = job.address.artifacts

Inv ==
  /\ Typed /\ Bracketed /\ Warm /\ Named /\ Unswapped
  /\ FreshLogits /\ OneTokenFed

-----------------------------------------------------------------------------
LEMMA AppendFront ==
  ASSUME NEW v \in Texts, NEW t \in Words
  PROVE  /\ Append(v, t) \in Texts
         /\ Append(v, t) # <<>>
         /\ SubSeq(Append(v, t), 1, Len(Append(v, t)) - 1) = v
<1> DEFINE a == Append(v, t)
<1>1. a \in Texts /\ Len(a) = Len(v) + 1 /\ Len(v) \in Nat
  BY DEF Texts
<1>2. \A i \in 1..Len(v) : a[i] = v[i] /\ a[i] \in Words
  BY DEF Texts
<1>3. /\ SubSeq(a, 1, Len(v)) \in Texts
      /\ Len(SubSeq(a, 1, Len(v))) = Len(v)
      /\ \A i \in 1..Len(v) : SubSeq(a, 1, Len(v))[i] = a[i]
  <2>1. \A i \in 1..Len(v) : a[i] \in Words
    BY <1>2
  <2> HIDE DEF a
  <2>2. /\ SubSeq(a, 1, Len(v)) \in Seq(Words)
        /\ Len(SubSeq(a, 1, Len(v))) =
             IF 1 <= Len(v) THEN Len(v) - 1 + 1 ELSE 0
        /\ \A i \in 1..Len(v) - 1 + 1 :
             SubSeq(a, 1, Len(v))[i] = a[1 + i - 1]
    BY <2>1, <1>1, SubSeqProperties
  <2> QED BY <2>2, <1>1 DEF Texts
<1>4. SubSeq(a, 1, Len(v)) = v
  <2> HIDE DEF a
  <2> QED BY <1>1, <1>2, <1>3, SeqEqual DEF Texts
<1> QED
  <2>1. Len(a) - 1 = Len(v) /\ a # <<>>
    BY <1>1
  <2> QED BY <2>1, <1>1, <1>4

LEMMA WithText ==
  ASSUME NEW p, NEW v, NEW w
  PROVE  [[prompt |-> p, visible |-> v] EXCEPT !.visible = w]
           = [prompt |-> p, visible |-> w]
OBVIOUS

LEMMA FrontAppend ==
  ASSUME NEW s \in Texts, Len(s) > 0
  PROVE  /\ SubSeq(s, 1, Len(s) - 1) \in Texts
         /\ Append(SubSeq(s, 1, Len(s) - 1), s[Len(s)]) = s
<1> DEFINE f == SubSeq(s, 1, Len(s) - 1)
<1>1. Len(s) \in Nat /\ \A i \in 1..Len(s) : s[i] \in Words
  BY DEF Texts
<1>2. /\ f \in Texts
      /\ Len(f) = Len(s) - 1
      /\ \A i \in 1..Len(s) - 1 : f[i] = s[i]
  <2>1. \A i \in 1..Len(s) - 1 : s[i] \in Words
    BY <1>1
  <2>2. /\ SubSeq(s, 1, Len(s) - 1) \in Seq(Words)
        /\ Len(SubSeq(s, 1, Len(s) - 1)) =
             IF 1 <= Len(s) - 1 THEN (Len(s) - 1) - 1 + 1 ELSE 0
        /\ \A i \in 1..(Len(s) - 1) - 1 + 1 :
             SubSeq(s, 1, Len(s) - 1)[i] = s[1 + i - 1]
    BY <2>1, <1>1, SubSeqProperties
  <2>3. (Len(s) - 1) - 1 + 1 = Len(s) - 1
    BY <1>1
  <2>4. Len(f) = Len(s) - 1
    <3>1. CASE Len(s) = 1
      BY <2>2, <3>1
    <3>2. CASE Len(s) > 1
      BY <2>2, <2>3, <3>2, <1>1
    <3> QED BY <3>1, <3>2, <1>1
  <2>5. \A i \in 1..Len(s) - 1 : f[i] = s[i]
    BY <2>2, <2>3, <1>1
  <2> QED BY <2>2, <2>4, <2>5 DEF Texts
<1> HIDE DEF f
<1>3. /\ Append(f, s[Len(s)]) \in Seq(Words)
      /\ Len(Append(f, s[Len(s)])) = Len(s)
      /\ \A i \in 1..Len(s) : Append(f, s[Len(s)])[i] = s[i]
  BY <1>1, <1>2 DEF Texts
<1>4. Append(f, s[Len(s)]) = s
  BY <1>1, <1>3, SeqEqual DEF Texts
<1> QED BY <1>2, <1>4 DEF f
-----------------------------------------------------------------------------
(* Whoever calls has an adapter and asks in a context. *)
LEMMA Caller ==
  ASSUME Typed, Bracketed, job.at \in Calling
  PROVE  /\ job \in Busy
         /\ Adapter \in Adapters(Models)
         /\ Asked \in Contexts
         /\ Asked.visible = job.visible
<1>1. job \in Busy
  BY DEF Typed, Idle, Calling
<1>2. Adapter \in Adapters(Models)
  BY DEF Typed, Bracketed, Adapter
<1>3. /\ job.visible \in Texts
      /\ job.address \in Addresses /\ job.brief \in Briefs
  BY <1>1 DEF Busy
<1>4. Prompt(job.address,
             IF job.at = "self_test" THEN "payload" ELSE job.at,
             IF job.at = "prefix" THEN job.brief ELSE "") \in Prompts
  BY <1>3, LocalModelAssumption DEF Calling
<1>5. Asked \in Contexts /\ Asked.visible = job.visible
  BY <1>3, <1>4 DEF Asked, Contexts, Texts
<1> QED BY <1>1, <1>2, <1>5

(* The answer is computed from the context that is asked. *)
LEMMA AnsweredFresh ==
  ASSUME Typed, Bracketed, Warm, job.at \in Calling
  PROVE  Filled(Adapter, Asked) = Asked
<1>1. CASE ~Extends(Adapter, Asked)
  BY <1>1 DEF Filled
<1>2. CASE Extends(Adapter, Asked)
  <2> DEFINE c == Asked
             a == Adapter
  <2>1. a \in Adapters(Models) /\ c \in Contexts /\ c.visible = job.visible
    BY Caller
  <2>2. c.visible \in Texts /\ a.last \in Held
    BY <2>1 DEF Contexts, Texts, Adapters
  <2>3. a.last.visible \in Texts
    <3>1. CASE a.last \in Contexts
      BY <3>1 DEF Contexts, Texts
    <3>2. CASE a.last = NoContext
      BY <3>2, EmptySeq DEF NoContext, Texts
    <3> QED BY <2>2, <3>1, <3>2 DEF Held
  <2>4. Len(c.visible) > 0
    <3>1. Len(c.visible) = Len(a.last.visible) + 1
      BY <1>2 DEF Extends
    <3>2. Len(a.last.visible) \in Nat
      BY <2>3, LenProperties DEF Texts
    <3> QED BY <3>1, <3>2
  <2>5. job.begun \/ job.at # "self_test"
    BY <2>1, <2>4 DEF Bracketed
  <2>6. a.cache = a.last
    BY <2>5 DEF Warm
  <2>7. a.cache # Broken
    BY <2>2, <2>6, AdapterAssumption
  <2>8. a.last = [prompt |-> c.prompt,
                  visible |-> SubSeq(c.visible, 1, Len(c.visible) - 1)]
    <3>1. a.last = [prompt |-> a.last.prompt, visible |-> a.last.visible]
      BY <2>2 DEF Held, Contexts, NoContext
    <3>2. /\ a.last.prompt = c.prompt
          /\ a.last.visible = SubSeq(c.visible, 1, Len(c.visible) - 1)
      BY <1>2 DEF Extends
    <3> QED BY <3>1, <3>2
  <2> HIDE DEF a, c
  <2>9. Filled(a, c) =
          [a.cache EXCEPT !.visible =
             Append(@, c.visible[Len(c.visible)])]
    BY <1>2, <2>7 DEF Filled, a, c
  <2>10. [a.cache EXCEPT !.visible = Append(@, c.visible[Len(c.visible)])] =
           [prompt |-> c.prompt,
            visible |-> Append(SubSeq(c.visible, 1, Len(c.visible) - 1),
                               c.visible[Len(c.visible)])]
    <3> DEFINE p == c.prompt
               v == SubSeq(c.visible, 1, Len(c.visible) - 1)
               x == c.visible[Len(c.visible)]
    <3>1. a.cache = [prompt |-> p, visible |-> v]
      BY <2>6, <2>8
    <3> HIDE DEF p, v, x
    <3>2. a.cache.visible = v
      BY <3>1
    <3>3. [a.cache EXCEPT !.visible = Append(v, x)]
            = [prompt |-> p, visible |-> Append(v, x)]
      BY <3>1, WithText
    <3> QED BY <3>2, <3>3 DEF p, v, x
  <2>11. c = [prompt |-> c.prompt, visible |-> c.visible]
    BY <2>1 DEF Contexts, c
  <2>12. Append(SubSeq(c.visible, 1, Len(c.visible) - 1),
                c.visible[Len(c.visible)]) = c.visible
    BY <2>2, <2>4, FrontAppend DEF c
  <2> QED BY <2>9, <2>10, <2>11, <2>12 DEF a, c
<1> QED BY <1>1, <1>2

(* Inside a section it is computed from the new token alone. *)
LEMMA WarmFeedsToken ==
  ASSUME Typed, Bracketed, Warm, job.at \in Calling, job.begun
  PROVE  Fed(Adapter, Asked) = "token"
<1> DEFINE s == job.visible
<1>1. /\ Adapter \in Adapters(Models) /\ Asked.visible = s
      /\ s \in Texts /\ s # <<>>
  BY Caller DEF Warm, Busy
<1>2. /\ Adapter.cache = Adapter.last
      /\ Adapter.last.prompt = Asked.prompt
      /\ Adapter.last.visible = SubSeq(s, 1, Len(s) - 1)
  BY DEF Warm
<1>3. Adapter.cache # NoCache
  BY <1>1, <1>2, AdapterAssumption DEF Adapters
<1>4. Len(s) \in Nat /\ Len(s) > 0
  BY <1>1, EmptySeq DEF Texts
<1>5. Len(SubSeq(s, 1, Len(s) - 1)) + 1 = Len(s)
  <2>1. /\ SubSeq(s, 1, Len(s) - 1) \in Texts
        /\ Append(SubSeq(s, 1, Len(s) - 1), s[Len(s)]) = s
    BY <1>1, <1>4, FrontAppend
  <2>2. Len(Append(SubSeq(s, 1, Len(s) - 1), s[Len(s)]))
          = Len(SubSeq(s, 1, Len(s) - 1)) + 1
    BY <2>1 DEF Texts
  <2> QED BY <2>1, <2>2
<1> HIDE DEF s
<1>6. Extends(Adapter, Asked)
  BY <1>1, <1>2, <1>3, <1>5 DEF Extends
<1> QED BY <1>6 DEF Fed

-----------------------------------------------------------------------------
LEMMA InitInv == Init => Inv
<1> SUFFICES ASSUME Init PROVE Inv
  OBVIOUS
<1>1. job.at = "idle" /\ loaded = None /\ resident = None
  BY DEF Init, Idle
<1>2. Typed
  BY DEF Init, Typed
<1>3. Bracketed /\ Warm /\ Named /\ Unswapped
  BY <1>1 DEF Init, Bracketed, Warm, Named, Unswapped, Calling
<1>4. FreshLogits /\ OneTokenFed
  BY DEF Init, FreshLogits, OneTokenFed, NoAnswer
<1> QED BY <1>2, <1>3, <1>4 DEF Inv

(* Leaving a job leaves nothing of it but the resident adapter. *)
LEMMA Left ==
  ASSUME Inv, Leave, disk' \in Models,
         resident' \in Adapters(Models) \cup {None},
         resident' # None /\ "resident" \notin swapped => key' = resident'.model
  PROVE  Inv'
<1>1. /\ job'.at = "idle" /\ loaded' = None /\ verified' = {}
      /\ swapped' = swapped \ {"tree"}
  BY DEF Leave, Idle
<1>2. Typed'
  BY DEF Leave, Typed, Inv
<1>3. Bracketed' /\ Warm' /\ Named' /\ Unswapped'
  BY <1>1 DEF Bracketed, Warm, Named, Unswapped, Calling
<1>4. FreshLogits' /\ OneTokenFed'
  BY DEF Leave, FreshLogits, OneTokenFed, NoAnswer
<1> QED BY <1>2, <1>3, <1>4 DEF Inv

LEMMA StartInv ==
  ASSUME Inv, NEW kind \in {"encode", "decode"}, NEW a \in Addresses,
         NEW b \in Briefs, Start(kind, a, b)
  PROVE  Inv'
<1>1. /\ job' \in Busy /\ job'.at = "bind" /\ job'.visible = <<>>
      /\ ~job'.begun /\ loaded = None /\ verified = {}
  <2>1. <<>> \in Texts
    BY EmptySeq DEF Texts
  <2> QED BY <2>1 DEF Start, Busy, Inv, Bracketed
<1>2. Typed'
  BY <1>1 DEF Start, Inv, Typed, memory
<1>3. Bracketed' /\ Warm' /\ Named' /\ Unswapped'
  BY <1>1 DEF Start, Inv, Bracketed, Warm, Named, Unswapped, Calling, memory
<1>4. FreshLogits' /\ OneTokenFed'
  BY DEF Start, Inv, FreshLogits, OneTokenFed
<1> QED BY <1>2, <1>3, <1>4 DEF Inv

LEMMA ReplaceInv ==
  ASSUME Inv, NEW f \in Files, NEW v \in Versions, Replace(f, v)
  PROVE  Inv'
<1>1. disk' \in Models
  BY DEF Replace, Inv, Typed, Models
<1>2. Adapter' = Adapter /\ Asked' = Asked
  BY DEF Replace, Adapter, Asked, memory
<1>3. Typed'
  BY <1>1 DEF Replace, Inv, Typed, memory
<1>4. Bracketed' /\ Warm' /\ Named'
  <2>1. Bracketed' /\ Warm'
    BY <1>2 DEF Replace, Inv, Bracketed, Warm, memory
  <2>2. Named'
    BY <1>2 DEF Replace, Inv, Named, Answering, memory
  <2> QED BY <2>1, <2>2
<1>6. Unswapped'
  <2>1. /\ resident' = resident /\ key' = key /\ job' = job
        /\ verified' = verified /\ loaded' = loaded
        /\ swapped \subseteq swapped'
        /\ "resident" \in swapped' => "resident" \in swapped
    BY DEF Replace, memory
  <2>2. ASSUME job.at = "bind", "tree" \notin swapped'
        PROVE  \A g \in verified : disk'[g] = job.address.artifacts[g]
    <3>1. f \notin verified \/ v = disk[f]
      BY <2>2 DEF Replace
    <3>2. \A g \in verified : disk'[g] = disk[g]
      BY <3>1 DEF Replace, Inv, Typed, Models
    <3> QED BY <2>1, <2>2, <3>2 DEF Inv, Unswapped
  <2> QED BY <2>1, <2>2 DEF Inv, Unswapped
<1>5. FreshLogits' /\ OneTokenFed'
  BY DEF Replace, Inv, FreshLogits, OneTokenFed
<1> QED BY <1>3, <1>4, <1>5, <1>6 DEF Inv

LEMMA BindInv ==
  ASSUME Inv, Reuse \/ Load
  PROVE  Inv'
<1>1. /\ job \in Busy /\ job.at = "bind"
      /\ job.visible = <<>> /\ ~job.begun /\ loaded = None
  BY DEF Inv, Typed, Idle, Bracketed, Reuse, Load
<1>2. /\ job' \in Busy /\ job'.at = "self_test"
      /\ job'.visible = <<>> /\ ~job'.begun
      /\ resident' = resident /\ key' = key /\ disk' = disk
      /\ verified' = verified /\ answer' = answer /\ swapped' = swapped
      /\ job'.address = job.address
  BY <1>1 DEF Reuse, Load, Busy, Calling, memory
<1>3. loaded' \in Adapters(Models) \cup {None} /\ Adapter' # None
  <2>1. CASE Reuse
    BY <1>1, <2>1 DEF Reuse, Reusable, Adapter, memory
  <2>2. CASE Load
    <3>1. loaded' = NewAdapter(disk)
      BY <2>2 DEF Load
    <3>2. NewAdapter(disk) \in Adapters(Models)
      BY DEF NewAdapter, Adapters, Held, Inv, Typed
    <3> QED BY <3>1, <3>2, LocalModelAssumption DEF Adapter
  <2> QED BY <2>1, <2>2
<1>4. Typed'
  BY <1>2, <1>3 DEF Inv, Typed
<1>5. Bracketed' /\ Warm'
  BY <1>2, <1>3 DEF Inv, Bracketed, Warm, Calling
<1>6. FreshLogits' /\ OneTokenFed'
  BY <1>2 DEF Inv, FreshLogits, OneTokenFed
<1>7. CASE Reuse
  <2>1. key = job.address.artifacts /\ loaded' = None
    BY <1>1, <1>7 DEF Reuse, Reusable
  <2> QED BY <1>2, <1>4, <1>5, <1>6, <2>1 DEF Inv, Named, Unswapped, Calling
<1>8. CASE Load
  <2>1. verified = Files /\ loaded' = NewAdapter(disk)
    BY <1>8 DEF Load
  <2>2. loaded' # None
    <3>1. NewAdapter(disk) \in Adapters(Models)
      BY DEF NewAdapter, Adapters, Held, Inv, Typed
    <3> QED BY <2>1, <3>1, LocalModelAssumption
  <2>3. "tree" \notin swapped => disk = job.address.artifacts
    <3>1. SUFFICES ASSUME "tree" \notin swapped
                   PROVE  disk = job.address.artifacts
      OBVIOUS
    <3>2. \A f \in Files : disk[f] = job.address.artifacts[f]
      BY <1>1, <2>1, <3>1 DEF Inv, Unswapped
    <3>3. disk \in Models /\ job.address.artifacts \in Models
      BY <1>1, LocalModelAssumption DEF Inv, Typed, Busy
    <3> QED BY <3>2, <3>3 DEF Models
  <2>4. loaded'.model = disk
    BY <2>1 DEF NewAdapter
  <2>5. Named' /\ Unswapped'
    BY <1>2, <2>2, <2>3, <2>4 DEF Inv, Named, Unswapped, Calling
  <2> QED BY <1>4, <1>5, <1>6, <2>5 DEF Inv
<1> QED BY <1>7, <1>8

LEMMA VerifyInv ==
  ASSUME Inv, NEW f \in Files, Verify(f)
  PROVE  Inv'
<1>1. resident' = resident /\ key' = key /\ disk' = disk
  BY DEF Verify, memory
<1>2. CASE disk[f] = job.address.artifacts[f]
  <2>1. /\ job' = job /\ loaded' = loaded /\ answer' = answer
        /\ swapped' = swapped /\ verified' = verified \cup {f}
        /\ verified' \subseteq Files /\ job.at = "bind"
    BY <1>2 DEF Verify, Inv, Typed
  <2>2. Adapter' = Adapter /\ Asked' = Asked
    BY <1>1, <2>1 DEF Adapter, Asked
  <2>3. Typed'
    BY <1>1, <2>1 DEF Inv, Typed
  <2>4. Bracketed' /\ Warm' /\ Named' /\ Unswapped'
    BY <1>1, <1>2, <2>1, <2>2
       DEF Inv, Bracketed, Warm, Named, Unswapped, Calling
  <2>5. FreshLogits' /\ OneTokenFed'
    BY <2>1 DEF Inv, FreshLogits, OneTokenFed
  <2> QED BY <2>3, <2>4, <2>5 DEF Inv
<1>3. CASE disk[f] # job.address.artifacts[f]
  <2>1. Leave
    BY <1>3 DEF Verify
  <2>2. /\ disk' \in Models /\ resident' \in Adapters(Models) \cup {None}
        /\ resident' # None /\ "resident" \notin swapped =>
             key' = resident'.model
    BY <1>1 DEF Inv, Typed, Unswapped
  <2> QED BY <2>1, <2>2, Left
<1> QED BY <1>2, <1>3

(* What a call that succeeds makes of the adapter. *)
LEMMA Forwarded ==
  ASSUME Typed, Bracketed, Warm, job.at \in Calling, Keep(Forward(Adapter, Asked))
  PROVE  /\ Adapter' = [Adapter EXCEPT !.cache = Asked, !.last = Asked]
         /\ Adapter' \in Adapters(Models)
         /\ Adapter'.cache = Asked /\ Adapter'.last = Asked
         /\ Adapter'.model = Adapter.model
         /\ loaded = None => loaded' = None /\ resident' = Adapter'
         /\ loaded # None => loaded' = Adapter' /\ resident' = resident
<1> DEFINE n == Forward(Adapter, Asked)
<1>1. Adapter \in Adapters(Models) /\ Asked \in Contexts
  BY Caller
<1>2. n = [Adapter EXCEPT !.cache = Asked, !.last = Asked]
  BY AnsweredFresh DEF Forward
<1>3. /\ n \in Adapters(Models) /\ n.model = Adapter.model
      /\ n.cache = Asked /\ n.last = Asked
  BY <1>1, <1>2 DEF Adapters, Held
<1>4. n # None
  BY <1>3, LocalModelAssumption
<1> HIDE DEF n
<1>5. CASE loaded # None
  BY <1>2, <1>3, <1>4, <1>5 DEF Keep, Adapter, n
<1>6. CASE loaded = None
  BY <1>2, <1>3, <1>4, <1>6 DEF Keep, Adapter, n
<1> QED BY <1>5, <1>6

LEMMA CallInv ==
  ASSUME Inv, NEW t \in Words, Call(t)
  PROVE  Inv'
<1>1. /\ Typed /\ Bracketed /\ Warm /\ Named /\ Unswapped
      /\ job.at \in Calling
      /\ Keep(Forward(Adapter, Asked))
  BY DEF Inv, Call
<1>2. /\ job \in Busy /\ Asked \in Contexts /\ Asked.visible = job.visible
      /\ Adapter \in Adapters(Models)
  BY <1>1, Caller
<1>3. /\ Adapter' \in Adapters(Models)
      /\ Adapter'.cache = Asked /\ Adapter'.last = Asked
      /\ Adapter'.model = Adapter.model
      /\ loaded = None => loaded' = None /\ resident' = Adapter'
      /\ loaded # None => loaded' = Adapter' /\ resident' = resident
  BY <1>1, Forwarded
<1>4. /\ job' = [job EXCEPT !.visible = Append(job.visible, t), !.begun = TRUE,
                           !.exact = job'.exact]
      /\ job'.exact = (job.exact /\ (job.at = "self_test" => Expected))
  BY <1>2 DEF Call, Busy
<1>5. /\ job.visible \in Texts
      /\ Append(job.visible, t) \in Texts
      /\ Append(job.visible, t) # <<>>
      /\ SubSeq(Append(job.visible, t), 1, Len(Append(job.visible, t)) - 1)
           = job.visible
  <2>1. job.visible \in Texts
    BY <1>2 DEF Busy
  <2> QED BY <2>1, AppendFront
<1>6. /\ job' \in Busy /\ job'.at = job.at /\ job'.address = job.address
      /\ job'.brief = job.brief /\ job'.begun
      /\ job'.visible = Append(job.visible, t)
  <2>1. job'.exact \in BOOLEAN
    BY <1>4
  <2> HIDE DEF Texts
  <2> QED BY <1>2, <1>4, <1>5, <2>1 DEF Busy
<1>7. Typed'
  <2>1. disk' = disk /\ verified' = verified /\ swapped' = swapped
    BY DEF Call
  <2> QED BY <1>1, <1>3, <1>6, <2>1 DEF Typed
<1>8. Bracketed'
  <2>1. Adapter' # None
    BY <1>3, LocalModelAssumption
  <2> QED BY <1>1, <1>3, <1>6, <2>1 DEF Bracketed, Calling
<1>9. Warm'
  <2>1. Asked'.prompt = Asked.prompt
    BY <1>6 DEF Asked
  <2>2. Asked = [prompt |-> Asked.prompt, visible |-> job.visible]
    BY <1>2 DEF Asked
  <2>3. SubSeq(job'.visible, 1, Len(job'.visible) - 1) = job.visible
    BY <1>5, <1>6
  <2>4. Adapter'.last = [prompt |-> Asked'.prompt,
          visible |-> SubSeq(job'.visible, 1, Len(job'.visible) - 1)]
    BY <1>3, <2>1, <2>2, <2>3
  <2>5. job'.visible # <<>> /\ Adapter'.cache = Adapter'.last
    BY <1>3, <1>5, <1>6
  <2> QED BY <2>4, <2>5 DEF Warm
<1>10. Named' /\ Unswapped'
  <2> DEFINE same(m) == Transcript(m, Prompt(job.address, "payload", ""))
                          = job.address.expected
  <2>1. key' = key /\ swapped' = swapped
    BY DEF Call
  <2>2. loaded = None => resident = Adapter /\ Adapter # None
    BY <1>2, LocalModelAssumption DEF Adapter
  <2>3. loaded # None => Adapter = loaded /\ loaded' # None
    BY <1>3, LocalModelAssumption DEF Adapter
  <2>4. Unswapped'
    <3>1. resident' # None /\ "resident" \notin swapped' =>
            key' = resident'.model
      BY <1>1, <1>3, <2>1, <2>2 DEF Unswapped
    <3>2. job'.at = "self_test" /\ loaded' # None /\ "tree" \notin swapped' =>
            loaded'.model = job'.address.artifacts
      BY <1>1, <1>3, <1>6, <2>1, <2>3 DEF Unswapped
    <3>3. job'.at # "bind"
      BY <1>1, <1>6 DEF Calling
    <3> QED BY <3>1, <3>2, <3>3 DEF Unswapped
  <2>5. job'.at = "self_test" /\ job'.exact => same(Adapter.model)
    <3>1. job.at = "self_test" => Asked.prompt = Prompt(job.address, "payload", "")
      BY DEF Asked
    <3> QED BY <1>4, <1>6, <3>1 DEF Expected
  <2>6. job'.at = "self_test" /\ loaded' = None => key' = job'.address.artifacts
    BY <1>1, <1>3, <1>6, <2>1, <2>3 DEF Named
  <2>7. job'.at \in Calling \ {"self_test"} =>
          same(Adapter.model) /\ key' = job'.address.artifacts
    BY <1>1, <1>6, <2>1 DEF Named, Answering
  <2>8. Adapter'.model = Adapter.model /\ job'.address = job.address
    BY <1>3, <1>6
  <2>9. Named'
    BY <2>5, <2>6, <2>7, <2>8 DEF Named, Answering
  <2> QED BY <2>4, <2>9
<1>11. FreshLogits' /\ OneTokenFed'
  <2>1. answer' = [asked |-> Asked, computed |-> Asked,
                   fed |-> Fed(Adapter, Asked), begun |-> job.begun]
    BY <1>1, AnsweredFresh DEF Call
  <2>2. job.begun => Fed(Adapter, Asked) = "token"
    BY <1>1, WarmFeedsToken
  <2> QED BY <2>1, <2>2 DEF FreshLogits, OneTokenFed
<1> QED BY <1>7, <1>8, <1>9, <1>10, <1>11 DEF Inv

LEMMA CallFailsInv ==
  ASSUME Inv, CallFails
  PROVE  Inv'
<1>1. /\ Typed /\ Bracketed /\ Warm /\ Unswapped /\ job.at \in Calling
  BY DEF Inv, CallFails
<1>2. Adapter \in Adapters(Models) /\ Asked \in Contexts
  BY <1>1, Caller
<1>3. ASSUME NEW a \in Failures(Adapter, Asked)
      PROVE  a \in Adapters(Models) /\ a.model = Adapter.model
  <2>1. Forward(Adapter, Asked)
          = [Adapter EXCEPT !.cache = Asked, !.last = Asked]
    BY <1>1, AnsweredFresh DEF Forward
  <2>2. /\ Forward(Adapter, Asked) \in Adapters(Models)
        /\ Forward(Adapter, Asked).model = Adapter.model
    BY <1>2, <2>1 DEF Adapters, Held
  <2>3. [Forward(Adapter, Asked) EXCEPT !.cache = Broken] \in Adapters(Models)
    BY <2>2 DEF Adapters
  <2>4. [Forward(Adapter, Asked) EXCEPT !.cache = Broken].model = Adapter.model
    BY <2>2 DEF Adapters
  <2>5. ASSUME NEW c \in {IF Extends(Adapter, Asked) THEN Adapter.cache
                                                    ELSE NoContext, Broken}
        PROVE  /\ [Adapter EXCEPT !.cache = c] \in Adapters(Models)
               /\ [Adapter EXCEPT !.cache = c].model = Adapter.model
    <3>1. c \in Held \cup {NoCache, Broken}
      BY <1>2, <2>5 DEF Adapters, Held
    <3> QED BY <1>2, <3>1 DEF Adapters
  <2> QED BY <1>3, <2>2, <2>3, <2>4, <2>5 DEF Failures
<1>4. disk' = disk /\ key' = key /\ Leave
  BY DEF CallFails
<1>5. /\ resident' \in Adapters(Models) \cup {None}
      /\ resident' # None /\ "resident" \notin swapped => key' = resident'.model
  <2>1. PICK a \in Failures(Adapter, Asked) :
          IF loaded # None THEN resident' = resident ELSE resident' = a
    BY DEF CallFails
  <2>2. CASE loaded # None
    BY <1>1, <1>4, <2>1, <2>2 DEF Typed, Unswapped
  <2>3. CASE loaded = None
    <3>1. Adapter = resident /\ resident # None
      BY <1>2, <2>3, LocalModelAssumption DEF Adapter
    <3> QED BY <1>1, <1>3, <1>4, <2>1, <2>3, <3>1 DEF Unswapped
  <2> QED BY <2>2, <2>3
<1> QED BY <1>1, <1>4, <1>5, Left DEF Typed

LEMMA FixedText ==
  ASSUME NEW n \in Nat, NEW text \in [1..n -> Words]
  PROVE  text \in Seq(Words)
BY SeqDef, Zenon

LEMMA BoundInv ==
  ASSUME Inv, Bound
  PROVE  Inv'
<1>1. /\ Typed /\ Bracketed /\ Warm /\ Named /\ Unswapped
      /\ job.at \in Calling
      /\ job.at = "self_test" /\ Len(job.visible) = Steps /\ disk' = disk
  BY DEF Inv, Bound, Calling
<1>2. job \in Busy /\ Adapter \in Adapters(Models)
  BY <1>1, Caller
<1>3. CASE ~job.exact
  <2>1. Leave /\ resident' = resident /\ key' = key
    BY <1>3 DEF Bound, memory
  <2> QED BY <1>1, <2>1, Left DEF Typed, Unswapped
<1>4. CASE job.exact
  <2>1. job.begun
    <3>1. Len(<<>>) = 0
      OBVIOUS
    <3> QED BY <1>1, <3>1, LocalModelAssumption DEF Bracketed
  <2>2. PICK observed \in [1..PrefixTokens -> Words] : job' = Begin(observed)
    BY <1>4 DEF Bound
  <2>3. observed \in Texts
    BY <2>2, LocalModelAssumption, FixedText DEF Texts
  <2>4. /\ resident' = Adapter /\ key' = job.address.artifacts
        /\ loaded' = None /\ verified' = verified /\ answer' = answer
    BY <1>4 DEF Bound
  <2>5. /\ job' \in Busy /\ ~job'.begun /\ job'.address = job.address
        /\ job'.at \in {"prefix", "payload"}
    <3>1. <<>> \in Texts
      BY EmptySeq DEF Texts
    <3> HIDE DEF Texts
    <3> QED BY <1>2, <2>2, <2>3, <3>1 DEF Begin, Busy, Calling
  <2>6. Adapter' = Adapter
    BY <2>4 DEF Adapter
  <2>7. Adapter.cache = Adapter.last /\ Answering(Adapter.model)
    BY <1>1, <1>4, <2>1 DEF Warm, Named
  <2>8. Adapter # None
    BY <1>2, LocalModelAssumption
  <2>12. /\ loaded = None => swapped' = swapped
         /\ loaded # None => swapped' = IF "tree" \in swapped THEN {"resident"}
                                                             ELSE {}
    BY <1>4 DEF Bound, KeepHistory
  <2>9. Typed'
    BY <1>1, <1>2, <2>4, <2>5, <2>12 DEF Typed
  <2>10. Bracketed' /\ Warm' /\ Named'
    <3>1. Bracketed' /\ Warm'
      BY <2>4, <2>5, <2>6, <2>7, <2>8 DEF Bracketed, Warm, Calling
    <3>2. Named'
      BY <2>4, <2>5, <2>6, <2>7 DEF Named, Answering
    <3> QED BY <3>1, <3>2
  <2>13. Unswapped'
    <3>1. "resident" \notin swapped' => key' = resident'.model
      <4>1. CASE loaded = None
        BY <1>1, <2>4, <2>8, <2>12, <4>1 DEF Named, Unswapped, Adapter
      <4>2. CASE loaded # None
        BY <1>1, <2>4, <2>12, <4>2 DEF Unswapped, Adapter
      <4> QED BY <4>1, <4>2
    <3> QED BY <2>5, <3>1 DEF Unswapped
  <2>11. FreshLogits' /\ OneTokenFed'
    BY <2>4 DEF Inv, FreshLogits, OneTokenFed
  <2> QED BY <2>9, <2>10, <2>11, <2>13 DEF Inv
<1> QED BY <1>3, <1>4

LEMMA SectionInv ==
  ASSUME Inv, Section
  PROVE  Inv'
<1>1. /\ Typed /\ Bracketed /\ Warm /\ Named /\ Unswapped
      /\ job.at \in {"prefix", "payload"} /\ job.at \in Calling
  BY DEF Inv, Section, Calling
<1>2. job \in Busy
  BY <1>1, Caller
<1>3. /\ job' \in Busy /\ ~job'.begun /\ job'.address = job.address
      /\ job'.at \in {"payload", "finish"}
  BY <1>2 DEF Section, Busy, Calling
<1>4. /\ disk' = disk /\ resident' = resident /\ key' = key
      /\ verified' = verified /\ loaded' = loaded /\ answer' = answer
      /\ swapped' = swapped
  BY DEF Section, memory
<1>5. Adapter' = Adapter
  BY <1>4 DEF Adapter
<1>6. Typed'
  BY <1>1, <1>3, <1>4 DEF Typed
<1>7. Bracketed' /\ Warm' /\ Named' /\ Unswapped'
  <2>1. Bracketed' /\ Warm'
    BY <1>1, <1>3, <1>4, <1>5 DEF Bracketed, Warm, Calling
  <2>2. Named' /\ Unswapped'
    BY <1>1, <1>3, <1>4, <1>5 DEF Named, Unswapped, Answering, Calling
  <2> QED BY <2>1, <2>2
<1>8. FreshLogits' /\ OneTokenFed'
  BY <1>4 DEF Inv, FreshLogits, OneTokenFed
<1> QED BY <1>6, <1>7, <1>8 DEF Inv

LEMMA EndInv ==
  ASSUME Inv, End
  PROVE  Inv'
BY Left DEF End, memory, Inv, Typed, Unswapped

LEMMA NextInv == Inv /\ [Next]_vars => Inv'
<1> SUFFICES ASSUME Inv, [Next]_vars PROVE Inv'
  OBVIOUS
<1>1. CASE \E f \in Files, v \in Versions : Replace(f, v)
  BY <1>1, ReplaceInv
<1>2. CASE \E kind \in {"encode", "decode"}, a \in Addresses, b \in Briefs :
             Start(kind, a, b)
  BY <1>2, StartInv
<1>3. CASE Reuse \/ Load
  BY <1>3, BindInv
<1>4. CASE \E f \in Files : Verify(f)
  BY <1>4, VerifyInv
<1>5. CASE \E t \in Words : Call(t)
  BY <1>5, CallInv
<1>6. CASE CallFails
  BY <1>6, CallFailsInv
<1>7. CASE Bound
  BY <1>7, BoundInv
<1>8. CASE Section
  BY <1>8, SectionInv
<1>9. CASE End
  BY <1>9, EndInv
<1>10. CASE UNCHANGED vars
  <2>1. /\ disk' = disk /\ resident' = resident /\ key' = key /\ job' = job
        /\ verified' = verified /\ loaded' = loaded /\ answer' = answer
        /\ swapped' = swapped
    BY <1>10 DEF vars, memory
  <2>2. Adapter' = Adapter /\ Asked' = Asked
    BY <2>1 DEF Adapter, Asked
  <2>3. Typed' /\ FreshLogits' /\ OneTokenFed'
    BY <2>1 DEF Inv, Typed, FreshLogits, OneTokenFed
  <2>4. Bracketed'
    BY <2>1, <2>2 DEF Inv, Bracketed
  <2>5. Warm'
    BY <2>1, <2>2 DEF Inv, Warm
  <2>6. Named'
    BY <2>1, <2>2 DEF Inv, Named, Answering
  <2>7. Unswapped'
    BY <2>1 DEF Inv, Unswapped
  <2> QED BY <2>3, <2>4, <2>5, <2>6, <2>7 DEF Inv
<1> QED
  BY <1>1, <1>2, <1>3, <1>4, <1>5, <1>6, <1>7, <1>8, <1>9, <1>10 DEF Next

-----------------------------------------------------------------------------
(* The inductive invariant of the resident model: from its first call on,  *)
(* the adapter of a job holds what the job asked last (models/             *)
(* mlx_adapter.py:220-231), it has the tables the address expects once the *)
(* self-test has passed (models/profile.py:92-97), and its key names its   *)
(* files unless one was changed between its verification and the loading.  *)
THEOREM AlwaysInv == Spec => []Inv
<1>1. Init => Inv
  BY InitInv
<1>2. Inv /\ [Next]_vars => Inv'
  BY NextInv
<1> QED BY <1>1, <1>2, PTL DEF Spec

(* Whatever earlier jobs, failed calls and other prompts left in the cache, *)
(* no answer is computed from it (models/mlx_adapter.py:220-231).          *)
THEOREM NoStaleLogits == Spec => []FreshLogits
<1>1. Inv => FreshLogits
  BY DEF Inv
<1> QED BY <1>1, AlwaysInv, PTL

(* Inside a section only the new token is fed to the model.                *)
THEOREM CacheUsed == Spec => []OneTokenFed
<1>1. Inv => OneTokenFed
  BY DEF Inv
<1> QED BY <1>1, AlwaysInv, PTL

(* Whatever changes in the files while they are verified and loaded, a     *)
(* section is written or read only with a model of the address's self-test *)
(* tables; and the resident model is the one of its key, file by file,     *)
(* unless a file was changed after its verification (web/app.py:117-125).  *)
THEOREM AddressedModel == Spec => []RightModel
<1>1. Inv => RightModel
  BY DEF Inv, Bracketed, Named, Unswapped, Answering, RightModel, Adapter
<1> QED BY <1>1, AlwaysInv, PTL
=============================================================================
