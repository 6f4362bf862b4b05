----------------------------- MODULE ModelAdapter -----------------------------
(***************************************************************************)
(* MlxLanguageModel of models/mlx_adapter.py: the accelerator's model with *)
(* its key/value cache.  When a context is the last one and one token      *)
(* more, only that token is fed, on top of the cache; else a new cache is  *)
(* filled from the start.  What the model then computes is the logits of   *)
(* what the cache really holds.                                            *)
(*                                                                         *)
(* A context is a prompt and the visible tokens after it.  Prompts end in  *)
(* the assistant's turn: none is another one with a token more.            *)
(***************************************************************************)
EXTENDS Sequences, Integers

CONSTANTS
  Prompts,   \* rendered prompts
  Words,     \* visible tokens
  NoPrompt,  \* the prompt of no context
  NoCache,   \* None
  Broken     \* what a failed call may leave in a cache

(* The empty context is also what a new cache holds. *)
NoContext == [prompt |-> NoPrompt, visible |-> <<>>]
Contexts  == [prompt : Prompts, visible : Seq(Words)]
Held      == Contexts \cup {NoContext}

ASSUME AdapterAssumption ==
  /\ NoPrompt \notin Prompts
  /\ NoCache # Broken
  /\ NoCache \notin Held /\ Broken \notin Held

Adapters(models) ==
  [model : models, cache : Held \cup {NoCache, Broken}, last : Held]

(* MlxLanguageModel(...) of a model that was loaded. *)
NewAdapter(model) == [model |-> model, cache |-> NoCache, last |-> NoContext]

-----------------------------------------------------------------------------
(* Mutant of Extends: only the lengths are compared. *)
ExtendsByLength(a, context) ==
  /\ a.cache # NoCache
  /\ Len(context.visible) = Len(a.last.visible) + 1

(* Mutant of Extends: the contexts are compared with the new token. *)
ExtendsWhole(a, context) ==
  /\ a.cache # NoCache
  /\ Len(context.visible) = Len(a.last.visible) + 1
  /\ context = a.last

(* _next_logits: the context is the last one and one token. *)
Extends(a, context) ==
  /\ a.cache # NoCache
  /\ a.last.prompt = context.prompt
  /\ Len(context.visible) = Len(a.last.visible) + 1
  /\ SubSeq(context.visible, 1, Len(context.visible) - 1) = a.last.visible

Fed(a, context) == IF Extends(a, context) THEN "token" ELSE "context"

(* The cache after the forward pass: its content and what was fed.         *)
Filled(a, context) ==
  IF ~Extends(a, context) THEN context
  ELSE IF a.cache = Broken THEN Broken
  ELSE [a.cache EXCEPT !.visible =
          Append(@, context.visible[Len(context.visible)])]

Forward(a, context) ==
  [a EXCEPT !.cache = Filled(a, context), !.last = context]

(* A forward pass that raises has kept, or begun to change, the cache of   *)
(* an extension, or the new one; the last context stays.  The arrays are   *)
(* lazy: a pass may also fail when they are evaluated, after all that, or  *)
(* with a logit that is not finite.                                        *)
Failures(a, context) ==
  {[a EXCEPT !.cache = c] :
     c \in {IF Extends(a, context) THEN a.cache ELSE NoContext, Broken}}
    \cup {Forward(a, context),
          [Forward(a, context) EXCEPT !.cache = Broken]}
=============================================================================
