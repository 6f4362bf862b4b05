----------------------------- MODULE MCLocalModel -----------------------------
(* Two versions of a tree of two files, of which only the weights change   *)
(* the tables of a self-test; three addresses, two of them with the same   *)
(* artifacts.                                                              *)
EXTENDS LocalModel

Tree(v) == [f \in Files |-> v]
WeightsTranscript(model, prompt) == <<model["weights"], prompt>>
Address(v, c) ==
  [artifacts |-> Tree(v), cover |-> c,
   expected  |-> <<v, <<c, "payload", "">>>>]
ThreeAddresses == {Address("v1", "friend"), Address("v1", "family"),
                   Address("v2", "friend")}
AllPrompts == {"friend", "family"} \X {"prefix", "payload", "finish"} \X Briefs
=============================================================================
