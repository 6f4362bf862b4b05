------------------------- MODULE IdentityStore_proofs -------------------------
(***************************************************************************)
(* For every set of identities and of savers: the store implements the     *)
(* directory of immutable identities, its savers are told the truth, and   *)
(* those who list and open it meet nothing else than whole identities.     *)
(***************************************************************************)
EXTENDS IdentityStore, TLAPS

Places  == {"idle", "refused", "mkdtemp", "write", "sync", "rename", "saved",
            "cleanup", "failed", "raised", "dead"}
Working == {"write", "sync", "rename"}
Calls   == [at : Places, id : Ids \cup {None}, n : 0..3]

Typed ==
  /\ dirs \in [Names -> Directories \cup {None}]
  /\ saver \in [Savers -> Calls]
  /\ fresh \subseteq Ids /\ \A i \in fresh : dirs[i] # None

(* What is under an identity's name. *)
Sound(i) ==
  dirs[i] # None =>
    dirs[i].id = i /\ \A f \in Files : dirs[i].files[f] = "safe"

(* The files that save_identity has written in the temporary directory. *)
Progress(s) ==
  /\ saver[s].at = "mkdtemp" => saver[s].n = 1
  /\ saver[s].at \in {"write", "sync"} =>
       /\ saver[s].n \in 1..3
       /\ saver[s].n > 1 => dirs[s].files["address"] = "safe"
       /\ saver[s].n > 2 => dirs[s].files["key"] = "safe"
  /\ saver[s].at = "rename" => \A f \in Files : dirs[s].files[f] = "safe"

(* Where the directory of a call of save_identity is: in at most one place. *)
Placed(s) ==
  /\ saver[s].at # "idle" => saver[s].id \in Ids
  /\ saver[s].at \in Working \cup {"cleanup"} =>
       dirs[s] # None /\ dirs[s].by = s
  /\ saver[s].at \in Working => dirs[s].id = saver[s].id
  /\ saver[s].at \in {"idle", "mkdtemp", "refused", "failed"} => dirs[s] = None
  /\ saver[s].at \notin {"saved", "dead"} =>
       \A i \in Ids : dirs[i] # None => dirs[i].by # s
  /\ saver[s].at = "saved" =>
       dirs[saver[s].id] # None /\ dirs[saver[s].id].by = s

(* Those who look only know what is still there. *)
Listing ==
  /\ lister \in [at : {"idle", "list", "listed"}, todo : SUBSET Names,
                 found : SUBSET Ids, before : SUBSET Ids]
  /\ lister.before \subseteq Published /\ lister.found \subseteq Published
  /\ lister.before \subseteq lister.found \cup lister.todo
  /\ lister.at = "listed" => lister.todo = {}
Opening ==
  /\ opener \in [at : {"idle", "address", "unlocked"}, id : Ids \cup {None},
                 by : Savers \cup {None}]
  /\ opener.at = "address" =>
       /\ opener.id \in Ids
       /\ dirs[opener.id] # None /\ dirs[opener.id].by = opener.by

Inv ==
  /\ Typed /\ \A i \in Ids : Sound(i)
  /\ \A s \in Savers : Progress(s) /\ Placed(s)
  /\ Listing /\ Opening

(* Nothing changes for those who see identities only. *)
SameIdentities == \A i \in Ids : dirs'[i] = dirs[i]

-----------------------------------------------------------------------------
LEMMA InitInv == Init => Inv
<1> SUFFICES ASSUME Init
             PROVE  Inv
  OBVIOUS
<1>1. \A n \in Names : dirs[n] = None
  BY DEF Init
<1>2. \A s \in Savers : s \in Names
  BY DEF Names
<1>3. \A i \in Ids : i \in Names
  BY DEF Names
<1>4. \A s \in Savers : saver[s] = Idle
  BY DEF Init
<1>5. Typed
  BY DEF Init, Typed, Calls, Idle, Places
<1>6. \A s \in Savers : Progress(s) /\ Placed(s)
  BY <1>1, <1>2, <1>3, <1>4 DEF Progress, Placed, Idle, Working
<1>7. \A i \in Ids : Sound(i)
  BY <1>1, <1>3 DEF Sound
<1>8. Listing /\ Opening
  BY DEF Init, Listing, Opening, Resting, Closed
<1> QED BY <1>5, <1>6, <1>7, <1>8 DEF Inv

LEMMA Separate ==
  ASSUME NEW s \in Savers
  PROVE  s \in Names /\ s \notin Ids /\ \A i \in Ids : i # s /\ i \in Names
BY StoreAssumption DEF Names

(* A call that only changes its own state and its temporary directory. *)
LEMMA OwnStep ==
  ASSUME Inv, NEW s \in Savers, NEW v \in Calls,
         NEW d \in Directories \cup {None},
         saver' = [saver EXCEPT ![s] = v], dirs' = [dirs EXCEPT ![s] = d],
         fresh' \subseteq fresh, UNCHANGED calls,
         Progress(s)', Placed(s)'
  PROVE  Inv' /\ SameIdentities
<1>1. SameIdentities
  BY Separate DEF Inv, Typed, SameIdentities
<1>2. Typed'
  BY <1>1, Separate DEF Inv, Typed, SameIdentities
<1>3. \A i \in Ids : Sound(i)'
  BY <1>1 DEF Inv, Sound, SameIdentities
<1>4. ASSUME NEW t \in Savers, t # s
      PROVE  Progress(t)' /\ Placed(t)'
  <2>1. saver'[t] = saver[t] /\ dirs'[t] = dirs[t]
    BY <1>4, Separate DEF Inv, Typed
  <2>2. saver[t].at = "saved" => saver[t].id \in Ids
    BY DEF Inv, Placed
  <2> QED BY <1>1, <2>1, <2>2 DEF Inv, Progress, Placed, SameIdentities
<1>5. \A t \in Savers : Progress(t)' /\ Placed(t)'
  BY <1>4
<1>6. Listing' /\ Opening'
  BY <1>1 DEF Inv, Listing, Opening, Published, SameIdentities, calls
<1> QED BY <1>1, <1>2, <1>3, <1>5, <1>6 DEF Inv

(* A call that goes on, and changes no directory. *)
LEMMA OwnGo ==
  ASSUME Inv, NEW s \in Savers, NEW v \in Calls,
         saver' = [saver EXCEPT ![s] = v], UNCHANGED <<dirs, fresh, calls>>,
         Progress(s)', Placed(s)'
  PROVE  Inv' /\ SameIdentities
<1>1. dirs' = [dirs EXCEPT ![s] = dirs[s]]
  BY Separate DEF Inv, Typed
<1>2. dirs[s] \in Directories \cup {None}
  BY Separate DEF Inv, Typed
<1> QED BY <1>1, <1>2, OwnStep

LEMMA TheFiles ==
  /\ FileOrder[1] = "address" /\ FileOrder[2] = "key"
  /\ FileOrder[3] = "metadata" /\ Len(FileOrder) = 3
  /\ Files = {"address", "key", "metadata"}
BY DEF FileOrder, Files

(* What a call knows of itself. *)
LEMMA OwnPlace ==
  ASSUME Inv, NEW s \in Savers
  PROVE  /\ saver[s] \in Calls /\ dirs[s] \in Directories \cup {None}
         /\ Progress(s) /\ Placed(s)
         /\ \A w \in Calls :
              saver' = [saver EXCEPT ![s] = w] => saver'[s] = w
         /\ \A e : dirs' = [dirs EXCEPT ![s] = e] =>
              dirs'[s] = e /\ SameIdentities
BY Separate DEF Inv, Typed, SameIdentities

LEMMA WithFile ==
  ASSUME NEW d \in Directories, NEW f \in Files, NEW c \in Contents
  PROVE  /\ [d EXCEPT !.files[f] = c] \in Directories
         /\ [d EXCEPT !.files[f] = c].id = d.id
         /\ [d EXCEPT !.files[f] = c].by = d.by
         /\ \A g \in Files : [d EXCEPT !.files[f] = c].files[g] =
              IF g = f THEN c ELSE d.files[g]
BY DEF Directories

LEMMA Counted ==
  ASSUME NEW w \in Calls, NEW m \in 0..3
  PROVE  /\ [w EXCEPT !.n = m] \in Calls /\ [w EXCEPT !.n = m].n = m
         /\ [w EXCEPT !.n = m].at = w.at /\ [w EXCEPT !.n = m].id = w.id
BY DEF Calls

LEMMA Moved ==
  ASSUME NEW v \in Calls, NEW p \in Places
  PROVE  /\ [v EXCEPT !.at = p] \in Calls /\ [v EXCEPT !.at = p].at = p
         /\ [v EXCEPT !.at = p].id = v.id /\ [v EXCEPT !.at = p].n = v.n
BY DEF Calls

LEMMA CheckInv ==
  ASSUME Inv, NEW s \in Savers, NEW id \in Ids, Check(s, id)
  PROVE  Inv' /\ SameIdentities
<1> DEFINE v == [at |-> IF dirs[id] = None THEN "mkdtemp" ELSE "refused",
                 id |-> id, n |-> 1]
<1>1. /\ v \in Calls /\ v.n = 1 /\ v.id = id
      /\ v.at \in {"mkdtemp", "refused"}
  BY DEF Calls, Places
<1>2. /\ saver[s].at = "idle" /\ saver' = [saver EXCEPT ![s] = v]
      /\ UNCHANGED <<dirs, fresh, calls>>
  BY DEF Check, At
<1> HIDE DEF v
<1>3. saver'[s] = v
  BY <1>1, <1>2, OwnPlace
<1>4. Progress(s)' /\ Placed(s)'
  BY <1>1, <1>2, <1>3, OwnPlace DEF Progress, Placed, Working
<1> QED BY <1>1, <1>2, <1>4, OwnGo

LEMMA MakeTemporaryInv ==
  ASSUME Inv, NEW s \in Savers, MakeTemporary(s)
  PROVE  Inv' /\ SameIdentities
<1> DEFINE v == [saver[s] EXCEPT !.at = "write"]
           d == [id |-> saver[s].id, by |-> s,
                 files |-> [f \in Files |-> "absent"]]
<1>1. /\ saver[s].at = "mkdtemp" /\ saver' = [saver EXCEPT ![s] = v]
      /\ dirs' = [dirs EXCEPT ![s] = d] /\ UNCHANGED <<fresh, calls>>
  BY DEF MakeTemporary, At, Go
<1>2. saver[s] \in Calls /\ Progress(s) /\ Placed(s)
  BY OwnPlace
<1>3. v \in Calls /\ v.at = "write" /\ v.id = saver[s].id /\ v.n = 1
  BY <1>1, <1>2, Moved DEF Places, Progress
<1>4. d \in Directories /\ d.by = s /\ d.id = saver[s].id
  BY <1>1, <1>2 DEF Directories, Contents, Placed
<1> HIDE DEF v, d
<1>5. saver'[s] = v /\ dirs'[s] = d /\ SameIdentities
  BY <1>1, <1>3, OwnPlace
<1>6. Progress(s)' /\ Placed(s)'
  BY <1>1, <1>2, <1>3, <1>4, <1>5, NoDirectory
     DEF Progress, Placed, Working, SameIdentities
<1> QED BY <1>1, <1>3, <1>4, <1>6, OwnStep

LEMMA WriteInv ==
  ASSUME Inv, NEW s \in Savers, Write(s)
  PROVE  Inv' /\ SameIdentities
<1> DEFINE v == [saver[s] EXCEPT !.at = "sync"]
           d == [dirs[s] EXCEPT !.files[File(s)] = "whole"]
<1>1. /\ saver[s].at = "write" /\ saver' = [saver EXCEPT ![s] = v]
      /\ dirs' = [dirs EXCEPT ![s] = d] /\ UNCHANGED <<fresh, calls>>
  BY OwnPlace DEF Write, At, Go, Put
<1>2. saver[s] \in Calls /\ Progress(s) /\ Placed(s) /\ dirs[s] \in Directories
  BY <1>1, OwnPlace DEF Placed, Working
<1>3. v \in Calls /\ v.at = "sync" /\ v.id = saver[s].id /\ v.n = saver[s].n
  BY <1>2, Moved DEF Places
<1>4. /\ File(s) \in Files
      /\ saver[s].n > 1 => File(s) # "address"
      /\ saver[s].n > 2 => File(s) # "key"
  BY <1>1, <1>2, TheFiles DEF File, Progress
<1>5. /\ d \in Directories /\ d.by = dirs[s].by /\ d.id = dirs[s].id
      /\ \A g \in Files : d.files[g] =
           IF g = File(s) THEN "whole" ELSE dirs[s].files[g]
  BY <1>2, <1>4, WithFile DEF Contents
<1> HIDE DEF v, d
<1>6. saver'[s] = v /\ dirs'[s] = d /\ SameIdentities
  BY <1>1, <1>3, OwnPlace
<1>7. Progress(s)'
  BY <1>1, <1>2, <1>3, <1>4, <1>5, <1>6, TheFiles DEF Progress
<1>8. Placed(s)'
  BY <1>1, <1>2, <1>3, <1>5, <1>6, NoDirectory
     DEF Placed, Working, SameIdentities
<1> QED BY <1>1, <1>3, <1>5, <1>7, <1>8, OwnStep

LEMMA SyncInv ==
  ASSUME Inv, NEW s \in Savers, Sync(s)
  PROVE  Inv' /\ SameIdentities
<1> DEFINE v == IF saver[s].n < Len(FileOrder)
                THEN [saver[s] EXCEPT !.at = "write", !.n = saver[s].n + 1]
                ELSE [saver[s] EXCEPT !.at = "rename"]
           d == [dirs[s] EXCEPT !.files[File(s)] = "safe"]
<1>1. /\ saver[s].at = "sync" /\ saver' = [saver EXCEPT ![s] = v]
      /\ dirs' = [dirs EXCEPT ![s] = d] /\ fresh' = {} /\ UNCHANGED calls
  <2>1. dirs' = [dirs EXCEPT ![s] = d]
    BY DEF Sync, Put
  <2>2. saver' = [saver EXCEPT ![s] = v]
    BY DEF Sync, Written
  <2> QED BY <2>1, <2>2 DEF Sync, At
<1>2. saver[s] \in Calls /\ Progress(s) /\ Placed(s) /\ dirs[s] \in Directories
  BY <1>1, OwnPlace DEF Placed, Working
<1>3. /\ v \in Calls /\ v.id = saver[s].id
      /\ \/ v.at = "write" /\ saver[s].n < 3 /\ v.n = saver[s].n + 1
         \/ v.at = "rename" /\ saver[s].n = 3
  <2>1. saver[s].n \in 1..3 /\ Len(FileOrder) = 3
    BY <1>1, <1>2, TheFiles DEF Progress
  <2>2. CASE saver[s].n < 3
    <3> DEFINE w == [saver[s] EXCEPT !.at = "write"]
    <3>1. w \in Calls /\ w.at = "write" /\ w.id = saver[s].id
      BY <1>2, Moved DEF Places
    <3>2. saver[s].n + 1 \in 0..3
      BY <2>1, <2>2
    <3>3. v = [w EXCEPT !.n = saver[s].n + 1]
      BY <1>2, <2>1, <2>2 DEF Calls
    <3> HIDE DEF v, w
    <3> QED BY <2>2, <3>1, <3>2, <3>3, Counted
  <2>3. CASE saver[s].n = 3
    <3>1. v = [saver[s] EXCEPT !.at = "rename"]
      BY <2>1, <2>3
    <3> HIDE DEF v
    <3> QED BY <1>2, <2>3, <3>1, Moved DEF Places
  <2> QED BY <2>1, <2>2, <2>3
<1>4. /\ File(s) \in Files
      /\ saver[s].n = 1 => File(s) = "address"
      /\ saver[s].n = 2 => File(s) = "key"
      /\ saver[s].n = 3 => File(s) = "metadata"
  BY <1>1, <1>2, TheFiles DEF File, Progress
<1>5. /\ d \in Directories /\ d.by = dirs[s].by /\ d.id = dirs[s].id
      /\ \A g \in Files : d.files[g] =
           IF g = File(s) THEN "safe" ELSE dirs[s].files[g]
  BY <1>2, <1>4, WithFile DEF Contents
<1> HIDE DEF v, d
<1>6. saver'[s] = v /\ dirs'[s] = d /\ SameIdentities
  BY <1>1, <1>3, OwnPlace
<1>7. Progress(s)'
  BY <1>1, <1>2, <1>3, <1>4, <1>5, <1>6, TheFiles DEF Progress
<1>8. Placed(s)'
  BY <1>1, <1>2, <1>3, <1>5, <1>6, NoDirectory
     DEF Placed, Working, SameIdentities
<1> QED BY <1>1, <1>3, <1>5, <1>7, <1>8, OwnStep

LEMMA RaiseInv ==
  ASSUME Inv, NEW s \in Savers, Raise(s)
  PROVE  Inv' /\ SameIdentities
<1> DEFINE v == [saver[s] EXCEPT !.at = "cleanup"]
<1>1. /\ saver[s].at \in Working /\ saver' = [saver EXCEPT ![s] = v]
      /\ UNCHANGED <<fresh, calls>>
  BY DEF Raise, Go, Working
<1>2. saver[s] \in Calls /\ Progress(s) /\ Placed(s) /\ dirs[s] \in Directories
  BY <1>1, OwnPlace DEF Placed, Working
<1>3. v \in Calls /\ v.at = "cleanup" /\ v.id = saver[s].id
  BY <1>2, Moved DEF Places
<1>4. PICK d \in Directories : dirs' = [dirs EXCEPT ![s] = d] /\ d.by = s
  <2>1. CASE UNCHANGED dirs
    <3>1. dirs' = [dirs EXCEPT ![s] = dirs[s]]
      BY <2>1, Separate DEF Inv, Typed
    <3> QED BY <1>1, <1>2, <3>1 DEF Placed
  <2>2. CASE At(s, "write") /\ Put(s, "torn")
    <3>1. File(s) \in Files
      BY <1>2, <2>2, TheFiles DEF File, Progress, At
    <3>2. LET d == [dirs[s] EXCEPT !.files[File(s)] = "torn"]
          IN  d \in Directories /\ d.by = dirs[s].by
      BY <1>2, <3>1, WithFile DEF Contents
    <3>3. dirs' = [dirs EXCEPT ![s] =
                     [dirs[s] EXCEPT !.files[File(s)] = "torn"]]
      BY <2>2, Separate DEF Inv, Typed, Put
    <3> QED BY <1>1, <1>2, <3>2, <3>3 DEF Placed
  <2> QED BY <2>1, <2>2 DEF Raise
<1> HIDE DEF v
<1>5. saver'[s] = v /\ dirs'[s] \in Directories /\ dirs'[s].by = s
      /\ SameIdentities
  BY <1>1, <1>3, <1>4, OwnPlace
<1>6. Progress(s)' /\ Placed(s)'
  BY <1>1, <1>2, <1>3, <1>5, NoDirectory
     DEF Progress, Placed, Working, SameIdentities
<1> QED BY <1>1, <1>3, <1>4, <1>6, OwnStep

LEMMA UnlinkInv ==
  ASSUME Inv, NEW s \in Savers, NEW f \in Files, Unlink(s, f)
  PROVE  Inv' /\ SameIdentities
<1> DEFINE d == [dirs[s] EXCEPT !.files[f] = "absent"]
<1>1. /\ saver[s].at = "cleanup" /\ UNCHANGED <<saver, fresh, calls>>
      /\ dirs' = [dirs EXCEPT ![s] = d]
  BY Separate DEF Inv, Typed, Unlink, At
<1>2. saver[s] \in Calls /\ Placed(s) /\ dirs[s] \in Directories
  BY <1>1, OwnPlace DEF Placed
<1>3. d \in Directories /\ d.by = dirs[s].by
  BY <1>2, WithFile DEF Contents
<1> HIDE DEF d
<1>4. saver' = [saver EXCEPT ![s] = saver[s]]
  BY <1>1 DEF Inv, Typed
<1>5. dirs'[s] = d /\ SameIdentities
  BY <1>1, OwnPlace
<1>6. Progress(s)' /\ Placed(s)'
  BY <1>1, <1>2, <1>3, <1>5, NoDirectory
     DEF Progress, Placed, Working, SameIdentities
<1> QED BY <1>1, <1>2, <1>3, <1>4, <1>6, OwnStep

LEMMA RemoveDirectoryInv ==
  ASSUME Inv, NEW s \in Savers, RemoveDirectory(s)
  PROVE  Inv' /\ SameIdentities
<1> DEFINE v == [saver[s] EXCEPT !.at = "failed"]
<1>1. /\ saver[s].at = "cleanup" /\ saver' = [saver EXCEPT ![s] = v]
      /\ dirs' = [dirs EXCEPT ![s] = None] /\ UNCHANGED <<fresh, calls>>
  BY DEF RemoveDirectory, At, Go
<1>2. saver[s] \in Calls /\ Placed(s)
  BY OwnPlace
<1>3. v \in Calls /\ v.at = "failed" /\ v.id = saver[s].id
  BY <1>2, Moved DEF Places
<1> HIDE DEF v
<1>4. saver'[s] = v /\ dirs'[s] = None /\ SameIdentities
  BY <1>1, <1>3, OwnPlace
<1>5. Progress(s)' /\ Placed(s)'
  BY <1>1, <1>2, <1>3, <1>4 DEF Progress, Placed, Working, SameIdentities
<1> QED BY <1>1, <1>3, <1>5, OwnStep

LEMMA EscapesInv ==
  ASSUME Inv, NEW s \in Savers, Escapes(s)
  PROVE  Inv' /\ SameIdentities
<1> DEFINE v == [saver[s] EXCEPT !.at = "raised"]
<1>1. /\ saver[s].at \in {"mkdtemp", "cleanup"} /\ saver' = [saver EXCEPT ![s] = v]
      /\ UNCHANGED <<dirs, fresh, calls>>
  BY DEF Escapes, Go
<1>2. saver[s] \in Calls /\ Placed(s)
  BY OwnPlace
<1>3. v \in Calls /\ v.at = "raised" /\ v.id = saver[s].id
  BY <1>2, Moved DEF Places
<1> HIDE DEF v
<1>4. saver'[s] = v
  BY <1>1, <1>3, OwnPlace
<1>5. Progress(s)' /\ Placed(s)'
  BY <1>1, <1>2, <1>3, <1>4 DEF Progress, Placed, Working
<1> QED BY <1>1, <1>3, <1>5, OwnGo

LEMMA CrashInv ==
  ASSUME Inv, NEW s \in Savers, Crash(s)
  PROVE  Inv' /\ SameIdentities
<1> DEFINE v == [saver[s] EXCEPT !.at = "dead"]
<1>1. /\ saver[s].at # "idle" /\ saver' = [saver EXCEPT ![s] = v]
      /\ UNCHANGED <<dirs, fresh, calls>>
  BY DEF Crash, Go
<1>2. saver[s] \in Calls /\ Placed(s)
  BY OwnPlace
<1>3. v \in Calls /\ v.at = "dead" /\ v.id = saver[s].id
  BY <1>2, Moved DEF Places
<1> HIDE DEF v
<1>4. saver'[s] = v
  BY <1>1, <1>3, OwnPlace
<1>5. Progress(s)' /\ Placed(s)'
  BY <1>1, <1>2, <1>3, <1>4 DEF Progress, Placed, Working
<1> QED BY <1>1, <1>3, <1>5, OwnGo

-----------------------------------------------------------------------------
(* The rename that publishes an identity: nobody was under its name. *)
LEMMA RenameInv ==
  ASSUME Inv, NEW s \in Savers, Rename(s), dirs[saver[s].id] = None
  PROVE  /\ Inv' /\ saver[s].id \in Ids
         /\ \A i \in Ids : dirs'[i] =
              IF i = saver[s].id THEN dirs[s] ELSE dirs[i]
         /\ dirs[s] \in Directories /\ dirs[s].by = s
         /\ fresh' = fresh \cup {saver[s].id}
<1> DEFINE v  == [saver[s] EXCEPT !.at = "saved"]
           id == saver[s].id
<1>1. /\ saver[s].at = "rename" /\ saver' = [saver EXCEPT ![s] = v]
      /\ dirs' = [dirs EXCEPT ![id] = dirs[s], ![s] = None]
      /\ fresh' = fresh \cup {id} /\ UNCHANGED calls
  BY DEF Rename, At, Go
<1>2. /\ saver[s] \in Calls /\ Progress(s) /\ Placed(s)
      /\ dirs[s] \in Directories
  BY <1>1, OwnPlace DEF Placed, Working
<1>3. v \in Calls /\ v.at = "saved" /\ v.id = id
  BY <1>2, Moved DEF Places
<1>4. id \in Ids /\ dirs[s].id = id /\ dirs[s].by = s
  BY <1>1, <1>2 DEF Placed, Working
<1> HIDE DEF v
<1>5. saver'[s] = v
  BY <1>1, <1>3, OwnPlace
<1>6. /\ \A i \in Ids : dirs'[i] = IF i = id THEN dirs[s] ELSE dirs[i]
      /\ \A t \in Savers : t # s => dirs'[t] = dirs[t] /\ saver'[t] = saver[t]
  BY <1>1, <1>4, Separate DEF Inv, Typed
<1>7. Typed'
  <2>1. dirs' \in [Names -> Directories \cup {None}]
    BY <1>1, <1>2, <1>4, Separate DEF Inv, Typed
  <2>2. saver' \in [Savers -> Calls]
    BY <1>1, <1>3 DEF Inv, Typed
  <2>3. fresh' \subseteq Ids /\ \A i \in fresh' : dirs'[i] # None
    BY <1>1, <1>2, <1>4, <1>6, NoDirectory DEF Inv, Typed
  <2> QED BY <2>1, <2>2, <2>3 DEF Typed
<1>8. \A i \in Ids : Sound(i)'
  <2>1. \A f \in Files : dirs[s].files[f] = "safe"
    BY <1>1, <1>2 DEF Progress
  <2>2. \A i \in Ids : Sound(i)
    BY DEF Inv
  <2> QED BY <1>4, <1>6, <2>1, <2>2 DEF Sound
<1>9. ASSUME NEW t \in Savers
      PROVE  Progress(t)' /\ Placed(t)'
  <2>1. CASE t = s
    BY <1>2, <1>3, <1>4, <1>5, <1>6, <2>1, NoDirectory
       DEF Progress, Placed, Working
  <2>2. CASE t # s
    <3>1. Progress(t)'
      BY <1>6, <2>2 DEF Inv, Progress
    <3>2. saver[t].at # "idle" => saver[t].id \in Ids
      BY DEF Inv, Placed
    <3>3. Placed(t)'
      BY <1>4, <1>6, <2>2, <3>2 DEF Inv, Placed, Working
    <3> QED BY <3>1, <3>3
  <2> QED BY <2>1, <2>2
<1>10. Published \subseteq Published'
  BY <1>2, <1>6, NoDirectory DEF Published
<1>11. Listing' /\ Opening'
  <2>1. Listing'
    BY <1>1, <1>10 DEF Inv, Listing, calls
  <2>2. Opening'
    BY <1>1, <1>6 DEF Inv, Opening, calls
  <2> QED BY <2>1, <2>2
<1> QED BY <1>1, <1>2, <1>4, <1>6, <1>7, <1>8, <1>9, <1>11 DEF Inv

(* The rename that finds an identity under the name. *)
LEMMA RenameRefused ==
  ASSUME Inv, NEW s \in Savers, Rename(s), dirs[saver[s].id] # None
  PROVE  Inv' /\ SameIdentities
<1> DEFINE v == [saver[s] EXCEPT !.at = "cleanup"]
<1>1. /\ saver[s].at = "rename" /\ saver' = [saver EXCEPT ![s] = v]
      /\ UNCHANGED <<dirs, fresh, calls>>
  BY DEF Rename, At, Go
<1>2. saver[s] \in Calls /\ Placed(s)
  BY OwnPlace
<1>3. v \in Calls /\ v.at = "cleanup" /\ v.id = saver[s].id
  BY <1>2, Moved DEF Places
<1> HIDE DEF v
<1>4. saver'[s] = v
  BY <1>1, <1>3, OwnPlace
<1>5. Progress(s)' /\ Placed(s)'
  BY <1>1, <1>2, <1>3, <1>4 DEF Progress, Placed, Working
<1> QED BY <1>1, <1>3, <1>5, OwnGo

LEMMA SaveInv ==
  ASSUME Inv, NEW s \in Savers, Save(s)
  PROVE  /\ Inv'
         /\ SameIdentities \/ (Rename(s) /\ dirs[saver[s].id] = None)
         /\ fresh' \in {fresh, {}} \/ Rename(s)
<1>1. CASE \E id \in Ids : Check(s, id)
  BY <1>1, CheckInv DEF Check
<1>2. CASE MakeTemporary(s)
  BY <1>2, MakeTemporaryInv DEF MakeTemporary
<1>3. CASE Write(s)
  BY <1>3, WriteInv DEF Write
<1>4. CASE Sync(s)
  BY <1>4, SyncInv DEF Sync
<1>5. CASE Rename(s)
  BY <1>5, RenameInv, RenameRefused
<1>6. CASE Raise(s)
  BY <1>6, RaiseInv DEF Raise
<1>7. CASE \E f \in Files : Unlink(s, f)
  BY <1>7, UnlinkInv DEF Unlink
<1>8. CASE RemoveDirectory(s)
  BY <1>8, RemoveDirectoryInv DEF RemoveDirectory
<1>9. CASE Crash(s)
  BY <1>9, CrashInv DEF Crash
<1>10. CASE Escapes(s)
  BY <1>10, EscapesInv DEF Escapes
<1> QED BY <1>1, <1>2, <1>3, <1>4, <1>5, <1>6, <1>7, <1>8, <1>9, <1>10
       DEF Save

-----------------------------------------------------------------------------
(* A power loss tears no file that was synchronised. *)
LEMMA KeptSafe ==
  ASSUME NEW n, NEW torn, dirs[n] \in Directories \cup {None}
  PROVE  /\ Kept(n, torn) \in Directories \cup {None}
         /\ Kept(n, torn) = None <=> dirs[n] = None
         /\ dirs[n] # None =>
              /\ Kept(n, torn).id = dirs[n].id /\ Kept(n, torn).by = dirs[n].by
              /\ \A f \in Files : dirs[n].files[f] = "safe" =>
                   Kept(n, torn).files[f] = "safe"
<1>1. CASE dirs[n] = None
  BY <1>1 DEF Kept
<1>2. CASE dirs[n] # None
  <2> DEFINE g == [f \in Files |->
                     IF f \in torn /\ dirs[n].files[f] = "whole" THEN "torn"
                                                     ELSE dirs[n].files[f]]
  <2>1. dirs[n] \in Directories
    BY <1>2
  <2>2. g \in [Files -> Contents]
    BY <2>1 DEF Directories, Contents
  <2>3. Kept(n, torn) = [dirs[n] EXCEPT !.files = g]
    BY <1>2 DEF Kept
  <2>4. \A f \in Files : dirs[n].files[f] = "safe" => g[f] = "safe"
    OBVIOUS
  <2> HIDE DEF g
  <2> QED BY <1>2, <2>1, <2>2, <2>3, <2>4, NoDirectory DEF Directories
<1> QED BY <1>1, <1>2

LEMMA PowerLossInv ==
  ASSUME Inv, NEW lost \in SUBSET fresh, NEW torn \in SUBSET Files,
         PowerLoss(lost, torn)
  PROVE  /\ Inv' /\ lost \in SUBSET Ids /\ fresh' = {}
         /\ \A i \in Ids :
              /\ dirs'[i] = None <=> i \in lost \/ dirs[i] = None
              /\ dirs'[i] # None => dirs'[i].by = dirs[i].by
<1>1. lost \subseteq Ids /\ \A i \in lost : dirs[i] # None /\ dirs[i].by \notin Ids
  <2>1. ASSUME NEW i \in lost
        PROVE  i \in Ids /\ dirs[i] # None /\ dirs[i].by \notin Ids
    <3>1. i \in Ids /\ i \in Names /\ dirs[i] # None
      BY DEF Inv, Typed, Names
    <3>2. dirs[i].by \in Savers
      BY <3>1 DEF Inv, Typed, Directories
    <3> QED BY <3>1, <3>2, StoreAssumption
  <2> QED BY <2>1
<1>2. \A n \in Names : dirs[n] \in Directories \cup {None}
  BY DEF Inv, Typed
<1>3. \A n \in Names : dirs'[n] =
        IF n \in lost THEN None
        ELSE IF \E i \in lost : dirs[i].by = n
        THEN Kept(CHOOSE i \in lost : dirs[i].by = n, torn)
        ELSE Kept(n, torn)
  BY DEF PowerLoss
<1>4. \A i \in Ids : dirs'[i] = IF i \in lost THEN None ELSE Kept(i, torn)
  BY <1>1, <1>3 DEF Names
<1>5. \A i \in Ids :
        /\ dirs'[i] = None <=> i \in lost \/ dirs[i] = None
        /\ dirs'[i] # None =>
             /\ dirs'[i].id = dirs[i].id /\ dirs'[i].by = dirs[i].by
             /\ \A f \in Files : dirs[i].files[f] = "safe" =>
                  dirs'[i].files[f] = "safe"
  BY <1>2, <1>4, KeptSafe DEF Names
<1>6. /\ fresh' = {} /\ lister' = Resting /\ opener' = Closed
      /\ saver' = [s \in Savers |->
           IF At(s, "idle") THEN saver[s] ELSE [saver[s] EXCEPT !.at = "dead"]]
  BY DEF PowerLoss
<1>7. ASSUME NEW s \in Savers
      PROVE  /\ saver'[s] \in Calls
             /\ IF saver[s].at = "idle" THEN saver'[s] = saver[s]
                ELSE saver'[s].at = "dead" /\ saver'[s].id = saver[s].id
  <2>1. saver[s] \in Calls /\ "dead" \in Places
    BY DEF Inv, Typed, Places
  <2>2. saver'[s] = IF saver[s].at = "idle" THEN saver[s]
                    ELSE [saver[s] EXCEPT !.at = "dead"]
    BY <1>6 DEF At
  <2> QED BY <2>1, <2>2, Moved
<1>8. Typed'
  <2>1. ASSUME NEW n \in Names
        PROVE  dirs'[n] \in Directories \cup {None}
    <3>1. ASSUME \E i \in lost : dirs[i].by = n
          PROVE  (CHOOSE i \in lost : dirs[i].by = n) \in Names
      BY <1>1, <3>1 DEF Names
    <3> QED BY <1>2, <1>3, <3>1, KeptSafe
  <2>2. dirs' \in [Names -> Directories \cup {None}]
    BY <2>1 DEF PowerLoss
  <2>3. saver' \in [Savers -> Calls]
    BY <1>6, <1>7
  <2> QED BY <1>6, <2>2, <2>3 DEF Typed
<1>9. \A i \in Ids : Sound(i)'
  BY <1>5 DEF Inv, Sound
<1>10. ASSUME NEW s \in Savers
       PROVE  Progress(s)' /\ Placed(s)'
  <2>1. CASE saver[s].at # "idle"
    BY <1>7, <2>1 DEF Inv, Progress, Placed, Working
  <2>2. CASE saver[s].at = "idle"
    <3>1. saver'[s] = saver[s] /\ Placed(s)
      BY <1>7, <2>2 DEF Inv
    <3>2. /\ dirs[s] = None /\ s \notin lost /\ s \in Names
          /\ ~\E i \in lost : dirs[i].by = s
      BY <1>1, <2>2, <3>1, Separate DEF Placed
    <3>3. dirs'[s] = None
      BY <1>3, <3>2 DEF Kept
    <3> QED BY <1>5, <2>2, <3>1, <3>3 DEF Progress, Placed, Working
  <2> QED BY <2>1, <2>2
<1>11. Listing' /\ Opening'
  BY <1>6 DEF Listing, Opening, Resting, Closed
<1> QED BY <1>1, <1>5, <1>6, <1>8, <1>9, <1>10, <1>11 DEF Inv

-----------------------------------------------------------------------------
LEMMA ListInv ==
  ASSUME Inv, ListBegin \/ (\E n \in Names : ListNext(n)) \/ ListEnd
  PROVE  Inv'
<1>1. UNCHANGED <<dirs, saver, fresh, opener>>
  BY DEF ListBegin, ListNext, ListEnd
<1>2. Listing'
  <2>1. CASE ListBegin
    BY <2>1 DEF ListBegin, Listing, Published, Names
  <2>2. ASSUME NEW n \in Names, ListNext(n)
        PROVE  Listing'
    <3>1. /\ dirs[n] \in Directories \cup {None}
          /\ n \in Ids => Sound(n)
      BY DEF Inv, Typed
    <3>2. Loads(n) => n \in Ids /\ dirs[n] # None /\ dirs[n].id = n
      BY <3>1 DEF Loads, Directories
    <3>3. n \in Published => Loads(n)
      BY <3>1, TheFiles DEF Published, Loads, Sound, Readable
    <3>4. lister' = [lister EXCEPT
            !.todo = lister.todo \ {n},
            !.found = IF Loads(n) THEN lister.found \cup {n}
                                  ELSE lister.found]
      BY <2>2, <3>2 DEF ListNext
    <3>5. /\ Listing /\ Published' = Published
          /\ lister.at = "list" /\ n \in lister.todo
      BY <1>1, <2>2 DEF Inv, Published, ListNext
    <3>6. CASE Loads(n)
      <4>1. n \in Published /\ lister' = [lister EXCEPT
              !.todo = lister.todo \ {n}, !.found = lister.found \cup {n}]
        BY <3>2, <3>4, <3>6 DEF Published
      <4> QED BY <3>5, <4>1 DEF Listing, Published
    <3>7. CASE ~Loads(n)
      <4>1. n \notin Published /\ lister' = [lister EXCEPT
              !.todo = lister.todo \ {n}, !.found = lister.found]
        BY <3>3, <3>4, <3>7
      <4> QED BY <3>5, <4>1 DEF Listing
    <3> QED BY <3>6, <3>7
  <2>3. CASE ListEnd
    BY <1>1, <2>3 DEF Inv, ListEnd, Listing, Published
  <2> QED BY <2>1, <2>2, <2>3
<1>3. Typed' /\ \A i \in Ids : Sound(i)'
  BY <1>1 DEF Inv, Typed, Sound
<1>4. Opening' /\ \A s \in Savers : Progress(s)' /\ Placed(s)'
  BY <1>1 DEF Inv, Opening, Progress, Placed
<1> QED BY <1>2, <1>3, <1>4 DEF Inv

LEMMA OpenInv ==
  ASSUME Inv, (\E id \in Ids : OpenBegin(id)) \/ OpenKey
  PROVE  Inv'
<1>1. UNCHANGED <<dirs, saver, fresh, lister>>
  BY DEF OpenBegin, OpenKey
<1>2. Opening'
  <2>1. ASSUME NEW id \in Ids, OpenBegin(id)
        PROVE  Opening'
    <3>1. dirs[id] # None /\ dirs[id] \in Directories
      BY <2>1, Separate DEF Inv, Typed, OpenBegin, Loads, Names
    <3> QED BY <1>1, <2>1, <3>1 DEF OpenBegin, Opening, Directories
  <2>2. CASE OpenKey
    <3>1. /\ opener.id \in Ids /\ dirs[opener.id] # None
          /\ dirs[opener.id].by = opener.by /\ Sound(opener.id)
      BY <2>2 DEF Inv, Opening, OpenKey
    <3>2. opener' = [opener EXCEPT !.at = "unlocked"]
      BY <2>2, <3>1, TheFiles DEF OpenKey, Loads, Sound, Readable
    <3> QED BY <3>2 DEF Inv, Opening
  <2> QED BY <2>1, <2>2
<1>3. Typed' /\ \A i \in Ids : Sound(i)'
  BY <1>1 DEF Inv, Typed, Sound
<1>4. Listing' /\ \A s \in Savers : Progress(s)' /\ Placed(s)'
  BY <1>1 DEF Inv, Listing, Published, Progress, Placed
<1> QED BY <1>2, <1>3, <1>4 DEF Inv

LEMMA NextInv ==
  ASSUME Inv, [Next]_vars
  PROVE  Inv'
<1>1. CASE UNCHANGED vars
  <2>1. UNCHANGED <<dirs, saver, fresh, lister, opener>>
    BY <1>1 DEF vars, calls
  <2>2. Typed' /\ \A i \in Ids : Sound(i)'
    BY <2>1 DEF Inv, Typed, Sound
  <2>3. Listing' /\ Opening'
    BY <2>1 DEF Inv, Listing, Opening, Published
  <2>4. \A s \in Savers : Progress(s)' /\ Placed(s)'
    BY <2>1 DEF Inv, Progress, Placed
  <2> QED BY <2>2, <2>3, <2>4 DEF Inv
<1> QED BY <1>1, SaveInv, PowerLossInv, ListInv, OpenInv DEF Next

THEOREM AlwaysInv == Spec => []Inv
<1>1. Init => Inv
  BY InitInv
<1>2. Inv /\ [Next]_vars => Inv'
  BY NextInv
<1> QED BY <1>1, <1>2, PTL DEF Spec

-----------------------------------------------------------------------------
LEMMA TheOwner ==
  ASSUME Inv, NEW i \in Ids
  PROVE  Owner(i) = IF dirs[i] = None THEN None ELSE dirs[i].by
BY TheFiles DEF Inv, Sound, Owner, Complete, Readable

LEMMA OwnerLater ==
  ASSUME Inv', NEW i \in Ids
  PROVE  Owner(i)' = IF dirs'[i] = None THEN None ELSE dirs'[i].by
BY TheFiles DEF Inv, Sound, Owner, Complete, Readable

(* private_store.py:94-136 is atomic to whoever looks at the names of the  *)
(* identities: every step of it, and every crash and power loss, is one    *)
(* that the directory of immutable identities may take, or none of its.    *)
THEOREM Atomic == Spec => ImplementsDirectory
<1>1. Init => Directory!Init
  <2> SUFFICES ASSUME Init
               PROVE  Directory!Init
    OBVIOUS
  <2>1. \A i \in Ids : Owner(i) = None
    BY DEF Init, Names, Owner
  <2> QED BY <2>1 DEF Init, Directory!Init
<1>2. Inv /\ Inv' /\ [Next]_vars => [Directory!Next]_(Directory!vars)
  <2> SUFFICES ASSUME Inv, Inv', [Next]_vars
               PROVE  [Directory!Next]_(Directory!vars)
    OBVIOUS
  <2> DEFINE published == [i \in Ids |-> Owner(i)]
  <2>1. ASSUME SameIdentities, fresh' \in {fresh, {}}
        PROVE  [Directory!Next]_(Directory!vars)
    <3>1. published' = published
      BY <2>1, TheOwner, OwnerLater DEF SameIdentities
    <3> QED BY <2>1, <3>1 DEF Directory!Next, Directory!vars, Directory!Settle
  <2>2. ASSUME NEW s \in Savers, Rename(s), dirs[saver[s].id] = None
        PROVE  Directory!Next
    <3> DEFINE id == saver[s].id
    <3>1. /\ id \in Ids /\ fresh' = fresh \cup {id}
          /\ \A i \in Ids : dirs'[i] = IF i = id THEN dirs[s] ELSE dirs[i]
          /\ dirs[s] # None /\ dirs[s].by = s
      BY <2>2, RenameInv, NoDirectory
    <3> HIDE DEF id
    <3>2. \A i \in Ids : Owner(i)' = IF i = id THEN s ELSE Owner(i)
      BY <3>1, TheOwner, OwnerLater
    <3>3. published[id] = None /\ published' = [published EXCEPT ![id] = s]
      BY <2>2, <3>1, <3>2, TheOwner DEF id
    <3> QED BY <3>1, <3>3 DEF Directory!Next, Directory!Publish
  <2>3. ASSUME NEW lost \in SUBSET fresh, NEW torn \in SUBSET Files,
               PowerLoss(lost, torn)
        PROVE  Directory!Next
    <3>1. /\ lost \in SUBSET Ids /\ fresh' = {}
          /\ \A i \in Ids :
               /\ dirs'[i] = None <=> i \in lost \/ dirs[i] = None
               /\ dirs'[i] # None => dirs'[i].by = dirs[i].by
      BY <2>3, PowerLossInv
    <3>2. \A i \in Ids : Owner(i)' = IF i \in lost THEN None ELSE Owner(i)
      BY <3>1, TheOwner, OwnerLater
    <3>3. published' = [i \in Ids |-> IF i \in lost THEN None ELSE published[i]]
      BY <3>2
    <3> QED BY <2>3, <3>1, <3>3 DEF Directory!Next, Directory!Lose
  <2>4. CASE \E s \in Savers : Save(s)
    BY <2>1, <2>2, <2>4, SaveInv, RenameRefused DEF Rename
  <2>5. CASE ListBegin \/ (\E n \in Names : ListNext(n)) \/ ListEnd
    BY <2>1, <2>5 DEF ListBegin, ListNext, ListEnd, SameIdentities
  <2>6. CASE (\E id \in Ids : OpenBegin(id)) \/ OpenKey
    BY <2>1, <2>6 DEF OpenBegin, OpenKey, SameIdentities
  <2>7. CASE UNCHANGED vars
    BY <2>1, <2>7 DEF vars, SameIdentities
  <2> QED BY <2>3, <2>4, <2>5, <2>6, <2>7 DEF Next
<1> QED BY <1>1, <1>2, AlwaysInv, PTL
       DEF Spec, ImplementsDirectory, Directory!Spec

(* A saver that was told of a success owns the identity; one that was told *)
(* of an error put nothing under a name, and its temporary directory is    *)
(* gone when the error was an IdentityStorageError, which it is unless     *)
(* mkdtemp or the cleanup raised (private_store.py:93-96, 114-120).        *)
THEOREM Told == Spec => []OutcomeTold
<1>1. Inv => OutcomeTold
  <2> SUFFICES ASSUME Inv, NEW s \in Savers
               PROVE  /\ At(s, "saved") => Owner(saver[s].id) = s
                      /\ saver[s].at \in {"failed", "refused", "raised"} =>
                           \A i \in Ids : Owner(i) # s
                      /\ saver[s].at \in {"failed", "refused"} =>
                           dirs[s] = None
    BY DEF OutcomeTold
  <2>1. Placed(s)
    BY DEF Inv
  <2>2. None # s
    BY StoreAssumption
  <2> QED BY <2>1, <2>2, TheOwner DEF Placed, At
<1> QED BY <1>1, AlwaysInv, PTL

(* A listing is exact and what was loaded still opens, whatever was saved, *)
(* failed or crashed in between (web/app.py, private_store.py:139-185).    *)
THEOREM Exact == Spec => []ListedExact
<1>1. Inv => ListedExact
  BY DEF Inv, Listing, ListedExact
<1> QED BY <1>1, AlwaysInv, PTL

(* A decoding that was asked for opens the identity it was asked for.      *)
THEOREM Opens == Spec => []OpensLater
<1>1. Inv => OpensLater
  BY DEF Inv, Opening, OpensLater
<1> QED BY <1>1, AlwaysInv, PTL
=============================================================================
