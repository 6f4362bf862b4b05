----------------------------- MODULE IdentityStore -----------------------------
(***************************************************************************)
(* crypto/private_store.py: processes that save identities in one          *)
(* directory, each in a hidden temporary directory that is renamed when    *)
(* its files are written and synchronised, while others list and unlock    *)
(* what is there (web/app.py).  A process may fail or crash anywhere, and  *)
(* the machine may lose its power.                                         *)
(***************************************************************************)
EXTENDS Integers, Sequences

CONSTANTS
  Ids,      \* identity_id: one for each public address
  Savers,   \* calls of save_identity; a retry is another one
  None

ASSUME StoreAssumption == Ids \cap Savers = {} /\ None \notin Ids \cup Savers

(* The order of save_identity. *)
FileOrder == <<"address", "key", "metadata">>
Files     == {"address", "key", "metadata"}

(* A file is not there, torn, whole but only in memory, or on the disk.    *)
Contents  == {"absent", "torn", "whole", "safe"}
Readable  == {"whole", "safe"}

(* Names in identities_dir: the identities, and what mkdtemp makes.        *)
Names       == Ids \cup Savers
Directories == [id : Ids, by : Savers, files : [Files -> Contents]]

ASSUME NoDirectory == None \notin Directories

VARIABLES
  dirs,    \* the directories
  saver,   \* where each call of save_identity is, with its identity
  fresh,   \* identities renamed since a file was last synchronised
  lister,  \* _list_identities
  opener   \* unlock_identity, with the passphrase of a creator

calls == <<lister, opener>>
vars  == <<dirs, saver, fresh, calls>>

-----------------------------------------------------------------------------
Idle    == [at |-> "idle", id |-> None, n |-> 0]
Resting == [at |-> "idle", todo |-> {}, found |-> {}, before |-> {}]
Closed  == [at |-> "idle", id |-> None, by |-> None]

Init ==
  /\ dirs = [n \in Names |-> None]
  /\ saver = [s \in Savers |-> Idle]
  /\ fresh = {}
  /\ lister = Resting /\ opener = Closed

At(s, place)  == saver[s].at = place
Go(s, place)  == saver' = [saver EXCEPT ![s].at = place]
File(s)       == FileOrder[saver[s].n]
Put(s, state) == dirs' = [dirs EXCEPT ![s].files[File(s)] = state]

(* destination.exists() *)
Check(s, id) ==
  /\ At(s, "idle")
  /\ saver' = [saver EXCEPT ![s] =
       [at |-> IF dirs[id] = None THEN "mkdtemp" ELSE "refused",
        id |-> id, n |-> 1]]
  /\ UNCHANGED <<dirs, fresh, calls>>

MakeTemporary(s) ==
  /\ At(s, "mkdtemp")
  /\ dirs' = [dirs EXCEPT ![s] =
       [id |-> saver[s].id, by |-> s, files |-> [f \in Files |-> "absent"]]]
  /\ Go(s, "write")
  /\ UNCHANGED <<fresh, calls>>

(* _write_private_file: a new file is written and flushed ... *)
Write(s) ==
  /\ At(s, "write")
  /\ Put(s, "whole")
  /\ Go(s, "sync")
  /\ UNCHANGED <<fresh, calls>>

Written(s) ==
  LET v == saver[s]
  IN  saver' = [saver EXCEPT ![s] =
        IF v.n < Len(FileOrder) THEN [v EXCEPT !.at = "write", !.n = v.n + 1]
                                ELSE [v EXCEPT !.at = "rename"]]

(* Mutant of Sync: the file is not synchronised. *)
SyncNot(s) ==
  /\ At(s, "sync")
  /\ Written(s)
  /\ UNCHANGED <<dirs, fresh, calls>>

(* ... and synchronised; so are all changes of directories before it.      *)
Sync(s) ==
  /\ At(s, "sync")
  /\ Put(s, "safe")
  /\ Written(s)
  /\ fresh' = {}
  /\ UNCHANGED calls

(* Mutant of Rename: what is at the destination is replaced. *)
RenameOver(s) ==
  /\ At(s, "rename")
  /\ dirs' = [dirs EXCEPT ![saver[s].id] = dirs[s], ![s] = None]
  /\ fresh' = fresh \cup {saver[s].id}
  /\ Go(s, "saved")
  /\ UNCHANGED calls

(* rename fails on a destination that is there: it is never empty.         *)
Rename(s) ==
  /\ At(s, "rename")
  /\ IF dirs[saver[s].id] = None
     THEN /\ dirs' = [dirs EXCEPT ![saver[s].id] = dirs[s], ![s] = None]
          /\ fresh' = fresh \cup {saver[s].id}
          /\ Go(s, "saved")
     ELSE Go(s, "cleanup") /\ UNCHANGED <<dirs, fresh>>
  /\ UNCHANGED calls

(* A step raises: the file of a write may be torn.                         *)
Raise(s) ==
  /\ saver[s].at \in {"write", "sync", "rename"}
  /\ \/ UNCHANGED dirs
     \/ At(s, "write") /\ Put(s, "torn")
  /\ Go(s, "cleanup")
  /\ UNCHANGED <<fresh, calls>>

(* The children are removed one by one, and then the directory; the caller *)
(* is told of an IdentityStorageError.                                     *)
Unlink(s, f) ==
  /\ At(s, "cleanup")
  /\ dirs[s].files[f] # "absent"
  /\ dirs' = [dirs EXCEPT ![s].files[f] = "absent"]
  /\ UNCHANGED <<saver, fresh, calls>>

(* Mutant of RemoveDirectory: rmdir of a directory with files, and its     *)
(* error is lost.                                                          *)
RemoveDirectoryFull(s) ==
  /\ At(s, "cleanup")
  /\ Go(s, "failed")
  /\ dirs' = [dirs EXCEPT ![s] =
       IF \A f \in Files : @.files[f] = "absent" THEN None ELSE @]
  /\ UNCHANGED <<fresh, calls>>

RemoveDirectory(s) ==
  /\ At(s, "cleanup")
  /\ \A f \in Files : dirs[s].files[f] = "absent"
  /\ dirs' = [dirs EXCEPT ![s] = None]
  /\ Go(s, "failed")
  /\ UNCHANGED <<fresh, calls>>

(* mkdtemp raises, or the cleanup itself does, at any child or at the      *)
(* directory: what is left of it stays, and the caller is told of the      *)
(* OSError instead.                                                        *)
Escapes(s) ==
  /\ saver[s].at \in {"mkdtemp", "cleanup"}
  /\ Go(s, "raised")
  /\ UNCHANGED <<dirs, fresh, calls>>

(* The process dies; nobody removes its temporary directory.               *)
Crash(s) ==
  /\ saver[s].at \in {"mkdtemp", "write", "sync", "rename", "cleanup"}
  /\ Go(s, "dead")
  /\ UNCHANGED <<dirs, fresh, calls>>

(* The power is lost (external: the file system).  Files that were not     *)
(* synchronised may be torn, and the newest renames may be undone.         *)
Kept(n, torn) ==
  IF dirs[n] = None THEN None
  ELSE [dirs[n] EXCEPT !.files =
          [f \in Files |-> IF f \in torn /\ @[f] = "whole" THEN "torn"
                                                            ELSE @[f]]]

PowerLoss(lost, torn) ==
  /\ lost \subseteq fresh
  /\ dirs' = [n \in Names |->
       IF n \in lost THEN None
       ELSE IF \E i \in lost : dirs[i].by = n
       THEN Kept(CHOOSE i \in lost : dirs[i].by = n, torn)
       ELSE Kept(n, torn)]
  /\ saver' = [s \in Savers |->
       IF At(s, "idle") THEN saver[s] ELSE [saver[s] EXCEPT !.at = "dead"]]
  /\ fresh' = {}
  /\ lister' = Resting /\ opener' = Closed

-----------------------------------------------------------------------------
(* _list_identities: the names that are there ...                          *)
Published == {i \in Ids : dirs[i] # None}

ListBegin ==
  /\ lister.at = "idle"
  /\ lister' = [at |-> "list", todo |-> {n \in Names : dirs[n] # None},
                found |-> {}, before |-> Published]
  /\ UNCHANGED <<dirs, saver, fresh, opener>>

(* Mutant of Loads: the name is not compared with the address. *)
LoadsAny(n) == dirs[n] # None /\ dirs[n].files["address"] \in Readable

(* load_identity_address: of a directory that is still there, the address  *)
(* can be read and its identity is the directory's name.                   *)
Loads(n) ==
  /\ dirs[n] # None
  /\ dirs[n].files["address"] \in Readable
  /\ dirs[n].id = n

(* ... are loaded one after the other; those that do not load are left out. *)
ListNext(n) ==
  /\ lister.at = "list" /\ n \in lister.todo
  /\ lister' = [lister EXCEPT
       !.todo = @ \ {n},
       !.found = IF Loads(n) THEN @ \cup {dirs[n].id} ELSE @]
  /\ UNCHANGED <<dirs, saver, fresh, opener>>

ListEnd ==
  /\ lister.at = "list" /\ lister.todo = {}
  /\ lister' = [lister EXCEPT !.at = "listed"]
  /\ UNCHANGED <<dirs, saver, fresh, opener>>

(* decode_work loads the address when it is asked ... *)
OpenBegin(id) ==
  /\ opener.at = "idle"
  /\ Loads(id)
  /\ opener' = [at |-> "address", id |-> id, by |-> dirs[id].by]
  /\ UNCHANGED <<dirs, saver, fresh, lister>>

(* ... and unlock_identity, later in the worker, once more, with the key.  *)
OpenKey ==
  /\ opener.at = "address"
  /\ opener' = [opener EXCEPT !.at =
       IF /\ Loads(opener.id)
          /\ dirs[opener.id].files["key"] \in Readable
          /\ dirs[opener.id].by = opener.by
       THEN "unlocked" ELSE "locked"]
  /\ UNCHANGED <<dirs, saver, fresh, lister>>

Save(s) ==
  \/ \E id \in Ids : Check(s, id)
  \/ MakeTemporary(s) \/ Write(s) \/ Sync(s) \/ Rename(s)
  \/ Raise(s) \/ (\E f \in Files : Unlink(s, f)) \/ RemoveDirectory(s)
  \/ Escapes(s) \/ Crash(s)

Next ==
  \/ \E s \in Savers : Save(s)
  \/ \E lost \in SUBSET fresh, torn \in SUBSET Files : PowerLoss(lost, torn)
  \/ ListBegin \/ (\E n \in Names : ListNext(n)) \/ ListEnd
  \/ (\E id \in Ids : OpenBegin(id)) \/ OpenKey

Spec == Init /\ [][Next]_vars

-----------------------------------------------------------------------------
(* "Atomically create one immutable private identity directory"            *)
(* (private_store.py): whoever looks at an identity's name sees all its    *)
(* files, whole and of one creator, or nothing; it is never replaced.      *)
Complete(i) ==
  /\ dirs[i].id = i
  /\ \A f \in Files : dirs[i].files[f] \in Readable

Owner(i) ==
  IF dirs[i] = None THEN None ELSE IF Complete(i) THEN dirs[i].by ELSE "broken"

Directory == INSTANCE IdentityDirectory WITH
  Owners <- Savers, Nobody <- None,
  published <- [i \in Ids |-> Owner(i)], fresh <- fresh

ImplementsDirectory == Directory!Spec

(* A save that succeeds is the one whose identity is there, and one that   *)
(* raises, whatever raised, has put nothing under a name.  Only an         *)
(* IdentityStorageError says that its temporary directory is gone as well. *)
OutcomeTold ==
  \A s \in Savers :
    /\ At(s, "saved") => Owner(saver[s].id) = s
    /\ saver[s].at \in {"failed", "refused", "raised"} =>
         \A i \in Ids : Owner(i) # s
    /\ saver[s].at \in {"failed", "refused"} => dirs[s] = None

(* A listing has every identity that was there when it began, and none     *)
(* that is not there when it ends, whatever temporary directory it met.    *)
ListedExact ==
  lister.at = "listed" =>
    lister.before \subseteq lister.found /\ lister.found \subseteq Published

(* What was loaded when a decoding was asked for still opens, with its     *)
(* creator's passphrase, when the worker comes to it.                      *)
OpensLater == opener.at # "locked"
=============================================================================
