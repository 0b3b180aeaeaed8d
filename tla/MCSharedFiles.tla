--------------------------- MODULE MCSharedFiles ---------------------------
(* Model checking of files that outlive a process or that several write at *)
(* once: the sessions and the project memory of an SQLite file             *)
(* (SqliteStorage, ProjectMemory), a file that tools edit                  *)
(* (FileMutationQueue), the credentials of auth.json (AuthStorage) and the *)
(* session file of the coding agent (SessionFile), one of them in each     *)
(* behaviour.                                                              *)
EXTENDS SqliteStorage, ProjectMemory, FileMutationQueue, AuthStorage,
        SessionFile, TLC

VARIABLE subject

mcVars == <<sqlVars, projectVars, fileVars, authVars, sessionFileVars, subject>>

(* Processes, agents and the owners of auth.json are the same model values: *)
(* they never meet in a behaviour.                                         *)
Symmetry == Permutations(Ids) \cup Permutations(Processes)

(* What callers do: messages on the main lane, which they move back to any *)
(* entry or before the first.                                              *)
BranchCommands ==
  [op : {"appendEntry"}, id : Ids, lane : {Main}, ref : {Null}, type : {"message"}]
  \cup
  [op : {"moveLane"}, id : {Null}, lane : {Main}, ref : Ids \cup {Null}, type : {"set"}]

(* Claims, mutations, deletions and repairs of a session together; a fork  *)
(* counts for two.                                                         *)
SqlBudget ==
  claims + rows.sequence + deletes + repairs + (IF fork.pc = "none" THEN 0 ELSE 2) <= 6

(* Every process may have two calls under way.                             *)
TwoEach == AuthProcesses \X {1, 2}

MCInit ==
  /\ subject \in {"sessions", "project", "file", "credentials", "session"}
  /\ SqlInit /\ ProjectInit /\ FilesInit /\ AuthInit /\ SessionFileInit
  /\ subject # "file" => onDisk.exists

SessionsNext ==
  /\ subject = "sessions" /\ SqlNext
  /\ UNCHANGED <<projectVars, fileVars, authVars, sessionFileVars, subject>>
RecordsNext ==
  /\ subject = "project" /\ ProjectNext
  /\ UNCHANGED <<sqlVars, fileVars, authVars, sessionFileVars, subject>>
FileNext ==
  /\ subject = "file" /\ FilesNext
  /\ UNCHANGED <<sqlVars, projectVars, authVars, sessionFileVars, subject>>
CredentialsNext ==
  /\ subject = "credentials" /\ AuthNext
  /\ UNCHANGED <<sqlVars, projectVars, fileVars, sessionFileVars, subject>>

SessionNext ==
  /\ subject = "session" /\ SessionFileNext
  /\ UNCHANGED <<sqlVars, projectVars, fileVars, authVars, subject>>

MCNext == SessionsNext \/ RecordsNext \/ FileNext \/ CredentialsNext \/ SessionNext

MCSpec == MCInit /\ [][MCNext]_mcVars

(* All of them keep the types of their variables.                          *)
SharedFilesTypeOK ==
  SqlTypeOK /\ ProjectTypeOK /\ FileTypeOK /\ AuthTypeOK /\ SessionFileTypeOK

=============================================================================
